# Pinc2 in TLA+

Pinc2 is a C library that opens windows, delivers input events and sets up
OpenGL, on top of SDL2.  Its API is called from one thread.  The specifications
here follow the code under `src/` (`pinc_main.c`, `pinc_sdl2.c` and the
libraries they use).  TLC checks them on small instances.  The TLA+ proof
system proves, for every size, all invariants, action properties and refinements that
the runs find to hold; liveness is left to TLC.

## The system

| Component | State | Operations | Modelled in |
|---|---|---|---|
| Object pools (`PincPool`) | an array of slots, its capacity, a stack of free slots and its capacity | alloc, free, deinit | `PoolOps`, `PincPool` |
| Handles and objects (`PincObject`) | a pool of objects, each with a kind, an index into the pool of that kind, and user data | allocate, reallocate (completion), free, references by kind, user data | `PincObjects` |
| Windows and OpenGL contexts | the list of SDL windows, the dummy window and its in-use flag, what SDL has made current | create, complete, destroy, make current, which context is current, deinit | `PincSdl2Windows`, `PincGlContexts` |
| Events | SDL's queue, back and front buffer, real and visible current window, mouse state | `pincStep`, SDL's and the user's actions | `PincEvents` |
| Initialisation | `initState`, callbacks, root allocator, arena, backend, formats | preinit setters, `pincInitIncomplete`, `pincInitComplete`, queries, `pincDeinit` | `PincLifecycle` |
| Errors | last error: code, message, recoverable | `pincInternalCallError`, validation, forwarding, cleared by `pincStep` and `pincDeinit` | `PincLifecycle`, in part `PincSdl2Windows` |
| Framebuffer formats | formats told by SDL, the chosen one | query, default | `PincFormats` |
| Window and context properties | an incomplete object's fields, the backend's, SDL's | getters, setters | `PincWindowProps`: sizes and titles |
| Arena (temp allocator) | stack of blocks, empty blocks, offset | allocate, free, reset, deinit (reallocate is never reached) | `PincArena` |
| UTF-8, strings | the decoder's cursor and buffer | decode, validate, format | `PincUtf8`: decode |
| Key tables, backend interface, platform | none of their own | tables, dispatch, operating system calls | not modelled |

How they interact.  Every API call first validates `initState`, looks its
handle up in the object table, and works on the incomplete object or on SDL
through the backend.  Completing a window or context exchanges the object behind
the handle for one of another kind, so it frees in one pool and allocates in
another.  SDL needs a window for OpenGL even when the user has none, so the
backend keeps a *dummy window* that is a user's window at some times and nobody's
at others.  `pincStep` drains SDL's queue into the back buffer, while the
operating system keeps queueing, and swaps the buffers; between two steps the
user reads the front buffer and creates and destroys the windows that events
still name.  Any call may record an error; calls that *forward* errors return
when one is pending, whichever call caused it.

What is hard.  There is one thread, so no data races; what is hard is the order of
calls and of events.  Handles, slots, window structs and SDL window ids are reused.
Polling a queue that the system is still filling stops early at an event of a window
that is gone.  A failed validation does not stop a call.  An operation fails halfway
(SDL makes no window or context) with part of its work done.  One fact is kept in
three places (a window's size) or in two (which context is current), and the copies
are changed at different times.  `PROJECT.json` lists each hazard with its line and
the properties that would catch it.

## Modules

`PoolOps` holds the pool's algorithms as operators on a record: `PoolAlloc`,
`PoolFree` (`pinc_main.c:110-147`).  `FirstCapacity` stands for the constant 8.
It is used by every module that has a pool or an array that doubles.  A free of
the last slot shrinks the pool; any other goes to the free list; allocation
grows a full pool before it looks at the free list, as the code does.

`PincPool` is one pool as a state machine, with the root allocator's view of its
two arrays: `heap` is what was allocated, `badSize` remembers calls that told
the allocator another size.  `live` is a history of the slots handed out.  It
implements `IndexAllocator`: take any index that is free, give it back.

`PincObjects` is the object table over the object pool and the five typed pools,
with contents in each slot (`store`), so that aliasing shows.  `Lookup` is the
family of `PincObject_ref_...`.  It implements `HandleMap`, a map from handles
to objects with kind, contents and user data.  A recycled handle may denote a
new object; it never shows an old object's contents.

`PincSdl2Windows` is the windows and contexts of `pinc_sdl2.c` with the calls of
`pinc_main.c` that reach them.  A `PincSdl2Window` is its address; freed
addresses are allocated again.  `backend` is `PincSdl2WindowBackend`.  `Creations`
says whether SDL can fail to make a window (the code does not look).  A run ends
(`end`) when invalid memory is read (a null dummy window, a freed one, the null
reference of a handle of the wrong kind) or when `pincDeinit` leaves windows open.  It
implements `SpareWindow`: every open window has one owner, or is the one spare
window, which is used before another is opened.

`PincEvents` is `pincStep`.  `StepBegin` resets the arena, each `Poll` is one
turn of the loop in `pincSdl2step`, `PollRefused` is a turn that returns from it,
`StepEnd` the empty queue; the last two swap the buffers.  A text that the decoder
cannot step over (`endlessText`, which `PincUtf8` is about) is a turn that never ends
(`PollHangs`, `DecodeOn`); one that does not fit its buffer is refused.  SDL's actions
interleave with the polling; the user's are between steps.  It implements
`EventStream`: events happen, are delivered in batches in order, and only one
that is refused is dropped.

`PincArena` is the allocator of temporary memory.  A block is a name and its
size, an address a block and an offset.  `GuaranteeCapacity` chooses the top
block, an empty one or a new one; `Reset` is the sort by buckets, in closed form
because the blocks of a bucket have one size.  A request of 0 bytes takes what there
is, or nothing if there is no block, and moves only the padding.  An allocation past the end of its
block is followed as if nothing else were there, so that what the arena does
next can be seen; what it overwrites is not modelled.

`PincLifecycle` is the whole `PincStaticState` as a record; each call is an
operator on it, because calls call each other (`pincInitComplete` does
`pincInitIncomplete`) and each may record several errors on its way.  The pending
error is the last one (`error`), and `pincDeinit` wipes it with all the rest; `told` is
what the error callback or the console was given during the call.  `blocks`
are root allocations, `lost` says why some are unreachable, `crash` that a null
pointer was dereferenced.  `legal` remembers whether the program kept to the
order `pinc.h` documents.  The windows of `PincSdl2Windows` are reduced to what
`pincSdl2deinit` finds, and the events of `PincEvents` to the error that a step ends
with (`Refusals`).

`PincUtf8` is SDL's text input event and `pincDecodeUTF8String`, one turn of its
loop at a time, over the bytes of a well-formed text.  What UTF-8 is (`Encode`) is
defined apart and is what the decoder is held against.  `size_t` wraps at `SizeMax`.
`MCPincUtf8` makes the texts of chosen codepoints.

`PincFormats` is the query of framebuffer formats, one display mode at a time,
into a list that never grows (`pinc_sdl2.c:484` compares the addresses of two
counters), and the loop that chooses the default.  `MCPincFormats` chooses the pixel
formats.

`PincWindowProps` follows a window's size through the three places it is kept
in: the incomplete object, the backend's `PincSdl2Window`, and SDL's window.  SDL may
take a size or not, also of a window it opens (maximized or fullscreen), the system may change it, and `pincStep` copies it back when it
polls the event, which may be late or behind a refused one.  It also counts the
titles that are allocated.  `MCPincWindowProps` adds the symmetry of handles.

`PincGlContexts` is the search for the current context: `pincSdl2glGetCurrentContext`
looks through all slots of the pool of raw contexts, the freed ones too, and SDL may
give a new context the address of a deleted one.  `pincDeinit` deletes none: they go
when it quits SDL, or are left behind (`lost`), perhaps current, when
`pincSdl2deinit` gives up at its assertion.

The proofs are in `PoolOpsProofs`, `PincPoolProofs`, `PincObjectsProofs`,
`PincSdl2WindowsProofs`, `PincEventsProofs`, `PincWindowPropsProofs`,
`PincLifecycleProofs` (`PincLifecycle` and `PincFormats`) and `PincLibsProofs`
(`PincUtf8` and `PincArena`).  `PincPoolProofs` is also about `PincGlContexts`.

How the modules fit together: `PincObjects` is composed of `PoolOps`;
`PincSdl2Windows` and `PincEvents` name objects by handle, which `PincObjects`
justifies (a handle is a key of a map); `PincEvents` and `PincLifecycle` keep of
`PincSdl2Windows` only the dummy window, which stays open when its handle is
destroyed.  `PincWindowProps` keeps of it who owns which window, and
`PincGlContexts` leaves out the windows that contexts are bound to.

Operators whose comment calls them a *faulty variant* are not part of any
specification.  Each is a bug one could have written, and is used to see
that a property fails when the code has that bug.

## Runs

`tlc -config X.cfg M`.  The states are those of a full search.

| Run | Module, cfg | What it shows | Distinct states |
|---|---|---|---|
| `pool` | `PincPool` | slots are never handed out twice, arrays are large enough and no larger than twice what is needed, sizes told on growth are exact, refinement of `IndexAllocator` | 2 836 |
| `objects` | `PincObjects` | a handle owns its slot in the right pool; refinement of `HandleMap` | 142 041 |
| `windows` | `PincSdl2Windows` | every handle has a window of its own, the list has no dangling entry, the in-use flag says whose the dummy window is and leaves the list at two steps only, `pincDeinit` works but at two points; refinement of `SpareWindow` | 35 568 |
| `events` | `PincEvents` | buffers never overflow, focus and mouse chain from event to event, clipboard text lives, refinement of `EventStream`, every event leaves unless a text hangs the step | 731 585 |
| `lifecycle` | `PincLifecycle` | the state never runs ahead of what is live, leaks only in three named ways, legal programs are told of external errors only, but by four named calls, and crash in two named ways only, a recoverable error undoes an initialisation or query but for one | 120 863 |
| `arena` | `PincArena` | allocations in one block never overlap, no block is lost but large ones, the reserve is bounded and largest first (both `ReserveBounded`), and an allocation leaves its block in three named ways only | 582 299 |
| `utf8` | `MCPincUtf8`, `PincUtf8` | the decoder's cursor stays at the starts of codepoints inside the text, a text has one event for each codepoint and those of one and three bytes have its value, every text without a codepoint the decoder cannot step over comes to its end | 68 631 |
| `formats` | `MCPincFormats`, `PincFormats` | each format is offered once, and the default is the best of those after the first, which the choice never scores | 7 395 |
| `window_props` | `MCPincWindowProps`, `PincWindowProps` | the size Pinc remembers is SDL's unless SDL declined the last one or a step was cut short; titles are freed but with a destroyed incomplete window | 2 015 794 |
| `gl_contexts` | `PincGlContexts` | the search finds the current context in a program with at most two at once; with three only a free slot of the same address misleads it; a context that `pincDeinit` left is nobody's | 1 538 392 |

Two further runs check one statement of the documentation each, and TLC finds
it violated:

| Run | Statement | What happens |
|---|---|---|
| `window_shared` | a dummy window without OpenGL is replaced (`pinc_sdl2.c:919`) | the freed struct stays `dummyWindow`; two handles later share a struct |
| `utf8_text_ends` | the decoder returns the number of codepoints (`pinc_utf8.h:28`) | a text with an emoji has a byte whose sequence length is 0: the loop makes no progress and `pincStep` never returns |

`window_shared` has the cfg `PincSdl2Shared`, `utf8_text_ends` has `PincUtf8Ends`.

Other statements hold with exceptions, and the properties name these exceptions, so
that the runs show that there are no more:

- "Pinc deinit should work when called at ANY POINT AT ALL" (`pinc_main.c:868`), but
  it dereferences a null dummy window when nothing was completed, and gives up on a
  window opened for OpenGL that never was a user's (`DeinitWorksBut`).
- The dummy window is in use exactly if it is listed, says an assertion that the build
  leaves out ("Dummy window in use does not match reality", `pinc_sdl2.c:1014`).  That
  comes to be false when the first window of all is opened for OpenGL, and when a spare
  dummy window is given to a further handle (`FlagMatchesListBut`).
- A legal program is told of external errors only, but `pincInitComplete` without SDL2
  reports a failed assertion (`pinc_main.c:835`), so does `pincStep` for events it does
  not expect, `pincOpenglCompleteContext` reports a user error for a legacy profile, and
  `pincDeinit` reports assertions of its own: between the two initialisations for every
  object, whose type it may not ask (`pinc_main.c:884`), and for a listed dummy window
  (`pinc_sdl2.c:639`) (`LegalErrorsAreKnown`).  Those of `pincDeinit` reach
  the callback, though it leaves no error pending.
- A recoverable error undoes the call (`pinc.h:28`).  So it is up to the init state and
  for the queries, but `pincInitComplete`, called first of all, has done the incomplete
  initialisation when it reports one (`InitErrorsUndone`).  It is not so of two calls,
  which the property leaves out: `pincStep` has delivered events and swapped the
  buffers when it refuses one (`pinc_sdl2.c:664`), and `pincOpenglCompleteContext` turns
  the object into a context all the same (`pinc_main.c:2013`).
- An allocation stays within its block, but for the padding that is not counted, for a
  second block, which is used from the offset where the first was left
  (`pinc_arena.c:71`), and, once the offset has left the block, for whatever follows,
  because the room left wraps (`OverrunsOnlyBy`).
- Every event SDL queues leaves in the end, but those before, in and behind a text on
  which the decoder hangs (`pinc_utf8.c:186`, `EveryEventLeaves`).
- The width remembered is SDL's, which `pincSdl2getWindowWidth` asserts, but after a
  size SDL did not take, or a step cut short (`SizesAgree`).
- The linear search is enough for programs with one or two contexts
  (`pinc_sdl2.c:1523`); with three it may find a freed slot (`CurrentContextFound`).

Four more are in the models with no property, because little is needed to
reach them: the pool's free list is allocated in elements and freed in indices
(`pinc_main.c:154`; `badSize` of `PincPool`), the handle of a focused window that is
destroyed stays the current window until the next focus event (`pinc.h:619`;
`WindowDeinit` of
`PincEvents`), the decoder reads codepoints of two bytes as 0 and misreads those of
four (`DecodeSingle`, whose values `EventsMatchText` leaves out), and the arena is reset
as `pincStep` begins, not "at the end of pinc_step()" (`pinc_main.h:233`).

### Bounds

`FirstCapacity` is 1 or 2 in place of 8, so that growth, and growth again, happen with
few elements (4 in `objects`, where growth, the business of `pool`, would only
multiply the states).  `pool`: at most `MaxLive` (6) slots at once, enough for growth
twice, a free in the middle, a free at the end and two free slots in either order; the
number of calls is unbounded.  `objects`: three handles, so two of a kind and one of
another, two contents, and one user value besides the null one.  `windows`: three
handles and three addresses, so that a dummy window, one window more and a third that
moves in the list exist at once; one context (contexts meet only through the dummy
window and what is current); SDL makes every window (`Creations`), but in
`window_shared` it may fail.  `events`: three SDL events, two windows, one of which is
the dummy, and two handles: enough for an event before and after a refused one, and
for two focus changes around another event; one plain window event type stands for
seven that take the same path; button 6 is one SDL knows and Pinc refuses; a text has
three codepoints (`TextLengths`), more than one doubling of the smallest buffer gives
room for, or is too long, or endless. `arena`:
blocks of 6 bytes with a header and an alignment of 2, three bucket sizes and sizes
of nothing (a query of formats that finds none, `pinc_sdl2.c:592`), of a part of a
block, one exactly, two and more than the buckets sort; up to
`MaxAllocs` (3) allocations not freed, `MaxBlocks` (4) blocks, `MaxUsed` (20) bytes,
enough for the offset to wrap.  `lifecycle`: `MaxInits` (3) initialisations whose
memory is not all freed, that is, two repeated initialisations without a `pincDeinit`
between them.  `utf8`: texts of up to `MaxCodepoints` (3) of fifteen codepoints,
chosen on both sides of every boundary of the encoding and of the decoder's tests, so
that a codepoint the decoder reads, one it misreads and one it cannot step over stand
before and after each other; `Capacity` (13) is more than the longest text and
`SizeMax` (16) is near enough for a length below zero to wrap.  `formats`: `MaxModes`
(6) modes of five pixel formats, two of which differ in alpha only and two of which
have one score, and a `ListCapacity` of 4, so that a mode is repeated and the list is
overrun. `window_props`: two handles and two windows (the dummy one and another),
`MaxEvents` (2) events, so that one is refused before the other or two sizes follow
each other, `MaxLost` (1) title lost, lengths 0, 1 and `DefaultLength` (2 for 256).
`gl_contexts`: three contexts, the fewest with which the search errs, and three
addresses; the number of calls is unbounded.

### Fairness

`PincEvents` needs it for `EveryEventLeaves`: weak fairness of `PincStep`, the next
part of `pincStep`.  A call that began goes on (one thread, no waiting), and the main
loop of every example program calls `pincStep` again.  Nothing is assumed of SDL, the
system or the user.  The number of events is bounded, so a step cannot be kept polling
by ever new events; the code has no bound there.  A call need not end: on an endless
text it goes on in the decoder's loop (`DecodeOn`), which is a step of `PincStep` that
changes nothing, and `EveryEventLeaves` names that case.  `PincUtf8` assumes weak fairness of
`Decode` for `DecodableTextEnds`: the loop of the decoder goes on, and when it ends
`pincStep` does.

Deadlock checking is off where the program may stop: `PincSdl2Windows` and
`PincLifecycle` end when the program crashes, and `PincFormats` when a format is
chosen or the list is overrun.

## Proofs

`PincPoolProofs` proves, for every `ElementSize`, `IndexSize`, `FirstCapacity`
and `MaxLive` that the assumptions allow (naturals, positive but for the bound):
`TypeCorrect`, `SlotsArePartitioned`, `WritesAreInBounds`, `FootprintIsBounded`,
`ReallocSizesAreExact` and `PoolImplementsIndexAllocator`.

None of the invariants is inductive alone.  `IInv` conjoins them with
`HeapMatches`: what the allocator holds for an array is its capacity in elements.
That the slots in use and the free list partition the slots below `num` needs
that the free list is without duplicates (else a pop would leave the slot free),
and that `num` is at most the capacity needs that growth comes before the slot is
taken.  The bound on the footprint follows from the partition: when the free list
is empty, the slots below `num` are all in use, so `num` is their number, and a
new slot is only made then.  The capacity follows by the doubling of a full array.

`PoolOpsProofs` has the lemmas on the operators alone, on bare sequences where it
can: what a push or a pop does to the range of a duplicate-free sequence, that
the next slot is never in use, that `PoolAlloc` and `PoolFree` preserve the
partition and the capacities.  The refinement maps `live` to the abstract set:
the next slot is not in it, and lies below `MaxLive` by the bound.

Some definitions are recursive functions, over how much of a sequence has been looked at
or over a set of numbers.  The library's induction theorems cannot be used (they take
an operator), so `NatSetInduction` says of a *set* of numbers with 0 and closed under
the successor that it holds all of them; it follows from the minimal elements of a
well-founded relation.  `RecursiveFunctionExists` is the existence of a function given
by its first value and its step.  Each recursive definition is then shown to be a
function that satisfies its equation, and what it computes by `NatSetInduction`
or by a least counterexample.

`CurrentContextIsFound` (`PincGlContexts`) holds for any number of handles and
addresses: with at most two contexts at once the search finds the current one, with
more only a free slot misleads it, and one that `pincDeinit` left is not found.  Its invariant `GlIInv` relates the slots to the
handles (`ContextsApart`: no two complete contexts have one address, and a slot's front
handle is its owner), says that what is current is complete's (`CurrentIsComplete`),
that the slots are no more than the most contexts there were at once
(`SlotsCounted`), and, for two of them (`TwoContexts`), that only slot 0 can be
free, and that it then holds another address than slot 1: the context of slot 1 was
there when that of slot 0 was destroyed.

`PincObjectsProofs` proves, for every number of objects, contents, user values,
kinds and `FirstCapacity`: `ObjectsTypeCorrect`, `HandlesAlwaysOwnSlots` and
`ObjectsImplementHandleMap`.  The inductive invariant `IInv` adds to
`HandlesOwnSlots` that each pool's arrays have room, without which the lemmas of
`PoolOpsProofs` say nothing.  A step changes the entry of one handle, so its
effect on the pool of a kind is one of three: an object enters (`ObjectEnters`:
the next slot is nobody's, so no two handles come to share one), leaves
(`ObjectLeaves`) or neither (`OthersStay`).  Completion is a leave and an enter of
two different pools.

The refinement needs more: a pool of a kind must not grow past the number of
objects, or an index would lie outside the array the contents are kept in.
`PoolsBounded` shows that: a pool grows only when its free list is empty; then its
slots are in use by as many different handles, none of which is the one that is
about to get a slot (`NextFits`, by counting).  With that, a handle other than
the one the step is about keeps its entry (`MapChangesAt`) and its contents,
because contents are written at an index that no other object of the kind has
(`IndicesApart`).  The refinement mapping is `map` of `PincObjects`: kind,
contents and user data of each live handle.

`PincSdl2WindowsProofs` proves, for any number of handles, windows and contexts,
`TypeCorrect`, `HandlesKeepTheirWindows`, `ListIsRight`, `FlagLeavesListAtTwoSteps` and
`BackendImplementsSpareWindow`, from the assumption `NeverFails`: SDL makes every
window it is asked for.  The run `window_shared` shows that without it they are false.
The invariant `IInv` is `Good` and the types of the rest; `Good` relates the objects
to the backend's struct: `Typed`, `Owners` (each complete handle's window is open and
has that handle in front, and the flag is set exactly if the dummy window is
somebody's) and `Listed` (the array has no repetitions, all of the user's windows and
perhaps the dummy one).  They hold only together: that a completed window is new to
the list needs that listed windows are open, and that the swap of the last entry into
the place of a removed one loses nothing needs that there are no repetitions.  `Good`
has the struct as a parameter because one call changes it twice (the dummy window is
opened, then given away).

`DeinitFailsAtTwoPointsOnly` is about a whole call: `pincDeinit` destroys the windows
one handle after the other, a recursive function over the handles (`DestroysBy`).
`WhatIsLeft` is its outcome: the list then has the windows it had but for those that
were some handle's (`Gone`, for the handles passed so far).  `Untouched`, which is
invariant with `Good`, says what else can be there: a dummy window opened for OpenGL
when there was no other window, and never given to a handle; and that without a dummy
window nothing was opened yet.  So the call ends as the code means it to, or in one of
the two ways that `DeinitWorksBut` names, and reads no dummy window that was freed.

`FlagLeavesListAtTwoSteps` goes through the actions with `Good` and `Untouched`: a
window that is destroyed leaves the list and clears the flag together, and one that is
opened and taken into use enters it and sets the flag, which leaves the two steps of
`FlagMatchesListBut`.

The refinement adds `Accounted`: every open window is owned
or the dummy one.  A step then gives one window to a handle, takes one away, opens the
spare one or closes some, and each is a step of `SpareWindow` or a stutter.

`PincEventsProofs` proves `TypeCorrect`, `FocusEventsChain` and `ClipboardTextsLive`
for any number of windows, handles and events.  The invariant `Chained` says of
both buffers that each event is recorded under the window the focus event before it
named, that the first of the back buffer is recorded under the window the
user sees as current, and that with an empty back buffer the visible and the real current
window are one: so the chain is not broken by the swap, nor by a step that a refused
event cut short.  `Texts` says that the texts of the back buffer live, which makes
those of the front buffer live at the swap.

`BuffersAlwaysInBounds` needs that one event of SDL's appends at most as many as the
growth before each append makes room for, and that the capacities are swapped along with
the buffers (`Bounded`).  `MouseEventsChain` is proved from the mouse events of what one
event of SDL's produces (`PressesOf`: none, or one whose old state is the state
before), and what appending such a sequence does to a chain that ends in the visible state.

`BuffersImplementStream` is the refinement of `EventStream` for any number of events.
What is pending is the serial numbers of the back buffer (`Serials`) and then those of
what SDL's queue will produce (`Waits`, a recursive function).  `WaitsAppend` and
`WaitsHead` say how it changes when SDL queues an event and when `pincStep` takes one
out, and `SerialsConcat` that a produced sequence only moves from one part to the
other.  Every action is then a `Happen`, a `Deliver`, a `DeliverAndDrop` or a stutter.

`PincWindowPropsProofs` proves `RememberedSizesAreSdls`, `TitlesAreAccounted` and
`TypeCorrect`.  The invariant needs `Told`, about the events in flight: the last size
event in the queue for an open window tells SDL's real size, and if there is none the
size remembered is the real one or was declined.  Setting the width and then the
height of a reused dummy window makes up to two events, of which only the last one counts.
The titles are counted by the cardinality of the set of incomplete windows.

`PincLifecycleProofs` proves, for every number of initialisations, the four invariants
of `PincLifecycle` (`LifecycleTypeCorrect`, `StateAlwaysLive`, `LeaksAreKnown`,
`LegalCrashesAlwaysKnown`) and the action properties `LegalErrorsAlwaysKnown` and
`InitErrorsAlwaysUndone`.  The invariant `LifecycleInv` has two parts.  `Sound`
holds for every program: the state claims only what is live, the arena and the backend's
struct are of one initialisation (`OneInit`), the backend in use is of another one
only after a repeated initialisation, and every block of memory has an owner or a
named reason for being lost (`Accounted`).  `Fine` holds for programs that keep to the
documented order: before the initialisation nothing is done and there is no error, and
the allocation callbacks it then had are still set afterwards.  A call is a function of the state, so for each one there
are two lemmas, one that it keeps `Sound` and one that a legal program sees `Expected` of
it; both go through validation, the logging callback and the error callback in the order
of the code.  `Expected` says what the call may have told (`told`), what it changed if its
error is new and recoverable, and where it may crash; the action properties follow.

Of `PincFormats` it proves `EachFormatOfferedOnce`, `DefaultFormatIsBestBehindFirst` and
`OverrunsByManyFormatsOnly` for every set of pixel formats, number of modes and room of
the list.  `LoopInv` is the invariant of the loop that chooses: `best` is the best of
the formats from the second to the one before `next`; that the first is never
scored (the loop starts behind it) is part of `DefaultIsBestBehindFirst`.  The last theorem is by
counting: the list has no repetitions, so it has no more entries than formats told.

`PincLibsProofs` proves `CursorStaysInText` and `ReadableEventsAreTheText` (about the
values of codepoints of one byte and three only) for every set of
well-formed texts and every `SizeMax` above `Capacity`.  The invariant `Cursor(k)` says
that the cursor is at the start of codepoint `k` and what has been written before it; a
turn of the loop moves it to `k + 1`, because the length the decoder finds is the size
of the codepoint (`Encode`, by cases over its size), or leaves it there for ever.

Of `PincArena` it proves `AllocationsAlwaysDisjoint`, `BlocksAlwaysAccounted`,
`ReserveAlwaysBounded` and `OverrunsInThreeWaysOnly`, for every size of blocks,
header and alignment that divide as they do in the code, every number of buckets whose
largest holds what is kept, and every set of sizes asked for.  `ArenaInv` adds to them:

- `HeapGood`: the blocks of the heap have different names and more room than a header.
- `ListsGood`: each block is on the stack or on the list of empty ones, once, and
  those on neither are large.
- `AllocsGood`: every allocation begins in a block of the stack, and in the top block
  ends before `used`.  So a new one cannot overlap an old one of the same block, whether
  the top block goes on being used or another is pushed on it.  One that overruns its
  block may overlap another block's: that is the business of `OverrunsOnlyBy`.
- `Descends(empty)`: the list goes from large to small.  `ReserveBounded` has it, and
  needs it at the next reset.

An allocation is `guaranteeCapacity` and the bump of `used`.  `CapacityGuaranteed` says
what all four ways through the former leave (`Guaranteed`): the stack as it was, with room,
or one more block on it which has room and no allocation.  `OverrunsInThreeWaysOnly`
follows, because only the padding and the old `used` are not in that room, as long as
`used` has not left the block.

A reset sorts the blocks into buckets, from large to small, until `Keep` bytes are
kept.  `KeptDownTo(s, n)` is the invariant of that loop: `s.list` holds blocks of the
buckets from `n` up, each once, in descending order, and either less than `Keep` bytes, all
of which are counted, or less than `Keep` and two of its smallest blocks.  Sums of
sizes are `Total`, of which the proof needs what it is of a concatenation
(`TotalConcat`), of equal sizes and after a removal.  That `OfSize` selects from the list
in order and `Sorted` loses nothing are inductions as in `PoolOpsProofs`.

What is not proved stays with TLC: the liveness properties `EveryEventLeaves` and
`DecodableTextEnds`, because the prover cannot reason about `ENABLED`.  The runs
`window_shared` and `utf8_text_ends` show statements that are false.  The bounds
(`MaxLive`, `MaxInits`, `MaxBlocks` and so on) are part of the specifications, so the
theorems hold for every value of them, as of the other constants.
`NeverFails` is the one hypothesis that is not an assumption on the constants' types
and sizes.

## Not modelled

Most of the lines under `src/` are not Pinc's: the headers of SDL2, OpenGL, EGL and
MinGW's Windows are vendored, and declare what other libraries do.  Of Pinc's own code
the following is left out.

- Failed allocations: the code never checks one.
- The cursor positions, sizes and times that events carry to the user (the sizes'
  effect on windows is `PincWindowProps`), and the wrong size that `pincDeinit` frees the
  event buffers with (`pinc_main.c:923`).
- The setters of complete windows but width and height: they are empty in the
  backend, so a reused dummy window never gets its flags.
- Presenting, swap intervals and procedure addresses, which are handed to SDL.
- `pincOpenglGetCurrentWindow`, which returns a dead front handle if the current
  window is a spare dummy one.
- `pincValidateUTF8String` and `PincArenaAllocator_reallocate`: no call reaches them.
- Strings, which are put together for messages and titles.
- The key tables, the dispatch table and the platform layer: data, and calls of the
  operating system.
- Handles the caller made up are modelled where the code checks them; where it
  dereferences the null reference instead, `PincSdl2Windows` ends the run.
- `PincLifecycle` does not follow memory that one initialisation allocated with the
  user's callbacks and another frees with the platform's.

## Plan

In this order:

1. Window sizes in `PincEvents`: the resize events' chain of old and new sizes, on
   top of `PincWindowProps`.
2. An abstract specification of the arena (a set of allocations that a reset
   empties), for programs whose allocations do not overrun their blocks.
