----------------------------- MODULE PincEvents -----------------------------
(***************************************************************************)
(* pincStep (pinc_main.c) and the backend's polling (pinc_sdl2.c): events  *)
(* move from SDL's queue to the back buffer, one SDL_PollEvent at a time   *)
(* while SDL keeps adding some, and the buffers are swapped at the end.    *)
(* The user sees the front buffer between two calls of pincStep.           *)
(*                                                                         *)
(* Window 1 is the backend's dummy window: it stays open when its handle   *)
(* is destroyed and goes to the next handle (PincSdl2Windows).  SDL never  *)
(* gives a window id twice.  An SDL event has a serial number, which the   *)
(* Pinc events it makes inherit; sizes, positions, keys, codepoints and    *)
(* times are left out.                                                     *)
(***************************************************************************)
EXTENDS PoolOps

CONSTANTS
  MaxHandles,      \* bound: window handles in use at once
  MaxWindows,      \* bound: SDL windows opened
  MaxEvents,       \* bound: SDL events
  PlainTypes,      \* window events that make one event naming the window
  TextLengths,     \* numbers of codepoints of a text typed
  Buttons          \* SDL's mouse button numbers

ASSUME PincEventsAssumption ==
  /\ MaxHandles \in Nat /\ MaxWindows \in Nat \ {0} /\ MaxEvents \in Nat
  /\ PlainTypes \subseteq {"close", "exposed", "enter", "leave", "maximized", "restored", "motion"}
  /\ TextLengths \subseteq Nat
  /\ Buttons \subseteq Nat

VARIABLES
  windows,         \* the SDL windows and their PincSdl2Window
  focus,           \* the window that has SDL's keyboard focus, or 0
  queue,           \* SDL's event queue
  sent,            \* the serial number of the last SDL event
  phase,           \* whether pincStep is polling, or hung in the decoder
  back, front,     \* eventsBufferBack, eventsBuffer
  backCapacity, frontCapacity,
  realCurrent,     \* realCurrentWindow
  currentWindow,
  mouse,           \* mouseState: the bits that are set
  error            \* whether an error was recorded since pincStep began

vars == <<windows, focus, queue, sent, phase, back, front, backCapacity,
          frontCapacity, realCurrent, currentWindow, mouse, error>>

Handles == 1 .. MaxHandles
Ids == 1 .. MaxWindows
Dummy == 1
None == 0

FocusTypes == {"focusGained", "focusLost"}
WindowTypes == PlainTypes \cup {"sizeChanged"} \cup FocusTypes

(* The bit of each button SDL knows: left, middle, right, back, forward.   *)
(* The faulty variant counts from one.                                     *)
ButtonBitFromOne == <<1, 3, 2, 4, 5>>

ButtonBit == <<0, 2, 1, 3, 4>>

Closed == [open |-> FALSE, owned |-> FALSE, front |-> None, new |-> FALSE]
Unmade == [Closed EXCEPT !.new = TRUE]
OwnedBy(h) == [open |-> TRUE, owned |-> TRUE, front |-> h, new |-> FALSE]

FrontOf(w) == IF w = None THEN None ELSE windows[w].front
Live == {windows[w].front : w \in {v \in Ids : windows[v].owned}}

-----------------------------------------------------------------------------
(* SDL.  An event carries an argument that its type gives a meaning.       *)
SdlEvent(type, w, arg) ==
  [serial |-> sent + 1, type |-> type, window |-> w, arg |-> arg]

Queue(type, w, arg) ==
  /\ sent < MaxEvents
  /\ sent' = sent + 1
  /\ queue' = Append(queue, SdlEvent(type, w, arg))

OsUnchanged == UNCHANGED <<windows, phase, back, front, backCapacity, frontCapacity,
                           realCurrent, currentWindow, mouse, error>>

OsWindow(w) ==
  /\ windows[w].open
  /\ \/ \E type \in PlainTypes : Queue(type, w, 0)
     \/ \E valid \in {0, 1} : Queue("sizeChanged", w, valid)
  /\ OsUnchanged /\ UNCHANGED focus

OsFocusGained(w) ==
  /\ windows[w].open /\ focus = None
  /\ Queue("focusGained", w, 0)
  /\ focus' = w
  /\ OsUnchanged

OsFocusLost ==
  /\ focus # None
  /\ Queue("focusLost", focus, 0)
  /\ focus' = None
  /\ OsUnchanged

OsButton(button, state) ==
  /\ Queue("button", None, [button |-> button, state |-> state])
  /\ OsUnchanged /\ UNCHANGED focus

(* Keys and the wheel make one event; text makes one event for each        *)
(* codepoint; a clipboard without text, another mouse and the types the    *)
(* code does not name make none.  Of texts there are two further kinds: a  *)
(* "longText" does not fit the decoder's buffer, which is as large as      *)
(* SDL's (a text without its terminator); an "endlessText" has a codepoint *)
(* the decoder cannot step over (PincUtf8 says which).                     *)
OsInput(type, count) ==
  /\ Queue(type, None, count)
  /\ OsUnchanged /\ UNCHANGED focus

-----------------------------------------------------------------------------
(* The events the polling loop makes nothing of but an error, after which  *)
(* it returns: those of a window that is gone, and those with an argument  *)
(* the code rejects.                                                       *)
Refused(e) ==
  \/ e.type \in WindowTypes /\ ~windows[e.window].open
  \/ e.type = "sizeChanged" /\ e.arg = 0
  \/ e.type = "button" /\ e.arg.button \notin 1 .. 5
  \/ e.type = "clipboard" /\ e.arg = 0
  \/ e.type = "longText"

ButtonMask(pressed, arg) ==
  IF arg.state = 1 THEN pressed \cup {ButtonBit[arg.button]}
  ELSE pressed \ {ButtonBit[arg.button]}

(* The PincEvent... functions: every event records the current window. *)
PincEvent(e, type, data) ==
  [serial |-> e.serial, type |-> type, window |-> FrontOf(e.window), data |-> data,
   currentWindow |-> realCurrent]

(* The window a focus event names, and the current window after an event.  *)
FocusOf(e) == IF e.type = "focusGained" THEN FrontOf(e.window) ELSE None

CurrentAfter(e) == IF e.type \in FocusTypes THEN FocusOf(e) ELSE realCurrent

(* How many events e makes unless it is refused, and which.  The faulty    *)
(* variant sets the current window before the focus event records it.      *)
Count(e) == IF e.type \in {"text", "endlessText", "ignored"} THEN e.arg ELSE 1

ProducedFocusFirst(e) ==
  IF e.type \in FocusTypes
  THEN <<[PincEvent(e, "focus", FocusOf(e)) EXCEPT !.currentWindow = FocusOf(e)]>>
  ELSE IF e.type = "button"
  THEN <<PincEvent(e, "mouseButton", [old |-> mouse, new |-> ButtonMask(mouse, e.arg)])>>
  ELSE IF e.type = "clipboard"
  THEN <<PincEvent(e, "clipboard", "valid")>>
  ELSE [i \in 1 .. Count(e) |-> PincEvent(e, e.type, 0)]

Produced(e) ==
  IF e.type \in FocusTypes
  THEN <<PincEvent(e, "focus", FocusOf(e))>>
  ELSE IF e.type = "button"
  THEN <<PincEvent(e, "mouseButton", [old |-> mouse, new |-> ButtonMask(mouse, e.arg)])>>
  ELSE IF e.type = "clipboard"
  THEN <<PincEvent(e, "clipboard", "valid")>>
  ELSE [i \in 1 .. Count(e) |-> PincEvent(e, e.type, 0)]

(* PincEventBackEnsureCapacity and PincEventBackAppend, for each event. *)
CapacityFor(n, capacity) == IF capacity >= n THEN capacity ELSE Grown(capacity)

CapacityAfter(n) ==
  LET capacity[i \in 0 .. n] ==
        IF i = 0 THEN backCapacity ELSE CapacityFor(Len(back) + i, capacity[i - 1])
  IN  capacity[n]

BackAppend(events) ==
  /\ back' = back \o events
  /\ backCapacity' = CapacityAfter(Len(events))

(* The arena that holds the clipboard's text is reset. *)
Reused(events) ==
  [i \in DOMAIN events |-> IF events[i].type = "clipboard"
                           THEN [events[i] EXCEPT !.data = "reused"] ELSE events[i]]

(* The end of pincStep swaps the buffers.  The faulty variants forget      *)
(* their capacities, or reset the arena only now.                          *)
SwapOnlyEvents(events) ==
  /\ front' = events
  /\ back' = << >>
  /\ UNCHANGED <<backCapacity, frontCapacity>>
  /\ currentWindow' = realCurrent
  /\ phase' = "idle"

SwapResetsArena(events) ==
  /\ front' = Reused(events)
  /\ back' = << >>
  /\ frontCapacity' = backCapacity
  /\ backCapacity' = frontCapacity
  /\ currentWindow' = realCurrent
  /\ phase' = "idle"

Swap(events) ==
  /\ front' = events
  /\ back' = << >>
  /\ frontCapacity' = backCapacity
  /\ backCapacity' = frontCapacity
  /\ currentWindow' = realCurrent
  /\ phase' = "idle"

StepBegin ==
  /\ phase = "idle"
  /\ phase' = "polling"
  /\ error' = FALSE
  /\ front' = Reused(front)
  /\ back' = Reused(back)
  /\ UNCHANGED <<windows, focus, queue, sent, backCapacity, frontCapacity,
                 realCurrent, currentWindow, mouse>>

(* One turn of pincSdl2step's loop.  The faulty variant does not remember  *)
(* the mouse's state.                                                      *)
PollForgetsMouse ==
  /\ phase = "polling"
  /\ queue # << >>
  /\ ~Refused(Head(queue)) /\ Head(queue).type # "endlessText"
  /\ LET e == Head(queue) IN
       /\ queue' = Tail(queue)
       /\ BackAppend(Produced(e))
       /\ realCurrent' = CurrentAfter(e)
  /\ UNCHANGED <<windows, focus, sent, phase, front, frontCapacity, currentWindow, mouse, error>>

Poll ==
  /\ phase = "polling"
  /\ queue # << >>
  /\ ~Refused(Head(queue)) /\ Head(queue).type # "endlessText"
  /\ LET e == Head(queue) IN
       /\ queue' = Tail(queue)
       /\ BackAppend(Produced(e))
       /\ realCurrent' = CurrentAfter(e)
       /\ mouse' = IF e.type = "button" THEN ButtonMask(mouse, e.arg) ELSE mouse
  /\ UNCHANGED <<windows, focus, sent, phase, front, frontCapacity, currentWindow, error>>

(* pincDecodeUTF8String makes no progress on an endless text: pincStep     *)
(* never returns, and the loop of the decoder goes on for ever.            *)
PollHangs ==
  /\ phase = "polling"
  /\ queue # << >> /\ Head(queue).type = "endlessText"
  /\ queue' = Tail(queue)
  /\ phase' = "hung"
  /\ UNCHANGED <<windows, focus, sent, back, front, backCapacity, frontCapacity,
                 realCurrent, currentWindow, mouse, error>>

DecodeOn == phase = "hung" /\ UNCHANGED vars

(* A refused event is gone; pincStep then ends as it does on an empty      *)
(* queue.  The faulty variants look at the event without removing it, or   *)
(* drop what was polled before it.                                         *)
PollRefusedPeeks ==
  /\ phase = "polling"
  /\ queue # << >>
  /\ Refused(Head(queue))
  /\ error' = TRUE
  /\ Swap(back)
  /\ UNCHANGED <<windows, focus, queue, sent, realCurrent, mouse>>

PollRefusedLosesBack ==
  /\ phase = "polling"
  /\ queue # << >>
  /\ Refused(Head(queue))
  /\ queue' = Tail(queue)
  /\ error' = TRUE
  /\ Swap(<< >>)
  /\ UNCHANGED <<windows, focus, sent, realCurrent, mouse>>

PollRefused ==
  /\ phase = "polling"
  /\ queue # << >>
  /\ Refused(Head(queue))
  /\ queue' = Tail(queue)
  /\ error' = TRUE
  /\ Swap(back)
  /\ UNCHANGED <<windows, focus, sent, realCurrent, mouse>>

StepEnd ==
  /\ phase = "polling"
  /\ queue = << >>
  /\ Swap(back)
  /\ UNCHANGED <<windows, focus, queue, sent, realCurrent, mouse, error>>

-----------------------------------------------------------------------------
(* The user's other calls, between two of pincStep. *)

(* pincWindowCreateIncomplete and pincWindowComplete *)
WindowComplete(h) ==
  /\ phase = "idle"
  /\ h \notin Live
  /\ \E w \in Ids :
       /\ IF windows[Dummy].open /\ ~windows[Dummy].owned
          THEN w = Dummy
          ELSE windows[w].new /\ \A v \in 1 .. (w - 1) : ~windows[v].new
       /\ windows' = [windows EXCEPT ![w] = OwnedBy(h)]
  /\ UNCHANGED <<focus, queue, sent, phase, back, front, backCapacity, frontCapacity,
                 realCurrent, currentWindow, mouse, error>>

(* pincWindowDeinit: SDL takes the focus from a window it destroys. *)
WindowDeinit(w) ==
  /\ phase = "idle"
  /\ windows[w].owned
  /\ IF w = Dummy
     THEN /\ windows' = [windows EXCEPT ![w].owned = FALSE]
          /\ UNCHANGED <<focus, queue, sent>>
     ELSE /\ windows' = [windows EXCEPT ![w] = Closed]
          /\ IF focus = w
             THEN Queue("focusLost", w, 0) /\ focus' = None
             ELSE UNCHANGED <<focus, queue, sent>>
  /\ UNCHANGED <<phase, back, front, backCapacity, frontCapacity,
                 realCurrent, currentWindow, mouse, error>>

-----------------------------------------------------------------------------
Init ==
  /\ windows = [w \in Ids |-> Unmade]
  /\ focus = None
  /\ queue = << >>
  /\ sent = 0
  /\ phase = "idle"
  /\ back = << >> /\ front = << >>
  /\ backCapacity = 0 /\ frontCapacity = 0
  /\ realCurrent = None
  /\ currentWindow = None
  /\ mouse = {}
  /\ error = FALSE

Os ==
  \/ \E w \in Ids : OsWindow(w) \/ OsFocusGained(w)
  \/ OsFocusLost
  \/ \E button \in Buttons, state \in {0, 1} : OsButton(button, state)
  \/ OsInput("key", 1)
  \/ \E text \in {0, 1} : OsInput("clipboard", text)
  \/ \E length \in TextLengths : OsInput("text", length)
  \/ \E type \in {"longText", "endlessText", "ignored"} : OsInput(type, 0)

User ==
  \/ \E h \in Handles : WindowComplete(h)
  \/ \E w \in Ids : WindowDeinit(w)

PincStep == StepBegin \/ Poll \/ PollRefused \/ PollHangs \/ DecodeOn \/ StepEnd

Next == Os \/ User \/ PincStep

(* A program calls pincStep in its main loop, and a call goes on, to its   *)
(* end if it has one.  Nothing obliges the user or the system to act.      *)
Spec == Init /\ [][Next]_vars /\ WF_vars(PincStep)

-----------------------------------------------------------------------------
TypeOK ==
  /\ windows \in [Ids -> [open : BOOLEAN, owned : BOOLEAN, new : BOOLEAN,
                          front : Handles \cup {None}]]
  /\ focus \in Ids \cup {None}
  /\ sent \in 0 .. MaxEvents
  /\ phase \in {"idle", "polling", "hung"}
  /\ \A e \in Range(back \o front) : e.currentWindow \in Handles \cup {None}
  /\ realCurrent \in Handles \cup {None} /\ currentWindow \in Handles \cup {None}
  /\ mouse \subseteq 0 .. 4
  /\ error \in BOOLEAN

(* Neither buffer holds more than it has room for, however pincStep's      *)
(* swapping and growing alternate and wherever polling stopped.            *)
BuffersInBounds ==
  /\ Len(back) <= backCapacity
  /\ Len(front) <= frontCapacity

(* The events of a batch chain: each is recorded under the window the last *)
(* focus event before it named, and after the batch that window is the     *)
(* current one: pincEventGetWindow and pincEventFocusOldWindow agree with  *)
(* the focus events the user saw, whether or not a step was cut short.     *)
WindowAfter(e) == IF e.type = "focus" THEN e.data ELSE e.currentWindow

FocusChains(events, last) ==
  /\ \A i \in 1 .. (Len(events) - 1) : events[i + 1].currentWindow = WindowAfter(events[i])
  /\ events # << >> => WindowAfter(events[Len(events)]) = last

FocusConsistent ==
  /\ FocusChains(front, currentWindow)
  /\ FocusChains(back, realCurrent)
  /\ back # << >> => Head(back).currentWindow = currentWindow
  /\ phase = "idle" => currentWindow = realCurrent

(* The mouse button events chain as well: each old state is the state the  *)
(* event before it left, in the same batch or in the one before.           *)
Presses(events) == {i \in DOMAIN events : events[i].type = "mouseButton"}

MouseChains(events, last) ==
  /\ \A i, j \in Presses(events) :
       i < j /\ (\A k \in Presses(events) : k <= i \/ j <= k) =>
         events[j].data.old = events[i].data.new
  /\ \A i \in Presses(events) :
       (\A k \in Presses(events) : k <= i) => events[i].data.new = last

MouseConsistent == MouseChains(front \o back, mouse)

(* The text of a clipboard event the user can see lives on the arena until *)
(* the next pincStep (pinc.h:714), which resets the arena as it begins and *)
(* not "at the end of pinc_step()", as pinc_main.h:233 says.               *)
ClipboardTextLives ==
  phase = "idle" => \A e \in Range(front) : e.type = "clipboard" => e.data = "valid"

Serials(events) == [i \in 1 .. Len(events) |-> events[i].serial]

Copies(e) == [k \in 1 .. Count(e) |-> e.serial]

Waits(events) ==
  LET serials[i \in 0 .. Len(events)] ==
        IF i = 0 THEN << >> ELSE serials[i - 1] \o Copies(events[i])
  IN  serials[Len(events)]

pending == Serials(back) \o Waits(queue)

batch == Serials(front)

(* Queue, back buffer and front buffer implement one stream: every event   *)
(* that is not refused reaches the user once, in the order it happened.    *)
Stream == INSTANCE EventStream WITH Events <- 1 .. MaxEvents, Counts <- {0, 1} \cup TextLengths
ImplementsEventStream == Stream!Spec

(* Whatever SDL's queue holds, refused events included, every event leaves *)
(* the queue and the back buffer if the program goes on stepping, unless a *)
(* text that the decoder cannot step over (pinc_utf8.c:186-195) keeps      *)
(* pincStep: then neither those behind it nor those polled before it in    *)
(* the same step ever reach the user.                                      *)
Waiting(n) == n \in Range(pending)
EveryEventLeaves == \A n \in 1 .. MaxEvents : Waiting(n) ~> (~Waiting(n) \/ phase = "hung")
=============================================================================
