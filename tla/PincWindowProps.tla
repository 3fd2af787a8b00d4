-------------------------- MODULE PincWindowProps --------------------------
(***************************************************************************)
(* The properties of windows (pincWindowSet..., pincWindowGet... of        *)
(* pinc_main.c) that live in three places: the incomplete window object,   *)
(* the backend's PincSdl2Window, and SDL's own window.  A size is written  *)
(* to the second before SDL is asked for it, SDL and the system change the *)
(* third, and pincSdl2step copies it back when it polls the event.         *)
(*                                                                         *)
(* SDL looks at the system while events are polled.  Window 1 is the dummy *)
(* window (PincSdl2Windows).  The other properties of a complete window do *)
(* not reach SDL.  The error of a step cut short holds off every call that *)
(* forwards errors until the next step; other errors do that and no more.  *)
(***************************************************************************)
EXTENDS Integers, FiniteSets, SequencesExt

CONSTANTS
  Handles,         \* window handles
  Nobody,          \* no handle
  MaxWindows,      \* bound: SDL windows opened
  MaxEvents,       \* bound: SDL events
  MaxLost,         \* bound: incomplete windows destroyed
  Lengths,         \* widths and heights the user or the system chooses
  DefaultLength    \* 256

ASSUME PincWindowPropsAssumption ==
  /\ IsFiniteSet(Handles) /\ Nobody \notin Handles
  /\ MaxWindows \in Nat \ {0}
  /\ MaxEvents \in Nat /\ MaxLost \in Nat
  /\ Lengths \subseteq Nat
  /\ DefaultLength \in Nat \ {0}

VARIABLES
  objects,    \* the window object behind each handle
  windows,    \* PincSdl2Window of each SDL window
  real,       \* the size of each SDL window
  declined,   \* whether SDL did not take the size asked for last, and has
              \* told of no size since
  queue,      \* SDL's event queue: sizes, and events pincSdl2step refuses
  sent,       \* how many SDL events there were
  phase,      \* whether pincStep is polling
  cut,        \* whether the last pincStep ended at a refused event
  titles,     \* titles allocated
  lost        \* incomplete windows destroyed

vars == <<objects, windows, real, declined, queue, sent, phase, cut, titles, lost>>

Ids == 1 .. MaxWindows
Dummy == 1

(* A size is a width and a height. *)
Sizes == [1 .. 2 -> Lengths \cup {DefaultLength}]
Valid(s) == s[1] > 0 /\ s[2] > 0
DefaultSize == [i \in 1 .. 2 |-> DefaultLength]

NoObject == [kind |-> "none", has |-> [i \in 1 .. 2 |-> FALSE], size |-> DefaultSize]
Incomplete == [NoObject EXCEPT !.kind = "incompleteWindow"]
Complete == [NoObject EXCEPT !.kind = "window"]

Unmade == [open |-> FALSE, new |-> TRUE, front |-> Nobody, owned |-> FALSE, size |-> DefaultSize]

Closed == [Unmade EXCEPT !.new = FALSE]

Owner(h) == {w \in Ids : windows[w].owned /\ windows[w].front = h}
TheWindow(h) == CHOOSE w \in Ids : w \in Owner(h)

-----------------------------------------------------------------------------
(* SDL.  A size asked for is refused if it is empty; any other may be      *)
(* declined by the system.  An event tells of every size that is new.      *)
SizeEvent(w, s) == [type |-> "sizeChanged", window |-> w, size |-> s]
RefusedEvent == [type |-> "refused", window |-> Dummy, size |-> DefaultSize]

(* What SDL may make of sizes asked for one after the other: the size it   *)
(* has then, the events it queues, and whether it took the last.           *)
Answer(w, old, s) ==
  {[real |-> old, events |-> << >>, declined |-> TRUE]} \cup
  (IF Valid(s)
   THEN {[real |-> s, events |-> IF s = old THEN << >> ELSE <<SizeEvent(w, s)>>,
          declined |-> FALSE]}
   ELSE {})

Answers(w, old, first, second) ==
  UNION {{[b EXCEPT !.events = a.events \o @] : b \in Answer(w, a.real, second)} :
           a \in Answer(w, old, first)}

SdlAnswers(w, answer) ==
  /\ sent + Len(answer.events) <= MaxEvents
  /\ sent' = sent + Len(answer.events)
  /\ queue' = queue \o answer.events
  /\ real' = [real EXCEPT ![w] = answer.real]
  /\ declined' = [declined EXCEPT ![w] = answer.declined]

-----------------------------------------------------------------------------
Init ==
  /\ objects = [h \in Handles |-> NoObject]
  /\ windows = [w \in Ids |-> Unmade]
  /\ real = [w \in Ids |-> DefaultSize]
  /\ declined = [w \in Ids |-> FALSE]
  /\ queue = << >> /\ sent = 0
  /\ phase = "idle" /\ cut = FALSE
  /\ titles = 0 /\ lost = 0

(* pincWindowCreateIncomplete: the default title is allocated. *)
CreateIncomplete(h) ==
  /\ phase = "idle"
  /\ objects[h].kind = "none"
  /\ objects' = [objects EXCEPT ![h] = Incomplete]
  /\ titles' = titles + 1
  /\ UNCHANGED <<windows, real, declined, queue, sent, phase, cut, lost>>

(* pincWindowSetWidth (i = 1) and pincWindowSetHeight (i = 2).  The faulty *)
(* variant asks SDL with the size of before.                               *)
SetLengthIncomplete(h, i, v) ==
  /\ phase = "idle" /\ ~cut
  /\ objects[h].kind = "incompleteWindow"
  /\ objects' = [objects EXCEPT ![h].size[i] = v, ![h].has[i] = TRUE]
  /\ UNCHANGED <<windows, real, declined, queue, sent, phase, cut, titles, lost>>

SetLengthLate(h, i, v) ==
  /\ phase = "idle" /\ ~cut
  /\ objects[h].kind = "window"
  /\ LET w == TheWindow(h)
     IN  /\ windows' = [windows EXCEPT ![w].size[i] = v]
         /\ \E answer \in Answer(w, real[w], windows[w].size) : SdlAnswers(w, answer)
  /\ UNCHANGED <<objects, phase, cut, titles, lost>>

SetLength(h, i, v) ==
  /\ phase = "idle" /\ ~cut
  /\ objects[h].kind = "window"
  /\ LET w == TheWindow(h)
     IN  /\ windows' = [windows EXCEPT ![w].size[i] = v]
         /\ \E answer \in Answer(w, real[w], windows'[w].size) : SdlAnswers(w, answer)
  /\ UNCHANGED <<objects, phase, cut, titles, lost>>

(* The size pincSdl2completeWindow makes of an incomplete window's. *)
RealSize(object) == [i \in 1 .. 2 |-> IF object.has[i] THEN object.size[i] ELSE DefaultLength]

(* It opens the next window.  SDL makes an empty size one of its own, and  *)
(* with the flags of a maximized or fullscreen window it may any other.    *)
Open(w, h, size, owned) ==
  /\ windows[w].new /\ \A v \in 1 .. (w - 1) : ~windows[v].new
  /\ windows' = [windows EXCEPT ![w] =
                   [open |-> TRUE, new |-> FALSE, front |-> h, owned |-> owned, size |-> size]]
  /\ \E taken \in BOOLEAN :
       /\ taken => Valid(size)
       /\ real' = [real EXCEPT ![w] = IF taken THEN size ELSE DefaultSize]
       /\ declined' = [declined EXCEPT ![w] = ~taken]
  /\ UNCHANGED <<queue, sent>>

(* Or gives h the dummy window, whose width and then height are set.       *)
Spare == windows[Dummy].open /\ ~windows[Dummy].owned

Reuse(h, size) ==
  /\ windows' = [windows EXCEPT ![Dummy] =
                   [@ EXCEPT !.front = h, !.owned = TRUE, !.size = size]]
  /\ \E answer \in Answers(Dummy, real[Dummy], <<size[1], windows[Dummy].size[2]>>, size) :
       SdlAnswers(Dummy, answer)

(* pincWindowComplete: the title is given to the backend, which frees it   *)
(* on both ways.  The faulty variant frees it for new windows only.        *)
WindowCompleteKeepsTitle(h) ==
  /\ phase = "idle" /\ ~cut
  /\ objects[h].kind = "incompleteWindow"
  /\ IF Spare
     THEN Reuse(h, RealSize(objects[h])) /\ titles' = titles
     ELSE (\E w \in Ids : Open(w, h, RealSize(objects[h]), TRUE)) /\ titles' = titles - 1
  /\ objects' = [objects EXCEPT ![h] = Complete]
  /\ UNCHANGED <<phase, cut, lost>>

WindowComplete(h) ==
  /\ phase = "idle" /\ ~cut
  /\ objects[h].kind = "incompleteWindow"
  /\ IF Spare
     THEN Reuse(h, RealSize(objects[h]))
     ELSE \E w \in Ids : Open(w, h, RealSize(objects[h]), TRUE)
  /\ objects' = [objects EXCEPT ![h] = Complete]
  /\ titles' = titles - 1
  /\ UNCHANGED <<phase, cut, lost>>

(* pincSdl2GetDummyWindow, when a context needs a window: its title is     *)
(* allocated and freed.                                                    *)
OpenDummy ==
  /\ phase = "idle"
  /\ Open(Dummy, Nobody, DefaultSize, FALSE)
  /\ UNCHANGED <<objects, phase, cut, titles, lost>>

(* pincWindowDeinit: an incomplete window's title is not freed.  The dummy *)
(* window stays open; any other is closed.                                 *)
WindowDeinit(h) ==
  /\ phase = "idle"
  /\ \/ /\ objects[h].kind = "incompleteWindow"
        /\ lost < MaxLost
        /\ lost' = lost + 1
        /\ UNCHANGED <<windows, real, declined>>
     \/ /\ objects[h].kind = "window"
        /\ LET w == TheWindow(h)
           IN  IF w = Dummy
               THEN windows' = [windows EXCEPT ![w].owned = FALSE] /\ UNCHANGED <<real, declined>>
               ELSE /\ windows' = [windows EXCEPT ![w] = Closed]
                    /\ real' = [real EXCEPT ![w] = DefaultSize]
                    /\ declined' = [declined EXCEPT ![w] = FALSE]
        /\ UNCHANGED lost
  /\ objects' = [objects EXCEPT ![h] = NoObject]
  /\ UNCHANGED <<queue, sent, phase, cut, titles>>

-----------------------------------------------------------------------------
(* pincStep *)
StepBegin ==
  /\ phase = "idle"
  /\ phase' = "polling"
  /\ cut' = FALSE
  /\ UNCHANGED <<objects, windows, real, declined, queue, sent, titles, lost>>

(* What the system does to a window while SDL looks. *)
OsResize(w, s) ==
  /\ phase = "polling" /\ windows[w].open /\ Valid(s) /\ s # real[w]
  /\ sent < MaxEvents
  /\ sent' = sent + 1
  /\ queue' = Append(queue, SizeEvent(w, s))
  /\ real' = [real EXCEPT ![w] = s]
  /\ UNCHANGED <<objects, windows, declined, phase, cut, titles, lost>>

(* An event that pincSdl2step refuses whatever the windows are. *)
OsRefused ==
  /\ phase = "polling"
  /\ sent < MaxEvents
  /\ sent' = sent + 1
  /\ queue' = Append(queue, RefusedEvent)
  /\ UNCHANGED <<objects, windows, real, declined, phase, cut, titles, lost>>

Refused(e) == e.type = "refused" \/ ~windows[e.window].open

(* SDL_WINDOWEVENT_SIZE_CHANGED.  The faulty variant tells the user and    *)
(* does not remember.                                                      *)
PollSizeForgets ==
  /\ phase = "polling"
  /\ queue # << >> /\ ~Refused(Head(queue))
  /\ queue' = Tail(queue)
  /\ UNCHANGED <<objects, windows, real, declined, sent, phase, cut, titles, lost>>

PollSize ==
  /\ phase = "polling"
  /\ queue # << >> /\ ~Refused(Head(queue))
  /\ queue' = Tail(queue)
  /\ windows' = [windows EXCEPT ![Head(queue).window].size = Head(queue).size]
  /\ declined' = [declined EXCEPT ![Head(queue).window] = FALSE]
  /\ UNCHANGED <<objects, real, sent, phase, cut, titles, lost>>

PollRefused ==
  /\ phase = "polling"
  /\ queue # << >> /\ Refused(Head(queue))
  /\ queue' = Tail(queue)
  /\ phase' = "idle"
  /\ cut' = TRUE
  /\ UNCHANGED <<objects, windows, real, declined, sent, titles, lost>>

StepEnd ==
  /\ phase = "polling"
  /\ queue = << >>
  /\ phase' = "idle"
  /\ UNCHANGED <<objects, windows, real, declined, queue, sent, cut, titles, lost>>

Next ==
  \/ \E h \in Handles : CreateIncomplete(h) \/ WindowComplete(h) \/ WindowDeinit(h)
  \/ \E h \in Handles, i \in 1 .. 2, v \in Lengths :
       SetLengthIncomplete(h, i, v) \/ SetLength(h, i, v)
  \/ OpenDummy
  \/ StepBegin \/ OsRefused \/ PollSize \/ PollRefused \/ StepEnd
  \/ \E w \in Ids, s \in Sizes : OsResize(w, s)

Spec == Init /\ [][Next]_vars

-----------------------------------------------------------------------------
TypeOK ==
  /\ objects \in [Handles -> [kind : {"none", "incompleteWindow", "window"},
                              has : [1 .. 2 -> BOOLEAN], size : Sizes]]
  /\ windows \in [Ids -> [open : BOOLEAN, new : BOOLEAN, owned : BOOLEAN,
                          front : Handles \cup {Nobody}, size : Sizes]]
  /\ real \in [Ids -> Sizes]
  /\ declined \in [Ids -> BOOLEAN]
  /\ sent \in 0 .. MaxEvents
  /\ phase \in {"idle", "polling"} /\ cut \in BOOLEAN
  /\ titles \in Nat /\ lost \in 0 .. MaxLost

(* The assertion of pincSdl2getWindowWidth, that the width it remembers is *)
(* SDL's: whatever the user and the system did to the size and in whatever *)
(* order the events came, it can fail only after SDL did not take the size *)
(* asked for, or after a step that a refused event cut short.              *)
SizesAgree ==
  phase = "idle" =>
    \A w \in Ids : windows[w].owned =>
      windows[w].size = real[w] \/ declined[w] \/ cut

(* Every title allocated belongs to an incomplete window, or was lost with *)
(* one that was destroyed: completing a window frees its title whether it  *)
(* opens a window or is given the dummy one.                               *)
TitlesAccounted ==
  titles = lost + Cardinality({h \in Handles : objects[h].kind = "incompleteWindow"})
=============================================================================
