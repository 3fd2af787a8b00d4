-------------------------- MODULE PincEventsProofs --------------------------
(***************************************************************************)
(* Proofs about PincEvents, for any number of windows, handles and events: *)
(* the focus and mouse events chain, the clipboard's texts live, no buffer *)
(* overflows, and queue and buffers implement the abstract stream.         *)
(***************************************************************************)
EXTENDS PincEvents, PoolOpsProofs

-----------------------------------------------------------------------------
(* The types of events.  PincEvents has no set of them: TLC need not know. *)
HandleOrNone == Handles \cup {None}

ButtonArgs == [button : Buttons, state : {0, 1}]

Numbers == {0, 1} \cup TextLengths

CountedTypes == {"text", "endlessText", "ignored"}

InputTypes == {"key", "clipboard", "longText"} \cup CountedTypes

SdlEvents ==
  {e \in [serial : 1 .. MaxEvents, type : WindowTypes \cup {"button"} \cup InputTypes,
          window : Ids \cup {None}, arg : Numbers \cup ButtonArgs] :
     /\ e.type \in WindowTypes => e.window \in Ids
     /\ e.type = "button" => e.arg \in ButtonArgs
     /\ e.type \in CountedTypes => e.arg \in Numbers
     /\ e.type = "endlessText" => e.arg = 0}

EventTypes == WindowTypes \cup InputTypes \cup {"focus", "mouseButton"}

EventData ==
  HandleOrNone \cup {"valid", "reused"} \cup [old : SUBSET (0 .. 4), new : SUBSET (0 .. 4)]

PincEventSet ==
  {e \in [serial : 1 .. MaxEvents, type : EventTypes, window : HandleOrNone,
          data : EventData, currentWindow : HandleOrNone] :
     e.type = "focus" => e.data \in HandleOrNone}

WindowRecords == [open : BOOLEAN, owned : BOOLEAN, new : BOOLEAN, front : HandleOrNone]

(* The texts of clipboard events. *)
TextsLive(events) ==
  \A i \in 1 .. Len(events) : events[i].type = "clipboard" => events[i].data = "valid"

(* The inductive invariant. *)
Typed ==
  /\ windows \in [Ids -> WindowRecords]
  /\ focus \in Ids \cup {None}
  /\ queue \in Seq(SdlEvents)
  /\ sent \in 0 .. MaxEvents
  /\ phase \in {"idle", "polling", "hung"}
  /\ back \in Seq(PincEventSet) /\ front \in Seq(PincEventSet)
  /\ realCurrent \in HandleOrNone /\ currentWindow \in HandleOrNone
  /\ mouse \in SUBSET (0 .. 4)
  /\ error \in BOOLEAN

Chained ==
  /\ FocusChains(front, currentWindow)
  /\ FocusChains(back, realCurrent)
  /\ back # << >> => back[1].currentWindow = currentWindow
  /\ back = << >> => currentWindow = realCurrent
  /\ phase = "idle" => back = << >>

Texts ==
  /\ TextsLive(back)
  /\ phase = "idle" => TextsLive(front)

IInv == Typed /\ Chained /\ Texts

-----------------------------------------------------------------------------
(* An event counts for a number of events: one, unless it is a text's or   *)
(* one of those the code does not name.                                    *)
LEMMA CountType ==
  ASSUME NEW e \in SdlEvents
  PROVE  Count(e) \in Nat /\ (e.type \notin CountedTypes => Count(e) = 1)
<1>1. Numbers \subseteq Nat
  BY PincEventsAssumption DEF Numbers
<1>2. e.type \in CountedTypes => e.arg \in Numbers
  BY DEF SdlEvents
<1>3. Count(e) = IF e.type \in CountedTypes THEN e.arg ELSE 1
  BY DEF Count, CountedTypes
<1>4. CASE e.type \in CountedTypes
  BY <1>1, <1>2, <1>3, <1>4
<1>5. CASE e.type \notin CountedTypes
  <2>1. Count(e) = 1
    BY <1>3, <1>5
  <2>2. QED
    BY <1>5, <2>1
<1>6. QED
  BY <1>4, <1>5

(* What one SDL event makes: events recorded under the window that was     *)
(* current, of which only a focus event, which is alone, changes it.       *)
LEMMA ProducedEvents ==
  ASSUME Typed, NEW e \in SdlEvents, ~Refused(e)
  PROVE  /\ Produced(e) \in Seq(PincEventSet)
         /\ CurrentAfter(e) \in HandleOrNone
         /\ \A i \in 1 .. Len(Produced(e)) :
              /\ Produced(e)[i].currentWindow = realCurrent
              /\ WindowAfter(Produced(e)[i]) = CurrentAfter(e)
         /\ Produced(e) = << >> => CurrentAfter(e) = realCurrent
         /\ Len(Produced(e)) > 1 => CurrentAfter(e) = realCurrent
         /\ TextsLive(Produced(e))
<1> DEFINE Good(p, c) ==
             /\ p \in Seq(PincEventSet)
             /\ c \in HandleOrNone
             /\ \A i \in 1 .. Len(p) : p[i].currentWindow = realCurrent /\ WindowAfter(p[i]) = c
             /\ p = << >> => c = realCurrent
             /\ Len(p) > 1 => c = realCurrent
             /\ TextsLive(p)
<1>1. /\ e.serial \in 1 .. MaxEvents
      /\ e.window \in Ids \cup {None}
      /\ \A w \in Ids \cup {None} : FrontOf(w) \in HandleOrNone
      /\ realCurrent \in HandleOrNone
  BY DEF Typed, SdlEvents, FrontOf, WindowRecords, HandleOrNone
<1>2. FocusOf(e) \in HandleOrNone
  BY <1>1 DEF FocusOf, HandleOrNone
<1>3. ASSUME NEW type \in EventTypes, NEW data \in EventData,
             type = "focus" => data \in HandleOrNone
      PROVE  /\ PincEvent(e, type, data) \in PincEventSet
             /\ PincEvent(e, type, data).type = type
             /\ PincEvent(e, type, data).data = data
             /\ PincEvent(e, type, data).currentWindow = realCurrent
  BY <1>1, <1>3 DEF PincEvent, PincEventSet
<1>4. ASSUME NEW p \in PincEventSet, p.currentWindow = realCurrent,
             WindowAfter(p) = CurrentAfter(e), CurrentAfter(e) \in HandleOrNone,
             p.type = "clipboard" => p.data = "valid"
      PROVE  Good(<<p>>, CurrentAfter(e))
  BY <1>4 DEF TextsLive
<1>5. CASE e.type \in FocusTypes
  <2>1. Produced(e) = <<PincEvent(e, "focus", FocusOf(e))>> /\ CurrentAfter(e) = FocusOf(e)
    BY <1>5 DEF Produced, CurrentAfter
  <2>2. FocusOf(e) \in EventData
    BY <1>2 DEF EventData
  <2> DEFINE q == PincEvent(e, "focus", FocusOf(e))
  <2>3. q \in PincEventSet /\ q.type = "focus" /\ q.data = FocusOf(e) /\ q.currentWindow = realCurrent
    BY <1>2, <1>3, <2>2 DEF EventTypes
  <2> HIDE DEF q
  <2>4. WindowAfter(q) = CurrentAfter(e)
    BY <2>1, <2>3 DEF WindowAfter
  <2>5. Good(<<q>>, CurrentAfter(e))
    BY <1>2, <1>4, <2>1, <2>3, <2>4
  <2>6. QED
    BY <2>1, <2>5 DEF q
<1>6. CASE e.type = "button"
  <2>1. e.type \notin FocusTypes
    BY <1>6 DEF FocusTypes
  <2>2. CurrentAfter(e) = realCurrent
    BY <2>1 DEF CurrentAfter
  <2> DEFINE d == [old |-> mouse, new |-> ButtonMask(mouse, e.arg)]
  <2>3. Produced(e) = <<PincEvent(e, "mouseButton", d)>>
    BY <1>6, <2>1 DEF Produced
  <2>4. d \in EventData
    <3>1. e.arg.button \in 1 .. 5
      BY <1>6 DEF Refused
    <3>2. ButtonBit[e.arg.button] \in 0 .. 4
      BY <3>1 DEF ButtonBit
    <3>3. ButtonMask(mouse, e.arg) \in SUBSET (0 .. 4)
      BY <3>2 DEF ButtonMask, Typed
    <3>4. QED
      BY <3>3 DEF Typed, EventData
  <2> HIDE DEF d
  <2> DEFINE q == PincEvent(e, "mouseButton", d)
  <2>5. q \in PincEventSet /\ q.type = "mouseButton" /\ q.currentWindow = realCurrent
    BY <1>3, <2>4 DEF EventTypes, InputTypes
  <2> HIDE DEF q
  <2>6. WindowAfter(q) = CurrentAfter(e)
    BY <2>2, <2>5 DEF WindowAfter
  <2>7. Good(<<q>>, CurrentAfter(e))
    BY <1>1, <1>4, <2>2, <2>5, <2>6
  <2>8. QED
    BY <2>3, <2>7 DEF q
<1>7. CASE e.type = "clipboard"
  <2>1. e.type \notin FocusTypes /\ e.type # "button"
    BY <1>7 DEF FocusTypes
  <2>2. CurrentAfter(e) = realCurrent
    BY <2>1 DEF CurrentAfter
  <2>3. Produced(e) = <<PincEvent(e, "clipboard", "valid")>>
    BY <1>7, <2>1 DEF Produced
  <2>4. "valid" \in EventData
    BY DEF EventData
  <2> DEFINE q == PincEvent(e, "clipboard", "valid")
  <2>5. /\ q \in PincEventSet /\ q.type = "clipboard" /\ q.data = "valid"
        /\ q.currentWindow = realCurrent
    BY <1>3, <2>4 DEF EventTypes, InputTypes
  <2> HIDE DEF q
  <2>6. WindowAfter(q) = CurrentAfter(e)
    BY <2>2, <2>5 DEF WindowAfter
  <2>7. Good(<<q>>, CurrentAfter(e))
    BY <1>1, <1>4, <2>2, <2>5, <2>6
  <2>8. QED
    BY <2>3, <2>7 DEF q
<1>8. CASE e.type \notin FocusTypes /\ e.type # "button" /\ e.type # "clipboard"
  <2>1. CurrentAfter(e) = realCurrent
    BY <1>8 DEF CurrentAfter
  <2>2. Produced(e) = [i \in 1 .. Count(e) |-> PincEvent(e, e.type, 0)]
    BY <1>8 DEF Produced
  <2>3. e.type \in EventTypes /\ e.type # "focus"
    BY <1>8, PincEventsAssumption
    DEF SdlEvents, EventTypes, WindowTypes, FocusTypes, InputTypes, CountedTypes
  <2>4. 0 \in EventData
    BY DEF EventData, HandleOrNone, None
  <2>5. Count(e) \in Nat
    BY CountType
  <2> DEFINE q == PincEvent(e, e.type, 0)
  <2>6. q \in PincEventSet /\ q.type = e.type /\ q.currentWindow = realCurrent
    BY <1>3, <2>3, <2>4
  <2>7. WindowAfter(q) = realCurrent
    BY <2>3, <2>6 DEF WindowAfter
  <2> HIDE DEF q
  <2>8. SUFFICES ASSUME NEW n \in Nat, NEW p, p = [i \in 1 .. n |-> q]
                 PROVE  Good(p, realCurrent)
    BY <2>1, <2>2, <2>5 DEF q
  <2>9. p \in Seq(PincEventSet) /\ Len(p) = n /\ \A i \in 1 .. n : p[i] = q
    BY <2>6, <2>8
  <2>10. QED
    BY <1>1, <1>8, <2>6, <2>7, <2>9 DEF TextsLive
<1>9. QED
  BY <1>5, <1>6, <1>7, <1>8

(* Appending what one SDL event makes continues the chain. *)
LEMMA ChainAppend ==
  ASSUME NEW b \in Seq(PincEventSet), NEW p \in Seq(PincEventSet), NEW r, NEW r2,
         FocusChains(b, r),
         \A i \in 1 .. Len(p) : p[i].currentWindow = r /\ WindowAfter(p[i]) = r2,
         p = << >> => r2 = r,
         Len(p) > 1 => r2 = r
  PROVE  FocusChains(b \o p, r2)
<1> DEFINE s == b \o p
<1>1. PICK m \in Nat, n \in Nat : m = Len(b) /\ n = Len(p)
  OBVIOUS
<1>2. /\ s \in Seq(PincEventSet) /\ Len(s) = m + n
      /\ \A i \in 1 .. m : s[i] = b[i]
      /\ \A i \in (m + 1) .. (m + n) : s[i] = p[i - m]
  BY <1>1
<1> HIDE DEF s
<1>3. ASSUME NEW i \in 1 .. (m + n - 1) PROVE s[i + 1].currentWindow = WindowAfter(s[i])
  <2>1. CASE i < m
    <3>1. i \in 1 .. (m - 1) /\ i \in 1 .. m /\ i + 1 \in 1 .. m
      BY <2>1
    <3>2. s[i] = b[i] /\ s[i + 1] = b[i + 1]
      BY <1>2, <3>1
    <3>3. b[i + 1].currentWindow = WindowAfter(b[i])
      BY <1>1, <3>1 DEF FocusChains
    <3>4. QED
      BY <3>2, <3>3
  <2>2. CASE i = m
    <3>1. m \in 1 .. m /\ m + 1 \in (m + 1) .. (m + n) /\ m + 1 - m = 1 /\ 1 \in 1 .. n
      BY <2>2
    <3>2. s[m] = b[m] /\ s[m + 1] = p[1]
      BY <1>2, <3>1
    <3>3. WindowAfter(b[m]) = r
      <4>1. b # << >>
        BY <1>1, <3>1
      <4>2. QED
        BY <1>1, <4>1 DEF FocusChains
    <3>4. p[1].currentWindow = r
      BY <1>1, <3>1
    <3>5. QED
      BY <2>2, <3>2, <3>3, <3>4
  <2>3. CASE i > m
    <3>1. /\ i \in (m + 1) .. (m + n) /\ i + 1 \in (m + 1) .. (m + n)
          /\ i - m \in 1 .. n /\ i + 1 - m \in 1 .. n /\ n > 1
      BY <2>3
    <3>2. s[i] = p[i - m] /\ s[i + 1] = p[i + 1 - m]
      BY <1>2, <3>1
    <3>3. QED
      BY <1>1, <3>1, <3>2
  <2>4. QED
    BY <2>1, <2>2, <2>3
<1>4. ASSUME s # << >> PROVE WindowAfter(s[m + n]) = r2
  <2>1. CASE n = 0
    <3>1. p = << >>
      BY <1>1, <2>1, EmptySeq
    <3>2. m # 0
      BY <1>2, <1>4, <2>1
    <3>3. m \in 1 .. m /\ b # << >>
      BY <1>1, <3>2
    <3>4. s[m] = b[m]
      BY <1>2, <3>3
    <3>5. WindowAfter(b[m]) = r
      BY <1>1, <3>3 DEF FocusChains
    <3>6. m + n = m /\ r2 = r
      BY <2>1, <3>1
    <3>7. QED
      BY <3>4, <3>5, <3>6
  <2>2. CASE n > 0
    <3>1. m + n \in (m + 1) .. (m + n) /\ m + n - m = n /\ n \in 1 .. n
      BY <2>2
    <3>2. QED
      BY <1>1, <1>2, <3>1
  <2>3. QED
    BY <2>1, <2>2
<1>5. QED
  BY <1>2, <1>3, <1>4 DEF FocusChains, s

-----------------------------------------------------------------------------
(* Nothing has happened in the initial state. *)
LEMMA InitInv == Init => IInv
<1> SUFFICES ASSUME Init PROVE IInv
  OBVIOUS
<1>1. Typed
  <2>1. Unmade \in WindowRecords
    BY DEF Unmade, Closed, WindowRecords, HandleOrNone
  <2>2. windows \in [Ids -> WindowRecords]
    BY <2>1 DEF Init
  <2>3. sent \in 0 .. MaxEvents
    BY PincEventsAssumption DEF Init
  <2>4. << >> \in Seq(SdlEvents) /\ << >> \in Seq(PincEventSet)
    OBVIOUS
  <2>5. QED
    BY <2>2, <2>3, <2>4 DEF Init, Typed, HandleOrNone
<1>2. Chained /\ Texts
  BY DEF Init, Chained, Texts, FocusChains, TextsLive
<1>3. QED
  BY <1>1, <1>2 DEF IInv

(* SDL and the system only add events to SDL's queue. *)
LEMMA QueueTyped ==
  ASSUME Typed,
         NEW type \in WindowTypes \cup {"button"} \cup InputTypes,
         NEW w \in Ids \cup {None}, NEW arg \in Numbers \cup ButtonArgs,
         type \in WindowTypes => w \in Ids,
         type = "button" => arg \in ButtonArgs,
         type \in CountedTypes => arg \in Numbers,
         type = "endlessText" => arg = 0,
         Queue(type, w, arg)
  PROVE  queue' \in Seq(SdlEvents) /\ sent' \in 0 .. MaxEvents
<1>1. sent \in 0 .. MaxEvents /\ sent < MaxEvents /\ MaxEvents \in Nat
  BY PincEventsAssumption DEF Typed, Queue
<1>2. sent + 1 \in 1 .. MaxEvents
  BY <1>1
<1>3. SdlEvent(type, w, arg) \in SdlEvents
  BY <1>2 DEF SdlEvent, SdlEvents
<1>4. QED
  BY <1>1, <1>2, <1>3 DEF Typed, Queue

(* What the system does keeps the invariant. *)
LEMMA OsInv == ASSUME IInv, Os PROVE IInv'
<1>1. UNCHANGED <<windows, phase, back, front, realCurrent, currentWindow, mouse, error>>
  BY DEF Os, OsWindow, OsFocusGained, OsFocusLost, OsButton, OsInput, OsUnchanged
<1>2. queue' \in Seq(SdlEvents) /\ sent' \in 0 .. MaxEvents /\ focus' \in Ids \cup {None}
  <2>1. CASE \E w \in Ids : OsWindow(w)
    <3>1. PICK w \in Ids : OsWindow(w)
      BY <2>1
    <3>2. CASE \E type \in PlainTypes : Queue(type, w, 0)
      <4>1. PICK type \in PlainTypes : Queue(type, w, 0)
        BY <3>2
      <4>2. type \in WindowTypes /\ type \notin {"button"} \cup CountedTypes /\ 0 \in Numbers
        BY PincEventsAssumption DEF WindowTypes, CountedTypes, Numbers
      <4>3. QED
        BY <3>1, <4>1, <4>2, QueueTyped DEF OsWindow, IInv, Typed
    <3>3. CASE \E valid \in {0, 1} : Queue("sizeChanged", w, valid)
      <4>1. PICK valid \in {0, 1} : Queue("sizeChanged", w, valid)
        BY <3>3
      <4>2. "sizeChanged" \in WindowTypes \ CountedTypes /\ valid \in Numbers
        BY DEF WindowTypes, CountedTypes, Numbers
      <4>3. QED
        BY <3>1, <4>1, <4>2, QueueTyped DEF OsWindow, IInv, Typed
    <3>4. QED
      BY <3>1, <3>2, <3>3 DEF OsWindow
  <2>2. CASE \E w \in Ids : OsFocusGained(w)
    <3>1. PICK w \in Ids : OsFocusGained(w)
      BY <2>2
    <3>2. "focusGained" \in WindowTypes \ CountedTypes /\ 0 \in Numbers
      BY DEF WindowTypes, FocusTypes, CountedTypes, Numbers
    <3>3. QED
      BY <3>1, <3>2, QueueTyped DEF OsFocusGained, IInv
  <2>3. CASE OsFocusLost
    <3>1. focus \in Ids
      BY <2>3 DEF OsFocusLost, IInv, Typed
    <3>2. "focusLost" \in WindowTypes \ CountedTypes /\ 0 \in Numbers
      BY DEF WindowTypes, FocusTypes, CountedTypes, Numbers
    <3>3. QED
      BY <2>3, <3>1, <3>2, QueueTyped DEF OsFocusLost, IInv
  <2>4. ASSUME NEW type \in {"button"} \cup InputTypes PROVE type \notin WindowTypes
    BY PincEventsAssumption DEF WindowTypes, FocusTypes, InputTypes, CountedTypes
  <2>5. CASE \E button \in Buttons, state \in {0, 1} : OsButton(button, state)
    <3>1. PICK button \in Buttons, state \in {0, 1} : OsButton(button, state)
      BY <2>5
    <3>2. [button |-> button, state |-> state] \in ButtonArgs
      BY DEF ButtonArgs
    <3>3. "button" \notin CountedTypes
      BY DEF CountedTypes
    <3>4. QED
      BY <2>4, <3>1, <3>2, <3>3, QueueTyped DEF OsButton, IInv, Typed
  <2>6. ASSUME NEW type \in InputTypes, NEW n \in Numbers, type = "endlessText" => n = 0,
               OsInput(type, n)
        PROVE  queue' \in Seq(SdlEvents) /\ sent' \in 0 .. MaxEvents /\ focus' \in Ids \cup {None}
    <3>1. type # "button"
      BY DEF InputTypes, CountedTypes
    <3>2. QED
      BY <2>4, <2>6, <3>1, QueueTyped DEF OsInput, IInv, Typed
  <2>7. ASSUME ~(\E w \in Ids : OsWindow(w)), ~(\E w \in Ids : OsFocusGained(w)), ~OsFocusLost,
               ~(\E button \in Buttons, state \in {0, 1} : OsButton(button, state))
        PROVE  \E type \in InputTypes, n \in Numbers :
                 (type = "endlessText" => n = 0) /\ OsInput(type, n)
    BY <2>7 DEF Os, InputTypes, CountedTypes, Numbers
  <2>8. QED
    BY <2>1, <2>2, <2>3, <2>5, <2>6, <2>7
<1>3. QED
  BY <1>1, <1>2 DEF IInv, Typed, Chained, Texts, FocusChains, TextsLive

(* A window comes: a step that touches neither queue nor buffers. *)
LEMMA WindowCompleteInv == ASSUME IInv, NEW h \in Handles, WindowComplete(h) PROVE IInv'
<1>1. PICK w \in Ids : windows' = [windows EXCEPT ![w] = OwnedBy(h)]
  BY DEF WindowComplete
<1>2. OwnedBy(h) \in WindowRecords
  BY DEF OwnedBy, WindowRecords, HandleOrNone
<1>3. windows' \in [Ids -> WindowRecords]
  BY <1>1, <1>2 DEF IInv, Typed
<1>4. QED
  BY <1>3 DEF WindowComplete, IInv, Typed, Chained, Texts, FocusChains, TextsLive

(* A window goes, and SDL may queue that it lost the focus. *)
LEMMA WindowDeinitInv == ASSUME IInv, NEW w \in Ids, WindowDeinit(w) PROVE IInv'
<1>1. windows' \in [Ids -> WindowRecords]
  <2>1. windows \in [Ids -> WindowRecords]
    BY DEF IInv, Typed
  <2>2. Closed \in WindowRecords /\ [windows[w] EXCEPT !.owned = FALSE] \in WindowRecords
    BY <2>1 DEF Closed, WindowRecords, HandleOrNone
  <2>3. \/ windows' = [windows EXCEPT ![w] = [windows[w] EXCEPT !.owned = FALSE]]
        \/ windows' = [windows EXCEPT ![w] = Closed]
    BY DEF WindowDeinit
  <2>4. QED
    BY <2>1, <2>2, <2>3
<1>2. queue' \in Seq(SdlEvents) /\ sent' \in 0 .. MaxEvents /\ focus' \in Ids \cup {None}
  <2>1. CASE UNCHANGED <<focus, queue, sent>>
    BY <2>1 DEF IInv, Typed
  <2>2. CASE Queue("focusLost", w, 0) /\ focus' = None
    <3>1. "focusLost" \in WindowTypes
      BY DEF WindowTypes, FocusTypes
    <3>2. "focusLost" \notin CountedTypes /\ 0 \in Numbers
      BY DEF CountedTypes, Numbers
    <3>3. QED
      BY <2>2, <3>1, <3>2, QueueTyped DEF IInv
  <2>3. QED
    BY <2>1, <2>2 DEF WindowDeinit
<1>3. UNCHANGED <<phase, back, front, realCurrent, currentWindow, mouse, error>>
  BY DEF WindowDeinit
<1>4. QED
  BY <1>1, <1>2, <1>3 DEF IInv, Typed, Chained, Texts, FocusChains, TextsLive

-----------------------------------------------------------------------------
(* Resetting the arena touches nothing but the texts, and the back buffer  *)
(* is empty then.                                                          *)
LEMMA ReusedEvents ==
  ASSUME NEW events \in Seq(PincEventSet)
  PROVE  /\ Reused(events) \in Seq(PincEventSet)
         /\ Len(Reused(events)) = Len(events)
         /\ \A i \in 1 .. Len(events) :
              /\ Reused(events)[i].currentWindow = events[i].currentWindow
              /\ WindowAfter(Reused(events)[i]) = WindowAfter(events[i])
<1> DEFINE One(e) == IF e.type = "clipboard" THEN [e EXCEPT !.data = "reused"] ELSE e
<1>1. ASSUME NEW e \in PincEventSet
      PROVE  /\ One(e) \in PincEventSet
             /\ One(e).currentWindow = e.currentWindow
             /\ WindowAfter(One(e)) = WindowAfter(e)
  <2>1. CASE e.type = "clipboard"
    <3>1. "reused" \in EventData
      BY DEF EventData
    <3>2. QED
      BY <2>1, <3>1 DEF PincEventSet, WindowAfter
  <2>2. CASE e.type # "clipboard"
    BY <2>2
  <2>3. QED
    BY <2>1, <2>2
<1>2. Reused(events) = [i \in 1 .. Len(events) |-> One(events[i])]
  BY DEF Reused
<1> HIDE DEF One
<1>3. \A i \in 1 .. Len(events) : events[i] \in PincEventSet
  OBVIOUS
<1>4. Len(events) \in Nat
  OBVIOUS
<1>5. SUFFICES ASSUME NEW n \in Nat, n = Len(events),
                      NEW r, r = [i \in 1 .. n |-> One(events[i])]
               PROVE  /\ r \in Seq(PincEventSet)
                      /\ Len(r) = n
                      /\ \A i \in 1 .. n : /\ r[i].currentWindow = events[i].currentWindow
                                           /\ WindowAfter(r[i]) = WindowAfter(events[i])
  BY <1>2, <1>4
<1>6. \A i \in 1 .. n : r[i] = One(events[i]) /\ r[i] \in PincEventSet
  BY <1>1, <1>3, <1>5
<1>7. r \in Seq(PincEventSet) /\ Len(r) = n
  BY <1>5, <1>6
<1>8. QED
  BY <1>1, <1>3, <1>5, <1>6, <1>7

(* pincStep begins. *)
LEMMA StepBeginInv == ASSUME IInv, StepBegin PROVE IInv'
<1>1. back = << >> /\ back' = << >>
  BY DEF IInv, Chained, StepBegin, Reused
<1>2. front \in Seq(PincEventSet) /\ front' = Reused(front)
  BY DEF IInv, Typed, StepBegin
<1>3. Typed'
  BY <1>1, <1>2, ReusedEvents DEF IInv, Typed, StepBegin
<1>4. FocusChains(front', currentWindow)
  <2>1. PICK n \in Nat : n = Len(front)
    BY <1>2
  <2>2. SUFFICES ASSUME NEW r \in Seq(PincEventSet), r = front', Len(r) = n,
                        \A i \in 1 .. n : /\ r[i].currentWindow = front[i].currentWindow
                                          /\ WindowAfter(r[i]) = WindowAfter(front[i])
                 PROVE  FocusChains(r, currentWindow)
    BY <1>2, <2>1, ReusedEvents
  <2>3. FocusChains(front, currentWindow)
    BY DEF IInv, Chained
  <2>4. \A i \in 1 .. (n - 1) : i \in 1 .. n /\ i + 1 \in 1 .. n
    BY <2>1
  <2>5. \A i \in 1 .. (n - 1) : r[i + 1].currentWindow = WindowAfter(r[i])
    BY <2>1, <2>2, <2>3, <2>4 DEF FocusChains
  <2>6. ASSUME r # << >> PROVE WindowAfter(r[n]) = currentWindow
    <3>1. n \in 1 .. n /\ front # << >>
      BY <1>2, <2>1, <2>2, <2>6
    <3>2. QED
      BY <2>1, <2>2, <2>3, <3>1 DEF FocusChains
  <2>7. QED
    BY <2>2, <2>5, <2>6 DEF FocusChains
<1>5. QED
  BY <1>1, <1>3, <1>4 DEF IInv, Chained, Texts, StepBegin, FocusChains, TextsLive

(* An event is polled. *)
LEMMA PollInv == ASSUME IInv, Poll PROVE IInv'
<1> DEFINE e == Head(queue)
<1>1. queue \in Seq(SdlEvents) /\ queue # << >> /\ ~Refused(e) /\ phase = "polling"
  BY DEF IInv, Typed, Poll
<1>2. e \in SdlEvents /\ Tail(queue) \in Seq(SdlEvents)
  BY <1>1
<1>3. /\ queue' = Tail(queue)
      /\ back' = back \o Produced(e)
      /\ realCurrent' = CurrentAfter(e)
      /\ mouse' = IF e.type = "button" THEN ButtonMask(mouse, e.arg) ELSE mouse
      /\ UNCHANGED <<windows, focus, sent, phase, front, currentWindow, error>>
  BY DEF Poll, BackAppend
<1>4. ~Refused(e) /\ e \in SdlEvents
  BY <1>1, <1>2
<1> HIDE DEF e
<1>5. PICK p \in Seq(PincEventSet) :
        /\ p = Produced(e)
        /\ CurrentAfter(e) \in HandleOrNone
        /\ \A i \in 1 .. Len(p) : /\ p[i].currentWindow = realCurrent
                                  /\ WindowAfter(p[i]) = CurrentAfter(e)
        /\ p = << >> => CurrentAfter(e) = realCurrent
        /\ Len(p) > 1 => CurrentAfter(e) = realCurrent
        /\ TextsLive(p)
  BY <1>4, ProducedEvents DEF IInv
<1>6. back \in Seq(PincEventSet) /\ back' = back \o p
  BY <1>3, <1>5 DEF IInv, Typed
<1>7. mouse' \in SUBSET (0 .. 4)
  <2>1. CASE e.type = "button"
    <3>1. e.arg.button \in 1 .. 5
      BY <1>4, <2>1 DEF Refused
    <3>2. ButtonBit[e.arg.button] \in 0 .. 4
      BY <3>1 DEF ButtonBit
    <3>3. QED
      BY <1>3, <2>1, <3>2 DEF ButtonMask, IInv, Typed
  <2>2. CASE e.type # "button"
    BY <1>3, <2>2 DEF IInv, Typed
  <2>3. QED
    BY <2>1, <2>2
<1>8. Typed'
  BY <1>2, <1>3, <1>5, <1>6, <1>7 DEF IInv, Typed, e
<1>9. FocusChains(back', realCurrent')
  BY <1>3, <1>5, <1>6, ChainAppend DEF IInv, Chained
<1>10. ASSUME back' # << >> PROVE back'[1].currentWindow = currentWindow
  <2>1. CASE back = << >>
    <3>1. back' = p /\ p # << >>
      BY <1>6, <1>10, <2>1
    <3>2. 1 \in 1 .. Len(p) /\ currentWindow = realCurrent
      BY <2>1, <3>1 DEF IInv, Chained
    <3>3. QED
      BY <1>5, <3>1, <3>2
  <2>2. CASE back # << >>
    BY <1>6, <2>2 DEF IInv, Chained
  <2>3. QED
    BY <2>1, <2>2
<1>11. ASSUME back' = << >> PROVE currentWindow = realCurrent'
  <2>1. back = << >> /\ p = << >>
    <3>1. PICK m \in Nat, n \in Nat : m = Len(back) /\ n = Len(p)
      BY <1>6
    <3>2. Len(back') = m + n
      BY <1>6, <3>1
    <3>3. m = 0 /\ n = 0
      BY <1>11, <3>1, <3>2
    <3>4. QED
      BY <1>6, <3>1, <3>3, EmptySeq
  <2>2. QED
    BY <1>3, <1>5, <2>1 DEF IInv, Chained
<1>12. TextsLive(back')
  <2>1. PICK m \in Nat, n \in Nat : m = Len(back) /\ n = Len(p)
    BY <1>6
  <2>2. Len(back') = m + n
    BY <1>6, <2>1
  <2>3. ASSUME NEW i \in 1 .. (m + n) PROVE back'[i].type = "clipboard" => back'[i].data = "valid"
    <3>1. CASE i <= m
      BY <1>6, <2>1, <3>1 DEF IInv, Texts, TextsLive
    <3>2. CASE i > m
      <4>1. back'[i] = p[i - m] /\ i - m \in 1 .. n
        BY <1>6, <2>1, <3>2
      <4>2. QED
        BY <1>5, <2>1, <4>1 DEF TextsLive
    <3>3. QED
      BY <3>1, <3>2
  <2>4. QED
    BY <2>2, <2>3 DEF TextsLive
<1>13. QED
  BY <1>1, <1>3, <1>8, <1>9, <1>10, <1>11, <1>12 DEF IInv, Chained, Texts

(* The end of pincStep, after the last event or a refused one. *)
LEMMA SwapInv ==
  ASSUME IInv, Swap(back), queue' \in Seq(SdlEvents), error' \in BOOLEAN,
         UNCHANGED <<windows, focus, sent, realCurrent, mouse>>
  PROVE  IInv'
<1>1. /\ front' = back /\ back' = << >> /\ currentWindow' = realCurrent
      /\ realCurrent' = realCurrent /\ phase' = "idle"
  BY DEF Swap
<1>2. Typed'
  BY <1>1 DEF IInv, Typed
<1>3. FocusChains(<< >>, realCurrent) /\ TextsLive(<< >>)
  BY DEF FocusChains, TextsLive
<1>4. QED
  BY <1>1, <1>2, <1>3 DEF IInv, Chained, Texts

(* Every step keeps the invariant. *)
LEMMA NextInv == ASSUME IInv, [Next]_vars PROVE IInv'
<1>1. CASE Os
  BY <1>1, OsInv
<1>2. CASE \E h \in Handles : WindowComplete(h)
  BY <1>2, WindowCompleteInv
<1>3. CASE \E w \in Ids : WindowDeinit(w)
  BY <1>3, WindowDeinitInv
<1>4. CASE StepBegin
  BY <1>4, StepBeginInv
<1>5. CASE Poll
  BY <1>5, PollInv
<1>6. CASE PollRefused
  <2>1. queue' \in Seq(SdlEvents)
    BY <1>6 DEF PollRefused, IInv, Typed
  <2>2. QED
    BY <1>6, <2>1, SwapInv DEF PollRefused
<1>7. CASE StepEnd
  BY <1>7, SwapInv DEF StepEnd, IInv, Typed
<1>8. CASE PollHangs
  <2>1. queue' \in Seq(SdlEvents)
    BY <1>8 DEF PollHangs, IInv, Typed
  <2>2. QED
    BY <1>8, <2>1 DEF PollHangs, IInv, Typed, Chained, Texts, FocusChains, TextsLive
<1>9. CASE UNCHANGED vars
  BY <1>9 DEF vars, IInv, Typed, Chained, Texts, FocusChains, TextsLive
<1>10. QED
  BY <1>1, <1>2, <1>3, <1>4, <1>5, <1>6, <1>7, <1>8, <1>9 DEF Next, User, PincStep, DecodeOn

(* The invariant holds in every state. *)
THEOREM EventsInvariant == Spec => []IInv
<1>1. IInv /\ [Next]_vars => IInv'
  BY NextInv
<1>2. QED
  BY InitInv, <1>1, PTL DEF Spec

(* However many windows and events there are and wherever steps are cut    *)
(* short, what pincEventGetWindow and pincEventFocusOldWindow report       *)
(* agrees with the focus events the user saw.                              *)
THEOREM FocusEventsChain == Spec => []FocusConsistent
<1>1. IInv => FocusConsistent
  <2>1. SUFFICES ASSUME IInv PROVE FocusConsistent
    OBVIOUS
  <2>2. back # << >> => Head(back) = back[1]
    BY <2>1 DEF IInv, Typed
  <2>3. back # << >> => Head(back).currentWindow = currentWindow
    BY <2>1, <2>2 DEF IInv, Chained
  <2>4. phase = "idle" => currentWindow = realCurrent
    BY <2>1 DEF IInv, Chained
  <2>5. FocusChains(front, currentWindow) /\ FocusChains(back, realCurrent)
    BY <2>1 DEF IInv, Chained
  <2>6. QED
    BY <2>3, <2>4, <2>5 DEF FocusConsistent
<1>2. QED
  BY EventsInvariant, <1>1, PTL

(* The arena is reset before any text of the step is put on it: the user   *)
(* never sees a clipboard event whose text was reused.                     *)
THEOREM ClipboardTextsLive == Spec => []ClipboardTextLives
<1>1. IInv => ClipboardTextLives
  <2>1. SUFFICES ASSUME IInv, phase = "idle", NEW e \in Range(front), e.type = "clipboard"
                 PROVE  e.data = "valid"
    BY DEF ClipboardTextLives
  <2>2. PICK i \in 1 .. Len(front) : e = front[i]
    BY <2>1 DEF Range, IInv, Typed
  <2>3. QED
    BY <2>1, <2>2 DEF IInv, Texts, TextsLive
<1>2. QED
  BY EventsInvariant, <1>1, PTL

(* Every variable keeps its type. *)
THEOREM TypeCorrect == Spec => []TypeOK
<1>1. IInv => TypeOK
  <2>1. SUFFICES ASSUME IInv PROVE TypeOK
    OBVIOUS
  <2>2. ASSUME NEW e \in Range(back \o front) PROVE e.currentWindow \in Handles \cup {None}
    <3>1. PICK b \in Seq(PincEventSet) : b = back \o front
      <4>1. back \in Seq(PincEventSet) /\ front \in Seq(PincEventSet)
        BY <2>1 DEF IInv, Typed
      <4>2. back \o front \in Seq(PincEventSet)
        BY <4>1, ConcatProperties
      <4>3. QED
        BY <4>2
    <3>2. PICK i \in 1 .. Len(b) : e = b[i]
      BY <3>1 DEF Range
    <3>3. e \in PincEventSet
      BY <3>1, <3>2
    <3>4. QED
      BY <3>3 DEF PincEventSet, HandleOrNone
  <2>3. QED
    BY <2>1, <2>2 DEF IInv, Typed, TypeOK, WindowRecords, HandleOrNone
<1>2. QED
  BY EventsInvariant, <1>1, PTL
-----------------------------------------------------------------------------
(* However many events are appended one after the other, the buffer has    *)
(* room for them: PincEventBackAppend makes room before it writes.         *)
LEMMA CapacityAfterFits ==
  ASSUME NEW n \in Nat, backCapacity \in Nat, NEW m \in Nat, m = Len(back), m <= backCapacity
  PROVE  CapacityAfter(n) \in Nat /\ m + n <= CapacityAfter(n)
<1> DEFINE g == [p \in Nat \X Nat |-> CapacityFor(m + p[1], p[2])]
           Step(f) == [i \in 0 .. n |-> IF i = 0 THEN backCapacity
                                        ELSE CapacityFor(m + i, f[i - 1])]
           c == CHOOSE f : f = Step(f)
<1>1. \A i \in Nat, k \in Nat :
        /\ CapacityFor(m + i, k) \in Nat
        /\ m + i <= k + 1 => m + i <= CapacityFor(m + i, k)
  <2>1. ASSUME NEW i \in Nat, NEW k \in Nat
        PROVE  /\ CapacityFor(m + i, k) \in Nat
               /\ m + i <= k + 1 => m + i <= CapacityFor(m + i, k)
    <3>1. Grown(k) \in Nat /\ k < Grown(k)
      BY GrownMakesRoom
    <3>2. QED
      BY <3>1 DEF CapacityFor
  <2>2. QED
    BY <2>1
<1>2. g \in [Nat \X Nat -> Nat]
  BY <1>1
<1>3. PICK f \in [0 .. n -> Nat] : FromLeft(f, n, backCapacity, g)
  <2> HIDE DEF g
  <2> QED
    BY <1>2, RecursiveFunctionExists
<1>4. f = Step(f)
  <2>1. ASSUME NEW i \in 0 .. n
        PROVE  f[i] = IF i = 0 THEN backCapacity ELSE CapacityFor(m + i, f[i - 1])
    <3>1. CASE i = 0
      BY <1>3, <3>1 DEF FromLeft
    <3>2. CASE i # 0
      <4>1. i \in 1 .. n /\ i - 1 \in 0 .. n
        BY <3>2
      <4>2. f[i - 1] \in Nat /\ <<i, f[i - 1]>> \in Nat \X Nat
        BY <1>3, <4>1
      <4>3. g[<<i, f[i - 1]>>] = CapacityFor(m + i, f[i - 1])
        BY <4>2
      <4>4. QED
        BY <1>3, <3>2, <4>1, <4>3 DEF FromLeft
    <3>3. QED
      BY <3>1, <3>2
  <2>2. QED
    BY <1>3, <2>1
<1>5. c = Step(c)
  <2> HIDE DEF Step
  <2> QED
    BY <1>4
<1>6. CapacityAfter(n) = c[n]
  BY DEF CapacityAfter
<1> HIDE DEF c
<1>7. c[0] = backCapacity /\ \A i \in 1 .. n : c[i] = CapacityFor(m + i, c[i - 1])
  BY <1>5
<1> DEFINE S == {i \in Nat : i <= n => c[i] \in Nat /\ m + i <= c[i]}
<1>8. 0 \in S
  BY <1>7
<1>9. ASSUME NEW i \in Nat, i \in S PROVE i + 1 \in S
  <2>1. SUFFICES ASSUME i + 1 <= n PROVE c[i + 1] \in Nat /\ m + (i + 1) <= c[i + 1]
    OBVIOUS
  <2>2. c[i] \in Nat /\ m + i <= c[i] /\ i + 1 \in 1 .. n /\ i + 1 - 1 = i
    BY <1>9, <2>1
  <2>3. c[i + 1] = CapacityFor(m + (i + 1), c[i])
    BY <1>7, <2>2
  <2>4. i + 1 \in Nat /\ m + (i + 1) <= c[i] + 1
    BY <2>2
  <2> HIDE DEF S
  <2>5. QED
    BY <1>1, <2>2, <2>3, <2>4
<1>10. n \in S
  <2> HIDE DEF S
  <2> QED
    BY <1>8, <1>9, NatSetInduction
<1>11. QED
  BY <1>6, <1>10

-----------------------------------------------------------------------------
(* What one SDL event makes, seen from the stream: as many events as it    *)
(* counts for, with its serial number, and a mouse event from a button.    *)
LEMMA ProducedStream ==
  ASSUME Typed, NEW e \in SdlEvents, ~Refused(e)
  PROVE  /\ Count(e) \in Nat /\ Len(Produced(e)) = Count(e)
         /\ \A i \in 1 .. Count(e) : Produced(e)[i].serial = e.serial
         /\ e.type # "button" => \A i \in 1 .. Count(e) : Produced(e)[i].type # "mouseButton"
         /\ e.type = "button" =>
              /\ Count(e) = 1
              /\ Produced(e)[1].type = "mouseButton"
              /\ Produced(e)[1].data = [old |-> mouse, new |-> ButtonMask(mouse, e.arg)]
<1>1. Count(e) \in Nat /\ (e.type \notin {"text", "endlessText", "ignored"} => Count(e) = 1)
  BY CountType DEF CountedTypes
<1>2. \A type, data : /\ PincEvent(e, type, data).serial = e.serial
                     /\ PincEvent(e, type, data).type = type
                     /\ PincEvent(e, type, data).data = data
  BY DEF PincEvent
<1>3. CASE e.type \in FocusTypes
  <2>1. Produced(e) = <<PincEvent(e, "focus", FocusOf(e))>> /\ Count(e) = 1 /\ e.type # "button"
    BY <1>1, <1>3 DEF Produced, FocusTypes
  <2>2. QED
    BY <1>2, <2>1
<1>4. CASE e.type = "button"
  <2> DEFINE d == [old |-> mouse, new |-> ButtonMask(mouse, e.arg)]
  <2>1. Produced(e) = <<PincEvent(e, "mouseButton", d)>> /\ Count(e) = 1
    BY <1>1, <1>4 DEF Produced, FocusTypes
  <2>2. QED
    BY <1>2, <1>4, <2>1
<1>5. CASE e.type = "clipboard"
  <2>1. Produced(e) = <<PincEvent(e, "clipboard", "valid")>> /\ Count(e) = 1 /\ e.type # "button"
    BY <1>1, <1>5 DEF Produced, FocusTypes
  <2>2. QED
    BY <1>2, <2>1
<1>6. CASE e.type \notin FocusTypes /\ e.type # "button" /\ e.type # "clipboard"
  <2>1. Produced(e) = [i \in 1 .. Count(e) |-> PincEvent(e, e.type, 0)]
    BY <1>6 DEF Produced
  <2>2. e.type # "mouseButton"
    BY PincEventsAssumption DEF SdlEvents, WindowTypes, FocusTypes, InputTypes, CountedTypes
  <2>3. QED
    BY <1>1, <1>2, <1>6, <2>1, <2>2
<1>7. QED
  BY <1>3, <1>4, <1>5, <1>6

-----------------------------------------------------------------------------
(* The buffers have room: growing and swapping taken together.             *)
Bounded ==
  /\ backCapacity \in Nat /\ frontCapacity \in Nat
  /\ BuffersInBounds

(* Every step leaves room in both buffers: only pincStep touches them.     *)
LEMMA BoundedStep == ASSUME IInv, Bounded, [Next]_vars PROVE Bounded'
<1>1. /\ back \in Seq(PincEventSet) /\ front \in Seq(PincEventSet)
      /\ Len(back) \in Nat /\ Len(front) \in Nat
  BY DEF IInv, Typed
<1>2. CASE UNCHANGED <<back, front, backCapacity, frontCapacity>>
  BY <1>2 DEF Bounded, BuffersInBounds
<1>3. CASE StepBegin
  <2>1. Len(Reused(front)) = Len(front) /\ Len(Reused(back)) = Len(back)
    BY <1>1, ReusedEvents
  <2>2. QED
    BY <1>3, <2>1 DEF StepBegin, Bounded, BuffersInBounds
<1>4. CASE Poll
  <2> DEFINE e == Head(queue)
  <2>1. e \in SdlEvents /\ ~Refused(e)
    BY <1>4 DEF IInv, Typed, Poll
  <2>2. /\ back' = back \o Produced(e) /\ backCapacity' = CapacityAfter(Len(Produced(e)))
        /\ UNCHANGED <<front, frontCapacity>>
    BY <1>4 DEF Poll, BackAppend
  <2> HIDE DEF e
  <2>3. Produced(e) \in Seq(PincEventSet)
    BY <2>1, ProducedEvents DEF IInv
  <2>4. PICK n \in Nat : n = Len(Produced(e))
    BY <2>3
  <2>5. Len(back') = Len(back) + n
    BY <1>1, <2>2, <2>3, <2>4
  <2>6. CapacityAfter(n) \in Nat /\ Len(back) + n <= CapacityAfter(n)
    BY <1>1, CapacityAfterFits DEF Bounded, BuffersInBounds
  <2>7. QED
    BY <2>2, <2>4, <2>5, <2>6 DEF Bounded, BuffersInBounds
<1>5. CASE Swap(back)
  <2>1. Len(<< >>) = 0
    BY EmptySeq
  <2>2. QED
    BY <1>5, <2>1 DEF Swap, Bounded, BuffersInBounds
<1>6. QED
  <2>1. CASE Os
    BY <1>2, <2>1 DEF Os, OsWindow, OsFocusGained, OsFocusLost, OsButton, OsInput, OsUnchanged
  <2>2. CASE User
    BY <1>2, <2>2 DEF User, WindowComplete, WindowDeinit
  <2>3. CASE PincStep
    BY <1>2, <1>3, <1>4, <1>5, <2>3 DEF PincStep, PollRefused, StepEnd, PollHangs, DecodeOn, vars
  <2>4. CASE UNCHANGED vars
    BY <1>2, <2>4 DEF vars
  <2>5. QED
    BY <2>1, <2>2, <2>3, <2>4 DEF Next

(* Neither event buffer is ever written past its capacity, however many    *)
(* events a step makes and wherever the steps were cut short.              *)
THEOREM BuffersAlwaysInBounds == Spec => []BuffersInBounds
<1>1. Init => Bounded
  <2>1. Len(<< >>) = 0
    BY EmptySeq
  <2>2. QED
    BY <2>1 DEF Init, Bounded, BuffersInBounds
<1>2. IInv /\ Bounded /\ [Next]_vars => Bounded'
  BY BoundedStep
<1>3. Bounded => BuffersInBounds
  BY DEF Bounded
<1>4. QED
  BY <1>1, <1>2, <1>3, EventsInvariant, PTL DEF Spec

-----------------------------------------------------------------------------
(* Resetting the arena changes no serial number, type or mouse event.      *)
LEMMA ReusedStream ==
  ASSUME NEW events \in Seq(PincEventSet)
  PROVE  \A i \in 1 .. Len(events) :
            /\ Reused(events)[i].serial = events[i].serial
            /\ Reused(events)[i].type = events[i].type
            /\ events[i].type = "mouseButton" => Reused(events)[i].data = events[i].data
<1> TAKE i \in 1 .. Len(events)
<1>1. events[i] \in PincEventSet
  OBVIOUS
<1>2. Reused(events)[i] = IF events[i].type = "clipboard"
                          THEN [events[i] EXCEPT !.data = "reused"] ELSE events[i]
  BY DEF Reused
<1>3. QED
  BY <1>1, <1>2 DEF PincEventSet

-----------------------------------------------------------------------------
(* The chain of mouse events.  Appending events other than of the mouse,   *)
(* or one mouse event whose old state is the last one, continues it.       *)
LEMMA PressesOf ==
  ASSUME NEW s \in Seq(PincEventSet)
  PROVE  Presses(s) = {i \in 1 .. Len(s) : s[i].type = "mouseButton"}
BY DEF Presses

(* Events that are not of the mouse do not break the chain.                *)
LEMMA MouseAppendOther ==
  ASSUME NEW s \in Seq(PincEventSet), NEW p \in Seq(PincEventSet), NEW m, MouseChains(s, m),
         \A i \in 1 .. Len(p) : p[i].type # "mouseButton"
  PROVE  MouseChains(s \o p, m)
<1> DEFINE t == s \o p
<1>1. /\ t \in Seq(PincEventSet) /\ Len(t) = Len(s) + Len(p)
      /\ \A i \in 1 .. Len(s) + Len(p) : t[i] = IF i <= Len(s) THEN s[i] ELSE p[i - Len(s)]
  BY ConcatProperties
<1> HIDE DEF t
<1>2. Len(s) \in Nat /\ Len(p) \in Nat
  OBVIOUS
<1>3. \A i \in 1 .. Len(s) : t[i] = s[i]
  BY <1>1, <1>2
<1>4. \A i \in 1 .. Len(s) + Len(p) : i \notin 1 .. Len(s) => t[i].type # "mouseButton"
  <2> TAKE i \in 1 .. Len(s) + Len(p)
  <2> HAVE i \notin 1 .. Len(s)
  <2>1. i - Len(s) \in 1 .. Len(p) /\ ~ (i <= Len(s))
    BY <1>2
  <2>2. QED
    BY <1>1, <2>1
<1>5. Presses(t) = Presses(s)
  <2>1. /\ Presses(t) = {i \in 1 .. Len(s) + Len(p) : t[i].type = "mouseButton"}
        /\ Presses(s) = {i \in 1 .. Len(s) : s[i].type = "mouseButton"}
    BY <1>1, PressesOf
  <2>2. \A i \in 1 .. Len(s) : i \in 1 .. Len(s) + Len(p)
    BY <1>2
  <2>3. QED
    BY <1>3, <1>4, <2>1, <2>2
<1>6. \A i \in Presses(s) : t[i] = s[i]
  BY <1>3, PressesOf
<1>7. MouseChains(t, m)
  BY <1>5, <1>6 DEF MouseChains
<1>8. QED
  BY <1>7 DEF t

(* A mouse event whose old state is the last one continues it.             *)
LEMMA MouseAppendOne ==
  ASSUME NEW s \in Seq(PincEventSet), NEW e \in PincEventSet, NEW m, NEW m2, MouseChains(s, m),
         e.type = "mouseButton", e.data.old = m, e.data.new = m2
  PROVE  MouseChains(Append(s, e), m2)
<1> DEFINE t == Append(s, e)
           n == Len(s) + 1
<1>1. /\ t \in Seq(PincEventSet) /\ Len(t) = n
      /\ \A i \in 1 .. Len(s) : t[i] = s[i]
      /\ t[n] = e
  BY AppendProperties
<1> HIDE DEF t
<1>2. Len(s) \in Nat
  OBVIOUS
<1>3. Presses(t) = Presses(s) \cup {n}
  BY <1>1, <1>2, PressesOf
<1>4. \A i \in Presses(s) : t[i] = s[i] /\ i \in 1 .. Len(s) /\ i < n
  BY <1>1, <1>2, PressesOf
<1>5. ASSUME NEW i \in Presses(t), NEW j \in Presses(t), i < j,
             \A k \in Presses(t) : k <= i \/ j <= k
      PROVE  t[j].data.old = t[i].data.new
  <2>1. i \in Presses(s)
    BY <1>2, <1>3, <1>4, <1>5
  <2>2. CASE j = n
    <3>1. \A k \in Presses(s) : k <= i
      BY <1>2, <1>3, <1>4, <1>5, <2>2
    <3>2. s[i].data.new = m
      BY <2>1, <3>1 DEF MouseChains
    <3>3. QED
      BY <1>1, <1>4, <2>1, <2>2, <3>2
  <2>3. CASE j \in Presses(s)
    <3>1. s[j].data.old = s[i].data.new
      BY <1>3, <1>5, <2>1, <2>3 DEF MouseChains
    <3>2. QED
      BY <1>4, <2>1, <2>3, <3>1
  <2>4. QED
    BY <1>3, <2>2, <2>3
<1>6. ASSUME NEW i \in Presses(t), \A k \in Presses(t) : k <= i
      PROVE  t[i].data.new = m2
  <2>1. i = n
    BY <1>2, <1>3, <1>4, <1>6
  <2>2. QED
    BY <1>1, <2>1
<1>7. MouseChains(t, m2)
  BY <1>5, <1>6 DEF MouseChains
<1>8. QED
  BY <1>7 DEF t

(* A batch that is gone takes the beginning of the chain with it.          *)
LEMMA MouseTail ==
  ASSUME NEW s \in Seq(PincEventSet), NEW p \in Seq(PincEventSet), NEW m, MouseChains(s \o p, m)
  PROVE  MouseChains(p, m)
<1> DEFINE t == s \o p
<1>1. /\ t \in Seq(PincEventSet) /\ Len(t) = Len(s) + Len(p)
      /\ \A i \in 1 .. Len(s) + Len(p) : t[i] = IF i <= Len(s) THEN s[i] ELSE p[i - Len(s)]
  BY ConcatProperties
<1>2. MouseChains(t, m)
  OBVIOUS
<1> HIDE DEF t
<1>3. PICK n \in Nat : n = Len(s)
  OBVIOUS
<1>4. Len(p) \in Nat
  OBVIOUS
<1>5. \A i \in 1 .. Len(p) : n + i \in 1 .. Len(s) + Len(p) /\ t[n + i] = p[i]
  <2> TAKE i \in 1 .. Len(p)
  <2>1. n + i \in 1 .. Len(s) + Len(p) /\ ~ (n + i <= Len(s)) /\ (n + i) - Len(s) = i
    BY <1>3, <1>4
  <2>2. QED
    BY <1>1, <2>1
<1> DEFINE size == Len(s) + Len(p)
<1>0. /\ Presses(t) = {k \in 1 .. size : t[k].type = "mouseButton"}
      /\ Presses(p) = {i \in 1 .. Len(p) : p[i].type = "mouseButton"}
  BY <1>1, PressesOf
<1>6. \A i \in Presses(p) : i \in 1 .. Len(p) /\ n + i \in Presses(t)
  BY <1>0, <1>5
<1>7. \A k \in Presses(t) : k \in Int /\ (k > n => k - n \in Presses(p))
  <2> TAKE k \in Presses(t)
  <2>1. k \in 1 .. Len(s) + Len(p) /\ t[k].type = "mouseButton"
    BY <1>0
  <2>2. k > n => k - n \in 1 .. Len(p) /\ n + (k - n) = k
    BY <1>3, <1>4, <2>1
  <2>3. k > n => t[k] = p[k - n]
    BY <1>5, <2>2
  <2>4. QED
    BY <1>0, <2>1, <2>2, <2>3
<1>8. ASSUME NEW i \in Presses(p), NEW j \in Presses(p), i < j,
             \A k \in Presses(p) : k <= i \/ j <= k
      PROVE  p[j].data.old = p[i].data.new
  <2>1. i \in 1 .. Len(p) /\ j \in 1 .. Len(p) /\ n + i \in Presses(t) /\ n + j \in Presses(t)
    BY <1>6
  <2>2. ASSUME NEW k \in Presses(t) PROVE k <= n + i \/ n + j <= k
    <3>1. CASE k > n
      <4>1. k \in Int /\ k - n \in Presses(p)
        BY <1>7, <3>1
      <4>2. k - n <= i \/ j <= k - n
        BY <1>8, <4>1
      <4>3. QED
        BY <1>3, <1>4, <2>1, <4>1, <4>2
    <3>2. CASE ~ (k > n)
      BY <1>3, <1>4, <1>7, <2>1, <3>2
    <3>3. QED
      BY <3>1, <3>2
  <2>3. n + i < n + j
    BY <1>3, <1>4, <1>8, <2>1
  <2>4. t[n + j].data.old = t[n + i].data.new
    BY <1>2, <2>1, <2>2, <2>3 DEF MouseChains
  <2>5. QED
    BY <1>5, <2>1, <2>4
<1>9. ASSUME NEW i \in Presses(p), \A k \in Presses(p) : k <= i
      PROVE  p[i].data.new = m
  <2>1. i \in 1 .. Len(p) /\ n + i \in Presses(t)
    BY <1>6
  <2>2. ASSUME NEW k \in Presses(t) PROVE k <= n + i
    <3>1. CASE k > n
      <4>1. k \in Int /\ k - n \in Presses(p)
        BY <1>7, <3>1
      <4>2. k - n <= i
        BY <1>9, <4>1
      <4>3. QED
        BY <1>3, <1>4, <2>1, <4>1, <4>2
    <3>2. CASE ~ (k > n)
      BY <1>3, <1>4, <1>7, <2>1, <3>2
    <3>3. QED
      BY <3>1, <3>2
  <2>3. t[n + i].data.new = m
    BY <1>2, <2>1, <2>2 DEF MouseChains
  <2>4. QED
    BY <1>5, <2>1, <2>3
<1>10. QED
  BY <1>8, <1>9 DEF MouseChains

(* The chain is one of the events' types and data.                         *)
LEMMA MouseSame ==
  ASSUME NEW s \in Seq(PincEventSet), NEW t \in Seq(PincEventSet), NEW m, MouseChains(s, m),
         Len(t) = Len(s),
         \A i \in 1 .. Len(s) : /\ t[i].type = s[i].type
                                /\ s[i].type = "mouseButton" => t[i].data = s[i].data
  PROVE  MouseChains(t, m)
<1>1. Presses(t) = Presses(s)
  BY PressesOf
<1>2. \A i \in Presses(s) : t[i].data = s[i].data
  BY PressesOf
<1>3. QED
  BY <1>1, <1>2 DEF MouseChains

(* A sequence of one element is the one of that element.                   *)
LEMMA SingleSeq ==
  ASSUME NEW S, NEW p \in Seq(S), Len(p) = 1
  PROVE  p = <<p[1]>> /\ p[1] \in S
<1>1. 1 \in 1 .. Len(p)
  OBVIOUS
<1>2. p[1] \in S
  BY <1>1, ElementOfSeq
<1>3. <<p[1]>> \in Seq(S) /\ Len(<<p[1]>>) = 1 /\ \A i \in 1 .. 1 : p[i] = <<p[1]>>[i]
  BY <1>2
<1>4. QED
  BY <1>2, <1>3, SeqEqual

(* Every step continues the chain, or drops its beginning.                 *)
LEMMA MouseStep == ASSUME IInv, MouseConsistent, [Next]_vars PROVE MouseConsistent'
<1>1. back \in Seq(PincEventSet) /\ front \in Seq(PincEventSet)
  BY DEF IInv, Typed
<1>2. CASE UNCHANGED <<back, front, mouse>>
  BY <1>2 DEF MouseConsistent
<1>3. CASE StepBegin
  <2>1. back = << >> /\ back' = << >> /\ front' = Reused(front) /\ mouse' = mouse
    BY <1>3 DEF IInv, Chained, StepBegin, Reused
  <2>2. MouseChains(front, mouse)
    BY <1>1, <2>1, ConcatEmptySeq DEF MouseConsistent
  <2>3. /\ Reused(front) \in Seq(PincEventSet) /\ Len(Reused(front)) = Len(front)
        /\ \A i \in 1 .. Len(front) :
             /\ Reused(front)[i].type = front[i].type
             /\ front[i].type = "mouseButton" => Reused(front)[i].data = front[i].data
    BY <1>1, ReusedEvents, ReusedStream
  <2>4. MouseChains(Reused(front), mouse)
    BY <1>1, <2>2, <2>3, MouseSame
  <2>5. Reused(front) \o << >> = Reused(front)
    BY <2>3, ConcatEmptySeq
  <2>6. QED
    BY <2>1, <2>4, <2>5 DEF MouseConsistent
<1>4. CASE Poll
  <2> DEFINE e == Head(queue)
  <2>1. e \in SdlEvents /\ ~Refused(e)
    BY <1>4 DEF IInv, Typed, Poll
  <2>2. /\ back' = back \o Produced(e) /\ UNCHANGED front
        /\ mouse' = IF e.type = "button" THEN ButtonMask(mouse, e.arg) ELSE mouse
    BY <1>4 DEF Poll, BackAppend
  <2> HIDE DEF e
  <2>3. PICK p \in Seq(PincEventSet) : p = Produced(e)
    BY <2>1, ProducedEvents DEF IInv
  <2>4. PICK s \in Seq(PincEventSet) : s = front \o back
    BY <1>1, ConcatProperties
  <2>5. front' \o back' = s \o p
    BY <1>1, <2>2, <2>3, <2>4, ConcatAssociative
  <2>6. MouseChains(s, mouse)
    BY <2>4 DEF MouseConsistent
  <2>7. CASE e.type # "button"
    <3>1. \A i \in 1 .. Len(p) : p[i].type # "mouseButton"
      BY <2>1, <2>3, <2>7, ProducedStream DEF IInv
    <3>2. QED
      BY <2>2, <2>5, <2>6, <2>7, <3>1, MouseAppendOther DEF MouseConsistent
  <2>8. CASE e.type = "button"
    <3>1. /\ Len(p) = 1 /\ p[1].type = "mouseButton"
          /\ p[1].data = [old |-> mouse, new |-> ButtonMask(mouse, e.arg)]
      BY <2>1, <2>3, <2>8, ProducedStream DEF IInv
    <3>2. p = <<p[1]>> /\ p[1] \in PincEventSet
      <4>1. Len(p) = 1
        BY <3>1
      <4>2. QED
        BY <4>1, SingleSeq
    <3>3. s \o p = Append(s, p[1])
      BY <3>2, AppendIsConcat
    <3>4. p[1].data.old = mouse /\ p[1].data.new = ButtonMask(mouse, e.arg)
      BY <3>1
    <3>5. MouseChains(Append(s, p[1]), ButtonMask(mouse, e.arg))
      BY <2>6, <3>1, <3>2, <3>4, MouseAppendOne
    <3>6. QED
      BY <2>2, <2>5, <2>8, <3>3, <3>5 DEF MouseConsistent
  <2>9. QED
    BY <2>7, <2>8
<1>5. CASE Swap(back) /\ mouse' = mouse
  <2>1. front' = back /\ back' = << >>
    BY <1>5 DEF Swap
  <2>2. MouseChains(back, mouse)
    BY <1>1, MouseTail DEF MouseConsistent
  <2>3. back \o << >> = back
    BY <1>1, ConcatEmptySeq
  <2>4. QED
    BY <1>5, <2>1, <2>2, <2>3 DEF MouseConsistent
<1>6. QED
  <2>1. CASE Os
    BY <1>2, <2>1 DEF Os, OsWindow, OsFocusGained, OsFocusLost, OsButton, OsInput, OsUnchanged
  <2>2. CASE User
    BY <1>2, <2>2 DEF User, WindowComplete, WindowDeinit
  <2>3. CASE PincStep
    BY <1>2, <1>3, <1>4, <1>5, <2>3 DEF PincStep, PollRefused, StepEnd, PollHangs, DecodeOn, vars
  <2>4. CASE UNCHANGED vars
    BY <1>2, <2>4 DEF vars
  <2>5. QED
    BY <2>1, <2>2, <2>3, <2>4 DEF Next

(* The mouse events the user sees chain across batches, wherever the steps *)
(* were cut short: each old state is what the event before it left.        *)
THEOREM MouseEventsChain == Spec => []MouseConsistent
<1>1. Init => MouseConsistent
  <2>1. SUFFICES ASSUME Init PROVE MouseConsistent
    OBVIOUS
  <2>2. front \o back = << >>
    BY <2>1 DEF Init
  <2>3. Presses(<< >>) = {}
    BY DEF Presses
  <2>4. QED
    BY <2>2, <2>3 DEF MouseConsistent, MouseChains
<1>2. IInv /\ MouseConsistent /\ [Next]_vars => MouseConsistent'
  BY MouseStep
<1>3. QED
  BY <1>1, <1>2, EventsInvariant, PTL DEF Spec

-----------------------------------------------------------------------------
(* What SDL's queue will deliver, as a function of how much of it is read. *)
WaitsBy(q, f) ==
  /\ f \in [0 .. Len(q) -> Seq(Nat)]
  /\ f[0] = << >>
  /\ \A i \in 1 .. Len(q) : f[i] = f[i - 1] \o Copies(q[i])

(* The serial numbers one SDL event contributes to the stream.             *)
LEMMA CopiesType ==
  ASSUME NEW e \in SdlEvents
  PROVE  /\ Count(e) \in Nat /\ Copies(e) \in Seq(Nat)
         /\ Len(Copies(e)) = Count(e) /\ \A i \in 1 .. Count(e) : Copies(e)[i] = e.serial
<1>1. Count(e) \in Nat /\ e.serial \in Nat
  BY CountType DEF SdlEvents
<1>2. SUFFICES ASSUME NEW n \in Nat, NEW x \in Nat
               PROVE  LET c == [k \in 1 .. n |-> x]
                      IN  c \in Seq(Nat) /\ Len(c) = n /\ \A i \in 1 .. n : c[i] = x
  BY <1>1 DEF Copies
<1>3. QED
  OBVIOUS

(* Joining streams is associative.                                         *)
LEMMA SerialsAssociate ==
  ASSUME NEW a \in Seq(Nat), NEW b \in Seq(Nat), NEW d \in Seq(Nat)
  PROVE  (a \o b) \o d = a \o (b \o d)
<1> DEFINE N == Nat
<1>1. a \in Seq(N) /\ b \in Seq(N) /\ d \in Seq(N)
  OBVIOUS
<1> HIDE DEF N
<1> QED
  BY <1>1, ConcatAssociative

(* What waits is the last value of the running concatenation.              *)
LEMMA WaitsIs ==
  ASSUME NEW q \in Seq(SdlEvents), NEW f, WaitsBy(q, f)
  PROVE  Waits(q) = f[Len(q)]
<1> DEFINE n == Len(q)
           Step(h) == [i \in 0 .. n |-> IF i = 0 THEN << >> ELSE h[i - 1] \o Copies(q[i])]
           c == CHOOSE h : h = Step(h)
<1>1. n \in Nat
  OBVIOUS
<1>2. f = Step(f)
  <2>1. ASSUME NEW i \in 0 .. n
        PROVE  f[i] = IF i = 0 THEN << >> ELSE f[i - 1] \o Copies(q[i])
    <3>1. CASE i = 0
      BY <3>1 DEF WaitsBy
    <3>2. CASE i # 0
      <4>1. i \in 1 .. n
        BY <1>1, <3>2
      <4>2. f[i] = f[i - 1] \o Copies(q[i])
        BY <4>1 DEF WaitsBy
      <4>3. QED
        BY <3>2, <4>2
    <3>3. QED
      BY <3>1, <3>2
  <2>2. f \in [0 .. n -> Seq(Nat)]
    BY DEF WaitsBy
  <2> HIDE DEF n
  <2>3. QED
    BY <2>1, <2>2
<1>3. c = Step(c)
  <2> HIDE DEF Step
  <2> QED
    BY <1>2
<1>4. Waits(q) = c[n]
  BY DEF Waits
<1> HIDE DEF c
<1>5. c[0] = << >> /\ \A i \in 1 .. n : c[i] = c[i - 1] \o Copies(q[i])
  BY <1>1, <1>3
<1>6. f[0] = << >> /\ \A i \in 1 .. n : f[i] = f[i - 1] \o Copies(q[i])
  BY DEF WaitsBy
<1> HIDE DEF n
<1> DEFINE S == {i \in Nat : i <= n => c[i] = f[i]}
<1>7. 0 \in S
  BY <1>5, <1>6
<1>8. ASSUME NEW i \in Nat, i \in S PROVE i + 1 \in S
  <2>1. SUFFICES ASSUME i + 1 <= n PROVE c[i + 1] = f[i + 1]
    OBVIOUS
  <2>2. c[i] = f[i] /\ i + 1 \in 1 .. n /\ (i + 1) - 1 = i
    BY <1>1, <1>8, <2>1
  <2>3. QED
    BY <1>5, <1>6, <2>2
<1>9. n \in S
  <2> HIDE DEF S
  <2> QED
    BY <1>1, <1>7, <1>8, NatSetInduction
<1>10. QED
  BY <1>4, <1>9 DEF n

(* That running concatenation exists for every queue.                      *)
LEMMA WaitsExists ==
  ASSUME NEW q \in Seq(SdlEvents)
  PROVE  \E f : WaitsBy(q, f)
<1> DEFINE D == Seq(Nat)
           g == [p \in Nat \X D |-> IF p[1] \in 1 .. Len(q) THEN p[2] \o Copies(q[p[1]]) ELSE p[2]]
<1>1. ASSUME NEW i \in Nat, NEW x \in D
      PROVE  (IF i \in 1 .. Len(q) THEN x \o Copies(q[i]) ELSE x) \in D
  <2>1. CASE i \in 1 .. Len(q)
    <3>1. q[i] \in SdlEvents
      BY <2>1, ElementOfSeq
    <3>2. Copies(q[i]) \in D
      BY <3>1, CopiesType
    <3>3. QED
      BY <2>1, <3>2, ConcatProperties
  <2>2. QED
    BY <2>1
<1>2. g \in [Nat \X D -> D]
  <2> HIDE DEF D
  <2> QED
    BY <1>1
<1>3. << >> \in D /\ Len(q) \in Nat
  OBVIOUS
<1>4. PICK f \in [0 .. Len(q) -> D] : FromLeft(f, Len(q), << >>, g)
  <2> HIDE DEF g, D
  <2> QED
    BY <1>2, <1>3, RecursiveFunctionExists
<1>5. ASSUME NEW i \in 1 .. Len(q) PROVE f[i] = f[i - 1] \o Copies(q[i])
  <2>1. i - 1 \in 0 .. Len(q) /\ i \in Nat
    BY <1>3
  <2>2. f[i - 1] \in D
    BY <1>4, <2>1
  <2> HIDE DEF D
  <2>3. <<i, f[i - 1]>> \in Nat \X D /\ <<i, f[i - 1]>>[1] = i /\ <<i, f[i - 1]>>[2] = f[i - 1]
    BY <2>1, <2>2
  <2>4. g[<<i, f[i - 1]>>] = f[i - 1] \o Copies(q[i])
    BY <2>3
  <2>5. f[i] = g[<<i, f[i - 1]>>]
    BY <1>4 DEF FromLeft
  <2>6. QED
    BY <2>4, <2>5
<1>6. QED
  BY <1>4, <1>5 DEF WaitsBy, FromLeft

(* What waits is a sequence of serial numbers; an empty queue has nothing. *)
LEMMA WaitsType ==
  ASSUME NEW q \in Seq(SdlEvents)
  PROVE  Waits(q) \in Seq(Nat) /\ (q = << >> => Waits(q) = << >>)
<1>1. PICK f : WaitsBy(q, f)
  BY WaitsExists
<1>2. Waits(q) = f[Len(q)] /\ Len(q) \in Nat
  BY <1>1, WaitsIs
<1>3. QED
  BY <1>1, <1>2 DEF WaitsBy

(* An event that is queued waits behind the others.                        *)
LEMMA WaitsAppend ==
  ASSUME NEW q \in Seq(SdlEvents), NEW e \in SdlEvents
  PROVE  Waits(Append(q, e)) = Waits(q) \o Copies(e)
<1>1. PICK f : WaitsBy(q, f)
  BY WaitsExists
<1> DEFINE n == Len(q)
           r == Append(q, e)
           h == [i \in 0 .. n + 1 |-> IF i = n + 1 THEN f[n] \o Copies(e) ELSE f[i]]
<1>2. Waits(q) = f[n] /\ n \in Nat
  BY <1>1, WaitsIs
<1>3. /\ r \in Seq(SdlEvents) /\ Len(r) = n + 1 /\ r[n + 1] = e
      /\ \A i \in 1 .. n : r[i] = q[i]
  BY AppendProperties
<1>4. /\ f \in [0 .. n -> Seq(Nat)] /\ f[0] = << >>
      /\ \A i \in 1 .. n : f[i] = f[i - 1] \o Copies(q[i])
  BY <1>1 DEF WaitsBy
<1> HIDE DEF r, n
<1>5. f[n] \o Copies(e) \in Seq(Nat)
  <2>1. f[n] \in Seq(Nat) /\ Copies(e) \in Seq(Nat)
    BY <1>2, <1>4, CopiesType
  <2>2. QED
    BY <2>1, ConcatProperties
<1>6. h \in [0 .. n + 1 -> Seq(Nat)] /\ h[0] = << >>
  <2>1. ASSUME NEW i \in 0 .. n + 1
        PROVE  (IF i = n + 1 THEN f[n] \o Copies(e) ELSE f[i]) \in Seq(Nat)
    BY <1>2, <1>4, <1>5
  <2>2. 0 \in 0 .. n + 1 /\ 0 # n + 1
    BY <1>2
  <2>3. QED
    BY <1>4, <2>1, <2>2
<1>7. ASSUME NEW i \in 1 .. n + 1 PROVE h[i] = h[i - 1] \o Copies(r[i])
  <2>1. i - 1 \in 0 .. n + 1 /\ i - 1 # n + 1 /\ i \in 0 .. n + 1
    BY <1>2
  <2>2. CASE i = n + 1
    <3>1. i - 1 = n
      BY <1>2, <2>2
    <3>2. QED
      BY <1>3, <2>1, <2>2, <3>1
  <2>3. CASE i # n + 1
    <3>1. i \in 1 .. n
      BY <1>2, <2>3
    <3>2. QED
      BY <1>3, <1>4, <2>1, <2>3, <3>1
  <2>4. QED
    BY <2>2, <2>3
<1>8. WaitsBy(r, h)
  BY <1>3, <1>6, <1>7 DEF WaitsBy
<1>9. h[n + 1] = f[n] \o Copies(e)
  BY <1>2
<1> HIDE DEF h
<1>10. Waits(r) = h[n + 1]
  BY <1>3, <1>8, WaitsIs
<1>11. QED
  BY <1>2, <1>9, <1>10 DEF r

(* The head of the queue is what waits first.                              *)
LEMMA WaitsHead ==
  ASSUME NEW q \in Seq(SdlEvents), q # << >>
  PROVE  Waits(q) = Copies(Head(q)) \o Waits(Tail(q))
<1> DEFINE r == Tail(q)
           n == Len(r)
           first == Copies(Head(q))
<1>1. /\ r \in Seq(SdlEvents) /\ n \in Nat /\ Len(q) = n + 1
      /\ \A i \in 1 .. n : r[i] = q[i + 1]
      /\ Head(q) = q[1] /\ Head(q) \in SdlEvents
  <2>1. r \in Seq(SdlEvents) /\ Len(r) = Len(q) - 1 /\ \A i \in 1 .. Len(r) : r[i] = q[i + 1]
    BY HeadTailProperties
  <2>2. Head(q) = q[1] /\ Head(q) \in SdlEvents
    BY HeadTailProperties
  <2>3. QED
    BY <2>1, <2>2
<1>2. PICK f : WaitsBy(r, f)
  BY <1>1, WaitsExists
<1>3. Waits(r) = f[n]
  BY <1>1, <1>2, WaitsIs
<1>4. first \in Seq(Nat)
  BY <1>1, CopiesType
<1>5. /\ f \in [0 .. n -> Seq(Nat)] /\ f[0] = << >>
      /\ \A i \in 1 .. n : f[i] = f[i - 1] \o Copies(r[i])
  BY <1>2 DEF WaitsBy
<1> DEFINE h == [i \in 0 .. n + 1 |-> IF i = 0 THEN << >> ELSE first \o f[i - 1]]
<1> HIDE DEF r, n, first
<1>6. h \in [0 .. n + 1 -> Seq(Nat)] /\ h[0] = << >>
  <2>1. ASSUME NEW i \in 0 .. n + 1
        PROVE  (IF i = 0 THEN << >> ELSE first \o f[i - 1]) \in Seq(Nat)
    <3>1. CASE i = 0
      BY <3>1
    <3>2. CASE i # 0
      <4>1. i - 1 \in 0 .. n
        BY <1>1, <3>2
      <4>2. f[i - 1] \in Seq(Nat)
        BY <1>5, <4>1
      <4>3. first \o f[i - 1] \in Seq(Nat)
        BY <1>4, <4>2, ConcatProperties
      <4>4. QED
        BY <3>2, <4>3
    <3>3. QED
      BY <3>1, <3>2
  <2>2. 0 \in 0 .. n + 1
    BY <1>1
  <2>3. QED
    BY <2>1, <2>2
<1>7. ASSUME NEW i \in 1 .. n + 1 PROVE h[i] = h[i - 1] \o Copies(q[i])
  <2>1. i \in 0 .. n + 1 /\ i # 0 /\ i - 1 \in 0 .. n + 1
    BY <1>1
  <2>2. h[i] = first \o f[i - 1]
    BY <2>1
  <2>3. CASE i = 1
    <3>1. i - 1 = 0
      BY <2>3
    <3>2. h[i - 1] = << >> /\ f[i - 1] = << >>
      BY <1>5, <1>6, <3>1
    <3>3. Copies(q[i]) = first
      BY <1>1, <2>3 DEF first
    <3>4. QED
      BY <1>4, <2>2, <3>2, <3>3, ConcatEmptySeq
  <2>4. CASE i # 1
    <3>1. i - 1 \in 1 .. n /\ i - 1 # 0 /\ (i - 1) - 1 \in 0 .. n /\ (i - 1) + 1 = i
      BY <1>1, <2>4
    <3>2. h[i - 1] = first \o f[(i - 1) - 1]
      BY <2>1, <3>1
    <3>3. f[i - 1] = f[(i - 1) - 1] \o Copies(q[i])
      BY <1>1, <1>5, <3>1
    <3>4. f[(i - 1) - 1] \in Seq(Nat)
      BY <1>5, <3>1
    <3>5. q[i] \in SdlEvents
      BY <1>1
    <3>6. Copies(q[i]) \in Seq(Nat)
      BY <3>5, CopiesType
    <3>7. PICK b \in Seq(Nat) : b = f[(i - 1) - 1]
      BY <3>4
    <3>8. PICK d \in Seq(Nat) : d = Copies(q[i])
      BY <3>6
    <3>9. (first \o b) \o d = first \o (b \o d)
      BY <1>4, SerialsAssociate
    <3>10. QED
      BY <2>2, <3>2, <3>3, <3>7, <3>8, <3>9
  <2>5. QED
    BY <2>3, <2>4
<1>8. WaitsBy(q, h)
  BY <1>1, <1>6, <1>7 DEF WaitsBy
<1>9. h[n + 1] = first \o f[n]
  BY <1>1
<1> HIDE DEF h
<1>10. Waits(q) = h[n + 1]
  BY <1>1, <1>8, WaitsIs
<1>11. QED
  BY <1>3, <1>9, <1>10 DEF r, first

-----------------------------------------------------------------------------
(* The serial numbers of a buffer: one for each event, also when buffers   *)
(* are joined, and the same when the arena is reset.                       *)
LEMMA SerialsType ==
  ASSUME NEW s \in Seq(PincEventSet)
  PROVE  /\ Serials(s) \in Seq(Nat) /\ Len(Serials(s)) = Len(s)
         /\ \A i \in 1 .. Len(s) : Serials(s)[i] = s[i].serial
<1>1. PICK n \in Nat : n = Len(s)
  OBVIOUS
<1>2. \A i \in 1 .. n : s[i].serial \in Nat
  BY <1>1 DEF PincEventSet
<1>3. Serials(s) = [i \in 1 .. n |-> s[i].serial]
  BY <1>1 DEF Serials
<1>4. QED
  BY <1>1, <1>2, <1>3

(* Joined buffers have joined serial numbers.                              *)
LEMMA SerialsConcat ==
  ASSUME NEW s \in Seq(PincEventSet), NEW p \in Seq(PincEventSet)
  PROVE  Serials(s \o p) = Serials(s) \o Serials(p)
<1> DEFINE t == s \o p
<1>1. /\ t \in Seq(PincEventSet) /\ Len(t) = Len(s) + Len(p)
      /\ \A i \in 1 .. Len(s) + Len(p) : t[i] = IF i <= Len(s) THEN s[i] ELSE p[i - Len(s)]
  BY ConcatProperties
<1> HIDE DEF t
<1>2. Len(s) \in Nat /\ Len(p) \in Nat
  OBVIOUS
<1>3. PICK a \in Seq(Nat) : a = Serials(s)
  BY SerialsType
<1>4. PICK b \in Seq(Nat) : b = Serials(p)
  BY SerialsType
<1>5. PICK c \in Seq(Nat) : c = Serials(t)
  BY <1>1, SerialsType
<1>6. /\ Len(a) = Len(s) /\ \A i \in 1 .. Len(s) : a[i] = s[i].serial
      /\ Len(b) = Len(p) /\ \A i \in 1 .. Len(p) : b[i] = p[i].serial
      /\ Len(c) = Len(s) + Len(p) /\ \A i \in 1 .. Len(s) + Len(p) : c[i] = t[i].serial
  BY <1>1, <1>3, <1>4, <1>5, SerialsType
<1>7. /\ a \o b \in Seq(Nat) /\ Len(a \o b) = Len(s) + Len(p)
      /\ \A i \in 1 .. Len(s) + Len(p) : (a \o b)[i] = IF i <= Len(s) THEN a[i] ELSE b[i - Len(s)]
  <2>1. /\ a \o b \in Seq(Nat) /\ Len(a \o b) = Len(a) + Len(b)
        /\ \A i \in 1 .. Len(a) + Len(b) : (a \o b)[i] = IF i <= Len(a) THEN a[i] ELSE b[i - Len(a)]
    OBVIOUS
  <2>2. QED
    BY <1>6, <2>1
<1>8. ASSUME NEW i \in 1 .. Len(s) + Len(p) PROVE c[i] = (a \o b)[i]
  <2>1. CASE i <= Len(s)
    <3>1. i \in 1 .. Len(s)
      BY <1>2, <2>1
    <3>2. QED
      BY <1>1, <1>6, <1>7, <2>1, <3>1
  <2>2. CASE ~ (i <= Len(s))
    <3>1. i - Len(s) \in 1 .. Len(p)
      BY <1>2, <2>2
    <3>2. QED
      BY <1>1, <1>6, <1>7, <2>2, <3>1
  <2>3. QED
    BY <2>1, <2>2
<1>9. c = a \o b
  BY <1>6, <1>7, <1>8, SeqEqual
<1>10. QED
  BY <1>3, <1>4, <1>5, <1>9 DEF t

(* Resetting the arena leaves the serial numbers alone.                    *)
LEMMA SerialsReused ==
  ASSUME NEW s \in Seq(PincEventSet)
  PROVE  Serials(Reused(s)) = Serials(s)
<1>1. /\ Reused(s) \in Seq(PincEventSet) /\ Len(Reused(s)) = Len(s)
      /\ \A i \in 1 .. Len(s) : Reused(s)[i].serial = s[i].serial
  BY ReusedEvents, ReusedStream
<1>2. QED
  BY <1>1 DEF Serials

(* What an event makes carries its serial number, once for each.           *)
LEMMA SerialsProduced ==
  ASSUME IInv, NEW e \in SdlEvents, ~Refused(e)
  PROVE  Serials(Produced(e)) = Copies(e)
<1>1. /\ Count(e) \in Nat /\ Len(Produced(e)) = Count(e)
      /\ \A i \in 1 .. Count(e) : Produced(e)[i].serial = e.serial
  BY ProducedStream DEF IInv
<1>2. QED
  BY <1>1 DEF Serials, Copies

(* An empty buffer has no serial numbers.                                  *)
LEMMA SerialsEmpty == Serials(<< >>) = << >>
BY DEF Serials

(* A stream cut after its first part.                                      *)
LEMMA Halves ==
  ASSUME NEW a \in Seq(Nat), NEW b \in Seq(Nat), NEW n \in Nat, n = Len(a)
  PROVE  /\ Len(a \o b) \in Nat /\ n <= Len(a \o b)
         /\ SubSeq(a \o b, 1, n) = a
         /\ SubSeq(a \o b, n + 1, Len(a \o b)) = b
<1> DEFINE t == a \o b
<1>1. PICK m \in Nat : m = Len(b)
  OBVIOUS
<1>2. /\ t \in Seq(Nat) /\ Len(t) = n + m
      /\ \A i \in 1 .. n + m : t[i] = IF i <= n THEN a[i] ELSE b[i - n]
  BY <1>1
<1> HIDE DEF t
<1>3. SubSeq(t, 1, n) = a
  <2>1. \A i \in 1 .. n : t[i] = a[i] /\ t[i] \in Nat
    BY <1>2
  <2>2. SubSeq(t, 1, n) = [i \in 1 .. n |-> t[i]]
    BY <1>2
  <2>3. a = [i \in 1 .. n |-> a[i]]
    OBVIOUS
  <2>4. QED
    BY <2>1, <2>2, <2>3
<1>4. SubSeq(t, n + 1, n + m) = b
  <2>1. ASSUME NEW i \in 1 .. m PROVE t[n + i] = b[i]
    <3>1. n + i \in 1 .. n + m /\ ~ (n + i <= n) /\ (n + i) - n = i
      OBVIOUS
    <3>2. QED
      BY <1>2, <3>1
  <2>2. \A i \in n + 1 .. n + m : t[i] \in Nat
    BY <1>2
  <2>3. n + 1 \in Int /\ n + m \in Int
    OBVIOUS
  <2> DEFINE u == SubSeq(t, n + 1, n + m)
  <2>4. /\ u \in Seq(Nat)
        /\ Len(u) = IF n + 1 <= n + m THEN (n + m) - (n + 1) + 1 ELSE 0
        /\ \A i \in 1 .. (n + m) - (n + 1) + 1 : u[i] = t[(n + 1) + i - 1]
    BY <2>2, <2>3, SubSeqProperties
  <2> HIDE DEF u
  <2>5. Len(u) = m /\ \A i \in 1 .. m : u[i] = b[i]
    <3>1. (n + m) - (n + 1) + 1 = m
      OBVIOUS
    <3>2. ASSUME NEW i \in 1 .. m PROVE u[i] = b[i]
      <4>1. (n + 1) + i - 1 = n + i
        OBVIOUS
      <4>2. QED
        BY <2>1, <2>4, <3>1, <4>1
    <3>3. QED
      BY <2>4, <3>1, <3>2
  <2>6. u = b
    BY <1>1, <2>4, <2>5, SeqEqual
  <2>7. QED
    BY <2>6 DEF u
<1>5. QED
  BY <1>2, <1>3, <1>4 DEF t

-----------------------------------------------------------------------------
(* An event that is queued happens in the stream.                          *)
LEMMA QueuedHappens ==
  ASSUME IInv, IInv', NEW e, queue' = Append(queue, e), UNCHANGED <<back, front>>
  PROVE  Stream!Next
<1>1. queue \in Seq(SdlEvents) /\ queue' \in Seq(SdlEvents)
  BY DEF IInv, Typed
<1>2. e \in SdlEvents
  <2>1. Len(queue) \in Nat /\ Len(queue') = Len(queue) + 1 /\ queue'[Len(queue) + 1] = e
    BY <1>1
  <2>2. Len(queue) + 1 \in 1 .. Len(queue')
    BY <2>1
  <2>3. QED
    BY <1>1, <2>1, <2>2, ElementOfSeq
<1>3. Waits(queue') = Waits(queue) \o Copies(e)
  BY <1>1, <1>2, WaitsAppend
<1>4. PICK a \in Seq(Nat) : a = Serials(back)
  BY SerialsType DEF IInv, Typed
<1>5. PICK w \in Seq(Nat) : w = Waits(queue)
  BY <1>1, WaitsType
<1>6. PICK d \in Seq(Nat) : d = Copies(e)
  BY <1>2, CopiesType
<1>7. pending = a \o w /\ pending' = a \o (w \o d)
  BY <1>3, <1>4, <1>5, <1>6 DEF pending
<1>8. pending' = pending \o d
  BY <1>7, SerialsAssociate
<1>9. Count(e) \in {0, 1} \cup TextLengths /\ e.serial \in 1 .. MaxEvents
  BY <1>2 DEF Count, SdlEvents, CountedTypes, Numbers
<1>10. Stream!Happen(e.serial, Count(e))
  BY <1>6, <1>8 DEF Stream!Happen, Copies, batch
<1>11. QED
  BY <1>9, <1>10 DEF Stream!Next

(* Every event the system or SDL makes is queued.                          *)
Queued == \E e : queue' = Append(queue, e)

(* SDL's push adds one event at the end of its queue.                      *)
LEMMA QueueQueues ==
  ASSUME NEW type, NEW w, NEW arg, Queue(type, w, arg)
  PROVE  Queued
BY DEF Queue, Queued

(* What the system does is queued and touches neither buffer.              *)
LEMMA OsQueues == ASSUME Os PROVE Queued /\ UNCHANGED <<back, front>>
<1>1. UNCHANGED <<back, front>>
  BY DEF Os, OsWindow, OsFocusGained, OsFocusLost, OsButton, OsInput, OsUnchanged
<1>2. Queued
  <2>1. CASE \E w \in Ids : OsWindow(w)
    BY <2>1, QueueQueues DEF OsWindow
  <2>2. CASE \E w \in Ids : OsFocusGained(w)
    BY <2>2, QueueQueues DEF OsFocusGained
  <2>3. CASE OsFocusLost
    BY <2>3, QueueQueues DEF OsFocusLost
  <2>4. CASE \E button \in Buttons, state \in {0, 1} : OsButton(button, state)
    BY <2>4, QueueQueues DEF OsButton
  <2>5. ASSUME NEW type, NEW n, OsInput(type, n) PROVE Queued
    BY <2>5, QueueQueues DEF OsInput
  <2>6. QED
    BY <2>1, <2>2, <2>3, <2>4, <2>5 DEF Os
<1>3. QED
  BY <1>1, <1>2

(* What is polled keeps its place in the stream: it goes from the head of  *)
(* the queue to the end of the back buffer.                                *)
LEMMA PollStutters == ASSUME IInv, Poll PROVE UNCHANGED <<pending, batch>>
<1> DEFINE e == Head(queue)
<1>1. queue \in Seq(SdlEvents) /\ queue # << >> /\ back \in Seq(PincEventSet)
  BY DEF IInv, Typed, Poll
<1>2. e \in SdlEvents /\ ~Refused(e)
  BY <1>1 DEF Poll
<1>3. Tail(queue) \in Seq(SdlEvents)
  BY <1>1
<1>4. back' = back \o Produced(e) /\ queue' = Tail(queue) /\ front' = front
  BY DEF Poll, BackAppend
<1>5. Waits(queue) = Copies(e) \o Waits(Tail(queue))
  BY <1>1, WaitsHead
<1> HIDE DEF e
<1>6. Serials(back') = Serials(back) \o Copies(e)
  <2>1. Produced(e) \in Seq(PincEventSet)
    BY <1>2, ProducedEvents DEF IInv
  <2>2. PICK p \in Seq(PincEventSet) : p = Produced(e)
    BY <2>1
  <2>3. Serials(back \o p) = Serials(back) \o Serials(p)
    BY <1>1, SerialsConcat
  <2>4. Serials(p) = Copies(e)
    BY <1>2, <2>2, SerialsProduced
  <2>5. QED
    BY <1>4, <2>2, <2>3, <2>4
<1>7. PICK a \in Seq(Nat) : a = Serials(back)
  BY <1>1, SerialsType
<1>8. PICK w \in Seq(Nat) : w = Waits(Tail(queue))
  BY <1>3, WaitsType
<1>9. PICK d \in Seq(Nat) : d = Copies(e)
  BY <1>2, CopiesType
<1>10. pending = a \o (d \o w) /\ pending' = (a \o d) \o w
  BY <1>4, <1>5, <1>6, <1>7, <1>8, <1>9 DEF pending
<1>11. pending' = pending
  BY <1>10, SerialsAssociate
<1>12. QED
  BY <1>4, <1>11 DEF batch

(* A step that ends on an empty queue delivers all of the back buffer.     *)
LEMMA StepEndDelivers == ASSUME IInv, StepEnd PROVE Stream!Next
<1>1. back \in Seq(PincEventSet) /\ front' = back /\ back' = << >> /\ queue' = queue
  BY DEF IInv, Typed, StepEnd, Swap
<1>2. PICK a \in Seq(Nat) : a = Serials(back)
  BY <1>1, SerialsType
<1>3. PICK w \in Seq(Nat) : w = Waits(queue)
  BY WaitsType DEF IInv, Typed
<1>4. PICK n \in Nat : n = Len(a)
  OBVIOUS
<1>5. pending = a \o w /\ pending' = w /\ batch' = a
  <2>1. << >> \o w = w
    BY ConcatEmptySeq
  <2>2. QED
    BY <1>1, <1>2, <1>3, <2>1, SerialsEmpty DEF pending, batch
<1>6. /\ Len(pending) \in Nat /\ n <= Len(pending)
      /\ SubSeq(pending, 1, n) = a /\ SubSeq(pending, n + 1, Len(pending)) = w
  BY <1>4, <1>5, Halves
<1>7. Stream!Deliver(n) /\ n \in 0 .. Len(pending)
  BY <1>5, <1>6 DEF Stream!Deliver
<1>8. QED
  BY <1>7 DEF Stream!Next

(* A step that ends on a refused event drops it, and only it: it is behind *)
(* what was polled and before what still waits.                            *)
LEMMA PollRefusedDrops == ASSUME IInv, PollRefused PROVE Stream!Next
<1> DEFINE e == Head(queue)
<1>1. /\ queue \in Seq(SdlEvents) /\ queue # << >> /\ back \in Seq(PincEventSet)
      /\ front' = back /\ back' = << >> /\ queue' = Tail(queue)
  BY DEF IInv, Typed, PollRefused, Swap
<1>2. e \in SdlEvents /\ Refused(e)
  BY <1>1 DEF PollRefused
<1>3. Tail(queue) \in Seq(SdlEvents)
  BY <1>1
<1>4. Waits(queue) = Copies(e) \o Waits(Tail(queue))
  BY <1>1, WaitsHead
<1> HIDE DEF e
<1>5. Count(e) = 1
  <2>1. e.type \notin {"text", "endlessText", "ignored"}
    BY <1>2, PincEventsAssumption DEF Refused, WindowTypes, FocusTypes
  <2>2. QED
    BY <2>1 DEF Count
<1>6. PICK a \in Seq(Nat) : a = Serials(back)
  BY <1>1, SerialsType
<1>7. PICK w \in Seq(Nat) : w = Waits(Tail(queue))
  BY <1>3, WaitsType
<1>8. PICK d \in Seq(Nat) : d = Copies(e) /\ Len(d) = 1
  BY <1>2, <1>5, CopiesType
<1>9. PICK n \in Nat : n = Len(a)
  OBVIOUS
<1>10. pending = a \o (d \o w) /\ pending' = w /\ batch' = a
  <2>1. << >> \o w = w
    BY ConcatEmptySeq
  <2>2. QED
    BY <1>1, <1>4, <1>6, <1>7, <1>8, <2>1, SerialsEmpty DEF pending, batch
<1>11. /\ Len(pending) \in Nat /\ SubSeq(pending, 1, n) = a
  <2>1. d \o w \in Seq(Nat)
    BY ConcatProperties
  <2>2. PICK b \in Seq(Nat) : b = d \o w
    BY <2>1
  <2>3. QED
    BY <1>9, <1>10, <2>2, Halves
<1>12. n + 1 <= Len(pending) /\ SubSeq(pending, n + 2, Len(pending)) = w
  <2>1. PICK b \in Seq(Nat) : b = a \o d /\ Len(b) = Len(a) + Len(d)
    <3>1. a \o d \in Seq(Nat) /\ Len(a \o d) = Len(a) + Len(d)
      OBVIOUS
    <3>2. QED
      BY <3>1
  <2>2. Len(b) = n + 1
    BY <1>8, <1>9, <2>1
  <2>3. pending = b \o w
    BY <1>10, <2>1, SerialsAssociate
  <2>4. PICK k \in Nat : k = n + 1
    OBVIOUS
  <2>5. k <= Len(b \o w) /\ SubSeq(b \o w, k + 1, Len(b \o w)) = w
    BY <2>2, <2>4, Halves
  <2>6. k + 1 = n + 2
    BY <2>4
  <2>7. QED
    BY <2>3, <2>4, <2>5, <2>6
<1>13. n < Len(pending) /\ n \in 0 .. Len(pending)
  BY <1>11, <1>12
<1>14. Stream!DeliverAndDrop(n)
  BY <1>10, <1>11, <1>12, <1>13 DEF Stream!DeliverAndDrop
<1>15. QED
  BY <1>13, <1>14 DEF Stream!Next

(* A text that hangs pincStep has no place in the stream.                  *)
LEMMA PollHangsStutters == ASSUME IInv, PollHangs PROVE UNCHANGED <<pending, batch>>
<1> DEFINE e == Head(queue)
<1>1. queue \in Seq(SdlEvents) /\ queue # << >>
  BY DEF IInv, Typed, PollHangs
<1>2. e \in SdlEvents /\ e.type = "endlessText"
  BY <1>1 DEF PollHangs
<1>3. Waits(queue) = Copies(e) \o Waits(Tail(queue))
  BY <1>1, WaitsHead
<1> HIDE DEF e
<1>4. Count(e) = 0
  BY <1>2 DEF Count, SdlEvents
<1>5. Copies(e) = << >>
  BY <1>4 DEF Copies
<1>6. PICK w \in Seq(Nat) : w = Waits(Tail(queue))
  <2>1. Tail(queue) \in Seq(SdlEvents)
    BY <1>1
  <2>2. QED
    BY <2>1, WaitsType
<1>7. Waits(queue) = w
  BY <1>3, <1>5, <1>6, ConcatEmptySeq
<1>8. QED
  BY <1>6, <1>7 DEF PollHangs, pending, batch

(* Every step is a step of the stream, or leaves it alone.                 *)
LEMMA StreamStep ==
  ASSUME IInv, IInv', [Next]_vars
  PROVE  [Stream!Next]_(Stream!vars)
<1>1. UNCHANGED <<pending, batch>> => UNCHANGED Stream!vars
  BY DEF Stream!vars
<1>2. CASE UNCHANGED <<queue, back, front>>
  <2>1. UNCHANGED <<pending, batch>>
    BY <1>2 DEF pending, batch
  <2>2. QED
    BY <1>1, <2>1
<1>3. CASE Queued /\ UNCHANGED <<back, front>>
  BY <1>3, QueuedHappens DEF Queued
<1>4. CASE StepBegin
  <2>1. UNCHANGED <<pending, batch>>
    BY <1>4, SerialsReused DEF StepBegin, IInv, Typed, pending, batch
  <2>2. QED
    BY <1>1, <2>1
<1>5. CASE User
  <2>1. CASE \E h \in Handles : WindowComplete(h)
    BY <1>2, <2>1 DEF WindowComplete
  <2>2. CASE \E w \in Ids : WindowDeinit(w)
    BY <1>2, <1>3, <2>2, QueueQueues DEF WindowDeinit
  <2>3. QED
    BY <1>5, <2>1, <2>2 DEF User
<1>6. CASE PincStep
  <2>1. CASE Poll
    BY <1>1, <2>1, PollStutters
  <2>2. CASE PollHangs
    BY <1>1, <2>2, PollHangsStutters
  <2>3. CASE DecodeOn
    BY <1>2, <2>3 DEF DecodeOn, vars
  <2>4. QED
    BY <1>4, <1>6, <2>1, <2>2, <2>3, PollRefusedDrops, StepEndDelivers DEF PincStep
<1>7. CASE UNCHANGED vars
  BY <1>2, <1>7 DEF vars
<1>8. QED
  <2>1. CASE Os
    BY <1>3, <2>1, OsQueues
  <2>2. QED
    BY <1>5, <1>6, <1>7, <2>1 DEF Next

(* SDL's queue and the two buffers implement one stream: what happens      *)
(* reaches the user once and in order, and only a refused event is dropped.*)
THEOREM BuffersImplementStream == Spec => ImplementsEventStream
<1>1. Init => Stream!Init
  <2>1. SUFFICES ASSUME Init PROVE Stream!Init
    OBVIOUS
  <2>2. queue = << >> /\ back = << >> /\ front = << >>
    BY <2>1 DEF Init
  <2>3. << >> \in Seq(SdlEvents) /\ << >> \o << >> = << >>
    OBVIOUS
  <2>4. Waits(<< >>) = << >>
    BY <2>3, WaitsType
  <2>5. pending = << >> /\ batch = << >>
    BY <2>2, <2>3, <2>4, SerialsEmpty DEF pending, batch
  <2>6. QED
    BY <2>5 DEF Stream!Init
<1>2. IInv /\ IInv' /\ [Next]_vars => [Stream!Next]_(Stream!vars)
  BY StreamStep
<1>3. QED
  BY <1>1, <1>2, EventsInvariant, PTL DEF Spec, ImplementsEventStream, Stream!Spec
=============================================================================
