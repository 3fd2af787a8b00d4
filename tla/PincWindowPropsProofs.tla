------------------------ MODULE PincWindowPropsProofs ------------------------
(***************************************************************************)
(* Proofs about PincWindowProps: the sizes the backend remembers and the   *)
(* titles it frees, for any number of windows, handles, events and sizes.  *)
(***************************************************************************)
EXTENDS PincWindowProps, SequenceTheorems, FiniteSetTheorems, TLAPS

-----------------------------------------------------------------------------
(* The types of what the variables hold. *)
SdlEvents == [type : {"sizeChanged", "refused"}, window : Ids, size : Sizes]

Objects == [kind : {"none", "incompleteWindow", "window"}, has : [1 .. 2 -> BOOLEAN], size : Sizes]

WindowRecords == [open : BOOLEAN, new : BOOLEAN, owned : BOOLEAN,
                  front : Handles \cup {Nobody}, size : Sizes]

Typed ==
  /\ objects \in [Handles -> Objects]
  /\ windows \in [Ids -> WindowRecords]
  /\ real \in [Ids -> Sizes]
  /\ declined \in [Ids -> BOOLEAN]
  /\ queue \in Seq(SdlEvents)
  /\ sent \in 0 .. MaxEvents
  /\ phase \in {"idle", "polling"} /\ cut \in BOOLEAN
  /\ lost \in 0 .. MaxLost

(* Each complete window object has a window. *)
Owners ==
  /\ \A w \in Ids : windows[w].owned => windows[w].open
  /\ \A w \in Ids : ~(windows[w].open /\ windows[w].new)
  /\ \A h \in Handles : objects[h].kind = "window" => Owner(h) # {}

(* What the queue tells of a window: nothing, or its size by the last      *)
(* event that tells any.                                                   *)
Tells(e, w) == e.type = "sizeChanged" /\ e.window = w

Silent(q, w) == \A i \in 1 .. Len(q) : ~Tells(q[i], w)

LastTells(q, w, s) ==
  \A i \in 1 .. Len(q) :
    Tells(q[i], w) /\ (\A j \in (i + 1) .. Len(q) : ~Tells(q[j], w)) => q[i].size = s

(* The size remembered is SDL's, or SDL did not take the last one. *)
Agree(w) == windows[w].size = real[w] \/ declined[w]

(* However far SDL's size has gone from the one remembered, the events in  *)
(* the queue make up for it.                                               *)
Told(w) ==
  /\ windows[w].open => /\ LastTells(queue, w, real[w])
                        /\ Silent(queue, w) => Agree(w)
                        /\ phase = "idle" /\ ~cut => Agree(w)
  /\ windows[w].new => Silent(queue, w)

Titles == titles = lost + Cardinality({h \in Handles : objects[h].kind = "incompleteWindow"})

IInv == Typed /\ Owners /\ (\A w \in Ids : Told(w)) /\ Titles

-----------------------------------------------------------------------------
(* Events about one window, appended to the queue. *)
LEMMA AppendEvents ==
  ASSUME NEW q \in Seq(SdlEvents), NEW a \in Seq(SdlEvents), NEW w \in Ids,
         \A i \in 1 .. Len(a) : Tells(a[i], w)
  PROVE  /\ q \o a \in Seq(SdlEvents)
         /\ \A v \in Ids \ {w} : Silent(q, v) => Silent(q \o a, v)
         /\ \A v \in Ids \ {w} : Silent(q \o a, v) => Silent(q, v)
         /\ Silent(q \o a, w) => a = << >> /\ Silent(q, w)
         /\ \A v \in Ids \ {w}, s \in Sizes : LastTells(q, v, s) => LastTells(q \o a, v, s)
         /\ \A s \in Sizes :
              (IF a = << >> THEN LastTells(q, w, s) ELSE a[Len(a)].size = s)
                => LastTells(q \o a, w, s)
<1>1. PICK m \in Nat, n \in Nat : m = Len(q) /\ n = Len(a)
  OBVIOUS
<1>2. PICK b \in Seq(SdlEvents) :
        /\ b = q \o a /\ Len(b) = m + n
        /\ \A i \in 1 .. (m + n) : b[i] = IF i <= m THEN q[i] ELSE a[i - m]
  <2>1. /\ q \o a \in Seq(SdlEvents)
        /\ Len(q \o a) = Len(q) + Len(a)
        /\ \A i \in 1 .. Len(q) + Len(a) :
             (q \o a)[i] = IF i <= Len(q) THEN q[i] ELSE a[i - Len(q)]
    BY ConcatProperties
  <2> DEFINE b == q \o a
  <2> HIDE DEF b
  <2>2. /\ b \in Seq(SdlEvents) /\ b = q \o a /\ Len(b) = m + n
        /\ \A i \in 1 .. (m + n) : b[i] = IF i <= m THEN q[i] ELSE a[i - m]
    BY <1>1, <2>1 DEF b
  <2>3. QED
    BY <2>2
<1>3. \A i \in 1 .. m : i \in 1 .. (m + n) /\ b[i] = q[i]
  BY <1>2
<1>4. \A i \in 1 .. (m + n) : i > m => i - m \in 1 .. n /\ b[i] = a[i - m]
  BY <1>2
<1>5. \A i \in 1 .. n : Tells(a[i], w)
  BY <1>1
<1>6. \A i \in 1 .. (m + n) : i > m => Tells(b[i], w)
  BY <1>4, <1>5
<1>7. \A i \in 1 .. (m + n), v \in Ids \ {w} : i > m => ~Tells(b[i], v)
  BY <1>6 DEF Tells
<1>8. ASSUME NEW v \in Ids \ {w} PROVE Silent(q, v) <=> Silent(b, v)
  <2>1. ASSUME Silent(q, v), NEW i \in 1 .. (m + n) PROVE ~Tells(b[i], v)
    <3>1. CASE i <= m
      BY <1>1, <1>3, <2>1, <3>1 DEF Silent
    <3>2. CASE i > m
      BY <1>7, <3>2
    <3>3. QED
      BY <3>1, <3>2
  <2>2. ASSUME Silent(b, v), NEW i \in 1 .. m PROVE ~Tells(q[i], v)
    BY <1>2, <1>3, <2>2 DEF Silent
  <2>3. QED
    BY <1>1, <1>2, <2>1, <2>2 DEF Silent
<1>9. ASSUME Silent(b, w) PROVE a = << >> /\ Silent(q, w)
  <2>1. n = 0
    <3>1. SUFFICES ASSUME n # 0 PROVE FALSE
      OBVIOUS
    <3>2. m + 1 \in 1 .. (m + n) /\ m + 1 > m
      BY <3>1
    <3>3. QED
      BY <1>2, <1>6, <1>9, <3>2 DEF Silent
  <2>2. ASSUME NEW i \in 1 .. m PROVE ~Tells(q[i], w)
    BY <1>2, <1>3, <1>9 DEF Silent
  <2>3. QED
    BY <1>1, <2>1, <2>2, EmptySeq DEF Silent
<1>10. ASSUME NEW v \in Ids, NEW s \in Sizes, LastTells(q, v, s),
              \A i \in 1 .. (m + n) : i > m => ~Tells(b[i], v)
       PROVE  LastTells(b, v, s)
  <2>1. SUFFICES ASSUME NEW i \in 1 .. (m + n), Tells(b[i], v),
                        \A j \in (i + 1) .. (m + n) : ~Tells(b[j], v)
                 PROVE  b[i].size = s
    BY <1>2 DEF LastTells
  <2>2. i \in 1 .. m
    BY <1>10, <2>1
  <2>3. \A j \in (i + 1) .. m : j \in 1 .. m /\ j \in (i + 1) .. (m + n)
    BY <2>2
  <2>4. \A j \in (i + 1) .. m : ~Tells(q[j], v)
    BY <1>3, <2>1, <2>3
  <2>5. Tells(q[i], v) /\ b[i] = q[i]
    BY <1>3, <2>1, <2>2
  <2>6. QED
    BY <1>1, <1>10, <2>2, <2>4, <2>5 DEF LastTells
<1>11. ASSUME NEW s \in Sizes, IF a = << >> THEN LastTells(q, w, s) ELSE a[Len(a)].size = s
       PROVE  LastTells(b, w, s)
  <2>1. CASE n = 0
    <3>1. a = << >>
      BY <1>1, <2>1, EmptySeq
    <3>2. \A i \in 1 .. (m + n) : i > m => ~Tells(b[i], w)
      BY <2>1
    <3>3. QED
      BY <1>10, <1>11, <3>1, <3>2
  <2>2. CASE n # 0
    <3>1. a # << >> /\ n \in 1 .. n
      BY <1>1, <2>2
    <3>2. a[n].size = s
      BY <1>1, <1>11, <3>1
    <3>3. SUFFICES ASSUME NEW i \in 1 .. (m + n),
                          \A j \in (i + 1) .. (m + n) : ~Tells(b[j], w)
                   PROVE  b[i].size = s
      BY <1>2 DEF LastTells
    <3>4. m + n \in 1 .. (m + n) /\ m + n > m /\ m + n - m = n
      BY <2>2
    <3>5. Tells(b[m + n], w) /\ b[m + n] = a[n]
      BY <1>4, <1>6, <3>4
    <3>6. i = m + n
      <4>1. SUFFICES ASSUME i # m + n PROVE FALSE
        OBVIOUS
      <4>2. m + n \in (i + 1) .. (m + n)
        BY <4>1
      <4>3. QED
        BY <3>3, <3>5, <4>2
    <3>7. QED
      BY <3>2, <3>5, <3>6
  <2>3. QED
    BY <2>1, <2>2
<1>12. \A v \in Ids \ {w}, s \in Sizes : LastTells(q, v, s) => LastTells(b, v, s)
  BY <1>7, <1>10
<1>13. QED
  BY <1>2, <1>8, <1>9, <1>11, <1>12

(* The first event leaves the queue. *)
LEMMA TailEvents ==
  ASSUME NEW q \in Seq(SdlEvents), q # << >>, NEW w \in Ids, NEW s \in Sizes
  PROVE  /\ Head(q) \in SdlEvents /\ Tail(q) \in Seq(SdlEvents)
         /\ Silent(q, w) => Silent(Tail(q), w)
         /\ LastTells(q, w, s) => LastTells(Tail(q), w, s)
         /\ Silent(Tail(q), w) => Silent(q, w) \/ Tells(Head(q), w)
         /\ Silent(Tail(q), w) /\ Tells(Head(q), w) /\ LastTells(q, w, s) => Head(q).size = s
<1>1. PICK n \in Nat : n = Len(q) /\ n >= 1
  BY EmptySeq
<1>2. PICK t \in Seq(SdlEvents) :
        t = Tail(q) /\ Len(t) = n - 1 /\ \A i \in 1 .. (n - 1) : t[i] = q[i + 1]
  <2>1. /\ Tail(q) \in Seq(SdlEvents) /\ Len(Tail(q)) = Len(q) - 1
        /\ \A i \in 1 .. Len(Tail(q)) : Tail(q)[i] = q[i + 1]
    BY HeadTailProperties
  <2> DEFINE t == Tail(q)
  <2> HIDE DEF t
  <2>2. /\ t \in Seq(SdlEvents) /\ t = Tail(q) /\ Len(t) = n - 1
        /\ \A i \in 1 .. (n - 1) : t[i] = q[i + 1]
    BY <1>1, <2>1 DEF t
  <2>3. QED
    BY <2>2
<1>3. Head(q) = q[1] /\ Head(q) \in SdlEvents
  BY HeadTailProperties
<1>4. \A i \in 1 .. (n - 1) : i + 1 \in 1 .. n /\ t[i] = q[i + 1]
  BY <1>1, <1>2
<1>5. \A i \in 1 .. n : i = 1 \/ (i - 1 \in 1 .. (n - 1) /\ q[i] = t[i - 1])
  BY <1>1, <1>2
<1>6. Silent(q, w) => Silent(t, w)
  BY <1>1, <1>2, <1>4 DEF Silent
<1>7. ASSUME LastTells(q, w, s) PROVE LastTells(t, w, s)
  <2>1. SUFFICES ASSUME NEW i \in 1 .. (n - 1), Tells(t[i], w),
                        \A j \in (i + 1) .. (n - 1) : ~Tells(t[j], w)
                 PROVE  t[i].size = s
    BY <1>2 DEF LastTells
  <2>2. i + 1 \in 1 .. n /\ t[i] = q[i + 1]
    BY <1>4
  <2>3. ASSUME NEW j \in (i + 1 + 1) .. n PROVE ~Tells(q[j], w)
    <3>1. j - 1 \in (i + 1) .. (n - 1) /\ j \in 1 .. n /\ j # 1
      BY <1>1
    <3>2. QED
      BY <1>5, <2>1, <3>1
  <2>4. QED
    BY <1>1, <1>7, <2>1, <2>2, <2>3 DEF LastTells
<1>8. ASSUME Silent(t, w) PROVE Silent(q, w) \/ Tells(Head(q), w)
  <2>1. SUFFICES ASSUME ~Tells(q[1], w), NEW i \in 1 .. n PROVE ~Tells(q[i], w)
    BY <1>1, <1>3 DEF Silent
  <2>2. QED
    BY <1>2, <1>5, <1>8, <2>1 DEF Silent
<1>9. ASSUME Silent(t, w), Tells(Head(q), w), LastTells(q, w, s) PROVE Head(q).size = s
  <2>1. ASSUME NEW j \in (1 + 1) .. n PROVE ~Tells(q[j], w)
    <3>1. j \in 1 .. n /\ j # 1
      BY <1>1
    <3>2. j - 1 \in 1 .. (n - 1) /\ q[j] = t[j - 1]
      BY <1>5, <3>1
    <3>3. QED
      BY <1>2, <1>9, <3>2 DEF Silent
  <2>2. 1 \in 1 .. n
    BY <1>1
  <2>3. QED
    BY <1>1, <1>3, <1>9, <2>1, <2>2 DEF LastTells
<1>10. QED
  BY <1>2, <1>3, <1>6, <1>7, <1>8, <1>9

-----------------------------------------------------------------------------
(* What SDL may make of a size that is asked for. *)
WellAnswered(a, w, old, s) ==
  /\ a.real \in Sizes /\ a.declined \in BOOLEAN /\ a.events \in Seq(SdlEvents)
  /\ \A i \in 1 .. Len(a.events) : Tells(a.events[i], w)
  /\ a.events = << >> => a.real = old
  /\ a.events # << >> => a.events[Len(a.events)].size = a.real
  /\ ~a.declined => a.real = s

(* The events tell the size SDL has at the end, which is the one asked for *)
(* unless that was declined.                                               *)
LEMMA AnswerIsTold ==
  ASSUME NEW w \in Ids, NEW old \in Sizes, NEW s \in Sizes, NEW a \in Answer(w, old, s)
  PROVE  WellAnswered(a, w, old, s)
<1>1. CASE a = [real |-> old, events |-> << >>, declined |-> TRUE]
  <2>1. << >> \in Seq(SdlEvents) /\ Len(<< >>) = 0
    OBVIOUS
  <2>2. QED
    BY <1>1, <2>1 DEF WellAnswered
<1>2. CASE a = [real |-> s, events |-> IF s = old THEN << >> ELSE <<SizeEvent(w, s)>>,
                declined |-> FALSE]
  <2>1. a.real = s /\ a.declined = FALSE
    BY <1>2
  <2>2. CASE s = old
    BY <1>2, <2>1, <2>2 DEF WellAnswered
  <2>3. CASE s # old
    <3>1. SizeEvent(w, s) \in SdlEvents /\ Tells(SizeEvent(w, s), w) /\ SizeEvent(w, s).size = s
      BY DEF SizeEvent, SdlEvents, Tells
    <3>2. a.events = <<SizeEvent(w, s)>>
      BY <1>2, <2>3
    <3> DEFINE e == SizeEvent(w, s)
    <3> HIDE DEF e
    <3>3. e \in SdlEvents /\ Tells(e, w) /\ e.size = s /\ a.events = <<e>>
      BY <3>1, <3>2 DEF e
    <3>4. <<e>> \in Seq(SdlEvents) /\ Len(<<e>>) = 1 /\ <<e>>[1] = e /\ <<e>> # << >>
      BY <3>3
    <3>5. /\ a.events \in Seq(SdlEvents) /\ a.events # << >> /\ Len(a.events) = 1
          /\ a.events[1] = e
      BY <3>3, <3>4
    <3>6. \A i \in 1 .. 1 : i = 1
      OBVIOUS
    <3>7. QED
      BY <2>1, <3>3, <3>5, <3>6 DEF WellAnswered
  <2>4. QED
    BY <2>2, <2>3
<1>3. QED
  BY <1>1, <1>2 DEF Answer

(* And so do those of two sizes asked for one after the other. *)
LEMMA AnswersAreTold ==
  ASSUME NEW w \in Ids, NEW old \in Sizes, NEW first \in Sizes, NEW second \in Sizes,
         NEW a \in Answers(w, old, first, second)
  PROVE  WellAnswered(a, w, old, second)
<1>1. PICK a1 \in Answer(w, old, first) :
        \E a2 \in Answer(w, a1.real, second) : a = [a2 EXCEPT !.events = a1.events \o a2.events]
  BY DEF Answers
<1>2. PICK a2 \in Answer(w, a1.real, second) : a = [a2 EXCEPT !.events = a1.events \o a2.events]
  BY <1>1
<1>3. WellAnswered(a1, w, old, first)
  BY AnswerIsTold
<1>4. a1.real \in Sizes
  BY <1>3 DEF WellAnswered
<1>5. WellAnswered(a2, w, a1.real, second)
  BY <1>4, AnswerIsTold
<1>6. /\ a.real = a2.real /\ a.declined = a2.declined
      /\ a.events = a1.events \o a2.events
  BY <1>2 DEF Answer
<1>7. PICK e1 \in Seq(SdlEvents), e2 \in Seq(SdlEvents), m \in Nat, n \in Nat :
        e1 = a1.events /\ e2 = a2.events /\ m = Len(e1) /\ n = Len(e2)
  BY <1>3, <1>5 DEF WellAnswered
<1>8. PICK b \in Seq(SdlEvents) :
        /\ b = a.events /\ b = e1 \o e2 /\ Len(b) = m + n
        /\ \A i \in 1 .. (m + n) : b[i] = IF i <= m THEN e1[i] ELSE e2[i - m]
  <2>1. /\ e1 \o e2 \in Seq(SdlEvents)
        /\ Len(e1 \o e2) = Len(e1) + Len(e2)
        /\ \A i \in 1 .. Len(e1) + Len(e2) :
             (e1 \o e2)[i] = IF i <= Len(e1) THEN e1[i] ELSE e2[i - Len(e1)]
    BY ConcatProperties
  <2>2. a.events = e1 \o e2
    BY <1>6, <1>7
  <2> DEFINE b == e1 \o e2
  <2> HIDE DEF b
  <2>3. /\ b \in Seq(SdlEvents) /\ b = e1 \o e2 /\ Len(b) = m + n
        /\ \A i \in 1 .. (m + n) : b[i] = IF i <= m THEN e1[i] ELSE e2[i - m]
    BY <1>7, <2>1 DEF b
  <2>4. QED
    BY <2>2, <2>3
<1>9. \A i \in 1 .. (m + n) : Tells(b[i], w)
  <2>1. ASSUME NEW i \in 1 .. (m + n) PROVE Tells(b[i], w)
    <3>1. CASE i <= m
      <4>1. i \in 1 .. m /\ b[i] = e1[i]
        BY <1>8, <3>1
      <4>2. QED
        BY <1>3, <1>7, <4>1 DEF WellAnswered
    <3>2. CASE i > m
      <4>1. i - m \in 1 .. n /\ b[i] = e2[i - m]
        BY <1>8, <3>2
      <4>2. QED
        BY <1>5, <1>7, <4>1 DEF WellAnswered
    <3>3. QED
      BY <3>1, <3>2
  <2>2. QED
    BY <2>1
<1>10. ASSUME b = << >> PROVE a.real = old
  <2>1. m + n = 0
    BY <1>8, <1>10
  <2>2. m = 0 /\ n = 0
    BY <2>1
  <2>3. e1 = << >> /\ e2 = << >>
    BY <1>7, <2>2, EmptySeq
  <2>4. QED
    BY <1>3, <1>5, <1>6, <1>7, <2>3 DEF WellAnswered
<1>11. ASSUME b # << >> PROVE b[m + n].size = a.real
  <2>1. m + n # 0
    BY <1>8, <1>11, EmptySeq
  <2>2. CASE n # 0
    <3>1. m + n \in 1 .. (m + n) /\ ~(m + n <= m) /\ m + n - m = n
      BY <2>2
    <3>2. b[m + n] = e2[n]
      BY <1>8, <3>1
    <3>3. e2 # << >>
      BY <1>7, <2>2
    <3>4. QED
      BY <1>5, <1>6, <1>7, <3>2, <3>3 DEF WellAnswered
  <2>3. CASE n = 0
    <3>1. m + n \in 1 .. (m + n) /\ m + n <= m /\ m + n = m
      BY <2>1, <2>3
    <3>2. b[m + n] = e1[m]
      BY <1>8, <3>1
    <3>3. e2 = << >> /\ e1 # << >>
      <4>1. m # 0
        BY <2>1, <2>3
      <4>2. QED
        BY <1>7, <2>3, <4>1, EmptySeq
    <3>4. a.real = a1.real
      BY <1>5, <1>6, <1>7, <3>3 DEF WellAnswered
    <3>5. QED
      BY <1>3, <1>7, <3>2, <3>3, <3>4 DEF WellAnswered
  <2>4. QED
    BY <2>2, <2>3
<1>12. a.real \in Sizes /\ a.declined \in BOOLEAN /\ (~a.declined => a.real = second)
  BY <1>5, <1>6 DEF WellAnswered
<1>13. QED
  BY <1>8, <1>9, <1>10, <1>11, <1>12 DEF WellAnswered

(* A window asks SDL for the size it remembers. *)
LEMMA AskedIsTold ==
  ASSUME IInv, NEW w \in Ids, windows[w].open, NEW s \in Sizes, NEW a,
         WellAnswered(a, w, real[w], s), SdlAnswers(w, a),
         windows' = [windows EXCEPT ![w] = windows'[w]],
         windows'[w] \in WindowRecords,
         windows'[w].open, ~windows'[w].new, windows'[w].size = s
  PROVE  /\ windows' \in [Ids -> WindowRecords]
         /\ real' \in [Ids -> Sizes] /\ declined' \in [Ids -> BOOLEAN]
         /\ queue' \in Seq(SdlEvents) /\ sent' \in 0 .. MaxEvents
         /\ phase' = phase /\ cut' = cut => \A v \in Ids : Told(v)'
<1>1. windows' \in [Ids -> WindowRecords] /\ \A v \in Ids \ {w} : windows'[v] = windows[v]
  BY DEF IInv, Typed
<1>2. /\ real' = [real EXCEPT ![w] = a.real]
      /\ declined' = [declined EXCEPT ![w] = a.declined]
      /\ queue' = queue \o a.events
  BY DEF SdlAnswers
<1>3. real' \in [Ids -> Sizes] /\ declined' \in [Ids -> BOOLEAN]
  BY <1>2 DEF IInv, Typed, WellAnswered
<1>4. PICK e \in Seq(SdlEvents) : e = a.events
  BY DEF WellAnswered
<1>5. \A i \in 1 .. Len(e) : Tells(e[i], w)
  BY <1>4 DEF WellAnswered
<1>6. queue \in Seq(SdlEvents)
  BY DEF IInv, Typed
<1>7. /\ queue \o e \in Seq(SdlEvents)
      /\ \A v \in Ids \ {w} : Silent(queue, v) => Silent(queue \o e, v)
      /\ \A v \in Ids \ {w} : Silent(queue \o e, v) => Silent(queue, v)
      /\ \A v \in Ids \ {w}, z \in Sizes : LastTells(queue, v, z) => LastTells(queue \o e, v, z)
      /\ \A z \in Sizes :
           (IF e = << >> THEN LastTells(queue, w, z) ELSE e[Len(e)].size = z)
             => LastTells(queue \o e, w, z)
  BY <1>5, <1>6, AppendEvents
<1>8. queue' = queue \o e
  BY <1>2, <1>4
<1>9. sent' \in 0 .. MaxEvents
  <2>1. sent \in Nat /\ Len(e) \in Nat
    BY <1>4 DEF IInv, Typed
  <2>2. QED
    BY <1>4, <2>1, PincWindowPropsAssumption DEF SdlAnswers
<1>10. ASSUME phase' = phase, cut' = cut, NEW v \in Ids PROVE Told(v)'
  <2>1. Told(v)
    BY DEF IInv
  <2>2. CASE v # w
    <3>1. /\ windows'[v] = windows[v] /\ real'[v] = real[v] /\ declined'[v] = declined[v]
          /\ real[v] \in Sizes
      BY <1>1, <1>2, <2>2 DEF IInv, Typed
    <3>2. /\ Silent(queue', v) <=> Silent(queue, v)
          /\ LastTells(queue, v, real[v]) => LastTells(queue', v, real[v])
      BY <1>7, <1>8, <2>2, <3>1
    <3>3. QED
      BY <1>10, <2>1, <3>1, <3>2 DEF Told, Agree
  <2>3. CASE v = w
    <3>1. real'[w] = a.real /\ declined'[w] = a.declined /\ a.real \in Sizes
      BY <1>2 DEF IInv, Typed, WellAnswered
    <3>2. Agree(w)'
      BY <3>1 DEF Agree, WellAnswered
    <3>3. LastTells(queue', w, a.real)
      <4>1. CASE e = << >>
        <5>1. a.real = real[w] /\ LastTells(queue, w, real[w])
          BY <1>4, <2>1, <2>3, <4>1 DEF Told, WellAnswered
        <5>2. QED
          BY <1>7, <1>8, <3>1, <4>1, <5>1
      <4>2. CASE e # << >>
        <5>1. e[Len(e)].size = a.real
          BY <1>4, <4>2 DEF WellAnswered
        <5>2. QED
          BY <1>7, <1>8, <3>1, <4>2, <5>1
      <4>3. QED
        BY <4>1, <4>2
    <3>4. QED
      BY <2>3, <3>1, <3>2, <3>3 DEF Told
  <2>4. QED
    BY <2>2, <2>3
<1>11. QED
  BY <1>1, <1>3, <1>7, <1>8, <1>9, <1>10

-----------------------------------------------------------------------------
(* The window of a complete object. *)
LEMMA HasWindow ==
  ASSUME IInv, NEW h \in Handles, objects[h].kind = "window"
  PROVE  /\ TheWindow(h) \in Ids
         /\ windows[TheWindow(h)].owned /\ windows[TheWindow(h)].front = h
         /\ windows[TheWindow(h)].open /\ ~windows[TheWindow(h)].new
<1>1. TheWindow(h) \in Owner(h)
  <2>1. \E w \in Ids : w \in Owner(h)
    BY DEF IInv, Owners, Owner
  <2>2. QED
    BY <2>1 DEF TheWindow
<1>2. QED
  BY <1>1 DEF IInv, Owners, Owner

(* The handles whose title is allocated. *)
Untold(objs) == {h \in Handles : objs[h].kind = "incompleteWindow"}

(* An object becomes another: one title more, one less or as many. *)
LEMMA UntoldChanges ==
  ASSUME objects \in [Handles -> Objects], NEW h \in Handles, NEW o \in Objects,
         objects' = [objects EXCEPT ![h] = o]
  PROVE  /\ Cardinality(Untold(objects)) \in Nat
         /\ objects[h].kind # "incompleteWindow" /\ o.kind = "incompleteWindow"
              => Cardinality(Untold(objects')) = Cardinality(Untold(objects)) + 1
         /\ objects[h].kind = "incompleteWindow" /\ o.kind # "incompleteWindow"
              => Cardinality(Untold(objects')) = Cardinality(Untold(objects)) - 1
         /\ objects[h].kind # "incompleteWindow" /\ o.kind # "incompleteWindow"
              => Untold(objects') = Untold(objects)
<1>1. IsFiniteSet(Untold(objects))
  <2>1. Untold(objects) \in SUBSET Handles
    BY DEF Untold
  <2>2. QED
    BY <2>1, FS_Subset, PincWindowPropsAssumption
<1>2. Cardinality(Untold(objects)) \in Nat
  BY <1>1, FS_CardinalityType
<1>3. \A g \in Handles : objects'[g] = IF g = h THEN o ELSE objects[g]
  OBVIOUS
<1>4. h \in Untold(objects) <=> objects[h].kind = "incompleteWindow"
  BY DEF Untold
<1>5. CASE o.kind = "incompleteWindow"
  <2>1. Untold(objects') = Untold(objects) \cup {h}
    BY <1>3, <1>5 DEF Untold
  <2>2. Cardinality(Untold(objects) \cup {h}) =
          IF h \in Untold(objects) THEN Cardinality(Untold(objects))
          ELSE Cardinality(Untold(objects)) + 1
    BY <1>1, FS_AddElement
  <2>3. QED
    BY <1>2, <1>4, <1>5, <2>1, <2>2
<1>6. CASE o.kind # "incompleteWindow"
  <2>1. Untold(objects') = Untold(objects) \ {h}
    BY <1>3, <1>6 DEF Untold
  <2>2. Cardinality(Untold(objects) \ {h}) =
          IF h \in Untold(objects) THEN Cardinality(Untold(objects)) - 1
          ELSE Cardinality(Untold(objects))
    BY <1>1, FS_RemoveElement
  <2>3. h \notin Untold(objects) => Untold(objects') = Untold(objects)
    BY <2>1
  <2>4. QED
    BY <1>2, <1>4, <1>6, <2>1, <2>2, <2>3
<1>7. QED
  BY <1>5, <1>6

(* The objects that come and go. *)
LEMMA ObjectTypes ==
  NoObject \in Objects /\ Incomplete \in Objects /\ Complete \in Objects /\ DefaultSize \in Sizes
<1>1. DefaultSize \in Sizes
  BY DEF DefaultSize, Sizes
<1>2. NoObject \in Objects
  BY <1>1 DEF NoObject, Objects
<1>3. QED
  BY <1>1, <1>2 DEF Incomplete, Complete, Objects

-----------------------------------------------------------------------------
(* Nothing is open in the initial state. *)
LEMMA InitInv == Init => IInv
<1> SUFFICES ASSUME Init PROVE IInv
  OBVIOUS
<1>1. Unmade \in WindowRecords
  BY ObjectTypes DEF Unmade, WindowRecords
<1>2. Typed
  <2>1. << >> \in Seq(SdlEvents) /\ sent \in 0 .. MaxEvents /\ lost \in 0 .. MaxLost
    BY PincWindowPropsAssumption DEF Init
  <2>2. QED
    BY <1>1, <2>1, ObjectTypes DEF Init, Typed
<1>3. \A w \in Ids : windows[w].open = FALSE /\ windows[w].owned = FALSE
  BY DEF Init, Unmade
<1>4. Owners
  BY <1>3 DEF Init, Owners, NoObject
<1>5. \A w \in Ids : Told(w)
  BY <1>3 DEF Told, Init, Silent
<1>6. Untold(objects) = {}
  BY DEF Init, NoObject, Untold
<1>7. Titles
  <2>1. Cardinality(Untold(objects)) = 0
    BY <1>6, FS_EmptySet
  <2>2. titles = lost + Cardinality(Untold(objects))
    BY <2>1 DEF Init
  <2>3. QED
    BY <2>2 DEF Titles, Untold
<1>8. QED
  BY <1>2, <1>4, <1>5, <1>7 DEF IInv

(* pincWindowCreateIncomplete *)
LEMMA CreateIncompleteInv == ASSUME IInv, NEW h \in Handles, CreateIncomplete(h) PROVE IInv'
<1>1. /\ objects' = [objects EXCEPT ![h] = Incomplete] /\ objects[h].kind = "none"
      /\ titles' = titles + 1
      /\ UNCHANGED <<windows, real, declined, queue, sent, phase, cut, lost>>
  BY DEF CreateIncomplete
<1>2. Typed'
  BY <1>1, ObjectTypes DEF IInv, Typed
<1>3. Owners'
  BY <1>1 DEF IInv, Typed, Owners, Owner, Incomplete, NoObject
<1>4. \A w \in Ids : Told(w)'
  BY <1>1 DEF IInv, Told, Agree
<1>5. Titles'
  <2>1. /\ Cardinality(Untold(objects')) = Cardinality(Untold(objects)) + 1
        /\ Cardinality(Untold(objects)) \in Nat
    <3>1. objects[h].kind # "incompleteWindow" /\ Incomplete.kind = "incompleteWindow"
      BY <1>1 DEF Incomplete, NoObject
    <3>2. objects \in [Handles -> Objects]
      BY DEF IInv, Typed
    <3>3. QED
      BY <1>1, <3>1, <3>2, ObjectTypes, UntoldChanges
  <2>2. titles = lost + Cardinality(Untold(objects)) /\ lost \in Nat
    BY DEF IInv, Titles, Typed, Untold
  <2>3. titles' = lost' + Cardinality(Untold(objects'))
    BY <1>1, <2>1, <2>2
  <2>4. QED
    BY <2>3 DEF Titles, Untold
<1>6. QED
  BY <1>2, <1>3, <1>4, <1>5 DEF IInv

(* A step that keeps the objects' kinds keeps the titles. *)
LEMMA SameTitles ==
  ASSUME IInv, UNCHANGED <<titles, lost>>,
         \A h \in Handles : objects'[h].kind = objects[h].kind
  PROVE  Titles'
<1>1. Untold(objects') = Untold(objects)
  BY DEF Untold
<1>2. QED
  BY <1>1 DEF IInv, Titles, Untold

(* The setters on an incomplete window. *)
LEMMA SetLengthIncompleteInv ==
  ASSUME IInv, NEW h \in Handles, NEW i \in 1 .. 2, NEW v \in Lengths, SetLengthIncomplete(h, i, v)
  PROVE  IInv'
<1> DEFINE o == [objects[h] EXCEPT !.size[i] = v, !.has[i] = TRUE]
<1>1. /\ objects' = [objects EXCEPT ![h] = o]
      /\ UNCHANGED <<windows, real, declined, queue, sent, phase, cut, titles, lost>>
  BY DEF SetLengthIncomplete
<1>2. o \in Objects /\ o.kind = objects[h].kind
  BY DEF IInv, Typed, Objects, Sizes
<1> HIDE DEF o
<1>3. Typed'
  BY <1>1, <1>2 DEF IInv, Typed
<1>4. \A g \in Handles : objects'[g].kind = objects[g].kind
  BY <1>1, <1>2 DEF IInv, Typed
<1>5. Owners'
  BY <1>1, <1>4 DEF IInv, Owners, Owner
<1>6. \A w \in Ids : Told(w)'
  BY <1>1 DEF IInv, Told, Agree
<1>7. Titles'
  BY <1>1, <1>4, SameTitles
<1>8. QED
  BY <1>3, <1>5, <1>6, <1>7 DEF IInv

(* The setters on a complete window. *)
LEMMA SetLengthInv ==
  ASSUME IInv, NEW h \in Handles, NEW i \in 1 .. 2, NEW v \in Lengths, SetLength(h, i, v)
  PROVE  IInv'
<1>1. PICK w \in Ids : w = TheWindow(h) /\ windows[w].open /\ ~windows[w].new
  BY HasWindow DEF SetLength
<1> DEFINE r == [windows[w] EXCEPT !.size[i] = v]
<1>2. windows' = [windows EXCEPT ![w] = r]
  BY <1>1 DEF SetLength
<1>3. windows[w] \in WindowRecords
  BY DEF IInv, Typed
<1>4. /\ r \in WindowRecords
      /\ r.open = windows[w].open /\ r.new = windows[w].new
      /\ r.owned = windows[w].owned /\ r.front = windows[w].front
  BY <1>3 DEF WindowRecords, Sizes
<1> HIDE DEF r
<1>5. windows'[w] = r /\ windows' = [windows EXCEPT ![w] = windows'[w]]
  BY <1>2 DEF IInv, Typed
<1>6. r.size \in Sizes /\ real[w] \in Sizes
  BY <1>4 DEF WindowRecords, IInv, Typed
<1>7. PICK a \in Answer(w, real[w], r.size) : SdlAnswers(w, a)
  BY <1>1, <1>5 DEF SetLength
<1>8. WellAnswered(a, w, real[w], r.size)
  BY <1>6, AnswerIsTold
<1>9. /\ windows' \in [Ids -> WindowRecords]
      /\ real' \in [Ids -> Sizes] /\ declined' \in [Ids -> BOOLEAN]
      /\ queue' \in Seq(SdlEvents) /\ sent' \in 0 .. MaxEvents
      /\ phase' = phase /\ cut' = cut => \A u \in Ids : Told(u)'
  BY <1>1, <1>4, <1>5, <1>6, <1>7, <1>8, AskedIsTold
<1>10. UNCHANGED <<objects, phase, cut, titles, lost>>
  BY DEF SetLength
<1>11. Typed'
  BY <1>9, <1>10 DEF IInv, Typed
<1>12. \A u \in Ids : /\ windows'[u].owned = windows[u].owned /\ windows'[u].open = windows[u].open
                      /\ windows'[u].new = windows[u].new /\ windows'[u].front = windows[u].front
  BY <1>2, <1>4 DEF IInv, Typed
<1>13. Owners'
  BY <1>10, <1>12 DEF IInv, Owners, Owner
<1>14. Titles'
  BY <1>10, SameTitles
<1>15. QED
  BY <1>9, <1>10, <1>11, <1>13, <1>14 DEF IInv

-----------------------------------------------------------------------------
(* A window opens. *)
LEMMA OpenInv ==
  ASSUME IInv, NEW w \in Ids, NEW h \in Handles \cup {Nobody}, NEW size \in Sizes,
         NEW owned \in BOOLEAN, Open(w, h, size, owned), UNCHANGED <<phase, cut>>
  PROVE  /\ windows' \in [Ids -> WindowRecords]
         /\ real' \in [Ids -> Sizes] /\ declined' \in [Ids -> BOOLEAN]
         /\ \A u \in Ids : Told(u)'
         /\ \A u \in Ids : windows'[u].owned => windows'[u].open
         /\ \A u \in Ids : ~(windows'[u].open /\ windows'[u].new)
         /\ \A g \in Handles : Owner(g) \subseteq Owner(g)'
         /\ owned /\ h \in Handles => Owner(h)' # {}
<1> DEFINE r == [open |-> TRUE, new |-> FALSE, front |-> h, owned |-> owned, size |-> size]
<1>0. PICK taken \in BOOLEAN :
        /\ windows[w].new
        /\ windows' = [windows EXCEPT ![w] = r]
        /\ real' = [real EXCEPT ![w] = IF taken THEN size ELSE DefaultSize]
        /\ declined' = [declined EXCEPT ![w] = ~taken]
        /\ queue' = queue /\ phase' = phase /\ cut' = cut
  BY DEF Open
<1> DEFINE s == IF taken THEN size ELSE DefaultSize
<1>1. /\ windows[w].new
      /\ windows' = [windows EXCEPT ![w] = r]
      /\ real' = [real EXCEPT ![w] = s]
      /\ declined' = [declined EXCEPT ![w] = ~taken]
      /\ queue' = queue /\ phase' = phase /\ cut' = cut
  BY <1>0
<1>2. /\ r \in WindowRecords /\ r.open /\ ~r.new /\ r.owned = owned /\ r.front = h
      /\ r.size = size
  BY DEF WindowRecords
<1>3. s \in Sizes /\ (s = size \/ ~taken)
  BY ObjectTypes
<1> HIDE DEF r, s
<1>4. /\ windows' \in [Ids -> WindowRecords]
      /\ real' \in [Ids -> Sizes] /\ declined' \in [Ids -> BOOLEAN]
  BY <1>1, <1>2, <1>3 DEF IInv, Typed
<1>5. /\ windows'[w] = r /\ real'[w] = s /\ declined'[w] = ~taken
      /\ \A u \in Ids \ {w} : /\ windows'[u] = windows[u] /\ real'[u] = real[u]
                              /\ declined'[u] = declined[u]
  BY <1>1 DEF IInv, Typed
<1>6. ASSUME NEW u \in Ids PROVE Told(u)'
  <2>1. CASE u # w
    BY <1>1, <1>5, <2>1 DEF IInv, Told, Agree
  <2>2. CASE u = w
    <3>1. Silent(queue, w)
      BY <1>1 DEF IInv, Told
    <3>2. LastTells(queue, w, s)
      BY <3>1 DEF Silent, LastTells
    <3>3. Agree(w)'
      BY <1>2, <1>3, <1>5 DEF Agree
    <3>4. QED
      BY <1>1, <1>2, <1>5, <2>2, <3>2, <3>3 DEF Told
  <2>3. QED
    BY <2>1, <2>2
<1>7. ~windows[w].owned
  BY <1>1 DEF IInv, Owners
<1>8. \A g \in Handles : Owner(g) \subseteq Owner(g)'
  BY <1>5, <1>7 DEF Owner
<1>9. owned /\ h \in Handles => Owner(h)' # {}
  BY <1>2, <1>5 DEF Owner
<1>10. /\ \A u \in Ids : windows'[u].owned => windows'[u].open
       /\ \A u \in Ids : ~(windows'[u].open /\ windows'[u].new)
  BY <1>2, <1>5 DEF IInv, Owners
<1>11. QED
  BY <1>4, <1>6, <1>8, <1>9, <1>10

(* The spare dummy window is given to a handle. *)
LEMMA ReuseInv ==
  ASSUME IInv, Spare, NEW h \in Handles, NEW size \in Sizes, Reuse(h, size),
         UNCHANGED <<phase, cut>>
  PROVE  /\ windows' \in [Ids -> WindowRecords]
         /\ real' \in [Ids -> Sizes] /\ declined' \in [Ids -> BOOLEAN]
         /\ queue' \in Seq(SdlEvents) /\ sent' \in 0 .. MaxEvents
         /\ \A u \in Ids : Told(u)'
         /\ \A u \in Ids : windows'[u].owned => windows'[u].open
         /\ \A u \in Ids : ~(windows'[u].open /\ windows'[u].new)
         /\ \A g \in Handles : Owner(g) \subseteq Owner(g)'
         /\ Owner(h)' # {}
<1>1. Dummy \in Ids /\ windows[Dummy].open /\ ~windows[Dummy].owned /\ ~windows[Dummy].new
  BY PincWindowPropsAssumption DEF Dummy, Ids, Spare, IInv, Owners
<1> DEFINE r == [windows[Dummy] EXCEPT !.front = h, !.owned = TRUE, !.size = size]
<1>2. windows' = [windows EXCEPT ![Dummy] = r]
  BY DEF Reuse
<1>3. windows[Dummy] \in WindowRecords
  BY <1>1 DEF IInv, Typed
<1>4. /\ r \in WindowRecords /\ r.size = size /\ r.front = h /\ r.owned
      /\ r.open = windows[Dummy].open /\ r.new = windows[Dummy].new
  BY <1>3 DEF WindowRecords
<1> HIDE DEF r
<1>5. /\ windows'[Dummy] = r /\ windows' = [windows EXCEPT ![Dummy] = windows'[Dummy]]
      /\ \A u \in Ids \ {Dummy} : windows'[u] = windows[u]
  BY <1>1, <1>2 DEF IInv, Typed
<1> DEFINE first == <<size[1], windows[Dummy].size[2]>>
<1>6. first \in Sizes /\ real[Dummy] \in Sizes
  <2>1. windows[Dummy].size \in Sizes /\ real[Dummy] \in Sizes
    BY <1>1, <1>3 DEF WindowRecords, IInv, Typed
  <2>2. size[1] \in Lengths \cup {DefaultLength}
        /\ windows[Dummy].size[2] \in Lengths \cup {DefaultLength}
    BY <2>1 DEF Sizes
  <2>3. QED
    BY <2>1, <2>2 DEF Sizes
<1>7. PICK a \in Answers(Dummy, real[Dummy], first, size) : SdlAnswers(Dummy, a)
  BY DEF Reuse
<1> HIDE DEF first
<1>8. WellAnswered(a, Dummy, real[Dummy], size)
  BY <1>1, <1>6, AnswersAreTold
<1>9. /\ windows' \in [Ids -> WindowRecords]
      /\ real' \in [Ids -> Sizes] /\ declined' \in [Ids -> BOOLEAN]
      /\ queue' \in Seq(SdlEvents) /\ sent' \in 0 .. MaxEvents
      /\ phase' = phase /\ cut' = cut => \A u \in Ids : Told(u)'
  BY <1>1, <1>4, <1>5, <1>7, <1>8, AskedIsTold
<1>10. /\ \A u \in Ids : windows'[u].owned => windows'[u].open
       /\ \A u \in Ids : ~(windows'[u].open /\ windows'[u].new)
  BY <1>1, <1>4, <1>5 DEF IInv, Owners
<1>11. \A g \in Handles : Owner(g) \subseteq Owner(g)'
  BY <1>1, <1>5 DEF Owner
<1>12. Owner(h)' # {}
  BY <1>1, <1>4, <1>5 DEF Owner
<1>13. QED
  BY <1>9, <1>10, <1>11, <1>12

(* pincWindowComplete *)
LEMMA WindowCompleteInv == ASSUME IInv, NEW h \in Handles, WindowComplete(h) PROVE IInv'
<1> DEFINE size == RealSize(objects[h])
<1>1. /\ objects[h].kind = "incompleteWindow"
      /\ objects' = [objects EXCEPT ![h] = Complete]
      /\ titles' = titles - 1
      /\ UNCHANGED <<phase, cut, lost>>
  BY DEF WindowComplete
<1>2. objects \in [Handles -> Objects]
  BY DEF IInv, Typed
<1>3. size \in Sizes
  BY <1>2 DEF RealSize, Sizes, Objects
<1> HIDE DEF size
<1>4. /\ windows' \in [Ids -> WindowRecords]
      /\ real' \in [Ids -> Sizes] /\ declined' \in [Ids -> BOOLEAN]
      /\ queue' \in Seq(SdlEvents) /\ sent' \in 0 .. MaxEvents
      /\ \A u \in Ids : Told(u)'
      /\ \A u \in Ids : windows'[u].owned => windows'[u].open
      /\ \A u \in Ids : ~(windows'[u].open /\ windows'[u].new)
      /\ \A g \in Handles : Owner(g) \subseteq Owner(g)'
      /\ Owner(h)' # {}
  <2>1. CASE Spare
    <3>1. Reuse(h, size)
      BY <2>1 DEF WindowComplete, size
    <3>2. QED
      BY <1>1, <1>3, <2>1, <3>1, ReuseInv
  <2>2. CASE ~Spare
    <3>1. PICK w \in Ids : Open(w, h, size, TRUE)
      BY <2>2 DEF WindowComplete, size
    <3>2. queue' = queue /\ sent' = sent
      BY <3>1 DEF Open
    <3>3. queue' \in Seq(SdlEvents) /\ sent' \in 0 .. MaxEvents
      BY <3>2 DEF IInv, Typed
    <3>4. QED
      BY <1>1, <1>3, <3>1, <3>3, OpenInv
  <2>3. QED
    BY <2>1, <2>2
<1>5. Typed'
  BY <1>1, <1>4, ObjectTypes DEF IInv, Typed
<1>6. Owners'
  BY <1>1, <1>2, <1>4 DEF IInv, Owners
<1>7. Titles'
  <2>1. Complete.kind # "incompleteWindow"
    BY DEF Complete, NoObject
  <2>2. /\ Cardinality(Untold(objects')) = Cardinality(Untold(objects)) - 1
        /\ Cardinality(Untold(objects)) \in Nat
    BY <1>1, <1>2, <2>1, ObjectTypes, UntoldChanges
  <2>3. titles = lost + Cardinality(Untold(objects)) /\ lost \in Nat
    BY DEF IInv, Titles, Typed, Untold
  <2>4. titles' = lost' + Cardinality(Untold(objects'))
    BY <1>1, <2>2, <2>3
  <2>5. QED
    BY <2>4 DEF Titles, Untold
<1>8. QED
  BY <1>4, <1>5, <1>6, <1>7 DEF IInv

(* A context needs the dummy window. *)
LEMMA OpenDummyInv == ASSUME IInv, OpenDummy PROVE IInv'
<1>1. /\ Open(Dummy, Nobody, DefaultSize, FALSE)
      /\ UNCHANGED <<objects, phase, cut, titles, lost>>
  BY DEF OpenDummy
<1>2. Dummy \in Ids
  BY PincWindowPropsAssumption DEF Dummy, Ids
<1>3. queue' = queue /\ sent' = sent
  BY <1>1 DEF Open
<1>4. /\ windows' \in [Ids -> WindowRecords]
      /\ real' \in [Ids -> Sizes] /\ declined' \in [Ids -> BOOLEAN]
      /\ \A u \in Ids : Told(u)'
      /\ \A u \in Ids : windows'[u].owned => windows'[u].open
      /\ \A u \in Ids : ~(windows'[u].open /\ windows'[u].new)
      /\ \A g \in Handles : Owner(g) \subseteq Owner(g)'
  BY <1>1, <1>2, ObjectTypes, OpenInv
<1>5. Typed'
  BY <1>1, <1>3, <1>4 DEF IInv, Typed
<1>6. Owners'
  BY <1>1, <1>4 DEF IInv, Owners
<1>7. Titles'
  BY <1>1, SameTitles
<1>8. QED
  BY <1>4, <1>5, <1>6, <1>7 DEF IInv

(* pincWindowDeinit of an incomplete window, whose title is lost, *)
LEMMA DeinitIncompleteInv ==
  ASSUME IInv, NEW h \in Handles, WindowDeinit(h), objects[h].kind = "incompleteWindow"
  PROVE  IInv'
<1>1. /\ lost < MaxLost /\ lost' = lost + 1
      /\ objects' = [objects EXCEPT ![h] = NoObject]
      /\ UNCHANGED <<windows, real, declined, queue, sent, phase, cut, titles>>
  BY DEF WindowDeinit
<1>2. lost \in Nat /\ lost' \in 0 .. MaxLost
  BY <1>1, PincWindowPropsAssumption DEF IInv, Typed
<1>3. Typed'
  BY <1>1, <1>2, ObjectTypes DEF IInv, Typed
<1>4. objects \in [Handles -> Objects]
  BY DEF IInv, Typed
<1>5. Owners'
  BY <1>1, <1>4 DEF IInv, Owners, Owner, NoObject
<1>6. \A w \in Ids : Told(w)'
  BY <1>1 DEF IInv, Told, Agree
<1>7. Titles'
  <2>1. NoObject.kind # "incompleteWindow"
    BY DEF NoObject
  <2>2. /\ Cardinality(Untold(objects')) = Cardinality(Untold(objects)) - 1
        /\ Cardinality(Untold(objects)) \in Nat
    BY <1>1, <1>4, <2>1, ObjectTypes, UntoldChanges
  <2>3. titles = lost + Cardinality(Untold(objects))
    BY DEF IInv, Titles, Untold
  <2>4. titles' = lost' + Cardinality(Untold(objects'))
    BY <1>1, <1>2, <2>2, <2>3
  <2>5. QED
    BY <2>4 DEF Titles, Untold
<1>8. QED
  BY <1>3, <1>5, <1>6, <1>7 DEF IInv

(* and of a complete one. *)
LEMMA DeinitCompleteInv ==
  ASSUME IInv, NEW h \in Handles, WindowDeinit(h), objects[h].kind = "window"
  PROVE  IInv'
<1>1. PICK w \in Ids : /\ w = TheWindow(h) /\ windows[w].owned /\ windows[w].front = h
                       /\ windows[w].open /\ ~windows[w].new
  BY HasWindow
<1>2. /\ objects' = [objects EXCEPT ![h] = NoObject]
      /\ UNCHANGED <<queue, sent, phase, cut, titles, lost>>
  BY DEF WindowDeinit
<1>3. \/ /\ windows' = [windows EXCEPT ![w].owned = FALSE]
         /\ UNCHANGED <<real, declined>>
      \/ /\ windows' = [windows EXCEPT ![w] = Closed]
         /\ real' = [real EXCEPT ![w] = DefaultSize]
         /\ declined' = [declined EXCEPT ![w] = FALSE]
  BY <1>1 DEF WindowDeinit
<1>4. windows \in [Ids -> WindowRecords] /\ objects \in [Handles -> Objects]
  BY DEF IInv, Typed
<1>5. /\ windows' \in [Ids -> WindowRecords]
      /\ real' \in [Ids -> Sizes] /\ declined' \in [Ids -> BOOLEAN]
      /\ ~windows'[w].owned /\ ~windows'[w].new
      /\ \A u \in Ids \ {w} : windows'[u] = windows[u] /\ real'[u] = real[u] /\ declined'[u] = declined[u]
      /\ windows'[w].open => /\ windows'[w].size = windows[w].size /\ real'[w] = real[w]
                             /\ declined'[w] = declined[w]
  <2>1. CASE windows' = [windows EXCEPT ![w].owned = FALSE] /\ UNCHANGED <<real, declined>>
    BY <1>1, <1>4, <2>1 DEF WindowRecords, IInv, Typed
  <2>2. CASE /\ windows' = [windows EXCEPT ![w] = Closed]
             /\ real' = [real EXCEPT ![w] = DefaultSize]
             /\ declined' = [declined EXCEPT ![w] = FALSE]
    <3>1. Closed \in WindowRecords /\ ~Closed.owned /\ ~Closed.new /\ ~Closed.open
      BY ObjectTypes DEF Closed, Unmade, WindowRecords
    <3>2. QED
      BY <1>4, <2>2, <3>1, ObjectTypes DEF IInv, Typed
  <2>3. QED
    BY <1>3, <2>1, <2>2
<1>6. Typed'
  BY <1>2, <1>5, ObjectTypes DEF IInv, Typed
<1>7. Owners'
  <2>1. ASSUME NEW g \in Handles, objects'[g].kind = "window" PROVE Owner(g)' # {}
    <3>1. g # h /\ objects[g].kind = "window"
      BY <1>2, <1>4, <2>1 DEF NoObject
    <3>2. PICK u \in Ids : windows[u].owned /\ windows[u].front = g
      BY <3>1 DEF IInv, Owners, Owner
    <3>3. u # w
      BY <1>1, <3>1, <3>2
    <3>4. QED
      BY <1>5, <3>2, <3>3 DEF Owner
  <2>2. /\ \A u \in Ids : windows'[u].owned => windows'[u].open
        /\ \A u \in Ids : ~(windows'[u].open /\ windows'[u].new)
    BY <1>5 DEF IInv, Owners
  <2>3. QED
    BY <2>1, <2>2 DEF Owners
<1>8. ASSUME NEW u \in Ids PROVE Told(u)'
  <2>1. CASE u # w
    BY <1>2, <1>5, <2>1 DEF IInv, Told, Agree
  <2>2. CASE u = w
    BY <1>1, <1>2, <1>5, <2>2 DEF IInv, Told, Agree
  <2>3. QED
    BY <2>1, <2>2
<1>9. Titles'
  <2>1. objects[h].kind # "incompleteWindow" /\ NoObject.kind # "incompleteWindow"
    BY DEF NoObject
  <2>2. Untold(objects') = Untold(objects)
    BY <1>2, <1>4, <2>1, ObjectTypes, UntoldChanges
  <2>3. QED
    BY <1>2, <2>2 DEF IInv, Titles, Untold
<1>10. QED
  BY <1>6, <1>7, <1>8, <1>9 DEF IInv

-----------------------------------------------------------------------------
(* An event that tells nothing of a window is appended. *)
LEMMA AppendOther ==
  ASSUME NEW q \in Seq(SdlEvents), NEW e \in SdlEvents, NEW w \in Ids, ~Tells(e, w),
         NEW s \in Sizes
  PROVE  /\ Silent(Append(q, e), w) <=> Silent(q, w)
         /\ LastTells(q, w, s) => LastTells(Append(q, e), w, s)
<1>1. PICK m \in Nat : m = Len(q)
  OBVIOUS
<1>2. PICK b \in Seq(SdlEvents) :
        /\ b = Append(q, e) /\ Len(b) = m + 1 /\ b[m + 1] = e
        /\ \A i \in 1 .. m : b[i] = q[i]
  <2>1. /\ Append(q, e) \in Seq(SdlEvents) /\ Len(Append(q, e)) = Len(q) + 1
        /\ Append(q, e)[Len(q) + 1] = e
        /\ \A i \in 1 .. Len(q) : Append(q, e)[i] = q[i]
    BY AppendProperties
  <2> DEFINE b == Append(q, e)
  <2> HIDE DEF b
  <2>2. /\ b \in Seq(SdlEvents) /\ b = Append(q, e) /\ Len(b) = m + 1 /\ b[m + 1] = e
        /\ \A i \in 1 .. m : b[i] = q[i]
    BY <1>1, <2>1 DEF b
  <2>3. QED
    BY <2>2
<1>3. \A i \in 1 .. (m + 1) : i = m + 1 \/ i \in 1 .. m
  OBVIOUS
<1>4. Silent(b, w) <=> Silent(q, w)
  <2>1. \A i \in 1 .. m : i \in 1 .. (m + 1)
    OBVIOUS
  <2>2. QED
    BY <1>1, <1>2, <1>3, <2>1 DEF Silent
<1>5. ASSUME LastTells(q, w, s) PROVE LastTells(b, w, s)
  <2>1. SUFFICES ASSUME NEW i \in 1 .. (m + 1), Tells(b[i], w),
                        \A j \in (i + 1) .. (m + 1) : ~Tells(b[j], w)
                 PROVE  b[i].size = s
    BY <1>2 DEF LastTells
  <2>2. i \in 1 .. m
    BY <1>2, <1>3, <2>1
  <2>3. \A j \in (i + 1) .. m : j \in (i + 1) .. (m + 1) /\ j \in 1 .. m
    BY <2>2
  <2>4. QED
    BY <1>1, <1>2, <1>5, <2>1, <2>2, <2>3 DEF LastTells
<1>6. QED
  BY <1>2, <1>4, <1>5

(* The system changes a window's size. *)
LEMMA OsResizeInv == ASSUME IInv, NEW w \in Ids, NEW s \in Sizes, OsResize(w, s) PROVE IInv'
<1> DEFINE e == SizeEvent(w, s)
<1>1. /\ phase = "polling" /\ sent < MaxEvents
      /\ sent' = sent + 1 /\ queue' = Append(queue, e) /\ real' = [real EXCEPT ![w] = s]
      /\ UNCHANGED <<objects, windows, declined, phase, cut, titles, lost>>
  BY DEF OsResize
<1>2. e \in SdlEvents /\ Tells(e, w) /\ e.size = s
  BY DEF SizeEvent, SdlEvents, Tells
<1> HIDE DEF e
<1>3. queue \in Seq(SdlEvents) /\ queue' = queue \o <<e>>
  BY <1>1, <1>2, AppendIsConcat DEF IInv, Typed
<1>4. PICK a \in Seq(SdlEvents) : a = <<e>> /\ a # << >> /\ Len(a) = 1 /\ a[1] = e
  <2>1. /\ <<e>> \in Seq(SdlEvents) /\ <<e>> # << >> /\ Len(<<e>>) = 1
        /\ <<e>>[1] = e
    BY <1>2
  <2>2. QED
    BY <2>1
<1>5. \A i \in 1 .. Len(a) : Tells(a[i], w)
  BY <1>2, <1>4
<1>6. /\ queue' \in Seq(SdlEvents)
      /\ \A v \in Ids \ {w} : Silent(queue, v) <=> Silent(queue', v)
      /\ ~Silent(queue', w)
      /\ \A v \in Ids \ {w}, z \in Sizes : LastTells(queue, v, z) => LastTells(queue', v, z)
      /\ LastTells(queue', w, s)
  BY <1>2, <1>3, <1>4, <1>5, AppendEvents
<1>7. Typed'
  <2>1. sent' \in 0 .. MaxEvents
    BY <1>1, PincWindowPropsAssumption DEF IInv, Typed
  <2>2. QED
    BY <1>1, <1>6, <2>1 DEF IInv, Typed
<1>8. Owners'
  BY <1>1 DEF IInv, Owners, Owner
<1>9. ASSUME NEW v \in Ids PROVE Told(v)'
  <2>1. CASE v # w
    <3>1. real'[v] = real[v] /\ real[v] \in Sizes
      BY <1>1, <2>1 DEF IInv, Typed
    <3>2. QED
      BY <1>1, <1>6, <2>1, <3>1 DEF IInv, Told, Agree
  <2>2. CASE v = w
    <3>1. real'[w] = s
      BY <1>1 DEF IInv, Typed
    <3>2. windows[w].open /\ ~windows[w].new
      BY DEF OsResize, IInv, Owners
    <3>3. QED
      BY <1>1, <1>6, <2>2, <3>1, <3>2 DEF Told
  <2>3. QED
    BY <2>1, <2>2
<1>10. Titles'
  BY <1>1, SameTitles
<1>11. QED
  BY <1>7, <1>8, <1>9, <1>10 DEF IInv

(* An event comes that pincSdl2step will refuse. *)
LEMMA OsRefusedInv == ASSUME IInv, OsRefused PROVE IInv'
<1>1. /\ sent < MaxEvents /\ sent' = sent + 1 /\ queue' = Append(queue, RefusedEvent)
      /\ UNCHANGED <<objects, windows, real, declined, phase, cut, titles, lost>>
  BY DEF OsRefused
<1>2. RefusedEvent \in SdlEvents /\ \A w \in Ids : ~Tells(RefusedEvent, w)
  BY ObjectTypes, PincWindowPropsAssumption DEF RefusedEvent, SdlEvents, Tells, Dummy, Ids
<1>3. queue \in Seq(SdlEvents) /\ real \in [Ids -> Sizes]
  BY DEF IInv, Typed
<1>4. Typed'
  <2>1. sent' \in 0 .. MaxEvents
    BY <1>1, PincWindowPropsAssumption DEF IInv, Typed
  <2>2. QED
    BY <1>1, <1>2, <2>1 DEF IInv, Typed
<1>5. Owners'
  BY <1>1 DEF IInv, Owners, Owner
<1>6. ASSUME NEW w \in Ids PROVE Told(w)'
  <2>1. /\ Silent(queue', w) <=> Silent(queue, w)
        /\ LastTells(queue, w, real[w]) => LastTells(queue', w, real[w])
    BY <1>1, <1>2, <1>3, AppendOther
  <2>2. QED
    BY <1>1, <2>1 DEF IInv, Told, Agree
<1>7. Titles'
  BY <1>1, SameTitles
<1>8. QED
  BY <1>4, <1>5, <1>6, <1>7 DEF IInv

(* A new size is polled. *)
LEMMA PollSizeInv == ASSUME IInv, PollSize PROVE IInv'
<1> DEFINE e == Head(queue)
<1>1. queue \in Seq(SdlEvents) /\ queue # << >> /\ ~Refused(e) /\ phase = "polling"
  BY DEF PollSize, IInv, Typed
<1>2. e \in SdlEvents /\ Tail(queue) \in Seq(SdlEvents)
  BY <1>1, HeadTailProperties
<1>3. PICK w \in Ids : w = e.window
  BY <1>2 DEF SdlEvents
<1>4. /\ queue' = Tail(queue)
      /\ windows' = [windows EXCEPT ![w].size = e.size]
      /\ declined' = [declined EXCEPT ![w] = FALSE]
      /\ UNCHANGED <<objects, real, sent, phase, cut, titles, lost>>
  BY <1>3 DEF PollSize
<1>5. Tells(e, w) /\ windows[w].open /\ e.size \in Sizes
  BY <1>1, <1>2, <1>3 DEF Refused, SdlEvents, Tells
<1>6. \A v \in Ids \ {w} : ~Tells(e, v)
  BY <1>3 DEF Tells
<1>7. /\ windows' \in [Ids -> WindowRecords] /\ declined' \in [Ids -> BOOLEAN]
      /\ windows'[w].size = e.size /\ declined'[w] = FALSE
      /\ \A v \in Ids : /\ windows'[v].owned = windows[v].owned /\ windows'[v].open = windows[v].open
                        /\ windows'[v].new = windows[v].new /\ windows'[v].front = windows[v].front
      /\ \A v \in Ids \ {w} : windows'[v] = windows[v] /\ declined'[v] = declined[v]
  <2>1. windows \in [Ids -> WindowRecords] /\ declined \in [Ids -> BOOLEAN]
    BY DEF IInv, Typed
  <2>2. windows' = [windows EXCEPT ![w] = [windows[w] EXCEPT !.size = e.size]]
    BY <1>4
  <2>3. QED
    BY <1>4, <1>5, <2>1, <2>2 DEF WindowRecords
<1>8. Typed'
  BY <1>2, <1>4, <1>7 DEF IInv, Typed
<1>9. Owners'
  BY <1>4, <1>7 DEF IInv, Owners, Owner
<1>10. ASSUME NEW v \in Ids PROVE Told(v)'
  <2>1. real[v] \in Sizes /\ Told(v)
    BY DEF IInv, Typed
  <2>2. /\ Silent(queue, v) => Silent(queue', v)
        /\ LastTells(queue, v, real[v]) => LastTells(queue', v, real[v])
        /\ Silent(queue', v) => Silent(queue, v) \/ Tells(e, v)
        /\ Silent(queue', v) /\ Tells(e, v) /\ LastTells(queue, v, real[v]) => e.size = real[v]
    BY <1>1, <1>4, <2>1, TailEvents
  <2>3. CASE v # w
    BY <1>1, <1>4, <1>6, <1>7, <2>1, <2>2, <2>3 DEF Told, Agree
  <2>4. CASE v = w
    BY <1>1, <1>4, <1>5, <1>7, <2>1, <2>2, <2>4 DEF Told, Agree
  <2>5. QED
    BY <2>3, <2>4
<1>11. Titles'
  BY <1>4, SameTitles
<1>12. QED
  BY <1>8, <1>9, <1>10, <1>11 DEF IInv

(* A refused event cuts the step short. *)
LEMMA PollRefusedInv == ASSUME IInv, PollRefused PROVE IInv'
<1> DEFINE e == Head(queue)
<1>1. queue \in Seq(SdlEvents) /\ queue # << >> /\ Refused(e)
  BY DEF PollRefused, IInv, Typed
<1>2. /\ queue' = Tail(queue) /\ phase' = "idle" /\ cut' = TRUE
      /\ UNCHANGED <<objects, windows, real, declined, sent, titles, lost>>
  BY DEF PollRefused
<1>3. e \in SdlEvents /\ queue' \in Seq(SdlEvents)
  BY <1>1, <1>2, HeadTailProperties
<1>4. Typed'
  BY <1>2, <1>3 DEF IInv, Typed
<1>5. Owners'
  BY <1>2 DEF IInv, Owners, Owner
<1>6. ASSUME NEW w \in Ids PROVE Told(w)'
  <2>1. real[w] \in Sizes /\ Told(w)
    BY DEF IInv, Typed
  <2>2. /\ Silent(queue, w) => Silent(queue', w)
        /\ LastTells(queue, w, real[w]) => LastTells(queue', w, real[w])
        /\ Silent(queue', w) => Silent(queue, w) \/ Tells(e, w)
    BY <1>1, <1>2, <2>1, TailEvents
  <2>3. windows[w].open => ~Tells(e, w)
    BY <1>1 DEF Refused, Tells
  <2>4. QED
    BY <1>2, <2>1, <2>2, <2>3 DEF Told, Agree
<1>7. Titles'
  BY <1>2, SameTitles
<1>8. QED
  BY <1>4, <1>5, <1>6, <1>7 DEF IInv

(* pincStep begins, or ends on the empty queue. *)
LEMMA StepInv == ASSUME IInv, StepBegin \/ StepEnd PROVE IInv'
<1>1. UNCHANGED <<objects, windows, real, declined, queue, sent, titles, lost>>
  BY DEF StepBegin, StepEnd
<1>2. Typed'
  BY <1>1 DEF IInv, Typed, StepBegin, StepEnd
<1>3. Owners'
  BY <1>1 DEF IInv, Owners, Owner
<1>4. ASSUME NEW w \in Ids PROVE Told(w)'
  <2>1. Told(w)
    BY DEF IInv
  <2>2. CASE StepBegin
    BY <1>1, <2>1, <2>2 DEF StepBegin, Told, Agree
  <2>3. CASE StepEnd
    <3>1. Silent(queue, w)
      BY <2>3 DEF StepEnd, Silent
    <3>2. QED
      BY <1>1, <2>1, <2>3, <3>1 DEF StepEnd, Told, Agree
  <2>4. QED
    BY <2>2, <2>3
<1>5. Titles'
  BY <1>1, SameTitles
<1>6. QED
  BY <1>2, <1>3, <1>4, <1>5 DEF IInv

-----------------------------------------------------------------------------
(* Every step keeps the invariant. *)
LEMMA NextInv == ASSUME IInv, [Next]_vars PROVE IInv'
<1>1. CASE \E h \in Handles : CreateIncomplete(h) \/ WindowComplete(h)
  BY <1>1, CreateIncompleteInv, WindowCompleteInv
<1>2. CASE \E h \in Handles : WindowDeinit(h)
  <2>1. PICK h \in Handles : WindowDeinit(h)
    BY <1>2
  <2>2. objects[h].kind = "incompleteWindow" \/ objects[h].kind = "window"
    BY <2>1 DEF WindowDeinit
  <2>3. QED
    BY <2>1, <2>2, DeinitIncompleteInv, DeinitCompleteInv
<1>3. CASE \E h \in Handles, i \in 1 .. 2, v \in Lengths :
             SetLengthIncomplete(h, i, v) \/ SetLength(h, i, v)
  BY <1>3, SetLengthIncompleteInv, SetLengthInv
<1>4. CASE OpenDummy
  BY <1>4, OpenDummyInv
<1>5. CASE StepBegin \/ StepEnd
  BY <1>5, StepInv
<1>6. CASE OsRefused \/ PollSize \/ PollRefused
  BY <1>6, OsRefusedInv, PollSizeInv, PollRefusedInv
<1>7. CASE \E w \in Ids, s \in Sizes : OsResize(w, s)
  BY <1>7, OsResizeInv
<1>8. CASE UNCHANGED vars
  BY <1>8 DEF vars, IInv, Typed, Owners, Owner, Told, Agree, Titles
<1>9. QED
  BY <1>1, <1>2, <1>3, <1>4, <1>5, <1>6, <1>7, <1>8 DEF Next

(* The invariant holds in every state. *)
THEOREM WindowPropsInvariant == Spec => []IInv
<1>1. IInv /\ [Next]_vars => IInv'
  BY NextInv
<1>2. QED
  BY InitInv, <1>1, PTL DEF Spec

(* The assertion of pincSdl2getWindowWidth can fail only after SDL did not *)
(* take the size asked for, or after a step that was cut short, however    *)
(* many windows and events there are.                                      *)
THEOREM RememberedSizesAreSdls == Spec => []SizesAgree
<1>1. IInv => SizesAgree
  BY DEF IInv, Owners, Told, Agree, SizesAgree
<1>2. QED
  BY WindowPropsInvariant, <1>1, PTL

(* No title is freed twice or kept: completing a window frees its title on *)
(* both ways, and only destroying an incomplete window loses one.          *)
THEOREM TitlesAreAccounted == Spec => []TitlesAccounted
<1>1. IInv => TitlesAccounted
  BY DEF IInv, Titles, TitlesAccounted
<1>2. QED
  BY WindowPropsInvariant, <1>1, PTL

(* Every variable keeps its type. *)
THEOREM TypeCorrect == Spec => []TypeOK
<1>1. IInv => TypeOK
  <2>1. SUFFICES ASSUME IInv PROVE TypeOK
    OBVIOUS
  <2>2. Untold(objects) \in SUBSET Handles
    BY DEF Untold
  <2>3. Cardinality(Untold(objects)) \in Nat
    BY <2>2, FS_Subset, FS_CardinalityType, PincWindowPropsAssumption
  <2>4. titles = lost + Cardinality(Untold(objects)) /\ lost \in Nat
    BY <2>1 DEF IInv, Titles, Typed, Untold
  <2>5. titles \in Nat
    BY <2>3, <2>4
  <2>6. QED
    BY <2>1, <2>5 DEF IInv, Typed, TypeOK, Objects, WindowRecords
<1>2. QED
  BY WindowPropsInvariant, <1>1, PTL
=============================================================================
