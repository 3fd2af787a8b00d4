------------------------ MODULE PincLifecycleProofs -------------------------
(***************************************************************************)
(* Proofs about PincLifecycle, for every number of initialisations, and    *)
(* about PincFormats, for every set of pixel formats, number of modes and  *)
(* room of the list.                                                       *)
(***************************************************************************)
EXTENDS PincLifecycle, PincFormats, Integers, FiniteSetTheorems, WellFoundedInduction, TLAPS

(* What a call that reports an error leaves alone. *)
SameButError(s, t) ==
  /\ t.initState = s.initState /\ t.alloc = s.alloc /\ t.log = s.log
  /\ t.onError = s.onError /\ t.root = s.root /\ t.arena = s.arena
  /\ t.sdl2 = s.sdl2 /\ t.backend = s.backend /\ t.formats = s.formats
  /\ t.format = s.format /\ t.dummy = s.dummy /\ t.blocks = s.blocks
  /\ t.lost = s.lost

(* What every program finds, whatever the order of its calls: the state    *)
(* claims what is live, the arena and the backend's struct are of one      *)
(* initialisation, the backend in use is of an earlier one only if that    *)
(* was lost, and so is all memory that nobody owns.                        *)
OneInit(s) ==
  /\ s.arena = s.sdl2
  /\ s.backend \in {NoId, s.sdl2} \/ "reinit" \in s.lost

OwnedIn(s, b) ==
  \/ b.kind = "arena" /\ b.id = s.arena
  \/ b.kind = "backend" /\ b.id \in {s.sdl2, s.backend}
  \/ b.kind = "objects" /\ s.root # "none"

Accounted(s) ==
  \A b \in s.blocks :
    \/ OwnedIn(s, b)
    \/ b.kind = "arena" /\ "reinit" \in s.lost
    \/ b.kind = "backend" /\ s.lost # {}

Sound(s) ==
  /\ s \in StaticStates
  /\ ~s.crash => ValidFor(s, s.initState) /\ OneInit(s) /\ Accounted(s)

(* What a program that keeps to the documented order finds: nothing done   *)
(* and no error before the initialisation, no formats before its end, and  *)
(* the allocation callback it had set then.                                *)
Fine(s) ==
  /\ s.root = "none" => s.initState = "preinit" /\ s.error = NoError
  /\ s.root = "user" => s.alloc
  /\ s.initState = "preinit" => ~s.formats

FormatHandles == {"default", "valid", "invalid"}

(* What such a program sees of a call that leads from s to t.              *)
Expected(name, s, t) ==
  /\ ~t.crash =>
       /\ Fine(t)
       /\ t.told \subseteq {"external"} \/ KnownError(name, s, t)
       /\ RecoverableError(t, s) /\ name \notin {"pincStep", "pincOpenglCompleteContext"} =>
            \/ SameButError(s, t)
            \/ name = "pincInitComplete" /\ s.initState = "preinit"
  /\ t.crash => KnownCrash(name, t)

LifecycleInv ==
  /\ TypeOK
  /\ Sound(st)
  /\ legal /\ ~st.crash => Fine(st)
  /\ LegalCrashesAreKnown

(* Of the initialisations that own nothing the first is the next one.      *)
LEMMA FreshIdExists ==
  ASSUME NEW s, FreshIds(s) # {}
  PROVE  FreshId(s) \in FreshIds(s) /\ FreshId(s) \in Ids
<1> DEFINE S == FreshIds(s)
           R == {r \in Nat \X Nat : r[1] < r[2]}
<1>1. IsWellFoundedOn(R, Nat)
  BY NatLessThanWellFounded DEF OpToRel
<1>2. S \subseteq Ids /\ S \subseteq Nat /\ S # {}
  BY PincLifecycleAssumption DEF FreshIds, Ids
<1>3. PICK x \in S : \A y \in S : ~ (<<y, x>> \in R)
  <2> HIDE DEF R, S
  <2> QED
    BY <1>1, <1>2, WFMin
<1>4. ASSUME NEW y \in S PROVE x <= y
  <2>1. x \in Nat /\ y \in Nat /\ <<y, x>> \notin R
    BY <1>2, <1>3
  <2>2. <<y, x>> \in Nat \X Nat /\ <<y, x>>[1] = y /\ <<y, x>>[2] = x
    BY <2>1
  <2>3. ~ (y < x)
    BY <2>1, <2>2
  <2>4. QED
    BY <2>1, <2>3
<1>5. QED
  BY <1>2, <1>4 DEF FreshId

(* A crash changes nothing else.                                           *)
LEMMA CrashedProperties ==
  ASSUME NEW s \in StaticStates
  PROVE  Crashed(s) \in StaticStates /\ Crashed(s).crash /\ SameButError(s, Crashed(s))
BY DEF Crashed, StaticStates, SameButError

(* pincLogDirect crashes or does nothing, and never crashes a program      *)
(* that has a root allocator and its log callback.                         *)
LEMMA LogProperties ==
  ASSUME NEW s \in StaticStates
  PROVE  /\ Log(s) \in StaticStates
         /\ Log(s) = s \/ (Log(s) = Crashed(s) /\ s.alloc /\ (s.root = "none" \/ ~s.log))
         /\ SameButError(s, Log(s))
         /\ s.crash => Log(s).crash
<1>1. Log(s) = s \/ (Log(s) = Crashed(s) /\ s.alloc /\ (s.root = "none" \/ ~s.log))
  BY DEF Log
<1>2. SameButError(s, s)
  BY DEF SameButError
<1>3. QED
  BY <1>1, <1>2, CrashedProperties

(* What recording an error changes, and no more.                           *)
LEMMA ReportedProperties ==
  ASSUME NEW s \in StaticStates, NEW code \in Codes, NEW recoverable \in BOOLEAN
  PROVE  /\ Reported(s, code, recoverable) \in StaticStates
         /\ SameButError(s, Reported(s, code, recoverable))
         /\ Reported(s, code, recoverable).crash = s.crash
         /\ Reported(s, code, recoverable).error = Error(code, recoverable)
         /\ Reported(s, code, recoverable).told = s.told \cup {code}
<1> DEFINE t == Reported(s, code, recoverable)
           e == Error(code, recoverable)
           told == s.told \cup {code}
<1>1. e \in [code : Codes, recoverable : BOOLEAN] /\ told \in SUBSET Codes
  BY DEF Error, StaticStates
<1>2. t = [s EXCEPT !.error = e, !.told = told]
  BY DEF Reported, StaticStates
<1> HIDE DEF e, told, t
<1>3. /\ t \in StaticStates /\ SameButError(s, t) /\ t.crash = s.crash
      /\ t.error = e /\ t.told = told
  BY <1>1, <1>2 DEF StaticStates, SameButError
<1>4. QED
  BY <1>3 DEF e, told, t

(* pincInternalCallError records the error or crashes.                     *)
LEMMA FailProperties ==
  ASSUME NEW s \in StaticStates, NEW code \in Codes, NEW recoverable \in BOOLEAN
  PROVE  /\ Fail(s, code, recoverable) \in StaticStates
         /\ SameButError(s, Fail(s, code, recoverable))
         /\ s.crash => Fail(s, code, recoverable).crash
         /\ s.root # "none" /\ ~s.crash =>
              Fail(s, code, recoverable) = Reported(s, code, recoverable)
         /\ ~Fail(s, code, recoverable).crash =>
              Fail(s, code, recoverable).error.code \in {code, "user"}
<1> DEFINE t == Fail(s, code, recoverable)
           c == IF s.root = "none" THEN "user" ELSE code
           u == Reported(s, c, recoverable)
<1>1. t = Crashed(s) \/ t = u
  BY DEF Fail
<1>2. c \in Codes /\ c \in {code, "user"}
  BY DEF Codes
<1>3. s.crash => t = Crashed(s)
  BY DEF Fail
<1>4. s.root # "none" /\ ~s.crash => t = Reported(s, code, recoverable)
  BY DEF Fail
<1> HIDE DEF t, c
<1>5. u \in StaticStates /\ SameButError(s, u) /\ u.error = Error(c, recoverable)
  BY <1>2, ReportedProperties
<1> HIDE DEF u
<1>6. Crashed(s) \in StaticStates /\ Crashed(s).crash /\ SameButError(s, Crashed(s))
  BY CrashedProperties
<1>7. t \in StaticStates /\ SameButError(s, t) /\ (s.crash => t.crash)
  BY <1>1, <1>3, <1>5, <1>6
<1>8. ~t.crash => t.error.code \in {code, "user"}
  BY <1>1, <1>2, <1>5, <1>6 DEF Error
<1>9. QED
  BY <1>4, <1>7, <1>8 DEF t

(* PincValidateForState changes nothing but the error, and nothing at all  *)
(* in a call made in the state it is for.                                  *)
LEMMA ValidateProperties ==
  ASSUME NEW s \in StaticStates, NEW state \in States
  PROVE  /\ Validate(s, state) \in StaticStates
         /\ SameButError(s, Validate(s, state))
         /\ s.crash => Validate(s, state).crash
         /\ s.initState = state /\ ValidFor(s, state) => Validate(s, state) = s
         /\ ~Validate(s, state).crash /\ Validate(s, state).error.code = "pass" =>
              s.initState = state /\ ValidFor(s, state)
         /\ s.root # "none" /\ ~s.crash /\ ValidFor(s, state) =>
              \/ Validate(s, state) = s
              \/ s.initState # state /\ Validate(s, state) = Reported(s, "assert", TRUE)
         /\ s.root # "none" /\ ~s.crash =>
              /\ Validate(s, state).crash => s.alloc /\ ~s.log
              /\ Validate(s, state).told \subseteq s.told \cup {"assert"}
<1> DEFINE called == IF s.initState = state THEN s ELSE Fail(s, "assert", TRUE)
           t == Validate(s, state)
<1>1. /\ called \in StaticStates /\ SameButError(s, called) /\ (s.crash => called.crash)
      /\ s.initState # state /\ ~called.crash => called.error.code # "pass"
      /\ s.root # "none" /\ ~s.crash =>
           called = s \/ (s.initState # state /\ called = Reported(s, "assert", TRUE))
  <2>1. SameButError(s, s)
    BY DEF SameButError
  <2>2. "assert" \in Codes
    BY DEF Codes
  <2>3. QED
    BY <2>1, <2>2, FailProperties
<1>2. t = IF ValidFor(s, state) THEN called ELSE Fail(Log(called), "assert", FALSE)
  BY DEF Validate
<1>3. s.initState = state /\ ValidFor(s, state) => t = s
  BY DEF Validate
<1> HIDE DEF called
<1>7. s.root # "none" /\ ~s.crash =>
        /\ called.root # "none" /\ ~called.crash /\ called.told \subseteq s.told \cup {"assert"}
        /\ called.alloc = s.alloc /\ called.log = s.log
  <2>1. LET u == Reported(s, "assert", TRUE)
        IN  u.crash = s.crash /\ u.told = s.told \cup {"assert"}
    BY ReportedProperties DEF Codes
  <2>2. QED
    BY <1>1, <2>1 DEF SameButError
<1>4. CASE ValidFor(s, state)
  BY <1>1, <1>2, <1>3, <1>4, <1>7
<1>5. CASE ~ValidFor(s, state)
  <2>1. /\ Log(called) \in StaticStates /\ SameButError(called, Log(called))
        /\ (called.crash => Log(called).crash)
    BY <1>1, LogProperties
  <2>2. /\ t \in StaticStates /\ SameButError(Log(called), t) /\ (Log(called).crash => t.crash)
        /\ ~t.crash => t.error.code \in {"assert", "user"}
    BY <1>2, <1>5, <2>1, FailProperties DEF Codes
  <2>3. SameButError(s, t)
    BY <1>1, <2>1, <2>2 DEF SameButError
  <2>4. ASSUME s.root # "none", ~s.crash
        PROVE  (t.crash => s.alloc /\ ~s.log) /\ t.told \subseteq s.told \cup {"assert"}
    <3> DEFINE l == Log(called)
    <3>1. /\ called.root # "none" /\ ~called.crash
          /\ called.told \subseteq s.told \cup {"assert"}
          /\ called.alloc = s.alloc /\ called.log = s.log
      BY <1>7, <2>4
    <3>2. CASE l = called
      <4>0. t = Fail(called, "assert", FALSE)
        BY <1>2, <1>5, <3>2
      <4>1. t = Reported(called, "assert", FALSE)
        <5>1. Fail(called, "assert", FALSE) = Reported(called, "assert", FALSE)
          BY <1>1, <3>1, FailProperties DEF Codes
        <5>2. QED
          BY <4>0, <5>1
      <4>2. t.crash = called.crash /\ t.told = called.told \cup {"assert"}
        BY <1>1, <4>1, ReportedProperties DEF Codes
      <4>3. QED
        BY <3>1, <4>2
    <3>3. CASE l = Crashed(called) /\ called.alloc /\ ~called.log
      <4>1. l.crash /\ l.told = called.told
        BY <1>1, <3>3 DEF Crashed, StaticStates
      <4>2. t = Crashed(l)
        BY <1>2, <1>5, <4>1 DEF Fail
      <4>3. t.told = l.told
        BY <2>1, <4>2 DEF Crashed, StaticStates
      <4>4. QED
        BY <3>1, <3>3, <4>1, <4>3
    <3>4. QED
      BY <1>1, <3>1, <3>2, <3>3, LogProperties
  <2> HIDE DEF t
  <2>5. QED
    BY <1>1, <1>5, <2>1, <2>2, <2>3, <2>4 DEF t
<1>6. QED
  BY <1>4, <1>5

(* Recording an error, or crashing, keeps a sound state sound.             *)
LEMMA SoundSame ==
  ASSUME NEW s, Sound(s), NEW t \in StaticStates, SameButError(s, t), s.crash => t.crash
  PROVE  Sound(t)
BY DEF Sound, SameButError, ValidFor, OneInit, Accounted, OwnedIn

(* What the allocations of pincInitIncomplete leave, and what they lose.   *)
LEMMA AllocatedProperties ==
  ASSUME NEW s \in StaticStates, FreshIds(s) # {},
         NEW t, t = Allocated(s)
  PROVE  /\ t \in StaticStates
         /\ t.initState = s.initState /\ t.alloc = s.alloc /\ t.log = s.log
         /\ t.onError = s.onError /\ t.formats = s.formats
         /\ t.backend = s.backend /\ t.format = s.format /\ t.dummy = s.dummy
         /\ t.error = s.error /\ t.told = s.told /\ t.crash = s.crash
         /\ t.root = (IF s.alloc THEN "user" ELSE "platform") /\ t.root \in Allocators
         /\ t.arena \in Ids /\ t.sdl2 = t.arena
         /\ \A b \in t.blocks : b \in s.blocks \/ b.id = t.arena
         /\ t.lost = IF s.arena = NoId THEN s.lost ELSE s.lost \cup {"reinit"}
<1> DEFINE root == IF s.alloc THEN "user" ELSE "platform"
           id == FreshId(s)
           made == {[kind |-> k, id |-> id, by |-> root] : k \in {"arena", "backend"}}
           lost == IF s.arena = NoId THEN s.lost ELSE s.lost \cup {"reinit"}
<1>1. id \in Ids /\ root \in Allocators
  BY FreshIdExists DEF Allocators
<1>2. made \subseteq Blocks /\ \A b \in made : b.id = id
  BY <1>1 DEF Blocks
<1>3. /\ lost \in SUBSET Causes /\ s.blocks \cup made \in SUBSET Blocks
      /\ root \in Allocators \cup {"none"} /\ id \in Ids \cup {NoId}
  BY <1>1, <1>2 DEF StaticStates, Causes
<1>4. t = [s EXCEPT !.root = root, !.arena = id, !.sdl2 = id,
                    !.blocks = s.blocks \cup made, !.lost = lost]
  BY DEF Allocated, StaticStates
<1> HIDE DEF root, id, made, lost
<1>5. /\ t \in StaticStates
      /\ t.initState = s.initState /\ t.alloc = s.alloc /\ t.log = s.log
      /\ t.onError = s.onError /\ t.formats = s.formats
      /\ t.backend = s.backend /\ t.format = s.format /\ t.dummy = s.dummy
      /\ t.error = s.error /\ t.told = s.told /\ t.crash = s.crash
      /\ t.root = root /\ t.arena = id /\ t.sdl2 = id
      /\ t.blocks = s.blocks \cup made /\ t.lost = lost
  BY <1>3, <1>4 DEF StaticStates
<1>6. QED
  BY <1>1, <1>2, <1>5 DEF root, lost

(* Formats become objects, which are owned while there is an allocator.    *)
LEMMA ReadyProperties ==
  ASSUME NEW s \in StaticStates, NEW system, s.root \in Allocators, s.arena \in Ids,
         NEW t, t = Ready(s, system)
  PROVE  /\ t \in StaticStates
         /\ t.initState = "incomplete" /\ t.alloc = s.alloc /\ t.log = s.log
         /\ t.root = s.root /\ t.arena = s.arena /\ t.sdl2 = s.sdl2
         /\ t.backend = s.backend /\ t.format = s.format /\ t.dummy = s.dummy
         /\ t.error = s.error /\ t.told = s.told /\ t.crash = s.crash /\ t.lost = s.lost
         /\ \A b \in t.blocks : b \in s.blocks \/ b.kind = "objects"
<1> DEFINE pool == {[kind |-> "objects", id |-> s.arena, by |-> s.root]}
           blocks == IF system = "formats" /\ ~s.formats THEN s.blocks \cup pool ELSE s.blocks
           known == s.formats \/ system = "formats"
<1>1. pool \subseteq Blocks /\ \A b \in pool : b.kind = "objects"
  BY DEF Blocks
<1>2. blocks \in SUBSET Blocks /\ known \in BOOLEAN /\ "incomplete" \in States
  BY <1>1 DEF StaticStates, States
<1>3. \A b \in blocks : b \in s.blocks \/ b.kind = "objects"
  BY <1>1
<1>4. t = [s EXCEPT !.initState = "incomplete", !.formats = known, !.blocks = blocks]
  BY DEF Ready, StaticStates
<1> HIDE DEF pool, blocks, known
<1>5. t \in StaticStates
  <2> DEFINE u == [s EXCEPT !.initState = "incomplete"]
             v == [u EXCEPT !.formats = known]
  <2>1. u \in StaticStates
    BY <1>2 DEF StaticStates
  <2>2. v \in StaticStates
    <3> HIDE DEF u
    <3> QED
      BY <1>2, <2>1 DEF StaticStates
  <2>3. [v EXCEPT !.blocks = blocks] \in StaticStates
    <3> HIDE DEF v
    <3> QED
      BY <1>2, <2>2 DEF StaticStates
  <2>4. t = [v EXCEPT !.blocks = blocks]
    BY <1>4
  <2>5. QED
    BY <2>3, <2>4
<1>6. /\ t.initState = "incomplete" /\ t.alloc = s.alloc /\ t.log = s.log
      /\ t.root = s.root /\ t.arena = s.arena /\ t.sdl2 = s.sdl2
      /\ t.backend = s.backend /\ t.format = s.format /\ t.dummy = s.dummy
      /\ t.error = s.error /\ t.told = s.told /\ t.crash = s.crash /\ t.lost = s.lost
      /\ t.blocks = blocks
  BY <1>4 DEF StaticStates
<1>7. QED
  BY <1>3, <1>5, <1>6

(* pincInitIncomplete, called in any state.                                *)
LEMMA InitIncompleteProperties ==
  ASSUME NEW s \in StaticStates, ~s.crash, NEW system \in Systems, FreshIds(s) # {},
         NEW t, t = InitIncomplete(s, system)
  PROVE  /\ t \in StaticStates
         /\ t.alloc = s.alloc /\ t.log = s.log
         /\ ~t.crash =>
              /\ t.root = (IF s.alloc THEN "user" ELSE "platform")
              /\ t.arena \in Ids /\ t.sdl2 = t.arena
              /\ t.backend = s.backend /\ t.format = s.format /\ t.dummy = s.dummy
              /\ t.initState \in {s.initState, "incomplete"}
              /\ \A b \in t.blocks :
                   b \in s.blocks \/ b.kind = "objects" \/ b.id = t.arena
              /\ t.lost = IF s.arena = NoId THEN s.lost ELSE s.lost \cup {"reinit"}
         /\ s.initState = "preinit" =>
              /\ t.crash => s.alloc /\ ~s.log
              /\ ~t.crash =>
                   \/ t.error = s.error /\ t.told = s.told /\ t.initState = "incomplete"
                   \/ /\ t.error = Error("external", FALSE) /\ t.told = s.told \cup {"external"}
                      /\ t.initState = "preinit" => t.formats = s.formats
<1> DEFINE v == Validate(s, "preinit")
           a == Allocated(v)
           l == Log(a)
           r == Ready(l, system)
           f == Fail(l, "external", FALSE)
           g == Fail(r, "external", FALSE)
<1>1. t = IF v.crash THEN v ELSE IF l.crash THEN l
          ELSE IF system = "noLibrary" THEN f ELSE IF system = "noQuery" THEN g ELSE r
  <2> HIDE DEF v, a, l, r, f, g
  <2>1. t = CASE v.crash -> v
              [] ~v.crash /\ l.crash -> l
              [] ~v.crash /\ ~l.crash /\ system = "noLibrary" -> f
              [] ~v.crash /\ ~l.crash /\ system = "noQuery" -> g
              [] ~v.crash /\ ~l.crash /\ system \in {"noDisplays", "formats"} -> r
    BY Zenon DEF InitIncomplete, v, a, l, r, f, g
  <2>2. QED
    BY <2>1 DEF Systems
<1>2. /\ v \in StaticStates /\ SameButError(s, v)
      /\ s.initState = "preinit" => v = s
  BY ValidateProperties DEF States, ValidFor
<1>3. FreshIds(v) # {}
  BY <1>2 DEF FreshIds, SameButError
<1> HIDE DEF v
<1>4. /\ a \in StaticStates
      /\ a.initState = v.initState /\ a.alloc = v.alloc /\ a.log = v.log
      /\ a.backend = v.backend /\ a.format = v.format /\ a.dummy = v.dummy
      /\ a.error = v.error /\ a.told = v.told /\ a.formats = v.formats /\ a.crash = v.crash
      /\ a.root = (IF v.alloc THEN "user" ELSE "platform") /\ a.root \in Allocators
      /\ a.arena \in Ids /\ a.sdl2 = a.arena
      /\ \A b \in a.blocks : b \in v.blocks \/ b.id = a.arena
      /\ a.lost = IF v.arena = NoId THEN v.lost ELSE v.lost \cup {"reinit"}
  BY <1>2, <1>3, AllocatedProperties
<1> HIDE DEF a
<1>5. /\ l \in StaticStates /\ SameButError(a, l)
      /\ l = a \/ (l.crash /\ a.alloc /\ ~a.log)
  BY <1>4, LogProperties, CrashedProperties DEF Allocators
<1> HIDE DEF l
<1>6. CASE v.crash
  BY <1>1, <1>2, <1>6 DEF SameButError
<1>7. CASE ~v.crash /\ l.crash
  BY <1>1, <1>2, <1>4, <1>5, <1>7 DEF SameButError
<1>8. CASE ~v.crash /\ ~l.crash
  <2>1. l = a
    BY <1>5, <1>8
  <2>2. /\ r \in StaticStates
        /\ r.initState = "incomplete" /\ r.alloc = l.alloc /\ r.log = l.log
        /\ r.root = l.root /\ r.arena = l.arena /\ r.sdl2 = l.sdl2
        /\ r.backend = l.backend /\ r.format = l.format /\ r.dummy = l.dummy
        /\ r.error = l.error /\ r.told = l.told /\ r.crash = l.crash /\ r.lost = l.lost
        /\ \A b \in r.blocks : b \in l.blocks \/ b.kind = "objects"
    BY <1>4, <1>5, <2>1, ReadyProperties
  <2> HIDE DEF r
  <2>3. l.root # "none" /\ r.root # "none" /\ ~r.crash
    BY <1>4, <1>8, <2>1, <2>2 DEF Allocators
  <2>4. /\ f \in StaticStates /\ SameButError(l, f)
        /\ f = Reported(l, "external", FALSE)
        /\ g \in StaticStates /\ SameButError(r, g)
        /\ g = Reported(r, "external", FALSE)
    BY <1>5, <1>8, <2>2, <2>3, FailProperties DEF Codes
  <2> HIDE DEF f, g
  <2>5. /\ f.error = Error("external", FALSE) /\ ~f.crash /\ f.told = l.told \cup {"external"}
        /\ g.error = Error("external", FALSE) /\ ~g.crash /\ g.told = r.told \cup {"external"}
    BY <1>5, <1>8, <2>2, <2>3, <2>4, ReportedProperties DEF Codes
  <2>6. t = f \/ t = g \/ t = r
    BY <1>1, <1>8
  <2>7. /\ t \in StaticStates /\ ~t.crash /\ t.alloc = a.alloc /\ t.log = a.log
        /\ t.root = a.root /\ t.arena = a.arena /\ t.sdl2 = a.sdl2
        /\ t.backend = a.backend /\ t.format = a.format /\ t.dummy = a.dummy
        /\ t.lost = a.lost
        /\ \A b \in t.blocks : b \in a.blocks \/ b.kind = "objects"
    <3>1. CASE t = f
      BY <1>8, <2>1, <2>4, <2>5, <3>1, ZenonT(60) DEF SameButError
    <3>2. CASE t = g
      BY <1>8, <2>1, <2>2, <2>4, <2>5, <3>2, ZenonT(60) DEF SameButError
    <3>3. CASE t = r
      BY <1>8, <2>1, <2>2, <2>3, <3>3
    <3>4. QED
      BY <2>6, <3>1, <3>2, <3>3
  <2>8. t.initState \in {a.initState, "incomplete"}
    BY <2>1, <2>2, <2>4, <2>6 DEF SameButError
  <2>9. \/ t.error = a.error /\ t.told = a.told /\ t.initState = "incomplete"
        \/ /\ t.error = Error("external", FALSE) /\ t.told = a.told \cup {"external"}
           /\ t.initState = "preinit" => t.formats = a.formats
    BY <2>1, <2>2, <2>4, <2>5, <2>6 DEF SameButError
  <2>10. QED
    BY <1>2, <1>4, <2>7, <2>8, <2>9 DEF SameButError
<1>9. QED
  BY <1>6, <1>7, <1>8

(* pincInitIncomplete in the state it is for.                              *)
LEMMA InitIncompleteFresh ==
  ASSUME NEW s \in StaticStates, ~s.crash, s.initState = "preinit",
         NEW system \in Systems, FreshIds(s) # {},
         NEW t, t = InitIncomplete(s, system)
  PROVE  /\ t \in StaticStates
         /\ t.alloc = s.alloc /\ t.log = s.log
         /\ t.crash => s.alloc /\ ~s.log
         /\ ~t.crash => t.root # "none" /\ t.sdl2 # NoId /\ (t.root = "user" => t.alloc)
         /\ ~t.crash =>
              \/ t.error = s.error /\ t.told = s.told /\ t.initState = "incomplete"
              \/ /\ t.error = Error("external", FALSE) /\ t.told = s.told \cup {"external"}
                 /\ t.initState = "preinit" => t.formats = s.formats
         /\ ~t.crash => t.initState \in {"preinit", "incomplete"}
<1> DEFINE u == InitIncomplete(s, system)
<1>1. /\ u \in StaticStates
      /\ u.alloc = s.alloc /\ u.log = s.log
      /\ ~u.crash =>
           /\ u.root = (IF s.alloc THEN "user" ELSE "platform")
           /\ u.arena \in Ids /\ u.sdl2 = u.arena
           /\ u.backend = s.backend /\ u.format = s.format /\ u.dummy = s.dummy
           /\ u.initState \in {s.initState, "incomplete"}
           /\ \A b \in u.blocks :
                b \in s.blocks \/ b.kind = "objects" \/ b.id = u.arena
           /\ u.lost = IF s.arena = NoId THEN s.lost ELSE s.lost \cup {"reinit"}
      /\ s.initState = "preinit" =>
           /\ u.crash => s.alloc /\ ~s.log
           /\ ~u.crash =>
                \/ u.error = s.error /\ u.told = s.told /\ u.initState = "incomplete"
                \/ /\ u.error = Error("external", FALSE) /\ u.told = s.told \cup {"external"}
                   /\ u.initState = "preinit" => u.formats = s.formats
  BY InitIncompleteProperties
<1> HIDE DEF u
<1>2. NoId \notin Ids
  BY DEF Ids, NoId
<1>3. t = u
  BY DEF u
<1>4. QED
  BY <1>1, <1>2, <1>3

(* pincInitComplete's last part, in the incomplete state.                  *)
LEMMA CompleteProperties ==
  ASSUME NEW s \in StaticStates, ~s.crash, s.root # "none",
         NEW format \in FormatHandles,
         NEW t, t = Complete(s, format)
  PROVE  /\ t \in StaticStates
         /\ t.alloc = s.alloc /\ t.log = s.log /\ t.root = s.root
         /\ t.arena = s.arena /\ t.sdl2 = s.sdl2 /\ t.blocks = s.blocks /\ t.lost = s.lost
         /\ format # "invalid" => ~t.crash
         /\ ~t.crash =>
              \/ t = Reported(s, "external", TRUE)
              \/ /\ t.format = "valid" /\ t.backend = s.sdl2 /\ t.initState = "init"
                 /\ t.error = s.error /\ t.told = s.told
<1> DEFINE dummy == IF s.backend = s.sdl2 THEN s.dummy ELSE "none"
           done == [s EXCEPT !.format = "valid", !.backend = s.sdl2, !.initState = "init",
                             !.dummy = dummy]
<1>1. /\ done \in StaticStates
      /\ done.alloc = s.alloc /\ done.log = s.log /\ done.root = s.root
      /\ done.arena = s.arena /\ done.sdl2 = s.sdl2 /\ done.blocks = s.blocks
      /\ done.lost = s.lost /\ done.crash = s.crash /\ done.error = s.error
      /\ done.told = s.told
      /\ done.format = "valid" /\ done.backend = s.sdl2 /\ done.initState = "init"
  <2>1. dummy \in {"none", "listed", "free"} /\ "init" \in States
    BY DEF StaticStates, States
  <2> HIDE DEF dummy
  <2>2. QED
    BY <2>1 DEF StaticStates
<1>2. CASE format = "default" /\ ~s.formats
  <2>1. t = Fail(s, "external", TRUE)
    BY <1>2 DEF Complete
  <2>2. t = Reported(s, "external", TRUE) /\ t \in StaticStates /\ SameButError(s, t)
    BY <2>1, FailProperties DEF Codes
  <2>3. t.crash = s.crash
    BY <2>2, ReportedProperties DEF Codes
  <2>4. QED
    BY <2>2, <2>3 DEF SameButError
<1>3. CASE format = "invalid"
  <2> DEFINE f == Fail(s, "user", TRUE)
             g == [f EXCEPT !.format = "invalid"]
  <2>1. t = Crashed(g)
    BY <1>3 DEF Complete
  <2>2. f \in StaticStates /\ SameButError(s, f)
    BY FailProperties DEF Codes
  <2> HIDE DEF f
  <2>3. /\ g \in StaticStates /\ g.alloc = f.alloc /\ g.log = f.log /\ g.root = f.root
        /\ g.arena = f.arena /\ g.sdl2 = f.sdl2 /\ g.blocks = f.blocks /\ g.lost = f.lost
    BY <2>2 DEF StaticStates
  <2> HIDE DEF g
  <2>4. t \in StaticStates /\ t.crash /\ SameButError(g, t)
    BY <2>1, <2>3, CrashedProperties
  <2>5. QED
    BY <1>3, <2>2, <2>3, <2>4 DEF SameButError
<1>4. CASE ~(format = "default" /\ ~s.formats) /\ format # "invalid"
  <2>1. t = done
    BY <1>4 DEF Complete, StaticStates
  <2> HIDE DEF done
  <2>2. QED
    BY <1>1, <2>1
<1>5. QED
  BY <1>2, <1>3, <1>4

(* The same, for a handle that is a format's.                              *)
LEMMA CompleteWithFormat ==
  ASSUME NEW s \in StaticStates, ~s.crash, s.root # "none",
         NEW format \in FormatHandles, format # "invalid"
  PROVE  /\ Complete(s, format) \in StaticStates
         /\ Complete(s, format).alloc = s.alloc /\ Complete(s, format).root = s.root
         /\ ~Complete(s, format).crash
         /\ \/ Complete(s, format) = Reported(s, "external", TRUE)
            \/ /\ Complete(s, format).initState = "init"
               /\ Complete(s, format).error = s.error /\ Complete(s, format).told = s.told
<1> DEFINE u == Complete(s, format)
<1>1. /\ u \in StaticStates
      /\ u.alloc = s.alloc /\ u.log = s.log /\ u.root = s.root
      /\ u.arena = s.arena /\ u.sdl2 = s.sdl2 /\ u.blocks = s.blocks /\ u.lost = s.lost
      /\ format # "invalid" => ~u.crash
      /\ ~u.crash =>
           \/ u = Reported(s, "external", TRUE)
           \/ /\ u.format = "valid" /\ u.backend = s.sdl2 /\ u.initState = "init"
              /\ u.error = s.error /\ u.told = s.told
  BY CompleteProperties
<1> HIDE DEF u
<1>2. /\ u \in StaticStates /\ u.alloc = s.alloc /\ u.root = s.root /\ ~u.crash
      /\ \/ u = Reported(s, "external", TRUE)
         \/ u.initState = "init" /\ u.error = s.error /\ u.told = s.told
  BY <1>1
<1>3. QED
  BY <1>2 DEF u

-----------------------------------------------------------------------------
(* Every call keeps a sound state sound, whatever the order of the calls.  *)
LEMMA InitIncompleteSound ==
  ASSUME NEW s, Sound(s), ~s.crash, NEW system \in Systems, FreshIds(s) # {}
  PROVE  Sound(InitIncomplete(s, system))
<1> DEFINE t == InitIncomplete(s, system)
<1>1. s \in StaticStates /\ ValidFor(s, s.initState) /\ OneInit(s) /\ Accounted(s)
  BY DEF Sound
<1>2. /\ t \in StaticStates
      /\ ~t.crash =>
           /\ t.root = (IF s.alloc THEN "user" ELSE "platform")
           /\ t.arena \in Ids /\ t.sdl2 = t.arena
           /\ t.backend = s.backend /\ t.format = s.format /\ t.dummy = s.dummy
           /\ t.initState \in {s.initState, "incomplete"}
           /\ \A b \in t.blocks :
                b \in s.blocks \/ b.kind = "objects" \/ b.id = t.arena
           /\ t.lost = IF s.arena = NoId THEN s.lost ELSE s.lost \cup {"reinit"}
  BY <1>1, InitIncompleteProperties
<1> HIDE DEF t
<1> SUFFICES ASSUME ~t.crash PROVE ValidFor(t, t.initState) /\ OneInit(t) /\ Accounted(t)
  BY <1>2 DEF Sound, t
<1>3. NoId \notin Ids /\ t.root # "none"
  BY <1>2 DEF Ids, NoId
<1>4. ValidFor(t, t.initState)
  BY <1>1, <1>2, <1>3 DEF ValidFor
<1>5. OneInit(t)
  BY <1>1, <1>2 DEF OneInit
<1>6. Accounted(t)
  <2> SUFFICES ASSUME NEW b \in t.blocks
               PROVE  \/ OwnedIn(t, b)
                      \/ b.kind = "arena" /\ "reinit" \in t.lost
                      \/ b.kind = "backend" /\ t.lost # {}
    BY DEF Accounted
  <2>1. b.kind \in {"arena", "backend", "objects"} /\ b.id \in Ids
    BY <1>2 DEF StaticStates, Blocks
  <2>2. CASE b.kind = "objects" \/ b.id = t.arena
    BY <1>2, <1>3, <2>1, <2>2 DEF OwnedIn
  <2>3. CASE b \in s.blocks /\ b.kind # "objects"
    <3>1. CASE s.arena = NoId
      BY <1>1, <1>2, <1>3, <2>1, <2>3, <3>1 DEF Accounted, OwnedIn, OneInit
    <3>2. CASE s.arena # NoId
      BY <1>2, <2>1, <2>3, <3>2
    <3>3. QED
      BY <3>1, <3>2
  <2>4. QED
    BY <1>2, <2>2, <2>3
<1>7. QED
  BY <1>4, <1>5, <1>6

(* So does pincInitComplete, whether or not it runs pincInitIncomplete.    *)
LEMMA InitCompleteSound ==
  ASSUME NEW s, Sound(s), ~s.crash, NEW system \in Systems, FreshIds(s) # {},
         NEW known \in BOOLEAN, NEW format \in FormatHandles
  PROVE  Sound(InitComplete(s, system, known, format))
<1> DEFINE i == IF s.initState = "preinit" THEN InitIncomplete(s, system) ELSE s
           v == Validate(i, "incomplete")
           t == InitComplete(s, system, known, format)
<1>1. t = IF v.crash \/ v.error.code # "pass" THEN v
          ELSE IF ~known THEN Fail(v, "user", TRUE) ELSE Complete(v, format)
  BY DEF InitComplete
<1>2. Sound(i)
  BY InitIncompleteSound
<1> HIDE DEF t, i
<1>3. /\ v \in StaticStates /\ SameButError(i, v) /\ (i.crash => v.crash)
      /\ ~v.crash /\ v.error.code = "pass" => ValidFor(i, "incomplete")
  BY <1>2, ValidateProperties DEF Sound, States
<1> HIDE DEF v
<1>4. Sound(v)
  BY <1>2, <1>3, SoundSame
<1>5. CASE v.crash \/ v.error.code # "pass"
  BY <1>1, <1>4, <1>5 DEF t
<1>6. CASE ~v.crash /\ v.error.code = "pass" /\ ~known
  <2>1. t = Fail(v, "user", TRUE)
    BY <1>1, <1>6
  <2>2. t \in StaticStates /\ SameButError(v, t)
    BY <1>3, <2>1, FailProperties DEF Codes
  <2>3. Sound(t)
    BY <1>4, <1>6, <2>2, SoundSame
  <2>4. QED
    BY <2>3 DEF t
<1>7. CASE ~v.crash /\ v.error.code = "pass" /\ known
  <2>1. t = Complete(v, format)
    BY <1>1, <1>7
  <2>2. v.root # "none" /\ v.sdl2 # NoId
    BY <1>3, <1>7 DEF ValidFor, SameButError
  <2>3. /\ t \in StaticStates
        /\ t.root = v.root
        /\ t.arena = v.arena /\ t.sdl2 = v.sdl2 /\ t.blocks = v.blocks /\ t.lost = v.lost
        /\ ~t.crash =>
              \/ t = Reported(v, "external", TRUE)
              \/ t.format = "valid" /\ t.backend = v.sdl2 /\ t.initState = "init"
    BY <1>3, <1>7, <2>1, <2>2, CompleteProperties, ZenonT(60)
  <2>4. ValidFor(v, v.initState) /\ OneInit(v) /\ Accounted(v)
    BY <1>4, <1>7 DEF Sound
  <2>5. Sound(t)
    <3>1. CASE t = Reported(v, "external", TRUE)
      <4>1. SameButError(v, t)
        BY <1>3, <3>1, ReportedProperties DEF Codes
      <4>2. QED
        BY <1>4, <1>7, <2>3, <4>1, SoundSame
    <3>2. CASE t.format = "valid" /\ t.backend = v.sdl2 /\ t.initState = "init"
      <4>1. ValidFor(t, t.initState)
        BY <2>2, <2>3, <3>2 DEF ValidFor
      <4>2. OneInit(t)
        BY <2>3, <2>4, <3>2 DEF OneInit
      <4>3. Accounted(t)
        <5>1. \A b \in t.blocks : b.id # NoId
          BY <2>3 DEF StaticStates, Blocks, Ids, NoId
        <5>2. QED
          BY <2>3, <2>4, <3>2, <5>1 DEF Accounted, OwnedIn, OneInit
      <4>4. QED
        BY <2>3, <4>1, <4>2, <4>3 DEF Sound
    <3>3. CASE t.crash
      BY <2>3, <3>3 DEF Sound
    <3>4. QED
      BY <2>3, <3>1, <3>2, <3>3
  <2>6. QED
    BY <2>5 DEF t
<1>8. QED
  BY <1>5, <1>6, <1>7

(* What an event that SDL gives may leave a step with.                     *)
LEMMA RefusalsAreErrors ==
  ASSUME NEW refused \in Refusals
  PROVE  /\ refused.code \in Codes /\ refused.recoverable \in BOOLEAN
         /\ refused # NoError => refused.code \in {"external", "assert"}
<1>1. CASE refused = NoError
  BY <1>1 DEF NoError, Codes
<1>2. CASE refused = Error("external", TRUE)
  BY <1>2 DEF Error, Codes
<1>3. CASE refused = Error("assert", TRUE)
  BY <1>3 DEF Error, Codes
<1>4. CASE refused = Error("assert", FALSE)
  BY <1>4 DEF Error, Codes
<1>5. QED
  BY <1>1, <1>2, <1>3, <1>4 DEF Refusals

(* So does pincStep, which clears the error or finds nothing to step.      *)
LEMMA StepSound ==
  ASSUME NEW s, Sound(s), NEW refused \in Refusals
  PROVE  Sound(Step(s, refused))
<1> DEFINE v == Validate(s, "init")
           u == [v EXCEPT !.error = NoError]
           f == Fail(v, "user", TRUE)
           g == Fail(u, refused.code, refused.recoverable)
           t == Step(s, refused)
<1>1. t \in {v, f, u, g}
  BY DEF Step
<1> HIDE DEF t
<1>2. v \in StaticStates /\ SameButError(s, v) /\ (s.crash => v.crash)
  BY ValidateProperties DEF Sound, States
<1> HIDE DEF v
<1>3. Sound(v)
  BY <1>2, SoundSame
<1>4. f \in StaticStates /\ SameButError(v, f) /\ (v.crash => f.crash)
  BY <1>2, FailProperties DEF Codes
<1>5. u \in StaticStates /\ SameButError(v, u) /\ u.crash = v.crash
  BY <1>2 DEF StaticStates, NoError, Codes, SameButError
<1> HIDE DEF f, u
<1>6. Sound(f) /\ Sound(u)
  BY <1>3, <1>4, <1>5, SoundSame
<1>7. refused.code \in Codes /\ refused.recoverable \in BOOLEAN
  BY RefusalsAreErrors
<1>8. g \in StaticStates /\ SameButError(u, g) /\ (u.crash => g.crash)
  BY <1>5, <1>7, FailProperties
<1> HIDE DEF g
<1>9. Sound(g)
  BY <1>6, <1>8, SoundSame
<1>10. Sound(t)
  BY <1>1, <1>3, <1>6, <1>9
<1>11. QED
  BY <1>10 DEF t

(* So does a query, which at most reports an error or crashes.             *)
LEMMA QueriedSound ==
  ASSUME NEW s, Sound(s), NEW state \in States, NEW default
  PROVE  Sound(Queried(Validate(s, state), default))
<1> DEFINE v == Validate(s, state)
<1>1. v \in StaticStates /\ SameButError(s, v) /\ (s.crash => v.crash)
  BY ValidateProperties DEF Sound
<1> HIDE DEF v
<1>2. Sound(v)
  BY <1>1, SoundSame
<1>3. Queried(v, default) \in {v, Crashed(v), Fail(v, "external", TRUE)}
  BY DEF Queried
<1>4. Crashed(v) \in StaticStates /\ SameButError(v, Crashed(v)) /\ Crashed(v).crash
  BY <1>1, CrashedProperties
<1>5. Sound(Crashed(v))
  BY <1>2, <1>4, SoundSame
<1>6. /\ Fail(v, "external", TRUE) \in StaticStates
      /\ SameButError(v, Fail(v, "external", TRUE))
      /\ v.crash => Fail(v, "external", TRUE).crash
  BY <1>1, FailProperties DEF Codes
<1>7. Sound(Fail(v, "external", TRUE))
  BY <1>2, <1>6, SoundSame
<1>8. Sound(Queried(v, default))
  BY <1>2, <1>3, <1>5, <1>7
<1>9. QED
  BY <1>8 DEF v

(* The state before the first call, and after pincDeinit but for what it   *)
(* did not free.                                                           *)
LEMMA PreinitType == Preinit \in StaticStates
  BY DEF Preinit, StaticStates, States, Allocators, NoId, NoError, Error, Codes

(* What pincDeinit does to the backend.                                    *)
LEMMA DestroyedProperties ==
  ASSUME NEW s, Sound(s), ~s.crash, s.root # "none",
         NEW d, d = Destroyed(s)
  PROVE  /\ d \in StaticStates /\ d.blocks \subseteq s.blocks /\ s.lost \subseteq d.lost
         /\ ~d.crash =>
              \/ d.lost # {}
              \/ /\ s.backend # NoId
                 /\ d.blocks = {b \in s.blocks : ~(b.kind = "backend" /\ b.id = s.backend)}
<1> DEFINE v == IF s.formats THEN Validate(s, "init") ELSE s
           left == {b \in v.blocks : ~(b.kind = "backend" /\ b.id = v.backend)}
<1>1. d = DeinitBackend(v)
  BY DEF Destroyed
<1>2. v \in StaticStates /\ SameButError(s, v)
  <2>1. SameButError(s, s) /\ s \in StaticStates
    BY DEF SameButError, Sound
  <2>2. QED
    BY <2>1, ValidateProperties DEF States
<1> HIDE DEF v
<1>3. CASE v.backend = NoId
  <2>1. d = [v EXCEPT !.lost = v.lost \cup {"incompleteBackend"}]
    BY <1>1, <1>2, <1>3 DEF DeinitBackend, StaticStates
  <2>2. /\ d \in StaticStates /\ d.blocks = v.blocks
        /\ d.lost = v.lost \cup {"incompleteBackend"}
    BY <1>2, <2>1 DEF StaticStates, Causes
  <2>3. QED
    BY <1>2, <2>2 DEF SameButError
<1>4. CASE v.backend # NoId /\ v.dummy = "none"
  <2>1. d = Crashed(v)
    BY <1>1, <1>4 DEF DeinitBackend
  <2>2. QED
    BY <1>2, <2>1, CrashedProperties DEF SameButError
<1>5. CASE v.backend # NoId /\ v.dummy = "listed"
  <2> DEFINE f == Fail(v, "assert", FALSE)
  <2>1. f \in StaticStates /\ SameButError(v, f)
    BY <1>2, FailProperties DEF Codes
  <2>2. d = [f EXCEPT !.lost = @ \cup {"dummyListed"}]
    BY <1>1, <1>5 DEF DeinitBackend
  <2> HIDE DEF f
  <2>3. d \in StaticStates /\ d.blocks = f.blocks /\ d.lost = f.lost \cup {"dummyListed"}
    BY <2>1, <2>2 DEF StaticStates, Causes
  <2>4. QED
    BY <1>2, <2>1, <2>3 DEF SameButError
<1>6. CASE v.backend # NoId /\ v.dummy = "free"
  <2>1. d = [v EXCEPT !.blocks = left]
    BY <1>1, <1>2, <1>6 DEF DeinitBackend, StaticStates
  <2>2. left \in SUBSET Blocks
    BY <1>2 DEF StaticStates
  <2>3. /\ v.blocks = s.blocks /\ v.backend = s.backend /\ v.lost = s.lost
        /\ left = {b \in s.blocks : ~(b.kind = "backend" /\ b.id = s.backend)}
    BY <1>2 DEF SameButError
  <2> HIDE DEF left
  <2>4. d \in StaticStates /\ d.blocks = left /\ d.lost = v.lost
    BY <1>2, <2>1, <2>2 DEF StaticStates
  <2>5. QED
    BY <1>6, <2>3, <2>4
<1>7. v.dummy \in {"none", "listed", "free"}
  BY <1>2 DEF StaticStates
<1>8. QED
  BY <1>3, <1>4, <1>5, <1>6, <1>7

(* pincDeinit crashes, does nothing, or leads back to where it all began.  *)
LEMMA DeinitProperties ==
  ASSUME NEW s, Sound(s), ~s.crash, NEW t, t = Deinit(s)
  PROVE  /\ Sound(t)
         /\ \/ s.root = "none" /\ t = s
            \/ t.crash
            \/ /\ t.root = "none" /\ t.initState = "preinit" /\ t.error = NoError
               /\ ~t.formats /\ t.told = Destroyed(s).told
<1> DEFINE d == Destroyed(s)
           blocks == d.blocks \ DeinitFrees(s)
           lost == d.lost
           done == [Preinit EXCEPT !.told = d.told, !.lost = lost, !.blocks = blocks]
<1>1. s \in StaticStates /\ OneInit(s) /\ Accounted(s)
  BY DEF Sound
<1>2. CASE s.root = "none"
  BY <1>2 DEF Deinit
<1>3. CASE s.root # "none" /\ (d.crash \/ (s.root = "user" /\ ~s.alloc))
  <2>1. t = Crashed(s)
    BY <1>3 DEF Deinit
  <2>2. t \in StaticStates /\ SameButError(s, t) /\ t.crash
    BY <1>1, <2>1, CrashedProperties
  <2>3. QED
    BY <1>3, <2>2, SoundSame
<1>4. CASE s.root # "none" /\ ~d.crash /\ ~(s.root = "user" /\ ~s.alloc)
  <2>1. t = done
    BY <1>4 DEF Deinit
  <2>2. /\ d \in StaticStates /\ d.blocks \subseteq s.blocks /\ s.lost \subseteq d.lost
        /\ \/ d.lost # {}
           \/ /\ s.backend # NoId
              /\ d.blocks = {b \in s.blocks : ~(b.kind = "backend" /\ b.id = s.backend)}
    BY <1>4, DestroyedProperties
  <2> HIDE DEF d
  <2>3. blocks \in SUBSET Blocks /\ lost \in SUBSET Causes
    BY <2>2 DEF StaticStates
  <2>4. \A b \in blocks : b \in s.blocks /\ b.kind # "objects" /\ b.id # NoId
                          /\ ~(b.kind = "arena" /\ b.id = s.arena)
    BY <2>2 DEF DeinitFrees, StaticStates, Blocks, Ids, NoId
  <2>5. lost # {} \/ \A b \in blocks : ~(b.kind = "backend" /\ b.id = s.backend)
    BY <2>2
  <2>6. s.lost \subseteq lost
    BY <2>2
  <2> HIDE DEF blocks, lost
  <2>12. d.told \in SUBSET Codes
    BY <2>2 DEF StaticStates
  <2>7. /\ done \in StaticStates
        /\ done.blocks = blocks /\ done.lost = lost /\ done.told = d.told
    BY <2>3, <2>12, PreinitType DEF StaticStates
  <2>8. /\ done.root = "none" /\ done.initState = "preinit" /\ done.error = NoError
        /\ ~done.formats
        /\ done.arena = NoId /\ done.sdl2 = NoId /\ done.backend = NoId
    BY DEF Preinit
  <2> HIDE DEF done
  <2>9. Accounted(done)
    <3> SUFFICES ASSUME NEW b \in blocks
                 PROVE  \/ b.kind = "arena" /\ "reinit" \in lost
                        \/ b.kind = "backend" /\ lost # {}
      BY <2>7 DEF Accounted
    <3>1. b \in s.blocks /\ b.kind \in {"arena", "backend"} /\ b.id # NoId
          /\ ~(b.kind = "arena" /\ b.id = s.arena)
      BY <1>1, <2>4 DEF StaticStates, Blocks
    <3>2. CASE b.kind = "arena"
      BY <1>1, <2>6, <3>1, <3>2 DEF Accounted, OwnedIn
    <3>3. CASE b.kind = "backend"
      <4>1. s.lost # {} \/ b.id \in {s.sdl2, s.backend}
        BY <1>1, <3>1, <3>3 DEF Accounted, OwnedIn
      <4>2. s.lost # {} \/ b.id = s.backend \/ s.backend = NoId
        BY <1>1, <4>1 DEF OneInit
      <4>3. QED
        BY <2>2, <2>5, <2>6, <3>3, <4>2 DEF lost
    <3>4. QED
      BY <3>1, <3>2, <3>3
  <2>10. Sound(done)
    BY <2>7, <2>8, <2>9 DEF Sound, ValidFor, OneInit
  <2>11. QED
    BY <1>4, <2>1, <2>7, <2>8, <2>10 DEF d
<1>5. QED
  BY <1>2, <1>3, <1>4

-----------------------------------------------------------------------------
(* What pincDeinit says on its way, and why it may crash, in a program     *)
(* that keeps to the documented order.                                     *)
LEMMA DestroyedTells ==
  ASSUME NEW s, Sound(s), ~s.crash, Fine(s), s.root # "none", s.told = {},
         NEW d, d = Destroyed(s)
  PROVE  /\ d.crash => (s.backend # NoId /\ s.dummy = "none") \/ (s.alloc /\ ~s.log)
         /\ ~d.crash =>
              /\ d.told \subseteq {"assert"}
              /\ d.told = {} \/ (s.initState = "incomplete" /\ s.formats) \/ s.dummy = "listed"
<1> DEFINE v == IF s.formats THEN Validate(s, "init") ELSE s
<1>1. d = DeinitBackend(v)
  BY DEF Destroyed
<1>2. s \in StaticStates /\ ValidFor(s, s.initState) /\ SameButError(s, s)
  BY DEF Sound, SameButError
<1>3. /\ v \in StaticStates /\ SameButError(s, v)
      /\ v.crash => s.alloc /\ ~s.log
      /\ v.told \subseteq {"assert"}
  BY <1>2, ValidateProperties DEF States
<1>4. ~v.crash => v.told = {} \/ (s.initState = "incomplete" /\ s.formats)
  <2>1. CASE s.initState = "init" \/ ~s.formats
    <3>1. v = s
      BY <1>2, <2>1, ValidateProperties DEF States
    <3>2. QED
      BY <3>1
  <2>2. CASE s.initState # "init" /\ s.formats
    BY <1>2, <2>2 DEF Fine, StaticStates, States
  <2>3. QED
    BY <2>1, <2>2
<1> HIDE DEF v
<1>5. CASE v.backend = NoId
  <2>1. d = [v EXCEPT !.lost = v.lost \cup {"incompleteBackend"}]
    BY <1>1, <1>3, <1>5 DEF DeinitBackend, StaticStates
  <2>2. d.told = v.told /\ d.crash = v.crash
    BY <1>3, <2>1 DEF StaticStates
  <2>3. QED
    BY <1>3, <1>4, <2>2
<1>6. CASE v.backend # NoId /\ v.dummy = "none"
  <2>1. d = Crashed(v)
    BY <1>1, <1>6 DEF DeinitBackend
  <2>2. d.crash
    BY <1>3, <2>1, CrashedProperties
  <2>3. QED
    BY <1>3, <1>6, <2>2 DEF SameButError
<1>7. CASE v.backend # NoId /\ v.dummy = "listed"
  <2> DEFINE f == Fail(v, "assert", FALSE)
  <2>1. d = [f EXCEPT !.lost = @ \cup {"dummyListed"}]
    BY <1>1, <1>7 DEF DeinitBackend
  <2>2. f \in StaticStates /\ (v.crash => f.crash)
        /\ (~v.crash => f = Reported(v, "assert", FALSE))
    BY <1>3, FailProperties DEF Codes, SameButError
  <2>3. ~v.crash => ~f.crash /\ f.told = v.told \cup {"assert"}
    BY <1>3, <2>2, ReportedProperties DEF Codes
  <2> HIDE DEF f
  <2>4. d.told = f.told /\ d.crash = f.crash
    BY <2>1, <2>2 DEF StaticStates
  <2>5. s.dummy = "listed"
    BY <1>3, <1>7 DEF SameButError
  <2>6. QED
    BY <1>3, <2>2, <2>3, <2>4, <2>5
<1>8. CASE v.backend # NoId /\ v.dummy = "free"
  <2> DEFINE left == {b \in v.blocks : ~(b.kind = "backend" /\ b.id = v.backend)}
  <2>1. d = [v EXCEPT !.blocks = left]
    BY <1>1, <1>3, <1>8 DEF DeinitBackend, StaticStates
  <2> HIDE DEF left
  <2>2. d.told = v.told /\ d.crash = v.crash
    BY <1>3, <2>1 DEF StaticStates
  <2>3. QED
    BY <1>3, <1>4, <2>2
<1>9. v.dummy \in {"none", "listed", "free"}
  BY <1>3 DEF StaticStates
<1>10. QED
  BY <1>5, <1>6, <1>7, <1>8, <1>9

-----------------------------------------------------------------------------
(* The calls of a program that keeps to the documented order.              *)
LEMMA InitIncompleteExpected ==
  ASSUME NEW s, Sound(s), ~s.crash, Fine(s), s.root = "none", s.told = {},
         NEW system \in Systems, FreshIds(s) # {}
  PROVE  Expected("pincInitIncomplete", s, InitIncomplete(s, system))
<1> DEFINE t == InitIncomplete(s, system)
<1>1. s \in StaticStates /\ s.initState = "preinit" /\ s.error = NoError /\ ~s.formats
  BY DEF Sound, Fine
<1>2. /\ t \in StaticStates /\ t.alloc = s.alloc /\ t.log = s.log
      /\ t.crash => s.alloc /\ ~s.log
      /\ ~t.crash => t.root # "none" /\ t.sdl2 # NoId /\ (t.root = "user" => t.alloc)
      /\ ~t.crash =>
           \/ t.error = s.error /\ t.told = s.told /\ t.initState = "incomplete"
           \/ /\ t.error = Error("external", FALSE) /\ t.told = s.told \cup {"external"}
              /\ t.initState = "preinit" => t.formats = s.formats
      /\ ~t.crash => t.initState \in {"preinit", "incomplete"}
  BY <1>1, InitIncompleteFresh
<1> HIDE DEF t
<1>3. Expected("pincInitIncomplete", s, t)
  BY <1>1, <1>2 DEF Expected, Fine, RecoverableError, NoError, Error, KnownCrash
<1>4. QED
  BY <1>3 DEF t

(* pincInitComplete as the first call of all, or in the incomplete state.  *)
LEMMA InitCompleteExpected ==
  ASSUME NEW s, Sound(s), ~s.crash, Fine(s), s.initState = "incomplete" \/ s.root = "none",
         s.told = {}, NEW system \in Systems, FreshIds(s) # {},
         NEW format \in FormatHandles, format # "invalid"
  PROVE  Expected("pincInitComplete", s, InitComplete(s, system, TRUE, format))
<1> DEFINE i == IF s.initState = "preinit" THEN InitIncomplete(s, system) ELSE s
           v == Validate(i, "incomplete")
           t == InitComplete(s, system, TRUE, format)
<1>1. t = IF v.crash \/ v.error.code # "pass" THEN v ELSE Complete(v, format)
  BY DEF InitComplete
<1>2. s \in StaticStates /\ ValidFor(s, s.initState)
  BY DEF Sound
<1> HIDE DEF t
<1>3. CASE s.initState = "incomplete"
  <2>1. v = s
    BY <1>2, <1>3, ValidateProperties DEF States
  <2>2. s.root # "none" /\ (s.root = "user" => s.alloc)
    BY <1>2, <1>3 DEF ValidFor, Fine
  <2>3. CASE s.error.code # "pass"
    <3>1. t = s
      BY <1>1, <2>1, <2>3
    <3>2. Expected("pincInitComplete", s, t)
      BY <3>1 DEF Expected, RecoverableError
    <3>3. QED
      BY <3>2 DEF t
  <2>4. CASE s.error.code = "pass"
    <3>1. t = Complete(s, format)
      BY <1>1, <2>1, <2>4
    <3>2. /\ t \in StaticStates /\ t.alloc = s.alloc /\ t.root = s.root /\ ~t.crash
          /\ \/ t = Reported(s, "external", TRUE)
             \/ t.initState = "init" /\ t.error = s.error /\ t.told = s.told
      BY <1>2, <2>2, <3>1, CompleteWithFormat
    <3>3. CASE t = Reported(s, "external", TRUE)
      <4>1. SameButError(s, t) /\ t.told = {"external"}
        BY <1>2, <3>3, ReportedProperties DEF Codes
      <4>2. t.initState = "incomplete"
        BY <1>3, <4>1 DEF SameButError
      <4>3. Expected("pincInitComplete", s, t)
        BY <2>2, <3>2, <4>1, <4>2 DEF Expected, Fine
      <4>4. QED
        BY <4>3 DEF t
    <3>4. CASE t.initState = "init" /\ t.error = s.error /\ t.told = s.told
      <4>1. Expected("pincInitComplete", s, t)
        BY <2>2, <3>2, <3>4 DEF Expected, Fine, RecoverableError
      <4>2. QED
        BY <4>1 DEF t
    <3>5. QED
      BY <3>2, <3>3, <3>4
  <2>5. QED
    BY <2>3, <2>4
<1>4. CASE s.root = "none"
  <2>1. s.initState = "preinit" /\ s.error = NoError /\ ~s.formats
    BY <1>4 DEF Fine
  <2>2. i = InitIncomplete(s, system)
    BY <2>1
  <2>3. /\ i \in StaticStates /\ i.alloc = s.alloc /\ i.log = s.log
        /\ i.crash => s.alloc /\ ~s.log
        /\ ~i.crash => i.root # "none" /\ i.sdl2 # NoId /\ (i.root = "user" => i.alloc)
        /\ ~i.crash =>
             \/ i.error = s.error /\ i.told = s.told /\ i.initState = "incomplete"
             \/ /\ i.error = Error("external", FALSE) /\ i.told = s.told \cup {"external"}
                /\ i.initState = "preinit" => i.formats = s.formats
        /\ ~i.crash => i.initState \in {"preinit", "incomplete"}
    BY <1>2, <2>1, <2>2, InitIncompleteFresh
  <2> HIDE DEF i
  <2>4. /\ v \in StaticStates /\ SameButError(i, v) /\ (i.crash => v.crash)
        /\ i.root # "none" /\ ~i.crash /\ ValidFor(i, "incomplete") =>
              v = i \/ (i.initState # "incomplete" /\ v = Reported(i, "assert", TRUE))
    BY <2>3, ValidateProperties DEF States
  <2> HIDE DEF v
  <2>5. CASE i.crash
    <3>1. Expected("pincInitComplete", s, t)
      BY <1>1, <2>3, <2>4, <2>5 DEF Expected, SameButError, KnownCrash
    <3>2. QED
      BY <3>1 DEF t
  <2>6. CASE ~i.crash
    <3>1. i.root # "none" /\ ValidFor(i, "incomplete") /\ (i.root = "user" => i.alloc)
      BY <2>3, <2>6 DEF ValidFor
    <3>2. v = i \/ (i.initState = "preinit" /\ v = Reported(i, "assert", TRUE))
      BY <2>3, <2>4, <2>6, <3>1
    <3>3. v = Reported(i, "assert", TRUE) =>
            ~v.crash /\ v.error.code # "pass" /\ v.told = i.told \cup {"assert"}
      <4>1. LET u == Reported(i, "assert", TRUE)
            IN  /\ u.crash = i.crash /\ u.error = Error("assert", TRUE)
                /\ u.told = i.told \cup {"assert"}
        BY <2>3, ReportedProperties DEF Codes
      <4>2. Error("assert", TRUE).code = "assert"
        BY DEF Error
      <4>3. QED
        BY <2>6, <4>1, <4>2
    <3>4. /\ ~v.crash /\ v.root = i.root /\ v.alloc = i.alloc
          /\ v.initState = i.initState /\ v.formats = i.formats
      BY <2>4, <2>6, <3>2, <3>3 DEF SameButError
    <3>5. CASE v.error.code # "pass"
      <4>1. t = v
        BY <1>1, <3>5
      <4>2. v.initState = "preinit" => ~v.formats
        BY <2>1, <2>3, <2>6, <3>4
      <4>3. v.told \subseteq {"external"} \/ KnownError("pincInitComplete", s, v)
        <5>1. i.told \subseteq {"external"}
          BY <2>3, <2>6
        <5>2. CASE v = i
          BY <5>1, <5>2
        <5>3. CASE i.initState = "preinit" /\ v = Reported(i, "assert", TRUE)
          <6>1. v.initState = "preinit" /\ v.told = i.told \cup {"assert"}
            BY <3>3, <3>4, <5>3
          <6>2. "user" \notin v.told
            BY <5>1, <6>1
          <6>3. QED
            BY <2>1, <6>1, <6>2 DEF KnownError
        <5>4. QED
          BY <3>2, <5>2, <5>3
      <4>4. Expected("pincInitComplete", s, t)
        BY <2>1, <3>1, <3>4, <4>1, <4>2, <4>3 DEF Expected, Fine
      <4>5. QED
        BY <4>4 DEF t
    <3>6. CASE v.error.code = "pass"
      <4>1. t = Complete(v, format)
        BY <1>1, <3>4, <3>6
      <4>2. v = i /\ i.told = {} /\ i.initState = "incomplete"
        <5>1. v = i
          BY <3>2, <3>3, <3>6
        <5>2. Error("external", FALSE).code = "external"
          BY DEF Error
        <5>3. i.error # Error("external", FALSE)
          BY <3>6, <5>1, <5>2
        <5>4. QED
          BY <2>3, <2>6, <5>1, <5>3
      <4>3. /\ t \in StaticStates /\ t.alloc = v.alloc /\ t.root = v.root /\ ~t.crash
            /\ \/ t = Reported(v, "external", TRUE)
               \/ t.initState = "init" /\ t.error = v.error /\ t.told = v.told
        BY <2>4, <3>1, <3>4, <4>1, CompleteWithFormat
      <4>4. t = Reported(v, "external", TRUE) =>
              t.told = {"external"} /\ t.initState = "incomplete"
        <5>1. LET u == Reported(v, "external", TRUE)
              IN  SameButError(v, u) /\ u.told = v.told \cup {"external"}
          BY <2>4, ReportedProperties DEF Codes
        <5>2. QED
          BY <4>2, <5>1 DEF SameButError
      <4>5. Expected("pincInitComplete", s, t)
        BY <2>1, <3>1, <3>4, <4>2, <4>3, <4>4 DEF Expected, Fine
      <4>6. QED
        BY <4>5 DEF t
    <3>7. QED
      BY <3>5, <3>6
  <2>7. QED
    BY <2>5, <2>6
<1>5. QED
  BY <1>3, <1>4

(* The queries see a program that was initialised.                         *)
LEMMA QueryExpected ==
  ASSUME NEW s, Sound(s), ~s.crash, Fine(s), s.initState # "preinit", s.told = {},
         NEW default \in BOOLEAN, NEW state, state = s.initState
  PROVE  Expected("pincQuery", s, Queried(Validate(s, state), default))
<1> DEFINE t == Queried(Validate(s, state), default)
<1>1. s \in StaticStates /\ ValidFor(s, s.initState) /\ state \in States
  BY DEF Sound, StaticStates
<1>2. Validate(s, state) = s
  BY <1>1, ValidateProperties
<1>3. s.root # "none"
  BY DEF Fine
<1>4. t = s \/ t = Fail(s, "external", TRUE)
  BY <1>2, <1>3 DEF Queried
<1>5. Fail(s, "external", TRUE) = Reported(s, "external", TRUE)
  BY <1>1, <1>3, FailProperties DEF Codes
<1> SUFFICES Expected("pincQuery", s, t)
  OBVIOUS
<1> HIDE DEF t
<1>6. CASE t = s
  BY <1>3, <1>6 DEF Expected, RecoverableError
<1>7. CASE t = Reported(s, "external", TRUE)
  <2>1. SameButError(s, t) /\ ~t.crash /\ t.told = {"external"}
    BY <1>1, <1>7, ReportedProperties DEF Codes
  <2>2. t.root = s.root /\ t.alloc = s.alloc /\ t.initState = s.initState
    BY <2>1 DEF SameButError
  <2>3. QED
    BY <1>3, <2>1, <2>2 DEF Expected, Fine
<1>8. QED
  BY <1>4, <1>5, <1>6, <1>7

(* pincStep in the init state.                                             *)
LEMMA StepExpected ==
  ASSUME NEW s, Sound(s), ~s.crash, Fine(s), s.initState = "init", s.told = {},
         NEW refused \in Refusals
  PROVE  Expected("pincStep", s, Step(s, refused))
<1> DEFINE u == [s EXCEPT !.error = NoError]
           t == Step(s, refused)
<1>1. s \in StaticStates /\ ValidFor(s, "init") /\ s.root # "none" /\ s.backend # NoId
  BY DEF Sound, ValidFor
<1>2. Validate(s, "init") = s
  BY <1>1, ValidateProperties DEF States
<1>3. t = IF refused = NoError THEN u ELSE Fail(u, refused.code, refused.recoverable)
  BY <1>1, <1>2 DEF Step
<1>4. u \in StaticStates /\ SameButError(s, u) /\ ~u.crash /\ u.told = {}
  BY <1>1 DEF StaticStates, NoError, Codes, SameButError
<1> HIDE DEF u, t
<1>5. SameButError(s, t) /\ ~t.crash /\ t.told \subseteq {"external", "assert"}
  <2>1. CASE refused = NoError
    BY <1>3, <1>4, <2>1
  <2>2. CASE refused # NoError
    <3>1. refused.code \in {"external", "assert"} /\ refused.recoverable \in BOOLEAN
      BY <2>2, RefusalsAreErrors
    <3>2. refused.code \in Codes /\ u.root # "none"
      BY <1>1, <1>4, <3>1 DEF Codes, SameButError
    <3>3. t = Reported(u, refused.code, refused.recoverable)
      BY <1>3, <1>4, <2>2, <3>1, <3>2, FailProperties
    <3>4. SameButError(u, t) /\ ~t.crash /\ t.told = {refused.code}
      BY <1>4, <3>1, <3>2, <3>3, ReportedProperties
    <3>5. QED
      BY <1>4, <3>1, <3>4 DEF SameButError
  <2>3. QED
    BY <2>1, <2>2
<1>6. t.root = s.root /\ t.alloc = s.alloc /\ t.initState = s.initState
  BY <1>5 DEF SameButError
<1>7. Expected("pincStep", s, t)
  BY <1>1, <1>5, <1>6 DEF Expected, Fine, KnownError
<1>8. QED
  BY <1>7 DEF t

(* pincDeinit in any state.                                                *)
LEMMA DeinitExpected ==
  ASSUME NEW s, Sound(s), ~s.crash, Fine(s), s.told = {}
  PROVE  Expected("pincDeinit", s, Deinit(s))
<1> DEFINE t == Deinit(s)
           d == Destroyed(s)
<1>1. \/ s.root = "none" /\ t = s
      \/ t.crash
      \/ /\ t.root = "none" /\ t.initState = "preinit" /\ t.error = NoError
         /\ ~t.formats /\ t.told = d.told
  BY DeinitProperties
<1>2. s \in StaticStates
  BY DEF Sound
<1>3. CASE s.root = "none"
  <2>1. t = s
    BY <1>3 DEF Deinit
  <2> HIDE DEF t
  <2>2. Expected("pincDeinit", s, t)
    BY <2>1 DEF Expected, RecoverableError
  <2>3. QED
    BY <2>2 DEF t
<1>4. CASE s.root # "none"
  <2>1. /\ d.crash => (s.backend # NoId /\ s.dummy = "none") \/ (s.alloc /\ ~s.log)
        /\ ~d.crash =>
             /\ d.told \subseteq {"assert"}
             /\ d.told = {} \/ (s.initState = "incomplete" /\ s.formats) \/ s.dummy = "listed"
    BY <1>4, DestroyedTells
  <2>2. IF d.crash THEN t = Crashed(s) ELSE t # Crashed(s) /\ ~t.crash
    BY <1>2, <1>4 DEF Deinit, Fine, Preinit, Crashed
  <2> HIDE DEF t, d
  <2>3. CASE d.crash
    <3>1. t.crash /\ SameButError(s, t)
      BY <1>2, <2>2, <2>3, CrashedProperties
    <3>2. Expected("pincDeinit", s, t)
      BY <2>1, <2>3, <3>1 DEF Expected, KnownCrash, SameButError
    <3>3. QED
      BY <3>2 DEF t
  <2>4. CASE ~d.crash
    <3>1. t.told = {} \/ KnownError("pincDeinit", s, t)
      BY <1>1, <1>4, <2>1, <2>2, <2>4 DEF KnownError
    <3>2. Expected("pincDeinit", s, t)
      BY <1>1, <1>4, <2>2, <2>4, <3>1 DEF Expected, Fine, RecoverableError, NoError
    <3>3. QED
      BY <3>2 DEF t
  <2>5. QED
    BY <2>3, <2>4
<1>5. QED
  BY <1>3, <1>4

(* The preinit setters; a state that differs in what they set is as sound. *)
LEMMA PreinitSetProperties ==
  ASSUME NEW s, Sound(s), ~s.crash, s.told = {}, NEW set \in BOOLEAN,
         NEW v, v = Validate(s, "preinit"),
         NEW t, t \in {[v EXCEPT !.onError = set], [v EXCEPT !.alloc = set],
                       [v EXCEPT !.log = set]}
  PROVE  /\ Sound(v) /\ Sound(t)
         /\ Fine(s) /\ s.root = "none" =>
              /\ ~v.crash
              /\ \A name : Expected(name, s, t)
<1>1. s \in StaticStates
  BY DEF Sound
<1>2. /\ v \in StaticStates /\ SameButError(s, v) /\ (s.crash => v.crash)
      /\ s.initState = "preinit" => v = s
  BY <1>1, ValidateProperties DEF States, ValidFor
<1>3. Sound(v)
  BY <1>2, SoundSame
<1>4. /\ t \in StaticStates /\ t.crash = v.crash /\ t.initState = v.initState
      /\ t.root = v.root /\ t.arena = v.arena /\ t.sdl2 = v.sdl2 /\ t.backend = v.backend
      /\ t.format = v.format /\ t.blocks = v.blocks /\ t.lost = v.lost /\ t.error = v.error
      /\ t.told = v.told /\ t.formats = v.formats
  BY <1>2 DEF StaticStates
<1>5. Sound(t)
  BY <1>3, <1>4 DEF Sound, ValidFor, OneInit, Accounted, OwnedIn
<1>6. ASSUME Fine(s), s.root = "none"
      PROVE  ~v.crash /\ \A name : Expected(name, s, t)
  <2>1. v = s /\ s.initState = "preinit" /\ s.error = NoError /\ ~s.formats
    BY <1>2, <1>6 DEF Fine
  <2>2. QED
    BY <1>4, <1>6, <2>1 DEF Expected, Fine, RecoverableError, NoError
<1>7. QED
  BY <1>3, <1>5, <1>6

(* What a program does with windows and contexts.                          *)
LEMMA DummyProperties ==
  ASSUME NEW s, Sound(s), ~s.crash, s.told = {}, NEW dummy \in {"none", "listed", "free"},
         NEW u, u = [s EXCEPT !.dummy = dummy]
  PROVE  /\ Sound(u) /\ u.told = {} /\ ~u.crash /\ u.root = s.root /\ u.alloc = s.alloc
         /\ u.initState = s.initState /\ u.error = s.error /\ u.formats = s.formats
<1>1. s \in StaticStates
  BY DEF Sound
<1>2. /\ u \in StaticStates /\ u.crash = s.crash /\ u.initState = s.initState
      /\ u.root = s.root /\ u.arena = s.arena /\ u.sdl2 = s.sdl2 /\ u.backend = s.backend
      /\ u.format = s.format /\ u.blocks = s.blocks /\ u.lost = s.lost /\ u.error = s.error
      /\ u.alloc = s.alloc /\ u.told = s.told /\ u.formats = s.formats
  BY <1>1 DEF StaticStates
<1>3. Sound(u)
  BY <1>2 DEF Sound, ValidFor, OneInit, Accounted, OwnedIn
<1>4. QED
  BY <1>2, <1>3

(* A window leaves the dummy window unlisted, or the program crashes.      *)
LEMMA UseWindowProperties ==
  ASSUME NEW s, Sound(s), ~s.crash, s.told = {}, s.initState = "init",
         NEW t, t = IF s.root = "user" /\ ~s.alloc THEN Crashed(s) ELSE [s EXCEPT !.dummy = "free"]
  PROVE  /\ Sound(t)
         /\ Fine(s) => Expected("pincWindow", s, t)
<1> DEFINE u == [s EXCEPT !.dummy = "free"]
<1>1. /\ Sound(u) /\ u.told = {} /\ ~u.crash /\ u.root = s.root /\ u.alloc = s.alloc
      /\ u.initState = s.initState /\ u.error = s.error /\ u.formats = s.formats
  BY DummyProperties
<1>2. t = Crashed(s) \/ t = u
  OBVIOUS
<1>3. Fine(s) => t = u
  BY DEF Fine
<1> HIDE DEF u
<1>4. Sound(Crashed(s))
  BY CrashedProperties, SoundSame DEF Sound
<1>5. Fine(s) => Expected("pincWindow", s, u)
  BY <1>1 DEF Expected, Fine, RecoverableError
<1>6. QED
  BY <1>1, <1>2, <1>3, <1>4, <1>5

(* pincOpenglCompleteContext, whatever SDL answers.                        *)
LEMMA CompleteContextProperties ==
  ASSUME NEW s, Sound(s), ~s.crash, s.told = {}, s.initState = "init",
         NEW answer \in ContextAnswers,
         NEW t, t = IF s.root = "user" /\ ~s.alloc THEN Crashed(s) ELSE ContextCompleted(s, answer)
  PROVE  /\ Sound(t)
         /\ Fine(s) => Expected("pincOpenglCompleteContext", s, t)
<1> DEFINE dummy == IF s.dummy = "none" THEN "listed" ELSE s.dummy
           u == [s EXCEPT !.dummy = dummy]
           f == Fail(s, "user", TRUE)
           g == Fail(u, "external", TRUE)
<1>1. s \in StaticStates /\ s.root # "none"
  BY DEF Sound, ValidFor
<1>2. dummy \in {"none", "listed", "free"}
  BY <1>1 DEF StaticStates
<1>3. ContextCompleted(s, answer) \in {f, g, u}
  BY <1>1 DEF ContextCompleted, ContextAnswers, StaticStates
<1> HIDE DEF dummy
<1>4. /\ Sound(u) /\ u.told = {} /\ ~u.crash /\ u.root = s.root /\ u.alloc = s.alloc
      /\ u.initState = s.initState /\ u.error = s.error /\ u.formats = s.formats
  BY <1>2, DummyProperties
<1> HIDE DEF u
<1>5. u \in StaticStates
  BY <1>4 DEF Sound
<1>6. /\ f = Reported(s, "user", TRUE) /\ f \in StaticStates /\ SameButError(s, f)
      /\ g = Reported(u, "external", TRUE) /\ g \in StaticStates /\ SameButError(u, g)
  BY <1>1, <1>4, <1>5, FailProperties DEF Codes
<1> HIDE DEF f, g
<1>7. ~f.crash /\ f.told = {"user"} /\ ~g.crash /\ g.told = {"external"}
  BY <1>1, <1>4, <1>5, <1>6, ReportedProperties DEF Codes
<1>8. Sound(f) /\ Sound(g) /\ Sound(Crashed(s))
  BY <1>1, <1>4, <1>6, <1>7, CrashedProperties, SoundSame
<1>9. Sound(t)
  BY <1>3, <1>4, <1>8
<1>10. ASSUME Fine(s)
       PROVE  Expected("pincOpenglCompleteContext", s, t)
  <2>1. t \in {f, g, u}
    BY <1>3, <1>10 DEF Fine
  <2>2. /\ t.root = s.root /\ t.alloc = s.alloc /\ t.initState = s.initState
        /\ ~t.crash /\ t.told \in {{}, {"external"}, {"user"}}
    BY <1>4, <1>6, <1>7, <2>1 DEF SameButError
  <2>3. QED
    BY <1>1, <1>10, <2>2 DEF Expected, Fine, KnownError
<1>11. QED
  BY <1>9, <1>10

-----------------------------------------------------------------------------
CallNames == {"pincPreinitSet", "pincInitIncomplete", "pincInitComplete", "pincQuery",
              "pincWindow", "pincOpenglCompleteContext", "pincStep", "pincDeinit"}

(* A call starts with nothing told, and that makes no other difference.    *)
LEMMA NowProperties ==
  ASSUME LifecycleInv
  PROVE  /\ Sound(Now) /\ SameButError(st, Now) /\ Now.told = {}
         /\ Now.crash = st.crash /\ Now.error = st.error
         /\ Fine(st) => Fine(Now)
         /\ FreshIds(Now) = FreshIds(st)
<1>1. st \in StaticStates /\ Sound(st)
  BY DEF LifecycleInv, Sound
<1>2. /\ Now \in StaticStates /\ SameButError(st, Now) /\ Now.told = {}
      /\ Now.crash = st.crash /\ Now.error = st.error
  BY <1>1 DEF Now, StaticStates, SameButError
<1>3. Sound(Now)
  BY <1>1, <1>2, SoundSame
<1>4. (Fine(st) => Fine(Now)) /\ FreshIds(Now) = FreshIds(st)
  BY <1>2 DEF Fine, SameButError, FreshIds
<1>5. QED
  BY <1>2, <1>3, <1>4

(* A call keeps the invariant if what it leads to is sound, and expected   *)
(* when the program kept to the documented order.                          *)
LEMMA CallInv ==
  ASSUME LifecycleInv, NEW name \in CallNames, NEW after, NEW allowed \in BOOLEAN,
         Call(name, after, allowed), Sound(after),
         allowed /\ Fine(Now) => Expected(name, Now, after)
  PROVE  LifecycleInv' /\ (legal' => Expected(call', st, st'))
<1>1. /\ ~st.crash /\ st' = after /\ call' = name
      /\ legal' \in BOOLEAN /\ (legal' => legal /\ allowed)
  BY DEF Call
<1>2. legal' => Expected(name, Now, after)
  BY <1>1, NowProperties DEF LifecycleInv
<1>3. Expected(name, Now, after) => Expected(name, st, after)
  BY NowProperties DEF Expected, SameButError, KnownError, RecoverableError
<1>4. after \in StaticStates
  BY DEF Sound
<1>5. TypeOK'
  BY <1>1, <1>4 DEF TypeOK, CallNames
<1>6. Sound(st')
  BY <1>1
<1>7. legal' /\ ~st'.crash => Fine(st')
  BY <1>1, <1>2 DEF Expected
<1>8. LegalCrashesAreKnown'
  BY <1>1, <1>2 DEF LegalCrashesAreKnown, Expected
<1>9. QED
  BY <1>1, <1>2, <1>3, <1>5, <1>6, <1>7, <1>8 DEF LifecycleInv

(* Before the first call nothing is live and nothing is owned.             *)
LEMMA InitialInv ==
  ASSUME Init
  PROVE  LifecycleInv
<1>1. st = Preinit /\ call = "none" /\ legal = TRUE
  BY DEF Init
<1>2. /\ st.initState = "preinit" /\ st.root = "none" /\ st.error = NoError
      /\ st.arena = NoId /\ st.sdl2 = NoId /\ st.backend = NoId /\ st.blocks = {} /\ ~st.crash
  BY <1>1 DEF Preinit
<1>3. TypeOK
  BY <1>1, PreinitType DEF TypeOK
<1>4. Sound(st)
  BY <1>2, <1>3 DEF TypeOK, Sound, ValidFor, OneInit, Accounted
<1>5. QED
  BY <1>1, <1>2, <1>3, <1>4 DEF LifecycleInv, Fine, LegalCrashesAreKnown, Preinit

(* Each call keeps the invariant, and does what the documentation says of  *)
(* errors to a program that kept to the documented order.                  *)
LEMMA LifecycleStep ==
  ASSUME LifecycleInv, Next
  PROVE  LifecycleInv' /\ (legal' => Expected(call', st, st'))
<1>1. /\ Sound(Now) /\ SameButError(st, Now) /\ Now.told = {}
      /\ Now.crash = st.crash /\ FreshIds(Now) = FreshIds(st)
  BY NowProperties
<1>10. ASSUME PreinitSetAllocCallbacks("some")
       PROVE  LifecycleInv' /\ (legal' => Expected(call', st, st'))
  <2> DEFINE v == Validate(Now, "preinit")
             after == IF v.crash THEN v ELSE Fail(v, "user", TRUE)
  <2>1. v \in StaticStates /\ SameButError(Now, v) /\ (Now.crash => v.crash)
    BY <1>1, ValidateProperties DEF Sound, States
  <2>2. Call("pincPreinitSet", after, FALSE) /\ "pincPreinitSet" \in CallNames
        /\ FALSE \in BOOLEAN
    BY <1>10 DEF PreinitSetAllocCallbacks, CallNames
  <2> HIDE DEF v
  <2>3. Sound(v)
    BY <1>1, <2>1, SoundSame
  <2>4. /\ Fail(v, "user", TRUE) \in StaticStates /\ SameButError(v, Fail(v, "user", TRUE))
        /\ v.crash => Fail(v, "user", TRUE).crash
    BY <2>1, FailProperties DEF Codes
  <2>5. Sound(after)
    BY <2>3, <2>4, SoundSame
  <2> HIDE DEF after
  <2>6. QED
    BY <2>2, <2>5, CallInv
<1>2. ASSUME NEW set \in BOOLEAN,
             \/ PreinitSetErrorCallback(set)
             \/ PreinitSetAllocCallbacks(IF set THEN "all" ELSE "none")
             \/ PreinitSetLogCallback(set)
      PROVE  LifecycleInv' /\ (legal' => Expected(call', st, st'))
  <2> DEFINE v == Validate(Now, "preinit")
  <2>1. PICK t \in {[v EXCEPT !.onError = set], [v EXCEPT !.alloc = set],
                    [v EXCEPT !.log = set]} :
          Call("pincPreinitSet", IF v.crash THEN v ELSE t, st.root = "none")
    BY <1>2 DEF PreinitSetErrorCallback, PreinitSetAllocCallbacks, PreinitSetLogCallback
  <2>2. ~st.crash
    BY <2>1 DEF Call
  <2>3. /\ Sound(v) /\ Sound(t)
        /\ Fine(Now) /\ Now.root = "none" =>
              /\ ~v.crash
              /\ \A name : Expected(name, Now, t)
    BY <1>1, <2>2, PreinitSetProperties
  <2> DEFINE after == IF v.crash THEN v ELSE t
             allowed == st.root = "none"
  <2>4. /\ Sound(after) /\ allowed \in BOOLEAN
        /\ allowed /\ Fine(Now) => Expected("pincPreinitSet", Now, after)
    BY <1>1, <2>3 DEF SameButError
  <2>5. Call("pincPreinitSet", after, allowed) /\ "pincPreinitSet" \in CallNames
    BY <2>1 DEF CallNames
  <2> HIDE DEF after, allowed
  <2>6. QED
    BY <2>4, <2>5, CallInv
<1>3. ASSUME NEW system \in Systems, CallInitIncomplete(system)
      PROVE  LifecycleInv' /\ (legal' => Expected(call', st, st'))
  <2> DEFINE after == InitIncomplete(Now, system)
             allowed == st.root = "none"
  <2>1. /\ Call("pincInitIncomplete", after, allowed) /\ FreshIds(st) # {}
        /\ allowed \in BOOLEAN /\ "pincInitIncomplete" \in CallNames
    BY <1>3 DEF CallInitIncomplete, CallNames
  <2>2. ~st.crash
    BY <2>1 DEF Call
  <2>3. Sound(after)
    BY <1>1, <2>1, <2>2, InitIncompleteSound
  <2>4. allowed /\ Fine(Now) => Expected("pincInitIncomplete", Now, after)
    BY <1>1, <2>1, <2>2, InitIncompleteExpected DEF SameButError
  <2> HIDE DEF after, allowed
  <2>5. QED
    BY <2>1, <2>3, <2>4, CallInv
<1>4. ASSUME NEW system \in Systems, NEW known \in BOOLEAN, NEW format \in FormatHandles,
             CallInitComplete(system, known, format)
      PROVE  LifecycleInv' /\ (legal' => Expected(call', st, st'))
  <2> DEFINE after == InitComplete(Now, system, known, format)
             allowed == /\ st.initState = "incomplete" \/ st.root = "none"
                        /\ known /\ format # "invalid"
  <2>1. /\ Call("pincInitComplete", after, allowed) /\ FreshIds(st) # {}
        /\ allowed \in BOOLEAN /\ "pincInitComplete" \in CallNames
    BY <1>4 DEF CallInitComplete, CallNames
  <2>2. ~st.crash
    BY <2>1 DEF Call
  <2>3. Sound(after)
    BY <1>1, <2>1, <2>2, InitCompleteSound
  <2>4. ASSUME allowed, Fine(Now)
        PROVE  Expected("pincInitComplete", Now, after)
    <3>1. /\ known = TRUE /\ format # "invalid"
          /\ Now.initState = "incomplete" \/ Now.root = "none"
      BY <1>1, <2>4 DEF SameButError
    <3>2. Expected("pincInitComplete", Now, InitComplete(Now, system, TRUE, format))
      BY <1>1, <2>1, <2>2, <2>4, <3>1, InitCompleteExpected
    <3>3. QED
      BY <3>1, <3>2
  <2> HIDE DEF after, allowed
  <2>5. QED
    BY <2>1, <2>3, <2>4, CallInv
<1>5. ASSUME NEW default \in BOOLEAN, Query(default)
      PROVE  LifecycleInv' /\ (legal' => Expected(call', st, st'))
  <2> DEFINE state == IF st.initState = "init" THEN "init" ELSE "incomplete"
             after == Queried(Validate(Now, state), default)
             allowed == st.initState # "preinit"
  <2>1. /\ Call("pincQuery", after, allowed)
        /\ allowed \in BOOLEAN /\ "pincQuery" \in CallNames
    BY <1>5 DEF Query, CallNames
  <2>2. ~st.crash
    BY <2>1 DEF Call
  <2>3. /\ state \in States /\ st.initState \in States
        /\ st.initState # "preinit" => state = Now.initState /\ Now.initState # "preinit"
    BY <1>1 DEF Sound, StaticStates, States, SameButError
  <2> HIDE DEF state
  <2>4. Sound(after)
    BY <1>1, <2>3, QueriedSound
  <2>5. allowed /\ Fine(Now) => Expected("pincQuery", Now, after)
    BY <1>1, <2>2, <2>3, QueryExpected
  <2> HIDE DEF after, allowed
  <2>6. QED
    BY <2>1, <2>4, <2>5, CallInv
<1>6. ASSUME UseWindow
      PROVE  LifecycleInv' /\ (legal' => Expected(call', st, st'))
  <2> DEFINE after == IF Now.root = "user" /\ ~Now.alloc THEN Crashed(Now)
                      ELSE [Now EXCEPT !.dummy = "free"]
  <2>1. /\ Call("pincWindow", after, TRUE) /\ Now.initState = "init"
        /\ TRUE \in BOOLEAN /\ "pincWindow" \in CallNames
    BY <1>1, <1>6 DEF UseWindow, Unallocated, CallNames, SameButError
  <2>2. ~st.crash
    BY <2>1 DEF Call
  <2>3. Sound(after) /\ (Fine(Now) => Expected("pincWindow", Now, after))
    BY <1>1, <2>1, <2>2, UseWindowProperties
  <2> HIDE DEF after
  <2>4. QED
    BY <2>1, <2>3, CallInv
<1>11. ASSUME NEW answer \in ContextAnswers, CompleteContext(answer)
       PROVE  LifecycleInv' /\ (legal' => Expected(call', st, st'))
  <2> DEFINE after == IF Now.root = "user" /\ ~Now.alloc THEN Crashed(Now)
                      ELSE ContextCompleted(Now, answer)
  <2>1. /\ Call("pincOpenglCompleteContext", after, TRUE) /\ Now.initState = "init"
        /\ TRUE \in BOOLEAN /\ "pincOpenglCompleteContext" \in CallNames
    BY <1>1, <1>11 DEF CompleteContext, Unallocated, CallNames, SameButError
  <2>2. ~st.crash
    BY <2>1 DEF Call
  <2>3. Sound(after) /\ (Fine(Now) => Expected("pincOpenglCompleteContext", Now, after))
    BY <1>1, <2>1, <2>2, CompleteContextProperties
  <2> HIDE DEF after
  <2>4. QED
    BY <2>1, <2>3, CallInv
<1>7. ASSUME NEW refused \in Refusals, CallStep(refused)
      PROVE  LifecycleInv' /\ (legal' => Expected(call', st, st'))
  <2> DEFINE after == Step(Now, refused)
             allowed == st.initState = "init"
  <2>1. /\ Call("pincStep", after, allowed)
        /\ allowed \in BOOLEAN /\ "pincStep" \in CallNames
    BY <1>7 DEF CallStep, CallNames
  <2>2. ~st.crash
    BY <2>1 DEF Call
  <2>3. Sound(after)
    BY <1>1, StepSound
  <2>4. allowed /\ Fine(Now) => Expected("pincStep", Now, after)
    BY <1>1, <2>2, StepExpected DEF SameButError
  <2> HIDE DEF after, allowed
  <2>5. QED
    BY <2>1, <2>3, <2>4, CallInv
<1>8. ASSUME CallDeinit
      PROVE  LifecycleInv' /\ (legal' => Expected(call', st, st'))
  <2> DEFINE after == Deinit(Now)
  <2>1. /\ Call("pincDeinit", after, TRUE)
        /\ TRUE \in BOOLEAN /\ "pincDeinit" \in CallNames
    BY <1>8 DEF CallDeinit, CallNames
  <2>2. ~st.crash
    BY <2>1 DEF Call
  <2>3. Sound(after)
    BY <1>1, <2>2, DeinitProperties
  <2>4. Fine(Now) => Expected("pincDeinit", Now, after)
    BY <1>1, <2>2, DeinitExpected
  <2> HIDE DEF after
  <2>5. QED
    BY <2>1, <2>3, <2>4, CallInv
<1>12. ASSUME NEW given \in {"all", "none", "some"}, PreinitSetAllocCallbacks(given)
       PROVE  LifecycleInv' /\ (legal' => Expected(call', st, st'))
  <2>1. CASE given = "some"
    BY <1>10, <1>12, <2>1
  <2>2. CASE given \in {"all", "none"}
    <3>1. PICK set \in BOOLEAN : given = IF set THEN "all" ELSE "none"
      BY <2>2
    <3>2. QED
      BY <1>2, <1>12, <3>1
  <2>3. QED
    BY <2>1, <2>2
<1>9. QED
  BY <1>2, <1>3, <1>4, <1>5, <1>6, <1>7, <1>8, <1>11, <1>12 DEF Next, FormatHandles

(* Whatever calls a program makes, the invariant holds after each of them. *)
THEOREM LifecycleInvariant == Spec => []LifecycleInv
<1>1. Init => LifecycleInv
  BY InitialInv
<1>2. LifecycleInv /\ [Next]_vars => LifecycleInv'
  <2>1. ASSUME LifecycleInv, UNCHANGED vars
        PROVE  LifecycleInv'
    BY <2>1 DEF vars, LifecycleInv, TypeOK, LegalCrashesAreKnown
  <2>2. QED
    BY <2>1, LifecycleStep
<1>3. QED
  BY <1>1, <1>2, PTL DEF Spec

(* Every state PincStaticState can be in, whatever the order of the calls, *)
(* crashes included, has the types its fields are declared with.           *)
THEOREM LifecycleTypeCorrect == Spec => []TypeOK
<1>1. LifecycleInv => TypeOK
  BY DEF LifecycleInv
<1>2. QED
  BY <1>1, LifecycleInvariant, PTL

(* initState never claims what is not live: in the incomplete state there  *)
(* are allocators and SDL2's backend, in the init state a framebuffer      *)
(* format and a window backend, whatever calls were made and failed.       *)
THEOREM StateAlwaysLive == Spec => []StateIsLive
<1>1. LifecycleInv => StateIsLive
  BY DEF LifecycleInv, Sound, StateIsLive
<1>2. QED
  BY <1>1, LifecycleInvariant, PTL

(* Memory is lost in the three known ways only, however often the program  *)
(* initialises Pinc and deinitialises it.                                  *)
THEOREM LeaksAreKnown == Spec => []NoOtherLeaks
<1>1. LifecycleInv => NoOtherLeaks
  <2> SUFFICES ASSUME LifecycleInv, ~st.crash, NEW b \in st.blocks
               PROVE  \/ Owned(b)
                      \/ b.kind = "arena" /\ "reinit" \in st.lost
                      \/ b.kind = "backend" /\ st.lost # {}
    BY DEF NoOtherLeaks
  <2>1. \/ OwnedIn(st, b)
        \/ b.kind = "arena" /\ "reinit" \in st.lost
        \/ b.kind = "backend" /\ st.lost # {}
    BY DEF LifecycleInv, Sound, Accounted
  <2>2. OwnedIn(st, b) => Owned(b)
    BY DEF OwnedIn, Owned
  <2>3. QED
    BY <2>1, <2>2
<1>2. QED
  BY <1>1, LifecycleInvariant, PTL

(* Such a program crashes in a pincDeinit that finds no dummy window, or   *)
(* for want of a log callback.                                             *)
THEOREM LegalCrashesAlwaysKnown == Spec => []LegalCrashesAreKnown
<1>1. LifecycleInv => LegalCrashesAreKnown
  BY DEF LifecycleInv
<1>2. QED
  BY <1>1, LifecycleInvariant, PTL

(* A program that makes its calls in the documented order is told of       *)
(* external errors only, but for the four calls of KnownError.             *)
THEOREM LegalErrorsAlwaysKnown == Spec => LegalErrorsAreKnown
<1> DEFINE Known ==
      legal' /\ ~st'.crash =>
        st'.told \subseteq {"external"} \/ KnownError(call', st, st')
<1>1. LifecycleInv /\ [Next]_vars => [Known]_vars
  <2>1. ASSUME LifecycleInv, Next
        PROVE  Known
    BY <2>1, LifecycleStep DEF Expected
  <2> HIDE DEF Known
  <2>2. QED
    BY <2>1
<1>2. LegalErrorsAreKnown <=> [][Known]_vars
  BY PTL DEF LegalErrorsAreKnown
<1> HIDE DEF Known
<1>3. QED
  BY <1>1, <1>2, LifecycleInvariant, PTL DEF Spec

(* Two states that differ in no field but the error, what was told of it   *)
(* and the crash.                                                          *)
LEMMA UndoneWhenSame ==
  ASSUME NEW s \in StaticStates, NEW t \in StaticStates, SameButError(s, t), t.crash = s.crash
  PROVE  [t EXCEPT !.error = s.error, !.told = s.told] = s
BY ZenonT(60) DEF SameButError, StaticStates

(* Up to the init state a recoverable error leaves a program that keeps to *)
(* the documented order as if the call had not been made, apart from a     *)
(* pincInitComplete that did the incomplete initialisation too.            *)
THEOREM InitErrorsAlwaysUndone == Spec => InitErrorsUndone
<1> DEFINE Undone ==
      /\ legal' /\ ~st'.crash /\ RecoverableError(st', st)
      /\ call' \notin {"pincStep", "pincOpenglCompleteContext"}
      => \/ [st' EXCEPT !.error = st.error, !.told = st.told] = st
         \/ call' = "pincInitComplete" /\ st.initState = "preinit"
<1>1. LifecycleInv /\ [Next]_vars => [Undone]_vars
  <2>1. ASSUME LifecycleInv, Next
        PROVE  Undone
    <3>1. legal' => Expected(call', st, st')
      BY <2>1, LifecycleStep
    <3>2. LifecycleInv'
      BY <2>1, LifecycleStep
    <3>3. st \in StaticStates /\ st' \in StaticStates
      BY <2>1, <3>2 DEF LifecycleInv, TypeOK
    <3>4. ~st.crash
      BY <2>1 DEF Next, PreinitSetErrorCallback, PreinitSetAllocCallbacks,
                  PreinitSetLogCallback, CallInitIncomplete, CallInitComplete, Query,
                  UseWindow, CompleteContext, CallStep, CallDeinit, Call
    <3>5. ~st'.crash /\ SameButError(st, st') =>
            [st' EXCEPT !.error = st.error, !.told = st.told] = st
      <4>1. st.crash \in BOOLEAN /\ st'.crash \in BOOLEAN
        BY <3>3 DEF StaticStates
      <4>2. ~st'.crash => st'.crash = st.crash
        BY <3>4, <4>1
      <4>3. QED
        BY <3>3, <4>2, UndoneWhenSame
    <3>6. QED
      BY <3>1, <3>5 DEF Expected
  <2> HIDE DEF Undone
  <2>2. QED
    BY <2>1
<1>2. InitErrorsUndone <=> [][Undone]_vars
  BY PTL DEF InitErrorsUndone
<1> HIDE DEF Undone
<1>3. QED
  BY <1>1, <1>2, LifecycleInvariant, PTL DEF Spec

-----------------------------------------------------------------------------
(* The framebuffer formats. *)
Formats == [channels : {3, 4}, bits : Depths]

(* No format is in the list twice. *)
Distinct(list) == \A i, j \in 1 .. Len(list) : SameFormat(list[i], list[j]) => i = j

(* The state that belongs to each phase: what the default's loop has found *)
(* so far, and that an error leaves no formats.                            *)
PhaseInv ==
  /\ phase \in {"preinit", "querying", "incomplete", "choosing", "overrun"} => chosen = NoFormat
  /\ phase \in {"preinit", "querying", "incomplete", "overrun"} /\ ~error => best = NoFormat
  /\ phase = "preinit" => reported = {} /\ formats = << >>
  /\ phase = "overrun" => Len(formats) > ListCapacity
  /\ error => phase \in {"incomplete", "choosing"} /\ formats = << >>

(* The loop has looked at the formats from the second to the one before    *)
(* next, and best is the best of them, or the first if there are none; of  *)
(* an empty list it looks at none.                                         *)
LoopInv ==
  phase = "choosing" =>
    IF error THEN next = 2 ELSE
    /\ next \in 2 .. Len(formats) + 1
    /\ next = 2 => best = 1 /\ bestScore = 0
    /\ next > 2 =>
         /\ best \in 2 .. (next - 1)
         /\ bestScore = Score(formats[best])
         /\ \A i \in 2 .. (next - 1) : Score(formats[i]) <= bestScore

FormatsInv ==
  /\ FormatsTypeOK
  /\ IsFiniteSet(reported)
  /\ OffersEachOnce
  /\ PhaseInv
  /\ LoopInv
  /\ DefaultIsBestBehindFirst

-----------------------------------------------------------------------------
(* A display mode's format is a format, whatever its masks are. *)
LEMMA FormatType ==
  ASSUME NEW d \in Depths
  PROVE  Format(d) \in Formats
BY DEF Format, Formats

(* Scores are natural numbers and never 0, the score the loop begins with: *)
(* the color space alone counts 16.                                        *)
LEMMA ScoreType ==
  ASSUME NEW f \in Formats
  PROVE  Score(f) \in Nat /\ Score(f) > 0
<1>1. f.channels \in {3, 4} /\ f.bits \in [1 .. 4 -> Nat]
  BY PincFormatsAssumption DEF Formats
<1>2. f.bits[1] \in Nat /\ f.bits[2] \in Nat /\ f.bits[3] \in Nat /\ f.bits[4] \in Nat
  BY <1>1
<1>3. QED
  BY <1>1, <1>2 DEF Score

(* Comparing formats is symmetric, and a format is the same as itself. *)
LEMMA SameFormatSymmetric ==
  ASSUME NEW f, NEW g
  PROVE  SameFormat(f, f) /\ (SameFormat(f, g) => SameFormat(g, f))
BY DEF SameFormat

(* Adding a format keeps the list, at most one longer, free of duplicates, *)
(* and leaves a format in it that is the same as the one added.            *)
LEMMA AddProperties ==
  ASSUME NEW list \in Seq(Formats), NEW f \in Formats, Distinct(list)
  PROVE  /\ Add(list, f) \in Seq(Formats)
         /\ Distinct(Add(list, f))
         /\ Len(Add(list, f)) >= Len(list)
         /\ \A i \in 1 .. Len(list) : Add(list, f)[i] = list[i]
         /\ \A i \in 1 .. Len(Add(list, f)) : i \in 1 .. Len(list) \/ Add(list, f)[i] = f
         /\ \E i \in 1 .. Len(Add(list, f)) : SameFormat(Add(list, f)[i], f)
<1>1. DOMAIN list = 1 .. Len(list) /\ Len(list) \in Nat
  OBVIOUS
<1>2. CASE \E i \in DOMAIN list : SameFormat(list[i], f)
  BY <1>1, <1>2 DEF Add
<1>3. CASE ~\E i \in DOMAIN list : SameFormat(list[i], f)
  <2>1. SUFFICES ASSUME NEW q, q = Append(list, f)
                 PROVE  /\ q \in Seq(Formats)
                        /\ Distinct(q)
                        /\ Len(q) >= Len(list)
                        /\ \A i \in 1 .. Len(list) : q[i] = list[i]
                        /\ \A i \in 1 .. Len(q) : i \in 1 .. Len(list) \/ q[i] = f
                        /\ \E i \in 1 .. Len(q) : SameFormat(q[i], f)
    BY <1>3 DEF Add
  <2>2. /\ q \in Seq(Formats) /\ Len(q) = Len(list) + 1
        /\ \A i \in 1 .. Len(list) : q[i] = list[i]
        /\ q[Len(list) + 1] = f
    BY <2>1
  <2>3. Distinct(q)
    <3>1. SUFFICES ASSUME NEW i \in 1 .. Len(q), NEW j \in 1 .. Len(q), SameFormat(q[i], q[j])
                   PROVE  i = j
      BY DEF Distinct
    <3>2. CASE i \in 1 .. Len(list) /\ j \in 1 .. Len(list)
      BY <2>2, <3>1, <3>2 DEF Distinct
    <3>3. CASE i = Len(list) + 1 /\ j \in 1 .. Len(list)
      <4>1. SameFormat(f, list[j])
        BY <2>2, <3>1, <3>3
      <4>2. SameFormat(list[j], f)
        BY <4>1, SameFormatSymmetric
      <4>3. QED
        BY <1>1, <1>3, <3>3, <4>2
    <3>4. CASE i \in 1 .. Len(list) /\ j = Len(list) + 1
      BY <1>1, <1>3, <2>2, <3>1, <3>4
    <3>5. QED
      BY <1>1, <2>2, <3>2, <3>3, <3>4
  <2>4. \E i \in 1 .. Len(q) : SameFormat(q[i], f)
    <3>1. SameFormat(q[Len(list) + 1], f)
      BY <2>2, SameFormatSymmetric
    <3>2. QED
      BY <1>1, <2>2, <3>1
  <2>5. QED
    BY <1>1, <2>2, <2>3, <2>4
<1>4. QED
  BY <1>2, <1>3

-----------------------------------------------------------------------------
(* The invariant's parts in the words the lemmas use. *)
LEMMA TypeFacts ==
  ASSUME FormatsInv
  PROVE  /\ formats \in Seq(Formats) /\ Len(formats) \in Nat
         /\ Distinct(formats)
         /\ \A i \in 1 .. Len(formats) : formats[i] \in Formats
<1>1. formats \in Seq(Formats)
  BY DEF FormatsInv, FormatsTypeOK, Formats
<1>2. Distinct(formats)
  BY Zenon DEF FormatsInv, OffersEachOnce, Distinct
<1>3. QED
  BY <1>1, <1>2

(* The initial state satisfies the invariant. *)
LEMMA FormatsInitInv == FormatsInit => FormatsInv
<1>1. SUFFICES ASSUME FormatsInit PROVE FormatsInv
  OBVIOUS
<1>2. formats = << >> /\ Len(formats) = 0 /\ reported = {}
  <2>1. formats = << >> /\ reported = {}
    BY <1>1 DEF FormatsInit
  <2>2. QED
    BY <2>1
<1>3. FormatsTypeOK
  <2>1. /\ phase = "preinit" /\ modes = 0 /\ next = 0 /\ best = 0 /\ bestScore = 0
        /\ chosen = 0
    BY <1>1 DEF FormatsInit, NoFormat
  <2>2. error \in BOOLEAN
    BY <1>1 DEF FormatsInit
  <2>3. QED
    BY <1>2, <2>1, <2>2 DEF FormatsTypeOK
<1>4. IsFiniteSet(reported)
  BY <1>2, FS_EmptySet
<1>5. OffersEachOnce
  BY <1>1, <1>2 DEF FormatsInit, OffersEachOnce
<1>6. /\ phase = "preinit" /\ best = NoFormat /\ chosen = NoFormat /\ ~error
      /\ formats = << >> /\ reported = {}
  BY <1>1 DEF FormatsInit
<1>7. PhaseInv /\ LoopInv /\ DefaultIsBestBehindFirst
  BY <1>6 DEF PhaseInv, LoopInv, DefaultIsBestBehindFirst
<1>8. QED
  BY <1>3, <1>4, <1>5, <1>7 DEF FormatsInv

(* A mode with a new format or one already listed.                         *)
LEMMA AddModeInv ==
  ASSUME FormatsInv, NEW d \in Depths, AddMode(d)
  PROVE  FormatsInv'
<1>1. /\ formats \in Seq(Formats) /\ Len(formats) \in Nat /\ Distinct(formats)
      /\ Format(d) \in Formats
  BY TypeFacts, FormatType
<1>2. SUFFICES ASSUME NEW q, q = formats',
                      q \in Seq(Formats), Distinct(q), Len(q) >= Len(formats),
                      \A i \in 1 .. Len(formats) : q[i] = formats[i],
                      \A i \in 1 .. Len(q) : i \in 1 .. Len(formats) \/ q[i] = Format(d),
                      \E i \in 1 .. Len(q) : SameFormat(q[i], Format(d))
               PROVE  FormatsInv'
  BY <1>1, AddProperties DEF AddMode
<1>3. /\ phase = "querying" /\ ~error /\ best = NoFormat /\ chosen \in 0 .. Len(formats)
      /\ modes' = modes + 1 /\ reported' = reported \cup {d}
      /\ phase' = IF Len(q) > ListCapacity THEN "overrun" ELSE "querying"
      /\ UNCHANGED <<next, best, bestScore, chosen, error>>
  BY <1>2 DEF FormatsInv, FormatsTypeOK, PhaseInv, AddMode
<1>4. phase' \in {"querying", "overrun"} /\ (phase' = "overrun" => Len(q) > ListCapacity)
  BY <1>3
<1>5. Len(q) \in Nat
  BY <1>2
<1>6. FormatsTypeOK'
  <2>1. chosen' \in 0 .. Len(q)
    BY <1>1, <1>2, <1>3, <1>5
  <2>2. formats' \in Seq([channels : {3, 4}, bits : Depths])
    BY <1>2 DEF Formats
  <2>3. QED
    BY <1>2, <1>3, <1>4, <2>1, <2>2 DEF FormatsInv, FormatsTypeOK
<1>7. IsFiniteSet(reported')
  BY <1>3, FS_AddElement DEF FormatsInv
<1>8. OffersEachOnce'
  <2>1. \A i, j \in 1 .. Len(q) : SameFormat(q[i], q[j]) => i = j
    BY <1>2 DEF Distinct
  <2>2. \A i \in 1 .. Len(q) : \E e \in reported' : q[i] = Format(e)
    <3>1. SUFFICES ASSUME NEW i \in 1 .. Len(q)
                   PROVE  \E e \in reported' : q[i] = Format(e)
      OBVIOUS
    <3>2. CASE i \in 1 .. Len(formats)
      BY <1>2, <1>3, <3>2 DEF FormatsInv, OffersEachOnce
    <3>3. CASE q[i] = Format(d)
      BY <1>3, <3>3
    <3>4. QED
      BY <1>2, <3>2, <3>3
  <2>3. \A e \in reported' : \E i \in 1 .. Len(q) : SameFormat(q[i], Format(e))
    <3>1. SUFFICES ASSUME NEW e \in reported
                   PROVE  \E i \in 1 .. Len(q) : SameFormat(q[i], Format(e))
      BY <1>2, <1>3
    <3>2. PICK i \in 1 .. Len(formats) : SameFormat(formats[i], Format(e))
      BY <1>3 DEF FormatsInv, OffersEachOnce
    <3>3. i \in 1 .. Len(q) /\ q[i] = formats[i]
      BY <1>1, <1>2, <1>5
    <3>4. QED
      BY <3>2, <3>3
  <2>4. QED
    BY <1>2, <1>3, <2>1, <2>2, <2>3 DEF OffersEachOnce
<1>9. PhaseInv' /\ LoopInv' /\ DefaultIsBestBehindFirst'
  <2>1. best' = NoFormat /\ chosen' = NoFormat /\ ~error'
    BY <1>3 DEF FormatsInv, PhaseInv
  <2>2. QED
    BY <1>2, <1>4, <2>1 DEF PhaseInv, LoopInv, DefaultIsBestBehindFirst
<1>10. QED
  BY <1>6, <1>7, <1>8, <1>9 DEF FormatsInv

(* The steps before the choice that add nothing to the list. *)
LEMMA QueryInv ==
  ASSUME FormatsInv, QueryFormats \/ SkipMode \/ QueryFails \/ QueryEnds
  PROVE  FormatsInv'
<1>1. /\ phase \in {"preinit", "querying"} /\ ~error
      /\ best = NoFormat /\ chosen = NoFormat
      /\ UNCHANGED <<reported, next, best, bestScore, chosen>>
      /\ modes' \in Nat
      /\ phase' \in {"querying", "incomplete"}
  BY DEF FormatsInv, FormatsTypeOK, PhaseInv, QueryFormats, SkipMode, QueryFails, QueryEnds
<1>2. CASE UNCHANGED <<formats, error>>
  <2>1. FormatsTypeOK'
    BY <1>1, <1>2 DEF FormatsInv, FormatsTypeOK
  <2>2. IsFiniteSet(reported') /\ OffersEachOnce'
    BY <1>1, <1>2 DEF FormatsInv, OffersEachOnce
  <2>3. PhaseInv' /\ LoopInv' /\ DefaultIsBestBehindFirst'
    BY <1>1, <1>2 DEF PhaseInv, LoopInv, DefaultIsBestBehindFirst
  <2>4. QED
    BY <2>1, <2>2, <2>3 DEF FormatsInv
<1>3. CASE formats' = << >> /\ error' = TRUE /\ phase' = "incomplete"
  <2>1. Len(formats') = 0 /\ formats' \in Seq([channels : {3, 4}, bits : Depths])
    BY <1>3
  <2>2. FormatsTypeOK'
    BY <1>1, <1>3, <2>1 DEF FormatsInv, FormatsTypeOK, NoFormat
  <2>3. IsFiniteSet(reported') /\ OffersEachOnce'
    BY <1>1, <1>3, <2>1 DEF FormatsInv, OffersEachOnce
  <2>4. PhaseInv' /\ LoopInv' /\ DefaultIsBestBehindFirst'
    BY <1>1, <1>3 DEF PhaseInv, LoopInv, DefaultIsBestBehindFirst
  <2>5. QED
    BY <2>2, <2>3, <2>4 DEF FormatsInv
<1>4. QED
  BY <1>2, <1>3 DEF QueryFormats, SkipMode, QueryFails, QueryEnds

(* The user's own choice: the default was not asked for, so best is none. *)
LEMMA InitCompleteInv ==
  ASSUME FormatsInv, NEW f \in 1 .. Len(formats), InitCompleteWith(f)
  PROVE  FormatsInv'
<1>1. /\ ~error /\ best = NoFormat /\ chosen' = f /\ phase' = "init"
      /\ UNCHANGED <<reported, modes, formats, next, best, bestScore, error>>
  BY DEF FormatsInv, PhaseInv, InitCompleteWith
<1>2. f \in 0 .. Len(formats)
  BY TypeFacts
<1>3. FormatsTypeOK'
  BY <1>1, <1>2 DEF FormatsInv, FormatsTypeOK
<1>4. IsFiniteSet(reported') /\ OffersEachOnce'
  BY <1>1 DEF FormatsInv, OffersEachOnce
<1>5. PhaseInv' /\ LoopInv' /\ DefaultIsBestBehindFirst'
  BY <1>1 DEF PhaseInv, LoopInv, DefaultIsBestBehindFirst
<1>6. QED
  BY <1>3, <1>4, <1>5 DEF FormatsInv

(* The default's loop begins with the first format, and behind it. *)
LEMMA ChooseDefaultInv ==
  ASSUME FormatsInv, ChooseDefault
  PROVE  FormatsInv'
<1>1. /\ phase = "incomplete" /\ ~error /\ best = NoFormat /\ chosen = NoFormat
      /\ UNCHANGED <<reported, modes, formats, chosen>>
  BY DEF FormatsInv, PhaseInv, ChooseDefault
<1>2. CASE formats = << >>
  <2>1. /\ error' = TRUE /\ phase' = "choosing" /\ next' = 2 /\ best' \in {NoFormat, 1}
        /\ bestScore' = 0 /\ Len(formats) = 0
    BY <1>2 DEF ChooseDefault
  <2>2. FormatsTypeOK'
    BY <1>1, <2>1 DEF FormatsInv, FormatsTypeOK, NoFormat
  <2>3. IsFiniteSet(reported') /\ OffersEachOnce'
    BY <1>1, <1>2, <2>1 DEF FormatsInv, OffersEachOnce
  <2>4. PhaseInv' /\ LoopInv' /\ DefaultIsBestBehindFirst'
    BY <1>1, <1>2, <2>1 DEF PhaseInv, LoopInv, DefaultIsBestBehindFirst
  <2>5. QED
    BY <2>2, <2>3, <2>4 DEF FormatsInv
<1>3. CASE formats # << >>
  <2>1. /\ phase' = "choosing" /\ next' = 2 /\ best' = 1 /\ bestScore' = 0
        /\ ~error' /\ error' \in BOOLEAN
    BY <1>3 DEF ChooseDefault
  <2>2. Len(formats) \in Nat /\ Len(formats) >= 1
    BY <1>3, TypeFacts
  <2>3. FormatsTypeOK'
    BY <1>1, <2>1 DEF FormatsInv, FormatsTypeOK
  <2>4. IsFiniteSet(reported') /\ OffersEachOnce'
    BY <1>1, <2>1 DEF FormatsInv, OffersEachOnce
  <2>5. PhaseInv' /\ DefaultIsBestBehindFirst'
    BY <1>1, <2>1 DEF PhaseInv, DefaultIsBestBehindFirst
  <2>6. LoopInv'
    BY <1>1, <2>1, <2>2 DEF LoopInv
  <2>7. QED
    BY <2>3, <2>4, <2>5, <2>6 DEF FormatsInv
<1>4. QED
  BY <1>2, <1>3

(* A turn of the default's loop. *)
LEMMA ScoreNextInv ==
  ASSUME FormatsInv, ScoreNext
  PROVE  FormatsInv'
<1>1. /\ phase = "choosing" /\ ~error /\ next <= Len(formats) /\ next' = next + 1
      /\ UNCHANGED <<phase, reported, modes, formats, chosen, error>>
      /\ bestScore \in Nat /\ best \in Nat
  <2>1. ~error
    <3>1. SUFFICES ASSUME error PROVE FALSE
      OBVIOUS
    <3>2. formats = << >> /\ next = 2
      BY <3>1 DEF FormatsInv, PhaseInv, LoopInv, ScoreNext
    <3>3. Len(formats) = 0
      BY <3>2
    <3>4. QED
      BY <3>2, <3>3 DEF ScoreNext
  <2>2. QED
    BY <2>1 DEF FormatsInv, FormatsTypeOK, ScoreNext
<1>2. /\ Len(formats) \in Nat /\ next \in 2 .. Len(formats) + 1
      /\ next = 2 => (best = 1 /\ bestScore = 0)
      /\ next > 2 => (best \in 2 .. (next - 1) /\ bestScore = Score(formats[best]))
      /\ \A i \in 2 .. (next - 1) : Score(formats[i]) <= bestScore
  BY <1>1, TypeFacts DEF FormatsInv, LoopInv
<1>3. next \in Nat /\ next >= 2 /\ next \in 1 .. Len(formats)
  BY <1>1, <1>2
<1>4. \A i \in 1 .. Len(formats) : Score(formats[i]) \in Nat /\ Score(formats[i]) > 0
  BY TypeFacts, ScoreType
<1>5. /\ best' \in 2 .. next
      /\ bestScore' = Score(formats[best'])
      /\ bestScore' \in Nat
      /\ \A i \in 2 .. next : Score(formats[i]) <= bestScore'
  <2>1. CASE Score(formats[next]) > bestScore
    <3>1. best' = next /\ bestScore' = Score(formats[next])
      BY <2>1 DEF ScoreNext
    <3>2. \A i \in 2 .. next : Score(formats[i]) <= bestScore'
      <4>1. SUFFICES ASSUME NEW i \in 2 .. next PROVE Score(formats[i]) <= bestScore'
        OBVIOUS
      <4>2. i = next \/ i \in 2 .. (next - 1)
        BY <1>3
      <4>3. i \in 1 .. Len(formats)
        BY <1>2, <1>3
      <4>4. QED
        BY <1>1, <1>2, <1>3, <1>4, <2>1, <3>1, <4>2, <4>3
    <3>3. QED
      BY <1>3, <1>4, <3>1, <3>2
  <2>2. CASE ~(Score(formats[next]) > bestScore)
    <3>1. best' = best /\ bestScore' = bestScore
      BY <2>2 DEF ScoreNext
    <3>2. next > 2
      BY <1>2, <1>3, <1>4, <2>2
    <3>3. \A i \in 2 .. next : Score(formats[i]) <= bestScore'
      <4>1. SUFFICES ASSUME NEW i \in 2 .. next PROVE Score(formats[i]) <= bestScore'
        OBVIOUS
      <4>2. i = next \/ i \in 2 .. (next - 1)
        BY <1>3
      <4>3. Score(formats[next]) \in Nat
        BY <1>3, <1>4
      <4>4. QED
        BY <1>1, <1>2, <2>2, <3>1, <4>2, <4>3
    <3>4. best \in 2 .. next
      BY <1>2, <1>3, <3>2
    <3>5. QED
      BY <1>1, <1>2, <3>1, <3>2, <3>3, <3>4
  <2>3. QED
    BY <2>1, <2>2
<1>6. FormatsTypeOK'
  <2>1. best' \in Nat /\ next' \in Nat
    BY <1>1, <1>3, <1>5
  <2>2. QED
    BY <1>1, <1>5, <2>1 DEF FormatsInv, FormatsTypeOK
<1>7. IsFiniteSet(reported') /\ OffersEachOnce'
  BY <1>1 DEF FormatsInv, OffersEachOnce
<1>8. PhaseInv' /\ DefaultIsBestBehindFirst'
  BY <1>1 DEF FormatsInv, PhaseInv, DefaultIsBestBehindFirst
<1>9. LoopInv'
  <2>1. next' \in 2 .. Len(formats) + 1 /\ next' # 2 /\ next' - 1 = next
    BY <1>1, <1>2, <1>3
  <2>2. QED
    BY <1>1, <1>5, <2>1 DEF LoopInv
<1>10. QED
  BY <1>6, <1>7, <1>8, <1>9 DEF FormatsInv

(* The loop is over: what it found is the format of the library. *)
LEMMA DefaultTakenInv ==
  ASSUME FormatsInv, DefaultChosen, ~error
  PROVE  FormatsInv'
<1>1. /\ phase = "choosing" /\ ~error /\ next > Len(formats)
      /\ chosen' = best /\ phase' = "init"
      /\ UNCHANGED <<reported, modes, formats, next, best, bestScore, error>>
  BY DEF DefaultChosen
<1>2. /\ Len(formats) \in Nat /\ next \in 2 .. Len(formats) + 1
      /\ next = 2 => (best = 1 /\ bestScore = 0)
      /\ next > 2 => (best \in 2 .. (next - 1) /\ bestScore = Score(formats[best]))
      /\ \A i \in 2 .. (next - 1) : Score(formats[i]) <= bestScore
  BY <1>1, TypeFacts DEF FormatsInv, LoopInv
<1>3. next = Len(formats) + 1 /\ next - 1 = Len(formats)
  BY <1>1, <1>2
<1>4. best \in 1 .. Len(formats) /\ (best = 1 <=> Len(formats) = 1)
  BY <1>2, <1>3
<1>5. \A i \in 2 .. Len(formats) : Score(formats[i]) <= Score(formats[best])
  <2>1. CASE next = 2
    BY <1>3, <2>1
  <2>2. CASE next > 2
    BY <1>2, <1>3, <2>2
  <2>3. QED
    BY <1>2, <2>1, <2>2
<1>6. FormatsTypeOK'
  <2>1. chosen' \in 0 .. Len(formats)
    BY <1>1, <1>2, <1>4
  <2>2. QED
    BY <1>1, <2>1 DEF FormatsInv, FormatsTypeOK
<1>7. IsFiniteSet(reported') /\ OffersEachOnce'
  BY <1>1 DEF FormatsInv, OffersEachOnce
<1>8. PhaseInv' /\ LoopInv'
  BY <1>1 DEF PhaseInv, LoopInv
<1>9. DefaultIsBestBehindFirst'
  BY <1>1, <1>4, <1>5 DEF DefaultIsBestBehindFirst
<1>10. QED
  BY <1>6, <1>7, <1>8, <1>9 DEF FormatsInv

(* There were none: what was found is not looked at.                       *)
LEMMA DefaultRefusedInv ==
  ASSUME FormatsInv, DefaultChosen, error
  PROVE  FormatsInv'
<1>1. /\ phase = "choosing" /\ phase' = "incomplete"
      /\ UNCHANGED <<reported, modes, formats, next, best, bestScore, chosen, error>>
  BY DEF DefaultChosen
<1>2. FormatsTypeOK' /\ IsFiniteSet(reported') /\ OffersEachOnce'
  BY <1>1 DEF FormatsInv, FormatsTypeOK, OffersEachOnce
<1>3. PhaseInv' /\ LoopInv' /\ DefaultIsBestBehindFirst'
  BY <1>1 DEF FormatsInv, PhaseInv, LoopInv, DefaultIsBestBehindFirst
<1>4. QED
  BY <1>2, <1>3 DEF FormatsInv

(* Steps that change nothing. *)
LEMMA FormatsStutterInv == FormatsInv /\ UNCHANGED formatsVars => FormatsInv'
<1>1. SUFFICES ASSUME FormatsInv, UNCHANGED formatsVars PROVE FormatsInv'
  OBVIOUS
<1>2. UNCHANGED <<phase, reported, modes, formats, next, best, bestScore, chosen, error>>
  BY <1>1 DEF formatsVars
<1>3. FormatsTypeOK' /\ IsFiniteSet(reported') /\ OffersEachOnce'
  BY <1>1, <1>2 DEF FormatsInv, FormatsTypeOK, OffersEachOnce
<1>4. PhaseInv' /\ LoopInv' /\ DefaultIsBestBehindFirst'
  BY <1>1, <1>2 DEF FormatsInv, PhaseInv, LoopInv, DefaultIsBestBehindFirst
<1>5. QED
  BY <1>3, <1>4 DEF FormatsInv

-----------------------------------------------------------------------------
(* The invariant holds in every state: one lemma above for each action. *)
THEOREM FormatsInvariant == FormatsSpec => []FormatsInv
<1>1. FormatsInv /\ [FormatsNext]_formatsVars => FormatsInv'
  <2>1. SUFFICES ASSUME FormatsInv, [FormatsNext]_formatsVars PROVE FormatsInv'
    OBVIOUS
  <2>2. CASE QueryFormats \/ SkipMode \/ QueryFails \/ QueryEnds
    BY <2>1, <2>2, QueryInv
  <2>3. CASE \E d \in Depths : AddMode(d)
    BY <2>1, <2>3, AddModeInv
  <2>4. CASE \E f \in 1 .. Len(formats) : InitCompleteWith(f)
    BY <2>1, <2>4, InitCompleteInv
  <2>5. CASE ChooseDefault
    BY <2>1, <2>5, ChooseDefaultInv
  <2>6. CASE ScoreNext
    BY <2>1, <2>6, ScoreNextInv
  <2>7. CASE DefaultChosen
    BY <2>1, <2>7, DefaultTakenInv, DefaultRefusedInv
  <2>8. CASE UNCHANGED formatsVars
    BY <2>1, <2>8, FormatsStutterInv
  <2>9. QED
    BY <2>1, <2>2, <2>3, <2>4, <2>5, <2>6, <2>7, <2>8 DEF FormatsNext
<1>2. QED
  BY FormatsInitInv, <1>1, PTL DEF FormatsSpec

(* pincSdl2queryFramebufferFormats offers each pixel format SDL reports,   *)
(* once, however often and on how many displays it is reported.            *)
THEOREM EachFormatOfferedOnce == FormatsSpec => []OffersEachOnce
<1>1. FormatsInv => OffersEachOnce
  BY DEF FormatsInv
<1>2. QED
  BY FormatsInvariant, <1>1, PTL

(* pincQueryFramebufferFormatDefault chooses the best format behind the    *)
(* first one, whatever SDL reports, or the first one if there is no other. *)
THEOREM DefaultFormatIsBestBehindFirst == FormatsSpec => []DefaultIsBestBehindFirst
<1>1. FormatsInv => DefaultIsBestBehindFirst
  BY DEF FormatsInv
<1>2. QED
  BY FormatsInvariant, <1>1, PTL

(* An overrun list holds more formats than it has room for, no two of them *)
(* the same, and each of them was reported: so that many were reported.    *)
LEMMA OverrunCount == FormatsInv => OverrunNeedsManyFormats
<1>1. SUFFICES ASSUME FormatsInv, phase = "overrun"
               PROVE  Cardinality(reported) > ListCapacity
  BY DEF OverrunNeedsManyFormats
<1>2. /\ Len(formats) \in Nat /\ Len(formats) > ListCapacity /\ ListCapacity \in Nat
      /\ IsFiniteSet(reported)
      /\ \A i, j \in 1 .. Len(formats) : SameFormat(formats[i], formats[j]) => i = j
      /\ \A i \in 1 .. Len(formats) : \E d \in reported : formats[i] = Format(d)
  BY <1>1, TypeFacts, PincFormatsAssumption DEF FormatsInv, PhaseInv, OffersEachOnce
<1>3. SUFFICES ASSUME NEW n, n = Len(formats), NEW w,
                      w = [i \in 1 .. n |-> CHOOSE d \in reported : formats[i] = Format(d)]
               PROVE  Cardinality(reported) > ListCapacity
  OBVIOUS
<1>4. w \in [1 .. n -> reported] /\ \A i \in 1 .. n : formats[i] = Format(w[i])
  BY <1>2, <1>3
<1>5. \A i, j \in 1 .. n : w[i] = w[j] => i = j
  BY <1>2, <1>3, <1>4, SameFormatSymmetric
<1>6. IsFiniteSet(1 .. n) /\ Cardinality(1 .. n) = n
  <2>1. n \in Nat /\ 1 \in Int /\ n \in Int
    BY <1>2, <1>3
  <2>2. n - 1 + 1 = n /\ (1 > n <=> n = 0)
    BY <2>1
  <2>3. QED
    BY <2>1, <2>2, FS_Interval
<1>7. Cardinality(reported) \in Nat
  BY <1>2, FS_CardinalityType
<1>8. Cardinality(1 .. n) <= Cardinality(reported)
  <2>1. w \in Injection(1 .. n, reported)
    BY <1>4, <1>5 DEF Injection, IsInjective
  <2>2. QED
    BY <1>2, <2>1, FS_Injection
<1>9. QED
  BY <1>2, <1>3, <1>6, <1>7, <1>8

(* The list of formats, which cannot grow (pinc_sdl2.c:484), is written    *)
(* past its end only if SDL reports more different formats than it has     *)
(* room for.                                                               *)
THEOREM OverrunsByManyFormatsOnly == FormatsSpec => []OverrunNeedsManyFormats
<1>1. QED
  BY FormatsInvariant, OverrunCount, PTL
=============================================================================
