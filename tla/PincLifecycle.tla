---------------------------- MODULE PincLifecycle ----------------------------
(***************************************************************************)
(* Initialisation, errors and deinitialisation (pinc_main.c, pinc_error.h, *)
(* and what pinc_sdl2.c does at init and deinit).  A failed validation     *)
(* records an error and the call goes on; an error stays until pincStep or *)
(* pincDeinit clears it, and the calls that forward errors return on it.   *)
(*                                                                         *)
(* The whole PincStaticState is one record, and a call is an operator on   *)
(* it.  A program that dereferences a null pointer has crashed and does    *)
(* nothing more.  Windows are what PincSdl2Windows says of them: here only *)
(* the dummy window, which pincSdl2deinit uses, and calls on windows and   *)
(* OpenGL contexts are made in the init state only.                        *)
(***************************************************************************)
EXTENDS Naturals, FiniteSets

CONSTANT MaxInits  \* bound: initialisations that still have memory allocated

ASSUME PincLifecycleAssumption == MaxInits \in Nat \ {0}

VARIABLES
  st,     \* PincStaticState, and the memory it owns or has lost
  call,   \* the API call made last
  legal   \* no call was made that the documentation rules out

vars == <<st, call, legal>>

States == {"preinit", "incomplete", "init"}
Codes == {"pass", "external", "assert", "user"}
Allocators == {"platform", "user"}
Ids == 1 .. MaxInits
NoId == 0
Blocks == [kind : {"arena", "backend", "objects"}, id : Ids, by : Allocators]
Causes == {"reinit", "incompleteBackend", "dummyListed"}

NoError == [code |-> "pass", recoverable |-> TRUE]
Error(c, r) == [code |-> c, recoverable |-> r]

(* alloc, log, onError: is the callback set.  root: what rootAllocator     *)
(* calls.  arena, sdl2, backend: the pincInitIncomplete that made the      *)
(* arena, sdl2WindowBackend and windowBackend.  dummy: what pincSdl2deinit *)
(* finds as windowBackend's dummy window once all windows are destroyed.   *)
(* blocks: root allocations.  lost: why some have no pointer to them left. *)
(* told: errors of the call made last, as its callback or the console got  *)
(* them, whatever became of the pending error.                             *)
Preinit ==
  [initState |-> "preinit", alloc |-> FALSE, log |-> FALSE, onError |-> FALSE,
   root |-> "none", arena |-> NoId, sdl2 |-> NoId, backend |-> NoId,
   formats |-> FALSE, format |-> "none", dummy |-> "none", error |-> NoError,
   told |-> {}, blocks |-> {}, lost |-> {}, crash |-> FALSE]

StaticStates ==
  [initState : States, alloc : BOOLEAN, log : BOOLEAN, onError : BOOLEAN,
   root : Allocators \cup {"none"}, arena : Ids \cup {NoId}, sdl2 : Ids \cup {NoId},
   backend : Ids \cup {NoId}, formats : BOOLEAN,
   format : {"none", "valid", "invalid"}, dummy : {"none", "listed", "free"},
   error : [code : Codes, recoverable : BOOLEAN], told : SUBSET Codes,
   blocks : SUBSET Blocks, lost : SUBSET Causes, crash : BOOLEAN]

-----------------------------------------------------------------------------
Crashed(s) == [s EXCEPT !.crash = TRUE]

(* pincLogDirect: it asks for the allocation callback, not the log one.    *)
(* The faulty variant asks for neither.                                    *)
LogUnchecked(s) == IF s.log THEN s ELSE Crashed(s)

Log(s) == IF s.alloc /\ (s.root = "none" \/ ~s.log) THEN Crashed(s) ELSE s

(* pincInternalCallError; before there is a root allocator every error is  *)
(* a user error.  A call that crashed records nothing.                     *)
Reported(s, code, recoverable) ==
  [s EXCEPT !.error = Error(code, recoverable), !.told = @ \cup {code}]

Fail(s, code, recoverable) ==
  LET logged == IF s.root = "none" /\ ~s.onError THEN Log(s) ELSE s
  IN  IF s.crash \/ logged.crash THEN Crashed(s)
      ELSE Reported(s, IF s.root = "none" THEN "user" ELSE code, recoverable)

(* PincStateValidForIncomplete, PincStateValidForComplete: what is live *)
ValidFor(s, state) ==
  /\ state # "preinit" => s.root # "none" /\ s.sdl2 # NoId
  /\ state = "init" => s.format # "none" /\ s.backend # NoId

(* PincValidateForState: both assertions are made, and the caller goes on. *)
Validate(s, state) ==
  LET called == IF s.initState = state THEN s ELSE Fail(s, "assert", TRUE)
  IN  IF ValidFor(s, state) THEN called ELSE Fail(Log(called), "assert", FALSE)

-----------------------------------------------------------------------------
(* An initialisation that nothing allocated still belongs to *)
FreshIds(s) == Ids \ {b.id : b \in s.blocks}
FreshId(s) == CHOOSE i \in FreshIds(s) : \A j \in FreshIds(s) : i <= j

(* The environment of pincInitIncomplete: SDL2 cannot be loaded or is too  *)
(* old, its display query fails, it has no displays, or it tells formats.  *)
Systems == {"noLibrary", "noQuery", "noDisplays", "formats"}

(* The arena and the backend's struct are allocated.  Those of an earlier  *)
(* initialisation, whose pointers are overwritten, are lost.               *)
Allocated(s) ==
  LET root == IF s.alloc THEN "user" ELSE "platform"
      id == FreshId(s)
  IN  [s EXCEPT !.root = root, !.arena = id, !.sdl2 = id,
         !.blocks = @ \cup {[kind |-> k, id |-> id, by |-> root] : k \in {"arena", "backend"}},
         !.lost = IF s.arena = NoId THEN @ ELSE @ \cup {"reinit"}]

(* An object is made of each format; the first one allocates the pools. *)
Ready(s, system) ==
  LET pool == {[kind |-> "objects", id |-> s.arena, by |-> s.root]}
  IN  [s EXCEPT !.initState = "incomplete", !.formats = @ \/ system = "formats",
         !.blocks = IF system = "formats" /\ ~s.formats THEN @ \cup pool ELSE @]

(* pincInitIncomplete, whatever the state. *)
InitIncomplete(s, system) ==
  LET v == Validate(s, "preinit")
      l == Log(Allocated(v))
  IN  CASE v.crash -> v
        [] ~v.crash /\ l.crash -> l
        [] ~v.crash /\ ~l.crash /\ system = "noLibrary" -> Fail(l, "external", FALSE)
        [] ~v.crash /\ ~l.crash /\ system = "noQuery" -> Fail(Ready(l, system), "external", FALSE)
        [] ~v.crash /\ ~l.crash /\ system \in {"noDisplays", "formats"} -> Ready(l, system)

(* pincInitComplete.  known: the backend and the graphics API asked for    *)
(* are supported.  format: the handle given, 0 ("default"), a format's or  *)
(* none's, whose null reference is read.  The faulty variants store 0, or  *)
(* store the format before they look at the error.                         *)
CompleteKeepsDefault(s, format) ==
  IF format = "default" /\ ~s.formats THEN Fail(s, "external", TRUE)
  ELSE IF format = "invalid"
  THEN LET f == Fail(s, "user", TRUE) IN Crashed([f EXCEPT !.format = "invalid"])
  ELSE [s EXCEPT !.format = format, !.backend = s.sdl2, !.initState = "init",
                 !.dummy = IF s.backend = s.sdl2 THEN @ ELSE "none"]

CompleteStoresFirst(s, format) ==
  IF format = "default" /\ ~s.formats THEN Fail([s EXCEPT !.format = "invalid"], "external", TRUE)
  ELSE IF format = "invalid"
  THEN LET f == Fail(s, "user", TRUE) IN Crashed([f EXCEPT !.format = "invalid"])
  ELSE [s EXCEPT !.format = "valid", !.backend = s.sdl2, !.initState = "init",
                 !.dummy = IF s.backend = s.sdl2 THEN @ ELSE "none"]

Complete(s, format) ==
  IF format = "default" /\ ~s.formats THEN Fail(s, "external", TRUE)
  ELSE IF format = "invalid"
  THEN LET f == Fail(s, "user", TRUE) IN Crashed([f EXCEPT !.format = "invalid"])
  ELSE [s EXCEPT !.format = "valid", !.backend = s.sdl2, !.initState = "init",
                 !.dummy = IF s.backend = s.sdl2 THEN @ ELSE "none"]

InitComplete(s, system, known, format) ==
  LET i == IF s.initState = "preinit" THEN InitIncomplete(s, system) ELSE s
      v == Validate(i, "incomplete")
  IN  IF v.crash \/ v.error.code # "pass" THEN v
      ELSE IF ~known THEN Fail(v, "user", TRUE)
      ELSE Complete(v, format)

(* pincStep, but for the events themselves: the pending error is dropped,  *)
(* and an event of SDL's that Pinc refuses (Refused in PincEvents) leaves  *)
(* another, after the events before it are delivered.                      *)
Refusals == {NoError, Error("external", TRUE), Error("assert", TRUE), Error("assert", FALSE)}

Step(s, refused) ==
  LET v == Validate(s, "init")
      stepped == [v EXCEPT !.error = NoError]
  IN  IF v.crash THEN v
      ELSE IF s.backend = NoId THEN Fail(v, "user", TRUE)
      ELSE IF refused = NoError THEN stepped
      ELSE Fail(stepped, refused.code, refused.recoverable)

(* pincOpenglCompleteContext.  A profile SDL2 has none for is refused, or  *)
(* the dummy window is made and listed if there is none, and then SDL may  *)
(* refuse the context.  In each case the object is completed.              *)
ContextAnswers == {"made", "noProfile", "noContext"}

ContextCompleted(s, answer) ==
  LET shown == [s EXCEPT !.dummy = IF @ = "none" THEN "listed" ELSE @]
  IN  CASE answer = "noProfile" -> Fail(s, "user", TRUE)
        [] answer = "noContext" -> Fail(shown, "external", TRUE)
        [] answer = "made" -> shown

(* pincDeinit: pincGetObjectType validates the init state for each object, *)
(* all windows are destroyed, windowBackend if it was set, then the pools, *)
(* the event buffers and the arena.                                        *)
DeinitBackend(s) ==
  IF s.backend = NoId
  THEN [s EXCEPT !.lost = @ \cup {"incompleteBackend"}]
  ELSE CASE s.dummy = "none" -> Crashed(s)
         [] s.dummy = "listed" -> [Fail(s, "assert", FALSE) EXCEPT !.lost = @ \cup {"dummyListed"}]
         [] s.dummy = "free" ->
              [s EXCEPT !.blocks = {b \in @ : ~(b.kind = "backend" /\ b.id = s.backend)}]

Destroyed(s) == DeinitBackend(IF s.formats THEN Validate(s, "init") ELSE s)

(* The arena, lost arenas apart, and the pools are freed.                  *)
DeinitFrees(s) == {b \in s.blocks : b.kind = "objects" \/ (b.kind = "arena" /\ b.id = s.arena)}

(* The faulty variants do not free the arena, or do not reset initState.   *)
DeinitKeepsArena(s) ==
  LET d == Destroyed(s)
  IN  IF s.root = "none" THEN s
      ELSE IF d.crash \/ (s.root = "user" /\ ~s.alloc) THEN Crashed(s)
      ELSE [Preinit EXCEPT !.told = d.told, !.lost = d.lost,
                           !.blocks = {b \in d.blocks : b.kind # "objects"}]

DeinitKeepsInitState(s) ==
  LET d == Destroyed(s)
  IN  IF s.root = "none" THEN s
      ELSE IF d.crash \/ (s.root = "user" /\ ~s.alloc) THEN Crashed(s)
      ELSE [Preinit EXCEPT !.told = d.told, !.lost = d.lost,
                           !.blocks = d.blocks \ DeinitFrees(s), !.initState = d.initState]

Deinit(s) ==
  LET d == Destroyed(s)
  IN  IF s.root = "none" THEN s
      ELSE IF d.crash \/ (s.root = "user" /\ ~s.alloc) THEN Crashed(s)
      ELSE [Preinit EXCEPT !.told = d.told, !.lost = d.lost,
                           !.blocks = d.blocks \ DeinitFrees(s)]

-----------------------------------------------------------------------------
Init == st = Preinit /\ call = "none" /\ legal = TRUE

(* A call, and whether pinc.h lets the program make it now: after an error *)
(* that is not recoverable only pincDeinit is left.  It starts with        *)
(* nothing told.                                                           *)
Now == [st EXCEPT !.told = {}]

Call(name, after, allowed) ==
  /\ ~st.crash
  /\ st' = after
  /\ call' = name
  /\ legal' = (legal /\ allowed /\ (st.error.recoverable \/ name = "pincDeinit"))

(* The preinit setters set what they are given, whatever the state.  The   *)
(* allocation callbacks are given all three, none, or only some of them,   *)
(* which is refused.                                                       *)
PreinitSetErrorCallback(set) ==
  LET v == Validate(Now, "preinit")
  IN  Call("pincPreinitSet", IF v.crash THEN v ELSE [v EXCEPT !.onError = set], st.root = "none")

PreinitSetAllocCallbacks(given) ==
  LET v == Validate(Now, "preinit")
  IN  Call("pincPreinitSet",
           IF v.crash THEN v
           ELSE IF given = "some" THEN Fail(v, "user", TRUE)
           ELSE [v EXCEPT !.alloc = (given = "all")],
           st.root = "none" /\ given # "some")

PreinitSetLogCallback(set) ==
  LET v == Validate(Now, "preinit")
  IN  Call("pincPreinitSet", IF v.crash THEN v ELSE [v EXCEPT !.log = set], st.root = "none")

CallInitIncomplete(system) ==
  /\ FreshIds(st) # {}
  /\ Call("pincInitIncomplete", InitIncomplete(Now, system), st.root = "none")

CallInitComplete(system, known, format) ==
  /\ FreshIds(st) # {}
  /\ format = "valid" =>
       st.formats \/ (st.initState = "preinit" /\ system = "formats")
  /\ Call("pincInitComplete", InitComplete(Now, system, known, format),
          /\ st.initState = "incomplete" \/ st.root = "none"
          /\ known /\ format # "invalid")

(* The queries, with PincValidateForStates; the default format is the one  *)
(* that may fail, and that needs the arena.  The faulty variant takes the  *)
(* queries for part of the incomplete state only.                          *)
Queried(s, default) ==
  IF ~default \/ s.formats THEN s
  ELSE IF s.root = "none" THEN Crashed(s) ELSE Fail(s, "external", TRUE)

QueryIncompleteOnly(default) ==
  Call("pincQuery", Queried(Validate(Now, "incomplete"), default), st.initState # "preinit")

Query(default) ==
  Call("pincQuery",
       Queried(Validate(Now, IF st.initState = "init" THEN "init" ELSE "incomplete"), default),
       st.initState # "preinit")

(* pincWindowComplete leaves a dummy window that is no longer listed once  *)
(* its handle is destroyed.  A pincOpenglCompleteContext before any window *)
(* lists one that nobody destroys.  Both need the root allocator.          *)
Unallocated == st.root = "user" /\ ~st.alloc

UseWindow ==
  /\ st.initState = "init" /\ st.backend # NoId
  /\ Call("pincWindow", IF Unallocated THEN Crashed(Now) ELSE [Now EXCEPT !.dummy = "free"], TRUE)

CompleteContext(answer) ==
  /\ st.initState = "init" /\ st.backend # NoId
  /\ Call("pincOpenglCompleteContext",
          IF Unallocated THEN Crashed(Now) ELSE ContextCompleted(Now, answer), TRUE)

CallStep(refused) == Call("pincStep", Step(Now, refused), st.initState = "init")
CallDeinit == Call("pincDeinit", Deinit(Now), TRUE)

Next ==
  \/ \E set \in BOOLEAN : PreinitSetErrorCallback(set)
  \/ \E given \in {"all", "none", "some"} : PreinitSetAllocCallbacks(given)
  \/ \E set \in BOOLEAN : PreinitSetLogCallback(set)
  \/ \E system \in Systems : CallInitIncomplete(system)
  \/ \E system \in Systems, known \in BOOLEAN, format \in {"default", "valid", "invalid"} :
       CallInitComplete(system, known, format)
  \/ \E default \in BOOLEAN : Query(default)
  \/ UseWindow
  \/ \E answer \in ContextAnswers : CompleteContext(answer)
  \/ \E refused \in Refusals : CallStep(refused)
  \/ CallDeinit

Spec == Init /\ [][Next]_vars

-----------------------------------------------------------------------------
TypeOK ==
  /\ st \in StaticStates
  /\ call \in {"none", "pincPreinitSet", "pincInitIncomplete", "pincInitComplete",
               "pincQuery", "pincWindow", "pincOpenglCompleteContext", "pincStep", "pincDeinit"}
  /\ legal \in BOOLEAN

(* What the state says is initialised can be used: whatever the order of   *)
(* the calls, initState never runs ahead of the allocators, the backend    *)
(* and the framebuffer format that PincValidateForState would look for.    *)
StateIsLive == ~st.crash => ValidFor(st, st.initState)

(* Memory that nothing points to any more was lost by initialising twice,  *)
(* by pincDeinit between pincInitIncomplete and pincInitComplete, or by    *)
(* the assertion in pincSdl2deinit: never objects, and an arena only by    *)
(* initialising twice.                                                     *)
Owned(b) ==
  CASE b.kind = "arena" -> b.id = st.arena
    [] b.kind = "backend" -> b.id \in {st.sdl2, st.backend}
    [] b.kind = "objects" -> st.root # "none"

NoOtherLeaks ==
  ~st.crash =>
    \A b \in st.blocks :
      \/ Owned(b)
      \/ b.kind = "arena" /\ "reinit" \in st.lost
      \/ b.kind = "backend" /\ st.lost # {}

(* A program that makes its calls in the documented order is never told    *)
(* that it erred or that Pinc did, on the error callback or the console:   *)
(* all it is told of are external errors, but for four calls.  A           *)
(* pincInitComplete that did the whole initialisation and found no SDL2    *)
(* reports a failed assertion (pinc_main.c:835), pincStep one if SDL's     *)
(* events are not what it expects, pincOpenglCompleteContext a user error  *)
(* for a legacy profile, which pincOpenglSetContextVersion lets pass, and  *)
(* pincDeinit assertions: between the two initialisations for every object *)
(* there is (pinc_main.c:884), later for a listed dummy window.            *)
KnownError(name, s, t) ==
  \/ /\ "user" \notin t.told
     /\ \/ name = "pincInitComplete" /\ s.initState = "preinit" /\ t.initState = "preinit"
        \/ name = "pincStep"
        \/ name = "pincDeinit" /\ s.initState = "incomplete" /\ s.formats
        \/ name = "pincDeinit" /\ s.dummy = "listed"
  \/ name = "pincOpenglCompleteContext" /\ t.told = {"user"}

LegalErrorsAreKnown ==
  [][legal' /\ ~st'.crash =>
       st'.told \subseteq {"external"} \/ KnownError(call', st, st')]_vars

(* "If the error is recoverable, it should be as though the Pinc API call  *)
(* causing the error had not even been called" (pinc.h:28): so it is for   *)
(* the calls up to the init state, the queries and pincDeinit, in a        *)
(* program that keeps to the documented order, but for pincInitComplete as *)
(* the first of all, which does the incomplete initialisation whatever     *)
(* error it then reports.  The promise does not hold of pincStep, which    *)
(* has delivered events and swapped the buffers when it refuses a window   *)
(* event (pinc_sdl2.c:664), nor of pincOpenglCompleteContext, whose object *)
(* is a context by then (pinc_sdl2.c:1351 and 1390, pinc_main.c:2013).     *)
RecoverableError(new, old) ==
  new.error # old.error /\ new.error.code # "pass" /\ new.error.recoverable

InitErrorsUndone ==
  [][/\ legal' /\ ~st'.crash /\ RecoverableError(st', st)
     /\ call' \notin {"pincStep", "pincOpenglCompleteContext"}
     => \/ [st' EXCEPT !.error = st.error, !.told = st.told] = st
        \/ call' = "pincInitComplete" /\ st.initState = "preinit"]_vars

(* A legal program crashes in two ways only.  pincDeinit crashes if no     *)
(* dummy window was ever made (see DeinitWorksBut of PincSdl2Windows), and *)
(* a program that sets the allocation callbacks without the log callback,  *)
(* which pinc.h:380 calls optional, crashes at the first message.          *)
KnownCrash(name, t) ==
  \/ name = "pincDeinit" /\ t.backend # NoId /\ t.dummy = "none"
  \/ t.alloc /\ ~t.log

LegalCrashesAreKnown == legal /\ st.crash => KnownCrash(call, st)
=============================================================================
