-------------------------- MODULE PincSdl2Windows --------------------------
(***************************************************************************)
(* Windows and OpenGL contexts, from the user's calls (pinc_main.c) to the *)
(* SDL2 backend (pinc_sdl2.c).  OpenGL in SDL needs a window even when the *)
(* user has none: the first window the backend opens is its dummy window,  *)
(* kept when its handle is destroyed and given to the next window made.    *)
(*                                                                         *)
(* Handles are any handles not in use (PincObjects says why that is        *)
(* enough).  A window's size, title and flags do not matter here, but for  *)
(* a fullscreen mode outside the enum, which fails its completion.         *)
(* A PincSdl2Window is named by its address, so a freed name may return.   *)
(* The model follows a program until it reads invalid memory or until      *)
(* pincDeinit leaves a window open: the windows that stay open then are    *)
(* out of reach of the next initialisation, which starts from Init.        *)
(***************************************************************************)
EXTENDS PoolOps, SequencesExt

CONSTANTS
  MaxHandles,   \* bound: window handles in use at once
  Windows,      \* addresses of PincSdl2Window structs
  NoWindow,     \* the null pointer
  Contexts,     \* handles of OpenGL contexts
  NoContext,
  Creations     \* whether SDL_CreateWindow succeeds: {TRUE} or BOOLEAN

ASSUME PincSdl2WindowsAssumption ==
  /\ MaxHandles \in Nat
  /\ NoWindow \notin Windows
  /\ NoContext \notin Contexts
  /\ Creations \in (SUBSET BOOLEAN) \ {{}}

VARIABLES
  windows,    \* the window object behind each handle
  backend,    \* struct PincSdl2WindowBackend and the structs it points to
  contexts,   \* the context object behind each handle
  current,    \* what SDL has made current: a window and a context, or neither
  error,      \* whether an error was recorded since the last pincStep
  end         \* how the program came to an end, or "none"

vars == <<windows, backend, contexts, current, error, end>>

Handles == 1 .. MaxHandles
NoHandle == 0

Ends == {"none", "nullDummy", "freedDummy", "nullObject", "leak"}

NoObject == [kind |-> "none", window |-> NoWindow]
Incomplete == [kind |-> "incompleteWindow", window |-> NoWindow]
Complete(w) == [kind |-> "window", window |-> w]

OfKind(k) == {h \in Handles : windows[h].kind = k}
Owned == {windows[h].window : h \in OfKind("window")}

NothingCurrent == [window |-> NoWindow, context |-> NoContext]

(* allocated: the structs not freed.  real: those whose SDL_CreateWindow   *)
(* succeeded.  front: their frontHandle.  list, capacity: windows,         *)
(* windowsCapacity.  dummy, inUse: dummyWindow, dummyWindowInUse.          *)
EmptyBackend ==
  [allocated |-> {}, real |-> {}, front |-> [w \in Windows |-> NoHandle],
   list |-> << >>, capacity |-> 0, dummy |-> NoWindow, inUse |-> FALSE]

Backends ==
  [allocated : SUBSET Windows, real : SUBSET Windows,
   front : [Windows -> Handles \cup {NoHandle}],
   list : Seq(Windows), capacity : Nat,
   dummy : Windows \cup {NoWindow}, inUse : BOOLEAN]

-----------------------------------------------------------------------------
(* pincSdl2AddWindow *)
AddWindow(b, w) ==
  [b EXCEPT !.list = Append(@, w),
            !.capacity = IF b.capacity = Len(b.list) THEN Grown(@) ELSE @]

(* pincSdl2RemoveWindow: swap remove, if the window is listed at all.  The *)
(* faulty variants forget windowsNum, or always drop the last entry.       *)
RemoveWindowKeepsLength(b, w) ==
  IF ~Contains(b.list, w) THEN b
  ELSE [b EXCEPT !.list = ReplaceAll(@, w, NoWindow),
                 !.inUse = IF w = b.dummy THEN FALSE ELSE @]

RemoveWindowDropsLast(b, w) ==
  IF ~Contains(b.list, w) THEN b
  ELSE [b EXCEPT !.list = SubSeq(@, 1, Len(@) - 1),
                 !.inUse = IF w = b.dummy THEN FALSE ELSE @]

RemoveWindow(b, w) ==
  IF ~Contains(b.list, w) THEN b
  ELSE LET i == CHOOSE j \in DOMAIN b.list :
                  b.list[j] = w /\ \A k \in 1 .. (j - 1) : b.list[k] # w
           n == Len(b.list)
       IN  [b EXCEPT !.list = SubSeq([@ EXCEPT ![i] = b.list[n]], 1, n - 1),
                     !.inUse = IF w = b.dummy THEN FALSE ELSE @]

(* pincSdl2deinitWindow: the dummy window stays open.  The faulty variant  *)
(* returns for it before it is removed from the list.                      *)
DeinitWindowKeepsDummyListed(b, w) ==
  LET removed == RemoveWindow(b, w)
  IN  IF w = b.dummy
      THEN [b EXCEPT !.inUse = FALSE]
      ELSE [removed EXCEPT !.allocated = @ \ {w}, !.real = @ \ {w}, !.front[w] = NoHandle]

DeinitWindow(b, w) ==
  LET removed == RemoveWindow(b, w)
  IN  IF w = b.dummy
      THEN [removed EXCEPT !.inUse = FALSE]
      ELSE [removed EXCEPT !.allocated = @ \ {w}, !.real = @ \ {w}, !.front[w] = NoHandle]

(* A dummy window nobody uses, and one that SDL made for OpenGL (SDL       *)
(* reports no flags at all for a window it did not make).                  *)
Spare(b) == b.dummy # NoWindow /\ ~b.inUse
SpareUsable(b) == Spare(b) /\ b.dummy \in b.real

(* An unusable spare window is destroyed; dummyWindow still points to it.  *)
DropUnusable(b) ==
  IF Spare(b) /\ ~SpareUsable(b) THEN [b EXCEPT !.allocated = @ \ {b.dummy}] ELSE b

OpenWindow(b, h, w, created) ==
  LET added == AddWindow([b EXCEPT !.allocated = @ \cup {w},
                                   !.real = IF created THEN @ \cup {w} ELSE @ \ {w},
                                   !.front[w] = h], w)
  IN  IF b.dummy = NoWindow THEN [added EXCEPT !.dummy = w, !.inUse = TRUE] ELSE added

(* pincSdl2completeWindow: the backends and windows it may return.  The    *)
(* faulty variants keep the spare window's front handle, or never use it.  *)
CompleteWindowKeepsFront(b, h) ==
  IF SpareUsable(b)
  THEN {[backend |-> [b EXCEPT !.inUse = TRUE], window |-> b.dummy]}
  ELSE LET d == DropUnusable(b)
       IN  {[backend |-> OpenWindow(d, h, w, c), window |-> w] :
              w \in Windows \ d.allocated, c \in Creations}

CompleteWindowOpensAlways(b, h) ==
  {[backend |-> OpenWindow(b, h, w, c), window |-> w] :
     w \in Windows \ b.allocated, c \in Creations}

CompleteWindow(b, h) ==
  IF SpareUsable(b)
  THEN {[backend |-> [b EXCEPT !.inUse = TRUE, !.front[b.dummy] = h], window |-> b.dummy]}
  ELSE LET d == DropUnusable(b)
       IN  {[backend |-> OpenWindow(d, h, w, c), window |-> w] :
              w \in Windows \ d.allocated, c \in Creations}

(* pincSdl2GetDummyWindow *)
GetDummyWindow(b) ==
  IF b.dummy # NoWindow THEN {b}
  ELSE {[r.backend EXCEPT !.inUse = FALSE] : r \in CompleteWindow(b, NoHandle)}

(* The dummy window was freed and is about to be read. *)
Dangling(b) == b.dummy # NoWindow /\ b.dummy \notin b.allocated

(* SDL_DestroyWindow makes nothing current if the window was. *)
CurrentAfter(b) == IF current.window \in b.real THEN current ELSE NothingCurrent

Fail == error' = TRUE
End(how) ==
  /\ end' = how
  /\ UNCHANGED <<windows, backend, contexts, current, error>>

-----------------------------------------------------------------------------
Init ==
  /\ windows = [h \in Handles |-> NoObject]
  /\ backend = EmptyBackend
  /\ contexts = [c \in Contexts |-> "none"]
  /\ current = NothingCurrent
  /\ error = FALSE
  /\ end = "none"

(* pincWindowCreateIncomplete *)
WindowCreateIncomplete(h) ==
  /\ windows[h] = NoObject
  /\ windows' = [windows EXCEPT ![h] = Incomplete]
  /\ UNCHANGED <<backend, contexts, current, error, end>>

(* pincWindowComplete does nothing after an error.  The fullscreen mode is *)
(* any value pincWindowSetFullscreen was given.                            *)
WindowComplete(h, fullscreenValid) ==
  /\ windows[h].kind = "incompleteWindow"
  /\ ~error
  /\ IF ~fullscreenValid
     THEN /\ Fail
          /\ UNCHANGED <<windows, backend, contexts, current, end>>
     ELSE IF Spare(backend) /\ Dangling(backend)
     THEN End("freedDummy")
     ELSE /\ \E r \in CompleteWindow(backend, h) :
               /\ backend' = r.backend
               /\ windows' = [windows EXCEPT ![h] = Complete(r.window)]
          /\ UNCHANGED <<contexts, current, error, end>>

(* pincWindowDeinit *)
WindowDeinit(h) ==
  /\ windows[h].kind # "none"
  /\ windows' = [windows EXCEPT ![h] = NoObject]
  /\ IF windows[h].kind = "window"
     THEN /\ backend' = DeinitWindow(backend, windows[h].window)
          /\ current' = CurrentAfter(backend')
     ELSE UNCHANGED <<backend, current>>
  /\ UNCHANGED <<contexts, error, end>>

(* A call on a handle of the wrong kind, for the functions that check it.  *)
Misuse ==
  /\ Fail
  /\ UNCHANGED <<windows, backend, contexts, current, end>>

(* pincOpenglCreateContextIncomplete *)
CreateContextIncomplete(c) ==
  /\ contexts[c] = "none"
  /\ contexts' = [contexts EXCEPT ![c] = "incomplete"]
  /\ UNCHANGED <<windows, backend, current, error, end>>

(* pincOpenglCompleteContext: the object becomes a context even when SDL   *)
(* makes none ("failed").  The profile is refused before a window is       *)
(* opened; afterwards SDL can fail, and does on a window it did not make.  *)
(* The reference of a handle of another kind is null, and is read.         *)
CompleteContextFails(c, b) ==
  /\ backend' = b
  /\ contexts' = [contexts EXCEPT ![c] = "failed"]
  /\ Fail
  /\ UNCHANGED current

CompleteContextSucceeds(c, b) ==
  /\ b.dummy \in b.real
  /\ backend' = b
  /\ contexts' = [contexts EXCEPT ![c] = "complete"]
  /\ current' = NothingCurrent
  /\ UNCHANGED error

CompleteContext(c) ==
  IF contexts[c] # "incomplete" THEN End("nullObject")
  ELSE IF Dangling(backend) THEN End("freedDummy")
  ELSE /\ \/ CompleteContextFails(c, backend)
          \/ \E b \in GetDummyWindow(backend) :
               CompleteContextFails(c, b) \/ CompleteContextSucceeds(c, b)
       /\ UNCHANGED <<windows, end>>

(* pincOpenglDeinitContext *)
DeinitContext(c) ==
  /\ contexts[c] # "none"
  /\ contexts' = [contexts EXCEPT ![c] = "none"]
  /\ current' = IF current.context = c THEN NothingCurrent ELSE current
  /\ UNCHANGED <<windows, backend, error, end>>

(* pincOpenglMakeCurrent(h, c): h may be NoHandle and c NoContext.  The    *)
(* references of incomplete or freed objects are null, and are read.       *)
SdlContext(c) ==
  IF c \in Contexts /\ contexts[c] = "complete" THEN c ELSE NoContext

MakeCurrentOn(w, c, b) ==
  /\ backend' = b
  /\ \/ /\ SdlContext(c) = NoContext
        /\ current' = NothingCurrent
        /\ UNCHANGED error
     \/ /\ SdlContext(c) # NoContext /\ w \in b.real
        /\ current' = [window |-> w, context |-> c]
        /\ UNCHANGED error
     \/ /\ Fail
        /\ UNCHANGED current
  /\ UNCHANGED <<windows, contexts, end>>

MakeCurrent(h, c) ==
  IF \/ h # NoHandle /\ windows[h].kind # "window"
     \/ c # NoContext /\ contexts[c] \notin {"complete", "failed"}
  THEN End("nullObject")
  ELSE IF h # NoHandle
  THEN MakeCurrentOn(windows[h].window, c, backend)
  ELSE IF Dangling(backend)
  THEN End("freedDummy")
  ELSE \E b \in GetDummyWindow(backend) : MakeCurrentOn(b.dummy, c, b)

(* pincStep, as far as windows go: the last error is forgotten. *)
Step ==
  /\ error' = FALSE
  /\ UNCHANGED <<windows, backend, contexts, current, end>>

(* pincDeinit destroys every window, in the order of the handles, then     *)
(* shuts the backend down: pincSdl2deinit gives up if a window is listed,  *)
(* else destroys the dummy window and SDL with it.                         *)
AfterWindows ==
  LET after[h \in 0 .. MaxHandles] ==
        IF h = 0 THEN backend
        ELSE IF windows[h].kind = "window" THEN DeinitWindow(after[h - 1], windows[h].window)
        ELSE after[h - 1]
  IN  after[MaxHandles]

Deinit ==
  IF AfterWindows.list # << >> THEN End("leak")
  ELSE IF AfterWindows.dummy = NoWindow THEN End("nullDummy")
  ELSE IF Dangling(AfterWindows) THEN End("freedDummy")
  ELSE /\ windows' = [h \in Handles |-> NoObject]
       /\ backend' = EmptyBackend
       /\ contexts' = [c \in Contexts |-> "none"]
       /\ current' = NothingCurrent
       /\ error' = FALSE
       /\ UNCHANGED end

Next ==
  /\ end = "none"
  /\ \/ \E h \in Handles : WindowCreateIncomplete(h) \/ WindowDeinit(h)
     \/ \E h \in Handles, valid \in BOOLEAN : WindowComplete(h, valid)
     \/ \E c \in Contexts : \/ CreateContextIncomplete(c)
                            \/ CompleteContext(c)
                            \/ DeinitContext(c)
     \/ \E h \in Handles \cup {NoHandle}, c \in Contexts \cup {NoContext} : MakeCurrent(h, c)
     \/ Misuse
     \/ Step
     \/ Deinit

Spec == Init /\ [][Next]_vars

-----------------------------------------------------------------------------
TypeOK ==
  /\ windows \in [Handles -> [kind : {"none", "incompleteWindow", "window"},
                              window : Windows \cup {NoWindow}]]
  /\ backend \in Backends
  /\ contexts \in [Contexts -> {"none", "incomplete", "complete", "failed"}]
  /\ current \in [window : Windows \cup {NoWindow}, context : Contexts \cup {NoContext}]
  /\ error \in BOOLEAN
  /\ end \in Ends

(* Every complete window handle has an open window that knows it as its    *)
(* front handle: no two handles share one, however often the dummy window  *)
(* changes hands.                                                          *)
HandlesOwnWindows ==
  \A h \in OfKind("window") :
    windows[h].window \in backend.allocated /\ backend.front[windows[h].window] = h

(* Creating and destroying windows in any order, the backend knows whether *)
(* its dummy window is somebody's: giving away one that is would put two   *)
(* handles on one window, keeping back one that is not would open another. *)
DummyInUseIffOwned == backend.inUse <=> backend.dummy \in Owned

(* The list of windows holds every window of the user but the dummy one    *)
(* exactly once, inside its array, and of the others at most a dummy       *)
(* window: one somebody uses, or one opened for OpenGL while the user has  *)
(* no window.  A window left listed would be a dangling pointer.  And the  *)
(* flag tells whether the dummy window is somebody's.                      *)
ListHoldsWindows ==
  /\ IsInjective(backend.list)
  /\ Range(backend.list) \ {backend.dummy} = Owned \ {backend.dummy}
  /\ Contains(backend.list, backend.dummy) =>
       backend.inUse \/ (backend.front[backend.dummy] = NoHandle /\ Owned = {})
  /\ DummyInUseIffOwned
  /\ Len(backend.list) <= backend.capacity

(* pincSdl2deinitWindow has an assertion, which the build leaves out, that *)
(* the dummy window is in use exactly if it is listed ("Dummy window in    *)
(* use does not match reality", pinc_sdl2.c:1014).  It is not so, but it   *)
(* comes to be false at two steps only: when the first window of all is    *)
(* opened for OpenGL (listed, and in use by nobody), and when the dummy    *)
(* window of a destroyed handle is given to a further one, which does not  *)
(* list it again (pinc_sdl2.c:913-962).                                    *)
FlagMatchesList == backend.inUse <=> Contains(backend.list, backend.dummy)

FlagMatchesListBut ==
  [][FlagMatchesList /\ ~FlagMatchesList' =>
       \/ backend.dummy = NoWindow /\ Owned' = {}
       \/ \E h \in OfKind("incompleteWindow") : windows'[h] = Complete(backend.dummy)]_vars

(* "Pinc deinit should work when called at ANY POINT AT ALL"               *)
(* (pinc_main.c:868): it does, however windows came and went, but at two   *)
(* points, and no call reads a dummy window that was freed.  Before any    *)
(* window was opened the dummy window is null; and when its only window is *)
(* a dummy window opened for OpenGL that never was a window of the user,   *)
(* it is still listed and pincDeinit gives up.                             *)
DeinitWorksBut ==
  /\ end # "freedDummy"
  /\ end = "nullDummy" => backend = EmptyBackend
  /\ end = "leak" =>
       /\ backend.list = <<backend.dummy>> /\ Owned = {}
       /\ backend.front[backend.dummy] = NoHandle

(* The windows' owners: a handle, nobody (the spare window), or closed.    *)
ClosedWindow == -1
owner ==
  [w \in Windows |->
     IF w \in Owned THEN CHOOSE h \in OfKind("window") : windows[h].window = w
     ELSE IF w \in backend.allocated THEN NoHandle ELSE ClosedWindow]

(* The list, the dummy pointer and its flag implement the spare window: at *)
(* most one window is open for nobody, it is reused before another is      *)
(* opened, and each window has one owner.                                  *)
Abstract == INSTANCE SpareWindow WITH Nobody <- NoHandle, Closed <- ClosedWindow
ImplementsSpareWindow == Abstract!Spec

(* No two handles have one window; "the dummy window is fully useless and  *)
(* it should be replaced" (pinc_sdl2.c:919): replacing it leaves           *)
(* dummyWindow pointing to the freed struct.                               *)
WindowsNotShared ==
  \A g, h \in OfKind("window") : windows[g].window = windows[h].window => g = h
=============================================================================
