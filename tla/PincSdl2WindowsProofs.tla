----------------------- MODULE PincSdl2WindowsProofs -----------------------
(***************************************************************************)
(* Proofs about PincSdl2Windows: who owns the backend's windows, for any   *)
(* number of handles, windows and contexts, as long as SDL_CreateWindow    *)
(* succeeds (the run window_shared, of PincSdl2Shared.cfg, shows what      *)
(* happens when it does not).                                              *)
(***************************************************************************)
EXTENDS PincSdl2Windows, PoolOpsProofs, SequenceTheorems, TLAPS

-----------------------------------------------------------------------------
(* The last entry of a list takes the place of another. *)
SwapRemoved(f, i) == SubSeq([f EXCEPT ![i] = f[Len(f)]], 1, Len(f) - 1)

(* Swap remove takes one entry out of a list without repetitions, and      *)
(* keeps the others.                                                       *)
LEMMA SwapRemove ==
  ASSUME NEW S, NEW f \in Seq(S), IsInjective(f), NEW i \in 1 .. Len(f),
         NEW g, g = SwapRemoved(f, i)
  PROVE  /\ g \in Seq(S)
         /\ Len(g) = Len(f) - 1
         /\ IsInjective(g)
         /\ \A x : Contains(g, x) <=> Contains(f, x) /\ x # f[i]
<1>1. Len(f) \in Nat /\ DOMAIN f = 1 .. Len(f) /\ Len(f) >= 1
  OBVIOUS
<1>2. SUFFICES ASSUME NEW n \in Nat, n = Len(f), n >= 1,
                      NEW h, h = [f EXCEPT ![i] = f[n]],
                      g = SubSeq(h, 1, n - 1)
               PROVE  /\ g \in Seq(S)
                      /\ Len(g) = n - 1
                      /\ IsInjective(g)
                      /\ \A x : Contains(g, x) <=> Contains(f, x) /\ x # f[i]
  BY <1>1 DEF SwapRemoved
<1>3. \A j \in 1 .. n : f[j] \in S /\ h[j] = IF j = i THEN f[n] ELSE f[j]
  BY <1>1, <1>2
<1>4. /\ g \in Seq(S) /\ Len(g) = n - 1
      /\ \A j \in 1 .. (n - 1) : g[j] = IF j = i THEN f[n] ELSE f[j]
  <2>1. n - 1 \in Int /\ 1 \in Int /\ \A j \in 1 .. (n - 1) : h[j] \in S
    BY <1>2, <1>3
  <2>2. /\ g \in Seq(S)
        /\ Len(g) = IF 1 <= n - 1 THEN n - 1 - 1 + 1 ELSE 0
        /\ \A j \in 1 .. (n - 1 - 1 + 1) : g[j] = h[1 + j - 1]
    BY <1>2, <2>1, SubSeqProperties
  <2>3. n - 1 - 1 + 1 = n - 1 /\ (~(1 <= n - 1) => n - 1 = 0)
    BY <1>2
  <2>4. \A j \in 1 .. (n - 1) : g[j] = h[j]
    BY <1>2, <2>2, <2>3
  <2>5. Len(g) = n - 1
    BY <2>2, <2>3
  <2>6. \A j \in 1 .. (n - 1) : h[j] = IF j = i THEN f[n] ELSE f[j]
    BY <1>2, <1>3
  <2>7. QED
    BY <2>2, <2>4, <2>5, <2>6
<1>5. DOMAIN g = 1 .. (n - 1)
  BY <1>4
<1>6. \A j, k \in 1 .. n : f[j] = f[k] => j = k
  BY <1>1, <1>2 DEF IsInjective
<1>7. IsInjective(g)
  <2>1. SUFFICES ASSUME NEW j \in 1 .. (n - 1), NEW k \in 1 .. (n - 1), g[j] = g[k]
                 PROVE  j = k
    BY <1>5 DEF IsInjective
  <2>2. j \in 1 .. n /\ k \in 1 .. n /\ j # n /\ k # n /\ n \in 1 .. n
    BY <1>2
  <2>3. QED
    BY <1>4, <1>6, <2>1, <2>2
<1>8. ASSUME NEW x PROVE Contains(g, x) <=> Contains(f, x) /\ x # f[i]
  <2>1. ASSUME Contains(g, x) PROVE Contains(f, x) /\ x # f[i]
    <3>1. PICK j \in 1 .. (n - 1) : g[j] = x
      BY <1>4, <2>1 DEF Contains
    <3>2. j \in 1 .. n /\ n \in 1 .. n /\ j # n /\ i \in 1 .. n
      BY <1>2
    <3>3. QED
      BY <1>2, <1>4, <1>6, <3>1, <3>2 DEF Contains
  <2>2. ASSUME Contains(f, x), x # f[i] PROVE Contains(g, x)
    <3>1. PICK j \in 1 .. n : f[j] = x
      BY <1>2, <2>2 DEF Contains
    <3>2. CASE j = n
      <4>1. i \in 1 .. (n - 1)
        BY <1>2, <2>2, <3>1, <3>2
      <4>2. g[i] = x
        BY <1>4, <3>1, <3>2, <4>1
      <4>3. QED
        BY <1>4, <4>1, <4>2 DEF Contains
    <3>3. CASE j # n
      <4>1. j \in 1 .. (n - 1) /\ j # i
        BY <1>2, <2>2, <3>1, <3>3
      <4>2. g[j] = x
        BY <1>4, <3>1, <4>1
      <4>3. QED
        BY <1>4, <4>1, <4>2 DEF Contains
    <3>4. QED
      BY <3>2, <3>3
  <2>3. QED
    BY <2>1, <2>2
<1>9. QED
  BY <1>4, <1>7, <1>8

(* Appending what a list does not contain keeps it without repetitions.    *)
LEMMA AppendNew ==
  ASSUME NEW S, NEW f \in Seq(S), IsInjective(f), NEW e \in S, ~Contains(f, e),
         NEW g, g = Append(f, e)
  PROVE  /\ g \in Seq(S)
         /\ Len(g) = Len(f) + 1
         /\ IsInjective(g)
         /\ \A x : Contains(g, x) <=> Contains(f, x) \/ x = e
<1>1. /\ Len(f) \in Nat /\ DOMAIN f = 1 .. Len(f)
      /\ g \in Seq(S) /\ Len(g) = Len(f) + 1 /\ DOMAIN g = 1 .. Len(f) + 1
      /\ \A j \in 1 .. Len(f) : g[j] = f[j]
      /\ g[Len(f) + 1] = e
  OBVIOUS
<1>2. \A j \in 1 .. Len(f) + 1 : j \in 1 .. Len(f) \/ j = Len(f) + 1
  BY <1>1
<1>3. IsInjective(g)
  <2>1. SUFFICES ASSUME NEW j \in 1 .. Len(f) + 1, NEW k \in 1 .. Len(f) + 1, g[j] = g[k]
                 PROVE  j = k
    BY <1>1 DEF IsInjective
  <2>2. \A l \in 1 .. Len(f) : f[l] # e
    BY DEF Contains
  <2>3. \A l, m \in 1 .. Len(f) : f[l] = f[m] => l = m
    BY <1>1 DEF IsInjective
  <2>4. QED
    BY <1>1, <1>2, <2>1, <2>2, <2>3
<1>4. ASSUME NEW x PROVE Contains(g, x) <=> Contains(f, x) \/ x = e
  <2>1. Contains(g, x) <=> \E j \in 1 .. Len(f) + 1 : g[j] = x
    BY <1>1 DEF Contains
  <2>2. Len(f) + 1 \in 1 .. Len(f) + 1 /\ \A j \in 1 .. Len(f) : j \in 1 .. Len(f) + 1
    BY <1>1
  <2>3. QED
    BY <1>1, <1>2, <2>1, <2>2 DEF Contains
<1>5. QED
  BY <1>1, <1>3, <1>4

(* The first place of an entry, as pincSdl2RemoveWindow looks for it.      *)
FirstPlace(f, w) ==
  CHOOSE j \in DOMAIN f : f[j] = w /\ \A k \in 1 .. (j - 1) : f[k] # w

(* pincSdl2RemoveWindow's search finds the entry, which is removed.        *)
LEMMA RemoveEntry ==
  ASSUME NEW S, NEW f \in Seq(S), IsInjective(f), NEW w, Contains(f, w),
         NEW i, i = FirstPlace(f, w),
         NEW g, g = SwapRemoved(f, i)
  PROVE  /\ g \in Seq(S)
         /\ Len(g) <= Len(f)
         /\ IsInjective(g)
         /\ \A x : Contains(g, x) <=> Contains(f, x) /\ x # w
<1>1. Len(f) \in Nat /\ DOMAIN f = 1 .. Len(f)
  OBVIOUS
<1>2. \E j \in DOMAIN f : f[j] = w /\ \A k \in 1 .. (j - 1) : f[k] # w
  <2>1. PICK j \in 1 .. Len(f) : f[j] = w
    BY DEF Contains
  <2>2. ASSUME NEW k \in 1 .. (j - 1) PROVE f[k] # w
    <3>1. k \in 1 .. Len(f) /\ k # j
      BY <1>1, <2>1
    <3>2. QED
      BY <1>1, <2>1, <3>1 DEF IsInjective
  <2>3. QED
    BY <1>1, <2>1, <2>2
<1>3. i \in 1 .. Len(f) /\ f[i] = w
  BY <1>1, <1>2 DEF FirstPlace
<1>4. /\ g \in Seq(S) /\ Len(g) = Len(f) - 1 /\ IsInjective(g)
      /\ \A x : Contains(g, x) <=> Contains(f, x) /\ x # f[i]
  BY <1>3, SwapRemove
<1>5. Len(g) <= Len(f)
  BY <1>1, <1>4
<1>6. \A x : Contains(g, x) <=> Contains(f, x) /\ x # w
  BY <1>3, <1>4, Zenon
<1>7. QED
  BY <1>4, <1>5, <1>6

-----------------------------------------------------------------------------
(* What the backend's operations do to each field of its struct.  While    *)
(* SDL_CreateWindow succeeds, every window that is open is SDL's too, so   *)
(* that the dummy window is never unusable.                                *)

(* pincSdl2RemoveWindow *)
LEMMA RemoveFields ==
  ASSUME NEW b \in Backends, NEW w \in Windows, IsInjective(b.list),
         NEW r, r = RemoveWindow(b, w)
  PROVE  /\ r \in Backends
         /\ r.allocated = b.allocated /\ r.real = b.real /\ r.front = b.front
         /\ r.capacity = b.capacity /\ r.dummy = b.dummy
         /\ w # b.dummy => r.inUse = b.inUse
         /\ IsInjective(r.list) /\ Len(r.list) <= Len(b.list)
         /\ \A x : Contains(r.list, x) <=> Contains(b.list, x) /\ x # w
<1>1. b.list \in Seq(Windows) /\ Len(b.list) \in Nat
  BY DEF Backends
<1>2. CASE ~Contains(b.list, w)
  <2>1. r = b
    BY <1>2 DEF RemoveWindow
  <2>2. QED
    BY <1>1, <1>2, <2>1
<1>3. CASE Contains(b.list, w)
  <2>1. SUFFICES ASSUME NEW f \in Seq(Windows), f = b.list,
                        NEW i, i = FirstPlace(f, w),
                        NEW g, g = SwapRemoved(f, i),
                        NEW u \in BOOLEAN, w # b.dummy => u = b.inUse,
                        r = [b EXCEPT !.list = g, !.inUse = u]
                 PROVE  /\ r \in Backends
                        /\ r.allocated = b.allocated /\ r.real = b.real /\ r.front = b.front
                        /\ r.capacity = b.capacity /\ r.dummy = b.dummy
                        /\ w # b.dummy => r.inUse = b.inUse
                        /\ IsInjective(r.list) /\ Len(r.list) <= Len(b.list)
                        /\ \A x : Contains(r.list, x) <=> Contains(b.list, x) /\ x # w
    <3>1. (IF w = b.dummy THEN FALSE ELSE b.inUse) \in BOOLEAN
      BY DEF Backends
    <3>2. r = [b EXCEPT !.list = SwapRemoved(b.list, FirstPlace(b.list, w)),
                        !.inUse = IF w = b.dummy THEN FALSE ELSE b.inUse]
      BY <1>3 DEF RemoveWindow, FirstPlace, SwapRemoved
    <3>3. QED
      BY <1>1, <2>1, <3>1, <3>2
  <2>2. /\ g \in Seq(Windows) /\ Len(g) <= Len(f) /\ IsInjective(g)
        /\ \A x : Contains(g, x) <=> Contains(f, x) /\ x # w
    <3>1. IsInjective(f) /\ Contains(f, w)
      BY <1>3, <2>1, Zenon
    <3>2. QED
      BY <2>1, <3>1, RemoveEntry
  <2>3. /\ r.allocated = b.allocated /\ r.real = b.real /\ r.front = b.front
        /\ r.list = g /\ r.capacity = b.capacity /\ r.dummy = b.dummy /\ r.inUse = u
    BY <2>1 DEF Backends
  <2>4. r \in Backends
    BY <2>1, <2>2 DEF Backends
  <2>5. QED
    <3>1. /\ IsInjective(r.list) /\ Len(r.list) <= Len(b.list)
          /\ \A x : Contains(r.list, x) <=> Contains(b.list, x) /\ x # w
      BY <2>1, <2>2, <2>3, Zenon
    <3>2. QED
      BY <2>1, <2>3, <2>4, <3>1
<1>4. QED
  BY <1>2, <1>3

(* pincSdl2deinitWindow of the dummy window and of any other. *)
LEMMA DeinitFields ==
  ASSUME NEW b \in Backends, NEW w \in Windows, IsInjective(b.list),
         NEW r, r = DeinitWindow(b, w)
  PROVE  /\ r \in Backends
         /\ r.capacity = b.capacity /\ r.dummy = b.dummy
         /\ IsInjective(r.list) /\ Len(r.list) <= Len(b.list)
         /\ \A x : Contains(r.list, x) <=> Contains(b.list, x) /\ x # w
         /\ w = b.dummy =>
              /\ r.allocated = b.allocated /\ r.real = b.real /\ r.front = b.front
              /\ ~r.inUse
         /\ w # b.dummy =>
              /\ r.allocated = b.allocated \ {w} /\ r.real = b.real \ {w}
              /\ \A v \in Windows : v # w => r.front[v] = b.front[v]
              /\ r.inUse = b.inUse
<1> DEFINE m == RemoveWindow(b, w)
<1>1. /\ m \in Backends
      /\ m.allocated = b.allocated /\ m.real = b.real /\ m.front = b.front
      /\ m.capacity = b.capacity /\ m.dummy = b.dummy
      /\ w # b.dummy => m.inUse = b.inUse
      /\ IsInjective(m.list) /\ Len(m.list) <= Len(b.list)
      /\ \A x : Contains(m.list, x) <=> Contains(b.list, x) /\ x # w
  BY RemoveFields
<1>r. r = IF w = b.dummy THEN [m EXCEPT !.inUse = FALSE]
          ELSE [m EXCEPT !.allocated = m.allocated \ {w}, !.real = m.real \ {w},
                         !.front = [m.front EXCEPT ![w] = NoHandle]]
  BY DEF DeinitWindow
<1> HIDE DEF m
<1>2. r.list = m.list
  BY <1>1, <1>r DEF Backends
<1>3. /\ IsInjective(r.list) /\ Len(r.list) <= Len(b.list)
      /\ \A x : Contains(r.list, x) <=> Contains(b.list, x) /\ x # w
  BY <1>1, <1>2, Zenon
<1>4. CASE w = b.dummy
  <2>1. r = [m EXCEPT !.inUse = FALSE]
    BY <1>r, <1>4
  <2>2. r \in Backends
    BY <1>1, <2>1 DEF Backends
  <2>3. /\ r.allocated = m.allocated /\ r.real = m.real /\ r.front = m.front
        /\ r.capacity = m.capacity /\ r.dummy = m.dummy /\ ~r.inUse
    BY <1>1, <2>1 DEF Backends
  <2>4. QED
    BY <1>1, <1>3, <1>4, <2>2, <2>3
<1>5. CASE w # b.dummy
  <2>1. r = [m EXCEPT !.allocated = m.allocated \ {w}, !.real = m.real \ {w},
                      !.front = [m.front EXCEPT ![w] = NoHandle]]
    BY <1>r, <1>5
  <2>2. /\ m.allocated \ {w} \in SUBSET Windows /\ m.real \ {w} \in SUBSET Windows
        /\ [m.front EXCEPT ![w] = NoHandle] \in [Windows -> Handles \cup {NoHandle}]
    BY <1>1 DEF Backends
  <2>3. r \in Backends
    BY <1>1, <2>1, <2>2 DEF Backends
  <2>4. /\ r.allocated = m.allocated \ {w} /\ r.real = m.real \ {w}
        /\ r.front = [m.front EXCEPT ![w] = NoHandle]
        /\ r.capacity = m.capacity /\ r.dummy = m.dummy /\ r.inUse = m.inUse
    BY <1>1, <2>1 DEF Backends
  <2>5. \A v \in Windows : v # w => r.front[v] = b.front[v]
    BY <1>1, <2>4 DEF Backends
  <2>6. QED
    BY <1>1, <1>3, <1>5, <2>3, <2>4, <2>5
<1>6. QED
  BY <1>4, <1>5

(* SDL makes the window it is asked for. *)
Opened(b, h, w) == OpenWindow(b, h, w, TRUE)

(* Whom a window may be opened for. *)
Fronts == Handles \cup {NoHandle}

(* Opening window w for h. *)
LEMMA OpenFields ==
  ASSUME NEW b \in Backends, NEW h \in Fronts, NEW w \in Windows,
         IsInjective(b.list), ~Contains(b.list, w), Len(b.list) <= b.capacity,
         NEW r, r = Opened(b, h, w)
  PROVE  /\ r \in Backends
         /\ r.allocated = b.allocated \cup {w} /\ r.real = b.real \cup {w}
         /\ \A v \in Windows : r.front[v] = IF v = w THEN h ELSE b.front[v]
         /\ IsInjective(r.list) /\ Len(r.list) <= r.capacity
         /\ \A x : Contains(r.list, x) <=> Contains(b.list, x) \/ x = w
         /\ b.dummy = NoWindow => r.dummy = w /\ r.inUse
         /\ b.dummy # NoWindow => r.dummy = b.dummy /\ r.inUse = b.inUse
<1> DEFINE f == b.list
           g == Append(f, w)
           c == b.capacity
           d == IF c = Len(f) THEN Grown(c) ELSE c
           m == [b EXCEPT !.allocated = b.allocated \cup {w}, !.real = b.real \cup {w},
                          !.front = [b.front EXCEPT ![w] = h], !.list = g, !.capacity = d]
<1>1. /\ f \in Seq(Windows) /\ c \in Nat /\ Len(f) <= c
      /\ IsInjective(f) /\ ~Contains(f, w)
  BY DEF Backends
<1>r. r = IF b.dummy = NoWindow THEN [m EXCEPT !.dummy = w, !.inUse = TRUE] ELSE m
  BY DEF Opened, OpenWindow, AddWindow, Backends
<1>m. m = [b EXCEPT !.allocated = b.allocated \cup {w}, !.real = b.real \cup {w},
                    !.front = [b.front EXCEPT ![w] = h], !.list = g, !.capacity = d]
  OBVIOUS
<1>g. g = Append(f, w) /\ d = IF c = Len(f) THEN Grown(c) ELSE c
  OBVIOUS
<1>f. f = b.list /\ c = b.capacity
  OBVIOUS
<1> HIDE DEF f, g, c, d, m
<1>2. /\ g \in Seq(Windows) /\ Len(g) = Len(f) + 1 /\ IsInjective(g)
      /\ \A x : Contains(g, x) <=> Contains(f, x) \/ x = w
  BY <1>1, <1>g, AppendNew
<1>3. d \in Nat /\ Len(g) <= d
  <2>1. Len(f) \in Nat /\ Len(f) <= c
    BY <1>1
  <2>2. Grown(c) \in Nat /\ c < Grown(c)
    BY <1>1, GrownMakesRoom
  <2>3. QED
    BY <1>1, <1>2, <1>g, <2>1, <2>2
<1>4. /\ b.allocated \cup {w} \in SUBSET Windows /\ b.real \cup {w} \in SUBSET Windows
      /\ [b.front EXCEPT ![w] = h] \in [Windows -> Handles \cup {NoHandle}]
  BY DEF Backends, Fronts
<1>5. /\ m \in Backends
      /\ m.allocated = b.allocated \cup {w} /\ m.real = b.real \cup {w}
      /\ m.front = [b.front EXCEPT ![w] = h]
      /\ m.list = g /\ m.capacity = d /\ m.dummy = b.dummy /\ m.inUse = b.inUse
  BY <1>m, <1>2, <1>3, <1>4 DEF Backends
<1>6. /\ r \in Backends
      /\ r.allocated = m.allocated /\ r.real = m.real /\ r.front = m.front
      /\ r.list = m.list /\ r.capacity = m.capacity
      /\ b.dummy = NoWindow => r.dummy = w /\ r.inUse
      /\ b.dummy # NoWindow => r.dummy = b.dummy /\ r.inUse = b.inUse
  <2>1. CASE b.dummy = NoWindow
    <3>1. r = [m EXCEPT !.dummy = w, !.inUse = TRUE]
      BY <1>r, <2>1
    <3>2. r \in Backends
      BY <1>5, <3>1 DEF Backends
    <3>3. QED
      BY <1>5, <2>1, <3>1, <3>2 DEF Backends
  <2>2. CASE b.dummy # NoWindow
    BY <1>r, <1>5, <2>2
  <2>3. QED
    BY <2>1, <2>2
<1>7. r.list = g /\ Len(r.list) <= r.capacity
  BY <1>3, <1>5, <1>6
<1>8. /\ IsInjective(r.list)
      /\ \A x : Contains(r.list, x) <=> Contains(b.list, x) \/ x = w
  BY <1>2, <1>7, <1>f, Zenon
<1>9. \A v \in Windows : r.front[v] = IF v = w THEN h ELSE b.front[v]
  <2>1. b.front \in [Windows -> Handles \cup {NoHandle}]
    BY DEF Backends
  <2>2. r.front = [b.front EXCEPT ![w] = h]
    BY <1>5, <1>6
  <2>3. QED
    BY <2>1, <2>2
<1>10. QED
  BY <1>5, <1>6, <1>7, <1>8, <1>9

-----------------------------------------------------------------------------
(* The invariant, of window objects and a backend: the three properties of *)
(* the model, and that every open window is SDL's and the dummy window is  *)
(* open once there is one.                                                 *)
OwnedIn(win, x) == \E h \in Handles : win[h].kind = "window" /\ win[h].window = x

Typed(win, b) ==
  /\ win \in [Handles -> [kind : {"none", "incompleteWindow", "window"},
                          window : Windows \cup {NoWindow}]]
  /\ b \in Backends
  /\ b.allocated \subseteq b.real
  /\ b.dummy # NoWindow => b.dummy \in b.allocated

Owners(win, b) ==
  /\ \A h \in Handles : win[h].kind = "window" =>
       win[h].window \in b.allocated /\ b.front[win[h].window] = h
  /\ b.inUse <=> OwnedIn(win, b.dummy)

Listed(win, b) ==
  /\ IsInjective(b.list) /\ Len(b.list) <= b.capacity
  /\ \A x : Contains(b.list, x) => x = b.dummy \/ OwnedIn(win, x)
  /\ \A x : OwnedIn(win, x) => x = b.dummy \/ Contains(b.list, x)

Good(win, b) == Typed(win, b) /\ Owners(win, b) /\ Listed(win, b)

(* SDL_CreateWindow always succeeds. *)
NeverFails == Creations = {TRUE}

(* The null pointer is no window, and no handle is not a handle. *)
LEMMA Nulls == NoWindow \notin Windows /\ NoHandle \notin Handles
BY PincSdl2WindowsAssumption DEF NoHandle, Handles

(* Windows in use or listed are open. *)
LEMMA OwnedIsAllocated ==
  ASSUME NEW win, NEW b, Good(win, b)
  PROVE  /\ \A x : OwnedIn(win, x) => x \in b.allocated
         /\ \A x \in Windows : Contains(b.list, x) => x \in b.allocated
         /\ b.inUse => b.dummy # NoWindow
         /\ b.allocated \subseteq Windows /\ b.list \in Seq(Windows)
<1>1. b.allocated \subseteq Windows /\ b.list \in Seq(Windows)
  BY DEF Good, Typed, Backends
<1>2. \A x : OwnedIn(win, x) => x \in b.allocated
  BY DEF Good, Owners, OwnedIn
<1>3. b.inUse => b.dummy # NoWindow
  BY <1>1, <1>2, Nulls DEF Good, Owners
<1>4. \A x \in Windows : Contains(b.list, x) => x \in b.allocated
  BY <1>2, Nulls DEF Good, Typed, Listed
<1>5. QED
  BY <1>1, <1>2, <1>3, <1>4

(* pincSdl2completeWindow either gives away the spare dummy window, or     *)
(* opens a window when there is none to spare.                             *)
LEMMA CompleteCases ==
  ASSUME NeverFails,
         NEW win, NEW b, Good(win, b), NEW h, NEW r \in CompleteWindow(b, h)
  PROVE  \/ /\ b.dummy # NoWindow /\ ~b.inUse /\ r.window = b.dummy
            /\ r.backend = [b EXCEPT !.inUse = TRUE, !.front = [b.front EXCEPT ![b.dummy] = h]]
         \/ /\ b.dummy = NoWindow \/ b.inUse
            /\ \E w \in Windows \ b.allocated :
                 r.window = w /\ r.backend = Opened(b, h, w)
<1>1. Spare(b) <=> SpareUsable(b)
  BY DEF Good, Typed, Spare, SpareUsable
<1>2. CASE SpareUsable(b)
  <2>1. r = [backend |-> [b EXCEPT !.inUse = TRUE,
                                   !.front = [b.front EXCEPT ![b.dummy] = h]],
             window |-> b.dummy]
    BY <1>2 DEF CompleteWindow
  <2>2. /\ r.window = b.dummy
        /\ r.backend = [b EXCEPT !.inUse = TRUE, !.front = [b.front EXCEPT ![b.dummy] = h]]
    BY <2>1
  <2>3. b.dummy # NoWindow /\ ~b.inUse
    BY <1>2 DEF Spare, SpareUsable
  <2>4. QED
    BY <2>2, <2>3
<1>3. CASE ~SpareUsable(b)
  <2>1. DropUnusable(b) = b
    BY <1>1, <1>3 DEF DropUnusable
  <2>2. PICK w \in Windows \ b.allocated :
          r = [backend |-> Opened(b, h, w), window |-> w]
    <3>1. PICK v \in Windows \ DropUnusable(b).allocated, c \in Creations :
            r = [backend |-> OpenWindow(DropUnusable(b), h, v, c), window |-> v]
      BY <1>3 DEF CompleteWindow
    <3>2. c = TRUE
      BY DEF NeverFails
    <3>3. QED
      BY <2>1, <3>1, <3>2 DEF Opened
  <2>3. r.window = w /\ r.backend = Opened(b, h, w)
    BY <2>2
  <2>4. QED
    BY <1>1, <1>3, <2>3 DEF Spare
<1>4. QED
  BY <1>2, <1>3

(* A window object is completed. *)
LEMMA CompleteGood ==
  ASSUME NeverFails,
         NEW win, NEW b, Good(win, b), NEW h \in Handles, win[h].kind # "window",
         NEW r \in CompleteWindow(b, h),
         NEW win2, win2 = [win EXCEPT ![h] = Complete(r.window)]
  PROVE  Good(win2, r.backend)
<1>1. SUFFICES ASSUME NEW b2, b2 = r.backend, NEW w, w = r.window
               PROVE  Good(win2, b2)
  OBVIOUS
<1>2. CASE /\ b.dummy # NoWindow /\ ~b.inUse /\ w = b.dummy
           /\ b2 = [b EXCEPT !.inUse = TRUE, !.front = [b.front EXCEPT ![b.dummy] = h]]
  <2>1. b \in Backends /\ w \in Windows /\ w \in b.allocated
    BY <1>2 DEF Good, Typed, Backends
  <2>2. /\ b2 \in Backends
        /\ b2.allocated = b.allocated /\ b2.real = b.real /\ b2.dummy = b.dummy
        /\ b2.list = b.list /\ b2.capacity = b.capacity
        /\ b2.front = [b.front EXCEPT ![w] = h] /\ b2.inUse
    BY <1>2, <2>1 DEF Backends
  <2>3. ~OwnedIn(win, w)
    BY <1>2 DEF Good, Owners
  <2>4. Typed(win2, b2)
    BY <1>1, <2>1, <2>2 DEF Good, Typed, Complete
  <2>5. \A g \in Handles : win2[g] = IF g = h THEN Complete(w) ELSE win[g]
    BY <1>1 DEF Good, Typed
  <2>6. \A x : OwnedIn(win2, x) <=> OwnedIn(win, x) \/ x = w
    BY <2>5 DEF OwnedIn, Complete
  <2>7. Owners(win2, b2)
    <3>1. ASSUME NEW g \in Handles, win2[g].kind = "window"
          PROVE  win2[g].window \in b2.allocated /\ b2.front[win2[g].window] = g
      <4>1. b.front \in [Windows -> Handles \cup {NoHandle}] /\ b.allocated \subseteq Windows
        BY <2>1 DEF Backends
      <4>2. CASE g = h
        BY <2>1, <2>2, <2>5, <4>1, <4>2 DEF Complete
      <4>3. CASE g # h
        <5>1. win[g].kind = "window" /\ win2[g] = win[g] /\ win[g].window # w
          BY <2>3, <2>5, <3>1, <4>3 DEF OwnedIn
        <5>2. win[g].window \in b.allocated /\ b.front[win[g].window] = g
          BY <5>1 DEF Good, Owners
        <5>3. QED
          BY <2>1, <2>2, <4>1, <5>1, <5>2
      <4>4. QED
        BY <4>2, <4>3
    <3>2. b2.inUse /\ OwnedIn(win2, b2.dummy)
      BY <1>2, <2>2, <2>6
    <3>3. QED
      BY <3>1, <3>2 DEF Owners
  <2>8. Listed(win2, b2)
    BY <1>2, <2>2, <2>6 DEF Good, Listed
  <2>9. QED
    BY <2>4, <2>7, <2>8 DEF Good
<1>3. CASE /\ b.dummy = NoWindow \/ b.inUse
           /\ w \in Windows \ b.allocated /\ b2 = Opened(b, h, w)
  <2>1. b \in Backends /\ w \in Windows /\ w \notin b.allocated
    BY <1>3 DEF Good, Typed
  <2>2. /\ IsInjective(b.list) /\ ~Contains(b.list, w) /\ Len(b.list) <= b.capacity
        /\ b.allocated \subseteq Windows
        /\ \A x : OwnedIn(win, x) => x \in b.allocated
    BY <2>1, OwnedIsAllocated DEF Good, Listed
  <2>3. /\ b2 \in Backends
        /\ b2.allocated = b.allocated \cup {w} /\ b2.real = b.real \cup {w}
        /\ \A v \in Windows : b2.front[v] = IF v = w THEN h ELSE b.front[v]
        /\ IsInjective(b2.list) /\ Len(b2.list) <= b2.capacity
        /\ \A x : Contains(b2.list, x) <=> Contains(b.list, x) \/ x = w
        /\ b.dummy = NoWindow => b2.dummy = w /\ b2.inUse
        /\ b.dummy # NoWindow => b2.dummy = b.dummy /\ b2.inUse = b.inUse
    <3>1. h \in Fronts /\ b2 = Opened(b, h, w)
      BY <1>3 DEF Fronts
    <3>2. QED
      BY <2>1, <2>2, <3>1, OpenFields
  <2>4. Typed(win2, b2)
    BY <1>1, <2>1, <2>3 DEF Good, Typed, Complete
  <2>5. \A g \in Handles : win2[g] = IF g = h THEN Complete(w) ELSE win[g]
    BY <1>1 DEF Good, Typed
  <2>6. \A x : OwnedIn(win2, x) <=> OwnedIn(win, x) \/ x = w
    BY <2>5 DEF OwnedIn, Complete
  <2>7. Owners(win2, b2)
    <3>1. ASSUME NEW g \in Handles, win2[g].kind = "window"
          PROVE  win2[g].window \in b2.allocated /\ b2.front[win2[g].window] = g
      <4>1. b.front \in [Windows -> Handles \cup {NoHandle}]
        BY <2>1 DEF Backends
      <4>2. CASE g = h
        BY <2>1, <2>3, <2>5, <4>1, <4>2 DEF Complete
      <4>3. CASE g # h
        <5>1. win[g].kind = "window" /\ win2[g] = win[g]
          BY <2>5, <3>1, <4>3
        <5>2. win[g].window \in b.allocated /\ b.front[win[g].window] = g
          BY <5>1 DEF Good, Owners
        <5>3. win[g].window \in Windows /\ win[g].window # w
          BY <2>1, <2>2, <5>2
        <5>4. QED
          BY <2>3, <4>1, <5>1, <5>2, <5>3
      <4>4. QED
        BY <4>2, <4>3
    <3>2. b2.inUse /\ OwnedIn(win2, b2.dummy)
      <4>1. CASE b.dummy = NoWindow
        BY <2>3, <2>6, <4>1
      <4>2. CASE b.dummy # NoWindow
        BY <1>3, <2>3, <2>6, <4>2 DEF Good, Owners
      <4>3. QED
        BY <4>1, <4>2
    <3>3. QED
      BY <3>1, <3>2 DEF Owners
  <2>8. Listed(win2, b2)
    <3>1. \A x : Contains(b2.list, x) => x = b2.dummy \/ OwnedIn(win2, x)
      <4>1. ASSUME NEW x, Contains(b2.list, x) PROVE x = b2.dummy \/ OwnedIn(win2, x)
        <5>1. CASE x = w
          BY <2>6, <5>1
        <5>2. CASE Contains(b.list, x)
          <6>1. x = b.dummy \/ OwnedIn(win, x)
            BY <5>2 DEF Good, Listed
          <6>2. x # NoWindow
            BY <5>2, OwnedIsAllocated, Nulls DEF Contains
          <6>3. QED
            BY <2>3, <2>6, <6>1, <6>2
        <5>3. QED
          BY <2>3, <4>1, <5>1, <5>2
      <4>2. QED
        BY <4>1
    <3>2. \A x : OwnedIn(win2, x) => x = b2.dummy \/ Contains(b2.list, x)
      <4>1. ASSUME NEW x, OwnedIn(win2, x) PROVE x = b2.dummy \/ Contains(b2.list, x)
        <5>1. CASE x = w
          BY <2>3, <5>1
        <5>2. CASE OwnedIn(win, x)
          <6>1. x = b.dummy \/ Contains(b.list, x)
            BY <5>2 DEF Good, Listed
          <6>2. x # NoWindow
            BY <2>2, <5>2, Nulls
          <6>3. QED
            BY <2>3, <6>1, <6>2
        <5>3. QED
          BY <2>6, <4>1, <5>1, <5>2
      <4>2. QED
        BY <4>1
    <3>3. QED
      BY <2>3, <3>1, <3>2 DEF Listed
  <2>9. QED
    BY <2>4, <2>7, <2>8 DEF Good
<1>4. QED
  BY <1>1, <1>2, <1>3, CompleteCases

(* A dummy window is opened for OpenGL, if there is none: nobody's. *)
LEMMA DummyGood ==
  ASSUME NeverFails, NEW win, NEW b, Good(win, b), NEW d \in GetDummyWindow(b)
  PROVE  Good(win, d)
<1>1. CASE b.dummy # NoWindow
  BY <1>1 DEF GetDummyWindow
<1>2. CASE b.dummy = NoWindow
  <2>1. PICK r \in CompleteWindow(b, NoHandle) : d = [r.backend EXCEPT !.inUse = FALSE]
    BY <1>2 DEF GetDummyWindow
  <2>2. PICK w \in Windows \ b.allocated : r.backend = Opened(b, NoHandle, w)
    BY <1>2, CompleteCases
  <2>3. b \in Backends /\ w \in Windows /\ w \notin b.allocated
    BY DEF Good, Typed
  <2>4. /\ IsInjective(b.list) /\ ~Contains(b.list, w) /\ Len(b.list) <= b.capacity
        /\ b.allocated \subseteq Windows
        /\ \A x : OwnedIn(win, x) => x \in b.allocated
    BY <2>3, OwnedIsAllocated DEF Good, Listed
  <2>5. SUFFICES ASSUME NEW m, m = r.backend, m \in Backends,
                        m.allocated = b.allocated \cup {w}, m.real = b.real \cup {w},
                        \A v \in Windows : m.front[v] = IF v = w THEN NoHandle ELSE b.front[v],
                        IsInjective(m.list), Len(m.list) <= m.capacity,
                        \A x : Contains(m.list, x) <=> Contains(b.list, x) \/ x = w,
                        m.dummy = w
                 PROVE  Good(win, d)
    <3>1. NoHandle \in Fronts
      BY DEF Fronts
    <3>2. ASSUME NEW h \in Fronts, NEW m, m = Opened(b, h, w)
          PROVE  /\ m \in Backends
                 /\ m.allocated = b.allocated \cup {w} /\ m.real = b.real \cup {w}
                 /\ \A v \in Windows : m.front[v] = IF v = w THEN h ELSE b.front[v]
                 /\ IsInjective(m.list) /\ Len(m.list) <= m.capacity
                 /\ \A x : Contains(m.list, x) <=> Contains(b.list, x) \/ x = w
                 /\ m.dummy = w
      <4>1. IsInjective(b.list) /\ ~Contains(b.list, w) /\ Len(b.list) <= b.capacity
        BY <2>4
      <4>2. /\ m \in Backends
            /\ m.allocated = b.allocated \cup {w} /\ m.real = b.real \cup {w}
            /\ \A v \in Windows : m.front[v] = IF v = w THEN h ELSE b.front[v]
            /\ IsInjective(m.list) /\ Len(m.list) <= m.capacity
            /\ \A x : Contains(m.list, x) <=> Contains(b.list, x) \/ x = w
            /\ b.dummy = NoWindow => m.dummy = w /\ m.inUse
        BY <2>3, <3>2, <4>1, OpenFields
      <4>3. QED
        BY <1>2, <4>2
    <3>3. QED
      BY <2>2, <3>1, <3>2
  <2>6. d = [m EXCEPT !.inUse = FALSE]
    BY <2>1, <2>5
  <2>7. /\ d \in Backends
        /\ d.allocated = m.allocated /\ d.real = m.real /\ d.front = m.front
        /\ d.list = m.list /\ d.capacity = m.capacity /\ d.dummy = m.dummy /\ ~d.inUse
    BY <2>5, <2>6 DEF Backends
  <2>8. Typed(win, d)
    BY <2>5, <2>7 DEF Good, Typed
  <2>9. Owners(win, d)
    <3>1. ASSUME NEW g \in Handles, win[g].kind = "window"
          PROVE  win[g].window \in d.allocated /\ d.front[win[g].window] = g
      <4>1. win[g].window \in b.allocated /\ b.front[win[g].window] = g
        BY <3>1 DEF Good, Owners
      <4>2. win[g].window \in Windows /\ win[g].window # w
        BY <2>3, <2>4, <4>1
      <4>3. QED
        BY <2>5, <2>7, <4>1, <4>2
    <3>2. ~d.inUse /\ ~OwnedIn(win, d.dummy)
      BY <2>3, <2>4, <2>5, <2>7
    <3>3. QED
      BY <3>1, <3>2 DEF Owners
  <2>10. Listed(win, d)
    <3>1. \A x : Contains(d.list, x) => x = d.dummy \/ OwnedIn(win, x)
      <4>1. ASSUME NEW x, Contains(d.list, x), x # w PROVE OwnedIn(win, x)
        <5>1. Contains(b.list, x)
          BY <2>5, <2>7, <4>1
        <5>2. x # NoWindow
          BY <5>1, OwnedIsAllocated, Nulls DEF Contains
        <5>3. QED
          BY <1>2, <5>1, <5>2 DEF Good, Listed
      <4>2. QED
        BY <2>5, <2>7, <4>1
    <3>2. \A x : OwnedIn(win, x) => x = d.dummy \/ Contains(d.list, x)
      <4>1. ASSUME NEW x, OwnedIn(win, x) PROVE Contains(d.list, x)
        <5>1. x # NoWindow
          BY <2>4, <4>1, Nulls
        <5>2. Contains(b.list, x)
          BY <1>2, <4>1, <5>1 DEF Good, Listed
        <5>3. QED
          BY <2>5, <2>7, <5>2
      <4>2. QED
        BY <4>1
    <3>3. QED
      BY <2>5, <2>7, <3>1, <3>2 DEF Listed
  <2>11. QED
    BY <2>8, <2>9, <2>10 DEF Good
<1>3. QED
  BY <1>1, <1>2

(* A complete window is destroyed: nobody else has its window. *)
LEMMA DeinitGood ==
  ASSUME NEW win, NEW b, Good(win, b), NEW h \in Handles, win[h].kind = "window",
         NEW win2, win2 = [win EXCEPT ![h] = NoObject],
         NEW r, r = DeinitWindow(b, win[h].window)
  PROVE  Good(win2, r)
<1>1. SUFFICES ASSUME NEW w, w = win[h].window, r = DeinitWindow(b, w)
               PROVE  Good(win2, r)
  OBVIOUS
<1>2. /\ b \in Backends /\ w \in b.allocated /\ w \in Windows
      /\ b.allocated \subseteq Windows /\ IsInjective(b.list) /\ Len(b.list) <= b.capacity
  BY <1>1, OwnedIsAllocated DEF Good, Typed, Owners, Listed
<1>3. /\ r \in Backends
      /\ r.capacity = b.capacity /\ r.dummy = b.dummy
      /\ IsInjective(r.list) /\ Len(r.list) <= Len(b.list)
      /\ \A x : Contains(r.list, x) <=> Contains(b.list, x) /\ x # w
      /\ w = b.dummy =>
           /\ r.allocated = b.allocated /\ r.real = b.real /\ r.front = b.front
           /\ ~r.inUse
      /\ w # b.dummy =>
           /\ r.allocated = b.allocated \ {w} /\ r.real = b.real \ {w}
           /\ \A v \in Windows : v # w => r.front[v] = b.front[v]
           /\ r.inUse = b.inUse
  BY <1>1, <1>2, DeinitFields
<1>4. \A g \in Handles : win2[g] = IF g = h THEN NoObject ELSE win[g]
  BY DEF Good, Typed
<1>5. \A g \in Handles : win[g].kind = "window" /\ win[g].window = w => g = h
  BY <1>1 DEF Good, Owners
<1>6. \A x : OwnedIn(win2, x) <=> OwnedIn(win, x) /\ x # w
  <2>1. ASSUME NEW x, OwnedIn(win2, x) PROVE OwnedIn(win, x) /\ x # w
    BY <1>4, <1>5, <2>1 DEF OwnedIn, NoObject
  <2>2. ASSUME NEW x, OwnedIn(win, x), x # w PROVE OwnedIn(win2, x)
    <3>1. PICK g \in Handles : win[g].kind = "window" /\ win[g].window = x
      BY <2>2 DEF OwnedIn
    <3>2. win2[g] = win[g]
      BY <1>1, <1>4, <2>2, <3>1
    <3>3. QED
      BY <3>1, <3>2 DEF OwnedIn
  <2>3. QED
    BY <2>1, <2>2
<1>7. OwnedIn(win, w)
  BY <1>1 DEF OwnedIn
<1>8. Typed(win2, r)
  <2>1. win2 \in [Handles -> [kind : {"none", "incompleteWindow", "window"},
                              window : Windows \cup {NoWindow}]]
    BY DEF Good, Typed, NoObject
  <2>2. r.allocated \subseteq r.real /\ (r.dummy # NoWindow => r.dummy \in r.allocated)
    BY <1>3 DEF Good, Typed
  <2>3. QED
    BY <1>3, <2>1, <2>2 DEF Typed
<1>9. Owners(win2, r)
  <2>1. ASSUME NEW g \in Handles, win2[g].kind = "window"
        PROVE  win2[g].window \in r.allocated /\ r.front[win2[g].window] = g
    <3>1. g # h /\ win2[g] = win[g] /\ win[g].kind = "window" /\ win[g].window # w
      BY <1>4, <1>5, <2>1 DEF NoObject
    <3>2. win[g].window \in b.allocated /\ b.front[win[g].window] = g
      BY <3>1 DEF Good, Owners
    <3>3. win[g].window \in Windows
      BY <1>2, <3>2
    <3>4. QED
      BY <1>3, <3>1, <3>2, <3>3
  <2>2. r.inUse <=> OwnedIn(win2, r.dummy)
    <3>1. CASE w = b.dummy
      BY <1>3, <1>6, <3>1
    <3>2. CASE w # b.dummy
      BY <1>3, <1>6, <3>2 DEF Good, Owners
    <3>3. QED
      BY <3>1, <3>2
  <2>3. QED
    BY <2>1, <2>2 DEF Owners
<1>10. Listed(win2, r)
  <2>1. \A x : Contains(r.list, x) => x = r.dummy \/ OwnedIn(win2, x)
    BY <1>3, <1>6 DEF Good, Listed
  <2>2. \A x : OwnedIn(win2, x) => x = r.dummy \/ Contains(r.list, x)
    BY <1>3, <1>6 DEF Good, Listed
  <2>3. Len(r.list) <= r.capacity
    <3>1. Len(r.list) \in Nat /\ Len(b.list) \in Nat /\ b.capacity \in Nat
      BY <1>2, <1>3 DEF Backends
    <3>2. QED
      BY <1>2, <1>3, <3>1
  <2>4. QED
    BY <1>3, <2>1, <2>2, <2>3 DEF Listed
<1>11. QED
  BY <1>8, <1>9, <1>10 DEF Good

(* Window objects without a window come and go. *)
LEMMA PlainGood ==
  ASSUME NEW win, NEW b, Good(win, b), NEW h \in Handles, win[h].kind # "window",
         NEW o \in {NoObject, Incomplete}, NEW win2, win2 = [win EXCEPT ![h] = o]
  PROVE  Good(win2, b)
<1>1. \A g \in Handles : win2[g] = IF g = h THEN o ELSE win[g]
  BY DEF Good, Typed
<1>2. o.kind # "window"
  BY DEF NoObject, Incomplete
<1>3. \A x : OwnedIn(win2, x) <=> OwnedIn(win, x)
  BY <1>1, <1>2 DEF OwnedIn
<1>4. Typed(win2, b)
  <2>1. o \in [kind : {"none", "incompleteWindow", "window"}, window : Windows \cup {NoWindow}]
    BY DEF NoObject, Incomplete
  <2>2. QED
    BY <2>1 DEF Good, Typed
<1>5. Owners(win2, b)
  <2>1. ASSUME NEW g \in Handles, win2[g].kind = "window"
        PROVE  win2[g].window \in b.allocated /\ b.front[win2[g].window] = g
    BY <1>1, <1>2, <2>1 DEF Good, Owners
  <2>2. b.inUse <=> OwnedIn(win2, b.dummy)
    BY <1>3, Zenon DEF Good, Owners
  <2>3. QED
    BY <2>1, <2>2 DEF Owners
<1>6. Listed(win2, b)
  BY <1>3 DEF Good, Listed
<1>7. QED
  BY <1>4, <1>5, <1>6 DEF Good

(* Before the library is initialised, and after pincDeinit. *)
LEMMA EmptyGood == Good([h \in Handles |-> NoObject], EmptyBackend)
<1>1. SUFFICES ASSUME NEW win, win = [h \in Handles |-> NoObject],
                      NEW b, b = EmptyBackend
               PROVE  Good(win, b)
  OBVIOUS
<1>2. \A h \in Handles : win[h] = NoObject /\ win[h].kind # "window"
  BY <1>1 DEF NoObject
<1>3. \A x : ~OwnedIn(win, x)
  BY <1>2 DEF OwnedIn
<1>4. /\ b.allocated = {} /\ b.real = {} /\ b.dummy = NoWindow /\ ~b.inUse
      /\ b.list = << >> /\ b.capacity = 0
  BY <1>1 DEF EmptyBackend
<1>5. << >> \in Seq(Windows) /\ Len(<< >>) = 0 /\ DOMAIN << >> = {}
  BY EmptySeq
<1>6. Typed(win, b)
  <2>1. b \in Backends
    BY <1>1, <1>5 DEF EmptyBackend, Backends
  <2>2. win \in [Handles -> [kind : {"none", "incompleteWindow", "window"},
                             window : Windows \cup {NoWindow}]]
    BY <1>1 DEF NoObject
  <2>3. QED
    BY <1>4, <2>1, <2>2 DEF Typed
<1>7. Owners(win, b)
  BY <1>2, <1>3, <1>4 DEF Owners
<1>8. Listed(win, b)
  <2>1. IsInjective(b.list) /\ Len(b.list) <= b.capacity /\ \A x : ~Contains(b.list, x)
    BY <1>4, <1>5 DEF IsInjective, Contains
  <2>2. QED
    BY <1>3, <2>1 DEF Listed
<1>9. QED
  BY <1>6, <1>7, <1>8 DEF Good

-----------------------------------------------------------------------------
Currents == [window : Windows \cup {NoWindow}, context : Contexts \cup {NoContext}]

(* The types of what is not a window. *)
Rest ==
  /\ contexts \in [Contexts -> {"none", "incomplete", "complete", "failed"}]
  /\ current \in Currents
  /\ error \in BOOLEAN
  /\ end \in Ends

IInv == Good(windows, backend) /\ Rest

(* Every type the model declares follows from the invariant. *)
LEMMA InvImpliesTypeOK == IInv => TypeOK
BY DEF IInv, Good, Typed, Rest, Currents, TypeOK

(* What is current is a pair of the right type, or nothing. *)
LEMMA NothingCurrentType == NothingCurrent \in Currents
BY DEF NothingCurrent, Currents

(* The windows keep the invariant when an object is created, *)
LEMMA CreateGood ==
  ASSUME IInv, NEW h \in Handles, WindowCreateIncomplete(h)
  PROVE  Good(windows', backend')
<1>1. windows[h].kind # "window"
  BY DEF WindowCreateIncomplete, NoObject
<1>2. windows' = [windows EXCEPT ![h] = Incomplete] /\ backend' = backend
  BY DEF WindowCreateIncomplete
<1>3. QED
  BY <1>1, <1>2, PlainGood DEF IInv

(* when it is completed, *)
LEMMA WindowCompleteGood ==
  ASSUME NeverFails, IInv, NEW h \in Handles, NEW valid, WindowComplete(h, valid)
  PROVE  Good(windows', backend')
<1>1. CASE UNCHANGED <<windows, backend>>
  BY <1>1 DEF IInv
<1>2. CASE \E r \in CompleteWindow(backend, h) :
             backend' = r.backend /\ windows' = [windows EXCEPT ![h] = Complete(r.window)]
  <2>1. windows[h].kind # "window"
    BY DEF WindowComplete
  <2>2. PICK r \in CompleteWindow(backend, h) :
          backend' = r.backend /\ windows' = [windows EXCEPT ![h] = Complete(r.window)]
    BY <1>2
  <2>3. Good(windows, backend)
    BY DEF IInv
  <2>4. Good(windows', r.backend)
    BY <2>1, <2>2, <2>3, CompleteGood
  <2>5. QED
    BY <2>2, <2>4
<1>3. QED
  BY <1>1, <1>2 DEF WindowComplete, End

(* and when it is destroyed. *)
LEMMA WindowDeinitGood ==
  ASSUME IInv, NEW h \in Handles, WindowDeinit(h)
  PROVE  Good(windows', backend')
<1>1. windows' = [windows EXCEPT ![h] = NoObject]
  BY DEF WindowDeinit
<1>2. CASE windows[h].kind = "window"
  <2>1. backend' = DeinitWindow(backend, windows[h].window)
    BY <1>2 DEF WindowDeinit
  <2>2. QED
    BY <1>1, <1>2, <2>1, DeinitGood DEF IInv
<1>3. CASE windows[h].kind # "window"
  <2>1. backend' = backend
    BY <1>3 DEF WindowDeinit
  <2>2. QED
    BY <1>1, <1>3, <2>1, PlainGood DEF IInv
<1>4. QED
  BY <1>2, <1>3

(* A step that touches no window, but may open the dummy window. *)
LEMMA ContextGood ==
  ASSUME NeverFails, IInv, UNCHANGED windows,
         backend' = backend \/ backend' \in GetDummyWindow(backend)
  PROVE  Good(windows', backend')
BY DummyGood DEF IInv

(* The initial state satisfies the invariant. *)
LEMMA InitInv == Init => IInv
<1>1. SUFFICES ASSUME Init PROVE IInv
  OBVIOUS
<1>2. Good(windows, backend)
  BY <1>1, EmptyGood DEF Init
<1>3. Rest
  BY <1>1, NothingCurrentType DEF Init, Rest, Ends
<1>4. QED
  BY <1>2, <1>3 DEF IInv

(* The steps of windows keep the types of the rest. *)
LEMMA WindowRest ==
  ASSUME IInv,
         NEW h \in Handles,
         \/ WindowCreateIncomplete(h)
         \/ \E valid \in BOOLEAN : WindowComplete(h, valid)
         \/ WindowDeinit(h)
  PROVE  Rest'
<1>1. UNCHANGED contexts
  BY DEF WindowCreateIncomplete, WindowComplete, WindowDeinit, End
<1>2. current' \in Currents
  <2>1. current' = current \/ current' = NothingCurrent
    BY DEF WindowCreateIncomplete, WindowComplete, WindowDeinit, End, CurrentAfter
  <2>2. QED
    BY <2>1, NothingCurrentType DEF IInv, Rest
<1>3. error' \in BOOLEAN
  BY DEF IInv, Rest, WindowCreateIncomplete, WindowComplete, WindowDeinit, End, Fail
<1>4. end' \in Ends
  BY DEF IInv, Rest, Ends, WindowCreateIncomplete, WindowComplete, WindowDeinit, End
<1>5. QED
  BY <1>1, <1>2, <1>3, <1>4 DEF IInv, Rest

(* A context is created or destroyed, an error recorded or forgotten. *)
LEMMA SmallSteps ==
  ASSUME IInv,
         \/ \E c \in Contexts : CreateContextIncomplete(c) \/ DeinitContext(c)
         \/ Misuse
         \/ Step
  PROVE  IInv'
<1>1. UNCHANGED <<windows, backend, end>>
  BY DEF CreateContextIncomplete, DeinitContext, Misuse, Step
<1>2. contexts' \in [Contexts -> {"none", "incomplete", "complete", "failed"}]
  BY DEF IInv, Rest, CreateContextIncomplete, DeinitContext, Misuse, Step
<1>3. current' \in Currents
  BY NothingCurrentType DEF IInv, Rest, CreateContextIncomplete, DeinitContext, Misuse, Step
<1>4. error' \in BOOLEAN
  BY DEF IInv, Rest, CreateContextIncomplete, DeinitContext, Misuse, Step, Fail
<1>5. QED
  BY <1>1, <1>2, <1>3, <1>4 DEF IInv, Rest

(* The backends a context may leave behind: the dummy window is opened for *)
(* it, or was there.                                                       *)
LEMMA CompleteContextInv ==
  ASSUME NeverFails, IInv, NEW c \in Contexts, CompleteContext(c)
  PROVE  IInv'
<1>1. CASE contexts[c] # "incomplete" \/ Dangling(backend)
  <2>1. /\ end' \in {"nullObject", "freedDummy"}
        /\ UNCHANGED <<windows, backend, contexts, current, error>>
    BY <1>1 DEF CompleteContext, End
  <2>2. QED
    BY <2>1 DEF IInv, Rest, Ends
<1>2. CASE contexts[c] = "incomplete" /\ ~Dangling(backend)
  <2>1. /\ UNCHANGED <<windows, end>>
        /\ backend' = backend \/ backend' \in GetDummyWindow(backend)
        /\ \/ contexts' = [contexts EXCEPT ![c] = "failed"] /\ error' = TRUE
              /\ current' = current
           \/ contexts' = [contexts EXCEPT ![c] = "complete"] /\ error' = error
              /\ current' = NothingCurrent
    BY <1>2 DEF CompleteContext, CompleteContextFails, CompleteContextSucceeds, Fail
  <2>2. Good(windows', backend')
    BY <2>1, ContextGood
  <2>3. current' \in Currents
    BY <2>1, NothingCurrentType DEF IInv, Rest
  <2>4. contexts' \in [Contexts -> {"none", "incomplete", "complete", "failed"}]
    BY <2>1 DEF IInv, Rest
  <2>5. error' \in BOOLEAN /\ end' \in Ends
    BY <2>1 DEF IInv, Rest
  <2>6. QED
    BY <2>2, <2>3, <2>4, <2>5 DEF IInv, Rest
<1>3. QED
  BY <1>1, <1>2

(* Making a context current on a window that SDL made, or nothing. *)
LEMMA MakeCurrentOnInv ==
  ASSUME NeverFails, IInv, NEW w, NEW c \in Contexts \cup {NoContext}, NEW b,
         b = backend \/ b \in GetDummyWindow(backend), MakeCurrentOn(w, c, b)
  PROVE  IInv'
<1>1. /\ UNCHANGED <<windows, contexts, end>> /\ backend' = b
      /\ \/ current' = NothingCurrent /\ error' = error
         \/ w \in b.real /\ SdlContext(c) # NoContext
            /\ current' = [window |-> w, context |-> c] /\ error' = error
         \/ current' = current /\ error' = TRUE
  BY DEF MakeCurrentOn, Fail
<1>2. Good(windows', backend')
  BY <1>1, ContextGood
<1>3. current' \in Currents
  <2>1. CASE /\ w \in b.real /\ SdlContext(c) # NoContext
             /\ current' = [window |-> w, context |-> c]
    <3>1. b.real \subseteq Windows
      BY <1>1, <1>2 DEF Good, Typed, Backends
    <3>2. QED
      BY <2>1, <3>1 DEF Currents
  <2>2. QED
    BY <1>1, <2>1, NothingCurrentType DEF IInv, Rest
<1>4. error' \in BOOLEAN
  BY <1>1 DEF IInv, Rest
<1>5. QED
  BY <1>1, <1>2, <1>3, <1>4 DEF IInv, Rest

(* pincOpenglMakeCurrent *)
LEMMA MakeCurrentInv ==
  ASSUME NeverFails, IInv, NEW h \in Handles \cup {NoHandle},
         NEW c \in Contexts \cup {NoContext}, MakeCurrent(h, c)
  PROVE  IInv'
<1>1. CASE \E how \in {"nullObject", "freedDummy"} : End(how)
  BY <1>1 DEF End, IInv, Rest, Ends
<1>2. CASE \E w : MakeCurrentOn(w, c, backend)
  BY <1>2, MakeCurrentOnInv
<1>3. CASE \E b \in GetDummyWindow(backend) : MakeCurrentOn(b.dummy, c, b)
  BY <1>3, MakeCurrentOnInv
<1>4. QED
  BY <1>1, <1>2, <1>3 DEF MakeCurrent

(* pincDeinit begins anew, or ends the program. *)
LEMMA DeinitInv ==
  ASSUME IInv, Deinit
  PROVE  IInv'
<1>1. CASE \E how \in {"leak", "nullDummy", "freedDummy"} : End(how)
  BY <1>1 DEF End, IInv, Rest, Ends
<1>2. CASE /\ windows' = [h \in Handles |-> NoObject]
           /\ backend' = EmptyBackend
           /\ contexts' = [c \in Contexts |-> "none"]
           /\ current' = NothingCurrent
           /\ error' = FALSE
           /\ UNCHANGED end
  <2>1. Good(windows', backend')
    BY <1>2, EmptyGood
  <2>2. Rest'
    BY <1>2, NothingCurrentType DEF IInv, Rest
  <2>3. QED
    BY <2>1, <2>2 DEF IInv
<1>3. QED
  BY <1>1, <1>2 DEF Deinit

(* Every step keeps the invariant while SDL_CreateWindow succeeds. *)
LEMMA NextInv ==
  ASSUME NeverFails, IInv, [Next]_vars
  PROVE  IInv'
<1>1. CASE UNCHANGED vars
  BY <1>1 DEF vars, IInv, Rest
<1>2. CASE \E h \in Handles : WindowCreateIncomplete(h) \/ WindowDeinit(h)
  <2>1. PICK h \in Handles : WindowCreateIncomplete(h) \/ WindowDeinit(h)
    BY <1>2
  <2>2. Good(windows', backend')
    BY <2>1, CreateGood, WindowDeinitGood
  <2>3. Rest'
    BY <2>1, WindowRest
  <2>4. QED
    BY <2>2, <2>3 DEF IInv
<1>3. CASE \E h \in Handles, valid \in BOOLEAN : WindowComplete(h, valid)
  <2>1. PICK h \in Handles, valid \in BOOLEAN : WindowComplete(h, valid)
    BY <1>3
  <2>2. Good(windows', backend')
    BY <2>1, WindowCompleteGood
  <2>3. Rest'
    BY <2>1, WindowRest
  <2>4. QED
    BY <2>2, <2>3 DEF IInv
<1>4. CASE \E c \in Contexts : CompleteContext(c)
  BY <1>4, CompleteContextInv
<1>5. CASE \E c \in Contexts : CreateContextIncomplete(c) \/ DeinitContext(c)
  BY <1>5, SmallSteps
<1>6. CASE \E h \in Handles \cup {NoHandle}, c \in Contexts \cup {NoContext} : MakeCurrent(h, c)
  BY <1>6, MakeCurrentInv
<1>7. CASE Misuse \/ Step
  BY <1>7, SmallSteps
<1>8. CASE Deinit
  BY <1>8, DeinitInv
<1>9. QED
  BY <1>1, <1>2, <1>3, <1>4, <1>5, <1>6, <1>7, <1>8 DEF Next

(* The invariant holds in every state. *)
THEOREM WindowsInvariant ==
  ASSUME NeverFails
  PROVE  Spec => []IInv
<1>1. IInv /\ [Next]_vars => IInv'
  BY NextInv
<1>2. QED
  BY InitInv, <1>1, PTL DEF Spec

(* However windows come and go and whatever contexts are made, each        *)
(* complete window handle has an open window of its own: pincDeinit and    *)
(* the setters of pinc_main.c never reach a closed window or another's.    *)
THEOREM HandlesKeepTheirWindows ==
  ASSUME NeverFails
  PROVE  Spec => []HandlesOwnWindows
<1>1. IInv => HandlesOwnWindows
  BY DEF IInv, Good, Owners, HandlesOwnWindows, OfKind
<1>2. QED
  BY WindowsInvariant, <1>1, PTL

(* Every variable keeps its type. *)
THEOREM TypeCorrect ==
  ASSUME NeverFails
  PROVE  Spec => []TypeOK
<1>1. QED
  BY WindowsInvariant, InvImpliesTypeOK, PTL

-----------------------------------------------------------------------------
(* The refinement of SpareWindow.  It needs that no other window than the  *)
(* dummy one is open for nobody.                                           *)
Has(win, h, w) == win[h].kind = "window" /\ win[h].window = w

Accounted(win, b) ==
  /\ \A x \in b.allocated : x = b.dummy \/ OwnedIn(win, x)
  /\ b.dummy = NoWindow => b.allocated = {}

(* What a step may do to the windows that are open: nothing, *)
SameWindows(win, b, win2, b2) ==
  /\ \A h \in Handles : \A x : Has(win2, h, x) <=> Has(win, h, x)
  /\ b2.allocated = b.allocated /\ b2.dummy = b.dummy

(* give the spare window or a new one to a handle, *)
Given(win, b, win2, b2, h, w) ==
  /\ \A g \in Handles : \A x : Has(win2, g, x) <=> IF g = h THEN x = w ELSE Has(win, g, x)
  /\ \A x : ~Has(win, h, x)
  /\ \/ /\ b.dummy # NoWindow /\ ~b.inUse /\ w = b.dummy
        /\ b2.allocated = b.allocated /\ b2.dummy = b.dummy
     \/ /\ b.dummy = NoWindow \/ b.inUse
        /\ w \in Windows \ b.allocated
        /\ b2.allocated = b.allocated \cup {w}
        /\ b2.dummy = IF b.dummy = NoWindow THEN w ELSE b.dummy

(* take a handle's window away, *)
Taken(win, b, win2, b2, h, w) ==
  /\ \A g \in Handles : \A x : Has(win2, g, x) <=> g # h /\ Has(win, g, x)
  /\ Has(win, h, w)
  /\ b2.allocated = (IF w = b.dummy THEN b.allocated ELSE b.allocated \ {w})
  /\ b2.dummy = b.dummy

(* or open the dummy window for nobody. *)
DummyOpened(win, b, win2, b2, w) ==
  /\ \A h \in Handles : \A x : Has(win2, h, x) <=> Has(win, h, x)
  /\ b.dummy = NoWindow /\ w \in Windows \ b.allocated
  /\ b2.allocated = b.allocated \cup {w} /\ b2.dummy = w

(* Opening a window allocates it, and makes it the dummy one if it is the  *)
(* first.                                                                  *)
LEMMA OpenedWindow ==
  ASSUME NEW win, NEW b, Good(win, b), NEW h \in Handles \cup {NoHandle},
         NEW w \in Windows \ b.allocated
  PROVE  /\ Opened(b, h, w).allocated = b.allocated \cup {w}
         /\ Opened(b, h, w).dummy = IF b.dummy = NoWindow THEN w ELSE b.dummy
         /\ Opened(b, h, w) \in Backends
<1>1. /\ b \in Backends /\ IsInjective(b.list) /\ ~Contains(b.list, w)
      /\ Len(b.list) <= b.capacity /\ h \in Fronts
  BY OwnedIsAllocated DEF Good, Typed, Listed, Fronts
<1>2. SUFFICES ASSUME NEW r, r = Opened(b, h, w)
               PROVE  /\ r.allocated = b.allocated \cup {w}
                      /\ r.dummy = IF b.dummy = NoWindow THEN w ELSE b.dummy
                      /\ r \in Backends
  OBVIOUS
<1>3. /\ r \in Backends
      /\ r.allocated = b.allocated \cup {w}
      /\ b.dummy = NoWindow => r.dummy = w /\ r.inUse
      /\ b.dummy # NoWindow => r.dummy = b.dummy /\ r.inUse = b.inUse
  BY <1>1, <1>2, OpenFields
<1>4. QED
  BY <1>3

(* pincWindowComplete gives, *)
LEMMA WindowCompleteGives ==
  ASSUME NeverFails, IInv, NEW h \in Handles, NEW valid, WindowComplete(h, valid)
  PROVE  \/ UNCHANGED <<windows, backend>>
         \/ \E w \in Windows : Given(windows, backend, windows', backend', h, w)
<1>1. CASE UNCHANGED <<windows, backend>>
  BY <1>1
<1>2. CASE \E r \in CompleteWindow(backend, h) :
             backend' = r.backend /\ windows' = [windows EXCEPT ![h] = Complete(r.window)]
  <2>1. windows[h].kind # "window"
    BY DEF WindowComplete
  <2>2. PICK r \in CompleteWindow(backend, h) :
          backend' = r.backend /\ windows' = [windows EXCEPT ![h] = Complete(r.window)]
    BY <1>2
  <2>3. Good(windows, backend)
    BY DEF IInv
  <2>4. PICK w : w = r.window
    OBVIOUS
  <2>5. \A g \in Handles : windows'[g] = IF g = h THEN Complete(w) ELSE windows[g]
    BY <2>2, <2>3, <2>4 DEF Good, Typed
  <2>6. /\ \A g \in Handles : \A x :
             Has(windows', g, x) <=> IF g = h THEN x = w ELSE Has(windows, g, x)
        /\ \A x : ~Has(windows, h, x)
    BY <2>1, <2>5 DEF Has, Complete
  <2>7. \/ /\ backend.dummy # NoWindow /\ ~backend.inUse /\ w = backend.dummy
           /\ backend' = [backend EXCEPT !.inUse = TRUE,
                                         !.front = [backend.front EXCEPT ![backend.dummy] = h]]
        \/ /\ backend.dummy = NoWindow \/ backend.inUse
           /\ w \in Windows \ backend.allocated /\ backend' = Opened(backend, h, w)
    <3>1. \/ /\ backend.dummy # NoWindow /\ ~backend.inUse /\ r.window = backend.dummy
             /\ r.backend = [backend EXCEPT !.inUse = TRUE,
                              !.front = [backend.front EXCEPT ![backend.dummy] = h]]
          \/ /\ backend.dummy = NoWindow \/ backend.inUse
             /\ \E v \in Windows \ backend.allocated :
                  r.window = v /\ r.backend = Opened(backend, h, v)
      BY <2>3, CompleteCases
    <3>2. QED
      BY <2>2, <2>4, <3>1
  <2>8. backend \in Backends
    BY <2>3 DEF Good, Typed
  <2>9. CASE /\ backend.dummy # NoWindow /\ ~backend.inUse /\ w = backend.dummy
             /\ backend' = [backend EXCEPT !.inUse = TRUE,
                                           !.front = [backend.front EXCEPT ![backend.dummy] = h]]
    <3>1. backend'.allocated = backend.allocated /\ backend'.dummy = backend.dummy
      BY <2>8, <2>9 DEF Backends
    <3>2. w \in Windows
      BY <2>8, <2>9 DEF Backends
    <3>3. QED
      BY <2>6, <2>9, <3>1, <3>2 DEF Given
  <2>10. CASE /\ backend.dummy = NoWindow \/ backend.inUse
              /\ w \in Windows \ backend.allocated /\ backend' = Opened(backend, h, w)
    <3>1. /\ backend'.allocated = backend.allocated \cup {w}
          /\ backend'.dummy = IF backend.dummy = NoWindow THEN w ELSE backend.dummy
      BY <2>3, <2>10, OpenedWindow
    <3>2. QED
      BY <2>6, <2>10, <3>1 DEF Given
  <2>11. QED
    BY <2>7, <2>9, <2>10
<1>3. QED
  BY <1>1, <1>2 DEF WindowComplete, End

(* pincWindowDeinit takes, *)
LEMMA WindowDeinitTakes ==
  ASSUME IInv, NEW h \in Handles, WindowDeinit(h)
  PROVE  \/ SameWindows(windows, backend, windows', backend')
         \/ \E w \in Windows : Taken(windows, backend, windows', backend', h, w)
<1>1. \A g \in Handles : windows'[g] = IF g = h THEN NoObject ELSE windows[g]
  BY DEF WindowDeinit, IInv, Good, Typed
<1>2. \A g \in Handles : \A x : Has(windows', g, x) <=> g # h /\ Has(windows, g, x)
  BY <1>1 DEF Has, NoObject
<1>3. CASE windows[h].kind = "window"
  <2>1. PICK w \in Windows : w = windows[h].window /\ w \in backend.allocated
    BY <1>3, OwnedIsAllocated DEF IInv, Good, Owners
  <2>2. backend' = DeinitWindow(backend, w)
    BY <1>3, <2>1 DEF WindowDeinit
  <2>3. backend \in Backends /\ IsInjective(backend.list)
    BY DEF IInv, Good, Typed, Listed
  <2>4. /\ backend'.dummy = backend.dummy
        /\ w = backend.dummy => backend'.allocated = backend.allocated
        /\ w # backend.dummy => backend'.allocated = backend.allocated \ {w}
    BY <2>2, <2>3, DeinitFields
  <2>5. QED
    BY <1>2, <1>3, <2>1, <2>4 DEF Taken, Has
<1>4. CASE windows[h].kind # "window"
  <2>1. backend' = backend
    BY <1>4 DEF WindowDeinit
  <2>2. \A x : ~Has(windows, h, x)
    BY <1>4 DEF Has
  <2>3. QED
    BY <1>2, <2>1, <2>2 DEF SameWindows
<1>5. QED
  BY <1>3, <1>4

(* and pincSdl2GetDummyWindow opens. *)
LEMMA DummyOpens ==
  ASSUME NeverFails, IInv, UNCHANGED windows, backend' \in GetDummyWindow(backend)
  PROVE  \/ backend' = backend
         \/ \E w \in Windows : DummyOpened(windows, backend, windows', backend', w)
<1>1. CASE backend.dummy # NoWindow
  BY <1>1 DEF GetDummyWindow
<1>2. CASE backend.dummy = NoWindow
  <2>1. PICK r \in CompleteWindow(backend, NoHandle) :
          backend' = [r.backend EXCEPT !.inUse = FALSE]
    BY <1>2 DEF GetDummyWindow
  <2>2. Good(windows, backend)
    BY DEF IInv
  <2>3. PICK w \in Windows \ backend.allocated : r.backend = Opened(backend, NoHandle, w)
    BY <1>2, <2>2, CompleteCases
  <2>4. /\ r.backend.allocated = backend.allocated \cup {w} /\ r.backend.dummy = w
        /\ r.backend \in Backends
    BY <1>2, <2>2, <2>3, OpenedWindow
  <2>5. backend'.allocated = r.backend.allocated /\ backend'.dummy = r.backend.dummy
    BY <2>1, <2>4 DEF Backends
  <2>6. QED
    BY <1>2, <2>3, <2>4, <2>5 DEF DummyOpened
<1>3. QED
  BY <1>1, <1>2

-----------------------------------------------------------------------------
(* The owners of the refinement mapping, as a function of the two          *)
(* variables they are made of.                                             *)
OwnerOf(win, b) ==
  [w \in Windows |->
     IF w \in {win[h].window : h \in {h \in Handles : win[h].kind = "window"}}
     THEN CHOOSE h \in {h \in Handles : win[h].kind = "window"} : win[h].window = w
     ELSE IF w \in b.allocated THEN NoHandle ELSE ClosedWindow]

(* Each window's owner is the handle that has it, if any does. *)
IsOwner(win, b, o) ==
  /\ o = [w \in Windows |-> o[w]]
  /\ \A w \in Windows, h \in Handles : o[w] = h <=> Has(win, h, w)
  /\ \A w \in Windows : o[w] = NoHandle <=> w \in b.allocated /\ ~OwnedIn(win, w)
  /\ \A w \in Windows : o[w] = ClosedWindow <=> w \notin b.allocated

(* No handle is a number that stands for nobody or closed. *)
LEMMA OwnersApart ==
  NoHandle \notin Handles /\ ClosedWindow \notin Handles /\ ClosedWindow # NoHandle
BY PincSdl2WindowsAssumption DEF NoHandle, ClosedWindow, Handles

(* The mapping is that function. *)
LEMMA OwnerIs ==
  ASSUME NEW win, NEW b, Good(win, b), NEW o, o = OwnerOf(win, b)
  PROVE  IsOwner(win, b, o)
<1> DEFINE Of == {h \in Handles : win[h].kind = "window"}
<1>1. \A w \in Windows : OwnedIn(win, w) <=> w \in {win[h].window : h \in Of}
  BY DEF OwnedIn
<1>2. \A w \in Windows : OwnedIn(win, w) => w \in b.allocated
  BY OwnedIsAllocated
<1>3. \A g, h \in Handles, w \in Windows : Has(win, g, w) /\ Has(win, h, w) => g = h
  BY DEF Has, Good, Owners
<1>4. ASSUME NEW w \in Windows, OwnedIn(win, w)
      PROVE  o[w] \in Handles /\ Has(win, o[w], w)
  <2>1. o[w] = CHOOSE h \in Of : win[h].window = w
    BY <1>1, <1>4 DEF OwnerOf
  <2>2. \E h \in Of : win[h].window = w
    BY <1>4 DEF OwnedIn
  <2>3. o[w] \in Of /\ win[o[w]].window = w
    BY <2>1, <2>2
  <2>4. QED
    BY <2>3 DEF Has
<1>5. ASSUME NEW w \in Windows, ~OwnedIn(win, w)
      PROVE  o[w] = IF w \in b.allocated THEN NoHandle ELSE ClosedWindow
  BY <1>1, <1>5 DEF OwnerOf
<1>6. \A w \in Windows, h \in Handles : Has(win, h, w) => OwnedIn(win, w)
  BY DEF Has, OwnedIn
<1>7. o = [w \in Windows |-> o[w]]
  BY DEF OwnerOf
<1> HIDE DEF Of
<1>8. \A w \in Windows, h \in Handles : o[w] = h <=> Has(win, h, w)
  BY <1>3, <1>4, <1>5, <1>6, OwnersApart
<1>9. \A w \in Windows : o[w] = NoHandle <=> w \in b.allocated /\ ~OwnedIn(win, w)
  BY <1>4, <1>5, OwnersApart
<1>10. \A w \in Windows : o[w] = ClosedWindow <=> w \notin b.allocated
  BY <1>2, <1>4, <1>5, OwnersApart
<1>11. QED
  BY <1>7, <1>8, <1>9, <1>10 DEF IsOwner

(* When nothing else changes than who has one window, that is what the     *)
(* mapping shows.                                                          *)
LEMMA OwnerChangesAt ==
  ASSUME NEW win, NEW b, NEW o, IsOwner(win, b, o), Good(win, b),
         NEW win2, NEW b2, NEW o2, IsOwner(win2, b2, o2), Good(win2, b2),
         NEW w \in Windows,
         \A x \in Windows \ {w} :
           /\ x \in b2.allocated <=> x \in b.allocated
           /\ \A h \in Handles : Has(win2, h, x) <=> Has(win, h, x)
  PROVE  o2 = [o EXCEPT ![w] = o2[w]]
<1>1. ASSUME NEW x \in Windows \ {w} PROVE o2[x] = o[x]
  <2>1. OwnedIn(win2, x) <=> OwnedIn(win, x)
    BY DEF OwnedIn, Has
  <2>2. CASE OwnedIn(win, x)
    <3>1. PICK h \in Handles : Has(win, h, x)
      BY <2>2 DEF OwnedIn, Has
    <3>2. QED
      BY <3>1 DEF IsOwner
  <2>3. CASE ~OwnedIn(win, x)
    BY <2>1, <2>3 DEF IsOwner
  <2>4. QED
    BY <2>2, <2>3
<1>2. /\ o2 = [x \in Windows |-> o2[x]]
      /\ [o EXCEPT ![w] = o2[w]] = [x \in Windows |-> IF x = w THEN o2[w] ELSE o[x]]
  BY DEF IsOwner
<1>3. QED
  BY <1>1, <1>2

(* A window that is spare is the dummy one. *)
LEMMA SparesAre ==
  ASSUME NEW win, NEW b, NEW o, IsOwner(win, b, o), Good(win, b), Accounted(win, b),
         NEW x \in Windows, o[x] = NoHandle
  PROVE  x = b.dummy /\ ~b.inUse
<1>1. x \in b.allocated /\ ~OwnedIn(win, x)
  BY DEF IsOwner
<1>2. x = b.dummy
  BY <1>1 DEF Accounted
<1>3. QED
  BY <1>1, <1>2 DEF Good, Owners

(* The invariant the refinement needs, and what it says of the mapping. *)
RInv == IInv /\ Accounted(windows, backend)

LEMMA OwnerIsNow ==
  ASSUME IInv
  PROVE  IsOwner(windows, backend, owner)
<1>1. owner = OwnerOf(windows, backend)
  BY DEF owner, OwnerOf, Owned, OfKind
<1>2. QED
  BY <1>1, OwnerIs DEF IInv

(* The same of the next state. *)
LEMMA OwnerIsNext ==
  ASSUME IInv'
  PROVE  IsOwner(windows', backend', owner')
<1>1. owner' = OwnerOf(windows', backend')
  BY DEF owner, OwnerOf, Owned, OfKind
<1>2. Good(windows', backend')
  BY DEF IInv
<1>3. QED
  BY <1>1, <1>2, OwnerIs

(* A step that leaves the windows alone is a stutter. *)
LEMMA SameRefines ==
  ASSUME RInv, IInv', SameWindows(windows, backend, windows', backend')
  PROVE  RInv' /\ owner' = owner
<1>1. \A x : OwnedIn(windows', x) <=> OwnedIn(windows, x)
  BY DEF SameWindows, Has, OwnedIn
<1>2. Accounted(windows', backend')
  BY <1>1 DEF SameWindows, Accounted, RInv
<1>3. IsOwner(windows, backend, owner) /\ IsOwner(windows', backend', owner')
  BY OwnerIsNow, OwnerIsNext DEF RInv
<1>4. ASSUME NEW w \in Windows PROVE owner'[w] = owner[w]
  <2>1. CASE OwnedIn(windows, w)
    <3>1. PICK h \in Handles : Has(windows, h, w)
      BY <2>1 DEF OwnedIn, Has
    <3>2. Has(windows', h, w)
      BY <3>1 DEF SameWindows
    <3>3. QED
      BY <1>3, <3>1, <3>2 DEF IsOwner
  <2>2. CASE ~OwnedIn(windows, w)
    <3>1. w \in backend'.allocated <=> w \in backend.allocated
      BY DEF SameWindows
    <3>2. QED
      BY <1>1, <1>3, <2>2, <3>1 DEF IsOwner
  <2>3. QED
    BY <2>1, <2>2
<1>5. owner = [w \in Windows |-> owner[w]] /\ owner' = [w \in Windows |-> owner'[w]]
  BY <1>3 DEF IsOwner
<1>6. owner' = owner
  BY <1>4, <1>5
<1>7. QED
  BY <1>2, <1>6 DEF RInv

(* A handle gets the spare window, or a new one when there is none. *)
LEMMA GivenRefines ==
  ASSUME RInv, IInv', NEW h \in Handles, NEW w \in Windows,
         Given(windows, backend, windows', backend', h, w)
  PROVE  RInv' /\ Abstract!Assign(h)
<1>1. IsOwner(windows, backend, owner) /\ IsOwner(windows', backend', owner')
  BY OwnerIsNow, OwnerIsNext DEF RInv
<1>2. /\ Good(windows, backend) /\ Good(windows', backend')
      /\ Accounted(windows, backend)
  BY DEF RInv, IInv
<1>3. \A x : OwnedIn(windows', x) <=> OwnedIn(windows, x) \/ x = w
  <2>1. \A x : OwnedIn(windows, x) <=> \E g \in Handles : Has(windows, g, x)
    BY DEF OwnedIn, Has
  <2>2. \A x : OwnedIn(windows', x) <=> \E g \in Handles : Has(windows', g, x)
    BY DEF OwnedIn, Has
  <2>3. QED
    BY <2>1, <2>2 DEF Given
<1>4. Accounted(windows', backend')
  <2>1. backend'.dummy # NoWindow
    BY PincSdl2WindowsAssumption DEF Given
  <2>2. ASSUME NEW x \in backend'.allocated PROVE x = backend'.dummy \/ OwnedIn(windows', x)
    BY <1>2, <1>3, PincSdl2WindowsAssumption DEF Given, Accounted
  <2>3. QED
    BY <2>1, <2>2 DEF Accounted
<1>5. Has(windows', h, w)
  BY DEF Given
<1>6. owner'[w] = h
  BY <1>1, <1>5 DEF IsOwner
<1>7. \A x \in Windows \ {w} : /\ x \in backend'.allocated <=> x \in backend.allocated
                              /\ \A g \in Handles : Has(windows', g, x) <=> Has(windows, g, x)
  BY DEF Given
<1>8. owner' = [owner EXCEPT ![w] = h]
  BY <1>1, <1>2, <1>6, <1>7, OwnerChangesAt
<1>9. ~Abstract!Has(h)
  BY <1>1 DEF Abstract!Has, IsOwner, Given
<1>10. w \in IF Abstract!Spares = {} THEN Windows \ Abstract!Open ELSE Abstract!Spares
  <2>1. CASE backend.dummy # NoWindow /\ ~backend.inUse /\ w = backend.dummy
    <3>1. w \in backend.allocated /\ ~OwnedIn(windows, w)
      BY <1>2, <2>1 DEF Good, Typed, Owners
    <3>2. owner[w] = NoHandle
      BY <1>1, <3>1 DEF IsOwner
    <3>3. QED
      BY <3>2 DEF Abstract!Spares
  <2>2. CASE /\ backend.dummy = NoWindow \/ backend.inUse
             /\ w \in Windows \ backend.allocated
    <3>1. Abstract!Spares = {}
      <4>1. SUFFICES ASSUME NEW x \in Windows, owner[x] = NoHandle PROVE FALSE
        BY DEF Abstract!Spares
      <4>2. x = backend.dummy /\ ~backend.inUse
        BY <1>1, <1>2, <4>1, SparesAre
      <4>3. QED
        BY <2>2, <4>2, PincSdl2WindowsAssumption
    <3>2. owner[w] = ClosedWindow
      BY <1>1, <2>2 DEF IsOwner
    <3>3. QED
      BY <3>1, <3>2 DEF Abstract!Open
  <2>3. QED
    BY <2>1, <2>2 DEF Given
<1>11. QED
  BY <1>4, <1>8, <1>9, <1>10 DEF RInv, Abstract!Assign

(* A handle's window is closed, or kept if it is the dummy one. *)
LEMMA TakenRefines ==
  ASSUME RInv, IInv', NEW h \in Handles, NEW w \in Windows,
         Taken(windows, backend, windows', backend', h, w)
  PROVE  RInv' /\ Abstract!Release(h)
<1>1. IsOwner(windows, backend, owner) /\ IsOwner(windows', backend', owner')
  BY OwnerIsNow, OwnerIsNext DEF RInv
<1>2. /\ Good(windows, backend) /\ Good(windows', backend')
      /\ Accounted(windows, backend)
  BY DEF RInv, IInv
<1>3. \A g \in Handles : \A x : Has(windows, g, x) /\ Has(windows, h, x) => g = h
  BY <1>2 DEF Has, Good, Owners
<1>4. /\ \A x : OwnedIn(windows', x) => OwnedIn(windows, x)
      /\ ~OwnedIn(windows', w)
      /\ \A x : OwnedIn(windows, x) /\ x # w => OwnedIn(windows', x)
  <2>1. \A x : OwnedIn(windows, x) <=> \E g \in Handles : Has(windows, g, x)
    BY DEF OwnedIn, Has
  <2>2. \A x : OwnedIn(windows', x) <=> \E g \in Handles : Has(windows', g, x)
    BY DEF OwnedIn, Has
  <2>3. \A x : Has(windows, h, x) => x = w
    BY DEF Taken, Has
  <2>4. QED
    BY <1>3, <2>1, <2>2, <2>3 DEF Taken
<1>5. w \in backend.allocated
  BY <1>2 DEF Good, Owners, Taken, Has
<1>6. Accounted(windows', backend')
  <2>1. ASSUME NEW x \in backend'.allocated PROVE x = backend'.dummy \/ OwnedIn(windows', x)
    BY <1>2, <1>4 DEF Taken, Accounted
  <2>2. backend'.dummy # NoWindow
    BY <1>2, <1>5 DEF Taken, Accounted
  <2>3. QED
    BY <2>1, <2>2 DEF Accounted
<1>7. owner[w] = h
  BY <1>1 DEF IsOwner, Taken
<1>8. \A x \in Windows \ {w} : /\ x \in backend'.allocated <=> x \in backend.allocated
                              /\ \A g \in Handles : Has(windows', g, x) <=> Has(windows, g, x)
  <2>1. ASSUME NEW x \in Windows \ {w}, NEW g \in Handles
        PROVE  Has(windows', g, x) <=> Has(windows, g, x)
    BY DEF Taken, Has
  <2>2. \A x \in Windows \ {w} : x \in backend'.allocated <=> x \in backend.allocated
    BY DEF Taken
  <2>3. QED
    BY <2>1, <2>2
<1>9. owner' = [owner EXCEPT ![w] = owner'[w]]
  BY <1>1, <1>2, <1>8, OwnerChangesAt
<1>10. CASE w = backend.dummy
  <2>1. owner'[w] = NoHandle
    BY <1>1, <1>4, <1>5, <1>10 DEF IsOwner, Taken
  <2>2. Abstract!Spares = {}
    <3>1. SUFFICES ASSUME NEW x \in Windows, owner[x] = NoHandle PROVE FALSE
      BY DEF Abstract!Spares
    <3>2. x = w
      BY <1>1, <1>2, <1>10, <3>1, SparesAre
    <3>3. QED
      BY <1>7, <3>1, <3>2, OwnersApart
  <2>3. QED
    BY <1>6, <1>7, <1>9, <2>1, <2>2 DEF RInv, Abstract!Release
<1>11. CASE w # backend.dummy
  <2>1. owner'[w] = ClosedWindow
    BY <1>1, <1>11 DEF IsOwner, Taken
  <2>2. QED
    BY <1>6, <1>7, <1>9, <2>1 DEF RInv, Abstract!Release
<1>12. QED
  BY <1>10, <1>11

(* The dummy window is opened when no window is open. *)
LEMMA DummyRefines ==
  ASSUME RInv, IInv', NEW w \in Windows, DummyOpened(windows, backend, windows', backend', w)
  PROVE  RInv' /\ Abstract!OpenSpare
<1>1. IsOwner(windows, backend, owner) /\ IsOwner(windows', backend', owner')
  BY OwnerIsNow, OwnerIsNext DEF RInv
<1>2. /\ Good(windows, backend) /\ Good(windows', backend')
      /\ Accounted(windows, backend)
  BY DEF RInv, IInv
<1>3. backend.allocated = {} /\ backend'.allocated = {w} /\ backend'.dummy = w
  BY <1>2 DEF DummyOpened, Accounted
<1>4. \A x : ~OwnedIn(windows, x)
  BY <1>2, <1>3, OwnedIsAllocated
<1>5. ~OwnedIn(windows', w)
  BY <1>4 DEF OwnedIn, DummyOpened, Has
<1>6. Accounted(windows', backend')
  BY <1>3, PincSdl2WindowsAssumption DEF Accounted
<1>7. owner'[w] = NoHandle
  BY <1>1, <1>3, <1>5 DEF IsOwner
<1>8. \A x \in Windows \ {w} : /\ x \in backend'.allocated <=> x \in backend.allocated
                              /\ \A g \in Handles : Has(windows', g, x) <=> Has(windows, g, x)
  BY <1>3 DEF DummyOpened
<1>9. owner' = [owner EXCEPT ![w] = NoHandle]
  BY <1>1, <1>2, <1>7, <1>8, OwnerChangesAt
<1>10. Abstract!Open = {}
  BY <1>1, <1>3 DEF Abstract!Open, IsOwner
<1>11. QED
  BY <1>6, <1>9, <1>10 DEF RInv, Abstract!OpenSpare

(* No window is open before the library is initialised and after           *)
(* pincDeinit.                                                             *)
LEMMA EmptyRefines ==
  ASSUME NEW win, NEW b, win = [h \in Handles |-> NoObject], b = EmptyBackend,
         NEW o, IsOwner(win, b, o)
  PROVE  Accounted(win, b) /\ o = [w \in Windows |-> ClosedWindow]
<1>1. b.allocated = {}
  BY DEF EmptyBackend
<1>2. \A w \in Windows : o[w] = ClosedWindow
  BY <1>1 DEF IsOwner
<1>3. o = [w \in Windows |-> o[w]]
  BY DEF IsOwner
<1>4. QED
  BY <1>1, <1>2, <1>3 DEF Accounted

(* The steps that change neither the windows nor the backend. *)
LEMMA StutterRefines ==
  ASSUME RInv, IInv', UNCHANGED <<windows, backend>>
  PROVE  RInv' /\ owner' = owner
BY SameRefines DEF SameWindows

(* Every step is a step of SpareWindow, or a stutter. *)
LEMMA NextRefines ==
  ASSUME NeverFails, RInv, [Next]_vars
  PROVE  RInv' /\ [Abstract!Next]_owner
<1>1. IInv /\ IInv'
  BY NextInv DEF RInv
<1>2. CASE \E h \in Handles, valid \in BOOLEAN : WindowComplete(h, valid)
  <2>1. PICK h \in Handles, valid \in BOOLEAN : WindowComplete(h, valid)
    BY <1>2
  <2>2. \/ UNCHANGED <<windows, backend>>
        \/ \E w \in Windows : Given(windows, backend, windows', backend', h, w)
    BY <1>1, <2>1, WindowCompleteGives
  <2>3. QED
    BY <1>1, <2>2, StutterRefines, GivenRefines DEF Abstract!Next
<1>3. CASE \E h \in Handles : WindowDeinit(h)
  <2>1. PICK h \in Handles : WindowDeinit(h)
    BY <1>3
  <2>2. \/ SameWindows(windows, backend, windows', backend')
        \/ \E w \in Windows : Taken(windows, backend, windows', backend', h, w)
    BY <1>1, <2>1, WindowDeinitTakes
  <2>3. QED
    BY <1>1, <2>2, SameRefines, TakenRefines DEF Abstract!Next
<1>4. CASE \E h \in Handles : WindowCreateIncomplete(h)
  <2>1. PICK h \in Handles : WindowCreateIncomplete(h)
    BY <1>4
  <2>2. \A g \in Handles : windows'[g] = IF g = h THEN Incomplete ELSE windows[g]
    BY <1>1, <2>1 DEF WindowCreateIncomplete, IInv, Good, Typed
  <2>3. windows[h].kind # "window" /\ backend' = backend
    BY <2>1 DEF WindowCreateIncomplete, NoObject
  <2>4. SameWindows(windows, backend, windows', backend')
    BY <2>2, <2>3 DEF SameWindows, Has, Incomplete
  <2>5. QED
    BY <1>1, <2>4, SameRefines
<1>5. CASE UNCHANGED windows /\ backend' \in GetDummyWindow(backend)
  <2>1. \/ backend' = backend
        \/ \E w \in Windows : DummyOpened(windows, backend, windows', backend', w)
    BY <1>1, <1>5, DummyOpens
  <2>2. QED
    BY <1>1, <1>5, <2>1, StutterRefines, DummyRefines DEF Abstract!Next
<1>6. CASE UNCHANGED <<windows, backend>>
  BY <1>1, <1>6, StutterRefines
<1>7. CASE windows' = [h \in Handles |-> NoObject] /\ backend' = EmptyBackend
  <2>1. IsOwner(windows', backend', owner')
    BY <1>1, OwnerIsNext
  <2>2. Accounted(windows', backend') /\ owner' = [w \in Windows |-> ClosedWindow]
    BY <1>7, <2>1, EmptyRefines
  <2>3. QED
    BY <1>1, <2>2 DEF RInv, Abstract!Next, Abstract!CloseAll
<1>8. CASE \E c \in Contexts : CompleteContext(c)
  <2>1. UNCHANGED windows /\ (backend' = backend \/ backend' \in GetDummyWindow(backend))
    BY <1>8 DEF CompleteContext, CompleteContextFails, CompleteContextSucceeds, End
  <2>2. QED
    BY <1>5, <1>6, <2>1
<1>9. CASE \E h \in Handles \cup {NoHandle}, c \in Contexts \cup {NoContext} : MakeCurrent(h, c)
  <2>1. UNCHANGED windows /\ (backend' = backend \/ backend' \in GetDummyWindow(backend))
    BY <1>9 DEF MakeCurrent, MakeCurrentOn, End
  <2>2. QED
    BY <1>5, <1>6, <2>1
<1>10. CASE Deinit
  BY <1>6, <1>7, <1>10 DEF Deinit, End
<1>11. CASE \/ \E c \in Contexts : CreateContextIncomplete(c) \/ DeinitContext(c)
            \/ Misuse
            \/ Step
  BY <1>6, <1>11 DEF CreateContextIncomplete, DeinitContext, Misuse, Step
<1>12. CASE UNCHANGED vars
  BY <1>6, <1>12 DEF vars
<1>13. QED
  BY <1>2, <1>3, <1>4, <1>8, <1>9, <1>10, <1>11, <1>12 DEF Next

(* The backend's list, dummy pointer and flag implement the spare window:  *)
(* each open window has one owner but for at most one, which is used       *)
(* before another is opened, for any number of windows and handles.        *)
THEOREM BackendImplementsSpareWindow ==
  ASSUME NeverFails
  PROVE  Spec => ImplementsSpareWindow
<1>1. Init => RInv /\ Abstract!Init
  <2>1. SUFFICES ASSUME Init PROVE RInv /\ Abstract!Init
    OBVIOUS
  <2>2. IInv
    BY <2>1, InitInv
  <2>3. IsOwner(windows, backend, owner)
    BY <2>2, OwnerIsNow
  <2>4. Accounted(windows, backend) /\ owner = [w \in Windows |-> ClosedWindow]
    BY <2>1, <2>3, EmptyRefines DEF Init
  <2>5. QED
    BY <2>2, <2>4 DEF RInv, Abstract!Init
<1>2. RInv /\ [Next]_vars => RInv' /\ [Abstract!Next]_owner
  BY NextRefines
<1>3. QED
  BY <1>1, <1>2, PTL DEF Spec, ImplementsSpareWindow, Abstract!Spec

-----------------------------------------------------------------------------
(* What pincDeinit meets.  Destroying the windows leaves only what the     *)
(* user does not own in the list: that can be a dummy window.              *)
(* A handle's window goes, and the windows of the first i handles did.     *)
Goes(g, x) == windows[g].kind = "window" /\ windows[g].window = x
Gone(i, x) == \E g \in 1 .. i : Goes(g, x)

(* One more handle is passed.                                              *)
LEMMA GoneNext ==
  ASSUME NEW i \in Nat, NEW k, k = i + 1, NEW x
  PROVE  Gone(k, x) <=> Gone(i, x) \/ Goes(k, x)
<1>1. \A g : g \in 1 .. k <=> g \in 1 .. i \/ g = k
  OBVIOUS
<1>2. QED
  BY <1>1, Zenon DEF Gone

(* The backends pincDeinit passes through, one for each handle. *)
Listing == {b \in Backends : IsInjective(b.list)}

DestroysBy(f) ==
  /\ f \in [0 .. MaxHandles -> Listing]
  /\ f[0] = backend
  /\ \A i \in 1 .. MaxHandles :
       f[i] = IF windows[i].kind = "window" THEN DeinitWindow(f[i - 1], windows[i].window)
              ELSE f[i - 1]

(* pincSdl2deinitWindow leads from one to another. *)
LEMMA DeinitListing ==
  ASSUME NEW b \in Listing, NEW w \in Windows
  PROVE  DeinitWindow(b, w) \in Listing
<1>1. b \in Backends /\ IsInjective(b.list)
  BY DEF Listing
<1> DEFINE r == DeinitWindow(b, w)
<1>2. r \in Backends /\ IsInjective(r.list)
  BY <1>1, DeinitFields
<1>3. QED
  BY <1>2 DEF Listing

(* The windows of the user are windows. *)
LEMMA UserWindows ==
  ASSUME Good(windows, backend), NEW i \in 1 .. MaxHandles, windows[i].kind = "window"
  PROVE  windows[i].window \in Windows
BY OwnedIsAllocated DEF Good, Owners, Handles

(* That run of pincDeinit over the handles exists.                         *)
LEMMA DestroysExists ==
  ASSUME Good(windows, backend)
  PROVE  \E f : DestroysBy(f)
<1> DEFINE g == [p \in Nat \X Listing |->
                  IF p[1] \in 1 .. MaxHandles /\ windows[p[1]].kind = "window"
                  THEN DeinitWindow(p[2], windows[p[1]].window) ELSE p[2]]
<1>1. ASSUME NEW i \in Nat, NEW b \in Listing
      PROVE  (IF i \in 1 .. MaxHandles /\ windows[i].kind = "window"
              THEN DeinitWindow(b, windows[i].window) ELSE b) \in Listing
  BY UserWindows, DeinitListing
<1>2. g \in [Nat \X Listing -> Listing]
  BY <1>1
<1>3. backend \in Listing /\ MaxHandles \in Nat
  BY PincSdl2WindowsAssumption DEF Good, Typed, Listed, Listing
<1>4. PICK f \in [0 .. MaxHandles -> Listing] : FromLeft(f, MaxHandles, backend, g)
  <2> HIDE DEF g
  <2> QED
    BY <1>2, <1>3, RecursiveFunctionExists
<1>5. ASSUME NEW i \in 1 .. MaxHandles
      PROVE  f[i] = IF windows[i].kind = "window"
                    THEN DeinitWindow(f[i - 1], windows[i].window) ELSE f[i - 1]
  <2>1. i - 1 \in 0 .. MaxHandles /\ i \in Nat
    BY <1>3
  <2>2. f[i - 1] \in Listing
    BY <1>4, <2>1
  <2>3. /\ <<i, f[i - 1]>> \in Nat \X Listing
        /\ <<i, f[i - 1]>>[1] = i /\ <<i, f[i - 1]>>[2] = f[i - 1]
    BY <2>1, <2>2
  <2>4. g[<<i, f[i - 1]>>] = IF windows[i].kind = "window"
                             THEN DeinitWindow(f[i - 1], windows[i].window) ELSE f[i - 1]
    BY <2>3
  <2>5. f[i] = g[<<i, f[i - 1]>>]
    BY <1>4 DEF FromLeft
  <2>6. QED
    BY <2>4, <2>5
<1>6. QED
  BY <1>4, <1>5 DEF DestroysBy, FromLeft

(* What it ends with is AfterWindows.                                      *)
LEMMA AfterWindowsIs ==
  ASSUME NEW f, DestroysBy(f)
  PROVE  AfterWindows = f[MaxHandles]
<1> DEFINE n == MaxHandles
           Turn(h, i) == IF windows[i].kind = "window"
                         THEN DeinitWindow(h[i - 1], windows[i].window) ELSE h[i - 1]
           Run(h) == [i \in 0 .. n |-> IF i = 0 THEN backend ELSE Turn(h, i)]
           c == CHOOSE h : h = Run(h)
<1>1. n \in Nat
  BY PincSdl2WindowsAssumption
<1>2. f = Run(f)
  <2>1. ASSUME NEW i \in 0 .. n PROVE f[i] = IF i = 0 THEN backend ELSE Turn(f, i)
    <3>1. CASE i = 0
      BY <3>1 DEF DestroysBy
    <3>2. CASE i # 0
      <4>1. i \in 1 .. n
        BY <1>1, <3>2
      <4>2. f[i] = Turn(f, i)
        BY <4>1 DEF DestroysBy
      <4>3. QED
        BY <3>2, <4>2
    <3>3. QED
      BY <3>1, <3>2
  <2>2. f \in [0 .. n -> Listing]
    BY DEF DestroysBy
  <2> HIDE DEF n, Turn
  <2>3. QED
    BY <2>1, <2>2
<1>3. c = Run(c)
  <2> HIDE DEF Run
  <2> QED
    BY <1>2
<1>4. AfterWindows = c[n]
  BY DEF AfterWindows
<1> HIDE DEF c
<1>5. c[0] = backend /\ \A i \in 1 .. n : c[i] = Turn(c, i)
  <2> HIDE DEF Turn, n
  <2> QED
    BY <1>1, <1>3
<1>6. f[0] = backend /\ \A i \in 1 .. n : f[i] = Turn(f, i)
  BY DEF DestroysBy
<1> HIDE DEF n
<1> DEFINE S == {i \in Nat : i <= n => c[i] = f[i]}
<1>7. 0 \in S
  BY <1>5, <1>6
<1>8. ASSUME NEW i \in Nat, i \in S PROVE i + 1 \in S
  <2>1. SUFFICES ASSUME i + 1 <= n PROVE c[i + 1] = f[i + 1]
    OBVIOUS
  <2>2. c[i] = f[i] /\ i + 1 \in 1 .. n /\ (i + 1) - 1 = i
    BY <1>1, <1>8, <2>1
  <2>3. Turn(c, i + 1) = Turn(f, i + 1)
    BY <2>2
  <2>4. QED
    BY <1>5, <1>6, <2>2, <2>3
<1>9. n \in S
  <2> HIDE DEF S
  <2> QED
    BY <1>1, <1>7, <1>8, NatSetInduction
<1>10. QED
  BY <1>4, <1>9 DEF n

(* Once the windows are destroyed, the list holds what it held but the     *)
(* user's windows.                                                         *)
LEMMA WhatIsLeft ==
  ASSUME Good(windows, backend)
  PROVE  /\ AfterWindows \in Listing
         /\ AfterWindows.dummy = backend.dummy
         /\ backend.dummy \in backend.allocated => backend.dummy \in AfterWindows.allocated
         /\ \A x : Contains(AfterWindows.list, x) <=>
                     Contains(backend.list, x) /\ ~OwnedIn(windows, x)
<1>1. PICK f : DestroysBy(f)
  BY DestroysExists
<1>2. AfterWindows = f[MaxHandles] /\ MaxHandles \in Nat
  BY <1>1, AfterWindowsIs, PincSdl2WindowsAssumption
<1> DEFINE Left(i) == /\ f[i].dummy = backend.dummy
                      /\ backend.dummy \in backend.allocated => backend.dummy \in f[i].allocated
                      /\ \A x : Contains(f[i].list, x) <=> Contains(backend.list, x) /\ ~Gone(i, x)
           S == {i \in Nat : i <= MaxHandles => Left(i)}
<1>3. 0 \in S
  <2>1. f[0] = backend
    BY <1>1 DEF DestroysBy
  <2>2. \A x : ~Gone(0, x)
    BY DEF Gone
  <2>3. Left(0)
    BY <2>1, <2>2
  <2> HIDE DEF Left
  <2>4. QED
    BY <2>3
<1>4. ASSUME NEW i \in Nat, i \in S PROVE i + 1 \in S
  <2>1. SUFFICES ASSUME i + 1 <= MaxHandles PROVE Left(i + 1)
    OBVIOUS
  <2>2. Left(i) /\ i \in 0 .. MaxHandles /\ i + 1 \in 1 .. MaxHandles /\ (i + 1) - 1 = i
    BY <1>2, <1>4, <2>1
  <2>3. f[i] \in Listing
    BY <1>1, <2>2 DEF DestroysBy
  <2>4. PICK k \in 1 .. MaxHandles : k = i + 1
    BY <2>2
  <2>5. f[k] = IF windows[k].kind = "window" THEN DeinitWindow(f[i], windows[k].window)
               ELSE f[i]
    BY <1>1, <2>2, <2>4 DEF DestroysBy
  <2>6. \A x : Gone(k, x) <=> Gone(i, x) \/ Goes(k, x)
    BY <1>4, <2>4, GoneNext
  <2>7. PICK b \in Listing : b = f[i]
    BY <2>3
  <2>8. CASE windows[k].kind = "window"
    <3>1. PICK w \in Windows : w = windows[k].window
      BY <2>8, UserWindows
    <3>2. PICK r : r = DeinitWindow(b, w)
      OBVIOUS
    <3>3. /\ r.dummy = b.dummy /\ \A x : Contains(r.list, x) <=> Contains(b.list, x) /\ x # w
          /\ b.dummy \in b.allocated => b.dummy \in r.allocated
      BY <3>2, DeinitFields DEF Listing
    <3>4. f[k] = r
      BY <2>5, <2>7, <2>8, <3>1, <3>2
    <3>5. /\ b.dummy = backend.dummy
          /\ backend.dummy \in backend.allocated => backend.dummy \in b.allocated
          /\ \A x : Contains(b.list, x) <=> Contains(backend.list, x) /\ ~Gone(i, x)
      BY <2>2, <2>7
    <3>6. \A x : Gone(k, x) <=> Gone(i, x) \/ x = w
      BY <2>6, <2>8, <3>1 DEF Goes
    <3>7. \A x : Contains(r.list, x) <=> Contains(backend.list, x) /\ ~Gone(k, x)
      BY <3>3, <3>5, <3>6
    <3>8. QED
      BY <2>4, <3>3, <3>4, <3>5, <3>7
  <2>9. CASE windows[k].kind # "window"
    <3>1. f[k] = f[i]
      BY <2>5, <2>9
    <3>2. \A x : Gone(k, x) <=> Gone(i, x)
      BY <2>6, <2>9 DEF Goes
    <3>3. QED
      BY <2>2, <2>4, <3>1, <3>2
  <2>10. QED
    BY <2>8, <2>9
<1>5. MaxHandles \in S
  <2> HIDE DEF S
  <2> QED
    BY <1>2, <1>3, <1>4, NatSetInduction
<1>6. Left(MaxHandles)
  BY <1>2, <1>5
<1>7. \A x : Gone(MaxHandles, x) <=> OwnedIn(windows, x)
  BY DEF OwnedIn, Handles, Gone, Goes
<1>8. f[MaxHandles] \in Listing
  BY <1>1, <1>2 DEF DestroysBy
<1>9. QED
  BY <1>2, <1>6, <1>7, <1>8

-----------------------------------------------------------------------------
(* The dummy window before it is somebody's: without one no window was     *)
(* opened yet, and one that is listed but nobody's was opened for OpenGL   *)
(* when there was no other window, and there still is none.                *)
Untouched(win, b) ==
  /\ b.dummy = NoWindow => b = EmptyBackend
  /\ Contains(b.list, b.dummy) /\ ~OwnedIn(win, b.dummy) =>
       (\A x : ~OwnedIn(win, x)) /\ b.front[b.dummy] = NoHandle

(* A window given to a handle is the dummy one, or that is somebody's.     *)
LEMMA GivenUntouched ==
  ASSUME Good(windows, backend), NEW h \in Handles, NEW w \in Windows,
         Given(windows, backend, windows', backend', h, w)
  PROVE  Untouched(windows', backend')
<1>1. Has(windows', h, w)
  BY DEF Given
<1>2. OwnedIn(windows', w)
  BY <1>1 DEF Has, OwnedIn
<1>3. CASE backend.dummy # NoWindow /\ ~backend.inUse /\ w = backend.dummy
           /\ backend'.dummy = backend.dummy
  BY <1>2, <1>3 DEF Untouched
<1>4. CASE /\ backend.dummy = NoWindow \/ backend.inUse
           /\ backend'.dummy = IF backend.dummy = NoWindow THEN w ELSE backend.dummy
  <2>1. CASE backend.dummy = NoWindow
    BY <1>2, <1>4, <2>1, Nulls DEF Untouched
  <2>2. CASE backend.dummy # NoWindow
    <3>1. OwnedIn(windows, backend.dummy)
      BY <1>4, <2>2 DEF Good, Owners
    <3>2. PICK g \in Handles : Has(windows, g, backend.dummy)
      BY <3>1 DEF OwnedIn, Has
    <3>3. g # h
      BY <3>2 DEF Given
    <3>4. Has(windows', g, backend.dummy)
      BY <3>2, <3>3 DEF Given
    <3>5. OwnedIn(windows', backend.dummy)
      BY <3>4 DEF OwnedIn, Has
    <3>6. QED
      BY <1>4, <2>2, <3>5 DEF Untouched
  <2>3. QED
    BY <2>1, <2>2
<1>5. QED
  BY <1>3, <1>4 DEF Given

(* Destroying a window of the user leaves no dummy window listed that      *)
(* nobody owns.                                                            *)
LEMMA DeinitUntouched ==
  ASSUME Good(windows, backend), Untouched(windows, backend), NEW h \in Handles, WindowDeinit(h)
  PROVE  Untouched(windows', backend')
<1>1. \A g \in Handles : windows'[g] = IF g = h THEN NoObject ELSE windows[g]
  BY DEF WindowDeinit, Good, Typed
<1>2. \A g \in Handles : \A x : Has(windows', g, x) <=> g # h /\ Has(windows, g, x)
  BY <1>1 DEF Has, NoObject
<1>3. CASE windows[h].kind = "window"
  <2>1. PICK w \in Windows : w = windows[h].window /\ w \in backend.allocated
    BY <1>3, OwnedIsAllocated DEF Good, Owners
  <2>2. backend' = DeinitWindow(backend, w)
    BY <1>3, <2>1 DEF WindowDeinit
  <2>3. backend \in Backends /\ IsInjective(backend.list)
    BY DEF Good, Typed, Listed
  <2>4. /\ backend'.dummy = backend.dummy
        /\ \A x : Contains(backend'.list, x) <=> Contains(backend.list, x) /\ x # w
    BY <2>2, <2>3, DeinitFields
  <2>5. OwnedIn(windows, w)
    BY <1>3, <2>1 DEF OwnedIn
  <2>6. backend.dummy # NoWindow
    <3>1. EmptyBackend.allocated = {}
      BY DEF EmptyBackend
    <3>2. QED
      BY <2>1, <3>1 DEF Untouched
  <2>7. \A x : OwnedIn(windows, x) /\ x # w => OwnedIn(windows', x)
    <3>1. SUFFICES ASSUME NEW x, OwnedIn(windows, x), x # w PROVE OwnedIn(windows', x)
      OBVIOUS
    <3>2. PICK g \in Handles : Has(windows, g, x)
      BY <3>1 DEF OwnedIn, Has
    <3>3. g # h
      BY <2>1, <3>1, <3>2 DEF Has
    <3>4. QED
      BY <1>2, <3>2, <3>3 DEF OwnedIn, Has
  <2>8. ~(Contains(backend'.list, backend'.dummy) /\ ~OwnedIn(windows', backend'.dummy))
    <3>1. SUFFICES ASSUME Contains(backend.list, backend.dummy), backend.dummy # w,
                          ~OwnedIn(windows', backend.dummy)
                   PROVE  FALSE
      BY <2>4
    <3>2. ~OwnedIn(windows, backend.dummy)
      BY <2>7, <3>1
    <3>3. ~OwnedIn(windows, w)
      BY <3>1, <3>2 DEF Untouched
    <3>4. QED
      BY <2>5, <3>3
  <2>9. QED
    BY <2>4, <2>6, <2>8 DEF Untouched
<1>4. CASE windows[h].kind # "window"
  <2>1. backend' = backend
    BY <1>4 DEF WindowDeinit
  <2>2. \A x : OwnedIn(windows', x) <=> OwnedIn(windows, x)
    BY <1>2, <1>4 DEF OwnedIn, Has
  <2>3. QED
    BY <2>1, <2>2 DEF Untouched
<1>5. QED
  BY <1>3, <1>4

(* The dummy window is opened for nobody when there is no other window.    *)
LEMMA DummyUntouched ==
  ASSUME NeverFails, Good(windows, backend), Untouched(windows, backend), UNCHANGED windows,
         backend' \in GetDummyWindow(backend)
  PROVE  Untouched(windows', backend')
<1>1. CASE backend.dummy # NoWindow
  <2>1. backend' = backend
    BY <1>1 DEF GetDummyWindow
  <2>2. QED
    BY <2>1 DEF Untouched, OwnedIn
<1>2. CASE backend.dummy = NoWindow
  <2>1. PICK r \in CompleteWindow(backend, NoHandle) :
          backend' = [r.backend EXCEPT !.inUse = FALSE]
    BY <1>2 DEF GetDummyWindow
  <2>2. PICK w \in Windows \ backend.allocated : r.backend = Opened(backend, NoHandle, w)
    BY <1>2, <2>1, CompleteCases
  <2>3. /\ backend \in Backends /\ IsInjective(backend.list) /\ ~Contains(backend.list, w)
        /\ Len(backend.list) <= backend.capacity
    BY OwnedIsAllocated DEF Good, Typed, Listed
  <2>4. PICK m : m = Opened(backend, NoHandle, w)
    OBVIOUS
  <2>5. m \in Backends /\ m.dummy = w /\ m.front[w] = NoHandle
    <3>1. NoHandle \in Fronts
      BY DEF Fronts
    <3>2. ASSUME NEW h \in Fronts, NEW o, o = Opened(backend, h, w)
          PROVE  /\ o \in Backends /\ o.dummy = w
                 /\ \A v \in Windows : o.front[v] = IF v = w THEN h ELSE backend.front[v]
      BY <1>2, <2>2, <2>3, <3>2, OpenFields
    <3>3. \A v \in Windows : m.front[v] = IF v = w THEN NoHandle ELSE backend.front[v]
      BY <2>4, <3>1, <3>2
    <3>4. QED
      BY <2>2, <2>4, <3>1, <3>2, <3>3
  <2>6. backend' = [m EXCEPT !.inUse = FALSE]
    BY <2>1, <2>2, <2>4
  <2>7. backend'.dummy = w /\ backend'.front[w] = NoHandle
    BY <2>5, <2>6 DEF Backends
  <2>8. \A x : ~OwnedIn(windows, x)
    <3>1. backend.allocated = {}
      BY <1>2 DEF Untouched, EmptyBackend
    <3>2. QED
      BY <3>1, OwnedIsAllocated
  <2>9. \A x : ~OwnedIn(windows', x)
    BY <2>8 DEF OwnedIn
  <2>10. QED
    BY <2>2, <2>7, <2>9, Nulls DEF Untouched
<1>3. QED
  BY <1>1, <1>2

(* Nothing is listed in the beginning and after pincDeinit.                *)
LEMMA EmptyUntouched == ASSUME NEW win PROVE Untouched(win, EmptyBackend)
<1>1. EmptyBackend.list = << >>
  BY DEF EmptyBackend
<1>2. \A x : ~Contains(<< >>, x)
  BY EmptySeq DEF Contains
<1>3. QED
  BY <1>1, <1>2 DEF Untouched

(* The invariant that DeinitWorksBut needs.                                *)
DInv ==
  /\ IInv
  /\ Untouched(windows, backend)
  /\ DeinitWorksBut

(* A list without repetitions that holds one entry only.                   *)
LEMMA OnlyEntry ==
  ASSUME NEW S, NEW f \in Seq(S), IsInjective(f), NEW e, f # << >>,
         \A x : Contains(f, x) => x = e
  PROVE  f = <<e>>
<1>1. Len(f) \in Nat /\ Len(f) # 0 /\ DOMAIN f = 1 .. Len(f)
  BY EmptySeq
<1>2. \A i \in 1 .. Len(f) : f[i] = e
  BY <1>1 DEF Contains
<1>3. Len(f) = 1
  <2>1. SUFFICES ASSUME Len(f) >= 2 PROVE FALSE
    BY <1>1
  <2>2. 1 \in DOMAIN f /\ 2 \in DOMAIN f /\ f[1] = f[2]
    BY <1>1, <1>2, <2>1
  <2>3. QED
    BY <2>2 DEF IsInjective
<1>4. f[1] = e /\ e \in S
  BY <1>2, <1>3
<1>5. <<e>> \in Seq(S) /\ Len(<<e>>) = 1 /\ <<e>>[1] = e
  BY <1>4
<1>6. QED
  BY <1>3, <1>4, <1>5, SeqEqual

(* pincDeinit itself. *)
LEMMA DeinitEnds == ASSUME NeverFails, DInv, end = "none", Deinit PROVE DeinitWorksBut'
<1>1. Good(windows, backend) /\ Untouched(windows, backend)
  BY DEF DInv, IInv
<1>2. PICK a \in Listing : a = AfterWindows
  BY <1>1, WhatIsLeft
<1>3. /\ a.dummy = backend.dummy
      /\ \A x : Contains(a.list, x) <=> Contains(backend.list, x) /\ ~OwnedIn(windows, x)
  BY <1>1, <1>2, WhatIsLeft
<1>4. a.list \in Seq(Windows) /\ backend.list \in Seq(Windows) /\ IsInjective(backend.list)
  BY <1>1 DEF Listing, Backends, Good, Typed, Listed
<1>5. CASE a.list # << >> /\ end' = "leak" /\ UNCHANGED <<windows, backend>>
  <2>1. \E x : Contains(a.list, x)
    <3>1. Len(a.list) \in Nat /\ Len(a.list) # 0
      BY <1>4, <1>5, EmptySeq
    <3>2. 1 \in 1 .. Len(a.list)
      BY <3>1
    <3>3. QED
      BY <3>2 DEF Contains
  <2>2. PICK x : Contains(backend.list, x) /\ ~OwnedIn(windows, x)
    BY <1>3, <2>1
  <2>3. x = backend.dummy
    BY <1>1, <2>2 DEF Good, Listed
  <2>4. (\A y : ~OwnedIn(windows, y)) /\ backend.front[backend.dummy] = NoHandle
    BY <1>1, <2>2, <2>3 DEF Untouched
  <2>5. \A y : Contains(backend.list, y) => y = backend.dummy
    BY <1>1, <2>4 DEF Good, Listed
  <2>6. backend.list # << >>
    BY <2>2, EmptySeq DEF Contains
  <2>7. backend.list = <<backend.dummy>>
    BY <1>4, <2>5, <2>6, OnlyEntry
  <2>8. Owned = {}
    BY <2>4 DEF Owned, OfKind, OwnedIn
  <2>9. Owned' = {}
    BY <1>5, <2>8 DEF Owned, OfKind
  <2>10. QED
    BY <1>5, <2>4, <2>7, <2>9 DEF DeinitWorksBut
<1>6. CASE a.dummy = NoWindow /\ end' = "nullDummy" /\ UNCHANGED backend
  <2>1. backend = EmptyBackend
    BY <1>1, <1>3, <1>6 DEF Untouched
  <2>2. QED
    BY <1>6, <2>1 DEF DeinitWorksBut, EmptyBackend, Handles
<1>7. CASE end' \notin {"leak", "nullDummy", "freedDummy"}
  BY <1>7 DEF DeinitWorksBut
<1>8. ~Dangling(a)
  BY <1>1, <1>2, <1>3, WhatIsLeft DEF Dangling, Good, Typed
<1>9. QED
  BY <1>2, <1>5, <1>6, <1>7, <1>8 DEF Deinit, End, DInv

(* Every step keeps that invariant.                                        *)
LEMMA DeinitStep == ASSUME NeverFails, DInv, [Next]_vars PROVE DInv'
<1>1. IInv /\ Good(windows, backend) /\ Untouched(windows, backend) /\ IInv'
  BY NextInv DEF DInv, IInv
<1>2. UNCHANGED <<windows, backend>> => Untouched(windows', backend')
  BY <1>1
<1>3. Untouched(windows', backend')
  <2>1. CASE \E h \in Handles, valid \in BOOLEAN : WindowComplete(h, valid)
    <3>1. PICK h \in Handles, valid \in BOOLEAN : WindowComplete(h, valid)
      BY <2>1
    <3>2. \/ UNCHANGED <<windows, backend>>
          \/ \E w \in Windows : Given(windows, backend, windows', backend', h, w)
      BY <1>1, <3>1, WindowCompleteGives
    <3>3. QED
      BY <1>1, <1>2, <3>2, GivenUntouched
  <2>2. CASE \E h \in Handles : WindowDeinit(h)
    BY <1>1, <2>2, DeinitUntouched
  <2>3. CASE \E h \in Handles : WindowCreateIncomplete(h)
    <3>1. PICK h \in Handles : WindowCreateIncomplete(h)
      BY <2>3
    <3>2. \A g \in Handles : windows'[g] = IF g = h THEN Incomplete ELSE windows[g]
      BY <1>1, <3>1 DEF WindowCreateIncomplete, Good, Typed
    <3>3. windows[h].kind # "window" /\ backend' = backend
      BY <3>1 DEF WindowCreateIncomplete, NoObject
    <3>4. \A x : OwnedIn(windows', x) <=> OwnedIn(windows, x)
      BY <3>2, <3>3 DEF OwnedIn, Incomplete
    <3>5. QED
      BY <1>1, <3>3, <3>4 DEF Untouched
  <2>4. CASE UNCHANGED windows /\ backend' \in GetDummyWindow(backend)
    BY <1>1, <2>4, DummyUntouched
  <2>5. CASE backend' = EmptyBackend
    BY <2>5, EmptyUntouched
  <2>6. CASE \E c \in Contexts : CompleteContext(c)
    <3>1. UNCHANGED windows /\ (backend' = backend \/ backend' \in GetDummyWindow(backend))
      BY <2>6 DEF CompleteContext, CompleteContextFails, CompleteContextSucceeds, End
    <3>2. QED
      BY <1>2, <2>4, <3>1
  <2>7. CASE \E h \in Handles \cup {NoHandle}, c \in Contexts \cup {NoContext} : MakeCurrent(h, c)
    <3>1. UNCHANGED windows /\ (backend' = backend \/ backend' \in GetDummyWindow(backend))
      BY <2>7 DEF MakeCurrent, MakeCurrentOn, End
    <3>2. QED
      BY <1>2, <2>4, <3>1
  <2>8. CASE Deinit
    BY <1>2, <2>5, <2>8 DEF Deinit, End
  <2>9. CASE \/ \E c \in Contexts : CreateContextIncomplete(c) \/ DeinitContext(c)
             \/ Misuse
             \/ Step
    BY <1>2, <2>9 DEF CreateContextIncomplete, DeinitContext, Misuse, Step
  <2>10. CASE UNCHANGED vars
    BY <1>2, <2>10 DEF vars
  <2>11. QED
    BY <2>1, <2>2, <2>3, <2>6, <2>7, <2>8, <2>9, <2>10 DEF Next
<1>4. DeinitWorksBut'
  <2>1. CASE end = "none" /\ Deinit
    BY <2>1, DeinitEnds
  <2>2. CASE UNCHANGED vars
    BY <2>2 DEF DInv, DeinitWorksBut, vars, Owned, OfKind, EmptyBackend, Handles
  <2>3. ASSUME end' \notin {"nullDummy", "leak", "freedDummy"} PROVE DeinitWorksBut'
    BY <2>3 DEF DeinitWorksBut
  <2>4. CASE end = "none" /\ end' = end
    BY <2>3, <2>4
  <2>5. CASE End("nullObject")
    BY <2>3, <2>5 DEF End
  <2>d. ~Dangling(backend)
    BY <1>1 DEF Dangling, Good, Typed
  <2>6. CASE end = "none" /\ \E h \in Handles, valid \in BOOLEAN : WindowComplete(h, valid)
    BY <2>4, <2>6, <2>d DEF WindowComplete
  <2>7. CASE end = "none" /\ \E h \in Handles : WindowCreateIncomplete(h) \/ WindowDeinit(h)
    BY <2>4, <2>7 DEF WindowCreateIncomplete, WindowDeinit
  <2>8. CASE end = "none" /\ \E c \in Contexts : \/ CreateContextIncomplete(c)
                                                 \/ CompleteContext(c)
                                                 \/ DeinitContext(c)
    BY <2>4, <2>5, <2>8, <2>d DEF CreateContextIncomplete, CompleteContext, DeinitContext
  <2>9. CASE end = "none" /\ \E h \in Handles \cup {NoHandle}, c \in Contexts \cup {NoContext} :
                                MakeCurrent(h, c)
    BY <2>4, <2>5, <2>9, <2>d DEF MakeCurrent, MakeCurrentOn
  <2>10. CASE end = "none" /\ (Misuse \/ Step)
    BY <2>4, <2>10 DEF Misuse, Step
  <2>11. QED
    BY <2>1, <2>2, <2>6, <2>7, <2>8, <2>9, <2>10 DEF Next
<1>5. QED
  BY <1>1, <1>3, <1>4 DEF DInv

-----------------------------------------------------------------------------
(* That invariant holds in every state.                                    *)
LEMMA DInvariant ==
  ASSUME NeverFails
  PROVE  Spec => []DInv
<1>1. Init => DInv
  <2>1. SUFFICES ASSUME Init PROVE DInv
    OBVIOUS
  <2>2. IInv /\ Untouched(windows, backend)
    BY <2>1, InitInv, EmptyUntouched DEF Init
  <2>3. DeinitWorksBut
    BY <2>1 DEF Init, DeinitWorksBut
  <2>4. QED
    BY <2>2, <2>3 DEF DInv
<1>2. DInv /\ [Next]_vars => DInv'
  BY DeinitStep
<1>3. QED
  BY <1>1, <1>2, PTL DEF Spec

(* pincDeinit works however windows came and went, but before any window   *)
(* was opened, and when the only window is one opened for OpenGL that was  *)
(* never the user's; neither it nor any other call reads a freed dummy     *)
(* window.                                                                 *)
THEOREM DeinitFailsAtTwoPointsOnly ==
  ASSUME NeverFails
  PROVE  Spec => []DeinitWorksBut
<1>1. DInv => DeinitWorksBut
  BY DEF DInv
<1>2. QED
  BY DInvariant, <1>1, PTL

(* pincSdl2AddWindow and pincSdl2RemoveWindow keep the list: every window  *)
(* of the user but the dummy one, once, inside the array, and the dummy    *)
(* one only if it is somebody's or was opened for OpenGL before any other. *)
THEOREM ListIsRight ==
  ASSUME NeverFails
  PROVE  Spec => []ListHoldsWindows
<1>1. \A x : x \in Owned <=> OwnedIn(windows, x)
  BY DEF Owned, OfKind, OwnedIn
<1>2. \A x : IInv => (x \in Range(backend.list) <=> Contains(backend.list, x))
  <2>1. SUFFICES ASSUME IInv, NEW x
                 PROVE  x \in Range(backend.list) <=> Contains(backend.list, x)
    OBVIOUS
  <2>2. DOMAIN backend.list = 1 .. Len(backend.list)
    BY DEF IInv, Good, Typed, Backends
  <2>3. QED
    BY <2>2, Zenon DEF Range, Contains
<1>3. DInv => ListHoldsWindows
  <2>1. SUFFICES ASSUME DInv PROVE ListHoldsWindows
    OBVIOUS
  <2>2. Good(windows, backend) /\ Untouched(windows, backend)
    BY <2>1 DEF DInv, IInv
  <2>3. \A x : x \in Range(backend.list) \ {backend.dummy} <=> x \in Owned \ {backend.dummy}
    BY <1>1, <1>2, <2>1, <2>2 DEF DInv, Good, Listed
  <2>4. DummyInUseIffOwned
    BY <1>1, <2>2 DEF Good, Owners, DummyInUseIffOwned
  <2>5. Contains(backend.list, backend.dummy) =>
          backend.inUse \/ (backend.front[backend.dummy] = NoHandle /\ Owned = {})
    <3>1. SUFFICES ASSUME Contains(backend.list, backend.dummy), ~backend.inUse
                   PROVE  backend.front[backend.dummy] = NoHandle /\ Owned = {}
      OBVIOUS
    <3>2. ~OwnedIn(windows, backend.dummy)
      BY <2>2, <3>1 DEF Good, Owners
    <3>3. (\A x : ~OwnedIn(windows, x)) /\ backend.front[backend.dummy] = NoHandle
      BY <2>2, <3>1, <3>2 DEF Untouched
    <3>4. QED
      BY <1>1, <3>3
  <2>6. QED
    BY <2>2, <2>3, <2>4, <2>5 DEF Good, Listed, ListHoldsWindows
<1>4. QED
  BY DInvariant, <1>3, PTL

-----------------------------------------------------------------------------
(* The flag against the list.                                              *)
ComesOff ==
  \/ backend.dummy = NoWindow /\ Owned' = {}
  \/ \E h \in OfKind("incompleteWindow") : windows'[h] = Complete(backend.dummy)

(* A completed window is the dummy one, or is listed.                      *)
LEMMA WindowCompleteMatches ==
  ASSUME NeverFails, IInv, FlagMatchesList,
         NEW h \in Handles, NEW valid, WindowComplete(h, valid)
  PROVE  FlagMatchesList' \/ ComesOff
<1>1. CASE UNCHANGED <<windows, backend>>
  BY <1>1 DEF FlagMatchesList
<1>2. CASE \E r \in CompleteWindow(backend, h) :
             backend' = r.backend /\ windows' = [windows EXCEPT ![h] = Complete(r.window)]
  <2>1. PICK r \in CompleteWindow(backend, h) :
          backend' = r.backend /\ windows' = [windows EXCEPT ![h] = Complete(r.window)]
    BY <1>2
  <2>2. Good(windows, backend)
    BY DEF IInv
  <2>3. windows'[h] = Complete(r.window) /\ h \in OfKind("incompleteWindow")
    BY <2>1, <2>2 DEF Good, Typed, OfKind, WindowComplete
  <2>4. CASE r.window = backend.dummy
    BY <2>3, <2>4 DEF ComesOff
  <2>5. CASE /\ backend.dummy = NoWindow \/ backend.inUse
             /\ \E w \in Windows \ backend.allocated :
                  r.window = w /\ r.backend = Opened(backend, h, w)
    <3>1. PICK w \in Windows \ backend.allocated : backend' = Opened(backend, h, w)
      BY <2>1, <2>5
    <3>2. /\ backend \in Backends /\ IsInjective(backend.list) /\ ~Contains(backend.list, w)
          /\ Len(backend.list) <= backend.capacity /\ h \in Fronts
          /\ backend.dummy # NoWindow => backend.dummy # w
      BY <2>2, OwnedIsAllocated DEF Good, Typed, Listed, Fronts
    <3>3. /\ \A x : Contains(backend'.list, x) <=> Contains(backend.list, x) \/ x = w
          /\ backend.dummy = NoWindow => backend'.dummy = w /\ backend'.inUse
          /\ backend.dummy # NoWindow =>
               backend'.dummy = backend.dummy /\ backend'.inUse = backend.inUse
      BY <3>1, <3>2, OpenFields
    <3>4. QED
      BY <3>2, <3>3 DEF FlagMatchesList
  <2>6. QED
    BY <2>2, <2>4, <2>5, CompleteCases
<1>3. QED
  BY <1>1, <1>2 DEF WindowComplete, End

(* A destroyed window is unlisted, and the flag falls with the dummy one.  *)
LEMMA WindowDeinitMatches ==
  ASSUME IInv, FlagMatchesList, NEW h \in Handles, WindowDeinit(h)
  PROVE  FlagMatchesList'
<1>1. CASE windows[h].kind = "window"
  <2>1. PICK w \in Windows : w = windows[h].window
    BY <1>1, OwnedIsAllocated DEF IInv, Good, Owners
  <2>2. backend' = DeinitWindow(backend, w)
    BY <1>1, <2>1 DEF WindowDeinit
  <2>3. backend \in Backends /\ IsInjective(backend.list)
    BY DEF IInv, Good, Typed, Listed
  <2>4. /\ backend'.dummy = backend.dummy
        /\ \A x : Contains(backend'.list, x) <=> Contains(backend.list, x) /\ x # w
        /\ w = backend.dummy => ~backend'.inUse
        /\ w # backend.dummy => backend'.inUse = backend.inUse
    BY <2>2, <2>3, DeinitFields
  <2>5. QED
    BY <2>4 DEF FlagMatchesList
<1>2. CASE windows[h].kind # "window"
  BY <1>2 DEF WindowDeinit, FlagMatchesList
<1>3. QED
  BY <1>1, <1>2

(* A context may open the dummy window, if there is none.                  *)
LEMMA DummyMatches ==
  ASSUME DInv, FlagMatchesList, UNCHANGED windows,
         backend' = backend \/ backend' \in GetDummyWindow(backend)
  PROVE  FlagMatchesList' \/ ComesOff
<1>1. CASE backend.dummy # NoWindow
  <2>1. backend' = backend
    BY <1>1 DEF GetDummyWindow
  <2>2. QED
    BY <2>1 DEF FlagMatchesList
<1>2. CASE backend.dummy = NoWindow
  <2>1. backend.allocated = {} /\ Good(windows, backend)
    BY <1>2 DEF DInv, IInv, Untouched, EmptyBackend
  <2>2. \A x : ~OwnedIn(windows, x)
    BY <2>1, OwnedIsAllocated
  <2>3. Owned' = {}
    BY <2>2 DEF Owned, OfKind, OwnedIn
  <2>4. QED
    BY <1>2, <2>3 DEF ComesOff
<1>3. QED
  BY <1>1, <1>2

(* The flag comes to differ from the list at two steps only: where the     *)
(* dummy window is opened for OpenGL, and where it is given to a further   *)
(* handle, which the assertion of pincSdl2deinitWindow (pinc_sdl2.c:1014)  *)
(* does not reckon with.                                                   *)
THEOREM FlagLeavesListAtTwoSteps ==
  ASSUME NeverFails
  PROVE  Spec => FlagMatchesListBut
<1>1. DInv /\ [Next]_vars => [FlagMatchesList /\ ~FlagMatchesList' => ComesOff]_vars
  <2>1. SUFFICES ASSUME DInv, Next, FlagMatchesList PROVE FlagMatchesList' \/ ComesOff
    OBVIOUS
  <2>2. IInv
    BY <2>1 DEF DInv
  <2>3. CASE UNCHANGED backend
    BY <2>1, <2>3 DEF FlagMatchesList
  <2>4. CASE \E h \in Handles : WindowCreateIncomplete(h) \/ WindowDeinit(h)
    BY <2>1, <2>2, <2>3, <2>4, WindowDeinitMatches DEF WindowCreateIncomplete
  <2>5. CASE \E h \in Handles, valid \in BOOLEAN : WindowComplete(h, valid)
    BY <2>1, <2>2, <2>5, WindowCompleteMatches
  <2>6. CASE \E c \in Contexts : CompleteContext(c)
    <3>1. UNCHANGED windows /\ (backend' = backend \/ backend' \in GetDummyWindow(backend))
      BY <2>6 DEF CompleteContext, CompleteContextFails, CompleteContextSucceeds, End
    <3>2. QED
      BY <2>1, <3>1, DummyMatches
  <2>7. CASE \E h \in Handles \cup {NoHandle}, c \in Contexts \cup {NoContext} : MakeCurrent(h, c)
    <3>1. UNCHANGED windows /\ (backend' = backend \/ backend' \in GetDummyWindow(backend))
      BY <2>7 DEF MakeCurrent, MakeCurrentOn, End
    <3>2. QED
      BY <2>1, <3>1, DummyMatches
  <2>8. CASE Deinit
    <3>1. CASE backend' = EmptyBackend
      <4>1. \A x : ~Contains(<< >>, x)
        BY EmptySeq DEF Contains
      <4>2. QED
        BY <3>1, <4>1 DEF FlagMatchesList, EmptyBackend
    <3>2. QED
      BY <2>3, <2>8, <3>1 DEF Deinit, End
  <2>9. CASE \/ \E c \in Contexts : CreateContextIncomplete(c) \/ DeinitContext(c)
             \/ Misuse
             \/ Step
    BY <2>3, <2>9 DEF CreateContextIncomplete, DeinitContext, Misuse, Step
  <2>10. QED
    BY <2>1, <2>4, <2>5, <2>6, <2>7, <2>8, <2>9 DEF Next
<1>2. QED
  BY DInvariant, <1>1, PTL DEF Spec, FlagMatchesListBut, ComesOff
=============================================================================
