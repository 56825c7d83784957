-------------------------- MODULE SlpHandles_proofs --------------------------
(***************************************************************************)
(* The handles of libslp, for any number of threads and of handles: what a *)
(* request holds while it runs, and what the library holds while it is up. *)
(*                                                                         *)
(* The invariant has three parts.  Basic says where a thread can be, and   *)
(* whose references are counted; it holds for every program.  Requests and *)
(* Lifecycle hold for an orderly one.                                      *)
(***************************************************************************)
EXTENDS SlpHandles, FiniteSetTheorems, TLAPS

Typed ==
    /\ count \in Int
    /\ inited \in BOOLEAN /\ prop \in BOOLEAN
    /\ lock \in BOOLEAN /\ cache \in BOOLEAN
    /\ handle \in [Handle -> HandleInfo]
    /\ worker \in [Handle -> [Thread -> {None, "running", "released"}]]
    /\ pc \in [Thread -> PcLabel]
    /\ call \in [Thread -> Calls \cup {None, "request"}]
    /\ on \in [Thread -> Handle \cup {None}]
    /\ crashed \in BOOLEAN

\* Where a thread can be within each call, and whether it is about a handle.
InCall(t) ==
    \/ call[t] = None /\ pc[t] = "user" /\ on[t] = None
    \/ /\ call[t] = "SLPOpen" /\ on[t] = None
       /\ pc[t] \in {"increment", "readprop", "acquire", "locked", "release",
                     "failed", "undo", "ready", "wait", "allocate"}
    \/ /\ call[t] = "SLPGetProperty" /\ on[t] = None
       /\ pc[t] \in {"readprop", "acquire", "locked", "release", "failed", "value"}
    \/ /\ call[t] = "SLPClose" /\ on[t] = None
       /\ pc[t] \in {"decrement", "clear", "acquire", "locked", "release", "down"}
    \/ call[t] = "SLPClose" /\ pc[t] = "join" /\ on[t] \in Handle
    \/ /\ call[t] = "request" /\ on[t] \in Handle
       /\ pc[t] \in {"perform", "create", "store"}

Joins(t, h) == pc[t] = "join" /\ on[t] = h

Uses(t, h) == pc[t] \in {"perform", "create", "store"} /\ on[t] = h

\* The threads that hold a reference to the library and no handle for it: on
\* their way to one, or back from one.
Holds(t) == (call[t] = "SLPOpen" /\ pc[t] # "increment") \/ pc[t] = "decrement"

Holders == {t \in Thread : Holds(t)}

Places == Typed /\ \A t \in Thread : InCall(t)

JoinsApart ==
    /\ \A t \in Thread, h \in Handle : Joins(t, h) => handle[h].sig
    /\ \A t, u \in Thread, h \in Handle : Joins(t, h) /\ Joins(u, h) => t = u

Balanced == count = Cardinality(Open) + Cardinality(Holders)

Basic == Places /\ JoinsApart /\ Balanced

Running(h, t) == worker[h][t] = "running"

\* The thread in a request has an open handle, which nobody closes; until its
\* worker has been created nothing else runs on it.
UsersHold ==
    \A t \in Thread, h \in Handle : Uses(t, h) =>
        /\ handle[h].sig
        /\ handle[h].isAsync <=> pc[t] # "perform"
        /\ pc[t] # "store" => handle[h].inUse /\ \A u \in Thread : ~Running(h, u)
        /\ \A u \in Thread : ~Joins(u, h)

UsersApart ==
    \A t, u \in Thread, h \in Handle : Uses(t, h) /\ Uses(u, h) => t = u

\* A running worker has the handle in use, and its name is in the handle, or
\* its creator is about to write it there.
WorkersHold ==
    \A h \in Handle, t \in Thread : Running(h, t) =>
        /\ handle[h].sig /\ handle[h].isAsync /\ handle[h].inUse
        /\ handle[h].th = t \/ Uses(t, h)
        /\ \A u \in Thread : Uses(u, h) => u = t

Requests == UsersHold /\ UsersApart /\ WorkersHold

\* The last reference has gone, and the thread that took it away puts away
\* what the library holds.
TearsDown(t) == call[t] = "SLPClose" /\ pc[t] \notin {"join", "decrement"}

\* A library that goes down, with no handle that stays, has one thread in it.
DownAlone == \A t \in Thread : Staying = {} /\ GoingDown(t) => Alone(t)

NothingLeft == \A t \in Thread : TearsDown(t) => count = 0

\* What SLPOpen relies on from the look at a flag to the handle it returns.
Loaded ==
    /\ inited => prop \/ \E t \in Thread : TearsDown(t)
    /\ \A t \in Thread : pc[t] \in {"ready", "allocate", "value"} => prop
    /\ \A t \in Thread : pc[t] = "release" /\ call[t] # "SLPClose" => prop
    /\ \A t \in Thread : pc[t] = "allocate" => inited

\* Who will see to it that what is up is put away.
SeenTo ==
    /\ cache => Open # {} \/ \E t \in Thread : pc[t] \in {"decrement", "clear"}
    /\ inited => \/ Open # {}
                 \/ \E t \in Thread : pc[t] \in {"allocate", "decrement"} \/ TearsDown(t)

Lifecycle ==
    /\ DownAlone
    /\ NothingLeft
    /\ Loaded
    /\ Open # {} => inited
    /\ SeenTo

IInv == Basic /\ Requests /\ Lifecycle
-----------------------------------------------------------------------------
\* What each update of a handle does.
LEMMA InUseSet ==
    ASSUME handle \in [Handle -> HandleInfo], NEW h \in Handle, NEW b \in BOOLEAN,
           handle' = [handle EXCEPT ![h].inUse = b]
    PROVE  /\ handle' \in [Handle -> HandleInfo]
           /\ Open' = Open
           /\ \A g \in Handle : 
              /\ handle'[g].sig = handle[g].sig
              /\ handle'[g].isAsync = handle[g].isAsync
              /\ handle'[g].th = handle[g].th
              /\ g # h => handle'[g] = handle[g]
           /\ handle'[h].inUse = b
<1>1. handle[h] \in HandleInfo
  OBVIOUS
<1>2. handle'[h] = [handle[h] EXCEPT !.inUse = b]
  OBVIOUS
<1>3. handle'[h] \in HandleInfo
  BY <1>1, <1>2 DEF HandleInfo
<1>4. \A g \in Handle : g # h => handle'[g] = handle[g]
  OBVIOUS
<1>5. handle' \in [Handle -> HandleInfo]
  BY <1>1, <1>3, <1>4
<1>6. /\ handle'[h].sig = handle[h].sig
      /\ handle'[h].isAsync = handle[h].isAsync
      /\ handle'[h].th = handle[h].th
      /\ handle'[h].inUse = b
  BY <1>1, <1>2 DEF HandleInfo
<1>7. \A g \in Handle : handle'[g].sig = handle[g].sig
  BY <1>4, <1>6
<1>8. Open' = Open
  BY <1>7 DEF Open
<1> QED
  BY <1>4, <1>5, <1>6, <1>8

LEMMA ThreadSet ==
    ASSUME handle \in [Handle -> HandleInfo], NEW h \in Handle, NEW th \in Thread,
           handle' = [handle EXCEPT ![h].th = th]
    PROVE  /\ handle' \in [Handle -> HandleInfo]
           /\ Open' = Open
           /\ \A g \in Handle : 
              /\ handle'[g].sig = handle[g].sig
              /\ handle'[g].isAsync = handle[g].isAsync
              /\ handle'[g].inUse = handle[g].inUse
              /\ g # h => handle'[g] = handle[g]
           /\ handle'[h].th = th
<1>2. handle'[h] = [handle[h] EXCEPT !.th = th]
  OBVIOUS
<1>4. \A g \in Handle : g # h => handle'[g] = handle[g]
  OBVIOUS
<1>6. /\ handle'[h].sig = handle[h].sig
      /\ handle'[h].isAsync = handle[h].isAsync
      /\ handle'[h].inUse = handle[h].inUse
      /\ handle'[h].th = th
      /\ handle'[h] \in HandleInfo
  BY <1>2 DEF HandleInfo
<1> QED
  BY <1>4, <1>6 DEF Open
LEMMA ThreadCleared ==
    ASSUME handle \in [Handle -> HandleInfo], NEW h \in Handle, 
           NEW th \in Thread \cup {None},
           handle' = [handle EXCEPT ![h].th = th, ![h].inUse = FALSE]
    PROVE  /\ handle' \in [Handle -> HandleInfo]
           /\ Open' = Open
           /\ \A g \in Handle : 
              /\ handle'[g].sig = handle[g].sig
              /\ handle'[g].isAsync = handle[g].isAsync
              /\ g # h => handle'[g] = handle[g]
           /\ handle'[h].th = th
           /\ ~handle'[h].inUse
<1>2. handle'[h] = [handle[h] EXCEPT !.th = th, !.inUse = FALSE]
  OBVIOUS
<1>4. \A g \in Handle : g # h => handle'[g] = handle[g]
  OBVIOUS
<1>6. /\ handle'[h].sig = handle[h].sig
      /\ handle'[h].isAsync = handle[h].isAsync
      /\ handle'[h].th = th
      /\ ~handle'[h].inUse
      /\ handle'[h] \in HandleInfo
  BY <1>2 DEF HandleInfo
<1> QED
  BY <1>4, <1>6 DEF Open
LEMMA Freed ==
    ASSUME handle \in [Handle -> HandleInfo], NEW h \in Handle, 
           handle' = [handle EXCEPT ![h] = Unused]
    PROVE  /\ handle' \in [Handle -> HandleInfo]
           /\ Open' = Open \ {h}
           /\ \A g \in Handle :  g # h => handle'[g] = handle[g]
           /\ ~handle'[h].sig /\ ~handle'[h].inUse
  BY DEF Open, Unused, HandleInfo
LEMMA Opened ==
    ASSUME handle \in [Handle -> HandleInfo], NEW h \in Handle, NEW b \in BOOLEAN,
           handle' = [handle EXCEPT ![h] = 
              [sig |-> TRUE, isAsync |-> b, inUse |-> FALSE, th |-> None]]
    PROVE  /\ handle' \in [Handle -> HandleInfo]
           /\ Open' = Open \cup {h}
           /\ \A g \in Handle :  g # h => handle'[g] = handle[g]
           /\ handle'[h].sig /\ ~handle'[h].inUse /\ handle'[h].isAsync = b
  BY DEF Open, HandleInfo

\* Types, and where a thread can be: each call goes through its own labels.
LEMMA InitPlaces == Init => Typed /\ \A t \in Thread : InCall(t)
<1> SUFFICES ASSUME Init PROVE Typed /\ \A t \in Thread : InCall(t)
  OBVIOUS
<1>1. handle \in [Handle -> HandleInfo]
  BY DEF Init, Unused, HandleInfo
<1>2. worker \in [Handle -> [Thread -> {None, "running", "released"}]]
  BY DEF Init
<1>3. pc \in [Thread -> PcLabel] /\ call \in [Thread -> Calls \cup {None, "request"}]
  BY DEF Init, PcLabel
<1>4. count \in Int /\ on \in [Thread -> Handle \cup {None}]
  BY DEF Init
<1>5. Typed
  BY <1>1, <1>2, <1>3, <1>4 DEF Init, Typed
<1>6. \A t \in Thread : InCall(t)
  BY DEF Init, InCall, None
<1> QED
  BY <1>5, <1>6

\* A step of one thread leaves the others where they are.
LEMMA PlacesStep ==
    ASSUME Places, [Next]_vars
    PROVE  Places'
<1> USE HandlesAssumption DEF Places, Typed, PcLabel, Calls, None,
        InCall, Goto, Return, Enter, Done, Staying, Open
<1>1. ASSUME NEW t \in Thread, CallSLPOpen(t) PROVE Places'
  BY <1>1 DEF CallSLPOpen
<1>2. ASSUME NEW t \in Thread, CallSLPGetProperty(t) PROVE Places'
  BY <1>2 DEF CallSLPGetProperty
<1>3. ASSUME NEW t \in Thread, NEW h \in Handle, CallSLPClose(t, h) PROVE Places'
  BY <1>3 DEF CallSLPClose
<1>4. ASSUME NEW t \in Thread, NEW h \in Handle, CallRequest(t, h) PROVE Places'
  <2>1. handle' \in [Handle -> HandleInfo]
    BY <1>4, InUseSet DEF CallRequest
  <2> QED
    BY <2>1, <1>4 DEF CallRequest
<1>5. ASSUME NEW t \in Thread, Increment(t) PROVE Places'
  BY <1>5 DEF Increment
<1>6. ASSUME NEW t \in Thread, Undo(t) PROVE Places'
  BY <1>6 DEF Undo
<1>7. ASSUME NEW t \in Thread, Ready(t) PROVE Places'
  BY <1>7 DEF Ready
<1>8. ASSUME NEW t \in Thread, Wait(t) PROVE Places'
  BY <1>8 DEF Wait
<1>9. ASSUME NEW t \in Thread, Allocate(t) PROVE Places'
  <2>1. handle' \in [Handle -> HandleInfo]
    BY <1>9, Opened DEF Allocate
  <2> QED
    BY <2>1, <1>9 DEF Allocate
<1>10. ASSUME NEW t \in Thread, AllocateFails(t) PROVE Places'
  BY <1>10 DEF AllocateFails
<1>11. ASSUME NEW t \in Thread, ReadProp(t) PROVE Places'
  BY <1>11 DEF ReadProp
<1>12. ASSUME NEW t \in Thread, Acquire(t) PROVE Places'
  BY <1>12 DEF Acquire
<1>13. ASSUME NEW t \in Thread, Release(t) PROVE Places'
  BY <1>13 DEF Release
<1>14. ASSUME NEW t \in Thread, ReleaseFailed(t) PROVE Places'
  <2>1. CASE call[t] = "SLPOpen"
    BY <1>14, <2>1 DEF ReleaseFailed
  <2>2. CASE call[t] # "SLPOpen"
    BY <1>14, <2>2 DEF ReleaseFailed
  <2> QED
    BY <2>1, <2>2
<1>15. ASSUME NEW t \in Thread, PropertyInit(t) PROVE Places'
  BY <1>15 DEF PropertyInit
<1>16. ASSUME NEW t \in Thread, PropertyInitFails(t) PROVE Places'
  BY <1>16 DEF PropertyInitFails
<1>17. ASSUME NEW t \in Thread, PropertyExit(t) PROVE Places'
  BY <1>17 DEF PropertyExit
<1>18. ASSUME NEW t \in Thread, PropertyGet(t) PROVE Places'
  BY <1>18 DEF PropertyGet
<1>19. ASSUME NEW t \in Thread, Join(t) PROVE Places'
  <2>1. on[t] \in Handle /\ handle' \in [Handle -> HandleInfo]
    BY <1>19, Freed DEF Join, FreeHandle
  <2> QED
    BY <2>1, <1>19 DEF Join, FreeHandle
<1>20. ASSUME NEW t \in Thread, JoinNothing(t) PROVE Places'
  <2>1. on[t] \in Handle /\ handle' \in [Handle -> HandleInfo]
    BY <1>20, Freed DEF JoinNothing, FreeHandle
  <2> QED
    BY <2>1, <1>20 DEF JoinNothing, FreeHandle
<1>21. ASSUME NEW t \in Thread, Decrement(t) PROVE Places'
  BY <1>21 DEF Decrement
<1>22. ASSUME NEW t \in Thread, Clear(t) PROVE Places'
  BY <1>22 DEF Clear
<1>23. ASSUME NEW t \in Thread, Down(t) PROVE Places'
  BY <1>23 DEF Down
<1>24. ASSUME NEW t \in Thread, Perform(t) PROVE Places'
  <2>1. on[t] \in Handle /\ handle' \in [Handle -> HandleInfo]
    BY <1>24, InUseSet DEF Perform
  <2> QED
    BY <2>1, <1>24 DEF Perform
<1>25. ASSUME NEW t \in Thread, CreateThread(t) PROVE Places'
  BY <1>25 DEF CreateThread
<1>26. ASSUME NEW t \in Thread, CreateThreadFails(t) PROVE Places'
  <2>1. PICK th \in {None, handle[on[t]].th} :
          handle' = [handle EXCEPT ![on[t]].th = th, ![on[t]].inUse = FALSE]
    BY <1>26 DEF CreateThreadFails
  <2>2. on[t] \in Handle /\ th \in Thread \cup {None}
    BY <1>26 DEF CreateThreadFails, HandleInfo
  <2>3. handle' \in [Handle -> HandleInfo]
    BY <2>1, <2>2, ThreadCleared
  <2> QED
    BY <2>3, <1>26 DEF CreateThreadFails
<1>27. ASSUME NEW t \in Thread, StoreThread(t) PROVE Places'
  <2>1. on[t] \in Handle /\ handle' \in [Handle -> HandleInfo]
    BY <1>27, ThreadSet DEF StoreThread
  <2> QED
    BY <2>1, <1>27 DEF StoreThread
<1>28. ASSUME NEW h \in Handle, NEW t \in Thread, AsyncProcess(h, t) PROVE Places'
  <2>1. handle' \in [Handle -> HandleInfo]
    BY <1>28, InUseSet DEF AsyncProcess
  <2>2. worker' \in [Handle -> [Thread -> {None, "running", "released"}]]
    BY <1>28 DEF AsyncProcess
  <2> QED
    BY <2>1, <2>2, <1>28 DEF AsyncProcess
<1>29. ASSUME NEW h \in Handle, NEW t \in Thread, AsyncReturn(h, t) PROVE Places'
  BY <1>29 DEF AsyncReturn
<1>30. CASE UNCHANGED vars
  BY <1>30 DEF vars
<1> QED
  BY <1>1, <1>2, <1>3, <1>4, <1>5, <1>6, <1>7, <1>8, <1>9, <1>10, <1>11, <1>12, <1>13, <1>14, <1>15, <1>16, <1>17, <1>18, <1>19, <1>20, <1>21, <1>22, <1>23, <1>24, <1>25, <1>26, <1>27, <1>28, <1>29, <1>30 DEF Next, User, Library, Worker
-----------------------------------------------------------------------------
\* Whether the thread that moves holds a reference decides on the holders.
LEMMA HoldersAfter ==
    ASSUME NEW t \in Thread,
           \A u \in Thread \ {t} : pc'[u] = pc[u] /\ call'[u] = call[u]
    PROVE  Holders' = IF Holds(t)' THEN Holders \cup {t} ELSE Holders \ {t}
  BY DEF Holders, Holds

LEMMA Finite == IsFiniteSet(Open) /\ IsFiniteSet(Holders)
  BY HandlesAssumption, FS_Subset DEF Open, Holders

\* Most steps move no reference.
LEMMA BalanceKept ==
    ASSUME Balanced, count' = count, Open' = Open, Holders' = Holders
    PROVE  Balanced'
  BY DEF Balanced

\* A count of zero means that there is no reference.
LEMMA Balance ==
    ASSUME Balanced, count \in Int
    PROVE  count \in Nat
           /\ (count = 0 => Open = {} /\ Holders = {})
           /\ (Open = {} /\ Holders = {} => count = 0)
  BY Finite, FS_CardinalityType, FS_EmptySet DEF Balanced

\* Every reference is counted once: SLPOpen hands its own over to the handle,
\* SLPClose takes it back.
LEMMA BalanceStep ==
    ASSUME Basic, [Next]_vars
    PROVE  Balanced'
<1> USE DEF Basic, Places, Typed, Goto, Return, Enter, None
<1>1. ASSUME NEW t \in Thread, CallSLPOpen(t) PROVE Balanced'
  <2>1. Holders' = Holders /\ Open' = Open
    BY <1>1 DEF CallSLPOpen, Holders, Holds, Open, InCall
  <2> QED
    BY <2>1, <1>1, BalanceKept DEF CallSLPOpen
<1>2. ASSUME NEW t \in Thread, CallSLPGetProperty(t) PROVE Balanced'
  <2>1. Holders' = Holders /\ Open' = Open
    BY <1>2 DEF CallSLPGetProperty, Holders, Holds, Open, InCall
  <2> QED
    BY <2>1, <1>2, BalanceKept DEF CallSLPGetProperty
<1>3. ASSUME NEW t \in Thread, NEW h \in Handle, CallSLPClose(t, h) PROVE Balanced'
  <2>1. Holders' = Holders /\ Open' = Open
    BY <1>3 DEF CallSLPClose, Holders, Holds, Open, InCall
  <2> QED
    BY <2>1, <1>3, BalanceKept DEF CallSLPClose
<1>4. ASSUME NEW t \in Thread, NEW h \in Handle, CallRequest(t, h) PROVE Balanced'
  <2>1. Holders' = Holders
    BY <1>4 DEF CallRequest, Holders, Holds, InCall
  <2>2. Open' = Open
    BY <1>4, InUseSet DEF CallRequest
  <2> QED
    BY <2>1, <2>2, <1>4, BalanceKept DEF CallRequest
<1>5. ASSUME NEW t \in Thread, Ready(t) PROVE Balanced'
  <2>1. Holders' = Holders /\ Open' = Open
    BY <1>5 DEF Ready, Holders, Holds, Open, InCall, Done
  <2> QED
    BY <2>1, <1>5, BalanceKept DEF Ready
<1>6. ASSUME NEW t \in Thread, Wait(t) PROVE Balanced'
  <2>1. Holders' = Holders /\ Open' = Open
    BY <1>6 DEF Wait, Holders, Holds, Open, InCall, Done
  <2> QED
    BY <2>1, <1>6, BalanceKept DEF Wait
<1>7. ASSUME NEW t \in Thread, AllocateFails(t) PROVE Balanced'
  <2>1. Holders' = Holders /\ Open' = Open
    BY <1>7 DEF AllocateFails, Holders, Holds, Open, InCall, Done
  <2> QED
    BY <2>1, <1>7, BalanceKept DEF AllocateFails
<1>8. ASSUME NEW t \in Thread, ReadProp(t) PROVE Balanced'
  <2>1. Holders' = Holders /\ Open' = Open
    BY <1>8 DEF ReadProp, Holders, Holds, Open, InCall, Done
  <2> QED
    BY <2>1, <1>8, BalanceKept DEF ReadProp
<1>9. ASSUME NEW t \in Thread, Acquire(t) PROVE Balanced'
  <2>1. Holders' = Holders /\ Open' = Open
    BY <1>9 DEF Acquire, Holders, Holds, Open, InCall, Done
  <2> QED
    BY <2>1, <1>9, BalanceKept DEF Acquire
<1>10. ASSUME NEW t \in Thread, Release(t) PROVE Balanced'
  <2>1. Holders' = Holders /\ Open' = Open
    BY <1>10 DEF Release, Holders, Holds, Open, InCall, Done
  <2> QED
    BY <2>1, <1>10, BalanceKept DEF Release
<1>11. ASSUME NEW t \in Thread, ReleaseFailed(t) PROVE Balanced'
  <2>1. Holders' = Holders /\ Open' = Open
    BY <1>11 DEF ReleaseFailed, Holders, Holds, Open, InCall, Done
  <2> QED
    BY <2>1, <1>11, BalanceKept DEF ReleaseFailed
<1>12. ASSUME NEW t \in Thread, PropertyInit(t) PROVE Balanced'
  <2>1. Holders' = Holders /\ Open' = Open
    BY <1>12 DEF PropertyInit, Holders, Holds, Open, InCall, Done
  <2> QED
    BY <2>1, <1>12, BalanceKept DEF PropertyInit
<1>13. ASSUME NEW t \in Thread, PropertyInitFails(t) PROVE Balanced'
  <2>1. Holders' = Holders /\ Open' = Open
    BY <1>13 DEF PropertyInitFails, Holders, Holds, Open, InCall, Done
  <2> QED
    BY <2>1, <1>13, BalanceKept DEF PropertyInitFails
<1>14. ASSUME NEW t \in Thread, PropertyExit(t) PROVE Balanced'
  <2>1. Holders' = Holders /\ Open' = Open
    BY <1>14 DEF PropertyExit, Holders, Holds, Open, InCall, Done
  <2> QED
    BY <2>1, <1>14, BalanceKept DEF PropertyExit
<1>15. ASSUME NEW t \in Thread, PropertyGet(t) PROVE Balanced'
  <2>1. Holders' = Holders /\ Open' = Open
    BY <1>15 DEF PropertyGet, Holders, Holds, Open, InCall, Done
  <2> QED
    BY <2>1, <1>15, BalanceKept DEF PropertyGet
<1>16. ASSUME NEW t \in Thread, Clear(t) PROVE Balanced'
  <2>1. Holders' = Holders /\ Open' = Open
    BY <1>16 DEF Clear, Holders, Holds, Open, InCall, Done
  <2> QED
    BY <2>1, <1>16, BalanceKept DEF Clear
<1>17. ASSUME NEW t \in Thread, Down(t) PROVE Balanced'
  <2>1. Holders' = Holders /\ Open' = Open
    BY <1>17 DEF Down, Holders, Holds, Open, InCall, Done
  <2> QED
    BY <2>1, <1>17, BalanceKept DEF Down
<1>18. ASSUME NEW t \in Thread, CreateThread(t) PROVE Balanced'
  <2>1. Holders' = Holders /\ Open' = Open
    BY <1>18 DEF CreateThread, Holders, Holds, Open, InCall, Done
  <2> QED
    BY <2>1, <1>18, BalanceKept DEF CreateThread
<1>19. ASSUME NEW t \in Thread, Perform(t) PROVE Balanced'
  <2>1. Holders' = Holders
    BY <1>19 DEF Perform, Holders, Holds, InCall
  <2>2. on[t] \in Handle
    BY <1>19, HandlesAssumption DEF Perform, InCall
  <2>3. Open' = Open
    BY <1>19, <2>2, InUseSet DEF Perform
  <2> QED
    BY <2>1, <2>3, <1>19, BalanceKept DEF Perform
<1>20. ASSUME NEW t \in Thread, StoreThread(t) PROVE Balanced'
  <2>1. Holders' = Holders
    BY <1>20 DEF StoreThread, Holders, Holds, InCall
  <2>2. on[t] \in Handle
    BY <1>20, HandlesAssumption DEF StoreThread, InCall
  <2>3. Open' = Open
    BY <1>20, <2>2, ThreadSet DEF StoreThread
  <2> QED
    BY <2>1, <2>3, <1>20, BalanceKept DEF StoreThread
<1>21. ASSUME NEW t \in Thread, CreateThreadFails(t) PROVE Balanced'
  <2>1. Holders' = Holders
    BY <1>21 DEF CreateThreadFails, Holders, Holds, InCall
  <2>2. on[t] \in Handle
    BY <1>21 DEF CreateThreadFails, InCall
  <2>3. PICK th \in {None, handle[on[t]].th} :
          handle' = [handle EXCEPT ![on[t]].th = th, ![on[t]].inUse = FALSE]
    BY <1>21 DEF CreateThreadFails
  <2>4. th \in Thread \cup {None}
    BY <2>2, <2>3 DEF HandleInfo
  <2>5. Open' = Open
    BY <2>2, <2>3, <2>4, ThreadCleared
  <2> QED
    BY <2>1, <2>5, <1>21, BalanceKept DEF CreateThreadFails
<1>22. ASSUME NEW t \in Thread, Increment(t) PROVE Balanced'
  <2>1. t \notin Holders /\ Holders' = Holders \cup {t} /\ Open' = Open
    BY <1>22, HoldersAfter DEF Increment, Holders, Holds, Open, InCall
  <2>2. Cardinality(Holders') = Cardinality(Holders) + 1
    BY <2>1, Finite, FS_AddElement
  <2> QED
    BY <2>1, <2>2, <1>22, Finite, FS_CardinalityType DEF Increment, Balanced
<1>23. ASSUME NEW t \in Thread, Undo(t) PROVE Balanced'
  <2>1. t \in Holders /\ Holders' = Holders \ {t} /\ Open' = Open
    BY <1>23, HoldersAfter DEF Undo, Holders, Holds, Open, InCall
  <2>2. Cardinality(Holders') = Cardinality(Holders) - 1
    BY <2>1, Finite, FS_RemoveElement
  <2> QED
    BY <2>1, <2>2, <1>23, Finite, FS_CardinalityType DEF Undo, Balanced
<1>24. ASSUME NEW t \in Thread, Decrement(t) PROVE Balanced'
  <2>1. t \in Holders /\ Holders' = Holders \ {t} /\ Open' = Open
    BY <1>24, HoldersAfter DEF Decrement, Holders, Holds, Open, InCall
  <2>2. Cardinality(Holders') = Cardinality(Holders) - 1
    BY <2>1, Finite, FS_RemoveElement
  <2> QED
    BY <2>1, <2>2, <1>24, Finite, FS_CardinalityType DEF Decrement, Balanced
<1>25. ASSUME NEW t \in Thread, Allocate(t) PROVE Balanced'
  <2>1. t \in Holders /\ Holders' = Holders \ {t}
    BY <1>25, HoldersAfter DEF Allocate, Holders, Holds, InCall
  <2>2. PICK h \in Handle \ Open, b \in BOOLEAN : handle' = [handle EXCEPT ![h] =
              [sig |-> TRUE, isAsync |-> b, inUse |-> FALSE, th |-> None]]
    BY <1>25 DEF Allocate
  <2>3. Open' = Open \cup {h}
    BY <2>2, Opened
  <2>4. Cardinality(Holders') = Cardinality(Holders) - 1
    BY <2>1, Finite, FS_RemoveElement
  <2>5. Cardinality(Open') = Cardinality(Open) + 1
    BY <2>2, <2>3, Finite, FS_AddElement
  <2> QED
    BY <2>4, <2>5, <1>25, Finite, FS_CardinalityType DEF Allocate, Balanced
<1>26. ASSUME NEW t \in Thread, Join(t) PROVE Balanced'
  <2>1. t \notin Holders /\ Holders' = Holders \cup {t}
    BY <1>26, HoldersAfter DEF Join, FreeHandle, Holders, Holds, InCall
  <2>2. on[t] \in Open
    BY <1>26 DEF Join, Open, InCall, JoinsApart, Joins
  <2>3. Open' = Open \ {on[t]}
    BY <1>26, <2>2, Freed DEF Join, FreeHandle, Open
  <2>4. Cardinality(Holders') = Cardinality(Holders) + 1
    BY <2>1, Finite, FS_AddElement
  <2>5. Cardinality(Open') = Cardinality(Open) - 1
    BY <2>2, <2>3, Finite, FS_RemoveElement
  <2> QED
    BY <2>4, <2>5, <1>26, Finite, FS_CardinalityType DEF Join, Balanced
<1>27. ASSUME NEW t \in Thread, JoinNothing(t) PROVE Balanced'
  <2>1. t \notin Holders /\ Holders' = Holders \cup {t}
    BY <1>27, HoldersAfter DEF JoinNothing, FreeHandle, Holders, Holds, InCall
  <2>2. on[t] \in Open
    BY <1>27 DEF JoinNothing, Open, InCall, JoinsApart, Joins
  <2>3. Open' = Open \ {on[t]}
    BY <1>27, <2>2, Freed DEF JoinNothing, FreeHandle, Open
  <2>4. Cardinality(Holders') = Cardinality(Holders) + 1
    BY <2>1, Finite, FS_AddElement
  <2>5. Cardinality(Open') = Cardinality(Open) - 1
    BY <2>2, <2>3, Finite, FS_RemoveElement
  <2> QED
    BY <2>4, <2>5, <1>27, Finite, FS_CardinalityType DEF JoinNothing, Balanced
<1>28. ASSUME NEW h \in Handle, NEW t \in Thread, AsyncProcess(h, t) PROVE Balanced'
  <2>1. Holders' = Holders
    BY <1>28 DEF AsyncProcess, Holders, Holds
  <2>2. Open' = Open
    BY <1>28, InUseSet DEF AsyncProcess
  <2> QED
    BY <2>1, <2>2, <1>28, BalanceKept DEF AsyncProcess
<1>29. ASSUME NEW h \in Handle, NEW t \in Thread, AsyncReturn(h, t) PROVE Balanced'
  BY <1>29, BalanceKept DEF AsyncReturn, Holders, Holds, Open
<1>30. CASE UNCHANGED vars
  BY <1>30, BalanceKept DEF vars, Holders, Holds, Open
<1> QED
  BY <1>1, <1>2, <1>3, <1>4, <1>5, <1>6, <1>7, <1>8, <1>9, <1>10, <1>11, <1>12, <1>13, <1>14, <1>15, <1>16, <1>17, <1>18, <1>19, <1>20, <1>21, <1>22, <1>23, <1>24, <1>25, <1>26, <1>27, <1>28, <1>29, <1>30 DEF Next, User, Library, Worker
-----------------------------------------------------------------------------
\* The steps on the way of the library up and down, which leave handles alone.
UpAndDown(t) ==
    \/ CallSLPOpen(t) \/ CallSLPGetProperty(t)
    \/ Increment(t) \/ Undo(t) \/ Ready(t) \/ Wait(t) \/ AllocateFails(t)
    \/ ReadProp(t) \/ Acquire(t) \/ Release(t) \/ ReleaseFailed(t)
    \/ PropertyInit(t) \/ PropertyInitFails(t) \/ PropertyExit(t)
    \/ PropertyGet(t) \/ Decrement(t) \/ Clear(t) \/ Down(t)

LEMMA UpAndDownApart ==
    ASSUME Places, NEW t \in Thread, UpAndDown(t)
    PROVE  /\ UNCHANGED <<handle, worker>>
           /\ \A u \in Thread, h \in Handle :
                 /\ Joins(u, h)' <=> Joins(u, h)
                 /\ Uses(u, h)' <=> Uses(u, h)
                 /\ Uses(u, h) => pc'[u] = pc[u]
<1> USE DEF Places, Typed, InCall, Joins, Uses, Goto, Return, Enter, Done, None
<1>1. CASE \/ CallSLPOpen(t) \/ CallSLPGetProperty(t)
           \/ Increment(t) \/ Undo(t) \/ Ready(t) \/ Wait(t) \/ AllocateFails(t)
  BY <1>1 DEF CallSLPOpen, CallSLPGetProperty, Increment, Undo, Ready, Wait, AllocateFails
<1>2. CASE ReadProp(t) \/ Acquire(t) \/ Release(t)
  BY <1>2 DEF ReadProp, Acquire, Release
<1>3. CASE ReleaseFailed(t) \/ PropertyInit(t) \/ PropertyInitFails(t) \/ PropertyExit(t)
  BY <1>3 DEF ReleaseFailed, PropertyInit, PropertyInitFails, PropertyExit
<1>4. CASE PropertyGet(t) \/ Decrement(t) \/ Clear(t) \/ Down(t)
  BY <1>4 DEF PropertyGet, Decrement, Clear, Down
<1> QED
  BY <1>1, <1>2, <1>3, <1>4, UpAndDown(t) DEF UpAndDown

\* Two threads never close the same handle, and the one they close is open.
LEMMA JoinsApartStep ==
    ASSUME Places, JoinsApart, [Next]_vars
    PROVE  JoinsApart'
<1> USE DEF Places, Typed, InCall, Goto, Return, Enter, None
<1>1. ASSUME NEW t \in Thread, UpAndDown(t) PROVE JoinsApart'
  BY <1>1, UpAndDownApart DEF JoinsApart
<1>2. ASSUME NEW t \in Thread, NEW h \in Handle, CallSLPClose(t, h) PROVE JoinsApart'
  <2>1. \A u \in Thread : ~Joins(u, h)
    BY <1>2 DEF CallSLPClose, Staying, Closing, Joins
  <2> QED
    BY <1>2, <2>1 DEF CallSLPClose, JoinsApart, Joins, Staying, Open
<1>3. ASSUME NEW t \in Thread, NEW h \in Handle, CallRequest(t, h) PROVE JoinsApart'
  <2>1. \A g \in Handle : handle'[g].sig = handle[g].sig
    BY <1>3, InUseSet DEF CallRequest
  <2> QED
    BY <1>3, <2>1 DEF CallRequest, JoinsApart, Joins
<1>4. ASSUME NEW t \in Thread, Allocate(t) PROVE JoinsApart'
  <2>1. \A g \in Handle : handle[g].sig => handle'[g].sig
    BY <1>4, Opened DEF Allocate
  <2> QED
    BY <1>4, <2>1 DEF Allocate, JoinsApart, Joins
<1>5. ASSUME NEW t \in Thread, Join(t) \/ JoinNothing(t) PROVE JoinsApart'
  <2>1. Joins(t, on[t]) /\ FreeHandle(t) /\ on[t] \in Handle
    BY <1>5 DEF Join, JoinNothing, Joins
  <2>2. \A g \in Handle : g # on[t] => handle'[g] = handle[g]
    BY <2>1, Freed DEF FreeHandle
  <2>3. \A u \in Thread, g \in Handle : Joins(u, g)' => Joins(u, g) /\ u # t
    BY <2>1, <1>5 DEF FreeHandle, Joins, Join, JoinNothing
  <2> QED
    BY <2>1, <2>2, <2>3 DEF JoinsApart
<1>6. ASSUME NEW t \in Thread, Perform(t) \/ StoreThread(t) PROVE JoinsApart'
  <2>1. on[t] \in Handle
    BY <1>6 DEF Perform, StoreThread
  <2>2. \A g \in Handle : handle'[g].sig = handle[g].sig
    BY <1>6, <2>1, InUseSet, ThreadSet DEF Perform, StoreThread
  <2>3. \A u \in Thread, g \in Handle : Joins(u, g)' => Joins(u, g)
    BY <1>6 DEF Perform, StoreThread, Joins
  <2> QED
    BY <2>2, <2>3 DEF JoinsApart
<1>7. ASSUME NEW t \in Thread, CreateThreadFails(t) PROVE JoinsApart'
  <2>1. on[t] \in Handle
    BY <1>7 DEF CreateThreadFails
  <2>2. PICK th \in Thread \cup {None} :
          handle' = [handle EXCEPT ![on[t]].th = th, ![on[t]].inUse = FALSE]
    BY <1>7, <2>1 DEF CreateThreadFails, HandleInfo
  <2>3. \A g \in Handle : handle'[g].sig = handle[g].sig
    BY <2>1, <2>2, ThreadCleared
  <2> QED
    BY <1>7, <2>3 DEF CreateThreadFails, JoinsApart, Joins
<1>8. ASSUME NEW t \in Thread, CreateThread(t) PROVE JoinsApart'
  BY <1>8 DEF CreateThread, JoinsApart, Joins
<1>9. ASSUME NEW h \in Handle, NEW t \in Thread, Worker(h, t) PROVE JoinsApart'
  <2>1. \A g \in Handle : handle'[g].sig = handle[g].sig
    BY <1>9, InUseSet DEF Worker, AsyncProcess, AsyncReturn
  <2> QED
    BY <1>9, <2>1 DEF Worker, AsyncProcess, AsyncReturn, JoinsApart, Joins
<1>10. CASE UNCHANGED vars
  BY <1>10 DEF vars, JoinsApart, Joins
<1> QED
  BY <1>1, <1>2, <1>3, <1>4, <1>5, <1>6, <1>7, <1>8, <1>9, <1>10
     DEF Next, User, Library, UpAndDown

\* What holds in every program.
LEMMA BasicStep == Basic /\ [Next]_vars => Basic'
  BY PlacesStep, JoinsApartStep, BalanceStep DEF Basic
-----------------------------------------------------------------------------
\* What of a handle its threads and its request depend on.
LEMMA RequestsKept ==
    ASSUME Requests, worker' = worker, handle' = handle,
           \A u \in Thread, h \in Handle :
              /\ Joins(u, h)' => Joins(u, h)
              /\ Uses(u, h)' => Uses(u, h) /\ pc'[u] = pc[u]
              /\ Uses(u, h) => Uses(u, h)'
    PROVE  Requests'
  BY DEF Requests, UsersHold, UsersApart, WorkersHold, Running

\* Who works on a handle, under the rules of an orderly program.
LEMMA RequestsStep ==
    ASSUME Orderly, Basic, Requests, [Next]_vars
    PROVE  Requests'
<1> USE DEF Basic, Places, Typed, InCall, Goto, Return, Enter, None
<1>1. ASSUME NEW t \in Thread, UpAndDown(t) PROVE Requests'
  BY <1>1, UpAndDownApart, RequestsKept
\* No thread is in a request on the handle, so its workers are all stored.
<1>2. ASSUME NEW t \in Thread, NEW h \in Handle, CallSLPClose(t, h) PROVE Requests'
  <2>1. handle' = handle /\ worker' = worker
    BY <1>2 DEF CallSLPClose
  <2>2. \A u \in Thread : ~Uses(u, h)
    BY <1>2 DEF CallSLPClose, UsedByAThread, Uses
  <2>3. \A u \in Thread, g \in Handle : 
           /\ Uses(u, g)' <=> Uses(u, g)
           /\ Uses(u, g) => pc'[u] = pc[u]
           /\ Joins(u, g)' => Joins(u, g) \/ g = h
    BY <1>2 DEF CallSLPClose, Uses, Joins
  <2>10. UsersHold'
    BY <2>1, <2>2, <2>3 DEF Requests, UsersHold, Running
  <2>11. UsersApart'
    BY <2>1, <2>2, <2>3 DEF Requests, UsersApart
  <2>12. WorkersHold'
    BY <2>1, <2>2, <2>3 DEF Requests, UsersHold, WorkersHold, Running
  <2> QED
    BY <2>10, <2>11, <2>12 DEF Requests
\* The handle is free: no request runs on it, and no thread is still in one.
<1>3. ASSUME NEW t \in Thread, NEW h \in Handle, CallRequest(t, h) PROVE Requests'
  <2>1. /\ worker' = worker
        /\ \A g \in Handle : g # h => handle'[g] = handle[g]
        /\ handle'[h].sig /\ handle'[h].inUse
        /\ handle'[h].isAsync = handle[h].isAsync /\ handle'[h].th = handle[h].th
    BY <1>3, InUseSet DEF CallRequest, Staying, Open
  <2>2. ~handle[h].inUse /\ h \in Staying
    BY <1>3 DEF CallRequest
  <2>3. \A u \in Thread : ~Running(h, u) /\ ~Uses(u, h)
    <3>1. CASE handle[h].isAsync
      BY <1>3, <2>2, <3>1 DEF CallRequest, MayRequest, UsedByAThread, Uses, Requests, UsersHold, UsersApart, WorkersHold
    <3>2. CASE ~handle[h].isAsync
      BY <2>2, <3>2 DEF Uses, Requests, UsersHold, UsersApart, WorkersHold
    <3> QED
      BY <3>1, <3>2
  <2>4. \A u \in Thread : ~Joins(u, h)
    BY <2>2 DEF Staying, Closing, Joins
  <2>5. \A u \in Thread, g \in Handle :
           /\ Joins(u, g)' => Joins(u, g)
           /\ u # t => (Uses(u, g)' <=> Uses(u, g)) /\ pc'[u] = pc[u]
           /\ g # h => ~Uses(t, g)' /\ ~Uses(t, g)
    BY <1>3 DEF CallRequest, Uses, Joins
  <2>6. Uses(t, h)' /\ pc'[t] = IF handle'[h].isAsync THEN "create" ELSE "perform"
    BY <1>3, <2>1 DEF CallRequest, Uses
  <2>10. UsersHold'
    BY <2>1, <2>3, <2>4, <2>5, <2>6 DEF Requests, UsersHold, Running
  <2>11. UsersApart'
    BY <2>1, <2>3, <2>4, <2>5, <2>6 DEF Requests, UsersApart
  <2>12. WorkersHold'
    BY <2>1, <2>3, <2>4, <2>5, <2>6 DEF Requests, UsersHold, WorkersHold, Running
  <2> QED
    BY <2>10, <2>11, <2>12 DEF Requests
\* A handle that was free has no request left over.
<1>4. ASSUME NEW t \in Thread, Allocate(t) PROVE Requests'
  <2>1. PICK h \in Handle \ Open : 
           /\ \A g \in Handle : g # h => handle'[g] = handle[g]
    BY <1>4, Opened DEF Allocate
  <2>2. \A u \in Thread : ~Running(h, u) /\ ~Uses(u, h)
    BY <2>1 DEF Requests, UsersHold, UsersApart, WorkersHold, Open
  <2>3. \A u \in Thread, g \in Handle :
           /\ Joins(u, g)' <=> Joins(u, g)
           /\ Uses(u, g)' <=> Uses(u, g)
           /\ Uses(u, g) => pc'[u] = pc[u]
    BY <1>4 DEF Allocate, Uses, Joins
  <2>4. worker' = worker
    BY <1>4 DEF Allocate
  <2>10. UsersHold'
    BY <2>1, <2>2, <2>3, <2>4 DEF Requests, UsersHold, Running
  <2>11. UsersApart'
    BY <2>1, <2>2, <2>3, <2>4 DEF Requests, UsersApart
  <2>12. WorkersHold'
    BY <2>1, <2>2, <2>3, <2>4 DEF Requests, UsersHold, WorkersHold, Running
  <2> QED
    BY <2>10, <2>11, <2>12 DEF Requests
\* The thread that is joined is the only one that could have been running.
<1>5. ASSUME NEW t \in Thread, Join(t) \/ JoinNothing(t) PROVE Requests'
  <2> DEFINE h == on[t]
  <2>1. h \in Handle /\ Joins(t, h)
    BY <1>5 DEF Join, JoinNothing, Joins
  <2>2. \A u \in Thread : ~Uses(u, h)
    BY <2>1 DEF Requests, UsersHold, UsersApart, WorkersHold
  <2>3. \A u \in Thread : ~Running(h, u)
    <3> SUFFICES ASSUME NEW u \in Thread, Running(h, u) PROVE FALSE
      OBVIOUS
    <3>1. handle[h].isAsync /\ handle[h].th = u
      BY <2>1, <2>2 DEF Requests, UsersHold, UsersApart, WorkersHold
    <3>2. CASE Join(t)
      BY <3>1, <3>2 DEF Join, Running
    <3>3. CASE JoinNothing(t)
      BY <3>1, <3>3, HandlesAssumption DEF JoinNothing
    <3> QED
      BY <1>5, <3>2, <3>3
  <2>4. worker' = worker /\ \A g \in Handle : g # h => handle'[g] = handle[g]
    BY <1>5, <2>1, Freed DEF Join, JoinNothing, FreeHandle
  <2>5. \A u \in Thread, g \in Handle :
           /\ Joins(u, g)' => Joins(u, g)
           /\ Uses(u, g)' <=> Uses(u, g)
           /\ Uses(u, g) => pc'[u] = pc[u]
    BY <1>5 DEF Join, JoinNothing, FreeHandle, Uses, Joins
  <2> HIDE DEF h
  <2>10. UsersHold'
    BY <2>1, <2>2, <2>3, <2>4, <2>5 DEF Requests, UsersHold, Running
  <2>11. UsersApart'
    BY <2>1, <2>2, <2>3, <2>4, <2>5 DEF Requests, UsersApart
  <2>12. WorkersHold'
    BY <2>1, <2>2, <2>3, <2>4, <2>5 DEF Requests, UsersHold, WorkersHold, Running
  <2> QED
    BY <2>10, <2>11, <2>12 DEF Requests
\* The thread leaves the handle free.
<1>6. ASSUME NEW t \in Thread, Perform(t) \/ StoreThread(t) \/ CreateThreadFails(t) 
      PROVE Requests'
  <2> DEFINE h == on[t]
  <2>1. h \in Handle /\ Uses(t, h)
    BY <1>6 DEF Perform, StoreThread, CreateThreadFails, Uses
  <2>2. \A u \in Thread : Uses(u, h) => u = t
    BY <2>1 DEF Requests, UsersHold, UsersApart, WorkersHold
  <2>3. \A u \in Thread : Running(h, u) => u = t
    BY <2>1 DEF Requests, UsersHold, UsersApart, WorkersHold
  <2>4. /\ worker' = worker /\ \A g \in Handle : g # h => handle'[g] = handle[g]
        /\ handle'[h].sig = handle[h].sig /\ handle'[h].isAsync = handle[h].isAsync
        /\ pc[t] = "store" => handle'[h].inUse = handle[h].inUse /\ handle'[h].th = t
    <3>1. CASE Perform(t)
      BY <2>1, <3>1, InUseSet DEF Perform
    <3>2. CASE StoreThread(t)
      BY <2>1, <3>2, ThreadSet DEF StoreThread
    <3>3. CASE CreateThreadFails(t)
      <4>1. PICK th \in Thread \cup {None} :
              handle' = [handle EXCEPT ![on[t]].th = th, ![on[t]].inUse = FALSE]
        BY <2>1, <3>3 DEF CreateThreadFails, HandleInfo
      <4>2. worker' = worker /\ pc[t] # "store"
        BY <3>3 DEF CreateThreadFails
      <4> QED
        BY <2>1, <4>1, <4>2, ThreadCleared
    <3> QED
      BY <1>6, <3>1, <3>2, <3>3
  <2>5. \A u \in Thread, g \in Handle :
           /\ Joins(u, g)' => Joins(u, g)
           /\ Uses(u, g)' <=> Uses(u, g) /\ u # t
           /\ u # t => pc'[u] = pc[u]
           /\ g # h => ~Uses(t, g)
    BY <1>6 DEF Perform, StoreThread, CreateThreadFails, Uses, Joins
  <2>6. pc[t] # "store" => \A u \in Thread : ~Running(h, u)
    BY <2>1 DEF Requests, UsersHold, UsersApart, WorkersHold
  <2> HIDE DEF h
  <2>10. UsersHold'
    BY <2>1, <2>2, <2>3, <2>4, <2>5, <2>6 DEF Requests, UsersHold, Running
  <2>11. UsersApart'
    BY <2>1, <2>2, <2>3, <2>4, <2>5, <2>6 DEF Requests, UsersApart
  <2>12. WorkersHold'
    BY <2>1, <2>2, <2>3, <2>4, <2>5, <2>6 DEF Requests, UsersHold, WorkersHold, Running
  <2> QED
    BY <2>10, <2>11, <2>12 DEF Requests
<1>7. ASSUME NEW t \in Thread, CreateThread(t) PROVE Requests'
  <2> DEFINE h == on[t]
  <2>1. h \in Handle /\ Uses(t, h) /\ pc[t] = "create"
    BY <1>7 DEF CreateThread, Uses
  <2>2. handle[h].sig /\ handle[h].isAsync /\ handle[h].inUse 
    BY <2>1 DEF Requests, UsersHold, UsersApart, WorkersHold
  <2>3. \A u \in Thread : ~Running(h, u) /\ ~Joins(u, h) /\ (Uses(u, h) => u = t)
    BY <2>1 DEF Requests, UsersHold, UsersApart, WorkersHold
  <2>4. handle' = handle 
        /\ \A u \in Thread, g \in Handle : Running(g, u)' <=> Running(g, u) \/ (g = h /\ u = t)
    BY <1>7 DEF CreateThread, Running
  <2>5. \A u \in Thread, g \in Handle :
           /\ Joins(u, g)' <=> Joins(u, g)
           /\ Uses(u, g)' <=> Uses(u, g)
           /\ u # t => pc'[u] = pc[u]
           /\ pc'[t] = "store"
           /\ g # h => ~Uses(t, g)
    BY <1>7 DEF CreateThread, Uses, Joins
  <2> HIDE DEF h
  <2>10. UsersHold'
    BY <2>1, <2>2, <2>3, <2>4, <2>5 DEF Requests, UsersHold, Running
  <2>11. UsersApart'
    BY <2>1, <2>2, <2>3, <2>4, <2>5 DEF Requests, UsersApart
  <2>12. WorkersHold'
    BY <2>1, <2>2, <2>3, <2>4, <2>5 DEF Requests, UsersHold, WorkersHold, Running
  <2> QED
    BY <2>10, <2>11, <2>12 DEF Requests
\* The thread of a request releases the handle, which was its own alone.
<1>8. ASSUME NEW h \in Handle, NEW t \in Thread, AsyncProcess(h, t) PROVE Requests'
  <2>1. Running(h, t)
    BY <1>8 DEF AsyncProcess, Running
  <2>2. \A u \in Thread : Running(h, u) => u = t
    BY <2>1 DEF Requests, UsersHold, UsersApart, WorkersHold
  <2>3. \A u \in Thread : Uses(u, h) => pc[u] = "store"
    BY <2>1 DEF Requests, UsersHold, UsersApart, WorkersHold, Uses
  <2>4. \A g \in Handle : 
           /\ g # h => handle'[g] = handle[g]
           /\ handle'[g].sig = handle[g].sig /\ handle'[g].isAsync = handle[g].isAsync
    BY <1>8, InUseSet DEF AsyncProcess
  <2>5. \A u \in Thread, g \in Handle : Running(g, u)' <=> Running(g, u) /\ ~(g = h /\ u = t)
    BY <1>8 DEF AsyncProcess, Running
  <2>6. pc' = pc /\ on' = on
    BY <1>8 DEF AsyncProcess
  <2>7. \A u \in Thread, g \in Handle :
           (Joins(u, g)' <=> Joins(u, g)) /\ (Uses(u, g)' <=> Uses(u, g))
    BY <2>6 DEF Joins, Uses
  <2>10. UsersHold'
    BY <2>1, <2>2, <2>3, <2>4, <2>5, <2>6, <2>7 DEF Requests, UsersHold, Running
  <2>11. UsersApart'
    BY <2>1, <2>2, <2>3, <2>4, <2>5, <2>6, <2>7 DEF Requests, UsersApart
  <2>12. WorkersHold'
    BY <2>1, <2>2, <2>3, <2>4, <2>5, <2>6, <2>7 DEF Requests, UsersHold, WorkersHold, Running
  <2> QED
    BY <2>10, <2>11, <2>12 DEF Requests
<1>9. ASSUME NEW h \in Handle, NEW t \in Thread, AsyncReturn(h, t) PROVE Requests'
  <2>1. \A u \in Thread, g \in Handle : Running(g, u)' <=> Running(g, u)
    BY <1>9 DEF AsyncReturn, Running
  <2> QED
    BY <1>9, <2>1 DEF AsyncReturn, Requests, UsersHold, UsersApart, WorkersHold, Joins, Uses
<1>10. CASE UNCHANGED vars
  BY <1>10 DEF vars, Requests, UsersHold, UsersApart, WorkersHold, Joins, Uses, Running
<1> QED
  BY <1>1, <1>2, <1>3, <1>4, <1>5, <1>6, <1>7, <1>8, <1>9, <1>10
     DEF Next, User, Library, UpAndDown, Worker
-----------------------------------------------------------------------------
\* The steps of a request open and free no handle.
RequestStep(t) ==
    \/ \E h \in Handle : CallRequest(t, h)
    \/ Perform(t) \/ CreateThread(t) \/ CreateThreadFails(t) \/ StoreThread(t)

LEMMA RequestsOpen ==
    ASSUME Places, NEW t \in Thread, RequestStep(t)
    PROVE  /\ Open' = Open
           /\ UNCHANGED <<count, inited, prop>>
           /\ \A u \in Thread \ {t} : pc'[u] = pc[u] /\ call'[u] = call[u]
           /\ call[t] \in {None, "request"} /\ call'[t] \in {None, "request"}
           /\ pc[t] \in {"user", "perform", "create", "store"}
           /\ pc'[t] \in {"user", "perform", "create", "store"}
           /\ \A h \in Handle, u \in Thread : Joins(u, h)' <=> Joins(u, h)
<1> USE DEF Places, Typed, InCall, Goto, Return, Enter, None
<1>1. ASSUME NEW h \in Handle, CallRequest(t, h) PROVE Open' = Open
  BY <1>1, InUseSet DEF CallRequest
<1>2. ASSUME Perform(t) \/ StoreThread(t) PROVE Open' = Open
  <2>1. on[t] \in Handle
    BY <1>2 DEF Perform, StoreThread
  <2> QED
    BY <1>2, <2>1, InUseSet, ThreadSet DEF Perform, StoreThread
<1>3. ASSUME CreateThreadFails(t) PROVE Open' = Open
  <2>1. on[t] \in Handle
    BY <1>3 DEF CreateThreadFails
  <2>2. PICK th \in Thread \cup {None} :
          handle' = [handle EXCEPT ![on[t]].th = th, ![on[t]].inUse = FALSE]
    BY <1>3, <2>1 DEF CreateThreadFails, HandleInfo
  <2> QED
    BY <2>1, <2>2, ThreadCleared
<1>4. ASSUME CreateThread(t) PROVE Open' = Open
  BY <1>4 DEF CreateThread, Open
<1>5. Open' = Open
  BY <1>1, <1>2, <1>3, <1>4, RequestStep(t) DEF RequestStep
<1>6. UNCHANGED <<count, inited, prop>>
  BY RequestStep(t) DEF RequestStep, CallRequest, Perform, CreateThread, CreateThreadFails, StoreThread
<1>7. /\ \A u \in Thread \ {t} : pc'[u] = pc[u] /\ call'[u] = call[u]
      /\ call[t] \in {None, "request"} /\ call'[t] \in {None, "request"}
      /\ pc[t] \in {"user", "perform", "create", "store"}
      /\ pc'[t] \in {"user", "perform", "create", "store"}
  BY RequestStep(t) DEF RequestStep, CallRequest, Perform, CreateThread, CreateThreadFails, StoreThread
<1>8. \A h \in Handle, u \in Thread : Joins(u, h)' <=> Joins(u, h)
  BY RequestStep(t)
     DEF RequestStep, CallRequest, Perform, CreateThread, CreateThreadFails, StoreThread, Joins
<1> QED
  BY <1>5, <1>6, <1>7, <1>8

\* A handle stays as long as nobody is closing it.
LEMMA StayingIs ==
    ASSUME Places
    PROVE  Staying = {h \in Handle : handle[h].sig /\ \A u \in Thread : ~Joins(u, h)}
  BY HandlesAssumption DEF Places, Typed, InCall, Staying, Open, Closing, Joins, None

\* And so after a step.
LEMMA StayingIsNext ==
    ASSUME Places'
    PROVE  Staying' = {h \in Handle : handle'[h].sig /\ \A u \in Thread : ~Joins(u, h)'}
  BY HandlesAssumption DEF Places, Typed, InCall, Staying, Open, Closing, Joins, None

\* A thread that puts the library away is the only one in it.
LEMMA TearsDownAlone ==
    ASSUME Basic, DownAlone, NothingLeft, NEW t \in Thread, TearsDown(t)
    PROVE  Alone(t) /\ Open = {} /\ Holders = {}
<1>1. count = 0
  BY DEF NothingLeft
<1>2. Open = {} /\ Holders = {}
  BY <1>1, Balance DEF Basic, Places, Typed
<1> QED
  BY <1>2 DEF DownAlone, Staying, GoingDown, TearsDown

\* The last holder of a reference, when no handle is open, is the only thread
\* in the library if it is on its way down.
LEMMA LastReference ==
    ASSUME Basic, DownAlone, NEW t \in Thread, pc[t] = "decrement", Open = {}
    PROVE  count = 1
<1>1. Alone(t)
  BY DEF Basic, Places, InCall, DownAlone, Staying, GoingDown
<1>2. Holders = {t}
  BY <1>1 DEF Alone, Holders, Holds, Calls, Basic, Places, InCall
<1>3. Cardinality(Holders) = 1 /\ Cardinality(Open) = 0
  BY <1>2, FS_Singleton, FS_EmptySet
<1> QED
  BY <1>3 DEF Basic, Balanced

\* No other thread enters, and the one that moves goes down only alone.
LEMMA DownAloneKept ==
    ASSUME DownAlone, NEW t \in Thread,
           \A u \in Thread \ {t} : pc'[u] = pc[u] /\ call'[u] = call[u],
           Staying' = {} => Staying = {},
           GoingDown(t)' => GoingDown(t) \/ (Staying = {} => Alone(t)),
           call'[t] \in Calls => call[t] \in Calls
    PROVE  DownAlone'
<1> SUFFICES ASSUME NEW u \in Thread, Staying' = {}, GoingDown(u)', 
                    NEW v \in Thread \ {u}, call'[v] \in Calls
             PROVE  FALSE
  BY DEF DownAlone, Alone, Calls
<1>1. CASE u = t
  BY <1>1 DEF DownAlone, Alone
<1>2. CASE u # t
  BY <1>2 DEF DownAlone, Alone, GoingDown
<1> QED
  BY <1>1, <1>2

\* The last handle is closed, and an SLPOpen fails, by a thread alone.
LEMMA DownAloneStep ==
    ASSUME Orderly, Basic, DownAlone, [Next]_vars
    PROVE  DownAlone'
<1> USE DEF Basic, Places, Typed, InCall, Goto, Return, Enter, None
<1>0. Places'
  BY PlacesStep
<1>1. ASSUME NEW t \in Thread, CallSLPOpen(t) \/ CallSLPGetProperty(t)
      PROVE  DownAlone'
  <2>1. Staying' = Staying
    BY <1>0, <1>1, UpAndDownApart, StayingIs, StayingIsNext DEF UpAndDown
  <2>2. \A u \in Thread : GoingDown(u)' <=> GoingDown(u)
    BY <1>1 DEF CallSLPOpen, CallSLPGetProperty, GoingDown
  <2>3. Staying = {} => \A u \in Thread : ~GoingDown(u)
    BY <1>1 DEF CallSLPOpen, CallSLPGetProperty, MayEnter
  <2> QED
    BY <2>1, <2>2, <2>3 DEF DownAlone
<1>2. ASSUME NEW t \in Thread, NEW h \in Handle, CallSLPClose(t, h) PROVE DownAlone'
  <2> SUFFICES ASSUME Staying' = {}, NEW u \in Thread, GoingDown(u)'
               PROVE  Alone(u)'
    BY DEF DownAlone
  <2>1. Staying \subseteq {h}
    BY <1>2 DEF CallSLPClose, Staying, Closing, Open
  <2>2. Alone(t)
    BY <1>2, <2>1 DEF CallSLPClose, MayClose
  <2>3. u = t
    BY <1>2, <2>2 DEF CallSLPClose, GoingDown, Alone, Calls
  <2> QED
    BY <1>2, <2>2, <2>3 DEF CallSLPClose, Alone
<1>3. ASSUME NEW t \in Thread, AllocateFails(t) \/ PropertyInitFails(t) PROVE DownAlone'
  <2>1. Staying' = Staying
    BY <1>0, <1>3, UpAndDownApart, StayingIs, StayingIsNext DEF UpAndDown
  <2>2. Staying = {} => Alone(t)
    BY <1>3 DEF AllocateFails, PropertyInitFails, CanFail
  <2>3. /\ \A u \in Thread \ {t} : pc'[u] = pc[u] /\ call'[u] = call[u]
        /\ call'[t] \in Calls => call[t] \in Calls
    BY <1>3 DEF AllocateFails, PropertyInitFails, Calls
  <2> QED
    BY <2>1, <2>2, <2>3, DownAloneKept
<1>4. ASSUME NEW t \in Thread,
             \/ Increment(t) \/ Undo(t) \/ Ready(t) \/ Wait(t) \/ ReadProp(t)
             \/ Acquire(t) \/ Release(t) \/ ReleaseFailed(t) \/ PropertyInit(t)
             \/ PropertyExit(t) \/ PropertyGet(t) \/ Decrement(t) \/ Clear(t) \/ Down(t)
      PROVE  DownAlone'
  <2>1. Staying' = Staying
    BY <1>0, <1>4, UpAndDownApart, StayingIs, StayingIsNext DEF UpAndDown
  <2>2. /\ \A u \in Thread \ {t} : pc'[u] = pc[u] /\ call'[u] = call[u]
        /\ call'[t] \in Calls => call[t] \in Calls
        /\ GoingDown(t)' => GoingDown(t)
    <3> USE DEF Calls, GoingDown, Done
    <3>1. CASE Increment(t) \/ Undo(t) \/ Ready(t) \/ Wait(t) \/ ReadProp(t)
      BY <3>1 DEF Increment, Undo, Ready, Wait, ReadProp
    <3>2. CASE Acquire(t) \/ Release(t) \/ ReleaseFailed(t) \/ PropertyInit(t)
      BY <3>2 DEF Acquire, Release, ReleaseFailed, PropertyInit
    <3>3. CASE PropertyExit(t) \/ PropertyGet(t) \/ Decrement(t) \/ Clear(t) \/ Down(t)
      BY <3>3 DEF PropertyExit, PropertyGet, Decrement, Clear, Down
    <3> QED
      BY <1>4, <3>1, <3>2, <3>3
  <2> QED
    BY <2>1, <2>2, DownAloneKept
<1>5. ASSUME NEW t \in Thread, Allocate(t) PROVE DownAlone'
  <2>1. \A h \in Handle : /\ handle[h].sig => handle'[h].sig
                          /\ \A u \in Thread : Joins(u, h)' <=> Joins(u, h)
    BY <1>5, Opened DEF Allocate, Joins
  <2>2. Staying' = {} => Staying = {}
    BY <1>0, <2>1, StayingIs, StayingIsNext
  <2>3. /\ \A u \in Thread \ {t} : pc'[u] = pc[u] /\ call'[u] = call[u]
        /\ call'[t] \notin Calls /\ ~GoingDown(t)'
    BY <1>5 DEF Allocate, Calls, GoingDown
  <2> QED
    BY <2>2, <2>3, DownAloneKept
<1>6. ASSUME NEW t \in Thread, Join(t) \/ JoinNothing(t) PROVE DownAlone'
  <2>1. on[t] \in Handle /\ Joins(t, on[t]) /\ FreeHandle(t) /\ pc[t] = "join"
    BY <1>6 DEF Join, JoinNothing, Joins
  <2>2. \A h \in Handle : 
           /\ h # on[t] => handle'[h] = handle[h]
           /\ \A u \in Thread : Joins(u, h)' => Joins(u, h)
    BY <2>1, Freed DEF FreeHandle, Joins
  <2>3. Staying' = {} => Staying = {}
    BY <1>0, <2>1, <2>2, StayingIs, StayingIsNext
  <2>4. /\ \A u \in Thread \ {t} : pc'[u] = pc[u] /\ call'[u] = call[u]
        /\ call'[t] = call[t] /\ GoingDown(t)
    BY <2>1 DEF FreeHandle, GoingDown
  <2> QED
    BY <2>3, <2>4, DownAloneKept
<1>7. ASSUME NEW t \in Thread, RequestStep(t) PROVE DownAlone'
  <2>1. Staying' = Staying
    BY <1>0, <1>7, RequestsOpen, StayingIs, StayingIsNext DEF Open
  <2> QED
    BY <1>7, <2>1, RequestsOpen, DownAloneKept DEF GoingDown, Calls
<1>8. ASSUME NEW h \in Handle, NEW t \in Thread, Worker(h, t) PROVE DownAlone'
  <2>1. Open' = Open /\ pc' = pc /\ call' = call /\ on' = on
    BY <1>8, InUseSet DEF Worker, AsyncProcess, AsyncReturn, Open
  <2> QED
    BY <2>1 DEF DownAlone, Staying, Closing, GoingDown, Alone
<1>9. CASE UNCHANGED vars
  BY <1>9 DEF vars, DownAlone, Staying, Closing, GoingDown, Alone, Open
<1> QED
  BY <1>1, <1>2, <1>3, <1>4, <1>5, <1>6, <1>7, <1>8, <1>9
     DEF Next, User, Library, RequestStep
-----------------------------------------------------------------------------
\* Who puts the library away goes on until it is done.
LEMMA NothingLeftStep ==
    ASSUME Basic, DownAlone, NothingLeft, [Next]_vars
    PROVE  NothingLeft'
<1> USE DEF Basic, Places, Typed, InCall, Goto, Return, Enter, None
<1>1. ASSUME NEW t \in Thread,
             \/ CallSLPOpen(t) \/ CallSLPGetProperty(t) \/ Ready(t) \/ Wait(t)
             \/ AllocateFails(t) \/ ReadProp(t) \/ Acquire(t) \/ Release(t)
             \/ ReleaseFailed(t) \/ PropertyInit(t) \/ PropertyInitFails(t)
             \/ PropertyExit(t) \/ PropertyGet(t) \/ Clear(t) \/ Down(t)
      PROVE  NothingLeft'
  <2>1. count' = count /\ \A u \in Thread : TearsDown(u)' => TearsDown(u)
    <3> USE DEF TearsDown, Done
    <3>1. CASE CallSLPOpen(t) \/ CallSLPGetProperty(t) \/ Ready(t) \/ Wait(t)
      BY <3>1 DEF CallSLPOpen, CallSLPGetProperty, Ready, Wait
    <3>2. CASE AllocateFails(t) \/ ReadProp(t) \/ Acquire(t) \/ Release(t)
      BY <3>2 DEF AllocateFails, ReadProp, Acquire, Release
    <3>3. CASE ReleaseFailed(t) \/ PropertyInit(t) \/ PropertyInitFails(t)
      BY <3>3 DEF ReleaseFailed, PropertyInit, PropertyInitFails
    <3>4. CASE PropertyExit(t) \/ PropertyGet(t) \/ Clear(t) \/ Down(t)
      BY <3>4 DEF PropertyExit, PropertyGet, Clear, Down
    <3> QED
      BY <1>1, <3>1, <3>2, <3>3, <3>4
  <2> QED
    BY <2>1 DEF NothingLeft
<1>2. ASSUME NEW t \in Thread, Increment(t) PROVE NothingLeft'
  <2>1. call[t] = "SLPOpen" /\ \A u \in Thread : TearsDown(u)' => TearsDown(u) /\ u # t
    BY <1>2 DEF Increment, TearsDown
  <2> QED
    BY <2>1, TearsDownAlone DEF NothingLeft, Alone, Calls
<1>3. ASSUME NEW t \in Thread, Undo(t) \/ Decrement(t) PROVE NothingLeft'
  <2>1. t \in Holders
    BY <1>3 DEF Undo, Decrement, Holders, Holds
  <2>2. \A u \in Thread : TearsDown(u)' => TearsDown(u) \/ count' = 0
    BY <1>3 DEF Undo, Decrement, TearsDown
  <2> QED
    BY <2>1, <2>2, TearsDownAlone DEF NothingLeft
<1>4. ASSUME NEW t \in Thread, Allocate(t) PROVE NothingLeft'
  BY <1>4 DEF Allocate, NothingLeft, TearsDown
<1>5. ASSUME NEW t \in Thread, NEW h \in Handle, CallSLPClose(t, h) PROVE NothingLeft'
  BY <1>5 DEF CallSLPClose, NothingLeft, TearsDown
<1>6. ASSUME NEW t \in Thread, Join(t) \/ JoinNothing(t) PROVE NothingLeft'
  BY <1>6 DEF Join, JoinNothing, FreeHandle, NothingLeft, TearsDown
<1>7. ASSUME NEW t \in Thread, RequestStep(t) PROVE NothingLeft'
  BY <1>7, RequestsOpen DEF NothingLeft, TearsDown
<1>8. ASSUME NEW h \in Handle, NEW t \in Thread, Worker(h, t) PROVE NothingLeft'
  BY <1>8 DEF Worker, AsyncProcess, AsyncReturn, NothingLeft, TearsDown
<1>9. CASE UNCHANGED vars
  BY <1>9 DEF vars, NothingLeft, TearsDown
<1> QED
  BY <1>1, <1>2, <1>3, <1>4, <1>5, <1>6, <1>7, <1>8, <1>9
     DEF Next, User, Library, RequestStep

\* Steps that leave the flags alone, and bring no thread to where it relies on
\* one.
LEMMA LoadedKept ==
    ASSUME Loaded, inited' = inited, prop' = prop, NEW t \in Thread,
           \A u \in Thread \ {t} : pc'[u] = pc[u] /\ call'[u] = call[u],
           TearsDown(t) => TearsDown(t)',
           pc'[t] \in {"ready", "allocate", "value"} => prop,
           pc'[t] = "release" /\ call'[t] # "SLPClose" => prop,
           pc'[t] = "allocate" => inited
    PROVE  Loaded'
<1>1. \A u \in Thread : TearsDown(u) => TearsDown(u)'
  BY DEF TearsDown
<1> QED
  BY <1>1 DEF Loaded

\* The flags are cleared by a thread alone in the library.
LEMMA LoadedStep ==
    ASSUME Basic, DownAlone, NothingLeft, Loaded, [Next]_vars
    PROVE  Loaded'
<1> USE DEF Basic, Places, Typed, InCall, Goto, Return, Enter, None, Done
<1>1. ASSUME NEW t \in Thread,
             \/ CallSLPOpen(t) \/ CallSLPGetProperty(t) \/ Increment(t) \/ Undo(t)
             \/ AllocateFails(t) \/ ReadProp(t) \/ Acquire(t) \/ Release(t)
             \/ ReleaseFailed(t) \/ PropertyInitFails(t) \/ PropertyGet(t)
             \/ Decrement(t) \/ Clear(t)
      PROVE  Loaded'
  <2> DEFINE P == /\ inited' = inited /\ prop' = prop
                  /\ \A u \in Thread \ {t} : pc'[u] = pc[u] /\ call'[u] = call[u]
                  /\ TearsDown(t) => TearsDown(t)'
                  /\ pc'[t] \in {"ready", "value"} => prop
                  /\ pc'[t] \notin {"release", "allocate"}
  <2> USE DEF TearsDown
  <2>1. CASE CallSLPOpen(t) \/ CallSLPGetProperty(t)
    BY <2>1, LoadedKept DEF CallSLPOpen, CallSLPGetProperty
  <2>2. CASE Increment(t) \/ Undo(t) \/ AllocateFails(t) \/ ReadProp(t)
    <3>1. P
      BY <2>2 DEF Increment, Undo, AllocateFails, ReadProp
    <3> QED
      BY <3>1, LoadedKept
  <2>3. CASE Acquire(t) \/ Release(t)
    <3>1. P
      BY <2>3 DEF Acquire, Release, Loaded
    <3> QED
      BY <3>1, LoadedKept
  <2>4. CASE ReleaseFailed(t) \/ PropertyInitFails(t) \/ PropertyGet(t)
    <3>1. P
      BY <2>4 DEF ReleaseFailed, PropertyInitFails, PropertyGet
    <3> QED
      BY <3>1, LoadedKept
  <2>5. CASE Decrement(t) \/ Clear(t)
    <3>1. P
      BY <2>5 DEF Decrement, Clear
    <3> QED
      BY <3>1, LoadedKept
  <2> QED
    BY <1>1, <2>1, <2>2, <2>3, <2>4, <2>5
\* inited is seen by a thread that holds a reference: nobody is putting it away.
<1>2. ASSUME NEW t \in Thread, Wait(t) PROVE Loaded'
  <2>1. t \in Holders /\ inited
    BY <1>2 DEF Wait, Holders, Holds
  <2>2. prop
    BY <2>1, TearsDownAlone DEF Loaded
  <2> QED
    BY <1>2, <2>1, <2>2, LoadedKept DEF Wait, TearsDown
<1>3. ASSUME NEW t \in Thread, Ready(t) PROVE Loaded'
  BY <1>3 DEF Ready, Loaded
<1>4. ASSUME NEW t \in Thread, PropertyInit(t) PROVE Loaded'
  BY <1>4 DEF PropertyInit, Loaded
<1>5. ASSUME NEW t \in Thread, PropertyExit(t) \/ Down(t) PROVE Loaded'
  <2>1. TearsDown(t)
    BY <1>5 DEF PropertyExit, Down, TearsDown
  <2>2. \A u \in Thread \ {t} : call[u] \notin Calls
    BY <2>1, TearsDownAlone DEF Alone
  <2>3. \A u \in Thread : /\ pc'[u] \notin {"ready", "allocate", "value"}
                          /\ pc'[u] = "release" => call'[u] = "SLPClose"
    BY <1>5, <2>2 DEF PropertyExit, Down, Calls
  <2>4. CASE PropertyExit(t)
    BY <2>3, <2>4 DEF PropertyExit, Loaded, TearsDown
  <2>5. CASE Down(t)
    BY <2>3, <2>5 DEF Down, Loaded
  <2> QED
    BY <1>5, <2>4, <2>5
<1>6. ASSUME NEW t \in Thread, Allocate(t) PROVE Loaded'
  BY <1>6, LoadedKept DEF Allocate, TearsDown
<1>7. ASSUME NEW t \in Thread, NEW h \in Handle, CallSLPClose(t, h) PROVE Loaded'
  BY <1>7, LoadedKept DEF CallSLPClose, TearsDown
<1>8. ASSUME NEW t \in Thread, Join(t) \/ JoinNothing(t) PROVE Loaded'
  BY <1>8, LoadedKept DEF Join, JoinNothing, FreeHandle, TearsDown
<1>9. ASSUME NEW t \in Thread, RequestStep(t) PROVE Loaded'
  BY <1>9, RequestsOpen, LoadedKept DEF TearsDown
<1>10. ASSUME NEW h \in Handle, NEW t \in Thread, Worker(h, t) PROVE Loaded'
  BY <1>10 DEF Worker, AsyncProcess, AsyncReturn, Loaded, TearsDown
<1>11. CASE UNCHANGED vars
  BY <1>11 DEF vars, Loaded, TearsDown
<1> QED
  BY <1>1, <1>2, <1>3, <1>4, <1>5, <1>6, <1>7, <1>8, <1>9, <1>10, <1>11
     DEF Next, User, Library, RequestStep

\* A handle is opened once the library is initialised.
LEMMA OpenInitedStep ==
    ASSUME Basic, DownAlone, NothingLeft, Loaded, Open # {} => inited, [Next]_vars
    PROVE  (Open # {} => inited)'
<1> USE DEF Basic, Places, Typed, InCall, Goto, Return, Enter, None
<1>1. ASSUME NEW t \in Thread, UpAndDown(t), ~Down(t) PROVE (Open # {} => inited)'
  <2>1. Open' = Open
    BY <1>1, UpAndDownApart DEF Open
  <2>2. inited' = inited \/ inited' = TRUE
    BY <1>1 DEF UpAndDown, CallSLPOpen, CallSLPGetProperty, Increment, Undo, Ready,
                Wait, AllocateFails, ReadProp, Acquire, Release, ReleaseFailed,
                PropertyInit, PropertyInitFails, PropertyExit, PropertyGet,
                Decrement, Clear
  <2> QED
    BY <2>1, <2>2
<1>2. ASSUME NEW t \in Thread, Down(t) PROVE (Open # {} => inited)'
  <2>1. Open = {}
    BY <1>2, TearsDownAlone DEF Down, TearsDown
  <2> QED
    BY <1>2, <2>1 DEF Down, Open
<1>3. ASSUME NEW t \in Thread, Allocate(t) PROVE (Open # {} => inited)'
  BY <1>3 DEF Allocate, Loaded
<1>4. ASSUME NEW t \in Thread, NEW h \in Handle, CallSLPClose(t, h)
      PROVE (Open # {} => inited)'
  BY <1>4 DEF CallSLPClose, Open
<1>5. ASSUME NEW t \in Thread, Join(t) \/ JoinNothing(t) PROVE (Open # {} => inited)'
  <2>1. on[t] \in Handle /\ handle' = [handle EXCEPT ![on[t]] = Unused] /\ inited' = inited
    BY <1>5 DEF Join, JoinNothing, FreeHandle
  <2> QED
    BY <2>1, Freed
<1>6. ASSUME NEW t \in Thread, RequestStep(t) PROVE (Open # {} => inited)'
  BY <1>6, RequestsOpen
<1>7. ASSUME NEW h \in Handle, NEW t \in Thread, Worker(h, t) PROVE (Open # {} => inited)'
  <2>1. Open' = Open
    BY <1>7, InUseSet DEF Worker, AsyncProcess, AsyncReturn, Open
  <2> QED
    BY <1>7, <2>1 DEF Worker, AsyncProcess, AsyncReturn
<1>8. CASE UNCHANGED vars
  BY <1>8 DEF vars, Open
<1> QED
  BY <1>1, <1>2, <1>3, <1>4, <1>5, <1>6, <1>7, <1>8
     DEF Next, User, Library, UpAndDown, RequestStep

\* Steps that hold up nothing new, and keep who sees to what is up.
LEMMA SeenToKept ==
    ASSUME SeenTo, Open' = Open, cache' => cache \/ Open # {}, inited' => inited,
           NEW t \in Thread,
           \A u \in Thread \ {t} : pc'[u] = pc[u] /\ call'[u] = call[u],
           pc[t] \notin {"decrement", "clear", "allocate"},
           TearsDown(t) => TearsDown(t)'
    PROVE  SeenTo'
<1>1. \A u \in Thread : pc[u] \in {"decrement", "clear", "allocate"} => pc'[u] = pc[u]
  OBVIOUS
<1>2. \A u \in Thread : TearsDown(u) => TearsDown(u)'
  BY DEF TearsDown
<1> QED
  BY <1>1, <1>2 DEF SeenTo

\* What is brought up is put away by whoever gives up the last reference.
LEMMA SeenToStep ==
    ASSUME Basic, Requests, DownAlone, NothingLeft, SeenTo, [Next]_vars
    PROVE  SeenTo'
<1> USE DEF Basic, Places, Typed, InCall, Goto, Return, Enter, None, Done
<1>1. ASSUME NEW t \in Thread,
             \/ CallSLPOpen(t) \/ CallSLPGetProperty(t) \/ Increment(t) \/ Undo(t)
             \/ Wait(t) \/ ReadProp(t) \/ Acquire(t) \/ Release(t)
             \/ ReleaseFailed(t) \/ PropertyInit(t) \/ PropertyInitFails(t)
             \/ PropertyExit(t) \/ PropertyGet(t)
      PROVE  SeenTo'
  <2>1. Open' = Open
    BY <1>1, UpAndDownApart DEF UpAndDown, Open
  <2>2. /\ cache' = cache /\ inited' = inited
        /\ \A u \in Thread \ {t} : pc'[u] = pc[u] /\ call'[u] = call[u]
        /\ pc[t] \notin {"decrement", "clear", "allocate"}
        /\ TearsDown(t) => TearsDown(t)'
    <3> USE DEF TearsDown
    <3>1. CASE CallSLPOpen(t) \/ CallSLPGetProperty(t) \/ Increment(t) \/ Undo(t)
      BY <3>1 DEF CallSLPOpen, CallSLPGetProperty, Increment, Undo
    <3>2. CASE Wait(t) \/ ReadProp(t) \/ Acquire(t) \/ Release(t)
      BY <3>2 DEF Wait, ReadProp, Acquire, Release
    <3>3. CASE ReleaseFailed(t) \/ PropertyInit(t) \/ PropertyInitFails(t)
      BY <3>3 DEF ReleaseFailed, PropertyInit, PropertyInitFails
    <3>4. CASE PropertyExit(t) \/ PropertyGet(t)
      BY <3>4 DEF PropertyExit, PropertyGet
    <3> QED
      BY <1>1, <3>1, <3>2, <3>3, <3>4
  <2> QED
    BY <2>1, <2>2, SeenToKept
<1>2. ASSUME NEW t \in Thread, Ready(t) PROVE SeenTo'
  <2>1. pc'[t] = "allocate" /\ Open' = Open /\ cache' = cache
        /\ \A u \in Thread : pc[u] \in {"decrement", "clear"} => pc'[u] = pc[u]
    BY <1>2 DEF Ready, Open
  <2> QED
    BY <2>1 DEF SeenTo
<1>3. ASSUME NEW t \in Thread, Allocate(t) PROVE SeenTo'
  <2>1. Open' # {}
    BY <1>3, Opened DEF Allocate
  <2> QED
    BY <2>1 DEF SeenTo
<1>4. ASSUME NEW t \in Thread, AllocateFails(t) PROVE SeenTo'
  <2>1. pc'[t] = "decrement"
    BY <1>4 DEF AllocateFails
  <2> QED
    BY <2>1 DEF SeenTo
<1>5. ASSUME NEW t \in Thread, NEW h \in Handle, CallSLPClose(t, h) PROVE SeenTo'
  BY <1>5, SeenToKept DEF CallSLPClose, Open, TearsDown
<1>6. ASSUME NEW t \in Thread, Join(t) \/ JoinNothing(t) PROVE SeenTo'
  <2>1. pc'[t] = "decrement"
    BY <1>6 DEF Join, JoinNothing, FreeHandle
  <2> QED
    BY <2>1 DEF SeenTo
\* With no handle open this was the last reference, and its thread cleans up.
<1>7. ASSUME NEW t \in Thread, Decrement(t) PROVE SeenTo'
  <2>1. Open' = Open
    BY <1>7 DEF Decrement, Open
  <2>2. CASE Open # {}
    BY <2>1, <2>2 DEF SeenTo
  <2>3. CASE Open = {}
    <3>1. count' = 0
      BY <1>7, <2>3, LastReference DEF Decrement
    <3>2. pc'[t] = "clear" /\ call'[t] = "SLPClose"
      BY <1>7, <3>1 DEF Decrement
    <3> QED
      BY <3>2 DEF SeenTo, TearsDown
  <2> QED
    BY <2>2, <2>3
<1>8. ASSUME NEW t \in Thread, Clear(t) PROVE SeenTo'
  <2>1. ~cache' /\ TearsDown(t)'
    BY <1>8 DEF Clear, TearsDown
  <2> QED
    BY <2>1 DEF SeenTo
\* The other threads are out of the library when this one is done.
<1>9. ASSUME NEW t \in Thread, Down(t) PROVE SeenTo'
  <2>1. Open' = Open /\ ~inited' /\ cache' = cache
    BY <1>9 DEF Down, Open
  <2>2. \A u \in Thread : pc[u] \in {"decrement", "clear"} => pc'[u] = pc[u]
    BY <1>9 DEF Down
  <2> QED
    BY <2>1, <2>2 DEF SeenTo
<1>10. ASSUME NEW t \in Thread, RequestStep(t) PROVE SeenTo'
  <2>1. cache' => cache \/ Open # {}
    <3>1. CASE Perform(t)
      BY <3>1 DEF Perform, Requests, UsersHold, Uses, Open
    <3>2. CASE ~Perform(t)
      BY <1>10, <3>2 DEF RequestStep, CallRequest, CreateThread, CreateThreadFails, StoreThread
    <3> QED
      BY <3>1, <3>2
  <2> QED
    BY <1>10, <2>1, RequestsOpen, SeenToKept DEF TearsDown
<1>11. ASSUME NEW h \in Handle, NEW t \in Thread, Worker(h, t) PROVE SeenTo'
  <2>1. Open' = Open /\ pc' = pc /\ call' = call /\ inited' = inited
    BY <1>11, InUseSet DEF Worker, AsyncProcess, AsyncReturn, Open
  <2>2. cache' => cache \/ Open # {}
    BY <1>11 DEF Worker, AsyncProcess, AsyncReturn, Requests, WorkersHold, Running, Open
  <2> QED
    BY <2>1, <2>2 DEF SeenTo, TearsDown
<1>12. CASE UNCHANGED vars
  BY <1>12 DEF vars, SeenTo, Open, TearsDown
<1> QED
  BY <1>1, <1>2, <1>3, <1>4, <1>5, <1>6, <1>7, <1>8, <1>9, <1>10, <1>11, <1>12
     DEF Next, User, Library, RequestStep
-----------------------------------------------------------------------------
\* The invariant, and what follows of it.
LEMMA BasicInit == Init => Basic
<1> SUFFICES ASSUME Init PROVE Basic
  OBVIOUS
<1>1. Places
  BY InitPlaces DEF Places
<1>2. Open = {} /\ Holders = {}
  BY DEF Init, Open, Unused, Holders, Holds, None
<1>3. Balanced
  BY <1>2, FS_EmptySet DEF Init, Balanced
<1>4. JoinsApart
  BY DEF Init, JoinsApart, Joins
<1> QED
  BY <1>1, <1>3, <1>4 DEF Basic

LEMMA BasicInvariant == Spec => []Basic
<1>1. Basic /\ [Next]_vars => Basic'
  BY BasicStep
<1> QED
  BY BasicInit, <1>1, PTL DEF Spec

LEMMA OrderlyInit == Init => Requests /\ Lifecycle
<1> SUFFICES ASSUME Init PROVE Requests /\ Lifecycle
  OBVIOUS
<1>1. \A t \in Thread : pc[t] = "user" /\ call[t] = None
  BY DEF Init
<1>2. \A h \in Handle, t \in Thread : ~handle[h].sig /\ ~Running(h, t)
  BY DEF Init, Unused, Running, None
<1>3. Requests
  BY <1>1, <1>2 DEF Requests, UsersHold, UsersApart, WorkersHold, Uses
<1>4. Open = {}
  BY DEF Init, Open, Unused
<1>5. Lifecycle
  BY <1>1, <1>4 DEF Init, Lifecycle, DownAlone, NothingLeft, Loaded, SeenTo, GoingDown,
                    TearsDown, None
<1> QED
  BY <1>3, <1>5

\* The invariant of an orderly program.
LEMMA Invariant == ASSUME Orderly PROVE Spec => []IInv
<1>1. Init => IInv
  BY BasicInit, OrderlyInit DEF IInv
<1>2. IInv /\ [Next]_vars => IInv'
  BY BasicStep, RequestsStep, DownAloneStep, NothingLeftStep, LoadedStep,
     OpenInitedStep, SeenToStep DEF IInv, Lifecycle
<1> QED
  BY <1>1, <1>2, PTL DEF Spec

\* The types: in every program, orderly or not, s_OpenSLPHandleCount never
\* falls below zero nor grows beyond the handles and the threads.
THEOREM TypeCorrect == Spec => []TypeOK
<1>1. Basic => TypeOK
  <2> SUFFICES ASSUME Basic PROVE TypeOK
    OBVIOUS
  <2>1. Cardinality(Open) <= Cardinality(Handle) /\ Cardinality(Holders) <= Cardinality(Thread)
    BY HandlesAssumption, FS_Subset DEF Open, Holders
  <2>2. Cardinality(Handle) \in Nat /\ Cardinality(Thread) \in Nat
    BY HandlesAssumption, FS_CardinalityType
  <2>3. count \in 0 .. Cardinality(Handle) + Cardinality(Thread)
    BY <2>1, <2>2, Finite, FS_CardinalityType DEF Basic, Balanced
  <2> QED
    BY <2>3 DEF Basic, Places, Typed, TypeOK
<1> QED
  BY <1>1, BasicInvariant, PTL

\* SLPClose frees no handle while a thread of the library still works on it: the
\* join it makes is with the thread that runs, however the program interleaves
\* requests, the end of their threads and closes.
THEOREM HandlesOutliveTheirThreads == ASSUME Orderly PROVE Spec => []HandleOutlivesItsThread
<1>1. IInv => HandleOutlivesItsThread
  BY DEF IInv, Requests, WorkersHold, Running, HandleOutlivesItsThread
<1> QED
  BY <1>1, Invariant, PTL

\* A set all of whose elements are the same has one at most.
LEMMA AtMostOne ==
    ASSUME NEW S, IsFiniteSet(S), \A x, y \in S : x = y
    PROVE  Cardinality(S) \in {0, 1}
<1>1. CASE S = {}
  BY <1>1, FS_EmptySet
<1>2. CASE S # {}
  <2>1. PICK x \in S : S = {x}
    BY <1>2
  <2> QED
    BY <2>1, FS_Singleton
<1> QED
  BY <1>1, <1>2

\* A handle serves one request at a time: inUse, taken by SLPSpinLockTryAcquire
\* and given back by the thread of the request, excludes every other.
THEOREM OneRequestAtATime == ASSUME Orderly PROVE Spec => []OneRequest
<1>1. IInv => OneRequest
  <2> SUFFICES ASSUME IInv, Requests, NEW h \in Handle
               PROVE  Cardinality({t \in Thread : pc[t] \in {"perform", "create"} /\ on[t] = h})
                      + Cardinality({t \in Thread : worker[h][t] = "running"}) <= 1
    BY DEF OneRequest, IInv
  <2> DEFINE A == {t \in Thread : pc[t] \in {"perform", "create"} /\ on[t] = h}
             B == {t \in Thread : worker[h][t] = "running"}
  <2>1. \A x, y \in A : x = y
    BY DEF Requests, UsersApart, Uses
  <2>2. \A x, y \in B : x = y
    BY DEF Requests, WorkersHold, UsersHold, Running
  <2>3. A = {} \/ B = {}
    BY DEF Requests, UsersHold, Uses, Running
  <2>4. IsFiniteSet(A) /\ IsFiniteSet(B)
    BY HandlesAssumption, FS_Subset
  <2> HIDE DEF A, B
  <2>5. Cardinality(A) \in {0, 1} /\ Cardinality(B) \in {0, 1}
    BY <2>1, <2>2, <2>4, AtMostOne
  <2>6. Cardinality(A) = 0 \/ Cardinality(B) = 0
    BY <2>3, FS_EmptySet
  <2>7. Cardinality(A) + Cardinality(B) <= 1
    BY <2>5, <2>6
  <2> QED
    BY <2>7 DEF A, B
<1> QED
  BY <1>1, Invariant, PTL

\* While a handle is open, and when SLPOpen and SLPGetProperty come to rely on
\* it, the library is initialised and its properties are loaded, whoever brought
\* it up and whoever failed to (InitUserAgentLibrary, ExitUserAgentLibrary).
THEOREM TheLibraryIsUp == ASSUME Orderly PROVE Spec => []LibraryUp
<1>1. IInv => LibraryUp
  <2> SUFFICES ASSUME Basic, Lifecycle PROVE LibraryUp
    BY DEF IInv
  <2>1. Open # {} => inited /\ prop
    BY TearsDownAlone DEF Lifecycle, Loaded
  <2> QED
    BY <2>1 DEF LibraryUp, OpenMeansUp, Lifecycle, Loaded
<1> QED
  BY <1>1, Invariant, PTL

\* With no thread in the library its count is that of the open handles, and with
\* none open nothing is left initialised or cached.
THEOREM NothingIsLeftBehind == ASSUME Orderly PROVE Spec => []QuietLibrary
<1>1. IInv => QuietLibrary
  <2> SUFFICES ASSUME Basic, Lifecycle, \A t \in Thread : pc[t] = "user"
               PROVE  /\ count = Cardinality(Open)
                      /\ count = 0 => ~inited /\ ~cache
    BY DEF QuietLibrary, IInv
  <2>1. Holders = {} /\ \A t \in Thread : ~TearsDown(t)
    BY DEF Basic, Places, InCall, Holders, Holds, TearsDown, None
  <2>2. count = Cardinality(Open)
    BY <2>1, FS_EmptySet, Finite, FS_CardinalityType DEF Basic, Balanced
  <2>3. count = 0 => Open = {}
    BY Balance DEF Basic, Places, Typed
  <2>4. Open = {} => ~inited /\ ~cache
    BY <2>1 DEF Lifecycle, SeenTo
  <2> QED
    BY <2>2, <2>3, <2>4
<1> QED
  BY <1>1, Invariant, PTL
=============================================================================
