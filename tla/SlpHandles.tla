----------------------------- MODULE SlpHandles -----------------------------
(***************************************************************************)
(* The handles of libslp, the user agent library, and the initialisation   *)
(* they share: SLPOpen, SLPClose and SLPGetProperty called from several    *)
(* threads of one program, requests on the handles, and the worker threads *)
(* of asynchronous handles (libslp built with ENABLE_ASYNC_API).           *)
(*                                                                         *)
(* A step is one access to what threads share: an atomic operation, a read *)
(* or a write of a flag, or what is done under the spin lock.              *)
(***************************************************************************)
EXTENDS Integers, FiniteSets

CONSTANTS
    Thread,   \* the threads of the program
    Handle,   \* bound: the handles it may have at a time
    MayFail,  \* whether memory, mutexes and threads may run out
    Orderly   \* whether the program brings the library up and down alone

ASSUME HandlesAssumption ==
    /\ IsFiniteSet(Thread) /\ IsFiniteSet(Handle) 
    /\ "none" \notin Handle \cup Thread
    /\ MayFail \in BOOLEAN
    /\ Orderly \in BOOLEAN

VARIABLES
    count,    \* s_OpenSLPHandleCount
    inited,   \* s_HandlesInitialized
    prop,     \* s_PropInited: the properties are loaded
    lock,     \* s_PropInitLock is held
    cache,    \* the cache of known DAs holds something
    handle,   \* the handles
    worker,   \* the threads of asynchronous requests, by handle and by creator
    pc,       \* what each thread does next
    call,     \* the call it is in
    on,       \* the handle that call is about, if it is about one
    crashed   \* the program died in undefined behaviour

vars == <<count, inited, prop, lock, cache, handle, worker, pc, call, on, crashed>>

None == "none"

Calls == {"SLPOpen", "SLPGetProperty", "SLPClose"}

PcLabel ==
    {"user", "increment", "readprop", "acquire", "locked", "release",
     "failed", "undo", "ready", "wait", "allocate", "join", "decrement",
     "clear", "down", "value", "perform", "create", "store"}

(* th is the thread of a request, named after the thread that created it.  *)
HandleInfo ==
    [sig : BOOLEAN, isAsync : BOOLEAN, inUse : BOOLEAN, th : Thread \cup {None}]

Unused == [sig |-> FALSE, isAsync |-> FALSE, inUse |-> FALSE, th |-> None]

Init ==
    /\ count = 0
    /\ inited = FALSE /\ prop = FALSE /\ lock = FALSE /\ cache = FALSE
    /\ handle = [h \in Handle |-> Unused]
    /\ worker = [h \in Handle |-> [t \in Thread |-> None]]
    /\ pc = [t \in Thread |-> "user"]
    /\ call = [t \in Thread |-> None]
    /\ on = [t \in Thread |-> None]
    /\ crashed = FALSE
-----------------------------------------------------------------------------
(* The program.                                                            *)
Open == {h \in Handle : handle[h].sig}

Closing == {on[t] : t \in {u \in Thread : call[u] = "SLPClose"}}

Staying == Open \ Closing

Alone(t) == \A u \in Thread \ {t} : call[u] \notin Calls

(* The library is on its way down: by a close, or by an SLPOpen that has   *)
(* failed.                                                                 *)
GoingDown(t) == call[t] = "SLPClose" \/ pc[t] \in {"failed", "undo"}

(* What an orderly program sees to: the last handle is closed while no     *)
(* other thread is in SLPOpen, SLPClose or SLPGetProperty, and these wait  *)
(* while the library goes down.  First opens may still coincide.           *)
MayEnter == Orderly /\ Staying = {} => \A u \in Thread : ~GoingDown(u)

MayClose(t, h) == Orderly /\ Staying \subseteq {h} => Alone(t)

(* And what it needs of its environment: only what happens to a thread     *)
(* alone, or beside a handle that stays open, fails.                       *)
CanFail(t) == MayFail /\ (Orderly /\ Staying = {} => Alone(t))

(* Nobody may close a handle under a thread that is using it.              *)
UsedByAThread(h) ==
    \E t \in Thread : pc[t] \in {"perform", "create", "store"} /\ on[t] = h

(* An orderly program does not start a request on an asynchronous handle   *)
(* while another thread is still in the call that started the last one.    *)
MayRequest(h) == Orderly /\ handle[h].isAsync => ~UsedByAThread(h)
-----------------------------------------------------------------------------
Enter(t, function, first) ==
    /\ pc[t] = "user"
    /\ pc' = [pc EXCEPT ![t] = first]
    /\ call' = [call EXCEPT ![t] = function]

Goto(t, next) ==
    /\ pc' = [pc EXCEPT ![t] = next]
    /\ UNCHANGED <<call, on>>

Return(t) ==
    /\ pc' = [pc EXCEPT ![t] = "user"]
    /\ call' = [call EXCEPT ![t] = None]
    /\ on' = [on EXCEPT ![t] = None]

CallSLPOpen(t) ==
    /\ MayEnter
    /\ Cardinality(Open) + Cardinality({u \in Thread : call[u] = "SLPOpen"})
         < Cardinality(Handle)
    /\ Enter(t, "SLPOpen", "increment")
    /\ UNCHANGED <<count, inited, prop, lock, cache, handle, on, worker, crashed>>

CallSLPGetProperty(t) ==
    /\ MayEnter
    /\ Enter(t, "SLPGetProperty", "readprop")
    /\ UNCHANGED <<count, inited, prop, lock, cache, handle, on, worker, crashed>>

CallSLPClose(t, h) ==
    /\ h \in Staying
    /\ ~UsedByAThread(h)
    /\ MayClose(t, h)
    /\ Enter(t, "SLPClose", "join")
    /\ on' = [on EXCEPT ![t] = h]
    /\ UNCHANGED <<count, inited, prop, lock, cache, handle, worker, crashed>>

\* A bug: the handle is taken without a look at what it was.
CallRequest_NoTest(t, h) ==
    /\ h \in Staying
    /\ MayRequest(h)
    /\ Enter(t, "request", IF handle[h].isAsync THEN "create" ELSE "perform")
    /\ on' = [on EXCEPT ![t] = h]
    /\ handle' = [handle EXCEPT ![h].inUse = TRUE]
    /\ UNCHANGED <<count, inited, prop, lock, cache, worker, crashed>>

(* A request: SLPFindSrvs, SLPReg and their like.  SLPSpinLockTryAcquire   *)
(* of a handle in use is SLP_HANDLE_IN_USE, and nothing changes.           *)
CallRequest(t, h) ==
    /\ h \in Staying
    /\ MayRequest(h)
    /\ ~handle[h].inUse
    /\ Enter(t, "request", IF handle[h].isAsync THEN "create" ELSE "perform")
    /\ on' = [on EXCEPT ![t] = h]
    /\ handle' = [handle EXCEPT ![h].inUse = TRUE]
    /\ UNCHANGED <<count, inited, prop, lock, cache, worker, crashed>>
-----------------------------------------------------------------------------
(* InitUserAgentLibrary and SLPOpen.                                       *)
Increment(t) ==
    /\ pc[t] = "increment"
    /\ count' = count + 1
    /\ Goto(t, IF count' = 1 THEN "readprop" ELSE "wait")
    /\ UNCHANGED <<inited, prop, lock, cache, handle, worker, crashed>>

\* A bug: an initialisation that fails keeps its reference.
Undo_KeepsCount(t) ==
    /\ pc[t] = "undo"
    /\ Return(t)
    /\ UNCHANGED <<count, inited, prop, lock, cache, handle, worker, crashed>>

Undo(t) ==
    /\ pc[t] = "undo"
    /\ count' = count - 1
    /\ Return(t)
    /\ UNCHANGED <<inited, prop, lock, cache, handle, worker, crashed>>

Ready(t) ==
    /\ pc[t] = "ready"
    /\ inited' = TRUE
    /\ Goto(t, "allocate")
    /\ UNCHANGED <<count, prop, lock, cache, handle, worker, crashed>>

Wait(t) ==
    /\ pc[t] = "wait"
    /\ inited
    /\ Goto(t, "allocate")
    /\ UNCHANGED <<count, inited, prop, lock, cache, handle, worker, crashed>>

Allocate(t) ==
    /\ pc[t] = "allocate"
    /\ \E h \in Handle \ Open, isAsync \in BOOLEAN :
          handle' = [handle EXCEPT ![h] =
              [sig |-> TRUE, isAsync |-> isAsync, inUse |-> FALSE, th |-> None]]
    /\ Return(t)
    /\ UNCHANGED <<count, inited, prop, lock, cache, worker, crashed>>

(* A failed SLPOpen leaves through ExitUserAgentLibrary, as a close does.  *)
AllocateFails(t) ==
    /\ pc[t] = "allocate"
    /\ CanFail(t)
    /\ pc' = [pc EXCEPT ![t] = "decrement"]
    /\ call' = [call EXCEPT ![t] = "SLPClose"]
    /\ UNCHANGED <<count, inited, prop, lock, cache, handle, on, worker, crashed>>
-----------------------------------------------------------------------------
(* LIBSLPPropertyInit and LIBSLPPropertyCleanup: a look at the flag, and   *)
(* when there is something to do, another one under the lock.              *)
Done(function) ==
    CASE function = "SLPOpen" -> "ready"
      [] function = "SLPGetProperty" -> "value"
      [] function = "SLPClose" -> "down"

ReadProp(t) ==
    /\ pc[t] = "readprop"
    /\ Goto(t, IF prop THEN Done(call[t]) ELSE "acquire")
    /\ UNCHANGED <<count, inited, prop, lock, cache, handle, worker, crashed>>

Acquire(t) ==
    /\ pc[t] = "acquire"
    /\ ~lock
    /\ lock' = TRUE
    /\ Goto(t, "locked")
    /\ UNCHANGED <<count, inited, prop, cache, handle, worker, crashed>>

PropertyInit(t) ==
    /\ pc[t] = "locked" /\ call[t] # "SLPClose"
    /\ prop' = TRUE
    /\ Goto(t, "release")
    /\ UNCHANGED <<count, inited, lock, cache, handle, worker, crashed>>

PropertyInitFails(t) ==
    /\ pc[t] = "locked" /\ call[t] # "SLPClose"
    /\ ~prop
    /\ CanFail(t)
    /\ Goto(t, "failed")
    /\ UNCHANGED <<count, inited, prop, lock, cache, handle, worker, crashed>>

PropertyExit(t) ==
    /\ pc[t] = "locked" /\ call[t] = "SLPClose"
    /\ prop' = FALSE
    /\ Goto(t, "release")
    /\ UNCHANGED <<count, inited, lock, cache, handle, worker, crashed>>

Release(t) ==
    /\ pc[t] = "release"
    /\ lock' = FALSE
    /\ Goto(t, Done(call[t]))
    /\ UNCHANGED <<count, inited, prop, cache, handle, worker, crashed>>

\* A bug: the error path leaves the lock held.
ReleaseFailed_KeepsLock(t) ==
    /\ pc[t] = "failed"
    /\ IF call[t] = "SLPOpen" THEN Goto(t, "undo") ELSE Return(t)
    /\ UNCHANGED <<count, inited, prop, lock, cache, handle, worker, crashed>>

ReleaseFailed(t) ==
    /\ pc[t] = "failed"
    /\ lock' = FALSE
    /\ IF call[t] = "SLPOpen" THEN Goto(t, "undo") ELSE Return(t)
    /\ UNCHANGED <<count, inited, prop, cache, handle, worker, crashed>>

PropertyGet(t) ==
    /\ pc[t] = "value"
    /\ Return(t)
    /\ UNCHANGED <<count, inited, prop, lock, cache, handle, worker, crashed>>
-----------------------------------------------------------------------------
(* SLPClose and ExitUserAgentLibrary.  The handle is freed once its thread *)
(* has ended.                                                              *)
FreeHandle(t) ==
    /\ handle' = [handle EXCEPT ![on[t]] = Unused]
    /\ pc' = [pc EXCEPT ![t] = "decrement"]
    /\ on' = [on EXCEPT ![t] = None]
    /\ UNCHANGED call

\* A bug: the handle is freed without waiting for its thread.
Join_NoWait(t) ==
    /\ pc[t] = "join"
    /\ FreeHandle(t)
    /\ UNCHANGED <<count, inited, prop, lock, cache, worker, crashed>>

Join(t) ==
    /\ pc[t] = "join"
    /\ handle[on[t]].isAsync => handle[on[t]].th # None
                                /\ worker[on[t]][handle[on[t]].th] = None
    /\ FreeHandle(t)
    /\ UNCHANGED <<count, inited, prop, lock, cache, worker, crashed>>

(* pthread_join of a handle without a thread is undefined: it may return   *)
(* at once or bring the program down.                                      *)
JoinNothing(t) ==
    /\ pc[t] = "join"
    /\ handle[on[t]].isAsync /\ handle[on[t]].th = None
    /\ crashed' \in BOOLEAN
    /\ FreeHandle(t)
    /\ UNCHANGED <<count, inited, prop, lock, cache, worker>>

\* A bug: every close cleans up.
Decrement_NoTest(t) ==
    /\ pc[t] = "decrement"
    /\ count' = count - 1
    /\ Goto(t, "clear")
    /\ UNCHANGED <<inited, prop, lock, cache, handle, worker, crashed>>

Decrement(t) ==
    /\ pc[t] = "decrement"
    /\ count' = count - 1
    /\ IF count' = 0 THEN Goto(t, "clear") ELSE Return(t)
    /\ UNCHANGED <<inited, prop, lock, cache, handle, worker, crashed>>

(* KnownDAFreeAll, and the look LIBSLPPropertyCleanup takes at the flag.   *)
Clear(t) ==
    /\ pc[t] = "clear"
    /\ cache' = FALSE
    /\ Goto(t, IF prop THEN "acquire" ELSE "down")
    /\ UNCHANGED <<count, inited, prop, lock, handle, worker, crashed>>

Down(t) ==
    /\ pc[t] = "down"
    /\ inited' = FALSE
    /\ Return(t)
    /\ UNCHANGED <<count, prop, lock, cache, handle, worker, crashed>>
-----------------------------------------------------------------------------
(* Requests.  What they learn of DAs enters or leaves the cache.           *)
Perform(t) ==
    /\ pc[t] = "perform"
    /\ cache' \in BOOLEAN
    /\ handle' = [handle EXCEPT ![on[t]].inUse = FALSE]
    /\ Return(t)
    /\ UNCHANGED <<count, inited, prop, lock, worker, crashed>>

CreateThread(t) ==
    /\ pc[t] = "create"
    /\ worker' = [worker EXCEPT ![on[t]][t] = "running"]
    /\ Goto(t, "store")
    /\ UNCHANGED <<count, inited, prop, lock, cache, handle, crashed>>

(* The new thread may be done before its name is in the handle.            *)
StoreThread(t) ==
    /\ pc[t] = "store"
    /\ handle' = [handle EXCEPT ![on[t]].th = t]
    /\ Return(t)
    /\ UNCHANGED <<count, inited, prop, lock, cache, worker, crashed>>

(* The copies of the parameters fail, or the creation of the thread does,  *)
(* which makes th the handle of no thread.                                 *)
CreateThreadFails(t) ==
    /\ pc[t] = "create"
    /\ MayFail
    /\ \E th \in {None, handle[on[t]].th} :
          handle' = [handle EXCEPT ![on[t]].th = th, ![on[t]].inUse = FALSE]
    /\ Return(t)
    /\ UNCHANGED <<count, inited, prop, lock, cache, worker, crashed>>

(* The thread of an asynchronous request, AsyncProcessSrvRqst for one.  It *)
(* does not touch the handle after the release.                            *)
AsyncProcess(h, t) ==
    /\ worker[h][t] = "running"
    /\ cache' \in BOOLEAN
    /\ handle' = [handle EXCEPT ![h].inUse = FALSE]
    /\ worker' = [worker EXCEPT ![h][t] = "released"]
    /\ UNCHANGED <<count, inited, prop, lock, pc, call, on, crashed>>

AsyncReturn(h, t) ==
    /\ worker[h][t] = "released"
    /\ worker' = [worker EXCEPT ![h][t] = None]
    /\ UNCHANGED <<count, inited, prop, lock, cache, handle, pc, call, on, crashed>>
-----------------------------------------------------------------------------
(* The program decides when to call.                                       *)
User(t) ==
    \/ CallSLPOpen(t)
    \/ CallSLPGetProperty(t)
    \/ \E h \in Handle : CallSLPClose(t, h) \/ CallRequest(t, h)

(* Once it has called, the library runs.                                   *)
Library(t) ==
    \/ Increment(t) \/ Undo(t) \/ Ready(t) \/ Wait(t)
    \/ Allocate(t) \/ AllocateFails(t)
    \/ ReadProp(t) \/ Acquire(t) \/ Release(t) \/ ReleaseFailed(t)
    \/ PropertyInit(t) \/ PropertyInitFails(t) \/ PropertyExit(t)
    \/ PropertyGet(t)
    \/ Join(t) \/ JoinNothing(t) \/ Decrement(t) \/ Clear(t) \/ Down(t)
    \/ Perform(t) \/ CreateThread(t) \/ CreateThreadFails(t) \/ StoreThread(t)

Worker(h, t) == AsyncProcess(h, t) \/ AsyncReturn(h, t)

Next ==
    \/ ~crashed /\ \E t \in Thread : User(t) \/ Library(t)
    \/ ~crashed /\ \E h \in Handle, t \in Thread : Worker(h, t)

Spec == Init /\ [][Next]_vars

(* The scheduler runs every thread that can go on.                         *)
FairSpec ==
    /\ Spec
    /\ \A t \in Thread : WF_vars(~crashed /\ Library(t))
    /\ \A h \in Handle, t \in Thread : WF_vars(~crashed /\ Worker(h, t))
-----------------------------------------------------------------------------
(* Types.  The count is that of the handles and of the calls that have     *)
(* taken, or still hold, a reference.                                      *)
TypeOK ==
    /\ count \in 0 .. Cardinality(Handle) + Cardinality(Thread)
    /\ inited \in BOOLEAN /\ prop \in BOOLEAN
    /\ lock \in BOOLEAN /\ cache \in BOOLEAN
    /\ handle \in [Handle -> HandleInfo]
    /\ worker \in [Handle -> [Thread -> {None, "running", "released"}]]
    /\ pc \in [Thread -> PcLabel]
    /\ call \in [Thread -> Calls \cup {None, "request"}]
    /\ on \in [Thread -> Handle \cup {None}]
    /\ crashed \in BOOLEAN

(* As long as a handle is open the library is initialised and its          *)
(* properties, which requests read without a test, are loaded              *)
(* (InitUserAgentLibrary against ExitUserAgentLibrary).                    *)
OpenMeansUp == Open # {} => inited /\ prop

(* And so they are when SLPOpen and SLPGetProperty come to read one.       *)
LibraryUp ==
    /\ OpenMeansUp
    /\ \A t \in Thread : pc[t] \in {"allocate", "value"} => prop

(* A handle serves one request at a time, be it a synchronous one or that  *)
(* of its thread (inUse, SLPSpinLockTryAcquire).                           *)
OneRequest ==
    \A h \in Handle :
        Cardinality({t \in Thread :
                        pc[t] \in {"perform", "create"} /\ on[t] = h})
          + Cardinality({t \in Thread : worker[h][t] = "running"}) <= 1

(* SLPClose frees no handle a thread of the library still works on: it     *)
(* joins the thread that runs (SLPThreadWait on th).                       *)
HandleOutlivesItsThread ==
    \A h \in Handle, t \in Thread : worker[h][t] = "running" => handle[h].sig

(* Whenever no thread is in the library, the count is that of the open     *)
(* handles, and when it is zero all is put away: no initialisation that    *)
(* failed half way, and no SLPOpen that could not allocate, leaves a       *)
(* reference or a resource behind.                                         *)
QuietLibrary ==
    (\A t \in Thread : pc[t] = "user") =>
        /\ count = Cardinality(Open)
        /\ count = 0 => ~inited /\ ~cache

(* Every call returns: the loop on s_HandlesInitialized in SLPOpen, the    *)
(* spin lock of the properties and the join in SLPClose all end.           *)
EveryCallReturns ==
    \A t \in Thread : pc[t] # "user" ~> pc[t] = "user" \/ crashed

(* SLPClose waits for a thread that exists ("the thread associated with    *)
(* the handle th", SLPThreadWait).                                         *)
JoinsAThread ==
    \A t \in Thread :
        pc[t] = "join" /\ handle[on[t]].isAsync => handle[on[t]].th # None
=============================================================================
