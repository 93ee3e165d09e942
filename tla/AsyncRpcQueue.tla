--------------------------- MODULE AsyncRpcQueue ---------------------------
(***************************************************************************)
(* The queue of asynchronous RPC operations (asyncrpcqueue.cpp) with the   *)
(* state machine of its operations (asyncrpcoperation.cpp and the main()   *)
(* of the wallet's operations).  Workers run operations outside the lock;  *)
(* the thread that closes the queue cancels every operation while it holds *)
(* the lock, each cancel() being a test and a store on an atomic that the  *)
(* workers store to without the lock.                                      *)
(*                                                                         *)
(* lock_ is held for longer than one step only by cancelAllOperations, so  *)
(* it is free exactly when the closing thread is not there.                *)
(***************************************************************************)
EXTENDS Naturals, Sequences

CONSTANTS Operations,    \* operations that may be created
          AsyncWorkers,  \* threads addWorker has created: one in StartRPC
          NoOp           \* no operation

ASSUME AsyncAssumption == NoOp \notin Operations

VARIABLES opQueue,    \* operation_id_queue_
          opMap,      \* the ids in operation_map_
          opState,    \* state_ of each operation; "none" before it is made
          closed,     \* closed_
          asyncPc,    \* where each worker is in run
          asyncOp,    \* the operation a worker holds
          asleep,     \* workers blocked on condition_
          executions, \* how often the work of an operation has been done
          closer,     \* where the closing thread is in closeAndWait
          toCancel,   \* operations cancelAllOperations still has to visit
          ready       \* the operation whose isReady() test has succeeded

asyncVars == <<opQueue, opMap, opState, closed, asyncPc, asyncOp, asleep,
               executions, closer, toCancel, ready>>

OperationStates == {"none", "READY", "EXECUTING", "CANCELLED", "FAILED", "SUCCESS"}
FinalStates == {"CANCELLED", "FAILED", "SUCCESS"}
AsyncStates == {"top", "wait", "skip", "main", "start", "work", "finish", "exited"}
CloserStates == {"open", "closed", "cancel", "notify", "join", "joined"}

\* One worker thread has been added by StartRPC.
AsyncInit ==
    /\ opQueue = <<>>
    /\ opMap = {}
    /\ opState = [o \in Operations |-> "none"]
    /\ closed = FALSE
    /\ asyncPc = [a \in AsyncWorkers |-> "top"]
    /\ asyncOp = [a \in AsyncWorkers |-> NoOp]
    /\ asleep = {}
    /\ executions = [o \in Operations |-> 0]
    /\ closer = "open"
    /\ toCancel = {}
    /\ ready = NoOp

LockFree == closer # "cancel"

\* Mutant: the closed queue still accepts operations.
AddOperationClosed(o) ==
    /\ LockFree
    /\ opState[o] = "none"
    /\ opState' = [opState EXCEPT ![o] = "READY"]
    /\ opMap' = opMap \cup {o}
    /\ opQueue' = Append(opQueue, o)
    /\ asleep' = {}
    /\ UNCHANGED <<closed, asyncPc, asyncOp, executions, closer, toCancel, ready>>

\* Mutant: no worker is woken.
AddOperationNoNotify(o) ==
    /\ LockFree
    /\ opState[o] = "none"
    /\ opState' = [opState EXCEPT ![o] = "READY"]
    /\ opMap' = IF closed THEN opMap ELSE opMap \cup {o}
    /\ opQueue' = IF closed THEN opQueue ELSE Append(opQueue, o)
    /\ UNCHANGED <<asleep, closed, asyncPc, asyncOp, executions, closer, toCancel,
                   ready>>

\* A new operation is READY; addOperation drops it silently when the queue is
\* closed, and otherwise stores it, queues its id and wakes one worker.
AddOperation(o) ==
    /\ LockFree
    /\ opState[o] = "none"
    /\ opState' = [opState EXCEPT ![o] = "READY"]
    /\ \/ /\ closed
          /\ UNCHANGED <<opQueue, opMap, asleep>>
       \/ /\ ~closed
          /\ opMap' = opMap \cup {o}
          /\ opQueue' = Append(opQueue, o)
          /\ IF asleep = {} THEN asleep' = {}
             ELSE \E a \in asleep : asleep' = asleep \ {a}
    /\ UNCHANGED <<closed, asyncPc, asyncOp, executions, closer, toCancel, ready>>

\* popOperationForId erases the operation from the map, and only from the map.
PopOperation(o) ==
    /\ LockFree
    /\ opMap' = opMap \ {o}
    /\ UNCHANGED <<opQueue, opState, closed, asyncPc, asyncOp, asleep,
                   executions, closer, toCancel, ready>>

-----------------------------------------------------------------------------
(***************************************************************************)
(* A worker: AsyncRPCQueue::run and the operation's main().                *)
(***************************************************************************)

Goto(a, pc) == asyncPc' = [asyncPc EXCEPT ![a] = pc]

\* Mutant: the id is read and not popped.
TakeOperationKeepsId(a) ==
    /\ LockFree
    /\ asyncPc[a] = "top" \/ (asyncPc[a] = "wait" /\ a \notin asleep)
    /\ \/ /\ opQueue # <<>> /\ ~closed
          /\ Head(opQueue) \in opMap
          /\ Goto(a, "skip")
          /\ asyncOp' = [asyncOp EXCEPT ![a] = Head(opQueue)]
          /\ UNCHANGED <<opQueue, asleep>>
       \/ /\ closed
          /\ Goto(a, "exited")
          /\ opQueue' = <<>>
          /\ UNCHANGED <<asyncOp, asleep>>
    /\ UNCHANGED <<opMap, opState, closed, executions, closer, toCancel, ready>>

\* With the lock: wait while there is nothing to do, leave (emptying the queue)
\* when the queue is closed, or take the front id and look it up.
TakeOperation(a) ==
    /\ LockFree
    /\ \/ asyncPc[a] = "top"
       \/ asyncPc[a] = "wait" /\ a \notin asleep
    /\ \/ /\ opQueue = <<>> /\ ~closed
          /\ Goto(a, "wait")
          /\ asleep' = asleep \cup {a}
          /\ UNCHANGED <<opQueue, asyncOp>>
       \/ /\ closed
          /\ Goto(a, "exited")
          /\ opQueue' = <<>>
          /\ UNCHANGED <<asyncOp, asleep>>
       \/ /\ opQueue # <<>> /\ ~closed
          /\ opQueue' = Tail(opQueue)
          /\ IF Head(opQueue) \in opMap
             THEN /\ Goto(a, "skip")
                  /\ asyncOp' = [asyncOp EXCEPT ![a] = Head(opQueue)]
             ELSE Goto(a, "top") /\ UNCHANGED asyncOp
          /\ UNCHANGED asleep
    /\ UNCHANGED <<opMap, opState, closed, executions, closer, toCancel, ready>>

\* run skips a cancelled operation, and main() tests once more ("skip" is the
\* first test, "main" the second).
TestCancelled(a) ==
    /\ asyncPc[a] \in {"skip", "main"}
    /\ \/ /\ opState[asyncOp[a]] = "CANCELLED"
          /\ Goto(a, "top")
          /\ asyncOp' = [asyncOp EXCEPT ![a] = NoOp]
       \/ /\ opState[asyncOp[a]] # "CANCELLED"
          /\ Goto(a, IF asyncPc[a] = "skip" THEN "main" ELSE "start")
          /\ UNCHANGED asyncOp
    /\ UNCHANGED <<opQueue, opMap, opState, closed, asleep, executions, closer,
                   toCancel, ready>>

\* set_state(EXECUTING).
StartExecuting(a) ==
    /\ asyncPc[a] = "start"
    /\ opState' = [opState EXCEPT ![asyncOp[a]] = "EXECUTING"]
    /\ Goto(a, "work")
    /\ UNCHANGED <<opQueue, opMap, closed, asyncOp, asleep, executions, closer,
                   toCancel, ready>>

\* main_impl(): the payment is made, or an exception says why not.
Work(a) ==
    /\ asyncPc[a] = "work"
    /\ executions' = [executions EXCEPT ![asyncOp[a]] = @ + 1]
    /\ Goto(a, "finish")
    /\ UNCHANGED <<opQueue, opMap, opState, closed, asyncOp, asleep, closer,
                   toCancel, ready>>

\* set_state(SUCCESS) or set_state(FAILED).
FinishExecuting(a) ==
    /\ asyncPc[a] = "finish"
    /\ \E s \in {"SUCCESS", "FAILED"} :
          opState' = [opState EXCEPT ![asyncOp[a]] = s]
    /\ Goto(a, "top")
    /\ asyncOp' = [asyncOp EXCEPT ![a] = NoOp]
    /\ UNCHANGED <<opQueue, opMap, closed, asleep, executions, closer,
                   toCancel, ready>>

-----------------------------------------------------------------------------
(***************************************************************************)
(* closeAndWait: close, cancelAllOperations, wait_for_worker_threads.      *)
(***************************************************************************)

\* closed_.store(true), without the lock.
Close ==
    /\ closer = "open"
    /\ closed' = TRUE
    /\ closer' = "closed"
    /\ UNCHANGED <<opQueue, opMap, opState, asyncPc, asyncOp, asleep,
                   executions, toCancel, ready>>

\* cancelAllOperations takes the lock and starts to visit the map.
BeginCancel ==
    /\ closer = "closed"
    /\ closer' = "cancel"
    /\ toCancel' = opMap
    /\ UNCHANGED <<opQueue, opMap, opState, closed, asyncPc, asyncOp, asleep,
                   executions, ready>>

\* cancel(): the test isReady() ...
CancelTest(o) ==
    /\ closer = "cancel"
    /\ ready = NoOp
    /\ o \in toCancel
    /\ toCancel' = toCancel \ {o}
    /\ ready' = IF opState[o] = "READY" THEN o ELSE NoOp
    /\ UNCHANGED <<opQueue, opMap, opState, closed, asyncPc, asyncOp, asleep,
                   executions, closer>>

\* ... and the store that follows it when it succeeded.
CancelStore ==
    /\ ready # NoOp
    /\ opState' = [opState EXCEPT ![ready] = "CANCELLED"]
    /\ ready' = NoOp
    /\ UNCHANGED <<opQueue, opMap, closed, asyncPc, asyncOp, asleep,
                   executions, closer, toCancel>>

\* cancelAllOperations wakes everyone and releases the lock.
EndCancel ==
    /\ closer = "cancel"
    /\ toCancel = {}
    /\ ready = NoOp
    /\ asleep' = {}
    /\ closer' = "notify"
    /\ UNCHANGED <<opQueue, opMap, opState, closed, asyncPc, asyncOp,
                   executions, toCancel, ready>>

\* wait_for_worker_threads wakes everyone once more ...
NotifyWorkers ==
    /\ closer = "notify"
    /\ asleep' = {}
    /\ closer' = "join"
    /\ UNCHANGED <<opQueue, opMap, opState, closed, asyncPc, asyncOp,
                   executions, toCancel, ready>>

\* ... and joins the threads.
JoinWorkers ==
    /\ closer = "join"
    /\ \A a \in AsyncWorkers : asyncPc[a] = "exited"
    /\ closer' = "joined"
    /\ UNCHANGED <<opQueue, opMap, opState, closed, asyncPc, asyncOp, asleep,
                   executions, toCancel, ready>>
=============================================================================
