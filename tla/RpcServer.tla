----------------------------- MODULE RpcServer -----------------------------
(***************************************************************************)
(* The RPC server: the HTTP server and the asynchronous operation queue,   *)
(* joined by the RPC handlers that HTTP workers run (z_sendmany starts an  *)
(* operation, z_getoperationresult collects finished ones) and by the main *)
(* thread, which stops the parts in the order of Interrupt and Shutdown of *)
(* init.cpp: InterruptHTTPServer, StopRPC, StopHTTPServer.                 *)
(***************************************************************************)
EXTENDS HttpServer, AsyncRpcQueue

CONSTANT Collect   \* requests that call z_getoperationresult; a request that
                   \* is an operation calls z_sendmany, any other something else

ASSUME CollectAssumption == Collect \subseteq Requests \ Operations

VARIABLES wallet,    \* the worker that holds LOCK2(cs_main, cs_wallet)
          toVisit,   \* ids z_getoperationresult has listed and not yet visited
          status,    \* per worker, the operation found finished and its status
          delivered  \* per operation, the statuses put in replies

handlerVars == <<wallet, toVisit, status, delivered>>
vars == <<httpVars, asyncVars, handlerVars>>

Nothing == [op |-> NoOp, state |-> "none"]

\* The types; in particular WorkQueue::Enqueue never exceeds the depth, and the
\* thread count stays within the threads there are.
TypeOK ==
    /\ queue \in Seq(Requests) /\ Len(queue) <= MaxDepth
    /\ running \in BOOLEAN /\ deleted \in BOOLEAN
    /\ numThreads \in 0..Cardinality(HttpWorkers)
    /\ waiters \subseteq HttpWorkers \cup {Main}
    /\ workerPc \in [HttpWorkers -> WorkerStates]
    /\ workerReq \in [HttpWorkers -> Requests \cup {None}]
    /\ request \in [Requests -> RequestStates]
    /\ callback \in Requests \cup {None}
    /\ gencb \in {"accept", "reject"}
    /\ loop \in {"run", "exit", "break", "done"}
    /\ mainPc \in MainStates
    /\ opQueue \in Seq(Operations)
    /\ opMap \subseteq Operations
    /\ opState \in [Operations -> OperationStates]
    /\ closed \in BOOLEAN
    /\ asyncPc \in [AsyncWorkers -> AsyncStates]
    /\ asyncOp \in [AsyncWorkers -> Operations \cup {NoOp}]
    /\ asleep \subseteq AsyncWorkers
    /\ executions \in [Operations -> Nat]
    /\ closer \in CloserStates
    /\ toCancel \subseteq Operations
    /\ ready \in Operations \cup {NoOp}
    /\ wallet \in HttpWorkers \cup {None}
    /\ toVisit \in [HttpWorkers -> SUBSET Operations]
    /\ status \in [HttpWorkers -> [op : Operations \cup {NoOp}, state : OperationStates]]
    /\ delivered \in [Operations -> Seq(FinalStates)]

Init ==
    /\ HttpInit
    /\ AsyncInit
    /\ wallet = None
    /\ toVisit = [w \in HttpWorkers |-> {}]
    /\ status = [w \in HttpWorkers |-> Nothing]
    /\ delivered = [o \in Operations |-> <<>>]

-----------------------------------------------------------------------------
(***************************************************************************)
(* The handlers.                                                           *)
(***************************************************************************)

Handling(w, S) == workerPc[w] = "handling" /\ workerReq[w] \in S

\* HTTPReq_JSONRPC replies without touching the operation queue: another method,
\* or one refused (authorisation, parse error, parameters, safe mode).
HandleOther(w) ==
    /\ Handling(w, Requests)
    /\ wallet # w
    /\ HandlerReturns(w)
    /\ UNCHANGED <<asyncVars, handlerVars>>

\* z_sendmany: with the wallet locked it creates the operation, adds it to the
\* queue and replies with its id.
HandleSend(w) ==
    /\ Handling(w, Operations)
    /\ wallet = None
    /\ AddOperation(workerReq[w])
    /\ HandlerReturns(w)
    /\ UNCHANGED handlerVars

\* z_getoperationstatus_IMPL locks the wallet and lists the operations.
CollectBegin(w) ==
    /\ Handling(w, Collect)
    /\ wallet = None
    /\ LockFree
    /\ wallet' = w
    /\ toVisit' = [toVisit EXCEPT ![w] = opMap]
    /\ UNCHANGED <<httpVars, asyncVars, status, delivered>>

\* Is this worker in z_getoperationstatus_IMPL, between two iterations?
Collecting(w) == wallet = w /\ status[w] = Nothing

\* Mutant: the wallet is unlocked once the operations are listed.
CollectVisitUnlocked(w, o) ==
    /\ Collecting(w)
    /\ LockFree
    /\ o \in toVisit[w]
    /\ toVisit' = [toVisit EXCEPT ![w] = @ \ {o}]
    /\ IF o \in opMap /\ opState[o] \in FinalStates
       THEN /\ status' = [status EXCEPT ![w] = [op |-> o, state |-> opState[o]]]
            /\ delivered' = [delivered EXCEPT ![o] = Append(@, opState[o])]
       ELSE UNCHANGED <<status, delivered>>
    /\ wallet' = None
    /\ UNCHANGED <<httpVars, asyncVars>>

\* It visits the next id: getOperationForId, then getStatus.  A finished
\* operation is put in the reply.
CollectVisit(w, o) ==
    /\ Collecting(w)
    /\ LockFree
    /\ o \in toVisit[w]
    /\ toVisit' = [toVisit EXCEPT ![w] = @ \ {o}]
    /\ IF o \in opMap /\ opState[o] \in FinalStates
       THEN /\ status' = [status EXCEPT ![w] = [op |-> o, state |-> opState[o]]]
            /\ delivered' = [delivered EXCEPT ![o] = Append(@, opState[o])]
       ELSE UNCHANGED <<status, delivered>>
    /\ UNCHANGED <<httpVars, asyncVars, wallet>>

\* popOperationForId on the operation just reported.
CollectPop(w) ==
    /\ status[w] # Nothing
    /\ PopOperation(status[w].op)
    /\ status' = [status EXCEPT ![w] = Nothing]
    /\ UNCHANGED <<httpVars, wallet, toVisit, delivered>>

\* Every id visited: the wallet is unlocked and the list sent.
CollectEnd(w) ==
    /\ Collecting(w)
    /\ toVisit[w] = {}
    /\ wallet' = None
    /\ HandlerReturns(w)
    /\ UNCHANGED <<asyncVars, toVisit, status, delivered>>

-----------------------------------------------------------------------------
(***************************************************************************)
(* The threads.                                                            *)
(***************************************************************************)

HttpStep(A) == A /\ UNCHANGED <<asyncVars, handlerVars>>
AsyncStep(A) == A /\ UNCHANGED <<httpVars, handlerVars>>

EventThread ==
    HttpStep(\/ RefuseRequest
             \/ Enqueue
             \/ \E r \in Requests : SendReply(r)
             \/ EventThreadExit)

HttpWorker(w) ==
    \/ HttpStep(StartWorker(w))
    \/ HttpStep(TakeItem(w))
    \/ HttpStep(EndWorker(w))
    \/ HandleOther(w)
    \/ HandleSend(w)
    \/ CollectBegin(w)
    \/ \E o \in Operations : CollectVisit(w, o)
    \/ CollectPop(w)
    \/ CollectEnd(w)

AsyncWorker(a) ==
    AsyncStep(\/ TakeOperation(a)
              \/ TestCancelled(a)
              \/ StartExecuting(a)
              \/ Work(a)
              \/ FinishExecuting(a))

\* A client sends a request; the operator asks the node to stop; the event
\* thread does not finish in time.  Nothing makes these happen.
Environment ==
    HttpStep(\/ \E r \in Requests : Receive(r)
             \/ RejectRequests
             \/ LoopBreak)

\* StopRPC comes after InterruptHTTPServer, StopHTTPServer after StopRPC.
MainThread ==
    \/ HttpStep(InterruptQueue)
    \/ mainPc = "interrupted" /\ AsyncStep(Close)
    \/ AsyncStep(\/ BeginCancel
                 \/ \E o \in Operations : CancelTest(o)
                 \/ CancelStore
                 \/ EndCancel
                 \/ NotifyWorkers
                 \/ JoinWorkers)
    \/ closer = "joined" /\ HttpStep(WaitExit)
    \/ HttpStep(DeleteQueue)
    \/ HttpStep(LoopExit)
    \/ HttpStep(JoinEventThread)

Next ==
    \/ Environment
    \/ EventThread
    \/ \E w \in HttpWorkers : HttpWorker(w)
    \/ \E a \in AsyncWorkers : AsyncWorker(a)
    \/ MainThread

(***************************************************************************)
(* The operating system runs every thread that can run.  A client sends a  *)
(* request once, so the wallet lock is taken finitely often and weak       *)
(* fairness is enough for a worker that waits for it.                      *)
(***************************************************************************)
Fairness ==
    /\ WF_vars(EventThread)
    /\ \A w \in HttpWorkers : WF_vars(HttpWorker(w))
    /\ \A a \in AsyncWorkers : WF_vars(AsyncWorker(a))
    /\ WF_vars(MainThread)

Spec == Init /\ [][Next]_vars /\ Fairness

-----------------------------------------------------------------------------
(***************************************************************************)
(* Safety.                                                                 *)
(***************************************************************************)

\* The work queue outlives its use: when it is deleted the workers that ran before
\* the stop have left, and none that started late holds a request.  WaitExit
\* returned because nobody was counted, not because it was merely woken (the
\* workers, Enqueue and Interrupt notify the same condition variable), although
\* late threads raise and lower the count meanwhile.
QueueOutlivesThreads ==
    deleted => /\ \A w \in HttpWorkers \ Late : workerPc[w] = "exited"
               /\ \A w \in Late : workerPc[w] # "handling"

\* httpserver.cpp:101, on ~WorkQueue: "Precondition: worker threads have all
\* stopped (call WaitExit)".
WorkersStopped == deleted => \A w \in HttpWorkers : workerPc[w] = "exited"

\* When the server has stopped every request a client got through has been
\* answered: by its handler, by the depth check, or, if it was still queued when
\* the workers left, by ~HTTPRequest.  Only the loopbreak after 2 seconds may
\* leave replies unsent, and those had at least been written; and only the request
\* whose callback was half-way when the queue was deleted may be lost, one at most
\* because the event thread runs one callback at a time and the later ones reject.
NoRequestStranded ==
    mainPc = "stopped" =>
        /\ \A r \in Requests : request[r] \in {"idle", "sent", "posted", "lost"}
        /\ Cardinality({r \in Requests : request[r] = "lost"}) <= 1

\* What z_getoperationresult reports, it reports once: the two critical sections
\* of popOperationForId, and the reply built before them, are serialised by the
\* wallet lock the handlers hold.
ResultDeliveredOnce == \A o \in Operations : Len(delivered[o]) <= 1

\* A success or failure that has been reported is final: the work was done
\* exactly once, and the operation never leaves that state.
ReportedIsDone ==
    \A o \in Operations :
        \A i \in 1..Len(delivered[o]) :
            delivered[o][i] \in {"SUCCESS", "FAILED"} =>
                opState[o] = delivered[o][i] /\ executions[o] = 1

\* closeAndWait leaves nothing behind: no worker holds an operation, and every
\* operation the queue accepted has ended, so that Shutdown may free the wallet
\* and the chain state.  An addOperation that races with close() is either
\* refused or cancelled.
ClosedIsQuiet ==
    closer = "joined" =>
        /\ \A a \in AsyncWorkers : asyncOp[a] = NoOp
        /\ \A o \in opMap : opState[o] \in FinalStates

\* An operation collected as cancelled has not made its payment.
CancelledNeverRan ==
    \A o \in Operations :
        "CANCELLED" \in Range(delivered[o]) => executions[o] = 0

-----------------------------------------------------------------------------
(***************************************************************************)
(* Liveness.                                                               *)
(***************************************************************************)

\* Every request received is answered, or shutdown has broken the event loop (a
\* request stays answered, so it is enough that again and again none is open).
\* A worker that sleeps on the condition variable while the queue holds work
\* would break this: Enqueue notifies one waiter only.
EveryRequestAnswered ==
    []<>(\/ \A r \in Requests : request[r] \in {"idle", "sent"}
         \/ loop \in {"break", "done"})

\* Every operation accepted comes to an end, whether or not the node stops.
EveryOperationEnds ==
    \A o \in Operations : o \in opMap ~> opState[o] \in FinalStates

\* A shutdown that has begun completes: closeAndWait and WaitExit both return.
ShutdownCompletes == mainPc = "rejecting" ~> mainPc = "stopped"
=============================================================================
