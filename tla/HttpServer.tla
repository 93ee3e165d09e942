----------------------------- MODULE HttpServer -----------------------------
(***************************************************************************)
(* The HTTP server of httpserver.cpp: one libevent thread that receives    *)
(* requests and sends replies, a bounded WorkQueue shared by detached      *)
(* worker threads, and the main thread that interrupts, waits for and      *)
(* deletes the queue at shutdown.  What a worker does with a request (the  *)
(* handler) belongs to RpcServer, which composes this module with the      *)
(* asynchronous operation queue.                                           *)
(*                                                                         *)
(* A boost condition variable is its set of waiters: a thread that waits   *)
(* joins `waiters', a notification takes it out, and a thread that is out  *)
(* goes on when it gets the mutex.  notify_one may pick ANY waiter, the    *)
(* main thread in WaitExit included.  Every critical section of the mutex  *)
(* cs is one step.                                                         *)
(*                                                                         *)
(* StopHTTPServer waits for the threads the queue has counted, and for     *)
(* nothing else: a thread that starts late, or a request callback that is  *)
(* half-way, may find the queue deleted.  What it does then is undefined;  *)
(* the model lets it have any of the effects that matter here, except that *)
(* the process ends.                                                       *)
(***************************************************************************)
EXTENDS Naturals, Sequences, FiniteSets, SequencesExt

CONSTANTS Requests,      \* the HTTP requests clients may send
          HttpWorkers,   \* the threads StartHTTPServer creates
          MaxDepth,      \* -rpcworkqueue
          Late,          \* the workers whose thread has not run yet when
                         \* the model begins; the others have
          None           \* no request, no thread

ASSUME HttpAssumption == /\ MaxDepth \in Nat \ {0}
                         /\ HttpWorkers # {} /\ IsFiniteSet(HttpWorkers)
                         /\ Late \subseteq HttpWorkers
                         /\ None \notin Requests \cup HttpWorkers

VARIABLES queue,      \* WorkQueue::queue
          running,    \* WorkQueue::running
          numThreads, \* WorkQueue::numThreads
          waiters,    \* threads blocked on WorkQueue::cond
          deleted,    \* the WorkQueue has been deleted
          workerPc,   \* where each worker is in WorkQueue::Run
          workerReq,  \* the work item a worker holds
          request,    \* what became of each request
          callback,   \* the request http_request_cb is handling
          gencb,      \* the callback evhttp calls: "accept" or "reject"
          loop,       \* event loop: "run", "exit" or "break" asked, "done"
          mainPc      \* where the main thread is in shutdown

httpVars == <<queue, running, numThreads, waiters, deleted, workerPc,
              workerReq, request, callback, gencb, loop, mainPc>>

\* The main thread, as a waiter of WorkQueue::cond.
Main == "main"

RequestStates == {"idle", "callback", "queued", "handling", "posted", "sent", "lost"}
WorkerStates == {"new", "top", "wait", "handling", "end", "exited"}
MainStates == {"up", "rejecting", "interrupted", "waitexit", "exited",
               "deleted", "joining", "stopped"}

\* InitHTTPServer and StartHTTPServer: the threads exist, and those that are not
\* late have been through the constructor of ThreadCounter.
HttpInit ==
    /\ queue = <<>>
    /\ running = TRUE
    /\ numThreads = Cardinality(HttpWorkers \ Late)
    /\ waiters = {}
    /\ deleted = FALSE
    /\ workerPc = [w \in HttpWorkers |-> IF w \in Late THEN "new" ELSE "top"]
    /\ workerReq = [w \in HttpWorkers |-> None]
    /\ request = [r \in Requests |-> "idle"]
    /\ callback = None
    /\ gencb = "accept"
    /\ loop = "run"
    /\ mainPc = "up"

-----------------------------------------------------------------------------
(***************************************************************************)
(* The event thread.  It runs one callback at a time: a request callback   *)
(* or the reply event a WriteReply has posted.                             *)
(***************************************************************************)

EventThreadFree == loop \in {"run", "exit"} /\ callback = None

\* evhttp hands a request to the general callback.  After shutdown began the
\* reject callback answers at once, on the event thread.
Receive(r) ==
    /\ EventThreadFree
    /\ request[r] = "idle"
    /\ \/ /\ gencb = "accept"
          /\ callback' = r
          /\ request' = [request EXCEPT ![r] = "callback"]
       \/ /\ gencb = "reject"
          /\ callback' = callback
          /\ request' = [request EXCEPT ![r] = "sent"]
    /\ UNCHANGED <<queue, running, numThreads, waiters, deleted, workerPc,
                   workerReq, gencb, loop, mainPc>>

\* HTTPRequest::WriteReply: an event for the event thread to send the reply.
Posted(r) == [request EXCEPT ![r] = "posted"]

\* http_request_cb refuses: address not allowed, unknown method, no handler.
RefuseRequest ==
    /\ callback # None
    /\ request' = Posted(callback)
    /\ callback' = None
    /\ UNCHANGED <<queue, running, numThreads, waiters, deleted, workerPc,
                   workerReq, gencb, loop, mainPc>>

\* notify_one: one of the waiters, if there is one.
NotifyOne == IF waiters = {} THEN waiters' = {}
             ELSE \E t \in waiters : waiters' = waiters \ {t}

\* Mutant: nobody is woken.
EnqueueNoNotify ==
    /\ callback # None
    /\ callback' = None
    /\ queue' = IF Len(queue) >= MaxDepth THEN queue ELSE Append(queue, callback)
    /\ request' = IF Len(queue) >= MaxDepth THEN Posted(callback)
                  ELSE [request EXCEPT ![callback] = "queued"]
    /\ UNCHANGED <<running, numThreads, waiters, deleted, workerPc, workerReq,
                   gencb, loop, mainPc>>

\* WorkQueue::Enqueue, called by http_request_cb: the item is queued, or the
\* queue is at its depth and the request is answered with an error.  On a deleted
\* queue it may be either, and an item that is queued there is lost.
Enqueue ==
    /\ callback # None
    /\ callback' = None
    /\ \/ /\ Len(queue) >= MaxDepth \/ deleted
          /\ request' = Posted(callback)
          /\ UNCHANGED <<queue, waiters>>
       \/ /\ deleted
          /\ request' = [request EXCEPT ![callback] = "lost"]
          /\ UNCHANGED <<queue, waiters>>
       \/ /\ Len(queue) < MaxDepth /\ ~deleted
          /\ queue' = Append(queue, callback)
          /\ request' = [request EXCEPT ![callback] = "queued"]
          /\ NotifyOne
    /\ UNCHANGED <<running, numThreads, deleted, workerPc, workerReq, gencb,
                   loop, mainPc>>

\* The event thread runs a reply event: evhttp_send_reply.
SendReply(r) ==
    /\ EventThreadFree
    /\ request[r] = "posted"
    /\ request' = [request EXCEPT ![r] = "sent"]
    /\ UNCHANGED <<queue, running, numThreads, waiters, deleted, workerPc,
                   workerReq, callback, gencb, loop, mainPc>>

\* event_base_dispatch returns: after loopexit once no event is active, after
\* loopbreak once the running callback has returned.
EventThreadExit ==
    /\ callback = None
    /\ \/ loop = "break"
       \/ loop = "exit" /\ \A r \in Requests : request[r] # "posted"
    /\ loop' = "done"
    /\ UNCHANGED <<queue, running, numThreads, waiters, deleted, workerPc,
                   workerReq, request, callback, gencb, mainPc>>

-----------------------------------------------------------------------------
(***************************************************************************)
(* A worker: WorkQueue::Run.                                               *)
(***************************************************************************)

\* The constructor of ThreadCounter, in a thread that runs for the first time.
StartWorker(w) ==
    /\ workerPc[w] = "new"
    /\ workerPc' = [workerPc EXCEPT ![w] = "top"]
    /\ numThreads' = numThreads + 1
    /\ UNCHANGED <<queue, running, waiters, deleted, workerReq, request,
                   callback, gencb, loop, mainPc>>

\* At the top of the loop, or woken from cond.wait: with the mutex, leave when
\* interrupted, take the front item, or wait for one; a late worker may also wait
\* for ever on a queue that is no more.
TakeItem(w) ==
    /\ \/ workerPc[w] = "top"
       \/ workerPc[w] = "wait" /\ w \notin waiters
    /\ \/ /\ ~running
          /\ workerPc' = [workerPc EXCEPT ![w] = "end"]
          /\ UNCHANGED <<queue, waiters, workerReq, request>>
       \/ /\ running \/ deleted
          /\ queue = <<>>
          /\ workerPc' = [workerPc EXCEPT ![w] = "wait"]
          /\ waiters' = waiters \cup {w}
          /\ UNCHANGED <<queue, workerReq, request>>
       \/ /\ running
          /\ queue # <<>>
          /\ workerPc' = [workerPc EXCEPT ![w] = "handling"]
          /\ workerReq' = [workerReq EXCEPT ![w] = Head(queue)]
          /\ request' = [request EXCEPT ![Head(queue)] = "handling"]
          /\ queue' = Tail(queue)
          /\ UNCHANGED waiters
    /\ UNCHANGED <<running, numThreads, deleted, callback, gencb, loop, mainPc>>

\* The handler has its answer: WriteReply, then the item is deleted and the
\* worker is back at the top of its loop.
HandlerReturns(w) ==
    /\ request' = Posted(workerReq[w])
    /\ workerReq' = [workerReq EXCEPT ![w] = None]
    /\ workerPc' = [workerPc EXCEPT ![w] = "top"]
    /\ UNCHANGED <<queue, running, numThreads, waiters, deleted, callback,
                   gencb, loop, mainPc>>

\* Mutant: the last thread to leave wakes nobody.
EndWorkerQuiet(w) ==
    /\ workerPc[w] = "end"
    /\ workerPc' = [workerPc EXCEPT ![w] = "exited"]
    /\ numThreads' = numThreads - 1
    /\ UNCHANGED <<queue, running, waiters, deleted, workerReq, request,
                   callback, gencb, loop, mainPc>>

\* The destructor of ThreadCounter: the count goes down and everyone is woken.
EndWorker(w) ==
    /\ workerPc[w] = "end"
    /\ workerPc' = [workerPc EXCEPT ![w] = "exited"]
    /\ numThreads' = numThreads - 1
    /\ waiters' = {}
    /\ UNCHANGED <<queue, running, deleted, workerReq, request, callback,
                   gencb, loop, mainPc>>

-----------------------------------------------------------------------------
(***************************************************************************)
(* The main thread at shutdown.                                            *)
(***************************************************************************)

\* InterruptHTTPServer, first half: no new connection, and requests on the
\* ones that exist go to the reject callback.
RejectRequests ==
    /\ mainPc = "up"
    /\ gencb' = "reject"
    /\ mainPc' = "rejecting"
    /\ UNCHANGED <<queue, running, numThreads, waiters, deleted, workerPc,
                   workerReq, request, callback, loop>>

\* InterruptHTTPServer, second half: WorkQueue::Interrupt.
InterruptQueue ==
    /\ mainPc = "rejecting"
    /\ running' = FALSE
    /\ waiters' = {}
    /\ mainPc' = "interrupted"
    /\ UNCHANGED <<queue, numThreads, deleted, workerPc, workerReq, request,
                   callback, gencb, loop>>

\* Mutant: `if' for `while': one notification is enough to go on.
WaitExitOnce ==
    /\ \/ /\ mainPc = "interrupted"
          /\ mainPc' = "waitexit"
          /\ waiters' = IF numThreads > 0 THEN waiters \cup {Main} ELSE waiters
       \/ /\ mainPc = "waitexit" /\ Main \notin waiters
          /\ mainPc' = "exited"
          /\ UNCHANGED waiters
    /\ UNCHANGED <<queue, running, numThreads, deleted, workerPc, workerReq,
                   request, callback, gencb, loop>>

\* WorkQueue::WaitExit: with the mutex, go on if no thread is counted, and
\* wait to look again otherwise.  A thread that has not run yet is not counted.
WaitExit ==
    /\ \/ mainPc = "interrupted"
       \/ mainPc = "waitexit" /\ Main \notin waiters
    /\ \/ /\ numThreads = 0
          /\ mainPc' = "exited"
          /\ UNCHANGED waiters
       \/ /\ numThreads > 0
          /\ mainPc' = "waitexit"
          /\ waiters' = waiters \cup {Main}
    /\ UNCHANGED <<queue, running, numThreads, deleted, workerPc, workerReq,
                   request, callback, gencb, loop>>

\* Mutant: ~HTTPRequest does not answer.
DeleteQueueSilently ==
    /\ mainPc = "exited"
    /\ deleted' = TRUE
    /\ queue' = <<>>
    /\ mainPc' = "deleted"
    /\ UNCHANGED <<running, numThreads, waiters, workerPc, workerReq, request,
                   callback, gencb, loop>>

\* delete workQueue: the items left in it are deleted, and ~HTTPRequest answers
\* each with an error.
DeleteQueue ==
    /\ mainPc = "exited"
    /\ deleted' = TRUE
    /\ request' = [r \in Requests |->
                      IF r \in Range(queue) THEN "posted" ELSE request[r]]
    /\ queue' = <<>>
    /\ mainPc' = "deleted"
    /\ UNCHANGED <<running, numThreads, waiters, workerPc, workerReq, callback,
                   gencb, loop>>

\* event_base_loopexit.
LoopExit ==
    /\ mainPc = "deleted"
    /\ loop' = "exit"
    /\ mainPc' = "joining"
    /\ UNCHANGED <<queue, running, numThreads, waiters, deleted, workerPc,
                   workerReq, request, callback, gencb>>

\* The event thread has not joined within 2 seconds: event_base_loopbreak.
LoopBreak ==
    /\ mainPc = "joining"
    /\ loop = "exit"
    /\ loop' = "break"
    /\ UNCHANGED <<queue, running, numThreads, waiters, deleted, workerPc,
                   workerReq, request, callback, gencb, mainPc>>

\* threadHTTP has joined; evhttp and the event base are freed.
JoinEventThread ==
    /\ mainPc = "joining"
    /\ loop = "done"
    /\ mainPc' = "stopped"
    /\ UNCHANGED <<queue, running, numThreads, waiters, deleted, workerPc,
                   workerReq, request, callback, gencb, loop>>
=============================================================================
