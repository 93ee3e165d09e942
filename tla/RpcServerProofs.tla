-------------------------- MODULE RpcServerProofs --------------------------
(***************************************************************************)
(* Proofs about the RPC server: the work queue outlives the threads that   *)
(* use it, no request is stranded, a result is delivered once and is       *)
(* final, and a closed operation queue is quiet.                           *)
(*                                                                         *)
(* The inductive invariant has a part for the HTTP server, a part for the  *)
(* queue of operations and a part for the handlers, and the actions of one *)
(* leave the variables of the others alone.                                *)
(***************************************************************************)
EXTENDS RpcServer, FiniteSetTheorems, SequenceTheorems, TLAPS

-----------------------------------------------------------------------------
(* The inductive invariant *)

HttpType ==
    /\ queue \in Seq(Requests) /\ Len(queue) <= MaxDepth
    /\ running \in BOOLEAN /\ deleted \in BOOLEAN
    /\ waiters \subseteq HttpWorkers \cup {Main}
    /\ workerPc \in [HttpWorkers -> WorkerStates]
    /\ workerReq \in [HttpWorkers -> Requests \cup {None}]
    /\ request \in [Requests -> RequestStates]
    /\ callback \in Requests \cup {None}
    /\ gencb \in {"accept", "reject"}
    /\ loop \in {"run", "exit", "break", "done"}
    /\ mainPc \in MainStates

(* The workers that a ThreadCounter counts. *)
Live == {w \in HttpWorkers : workerPc[w] \notin {"new", "exited"}}

(* What holds a request on its way to an answer. *)
Traced ==
    /\ \A r \in Requests :
          /\ request[r] = "callback" => callback = r
          /\ request[r] = "queued" => r \in Range(queue)
          /\ request[r] = "handling" =>
                \E w \in HttpWorkers : workerPc[w] = "handling" /\ workerReq[w] = r
    /\ \A w \in HttpWorkers : workerPc[w] = "handling" => workerReq[w] \in Requests

(* The order of the stop.  A worker that starts after WaitExit finds the *)
(* queue interrupted and handles nothing.                                *)
Stopping ==
    /\ mainPc # "up" => gencb = "reject"
    /\ mainPc \notin {"up", "rejecting"} => ~running
    /\ deleted <=> mainPc \in {"deleted", "joining", "stopped"}
    /\ deleted => queue = <<>>
    /\ loop = "done" => callback = None
    /\ mainPc = "stopped" => loop = "done"
    /\ \A w \in HttpWorkers \ Late : workerPc[w] # "new"
    /\ mainPc \in {"exited", "deleted", "joining", "stopped"} =>
          /\ \A w \in HttpWorkers : workerPc[w] # "handling"
          /\ \A w \in HttpWorkers \ Late : workerPc[w] = "exited"

(* What the deleted queue swallows: the request of the last callback. *)
Lost ==
    /\ \A r \in Requests : request[r] = "lost" => deleted /\ callback = None
    /\ \A r, s \in Requests : request[r] = "lost" /\ request[s] = "lost" => r = s

HttpInv == HttpType /\ numThreads = Cardinality(Live) /\ Traced /\ Stopping /\ Lost

AsyncType ==
    /\ opQueue \in Seq(Operations)
    /\ opMap \subseteq Operations
    /\ opState \in [Operations -> OperationStates]
    /\ closed \in BOOLEAN
    /\ asyncPc \in [AsyncWorkers -> AsyncStates]
    /\ asyncOp \in [AsyncWorkers -> Operations \cup {NoOp}]
    /\ asleep \subseteq AsyncWorkers
    /\ executions \in [Operations -> Nat]
    /\ closer \in CloserStates
    /\ toCancel \subseteq Operations
    /\ ready \in Operations \cup {NoOp}

(* An operation waits in one place of the queue, or one worker holds it, *)
(* or neither.                                                           *)
Owned ==
    /\ \A i, j \in 1..Len(opQueue) : opQueue[i] = opQueue[j] => i = j
    /\ \A a, b \in AsyncWorkers : asyncOp[a] = asyncOp[b] => a = b \/ asyncOp[a] = NoOp
    /\ \A a \in AsyncWorkers, i \in 1..Len(opQueue) : asyncOp[a] # opQueue[i]
    /\ \A a \in AsyncWorkers : asyncOp[a] = NoOp <=> asyncPc[a] \in {"top", "wait", "exited"}

(* How far an operation is, from where it is. *)
Progress ==
    /\ \A i \in 1..Len(opQueue) :
          opState[opQueue[i]] \in {"READY", "CANCELLED"} /\ executions[opQueue[i]] = 0
    /\ \A a \in AsyncWorkers :
          /\ asyncPc[a] \in {"skip", "main", "start"} =>
                opState[asyncOp[a]] \in {"READY", "CANCELLED"} /\ executions[asyncOp[a]] = 0
          /\ asyncPc[a] = "work" =>
                opState[asyncOp[a]] \in {"EXECUTING", "CANCELLED"} /\ executions[asyncOp[a]] = 0
          /\ asyncPc[a] = "finish" =>
                opState[asyncOp[a]] \in {"EXECUTING", "CANCELLED"} /\ executions[asyncOp[a]] = 1
    /\ \A o \in Operations :
          /\ opState[o] = "EXECUTING" =>
                \E a \in AsyncWorkers : asyncOp[a] = o /\ asyncPc[a] \in {"work", "finish"}
          /\ opState[o] \in {"SUCCESS", "FAILED"} => executions[o] = 1
          /\ opState[o] = "none" => executions[o] = 0 /\ o \notin opMap /\ o # ready

(* What closeAndWait has done. *)
Closing ==
    /\ closed <=> closer # "open"
    /\ closer # "cancel" => ready = NoOp
    /\ closer \in {"cancel", "notify", "join", "joined"} =>
          \A o \in opMap : o \in toCancel \/ o = ready \/ opState[o] # "READY"
    /\ closer \in {"notify", "join", "joined"} => toCancel = {}
    /\ closer = "joined" => \A a \in AsyncWorkers : asyncPc[a] = "exited"

AsyncInv == AsyncType /\ Owned /\ Progress /\ Closing

HandlerType ==
    /\ wallet \in HttpWorkers \cup {None}
    /\ toVisit \in [HttpWorkers -> SUBSET Operations]
    /\ status \in [HttpWorkers -> [op : Operations \cup {NoOp}, state : OperationStates]]
    /\ delivered \in [Operations -> Seq(FinalStates)]

(* The wallet lock: its holder is in z_getoperationresult, and only it can *)
(* have reported an operation that it has not popped yet.                  *)
Locked ==
    /\ \A w \in HttpWorkers : wallet = w => workerPc[w] = "handling"
    /\ \A w \in HttpWorkers : status[w] # Nothing => wallet = w /\ status[w].op \in Operations

Delivered ==
    /\ \A o \in Operations : delivered[o] # <<>> =>
          /\ Len(delivered[o]) = 1 /\ opState[o] # "none"
          /\ o \notin opMap \/ \E w \in HttpWorkers : status[w].op = o
    /\ \A o \in Operations : \A i \in 1..Len(delivered[o]) :
          delivered[o][i] \in {"SUCCESS", "FAILED"} => opState[o] = delivered[o][i] /\ ready # o

HandlerInv == HandlerType /\ Locked /\ Delivered

IInv == HttpInv /\ AsyncInv /\ HandlerInv

-----------------------------------------------------------------------------
(* Queues and counts *)

(* What is in a queue after a request joins it. *)
LEMMA RangeAppend ==
    ASSUME NEW S, NEW s \in Seq(S), NEW x \in S
    PROVE  /\ Append(s, x) \in Seq(S) /\ Len(Append(s, x)) = Len(s) + 1
           /\ Range(Append(s, x)) = Range(s) \cup {x}
<1>1. /\ Append(s, x) \in Seq(S) /\ Len(Append(s, x)) = Len(s) + 1
      /\ \A i \in 1..Len(s) : Append(s, x)[i] = s[i]
      /\ Append(s, x)[Len(s) + 1] = x
  OBVIOUS
<1>2. Len(s) \in Nat /\ DOMAIN s = 1..Len(s) /\ DOMAIN Append(s, x) = 1..Len(s) + 1
  BY <1>1
<1>3. \A i : i \in 1..Len(s) + 1 <=> i \in 1..Len(s) \/ i = Len(s) + 1
  BY <1>2
<1> QED
  BY <1>1, <1>2, <1>3 DEF Range

(* What is in a queue after its first element is taken. *)
LEMMA RangeTail ==
    ASSUME NEW S, NEW s \in Seq(S), s # <<>>
    PROVE  /\ Head(s) \in S /\ Tail(s) \in Seq(S) /\ Len(Tail(s)) = Len(s) - 1
           /\ \A x \in Range(s) : x = Head(s) \/ x \in Range(Tail(s))
<1>1. /\ Head(s) \in S /\ Head(s) = s[1] /\ Tail(s) \in Seq(S) /\ Len(Tail(s)) = Len(s) - 1
      /\ Len(s) \in Nat \ {0}
      /\ \A i \in 1..Len(s) - 1 : Tail(s)[i] = s[i + 1]
  BY HeadTailProperties
<1>2. DOMAIN s = 1..Len(s) /\ DOMAIN Tail(s) = 1..Len(s) - 1
  BY <1>1
<1>3. ASSUME NEW x \in Range(s), x # Head(s)
      PROVE  x \in Range(Tail(s))
  <2>1. PICK i \in 1..Len(s) : x = s[i]
    BY <1>2 DEF Range
  <2>2. i # 1
    BY <1>1, <1>3, <2>1
  <2>3. i - 1 \in 1..Len(s) - 1 /\ Tail(s)[i - 1] = s[i]
    BY <1>1, <2>1, <2>2
  <2> QED
    BY <1>2, <2>1, <2>3 DEF Range
<1> QED
  BY <1>1, <1>3

(* The live workers are finitely many, and none is live when none is counted. *)
LEMMA LiveFacts ==
    ASSUME HttpType
    PROVE  /\ IsFiniteSet(Live) /\ Cardinality(Live) \in 0..Cardinality(HttpWorkers)
           /\ Cardinality(Live) \in Nat
           /\ Cardinality(Live) = 0 => Live = {}
<1>1. Live \subseteq HttpWorkers /\ IsFiniteSet(HttpWorkers)
  BY HttpAssumption DEF Live
<1>2. IsFiniteSet(Live) /\ Cardinality(Live) <= Cardinality(HttpWorkers)
  BY <1>1, FS_Subset
<1>3. Cardinality(Live) \in Nat /\ Cardinality(HttpWorkers) \in Nat
  BY <1>1, <1>2, FS_CardinalityType
<1>4. Cardinality(Live) = 0 => Live = {}
  BY <1>2, FS_EmptySet
<1> QED
  BY <1>2, <1>3, <1>4

-----------------------------------------------------------------------------
(* The event thread *)

(* evhttp hands over a request. *)
LEMMA ReceiveHttp ==
    ASSUME HttpInv, NEW r \in Requests, Receive(r)
    PROVE  HttpInv'
<1> USE DEF HttpInv, Receive
<1>1. callback = None /\ None \notin Requests
  BY HttpAssumption DEF EventThreadFree
<1>2. HttpType'
  BY DEF HttpType, RequestStates
<1>3. Live' = Live
  BY DEF Live
<1>4. Traced'
  BY <1>1 DEF Traced, HttpType
<1>5. Stopping'
  BY <1>1 DEF Stopping, HttpType, MainStates, EventThreadFree
<1>6. Lost'
  BY <1>1 DEF Lost, Stopping, HttpType, MainStates
<1> QED
  BY <1>2, <1>3, <1>4, <1>5, <1>6

(* A request is refused, queued, answered by the depth check, or lost to a *)
(* queue that is no more.                                                  *)
LEMMA RefuseHttp ==
    ASSUME HttpInv, RefuseRequest \/ Enqueue
    PROVE  HttpInv'
<1> USE DEF HttpInv
<1>0. callback \in Requests /\ callback' = None /\ None \notin Requests
      /\ UNCHANGED <<running, numThreads, deleted, workerPc, workerReq, gencb, loop, mainPc>>
  BY HttpAssumption DEF HttpType, RefuseRequest, Enqueue
<1>1. loop # "done" /\ \A r \in Requests : request[r] # "lost"
  BY <1>0 DEF Stopping, Lost
<1>2. waiters' \subseteq waiters
  BY DEF RefuseRequest, Enqueue, NotifyOne
<1>3. CASE /\ queue' = queue
           /\ \/ request' = Posted(callback)
              \/ deleted /\ request' = [request EXCEPT ![callback] = "lost"]
  <2>1. HttpType'
    BY <1>0, <1>2, <1>3 DEF HttpType, Posted, RequestStates
  <2>2. Live' = Live
    BY <1>0 DEF Live
  <2>3. Traced'
    BY <1>0, <1>3 DEF Traced, HttpType, Posted
  <2>4. Stopping'
    BY <1>0, <1>3 DEF Stopping
  <2>5. Lost'
    BY <1>0, <1>1, <1>3 DEF Lost, HttpType, Posted
  <2> QED
    BY <1>0, <2>1, <2>2, <2>3, <2>4, <2>5
<1>4. CASE /\ Len(queue) < MaxDepth /\ ~deleted /\ queue' = Append(queue, callback)
           /\ request' = [request EXCEPT ![callback] = "queued"]
  <2>1. /\ queue' \in Seq(Requests) /\ Len(queue') = Len(queue) + 1
        /\ Range(queue') = Range(queue) \cup {callback}
    BY <1>0, <1>4, RangeAppend DEF HttpType
  <2>2. Len(queue) \in Nat /\ MaxDepth \in Nat
    BY HttpAssumption DEF HttpType
  <2>3. HttpType'
    BY <1>0, <1>2, <1>4, <2>1, <2>2 DEF HttpType, RequestStates
  <2>4. Live' = Live
    BY <1>0 DEF Live
  <2>5. Traced'
    BY <1>0, <1>4, <2>1 DEF Traced, HttpType
  <2>6. Stopping'
    BY <1>0, <1>1, <1>4 DEF Stopping
  <2>7. Lost'
    BY <1>0, <1>1, <1>4 DEF Lost, HttpType
  <2> QED
    BY <1>0, <2>3, <2>4, <2>5, <2>6, <2>7
<1> QED
  BY <1>3, <1>4 DEF RefuseRequest, Enqueue

(* A reply event runs, or the loop ends. *)
LEMMA ReplyHttp ==
    ASSUME HttpInv, EventThreadExit \/ \E r \in Requests : SendReply(r)
    PROVE  HttpInv'
<1> USE DEF HttpInv
<1>1. CASE EventThreadExit
  <2>1. HttpType'
    BY <1>1 DEF HttpType, EventThreadExit
  <2>2. Live' = Live /\ UNCHANGED numThreads
    BY <1>1 DEF Live, EventThreadExit
  <2>3. Traced' /\ Stopping' /\ Lost'
    BY <1>1 DEF Traced, Stopping, Lost, EventThreadExit
  <2> QED
    BY <2>1, <2>2, <2>3
<1>2. ASSUME NEW r \in Requests, SendReply(r)
      PROVE  HttpInv'
  <2>1. HttpType'
    BY <1>2 DEF HttpType, SendReply, RequestStates
  <2>2. Live' = Live /\ UNCHANGED numThreads
    BY <1>2 DEF Live, SendReply
  <2>3. Traced'
    BY <1>2 DEF Traced, HttpType, SendReply
  <2>4. Stopping'
    BY <1>2 DEF Stopping, SendReply
  <2>5. Lost'
    BY <1>2 DEF Lost, HttpType, SendReply
  <2> QED
    BY <2>1, <2>2, <2>3, <2>4, <2>5
<1> QED
  BY <1>1, <1>2

-----------------------------------------------------------------------------
(* The workers *)

(* A worker is counted. *)
LEMMA StartHttp ==
    ASSUME HttpInv, NEW w \in HttpWorkers, StartWorker(w)
    PROVE  HttpInv'
<1> USE DEF HttpInv, StartWorker
<1>1. HttpType'
  BY DEF HttpType, WorkerStates
<1>2. Live' = Live \cup {w} /\ w \notin Live
  BY DEF Live, HttpType
<1>3. Cardinality(Live') = Cardinality(Live) + 1
  BY <1>2, LiveFacts, FS_AddElement
<1>4. Traced'
  BY DEF Traced, HttpType
<1>5. Stopping'
  BY DEF Stopping, HttpType
<1>6. Lost'
  BY DEF Lost
<1> QED
  BY <1>1, <1>3, <1>4, <1>5, <1>6

(* With the mutex: leave, wait or take the front item. *)
LEMMA TakeHttp ==
    ASSUME HttpInv, NEW w \in HttpWorkers, TakeItem(w)
    PROVE  HttpInv'
<1> USE DEF HttpInv
<1>0. /\ workerPc[w] \in {"top", "wait"}
      /\ UNCHANGED <<running, numThreads, deleted, callback, gencb, loop, mainPc>>
      /\ workerPc \in [HttpWorkers -> WorkerStates]
  BY DEF TakeItem, HttpType
<1>1. mainPc \in {"exited", "deleted", "joining", "stopped"} => w \in Late /\ ~running
  BY <1>0 DEF Stopping
<1>2. CASE /\ UNCHANGED <<queue, workerReq, request>> /\ waiters' \subseteq waiters \cup {w}
           /\ \E pc \in {"end", "wait"} : workerPc' = [workerPc EXCEPT ![w] = pc]
  <2>1. HttpType'
    BY <1>0, <1>2 DEF HttpType, WorkerStates
  <2>2. Live' = Live
    BY <1>0, <1>2 DEF Live
  <2>3. Traced'
    BY <1>0, <1>2 DEF Traced
  <2>4. Stopping'
    BY <1>0, <1>1, <1>2 DEF Stopping
  <2>5. Lost'
    BY <1>0, <1>2 DEF Lost
  <2> QED
    BY <1>0, <2>1, <2>2, <2>3, <2>4, <2>5
<1>3. CASE /\ running /\ queue # <<>>
           /\ workerPc' = [workerPc EXCEPT ![w] = "handling"]
           /\ workerReq' = [workerReq EXCEPT ![w] = Head(queue)]
           /\ request' = [request EXCEPT ![Head(queue)] = "handling"]
           /\ queue' = Tail(queue) /\ UNCHANGED waiters
  <2>1. /\ Head(queue) \in Requests /\ queue' \in Seq(Requests) /\ Len(queue') = Len(queue) - 1
        /\ \A x \in Range(queue) : x = Head(queue) \/ x \in Range(queue')
    BY <1>3, RangeTail DEF HttpType
  <2>2. Len(queue) \in Nat /\ MaxDepth \in Nat
    BY HttpAssumption DEF HttpType
  <2>3. HttpType'
    BY <1>0, <1>3, <2>1, <2>2 DEF HttpType, RequestStates, WorkerStates
  <2>4. Live' = Live
    BY <1>0, <1>3 DEF Live
  <2>5. Traced'
    <3>1. workerReq'[w] = Head(queue) /\ workerPc'[w] = "handling" /\ request'[Head(queue)] = "handling"
      BY <1>0, <1>3, <2>1 DEF HttpType
    <3>2. \A v \in HttpWorkers : v # w => workerReq'[v] = workerReq[v] /\ workerPc'[v] = workerPc[v]
      BY <1>0, <1>3 DEF HttpType
    <3>3. \A r \in Requests : r # Head(queue) => request'[r] = request[r]
      BY <1>3 DEF HttpType
    <3> QED
      BY <1>0, <2>1, <3>1, <3>2, <3>3 DEF Traced
  <2>6. Stopping'
    BY <1>0, <1>1, <1>3 DEF Stopping
  <2>7. Lost'
    BY <1>0, <1>3, <2>1 DEF Lost, HttpType
  <2> QED
    BY <1>0, <2>3, <2>4, <2>5, <2>6, <2>7
<1> QED
  BY <1>2, <1>3 DEF TakeItem

(* A handler has its answer. *)
LEMMA ReturnHttp ==
    ASSUME HttpInv, NEW w \in HttpWorkers, workerPc[w] = "handling", HandlerReturns(w)
    PROVE  HttpInv'
<1> USE DEF HttpInv, HandlerReturns
<1>0. workerReq[w] \in Requests
  BY DEF Traced
<1>1. mainPc \notin {"exited", "deleted", "joining", "stopped"}
  BY DEF Stopping
<1>2. HttpType'
  BY <1>0 DEF HttpType, Posted, RequestStates, WorkerStates
<1>3. Live' = Live
  BY DEF Live, HttpType
<1>4. Traced'
  <2>1. request'[workerReq[w]] = "posted" /\ workerPc'[w] = "top"
    BY <1>0 DEF HttpType, Posted
  <2>2. \A v \in HttpWorkers : v # w => workerReq'[v] = workerReq[v] /\ workerPc'[v] = workerPc[v]
    BY DEF HttpType
  <2>3. \A r \in Requests : r # workerReq[w] => request'[r] = request[r]
    BY DEF HttpType, Posted
  <2> QED
    BY <1>0, <2>1, <2>2, <2>3 DEF Traced
<1>5. Stopping'
  BY <1>1 DEF Stopping, HttpType
<1>6. Lost'
  BY <1>0 DEF Lost, HttpType, Posted
<1> QED
  BY <1>2, <1>3, <1>4, <1>5, <1>6

(* A worker is no longer counted. *)
LEMMA EndHttp ==
    ASSUME HttpInv, NEW w \in HttpWorkers, EndWorker(w)
    PROVE  HttpInv'
<1> USE DEF HttpInv, EndWorker
<1>1. HttpType'
  BY DEF HttpType, WorkerStates
<1>2. Live' = Live \ {w} /\ w \in Live
  BY DEF Live, HttpType
<1>3. Cardinality(Live') = Cardinality(Live) - 1
  BY <1>2, LiveFacts, FS_RemoveElement
<1>4. Traced'
  BY DEF Traced, HttpType
<1>5. Stopping'
  BY DEF Stopping, HttpType
<1>6. Lost'
  BY DEF Lost
<1> QED
  BY <1>1, <1>3, <1>4, <1>5, <1>6

-----------------------------------------------------------------------------
(* The stop of the HTTP server *)

(* Requests are rejected, then the queue is interrupted. *)
LEMMA InterruptHttp ==
    ASSUME HttpInv, RejectRequests \/ InterruptQueue
    PROVE  HttpInv'
<1> USE DEF HttpInv, RejectRequests, InterruptQueue
<1>1. HttpType'
  BY DEF HttpType, MainStates
<1>2. Live' = Live /\ UNCHANGED numThreads
  BY DEF Live
<1>3. Traced'
  BY DEF Traced
<1>4. Stopping' /\ Lost'
  BY DEF Stopping, Lost, HttpType
<1> QED
  BY <1>1, <1>2, <1>3, <1>4

(* WaitExit goes on when the count is zero: then no worker handles a *)
(* request, and every worker that has started has left.              *)
LEMMA WaitHttp ==
    ASSUME HttpInv, WaitExit
    PROVE  HttpInv'
<1> USE DEF HttpInv, WaitExit
<1>1. HttpType'
  BY DEF HttpType, MainStates
<1>2. Live' = Live
  BY DEF Live
<1>3. Traced'
  BY DEF Traced
<1>4. numThreads = 0 => \A w \in HttpWorkers : workerPc[w] \in {"new", "exited"}
  BY LiveFacts DEF Live
<1>5. Stopping'
  BY <1>4, LiveFacts DEF Stopping
<1>6. Lost'
  BY DEF Lost
<1> QED
  BY <1>1, <1>2, <1>3, <1>5, <1>6

(* The queue is deleted and its items answered. *)
LEMMA DeleteHttp ==
    ASSUME HttpInv, DeleteQueue
    PROVE  HttpInv'
<1> USE DEF HttpInv, DeleteQueue
<1>0. <<>> \in Seq(Requests) /\ Len(<<>>) = 0 /\ MaxDepth \in Nat
  BY HttpAssumption
<1>1. HttpType'
  BY <1>0 DEF HttpType, RequestStates, MainStates
<1>2. Live' = Live
  BY DEF Live
<1>3. Traced'
  BY DEF Traced
<1>4. Stopping' /\ Lost'
  BY DEF Stopping, Lost, HttpType
<1> QED
  BY <1>1, <1>2, <1>3, <1>4

(* The event loop is told to end, and joined. *)
LEMMA LoopHttp ==
    ASSUME HttpInv, LoopExit \/ LoopBreak \/ JoinEventThread
    PROVE  HttpInv'
<1> USE DEF HttpInv, LoopExit, LoopBreak, JoinEventThread
<1>1. HttpType'
  BY DEF HttpType, MainStates
<1>2. Live' = Live /\ UNCHANGED numThreads
  BY DEF Live
<1>3. Traced'
  BY DEF Traced
<1>4. Stopping' /\ Lost'
  BY DEF Stopping, Lost, HttpType
<1> QED
  BY <1>1, <1>2, <1>3, <1>4

-----------------------------------------------------------------------------
(* The queue of operations *)

(* A new operation is dropped or queued. *)
LEMMA AddAsync ==
    ASSUME AsyncInv, NEW o \in Operations, AddOperation(o)
    PROVE  AsyncInv'
<1> USE DEF AsyncInv
<1>0. /\ UNCHANGED <<closed, asyncPc, asyncOp, executions, closer, toCancel, ready>>
      /\ opState[o] = "none" /\ opState' = [opState EXCEPT ![o] = "READY"]
      /\ asleep' \subseteq asleep
  BY DEF AddOperation
<1>1. /\ executions[o] = 0 /\ o \notin opMap /\ o # ready
      /\ \A i \in 1..Len(opQueue) : opQueue[i] # o
      /\ \A a \in AsyncWorkers : asyncOp[a] # o
  <2>1. executions[o] = 0 /\ o \notin opMap /\ o # ready /\ o # NoOp
    BY <1>0, AsyncAssumption DEF Progress
  <2>2. \A i \in 1..Len(opQueue) : opQueue[i] # o
    BY <1>0 DEF Progress
  <2>3. \A a \in AsyncWorkers : asyncOp[a] # NoOp =>
           asyncPc[a] \in {"skip", "main", "start", "work", "finish"}
    BY DEF Owned, AsyncType, AsyncStates
  <2>4. \A a \in AsyncWorkers : asyncOp[a] # o
    BY <1>0, <2>1, <2>3 DEF Progress
  <2> QED
    BY <2>1, <2>2, <2>4
<1>2. /\ opState'[o] = "READY"
      /\ \A p \in Operations : p # o => opState'[p] = opState[p]
      /\ opState' \in [Operations -> OperationStates]
  BY <1>0 DEF AsyncType, OperationStates
<1>3. CASE closed /\ UNCHANGED <<opQueue, opMap>>
  <2>1. AsyncType'
    BY <1>0, <1>2, <1>3 DEF AsyncType
  <2>2. Owned'
    BY <1>0, <1>3 DEF Owned
  <2>3. Progress'
    BY <1>0, <1>1, <1>2, <1>3 DEF Progress
  <2>4. Closing'
    BY <1>0, <1>1, <1>2, <1>3 DEF Closing, AsyncType
  <2> QED
    BY <2>1, <2>2, <2>3, <2>4
<1>4. CASE ~closed /\ opMap' = opMap \cup {o} /\ opQueue' = Append(opQueue, o)
  <2>1. /\ opQueue' \in Seq(Operations) /\ Len(opQueue') = Len(opQueue) + 1
        /\ Len(opQueue) \in Nat
        /\ \A i \in 1..Len(opQueue) : opQueue'[i] = opQueue[i]
        /\ opQueue'[Len(opQueue) + 1] = o
    BY <1>4 DEF AsyncType
  <2>2. \A i \in 1..Len(opQueue') : i \in 1..Len(opQueue) \/ i = Len(opQueue) + 1
    BY <2>1
  <2>3. AsyncType'
    BY <1>0, <1>2, <1>4, <2>1 DEF AsyncType
  <2>4. Owned'
    BY <1>0, <1>1, <2>1, <2>2 DEF Owned
  <2>5. Progress'
    <3>1. \A i \in 1..Len(opQueue) : opQueue[i] \in Operations
      BY DEF AsyncType
    <3>2. \A i \in 1..Len(opQueue') :
             opState'[opQueue'[i]] \in {"READY", "CANCELLED"} /\ executions'[opQueue'[i]] = 0
      BY <1>0, <1>1, <1>2, <2>1, <2>2, <3>1 DEF Progress
    <3> QED
      BY <1>0, <1>1, <1>2, <1>4, <3>2 DEF Progress
  <2>6. Closing'
    BY <1>0, <1>4 DEF Closing
  <2> QED
    BY <2>3, <2>4, <2>5, <2>6
<1> QED
  BY <1>3, <1>4 DEF AddOperation

(* A collected operation leaves the map. *)
LEMMA PopAsync ==
    ASSUME AsyncInv, NEW o \in Operations, PopOperation(o)
    PROVE  AsyncInv'
<1> USE DEF AsyncInv, PopOperation
<1>1. AsyncType'
  BY DEF AsyncType
<1>2. Owned'
  BY DEF Owned
<1>3. Progress'
  BY DEF Progress
<1>4. Closing'
  BY DEF Closing
<1> QED
  BY <1>1, <1>2, <1>3, <1>4

(* With the lock: wait, leave, or take the front id. *)
LEMMA TakeAsync ==
    ASSUME AsyncInv, NEW a \in AsyncWorkers, TakeOperation(a)
    PROVE  AsyncInv'
<1> USE DEF AsyncInv, Goto
<1>0. /\ UNCHANGED <<opMap, opState, closed, executions, closer, toCancel, ready>>
      /\ asyncPc[a] \in {"top", "wait"} /\ asyncOp[a] = NoOp
      /\ asyncPc \in [AsyncWorkers -> AsyncStates]
  BY DEF TakeOperation, AsyncType, Owned
<1>1. closer # "joined"
  BY <1>0 DEF Closing
<1>2. CASE /\ UNCHANGED asyncOp /\ asleep' \subseteq asleep \cup {a}
           /\ opQueue' = opQueue \/ opQueue' = <<>>
           /\ \E pc \in {"wait", "exited"} : asyncPc' = [asyncPc EXCEPT ![a] = pc]
  <2>1. AsyncType'
    <3>0. <<>> \in Seq(Operations)
      OBVIOUS
    <3>1. opQueue' \in Seq(Operations)
      BY <1>2, <3>0 DEF AsyncType
    <3>2. asyncPc' \in [AsyncWorkers -> AsyncStates]
      BY <1>0, <1>2 DEF AsyncStates
    <3>3. asleep' \subseteq AsyncWorkers
      BY <1>2 DEF AsyncType
    <3> QED
      BY <1>0, <1>2, <3>1, <3>2, <3>3 DEF AsyncType
  <2>2. Owned'
    BY <1>0, <1>2 DEF Owned
  <2>3. Progress'
    BY <1>0, <1>2 DEF Progress
  <2>4. Closing'
    BY <1>0, <1>1, <1>2 DEF Closing
  <2> QED
    BY <2>1, <2>2, <2>3, <2>4
<1>3. CASE /\ opQueue # <<>> /\ opQueue' = Tail(opQueue) /\ UNCHANGED asleep
           /\ \/ /\ asyncPc' = [asyncPc EXCEPT ![a] = "skip"]
                 /\ asyncOp' = [asyncOp EXCEPT ![a] = Head(opQueue)]
              \/ asyncPc' = [asyncPc EXCEPT ![a] = "top"] /\ UNCHANGED asyncOp
  <2>1. /\ Head(opQueue) \in Operations /\ Head(opQueue) = opQueue[1]
        /\ opQueue' \in Seq(Operations) /\ Len(opQueue') = Len(opQueue) - 1
        /\ Len(opQueue) \in Nat \ {0}
        /\ \A i \in 1..Len(opQueue) - 1 : opQueue'[i] = opQueue[i + 1]
    BY <1>3, HeadTailProperties DEF AsyncType
  <2>2. \A i \in 1..Len(opQueue') : i + 1 \in 1..Len(opQueue) /\ opQueue'[i] = opQueue[i + 1]
                                    /\ opQueue'[i] # Head(opQueue)
    BY <2>1 DEF Owned
  <2>3. AsyncType'
    <3>1. asyncPc' \in [AsyncWorkers -> AsyncStates]
      BY <1>0, <1>3 DEF AsyncStates
    <3>2. asyncOp' \in [AsyncWorkers -> Operations \cup {NoOp}]
      BY <1>3, <2>1 DEF AsyncType
    <3> QED
      BY <1>0, <1>3, <2>1, <3>1, <3>2 DEF AsyncType
  <2>4. \A b \in AsyncWorkers : b # a => asyncPc'[b] = asyncPc[b] /\ asyncOp'[b] = asyncOp[b]
    BY <1>0, <1>3 DEF AsyncType
  <2>5. \/ asyncPc'[a] = "skip" /\ asyncOp'[a] = Head(opQueue)
        \/ asyncPc'[a] = "top" /\ asyncOp'[a] = NoOp
    BY <1>0, <1>3 DEF AsyncType
  <2>6. Owned'
    <3>1. \A i, j \in 1..Len(opQueue') : opQueue'[i] = opQueue'[j] => i = j
      BY <2>1, <2>2 DEF Owned
    <3>2. \A b \in AsyncWorkers : asyncOp[b] # Head(opQueue)
      BY <2>1 DEF Owned
    <3>3. Head(opQueue) # NoOp
      BY <2>1, AsyncAssumption
    <3>4. \A b \in AsyncWorkers, i \in 1..Len(opQueue') : asyncOp'[b] # opQueue'[i]
      BY <1>0, <2>2, <2>4, <2>5 DEF Owned
    <3>5. \A b, c \in AsyncWorkers : asyncOp'[b] = asyncOp'[c] => b = c \/ asyncOp'[b] = NoOp
      BY <2>4, <2>5, <3>2 DEF Owned
    <3>6. \A b \in AsyncWorkers : asyncOp'[b] = NoOp <=> asyncPc'[b] \in {"top", "wait", "exited"}
      BY <2>4, <2>5, <3>3 DEF Owned
    <3> QED
      BY <3>1, <3>4, <3>5, <3>6 DEF Owned
  <2>7. Progress'
    <3>1. \A i \in 1..Len(opQueue') :
             opState'[opQueue'[i]] \in {"READY", "CANCELLED"} /\ executions'[opQueue'[i]] = 0
      BY <1>0, <2>2 DEF Progress
    <3>2. opState[Head(opQueue)] \in {"READY", "CANCELLED"} /\ executions[Head(opQueue)] = 0
      BY <2>1 DEF Progress
    <3>3. \A b \in AsyncWorkers : b # a =>
             /\ asyncPc'[b] \in {"skip", "main", "start"} =>
                   opState'[asyncOp'[b]] \in {"READY", "CANCELLED"} /\ executions'[asyncOp'[b]] = 0
             /\ asyncPc'[b] = "work" =>
                   opState'[asyncOp'[b]] \in {"EXECUTING", "CANCELLED"} /\ executions'[asyncOp'[b]] = 0
             /\ asyncPc'[b] = "finish" =>
                   opState'[asyncOp'[b]] \in {"EXECUTING", "CANCELLED"} /\ executions'[asyncOp'[b]] = 1
      BY <1>0, <2>4 DEF Progress
    <3>4. \A p \in Operations :
             /\ opState'[p] = "EXECUTING" =>
                   \E b \in AsyncWorkers : asyncOp'[b] = p /\ asyncPc'[b] \in {"work", "finish"}
             /\ opState'[p] \in {"SUCCESS", "FAILED"} => executions'[p] = 1
             /\ opState'[p] = "none" => executions'[p] = 0 /\ p \notin opMap' /\ p # ready'
      BY <1>0, <2>4 DEF Progress
    <3>5. asyncPc'[a] \in {"skip", "main", "start"} =>
             opState'[asyncOp'[a]] \in {"READY", "CANCELLED"} /\ executions'[asyncOp'[a]] = 0
      BY <1>0, <2>5, <3>2
    <3> QED
      BY <2>5, <3>1, <3>3, <3>4, <3>5 DEF Progress
  <2>8. Closing'
    BY <1>0, <1>1 DEF Closing
  <2> QED
    BY <2>3, <2>6, <2>7, <2>8
<1> QED
  BY <1>2, <1>3 DEF TakeOperation

(* What a worker that holds an operation knows of it. *)
LEMMA Held ==
    ASSUME AsyncInv, NEW a \in AsyncWorkers,
           asyncPc[a] \in {"skip", "main", "start", "work", "finish"}
    PROVE  /\ asyncOp[a] \in Operations /\ closer # "joined"
           /\ \A b \in AsyncWorkers : asyncOp[b] = asyncOp[a] => b = a
           /\ \A i \in 1..Len(opQueue) : opQueue[i] # asyncOp[a]
<1>1. asyncOp[a] # NoOp /\ asyncOp[a] \in Operations \cup {NoOp}
  BY DEF AsyncInv, AsyncType, Owned
<1>2. closer # "joined"
  BY DEF AsyncInv, Closing
<1> QED
  BY <1>1, <1>2 DEF AsyncInv, Owned

(* The two tests for cancellation. *)
LEMMA TestAsync ==
    ASSUME AsyncInv, NEW a \in AsyncWorkers, TestCancelled(a)
    PROVE  AsyncInv'
<1> USE DEF AsyncInv, Goto
<1>0. /\ UNCHANGED <<opQueue, opMap, opState, closed, asleep, executions, closer, toCancel, ready>>
      /\ asyncPc[a] \in {"skip", "main"}
      /\ asyncPc \in [AsyncWorkers -> AsyncStates]
      /\ asyncOp \in [AsyncWorkers -> Operations \cup {NoOp}]
  BY DEF TestCancelled, AsyncType
<1>1. /\ asyncOp[a] \in Operations /\ closer # "joined"
      /\ \A b \in AsyncWorkers : asyncOp[b] = asyncOp[a] => b = a
      /\ \A i \in 1..Len(opQueue) : opQueue[i] # asyncOp[a]
  BY <1>0, Held
<1>2. /\ asyncPc' \in [AsyncWorkers -> AsyncStates]
      /\ asyncOp' \in [AsyncWorkers -> Operations \cup {NoOp}]
      /\ \A b \in AsyncWorkers : b # a => asyncPc'[b] = asyncPc[b] /\ asyncOp'[b] = asyncOp[b]
      /\ \/ asyncPc'[a] = "top" /\ asyncOp'[a] = NoOp
         \/ asyncPc'[a] \in {"main", "start"} /\ asyncOp'[a] = asyncOp[a]
  BY <1>0 DEF TestCancelled, AsyncStates
<1>3. asyncOp[a] # NoOp
  BY <1>1, AsyncAssumption
<1>4. AsyncType'
  BY <1>0, <1>2 DEF AsyncType
<1>5. Owned'
  <2>1. \A b, c \in AsyncWorkers : asyncOp'[b] = asyncOp'[c] => b = c \/ asyncOp'[b] = NoOp
    BY <1>2 DEF Owned
  <2>2. \A b \in AsyncWorkers, i \in 1..Len(opQueue) : asyncOp'[b] # opQueue[i]
    <3>1. \A i \in 1..Len(opQueue) : opQueue[i] \in Operations
      BY DEF AsyncType
    <3> QED
      BY <1>1, <1>2, <3>1, AsyncAssumption DEF Owned
  <2>3. \A b \in AsyncWorkers : asyncOp'[b] = NoOp <=> asyncPc'[b] \in {"top", "wait", "exited"}
    BY <1>2, <1>3 DEF Owned
  <2> QED
    BY <1>0, <2>1, <2>2, <2>3 DEF Owned
<1>6. Progress'
  <2>1. /\ asyncPc'[a] \notin {"work", "finish"}
        /\ asyncPc'[a] \in {"skip", "main", "start"} =>
             opState[asyncOp'[a]] \in {"READY", "CANCELLED"} /\ executions[asyncOp'[a]] = 0
    BY <1>0, <1>2 DEF Progress
  <2> QED
    BY <1>0, <1>2, <2>1 DEF Progress
<1>7. Closing'
  BY <1>0, <1>1 DEF Closing
<1> QED
  BY <1>4, <1>5, <1>6, <1>7

(* An operation is executed: its state is set, its work done, its state set. *)
LEMMA ExecuteAsync ==
    ASSUME AsyncInv, NEW a \in AsyncWorkers,
           StartExecuting(a) \/ Work(a) \/ FinishExecuting(a)
    PROVE  AsyncInv'
<1> DEFINE o == asyncOp[a]
<1> USE DEF AsyncInv, Goto
<1>0. /\ UNCHANGED <<opQueue, opMap, closed, asleep, closer, toCancel, ready>>
      /\ asyncPc[a] \in {"start", "work", "finish"}
      /\ asyncPc \in [AsyncWorkers -> AsyncStates] /\ opState \in [Operations -> OperationStates]
      /\ asyncOp \in [AsyncWorkers -> Operations \cup {NoOp}] /\ executions \in [Operations -> Nat]
  BY DEF StartExecuting, Work, FinishExecuting, AsyncType
<1>1. /\ o \in Operations /\ closer # "joined"
      /\ \A b \in AsyncWorkers : asyncOp[b] = o => b = a
      /\ \A i \in 1..Len(opQueue) : opQueue[i] # o
  BY <1>0, Held
<1>2. o # NoOp
  BY <1>1, AsyncAssumption
<1> HIDE DEF o
<1>3. \/ /\ asyncPc[a] = "start" /\ asyncPc' = [asyncPc EXCEPT ![a] = "work"] /\ asyncOp' = asyncOp
         /\ opState' = [opState EXCEPT ![o] = "EXECUTING"] /\ executions' = executions
      \/ /\ asyncPc[a] = "work" /\ asyncPc' = [asyncPc EXCEPT ![a] = "finish"] /\ asyncOp' = asyncOp
         /\ opState' = opState /\ executions' = [executions EXCEPT ![o] = @ + 1]
      \/ /\ asyncPc[a] = "finish" /\ asyncPc' = [asyncPc EXCEPT ![a] = "top"]
         /\ asyncOp' = [asyncOp EXCEPT ![a] = NoOp] /\ executions' = executions
         /\ \E s \in {"SUCCESS", "FAILED"} : opState' = [opState EXCEPT ![o] = s]
  BY DEF StartExecuting, Work, FinishExecuting, o
<1>4. /\ \A b \in AsyncWorkers : b # a => asyncPc'[b] = asyncPc[b] /\ asyncOp'[b] = asyncOp[b]
      /\ \A p \in Operations : p # o => opState'[p] = opState[p] /\ executions'[p] = executions[p]
  BY <1>0, <1>3
<1>5. \/ asyncPc'[a] = "work" /\ asyncOp'[a] = o /\ opState'[o] = "EXECUTING" /\ executions'[o] = 0
      \/ /\ asyncPc'[a] = "finish" /\ asyncOp'[a] = o /\ executions'[o] = 1
         /\ opState'[o] \in {"EXECUTING", "CANCELLED"}
      \/ /\ asyncPc'[a] = "top" /\ asyncOp'[a] = NoOp
         /\ opState'[o] \in {"SUCCESS", "FAILED"} /\ executions'[o] = 1
  BY <1>0, <1>1, <1>3 DEF Progress, o
<1>6. AsyncType'
  <2>1. asyncPc' \in [AsyncWorkers -> AsyncStates]
    BY <1>0, <1>3 DEF AsyncStates
  <2>2. asyncOp' \in [AsyncWorkers -> Operations \cup {NoOp}]
    BY <1>0, <1>3
  <2>3. opState' \in [Operations -> OperationStates]
    BY <1>0, <1>1, <1>3 DEF OperationStates
  <2>4. executions' \in [Operations -> Nat]
    BY <1>0, <1>1, <1>3
  <2> QED
    BY <1>0, <2>1, <2>2, <2>3, <2>4 DEF AsyncType
<1>7. Owned'
  <2>1. \A b, c \in AsyncWorkers : asyncOp'[b] = asyncOp'[c] => b = c \/ asyncOp'[b] = NoOp
    BY <1>1, <1>4, <1>5 DEF Owned
  <2>2. \A b \in AsyncWorkers, i \in 1..Len(opQueue) : asyncOp'[b] # opQueue[i]
    <3>1. \A i \in 1..Len(opQueue) : opQueue[i] \in Operations
      BY DEF AsyncType
    <3> QED
      BY <1>1, <1>4, <1>5, <3>1, AsyncAssumption DEF Owned
  <2>3. \A b \in AsyncWorkers : asyncOp'[b] = NoOp <=> asyncPc'[b] \in {"top", "wait", "exited"}
    BY <1>2, <1>4, <1>5 DEF Owned
  <2> QED
    BY <1>0, <2>1, <2>2, <2>3 DEF Owned
<1>8. Progress'
  <2>1. \A i \in 1..Len(opQueue) :
           opState'[opQueue[i]] \in {"READY", "CANCELLED"} /\ executions'[opQueue[i]] = 0
    <3>1. \A i \in 1..Len(opQueue) : opQueue[i] \in Operations
      BY DEF AsyncType
    <3> QED
      BY <1>1, <1>4, <3>1 DEF Progress
  <2>2. \A b \in AsyncWorkers :
           /\ asyncPc'[b] \in {"skip", "main", "start"} =>
                 opState'[asyncOp'[b]] \in {"READY", "CANCELLED"} /\ executions'[asyncOp'[b]] = 0
           /\ asyncPc'[b] = "work" =>
                 opState'[asyncOp'[b]] \in {"EXECUTING", "CANCELLED"} /\ executions'[asyncOp'[b]] = 0
           /\ asyncPc'[b] = "finish" =>
                 opState'[asyncOp'[b]] \in {"EXECUTING", "CANCELLED"} /\ executions'[asyncOp'[b]] = 1
    <3> SUFFICES ASSUME NEW b \in AsyncWorkers, b # a,
                        asyncPc[b] \in {"skip", "main", "start", "work", "finish"}
                 PROVE  opState'[asyncOp[b]] = opState[asyncOp[b]]
                        /\ executions'[asyncOp[b]] = executions[asyncOp[b]]
      BY <1>4, <1>5 DEF Progress
    <3> QED
      BY <1>1, <1>4, Held
  <2>3. \A p \in Operations :
           /\ opState'[p] = "EXECUTING" =>
                 \E b \in AsyncWorkers : asyncOp'[b] = p /\ asyncPc'[b] \in {"work", "finish"}
           /\ opState'[p] \in {"SUCCESS", "FAILED"} => executions'[p] = 1
           /\ opState'[p] = "none" => executions'[p] = 0 /\ p \notin opMap /\ p # ready
    <3> SUFFICES ASSUME NEW p \in Operations
                 PROVE  /\ opState'[p] = "EXECUTING" =>
                             \E b \in AsyncWorkers : asyncOp'[b] = p /\ asyncPc'[b] \in {"work", "finish"}
                        /\ opState'[p] \in {"SUCCESS", "FAILED"} => executions'[p] = 1
                        /\ opState'[p] = "none" => executions'[p] = 0 /\ p \notin opMap /\ p # ready
      OBVIOUS
    <3>1. CASE p = o
      BY <1>5, <3>1
    <3>2. CASE p # o
      <4>1. opState'[p] = opState[p] /\ executions'[p] = executions[p]
        BY <1>4, <3>2
      <4>2. opState[p] = "EXECUTING" =>
               \E b \in AsyncWorkers : asyncOp'[b] = p /\ asyncPc'[b] \in {"work", "finish"}
        BY <1>4, <3>2 DEF Progress, o
      <4> QED
        BY <4>1, <4>2 DEF Progress
    <3> QED
      BY <3>1, <3>2
  <2> QED
    BY <1>0, <2>1, <2>2, <2>3 DEF Progress
<1>9. Closing'
  <2>1. \A p \in opMap : p \in Operations
    BY DEF AsyncType
  <2>2. \A p \in opMap : opState'[p] = "READY" => opState[p] = "READY"
    BY <1>4, <1>5, <2>1
  <2> QED
    BY <1>0, <1>1, <2>2 DEF Closing
<1> QED
  BY <1>6, <1>7, <1>8, <1>9

(* closeAndWait, except the store of a cancellation. *)
LEMMA CloseAsync ==
    ASSUME AsyncInv,
           \/ Close \/ BeginCancel \/ EndCancel \/ NotifyWorkers \/ JoinWorkers
           \/ \E o \in Operations : CancelTest(o)
    PROVE  AsyncInv'
<1> USE DEF AsyncInv
<1>1. CASE Close \/ BeginCancel \/ EndCancel \/ NotifyWorkers \/ JoinWorkers
  <2> USE <1>1 DEF Close, BeginCancel, EndCancel, NotifyWorkers, JoinWorkers
  <2>1. AsyncType'
    BY DEF AsyncType, CloserStates
  <2>2. Owned'
    BY DEF Owned
  <2>3. Progress'
    BY DEF Progress
  <2>4. Closing'
    BY DEF Closing
  <2> QED
    BY <2>1, <2>2, <2>3, <2>4
<1>2. ASSUME NEW o \in Operations, CancelTest(o)
      PROVE  AsyncInv'
  <2> USE <1>2 DEF CancelTest
  <2>1. AsyncType'
    BY DEF AsyncType
  <2>2. Owned'
    BY DEF Owned
  <2>3. Progress'
    BY AsyncAssumption DEF Progress
  <2>4. Closing'
    <3>1. \A p \in opMap : p # NoOp
      BY AsyncAssumption DEF AsyncType
    <3> QED
      BY <3>1 DEF Closing
  <2> QED
    BY <2>1, <2>2, <2>3, <2>4
<1> QED
  BY <1>1, <1>2

(* The store of a cancellation, whatever the operation has become since the test. *)
LEMMA StoreAsync ==
    ASSUME AsyncInv, CancelStore
    PROVE  AsyncInv'
<1> USE DEF AsyncInv
<1>0. /\ ready \in Operations /\ closer = "cancel" /\ ready' = NoOp
      /\ opState' = [opState EXCEPT ![ready] = "CANCELLED"]
      /\ UNCHANGED <<opQueue, opMap, closed, asyncPc, asyncOp, asleep, executions, closer, toCancel>>
  BY DEF CancelStore, AsyncType, Closing
<1>1. AsyncType'
  BY <1>0 DEF AsyncType, OperationStates
<1>2. /\ opState'[ready] = "CANCELLED"
      /\ \A o \in Operations : o # ready => opState'[o] = opState[o]
  BY <1>0 DEF AsyncType
<1>3. Owned'
  BY <1>0 DEF Owned
<1>4. Progress'
  <2>1. \A i \in 1..Len(opQueue) : opQueue[i] \in Operations
    BY DEF AsyncType
  <2>2. \A a \in AsyncWorkers : asyncPc[a] \in {"skip", "main", "start", "work", "finish"} =>
           asyncOp[a] \in Operations
    BY Held
  <2> QED
    BY <1>0, <1>2, <2>1, <2>2, AsyncAssumption DEF Progress
<1>5. Closing'
  <2>1. \A o \in opMap : o \in Operations
    BY DEF AsyncType
  <2> QED
    BY <1>0, <1>2, <2>1 DEF Closing
<1> QED
  BY <1>1, <1>3, <1>4, <1>5

-----------------------------------------------------------------------------
(* The handlers *)

(* No handler is at work: a step of the HTTP server that moves only *)
(* workers which do not hold the wallet.                            *)
LEMMA HandlerFrame ==
    ASSUME HandlerInv, UNCHANGED <<asyncVars, handlerVars>>,
           \A w \in HttpWorkers : workerPc[w] = "handling" => workerPc'[w] = "handling" \/ wallet # w
    PROVE  HandlerInv'
<1>0. UNCHANGED <<wallet, toVisit, status, delivered, opMap, opState, ready>>
  BY DEF asyncVars, handlerVars
<1>1. HandlerType'
  BY <1>0 DEF HandlerInv, HandlerType
<1>2. Locked'
  BY <1>0 DEF HandlerInv, Locked
<1>3. Delivered'
  BY <1>0 DEF HandlerInv, Delivered
<1> QED
  BY <1>1, <1>2, <1>3 DEF HandlerInv

(* A step of the operation queue that changes no final state that was      *)
(* reported keeps what the handlers know.                                  *)
LEMMA HandlerAsync ==
    ASSUME HandlerInv, UNCHANGED <<httpVars, handlerVars>>, opMap' \subseteq opMap,
           \A o \in Operations : opState[o] # "none" => opState'[o] # "none",
           \A o \in Operations :
              opState[o] \in {"SUCCESS", "FAILED"} /\ ready # o =>
                 opState'[o] = opState[o] /\ ready' # o
    PROVE  HandlerInv'
<1>0. UNCHANGED <<wallet, toVisit, status, delivered, workerPc>>
  BY DEF httpVars, handlerVars
<1>1. HandlerType'
  BY <1>0 DEF HandlerInv, HandlerType
<1>2. Locked'
  BY <1>0 DEF HandlerInv, Locked
<1>3. Delivered'
  BY <1>0 DEF HandlerInv, Delivered
<1> QED
  BY <1>1, <1>2, <1>3 DEF HandlerInv

(* z_sendmany creates an operation nobody has heard of. *)
LEMMA SendHandler ==
    ASSUME IInv, NEW w \in HttpWorkers, HandleSend(w)
    PROVE  HandlerInv'
<1>0. /\ workerReq[w] \in Operations /\ wallet = None /\ AddOperation(workerReq[w])
      /\ HandlerReturns(w) /\ UNCHANGED <<wallet, toVisit, status, delivered>>
  BY DEF HandleSend, Handling, handlerVars
<1> DEFINE o == workerReq[w]
<1>1. /\ opState[o] = "none" /\ opState' = [opState EXCEPT ![o] = "READY"] /\ UNCHANGED ready
      /\ opMap' \subseteq opMap \cup {o}
  BY <1>0 DEF AddOperation
<1>2. delivered[o] = <<>>
  BY <1>0, <1>1 DEF IInv, HandlerInv, Delivered
<1> HIDE DEF o
<1>3. \A p \in Operations : p # o => opState'[p] = opState[p] /\ (p \in opMap' => p \in opMap)
  BY <1>1 DEF IInv, AsyncInv, AsyncType
<1>4. \A p \in Operations : delivered[p] # <<>> => p # o
  BY <1>2
<1>5. HandlerType'
  BY <1>0 DEF IInv, HandlerInv, HandlerType
<1>6. Locked'
  BY <1>0, HttpAssumption DEF IInv, HandlerInv, Locked
<1>7. Delivered'
  BY <1>0, <1>1, <1>2, <1>3 DEF IInv, HandlerInv, Delivered
<1> QED
  BY <1>5, <1>6, <1>7 DEF HandlerInv

(* The wallet is locked. *)
LEMMA BeginHandler ==
    ASSUME IInv, NEW w \in HttpWorkers, CollectBegin(w)
    PROVE  HandlerInv'
<1>0. /\ workerPc[w] = "handling" /\ wallet = None /\ wallet' = w
      /\ toVisit' = [toVisit EXCEPT ![w] = opMap]
      /\ UNCHANGED <<workerPc, opMap, opState, ready, status, delivered>>
  BY DEF CollectBegin, Handling, httpVars, asyncVars
<1>1. opMap \subseteq Operations
  BY DEF IInv, AsyncInv, AsyncType
<1>2. HandlerType'
  BY <1>0, <1>1 DEF IInv, HandlerInv, HandlerType
<1>3. \A v \in HttpWorkers : v # None
  BY HttpAssumption
<1>4. Locked'
  BY <1>0, <1>3 DEF IInv, HandlerInv, Locked
<1>5. Delivered'
  BY <1>0 DEF IInv, HandlerInv, Delivered
<1> QED
  BY <1>2, <1>4, <1>5 DEF HandlerInv

(* A visit reports a finished operation that is in the map and was, by the *)
(* wallet lock, never reported before.                                     *)
LEMMA VisitHandler ==
    ASSUME IInv, NEW w \in HttpWorkers, NEW o \in Operations, CollectVisit(w, o)
    PROVE  HandlerInv'
<1>0. /\ wallet = w /\ status[w] = Nothing /\ closer # "cancel"
      /\ toVisit' = [toVisit EXCEPT ![w] = @ \ {o}]
      /\ UNCHANGED <<workerPc, opMap, opState, ready, wallet>>
  BY DEF CollectVisit, Collecting, LockFree, httpVars, asyncVars
<1>1. \A v \in HttpWorkers : status[v] = Nothing
  BY <1>0 DEF IInv, HandlerInv, Locked
<1>2. ready = NoOp
  BY <1>0 DEF IInv, AsyncInv, Closing
<1>3. toVisit' \in [HttpWorkers -> SUBSET Operations]
  BY <1>0 DEF IInv, HandlerInv, HandlerType
<1>4. CASE UNCHANGED <<status, delivered>>
  <2>1. HandlerType'
    BY <1>0, <1>3, <1>4 DEF IInv, HandlerInv, HandlerType
  <2>2. Locked' /\ Delivered'
    BY <1>0, <1>4 DEF IInv, HandlerInv, Locked, Delivered
  <2> QED
    BY <2>1, <2>2 DEF HandlerInv
<1>5. CASE /\ o \in opMap /\ opState[o] \in FinalStates
           /\ status' = [status EXCEPT ![w] = [op |-> o, state |-> opState[o]]]
           /\ delivered' = [delivered EXCEPT ![o] = Append(@, opState[o])]
  <2>1. NoOp \notin Operations /\ Nothing.op = NoOp
    BY AsyncAssumption DEF Nothing
  <2>2. delivered[o] = <<>>
    BY <1>1, <1>5, <2>1 DEF IInv, HandlerInv, Delivered
  <2>3. delivered \in [Operations -> Seq(FinalStates)] /\ delivered'[o] = <<opState[o]>>
        /\ \A p \in Operations : p # o => delivered'[p] = delivered[p]
    BY <1>5, <2>2 DEF IInv, HandlerInv, HandlerType
  <2>4. delivered' \in [Operations -> Seq(FinalStates)]
    BY <1>5, <2>2, <2>3
  <2>5. FinalStates \subseteq OperationStates
    BY DEF FinalStates, OperationStates
  <2>6. status' \in [HttpWorkers -> [op : Operations \cup {NoOp}, state : OperationStates]]
        /\ status'[w].op = o /\ \A v \in HttpWorkers : v # w => status'[v] = Nothing
    BY <1>1, <1>5, <2>5 DEF IInv, HandlerInv, HandlerType
  <2>7. HandlerType'
    BY <1>0, <1>3, <2>4, <2>6 DEF IInv, HandlerInv, HandlerType
  <2>8. Locked'
    BY <1>0, <2>6 DEF IInv, HandlerInv, Locked
  <2>9. Delivered'
    <3>1. Len(<<opState[o]>>) = 1 /\ <<opState[o]>>[1] = opState[o]
      OBVIOUS
    <3>2. opState[o] # "none" /\ ready # o
      BY <1>2, <1>5, <2>1 DEF FinalStates
    <3>3. \A p \in Operations : delivered'[p] # <<>> =>
             /\ Len(delivered'[p]) = 1 /\ opState[p] # "none"
             /\ p \notin opMap \/ \E v \in HttpWorkers : status'[v].op = p
      <4>1. \E v \in HttpWorkers : status'[v].op = o
        BY <2>6
      <4>2. \A p \in Operations : p # o /\ delivered[p] # <<>> =>
               Len(delivered[p]) = 1 /\ opState[p] # "none" /\ p \notin opMap
        BY <1>1, <2>1 DEF IInv, HandlerInv, Delivered
      <4> QED
        BY <2>3, <3>1, <3>2, <4>1, <4>2
    <3>4. \A p \in Operations : \A i \in 1..Len(delivered'[p]) :
             delivered'[p][i] \in {"SUCCESS", "FAILED"} => opState[p] = delivered'[p][i] /\ ready # p
      BY <2>3, <3>1, <3>2 DEF IInv, HandlerInv, Delivered
    <3> QED
      BY <1>0, <3>3, <3>4 DEF Delivered
  <2> QED
    BY <2>7, <2>8, <2>9 DEF HandlerInv
<1> QED
  BY <1>4, <1>5 DEF CollectVisit

(* A reported operation is popped. *)
LEMMA PopHandler ==
    ASSUME IInv, NEW w \in HttpWorkers, CollectPop(w)
    PROVE  HandlerInv'
<1>0. /\ status[w] # Nothing /\ opMap' = opMap \ {status[w].op}
      /\ status' = [status EXCEPT ![w] = Nothing]
      /\ UNCHANGED <<workerPc, opState, ready, wallet, toVisit, delivered>>
  BY DEF CollectPop, PopOperation, httpVars
<1>1. Nothing \in [op : Operations \cup {NoOp}, state : OperationStates]
  BY DEF Nothing, OperationStates
<1>2. /\ status' \in [HttpWorkers -> [op : Operations \cup {NoOp}, state : OperationStates]]
      /\ status'[w] = Nothing /\ \A v \in HttpWorkers : v # w => status'[v] = status[v]
  BY <1>0, <1>1 DEF IInv, HandlerInv, HandlerType
<1>3. HandlerType'
  BY <1>0, <1>2 DEF IInv, HandlerInv, HandlerType
<1>4. Locked'
  BY <1>0, <1>2 DEF IInv, HandlerInv, Locked
<1>5. Delivered'
  BY <1>0, <1>2 DEF IInv, HandlerInv, Delivered
<1> QED
  BY <1>3, <1>4, <1>5 DEF HandlerInv

(* The list is complete: the wallet is unlocked. *)
LEMMA EndHandler ==
    ASSUME IInv, NEW w \in HttpWorkers, CollectEnd(w)
    PROVE  HandlerInv' /\ workerPc[w] = "handling"
<1>0. /\ wallet = w /\ status[w] = Nothing /\ wallet' = None
      /\ UNCHANGED <<opMap, opState, ready, toVisit, status, delivered>>
  BY DEF CollectEnd, Collecting, asyncVars
<1>1. workerPc[w] = "handling" /\ \A v \in HttpWorkers : status[v] = Nothing
  BY <1>0 DEF IInv, HandlerInv, Locked
<1>2. HandlerType'
  BY <1>0 DEF IInv, HandlerInv, HandlerType
<1>3. Locked'
  BY <1>0, <1>1, HttpAssumption DEF Locked
<1>4. Delivered'
  BY <1>0 DEF IInv, HandlerInv, Delivered
<1> QED
  BY <1>1, <1>2, <1>3, <1>4 DEF HandlerInv

-----------------------------------------------------------------------------
(* The invariant *)

(* The first state. *)
LEMMA InitInv == Init => IInv
<1> SUFFICES ASSUME Init PROVE IInv
  OBVIOUS
<1> USE DEF Init
<1>1. HttpInv
  <2>1. queue = <<>> /\ <<>> \in Seq(Requests) /\ Len(<<>>) = 0
    BY DEF HttpInit
  <2>2. Live = HttpWorkers \ Late
    BY HttpAssumption DEF HttpInit, Live
  <2>3. HttpType
    <3>1. Len(queue) <= MaxDepth
      BY <2>1, HttpAssumption
    <3> QED
      BY <2>1, <3>1 DEF HttpInit, HttpType, WorkerStates, RequestStates, MainStates
  <2>4. Traced
    BY DEF HttpInit, Traced
  <2>5. Stopping /\ Lost
    BY DEF HttpInit, Stopping, Lost
  <2> QED
    BY <2>1, <2>2, <2>3, <2>4, <2>5 DEF HttpInv, HttpInit
<1>2. AsyncInv
  <2>1. opQueue = <<>> /\ <<>> \in Seq(Operations) /\ Len(<<>>) = 0
    BY DEF AsyncInit
  <2>2. AsyncType
    BY <2>1 DEF AsyncInit, AsyncType, OperationStates, AsyncStates, CloserStates
  <2>3. Owned
    BY <2>1 DEF AsyncInit, Owned
  <2>4. Progress
    BY <2>1, AsyncAssumption DEF AsyncInit, Progress
  <2>5. Closing
    BY DEF AsyncInit, Closing
  <2> QED
    BY <2>2, <2>3, <2>4, <2>5 DEF AsyncInv
<1>3. HandlerInv
  <2>1. <<>> \in Seq(FinalStates) /\ Len(<<>>) = 0
    OBVIOUS
  <2>2. Nothing \in [op : Operations \cup {NoOp}, state : OperationStates]
    BY DEF Nothing, OperationStates
  <2>3. HandlerType
    BY <2>1, <2>2 DEF HandlerType
  <2>4. Locked
    BY HttpAssumption DEF Locked
  <2>5. Delivered
    BY <2>1 DEF Delivered
  <2> QED
    BY <2>3, <2>4, <2>5 DEF HandlerInv
<1> QED
  BY <1>1, <1>2, <1>3 DEF IInv

(* A step of the HTTP server alone. *)
LEMMA HttpOnly ==
    ASSUME IInv, HttpInv', UNCHANGED <<asyncVars, handlerVars>>,
           \A w \in HttpWorkers : workerPc[w] = "handling" => workerPc'[w] = "handling" \/ wallet # w
    PROVE  IInv'
<1>1. AsyncInv'
  BY DEF IInv, AsyncInv, AsyncType, Owned, Progress, Closing, asyncVars
<1>2. HandlerInv'
  BY HandlerFrame DEF IInv
<1> QED
  BY <1>1, <1>2 DEF IInv

(* A step of the operation queue alone leaves the HTTP server as it is. *)
LEMMA HttpUnchanged ==
    ASSUME HttpInv, UNCHANGED httpVars
    PROVE  HttpInv'
<1> USE DEF httpVars
<1>1. HttpType'
  BY DEF HttpInv, HttpType
<1>2. Live' = Live
  BY DEF Live
<1>3. Traced' /\ Stopping' /\ Lost'
  BY DEF HttpInv, Traced, Stopping, Lost
<1> QED
  BY <1>1, <1>2, <1>3 DEF HttpInv

(* A step of the operation queue. *)
LEMMA AsyncOnly ==
    ASSUME IInv, UNCHANGED <<httpVars, handlerVars>>,
           \/ \E a \in AsyncWorkers : \/ TakeOperation(a) \/ TestCancelled(a)
                                      \/ StartExecuting(a) \/ Work(a) \/ FinishExecuting(a)
           \/ Close \/ BeginCancel \/ EndCancel \/ NotifyWorkers \/ JoinWorkers
           \/ \E o \in Operations : CancelTest(o)
           \/ CancelStore
    PROVE  IInv'
<1>0. HttpInv /\ AsyncInv /\ HandlerInv
  BY DEF IInv
<1>1. HttpInv'
  BY <1>0, HttpUnchanged
<1>2. AsyncInv'
  BY <1>0, TakeAsync, TestAsync, ExecuteAsync, CloseAsync, StoreAsync
<1>3. HandlerInv'
  <2>1. opMap' = opMap
    BY DEF TakeOperation, TestCancelled, StartExecuting, Work, FinishExecuting, Close,
           BeginCancel, EndCancel, NotifyWorkers, JoinWorkers, CancelTest, CancelStore
  <2>2. /\ \A o \in Operations : opState[o] # "none" => opState'[o] # "none"
        /\ \A o \in Operations :
              opState[o] \in {"SUCCESS", "FAILED"} /\ ready # o => opState'[o] = opState[o] /\ ready' # o
    <3> SUFFICES ASSUME NEW o \in Operations
                 PROVE  /\ opState[o] # "none" => opState'[o] # "none"
                        /\ opState[o] \in {"SUCCESS", "FAILED"} /\ ready # o =>
                             opState'[o] = opState[o] /\ ready' # o
      OBVIOUS
    <3>0. opState \in [Operations -> OperationStates] /\ o # NoOp
      BY <1>0, AsyncAssumption DEF AsyncInv, AsyncType
    <3>1. ASSUME NEW a \in AsyncWorkers, TakeOperation(a) \/ TestCancelled(a) \/ Work(a)
          PROVE  opState' = opState /\ ready' = ready
      BY <3>1 DEF TakeOperation, TestCancelled, Work
    <3>2. ASSUME NEW a \in AsyncWorkers, StartExecuting(a) \/ FinishExecuting(a)
          PROVE  /\ ready' = ready
                 /\ opState'[o] # "none" \/ opState'[o] = opState[o]
                 /\ opState[o] \in {"SUCCESS", "FAILED"} => opState'[o] = opState[o]
      <4>1. asyncPc[a] \in {"start", "finish"} /\ UNCHANGED ready
            /\ \E s \in {"EXECUTING", "SUCCESS", "FAILED"} :
                  opState' = [opState EXCEPT ![asyncOp[a]] = s]
        BY <3>2 DEF StartExecuting, FinishExecuting
      <4>2. asyncOp[a] \in Operations /\ opState[asyncOp[a]] \notin {"SUCCESS", "FAILED"}
        BY <1>0, <4>1, Held DEF AsyncInv, Progress
      <4> QED
        BY <3>0, <4>1, <4>2
    <3>3. CASE Close \/ BeginCancel \/ EndCancel \/ NotifyWorkers \/ JoinWorkers
      BY <3>3 DEF Close, BeginCancel, EndCancel, NotifyWorkers, JoinWorkers
    <3>4. ASSUME NEW p \in Operations, CancelTest(p)
          PROVE  UNCHANGED opState /\ (opState[o] \in {"SUCCESS", "FAILED"} => ready' # o)
      BY <3>0, <3>4 DEF CancelTest
    <3>5. CASE CancelStore
      BY <3>0, <3>5 DEF CancelStore
    <3> QED
      BY <3>1, <3>2, <3>3, <3>4, <3>5
  <2> QED
    BY <1>0, <2>1, <2>2, HandlerAsync
<1> QED
  BY <1>1, <1>2, <1>3 DEF IInv

(* A step of a handler. *)
LEMMA HandlerOnly ==
    ASSUME IInv, NEW w \in HttpWorkers,
           \/ HandleOther(w) \/ HandleSend(w) \/ CollectBegin(w) \/ CollectPop(w) \/ CollectEnd(w)
           \/ \E o \in Operations : CollectVisit(w, o)
    PROVE  IInv'
<1>0. HttpInv /\ AsyncInv /\ HandlerInv
  BY DEF IInv
<1>1. UNCHANGED asyncVars => AsyncInv'
  BY <1>0 DEF AsyncInv, AsyncType, Owned, Progress, Closing, asyncVars
<1>2. CASE HandleOther(w)
  <2>1. HttpInv'
    BY <1>0, <1>2, ReturnHttp DEF HandleOther, Handling
  <2>2. \A v \in HttpWorkers : workerPc[v] = "handling" => workerPc'[v] = "handling" \/ wallet # v
    BY <1>0, <1>2 DEF HandleOther, HandlerReturns, HttpInv, HttpType
  <2> QED
    BY <1>2, <2>1, <2>2, HttpOnly DEF HandleOther
<1>3. CASE HandleSend(w)
  <2>1. HttpInv' /\ AsyncInv'
    BY <1>0, <1>3, ReturnHttp, AddAsync DEF HandleSend, Handling
  <2> QED
    BY <1>3, <2>1, SendHandler DEF IInv
<1>4. CASE CollectBegin(w)
  BY <1>0, <1>1, <1>4, HttpUnchanged, BeginHandler DEF CollectBegin, IInv
<1>5. CASE CollectPop(w)
  <2>1. status[w].op \in Operations
    BY <1>0, <1>5 DEF CollectPop, HandlerInv, Locked
  <2> QED
    BY <1>0, <1>5, <2>1, HttpUnchanged, PopAsync, PopHandler DEF CollectPop, IInv
<1>6. CASE CollectEnd(w)
  <2>1. HandlerInv' /\ workerPc[w] = "handling"
    BY <1>6, EndHandler
  <2> QED
    BY <1>0, <1>1, <1>6, <2>1, ReturnHttp DEF CollectEnd, IInv
<1>7. ASSUME NEW o \in Operations, CollectVisit(w, o)
      PROVE  IInv'
  <2>1. HandlerInv'
    BY <1>7, VisitHandler
  <2> QED
    BY <1>0, <1>1, <1>7, <2>1, HttpUnchanged DEF CollectVisit, IInv
<1> QED
  BY <1>2, <1>3, <1>4, <1>5, <1>6, <1>7

(* A step of the event thread, of a worker outside its handler, or of the *)
(* main thread in the HTTP server.                                        *)
LEMMA HttpSteps ==
    ASSUME IInv, UNCHANGED <<asyncVars, handlerVars>>,
           \/ \E r \in Requests : Receive(r) \/ SendReply(r)
           \/ RefuseRequest \/ Enqueue \/ EventThreadExit
           \/ \E w \in HttpWorkers : StartWorker(w) \/ TakeItem(w) \/ EndWorker(w)
           \/ RejectRequests \/ InterruptQueue \/ WaitExit \/ DeleteQueue
           \/ LoopExit \/ LoopBreak \/ JoinEventThread
    PROVE  IInv'
<1>0. HttpInv /\ workerPc \in [HttpWorkers -> WorkerStates]
  BY DEF IInv, HttpInv, HttpType
<1>1. ASSUME NEW w \in HttpWorkers, StartWorker(w) \/ TakeItem(w) \/ EndWorker(w)
      PROVE  IInv'
  <2>1. HttpInv'
    BY <1>0, <1>1, StartHttp, TakeHttp, EndHttp
  <2>2. \A v \in HttpWorkers : workerPc[v] = "handling" => workerPc'[v] = "handling"
    BY <1>0, <1>1 DEF StartWorker, TakeItem, EndWorker
  <2> QED
    BY <2>1, <2>2, HttpOnly
<1>2. CASE \/ \E r \in Requests : Receive(r) \/ SendReply(r)
           \/ RefuseRequest \/ Enqueue \/ EventThreadExit
           \/ RejectRequests \/ InterruptQueue \/ WaitExit \/ DeleteQueue
           \/ LoopExit \/ LoopBreak \/ JoinEventThread
  <2>1. HttpInv'
    BY <1>0, <1>2, ReceiveHttp, RefuseHttp, ReplyHttp, InterruptHttp, WaitHttp, DeleteHttp, LoopHttp
  <2>2. UNCHANGED workerPc
    BY <1>2 DEF Receive, SendReply, RefuseRequest, Enqueue, EventThreadExit, RejectRequests,
                InterruptQueue, WaitExit, DeleteQueue, LoopExit, LoopBreak, JoinEventThread
  <2> QED
    BY <2>1, <2>2, HttpOnly
<1> QED
  BY <1>1, <1>2

(* Every step. *)
LEMMA NextInv == IInv /\ [Next]_vars => IInv'
<1> SUFFICES ASSUME IInv, [Next]_vars PROVE IInv'
  OBVIOUS
<1>1. CASE UNCHANGED vars
  <2>1. UNCHANGED <<asyncVars, handlerVars>> /\ UNCHANGED httpVars
    BY <1>1 DEF vars
  <2>2. HttpInv' /\ UNCHANGED workerPc
    BY <2>1, HttpUnchanged DEF IInv, httpVars
  <2> QED
    BY <2>1, <2>2, HttpOnly
<1>2. CASE Environment
  BY <1>2, HttpSteps DEF Environment, HttpStep
<1>3. CASE EventThread
  BY <1>3, HttpSteps DEF EventThread, HttpStep
<1>4. ASSUME NEW w \in HttpWorkers, HttpWorker(w)
      PROVE  IInv'
  BY <1>4, HttpSteps, HandlerOnly DEF HttpWorker, HttpStep
<1>5. ASSUME NEW a \in AsyncWorkers, AsyncWorker(a)
      PROVE  IInv'
  BY <1>5, AsyncOnly DEF AsyncWorker, AsyncStep
<1>6. CASE MainThread
  BY <1>6, HttpSteps, AsyncOnly DEF MainThread, HttpStep, AsyncStep
<1> QED
  BY <1>1, <1>2, <1>3, <1>4, <1>5, <1>6 DEF Next

(* The inductive invariant holds in every reachable state. *)
THEOREM Invariance == Spec => []IInv
<1> QED
  BY InitInv, NextInv, PTL DEF Spec

(* Every variable keeps its type: the queue stays within its depth, and    *)
(* the count of threads within the threads there are.                      *)
THEOREM TypeCorrect == Spec => []TypeOK
<1>1. IInv => TypeOK
  BY LiveFacts DEF IInv, HttpInv, AsyncInv, HandlerInv, HttpType, AsyncType, HandlerType, TypeOK
<1> QED
  BY <1>1, Invariance, PTL

(* The work queue is deleted only when every worker that ran before the    *)
(* stop has left WorkQueue::Run and no other holds a request, whatever     *)
(* threads start late and whatever callback is half-way.                   *)
THEOREM QueueIsOutlived == Spec => []QueueOutlivesThreads
<1>1. IInv => QueueOutlivesThreads
  BY HttpAssumption DEF IInv, HttpInv, Stopping, QueueOutlivesThreads
<1> QED
  BY <1>1, Invariance, PTL

(* When the server has stopped, every request that a client got through    *)
(* has been answered, but for the one, at most, whose callback was         *)
(* half-way when the queue was deleted.                                    *)
THEOREM NobodyIsStranded == Spec => []NoRequestStranded
<1>1. IInv => NoRequestStranded
  <2> SUFFICES ASSUME IInv, mainPc = "stopped"
               PROVE  /\ \A r \in Requests : request[r] \in {"idle", "sent", "posted", "lost"}
                      /\ Cardinality({r \in Requests : request[r] = "lost"}) <= 1
    BY DEF NoRequestStranded
  <2>1. callback = None /\ queue = <<>> /\ \A w \in HttpWorkers : workerPc[w] # "handling"
    BY DEF IInv, HttpInv, Stopping
  <2>2. Range(queue) = {}
    BY <2>1 DEF Range
  <2>3. ASSUME NEW r \in Requests
        PROVE  request[r] \in {"idle", "sent", "posted", "lost"}
    <3>1. request[r] \notin {"callback", "queued", "handling"}
      BY <2>1, <2>2, HttpAssumption DEF IInv, HttpInv, Traced
    <3> QED
      BY <3>1 DEF IInv, HttpInv, HttpType, RequestStates
  <2>4. Cardinality({r \in Requests : request[r] = "lost"}) <= 1
    <3> DEFINE L == {r \in Requests : request[r] = "lost"}
    <3>1. \A r, s \in L : r = s
      BY DEF IInv, HttpInv, Lost
    <3>2. CASE L = {}
      BY <3>2, FS_EmptySet
    <3>3. ASSUME NEW r \in L
          PROVE  Cardinality(L) = 1
      <4>1. L = {r}
        BY <3>1
      <4> QED
        BY <4>1, FS_Singleton
    <3> QED
      BY <3>2, <3>3
  <2> QED
    BY <2>3, <2>4
<1> QED
  BY <1>1, Invariance, PTL

(* z_getoperationresult reports an operation at most once, however many    *)
(* requests collect at the same time.                                      *)
THEOREM DeliveryIsOnce == Spec => []ResultDeliveredOnce
<1>1. IInv => ResultDeliveredOnce
  <2> SUFFICES ASSUME IInv, NEW o \in Operations PROVE Len(delivered[o]) <= 1
    BY DEF ResultDeliveredOnce
  <2>1. CASE delivered[o] = <<>>
    BY <2>1
  <2>2. CASE delivered[o] # <<>>
    BY <2>2 DEF IInv, HandlerInv, Delivered
  <2> QED
    BY <2>1, <2>2
<1> QED
  BY <1>1, Invariance, PTL

(* A reported success or failure is final, and the work was done once,     *)
(* although cancel() tests and stores without a lock that the workers take. *)
THEOREM ReportIsFinal == Spec => []ReportedIsDone
<1>1. IInv => ReportedIsDone
  BY DEF IInv, HandlerInv, Delivered, AsyncInv, Progress, ReportedIsDone
<1> QED
  BY <1>1, Invariance, PTL

(* After closeAndWait no worker holds an operation, and every operation    *)
(* the queue accepted has ended.                                           *)
THEOREM CloseIsQuiet == Spec => []ClosedIsQuiet
<1>1. IInv => ClosedIsQuiet
  <2> SUFFICES ASSUME IInv, closer = "joined"
               PROVE  /\ \A a \in AsyncWorkers : asyncOp[a] = NoOp
                      /\ \A o \in opMap : opState[o] \in FinalStates
    BY DEF ClosedIsQuiet
  <2>1. /\ \A a \in AsyncWorkers : asyncPc[a] = "exited"
        /\ toCancel = {} /\ ready = NoOp
        /\ \A o \in opMap : o = ready \/ opState[o] # "READY"
    BY DEF IInv, AsyncInv, Closing
  <2>2. \A a \in AsyncWorkers : asyncOp[a] = NoOp
    BY <2>1 DEF IInv, AsyncInv, Owned
  <2>3. \A o \in opMap : o \in Operations /\ o # NoOp /\ opState[o] \in OperationStates
    BY AsyncAssumption DEF IInv, AsyncInv, AsyncType
  <2>4. \A o \in opMap : opState[o] \notin {"none", "READY", "EXECUTING"}
    BY <2>1, <2>3 DEF IInv, AsyncInv, Progress
  <2> QED
    BY <2>2, <2>3, <2>4 DEF OperationStates, FinalStates
<1> QED
  BY <1>1, Invariance, PTL

=============================================================================
