----------------------------- MODULE CheckQueue -----------------------------
(***************************************************************************)
(* The parallel script-verification queue CCheckQueue<CScriptCheck> and    *)
(* its RAII controller CCheckQueueControl (src/checkqueue.h), used by      *)
(* ConnectBlock (src/main.cpp).  Worker threads run Loop(false) for ever;  *)
(* the thread that connects a block (the master, serialised by cs_main)    *)
(* opens a control object, adds batches of checks and then joins the pool  *)
(* with Loop(true) until everything is verified.                           *)
(*                                                                         *)
(* One action is one critical section of CCheckQueue::mutex.  The checks   *)
(* of a batch run outside the mutex on thread-local data only, so running  *)
(* them is folded into the critical section that follows.                  *)
(***************************************************************************)
EXTENDS Naturals, FiniteSets

CONSTANTS
    Workers,    \* the threads created by init.cpp, running CCheckQueue::Thread
    Master,     \* whichever thread holds cs_main and connects a block
    Checks,     \* the script checks a block can contain
    Bad,        \* the checks whose operator() returns false
    BatchSize   \* nBatchSize (128 for the scriptcheckqueue)

ASSUME CheckQueueAssumption ==
    /\ Master \notin Workers
    /\ IsFiniteSet(Workers)
    /\ IsFiniteSet(Checks)
    /\ Bad \subseteq Checks
    /\ BatchSize \in Nat

Threads == Workers \cup {Master}

VARIABLES
    pc,          \* where each thread is
    queue,       \* checks still queued (the LIFO order never matters)
    batch,       \* vChecks of each thread: taken from queue, not yet counted
    fOk,         \* the thread-local result of each thread
    nIdle,       \* threads counted as blocked in cond.wait
    nTotal,      \* threads counted as inside Loop
    fAllOk,      \* the running conjunction of the results
    nTodo,       \* checks not yet counted as completed
    fDone,       \* CCheckQueueControl::fDone would be set by the current Wait
    interrupted, \* threads with a pending boost interruption request
    shutdown,    \* threadGroup.interrupt_all() has been called
    added,       \* history: every check added through the current control
    verdict      \* history: what the last CCheckQueueControl::Wait returned

vars == <<pc, queue, batch, fOk, nIdle, nTotal, fAllOk, nTodo, fDone,
          interrupted, shutdown, added, verdict>>

(* Master: "out" no control object; "open" control object alive, adding;   *)
(* "start" has called Wait.  "terminated": the process is gone.            *)
WorkerPC == {"start", "waiting", "woken", "run", "dead"}
MasterPC == {"out", "open", "start", "waiting", "woken", "run", "terminated"}

Alive == pc[Master] # "terminated"

Init ==
    /\ pc = [t \in Threads |-> IF t = Master THEN "out" ELSE "start"]
    /\ queue = {}
    /\ batch = [t \in Threads |-> {}]
    /\ fOk = [t \in Threads |-> TRUE]
    /\ nIdle = 0 /\ nTotal = 0 /\ fAllOk = TRUE /\ nTodo = 0
    /\ fDone = FALSE
    /\ interrupted = {} /\ shutdown = FALSE
    /\ added = {} /\ verdict = "none"

IsIdle == nTotal = nIdle /\ nTodo = 0 /\ fAllOk

Smaller(a, b) == IF a < b THEN a ELSE b
Larger(a, b) == IF a < b THEN b ELSE a

(* How many work units a thread takes: max(1, min(nBatchSize, share)).     *)
NNow(size, total, idle) == Larger(1, Smaller(BatchSize, size \div (total + idle + 1)))

-----------------------------------------------------------------------------
(* The part of Loop from "logically, the do loop starts here" until the    *)
(* mutex is released again, entered by thread t with the pcs, fAllOk,      *)
(* nTodo, nTotal and nIdle that the code before it left.                   *)

TakeBatch(t, pcs, ok, todo, total, idle) ==
    /\ queue # {}
    /\ \E b \in SUBSET queue :
          /\ Cardinality(b) = NNow(Cardinality(queue), total, idle)
          /\ queue' = queue \ b
          /\ batch' = [batch EXCEPT ![t] = b]
    /\ fOk' = [fOk EXCEPT ![t] = ok]
    /\ pc' = [pcs EXCEPT ![t] = "run"]
    /\ fAllOk' = ok /\ nTodo' = todo /\ nTotal' = total /\ nIdle' = idle
    /\ UNCHANGED <<fDone, verdict>>

(* Mutant: the master returns as soon as the queue is empty, while batches *)
(* are still being verified.                                               *)
MasterReturnsEarly(t, pcs, ok, todo, total, idle) ==
    /\ queue = {} /\ t = Master
    /\ nTotal' = total - 1
    /\ fAllOk' = TRUE
    /\ verdict' = IF ~fDone THEN "none" ELSE IF ok THEN "valid" ELSE "invalid"
    /\ fDone' = FALSE
    /\ pc' = [pcs EXCEPT ![t] = "out"]
    /\ batch' = [batch EXCEPT ![t] = {}]
    /\ nTodo' = todo /\ nIdle' = idle
    /\ UNCHANGED <<queue, fOk>>

(* The master leaves Loop; if fDone, ConnectBlock sees the result, else    *)
(* ~CCheckQueueControl discards it.                                        *)
MasterReturns(t, pcs, ok, todo, total, idle) ==
    /\ queue = {} /\ t = Master /\ todo = 0
    /\ nTotal' = total - 1
    /\ fAllOk' = TRUE
    /\ verdict' = IF ~fDone THEN "none" ELSE IF ok THEN "valid" ELSE "invalid"
    /\ fDone' = FALSE
    /\ pc' = [pcs EXCEPT ![t] = "out"]
    /\ batch' = [batch EXCEPT ![t] = {}]
    /\ nTodo' = todo /\ nIdle' = idle
    /\ UNCHANGED <<queue, fOk>>

Sleep(t, pcs, ok, todo, total, idle) ==
    /\ queue = {} /\ ~(t = Master /\ todo = 0)
    /\ nIdle' = idle + 1
    /\ pc' = [pcs EXCEPT ![t] = "waiting"]
    /\ batch' = [batch EXCEPT ![t] = {}]
    /\ fAllOk' = ok /\ nTodo' = todo /\ nTotal' = total
    /\ UNCHANGED <<queue, fOk, fDone, verdict>>

LoopTop(t, pcs, ok, todo, total, idle) ==
    /\ \/ TakeBatch(t, pcs, ok, todo, total, idle)
       \/ MasterReturns(t, pcs, ok, todo, total, idle)
       \/ Sleep(t, pcs, ok, todo, total, idle)
    /\ UNCHANGED <<interrupted, shutdown, added>>

-----------------------------------------------------------------------------
(* Mutant: a thread enters the loop without counting itself in nTotal. *)
EnterUncounted(t) ==
    /\ Alive /\ pc[t] = "start"
    /\ LoopTop(t, pc, fAllOk, nTodo, nTotal, nIdle)

(* First iteration of Loop. *)
Enter(t) ==
    /\ Alive /\ pc[t] = "start"
    /\ LoopTop(t, pc, fAllOk, nTodo, nTotal + 1, nIdle)

Woken(S, pcs) == [t \in Threads |-> IF t \in S /\ pcs[t] = "waiting" THEN "woken" ELSE pcs[t]]

(* Mutants: the result overwrites fAllOk; the master is not notified. *)
FinishOverwrites(t) ==
    /\ Alive /\ pc[t] = "run"
    /\ LET ok == fOk[t] /\ batch[t] \cap Bad = {}
           todo == nTodo - Cardinality(batch[t])
           notified == IF todo = 0 /\ t # Master THEN {Master} ELSE {}
       IN LoopTop(t, Woken(notified, pc), ok, todo, nTotal, nIdle)

FinishSilent(t) ==
    /\ Alive /\ pc[t] = "run"
    /\ LET ok == fAllOk /\ fOk[t] /\ batch[t] \cap Bad = {}
           todo == nTodo - Cardinality(batch[t])
       IN LoopTop(t, pc, ok, todo, nTotal, nIdle)

(* Run the batch (a check is skipped once fOk is false), then the clean-up *)
(* of the loop run, which wakes the master when nothing is left.           *)
Finish(t) ==
    /\ Alive /\ pc[t] = "run"
    /\ LET ok == fAllOk /\ fOk[t] /\ batch[t] \cap Bad = {}
           todo == nTodo - Cardinality(batch[t])
           notified == IF todo = 0 /\ t # Master THEN {Master} ELSE {}
       IN LoopTop(t, Woken(notified, pc), ok, todo, nTotal, nIdle)

(* cond.wait returns because of a notification, or spuriously. *)
Wake(t) ==
    /\ Alive /\ pc[t] = "woken" /\ t \notin interrupted
    /\ LoopTop(t, pc, fAllOk, nTodo, nTotal, nIdle - 1)

SpuriousWakeup(t) ==
    /\ Alive /\ pc[t] = "waiting"
    /\ pc' = [pc EXCEPT ![t] = "woken"]
    /\ UNCHANGED <<queue, batch, fOk, nIdle, nTotal, fAllOk, nTodo, fDone,
                   interrupted, shutdown, added, verdict>>

-----------------------------------------------------------------------------
(* CCheckQueueControl: the constructor asserts IsIdle, which is an         *)
(* invariant below (ControlFindsIdle), so it is no guard here.             *)
OpenControl ==
    /\ Alive /\ pc[Master] = "out"
    /\ pc' = [pc EXCEPT ![Master] = "open"]
    /\ added' = {} /\ verdict' = "none"
    /\ UNCHANGED <<queue, batch, fOk, nIdle, nTotal, fAllOk, nTodo, fDone,
                   interrupted, shutdown>>

(* notify_one wakes some waiting worker if there is one, for a single      *)
(* check; notify_all wakes all of them.                                    *)
Waiting == {w \in Workers : pc[w] = "waiting"}

Notified(S) ==
    CASE S = {} -> {{}}
      [] Cardinality(S) = 1 -> IF Waiting = {} THEN {{}} ELSE {{w} : w \in Waiting}
      [] OTHER -> {Waiting}

(* Mutant: nTodo counts calls of Add rather than checks. *)
AddUncounted(S) ==
    /\ Alive /\ pc[Master] = "open"
    /\ S \cap added = {}
    /\ queue' = queue \cup S
    /\ nTodo' = nTodo + 1
    /\ \E N \in Notified(S) : pc' = Woken(N, pc)
    /\ added' = added \cup S
    /\ UNCHANGED <<batch, fOk, nIdle, nTotal, fAllOk, fDone, interrupted,
                   shutdown, verdict>>

Add(S) ==
    /\ Alive /\ pc[Master] = "open"
    /\ S \cap added = {}
    /\ queue' = queue \cup S
    /\ nTodo' = nTodo + Cardinality(S)
    /\ \E N \in Notified(S) : pc' = Woken(N, pc)
    /\ added' = added \cup S
    /\ UNCHANGED <<batch, fOk, nIdle, nTotal, fAllOk, fDone, interrupted,
                   shutdown, verdict>>

(* ConnectBlock reaches control.Wait() (done = TRUE), or returns early and *)
(* the destructor waits for the workers (done = FALSE).                    *)
CallWait(done) ==
    /\ Alive /\ pc[Master] = "open"
    /\ pc' = [pc EXCEPT ![Master] = "start"]
    /\ fDone' = done
    /\ UNCHANGED <<queue, batch, fOk, nIdle, nTotal, fAllOk, nTodo,
                   interrupted, shutdown, added, verdict>>

-----------------------------------------------------------------------------
(* Shutdown: threadGroup.interrupt_all().  The script-check threads are in *)
(* the group; the master is when it is the message handler or importer.    *)
InterruptAll ==
    /\ Alive /\ ~shutdown
    /\ shutdown' = TRUE
    /\ interrupted' \in {Workers, Threads}
    /\ UNCHANGED <<pc, queue, batch, fOk, nIdle, nTotal, fAllOk, nTodo,
                   fDone, added, verdict>>

(* cond.wait is an interruption point: it throws thread_interrupted and    *)
(* the counters keep the thread that is gone.  A master inside             *)
(* control.Wait() unwinds into ~CCheckQueueControl, which calls Wait       *)
(* again; inside the destructor the exception ends the process (noexcept). *)
Thrown(t) ==
    /\ Alive /\ pc[t] \in {"waiting", "woken"} /\ t \in interrupted
    /\ interrupted' = interrupted \ {t}
    /\ pc' = [pc EXCEPT ![t] = IF t # Master THEN "dead"
                               ELSE IF fDone THEN "start" ELSE "terminated"]
    /\ fDone' = IF t = Master THEN FALSE ELSE fDone
    /\ UNCHANGED <<queue, batch, fOk, nIdle, nTotal, fAllOk, nTodo,
                   shutdown, added, verdict>>

Loop(t) == Enter(t) \/ Finish(t) \/ Wake(t) \/ Thrown(t)

Next ==
    \/ \E t \in Threads : Loop(t) \/ SpuriousWakeup(t)
    \/ OpenControl
    \/ \E S \in SUBSET Checks : Add(S)
    \/ \E done \in BOOLEAN : CallWait(done)
    \/ InterruptAll

(* A thread that can run in Loop eventually does; nothing obliges the      *)
(* master to open a control, to add checks, or the node to shut down.      *)
Spec == Init /\ [][Next]_vars /\ \A t \in Threads : WF_vars(Loop(t))

-----------------------------------------------------------------------------
(* Properties *)

(* Types; the counters that Loop decrements never go below zero. *)
TypeOK ==
    /\ pc \in [Threads -> WorkerPC \cup MasterPC]
    /\ queue \subseteq Checks /\ added \subseteq Checks
    /\ batch \in [Threads -> SUBSET Checks]
    /\ fOk \in [Threads -> BOOLEAN]
    /\ nIdle \in Nat /\ nTotal \in Nat /\ nTodo \in Nat
    /\ fAllOk \in BOOLEAN /\ fDone \in BOOLEAN /\ shutdown \in BOOLEAN
    /\ interrupted \subseteq Threads
    /\ verdict \in {"none", "valid", "invalid"}

Running == {t \in Threads : pc[t] = "run"}

(* Checks taken or queued, and not yet counted in a result. *)
Outstanding == queue \cup UNION {batch[t] : t \in Threads}

(* What ConnectBlock acts on: control.Wait() returned true exactly when    *)
(* every check added through this control succeeds, whatever the workers'  *)
(* interleaving, skipping of checks, wake-ups and interruptions.           *)
VerdictCorrect ==
    verdict # "none" => (verdict = "valid" <=> added \cap Bad = {})

(* The assertion of CCheckQueueControl's constructor: whenever no control  *)
(* object is alive the queue IsIdle, so the next block's assert holds; and *)
(* the RAII promise: no check of the finished block, which would point     *)
(* into ConnectBlock's dead frame, is still queued or in a batch.          *)
ControlFindsIdle ==
    pc[Master] = "out" => IsIdle /\ Outstanding = {}

(* nTodo counts exactly the checks that are queued or in some batch.       *)
TodoExact == nTodo = Cardinality(Outstanding)

(* A master blocked on condMaster has been notified already or is owed a   *)
(* notification by a worker that still runs: the wake-up is never lost.    *)
WakeupOwed ==
    pc[Master] = "waiting" => \E w \in Workers : pc[w] = "run"

(* Every Wait returns (or the process ends): the block is never stuck in   *)
(* verification, even after all workers were interrupted.                  *)
WaitReturns ==
    pc[Master] = "start" ~> pc[Master] \in {"out", "terminated"}
=============================================================================
