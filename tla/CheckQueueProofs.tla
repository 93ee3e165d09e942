-------------------------- MODULE CheckQueueProofs --------------------------
(***************************************************************************)
(* Proofs about CheckQueue, for any number of workers, checks and any      *)
(* batch size.                                                             *)
(*                                                                         *)
(* None of the properties is inductive: VerdictCorrect needs to know what  *)
(* fAllOk says of the checks still in flight, and that needs nTodo to be   *)
(* exact.  IInv collects this.  LoopPre is the same invariant as it stands *)
(* in the middle of a critical section of Loop, where thread t has given   *)
(* up its batch and has not decided yet what it does next: every action    *)
(* that enters LoopTop establishes LoopPre, and LoopTop turns it into IInv *)
(* again.                                                                  *)
(***************************************************************************)
EXTENDS CheckQueue, FiniteSetTheorems, TLAPS

Blocked == {t \in Threads : pc[t] \in {"waiting", "woken"}}

(* A check is in one place only, and a thread holds some iff it runs. *)
Placement ==
    /\ \A t \in Threads : batch[t] \cap queue = {}
    /\ \A t, u \in Threads : t # u => batch[t] \cap batch[u] = {}
    /\ \A t \in Threads : pc[t] = "run" <=> batch[t] # {}
    /\ Outstanding \subseteq added

(* Each blocked thread is counted in nIdle (interrupted ones stay counted),*)
(* and nTotal exceeds nIdle by the threads that run.                       *)
Counters ==
    /\ nTotal = nIdle + Cardinality(Running)
    /\ Cardinality(Blocked) <= nIdle

(* What fAllOk and the thread-local fOk say of the checks already counted, *)
(* until the master has left and reset fAllOk for the next block.          *)
Results ==
    /\ pc[Master] # "out" /\ fAllOk => (added \ Outstanding) \cap Bad = {}
    /\ ~fAllOk => added \cap Bad # {}
    /\ \A t \in Threads : pc[t] = "run" /\ fAllOk => fOk[t]

(* Where the master can be, given what is left to do. *)
MasterState ==
    /\ \A w \in Workers : pc[w] \in WorkerPC
    /\ pc[Master] = "out" => nTodo = 0 /\ fAllOk
    /\ pc[Master] = "waiting" => queue = {} /\ nTodo # 0
    /\ verdict # "none" => pc[Master] = "out"

IInv == TypeOK /\ Placement /\ TodoExact /\ Counters /\ Results /\ MasterState /\ VerdictCorrect

-----------------------------------------------------------------------------
Others(t) == Threads \ {t}

OutBut(t) == queue \cup UNION {batch[u] : u \in Others(t)}

LoopPre(t, pcs, ok, todo, total, idle) ==
    /\ TypeOK
    /\ t \in Threads
    /\ pcs \in [Threads -> WorkerPC \cup MasterPC]
    /\ ok \in BOOLEAN /\ todo \in Nat /\ total \in Nat /\ idle \in Nat
    /\ \A u \in Threads : batch[u] \cap queue = {}
    /\ \A u, v \in Threads : u # v => batch[u] \cap batch[v] = {}
    /\ \A u \in Others(t) : pcs[u] = "run" <=> batch[u] # {}
    /\ OutBut(t) \subseteq added
    /\ todo = Cardinality(OutBut(t))
    /\ total = idle + Cardinality({u \in Others(t) : pcs[u] = "run"}) + 1
    /\ Cardinality({u \in Others(t) : pcs[u] \in {"waiting", "woken"}}) <= idle
    /\ (t = Master \/ pcs[Master] # "out") /\ ok => (added \ OutBut(t)) \cap Bad = {}
    /\ ~ok => added \cap Bad # {}
    /\ \A u \in Others(t) : pcs[u] = "run" /\ ok => fOk[u]
    /\ \A w \in Workers \ {t} : pcs[w] \in WorkerPC
    /\ t # Master =>
          /\ pcs[Master] = "out" => todo = 0 /\ ok /\ queue = {}
          /\ pcs[Master] = "waiting" => queue = {} /\ todo # 0
          /\ verdict # "none" => pcs[Master] = "out"
    /\ t = Master => verdict = "none"
    /\ VerdictCorrect

USE CheckQueueAssumption

(* The sets whose cardinalities the counters track are finite. *)
LEMMA ThreadsFinite == IsFiniteSet(Threads) /\ \A S \in SUBSET Threads : IsFiniteSet(S)
<1>1. IsFiniteSet(Threads)
  BY FS_AddElement DEF Threads
<1> QED
  BY <1>1, FS_Subset

(* Every set of checks is finite. *)
LEMMA ChecksFinite == \A S \in SUBSET Checks : IsFiniteSet(S) /\ Cardinality(S) \in Nat
BY FS_Subset, FS_CardinalityType

(* TakeBatch takes at least one check. *)
LEMMA NNowPositive ==
  ASSUME NEW size \in Nat, NEW total \in Nat, NEW idle \in Nat
  PROVE  NNow(size, total, idle) # 0
<1>1. PICK d \in Int : d = size \div (total + idle + 1)
  OBVIOUS
<1> QED
  BY <1>1 DEF NNow, Larger, Smaller

(* A batch taken from the queue moves checks between places and leaves the *)
(* set of outstanding checks as it is.                                     *)
LEMMA TakeBatchInv ==
  ASSUME NEW t, NEW pcs, NEW ok, NEW todo, NEW total, NEW idle,
         LoopPre(t, pcs, ok, todo, total, idle),
         TakeBatch(t, pcs, ok, todo, total, idle),
         UNCHANGED <<interrupted, shutdown, added>>
  PROVE  IInv'
<1> USE DEF LoopPre
<1>0. t \in Threads
  OBVIOUS
<1>1. PICK b \in SUBSET queue :
         /\ Cardinality(b) = NNow(Cardinality(queue), total, idle)
         /\ queue' = queue \ b
         /\ batch' = [batch EXCEPT ![t] = b]
  BY DEF TakeBatch
<1>2. b # {}
  <2>1. Cardinality(queue) \in Nat
    BY ChecksFinite DEF TypeOK
  <2> QED
    BY <1>1, <2>1, NNowPositive, FS_EmptySet
<1>3. /\ fOk' = [fOk EXCEPT ![t] = ok] /\ pc' = [pcs EXCEPT ![t] = "run"]
      /\ fAllOk' = ok /\ nTodo' = todo /\ nTotal' = total /\ nIdle' = idle
      /\ fDone' = fDone /\ verdict' = verdict /\ added' = added
      /\ interrupted' = interrupted /\ shutdown' = shutdown
  BY DEF TakeBatch
<1>4. TypeOK'
  BY <1>1, <1>3 DEF TypeOK, WorkerPC
<1>5. Outstanding' = OutBut(t)
  <2>1. \A u \in Others(t) : batch'[u] = batch[u]
    BY <1>1 DEF TypeOK, Others
  <2>2. batch'[t] = b
    BY <1>1 DEF TypeOK
  <2>3. Threads = Others(t) \cup {t}
    BY DEF Others
  <2>4. UNION {batch'[u] : u \in Threads} = b \cup UNION {batch[u] : u \in Others(t)}
    BY <2>1, <2>2, <2>3
  <2> QED
    BY <1>1, <2>4 DEF Outstanding, OutBut
<1>6. Placement'
  BY <1>1, <1>2, <1>3, <1>5 DEF Placement, TypeOK, Others
<1>7. TodoExact'
  BY <1>3, <1>5 DEF TodoExact
<1>8. Counters'
  <2>1. Running' = {u \in Others(t) : pcs[u] = "run"} \cup {t}
    BY <1>3 DEF Running, Others
  <2>2. Blocked' = {u \in Others(t) : pcs[u] \in {"waiting", "woken"}}
    BY <1>3 DEF Blocked, Others
  <2>3. Cardinality(Running') = Cardinality({u \in Others(t) : pcs[u] = "run"}) + 1
    BY <2>1, ThreadsFinite, FS_AddElement DEF Others
  <2>4. Cardinality({u \in Others(t) : pcs[u] = "run"}) \in Nat
    BY ThreadsFinite, FS_CardinalityType DEF Others
  <2> QED
    BY <1>3, <2>2, <2>3, <2>4 DEF Counters
<1>9. Results'
  BY <1>1, <1>3, <1>5 DEF Results, TypeOK, Others, Threads
<1>10. MasterState'
  BY <1>1, <1>2, <1>3 DEF MasterState, Threads, WorkerPC
<1>11. VerdictCorrect'
  BY <1>3 DEF VerdictCorrect
<1> QED
  BY <1>4, <1>6, <1>7, <1>8, <1>9, <1>10, <1>11 DEF IInv

(* The master leaves with the right verdict: nothing is outstanding.      *)
LEMMA MasterReturnsInv ==
  ASSUME NEW t, NEW pcs, NEW ok, NEW todo, NEW total, NEW idle,
         LoopPre(t, pcs, ok, todo, total, idle),
         MasterReturns(t, pcs, ok, todo, total, idle),
         UNCHANGED <<interrupted, shutdown, added>>
  PROVE  IInv'
<1> USE DEF LoopPre
<1>0. t = Master /\ t \in Threads /\ todo = 0 /\ queue = {}
  BY DEF MasterReturns
<1>1. /\ queue' = queue /\ batch' = [batch EXCEPT ![t] = {}] /\ fOk' = fOk
      /\ pc' = [pcs EXCEPT ![t] = "out"]
      /\ fAllOk' = TRUE /\ nTodo' = todo /\ nTotal' = total - 1 /\ nIdle' = idle
      /\ fDone' = FALSE /\ added' = added
      /\ interrupted' = interrupted /\ shutdown' = shutdown
      /\ verdict' = IF ~fDone THEN "none" ELSE IF ok THEN "valid" ELSE "invalid"
  BY DEF MasterReturns
<1>2. Cardinality({u \in Others(t) : pcs[u] = "run"}) \in Nat
  BY ThreadsFinite, FS_CardinalityType DEF Others
<1>3. TypeOK'
  <2>1. verdict' \in {"none", "valid", "invalid"}
    BY <1>1
  <2>2. nTotal' \in Nat
    BY <1>1, <1>2
  <2>3. pc' \in [Threads -> WorkerPC \cup MasterPC]
    BY <1>1 DEF MasterPC
  <2>4. batch' \in [Threads -> SUBSET Checks]
    BY <1>1 DEF TypeOK
  <2> QED
    BY <1>1, <2>1, <2>2, <2>3, <2>4 DEF TypeOK
<1>4. OutBut(t) = {}
  <2>1. IsFiniteSet(OutBut(t))
    BY ChecksFinite DEF TypeOK
  <2> QED
    BY <1>0, <2>1, FS_EmptySet
<1>5. Outstanding' = OutBut(t)
  <2>1. \A u \in Others(t) : batch'[u] = batch[u]
    BY <1>1 DEF TypeOK, Others
  <2>2. batch'[t] = {}
    BY <1>0, <1>1 DEF TypeOK
  <2>3. Threads = Others(t) \cup {t}
    BY <1>0 DEF Others
  <2> QED
    BY <1>1, <2>1, <2>2, <2>3 DEF Outstanding, OutBut
<1>6. Placement'
  BY <1>0, <1>1, <1>5 DEF Placement, TypeOK, Others
<1>7. TodoExact'
  BY <1>1, <1>5 DEF TodoExact
<1>8. Counters'
  <2>1. Running' = {u \in Others(t) : pcs[u] = "run"}
    BY <1>0, <1>1 DEF Running, Others
  <2>2. Blocked' = {u \in Others(t) : pcs[u] \in {"waiting", "woken"}}
    BY <1>0, <1>1 DEF Blocked, Others
  <2> QED
    BY <1>1, <1>2, <2>1, <2>2 DEF Counters
<1>9. added \cap Bad = {} <=> ok
  BY <1>0, <1>4
<1>10. Results'
  <2>0. \A u \in Others(t) : batch[u] = {}
    BY <1>4 DEF OutBut
  <2>1. \A u \in Threads : pc'[u] # "run"
    BY <1>0, <1>1, <2>0 DEF Others
  <2> QED
    BY <1>0, <1>1, <2>1 DEF Results
<1>11. MasterState'
  BY <1>0, <1>1 DEF MasterState, Threads, WorkerPC
<1>12. VerdictCorrect'
  BY <1>1, <1>9 DEF VerdictCorrect
<1> QED
  BY <1>3, <1>6, <1>7, <1>8, <1>10, <1>11, <1>12 DEF IInv

(* A thread that finds nothing to do blocks, counted as idle. *)
LEMMA SleepInv ==
  ASSUME NEW t, NEW pcs, NEW ok, NEW todo, NEW total, NEW idle,
         LoopPre(t, pcs, ok, todo, total, idle),
         Sleep(t, pcs, ok, todo, total, idle),
         UNCHANGED <<interrupted, shutdown, added>>
  PROVE  IInv'
<1> USE DEF LoopPre
<1>0. t \in Threads /\ queue = {} /\ ~(t = Master /\ todo = 0)
  BY DEF Sleep
<1>1. /\ queue' = queue /\ batch' = [batch EXCEPT ![t] = {}] /\ fOk' = fOk
      /\ pc' = [pcs EXCEPT ![t] = "waiting"]
      /\ fAllOk' = ok /\ nTodo' = todo /\ nTotal' = total /\ nIdle' = idle + 1
      /\ fDone' = fDone /\ added' = added /\ verdict' = verdict
      /\ interrupted' = interrupted /\ shutdown' = shutdown
  BY DEF Sleep
<1>3. TypeOK'
  <2>1. pc' \in [Threads -> WorkerPC \cup MasterPC]
    BY <1>1 DEF MasterPC
  <2>2. batch' \in [Threads -> SUBSET Checks]
    BY <1>1 DEF TypeOK
  <2> QED
    BY <1>1, <2>1, <2>2 DEF TypeOK
<1>5. Outstanding' = OutBut(t)
  <2>1. \A u \in Others(t) : batch'[u] = batch[u]
    BY <1>1 DEF TypeOK, Others
  <2>2. batch'[t] = {}
    BY <1>0, <1>1 DEF TypeOK
  <2>3. Threads = Others(t) \cup {t}
    BY <1>0 DEF Others
  <2> QED
    BY <1>1, <2>1, <2>2, <2>3 DEF Outstanding, OutBut
<1>6. Placement'
  BY <1>0, <1>1, <1>5 DEF Placement, TypeOK, Others
<1>7. TodoExact'
  BY <1>1, <1>5 DEF TodoExact
<1>8. Counters'
  <2>1. Running' = {u \in Others(t) : pcs[u] = "run"}
    BY <1>0, <1>1 DEF Running, Others
  <2>2. Blocked' = {u \in Others(t) : pcs[u] \in {"waiting", "woken"}} \cup {t}
    BY <1>0, <1>1 DEF Blocked, Others
  <2>3. Cardinality(Blocked') = Cardinality({u \in Others(t) : pcs[u] \in {"waiting", "woken"}}) + 1
    BY <2>2, ThreadsFinite, FS_AddElement DEF Others
  <2>4. /\ Cardinality({u \in Others(t) : pcs[u] = "run"}) \in Nat
        /\ Cardinality({u \in Others(t) : pcs[u] \in {"waiting", "woken"}}) \in Nat
    BY ThreadsFinite, FS_CardinalityType DEF Others
  <2> QED
    BY <1>1, <2>1, <2>3, <2>4 DEF Counters
<1>9. Results'
  BY <1>0, <1>1, <1>5 DEF Results, Others, Threads
<1>10. MasterState'
  BY <1>0, <1>1 DEF MasterState, Threads, WorkerPC
<1>11. VerdictCorrect'
  BY <1>1 DEF VerdictCorrect
<1> QED
  BY <1>3, <1>6, <1>7, <1>8, <1>9, <1>10, <1>11 DEF IInv

(* Whatever LoopTop does, it restores the invariant. *)
LEMMA LoopTopInv ==
  ASSUME NEW t, NEW pcs, NEW ok, NEW todo, NEW total, NEW idle,
         LoopPre(t, pcs, ok, todo, total, idle),
         LoopTop(t, pcs, ok, todo, total, idle)
  PROVE  IInv'
<1>1. CASE TakeBatch(t, pcs, ok, todo, total, idle)
  BY <1>1, TakeBatchInv DEF LoopTop
<1>2. CASE MasterReturns(t, pcs, ok, todo, total, idle)
  BY <1>2, MasterReturnsInv DEF LoopTop
<1>3. CASE Sleep(t, pcs, ok, todo, total, idle)
  BY <1>3, SleepInv DEF LoopTop
<1> QED
  BY <1>1, <1>2, <1>3 DEF LoopTop

(* A thread outside its batch leaves Outstanding and the counters as they  *)
(* are seen by the others.                                                 *)
LEMMA Without ==
  ASSUME IInv, NEW t \in Threads
  PROVE  /\ IsFiniteSet(OutBut(t)) /\ IsFiniteSet(Outstanding)
         /\ Outstanding = OutBut(t) \cup batch[t]
         /\ OutBut(t) \cap batch[t] = {}
         /\ Cardinality(OutBut(t)) = nTodo - Cardinality(batch[t])
         /\ Cardinality(OutBut(t)) \in Nat /\ Cardinality(batch[t]) \in Nat
<1>1. Threads = Others(t) \cup {t}
  BY DEF Others
<1>2. Outstanding = OutBut(t) \cup batch[t]
  BY <1>1 DEF Outstanding, OutBut
<1>3. OutBut(t) \cap batch[t] = {}
  BY DEF OutBut, Others, IInv, Placement
<1>4. Outstanding \subseteq Checks
  BY DEF IInv, Placement, TypeOK
<1>5. /\ IsFiniteSet(OutBut(t)) /\ IsFiniteSet(Outstanding) /\ IsFiniteSet(batch[t])
      /\ Cardinality(OutBut(t)) \in Nat /\ Cardinality(batch[t]) \in Nat
  BY <1>2, <1>4, ChecksFinite
<1>6. Cardinality(Outstanding) = Cardinality(OutBut(t)) + Cardinality(batch[t])
  <2>1. Cardinality(Outstanding) = Cardinality(OutBut(t)) + Cardinality(batch[t])
                                   - Cardinality(OutBut(t) \cap batch[t])
    BY <1>2, <1>5, FS_Union
  <2>2. Cardinality(OutBut(t) \cap batch[t]) = 0
    BY <1>3, FS_EmptySet
  <2> QED
    BY <1>5, <2>1, <2>2
<1> QED
  BY <1>2, <1>3, <1>5, <1>6 DEF IInv, TodoExact

(* The three ways into LoopTop establish LoopPre. *)
LEMMA EnterInv ==
  ASSUME IInv, NEW t \in Threads, Enter(t)
  PROVE  IInv'
<1> USE DEF IInv
<1>1. pc[t] = "start" /\ batch[t] = {}
  BY DEF Enter, Placement
<1>2. Outstanding = OutBut(t) /\ nTodo = Cardinality(OutBut(t))
  BY <1>1, Without DEF TodoExact
<1>3. /\ {u \in Others(t) : pc[u] = "run"} = Running
      /\ {u \in Others(t) : pc[u] \in {"waiting", "woken"}} = Blocked
  BY <1>1 DEF Running, Blocked, Others
<1>4. Cardinality(Running) \in Nat
  BY ThreadsFinite, FS_CardinalityType DEF Running
<1>5. queue # {} => nTodo # 0
  BY <1>2, Without, FS_EmptySet DEF OutBut
<1>6. LoopPre(t, pc, fAllOk, nTodo, nTotal + 1, nIdle)
  <2>1. nTotal + 1 = nIdle + Cardinality({u \in Others(t) : pc[u] = "run"}) + 1
    BY <1>3, <1>4 DEF Counters, TypeOK
  <2>2. Cardinality({u \in Others(t) : pc[u] \in {"waiting", "woken"}}) <= nIdle
    BY <1>3 DEF Counters
  <2>3. /\ OutBut(t) \subseteq added
        /\ (t = Master \/ pc[Master] # "out") /\ fAllOk => (added \ OutBut(t)) \cap Bad = {}
        /\ ~fAllOk => added \cap Bad # {}
        /\ \A u \in Others(t) : pc[u] = "run" /\ fAllOk => fOk[u]
    BY <1>1, <1>2 DEF Results, Placement, Others, Threads
  <2>4. /\ \A w \in Workers \ {t} : pc[w] \in WorkerPC
        /\ pc[Master] = "out" => nTodo = 0 /\ fAllOk /\ queue = {}
        /\ pc[Master] = "waiting" => queue = {} /\ nTodo # 0
        /\ verdict # "none" => pc[Master] = "out"
    BY <1>5 DEF MasterState
  <2>5. t = Master => verdict = "none"
    BY <1>1 DEF MasterState
  <2>6. /\ TypeOK /\ VerdictCorrect /\ nTotal + 1 \in Nat
        /\ pc \in [Threads -> WorkerPC \cup MasterPC]
        /\ fAllOk \in BOOLEAN /\ nTodo \in Nat /\ nIdle \in Nat
    BY DEF TypeOK
  <2>7. /\ \A u \in Threads : batch[u] \cap queue = {}
        /\ \A u, v \in Threads : u # v => batch[u] \cap batch[v] = {}
        /\ \A u \in Others(t) : pc[u] = "run" <=> batch[u] # {}
    BY DEF Placement, Others
  <2> QED
    BY <1>2, <2>1, <2>2, <2>3, <2>4, <2>5, <2>6, <2>7 DEF LoopPre
<1> QED
  BY <1>6, LoopTopInv DEF Enter

(* A thread that returns from cond.wait gives up its place in nIdle. *)
LEMMA WakeInv ==
  ASSUME IInv, NEW t \in Threads, Wake(t)
  PROVE  IInv'
<1> USE DEF IInv
<1>1. pc[t] = "woken" /\ batch[t] = {}
  BY DEF Wake, Placement
<1>2. Outstanding = OutBut(t) /\ nTodo = Cardinality(OutBut(t))
  BY <1>1, Without DEF TodoExact
<1>3. /\ {u \in Others(t) : pc[u] = "run"} = Running
      /\ {u \in Others(t) : pc[u] \in {"waiting", "woken"}} = Blocked \ {t}
      /\ t \in Blocked
  BY <1>1 DEF Running, Blocked, Others
<1>4. Cardinality(Running) \in Nat
  BY ThreadsFinite, FS_CardinalityType DEF Running
<1>5. Cardinality(Blocked \ {t}) = Cardinality(Blocked) - 1 /\ Cardinality(Blocked \ {t}) \in Nat
  BY <1>3, ThreadsFinite, FS_RemoveElement, FS_CardinalityType DEF Blocked
<1>8. Cardinality(Blocked) \in Nat
  BY ThreadsFinite, FS_CardinalityType DEF Blocked
<1>6. queue # {} => nTodo # 0
  BY <1>2, Without, FS_EmptySet DEF OutBut
<1>7. LoopPre(t, pc, fAllOk, nTodo, nTotal, nIdle - 1)
  <2>1. nIdle - 1 \in Nat /\ Cardinality(Blocked \ {t}) <= nIdle - 1
    BY <1>5, <1>8 DEF Counters, TypeOK
  <2>2. nTotal = (nIdle - 1) + Cardinality({u \in Others(t) : pc[u] = "run"}) + 1
    <3>1. nTotal = (nIdle - 1) + Cardinality(Running) + 1
      BY <1>4 DEF Counters, TypeOK
    <3> QED
      BY <1>3, <3>1
  <2>3. /\ OutBut(t) \subseteq added
        /\ (t = Master \/ pc[Master] # "out") /\ fAllOk => (added \ OutBut(t)) \cap Bad = {}
        /\ ~fAllOk => added \cap Bad # {}
        /\ \A u \in Others(t) : pc[u] = "run" /\ fAllOk => fOk[u]
    BY <1>1, <1>2 DEF Results, Placement, Others, Threads
  <2>4. /\ \A w \in Workers \ {t} : pc[w] \in WorkerPC
        /\ pc[Master] = "out" => nTodo = 0 /\ fAllOk /\ queue = {}
        /\ pc[Master] = "waiting" => queue = {} /\ nTodo # 0
        /\ verdict # "none" => pc[Master] = "out"
    BY <1>6 DEF MasterState
  <2>5. t = Master => verdict = "none"
    BY <1>1 DEF MasterState
  <2>6. /\ TypeOK /\ VerdictCorrect
        /\ pc \in [Threads -> WorkerPC \cup MasterPC]
        /\ fAllOk \in BOOLEAN /\ nTodo \in Nat /\ nTotal \in Nat
    BY DEF TypeOK
  <2>7. /\ \A u \in Threads : batch[u] \cap queue = {}
        /\ \A u, v \in Threads : u # v => batch[u] \cap batch[v] = {}
        /\ \A u \in Others(t) : pc[u] = "run" <=> batch[u] # {}
    BY DEF Placement, Others
  <2> QED
    BY <1>2, <1>3, <2>1, <2>2, <2>3, <2>4, <2>5, <2>6, <2>7 DEF LoopPre
<1> QED
  BY <1>7, LoopTopInv DEF Wake

(* Counting a verified batch: what leaves Outstanding is accounted for in  *)
(* the result.                                                             *)
LEMMA FinishInv ==
  ASSUME IInv, NEW t \in Threads, Finish(t)
  PROVE  IInv'
<1> USE DEF IInv
<1> DEFINE ok == fAllOk /\ fOk[t] /\ batch[t] \cap Bad = {}
           todo == nTodo - Cardinality(batch[t])
           notified == IF todo = 0 /\ t # Master THEN {Master} ELSE {}
           pcs == Woken(notified, pc)
<1>1. pc[t] = "run" /\ LoopTop(t, pcs, ok, todo, nTotal, nIdle)
  BY DEF Finish
<1>2. /\ Outstanding = OutBut(t) \cup batch[t] /\ OutBut(t) \cap batch[t] = {}
      /\ todo = Cardinality(OutBut(t)) /\ todo \in Nat
      /\ IsFiniteSet(OutBut(t))
  BY Without
<1>3. /\ pcs \in [Threads -> WorkerPC \cup MasterPC]
      /\ \A u \in Threads : pcs[u] = "run" <=> pc[u] = "run"
      /\ \A u \in Threads : pcs[u] \in {"waiting", "woken"} <=> pc[u] \in {"waiting", "woken"}
      /\ \A w \in Workers : pcs[w] \in WorkerPC
      /\ pcs[Master] = "out" <=> pc[Master] = "out"
      /\ t # Master /\ pcs[Master] = "waiting" => pc[Master] = "waiting" /\ todo # 0
  BY DEF Woken, TypeOK, WorkerPC, MasterPC, MasterState, Threads
<1> HIDE DEF pcs
<1>4. /\ {u \in Others(t) : pcs[u] = "run"} = Running \ {t}
      /\ {u \in Others(t) : pcs[u] \in {"waiting", "woken"}} = Blocked
      /\ t \in Running
  BY <1>1, <1>3 DEF Running, Blocked, Others
<1>5. Cardinality(Running \ {t}) = Cardinality(Running) - 1 /\ Cardinality(Running) \in Nat
  BY <1>4, ThreadsFinite, FS_RemoveElement, FS_CardinalityType DEF Running
<1>6. queue # {} => todo # 0
  BY <1>2, FS_EmptySet DEF OutBut
<1>7. pc[Master] # "out"
  <2>1. batch[t] # {}
    BY <1>1 DEF Placement
  <2>2. nTodo # 0
    BY <1>2, <2>1, Without, FS_EmptySet DEF TodoExact
  <2> QED
    BY <2>2 DEF MasterState
<1>8. LoopPre(t, pcs, ok, todo, nTotal, nIdle)
  <2>1. nTotal = nIdle + Cardinality({u \in Others(t) : pcs[u] = "run"}) + 1
    <3>1. nTotal = nIdle + (Cardinality(Running) - 1) + 1
      BY <1>5 DEF Counters, TypeOK
    <3> QED
      BY <1>4, <1>5, <3>1
  <2>2. Cardinality({u \in Others(t) : pcs[u] \in {"waiting", "woken"}}) <= nIdle
    BY <1>4 DEF Counters
  <2>3. ok => (added \ OutBut(t)) \cap Bad = {}
    BY <1>2, <1>7 DEF Results
  <2>4. ~ok => added \cap Bad # {}
    <3>1. CASE ~fAllOk
      BY <3>1 DEF Results
    <3>2. CASE fAllOk
      <4>1. fOk[t]
        BY <1>1, <3>2 DEF Results
      <4> QED
        BY <1>2, <3>2, <4>1 DEF Placement
    <3> QED
      BY <3>1, <3>2
  <2>5. \A u \in Others(t) : pcs[u] = "run" /\ ok => fOk[u]
    BY <1>3 DEF Results, Others
  <2>6. verdict = "none"
    BY <1>7 DEF MasterState
  <2>7. t # Master =>
           /\ pcs[Master] = "out" => todo = 0 /\ ok /\ queue = {}
           /\ pcs[Master] = "waiting" => queue = {} /\ todo # 0
    BY <1>3, <1>7 DEF MasterState
  <2>8. /\ \A u \in Threads : batch[u] \cap queue = {}
        /\ \A u, v \in Threads : u # v => batch[u] \cap batch[v] = {}
        /\ \A u \in Others(t) : pcs[u] = "run" <=> batch[u] # {}
        /\ OutBut(t) \subseteq added
    BY <1>2, <1>3 DEF Placement, Others
  <2>9. /\ TypeOK /\ VerdictCorrect /\ nTotal \in Nat /\ nIdle \in Nat /\ ok \in BOOLEAN
    BY DEF TypeOK
  <2> HIDE DEF ok, todo
  <2> QED
    BY <1>2, <1>3, <2>1, <2>2, <2>3, <2>4, <2>5, <2>6, <2>7, <2>8, <2>9 DEF LoopPre
<1> QED
  BY <1>1, <1>8, LoopTopInv

(* New checks enter the queue and nTodo together. *)
LEMMA AddInv ==
  ASSUME IInv, NEW S \in SUBSET Checks, Add(S)
  PROVE  IInv'
<1> USE DEF IInv
<1>1. PICK N : pc' = Woken(N, pc)
  BY DEF Add
<1>2. /\ pc[Master] = "open" /\ S \cap added = {}
      /\ queue' = queue \cup S /\ nTodo' = nTodo + Cardinality(S)
      /\ added' = added \cup S
      /\ UNCHANGED <<batch, fOk, nIdle, nTotal, fAllOk, fDone, interrupted, shutdown, verdict>>
  BY DEF Add
<1>3. /\ pc' \in [Threads -> WorkerPC \cup MasterPC]
      /\ \A u \in Threads : pc'[u] = "run" <=> pc[u] = "run"
      /\ \A u \in Threads : pc'[u] \in {"waiting", "woken"} <=> pc[u] \in {"waiting", "woken"}
      /\ \A w \in Workers : pc'[w] \in WorkerPC
      /\ pc'[Master] = "open"
  BY <1>1, <1>2 DEF Woken, TypeOK, WorkerPC, MasterPC, MasterState, Threads
<1>4. /\ Cardinality(S) \in Nat /\ IsFiniteSet(S) /\ IsFiniteSet(Outstanding)
      /\ Cardinality(Outstanding) \in Nat
  BY ChecksFinite DEF Placement, TypeOK
<1>5. Outstanding' = Outstanding \cup S /\ Outstanding \cap S = {}
  BY <1>2 DEF Outstanding, Placement
<1>6. TypeOK'
  BY <1>2, <1>3, <1>4 DEF TypeOK
<1>7. Placement'
  BY <1>2, <1>3, <1>5 DEF Placement, Outstanding
<1>8. TodoExact'
  <2>1. Cardinality(Outstanding \cup S) =
           Cardinality(Outstanding) + Cardinality(S) - Cardinality(Outstanding \cap S)
    BY <1>4, FS_Union
  <2>2. Cardinality(Outstanding \cap S) = 0
    BY <1>5, FS_EmptySet
  <2> QED
    BY <1>2, <1>4, <1>5, <2>1, <2>2 DEF TodoExact
<1>9. Counters'
  <2>1. Running' = Running /\ Blocked' = Blocked
    BY <1>3 DEF Running, Blocked
  <2> QED
    BY <1>2, <2>1 DEF Counters
<1>10. Results'
  BY <1>2, <1>3, <1>5 DEF Results
<1>11. MasterState' /\ VerdictCorrect'
  BY <1>2, <1>3 DEF MasterState, VerdictCorrect
<1> QED
  BY <1>6, <1>7, <1>8, <1>9, <1>10, <1>11

(* Steps that move no check: only pcs, interruption flags and the history  *)
(* change.                                                                 *)
LEMMA QuietInv ==
  ASSUME IInv,
         UNCHANGED <<queue, batch, fOk, nIdle, nTotal, fAllOk, nTodo>>,
         TypeOK',
         \A u \in Threads : pc'[u] = "run" <=> pc[u] = "run",
         \A u \in Threads : pc'[u] \in {"waiting", "woken"} => pc[u] \in {"waiting", "woken"},
         \A w \in Workers : pc'[w] \in WorkerPC,
         pc'[Master] = "out" => pc[Master] = "out",
         pc'[Master] = "waiting" => pc[Master] = "waiting",
         verdict' # "none" => pc'[Master] = "out" /\ verdict' = verdict,
         \/ added' = added /\ (pc[Master] = "out" => pc'[Master] = "out")
         \/ added' = {} /\ pc[Master] = "out" /\ verdict' = "none"
  PROVE  IInv'
<1> USE DEF IInv
<1>1. Outstanding' = Outstanding /\ Running' = Running /\ Blocked' \subseteq Blocked
  BY DEF Outstanding, Running, Blocked
<1>2. pc[Master] = "out" => Outstanding = {}
  <2>1. IsFiniteSet(Outstanding)
    BY ChecksFinite DEF Placement, TypeOK
  <2> QED
    BY <2>1, FS_EmptySet DEF TodoExact, MasterState
<1>3. Placement'
  BY <1>1, <1>2 DEF Placement
<1>4. TodoExact'
  BY <1>1 DEF TodoExact
<1>5. Counters'
  <2>1. Cardinality(Blocked') <= Cardinality(Blocked) /\ Cardinality(Blocked) \in Nat /\ Cardinality(Blocked') \in Nat
    BY <1>1, ThreadsFinite, FS_Subset, FS_CardinalityType DEF Blocked
  <2> QED
    BY <1>1, <2>1 DEF Counters, TypeOK
<1>6. Results'
  BY <1>1 DEF Results, MasterState
<1>7. MasterState'
  BY DEF MasterState
<1>8. VerdictCorrect'
  BY DEF VerdictCorrect
<1> QED
  BY <1>3, <1>4, <1>5, <1>6, <1>7, <1>8

(* A thread that is interrupted in cond.wait stays counted. *)
LEMMA ThrownInv ==
  ASSUME IInv, NEW t \in Threads, Thrown(t)
  PROVE  IInv'
<1>1. TypeOK'
  <2>1. pc' \in [Threads -> WorkerPC \cup MasterPC]
    BY DEF Thrown, IInv, TypeOK, WorkerPC, MasterPC
  <2>2. fDone' \in BOOLEAN
    BY DEF Thrown, IInv, TypeOK
  <2> QED
    BY <2>1, <2>2 DEF Thrown, IInv, TypeOK
<1>2. /\ \A u \in Threads : u # t => pc'[u] = pc[u]
      /\ pc[t] \in {"waiting", "woken"}
      /\ t # Master => pc'[t] = "dead"
      /\ t = Master => pc'[t] \in {"start", "terminated"}
  BY DEF Thrown, IInv, TypeOK
<1>3. verdict' = verdict /\ added' = added
      /\ UNCHANGED <<queue, batch, fOk, nIdle, nTotal, fAllOk, nTodo>>
  BY DEF Thrown
<1>4. \A w \in Workers : pc[w] \in WorkerPC
  BY DEF IInv, MasterState
<1>5. verdict # "none" => pc[Master] = "out"
  BY DEF IInv, MasterState
<1>6. Master \in Threads /\ Workers \subseteq Threads
  BY DEF Threads
<1> QED
  BY <1>1, <1>2, <1>3, <1>4, <1>5, <1>6, QuietInv DEF WorkerPC

(* Every step of the specification preserves the invariant. *)
LEMMA NextInv ==
  ASSUME IInv, [Next]_vars
  PROVE  IInv'
<1>0. /\ Master \in Threads /\ Workers \subseteq Threads
      /\ \A w \in Workers : pc[w] \in WorkerPC
      /\ verdict # "none" => pc[Master] = "out"
      /\ TypeOK
  BY DEF Threads, IInv, MasterState
<1>1. CASE \E t \in Threads : Loop(t)
  BY <1>1, EnterInv, FinishInv, WakeInv, ThrownInv DEF Loop
<1>2. CASE \E t \in Threads : SpuriousWakeup(t)
  <2>1. PICK t \in Threads : SpuriousWakeup(t)
    BY <1>2
  <2>2. TypeOK'
    BY <1>0, <2>1 DEF SpuriousWakeup, TypeOK, WorkerPC
  <2> QED
    BY <1>0, <2>1, <2>2, QuietInv DEF SpuriousWakeup, TypeOK, WorkerPC
<1>3. CASE OpenControl
  <2>1. TypeOK'
    BY <1>0, <1>3 DEF OpenControl, TypeOK, MasterPC
  <2> QED
    BY <1>0, <1>3, <2>1, QuietInv DEF OpenControl, TypeOK
<1>4. CASE \E S \in SUBSET Checks : Add(S)
  BY <1>4, AddInv
<1>5. CASE \E done \in BOOLEAN : CallWait(done)
  <2>1. TypeOK'
    BY <1>0, <1>5 DEF CallWait, TypeOK, MasterPC
  <2> QED
    BY <1>0, <1>5, <2>1, QuietInv DEF CallWait, TypeOK
<1>6. CASE InterruptAll
  <2>1. TypeOK'
    BY <1>0, <1>6 DEF InterruptAll, TypeOK, Threads
  <2> QED
    BY <1>0, <1>6, <2>1, QuietInv DEF InterruptAll
<1>7. CASE UNCHANGED vars
  BY <1>7 DEF vars, IInv, TypeOK, Placement, Outstanding, TodoExact, Counters, Running,
     Blocked, Results, MasterState, VerdictCorrect
<1> QED
  BY <1>1, <1>2, <1>3, <1>4, <1>5, <1>6, <1>7 DEF Next

(* The constructor establishes the invariant. *)
LEMMA InitInv == Init => IInv
<1> SUFFICES ASSUME Init PROVE IInv
  OBVIOUS
<1> USE DEF Init
<1>1. TypeOK
  BY DEF TypeOK, WorkerPC, MasterPC
<1>2. Outstanding = {} /\ Running = {} /\ Blocked = {}
  BY DEF Outstanding, Running, Blocked
<1>3. Placement
  BY <1>2 DEF Placement, Threads
<1>4. TodoExact /\ Counters
  BY <1>2, FS_EmptySet DEF TodoExact, Counters
<1>5. Results /\ MasterState /\ VerdictCorrect
  BY DEF Results, MasterState, VerdictCorrect, WorkerPC, Threads
<1> QED
  BY <1>1, <1>3, <1>4, <1>5 DEF IInv

(* The invariant of the check queue holds in every reachable state. *)
THEOREM Invariance == Spec => []IInv
<1>1. Init => IInv
  BY InitInv
<1>2. IInv /\ [Next]_vars => IInv'
  BY NextInv
<1> QED
  BY <1>1, <1>2, PTL DEF Spec

(* CCheckQueue's variables keep their types, in particular the unsigned    *)
(* nTodo never wraps below zero.                                           *)
THEOREM TypeCorrect == Spec => []TypeOK
<1>1. IInv => TypeOK
  BY DEF IInv
<1> QED
  BY <1>1, Invariance, PTL

(* nTodo counts the checks that are queued or in a batch, no more and no    *)
(* fewer, between any two critical sections of the workers and the master. *)
THEOREM TodoIsExact == Spec => []TodoExact
<1>1. IInv => TodoExact
  BY DEF IInv
<1> QED
  BY <1>1, Invariance, PTL

(* control.Wait() returns true exactly when every added check succeeds.    *)
THEOREM VerdictIsCorrect == Spec => []VerdictCorrect
<1>1. IInv => VerdictCorrect
  BY DEF IInv
<1> QED
  BY <1>1, Invariance, PTL

(* The assertion in CCheckQueueControl's constructor never fails, and no   *)
(* check outlives its control object.                                      *)
THEOREM ControlAlwaysFindsIdle == Spec => []ControlFindsIdle
<1>1. IInv => ControlFindsIdle
  <2> SUFFICES ASSUME IInv, pc[Master] = "out" PROVE IsIdle /\ Outstanding = {}
    BY DEF ControlFindsIdle
  <2>1. nTodo = 0 /\ fAllOk
    BY DEF IInv, MasterState
  <2>2. Outstanding = {}
    <3>1. IsFiniteSet(Outstanding)
      BY ChecksFinite DEF IInv, Placement, TypeOK
    <3> QED
      BY <2>1, <3>1, FS_EmptySet DEF IInv, TodoExact
  <2>3. Running = {}
    BY <2>2 DEF Outstanding, Running, IInv, Placement
  <2>4. nTotal = nIdle
    BY <2>3, FS_EmptySet DEF IInv, Counters, TypeOK
  <2> QED
    BY <2>1, <2>2, <2>4 DEF IsIdle
<1> QED
  BY <1>1, Invariance, PTL

(* A master that sleeps on condMaster is owed a wake-up by a worker that   *)
(* still runs a batch: the notification cannot be lost.                    *)
THEOREM WakeupIsOwed == Spec => []WakeupOwed
<1>1. IInv => WakeupOwed
  <2> SUFFICES ASSUME IInv, pc[Master] = "waiting" PROVE \E w \in Workers : pc[w] = "run"
    BY DEF WakeupOwed
  <2>1. queue = {} /\ nTodo # 0
    BY DEF IInv, MasterState
  <2>2. Outstanding # {}
    BY <2>1, FS_EmptySet DEF IInv, TodoExact
  <2>3. PICK t \in Threads : batch[t] # {}
    BY <2>1, <2>2 DEF Outstanding
  <2> QED
    BY <2>3 DEF IInv, Placement, Threads
<1> QED
  BY <1>1, Invariance, PTL
=============================================================================
