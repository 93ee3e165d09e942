--------------------------- MODULE BestChainProofs ---------------------------
(***************************************************************************)
(* More proofs about ChainState: nChainTx is exact, no block of the active *)
(* chain is marked invalid, pruning leaves a candidate, and ActivateBest-  *)
(* Chain forgets no better chain, for every block tree and any number of   *)
(* threads.                                                                *)
(*                                                                         *)
(* Each theorem names the parts of the system it excludes, because the     *)
(* statement is false with them: a call of invalidateblock marks blocks    *)
(* whose children are then never linked, a notarised block cannot be       *)
(* disconnected, and a reorganisation longer than MAX_REORG_LENGTH shuts   *)
(* the node down on a chain that is not the best.                          *)
(***************************************************************************)
EXTENDS ChainStateProofs, WellFoundedInduction

NeverInvalidated == "invalidateblock" \notin Rpcs

NoNotarisation == \A b \in Blocks : Notarises[b] = None

NeverCleared == ~ASSETCHAINS_CC /\ "reconsiderblock" \notin Rpcs

(* A step in progress goes towards the best candidate. *)
Towards ==
    \A t \in Threads : pc[t] = "step" =>
        LET best == pindexMostWork[t]
        IN /\ best \in candidates
           /\ \A c \in candidates : c = best \/ Worse(c, best, nSequenceId)

(* A block with data that is not linked waits in mapBlocksUnlinked, or its *)
(* parent will never be accepted, and some ancestor has no data.           *)
Waiting ==
    /\ have \cap ContextInvalid = {}
    /\ Failed \subseteq linked \cup ContextInvalid
    /\ \A x \in have \ linked : x \in unlinked \/ Parent[x] \in ContextInvalid
    /\ \A x \in have \ linked : \E y \in Ancestors[x] : y \notin have

(* The chain a step goes towards has no marks, and a marked block of the   *)
(* active chain is one that invalidateblock is about to disconnect.        *)
PathValid ==
    /\ \A t \in Threads : pc[t] = "step" => Ancestors[pindexMostWork[t]] \cap Failed = {}
    /\ \A x \in Active \cap Failed :
          \E t \in Threads : pc[t] = "invalidate" /\ arg \in Ancestors[x]

(* A block whose chain has all data and breaks no rule. *)
Good(b) == b \in linked /\ Ancestors[b] \cap Invalid = {}

(* For every such block there is a candidate of that kind at least as good. *)
Covered ==
    /\ Good(tip)
    /\ \A b \in Blocks :
          Good(b) => \E c \in candidates : Good(c) /\ ~Worse(c, b, nSequenceId)

(* A thread that will look for a better chain again. *)
Busy ==
    \E t \in Threads : pc[t] \in {"find", "step"} \/ (pc[t] = "check" /\ pindexMostWork[t] # tip)

NothingBetter == \A b \in Blocks : Good(b) => ChainPower[b] <= ChainPower[tip]

Pending == shutdown \/ Busy \/ NothingBetter

(* A linked block without marks that is not a candidate was given up for a *)
(* tip at least as good.                                                   *)
Outdone ==
    /\ \A x \in failedChild : Ancestors[x] \cap failedValid # {}
    /\ \A b \in linked \ candidates :
          Ancestors[b] \cap failedValid = {} =>
            \E c \in Blocks : Good(c) /\ ~Worse(c, b, nSequenceId)

NothingForgotten == shutdown \/ Busy \/ MustBeCandidates \subseteq candidates

(* No two linked blocks have the same sequence id. *)
Sequenced ==
    /\ \A b \in Blocks : nSequenceId[b] <= Cardinality({x \in Blocks : nSequenceId[x] # 0})
    /\ \A b \in Blocks : nSequenceId[b] # 0 <=> b \in linked \ {Genesis}
    /\ \A a, b \in linked : nSequenceId[a] = nSequenceId[b] => a = b

-----------------------------------------------------------------------------
(* Orders *)

(* A set of natural numbers has a least element. *)
LEMMA LeastNatural ==
    ASSUME NEW S \in SUBSET Nat, S # {}
    PROVE  \E n \in S : \A m \in S : n <= m
<1> DEFINE R == {p \in Nat \X Nat : p[1] < p[2]}
<1>1. OpToRel(<, Nat) = R
  BY DEF OpToRel
<1>2. IsWellFoundedOn(R, Nat)
  BY <1>1, NatLessThanWellFounded, Zenon
<1> HIDE DEF R
<1>3. PICK n \in S : \A m \in S : ~(<<m, n>> \in R)
  BY <1>2, WFMin, Zenon
<1>4. \A m \in S : ~(m < n)
  BY <1>3 DEF R
<1> QED
  BY <1>4

(* Work grows along a chain. *)
LEMMA PowerMonotone ==
    ASSUME NEW b \in Blocks, NEW a \in Ancestors[b]
    PROVE  a \in Blocks /\ (a = b \/ ChainPower[a] < ChainPower[b])
<1> DEFINE Bad == {x \in Blocks : \E y \in Ancestors[x] : y # x /\ ~(ChainPower[y] < ChainPower[x])}
           Powers == {ChainPower[x] : x \in Bad}
<1>1. SUFFICES ASSUME Bad # {} PROVE FALSE
  BY AncestorFacts
<1>2. Powers \in SUBSET Nat /\ Powers # {}
  BY <1>1, TreeAssumption
<1>3. PICK n \in Powers : \A m \in Powers : n <= m
  <2> HIDE DEF Powers
  <2> QED
    BY <1>2, LeastNatural
<1>4. PICK x \in Bad : n = ChainPower[x]
  BY <1>3
<1>5. PICK y \in Ancestors[x] : y # x /\ ~(ChainPower[y] < ChainPower[x])
  BY <1>4
<1>6. x \in Blocks /\ x # Genesis
  BY <1>4, <1>5, TreeAssumption
<1>7. /\ y \in Ancestors[Parent[x]] /\ Parent[x] \in Blocks
      /\ ChainPower[Parent[x]] < ChainPower[x]
  BY <1>5, <1>6, ParentFacts
<1>8. Parent[x] \notin Bad
  <2>1. SUFFICES ASSUME Parent[x] \in Bad PROVE FALSE
    OBVIOUS
  <2>2. ChainPower[Parent[x]] \in Powers
    BY <2>1
  <2>3. n <= ChainPower[Parent[x]] /\ n \in Nat /\ ChainPower[Parent[x]] \in Nat
    BY <1>2, <1>3, <2>2
  <2> QED
    BY <1>4, <1>7, <2>3
<1>9. y = Parent[x] \/ ChainPower[y] < ChainPower[Parent[x]]
  BY <1>7, <1>8
<1>10. ChainPower[y] \in Nat /\ ChainPower[x] \in Nat /\ ChainPower[Parent[x]] \in Nat
  BY <1>5, <1>6, <1>7, AncestorFacts
<1> QED
  BY <1>5, <1>7, <1>9, <1>10

(* The comparator orders blocks by work, then by age. *)
LEMMA WorseFacts ==
    ASSUME NEW s \in [Blocks -> Nat], NEW a \in Blocks, NEW b \in Blocks, NEW c \in Blocks
    PROVE  /\ ~Worse(a, a, s)
           /\ Worse(a, b, s) => ~Worse(b, a, s)
           /\ ~Worse(a, b, s) /\ ~Worse(b, c, s) => ~Worse(a, c, s)
           /\ ~Worse(a, b, s) => ChainPower[b] <= ChainPower[a]
           /\ ChainPower[b] < ChainPower[a] => ~Worse(a, b, s)
           /\ ~Worse(a, b, s) /\ ~Worse(b, a, s) => s[a] = s[b]
<1>1. ChainPower[a] \in Nat /\ ChainPower[b] \in Nat /\ ChainPower[c] \in Nat
  BY AncestorFacts
<1>2. s[a] \in Nat /\ s[b] \in Nat /\ s[c] \in Nat
  OBVIOUS
<1> QED
  BY <1>1, <1>2 DEF Worse

(* A block is at least as good as its ancestors. *)
LEMMA AncestorWorse ==
    ASSUME NEW s \in [Blocks -> Nat], NEW b \in Blocks, NEW a \in Ancestors[b]
    PROVE  ~Worse(b, a, s)
<1>1. a \in Blocks /\ (a = b \/ ChainPower[a] < ChainPower[b])
  BY PowerMonotone
<1> QED
  BY <1>1, WorseFacts

-----------------------------------------------------------------------------
(* Kinds of step *)

SameBlocks == UNCHANGED <<have, linked, nSequenceId, unlinked>>

SameMarks == UNCHANGED <<failedValid, failedChild>>

ThreadStarts(t) == pc[t] = "idle" /\ pc' = [pc EXCEPT ![t] = "find"]

(* What the threads that do not take part keep. *)
OthersKeep == UNCHANGED <<tip, NOTARIZED, csMain, pindexMostWork, arg, shutdown>>

(* A header, a block that is ignored or refused, or no step. *)
WithoutData ==
    /\ SameBlocks /\ UNCHANGED candidates /\ OthersKeep
    /\ failedValid' \subseteq failedValid \cup (ContextInvalid \ have)
    /\ failedChild' \subseteq failedChild
    /\ ~ASSETCHAINS_CC => failedValid \subseteq failedValid' /\ failedChild' = failedChild
    /\ UNCHANGED pc \/ \E t \in Threads : ThreadStarts(t)

(* A block whose data is accepted. *)
WithData(t, b) ==
    /\ csMain = None /\ OthersKeep /\ ThreadStarts(t)
    /\ b # Genesis /\ b \notin have /\ b \notin ContextInvalid
    /\ failedValid' \subseteq failedValid /\ failedChild' \subseteq failedChild
    /\ ~ASSETCHAINS_CC => SameMarks
    /\ ReceivedBlockTransactions(b, failedValid' \cup failedChild')

(* AcceptBlockHeader clears marks only on chains with contracts. *)
LEMMA HeaderMarks ==
    ASSUME TypeOK, NEW b \in Blocks
    PROVE  LET h == AcceptBlockHeader(b)
           IN /\ h.failedValid \subseteq failedValid /\ h.failedChild \subseteq failedChild
              /\ ~ASSETCHAINS_CC => h.failedValid = failedValid /\ h.failedChild = failedChild
<1>1. CASE b \in index
  BY <1>1 DEF AcceptBlockHeader, KnownHeader, Failed
<1>2. CASE b \notin index
  BY <1>2 DEF AcceptBlockHeader, NewHeader
<1> QED
  BY <1>1, <1>2

(* A "headers" message brings no data. *)
LEMMA HeaderKind ==
    ASSUME IInv, NEW b \in Blocks, ReceiveHeader(b)
    PROVE  WithoutData
<1> DEFINE h == AcceptBlockHeader(b)
<1>1. /\ h.failedValid \subseteq failedValid /\ h.failedChild \subseteq failedChild
      /\ ~ASSETCHAINS_CC => h.failedValid = failedValid /\ h.failedChild = failedChild
  BY HeaderMarks DEF IInv
<1>2. /\ failedValid' = h.failedValid /\ failedChild' = h.failedChild
      /\ UNCHANGED <<have, linked, nSequenceId, candidates, unlinked, tip, dpowVars, threadVars>>
  BY DEF ReceiveHeader
<1> HIDE DEF h
<1> QED
  BY <1>1, <1>2 DEF WithoutData, SameBlocks, OthersKeep, dpowVars, threadVars

(* ProcessNewBlock brings data or not. *)
LEMMA BlockKind ==
    ASSUME IInv, NEW t \in Threads, NEW b \in Blocks, NEW requested \in BOOLEAN,
           ProcessNewBlock(t, b, requested)
    PROVE  WithoutData \/ WithData(t, b)
<1> DEFINE h == AcceptBlockHeader(b)
<1>1. /\ h.failedValid \subseteq failedValid /\ h.failedChild \subseteq failedChild
      /\ ~ASSETCHAINS_CC => h.failedValid = failedValid /\ h.failedChild = failedChild
  BY HeaderMarks DEF IInv
<1>2. /\ pc[t] = "idle" /\ csMain = None /\ b # Genesis
      /\ failedChild' = h.failedChild
      /\ UNCHANGED <<tip, dpowVars, csMain, pindexMostWork, pindexOldTip, arg, shutdown>>
  BY DEF ProcessNewBlock, AcceptBlock
<1>3. \/ /\ UNCHANGED <<have, linked, nSequenceId, candidates, unlinked>>
         /\ failedValid' = h.failedValid \/ (failedValid' = h.failedValid \cup {b} /\ b \in ContextInvalid /\ b \notin have)
         /\ UNCHANGED pc \/ StartActivation(t, FALSE)
      \/ /\ b \notin have /\ b \notin ContextInvalid
         /\ failedValid' = h.failedValid
         /\ ReceivedBlockTransactions(b, h.failedValid \cup h.failedChild)
         /\ StartActivation(t, FALSE)
  BY DEF ProcessNewBlock, AcceptBlock, Ignores
<1> HIDE DEF h
<1>4. OthersKeep
  BY <1>2 DEF OthersKeep, dpowVars
<1>5. StartActivation(t, FALSE) => ThreadStarts(t)
  BY <1>2 DEF StartActivation, ThreadStarts
<1>6. CASE /\ UNCHANGED <<have, linked, nSequenceId, candidates, unlinked>>
           /\ failedValid' = h.failedValid \/ (failedValid' = h.failedValid \cup {b} /\ b \in ContextInvalid /\ b \notin have)
           /\ UNCHANGED pc \/ StartActivation(t, FALSE)
  BY <1>1, <1>2, <1>4, <1>5, <1>6 DEF WithoutData, SameBlocks
<1>7. CASE /\ b \notin have /\ b \notin ContextInvalid
           /\ failedValid' = h.failedValid
           /\ ReceivedBlockTransactions(b, h.failedValid \cup h.failedChild)
           /\ StartActivation(t, FALSE)
  <2>1. failedValid' \cup failedChild' = h.failedValid \cup h.failedChild
    BY <1>2, <1>7
  <2> QED
    BY <1>1, <1>2, <1>4, <1>5, <1>7, <2>1 DEF WithData, SameMarks
<1> QED
  BY <1>3, <1>6, <1>7

(* Every step is one of these or a step of a thread inside a call. *)
LEMMA StepKinds ==
    ASSUME IInv, [Next]_vars
    PROVE  \/ WithoutData
           \/ \E t \in Threads, b \in Blocks :
                 WithData(t, b) \/ InvalidateBlock(t, b) \/ ReconsiderBlock(t, b)
           \/ \E t \in Threads : Continue(t)
<1>1. CASE UNCHANGED vars
  BY <1>1 DEF vars, blockVars, dpowVars, threadVars, WithoutData, SameBlocks, OthersKeep
<1> QED
  BY <1>1, HeaderKind, BlockKind DEF Next

(* What a block's data does, by the two cases of                           *)
(* ReceivedBlockTransactions.                                              *)
LEMMA DataKinds ==
    ASSUME IInv, NEW t \in Threads, NEW b \in Blocks, WithData(t, b)
    PROVE  /\ have' = have \cup {b}
           /\ \/ /\ Parent[b] \in linked
                 /\ linked' = linked \cup NowLinked(b)
                 /\ unlinked' = unlinked \ NowLinked(b)
                 /\ NowLinked(b) \subseteq Blocks /\ NowLinked(b) \cap linked = {}
                 /\ candidates' = candidates \cup {x \in NowLinked(b) : ~Worse(x, tip, nSequenceId')}
              \/ /\ Parent[b] \notin linked
                 /\ UNCHANGED <<linked, nSequenceId, candidates>>
                 /\ \/ unlinked' = unlinked \cup {b}
                    \/ unlinked' = unlinked /\ Parent[b] \in failedValid' \cup failedChild'
           /\ nSequenceId' \in [Blocks -> Nat]
           /\ \A x \in linked : nSequenceId'[x] = nSequenceId[x]
           /\ linked \subseteq linked'
<1>1. /\ b # Genesis /\ b \notin have /\ tip' = tip
      /\ ReceivedBlockTransactions(b, failedValid' \cup failedChild')
  BY DEF WithData, OthersKeep
<1>2. nSequenceId' \in [Blocks -> Nat] /\ linked \subseteq linked'
  BY <1>1, ReceivedKeeps
<1>3. CASE Parent[b] \in linked
  <2>1. PICK s \in SequenceIds(NowLinked(b)) :
          /\ linked' = linked \cup NowLinked(b)
          /\ nSequenceId' = [x \in Blocks |-> IF x \in NowLinked(b) THEN s[x] ELSE nSequenceId[x]]
          /\ candidates' = candidates \cup {x \in NowLinked(b) : ~Worse(x, tip, nSequenceId')}
          /\ unlinked' = unlinked \ NowLinked(b)
    BY <1>1, <1>3 DEF ReceivedBlockTransactions
  <2>2. NowLinked(b) \subseteq {b} \cup unlinked
    BY <1>1, <1>3, LinkedBlocks
  <2>3. NowLinked(b) \subseteq Blocks /\ NowLinked(b) \cap linked = {}
    BY <1>1, <2>2 DEF IInv, TypeOK, Links
  <2>4. \A x \in linked : nSequenceId'[x] = nSequenceId[x]
    BY <2>1, <2>3 DEF IInv, TypeOK
  <2> QED
    BY <1>1, <1>2, <1>3, <2>1, <2>3, <2>4 DEF ReceivedBlockTransactions
<1>4. CASE Parent[b] \notin linked
  BY <1>1, <1>2, <1>4 DEF ReceivedBlockTransactions
<1> QED
  BY <1>3, <1>4

-----------------------------------------------------------------------------
(* Pruning leaves a candidate *)

(* cs_main keeps other threads out of the loops. *)
LEMMA Exclusive ==
    ASSUME IInv, NEW t \in Threads, csMain \in {None, t}
    PROVE  \A u \in Threads \ {t} : pc[u] \notin {"step", "invalidate"}
BY TreeAssumption DEF IInv, Working

(* A step in which no thread is inside ActivateBestChainStep. *)
LEMMA NobodySteps ==
    ASSUME \A u \in Threads : pc'[u] # "step"
    PROVE  Towards'
BY DEF Towards

(* Connecting a block of the chain prunes no candidate above it. *)
LEMMA PruneKeepsBest ==
    ASSUME IInv, Towards, NEW t \in Threads, pc[t] = "step",
           NEW b \in Ancestors[pindexMostWork[t]]
    PROVE  /\ pindexMostWork[t] \in Pruned(b) /\ Pruned(b) \subseteq candidates
           /\ b \in Blocks
<1>1. pindexMostWork[t] \in Blocks /\ pindexMostWork[t] \in candidates
  BY DEF IInv, TypeOK, Towards
<1>2. nSequenceId \in [Blocks -> Nat]
  BY DEF IInv, TypeOK
<1>3. b \in Blocks /\ ~Worse(pindexMostWork[t], b, nSequenceId)
  BY <1>1, <1>2, AncestorWorse, AncestorFacts
<1> QED
  BY <1>1, <1>3 DEF Pruned

(* What ConnectStep does. *)
LEMMA ConnectKinds ==
    ASSUME IInv, Towards, NEW t \in Threads, ConnectStep(t)
    PROVE  /\ pc[t] = "step" /\ csMain = t
           /\ SameBlocks /\ UNCHANGED <<failedChild, pindexMostWork, arg, shutdown>>
           /\ tip \in Ancestors[pindexMostWork[t]] /\ tip # pindexMostWork[t]
           /\ \/ pc' = [pc EXCEPT ![t] = "check"] /\ csMain' = None
              \/ UNCHANGED <<pc, csMain>>
           /\ \E b \in Blocks \ {Genesis} :
                 /\ Parent[b] = tip /\ b \in Ancestors[pindexMostWork[t]] /\ b \in linked
                 /\ \/ /\ b \in Invalid /\ InvalidBlockFound(b) /\ UNCHANGED <<tip, NOTARIZED>>
                       /\ pc' = [pc EXCEPT ![t] = "check"]
                    \/ /\ b \notin Invalid /\ tip' = b /\ candidates' = Pruned(b)
                       /\ ApplyNotarisation(b) /\ UNCHANGED failedValid
                       /\ pindexMostWork[t] \in Pruned(b) /\ Pruned(b) \subseteq candidates
                       /\ pc' = [pc EXCEPT ![t] = "check"] \/ (UNCHANGED pc /\ b # pindexMostWork[t])
<1>1. /\ pc[t] = "step" /\ csMain = t
      /\ tip \in Ancestors[pindexMostWork[t]] /\ tip # pindexMostWork[t]
      /\ UNCHANGED <<index, have, linked, nSequenceId, failedChild, unlinked, last_NPOINTSi,
                     fSkipdpow, pindexMostWork, arg, shutdown>>
  BY DEF ConnectStep, ConnectTip, InvalidBlockFound
<1>2. PICK b \in Ancestors[pindexMostWork[t]] \ {Genesis} :
        /\ Parent[b] = tip
        /\ \/ /\ b \in Invalid
              /\ InvalidBlockFound(b)
              /\ EndStep(t)
              /\ UNCHANGED <<tip, dpowVars>>
           \/ /\ b \notin Invalid
              /\ ConnectTip(b)
              /\ candidates' = Pruned(b)
              /\ IF ChainPower[b] > ChainPower[pindexOldTip] \/ b = pindexMostWork[t]
                   THEN EndStep(t)
                   ELSE UNCHANGED <<pc, csMain, pindexOldTip>>
              /\ UNCHANGED failedValid
  BY DEF ConnectStep
<1>3. /\ pindexMostWork[t] \in Pruned(b) /\ Pruned(b) \subseteq candidates
      /\ b \in Blocks \ {Genesis}
  BY <1>1, <1>2, PruneKeepsBest
<1>4. b \in linked
  BY <1>1, <1>2 DEF IInv, Links, Working
<1>5. \/ pc' = [pc EXCEPT ![t] = "check"] /\ csMain' = None
      \/ UNCHANGED <<pc, csMain>> /\ b # pindexMostWork[t] /\ b \notin Invalid
  BY <1>2 DEF EndStep
<1>6. \/ /\ b \in Invalid /\ InvalidBlockFound(b) /\ UNCHANGED <<tip, NOTARIZED>>
         /\ pc' = [pc EXCEPT ![t] = "check"]
      \/ /\ b \notin Invalid /\ tip' = b /\ candidates' = Pruned(b)
         /\ ApplyNotarisation(b) /\ UNCHANGED failedValid
  BY <1>2 DEF EndStep, ConnectTip, dpowVars
<1> QED
  BY <1>1, <1>2, <1>3, <1>4, <1>5, <1>6 DEF SameBlocks

(* What StartStep does. *)
LEMMA StartKinds ==
    ASSUME IInv, NEW t \in Threads, StartStep(t)
    PROVE  /\ pc[t] = "find" /\ csMain \in {None, t}
           /\ SameBlocks /\ SameMarks /\ UNCHANGED <<candidates, tip, NOTARIZED>>
           /\ \E b \in candidates :
                /\ IsBest(b) /\ FailedOnPath(b) = {} /\ b # tip
                /\ \/ RefusedByDpow(t, b) /\ Return(t) /\ UNCHANGED shutdown
                   \/ shutdown' = TRUE /\ Return(t)
                   \/ /\ pindexMostWork' = [pindexMostWork EXCEPT ![t] = b]
                      /\ pc' = [pc EXCEPT ![t] = "step"] /\ UNCHANGED <<arg, shutdown>>
BY DEF StartStep, MayLock, blockVars, dpowVars, SameBlocks, SameMarks

(* What DisconnectStep does. *)
LEMMA DisconnectKinds ==
    ASSUME IInv, NEW t \in Threads, DisconnectStep(t)
    PROVE  /\ pc[t] = "step" /\ csMain = t /\ tip # Genesis
           /\ tip \notin Ancestors[pindexMostWork[t]]
           /\ SameBlocks /\ SameMarks /\ UNCHANGED <<candidates, NOTARIZED, shutdown>>
           /\ \/ tip' = Parent[tip] /\ UNCHANGED <<pc, csMain, pindexMostWork, arg>>
              \/ tip = NOTARIZED /\ Return(t) /\ UNCHANGED tip
<1>1. tip # Genesis
  BY DisconnectStepIInv
<1> QED
  BY <1>1 DEF DisconnectStep, DisconnectTip, CanDisconnectTip, blockVars, dpowVars, SameBlocks, SameMarks

(* What returning does to the thread. *)
LEMMA ReturnEffect ==
    ASSUME IInv, NEW t \in Threads, csMain \in {None, t}, Return(t)
    PROVE  /\ pc' = [pc EXCEPT ![t] = "idle"]
           /\ pindexMostWork' = [pindexMostWork EXCEPT ![t] = None]
           /\ \A u \in Threads : pc'[u] \notin {"step", "invalidate"}
<1>1. \A u \in Threads \ {t} : pc[u] \notin {"step", "invalidate"}
  BY Exclusive
<1> QED
  BY <1>1 DEF IInv, TypeOK, Return, Leave

(* Every step keeps going towards the best candidate. *)
LEMMA NextTowards == IInv /\ Towards /\ [Next]_vars => Towards'
<1> SUFFICES ASSUME IInv, Towards, [Next]_vars PROVE Towards'
  OBVIOUS
<1>0. None \notin Threads /\ pc \in [Threads -> {"idle", "find", "step", "check", "invalidate"}]
  BY TreeAssumption DEF IInv, TypeOK
<1>1. CASE WithoutData
  <2>1. \A u \in Threads : pc'[u] = "step" => pc[u] = "step"
    BY <1>0, <1>1 DEF WithoutData, ThreadStarts
  <2> QED
    BY <1>1, <2>1 DEF WithoutData, SameBlocks, OthersKeep, Towards, Worse
<1>2. ASSUME NEW t \in Threads, NEW b \in Blocks,
             WithData(t, b) \/ InvalidateBlock(t, b) \/ ReconsiderBlock(t, b)
      PROVE  Towards'
  <2>1. /\ csMain = None /\ pc[t] = "idle"
        /\ \/ pc' = [pc EXCEPT ![t] = "find"]
           \/ pc' = [pc EXCEPT ![t] = "invalidate"]
    BY <1>2 DEF WithData, InvalidateBlock, ReconsiderBlock, ThreadStarts, StartActivation
  <2>2. \A u \in Threads : pc'[u] # "step"
    BY <1>0, <2>1, Exclusive
  <2> QED
    BY <2>2, NobodySteps
<1>3. ASSUME NEW t \in Threads, DropFailedChain(t) \/ NothingToDo(t) \/ InvalidateStep(t) \/ InvalidateDone(t)
      PROVE  Towards'
  <2>1. /\ csMain \in {None, t} /\ pc[t] # "step"
        /\ UNCHANGED pc \/ Return(t) \/ pc' = [pc EXCEPT ![t] = "find"]
    BY <1>3 DEF DropFailedChain, NothingToDo, InvalidateStep, DisconnectTip, InvalidateDone, MayLock,
                StartActivation
  <2>2. \A u \in Threads : pc[u] # "step"
    BY <2>1, Exclusive
  <2>3. \A u \in Threads : pc'[u] # "step"
    BY <1>0, <2>1, <2>2, ReturnEffect
  <2> QED
    BY <2>3, NobodySteps
<1>4. ASSUME NEW t \in Threads, StartStep(t)
      PROVE  Towards'
  <2>1. /\ pc[t] = "find" /\ csMain \in {None, t} /\ UNCHANGED <<nSequenceId, candidates>>
    BY <1>4, StartKinds DEF SameBlocks
  <2>2. PICK b \in candidates :
          /\ IsBest(b)
          /\ \/ Return(t)
             \/ /\ pindexMostWork' = [pindexMostWork EXCEPT ![t] = b]
                /\ pc' = [pc EXCEPT ![t] = "step"]
    BY <1>4, StartKinds
  <2>3. CASE Return(t)
    BY <2>1, <2>3, ReturnEffect, NobodySteps
  <2>4. CASE /\ pindexMostWork' = [pindexMostWork EXCEPT ![t] = b]
             /\ pc' = [pc EXCEPT ![t] = "step"]
    <3>1. \A u \in Threads \ {t} : pc'[u] # "step"
      BY <1>0, <2>1, <2>4, Exclusive
    <3>2. pindexMostWork'[t] = b
      BY <2>4 DEF IInv, TypeOK
    <3> QED
      BY <2>1, <2>2, <3>1, <3>2 DEF Towards, IsBest, Worse
  <2> QED
    BY <2>2, <2>3, <2>4
<1>5. ASSUME NEW t \in Threads, DisconnectStep(t)
      PROVE  Towards'
  <2>1. /\ pc[t] = "step" /\ csMain = t /\ UNCHANGED <<nSequenceId, candidates>>
        /\ UNCHANGED <<pc, pindexMostWork>> \/ Return(t)
    BY <1>5, DisconnectKinds DEF SameBlocks
  <2> QED
    BY <2>1, ReturnEffect, NobodySteps DEF Towards, Worse
<1>6. ASSUME NEW t \in Threads, ConnectStep(t)
      PROVE  Towards'
  <2>1. /\ pc[t] = "step" /\ csMain = t /\ UNCHANGED <<nSequenceId, pindexMostWork>>
    BY <1>6, ConnectKinds DEF SameBlocks
  <2>2. \A u \in Threads \ {t} : pc[u] # "step"
    BY <2>1, Exclusive
  <2>3. \/ pc' = [pc EXCEPT ![t] = "check"]
        \/ UNCHANGED pc /\ pindexMostWork[t] \in candidates' /\ candidates' \subseteq candidates
    BY <1>6, ConnectKinds
  <2>4. CASE pc' = [pc EXCEPT ![t] = "check"]
    BY <1>0, <2>2, <2>4, NobodySteps
  <2>5. CASE UNCHANGED pc /\ pindexMostWork[t] \in candidates' /\ candidates' \subseteq candidates
    BY <2>1, <2>2, <2>5 DEF Towards, Worse
  <2> QED
    BY <2>3, <2>4, <2>5
<1>7. ASSUME NEW t \in Threads, CheckLoop(t)
      PROVE  Towards'
  <2>1. /\ pc[t] = "check" /\ UNCHANGED <<nSequenceId, candidates>>
        /\ pc'[t] # "step" /\ \A u \in Threads \ {t} : pc'[u] = pc[u] /\ pindexMostWork'[u] = pindexMostWork[u]
    BY <1>7 DEF CheckLoop, Leave, IInv, TypeOK, blockVars
  <2> QED
    BY <2>1 DEF Towards, Worse
<1> QED
  BY <1>1, <1>2, <1>3, <1>4, <1>5, <1>6, <1>7, StepKinds DEF Continue

(* Going to the parent is not a connection. *)
LEMMA NoLoop ==
    ASSUME NEW a \in Blocks, a # Genesis, Parent[a] # Genesis
    PROVE  Parent[Parent[a]] # a
<1>1. Parent[a] \in Blocks /\ Parent[a] # a /\ ChainPower[Parent[a]] < ChainPower[a]
  BY ParentFacts
<1>2. ChainPower[Parent[Parent[a]]] < ChainPower[Parent[a]] /\ Parent[Parent[a]] \in Blocks
  BY <1>1, ParentFacts
<1>3. ChainPower[a] \in Nat /\ ChainPower[Parent[a]] \in Nat /\ ChainPower[Parent[Parent[a]]] \in Nat
  BY <1>1, <1>2, AncestorFacts
<1> QED
  BY <1>1, <1>2, <1>3

(* The assertion at the end of PruneBlockIndexCandidates: whatever the     *)
(* tree and the other threads do, connecting a block never leaves          *)
(* setBlockIndexCandidates empty.                                          *)
THEOREM PruningLeavesOne == Spec => PruneLeavesOne
<1> DEFINE Connects == tip' # Genesis /\ tip' # tip /\ Parent[tip'] = tip
<1>1. Init => Towards
  BY DEF Init, Towards
<1>2. ASSUME IInv, Towards, [Next]_vars, Connects
      PROVE  candidates' # {}
  <2>1. \E t \in Threads : DisconnectStep(t) \/ InvalidateStep(t) \/ ConnectStep(t)
    BY <1>2 DEF Next, Continue, ReceiveHeader, ProcessNewBlock, InvalidateBlock, ReconsiderBlock,
                DropFailedChain, NothingToDo, StartStep, CheckLoop, InvalidateDone, vars
  <2>2. ASSUME NEW t \in Threads, DisconnectStep(t) \/ InvalidateStep(t)
        PROVE  FALSE
    <3>1. tip # Genesis /\ tip \in Blocks
      BY <1>2, <2>2, DisconnectStepIInv, InvalidateStepIInv DEF IInv, TypeOK
    <3>2. tip' = Parent[tip]
      BY <1>2, <2>2 DEF DisconnectStep, InvalidateStep, DisconnectTip
    <3> QED
      BY <1>2, <3>1, <3>2, NoLoop
  <2>3. ASSUME NEW t \in Threads, ConnectStep(t)
        PROVE  candidates' # {}
    BY <1>2, <2>3, ConnectKinds
  <2> QED
    BY <2>1, <2>2, <2>3
<1>3. IInv /\ Towards /\ [Next]_vars => [Connects => candidates' # {}]_vars
  BY <1>2
<1>4. IInv /\ Towards /\ [Next]_vars => Towards'
  BY NextTowards
<1>5. Spec => []IInv
  BY Invariance
<1> QED
  BY <1>1, <1>3, <1>4, <1>5, PTL DEF Spec, PruneLeavesOne

-----------------------------------------------------------------------------
(* nChainTx is exact *)

NotInvalidating == \A t \in Threads : pc[t] # "invalidate"

(* Without the RPC no thread is ever in InvalidateBlock. *)
LEMMA NextNotInvalidating ==
    ASSUME NeverInvalidated, IInv, NotInvalidating, [Next]_vars
    PROVE  NotInvalidating'
<1>1. pc \in [Threads -> {"idle", "find", "step", "check", "invalidate"}]
  BY DEF IInv, TypeOK
<1>2. \/ UNCHANGED pc
      \/ \E t \in Threads, p \in {"idle", "find", "step", "check"} : pc' = [pc EXCEPT ![t] = p]
  <2>1. CASE WithoutData
    BY <2>1 DEF WithoutData, ThreadStarts
  <2>2. ASSUME NEW t \in Threads, NEW b \in Blocks,
               WithData(t, b) \/ InvalidateBlock(t, b) \/ ReconsiderBlock(t, b)
        PROVE  pc' = [pc EXCEPT ![t] = "find"]
    BY <2>2 DEF WithData, ThreadStarts, InvalidateBlock, ReconsiderBlock, StartActivation,
                NeverInvalidated
  <2>3. ASSUME NEW t \in Threads, Continue(t)
        PROVE  UNCHANGED pc \/ \E p \in {"idle", "find", "step", "check"} : pc' = [pc EXCEPT ![t] = p]
    BY <2>3 DEF Continue, DropFailedChain, NothingToDo, StartStep, DisconnectStep, DisconnectTip, ConnectStep,
                CheckLoop, InvalidateStep, InvalidateDone, Return, Leave, EndStep, StartActivation,
                ConnectTip, InvalidBlockFound
  <2> QED
    BY <2>1, <2>2, <2>3, StepKinds
<1> QED
  BY <1>1, <1>2 DEF NotInvalidating

(* DropFailedChain marks blocks above a mark, on the way to a candidate.   *)
LEMMA DropKinds ==
    ASSUME IInv, NEW t \in Threads, DropFailedChain(t)
    PROVE  /\ pc[t] = "find" /\ csMain \in {None, t} /\ csMain' = t
           /\ SameBlocks
           /\ UNCHANGED <<failedValid, tip, NOTARIZED, pc, pindexMostWork, arg, shutdown>>
           /\ \E b \in candidates, x \in Failed :
                /\ x \in Ancestors[b] /\ x \notin Active
                /\ Ancestors[b] \subseteq linked /\ b \in Blocks
                /\ failedChild' = failedChild \cup (Ancestors[b] \ Ancestors[x])
                /\ candidates' = candidates \ ((Ancestors[b] \ Ancestors[x]) \cup {x})
                /\ \A y \in Ancestors[b] \ Ancestors[x] : y \in Blocks /\ x \in Ancestors[y]
<1>1. PICK b \in candidates : \E x \in FailedOnPath(b) :
          /\ failedChild' = failedChild \cup (Ancestors[b] \ Ancestors[x])
          /\ candidates' = candidates \ ((Ancestors[b] \ Ancestors[x]) \cup {x})
  BY DEF DropFailedChain
<1>2. PICK x \in FailedOnPath(b) :
          /\ failedChild' = failedChild \cup (Ancestors[b] \ Ancestors[x])
          /\ candidates' = candidates \ ((Ancestors[b] \ Ancestors[x]) \cup {x})
  BY <1>1
<1>3. x \in Failed /\ x \in Ancestors[b] /\ x \notin Active
  BY <1>2 DEF FailedOnPath
<1>4. Ancestors[b] \subseteq linked /\ b \in Blocks
  BY DEF IInv, TypeOK, CandidatesSound
<1>5. \A y \in Ancestors[b] \ Ancestors[x] : y \in Blocks /\ x \in Ancestors[y]
  BY <1>3, <1>4, AncestorFacts
<1>6. /\ pc[t] = "find" /\ csMain \in {None, t} /\ csMain' = t
      /\ SameBlocks
      /\ UNCHANGED <<failedValid, tip, NOTARIZED, pc, pindexMostWork, arg, shutdown>>
  BY DEF DropFailedChain, MayLock, SameBlocks, dpowVars
<1> QED
  BY <1>2, <1>3, <1>4, <1>5, <1>6

(* What the data of a block does to the blocks that wait. *)
LEMMA DataWaiting ==
    ASSUME IInv, Waiting, NEW t \in Threads, NEW b \in Blocks, WithData(t, b)
    PROVE  Waiting'
<1>1. /\ b # Genesis /\ b \notin have /\ b \notin ContextInvalid
      /\ failedValid' \subseteq failedValid /\ failedChild' \subseteq failedChild
  BY DEF WithData
<1>2. have' = have \cup {b} /\ linked \subseteq linked'
  BY DataKinds
<1>3. have' \cap ContextInvalid = {} /\ Failed' \subseteq linked' \cup ContextInvalid
  BY <1>1, <1>2 DEF Waiting, Failed
<1>4. linked \subseteq have /\ have \subseteq Blocks
  BY DEF IInv, TypeOK
<1>5. CASE Parent[b] \in linked
  <2>1. linked' = linked \cup NowLinked(b) /\ unlinked' = unlinked \ NowLinked(b)
    BY <1>5, DataKinds
  <2>2. b \in NowLinked(b)
    BY DEF NowLinked
  <2>3. ASSUME NEW x \in have' \ linked'
        PROVE  x \in have \ linked /\ (x \in unlinked' \/ Parent[x] \in ContextInvalid)
    BY <1>2, <2>1, <2>2, <2>3 DEF Waiting
  <2>4. ASSUME NEW x \in have' \ linked', \A y \in Ancestors[x] : y \in have'
        PROVE  FALSE
    <3>1. x \in have \ linked /\ x \in Blocks /\ x \notin NowLinked(b)
      BY <1>4, <2>1, <2>3
    <3>2. b \in Ancestors[x]
      BY <1>2, <2>4, <3>1 DEF Waiting
    <3>3. ASSUME NEW z \in Ancestors[x] \ Ancestors[b]
          PROVE  z \in unlinked
      <4>1. z \in Blocks /\ b \in Ancestors[z] /\ z # b /\ z # Genesis
        BY <3>1, <3>2, AncestorFacts
      <4>2. z \in have \ linked
        BY <1>1, <1>2, <1>4, <2>4, <4>1 DEF IInv, Links
      <4>3. Parent[z] \in Ancestors[x] /\ Parent[z] \in have'
        BY <2>4, <3>1, <4>1, ParentFacts, AncestorFacts
      <4>4. Parent[z] \notin ContextInvalid
        BY <1>3, <4>3
      <4> QED
        BY <4>2, <4>4 DEF Waiting
    <3>4. x \notin Ancestors[b]
      <4>1. Ancestors[b] \subseteq linked \cup {b}
        BY <1>1, <1>5, ParentFacts DEF IInv, Links
      <4> QED
        BY <1>1, <3>1, <4>1
    <3>5. x \in unlinked
      BY <3>1, <3>3, <3>4, AncestorFacts
    <3> QED
      BY <3>1, <3>2, <3>3, <3>5 DEF NowLinked
  <2> QED
    BY <1>3, <2>3, <2>4 DEF Waiting
<1>6. CASE Parent[b] \notin linked
  <2>1. /\ linked' = linked
        /\ \/ unlinked' = unlinked \cup {b}
           \/ unlinked' = unlinked /\ Parent[b] \in failedValid' \cup failedChild'
    BY <1>6, DataKinds
  <2>2. b \in unlinked' \/ Parent[b] \in ContextInvalid
    BY <1>1, <1>6, <2>1 DEF Waiting, Failed
  <2>3. \A x \in have \ linked : x \in unlinked' \/ Parent[x] \in ContextInvalid
    BY <2>1 DEF Waiting
  <2>4. PICK y \in Ancestors[Parent[b]] : y \notin have
    <3>1. Parent[b] \in Ancestors[Parent[b]]
      BY <1>1, ParentFacts, AncestorFacts
    <3> QED
      BY <1>6, <3>1 DEF Waiting
  <2>5. y \in Ancestors[b] /\ y # b
    BY <1>1, <2>4, ParentFacts, TreeAssumption
  <2>6. ASSUME NEW x \in have' \ linked'
        PROVE  \E z \in Ancestors[x] : z \notin have'
    <3>1. x \in Blocks
      BY <1>2, <1>4
    <3>2. CASE b \in Ancestors[x]
      BY <1>2, <2>4, <2>5, <3>1, <3>2, AncestorFacts
    <3>3. CASE b \notin Ancestors[x]
      <4>1. x \in have \ linked
        BY <1>2, <2>1, <3>1, <3>3, AncestorFacts
      <4> QED
        BY <1>2, <3>3, <4>1 DEF Waiting
    <3> QED
      BY <3>2, <3>3
  <2> QED
    BY <1>2, <1>3, <2>1, <2>2, <2>3, <2>6 DEF Waiting
<1> QED
  BY <1>5, <1>6

(* Every step without invalidateblock keeps what waits. *)
LEMMA NextWaiting ==
    ASSUME NeverInvalidated, IInv, Towards, NotInvalidating, Waiting, [Next]_vars
    PROVE  Waiting'
<1>1. CASE WithoutData
  BY <1>1 DEF WithoutData, SameBlocks, Waiting, Failed
<1>2. ASSUME NEW t \in Threads, NEW b \in Blocks,
             WithData(t, b) \/ InvalidateBlock(t, b) \/ ReconsiderBlock(t, b)
      PROVE  Waiting'
  <2>1. CASE WithData(t, b)
    BY <2>1, DataWaiting
  <2>2. ~InvalidateBlock(t, b)
    BY DEF NeverInvalidated, InvalidateBlock
  <2>3. CASE ReconsiderBlock(t, b)
    BY <2>3 DEF ReconsiderBlock, Waiting, Failed
  <2> QED
    BY <1>2, <2>1, <2>2, <2>3
<1>3. ASSUME NEW t \in Threads, Continue(t)
      PROVE  Waiting'
  <2>1. CASE DropFailedChain(t)
    <3>1. SameBlocks /\ failedValid' = failedValid /\ failedChild' \subseteq failedChild \cup linked
      BY <2>1, DropKinds
    <3> QED
      BY <3>1 DEF SameBlocks, Waiting, Failed
  <2>2. CASE NothingToDo(t) \/ CheckLoop(t)
    BY <2>2 DEF NothingToDo, CheckLoop, blockVars, Waiting, Failed
  <2>3. CASE StartStep(t) \/ DisconnectStep(t)
    <3>1. SameBlocks /\ SameMarks
      BY <2>3, StartKinds, DisconnectKinds
    <3> QED
      BY <3>1 DEF SameBlocks, SameMarks, Waiting, Failed
  <2>4. CASE ConnectStep(t)
    <3>1. SameBlocks /\ failedValid' \subseteq failedValid \cup linked /\ failedChild' = failedChild
      BY <2>4, ConnectKinds DEF InvalidBlockFound
    <3> QED
      BY <3>1 DEF SameBlocks, Waiting, Failed
  <2>5. ~InvalidateStep(t) /\ ~InvalidateDone(t)
    BY DEF NotInvalidating, InvalidateStep, InvalidateDone
  <2> QED
    BY <1>3, <2>1, <2>2, <2>3, <2>4, <2>5 DEF Continue
<1> QED
  BY <1>1, <1>2, <1>3, StepKinds

(* CheckBlockIndex on nChainTx, in whatever order headers and blocks       *)
(* arrive: without invalidateblock, a block is linked exactly when it and  *)
(* all its ancestors have data, although mapBlocksUnlinked forgets the     *)
(* children of failed blocks.                                              *)
THEOREM LinkedIsExact == NeverInvalidated => (Spec => []LinkedExact)
<1> SUFFICES ASSUME NeverInvalidated PROVE Spec => []LinkedExact
  OBVIOUS
<1>1. Init => Towards /\ NotInvalidating /\ Waiting
  <2> SUFFICES ASSUME Init PROVE Towards /\ NotInvalidating /\ Waiting
    OBVIOUS
  <2>1. Towards /\ NotInvalidating
    BY DEF Init, Towards, NotInvalidating
  <2>2. Waiting
    BY ParameterAssumption DEF Init, Waiting, Failed
  <2> QED
    BY <2>1, <2>2
<1>2. IInv /\ Towards /\ NotInvalidating /\ Waiting /\ [Next]_vars
        => Towards' /\ NotInvalidating' /\ Waiting'
  BY NextTowards, NextNotInvalidating, NextWaiting
<1>3. IInv /\ Waiting => LinkedExact
  BY DEF IInv, TypeOK, Links, Waiting, LinkedExact
<1>4. Spec => []IInv
  BY Invariance
<1> QED
  BY <1>1, <1>2, <1>3, <1>4, PTL DEF Spec

-----------------------------------------------------------------------------
(* No mark on the active chain *)

(* What the hypotheses exclude never happens. *)
Excluded ==
    /\ NeverInvalidated => NotInvalidating
    /\ NoNotarisation => NOTARIZED = None

(* Without notarisations in blocks, none is ever applied. *)
LEMMA NextExcluded ==
    ASSUME IInv, Towards, Excluded, [Next]_vars
    PROVE  Excluded'
<1>1. NeverInvalidated => NotInvalidating'
  BY NextNotInvalidating DEF Excluded
<1>2. ASSUME NoNotarisation
      PROVE  NOTARIZED' = None
  <2>1. NOTARIZED = None
    BY <1>2 DEF Excluded
  <2>2. CASE UNCHANGED NOTARIZED
    BY <2>1, <2>2
  <2>3. ASSUME NEW t \in Threads, ConnectStep(t)
        PROVE  NOTARIZED' = None
    <3>1. PICK b \in Blocks \ {Genesis} : UNCHANGED NOTARIZED \/ ApplyNotarisation(b)
      BY <2>3, ConnectKinds
    <3>2. Notarisation(b) = None
      BY <1>2 DEF NoNotarisation, Notarisation
    <3> QED
      BY <2>1, <3>1, <3>2 DEF ApplyNotarisation, dpowVars
  <2>4. UNCHANGED NOTARIZED \/ \E t \in Threads : ConnectStep(t)
    BY DEF Next, Continue, ReceiveHeader, ProcessNewBlock, InvalidateBlock, ReconsiderBlock,
           DropFailedChain, NothingToDo, StartStep, DisconnectStep, CheckLoop, InvalidateStep,
           InvalidateDone, vars, dpowVars
  <2> QED
    BY <2>2, <2>3, <2>4
<1> QED
  BY <1>1, <1>2 DEF Excluded, NeverInvalidated, NoNotarisation

(* While no thread invalidates, the active chain has no marks. *)
LEMMA Unmarked ==
    ASSUME IInv, PathValid, \A u \in Threads : pc[u] # "invalidate"
    PROVE  Active \cap Failed = {}
BY DEF PathValid

(* A step that ends with no thread in a loop and no mark on the chain. *)
LEMMA UnmarkedKeeps ==
    ASSUME \A u \in Threads : pc'[u] # "step", (Active \cap Failed)' = {}
    PROVE  PathValid'
BY DEF PathValid

(* Marks are set off the active chain, except by invalidateblock, which    *)
(* disconnects what it marked unless the block is notarised.               *)
LEMMA NextPathValid ==
    ASSUME NeverInvalidated \/ NoNotarisation, IInv, Towards, Excluded, PathValid, [Next]_vars
    PROVE  PathValid'
<1>0. /\ None \notin Threads /\ pc \in [Threads -> {"idle", "find", "step", "check", "invalidate"}]
      /\ tip \in Blocks /\ tip \in linked /\ linked \subseteq have
  BY TreeAssumption DEF IInv, TypeOK
<1>1. CASE WithoutData
  <2>1. Failed' \subseteq Failed \cup (ContextInvalid \ have)
    BY <1>1 DEF WithoutData, Failed
  <2>2. \A x \in linked : Ancestors[x] \subseteq have
    BY <1>0 DEF IInv, Links
  <2>3. \A u \in Threads : /\ pc'[u] = "step" => pc[u] = "step"
                           /\ pc[u] = "invalidate" => pc'[u] = "invalidate"
    BY <1>0, <1>1 DEF WithoutData, ThreadStarts
  <2>4. \A u \in Threads : pc[u] = "step" => pindexMostWork[u] \in linked
    BY DEF IInv, Working
  <2>5. UNCHANGED <<tip, pindexMostWork, arg>>
    BY <1>1 DEF WithoutData, OthersKeep
  <2>6. \A u \in Threads : pc'[u] = "step" => Ancestors[pindexMostWork'[u]] \cap Failed' = {}
    BY <2>1, <2>2, <2>3, <2>4, <2>5 DEF PathValid
  <2>7. Active' \cap Failed' \subseteq Active \cap Failed
    BY <1>0, <2>1, <2>2, <2>5 DEF Active
  <2> QED
    BY <2>3, <2>5, <2>6, <2>7 DEF PathValid
<1>2. ASSUME NEW t \in Threads, NEW b \in Blocks,
             WithData(t, b) \/ InvalidateBlock(t, b) \/ ReconsiderBlock(t, b)
      PROVE  PathValid'
  <2>1. csMain = None /\ pc[t] = "idle" /\ UNCHANGED tip
    BY <1>2 DEF WithData, InvalidateBlock, ReconsiderBlock, ThreadStarts, OthersKeep
  <2>2. \A u \in Threads : pc[u] \notin {"step", "invalidate"}
    BY <2>1, Exclusive
  <2>3. Active \cap Failed = {}
    BY <2>2, Unmarked
  <2>4. CASE WithData(t, b) \/ ReconsiderBlock(t, b)
    <3>1. pc' = [pc EXCEPT ![t] = "find"] /\ Failed' \subseteq Failed
      BY <2>4 DEF WithData, ReconsiderBlock, ThreadStarts, StartActivation, Failed
    <3> QED
      BY <1>0, <2>1, <2>2, <2>3, <3>1, UnmarkedKeeps DEF Active
  <2>5. CASE InvalidateBlock(t, b)
    <3>1. /\ pc' = [pc EXCEPT ![t] = "invalidate"] /\ arg' = b
          /\ Failed' = Failed \cup {b}
      BY <2>5 DEF InvalidateBlock, Failed
    <3>2. pc'[t] = "invalidate" /\ \A u \in Threads : pc'[u] # "step"
      BY <1>0, <2>2, <3>1
    <3>3. Active' \cap Failed' \subseteq {b} /\ b \in Ancestors[b]
      BY <2>1, <2>3, <3>1, AncestorFacts DEF Active
    <3> QED
      BY <3>1, <3>2, <3>3 DEF PathValid
  <2> QED
    BY <1>2, <2>4, <2>5
<1>3. ASSUME NEW t \in Threads, DropFailedChain(t)
      PROVE  PathValid'
  <2>1. /\ pc[t] = "find" /\ csMain \in {None, t} /\ UNCHANGED <<failedValid, tip, pc>>
    BY <1>3, DropKinds
  <2>2. \A u \in Threads : pc[u] \notin {"step", "invalidate"}
    BY <2>1, Exclusive
  <2>3. Active \cap Failed = {}
    BY <2>2, Unmarked
  <2>4. PICK b \in candidates, x \in Failed :
          /\ x \notin Active
          /\ failedChild' = failedChild \cup (Ancestors[b] \ Ancestors[x])
          /\ \A y \in Ancestors[b] \ Ancestors[x] : y \in Blocks /\ x \in Ancestors[y]
    BY <1>3, DropKinds
  <2>5. \A y \in Ancestors[b] \ Ancestors[x] : y \notin Active
    BY <1>0, <2>4, AncestorFacts DEF Active
  <2>6. (Active \cap Failed)' = {}
    BY <2>1, <2>3, <2>4, <2>5 DEF Active, Failed
  <2> QED
    BY <2>1, <2>2, <2>6, UnmarkedKeeps
<1>4. ASSUME NEW t \in Threads, NothingToDo(t) \/ StartStep(t)
      PROVE  PathValid'
  <2>1. pc[t] = "find" /\ csMain \in {None, t} /\ SameMarks /\ UNCHANGED tip
    BY <1>4, StartKinds DEF NothingToDo, MayLock, blockVars, SameMarks
  <2>2. \A u \in Threads : pc[u] \notin {"step", "invalidate"}
    BY <2>1, Exclusive
  <2>3. Active \cap Failed = {} /\ (Active \cap Failed)' = {}
    BY <2>1, <2>2, Unmarked DEF SameMarks, Failed, Active
  <2>4. CASE Return(t)
    BY <2>1, <2>3, <2>4, ReturnEffect, UnmarkedKeeps
  <2>5. ASSUME NEW b \in candidates, FailedOnPath(b) = {},
               pindexMostWork' = [pindexMostWork EXCEPT ![t] = b], pc' = [pc EXCEPT ![t] = "step"]
        PROVE  PathValid'
    <3>1. Ancestors[b] \cap Failed = {}
      BY <2>3, <2>5 DEF FailedOnPath
    <3>2. pindexMostWork'[t] = b /\ \A u \in Threads : pc'[u] = "step" => u = t
      BY <1>0, <2>2, <2>5 DEF IInv, TypeOK
    <3> QED
      BY <2>1, <2>3, <3>1, <3>2 DEF PathValid, SameMarks, Failed
  <2> QED
    BY <1>4, <2>4, <2>5, StartKinds DEF NothingToDo
<1>5. ASSUME NEW t \in Threads, DisconnectStep(t)
      PROVE  PathValid'
  <2>1. /\ pc[t] = "step" /\ csMain = t /\ tip # Genesis /\ SameMarks
        /\ \/ tip' = Parent[tip] /\ UNCHANGED <<pc, pindexMostWork>>
           \/ Return(t) /\ UNCHANGED tip
    BY <1>5, DisconnectKinds
  <2>2. \A u \in Threads : pc[u] # "invalidate"
    BY <2>1, Exclusive
  <2>3. Active \cap Failed = {}
    BY <2>2, Unmarked
  <2>4. Active' \subseteq Active
    BY <1>0, <2>1, ParentFacts DEF Active
  <2>5. (Active \cap Failed)' = {}
    BY <2>1, <2>3, <2>4 DEF SameMarks, Failed
  <2>6. CASE UNCHANGED <<pc, pindexMostWork>>
    BY <2>1, <2>5, <2>6 DEF PathValid, SameMarks, Failed
  <2>7. CASE Return(t)
    BY <2>1, <2>5, <2>7, ReturnEffect, UnmarkedKeeps
  <2> QED
    BY <2>1, <2>6, <2>7
<1>6. ASSUME NEW t \in Threads, ConnectStep(t)
      PROVE  PathValid'
  <2>1. /\ pc[t] = "step" /\ csMain = t /\ UNCHANGED <<failedChild, pindexMostWork>>
    BY <1>6, ConnectKinds
  <2>2. PICK b \in Blocks \ {Genesis} :
           /\ Parent[b] = tip /\ b \in Ancestors[pindexMostWork[t]]
           /\ \/ /\ failedValid' = failedValid \cup {b} /\ UNCHANGED tip
                 /\ pc' = [pc EXCEPT ![t] = "check"]
              \/ /\ tip' = b /\ UNCHANGED failedValid
                 /\ pc' = [pc EXCEPT ![t] = "check"] \/ UNCHANGED pc
    BY <1>6, ConnectKinds DEF InvalidBlockFound
  <2>3. \A u \in Threads \ {t} : pc[u] \notin {"step", "invalidate"}
    BY <2>1, Exclusive
  <2>4. Active \cap Failed = {} /\ Ancestors[pindexMostWork[t]] \cap Failed = {}
    BY <2>1, <2>3, Unmarked DEF PathValid
  <2>5. CASE failedValid' = failedValid \cup {b} /\ UNCHANGED tip /\ pc' = [pc EXCEPT ![t] = "check"]
    <3>1. b \notin Active
      BY <2>2, TreeAssumption DEF Active
    <3>2. (Active \cap Failed)' = {}
      BY <2>1, <2>4, <2>5, <3>1 DEF Active, Failed
    <3> QED
      BY <1>0, <2>3, <2>5, <3>2, UnmarkedKeeps
  <2>6. CASE /\ tip' = b /\ UNCHANGED failedValid
             /\ pc' = [pc EXCEPT ![t] = "check"] \/ UNCHANGED pc
    <3>1. pindexMostWork[t] \in Blocks
      BY <2>1 DEF IInv, TypeOK, Working
    <3>2. Ancestors[b] \subseteq Ancestors[pindexMostWork[t]]
      BY <2>2, <3>1, AncestorFacts
    <3>3. (Active \cap Failed)' = {}
      BY <2>1, <2>4, <2>6, <3>2 DEF Active, Failed
    <3>4. \A u \in Threads : pc'[u] = "step" => u = t
      BY <1>0, <2>3, <2>6
    <3> QED
      BY <2>1, <2>4, <2>6, <3>3, <3>4 DEF PathValid, Failed
  <2> QED
    BY <2>2, <2>5, <2>6
<1>7. ASSUME NEW t \in Threads, CheckLoop(t)
      PROVE  PathValid'
  <2>1. /\ pc[t] = "check" /\ SameMarks /\ UNCHANGED <<tip, arg>>
        /\ pc'[t] \notin {"step", "invalidate"}
        /\ \A u \in Threads \ {t} : pc'[u] = pc[u] /\ pindexMostWork'[u] = pindexMostWork[u]
    BY <1>7 DEF CheckLoop, Leave, IInv, TypeOK, blockVars, SameMarks
  <2> QED
    BY <2>1 DEF PathValid, SameMarks, Failed, Active
<1>8. ASSUME NEW t \in Threads, InvalidateStep(t)
      PROVE  PathValid'
  <2>1. /\ pc[t] = "invalidate" /\ csMain = t
        /\ failedChild' = failedChild \cup {tip} /\ UNCHANGED failedValid
        /\ \/ tip' = Parent[tip] /\ UNCHANGED <<pc, pindexMostWork, arg>>
           \/ tip = NOTARIZED
    BY <1>8 DEF InvalidateStep, DisconnectTip, CanDisconnectTip
  <2>2. tip # Genesis
    BY <1>8, InvalidateStepIInv
  <2>3. tip # NOTARIZED
    BY <1>0, <2>1, TreeAssumption DEF Excluded, NotInvalidating
  <2>4. \A u \in Threads : pc[u] # "step"
    BY <2>1, Exclusive
  <2>5. Active' \subseteq Active /\ tip \notin Active'
    BY <1>0, <2>1, <2>2, <2>3, ParentFacts, TreeAssumption DEF Active
  <2>6. Active' \cap Failed' \subseteq Active \cap Failed
    BY <2>1, <2>5 DEF Failed
  <2> QED
    BY <2>1, <2>3, <2>4, <2>6 DEF PathValid
<1>9. ASSUME NEW t \in Threads, InvalidateDone(t)
      PROVE  PathValid'
  <2>1. /\ pc[t] = "invalidate" /\ csMain = t /\ arg \notin Active
        /\ SameMarks /\ UNCHANGED tip /\ pc' = [pc EXCEPT ![t] = "find"]
    BY <1>9 DEF InvalidateDone, StartActivation, SameMarks
  <2>2. \A u \in Threads \ {t} : pc[u] \notin {"step", "invalidate"}
    BY <2>1, Exclusive
  <2>3. Active \cap Failed = {}
    BY <1>0, <2>1, AncestorFacts DEF PathValid, Active
  <2> QED
    BY <1>0, <2>1, <2>2, <2>3, UnmarkedKeeps DEF SameMarks, Failed, Active
<1> QED
  BY <1>1, <1>2, <1>3, <1>4, <1>5, <1>6, <1>7, <1>8, <1>9, StepKinds DEF Continue

(* FindMostWorkChain's premise that the active chain is valid: no block of *)
(* it carries a failure mark when another thread may enter cs_main.  It    *)
(* needs one of the two mechanisms to be unused: invalidateblock on a      *)
(* notarised block marks it and leaves it connected.                       *)
THEOREM ActiveChainIsValid ==
    (NeverInvalidated \/ NoNotarisation) => (Spec => []ActiveChainValid)
<1> SUFFICES ASSUME NeverInvalidated \/ NoNotarisation PROVE Spec => []ActiveChainValid
  OBVIOUS
<1>1. Init => Towards /\ Excluded /\ PathValid
  BY DEF Init, Towards, Excluded, NotInvalidating, PathValid, Failed
<1>2. IInv /\ Towards /\ Excluded /\ PathValid /\ [Next]_vars
        => Towards' /\ Excluded' /\ PathValid'
  BY NextTowards, NextExcluded, NextPathValid
<1>3. IInv /\ PathValid => ActiveChainValid
  <2> SUFFICES ASSUME IInv, PathValid, Quiet PROVE Active \cap Failed = {}
    BY DEF ActiveChainValid
  <2>1. \A u \in Threads : pc[u] # "invalidate"
    BY TreeAssumption DEF IInv, Working, Quiet
  <2> QED
    BY <2>1, Unmarked
<1>4. Spec => []IInv
  BY Invariance
<1> QED
  BY <1>1, <1>2, <1>3, <1>4, PTL DEF Spec

-----------------------------------------------------------------------------
(* The best chain becomes active *)

(* Without invalidateblock every mark has a broken rule at or below it. *)
Justified == \A x \in Failed : Ancestors[x] \cap (Invalid \cup ContextInvalid) # {}

(* Every step without invalidateblock marks blocks for such a reason. *)
LEMMA NextJustified ==
    ASSUME NeverInvalidated, IInv, Towards, NotInvalidating, Justified, [Next]_vars
    PROVE  Justified'
<1>0. failedValid \subseteq Blocks /\ failedChild \subseteq Blocks
  BY DEF IInv, TypeOK
<1>1. CASE WithoutData
  <2>1. Failed' \subseteq Failed \cup ContextInvalid
    BY <1>1 DEF WithoutData, Failed
  <2>2. \A x \in ContextInvalid : x \in Ancestors[x]
    BY ParameterAssumption, AncestorFacts
  <2> QED
    BY <2>1, <2>2 DEF Justified
<1>2. ASSUME NEW t \in Threads, NEW b \in Blocks,
             WithData(t, b) \/ InvalidateBlock(t, b) \/ ReconsiderBlock(t, b)
      PROVE  Justified'
  <2>1. Failed' \subseteq Failed
    BY <1>2 DEF WithData, InvalidateBlock, ReconsiderBlock, NeverInvalidated, Failed
  <2> QED
    BY <2>1 DEF Justified
<1>3. ASSUME NEW t \in Threads, DropFailedChain(t)
      PROVE  Justified'
  <2>1. PICK b \in candidates, x \in Failed :
          /\ failedChild' = failedChild \cup (Ancestors[b] \ Ancestors[x])
          /\ \A y \in Ancestors[b] \ Ancestors[x] : y \in Blocks /\ x \in Ancestors[y]
    BY <1>3, DropKinds
  <2>2. UNCHANGED failedValid
    BY <1>3, DropKinds
  <2>3. \A y \in Ancestors[b] \ Ancestors[x] : Ancestors[x] \subseteq Ancestors[y]
    BY <2>1, AncestorFacts
  <2> QED
    BY <2>1, <2>2, <2>3 DEF Justified, Failed
<1>4. ASSUME NEW t \in Threads, ConnectStep(t)
      PROVE  Justified'
  <2>1. PICK b \in Blocks :
          /\ UNCHANGED failedChild
          /\ UNCHANGED failedValid \/ (b \in Invalid /\ failedValid' = failedValid \cup {b})
    BY <1>4, ConnectKinds DEF InvalidBlockFound
  <2>2. b \in Ancestors[b]
    BY AncestorFacts
  <2> QED
    BY <2>1, <2>2 DEF Justified, Failed
<1>5. ASSUME NEW t \in Threads, NothingToDo(t) \/ StartStep(t) \/ DisconnectStep(t) \/ CheckLoop(t)
      PROVE  Justified'
  <2>1. SameMarks
    BY <1>5, StartKinds, DisconnectKinds DEF NothingToDo, CheckLoop, blockVars, SameMarks
  <2> QED
    BY <2>1 DEF SameMarks, Justified, Failed
<1>6. \A t \in Threads : ~InvalidateStep(t) /\ ~InvalidateDone(t)
  BY DEF NotInvalidating, InvalidateStep, InvalidateDone
<1> QED
  BY <1>1, <1>2, <1>3, <1>4, <1>5, <1>6, StepKinds DEF Continue

(* A good block is a block, and its ancestors are good. *)
LEMMA GoodFacts ==
    ASSUME IInv, NEW b, Good(b)
    PROVE  b \in Blocks /\ b \in linked /\ \A a \in Ancestors[b] : Good(a)
<1>1. b \in Blocks /\ b \in linked
  BY DEF IInv, TypeOK, Good
<1>2. ASSUME NEW a \in Ancestors[b] PROVE Good(a)
  <2>1. a \in linked /\ Ancestors[a] \subseteq Ancestors[b]
    BY <1>1, AncestorFacts DEF IInv, Links
  <2> QED
    BY <2>1 DEF Good
<1> QED
  BY <1>1, <1>2

(* A block that breaks a rule or sits on a marked one is not good. *)
LEMMA MarkedNotGood ==
    ASSUME IInv, Waiting, Justified, NEW x \in Failed, NEW y \in Blocks, x \in Ancestors[y]
    PROVE  ~Good(y)
<1> SUFFICES ASSUME Good(y) PROVE FALSE
  OBVIOUS
<1>1. Ancestors[y] \subseteq have /\ Ancestors[x] \subseteq Ancestors[y]
  BY AncestorFacts DEF Good, IInv, TypeOK, Links
<1>2. Ancestors[y] \cap ContextInvalid = {}
  BY <1>1 DEF Waiting
<1> QED
  BY <1>1, <1>2 DEF Good, Justified

(* Nothing that Covered reads changes, except that candidates may grow.    *)
LEMMA CoveredFrame ==
    ASSUME Covered, UNCHANGED <<linked, nSequenceId, tip>>, candidates \subseteq candidates'
    PROVE  Covered'
BY DEF Covered, Good, Worse

(* A candidate that is removed is not good. *)
LEMMA CoveredRemoval ==
    ASSUME Covered, UNCHANGED <<linked, nSequenceId, tip>>,
           \A c \in candidates : Good(c) => c \in candidates'
    PROVE  Covered'
BY DEF Covered, Good, Worse

(* The data of a block: the new good blocks are candidates themselves, or  *)
(* worse than the tip.                                                     *)
LEMMA CoveredData ==
    ASSUME IInv, Covered, NEW t \in Threads, NEW b \in Blocks, WithData(t, b)
    PROVE  Covered'
<1>0. /\ tip \in linked /\ tip \in Blocks /\ linked \subseteq Blocks /\ candidates \subseteq Blocks
      /\ nSequenceId \in [Blocks -> Nat]
  BY DEF IInv, TypeOK
<1>1. /\ nSequenceId' \in [Blocks -> Nat] /\ linked \subseteq linked'
      /\ \A x \in linked : nSequenceId'[x] = nSequenceId[x]
  BY DataKinds
<1>2. UNCHANGED tip
  BY DEF WithData, OthersKeep
<1>3. \A x : Good(x) => Good(x)'
  BY <1>1 DEF Good
<1>4. \A x, y \in linked : Worse(x, y, nSequenceId') = Worse(x, y, nSequenceId)
  BY <1>1 DEF Worse
<1>5. ASSUME NEW x \in linked, Good(x)
      PROVE  \E c \in candidates : Good(c)' /\ ~Worse(c, x, nSequenceId') /\ c \in linked
  <2>1. PICK c \in candidates : Good(c) /\ ~Worse(c, x, nSequenceId)
    BY <1>0, <1>5 DEF Covered
  <2>2. c \in linked
    BY <2>1 DEF Good
  <2> QED
    BY <1>3, <1>4, <2>1, <2>2
<1>6. Good(tip)'
  BY <1>2, <1>3 DEF Covered, Good
<1>7. CASE Parent[b] \in linked
  <2>1. /\ linked' = linked \cup NowLinked(b)
        /\ candidates' = candidates \cup {x \in NowLinked(b) : ~Worse(x, tip, nSequenceId')}
        /\ NowLinked(b) \subseteq Blocks
    BY <1>7, DataKinds
  <2>2. ASSUME NEW x \in Blocks, Good(x)'
        PROVE  \E c \in candidates' : Good(c)' /\ ~Worse(c, x, nSequenceId')
    <3>1. CASE x \in linked
      <4>1. Good(x)
        BY <2>2, <3>1 DEF Good
      <4> QED
        BY <1>5, <2>1, <3>1, <4>1
    <3>2. CASE x \in NowLinked(b) /\ ~Worse(x, tip, nSequenceId')
      BY <1>1, <2>1, <2>2, <3>2, WorseFacts
    <3>3. CASE Worse(x, tip, nSequenceId')
      <4>1. PICK c \in candidates : Good(c)' /\ ~Worse(c, tip, nSequenceId')
        BY <1>0, <1>5 DEF Covered
      <4>2. ~Worse(tip, x, nSequenceId')
        BY <1>0, <1>1, <3>3, WorseFacts
      <4>3. ~Worse(c, x, nSequenceId')
        BY <1>0, <1>1, <4>1, <4>2, WorseFacts
      <4> QED
        BY <2>1, <4>1, <4>3
    <3> QED
      BY <2>1, <2>2, <3>1, <3>2, <3>3 DEF Good
  <2> QED
    BY <1>6, <2>2 DEF Covered
<1>8. CASE Parent[b] \notin linked
  <2>1. UNCHANGED <<linked, nSequenceId, candidates>>
    BY <1>8, DataKinds
  <2> QED
    BY <1>2, <2>1, CoveredFrame
<1> QED
  BY <1>7, <1>8

(* Connecting a good block prunes only candidates for which there is a     *)
(* better one.                                                             *)
LEMMA CoveredPruned ==
    ASSUME IInv, Covered, NEW b \in linked \ {Genesis}, Parent[b] = tip, b \notin Invalid,
           tip' = b, candidates' = Pruned(b), UNCHANGED <<linked, nSequenceId>>
    PROVE  Covered'
<1>0. /\ linked \subseteq Blocks /\ candidates \subseteq Blocks /\ b \in Blocks
      /\ nSequenceId \in [Blocks -> Nat]
  BY DEF IInv, TypeOK
<1>1. Good(b)
  BY <1>0, ParentFacts DEF Covered, Good
<1>2. PICK d \in candidates : Good(d) /\ ~Worse(d, b, nSequenceId)
  BY <1>0, <1>1 DEF Covered
<1>3. ASSUME NEW x \in Blocks, Good(x)
      PROVE  \E c \in Pruned(b) : Good(c) /\ ~Worse(c, x, nSequenceId)
  <2>1. PICK c \in candidates : Good(c) /\ ~Worse(c, x, nSequenceId)
    BY <1>3 DEF Covered
  <2>2. CASE ~Worse(c, b, nSequenceId)
    BY <2>1, <2>2 DEF Pruned
  <2>3. CASE Worse(c, b, nSequenceId)
    <3>1. ~Worse(b, c, nSequenceId)
      BY <1>0, <2>3, WorseFacts
    <3>2. ~Worse(b, x, nSequenceId)
      BY <1>0, <2>1, <3>1, WorseFacts
    <3>3. ~Worse(d, x, nSequenceId)
      BY <1>0, <1>2, <3>2, WorseFacts
    <3> QED
      BY <1>2, <3>3 DEF Pruned
  <2> QED
    BY <2>2, <2>3
<1> QED
  BY <1>1, <1>3 DEF Covered, Good, Worse

(* No step loses the candidates of a good block. *)
LEMMA NextCovered ==
    ASSUME NeverInvalidated, IInv, Towards, NotInvalidating, Waiting, Justified, Covered, [Next]_vars
    PROVE  Covered'
<1>1. CASE WithoutData
  BY <1>1, CoveredFrame DEF WithoutData, SameBlocks, OthersKeep
<1>2. ASSUME NEW t \in Threads, NEW b \in Blocks,
             WithData(t, b) \/ InvalidateBlock(t, b) \/ ReconsiderBlock(t, b)
      PROVE  Covered'
  <2>1. ~InvalidateBlock(t, b)
    BY DEF NeverInvalidated, InvalidateBlock
  <2>2. CASE ReconsiderBlock(t, b)
    BY <2>2, CoveredFrame DEF ReconsiderBlock
  <2> QED
    BY <1>2, <2>1, <2>2, CoveredData
<1>3. ASSUME NEW t \in Threads, DropFailedChain(t)
      PROVE  Covered'
  <2>1. PICK b \in candidates, x \in Failed :
          /\ x \in Ancestors[b] /\ b \in Blocks
          /\ candidates' = candidates \ ((Ancestors[b] \ Ancestors[x]) \cup {x})
          /\ \A y \in Ancestors[b] \ Ancestors[x] : y \in Blocks /\ x \in Ancestors[y]
    BY <1>3, DropKinds
  <2>2. UNCHANGED <<linked, nSequenceId, tip>>
    BY <1>3, DropKinds DEF SameBlocks
  <2>3. x \in Blocks /\ x \in Ancestors[x]
    BY <2>1, AncestorFacts
  <2>4. \A c \in candidates : Good(c) => c \in candidates'
    BY <2>1, <2>3, MarkedNotGood
  <2> QED
    BY <2>2, <2>4, CoveredRemoval
<1>4. ASSUME NEW t \in Threads, NothingToDo(t) \/ StartStep(t) \/ CheckLoop(t)
      PROVE  Covered'
  <2>1. UNCHANGED <<linked, nSequenceId, tip, candidates>>
    BY <1>4, StartKinds DEF NothingToDo, CheckLoop, blockVars, SameBlocks
  <2> QED
    BY <2>1, CoveredFrame
<1>5. ASSUME NEW t \in Threads, DisconnectStep(t)
      PROVE  Covered'
  <2>1. /\ UNCHANGED <<linked, nSequenceId, candidates>> /\ tip # Genesis
        /\ tip' = Parent[tip] \/ UNCHANGED tip
    BY <1>5, DisconnectKinds DEF SameBlocks
  <2>2. Good(Parent[tip])
    BY <2>1, ParentFacts, GoodFacts DEF Covered, IInv, TypeOK
  <2> QED
    BY <2>1, <2>2 DEF Covered, Good, Worse
<1>6. ASSUME NEW t \in Threads, ConnectStep(t)
      PROVE  Covered'
  <2>1. PICK b \in Blocks \ {Genesis} :
          /\ Parent[b] = tip /\ b \in linked
          /\ \/ b \in Invalid /\ InvalidBlockFound(b) /\ UNCHANGED tip
             \/ b \notin Invalid /\ tip' = b /\ candidates' = Pruned(b)
    BY <1>6, ConnectKinds
  <2>2. UNCHANGED <<linked, nSequenceId>>
    BY <1>6, ConnectKinds DEF SameBlocks
  <2>3. CASE b \in Invalid /\ InvalidBlockFound(b) /\ UNCHANGED tip
    <3>1. ~Good(b)
      BY <2>3, AncestorFacts DEF Good
    <3> QED
      BY <2>2, <2>3, <3>1, CoveredRemoval DEF InvalidBlockFound
  <2>4. CASE b \notin Invalid /\ tip' = b /\ candidates' = Pruned(b)
    BY <2>1, <2>2, <2>4, CoveredPruned
  <2> QED
    BY <2>1, <2>3, <2>4
<1>7. \A t \in Threads : ~InvalidateStep(t) /\ ~InvalidateDone(t)
  BY DEF NotInvalidating, InvalidateStep, InvalidateDone
<1> QED
  BY <1>1, <1>2, <1>3, <1>4, <1>5, <1>6, <1>7, StepKinds DEF Continue

(* A step that changes nothing of what a search for a better chain reads,  *)
(* and after which the same threads will search again.                     *)
Idles ==
    /\ UNCHANGED <<linked, nSequenceId, tip, candidates, shutdown>>
    /\ Busy => Busy'
    /\ NeverCleared => failedValid \subseteq failedValid'

(* The heights of blocks. *)
LEMMA HeightType ==
    ASSUME NEW b \in Blocks
    PROVE  Height(b) \in Nat
<1>1. IsFiniteSet(Ancestors[b])
  BY AncestorFacts, FS_Subset, TreeAssumption
<1>2. Cardinality(Ancestors[b]) \in Nat /\ Cardinality(Ancestors[b]) # 0
  BY <1>1, AncestorFacts, FS_CardinalityType, FS_EmptySet
<1> QED
  BY <1>2 DEF Height

(* FindFork finds a block of the active chain. *)
LEMMA ForkFacts ==
    ASSUME IInv, NEW b \in Blocks
    PROVE  Fork(b) \in Active \cap Ancestors[b]
<1> DEFINE C == Active \cap Ancestors[b]
           D == {Height(tip) - Height(f) : f \in C}
<1>1. tip \in Blocks
  BY DEF IInv, TypeOK
<1>2. \A f \in C : f \in Blocks /\ Height(f) \in Nat /\ Height(f) <= Height(tip) /\ Height(tip) \in Nat
  BY <1>1, AncestorFacts, HeightType, HeightMonotone DEF Active
<1>3. D \in SUBSET Nat /\ D # {}
  <2>1. Genesis \in C
    BY <1>1, AncestorFacts DEF Active
  <2>2. \A f \in C : Height(tip) - Height(f) \in Nat
    <3> HIDE DEF C
    <3> QED
      BY <1>2
  <2> HIDE DEF C
  <2> QED
    BY <2>1, <2>2
<1>4. PICK n \in D : \A m \in D : n <= m
  <2> HIDE DEF D
  <2> QED
    BY <1>3, LeastNatural
<1>5. PICK f \in C : n = Height(tip) - Height(f)
  BY <1>4
<1>6. \A g \in C : Height(g) <= Height(f)
  <2> SUFFICES ASSUME NEW g \in C PROVE Height(g) <= Height(f)
    OBVIOUS
  <2>1. Height(tip) - Height(g) \in D
    OBVIOUS
  <2>2. Height(tip) - Height(f) <= Height(tip) - Height(g)
    BY <1>4, <1>5, <2>1
  <2>3. Height(f) \in Nat /\ Height(g) \in Nat /\ Height(tip) \in Nat
    BY <1>2, <1>5
  <2> HIDE DEF C, D
  <2> QED
    BY <2>2, <2>3
<1>7. \E x \in Active \cap Ancestors[b] : \A g \in Active \cap Ancestors[b] : Height(g) <= Height(x)
  BY <1>5, <1>6
<1> QED
  BY <1>7 DEF Fork

(* Without notarisations the dPoW rule refuses nothing. *)
LEMMA NeverRefused ==
    ASSUME IInv, NOTARIZED = None, NEW t \in Threads, NEW b \in Blocks
    PROVE  ~RefusedByDpow(t, b)
<1>1. Fork(b) \in Blocks
  BY ForkFacts, AncestorFacts
<1>2. Height(Fork(b)) \in Nat
  BY <1>1, HeightType
<1>3. NOTARIZED_HEIGHT = 0
  BY DEF NOTARIZED_HEIGHT
<1> QED
  BY <1>2, <1>3 DEF RefusedByDpow

(* A thread that stops searching, stops where there is nothing better.     *)
LEMMA Activity ==
    ASSUME NeverInvalidated, NoNotarisation, IInv, Towards, Excluded, Covered, [Next]_vars
    PROVE  Busy' \/ shutdown' \/ Idles \/ IsBest(tip)'
<1>0. /\ pc \in [Threads -> {"idle", "find", "step", "check", "invalidate"}]
      /\ pindexMostWork \in [Threads -> Blocks \cup {None}]
      /\ tip \in Blocks /\ NOTARIZED = None /\ None \notin Blocks
      /\ candidates \subseteq Blocks
  BY TreeAssumption DEF IInv, TypeOK, Excluded
<1>1. CASE WithoutData
  <2>1. ASSUME NEW t \in Threads, ThreadStarts(t) PROVE Busy'
    BY <1>0, <2>1 DEF ThreadStarts, Busy
  <2>2. CASE UNCHANGED pc
    <3>1. Busy => Busy'
      BY <1>1, <2>2 DEF WithoutData, OthersKeep, Busy
    <3> QED
      BY <1>1, <3>1 DEF WithoutData, OthersKeep, SameBlocks, Idles, NeverCleared
  <2> QED
    BY <1>1, <2>1, <2>2 DEF WithoutData
<1>2. ASSUME NEW t \in Threads, NEW b \in Blocks,
             WithData(t, b) \/ InvalidateBlock(t, b) \/ ReconsiderBlock(t, b)
      PROVE  Busy'
  <2>1. pc' = [pc EXCEPT ![t] = "find"]
    BY <1>2 DEF WithData, InvalidateBlock, ReconsiderBlock, ThreadStarts, StartActivation,
                NeverInvalidated
  <2> QED
    BY <1>0, <2>1 DEF Busy
<1>3. ASSUME NEW t \in Threads, DropFailedChain(t)
      PROVE  Busy'
  BY <1>3, DropKinds DEF Busy
<1>4. ASSUME NEW t \in Threads, NothingToDo(t)
      PROVE  IsBest(tip)'
  <2>1. candidates # {}
    BY <1>0 DEF Covered
  <2>2. IsBest(tip) /\ UNCHANGED <<candidates, nSequenceId, tip>>
    BY <1>4, <2>1 DEF NothingToDo, blockVars
  <2> QED
    BY <2>2 DEF IsBest, Worse
<1>5. ASSUME NEW t \in Threads, StartStep(t)
      PROVE  Busy' \/ shutdown'
  <2>1. \/ \E b \in candidates : RefusedByDpow(t, b)
        \/ shutdown' = TRUE
        \/ pc' = [pc EXCEPT ![t] = "step"]
    BY <1>5, StartKinds
  <2>2. \A b \in candidates : ~RefusedByDpow(t, b)
    BY <1>0, NeverRefused
  <2> QED
    BY <1>0, <2>1, <2>2 DEF Busy
<1>6. ASSUME NEW t \in Threads, DisconnectStep(t)
      PROVE  Busy'
  <2>1. pc[t] = "step" /\ (UNCHANGED pc \/ tip = NOTARIZED)
    BY <1>6, DisconnectKinds
  <2> QED
    BY <1>0, <2>1 DEF Busy
<1>7. ASSUME NEW t \in Threads, ConnectStep(t)
      PROVE  Busy' \/ IsBest(tip)'
  <2>1. /\ pc[t] = "step" /\ UNCHANGED <<pindexMostWork, nSequenceId>>
        /\ tip # pindexMostWork[t]
        /\ \/ UNCHANGED tip /\ pc' = [pc EXCEPT ![t] = "check"]
           \/ /\ pindexMostWork[t] \in candidates' /\ candidates' \subseteq candidates
              /\ pc' = [pc EXCEPT ![t] = "check"] \/ UNCHANGED pc
    BY <1>7, ConnectKinds DEF SameBlocks
  <2>2. CASE pc' = [pc EXCEPT ![t] = "check"] /\ tip' # pindexMostWork[t]
    BY <1>0, <2>1, <2>2 DEF Busy
  <2>3. CASE UNCHANGED pc
    BY <2>1, <2>3 DEF Busy
  <2>4. CASE /\ pindexMostWork[t] \in candidates' /\ candidates' \subseteq candidates
             /\ tip' = pindexMostWork[t]
    BY <2>1, <2>4 DEF Towards, IsBest, Worse
  <2> QED
    BY <2>1, <2>2, <2>3, <2>4
<1>8. ASSUME NEW t \in Threads, CheckLoop(t)
      PROVE  Busy' \/ Idles
  <2>1. CASE ~Reached(t)
    <3>1. pc' = [pc EXCEPT ![t] = "find"]
      BY <1>8, <2>1 DEF CheckLoop
    <3> QED
      BY <1>0, <3>1 DEF Busy
  <2>2. CASE Reached(t)
    <3>1. /\ pc[t] = "check" /\ pindexMostWork[t] = tip
          /\ UNCHANGED <<linked, nSequenceId, tip, candidates, shutdown, failedValid>>
          /\ \A u \in Threads \ {t} : pc'[u] = pc[u] /\ pindexMostWork'[u] = pindexMostWork[u]
      BY <1>0, <1>8, <2>2 DEF CheckLoop, Reached, Leave, blockVars
    <3>2. Busy => Busy'
      BY <3>1 DEF Busy
    <3> QED
      BY <3>1, <3>2 DEF Idles
  <2> QED
    BY <2>1, <2>2
<1>9. \A t \in Threads : ~InvalidateStep(t) /\ ~InvalidateDone(t)
  BY DEF Excluded, NotInvalidating, InvalidateStep, InvalidateDone
<1> QED
  BY <1>1, <1>2, <1>3, <1>4, <1>5, <1>6, <1>7, <1>8, <1>9, StepKinds DEF Continue

(* If the tip is the best candidate, no good block has more work. *)
LEMMA BestIsEnough == IInv /\ Covered /\ IsBest(tip) => NothingBetter
<1> SUFFICES ASSUME IInv, Covered, IsBest(tip), NEW b \in Blocks, Good(b)
             PROVE  ChainPower[b] <= ChainPower[tip]
  BY DEF NothingBetter
<1>1. /\ candidates \subseteq Blocks /\ tip \in Blocks /\ nSequenceId \in [Blocks -> Nat]
  BY DEF IInv, TypeOK
<1>2. PICK c \in candidates : ~Worse(c, b, nSequenceId)
  BY DEF Covered
<1>3. ~Worse(tip, c, nSequenceId)
  BY <1>1, <1>2, WorseFacts DEF IsBest
<1>4. ~Worse(tip, b, nSequenceId)
  BY <1>1, <1>2, <1>3, WorseFacts
<1> QED
  BY <1>1, <1>4, WorseFacts

(* What the proofs about searching need besides IInv. *)
Search ==
    /\ Towards /\ Excluded /\ NotInvalidating
    /\ Waiting /\ Justified /\ Covered

(* The first state. *)
LEMMA InitSearch == Init => Search
<1> SUFFICES ASSUME Init PROVE Search
  OBVIOUS
<1>1. Genesis \in Blocks /\ Ancestors[Genesis] = {Genesis} /\ Genesis \notin Invalid
      /\ Genesis \notin ContextInvalid
  BY TreeAssumption, ParameterAssumption
<1>2. Towards /\ Excluded /\ NotInvalidating /\ Justified
  BY DEF Init, Towards, Excluded, NotInvalidating, Justified, Failed
<1>3. Waiting
  BY <1>1 DEF Init, Waiting, Failed
<1>4. Covered
  <2>1. ~Worse(Genesis, Genesis, nSequenceId)
    BY <1>1, TreeAssumption DEF Worse, Init
  <2> QED
    BY <1>1, <2>1 DEF Init, Covered, Good
<1> QED
  BY <1>2, <1>3, <1>4 DEF Search

(* Every step without invalidateblock. *)
LEMMA NextSearch ==
    ASSUME NeverInvalidated, IInv, Search, [Next]_vars
    PROVE  Search'
BY NextTowards, NextExcluded, NextNotInvalidating, NextWaiting, NextJustified, NextCovered DEF Search

(* ActivateBestChain: when every call has returned, no chain with all data *)
(* and without a broken rule has more work than the active one, whatever   *)
(* the threads interleave, in whatever order blocks come and however many  *)
(* reorganisations fail half way.  Excluded are invalidateblock, dPoW and  *)
(* a node that is shutting down because a reorganisation was too long.     *)
THEOREM BestChainIsActive ==
    NeverInvalidated /\ NoNotarisation => (Spec => [](~shutdown => BestChainActive))
<1> SUFFICES ASSUME NeverInvalidated, NoNotarisation
             PROVE  Spec => [](~shutdown => BestChainActive)
  OBVIOUS
<1>1. Init => Search /\ Pending
  <2>1. Init => Pending
    <3> SUFFICES ASSUME Init PROVE NothingBetter
      BY DEF Pending
    <3>1. ChainPower[Genesis] \in Nat
      BY TreeAssumption
    <3> QED
      BY <3>1 DEF Init, NothingBetter, Good
  <2> QED
    BY <2>1, InitSearch
<1>2. IInv /\ Search /\ [Next]_vars => Search'
  BY NextSearch
<1>3. IInv /\ IInv' /\ Search /\ Search' /\ Pending /\ [Next]_vars => Pending'
  <2> SUFFICES ASSUME IInv, IInv', Search, Search', Pending, [Next]_vars PROVE Pending'
    OBVIOUS
  <2>1. Busy' \/ shutdown' \/ Idles \/ IsBest(tip)'
    BY Activity DEF Search
  <2>2. CASE Idles
    <3>1. NothingBetter => NothingBetter'
      BY <2>2 DEF Idles, NothingBetter, Good
    <3> QED
      BY <2>2, <3>1 DEF Idles, Pending
  <2>3. CASE IsBest(tip)'
    <3>1. (IInv /\ Covered /\ IsBest(tip) => NothingBetter)'
      BY BestIsEnough, PTL
    <3> QED
      BY <2>3, <3>1 DEF Search, Pending
  <2> QED
    BY <2>1, <2>2, <2>3 DEF Pending
<1>4. IInv /\ Pending => (~shutdown => BestChainActive)
  <2> SUFFICES ASSUME IInv, Pending, ~shutdown, AllIdle, NEW b \in Blocks, Connectable(b)
               PROVE  ChainPower[b] <= ChainPower[tip]
    BY DEF BestChainActive
  <2>1. ~Busy
    BY DEF AllIdle, Busy
  <2> QED
    BY <2>1 DEF Pending, NothingBetter, Connectable, Good
<1>5. Spec => []IInv
  BY Invariance
<1> QED
  BY <1>1, <1>2, <1>3, <1>4, <1>5, PTL DEF Spec

-----------------------------------------------------------------------------
(* No candidate is forgotten *)

(* Sequence ids given to newly linked blocks are new. *)
LEMMA DataSequenced ==
    ASSUME IInv, Sequenced, NEW t \in Threads, NEW b \in Blocks, WithData(t, b)
    PROVE  Sequenced'
<1>1. /\ b # Genesis /\ b \notin have
      /\ ReceivedBlockTransactions(b, failedValid' \cup failedChild')
  BY DEF WithData
<1>2. CASE Parent[b] \notin linked
  <2>1. UNCHANGED <<linked, nSequenceId>>
    BY <1>2, DataKinds
  <2> QED
    BY <2>1 DEF Sequenced
<1>3. CASE Parent[b] \in linked
  <2> DEFINE L == NowLinked(b)
             N == {x \in Blocks : nSequenceId[x] # 0}
             n == Cardinality(N)
             m == Cardinality(L)
  <2>1. PICK s \in SequenceIds(L) :
          /\ linked' = linked \cup L
          /\ nSequenceId' = [x \in Blocks |-> IF x \in L THEN s[x] ELSE nSequenceId[x]]
    BY <1>1, <1>3 DEF ReceivedBlockTransactions
  <2>2. L \subseteq Blocks /\ L \cap linked = {}
    BY <1>3, DataKinds
  <2>3. IsFiniteSet(N) /\ IsFiniteSet(L)
    BY <2>2, FS_Subset, TreeAssumption
  <2>4. n \in Nat /\ m \in Nat
    BY <2>3, FS_CardinalityType
  <2>5. /\ s \in [L -> (n + 1)..(n + m)]
        /\ \A x, y \in L : x # y => s[x] # s[y]
    BY DEF SequenceIds
  <2>6. /\ nSequenceId \in [Blocks -> Nat] /\ linked \subseteq Blocks /\ Genesis \in linked
        /\ \A x \in Blocks : nSequenceId[x] <= n
        /\ \A x \in Blocks : nSequenceId[x] # 0 <=> x \in linked \ {Genesis}
        /\ \A x, y \in linked : nSequenceId[x] = nSequenceId[y] => x = y
    <3>1. Genesis \in Ancestors[tip] /\ tip \in linked
      BY AncestorFacts DEF IInv, TypeOK
    <3> QED
      BY <3>1 DEF IInv, TypeOK, Links, Sequenced
  <2>7. N \cap L = {} /\ Genesis \notin L
    BY <2>2, <2>6
  <2> HIDE DEF L, n, m, N
  <2>8. /\ \A x \in L : nSequenceId'[x] = s[x] /\ s[x] \in Nat /\ s[x] > n /\ s[x] <= n + m
        /\ \A x \in Blocks \ L : nSequenceId'[x] = nSequenceId[x]
    BY <2>1, <2>2, <2>4, <2>5
  <2>9. {x \in Blocks : nSequenceId'[x] # 0} = N \cup L
    BY <2>2, <2>4, <2>8 DEF N
  <2>10. Cardinality(N \cup L) = n + m
    <3>1. Cardinality(N \cup L) = Cardinality(N) + Cardinality(L) - Cardinality(N \cap L)
      BY <2>3, FS_Union
    <3>2. Cardinality(N \cap L) = 0
      BY <2>7, FS_EmptySet
    <3> QED
      BY <2>4, <3>1, <3>2 DEF n, m
  <2>11. \A x \in Blocks : nSequenceId'[x] <= n + m
    BY <2>4, <2>6, <2>8
  <2>12. \A x \in Blocks : nSequenceId'[x] # 0 <=> x \in linked' \ {Genesis}
    BY <2>1, <2>2, <2>4, <2>6, <2>7, <2>8
  <2>13. \A x, y \in linked' : nSequenceId'[x] = nSequenceId'[y] => x = y
    BY <2>1, <2>2, <2>4, <2>5, <2>6, <2>8
  <2> QED
    BY <2>9, <2>10, <2>11, <2>12, <2>13 DEF Sequenced
<1> QED
  BY <1>2, <1>3

(* No other step links a block. *)
LEMMA NextSequenced ==
    ASSUME IInv, Towards, Sequenced, [Next]_vars
    PROVE  Sequenced'
<1>1. CASE UNCHANGED <<linked, nSequenceId>>
  BY <1>1 DEF Sequenced
<1>2. \/ UNCHANGED <<linked, nSequenceId>>
      \/ \E t \in Threads, b \in Blocks : WithData(t, b)
  <2>1. ASSUME NEW t \in Threads, Continue(t)
        PROVE  UNCHANGED <<linked, nSequenceId>>
    BY <2>1 DEF Continue, DropFailedChain, NothingToDo, StartStep, DisconnectStep, ConnectStep,
                CheckLoop, InvalidateStep, InvalidateDone, blockVars
  <2> QED
    BY <2>1, StepKinds DEF WithoutData, SameBlocks, InvalidateBlock, ReconsiderBlock
<1> QED
  BY <1>1, <1>2, DataSequenced

(* Nothing that Outdone reads changes, except that marks are added, and    *)
(* candidates removed only with a mark.                                    *)
LEMMA OutdoneFrame ==
    ASSUME IInv, Outdone, UNCHANGED <<linked, nSequenceId>>, failedValid \subseteq failedValid',
           \A x \in failedChild' : x \in failedChild \/ Ancestors[x] \cap failedValid' # {},
           \A c \in candidates : c \in candidates' \/ Ancestors[c] \cap failedValid' # {}
    PROVE  Outdone'
<1>1. \A x \in failedChild' : Ancestors[x] \cap failedValid' # {}
  BY DEF Outdone
<1>2. ASSUME NEW b \in linked' \ candidates', Ancestors[b] \cap failedValid' = {}
      PROVE  \E c \in Blocks : Good(c) /\ ~Worse(c, b, nSequenceId)
  <2>1. b \in linked \ candidates /\ Ancestors[b] \cap failedValid = {}
    BY <1>2
  <2> QED
    BY <2>1 DEF Outdone
<1> QED
  BY <1>1, <1>2 DEF Outdone, Good, Worse

(* The data of a block: what is not made a candidate is worse than the tip. *)
LEMMA OutdoneData ==
    ASSUME IInv, Covered, Outdone, NEW t \in Threads, NEW b \in Blocks, WithData(t, b), SameMarks
    PROVE  Outdone'
<1>0. /\ tip \in linked /\ linked \subseteq Blocks /\ nSequenceId \in [Blocks -> Nat]
  BY DEF IInv, TypeOK
<1>1. /\ nSequenceId' \in [Blocks -> Nat] /\ linked \subseteq linked'
      /\ \A x \in linked : nSequenceId'[x] = nSequenceId[x]
  BY DataKinds
<1>2. \A x : Good(x) => Good(x)' /\ x \in linked
  BY <1>1 DEF Good
<1>3. \A x, y \in linked : Worse(x, y, nSequenceId') = Worse(x, y, nSequenceId)
  BY <1>1 DEF Worse
<1>4. ASSUME NEW x \in linked' \ candidates', Ancestors[x] \cap failedValid' = {}
      PROVE  \E c \in Blocks : Good(c)' /\ ~Worse(c, x, nSequenceId')
  <2>1. CASE x \in linked
    <3>1. x \notin candidates
      BY <1>4, DataKinds
    <3>2. PICK c \in Blocks : Good(c) /\ ~Worse(c, x, nSequenceId)
      BY <1>4, <2>1, <3>1 DEF Outdone, SameMarks
    <3> QED
      BY <1>2, <1>3, <2>1, <3>2
  <2>2. CASE x \notin linked
    <3>1. Worse(x, tip, nSequenceId') /\ x \in Blocks
      BY <1>4, <2>2, DataKinds
    <3>2. ~Worse(tip, x, nSequenceId')
      BY <1>0, <1>1, <3>1, WorseFacts
    <3>3. Good(tip)
      BY DEF Covered
    <3>4. \E c \in Blocks : c = tip /\ Good(c) /\ ~Worse(c, x, nSequenceId')
      BY <1>0, <3>2, <3>3
    <3> QED
      BY <1>2, <3>4
  <2> QED
    BY <2>1, <2>2
<1>5. \A x \in failedChild' : Ancestors[x] \cap failedValid' # {}
  BY DEF Outdone, SameMarks
<1> QED
  BY <1>4, <1>5 DEF Outdone

(* Connecting a good block prunes what is worse than it. *)
LEMMA OutdonePruned ==
    ASSUME IInv, Covered, Outdone, NEW b \in linked \ {Genesis}, Parent[b] = tip, b \notin Invalid,
           candidates' = Pruned(b), SameMarks, UNCHANGED <<linked, nSequenceId>>
    PROVE  Outdone'
<1>0. linked \subseteq Blocks /\ b \in Blocks /\ nSequenceId \in [Blocks -> Nat]
  BY DEF IInv, TypeOK
<1>1. Good(b)
  BY <1>0, ParentFacts DEF Covered, Good
<1>2. ASSUME NEW x \in linked \ Pruned(b), Ancestors[x] \cap failedValid = {}
      PROVE  \E c \in Blocks : Good(c) /\ ~Worse(c, x, nSequenceId)
  <2>1. CASE x \in candidates
    <3>1. Worse(x, b, nSequenceId)
      BY <1>2, <2>1 DEF Pruned
    <3>2. ~Worse(b, x, nSequenceId)
      BY <1>0, <3>1, WorseFacts
    <3> QED
      BY <1>0, <1>1, <3>2
  <2>2. CASE x \notin candidates
    BY <1>2, <2>2 DEF Outdone
  <2> QED
    BY <2>1, <2>2
<1> QED
  BY <1>2 DEF Outdone, Good, Worse, SameMarks

(* No step gives up a candidate without a mark or a better tip. *)
LEMMA NextOutdone ==
    ASSUME NeverInvalidated, NeverCleared, IInv, Search, Outdone, [Next]_vars
    PROVE  Outdone'
<1>0. Towards /\ NotInvalidating /\ Covered
  BY DEF Search
<1>1. CASE WithoutData
  <2>1. /\ UNCHANGED <<linked, nSequenceId, candidates, failedChild>>
        /\ failedValid \subseteq failedValid'
    BY <1>1 DEF WithoutData, SameBlocks, NeverCleared
  <2> QED
    BY <2>1, OutdoneFrame
<1>2. ASSUME NEW t \in Threads, NEW b \in Blocks,
             WithData(t, b) \/ InvalidateBlock(t, b) \/ ReconsiderBlock(t, b)
      PROVE  Outdone'
  <2>1. ~InvalidateBlock(t, b) /\ ~ReconsiderBlock(t, b)
    BY DEF NeverInvalidated, NeverCleared, InvalidateBlock, ReconsiderBlock
  <2>2. WithData(t, b) /\ SameMarks
    BY <1>2, <2>1 DEF WithData, NeverCleared
  <2> QED
    BY <1>0, <2>2, OutdoneData
<1>3. ASSUME NEW t \in Threads, DropFailedChain(t)
      PROVE  Outdone'
  <2>1. PICK b \in candidates, x \in Failed :
          /\ x \in Ancestors[b] /\ b \in Blocks
          /\ failedChild' = failedChild \cup (Ancestors[b] \ Ancestors[x])
          /\ candidates' = candidates \ ((Ancestors[b] \ Ancestors[x]) \cup {x})
          /\ \A y \in Ancestors[b] \ Ancestors[x] : y \in Blocks /\ x \in Ancestors[y]
    BY <1>3, DropKinds
  <2>2. UNCHANGED <<linked, nSequenceId, failedValid>>
    BY <1>3, DropKinds DEF SameBlocks
  <2>3. x \in Blocks /\ x \in Ancestors[x]
    BY <2>1, AncestorFacts
  <2>4. Ancestors[x] \cap failedValid # {}
    BY <2>3 DEF Outdone, Failed
  <2>5. \A y \in (Ancestors[b] \ Ancestors[x]) \cup {x} : Ancestors[x] \subseteq Ancestors[y]
    BY <2>1, AncestorFacts
  <2>6. \A y \in (Ancestors[b] \ Ancestors[x]) \cup {x} : Ancestors[y] \cap failedValid' # {}
    BY <2>2, <2>4, <2>5
  <2> QED
    BY <2>1, <2>2, <2>6, OutdoneFrame
<1>4. ASSUME NEW t \in Threads, NothingToDo(t) \/ StartStep(t) \/ CheckLoop(t) \/ DisconnectStep(t)
      PROVE  Outdone'
  <2>1. UNCHANGED <<linked, nSequenceId, candidates, failedValid, failedChild>>
    BY <1>4, StartKinds, DisconnectKinds DEF NothingToDo, CheckLoop, blockVars, SameBlocks, SameMarks
  <2> QED
    BY <2>1, OutdoneFrame
<1>5. ASSUME NEW t \in Threads, ConnectStep(t)
      PROVE  Outdone'
  <2>1. PICK b \in Blocks \ {Genesis} :
          /\ Parent[b] = tip /\ b \in linked
          /\ \/ b \in Invalid /\ InvalidBlockFound(b)
             \/ b \notin Invalid /\ candidates' = Pruned(b) /\ UNCHANGED failedValid
    BY <1>0, <1>5, ConnectKinds
  <2>2. UNCHANGED <<linked, nSequenceId, failedChild>>
    BY <1>0, <1>5, ConnectKinds DEF SameBlocks
  <2>3. CASE b \in Invalid /\ InvalidBlockFound(b)
    <3>1. b \in Ancestors[b]
      BY <2>1, AncestorFacts
    <3> QED
      BY <2>2, <2>3, <3>1, OutdoneFrame DEF InvalidBlockFound
  <2>4. CASE b \notin Invalid /\ candidates' = Pruned(b) /\ UNCHANGED failedValid
    BY <1>0, <2>1, <2>2, <2>4, OutdonePruned DEF SameMarks
  <2> QED
    BY <2>1, <2>3, <2>4
<1>6. \A t \in Threads : ~InvalidateStep(t) /\ ~InvalidateDone(t)
  BY <1>0 DEF NotInvalidating, InvalidateStep, InvalidateDone
<1> QED
  BY <1>1, <1>2, <1>3, <1>4, <1>5, <1>6, StepKinds DEF Continue

(* If the tip is the best candidate, nothing as good as it was given up.   *)
LEMMA BestForgetsNothing ==
    IInv /\ Covered /\ Outdone /\ Sequenced /\ IsBest(tip) => MustBeCandidates \subseteq candidates
<1> SUFFICES ASSUME IInv, Covered, Outdone, Sequenced, IsBest(tip),
                    NEW b \in MustBeCandidates, b \notin candidates
             PROVE  FALSE
  OBVIOUS
<1>1. /\ candidates \subseteq Blocks /\ tip \in Blocks /\ tip \in linked
      /\ nSequenceId \in [Blocks -> Nat]
  BY DEF IInv, TypeOK
<1>2. b \in linked /\ b \in Blocks /\ ~Worse(b, tip, nSequenceId) /\ Ancestors[b] \cap failedValid = {}
  BY DEF MustBeCandidates, IInv, TypeOK
<1>3. PICK x \in Blocks : Good(x) /\ ~Worse(x, b, nSequenceId)
  BY <1>2 DEF Outdone
<1>4. PICK c \in candidates : ~Worse(c, x, nSequenceId)
  BY <1>3 DEF Covered
<1>5. ~Worse(tip, c, nSequenceId)
  BY <1>1, <1>4, WorseFacts DEF IsBest
<1>6. ~Worse(tip, x, nSequenceId)
  BY <1>1, <1>3, <1>4, <1>5, WorseFacts
<1>7. ~Worse(tip, b, nSequenceId)
  BY <1>1, <1>2, <1>3, <1>6, WorseFacts
<1>8. nSequenceId[b] = nSequenceId[tip]
  BY <1>1, <1>2, <1>7, WorseFacts
<1>9. b = tip
  BY <1>1, <1>2, <1>8 DEF Sequenced
<1> QED
  BY <1>9 DEF IsBest

(* CheckBlockIndex on setBlockIndexCandidates: when every call of          *)
(* ActivateBestChain has returned, no block that could win was forgotten,  *)
(* although pruning forgets blocks that a failing reorganisation makes     *)
(* better than the tip again.  Excluded are, besides what                  *)
(* BestChainIsActive excludes, the two ways to clear a failure mark.       *)
THEOREM CandidatesAreComplete ==
    NeverInvalidated /\ NoNotarisation /\ NeverCleared
      => (Spec => [](~shutdown => CandidatesComplete))
<1> SUFFICES ASSUME NeverInvalidated, NoNotarisation, NeverCleared
             PROVE  Spec => [](~shutdown => CandidatesComplete)
  OBVIOUS
<1>1. Init => Search /\ Sequenced /\ Outdone /\ NothingForgotten
  <2> SUFFICES ASSUME Init PROVE Sequenced /\ Outdone /\ NothingForgotten
    BY InitSearch
  <2>1. Outdone /\ NothingForgotten
    BY DEF Init, Outdone, NothingForgotten, MustBeCandidates
  <2>2. {x \in Blocks : nSequenceId[x] # 0} = {}
    BY DEF Init
  <2>3. Cardinality({x \in Blocks : nSequenceId[x] # 0}) = 0
    BY <2>2, FS_EmptySet
  <2>4. \A x \in Blocks : nSequenceId[x] = 0
    BY DEF Init
  <2>5. linked = {Genesis}
    BY DEF Init
  <2>6. Sequenced
    BY <2>3, <2>4, <2>5 DEF Sequenced
  <2> QED
    BY <2>1, <2>6
<1>2. IInv /\ Search /\ Sequenced /\ Outdone /\ [Next]_vars => Search' /\ Sequenced' /\ Outdone'
  BY NextSearch, NextSequenced, NextOutdone DEF Search
<1>3. /\ IInv /\ IInv' /\ Search /\ Search' /\ Sequenced' /\ Outdone'
      /\ NothingForgotten /\ [Next]_vars
      => NothingForgotten'
  <2> SUFFICES ASSUME IInv, IInv', Search, Search', Sequenced', Outdone', NothingForgotten, [Next]_vars
               PROVE  NothingForgotten'
    OBVIOUS
  <2>1. Busy' \/ shutdown' \/ Idles \/ IsBest(tip)'
    BY Activity DEF Search
  <2>2. CASE Idles
    <3>1. (MustBeCandidates \subseteq candidates) => (MustBeCandidates \subseteq candidates)'
      BY <2>2 DEF Idles, MustBeCandidates, Worse
    <3> QED
      BY <2>2, <3>1 DEF Idles, NothingForgotten
  <2>3. CASE IsBest(tip)'
    <3>1. (IInv /\ Covered /\ Outdone /\ Sequenced /\ IsBest(tip) => MustBeCandidates \subseteq candidates)'
      BY BestForgetsNothing, PTL
    <3> QED
      BY <2>3, <3>1 DEF Search, NothingForgotten
  <2> QED
    BY <2>1, <2>2, <2>3 DEF NothingForgotten
<1>4. NothingForgotten => (~shutdown => CandidatesComplete)
  BY DEF NothingForgotten, CandidatesComplete, AllIdle, Busy
<1>5. Spec => []IInv
  BY Invariance
<1> QED
  BY <1>1, <1>2, <1>3, <1>4, <1>5, PTL DEF Spec

=============================================================================
