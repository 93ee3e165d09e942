-------------------------- MODULE ChainStateProofs --------------------------
(***************************************************************************)
(* Proofs about ChainState, for every finite block tree, any number of     *)
(* threads and every choice of invalid blocks, notarisations and limits.   *)
(*                                                                         *)
(* Finality is not inductive: DisconnectTip protects only the last         *)
(* notarised block, so one must know that every earlier one is among its   *)
(* ancestors (Notarised).  CandidatesSound needs the chains of linked      *)
(* blocks to be complete and mapBlocksUnlinked to be disjoint from them    *)
(* (Links), and both need to know what a thread inside a critical section  *)
(* is working on (Working).                                                *)
(***************************************************************************)
EXTENDS ChainState, FiniteSetTheorems, TLAPS

(* nChainTx is set only above ancestors for which it is set.               *)
Links ==
    /\ \A x \in linked : Ancestors[x] \subseteq linked
    /\ unlinked \cap linked = {}

(* A thread inside a loop holds cs_main; it connects towards a block with  *)
(* all data, and never invalidates the genesis block.                      *)
Working ==
    \A t \in Threads :
        /\ pc[t] \in {"step", "invalidate"} => csMain = t
        /\ pc[t] = "step" => pindexMostWork[t] \in linked
        /\ pc[t] = "invalidate" => arg \in Blocks \ {Genesis}

(* The last notarised block is on the active chain, and every earlier one  *)
(* is below it.                                                            *)
Notarised ==
    /\ NOTARIZED = None => finalized = {}
    /\ NOTARIZED # None => NOTARIZED \in Active /\ finalized \subseteq Ancestors[NOTARIZED]

IInv == TypeOK /\ Links /\ CandidatesSound /\ Working

-----------------------------------------------------------------------------
(* The block tree *)

(* What TreeAssumption says of one block and its parent. *)
LEMMA ParentFacts ==
    ASSUME NEW b \in Blocks, b # Genesis
    PROVE  /\ Parent[b] \in Blocks /\ Parent[b] # b
           /\ Parent[b] \in Ancestors[b]
           /\ Ancestors[b] = Ancestors[Parent[b]] \cup {b}
           /\ ChainPower[Parent[b]] < ChainPower[b]
BY TreeAssumption

(* What it says of one block and its ancestors. *)
LEMMA AncestorFacts ==
    ASSUME NEW b \in Blocks
    PROVE  /\ Ancestors[b] \subseteq Blocks
           /\ Genesis \in Ancestors[b] /\ b \in Ancestors[b]
           /\ \A a \in Ancestors[b] : Ancestors[a] \subseteq Ancestors[b]
           /\ \A a, c \in Ancestors[b] : a \in Ancestors[c] \/ c \in Ancestors[a]
           /\ ChainPower[b] \in Nat
BY TreeAssumption

(* A block is not below its ancestors. *)
LEMMA HeightMonotone ==
    ASSUME NEW b \in Blocks, NEW a \in Ancestors[b]
    PROVE  Height(a) \in Int /\ Height(b) \in Int /\ Height(a) <= Height(b)
<1>1. a \in Blocks /\ Ancestors[a] \subseteq Ancestors[b] /\ Ancestors[b] \subseteq Blocks
  BY AncestorFacts
<1>2. IsFiniteSet(Ancestors[b])
  BY <1>1, FS_Subset, TreeAssumption
<1>3. Cardinality(Ancestors[a]) <= Cardinality(Ancestors[b]) /\ IsFiniteSet(Ancestors[a])
  BY <1>1, <1>2, FS_Subset
<1> QED
  BY <1>2, <1>3, FS_CardinalityType DEF Height

-----------------------------------------------------------------------------
(* Headers *)

(* Where the scan of NPOINTS stops. *)
LEMMA StopAtType ==
    ASSUME NEW points, Len(points) \in Nat, NEW i \in Nat, NEW h
    PROVE  StopAt(points, i, h) \in Nat /\ StopAt(points, i, h) >= i
<1> DEFINE J == {j \in i..Len(points) : \A k \in i..j : points[k].nHeight < h}
<1>1. IsFiniteSet(i..Len(points))
  BY FS_Interval
<1>2. IsFiniteSet(J)
  BY <1>1, FS_Subset
<1>3. Cardinality(J) \in Nat
  BY <1>2, FS_CardinalityType
<1> QED
  BY <1>3 DEF StopAt

(* The cached position stays a position. *)
LEMMA LookupType ==
    ASSUME NEW points, Len(points) \in Nat, NEW last \in Nat, NEW h
    PROVE  NotarizedData(points, last, h).last \in Nat
<1>1. ASSUME NEW l \in Nat
      PROVE  ScanFromStart(points, l, h).last \in Nat
  <2>1. StopAt(points, 1, h) \in Nat
    BY StopAtType
  <2> QED
    BY <2>1 DEF ScanFromStart
<1>2. ScanFromCache(points, last, h).last \in Nat
  <2>1. StopAt(points, last + 1, h) \in Nat
    BY StopAtType
  <2> QED
    BY <2>1 DEF ScanFromCache
<1> QED
  BY <1>1, <1>2 DEF NotarizedData

(* AcceptBlockHeader adds at most the header and clears at most marks.     *)
LEMMA HeaderFacts ==
    ASSUME TypeOK, NEW b \in Blocks
    PROVE  LET h == AcceptBlockHeader(b)
           IN /\ h.index \subseteq Blocks /\ index \subseteq h.index
              /\ h.failedValid \subseteq failedValid /\ h.failedChild \subseteq failedChild
              /\ h.last \in Nat
              /\ h.ok => b \in h.index
<1>1. Checkpoint.last \in Nat
  BY LookupType DEF TypeOK, Checkpoint
<1>2. CASE b \in index
  BY <1>2 DEF TypeOK, AcceptBlockHeader, KnownHeader
<1>3. CASE b \notin index
  BY <1>1, <1>3 DEF TypeOK, AcceptBlockHeader, NewHeader
<1> QED
  BY <1>2, <1>3

-----------------------------------------------------------------------------
(* IInv *)

(* With only the genesis block, InitBlockIndex establishes IInv. *)
LEMMA InitIInv == Init => IInv
<1> SUFFICES ASSUME Init PROVE IInv
  OBVIOUS
<1>1. Genesis \in Blocks /\ Ancestors[Genesis] = {Genesis} /\ ChainPower[Genesis] \in Nat
  BY TreeAssumption
<1>2. TypeOK
  <2>1. NPOINTS \in Seq([nHeight : Nat, block : Blocks])
    BY DEF Init
  <2>2. /\ nSequenceId \in [Blocks -> Nat] /\ pc \in [Threads -> {"idle", "find", "step", "check", "invalidate"}]
        /\ fSkipdpow \in [Threads -> BOOLEAN] /\ pindexMostWork \in [Threads -> Blocks \cup {None}]
    BY DEF Init
  <2> QED
    BY <1>1, <2>1, <2>2 DEF Init, TypeOK
<1>3. Links /\ CandidatesSound /\ Working
  BY <1>1 DEF Init, Links, CandidatesSound, Working, Worse
<1> QED
  BY <1>2, <1>3 DEF IInv

(* Going back to the parent makes no candidate worse than the tip. *)
LEMMA LowerTip ==
    ASSUME IInv, tip # Genesis
    PROVE  /\ Parent[tip] \in linked
           /\ \A c \in candidates : ~Worse(c, Parent[tip], nSequenceId)
<1>1. tip \in Blocks /\ tip \in linked
  BY DEF IInv, TypeOK
<1>2. Parent[tip] \in Blocks /\ Parent[tip] \in Ancestors[tip]
      /\ ChainPower[Parent[tip]] < ChainPower[tip]
  BY <1>1, ParentFacts
<1>3. Parent[tip] \in linked
  BY <1>1, <1>2 DEF IInv, Links
<1>4. ASSUME NEW c \in candidates
      PROVE  ~Worse(c, Parent[tip], nSequenceId)
  <2>1. c \in Blocks /\ ~Worse(c, tip, nSequenceId)
    BY DEF IInv, TypeOK, CandidatesSound
  <2>2. ChainPower[c] \in Nat /\ ChainPower[tip] \in Nat /\ ChainPower[Parent[tip]] \in Nat
    BY <1>1, <1>2, <2>1, AncestorFacts
  <2> QED
    BY <1>2, <2>1, <2>2 DEF Worse, IInv, TypeOK
<1> QED
  BY <1>3, <1>4

(* A "headers" message only grows the index and clears marks. *)
LEMMA ReceiveHeaderIInv ==
    ASSUME IInv, NEW b \in Blocks, ReceiveHeader(b)
    PROVE  IInv'
<1> DEFINE h == AcceptBlockHeader(b)
<1>1. /\ h.index \subseteq Blocks /\ index \subseteq h.index
      /\ h.failedValid \subseteq failedValid /\ h.failedChild \subseteq failedChild
      /\ h.last \in Nat
  BY HeaderFacts DEF IInv
<1>2. /\ index' = h.index /\ last_NPOINTSi' = h.last
      /\ failedValid' = h.failedValid /\ failedChild' = h.failedChild
      /\ UNCHANGED <<have, linked, nSequenceId, candidates, unlinked, tip, dpowVars, threadVars>>
  BY DEF ReceiveHeader
<1> HIDE DEF h
<1>3. TypeOK'
  BY <1>1, <1>2 DEF IInv, TypeOK, dpowVars, threadVars
<1>4. Links' /\ CandidatesSound' /\ Working'
  BY <1>2 DEF IInv, Links, CandidatesSound, Working, Worse, threadVars
<1> QED
  BY <1>3, <1>4 DEF IInv

(* A block's data makes the blocks that wait behind it usable, and only    *)
(* those all of whose ancestors have data.                                 *)
LEMMA LinkedBlocks ==
    ASSUME IInv, NEW b \in Blocks, b # Genesis, b \notin have, Parent[b] \in linked
    PROVE  /\ NowLinked(b) \subseteq {b} \cup unlinked
           /\ \A x \in NowLinked(b) : Ancestors[x] \subseteq linked \cup NowLinked(b)
<1>1. NowLinked(b) \subseteq {b} \cup unlinked
  BY DEF NowLinked
<1>2. Ancestors[b] \subseteq linked \cup {b}
  <2>1. Ancestors[Parent[b]] \subseteq linked
    BY DEF IInv, Links
  <2> QED
    BY <2>1, ParentFacts
<1>3. ASSUME NEW x \in NowLinked(b), x # b, NEW y \in Ancestors[x]
      PROVE  y \in linked \cup NowLinked(b)
  <2>1. /\ x \in Blocks /\ b \in Ancestors[x]
        /\ Ancestors[x] \ Ancestors[b] \subseteq unlinked
    BY <1>3 DEF NowLinked, IInv, TypeOK
  <2>2. CASE y \in Ancestors[b]
    BY <1>2, <2>2 DEF NowLinked
  <2>3. CASE y \notin Ancestors[b]
    <3>1. y \in unlinked /\ b \in Ancestors[y] /\ Ancestors[y] \subseteq Ancestors[x]
      BY <2>1, <2>3, AncestorFacts
    <3> QED
      BY <2>1, <3>1 DEF NowLinked
  <2> QED
    BY <2>2, <2>3
<1> QED
  BY <1>1, <1>2, <1>3 DEF NowLinked

(* Sequence ids given to newly linked blocks are natural numbers. *)
LEMMA SequenceIdsType ==
    ASSUME NEW L \in SUBSET Blocks, NEW s \in SequenceIds(L), NEW x \in L
    PROVE  s[x] \in Nat
<1> DEFINE N == {b \in Blocks : nSequenceId[b] # 0}
<1>1. Cardinality(N) \in Nat /\ Cardinality(L) \in Nat
  <2>1. IsFiniteSet(N) /\ IsFiniteSet(L)
    BY FS_Subset, TreeAssumption
  <2> QED
    BY <2>1, FS_CardinalityType
<1> QED
  BY <1>1 DEF SequenceIds

(* What AcceptBlock's bookkeeping keeps, whatever the header did.          *)
LEMMA ReceivedKeeps ==
    ASSUME IInv, NEW b \in Blocks, b # Genesis, b \notin have, NEW failed,
           ReceivedBlockTransactions(b, failed), tip' = tip
    PROVE  /\ have' = have \cup {b} /\ linked \subseteq linked' /\ linked' \subseteq have'
           /\ unlinked' \subseteq have' /\ candidates' \subseteq linked'
           /\ nSequenceId' \in [Blocks -> Nat]
           /\ Links' /\ CandidatesSound'
<1>1. have' = have \cup {b}
  BY DEF ReceivedBlockTransactions
<1>2. CASE Parent[b] \in linked
  <2> DEFINE L == NowLinked(b)
  <2>1. PICK s \in SequenceIds(L) :
                  /\ linked' = linked \cup L
                  /\ nSequenceId' = [x \in Blocks |-> IF x \in L THEN s[x] ELSE nSequenceId[x]]
                  /\ candidates' = candidates \cup {x \in L : ~Worse(x, tip, nSequenceId')}
                  /\ unlinked' = unlinked \ L
    BY <1>2 DEF ReceivedBlockTransactions
  <2>2. L \subseteq {b} \cup unlinked /\ \A x \in L : Ancestors[x] \subseteq linked \cup L
    BY <1>2, LinkedBlocks
  <2>3. L \subseteq Blocks /\ L \cap linked = {} /\ L \subseteq have \cup {b}
    BY <2>2 DEF IInv, TypeOK, Links
  <2>4. nSequenceId' \in [Blocks -> Nat]
    <3>1. \A x \in L : s[x] \in Nat
      BY <2>3, SequenceIdsType
    <3> HIDE DEF L
    <3> QED
      BY <2>1, <3>1 DEF IInv, TypeOK
  <2> HIDE DEF L
  <2>5. \A x \in linked : nSequenceId'[x] = nSequenceId[x]
    BY <2>1, <2>3 DEF IInv, TypeOK
  <2>6. Links'
    BY <2>1, <2>2 DEF IInv, Links
  <2>7. CandidatesSound'
    <3>1. ASSUME NEW c \in candidates
          PROVE  Ancestors[c] \subseteq linked' /\ ~Worse(c, tip, nSequenceId')
      <4>1. c \in linked /\ tip \in linked /\ Ancestors[c] \subseteq linked
            /\ ~Worse(c, tip, nSequenceId)
        BY AncestorFacts DEF IInv, TypeOK, CandidatesSound
      <4> QED
        BY <2>1, <2>5, <4>1 DEF Worse
    <3>2. ASSUME NEW c \in L, ~Worse(c, tip, nSequenceId')
          PROVE  Ancestors[c] \subseteq linked' /\ ~Worse(c, tip, nSequenceId')
      BY <2>1, <2>2, <3>2
    <3> QED
      BY <2>1, <3>1, <3>2 DEF CandidatesSound
  <2>8. candidates' \subseteq linked'
    BY <2>1, AncestorFacts DEF IInv, TypeOK, CandidatesSound
  <2> QED
    BY <1>1, <2>1, <2>3, <2>4, <2>6, <2>7, <2>8 DEF IInv, TypeOK
<1>3. CASE Parent[b] \notin linked
  <2>1. /\ unlinked' \subseteq unlinked \cup {b}
        /\ UNCHANGED <<linked, nSequenceId, candidates>>
    BY <1>3 DEF ReceivedBlockTransactions
  <2>2. b \notin linked
    BY DEF IInv, TypeOK
  <2>3. Links' /\ CandidatesSound'
    BY <2>1, <2>2 DEF IInv, Links, CandidatesSound, Worse
  <2>4. candidates \subseteq linked
    BY AncestorFacts DEF IInv, TypeOK, CandidatesSound
  <2> QED
    BY <1>1, <2>1, <2>3, <2>4 DEF IInv, TypeOK
<1> QED
  BY <1>2, <1>3

(* The call of ActivateBestChain that follows touches only locals. *)
LEMMA StartKeeps ==
    ASSUME IInv, NEW t \in Threads, pc[t] \in {"idle", "invalidate"}, NEW skip \in BOOLEAN,
           StartActivation(t, skip)
    PROVE  /\ pc' \in [Threads -> {"idle", "find", "step", "check", "invalidate"}]
           /\ fSkipdpow' \in [Threads -> BOOLEAN]
           /\ pc'[t] = "find" /\ \A u \in Threads \ {t} : pc'[u] = pc[u]
BY DEF IInv, TypeOK, StartActivation

(* A block, accepted, ignored or rejected by AcceptBlock, keeps IInv. *)
LEMMA ProcessNewBlockIInv ==
    ASSUME IInv, NEW t \in Threads, NEW b \in Blocks, NEW requested \in BOOLEAN,
           ProcessNewBlock(t, b, requested)
    PROVE  IInv'
<1> DEFINE h == AcceptBlockHeader(b)
<1>1. /\ h.index \subseteq Blocks /\ index \subseteq h.index
      /\ h.failedValid \subseteq failedValid /\ h.failedChild \subseteq failedChild
      /\ h.last \in Nat /\ (h.ok => b \in h.index)
  BY HeaderFacts DEF IInv
<1>2. /\ pc[t] = "idle" /\ csMain = None /\ b # Genesis
      /\ index' = h.index /\ last_NPOINTSi' = h.last /\ failedChild' = h.failedChild
      /\ UNCHANGED <<tip, dpowVars, csMain, pindexMostWork, pindexOldTip, arg, shutdown>>
  BY DEF ProcessNewBlock, AcceptBlock
<1>3. /\ failedValid' \subseteq h.index
      /\ \/ UNCHANGED <<have, linked, nSequenceId, candidates, unlinked>>
         \/ h.ok /\ b \notin have
            /\ ReceivedBlockTransactions(b, h.failedValid \cup h.failedChild)
      /\ \/ UNCHANGED <<pc, fSkipdpow>>
         \/ StartActivation(t, FALSE)
  <2>1. failedValid \subseteq index
    BY DEF IInv, TypeOK
  <2>2. /\ \/ failedValid' = h.failedValid
           \/ h.ok /\ failedValid' = h.failedValid \cup {b}
        /\ \/ UNCHANGED <<have, linked, nSequenceId, candidates, unlinked>>
           \/ h.ok /\ b \notin have
              /\ ReceivedBlockTransactions(b, h.failedValid \cup h.failedChild)
        /\ \/ UNCHANGED <<pc, fSkipdpow>>
           \/ StartActivation(t, FALSE)
    BY DEF ProcessNewBlock, AcceptBlock, Ignores
  <2> HIDE DEF h
  <2> QED
    BY <1>1, <2>1, <2>2
<1> HIDE DEF h
<1>4. /\ have' \subseteq h.index /\ linked \subseteq linked' /\ linked' \subseteq have'
      /\ unlinked' \subseteq have' /\ candidates' \subseteq linked'
      /\ nSequenceId' \in [Blocks -> Nat]
      /\ Links' /\ CandidatesSound'
  <2>1. CASE UNCHANGED <<have, linked, nSequenceId, candidates, unlinked>>
    <3>1. candidates \subseteq linked
      BY AncestorFacts DEF IInv, TypeOK, CandidatesSound
    <3>2. Links' /\ CandidatesSound'
      BY <1>2, <2>1 DEF IInv, Links, CandidatesSound, Worse
    <3> QED
      BY <1>1, <2>1, <3>1, <3>2 DEF IInv, TypeOK
  <2>2. CASE h.ok /\ b \notin have
             /\ ReceivedBlockTransactions(b, h.failedValid \cup h.failedChild)
    <3>1. have \subseteq index
      BY DEF IInv, TypeOK
    <3> QED
      BY <1>1, <1>2, <2>2, <3>1, ReceivedKeeps
  <2> QED
    BY <1>3, <2>1, <2>2
<1>5. /\ pc' \in [Threads -> {"idle", "find", "step", "check", "invalidate"}]
      /\ fSkipdpow' \in [Threads -> BOOLEAN]
      /\ pc'[t] \in {"idle", "find"} /\ \A u \in Threads \ {t} : pc'[u] = pc[u]
  <2>1. CASE UNCHANGED <<pc, fSkipdpow>>
    BY <1>2, <2>1 DEF IInv, TypeOK
  <2>2. CASE StartActivation(t, FALSE)
    BY <1>2, <2>2, StartKeeps
  <2> QED
    BY <1>3, <2>1, <2>2
<1>6. TypeOK'
  BY <1>1, <1>2, <1>3, <1>4, <1>5 DEF IInv, TypeOK, dpowVars
<1>7. Working'
  BY <1>2, <1>4, <1>5 DEF IInv, Working
<1> QED
  BY <1>4, <1>6, <1>7 DEF IInv

(* FindMostWorkChain only removes candidates and adds marks. *)
LEMMA DropFailedChainIInv ==
    ASSUME IInv, NEW t \in Threads, DropFailedChain(t)
    PROVE  IInv'
<1>1. PICK b \in candidates : \E x \in FailedOnPath(b) :
          /\ failedChild' = failedChild \cup (Ancestors[b] \ Ancestors[x])
          /\ candidates' = candidates \ ((Ancestors[b] \ Ancestors[x]) \cup {x})
  BY DEF DropFailedChain
<1>2. /\ pc[t] = "find" /\ csMain \in {None, t} /\ csMain' = t
      /\ UNCHANGED <<index, have, linked, nSequenceId, failedValid, unlinked, tip, dpowVars,
                   last_NPOINTSi, pc, fSkipdpow, pindexMostWork, pindexOldTip, arg, shutdown>>
  BY DEF DropFailedChain, MayLock
<1>3. Ancestors[b] \subseteq index
  BY DEF IInv, TypeOK, CandidatesSound
<1>4. failedChild' \subseteq index /\ candidates' \subseteq candidates
  BY <1>1, <1>3 DEF IInv, TypeOK
<1>5. TypeOK'
  BY <1>2, <1>4 DEF IInv, TypeOK, dpowVars
<1>6. Links' /\ CandidatesSound'
  BY <1>2, <1>4 DEF IInv, Links, CandidatesSound, Worse
<1>7. Working'
  <2>1. None \notin Threads
    BY TreeAssumption
  <2> QED
    BY <1>2, <2>1 DEF IInv, Working
<1> QED
  BY <1>5, <1>6, <1>7 DEF IInv

(* Leaving a call drops the locals of that thread; no other thread was in  *)
(* a loop if cs_main was this thread's or free.                            *)
LEMMA ReturnKeeps ==
    ASSUME IInv, NEW t \in Threads, csMain \in {None, t}, Return(t),
           linked \subseteq linked'
    PROVE  /\ pc' \in [Threads -> {"idle", "find", "step", "check", "invalidate"}]
           /\ fSkipdpow' \in [Threads -> BOOLEAN]
           /\ pindexMostWork' \in [Threads -> Blocks \cup {None}]
           /\ csMain' = None /\ pindexOldTip' = None /\ arg' = None
           /\ Working'
<1>1. None \notin Threads
  BY TreeAssumption
<1>2. /\ pc' \in [Threads -> {"idle", "find", "step", "check", "invalidate"}]
      /\ fSkipdpow' \in [Threads -> BOOLEAN]
      /\ pindexMostWork' \in [Threads -> Blocks \cup {None}]
      /\ csMain' = None /\ pindexOldTip' = None /\ arg' = None
  BY DEF IInv, TypeOK, Return, Leave
<1>3. \A u \in Threads : pc'[u] \notin {"step", "invalidate"}
  BY <1>1 DEF IInv, TypeOK, Return, Leave, Working
<1> QED
  BY <1>2, <1>3 DEF Working

(* ActivateBestChain returning without work keeps IInv. *)
LEMMA NothingToDoIInv ==
    ASSUME IInv, NEW t \in Threads, NothingToDo(t)
    PROVE  IInv'
<1>1. /\ csMain \in {None, t} /\ Return(t)
      /\ UNCHANGED <<blockVars, tip, dpowVars, last_NPOINTSi, shutdown>>
  BY DEF NothingToDo, MayLock
<1>2. /\ pc' \in [Threads -> {"idle", "find", "step", "check", "invalidate"}]
      /\ fSkipdpow' \in [Threads -> BOOLEAN]
      /\ pindexMostWork' \in [Threads -> Blocks \cup {None}]
      /\ csMain' = None /\ pindexOldTip' = None /\ arg' = None
      /\ Working'
  BY <1>1, ReturnKeeps DEF blockVars
<1>3. TypeOK'
  BY <1>1, <1>2 DEF IInv, TypeOK, blockVars, dpowVars
<1>4. Links' /\ CandidatesSound'
  BY <1>1 DEF IInv, Links, CandidatesSound, Worse, blockVars
<1> QED
  BY <1>2, <1>3, <1>4 DEF IInv

(* A step starts towards a candidate, which has all data. *)
LEMMA StartStepIInv ==
    ASSUME IInv, NEW t \in Threads, StartStep(t)
    PROVE  IInv'
<1>1. /\ pc[t] = "find" /\ csMain \in {None, t}
      /\ UNCHANGED <<blockVars, tip, dpowVars, last_NPOINTSi>>
  BY DEF StartStep, MayLock
<1>2. Links' /\ CandidatesSound'
  BY <1>1 DEF IInv, Links, CandidatesSound, Worse, blockVars
<1>3. CASE Return(t) /\ shutdown' \in BOOLEAN
  <2>1. /\ pc' \in [Threads -> {"idle", "find", "step", "check", "invalidate"}]
        /\ fSkipdpow' \in [Threads -> BOOLEAN]
        /\ pindexMostWork' \in [Threads -> Blocks \cup {None}]
        /\ csMain' = None /\ pindexOldTip' = None /\ arg' = None
        /\ Working'
    BY <1>1, <1>3, ReturnKeeps DEF blockVars
  <2>2. TypeOK'
    BY <1>1, <1>3, <2>1 DEF IInv, TypeOK, blockVars, dpowVars
  <2> QED
    BY <1>2, <2>1, <2>2 DEF IInv
<1>4. ASSUME NEW b \in candidates,
             pindexMostWork' = [pindexMostWork EXCEPT ![t] = b], pindexOldTip' = tip, csMain' = t,
             pc' = [pc EXCEPT ![t] = "step"], UNCHANGED <<fSkipdpow, arg, shutdown>>
      PROVE  IInv'
  <2>1. b \in linked /\ b \in Blocks
    BY AncestorFacts DEF IInv, TypeOK, CandidatesSound
  <2>2. TypeOK'
    BY <1>1, <1>4, <2>1 DEF IInv, TypeOK, blockVars, dpowVars
  <2>3. Working'
    <3>1. None \notin Threads
      BY TreeAssumption
    <3>2. \A u \in Threads \ {t} : pc[u] \notin {"step", "invalidate"}
      BY <1>1, <3>1 DEF IInv, Working
    <3> QED
      BY <1>1, <1>4, <2>1, <3>2 DEF IInv, TypeOK, Working, blockVars
  <2> QED
    BY <1>2, <2>2, <2>3 DEF IInv
<1>5. \/ Return(t) /\ shutdown' \in BOOLEAN
      \/ \E b \in candidates :
            /\ pindexMostWork' = [pindexMostWork EXCEPT ![t] = b] /\ pindexOldTip' = tip
            /\ csMain' = t
            /\ pc' = [pc EXCEPT ![t] = "step"] /\ UNCHANGED <<fSkipdpow, arg, shutdown>>
  BY DEF StartStep, IInv, TypeOK
<1> QED
  BY <1>3, <1>4, <1>5

(* DisconnectTip during a reorganisation, which always stops above the     *)
(* genesis block: it is on every chain.                                    *)
LEMMA DisconnectStepIInv ==
    ASSUME IInv, NEW t \in Threads, DisconnectStep(t)
    PROVE  IInv' /\ tip # Genesis
<1>1. /\ pc[t] = "step" /\ csMain = t /\ tip \notin Ancestors[pindexMostWork[t]]
      /\ UNCHANGED <<blockVars, dpowVars, last_NPOINTSi, shutdown>>
  BY DEF DisconnectStep, DisconnectTip
<1>2. tip # Genesis
  <2>1. pindexMostWork[t] \in Blocks
    BY <1>1 DEF IInv, TypeOK, Working
  <2> QED
    BY <1>1, <2>1, AncestorFacts
<1>3. CASE /\ tip' = Parent[tip]
           /\ UNCHANGED <<pc, csMain, fSkipdpow, pindexMostWork, pindexOldTip, arg>>
  <2>1. TypeOK'
    BY <1>1, <1>2, <1>3, LowerTip DEF IInv, TypeOK, blockVars, dpowVars
  <2>2. Links' /\ CandidatesSound' /\ Working'
    BY <1>1, <1>2, <1>3, LowerTip DEF IInv, Links, CandidatesSound, Worse, Working, blockVars
  <2> QED
    BY <1>2, <2>1, <2>2 DEF IInv
<1>4. CASE Return(t) /\ UNCHANGED tip
  <2>1. /\ pc' \in [Threads -> {"idle", "find", "step", "check", "invalidate"}]
        /\ fSkipdpow' \in [Threads -> BOOLEAN]
        /\ pindexMostWork' \in [Threads -> Blocks \cup {None}]
        /\ csMain' = None /\ pindexOldTip' = None /\ arg' = None
        /\ Working'
    BY <1>1, <1>4, ReturnKeeps DEF blockVars
  <2>2. TypeOK'
    BY <1>1, <1>4, <2>1 DEF IInv, TypeOK, blockVars, dpowVars
  <2>3. Links' /\ CandidatesSound'
    BY <1>1, <1>4 DEF IInv, Links, CandidatesSound, Worse, blockVars
  <2> QED
    BY <1>2, <2>1, <2>2, <2>3 DEF IInv
<1> QED
  BY <1>3, <1>4 DEF DisconnectStep, DisconnectTip

(* The notarisation of a connected block and its record are typed.         *)
LEMMA ApplyNotarisationType ==
    ASSUME TypeOK, NEW b \in Blocks, ApplyNotarisation(b)
    PROVE  /\ NOTARIZED' \in Blocks \cup {None} /\ finalized' \subseteq Blocks
           /\ NPOINTS' \in Seq([nHeight : Nat, block : Blocks])
<1>1. Notarisation(b) \in Blocks \cup {None}
  BY NotaryAssumption DEF Notarisation
<1>2. Height(b) \in Nat
  <2>1. IsFiniteSet(Ancestors[b])
    BY AncestorFacts, FS_Subset, TreeAssumption
  <2>2. Cardinality(Ancestors[b]) \in Nat /\ Cardinality(Ancestors[b]) # 0
    BY <2>1, AncestorFacts, FS_CardinalityType, FS_EmptySet
  <2> QED
    BY <2>2 DEF Height
<1>3. CASE Notarisation(b) = None
  BY <1>3 DEF TypeOK, ApplyNotarisation, dpowVars
<1>4. CASE Notarisation(b) # None
  <2>1. [nHeight |-> Height(b), block |-> Notarisation(b)] \in [nHeight : Nat, block : Blocks]
    BY <1>1, <1>2, <1>4
  <2>2. ASSUME NEW S, NEW e \in S, NEW q \in Seq(S)
        PROVE  Append(q, e) \in Seq(S)
    OBVIOUS
  <2>3. NPOINTS \in Seq([nHeight : Nat, block : Blocks])
    BY DEF TypeOK
  <2>4. NPOINTS' = Append(NPOINTS, [nHeight |-> Height(b), block |-> Notarisation(b)])
    BY <1>4 DEF ApplyNotarisation
  <2>5. NPOINTS' \in Seq([nHeight : Nat, block : Blocks])
    BY <2>1, <2>2, <2>3, <2>4
  <2> QED
    BY <1>1, <1>4, <2>5 DEF TypeOK, ApplyNotarisation
<1> QED
  BY <1>3, <1>4

(* ConnectTip and pruning, or a rejected block, keep IInv. *)
LEMMA ConnectStepIInv ==
    ASSUME IInv, NEW t \in Threads, ConnectStep(t)
    PROVE  IInv'
<1>1. PICK b \in Ancestors[pindexMostWork[t]] \ {Genesis} :
          /\ Parent[b] = tip
          /\ \/ /\ failedValid' = failedValid \cup {b}
                /\ candidates' = candidates \ {b}
                /\ EndStep(t)
                /\ UNCHANGED <<tip, dpowVars>>
             \/ /\ ApplyNotarisation(b)
                /\ tip' = b
                /\ candidates' = Pruned(b)
                /\ EndStep(t) \/ UNCHANGED <<pc, csMain, pindexOldTip>>
                /\ UNCHANGED failedValid
  BY DEF ConnectStep, ConnectTip, InvalidBlockFound
<1>2. /\ pc[t] = "step" /\ csMain = t
      /\ UNCHANGED <<index, have, linked, nSequenceId, failedChild, unlinked, last_NPOINTSi,
                   fSkipdpow, pindexMostWork, arg, shutdown>>
  BY DEF ConnectStep, ConnectTip, InvalidBlockFound
<1>3. b \in linked /\ b \in index /\ b \in Blocks
  BY <1>1, <1>2 DEF IInv, TypeOK, Links, Working
<1>4. /\ pc' \in [Threads -> {"idle", "find", "step", "check", "invalidate"}]
      /\ csMain' \in Threads \cup {None} /\ pindexOldTip' \in Blocks \cup {None}
      /\ Working'
  <2>1. CASE EndStep(t)
    BY <1>2, <2>1 DEF IInv, TypeOK, Working, EndStep
  <2>2. CASE UNCHANGED <<pc, csMain, pindexOldTip>>
    BY <1>2, <2>2 DEF IInv, TypeOK, Working
  <2> QED
    BY <1>1, <2>1, <2>2
<1>5. /\ failedValid' \subseteq index /\ candidates' \subseteq candidates /\ tip' \in linked
      /\ \A c \in candidates' : ~Worse(c, tip', nSequenceId)
  BY <1>1, <1>3 DEF IInv, TypeOK, CandidatesSound, Pruned
<1>6. /\ NOTARIZED' \in Blocks \cup {None} /\ finalized' \subseteq Blocks
      /\ NPOINTS' \in Seq([nHeight : Nat, block : Blocks])
  <2>1. CASE UNCHANGED dpowVars
    BY <2>1 DEF IInv, TypeOK, dpowVars
  <2>2. CASE ApplyNotarisation(b)
    BY <1>3, <2>2, ApplyNotarisationType DEF IInv
  <2> QED
    BY <1>1, <2>1, <2>2
<1>7. TypeOK'
  BY <1>2, <1>4, <1>5, <1>6 DEF IInv, TypeOK
<1>8. Links' /\ CandidatesSound'
  BY <1>2, <1>5 DEF IInv, Links, CandidatesSound, Worse
<1> QED
  BY <1>4, <1>7, <1>8 DEF IInv

(* The loop condition of ActivateBestChain changes only locals. *)
LEMMA CheckLoopIInv ==
    ASSUME IInv, NEW t \in Threads, CheckLoop(t)
    PROVE  IInv'
<1>1. /\ pc[t] = "check"
      /\ UNCHANGED <<blockVars, tip, dpowVars, last_NPOINTSi, csMain, pindexOldTip, arg, shutdown>>
  BY DEF CheckLoop
<1>2. /\ pc' \in [Threads -> {"idle", "find", "step", "check", "invalidate"}]
      /\ fSkipdpow' \in [Threads -> BOOLEAN]
      /\ pindexMostWork' \in [Threads -> Blocks \cup {None}]
      /\ pc'[t] \in {"idle", "find"}
      /\ \A u \in Threads \ {t} : pc'[u] = pc[u] /\ pindexMostWork'[u] = pindexMostWork[u]
  BY DEF IInv, TypeOK, CheckLoop, Leave
<1>3. TypeOK'
  BY <1>1, <1>2 DEF IInv, TypeOK, blockVars, dpowVars
<1>4. Links' /\ CandidatesSound' /\ Working'
  BY <1>1, <1>2 DEF IInv, Links, CandidatesSound, Worse, Working, blockVars
<1> QED
  BY <1>3, <1>4 DEF IInv

(* The start of InvalidateBlock marks a block other than genesis. *)
LEMMA InvalidateBlockIInv ==
    ASSUME IInv, NEW t \in Threads, NEW b \in Blocks, InvalidateBlock(t, b)
    PROVE  IInv'
<1>1. /\ pc[t] = "idle" /\ csMain = None /\ b \in index \ {Genesis}
      /\ failedValid' = failedValid \cup {b} /\ candidates' = candidates \ {b}
      /\ arg' = b /\ csMain' = t /\ pc' = [pc EXCEPT ![t] = "invalidate"]
      /\ UNCHANGED <<index, have, linked, nSequenceId, failedChild, unlinked, tip, dpowVars,
                   last_NPOINTSi, fSkipdpow, pindexMostWork, pindexOldTip, shutdown>>
  BY DEF InvalidateBlock
<1>2. \A u \in Threads : pc[u] \notin {"step", "invalidate"}
  BY <1>1, TreeAssumption DEF IInv, Working
<1>3. TypeOK'
  BY <1>1 DEF IInv, TypeOK, dpowVars
<1>4. Links' /\ CandidatesSound'
  BY <1>1 DEF IInv, Links, CandidatesSound, Worse
<1>5. Working'
  BY <1>1, <1>2 DEF IInv, TypeOK, Working
<1> QED
  BY <1>3, <1>4, <1>5 DEF IInv

(* DisconnectTip during invalidateblock: it stops above the genesis block, *)
(* which is never invalidated.                                             *)
LEMMA InvalidateStepIInv ==
    ASSUME IInv, NEW t \in Threads, InvalidateStep(t)
    PROVE  IInv' /\ tip # Genesis
<1>1. /\ pc[t] = "invalidate" /\ csMain = t /\ arg \in Active
      /\ failedChild' = failedChild \cup {tip} /\ candidates' = candidates \ {tip}
      /\ UNCHANGED <<index, have, linked, nSequenceId, failedValid, unlinked, dpowVars,
                   last_NPOINTSi, shutdown>>
  BY DEF InvalidateStep, DisconnectTip
<1>2. tip # Genesis
  BY <1>1, TreeAssumption DEF IInv, Working, Active
<1>3. tip \in index
  BY DEF IInv, TypeOK
<1>4. CASE /\ tip' = Parent[tip]
           /\ UNCHANGED <<pc, csMain, fSkipdpow, pindexMostWork, pindexOldTip, arg>>
  <2>1. TypeOK'
    BY <1>1, <1>2, <1>3, <1>4, LowerTip DEF IInv, TypeOK, dpowVars
  <2>2. Links' /\ CandidatesSound' /\ Working'
    BY <1>1, <1>2, <1>4, LowerTip DEF IInv, Links, CandidatesSound, Worse, Working
  <2> QED
    BY <1>2, <2>1, <2>2 DEF IInv
<1>5. CASE Return(t) /\ UNCHANGED tip
  <2>1. /\ pc' \in [Threads -> {"idle", "find", "step", "check", "invalidate"}]
        /\ fSkipdpow' \in [Threads -> BOOLEAN]
        /\ pindexMostWork' \in [Threads -> Blocks \cup {None}]
        /\ csMain' = None /\ pindexOldTip' = None /\ arg' = None
        /\ Working'
    BY <1>1, <1>5, ReturnKeeps
  <2>2. TypeOK'
    BY <1>1, <1>3, <1>5, <2>1 DEF IInv, TypeOK, dpowVars
  <2>3. Links' /\ CandidatesSound'
    BY <1>1, <1>5 DEF IInv, Links, CandidatesSound, Worse
  <2> QED
    BY <1>2, <2>1, <2>2, <2>3 DEF IInv
<1> QED
  BY <1>4, <1>5 DEF InvalidateStep, DisconnectTip

(* The blocks InvalidateBlock re-adds are linked and not worse. *)
LEMMA InvalidateDoneIInv ==
    ASSUME IInv, NEW t \in Threads, InvalidateDone(t)
    PROVE  IInv'
<1>1. /\ pc[t] = "invalidate" /\ csMain = t
      /\ candidates' = candidates \cup Readded
      /\ csMain' = None /\ arg' = None /\ StartActivation(t, TRUE)
      /\ UNCHANGED <<index, have, linked, nSequenceId, failedValid, failedChild, unlinked, tip,
                   dpowVars, last_NPOINTSi, pindexMostWork, pindexOldTip, shutdown>>
  BY DEF InvalidateDone
<1>2. /\ pc' \in [Threads -> {"idle", "find", "step", "check", "invalidate"}]
      /\ fSkipdpow' \in [Threads -> BOOLEAN]
      /\ pc'[t] = "find" /\ \A u \in Threads \ {t} : pc'[u] = pc[u]
  BY <1>1, StartKeeps
<1>3. TypeOK'
  BY <1>1, <1>2 DEF IInv, TypeOK, Readded, dpowVars
<1>4. Links' /\ CandidatesSound'
  BY <1>1 DEF IInv, Links, CandidatesSound, Worse, Readded
<1>5. Working'
  BY <1>1, <1>2 DEF IInv, Working
<1> QED
  BY <1>3, <1>4, <1>5 DEF IInv

(* The descendants ReconsiderBlock re-adds are linked and better. *)
LEMMA ReconsiderBlockIInv ==
    ASSUME IInv, NEW t \in Threads, NEW b \in Blocks, ReconsiderBlock(t, b)
    PROVE  IInv'
<1>1. /\ pc[t] = "idle" /\ StartActivation(t, TRUE)
      /\ failedValid' \subseteq failedValid /\ failedChild' \subseteq failedChild
      /\ candidates \subseteq candidates'
      /\ candidates' \subseteq candidates \cup {x \in linked : Worse(tip, x, nSequenceId)}
      /\ UNCHANGED <<index, have, linked, nSequenceId, unlinked, tip, dpowVars, last_NPOINTSi,
                   csMain, pindexMostWork, pindexOldTip, arg, shutdown>>
  BY DEF ReconsiderBlock
<1>2. /\ pc' \in [Threads -> {"idle", "find", "step", "check", "invalidate"}]
      /\ fSkipdpow' \in [Threads -> BOOLEAN]
      /\ pc'[t] = "find" /\ \A u \in Threads \ {t} : pc'[u] = pc[u]
  BY <1>1, StartKeeps
<1>3. TypeOK'
  BY <1>1, <1>2 DEF IInv, TypeOK, dpowVars
<1>4. CandidatesSound'
  <2>1. ASSUME NEW x \in linked, Worse(tip, x, nSequenceId)
        PROVE  ~Worse(x, tip, nSequenceId)
    <3>1. ChainPower[x] \in Nat /\ ChainPower[tip] \in Nat
      BY AncestorFacts DEF IInv, TypeOK
    <3> QED
      BY <2>1, <3>1 DEF Worse, IInv, TypeOK
  <2> QED
    BY <1>1, <2>1 DEF IInv, Links, CandidatesSound, Worse
<1>5. Links' /\ Working'
  BY <1>1, <1>2 DEF IInv, Links, Working
<1> QED
  BY <1>3, <1>4, <1>5 DEF IInv

(* Every step of the node preserves IInv. *)
LEMMA NextIInv == IInv /\ [Next]_vars => IInv'
<1> SUFFICES ASSUME IInv, [Next]_vars PROVE IInv'
  OBVIOUS
<1>1. CASE \E b \in Blocks : ReceiveHeader(b)
  BY <1>1, ReceiveHeaderIInv
<1>2. ASSUME NEW t \in Threads, \E b \in Blocks, requested \in BOOLEAN : ProcessNewBlock(t, b, requested)
      PROVE  IInv'
  BY <1>2, ProcessNewBlockIInv
<1>3. ASSUME NEW t \in Threads, \E b \in Blocks : InvalidateBlock(t, b) \/ ReconsiderBlock(t, b)
      PROVE  IInv'
  BY <1>3, InvalidateBlockIInv, ReconsiderBlockIInv
<1>4. ASSUME NEW t \in Threads, Continue(t)
      PROVE  IInv'
  BY <1>4, DropFailedChainIInv, NothingToDoIInv, StartStepIInv, DisconnectStepIInv,
     ConnectStepIInv, CheckLoopIInv, InvalidateStepIInv, InvalidateDoneIInv DEF Continue
<1>5. CASE UNCHANGED vars
  <2>1. TypeOK'
    BY <1>5 DEF IInv, TypeOK, vars, blockVars, dpowVars, threadVars
  <2>2. Links' /\ CandidatesSound' /\ Working'
    BY <1>5 DEF IInv, Links, CandidatesSound, Worse, Working, vars, blockVars, threadVars
  <2> QED
    BY <2>1, <2>2 DEF IInv
<1> QED
  BY <1>1, <1>2, <1>3, <1>4, <1>5 DEF Next

(* The inductive invariant holds in every reachable state. *)
THEOREM Invariance == Spec => []IInv
BY InitIInv, NextIInv, PTL DEF Spec

(* Every variable keeps its type; in particular the tip always has data    *)
(* for its whole chain, and headers, blocks and marks refer to the index.  *)
THEOREM TypeCorrect == Spec => []TypeOK
<1>1. IInv => TypeOK
  BY DEF IInv
<1> QED
  BY <1>1, Invariance, PTL

(* FindMostWorkChain's assertion nChainTx # 0 on the way to a candidate,   *)
(* and CheckBlockIndex's that no candidate sorts worse than the tip, hold  *)
(* for every tree, every interleaving and every use of the RPC calls.      *)
THEOREM CandidatesAreSound == Spec => []CandidatesSound
<1>1. IInv => CandidatesSound
  BY DEF IInv
<1> QED
  BY <1>1, Invariance, PTL

-----------------------------------------------------------------------------
(* Finality *)

(* Disconnecting a tip that is not the notarised block keeps the notarised *)
(* block on the chain.                                                     *)
LEMMA DisconnectKeepsNotarised ==
    ASSUME IInv, Notarised, tip # Genesis, UNCHANGED dpowVars,
           UNCHANGED tip \/ (CanDisconnectTip /\ tip' = Parent[tip])
    PROVE  Notarised'
<1>1. CASE UNCHANGED tip
  BY <1>1 DEF Notarised, Active, dpowVars
<1>2. CASE CanDisconnectTip /\ tip' = Parent[tip]
  <2>1. Ancestors[tip] = Ancestors[Parent[tip]] \cup {tip}
    BY ParentFacts DEF IInv, TypeOK
  <2> QED
    BY <1>2, <2>1 DEF Notarised, Active, dpowVars, CanDisconnectTip
<1> QED
  BY <1>1, <1>2

(* A newly applied notarisation names a block above the last one on the    *)
(* same chain, so the earlier ones are its ancestors.                      *)
LEMMA ConnectKeepsNotarised ==
    ASSUME SameChain, IInv, Notarised, NEW b \in Blocks, b # Genesis, Parent[b] = tip, tip' = b,
           ApplyNotarisation(b)
    PROVE  Notarised'
<1>1. Ancestors[tip] \subseteq Ancestors[b]
  BY ParentFacts
<1>2. CASE Notarisation(b) = None
  BY <1>1, <1>2 DEF ApplyNotarisation, Notarised, Active, dpowVars
<1>3. CASE Notarisation(b) # None
  <2> DEFINE n == Notarisation(b)
  <2>1. /\ n = Notarises[b] /\ n \in Ancestors[b]
        /\ Height(n) > NOTARIZED_HEIGHT
    BY <1>3 DEF Notarisation, SameChain
  <2>2. NOTARIZED' = n /\ finalized' = finalized \cup {n}
    BY <1>3 DEF ApplyNotarisation
  <2>3. n \in Blocks /\ n \in Ancestors[n]
    BY <2>1, AncestorFacts
  <2>4. n # None
    BY <1>3
  <2> HIDE DEF n
  <2>5. finalized \subseteq Ancestors[n]
    <3>1. CASE NOTARIZED = None
      BY <3>1 DEF Notarised
    <3>2. CASE NOTARIZED # None
      <4>1. NOTARIZED \in Ancestors[b] /\ finalized \subseteq Ancestors[NOTARIZED]
        BY <1>1, <3>2 DEF Notarised, Active
      <4>2. NOTARIZED \in Blocks
        BY <3>2 DEF IInv, TypeOK
      <4>3. n \notin Ancestors[NOTARIZED]
        <5>1. SUFFICES ASSUME n \in Ancestors[NOTARIZED] PROVE FALSE
          OBVIOUS
        <5>2. /\ Height(n) \in Int /\ Height(NOTARIZED) \in Int
              /\ Height(n) <= Height(NOTARIZED)
          BY <4>2, <5>1, HeightMonotone
        <5>3. Height(n) > Height(NOTARIZED)
          BY <2>1, <3>2 DEF NOTARIZED_HEIGHT
        <5> HIDE DEF Height
        <5> QED
          BY <5>2, <5>3
      <4>4. NOTARIZED \in Ancestors[n]
        BY <2>1, <4>1, <4>3, AncestorFacts
      <4> QED
        BY <2>3, <4>1, <4>4, AncestorFacts
    <3> QED
      BY <3>1, <3>2
  <2> QED
    BY <2>1, <2>2, <2>3, <2>4, <2>5 DEF Notarised, Active
<1> QED
  BY <1>2, <1>3

(* No step disconnects the notarised block or moves it off its chain. *)
LEMMA NextNotarised == SameChain /\ IInv /\ Notarised /\ [Next]_vars => Notarised'
<1> SUFFICES ASSUME SameChain, IInv, Notarised, [Next]_vars PROVE Notarised'
  OBVIOUS
<1>1. CASE UNCHANGED <<tip, dpowVars>>
  BY <1>1 DEF Notarised, Active, dpowVars
<1>2. ASSUME NEW t \in Threads, DisconnectStep(t)
      PROVE  Notarised'
  <2>1. tip # Genesis
    BY <1>2, DisconnectStepIInv
  <2> QED
    BY <1>2, <2>1, DisconnectKeepsNotarised DEF DisconnectStep, DisconnectTip
<1>3. ASSUME NEW t \in Threads, InvalidateStep(t)
      PROVE  Notarised'
  <2>1. tip # Genesis
    BY <1>3, InvalidateStepIInv
  <2> QED
    BY <1>3, <2>1, DisconnectKeepsNotarised DEF InvalidateStep, DisconnectTip
<1>4. ASSUME NEW t \in Threads, ConnectStep(t)
      PROVE  Notarised'
  <2>1. PICK b \in Ancestors[pindexMostWork[t]] \ {Genesis} :
          /\ Parent[b] = tip
          /\ UNCHANGED <<tip, dpowVars>> \/ (tip' = b /\ ApplyNotarisation(b))
    BY <1>4 DEF ConnectStep, ConnectTip, InvalidBlockFound
  <2>2. b \in Blocks
    <3>1. pindexMostWork[t] \in Blocks
      BY <1>4 DEF ConnectStep, ConnectTip, InvalidBlockFound, IInv, TypeOK, Working
    <3> QED
      BY <2>1, <3>1, AncestorFacts
  <2> QED
    BY <1>1, <2>1, <2>2, ConnectKeepsNotarised
<1>5. \/ UNCHANGED <<tip, dpowVars>>
      \/ \E t \in Threads : DisconnectStep(t) \/ InvalidateStep(t) \/ ConnectStep(t)
  <2>1. ASSUME NEW b \in Blocks, ReceiveHeader(b)
        PROVE  UNCHANGED <<tip, dpowVars>>
    BY <2>1 DEF ReceiveHeader
  <2>2. ASSUME NEW t \in Threads, NEW b \in Blocks, NEW requested \in BOOLEAN,
               ProcessNewBlock(t, b, requested)
        PROVE  UNCHANGED <<tip, dpowVars>>
    BY <2>2 DEF ProcessNewBlock, AcceptBlock
  <2>3. ASSUME NEW t \in Threads, NEW b \in Blocks, InvalidateBlock(t, b) \/ ReconsiderBlock(t, b)
        PROVE  UNCHANGED <<tip, dpowVars>>
    BY <2>3 DEF InvalidateBlock, ReconsiderBlock
  <2>4. ASSUME NEW t \in Threads, Continue(t)
        PROVE  \/ UNCHANGED <<tip, dpowVars>>
               \/ DisconnectStep(t) \/ InvalidateStep(t) \/ ConnectStep(t)
    BY <2>4 DEF Continue, DropFailedChain, NothingToDo, StartStep, CheckLoop, InvalidateDone
  <2>5. CASE UNCHANGED vars
    BY <2>5 DEF vars
  <2> QED
    BY <2>1, <2>2, <2>3, <2>4, <2>5 DEF Next
<1> QED
  BY <1>1, <1>2, <1>3, <1>4, <1>5

(* dPoW finality, if notaries only sign blocks of the chain their          *)
(* notarisation is mined in: no sequence of blocks, reorganisations,       *)
(* invalidateblock or reconsiderblock calls removes a block that was ever  *)
(* the notarised one from the active chain, for every tree and whatever    *)
(* the arguments of ActivateBestChain.                                     *)
THEOREM FinalityHolds == SameChain => (Spec => []Finality)
<1>1. Init => Notarised
  BY DEF Init, Notarised
<1>2. IInv /\ Notarised => Finality
  <2> SUFFICES ASSUME IInv, Notarised PROVE Finality
    OBVIOUS
  <2>1. CASE NOTARIZED = None
    BY <2>1 DEF Notarised, Finality
  <2>2. CASE NOTARIZED # None
    <3>1. NOTARIZED \in Ancestors[tip] /\ finalized \subseteq Ancestors[NOTARIZED]
      BY <2>2 DEF Notarised, Active
    <3>2. tip \in Blocks
      BY DEF IInv, TypeOK
    <3> QED
      BY <3>1, <3>2, AncestorFacts DEF Finality, Active
  <2> QED
    BY <2>1, <2>2
<1> SUFFICES ASSUME SameChain PROVE Spec => []Finality
  OBVIOUS
<1>3. IInv /\ IInv' /\ Notarised /\ [Next]_vars => Notarised'
  BY NextNotarised
<1>4. Spec => []IInv
  BY Invariance
<1> QED
  BY <1>1, <1>2, <1>3, <1>4, PTL DEF Spec
=============================================================================
