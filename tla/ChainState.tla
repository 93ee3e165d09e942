----------------------------- MODULE ChainState -----------------------------
(***************************************************************************)
(* The block index and the active chain of a node (src/main.cpp), with the *)
(* dPoW rules: how headers and blocks enter mapBlockIndex, how the best    *)
(* chain is found and activated block by block, how invalidateblock and    *)
(* reconsiderblock change the marks, and how notarisations found in        *)
(* connected blocks (src/komodo.h) restrict reorganisations.               *)
(*                                                                         *)
(* Threads (message handler, miner, RPC) are serialised by cs_main, which  *)
(* ActivateBestChain releases between two steps.  A critical section is    *)
(* one action where it does one thing; the loops of ActivateBestChainStep, *)
(* FindMostWorkChain and InvalidateBlock are one action per iteration with *)
(* csMain held.  Block data is never pruned, blocks are read back without  *)
(* I/O errors, and no block is from the future.                            *)
(***************************************************************************)
EXTENDS NotarizedPoints

CONSTANTS
    Threads,        \* threads that process blocks and RPC calls
    Blocks,         \* every block that exists, with its place in the tree
    Genesis,
    Parent,         \* pprev of every other block
    Ancestors,      \* a block, its parent, and so on to Genesis
    ChainPower,     \* cumulative work
    Invalid,        \* blocks ConnectBlock rejects (consensus rule broken)
    ContextInvalid, \* blocks ContextualCheckBlock rejects
    Notarises,      \* the block that a notarisation in this block names
    MaxReorg,       \* MAX_REORG_LENGTH
    DownloadWindow, \* BLOCK_DOWNLOAD_WINDOW
    ASSETCHAINS_CC, \* whether the chain runs crypto-condition contracts
    Rpcs,           \* which of "invalidateblock", "reconsiderblock" are used
    None            \* no block, no thread

ASSUME TreeAssumption ==
    /\ IsFiniteSet(Blocks)
    /\ Genesis \in Blocks /\ None \notin Blocks /\ None \notin Threads
    /\ Parent \in [Blocks \ {Genesis} -> Blocks]
    /\ Ancestors \in [Blocks -> SUBSET Blocks]
    /\ Ancestors[Genesis] = {Genesis}
    /\ \A b \in Blocks \ {Genesis} :
          b \notin Ancestors[Parent[b]] /\ Ancestors[b] = Ancestors[Parent[b]] \cup {b}
    /\ \A b \in Blocks : Genesis \in Ancestors[b] /\ b \in Ancestors[b]
    /\ \A b \in Blocks : \A a \in Ancestors[b] : Ancestors[a] \subseteq Ancestors[b]
    /\ \A b \in Blocks : \A a, c \in Ancestors[b] : a \in Ancestors[c] \/ c \in Ancestors[a]
    /\ ChainPower \in [Blocks -> Nat]
    /\ \A b \in Blocks \ {Genesis} : ChainPower[Parent[b]] < ChainPower[b]

ASSUME NotaryAssumption == Notarises \in [Blocks -> Blocks \cup {None}]

ASSUME ParameterAssumption ==
    /\ Invalid \subseteq Blocks \ {Genesis} /\ ContextInvalid \subseteq Blocks \ {Genesis}
    /\ MaxReorg \in Nat \ {0} /\ DownloadWindow \in Nat
    /\ ASSETCHAINS_CC \in BOOLEAN
    /\ Rpcs \subseteq {"invalidateblock", "reconsiderblock"}

VARIABLES
    index,        \* mapBlockIndex
    have,         \* BLOCK_HAVE_DATA
    linked,       \* nChainTx # 0: the block and all its ancestors have data
    nSequenceId,  \* order in which blocks became linked, 0 before
    failedValid,  \* BLOCK_FAILED_VALID
    failedChild,  \* BLOCK_FAILED_CHILD
    candidates,   \* setBlockIndexCandidates
    unlinked,     \* the blocks held in mapBlocksUnlinked
    tip,          \* chainActive.Tip()
    NOTARIZED,    \* the block NOTARIZED_HASH names (at NOTARIZED_HEIGHT), or None
    NPOINTS,      \* every notarisation applied
    last_NPOINTSi,
    csMain,       \* the thread that keeps cs_main across actions, or None
    pc,
    fSkipdpow,    \* argument of ActivateBestChain, per thread
    pindexMostWork, \* its local variable, per thread
    pindexOldTip, \* local to the critical section of ActivateBestChainStep
    arg,          \* pindex of the InvalidateBlock in progress
    shutdown,     \* StartShutdown() was called
    finalized     \* history: every block that was ever NOTARIZED

blockVars == <<index, have, linked, nSequenceId, failedValid, failedChild, candidates, unlinked>>
dpowVars == <<NOTARIZED, NPOINTS, finalized>>
threadVars == <<csMain, pc, fSkipdpow, pindexMostWork, pindexOldTip, arg, shutdown>>
vars == <<blockVars, tip, dpowVars, last_NPOINTSi, threadVars>>

-----------------------------------------------------------------------------
Height(b) == Cardinality(Ancestors[b]) - 1

Active == Ancestors[tip]

(* chainActive.FindFork *)
Fork(b) == CHOOSE f \in Active \cap Ancestors[b] :
               \A g \in Active \cap Ancestors[b] : Height(g) <= Height(f)

Failed == failedValid \cup failedChild

NOTARIZED_HEIGHT == IF NOTARIZED = None THEN 0 ELSE Height(NOTARIZED)

(* CBlockIndexWorkComparator: a sorts before b, with the sequence ids s. *)
Worse(a, b, s) ==
    \/ ChainPower[a] < ChainPower[b]
    \/ ChainPower[a] = ChainPower[b] /\ s[a] > s[b]

Init ==
    /\ index = {Genesis} /\ have = {Genesis} /\ linked = {Genesis}
    /\ nSequenceId = [b \in Blocks |-> 0]
    /\ failedValid = {} /\ failedChild = {}
    /\ candidates = {Genesis} /\ unlinked = {}
    /\ tip = Genesis
    /\ NOTARIZED = None /\ NPOINTS = <<>> /\ last_NPOINTSi = 0 /\ finalized = {}
    /\ csMain = None
    /\ pc = [t \in Threads |-> "idle"]
    /\ fSkipdpow = [t \in Threads |-> FALSE]
    /\ pindexMostWork = [t \in Threads |-> None]
    /\ pindexOldTip = None /\ arg = None /\ shutdown = FALSE

-----------------------------------------------------------------------------
(* Headers *)

(* komodo_checkpoint at the current tip: the lookup it makes, and whether  *)
(* it refuses a header for block b.                                        *)
Checkpoint == NotarizedData(NPOINTS, last_NPOINTSi, Height(tip))

CheckpointRefuses(b) ==
    /\ Checkpoint.found # 0
    /\ LET n == NPOINTS[Checkpoint.found].block
       IN /\ Height(n) <= Height(tip) /\ n \in index
          /\ Height(b) < Height(n) \/ (Height(b) = Height(n) /\ b # n)

(* ContextualCheckBlockHeader, the rules that depend on the node's state.  *)
ForkBelowHeightOne(b) == Height(b) = 1 /\ Height(tip) > 1

ContextualCheckBlockHeader(b) ==
    b \in Active \/ ~(ForkBelowHeightOne(b) \/ CheckpointRefuses(b))

(* Mutant: the header is accepted but not added to mapBlockIndex.          *)
NewHeaderForgotten(b) ==
    [ok |-> Parent[b] \in index /\ Parent[b] \notin Failed /\ ContextualCheckBlockHeader(b),
     index |-> index, failedValid |-> failedValid, failedChild |-> failedChild,
     last |-> last_NPOINTSi]

(* AcceptBlockHeader for a header not seen before and for a known one.     *)
(* ok is what it returns; the new values of what it may change follow.     *)
NewHeader(b) ==
    LET prevOk == Parent[b] \in index /\ Parent[b] \notin Failed
        ok == prevOk /\ ContextualCheckBlockHeader(b)
        looksUp == prevOk /\ ~ForkBelowHeightOne(b)
    IN [ok |-> ok,
        index |-> IF ok THEN index \cup {b} ELSE index,
        failedValid |-> failedValid, failedChild |-> failedChild,
        last |-> IF looksUp THEN Checkpoint.last ELSE last_NPOINTSi]

KnownHeader(b) ==
    LET ok == b \notin Failed \/ ASSETCHAINS_CC
    IN [ok |-> ok, index |-> index,
        failedValid |-> IF ok THEN failedValid \ {b} ELSE failedValid,
        failedChild |-> IF ok THEN failedChild \ {b} ELSE failedChild,
        last |-> last_NPOINTSi]

AcceptBlockHeader(b) == IF b \in index THEN KnownHeader(b) ELSE NewHeader(b)

(* A "headers" message. *)
ReceiveHeader(b) ==
    /\ csMain = None /\ b # Genesis
    /\ LET h == AcceptBlockHeader(b)
       IN /\ index' = h.index
          /\ failedValid' = h.failedValid /\ failedChild' = h.failedChild
          /\ last_NPOINTSi' = h.last
    /\ UNCHANGED <<have, linked, nSequenceId, candidates, unlinked, tip, dpowVars, threadVars>>

-----------------------------------------------------------------------------
(* Blocks *)

(* Mutants: what waits behind b is forgotten, or linked across gaps.       *)
LinksOnlyItself(b) == {b}
LinksAcrossGaps(b) == {b} \cup {x \in unlinked : b \in Ancestors[x]}

(* The blocks that become linked when b's data arrives: b, and what waits  *)
(* in mapBlocksUnlinked behind it.                                         *)
NowLinked(b) ==
    {b} \cup {x \in unlinked : b \in Ancestors[x] /\ Ancestors[x] \ Ancestors[b] \subseteq unlinked}

(* nBlockSequenceId++ in the order of the queue: parents before children.  *)
SequenceIds(L) ==
    LET n == Cardinality({b \in Blocks : nSequenceId[b] # 0})
    IN {s \in [L -> (n + 1)..(n + Cardinality(L))] :
          \A x, y \in L : /\ x # y => s[x] # s[y]
                          /\ Height(x) < Height(y) => s[x] < s[y]}

ReceivedBlockTransactions(b, failed) ==
    /\ have' = have \cup {b}
    /\ \/ /\ Parent[b] \in linked
          /\ LET L == NowLinked(b)
             IN \E s \in SequenceIds(L) :
                  /\ linked' = linked \cup L
                  /\ nSequenceId' = [x \in Blocks |-> IF x \in L THEN s[x] ELSE nSequenceId[x]]
                  /\ candidates' = candidates \cup {x \in L : ~Worse(x, tip, nSequenceId')}
                  /\ unlinked' = unlinked \ L
       \/ /\ Parent[b] \notin linked
          /\ unlinked' = IF Parent[b] \in failed THEN unlinked ELSE unlinked \cup {b}
          /\ UNCHANGED <<linked, nSequenceId, candidates>>

(* What AcceptBlock takes without looking further at the block. *)
Ignores(b, requested) ==
    \/ b \in have
    \/ ~requested /\ ChainPower[b] <= ChainPower[tip]
    \/ ~requested /\ Height(b) > Height(tip) + DownloadWindow

StartActivation(t, skip) ==
    /\ pc' = [pc EXCEPT ![t] = "find"]
    /\ fSkipdpow' = [fSkipdpow EXCEPT ![t] = skip]

(* AcceptBlock, which returns ret: the header, then the block unless it is *)
(* ignored; a block that breaks a contextual rule is marked.               *)
AcceptBlock(b, requested, ret) ==
    LET h == AcceptBlockHeader(b)
    IN /\ index' = h.index
       /\ last_NPOINTSi' = h.last
       /\ failedChild' = h.failedChild
       /\ \/ /\ ~h.ok /\ ret = FALSE
             /\ failedValid' = h.failedValid
             /\ UNCHANGED <<have, linked, nSequenceId, candidates, unlinked>>
          \/ /\ h.ok /\ Ignores(b, requested) /\ ret = TRUE
             /\ failedValid' = h.failedValid
             /\ UNCHANGED <<have, linked, nSequenceId, candidates, unlinked>>
          \/ /\ h.ok /\ ~Ignores(b, requested) /\ b \in ContextInvalid /\ ret = FALSE
             /\ failedValid' = h.failedValid \cup {b}
             /\ UNCHANGED <<have, linked, nSequenceId, candidates, unlinked>>
          \/ /\ h.ok /\ ~Ignores(b, requested) /\ b \notin ContextInvalid /\ ret = TRUE
             /\ failedValid' = h.failedValid
             /\ ReceivedBlockTransactions(b, h.failedValid \cup h.failedChild)

(* ProcessNewBlock: AcceptBlock in one critical section, then              *)
(* ActivateBestChain(false) unless AcceptBlock failed.                     *)
ProcessNewBlock(t, b, requested) ==
    /\ pc[t] = "idle" /\ csMain = None /\ b # Genesis
    /\ \/ AcceptBlock(b, requested, TRUE) /\ StartActivation(t, FALSE)
       \/ AcceptBlock(b, requested, FALSE) /\ UNCHANGED <<pc, fSkipdpow>>
    /\ UNCHANGED <<tip, dpowVars, csMain, pindexMostWork, pindexOldTip, arg, shutdown>>

-----------------------------------------------------------------------------
(* ActivateBestChain *)

MayLock(t) == csMain \in {None, t}

(* The last element of setBlockIndexCandidates. *)
IsBest(b) ==
    /\ b \in candidates
    /\ \A c \in candidates : c = b \/ Worse(c, b, nSequenceId)

(* Mutants: only the candidate itself is looked at, or no mark at all.     *)
FailedItself(b) == {b} \cap Failed
FailedIgnored(b) == {}

(* Failed blocks between the active chain and a candidate. *)
FailedOnPath(b) == (Ancestors[b] \ Active) \cap Failed

(* FindMostWorkChain drops a candidate whose chain has failed, from the    *)
(* failed block up, and looks for the next one.                            *)
DropFailedChain(t) ==
    /\ pc[t] = "find" /\ MayLock(t)
    /\ \E b \in candidates : \E x \in FailedOnPath(b) :
          /\ IsBest(b)
          /\ \A y \in FailedOnPath(b) : y \in Ancestors[x]
          /\ failedChild' = failedChild \cup (Ancestors[b] \ Ancestors[x])
          /\ candidates' = candidates \ ((Ancestors[b] \ Ancestors[x]) \cup {x})
    /\ csMain' = t
    /\ UNCHANGED <<index, have, linked, nSequenceId, failedValid, unlinked, tip, dpowVars,
                   last_NPOINTSi, pc, fSkipdpow, pindexMostWork, pindexOldTip, arg, shutdown>>

(* ActivateBestChain returns to its caller; its locals are gone ...        *)
Leave(t) ==
    /\ pc' = [pc EXCEPT ![t] = "idle"]
    /\ fSkipdpow' = [fSkipdpow EXCEPT ![t] = FALSE]
    /\ pindexMostWork' = [pindexMostWork EXCEPT ![t] = None]

(* ... and from inside a critical section cs_main is released with it.     *)
Return(t) == Leave(t) /\ csMain' = None /\ pindexOldTip' = None /\ arg' = None

NothingToDo(t) ==
    /\ pc[t] = "find" /\ MayLock(t)
    /\ candidates = {} \/ IsBest(tip)
    /\ Return(t)
    /\ UNCHANGED <<blockVars, tip, dpowVars, last_NPOINTSi, shutdown>>

(* The dPoW rule of ActivateBestChainStep and the limit on reorgs. *)
RefusedByDpow(t, b) ==
    /\ ~fSkipdpow[t]
    /\ Height(tip) > NOTARIZED_HEIGHT
    /\ Height(Fork(b)) < NOTARIZED_HEIGHT

ReorgTooLong(b) == Height(tip) - Height(Fork(b)) > MaxReorg

StartStep(t) ==
    /\ pc[t] = "find" /\ MayLock(t)
    /\ \E b \in candidates :
          /\ IsBest(b) /\ FailedOnPath(b) = {} /\ b # tip
          /\ \/ /\ RefusedByDpow(t, b)
                /\ Return(t)
                /\ UNCHANGED shutdown
             \/ /\ ~RefusedByDpow(t, b) /\ ReorgTooLong(b)
                /\ shutdown' = TRUE
                /\ Return(t)
             \/ /\ ~RefusedByDpow(t, b) /\ ~ReorgTooLong(b)
                /\ pindexMostWork' = [pindexMostWork EXCEPT ![t] = b]
                /\ pindexOldTip' = tip
                /\ csMain' = t
                /\ pc' = [pc EXCEPT ![t] = "step"]
                /\ UNCHANGED <<fSkipdpow, arg, shutdown>>
    /\ UNCHANGED <<blockVars, tip, dpowVars, last_NPOINTSi>>

(* Mutant: no protection of the notarised block. *)
CanAlwaysDisconnect == TRUE

(* DisconnectTip refuses to disconnect the last notarised block. *)
CanDisconnectTip == tip # NOTARIZED

(* Undo the last block.  What it notarised stays notarised.                *)
DisconnectTip == CanDisconnectTip /\ tip' = Parent[tip]

DisconnectStep(t) ==
    /\ pc[t] = "step" /\ csMain = t
    /\ tip \notin Ancestors[pindexMostWork[t]]
    /\ \/ /\ DisconnectTip
          /\ UNCHANGED <<pc, csMain, fSkipdpow, pindexMostWork, pindexOldTip, arg>>
       \/ /\ ~CanDisconnectTip
          /\ Return(t)
          /\ UNCHANGED tip
    /\ UNCHANGED <<blockVars, dpowVars, last_NPOINTSi, shutdown>>

(* komodo_validate_chain looks the notarised block up in mapBlockIndex.    *)
ValidateChain(n) == n \in index

(* komodo_connectblock: the notarisation in a connected block is applied   *)
(* when it is higher than the last one (komodo_voutupdate) ...             *)
Notarisation(b) ==
    LET n == Notarises[b]
    IN IF /\ n # None /\ ValidateChain(n)
          /\ Height(n) > NOTARIZED_HEIGHT /\ Height(n) < Height(b)
         THEN n ELSE None

(* ... and recorded in NPOINTS (komodo_notarized_update).                  *)
ApplyNotarisation(b) ==
    IF Notarisation(b) = None
      THEN UNCHANGED dpowVars
      ELSE /\ NOTARIZED' = Notarisation(b)
           /\ NPOINTS' = Append(NPOINTS, [nHeight |-> Height(b), block |-> Notarisation(b)])
           /\ finalized' = finalized \cup {Notarisation(b)}

(* Mutant: the tip itself goes as well. *)
PrunedWithTip(b) == {c \in candidates : Worse(b, c, nSequenceId)}

(* PruneBlockIndexCandidates with tip b. *)
Pruned(b) == {c \in candidates : ~Worse(c, b, nSequenceId)}

(* Leave ActivateBestChainStep: cs_main is released. *)
EndStep(t) == pc' = [pc EXCEPT ![t] = "check"] /\ csMain' = None /\ pindexOldTip' = None

InvalidBlockFound(b) ==
    /\ failedValid' = failedValid \cup {b}
    /\ candidates' = candidates \ {b}

ConnectTip(b) == ApplyNotarisation(b) /\ tip' = b

(* One block towards pindexMostWork.  A block that breaks a rule is marked *)
(* (InvalidBlockFound); otherwise it becomes the tip, and the step ends as *)
(* soon as the chain is better than where it started.                      *)
ConnectStep(t) ==
    /\ pc[t] = "step" /\ csMain = t
    /\ tip \in Ancestors[pindexMostWork[t]] /\ tip # pindexMostWork[t]
    /\ \E b \in Ancestors[pindexMostWork[t]] \ {Genesis} :
          /\ Parent[b] = tip
          /\ \/ /\ b \in Invalid
                /\ InvalidBlockFound(b)
                /\ EndStep(t)
                /\ UNCHANGED <<tip, dpowVars>>
             \/ /\ b \notin Invalid
                /\ ConnectTip(b)
                /\ candidates' = Pruned(b)
                /\ IF ChainPower[b] > ChainPower[pindexOldTip] \/ b = pindexMostWork[t]
                     THEN EndStep(t)
                     ELSE UNCHANGED <<pc, csMain, pindexOldTip>>
                /\ UNCHANGED failedValid
    /\ UNCHANGED <<index, have, linked, nSequenceId, failedChild, unlinked, last_NPOINTSi,
                   fSkipdpow, pindexMostWork, arg, shutdown>>

(* Mutant: ActivateBestChain returns after one step. *)
NoMoreSteps(t) == TRUE

(* The loop condition of ActivateBestChain, read without cs_main.          *)
Reached(t) == pindexMostWork[t] = tip

CheckLoop(t) ==
    /\ pc[t] = "check"
    /\ \/ Reached(t) /\ Leave(t)
       \/ /\ ~Reached(t)
          /\ pc' = [pc EXCEPT ![t] = "find"]
          /\ pindexMostWork' = [pindexMostWork EXCEPT ![t] = None]
          /\ UNCHANGED fSkipdpow
    /\ UNCHANGED <<blockVars, tip, dpowVars, last_NPOINTSi, csMain, pindexOldTip, arg, shutdown>>

-----------------------------------------------------------------------------
(* RPC *)

(* invalidateblock: InvalidateBlock marks the block and then disconnects   *)
(* it from the active chain, one tip after the other.                      *)
InvalidateBlock(t, b) ==
    /\ "invalidateblock" \in Rpcs
    /\ pc[t] = "idle" /\ csMain = None /\ b \in index \ {Genesis}
    /\ failedValid' = failedValid \cup {b}
    /\ candidates' = candidates \ {b}
    /\ arg' = b
    /\ csMain' = t
    /\ pc' = [pc EXCEPT ![t] = "invalidate"]
    /\ UNCHANGED <<index, have, linked, nSequenceId, failedChild, unlinked, tip, dpowVars,
                   last_NPOINTSi, fSkipdpow, pindexMostWork, pindexOldTip, shutdown>>

InvalidateStep(t) ==
    /\ pc[t] = "invalidate" /\ csMain = t /\ arg \in Active
    /\ failedChild' = failedChild \cup {tip}
    /\ candidates' = candidates \ {tip}
    /\ \/ /\ DisconnectTip
          /\ UNCHANGED <<pc, csMain, fSkipdpow, pindexMostWork, pindexOldTip, arg>>
       \/ /\ ~CanDisconnectTip
          /\ Return(t)
          /\ UNCHANGED tip
    /\ UNCHANGED <<index, have, linked, nSequenceId, failedValid, unlinked, dpowVars,
                   last_NPOINTSi, shutdown>>

(* Mutant: only blocks better than the tip, so not the new tip itself.     *)
BetterThanTip == {b \in linked : b \notin Failed /\ Worse(tip, b, nSequenceId)}

(* "The resulting new best tip may not be in setBlockIndexCandidates       *)
(* anymore, so add it again."                                              *)
Readded == {b \in linked : b \notin Failed /\ ~Worse(b, tip, nSequenceId)}

InvalidateDone(t) ==
    /\ pc[t] = "invalidate" /\ csMain = t /\ arg \notin Active
    /\ candidates' = candidates \cup Readded
    /\ csMain' = None /\ arg' = None
    /\ StartActivation(t, TRUE)
    /\ UNCHANGED <<index, have, linked, nSequenceId, failedValid, failedChild, unlinked, tip,
                   dpowVars, last_NPOINTSi, pindexMostWork, pindexOldTip, shutdown>>

(* reconsiderblock: clears the marks of a block, its descendants and its   *)
(* ancestors; only cleared descendants become candidates again.            *)
ReconsiderBlock(t, b) ==
    /\ "reconsiderblock" \in Rpcs
    /\ pc[t] = "idle" /\ csMain = None /\ b \in index
    /\ LET cleared == {x \in index : x \in Failed /\ b \in Ancestors[x]}
       IN /\ failedValid' = failedValid \ (cleared \cup Ancestors[b])
          /\ failedChild' = failedChild \ (cleared \cup Ancestors[b])
          /\ candidates' = candidates \cup
                           {x \in cleared : x \in linked /\ Worse(tip, x, nSequenceId)}
    /\ StartActivation(t, TRUE)
    /\ UNCHANGED <<index, have, linked, nSequenceId, unlinked, tip, dpowVars, last_NPOINTSi,
                   csMain, pindexMostWork, pindexOldTip, arg, shutdown>>

-----------------------------------------------------------------------------
(* A thread inside ActivateBestChain or InvalidateBlock. *)
Continue(t) ==
    \/ DropFailedChain(t) \/ NothingToDo(t) \/ StartStep(t)
    \/ DisconnectStep(t) \/ ConnectStep(t) \/ CheckLoop(t)
    \/ InvalidateStep(t) \/ InvalidateDone(t)

Next ==
    \/ \E b \in Blocks : ReceiveHeader(b)
    \/ \E t \in Threads :
          \/ \E b \in Blocks, requested \in BOOLEAN : ProcessNewBlock(t, b, requested)
          \/ \E b \in Blocks : InvalidateBlock(t, b) \/ ReconsiderBlock(t, b)
          \/ Continue(t)

(* Threads inside a call keep running; nothing obliges peers or the user   *)
(* to send anything.                                                       *)
Spec == Init /\ [][Next]_vars /\ \A t \in Threads : WF_vars(Continue(t))
-----------------------------------------------------------------------------
(* Properties *)

(* Types, and what every reader of the block index relies on: marks, data  *)
(* and candidates refer to known blocks, and the tip has all its data.     *)
TypeOK ==
    /\ index \subseteq Blocks /\ have \subseteq index /\ linked \subseteq have
    /\ nSequenceId \in [Blocks -> Nat]
    /\ failedValid \subseteq index /\ failedChild \subseteq index
    /\ candidates \subseteq index /\ unlinked \subseteq have
    /\ tip \in linked
    /\ NOTARIZED \in Blocks \cup {None}
    /\ NPOINTS \in Seq([nHeight : Nat, block : Blocks])
    /\ last_NPOINTSi \in Nat
    /\ finalized \subseteq Blocks
    /\ csMain \in Threads \cup {None}
    /\ pc \in [Threads -> {"idle", "find", "step", "check", "invalidate"}]
    /\ fSkipdpow \in [Threads -> BOOLEAN]
    /\ pindexMostWork \in [Threads -> Blocks \cup {None}]
    /\ pindexOldTip \in Blocks \cup {None}
    /\ arg \in Blocks \cup {None}
    /\ shutdown \in BOOLEAN

(* dPoW finality: every block that was ever the notarised one is on the    *)
(* active chain for ever, although DisconnectTip only knows the last one   *)
(* and ActivateBestChainStep compares heights only.                        *)
Finality == finalized \subseteq Active

(* Notaries sign a block of the chain in which their notarisation is       *)
(* mined.  komodo_validate_chain does not check it.                        *)
SameChain ==
    \A b \in Blocks : Notarises[b] # None => Notarises[b] \in Ancestors[b]

(* What the node takes for the notarised block is on its active chain.     *)
NotarizedInChain == NOTARIZED # None => NOTARIZED \in Active

(* The states in which another thread can enter cs_main. *)
Quiet == csMain = None

(* CheckBlockIndex, and the assertion in FindMostWorkChain: a candidate    *)
(* has all its ancestors' data and does not sort worse than the tip.       *)
CandidatesSound ==
    \A c \in candidates : Ancestors[c] \subseteq linked /\ ~Worse(c, tip, nSequenceId)

AllIdle == \A t \in Threads : pc[t] = "idle"

(* Blocks that sort at least as good as the tip, with all data and without *)
(* invalid ancestors.                                                      *)
MustBeCandidates ==
    {b \in linked : ~Worse(b, tip, nSequenceId) /\ Ancestors[b] \cap failedValid = {}}

(* CheckBlockIndex: those blocks are candidates, whenever a thread may     *)
(* take cs_main and check.                                                 *)
CandidatesAlwaysComplete == Quiet => MustBeCandidates \subseteq candidates

(* The same once every call of ActivateBestChain has returned: no block    *)
(* that could win was forgotten by pruning, failing reorganisations or     *)
(* late parents.                                                           *)
CandidatesComplete == AllIdle => MustBeCandidates \subseteq candidates

(* CheckBlockIndex: nChainTx is set exactly for the blocks whose data and  *)
(* whose ancestors' data has been received, in whatever order it came.     *)
LinkedExact ==
    Quiet => linked = {b \in have : Ancestors[b] \subseteq have}

(* The assertion at the end of PruneBlockIndexCandidates: connecting a     *)
(* block never leaves the candidate set empty.                             *)
PruneLeavesOne ==
    [][tip' # Genesis /\ tip' # tip /\ Parent[tip'] = tip => candidates' # {}]_vars

(* FindMostWorkChain relies on it: "we know all blocks in [the active      *)
(* chain] are valid already".                                              *)
ActiveChainValid == Quiet => Active \cap Failed = {}

(* The blocks that could be connected: all data, no broken rule or mark on *)
(* the way, and not rejected by this node's finality.                      *)
Connectable(b) ==
    /\ b \in linked
    /\ Ancestors[b] \cap (Invalid \cup Failed) = {}
    /\ NOTARIZED # None => NOTARIZED \in Ancestors[b]

(* ActivateBestChain: once every call has returned, no connectable block   *)
(* has more work than the tip.                                             *)
BestChainActive ==
    AllIdle => \A b \in Blocks : Connectable(b) => ChainPower[b] <= ChainPower[tip]

(* Every call of ActivateBestChain returns. *)
ActivationReturns == \A t \in Threads : pc[t] = "find" ~> pc[t] = "idle"
=============================================================================
