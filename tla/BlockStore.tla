------------------------------ MODULE BlockStore ------------------------------
(***************************************************************************)
(* What the node keeps on disk about blocks, and what a crash leaves of it *)
(* (src/main.cpp, src/txdb.cpp): the blk and rev files, the block index    *)
(* database pblocktree with its in-memory copy and dirty sets, and the     *)
(* coin database, here only its best block (CoinsCache shows that the coin *)
(* database is the ledger of its best block).  FlushStateToDisk moves      *)
(* memory to disk in four steps; a crash can come between any two of them. *)
(* After a crash LoadBlockIndexDB reads the state back and                 *)
(* RewindBlockIndex undoes blocks that were not validated under the rules  *)
(* of the running software.                                                *)
(*                                                                         *)
(* A file is an array of slots, each with room for one block or for the    *)
(* undo data of one block; Genesis is stored before the model starts and   *)
(* takes no slot.  All actions but Crash hold cs_main.                     *)
(*                                                                         *)
(* Of the dPoW state only NOTARIZED_HASH is here, which DisconnectTip asks *)
(* for: komodo_init reads it back from the file komodostate (KomodoState)  *)
(* the first time a block is connected or disconnected, or earlier.        *)
(***************************************************************************)
EXTENDS Integers, FiniteSets

CONSTANTS
  Blocks,         \* blocks other than the genesis block, numbered from 1, a
                  \* parent before its children
  Parent,         \* hashPrevBlock of every block
  Notarises,      \* the block that each block carries a notarisation of, or NoBlock
  MaxFile,        \* bound: the number of the last blk/rev file
  FileSlots,      \* blocks that fit in a file (MAX_BLOCKFILE_SIZE)
  Keep,           \* MIN_BLOCKS_TO_KEEP
  MaxReorg,       \* MAX_REORG_LENGTH
  PruneMode,      \* fPruneMode
  UpgradeHeight,  \* where new software activates new rules; 0: there is none
  CrashPoints     \* where the process may die: see Crash

Files == 0..MaxFile
Slots == Files \X (1..FileSlots)
NoSlot == <<0, 0>>   \* CDiskBlockPos::IsNull
Genesis == 0
NoBlock == -1        \* no block, or the remains of one
AllBlocks == Blocks \cup {Genesis}

ASSUME BlockStoreAssumption ==
  /\ Blocks \subseteq Nat \ {Genesis} /\ IsFiniteSet(Blocks)
  /\ Parent \in [Blocks -> AllBlocks]
  /\ \A b \in Blocks : Parent[b] < b
  /\ Notarises \in [Blocks -> Blocks \cup {NoBlock}]
  /\ MaxFile \in Nat /\ FileSlots \in Nat \ {0} /\ Keep \in Nat /\ MaxReorg \in Nat
  /\ PruneMode \in BOOLEAN
  /\ UpgradeHeight \in Nat
  /\ CrashPoints \subseteq {"any", "prune", "rewind", "late"}

VARIABLES
  phase,       \* "up", "rewind" (in RewindBlockIndex) or "down"
  rules,       \* the consensus rules of the installed software: 1, after an upgrade 2
  index,       \* mapBlockIndex: what the node knows of each block
  dirty,       \* setDirtyBlockIndex
  info,        \* vinfoBlockFile
  dirtyFiles,  \* setDirtyFileInfo
  lastFile,    \* nLastBlockFile
  tip,         \* pcoinsTip->GetBestBlock(), also chainActive.Tip()
  flush,       \* how far FlushStateToDisk has come
  blk, rev,    \* the files: the block whose data or undo data is in each slot
  unsynced,    \* slots of blk and rev that a power failure may lose
  dbIndex, dbInfo, dbLastFile,   \* pblocktree
  dbCoins,     \* DB_BEST_BLOCK of the coin database
  notarized,   \* NOTARIZED_HASH in memory
  komodostate  \* NOTARIZED_HASH as the file komodostate gives it

memory == <<index, dirty, info, dirtyFiles, lastFile, tip>>
files == <<blk, rev, unsynced>>
databases == <<dbIndex, dbInfo, dbLastFile, dbCoins>>
dpow == <<notarized, komodostate>>
vars == <<phase, rules, memory, flush, files, databases, dpow>>

(* nFile with nDataPos, nFile with nUndoPos; branch is nCachedBranchId *)
Entry == [known : BOOLEAN, data : Slots \cup {NoSlot}, undo : Slots \cup {NoSlot},
          branch : 0..2]
Unknown == [known |-> FALSE, data |-> NoSlot, undo |-> NoSlot, branch |-> 0]

(* nSize, nUndoSize and nHeightLast of CBlockFileInfo *)
FileInfo == [size : 0..FileSlots, undo : 0..FileSlots, top : Nat]
EmptyFile == [size |-> 0, undo |-> 0, top |-> 0]

Idle == [step |-> "idle", full |-> FALSE, prune |-> {}, rewind |-> FALSE]

Chain[b \in AllBlocks] == IF b = Genesis THEN {} ELSE {b} \cup Chain[Parent[b]]
Height(b) == Cardinality(Chain[b])

Init ==
  /\ phase = "up"
  /\ rules = 1
  /\ index = [b \in Blocks |-> Unknown]
  /\ dirty = {}
  /\ info = [f \in Files |-> EmptyFile]
  /\ dirtyFiles = {}
  /\ lastFile = 0
  /\ tip = Genesis
  /\ flush = Idle
  /\ blk = [s \in Slots |-> NoBlock]
  /\ rev = [s \in Slots |-> NoBlock]
  /\ unsynced = {}
  /\ dbIndex = index /\ dbInfo = info /\ dbLastFile = 0 /\ dbCoins = Genesis
  /\ notarized = NoBlock /\ komodostate = NoBlock

Working == phase = "up" /\ flush = Idle

--------------------------------------------------------------------------------
SyncedBlkOnly(f) ==   \* mutant: the rev file is not committed
  {u \in unsynced : u[1] = "rev" \/ u[2][1] # f}

(* FlushBlockFile commits the blk and the rev file with the last number. *)
Synced(f) == {u \in unsynced : u[2][1] # f}

(***************************************************************************)
(* AcceptBlock of a new block: FindBlockPos, WriteBlockToDisk and          *)
(* ReceivedBlockTransactions.  A full file is left for the next one after  *)
(* it has been committed.  A block of the active chain that was pruned is  *)
(* not asked for again, and ignored when it comes unrequested.             *)
(***************************************************************************)
AcceptBlock(b) ==
  LET f == IF info[lastFile].size < FileSlots THEN lastFile ELSE lastFile + 1
      slot == <<f, info[f].size + 1>>
  IN
  /\ Working
  /\ Parent[b] # Genesis => index[Parent[b]].known
  /\ index[b].data = NoSlot /\ b \notin Chain[tip]
  /\ f =< MaxFile
  /\ index' = [index EXCEPT ![b].known = TRUE, ![b].data = slot, ![b].undo = NoSlot]
  /\ dirty' = dirty \cup {b}
  /\ info' = [info EXCEPT ![f].size = @ + 1,
                          ![f].top = IF Height(b) > @ THEN Height(b) ELSE @]
  /\ dirtyFiles' = dirtyFiles \cup {f}
  /\ lastFile' = f
  /\ blk' = [blk EXCEPT ![slot] = b]
  /\ unsynced' = (IF f = lastFile THEN unsynced ELSE Synced(lastFile))
                   \cup {<<"blk", slot>>}
  /\ UNCHANGED <<phase, rules, tip, flush, rev, databases, dpow>>

(* CurrentEpochBranchId, and the nCachedBranchId that ConnectBlock sets: a *)
(* block that does not activate an upgrade takes its parent's.             *)
Branch(b) == IF UpgradeHeight =< Height(b) THEN rules ELSE 1

CachedBranch(b) ==
  IF rules = 2 /\ Height(b) = UpgradeHeight THEN Branch(b)
  ELSE IF Parent[b] = Genesis THEN 1
  ELSE index[Parent[b]].branch

(* komodo_connectblock: a notarisation of a block of the index, newer than *)
(* the last one and older than the block that carries it.                  *)
NewNotarized(b) ==
  LET n == Notarises[b] IN
  IF n = NoBlock THEN komodostate
  ELSE IF /\ index[n].known
          /\ Height(n) < Height(b)
          /\ komodostate # NoBlock => Height(komodostate) < Height(n)
       THEN n
       ELSE komodostate

(***************************************************************************)
(* ConnectTip: the undo data goes to the rev file of the block's own blk   *)
(* file, unless the index says that it was written before; then the dPoW   *)
(* state follows, in memory and in komodostate.                            *)
(***************************************************************************)
ConnectTip(b) ==
  LET f == index[b].data[1]
      slot == <<f, info[f].undo + 1>>
  IN
  /\ Working
  /\ Parent[b] = tip
  /\ index[b].data # NoSlot
  /\ blk[index[b].data] = b                               \* ReadBlockFromDisk
  /\ tip' = b
  /\ IF index[b].undo # NoSlot
     THEN UNCHANGED <<index, dirty, info, dirtyFiles, rev, unsynced>>
     ELSE /\ index' = [index EXCEPT ![b].undo = slot, ![b].branch = CachedBranch(b)]
          /\ dirty' = dirty \cup {b}
          /\ info' = [info EXCEPT ![f].undo = @ + 1]
          /\ dirtyFiles' = dirtyFiles \cup {f}
          /\ rev' = [rev EXCEPT ![slot] = b]
          /\ unsynced' = unsynced \cup {<<"rev", slot>>}
  /\ notarized' = NewNotarized(b) /\ komodostate' = NewNotarized(b)
  /\ UNCHANGED <<phase, rules, lastFile, flush, blk, databases>>

(* DisconnectTip needs the block and its undo data, and refuses the        *)
(* notarised block.                                                        *)
Disconnectable ==
  /\ tip # Genesis
  /\ index[tip].data # NoSlot /\ blk[index[tip].data] = tip
  /\ tip # notarized
  /\ index[tip].undo # NoSlot /\ rev[index[tip].undo] = tip

(* komodo_disconnect calls komodo_init, which reads komodostate once. *)
KomodoDisconnect == notarized' = komodostate /\ UNCHANGED komodostate

DisconnectTip ==
  /\ Working
  /\ Disconnectable
  /\ tip' = Parent[tip]
  /\ KomodoDisconnect
  /\ UNCHANGED <<phase, rules, index, dirty, info, dirtyFiles, lastFile, flush,
                 files, databases>>

--------------------------------------------------------------------------------
(***************************************************************************)
(* FlushStateToDisk.  Its mode, the time and the size of the coin cache    *)
(* decide whether it writes the block index only or the coins too: full.   *)
(* In prune mode FindFilesToPrune first marks old files, lowest first,     *)
(* until enough space would be free, and then the flush is a full one.     *)
(***************************************************************************)
Prunable ==
  {f \in Files : /\ f < lastFile
                 /\ info[f].size > 0
                 /\ info[f].top =< Height(tip) - Keep}

(* PruneOneBlockFile *)
InPruned(b, P) == index[b].data # NoSlot /\ index[b].data[1] \in P

FlushFiles(full, P) ==
  /\ index' = [b \in Blocks |-> IF InPruned(b, P)
                                THEN [index[b] EXCEPT !.data = NoSlot, !.undo = NoSlot]
                                ELSE index[b]]
  /\ dirty' = dirty \cup {b \in Blocks : InPruned(b, P)}
  /\ info' = [f \in Files |-> IF f \in P THEN EmptyFile ELSE info[f]]
  /\ dirtyFiles' = dirtyFiles \cup P
  /\ unsynced' = Synced(lastFile)                          \* FlushBlockFile
  /\ flush' = [step |-> "index", full |-> full \/ P # {}, prune |-> P,
               rewind |-> FALSE]
  /\ UNCHANGED <<phase, rules, lastFile, tip, blk, rev, databases, dpow>>

FlushStart ==
  /\ Working
  /\ \E full \in BOOLEAN : FlushFiles(full, {})

FlushPrune ==
  /\ Working
  /\ PruneMode
  /\ \E n \in Prunable : FlushFiles(TRUE, {f \in Prunable : f =< n})

FlushIndexNoSizes ==   \* mutant: the file sizes are not in the batch
  /\ flush.step = "index"
  /\ dbIndex' = [b \in Blocks |-> IF b \in dirty THEN index[b] ELSE dbIndex[b]]
  /\ dbLastFile' = lastFile
  /\ dirty' = {}
  /\ dirtyFiles' = {}
  /\ flush' = IF flush.full THEN [flush EXCEPT !.step = "coins"] ELSE Idle
  /\ UNCHANGED <<phase, rules, index, info, lastFile, tip, files, dbCoins, dbInfo, dpow>>

(* WriteBatchSync: dirty entries and file sizes in one synchronous batch *)
FlushIndex ==
  /\ flush.step = "index"
  /\ dbIndex' = [b \in Blocks |-> IF b \in dirty THEN index[b] ELSE dbIndex[b]]
  /\ dbInfo' = [f \in Files |-> IF f \in dirtyFiles THEN info[f] ELSE dbInfo[f]]
  /\ dbLastFile' = lastFile
  /\ dirty' = {}
  /\ dirtyFiles' = {}
  /\ flush' = IF flush.prune # {} THEN [flush EXCEPT !.step = "unlink"]
              ELSE IF flush.full THEN [flush EXCEPT !.step = "coins"]
              ELSE Idle
  /\ UNCHANGED <<phase, rules, index, info, lastFile, tip, files, dbCoins, dpow>>

(* UnlinkPrunedFiles *)
FlushUnlink ==
  /\ flush.step = "unlink"
  /\ blk' = [s \in Slots |-> IF s[1] \in flush.prune THEN NoBlock ELSE blk[s]]
  /\ rev' = [s \in Slots |-> IF s[1] \in flush.prune THEN NoBlock ELSE rev[s]]
  /\ unsynced' = {u \in unsynced : u[2][1] \notin flush.prune}
  /\ flush' = [flush EXCEPT !.step = "coins"]
  /\ UNCHANGED <<phase, rules, memory, databases, dpow>>

FlushCoinsAnytime ==   \* mutant: the coins do not wait for the block index
  /\ flush.step \in {"index", "coins"}
  /\ dbCoins' = tip
  /\ flush' = Idle
  /\ UNCHANGED <<phase, rules, memory, files, dbIndex, dbInfo, dbLastFile, dpow>>

(* pcoinsTip->Flush() *)
FlushCoins ==
  /\ flush.step = "coins"
  /\ dbCoins' = tip
  /\ flush' = Idle
  /\ UNCHANGED <<phase, rules, memory, files, dbIndex, dbInfo, dbLastFile, dpow>>

--------------------------------------------------------------------------------
(***************************************************************************)
(* The process dies, and what was not committed to disk may be lost with   *)
(* it (a power failure) or not (a kill).  CrashPoints says what is         *)
(* considered: "any" time outside the two windows that have a disagreement *)
(* of their own, between the first and the last write of a flush that      *)
(* prunes ("prune") or that ends a rewind ("rewind"); and "late", the loss *)
(* of undo data written to a rev file after FindBlockPos has left its      *)
(* number, which FlushBlockFile never commits.                             *)
(***************************************************************************)
CrashPoint ==
  IF flush.step \in {"unlink", "coins"} /\ flush.prune # {} THEN "prune"
  ELSE IF flush.step = "coins" /\ flush.rewind THEN "rewind"
  ELSE "any"

Losable == {u \in unsynced : u[2][1] = lastFile \/ "late" \in CrashPoints}

Crash ==
  /\ phase # "down"
  /\ CrashPoint \in CrashPoints
  /\ phase' = "down"
  /\ \E lost \in SUBSET Losable :
       /\ blk' = [s \in Slots |-> IF <<"blk", s>> \in lost THEN NoBlock ELSE blk[s]]
       /\ rev' = [s \in Slots |-> IF <<"rev", s>> \in lost THEN NoBlock ELSE rev[s]]
  /\ unsynced' = {}
  /\ index' = [b \in Blocks |-> Unknown]
  /\ dirty' = {}
  /\ info' = [f \in Files |-> EmptyFile]
  /\ dirtyFiles' = {}
  /\ lastFile' = 0
  /\ tip' = Genesis
  /\ flush' = Idle
  /\ notarized' = NoBlock
  /\ UNCHANGED <<rules, databases, komodostate>>

(* LoadBlockIndexDB, perhaps by newly installed software; komodo_init may  *)
(* have run by the time RewindBlockIndex is called, or not yet.            *)
Start ==
  /\ phase = "down"
  /\ phase' = "rewind"
  /\ rules' \in IF UpgradeHeight = 0 THEN {rules} ELSE {rules, 2}
  /\ index' = dbIndex
  /\ info' = dbInfo
  /\ lastFile' = dbLastFile
  /\ tip' = dbCoins
  /\ notarized' \in {NoBlock, komodostate}
  /\ UNCHANGED <<dirty, dirtyFiles, flush, files, databases, komodostate>>

(* RewindBlockIndex: sufficientlyValidated *)
Validated(b) == index[b].branch = Branch(b)

(* The height of the first block of the active chain that is not. *)
FirstRewound == CHOOSE h \in 1..Height(tip) + 1 :
                  /\ \A b \in Chain[tip] : Height(b) < h => Validated(b)
                  /\ \A b \in Chain[tip] : Height(b) = h => ~Validated(b)

RewindTooLong == Height(tip) - FirstRewound > MaxReorg

(* A pruning node stops where it has no data. *)
RewindDone ==
  Height(tip) >= FirstRewound => PruneMode /\ index[tip].data = NoSlot

(* RewindBlockIndex returns an error, because it would undo too many       *)
(* blocks or because DisconnectTip fails, and the node does not start.     *)
RewindRefused ==
  /\ phase = "rewind" /\ flush = Idle
  /\ RewindTooLong \/ (~RewindDone /\ ~Disconnectable)
  /\ phase' = "down"
  /\ index' = [b \in Blocks |-> Unknown]
  /\ dirty' = {} /\ dirtyFiles' = {}
  /\ info' = [f \in Files |-> EmptyFile]
  /\ lastFile' = 0
  /\ tip' = Genesis
  /\ notarized' = NoBlock
  /\ UNCHANGED <<rules, flush, files, databases, komodostate>>

(* The rewind's DisconnectTip; a flush may follow each one. *)
RewindStep ==
  /\ phase = "rewind" /\ flush = Idle
  /\ ~RewindTooLong
  /\ ~RewindDone
  /\ Disconnectable
  /\ tip' = Parent[tip]
  /\ \/ flush' = Idle /\ UNCHANGED unsynced
     \/ /\ flush' = [Idle EXCEPT !.step = "index", !.full = TRUE]
        /\ unsynced' = Synced(lastFile)
  /\ KomodoDisconnect
  /\ UNCHANGED <<phase, rules, index, dirty, info, dirtyFiles, lastFile, blk, rev,
                 databases>>

(* Blocks off the chain that are not sufficiently validated lose their     *)
(* data; then everything is flushed.                                       *)
Reset(b) == index[b].known /\ ~Validated(b) /\ b \notin Chain[tip]

RewindEnd ==
  /\ phase = "rewind" /\ flush = Idle
  /\ ~RewindTooLong
  /\ RewindDone
  /\ index' = [b \in Blocks |-> IF Reset(b) THEN [Unknown EXCEPT !.known = TRUE]
                                ELSE index[b]]
  /\ dirty' = dirty \cup {b \in Blocks : Reset(b)}
  /\ unsynced' = Synced(lastFile)
  /\ flush' = [Idle EXCEPT !.step = "index", !.full = TRUE, !.rewind = TRUE]
  /\ phase' = "up"
  /\ UNCHANGED <<rules, info, dirtyFiles, lastFile, tip, blk, rev, databases, dpow>>

Next ==
  \/ \E b \in Blocks : AcceptBlock(b) \/ ConnectTip(b)
  \/ DisconnectTip
  \/ FlushStart
  \/ FlushPrune
  \/ FlushIndex
  \/ FlushUnlink
  \/ FlushCoins
  \/ Crash
  \/ Start
  \/ RewindRefused
  \/ RewindStep
  \/ RewindEnd

Spec == Init /\ [][Next]_vars

--------------------------------------------------------------------------------
(* The types; in particular no file is filled past its slots, with blocks  *)
(* or with undo data, through reconnections, crashes and pruning.          *)
TypeOK ==
  /\ phase \in {"up", "rewind", "down"}
  /\ rules \in 1..2
  /\ index \in [Blocks -> Entry] /\ dbIndex \in [Blocks -> Entry]
  /\ info \in [Files -> FileInfo] /\ dbInfo \in [Files -> FileInfo]
  /\ dirty \subseteq Blocks /\ dirtyFiles \subseteq Files
  /\ lastFile \in Files /\ dbLastFile \in Files
  /\ tip \in AllBlocks /\ dbCoins \in AllBlocks
  /\ flush \in [step : {"idle", "index", "unlink", "coins"}, full : BOOLEAN,
                prune : SUBSET Files, rewind : BOOLEAN]
  /\ blk \in [Slots -> Blocks \cup {NoBlock}] /\ rev \in [Slots -> Blocks \cup {NoBlock}]
  /\ unsynced \subseteq {"blk", "rev"} \X Slots
  /\ notarized \in Blocks \cup {NoBlock} /\ komodostate \in Blocks \cup {NoBlock}

(***************************************************************************)
(* Where the block index, in memory or in the database, says that the data *)
(* or the undo data of a block is, there it is.  No crash, power failure,  *)
(* slot reused after a crash or pruned file makes ReadBlockFromDisk fail   *)
(* with "GetHash() doesn't match index" or UndoReadFromDisk with "Checksum *)
(* mismatch".                                                              *)
(***************************************************************************)
StoredWhere(idx, b) ==
  /\ idx[b].data # NoSlot => blk[idx[b].data] = b
  /\ idx[b].undo # NoSlot => rev[idx[b].undo] = b

StoredWhereIndexed ==
  \A b \in Blocks : StoredWhere(index, b) /\ StoredWhere(dbIndex, b)

(***************************************************************************)
(* What a crash leaves: the chain that the coin database is the state of   *)
(* is in the block index database, as LoadBlockIndexDB needs to find its   *)
(* tip ("Flush the chainstate (which may refer to block index entries)"),  *)
(* and validated, unless the crash may come in the last flush of a rewind. *)
(***************************************************************************)
CoinsReferToIndex ==
  phase = "down" =>
    \A b \in Chain[dbCoins] :
      dbIndex[b].known /\ ("rewind" \in CrashPoints \/ dbIndex[b].branch # 0)

(***************************************************************************)
(* RewindBlockIndex stops with an error only where it must: before a       *)
(* rewind that is too long, at the notarised block, which DisconnectTip    *)
(* refuses, and at a block whose data a rewind gave up that was            *)
(* interrupted.  Everywhere else, whatever was flushed, lost, pruned,      *)
(* allotted again or interrupted before, the tip that the coin database    *)
(* names has its data and undo data, or a pruning node ends the rewind.    *)
(***************************************************************************)
GivenUp(b) == index[b].data = NoSlot /\ index[b].branch = 0

RewindContinues ==
  phase = "rewind" /\ flush = Idle =>
    \/ RewindTooLong \/ RewindDone \/ Disconnectable
    \/ tip = notarized
    \/ tip # Genesis /\ GivenUp(tip)

(***************************************************************************)
(* An interrupted rewind can be continued: the data is given up "after     *)
(* actual disconnecting, otherwise we'll end up writing the lack of data   *)
(* to disk before writing the chainstate, resulting in a failure to        *)
(* continue if interrupted" (main.cpp:6314).                               *)
(***************************************************************************)
InterruptedContinues ==
  phase = "rewind" /\ flush = Idle =>
    RewindTooLong \/ RewindDone \/ Disconnectable \/ tip = notarized

(***************************************************************************)
(* "Pruning will never delete a block within a defined distance (currently *)
(* 288) from the active chain's tip" (main.h), also when the active chain  *)
(* is the one that a crash leaves in the coin database.                    *)
(***************************************************************************)
TipNotPruned ==
  phase = "down" /\ dbCoins # Genesis => dbIndex[dbCoins].data # NoSlot

================================================================================
