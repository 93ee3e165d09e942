-------------------------- MODULE BlockStoreProofs --------------------------
(***************************************************************************)
(* Proofs about the files and databases of a node and what a crash leaves  *)
(* of them: whatever the block index names is where the index says, the    *)
(* chain of the coin database is in the block index database, and          *)
(* RewindBlockIndex stops only where it must.                              *)
(*                                                                         *)
(* The inductive invariant has a part about slots (who names them, who     *)
(* fills them, what is committed) and a part about the two chains that     *)
(* matter after a crash: the one of the coins in memory and the one of the *)
(* coins on disk, which may be far behind the index.                       *)
(***************************************************************************)
EXTENDS BlockStore, FiniteSetTheorems, WellFoundedInduction, TLAPS

-----------------------------------------------------------------------------
(* The inductive invariant *)

(* The types of the files, the indexes and the databases, and of the dPoW  *)
(* state, which no other part depends on.                                  *)
StoreType ==
  /\ phase \in {"up", "rewind", "down"}
  /\ rules \in 1..2
  /\ index \in [Blocks -> Entry] /\ dbIndex \in [Blocks -> Entry]
  /\ info \in [Files -> FileInfo] /\ dbInfo \in [Files -> FileInfo]
  /\ dirty \subseteq Blocks /\ dirtyFiles \subseteq Files
  /\ lastFile \in Files /\ dbLastFile \in Files
  /\ tip \in AllBlocks /\ dbCoins \in AllBlocks
  /\ flush \in [step : {"idle", "index", "unlink", "coins"}, full : BOOLEAN,
                prune : SUBSET Files, rewind : BOOLEAN]
  /\ blk \in [Slots -> Blocks \cup {NoBlock}] /\ rev \in [Slots -> Blocks \cup {NoBlock}]
  /\ unsynced \subseteq {"blk", "rev"} \X Slots

DpowType == notarized \in Blocks \cup {NoBlock} /\ komodostate \in Blocks \cup {NoBlock}

(* Every position that an index names lies in the used part of its file,   *)
(* and undo data is in the rev file of the block's own number.             *)
Inside(e, inf) ==
  /\ e.data # NoSlot => e.known /\ e.data[2] =< inf[e.data[1]].size
  /\ e.undo # NoSlot =>
       /\ e.data # NoSlot /\ e.undo[1] = e.data[1]
       /\ e.undo[2] =< inf[e.undo[1]].undo

Within(idx, inf) == \A b \in Blocks : Inside(idx[b], inf)

(* The blocks of a file whose undo data is still to be written. *)
Awaiting(idx, f) ==
  {b \in Blocks : idx[b].data # NoSlot /\ idx[b].data[1] = f /\ idx[b].undo = NoSlot}

(* The rev file has room for them. *)
Room(idx, inf) ==
  \A f \in Files : inf[f].undo + Cardinality(Awaiting(idx, f)) =< inf[f].size

(* Files after the last one are not used yet. *)
Unused(inf, last) == \A f \in Files : f > last => inf[f].size = 0

Books ==
  /\ Within(index, info) /\ Within(dbIndex, dbInfo)
  /\ Room(index, info) /\ Room(dbIndex, dbInfo)
  /\ Unused(info, lastFile) /\ Unused(dbInfo, dbLastFile)

(* What memory and the database have in common. *)
Shared ==
  /\ phase = "down" =>
       /\ flush = Idle /\ dirty = {} /\ dirtyFiles = {}
       /\ \A b \in Blocks : index[b] = Unknown
  /\ phase # "down" =>
       /\ \A b \in Blocks : b \in dirty \/ index[b] = dbIndex[b]
       /\ \A f \in Files : f \in dirtyFiles \/ info[f] = dbInfo[f]
       /\ dbLastFile =< lastFile
       /\ flush.step = "index" \/
            \A f \in Files : dbInfo[f].size =< info[f].size /\ dbInfo[f].undo =< info[f].undo
  /\ flush.step \in {"unlink", "coins"} => dirty = {} /\ dirtyFiles = {}
  /\ flush.step = "idle" => flush = Idle
  /\ flush.rewind => flush.prune = {} /\ flush.full
  /\ flush.step \in {"index", "unlink"} =>
       \A b \in Blocks : index[b].data # NoSlot => index[b].data[1] \notin flush.prune

(* What the database names in the last file has been committed. *)
Committed ==
  /\ phase # "up" => unsynced = {}
  /\ flush.step = "index" => \A u \in unsynced : u[2][1] # lastFile
  /\ \A b \in Blocks :
       /\ dbIndex[b].data # NoSlot /\ dbIndex[b].data[1] = lastFile =>
            <<"blk", dbIndex[b].data>> \notin unsynced
       /\ dbIndex[b].undo # NoSlot /\ dbIndex[b].undo[1] = lastFile =>
            <<"rev", dbIndex[b].undo>> \notin unsynced

(* So a power failure takes nothing that the database names. *)
Stored == "late" \notin CrashPoints => StoredWhereIndexed

SlotInv == StoreType /\ Books /\ Shared /\ Committed /\ Stored

(* May the process die between the two writes that end a rewind? *)
Interruptible == "rewind" \in CrashPoints

(* A chain that LoadBlockIndexDB finds and RewindBlockIndex can undo, but  *)
(* for the blocks an interrupted rewind gave up.                           *)
Sound(idx, t) ==
  \A b \in Chain[t] :
    /\ idx[b].known
    /\ Interruptible \/ idx[b].branch # 0
    /\ IF idx[b].data = NoSlot THEN PruneMode \/ idx[b].branch = 0 ELSE idx[b].undo # NoSlot

(* The flush that ends a rewind has written the index and not the coins. *)
Rewinding == flush.step = "coins" /\ flush.rewind

ChainInv ==
  /\ \A b \in Blocks : /\ index[b].undo # NoSlot => Interruptible \/ index[b].branch # 0
                       /\ dbIndex[b].undo # NoSlot => Interruptible \/ dbIndex[b].branch # 0
  /\ phase # "down" => Sound(index, tip)
  /\ phase # "down" /\ (Interruptible \/ ~flush.rewind) => Sound(index, dbCoins)
  /\ Interruptible \/ ~Rewinding => Sound(dbIndex, dbCoins)
  /\ phase # "down" /\ ~flush.full =>
       \A b \in Chain[dbCoins] : index[b].data = NoSlot => b \in Chain[tip]

IInv == SlotInv /\ ChainInv /\ DpowType

-----------------------------------------------------------------------------
(* Chains *)

(* A set of natural numbers has a least element. *)
LEMMA LeastNatural ==
  ASSUME NEW S \in SUBSET Nat, S # {}
  PROVE  \E n \in S : \A m \in S : n =< m
<1> DEFINE R == {p \in Nat \X Nat : p[1] < p[2]}
<1>1. OpToRel(<, Nat) = R
  BY DEF OpToRel
<1>2. IsWellFoundedOn(R, Nat)
  BY <1>1, NatLessThanWellFounded, Zenon
<1> HIDE DEF R
<1>3. PICK n \in S : \A m \in S : ~(<<m, n>> \in R)
  BY <1>2, WFMin, Zenon
<1>4. \A m \in S : ~(m < n)
  BY <1>3 DEF R
<1> QED
  BY <1>4

(* The sets that contain b and, with a block, its parent. *)
Closed(b) ==
  {S \in SUBSET AllBlocks : b \in S /\ \A y \in S : y # Genesis => Parent[y] \in S}

(* The least of them, without the genesis block, solves the equation that  *)
(* defines Chain.                                                          *)
LEMMA ChainEquation ==
  Chain = [b \in AllBlocks |-> IF b = Genesis THEN {} ELSE {b} \cup Chain[Parent[b]]]
<1> DEFINE Above(b) == {x \in Blocks : \A S \in Closed(b) : x \in S}
           f == [b \in AllBlocks |-> Above(b)]
<1>0. Parent \in [Blocks -> AllBlocks] /\ Genesis \notin Blocks
  BY BlockStoreAssumption DEF AllBlocks
<1>1. Above(Genesis) = {}
  <2>1. {Genesis} \in Closed(Genesis)
    BY DEF Closed, AllBlocks
  <2> QED
    BY <1>0, <2>1
<1>2. ASSUME NEW b \in Blocks
      PROVE  Above(b) = {b} \cup Above(Parent[b])
  <2>0. b \in AllBlocks /\ b # Genesis /\ Parent[b] \in AllBlocks
    BY <1>0, <1>2 DEF AllBlocks
  <2>1. \A S \in Closed(b) : b \in S /\ S \in Closed(Parent[b])
    BY <2>0 DEF Closed
  <2>2. \A S \in Closed(Parent[b]) : S \cup {b} \in Closed(b)
    BY <2>0 DEF Closed
  <2>3. ASSUME NEW x \in Above(b), x # b
        PROVE  x \in Above(Parent[b])
    BY <2>2, <2>3
  <2>4. b \in Above(b)
    BY <1>2, <2>1
  <2>5. \A x \in Above(Parent[b]) : x \in Above(b)
    BY <2>1
  <2> QED
    BY <2>3, <2>4, <2>5
<1> HIDE DEF Above
<1>3. f = [b \in AllBlocks |-> IF b = Genesis THEN {} ELSE {b} \cup f[Parent[b]]]
  <2>1. \A b \in AllBlocks : Above(b) = IF b = Genesis THEN {} ELSE {b} \cup f[Parent[b]]
    <3> SUFFICES ASSUME NEW b \in AllBlocks
                 PROVE  Above(b) = IF b = Genesis THEN {} ELSE {b} \cup f[Parent[b]]
      OBVIOUS
    <3>1. CASE b = Genesis
      BY <1>1, <3>1
    <3>2. CASE b # Genesis
      <4>1. b \in Blocks /\ Parent[b] \in AllBlocks
        BY <1>0, <3>2 DEF AllBlocks
      <4>2. f[Parent[b]] = Above(Parent[b])
        BY <4>1
      <4> QED
        BY <1>2, <3>2, <4>1, <4>2
    <3> QED
      BY <3>1, <3>2
  <2> QED
    BY <2>1
<1> HIDE DEF f
<1>4. \E g : g = [b \in AllBlocks |-> IF b = Genesis THEN {} ELSE {b} \cup g[Parent[b]]]
  BY <1>3
<1> QED
  BY <1>4 DEF Chain

(* A chain is its tip and the chain of the tip's parent. *)
LEMMA ChainFacts ==
  /\ Chain[Genesis] = {}
  /\ \A b \in Blocks : /\ b \in AllBlocks /\ b # Genesis /\ Parent[b] \in AllBlocks
                       /\ Chain[b] = {b} \cup Chain[Parent[b]]
<1>1. Genesis \in AllBlocks /\ \A b \in Blocks : b \in AllBlocks /\ b # Genesis
  BY BlockStoreAssumption DEF AllBlocks
<1>2. \A b \in AllBlocks : Chain[b] = IF b = Genesis THEN {} ELSE {b} \cup Chain[Parent[b]]
  BY ChainEquation
<1> QED
  BY <1>1, <1>2, BlockStoreAssumption

(* What holds of every chain whose parent's chain has it, holds of all:    *)
(* a chain consists of blocks not after its tip, no two at the same height. *)
LEMMA ChainShape ==
  \A b \in AllBlocks :
    /\ Chain[b] \subseteq Blocks /\ \A a \in Chain[b] : a =< b
    /\ Height(b) \in Nat
    /\ \A a \in Chain[b] : /\ Height(a) \in Nat /\ Height(a) =< Height(b)
                           /\ Height(a) = Height(b) => a = b
    /\ \A a, c \in Chain[b] : Height(a) = Height(c) => a = c
<1> DEFINE P(b) == /\ Chain[b] \subseteq Blocks /\ \A a \in Chain[b] : a =< b
                   /\ Height(b) \in Nat
                   /\ \A a \in Chain[b] : /\ Height(a) \in Nat /\ Height(a) =< Height(b)
                                          /\ Height(a) = Height(b) => a = b
                   /\ \A a, c \in Chain[b] : Height(a) = Height(c) => a = c
           Bad == {b \in AllBlocks : ~P(b)}
<1>0. AllBlocks \subseteq Nat /\ IsFiniteSet(Blocks) /\ \A b \in Blocks : Parent[b] < b
  BY BlockStoreAssumption DEF AllBlocks, Genesis
<1> SUFFICES ASSUME Bad # {} PROVE FALSE
  OBVIOUS
<1>1. Bad \in SUBSET Nat
  BY <1>0
<1>2. PICK b \in Bad : \A m \in Bad : b =< m
  <2> HIDE DEF Bad
  <2> QED
    BY <1>1, LeastNatural
<1>3. P(Genesis)
  <2>1. Height(Genesis) = 0
    BY ChainFacts, FS_EmptySet DEF Height
  <2> QED
    BY <2>1, ChainFacts
<1>4. b \in Blocks /\ b \in Nat
  BY <1>0, <1>2, <1>3 DEF AllBlocks
<1> DEFINE p == Parent[b]
<1>5. /\ p \in AllBlocks /\ p < b /\ p \in Nat
      /\ Chain[b] = {b} \cup Chain[p]
  BY <1>0, <1>4, ChainFacts
<1>6. P(p)
  BY <1>2, <1>4, <1>5
<1> HIDE DEF p
<1>7. b \notin Chain[p]
  BY <1>4, <1>5, <1>6
<1>8. IsFiniteSet(Chain[p])
  BY <1>0, <1>6, FS_Subset
<1>9. Height(b) = Height(p) + 1
  <2>1. Chain[b] = Chain[p] \cup {b}
    BY <1>5
  <2>2. Cardinality(Chain[p] \cup {b}) = Cardinality(Chain[p]) + 1
    BY <1>7, <1>8, FS_AddElement
  <2> QED
    BY <2>1, <2>2 DEF Height
<1>10. \A a \in Chain[p] : Height(a) \in Nat /\ Height(a) < Height(b)
  BY <1>6, <1>9
<1>11. Height(b) \in Nat
  BY <1>6, <1>9
<1>12. Chain[b] \subseteq Blocks /\ \A a \in Chain[b] : a =< b
  <2>1. \A a \in Chain[p] : a \in Blocks /\ a =< p /\ a \in Nat
    BY <1>6, BlockStoreAssumption
  <2> QED
    BY <1>4, <1>5, <2>1
<1>13. \A a \in Chain[b] : /\ Height(a) \in Nat /\ Height(a) =< Height(b)
                           /\ Height(a) = Height(b) => a = b
  BY <1>5, <1>10, <1>11
<1>14. \A a, c \in Chain[b] : Height(a) = Height(c) => a = c
  BY <1>5, <1>6, <1>10, <1>11
<1>15. P(b)
  BY <1>11, <1>12, <1>13, <1>14
<1> QED
  BY <1>2, <1>15

-----------------------------------------------------------------------------
(* Slots *)

(* A position that is not null is a slot. *)
LEMMA SlotFacts ==
  /\ NoSlot \notin Slots
  /\ \A s \in Slots : s[1] \in Files /\ s[2] \in 1..FileSlots /\ s[1] \in Nat /\ s = <<s[1], s[2]>>
  /\ \A f \in Files, i \in 1..FileSlots : <<f, i>> \in Slots
<1>1. Files \subseteq Nat /\ FileSlots \in Nat
  BY BlockStoreAssumption DEF Files
<1>2. \A s \in Slots : s[1] \in Files /\ s[2] \in 1..FileSlots /\ s = <<s[1], s[2]>>
  BY DEF Slots
<1>3. NoSlot[2] = 0
  BY DEF NoSlot
<1>4. NoSlot \notin Slots
  BY <1>1, <1>2, <1>3
<1>5. \A f \in Files, i \in 1..FileSlots : <<f, i>> \in Slots
  BY DEF Slots
<1> QED
  BY <1>1, <1>2, <1>4, <1>5

(* What the types say about an index. *)
LEMMA EntryFacts ==
  ASSUME NEW idx \in [Blocks -> Entry], NEW b \in Blocks
  PROVE  /\ idx[b].data # NoSlot => idx[b].data \in Slots
         /\ idx[b].undo # NoSlot => idx[b].undo \in Slots
         /\ idx[b].known \in BOOLEAN /\ idx[b].branch \in 0..2
BY DEF Entry

(* The block that AcceptBlock stores, where and what it notes. *)
LEMMA AcceptKinds ==
  ASSUME SlotInv, NEW b \in Blocks, AcceptBlock(b)
  PROVE  /\ phase = "up" /\ flush = Idle /\ index[b].data = NoSlot /\ b \notin Chain[tip]
         /\ UNCHANGED <<phase, rules, tip, flush, rev, databases>>
         /\ dirty' = dirty \cup {b}
         /\ index' \in [Blocks -> Entry] /\ info' \in [Files -> FileInfo]
         /\ index'[b].known /\ index'[b].branch = index[b].branch /\ index'[b].undo = NoSlot
         /\ \A c \in Blocks : c # b => index'[c] = index[c]
         /\ \E f \in Files :
              LET slot == <<f, info[f].size + 1>> IN
              /\ slot \in Slots /\ index'[b].data = slot
              /\ lastFile' = f /\ dirtyFiles' = dirtyFiles \cup {f}
              /\ info'[f].size = info[f].size + 1 /\ info'[f].undo = info[f].undo
              /\ \A g \in Files : g # f => info'[g] = info[g]
              /\ blk' = [blk EXCEPT ![slot] = b]
              /\ \/ f = lastFile /\ unsynced' = unsynced \cup {<<"blk", slot>>}
                 \/ /\ f = lastFile + 1 /\ info[f].size = 0
                    /\ unsynced' = Synced(lastFile) \cup {<<"blk", slot>>}
<1> DEFINE f == IF info[lastFile].size < FileSlots THEN lastFile ELSE lastFile + 1
           slot == <<f, info[f].size + 1>>
<1>0. /\ lastFile \in Files /\ Files = 0..MaxFile /\ MaxFile \in Nat /\ FileSlots \in Nat \ {0}
      /\ index \in [Blocks -> Entry] /\ info \in [Files -> FileInfo]
  BY BlockStoreAssumption DEF SlotInv, StoreType, Files
<1>1. /\ phase = "up" /\ flush = Idle /\ index[b].data = NoSlot /\ b \notin Chain[tip] /\ f =< MaxFile
      /\ UNCHANGED <<phase, rules, tip, flush, rev, databases>>
      /\ index' = [index EXCEPT ![b].known = TRUE, ![b].data = slot, ![b].undo = NoSlot]
      /\ dirty' = dirty \cup {b} /\ dirtyFiles' = dirtyFiles \cup {f} /\ lastFile' = f
      /\ info' = [info EXCEPT ![f].size = @ + 1,
                              ![f].top = IF Height(b) > @ THEN Height(b) ELSE @]
      /\ blk' = [blk EXCEPT ![slot] = b]
      /\ unsynced' = (IF f = lastFile THEN unsynced ELSE Synced(lastFile)) \cup {<<"blk", slot>>}
  BY DEF AcceptBlock, Working
<1>2. f \in Files /\ f >= lastFile
  BY <1>0, <1>1
<1>3. info[f].size \in 0..FileSlots - 1 /\ (f # lastFile => f = lastFile + 1 /\ info[f].size = 0)
  BY <1>0, <1>2 DEF FileInfo, SlotInv, Books, Unused
<1> HIDE DEF f
<1>4. slot \in Slots
  BY <1>0, <1>2, <1>3, SlotFacts
<1> HIDE DEF slot
<1>5. Height(b) \in Nat
  BY ChainShape, ChainFacts
<1>6. /\ info' \in [Files -> FileInfo]
      /\ info'[f].size = info[f].size + 1 /\ info'[f].undo = info[f].undo
      /\ \A g \in Files : g # f => info'[g] = info[g]
  <2>1. info[f].size + 1 \in 0..FileSlots /\ info[f].top \in Nat
    BY <1>0, <1>2, <1>3 DEF FileInfo
  <2> DEFINE h == Height(b)
             t == IF h > info[f].top THEN h ELSE info[f].top
  <2>2. t \in Nat
    BY <1>5, <2>1
  <2> HIDE DEF h
  <2>3. info' = [info EXCEPT ![f].size = @ + 1, ![f].top = t]
    BY <1>1 DEF h
  <2> HIDE DEF t
  <2> QED
    BY <1>0, <1>2, <2>1, <2>2, <2>3 DEF FileInfo
<1>7. /\ index' \in [Blocks -> Entry]
      /\ index'[b].known /\ index'[b].branch = index[b].branch /\ index'[b].undo = NoSlot
      /\ index'[b].data = slot
      /\ \A c \in Blocks : c # b => index'[c] = index[c]
  BY <1>0, <1>1, <1>4 DEF Entry
<1>8. \/ f = lastFile /\ unsynced' = unsynced \cup {<<"blk", slot>>}
      \/ /\ f = lastFile + 1 /\ info[f].size = 0
         /\ unsynced' = Synced(lastFile) \cup {<<"blk", slot>>}
  BY <1>1, <1>3
<1>9. \E g \in Files :
        LET s == <<g, info[g].size + 1>> IN
        /\ s \in Slots /\ index'[b].data = s
        /\ lastFile' = g /\ dirtyFiles' = dirtyFiles \cup {g}
        /\ info'[g].size = info[g].size + 1 /\ info'[g].undo = info[g].undo
        /\ \A h \in Files : h # g => info'[h] = info[h]
        /\ blk' = [blk EXCEPT ![s] = b]
        /\ \/ g = lastFile /\ unsynced' = unsynced \cup {<<"blk", s>>}
           \/ /\ g = lastFile + 1 /\ info[g].size = 0
              /\ unsynced' = Synced(lastFile) \cup {<<"blk", s>>}
  BY <1>1, <1>2, <1>4, <1>6, <1>7, <1>8, Zenon DEF slot
<1> QED
  BY <1>1, <1>6, <1>7, <1>9

(* The undo data that ConnectTip writes, if any. *)
LEMMA ConnectKinds ==
  ASSUME SlotInv, NEW b \in Blocks, ConnectTip(b)
  PROVE  /\ phase = "up" /\ flush = Idle /\ Parent[b] = tip /\ tip' = b /\ index[b].data # NoSlot
         /\ UNCHANGED <<phase, rules, lastFile, flush, blk, databases>>
         /\ \/ /\ index[b].undo # NoSlot
               /\ UNCHANGED <<index, dirty, info, dirtyFiles, rev, unsynced>>
            \/ /\ index[b].undo = NoSlot /\ dirty' = dirty \cup {b}
               /\ index' \in [Blocks -> Entry] /\ info' \in [Files -> FileInfo]
               /\ index'[b].known = index[b].known /\ index'[b].branch = CachedBranch(b)
               /\ index'[b].data = index[b].data
               /\ \A c \in Blocks : c # b => index'[c] = index[c]
               /\ \E f \in Files :
                    LET slot == <<f, info[f].undo + 1>> IN
                    /\ f = index[b].data[1] /\ slot \in Slots /\ index'[b].undo = slot
                    /\ dirtyFiles' = dirtyFiles \cup {f}
                    /\ info'[f].undo = info[f].undo + 1 /\ info'[f].size = info[f].size
                    /\ \A g \in Files : g # f => info'[g] = info[g]
                    /\ rev' = [rev EXCEPT ![slot] = b]
                    /\ unsynced' = unsynced \cup {<<"rev", slot>>}
<1> DEFINE f == index[b].data[1]
           slot == <<f, info[f].undo + 1>>
<1>0. /\ index \in [Blocks -> Entry] /\ info \in [Files -> FileInfo] /\ FileSlots \in Nat \ {0}
      /\ rules \in 1..2 /\ Room(index, info)
  BY BlockStoreAssumption DEF SlotInv, StoreType, Books
<1>1. /\ phase = "up" /\ flush = Idle /\ Parent[b] = tip /\ tip' = b /\ index[b].data # NoSlot
      /\ UNCHANGED <<phase, rules, lastFile, flush, blk, databases>>
      /\ IF index[b].undo # NoSlot
         THEN UNCHANGED <<index, dirty, info, dirtyFiles, rev, unsynced>>
         ELSE /\ index' = [index EXCEPT ![b].undo = slot, ![b].branch = CachedBranch(b)]
              /\ dirty' = dirty \cup {b}
              /\ info' = [info EXCEPT ![f].undo = @ + 1]
              /\ dirtyFiles' = dirtyFiles \cup {f}
              /\ rev' = [rev EXCEPT ![slot] = b]
              /\ unsynced' = unsynced \cup {<<"rev", slot>>}
  BY DEF ConnectTip, Working
<1>2. CASE index[b].undo # NoSlot
  BY <1>1, <1>2
<1>3. CASE index[b].undo = NoSlot
  <2>1. f \in Files
    BY <1>0, <1>1, EntryFacts, SlotFacts
  <2>2. b \in Awaiting(index, f)
    BY <1>1, <1>3 DEF Awaiting
  <2>3. Cardinality(Awaiting(index, f)) \in Nat \ {0}
    <3>1. Awaiting(index, f) \subseteq Blocks /\ IsFiniteSet(Blocks)
      BY BlockStoreAssumption DEF Awaiting
    <3>2. IsFiniteSet(Awaiting(index, f))
      BY <3>1, FS_Subset
    <3> QED
      BY <2>2, <3>2, FS_CardinalityType, FS_EmptySet
  <2> HIDE DEF f
  <2>4. info[f].undo \in 0..FileSlots - 1
    BY <1>0, <2>1, <2>3 DEF Room, FileInfo
  <2>5. slot \in Slots
    BY <1>0, <2>1, <2>4, SlotFacts
  <2>6. CachedBranch(b) \in 0..2
    <3>1. \A h : Branch(h) \in 0..2
      BY <1>0 DEF Branch
    <3>2. Parent[b] # Genesis => Parent[b] \in Blocks
      BY ChainFacts DEF AllBlocks
    <3>3. \A h \in Blocks : index[h].branch \in 0..2
      BY <1>0, EntryFacts
    <3> QED
      BY <3>1, <3>2, <3>3 DEF CachedBranch
  <2> HIDE DEF slot
  <2>7. /\ index' \in [Blocks -> Entry]
        /\ index'[b].known = index[b].known /\ index'[b].branch = CachedBranch(b)
        /\ index'[b].data = index[b].data /\ index'[b].undo = slot
        /\ \A c \in Blocks : c # b => index'[c] = index[c]
    <3> HIDE DEF f
    <3>1. index' = [index EXCEPT ![b].undo = slot, ![b].branch = CachedBranch(b)]
      BY <1>1, <1>3
    <3> QED
      BY <1>0, <2>5, <2>6, <3>1 DEF Entry
  <2>8. /\ info' \in [Files -> FileInfo]
        /\ info'[f].undo = info[f].undo + 1 /\ info'[f].size = info[f].size
        /\ \A g \in Files : g # f => info'[g] = info[g]
    BY <1>0, <1>1, <1>3, <2>1, <2>4 DEF FileInfo
  <2>9. \E g \in Files :
          LET s == <<g, info[g].undo + 1>> IN
          /\ g = index[b].data[1] /\ s \in Slots /\ index'[b].undo = s
          /\ dirtyFiles' = dirtyFiles \cup {g}
          /\ info'[g].undo = info[g].undo + 1 /\ info'[g].size = info[g].size
          /\ \A h \in Files : h # g => info'[h] = info[h]
          /\ rev' = [rev EXCEPT ![s] = b]
          /\ unsynced' = unsynced \cup {<<"rev", s>>}
    BY <1>1, <1>3, <2>1, <2>5, <2>7, <2>8, Zenon DEF slot, f
  <2> QED
    BY <1>1, <1>3, <2>7, <2>8, <2>9
<1> QED
  BY <1>2, <1>3

(* The number of blocks that wait for undo data. *)
LEMMA AwaitingFacts ==
  ASSUME NEW idx, NEW f
  PROVE  IsFiniteSet(Awaiting(idx, f)) /\ Cardinality(Awaiting(idx, f)) \in Nat
<1>1. Awaiting(idx, f) \subseteq Blocks /\ IsFiniteSet(Blocks)
  BY BlockStoreAssumption DEF Awaiting
<1>2. IsFiniteSet(Awaiting(idx, f))
  BY <1>1, FS_Subset
<1> QED
  BY <1>2, FS_CardinalityType

(* An index in which fewer blocks wait needs no more room. *)
LEMMA RoomShrinks ==
  ASSUME NEW idx, NEW idy, NEW inf \in [Files -> FileInfo], Room(idx, inf),
         \A f \in Files : Awaiting(idy, f) \subseteq Awaiting(idx, f)
  PROVE  Room(idy, inf)
<1> SUFFICES ASSUME NEW f \in Files
             PROVE  inf[f].undo + Cardinality(Awaiting(idy, f)) =< inf[f].size
  BY DEF Room
<1>1. Cardinality(Awaiting(idy, f)) =< Cardinality(Awaiting(idx, f))
  BY AwaitingFacts, FS_Subset
<1>2. Cardinality(Awaiting(idx, f)) \in Nat /\ Cardinality(Awaiting(idy, f)) \in Nat
  BY AwaitingFacts
<1>3. inf[f].undo \in Nat /\ inf[f].size \in Nat
  BY BlockStoreAssumption DEF FileInfo
<1>4. inf[f].undo + Cardinality(Awaiting(idx, f)) =< inf[f].size
  BY DEF Room
<1> QED
  BY <1>1, <1>2, <1>3, <1>4

(* Where a slot that an index names lies, given the used parts of the files. *)
LEMMA Used ==
  ASSUME NEW idx \in [Blocks -> Entry], NEW inf \in [Files -> FileInfo], Within(idx, inf),
         NEW b \in Blocks
  PROVE  /\ idx[b].data # NoSlot =>
              /\ idx[b].data \in Slots /\ idx[b].data[1] \in Files
              /\ idx[b].data[2] \in 1..inf[idx[b].data[1]].size
         /\ idx[b].undo # NoSlot =>
              /\ idx[b].undo \in Slots /\ idx[b].undo[1] \in Files
              /\ idx[b].undo[2] \in 1..inf[idx[b].undo[1]].undo
<1>1. \A f \in Files : inf[f].size \in Nat /\ inf[f].undo \in Nat
  BY BlockStoreAssumption DEF FileInfo
<1>2. FileSlots \in Nat
  BY BlockStoreAssumption
<1> QED
  BY <1>1, <1>2, EntryFacts, SlotFacts DEF Within, Inside

(* What lies within the used parts stays there when they grow. *)
LEMMA InsideGrows ==
  ASSUME NEW e \in Entry, NEW inf \in [Files -> FileInfo], NEW jnf \in [Files -> FileInfo],
         Inside(e, inf),
         \A f \in Files : inf[f].size =< jnf[f].size /\ inf[f].undo =< jnf[f].undo
  PROVE  Inside(e, jnf)
<1>1. FileSlots \in Nat /\ \A f \in Files : /\ inf[f].size \in Nat /\ inf[f].undo \in Nat
                                            /\ jnf[f].size \in Nat /\ jnf[f].undo \in Nat
  BY BlockStoreAssumption DEF FileInfo
<1>2. /\ e.data # NoSlot => e.data[1] \in Files /\ e.data[2] \in Nat
      /\ e.undo # NoSlot => e.undo[1] \in Files /\ e.undo[2] \in Nat
  BY <1>1, SlotFacts DEF Entry
<1>3. e.data # NoSlot => e.data[2] =< jnf[e.data[1]].size
  BY <1>1, <1>2 DEF Inside
<1>4. e.undo # NoSlot => e.undo[2] =< jnf[e.undo[1]].undo
  BY <1>1, <1>2 DEF Inside
<1> QED
  BY <1>3, <1>4 DEF Inside

(* AcceptBlock fills a slot that no index names. *)
LEMMA AcceptSlots ==
  ASSUME SlotInv, NEW b \in Blocks, AcceptBlock(b)
  PROVE  SlotInv'
<1>0. /\ phase = "up" /\ flush = Idle /\ index[b].data = NoSlot
      /\ UNCHANGED <<phase, rules, tip, flush, rev>>
      /\ UNCHANGED <<dbIndex, dbInfo, dbLastFile, dbCoins>>
      /\ dirty' = dirty \cup {b}
      /\ index' \in [Blocks -> Entry] /\ info' \in [Files -> FileInfo]
      /\ index'[b].known /\ index'[b].undo = NoSlot
      /\ \A c \in Blocks : c # b => index'[c] = index[c]
  BY AcceptKinds DEF databases
<1>1. PICK f \in Files :
        LET slot == <<f, info[f].size + 1>> IN
        /\ slot \in Slots /\ index'[b].data = slot
        /\ lastFile' = f /\ dirtyFiles' = dirtyFiles \cup {f}
        /\ info'[f].size = info[f].size + 1 /\ info'[f].undo = info[f].undo
        /\ \A g \in Files : g # f => info'[g] = info[g]
        /\ blk' = [blk EXCEPT ![slot] = b]
        /\ \/ f = lastFile /\ unsynced' = unsynced \cup {<<"blk", slot>>}
           \/ /\ f = lastFile + 1 /\ info[f].size = 0
              /\ unsynced' = Synced(lastFile) \cup {<<"blk", slot>>}
  BY AcceptKinds
<1> DEFINE slot == <<f, info[f].size + 1>>
<1>2. /\ slot \in Slots /\ index'[b].data = slot /\ slot # NoSlot /\ slot[1] = f /\ slot[2] = info[f].size + 1
      /\ lastFile' = f /\ dirtyFiles' = dirtyFiles \cup {f}
      /\ info'[f].size = info[f].size + 1 /\ info'[f].undo = info[f].undo
      /\ \A g \in Files : g # f => info'[g] = info[g]
      /\ blk' = [blk EXCEPT ![slot] = b]
      /\ \/ f = lastFile /\ unsynced' = unsynced \cup {<<"blk", slot>>}
         \/ /\ f = lastFile + 1 /\ info[f].size = 0
            /\ unsynced' = Synced(lastFile) \cup {<<"blk", slot>>}
  BY <1>1, SlotFacts
<1> HIDE DEF slot
<1>3. /\ index \in [Blocks -> Entry] /\ info \in [Files -> FileInfo]
      /\ dbIndex \in [Blocks -> Entry] /\ dbInfo \in [Files -> FileInfo]
      /\ Within(index, info) /\ Within(dbIndex, dbInfo) /\ Room(index, info)
      /\ Unused(info, lastFile) /\ Unused(dbInfo, dbLastFile) /\ Room(dbIndex, dbInfo)
      /\ lastFile \in Nat /\ dbLastFile \in Nat /\ dbLastFile =< lastFile /\ Files \subseteq Nat
      /\ blk \in [Slots -> Blocks \cup {NoBlock}] /\ unsynced \subseteq {"blk", "rev"} \X Slots
  BY <1>0, BlockStoreAssumption DEF SlotInv, StoreType, Books, Shared, Files
<1>4. \A g \in Files : /\ info[g].size \in Nat /\ info[g].undo \in Nat
                       /\ dbInfo[g].size \in Nat /\ dbInfo[g].undo \in Nat
                       /\ dbInfo[g].size =< info[g].size /\ dbInfo[g].undo =< info[g].undo
  BY <1>0, <1>3, BlockStoreAssumption DEF FileInfo, SlotInv, Shared, Idle
<1>5. \A c \in Blocks : /\ index[c].data # slot /\ dbIndex[c].data # slot
  <2> SUFFICES ASSUME NEW c \in Blocks PROVE index[c].data # slot /\ dbIndex[c].data # slot
    OBVIOUS
  <2>1. index[c].data = slot => slot[2] \in 1..info[f].size
    BY <1>2, <1>3, Used
  <2>2. dbIndex[c].data = slot => slot[2] \in 1..dbInfo[f].size
    BY <1>2, <1>3, Used
  <2> QED
    BY <1>2, <1>4, <2>1, <2>2
<1>6. /\ blk' \in [Slots -> Blocks \cup {NoBlock}] /\ blk'[slot] = b
      /\ \A s \in Slots : s # slot => blk'[s] = blk[s]
  BY <1>2, <1>3
<1>7. StoreType'
  <2>1. unsynced' \subseteq {"blk", "rev"} \X Slots
    BY <1>2, <1>3 DEF Synced
  <2>2. dirty' \subseteq Blocks /\ dirtyFiles' \subseteq Files /\ lastFile' \in Files
    BY <1>0, <1>2 DEF SlotInv, StoreType
  <2> QED
    BY <1>0, <1>6, <2>1, <2>2 DEF SlotInv, StoreType
<1>8. Books'
  <2>1. Within(index, info)'
    <3> SUFFICES ASSUME NEW c \in Blocks PROVE Inside(index'[c], info')
      BY DEF Within
    <3>1. CASE c = b
      BY <1>0, <1>2, <1>4, <3>1 DEF Inside
    <3>2. CASE c # b
      <4>1. \A g \in Files : info[g].size =< info'[g].size /\ info[g].undo =< info'[g].undo
        BY <1>2, <1>4
      <4>2. index'[c] = index[c] /\ index[c] \in Entry /\ Inside(index[c], info)
        BY <1>0, <1>3, <3>2 DEF Within
      <4> QED
        BY <1>0, <1>3, <4>1, <4>2, InsideGrows
    <3> QED
      BY <3>1, <3>2
  <2>2. Room(index, info)'
    <3> SUFFICES ASSUME NEW g \in Files
                 PROVE  info'[g].undo + Cardinality(Awaiting(index', g)) =< info'[g].size
      BY DEF Room
    <3>1. CASE g = f
      <4>1. Awaiting(index', f) = Awaiting(index, f) \cup {b} /\ b \notin Awaiting(index, f)
        BY <1>0, <1>2 DEF Awaiting
      <4>2. Cardinality(Awaiting(index', f)) = Cardinality(Awaiting(index, f)) + 1
        BY <4>1, AwaitingFacts, FS_AddElement
      <4>3. info[f].undo + Cardinality(Awaiting(index, f)) =< info[f].size
        BY <1>3 DEF Room
      <4> QED
        BY <1>2, <1>4, <3>1, <4>2, <4>3, AwaitingFacts
    <3>2. CASE g # f
      <4>1. Awaiting(index', g) = Awaiting(index, g)
        BY <1>0, <1>2, <3>2 DEF Awaiting
      <4> QED
        BY <1>2, <1>3, <3>2, <4>1 DEF Room
    <3> QED
      BY <3>1, <3>2
  <2>3. Unused(info, lastFile)'
    BY <1>2, <1>3 DEF Unused
  <2> QED
    BY <1>0, <1>3, <2>1, <2>2, <2>3 DEF Books
<1>9. Shared'
  <2>1. \A c \in Blocks : c \in dirty' \/ index'[c] = dbIndex'[c]
    BY <1>0 DEF SlotInv, Shared
  <2>2. \A g \in Files : g \in dirtyFiles' \/ info'[g] = dbInfo'[g]
    BY <1>0, <1>2 DEF SlotInv, Shared
  <2>3. dbLastFile' =< lastFile'
    BY <1>0, <1>2, <1>3
  <2>4. \A g \in Files : dbInfo'[g].size =< info'[g].size /\ dbInfo'[g].undo =< info'[g].undo
    BY <1>0, <1>2, <1>4
  <2> QED
    BY <1>0, <2>1, <2>2, <2>3, <2>4 DEF Shared, Idle
<1>10. Committed'
  <2>1. ASSUME NEW c \in Blocks, dbIndex[c].data # NoSlot, dbIndex[c].data[1] = f
        PROVE  f = lastFile /\ <<"blk", dbIndex[c].data>> \notin unsynced'
    <3>1. dbIndex[c].data[2] \in 1..dbInfo[f].size
      BY <1>3, <2>1, Used
    <3>2. f = lastFile
      BY <1>2, <1>4, <3>1
    <3>3. <<"blk", dbIndex[c].data>> \notin unsynced
      BY <2>1, <3>2 DEF SlotInv, Committed
    <3> QED
      BY <1>2, <1>3, <1>5, <3>2, <3>3
  <2>2. ASSUME NEW c \in Blocks, dbIndex[c].undo # NoSlot, dbIndex[c].undo[1] = f
        PROVE  <<"rev", dbIndex[c].undo>> \notin unsynced'
    <3>1. dbIndex[c].data # NoSlot /\ dbIndex[c].data[1] = f
      BY <1>3, <2>2 DEF Within, Inside
    <3>2. f = lastFile
      BY <2>1, <3>1
    <3>3. <<"rev", dbIndex[c].undo>> \notin unsynced
      BY <2>2, <3>2 DEF SlotInv, Committed
    <3> QED
      BY <1>2, <1>3, <3>2, <3>3
  <2> QED
    BY <1>0, <1>2, <2>1, <2>2 DEF Committed, Idle
<1>11. Stored'
  <2> SUFFICES ASSUME "late" \notin CrashPoints, NEW c \in Blocks
               PROVE  /\ index'[c].data # NoSlot => blk'[index'[c].data] = c
                      /\ index'[c].undo # NoSlot => rev'[index'[c].undo] = c
                      /\ dbIndex'[c].data # NoSlot => blk'[dbIndex'[c].data] = c
                      /\ dbIndex'[c].undo # NoSlot => rev'[dbIndex'[c].undo] = c
    BY DEF Stored, StoredWhereIndexed, StoredWhere
  <2>1. /\ index[c].data # NoSlot => blk[index[c].data] = c /\ index[c].data \in Slots
        /\ index[c].undo # NoSlot => rev[index[c].undo] = c
        /\ dbIndex[c].data # NoSlot => blk[dbIndex[c].data] = c /\ dbIndex[c].data \in Slots
        /\ dbIndex[c].undo # NoSlot => rev[dbIndex[c].undo] = c
    BY <1>3, EntryFacts DEF SlotInv, Stored, StoredWhereIndexed, StoredWhere
  <2> QED
    BY <1>0, <1>2, <1>5, <1>6, <2>1
<1> QED
  BY <1>7, <1>8, <1>9, <1>10, <1>11 DEF SlotInv

(* The rules are 1 or 2, and a block of the chain has been connected.  So  *)
(* the branch noted with the undo data is not the initial one.             *)
LEMMA BranchIsSet ==
  ASSUME SlotInv, NEW b \in Blocks, Parent[b] = tip, Sound(index, tip), ~Interruptible
  PROVE  CachedBranch(b) # 0
<1>1. rules \in 1..2
  BY DEF SlotInv, StoreType
<1>2. Branch(b) # 0
  BY <1>1 DEF Branch
<1>3. Parent[b] # Genesis => index[Parent[b]].branch # 0
  <2> SUFFICES ASSUME Parent[b] # Genesis PROVE index[Parent[b]].branch # 0
    OBVIOUS
  <2>1. tip \in Blocks
    BY ChainFacts DEF AllBlocks
  <2>2. tip \in Chain[tip]
    BY <2>1, ChainFacts
  <2> QED
    BY <2>2 DEF Sound
<1> QED
  BY <1>2, <1>3 DEF CachedBranch

(* ConnectTip fills a slot of the rev file that no index names. *)
LEMMA ConnectSlots ==
  ASSUME SlotInv, NEW b \in Blocks, ConnectTip(b)
  PROVE  SlotInv'
<1>0. /\ phase = "up" /\ flush = Idle /\ Parent[b] = tip /\ tip' = b /\ index[b].data # NoSlot
      /\ UNCHANGED <<phase, rules, lastFile, flush, blk>>
      /\ UNCHANGED <<dbIndex, dbInfo, dbLastFile, dbCoins>>
      /\ b \in AllBlocks
  BY ConnectKinds, ChainFacts DEF databases
<1>1. CASE UNCHANGED <<index, dirty, info, dirtyFiles, rev, unsynced>>
  BY <1>0, <1>1 DEF SlotInv, StoreType, Books, Within, Room, Unused, Shared, Committed,
                    Stored, StoredWhereIndexed, StoredWhere, Awaiting, Inside
<1>2. CASE ~UNCHANGED <<index, dirty, info, dirtyFiles, rev, unsynced>>
  <2>1. /\ index[b].undo = NoSlot /\ dirty' = dirty \cup {b}
        /\ index' \in [Blocks -> Entry] /\ info' \in [Files -> FileInfo]
        /\ index'[b].known = index[b].known
        /\ index'[b].data = index[b].data
        /\ \A c \in Blocks : c # b => index'[c] = index[c]
    BY <1>2, ConnectKinds
  <2>2. PICK f \in Files :
          LET slot == <<f, info[f].undo + 1>> IN
          /\ f = index[b].data[1] /\ slot \in Slots /\ index'[b].undo = slot
          /\ dirtyFiles' = dirtyFiles \cup {f}
          /\ info'[f].undo = info[f].undo + 1 /\ info'[f].size = info[f].size
          /\ \A g \in Files : g # f => info'[g] = info[g]
          /\ rev' = [rev EXCEPT ![slot] = b]
          /\ unsynced' = unsynced \cup {<<"rev", slot>>}
    BY <1>2, ConnectKinds
  <2> DEFINE slot == <<f, info[f].undo + 1>>
  <2>3. /\ f = index[b].data[1] /\ slot \in Slots /\ index'[b].undo = slot
        /\ slot # NoSlot /\ slot[1] = f /\ slot[2] = info[f].undo + 1
        /\ dirtyFiles' = dirtyFiles \cup {f}
        /\ info'[f].undo = info[f].undo + 1 /\ info'[f].size = info[f].size
        /\ \A g \in Files : g # f => info'[g] = info[g]
        /\ rev' = [rev EXCEPT ![slot] = b]
        /\ unsynced' = unsynced \cup {<<"rev", slot>>}
    BY <2>2, SlotFacts
  <2> HIDE DEF slot
  <2>4. /\ index \in [Blocks -> Entry] /\ info \in [Files -> FileInfo]
        /\ dbIndex \in [Blocks -> Entry] /\ dbInfo \in [Files -> FileInfo]
        /\ Within(index, info) /\ Within(dbIndex, dbInfo) /\ Room(index, info)
        /\ Unused(info, lastFile) /\ Unused(dbInfo, dbLastFile) /\ Room(dbIndex, dbInfo)
        /\ rev \in [Slots -> Blocks \cup {NoBlock}] /\ unsynced \subseteq {"blk", "rev"} \X Slots
    BY DEF SlotInv, StoreType, Books
  <2>5. \A g \in Files : /\ info[g].size \in Nat /\ info[g].undo \in Nat
                         /\ dbInfo[g].size \in Nat /\ dbInfo[g].undo \in Nat
                         /\ dbInfo[g].size =< info[g].size /\ dbInfo[g].undo =< info[g].undo
    BY <1>0, <2>4, BlockStoreAssumption DEF FileInfo, SlotInv, Shared, Idle
  <2>6. \A c \in Blocks : index[c].undo # slot /\ dbIndex[c].undo # slot
    <3> SUFFICES ASSUME NEW c \in Blocks PROVE index[c].undo # slot /\ dbIndex[c].undo # slot
      OBVIOUS
    <3>1. index[c].undo = slot => slot[2] \in 1..info[f].undo
      BY <2>3, <2>4, Used
    <3>2. dbIndex[c].undo = slot => slot[2] \in 1..dbInfo[f].undo
      BY <2>3, <2>4, Used
    <3> QED
      BY <2>3, <2>5, <3>1, <3>2
  <2>7. /\ rev' \in [Slots -> Blocks \cup {NoBlock}] /\ rev'[slot] = b
        /\ \A s \in Slots : s # slot => rev'[s] = rev[s]
    BY <2>3, <2>4
  <2>8. StoreType'
    <3>1. unsynced' \subseteq {"blk", "rev"} \X Slots
      BY <2>3, <2>4
    <3>2. dirty' \subseteq Blocks /\ dirtyFiles' \subseteq Files
      BY <2>1, <2>3 DEF SlotInv, StoreType
    <3> QED
      BY <1>0, <2>1, <2>7, <3>1, <3>2 DEF SlotInv, StoreType
  <2>9. Books'
    <3>1. Within(index, info)'
      <4> SUFFICES ASSUME NEW c \in Blocks PROVE Inside(index'[c], info')
        BY DEF Within
      <4>0. \A g \in Files : info[g].size =< info'[g].size /\ info[g].undo =< info'[g].undo
        BY <2>3, <2>5
      <4>1. CASE c = b
        <5>1. index[b].known /\ index[b].data[2] =< info[f].size
          BY <1>0, <2>3, <2>4 DEF Within, Inside
        <5>2. slot[2] =< info'[f].undo
          BY <2>3, <2>5
        <5> QED
          BY <1>0, <2>1, <2>3, <4>1, <5>1, <5>2 DEF Inside
      <4>2. CASE c # b
        <5>1. index'[c] = index[c] /\ index[c] \in Entry /\ Inside(index[c], info)
          BY <2>1, <2>4, <4>2 DEF Within
        <5> QED
          BY <2>1, <2>4, <4>0, <5>1, InsideGrows
      <4> QED
        BY <4>1, <4>2
    <3>2. Room(index, info)'
      <4> SUFFICES ASSUME NEW g \in Files
                   PROVE  info'[g].undo + Cardinality(Awaiting(index', g)) =< info'[g].size
        BY DEF Room
      <4>1. CASE g = f
        <5>1. /\ Awaiting(index, f) = Awaiting(index', f) \cup {b}
              /\ b \notin Awaiting(index', f)
          BY <1>0, <2>1, <2>3 DEF Awaiting
        <5>2. Cardinality(Awaiting(index, f)) = Cardinality(Awaiting(index', f)) + 1
          BY <5>1, AwaitingFacts, FS_AddElement
        <5>3. info[f].undo + Cardinality(Awaiting(index, f)) =< info[f].size
          BY <2>4 DEF Room
        <5> QED
          BY <2>3, <2>5, <4>1, <5>2, <5>3, AwaitingFacts
      <4>2. CASE g # f
        <5>1. Awaiting(index', g) = Awaiting(index, g)
          BY <2>1, <2>3, <4>2 DEF Awaiting
        <5> QED
          BY <2>3, <2>4, <4>2, <5>1 DEF Room
      <4> QED
        BY <4>1, <4>2
    <3>3. Unused(info, lastFile)'
      BY <1>0, <2>3, <2>4 DEF Unused
    <3> QED
      BY <1>0, <2>4, <3>1, <3>2, <3>3 DEF Books
  <2>10. Shared'
    <3>1. \A c \in Blocks : c \in dirty' \/ index'[c] = dbIndex'[c]
      BY <1>0, <2>1 DEF SlotInv, Shared
    <3>2. \A g \in Files : g \in dirtyFiles' \/ info'[g] = dbInfo'[g]
      BY <1>0, <2>3 DEF SlotInv, Shared
    <3>3. dbLastFile' =< lastFile'
      BY <1>0 DEF SlotInv, Shared
    <3>4. \A g \in Files : dbInfo'[g].size =< info'[g].size /\ dbInfo'[g].undo =< info'[g].undo
      BY <1>0, <2>3, <2>5
    <3> QED
      BY <1>0, <3>1, <3>2, <3>3, <3>4 DEF Shared, Idle
  <2>11. Committed'
    <3>1. \A c \in Blocks : <<"blk", dbIndex[c].data>> \in unsynced' => <<"blk", dbIndex[c].data>> \in unsynced
      BY <2>3
    <3>2. \A c \in Blocks : <<"rev", dbIndex[c].undo>> \in unsynced' => <<"rev", dbIndex[c].undo>> \in unsynced
      BY <2>3, <2>6
    <3> QED
      BY <1>0, <3>1, <3>2 DEF SlotInv, Committed, Idle
  <2>12. Stored'
    <3> SUFFICES ASSUME "late" \notin CrashPoints, NEW c \in Blocks
                 PROVE  /\ index'[c].data # NoSlot => blk'[index'[c].data] = c
                        /\ index'[c].undo # NoSlot => rev'[index'[c].undo] = c
                        /\ dbIndex'[c].data # NoSlot => blk'[dbIndex'[c].data] = c
                        /\ dbIndex'[c].undo # NoSlot => rev'[dbIndex'[c].undo] = c
      BY DEF Stored, StoredWhereIndexed, StoredWhere
    <3>1. /\ index[c].data # NoSlot => blk[index[c].data] = c
          /\ index[c].undo # NoSlot => rev[index[c].undo] = c /\ index[c].undo \in Slots
          /\ dbIndex[c].data # NoSlot => blk[dbIndex[c].data] = c
          /\ dbIndex[c].undo # NoSlot => rev[dbIndex[c].undo] = c /\ dbIndex[c].undo \in Slots
      BY <2>4, EntryFacts DEF SlotInv, Stored, StoredWhereIndexed, StoredWhere
    <3> QED
      BY <1>0, <2>1, <2>3, <2>6, <2>7, <3>1
  <2> QED
    BY <2>8, <2>9, <2>10, <2>11, <2>12 DEF SlotInv
<1> QED
  BY <1>1, <1>2

(* Disconnecting a block moves the tip only. *)
LEMMA DisconnectSlots ==
  ASSUME SlotInv, Working, tip' = Parent[tip], tip # Genesis,
         UNCHANGED <<phase, rules, index, dirty, info, dirtyFiles, lastFile, flush,
                     files, databases>>
  PROVE  SlotInv'
<1>1. tip' \in AllBlocks
  BY ChainFacts DEF SlotInv, StoreType, AllBlocks
<1> QED
  BY <1>1 DEF SlotInv, StoreType, Books, Within, Room, Unused, Shared, Committed,
              Stored, StoredWhereIndexed, StoredWhere, Awaiting, Inside, files, databases

(* The types of the parts of SlotInv that the steps of a flush use. *)
LEMMA SlotTypes ==
  ASSUME SlotInv
  PROVE  /\ index \in [Blocks -> Entry] /\ dbIndex \in [Blocks -> Entry]
         /\ info \in [Files -> FileInfo] /\ dbInfo \in [Files -> FileInfo]
         /\ Within(index, info) /\ Within(dbIndex, dbInfo)
         /\ Room(index, info) /\ Room(dbIndex, dbInfo)
         /\ Unused(info, lastFile) /\ Unused(dbInfo, dbLastFile)
         /\ \A f \in Files : /\ info[f].size \in Nat /\ info[f].undo \in Nat
                             /\ dbInfo[f].size \in Nat /\ dbInfo[f].undo \in Nat
         /\ \A c \in Blocks :
              /\ index[c].data # NoSlot => index[c].data \in Slots /\ index[c].data[1] \in Files
              /\ index[c].undo # NoSlot => index[c].undo \in Slots /\ index[c].undo[1] \in Files
              /\ dbIndex[c].data # NoSlot => dbIndex[c].data \in Slots /\ dbIndex[c].data[1] \in Files
              /\ dbIndex[c].undo # NoSlot => dbIndex[c].undo \in Slots /\ dbIndex[c].undo[1] \in Files
<1>1. /\ index \in [Blocks -> Entry] /\ dbIndex \in [Blocks -> Entry]
      /\ info \in [Files -> FileInfo] /\ dbInfo \in [Files -> FileInfo]
      /\ Within(index, info) /\ Within(dbIndex, dbInfo)
      /\ Room(index, info) /\ Room(dbIndex, dbInfo)
      /\ Unused(info, lastFile) /\ Unused(dbInfo, dbLastFile)
  BY DEF SlotInv, StoreType, Books
<1>2. \A f \in Files : /\ info[f].size \in Nat /\ info[f].undo \in Nat
                       /\ dbInfo[f].size \in Nat /\ dbInfo[f].undo \in Nat
  BY <1>1, BlockStoreAssumption DEF FileInfo
<1> QED
  BY <1>1, <1>2, EntryFacts, SlotFacts

(* A position with no block in it. *)
LEMMA NullEntries ==
  /\ Unknown \in Entry /\ Unknown.data = NoSlot /\ Unknown.undo = NoSlot
  /\ LET known == [Unknown EXCEPT !.known = TRUE] IN
       known \in Entry /\ known.data = NoSlot /\ known.undo = NoSlot
  /\ EmptyFile \in FileInfo
  /\ \A e \in Entry : \A inf : e.data = NoSlot /\ e.undo = NoSlot => Inside(e, inf)
<1>1. /\ Unknown \in Entry /\ Unknown.data = NoSlot /\ Unknown.undo = NoSlot
      /\ LET known == [Unknown EXCEPT !.known = TRUE] IN
           known \in Entry /\ known.data = NoSlot /\ known.undo = NoSlot
  <2>1. /\ Unknown \in Entry /\ Unknown.data = NoSlot /\ Unknown.undo = NoSlot
        /\ Unknown.branch = 0 /\ ~Unknown.known
    BY DEF Unknown, Entry
  <2>2. \A e \in Entry : LET g == [e EXCEPT !.known = TRUE] IN
          g \in Entry /\ g.data = e.data /\ g.undo = e.undo /\ g.branch = e.branch /\ g.known
    BY DEF Entry
  <2> QED
    BY <2>1, <2>2
<1>2. EmptyFile \in FileInfo
  BY BlockStoreAssumption DEF EmptyFile, FileInfo
<1> QED
  BY <1>1, <1>2 DEF Inside

(* The first step of a flush commits the last files and forgets what is    *)
(* pruned.                                                                 *)
LEMMA FlushFilesSlots ==
  ASSUME SlotInv, Working, NEW full \in BOOLEAN, NEW P \in SUBSET Files,
         \A f \in P : f < lastFile, FlushFiles(full, P)
  PROVE  SlotInv'
<1>0. /\ phase = "up" /\ flush = Idle
      /\ index' = [b \in Blocks |-> IF InPruned(b, P)
                                    THEN [index[b] EXCEPT !.data = NoSlot, !.undo = NoSlot]
                                    ELSE index[b]]
      /\ dirty' = dirty \cup {b \in Blocks : InPruned(b, P)}
      /\ info' = [f \in Files |-> IF f \in P THEN EmptyFile ELSE info[f]]
      /\ dirtyFiles' = dirtyFiles \cup P
      /\ unsynced' = Synced(lastFile)
      /\ flush' = [step |-> "index", full |-> full \/ P # {}, prune |-> P, rewind |-> FALSE]
      /\ UNCHANGED <<phase, rules, lastFile, tip, blk, rev>>
      /\ UNCHANGED <<dbIndex, dbInfo, dbLastFile, dbCoins>>
  BY DEF FlushFiles, Working, databases
<1>1. /\ index \in [Blocks -> Entry] /\ info \in [Files -> FileInfo]
      /\ Within(index, info) /\ Room(index, info) /\ Unused(info, lastFile)
  BY SlotTypes
<1>2. \A b \in Blocks :
        /\ InPruned(b, P) => /\ index'[b].data = NoSlot /\ index'[b].undo = NoSlot
                             /\ index'[b] \in Entry
        /\ ~InPruned(b, P) => index'[b] = index[b] /\ index'[b] \in Entry
  BY <1>0, <1>1 DEF Entry
<1>3. index' \in [Blocks -> Entry]
  <2>1. index' = [b \in Blocks |-> index'[b]]
    BY <1>0
  <2> HIDE DEF InPruned
  <2>2. \A b \in Blocks : index'[b] \in Entry
    BY <1>2
  <2> QED
    BY <2>1, <2>2
<1>4. info' \in [Files -> FileInfo]
  BY <1>0, <1>1, NullEntries
<1>5. \A b \in Blocks : index'[b].data # NoSlot => index'[b] = index[b] /\ index[b].data[1] \notin P
  BY <1>2 DEF InPruned
<1>5a. \A b \in Blocks : index'[b].data = NoSlot => index'[b].undo = NoSlot
  BY <1>1, <1>2 DEF Within, Inside
<1>6. StoreType'
  <2>1. flush' \in [step : {"idle", "index", "unlink", "coins"}, full : BOOLEAN,
                    prune : SUBSET Files, rewind : BOOLEAN]
    BY <1>0
  <2>2. /\ dirty' \subseteq Blocks /\ dirtyFiles' \subseteq Files
        /\ unsynced' \subseteq {"blk", "rev"} \X Slots
    BY <1>0 DEF SlotInv, StoreType, Synced
  <2> QED
    BY <1>0, <1>3, <1>4, <2>1, <2>2 DEF SlotInv, StoreType
<1>7. Books'
  <2>1. Within(index, info)'
    <3> SUFFICES ASSUME NEW b \in Blocks PROVE Inside(index'[b], info')
      BY DEF Within
    <3>1. CASE index'[b].data = NoSlot
      BY <1>3, <1>5a, <3>1, NullEntries
    <3>2. CASE index'[b].data # NoSlot
      <4>1. index'[b] = index[b] /\ index[b].data[1] \notin P /\ index[b].data # NoSlot
        BY <1>5, <3>2
      <4>2. Inside(index[b], info)
        BY <1>1 DEF Within
      <4>3. index[b].data[1] \in Files
        BY <4>1, SlotTypes
      <4>4. info'[index[b].data[1]] = info[index[b].data[1]]
        BY <1>0, <4>1, <4>3
      <4> QED
        BY <4>1, <4>2, <4>4 DEF Inside
    <3> QED
      BY <3>1, <3>2
  <2>2. Room(index, info)'
    <3> SUFFICES ASSUME NEW f \in Files
                 PROVE  info'[f].undo + Cardinality(Awaiting(index', f)) =< info'[f].size
      BY DEF Room
    <3>1. CASE f \in P
      <4>1. Awaiting(index', f) = {}
        BY <1>5, <3>1 DEF Awaiting
      <4>2. info'[f].undo = 0 /\ info'[f].size = 0
        BY <1>0, <3>1 DEF EmptyFile
      <4> QED
        BY <4>1, <4>2, FS_EmptySet
    <3>2. CASE f \notin P
      <4>1. \A b \in Blocks : index[b].data[1] = f => ~InPruned(b, P)
        BY <3>2 DEF InPruned
      <4>2. Awaiting(index', f) = Awaiting(index, f)
        BY <1>2, <1>5, <4>1 DEF Awaiting
      <4>3. info'[f] = info[f]
        BY <1>0, <3>2
      <4> QED
        BY <1>1, <4>2, <4>3 DEF Room
    <3> QED
      BY <3>1, <3>2
  <2>3. Unused(info, lastFile)'
    BY <1>0, <1>1 DEF Unused, EmptyFile
  <2> QED
    BY <1>0, <2>1, <2>2, <2>3 DEF SlotInv, Books
<1>8. Shared'
  <2>1. \A c \in Blocks : c \in dirty' \/ index'[c] = dbIndex'[c]
    BY <1>0, <1>2 DEF SlotInv, Shared
  <2>2. \A g \in Files : g \in dirtyFiles' \/ info'[g] = dbInfo'[g]
    BY <1>0 DEF SlotInv, Shared
  <2>3. dbLastFile' =< lastFile'
    BY <1>0 DEF SlotInv, Shared
  <2>4. \A b \in Blocks : index'[b].data # NoSlot => index'[b].data[1] \notin flush'.prune
    BY <1>0, <1>5
  <2> QED
    BY <1>0, <2>1, <2>2, <2>3, <2>4 DEF Shared
<1>9. Committed'
  <2>1. \A u \in unsynced' : u[2][1] # lastFile'
    BY <1>0 DEF Synced
  <2>2. \A s : s[1] = lastFile' => <<"blk", s>> \notin unsynced' /\ <<"rev", s>> \notin unsynced'
    BY <2>1
  <2> QED
    BY <1>0, <2>1, <2>2 DEF Committed
<1>10. Stored'
  <2>1. \A b \in Blocks : /\ index'[b].data # NoSlot => index'[b] = index[b]
                          /\ index'[b].undo # NoSlot => index'[b] = index[b]
    BY <1>2
  <2> QED
    BY <1>0, <2>1 DEF SlotInv, Stored, StoredWhereIndexed, StoredWhere
<1> QED
  BY <1>6, <1>7, <1>8, <1>9, <1>10 DEF SlotInv

(* The batch makes the database equal to memory. *)
LEMMA FlushIndexKinds ==
  ASSUME SlotInv, FlushIndex
  PROVE  /\ phase # "down" /\ flush.step = "index"
         /\ dbIndex' = index /\ dbInfo' = info /\ dbLastFile' = lastFile
         /\ dirty' = {} /\ dirtyFiles' = {}
         /\ \/ flush.prune # {} /\ flush' = [flush EXCEPT !.step = "unlink"]
            \/ flush.full /\ flush' = [flush EXCEPT !.step = "coins"]
            \/ ~flush.full /\ flush' = Idle
         /\ UNCHANGED <<phase, rules, index, info, lastFile, tip, blk, rev, unsynced, dbCoins>>
<1>0. /\ flush.step = "index"
      /\ dbIndex' = [b \in Blocks |-> IF b \in dirty THEN index[b] ELSE dbIndex[b]]
      /\ dbInfo' = [f \in Files |-> IF f \in dirtyFiles THEN info[f] ELSE dbInfo[f]]
      /\ dbLastFile' = lastFile
      /\ dirty' = {} /\ dirtyFiles' = {}
      /\ \/ flush.prune # {} /\ flush' = [flush EXCEPT !.step = "unlink"]
         \/ flush.full /\ flush' = [flush EXCEPT !.step = "coins"]
         \/ ~flush.full /\ flush' = Idle
      /\ UNCHANGED <<phase, rules, index, info, lastFile, tip, blk, rev, unsynced, dbCoins>>
  BY DEF FlushIndex, files
<1>1. phase # "down"
  BY <1>0 DEF SlotInv, Shared, Idle
<1>2. index = [b \in Blocks |-> index[b]] /\ info = [f \in Files |-> info[f]]
  BY SlotTypes
<1>3. dbIndex' = index
  <2>1. \A b \in Blocks : (IF b \in dirty THEN index[b] ELSE dbIndex[b]) = index[b]
    BY <1>1 DEF SlotInv, Shared
  <2> QED
    BY <1>0, <1>2, <2>1
<1>4. dbInfo' = info
  <2>1. \A f \in Files : (IF f \in dirtyFiles THEN info[f] ELSE dbInfo[f]) = info[f]
    BY <1>1 DEF SlotInv, Shared
  <2> QED
    BY <1>0, <1>2, <2>1
<1> QED
  BY <1>0, <1>1, <1>3, <1>4

(* So what the database names is what memory names, and is committed. *)
LEMMA FlushIndexSlots ==
  ASSUME SlotInv, FlushIndex
  PROVE  SlotInv'
<1>0. /\ phase # "down" /\ flush.step = "index"
      /\ dbIndex' = index /\ dbInfo' = info /\ dbLastFile' = lastFile
      /\ dirty' = {} /\ dirtyFiles' = {}
      /\ \/ flush.prune # {} /\ flush' = [flush EXCEPT !.step = "unlink"]
         \/ flush.full /\ flush' = [flush EXCEPT !.step = "coins"]
         \/ ~flush.full /\ flush' = Idle
      /\ UNCHANGED <<phase, rules, index, info, lastFile, tip, blk, rev, unsynced, dbCoins>>
  BY FlushIndexKinds
<1>1. /\ flush' \in [step : {"idle", "index", "unlink", "coins"}, full : BOOLEAN,
                     prune : SUBSET Files, rewind : BOOLEAN]
      /\ flush'.step # "index" /\ (flush'.step = "idle" => flush' = Idle)
      /\ flush'.step = "unlink" => flush'.prune = flush.prune
      /\ flush'.rewind => flush.rewind /\ flush'.prune = flush.prune /\ flush'.full = flush.full
  <2>1. CASE flush' = Idle
    BY <2>1 DEF Idle
  <2>2. CASE flush' = [flush EXCEPT !.step = "unlink"] \/ flush' = [flush EXCEPT !.step = "coins"]
    BY <2>2 DEF SlotInv, StoreType
  <2> QED
    BY <1>0, <2>1, <2>2
<1>2. StoreType'
  BY <1>0, <1>1 DEF SlotInv, StoreType
<1>3. Books'
  BY <1>0 DEF SlotInv, Books, Within, Room, Unused, Awaiting, Inside
<1>4. Shared'
  <2>1. \A f \in Files : dbInfo'[f].size =< info'[f].size /\ dbInfo'[f].undo =< info'[f].undo
    BY <1>0, SlotTypes
  <2>2. dbLastFile' =< lastFile'
    BY <1>0, BlockStoreAssumption DEF SlotInv, StoreType, Files
  <2> QED
    BY <1>0, <1>1, <2>1, <2>2 DEF SlotInv, Shared
<1>5. Committed'
  <2>1. \A u \in unsynced : u[2][1] # lastFile
    BY <1>0 DEF SlotInv, Committed
  <2>2. \A s : s[1] = lastFile => <<"blk", s>> \notin unsynced /\ <<"rev", s>> \notin unsynced
    BY <2>1
  <2> QED
    BY <1>0, <1>1, <2>2 DEF SlotInv, Committed
<1>6. Stored'
  BY <1>0 DEF SlotInv, Stored, StoredWhereIndexed, StoredWhere
<1> QED
  BY <1>2, <1>3, <1>4, <1>5, <1>6 DEF SlotInv

(* Unlinked files are files that neither index names. *)
LEMMA FlushUnlinkSlots ==
  ASSUME SlotInv, FlushUnlink
  PROVE  SlotInv'
<1>0. /\ flush.step = "unlink"
      /\ blk' = [s \in Slots |-> IF s[1] \in flush.prune THEN NoBlock ELSE blk[s]]
      /\ rev' = [s \in Slots |-> IF s[1] \in flush.prune THEN NoBlock ELSE rev[s]]
      /\ unsynced' = {u \in unsynced : u[2][1] \notin flush.prune}
      /\ flush' = [flush EXCEPT !.step = "coins"]
      /\ UNCHANGED <<phase, rules, index, dirty, info, dirtyFiles, lastFile, tip>>
      /\ UNCHANGED <<dbIndex, dbInfo, dbLastFile, dbCoins>>
  BY DEF FlushUnlink, memory, databases
<1>1. phase # "down" /\ \A b \in Blocks : index[b] = dbIndex[b]
  BY <1>0 DEF SlotInv, Shared, Idle
<1>2. /\ flush' \in [step : {"idle", "index", "unlink", "coins"}, full : BOOLEAN,
                     prune : SUBSET Files, rewind : BOOLEAN]
      /\ flush'.step = "coins" /\ flush'.rewind = flush.rewind /\ flush'.prune = flush.prune
      /\ flush'.full = flush.full
  BY <1>0 DEF SlotInv, StoreType
<1>3. \A b \in Blocks :
        /\ index[b].data # NoSlot => index[b].data \in Slots /\ index[b].data[1] \notin flush.prune
        /\ index[b].undo # NoSlot => index[b].undo \in Slots /\ index[b].undo[1] \notin flush.prune
  <2>1. \A b \in Blocks : index[b].data # NoSlot => index[b].data[1] \notin flush.prune
    BY <1>0 DEF SlotInv, Shared
  <2>2. \A b \in Blocks : index[b].undo # NoSlot =>
                            index[b].data # NoSlot /\ index[b].undo[1] = index[b].data[1]
    BY SlotTypes DEF Within, Inside
  <2> QED
    BY <2>1, <2>2, SlotTypes
<1>4. StoreType'
  <2>1. blk' \in [Slots -> Blocks \cup {NoBlock}] /\ rev' \in [Slots -> Blocks \cup {NoBlock}]
    BY <1>0 DEF SlotInv, StoreType
  <2>2. unsynced' \subseteq {"blk", "rev"} \X Slots
    BY <1>0 DEF SlotInv, StoreType
  <2> QED
    BY <1>0, <1>2, <2>1, <2>2 DEF SlotInv, StoreType
<1>5. Books'
  BY <1>0 DEF SlotInv, Books, Within, Room, Unused, Awaiting, Inside
<1>6. Shared'
  BY <1>0, <1>1, <1>2 DEF SlotInv, Shared
<1>7. Committed'
  BY <1>0, <1>2 DEF SlotInv, Committed
<1>8. Stored'
  <2> SUFFICES ASSUME "late" \notin CrashPoints, NEW b \in Blocks
               PROVE  /\ index[b].data # NoSlot => blk'[index[b].data] = b
                      /\ index[b].undo # NoSlot => rev'[index[b].undo] = b
    BY <1>0, <1>1 DEF Stored, StoredWhereIndexed, StoredWhere
  <2>1. /\ index[b].data # NoSlot => blk[index[b].data] = b
        /\ index[b].undo # NoSlot => rev[index[b].undo] = b
    BY DEF SlotInv, Stored, StoredWhereIndexed, StoredWhere
  <2> QED
    BY <1>0, <1>3, <2>1
<1> QED
  BY <1>4, <1>5, <1>6, <1>7, <1>8 DEF SlotInv

(* The last step of a flush concerns the coins only. *)
LEMMA FlushCoinsSlots ==
  ASSUME SlotInv, FlushCoins
  PROVE  SlotInv'
<1>0. /\ flush.step = "coins" /\ dbCoins' = tip /\ flush' = Idle
      /\ UNCHANGED <<phase, rules, index, dirty, info, dirtyFiles, lastFile, tip>>
      /\ UNCHANGED <<blk, rev, unsynced, dbIndex, dbInfo, dbLastFile>>
  BY DEF FlushCoins, memory, files
<1>1. StoreType'
  <2>1. flush' \in [step : {"idle", "index", "unlink", "coins"}, full : BOOLEAN,
                    prune : SUBSET Files, rewind : BOOLEAN]
    BY <1>0 DEF Idle
  <2> QED
    BY <1>0, <2>1 DEF SlotInv, StoreType
<1>2. Books' /\ Stored'
  BY <1>0 DEF SlotInv, Books, Within, Room, Unused, Awaiting, Inside, Stored, StoredWhereIndexed, StoredWhere
<1>3. Shared'
  BY <1>0 DEF SlotInv, Shared, Idle
<1>4. Committed'
  BY <1>0 DEF SlotInv, Committed, Idle
<1> QED
  BY <1>1, <1>2, <1>3, <1>4 DEF SlotInv

(* Memory is lost; the databases and what they name are not. *)
LEMMA DownSlots ==
  ASSUME SlotInv, phase' = "down", flush' = Idle, unsynced' = {},
         index' = [b \in Blocks |-> Unknown], info' = [f \in Files |-> EmptyFile],
         dirty' = {}, dirtyFiles' = {}, lastFile' = 0, tip' = Genesis,
         UNCHANGED <<rules, dbIndex, dbInfo, dbLastFile, dbCoins>>,
         blk' \in [Slots -> Blocks \cup {NoBlock}], rev' \in [Slots -> Blocks \cup {NoBlock}],
         "late" \notin CrashPoints =>
           \A c \in Blocks : /\ dbIndex[c].data # NoSlot => blk'[dbIndex[c].data] = c
                             /\ dbIndex[c].undo # NoSlot => rev'[dbIndex[c].undo] = c
  PROVE  SlotInv'
<1>1. \A b \in Blocks : /\ index'[b] = Unknown /\ index'[b].data = NoSlot /\ index'[b].undo = NoSlot
                        /\ Inside(index'[b], info')
  BY NullEntries
<1>2. StoreType'
  <2>1. flush' \in [step : {"idle", "index", "unlink", "coins"}, full : BOOLEAN,
                    prune : SUBSET Files, rewind : BOOLEAN]
    BY DEF Idle
  <2>2. index' \in [Blocks -> Entry] /\ info' \in [Files -> FileInfo]
    BY NullEntries
  <2>3. 0 \in Files /\ Genesis \in AllBlocks
    BY BlockStoreAssumption DEF Files, AllBlocks
  <2> QED
    BY <2>1, <2>2, <2>3 DEF SlotInv, StoreType
<1>3. Books'
  <2>1. Within(index', info')
    BY <1>1 DEF Within
  <2>2. Room(index', info')
    <3>1. \A f \in Files : info'[f].undo = 0 /\ info'[f].size = 0
      BY DEF EmptyFile
    <3>2. \A f \in Files : Cardinality(Awaiting(index', f)) = 0
      <4>1. \A f \in Files : Awaiting(index', f) = {}
        BY <1>1 DEF Awaiting
      <4> QED
        BY <4>1, FS_EmptySet
    <3> QED
      BY <3>1, <3>2 DEF Room
  <2>3. Unused(info', lastFile')
    BY DEF Unused, EmptyFile
  <2> QED
    BY <2>1, <2>2, <2>3 DEF SlotInv, Books
<1>4. Shared'
  BY <1>1 DEF Shared, Idle
<1>5. Committed'
  BY DEF Committed, Idle
<1>6. Stored'
  BY <1>1 DEF Stored, StoredWhereIndexed, StoredWhere
<1> QED
  BY <1>2, <1>3, <1>4, <1>5, <1>6 DEF SlotInv

(* A crash loses what was written to the last file since it was committed, *)
(* and the database names none of it.                                      *)
LEMMA CrashSlots ==
  ASSUME SlotInv, Crash
  PROVE  SlotInv'
<1>0. /\ phase' = "down" /\ flush' = Idle /\ unsynced' = {}
      /\ index' = [b \in Blocks |-> Unknown] /\ info' = [f \in Files |-> EmptyFile]
      /\ dirty' = {} /\ dirtyFiles' = {} /\ lastFile' = 0 /\ tip' = Genesis
      /\ UNCHANGED <<rules, dbIndex, dbInfo, dbLastFile, dbCoins>>
  BY DEF Crash, databases
<1>1. PICK lost \in SUBSET Losable :
        /\ blk' = [s \in Slots |-> IF <<"blk", s>> \in lost THEN NoBlock ELSE blk[s]]
        /\ rev' = [s \in Slots |-> IF <<"rev", s>> \in lost THEN NoBlock ELSE rev[s]]
  BY DEF Crash
<1>2. "late" \notin CrashPoints => \A u \in lost : u \in unsynced /\ u[2][1] = lastFile
  BY <1>1 DEF Losable
<1>3. blk' \in [Slots -> Blocks \cup {NoBlock}] /\ rev' \in [Slots -> Blocks \cup {NoBlock}]
  BY <1>1 DEF SlotInv, StoreType
<1>4. ASSUME "late" \notin CrashPoints, NEW c \in Blocks
      PROVE  /\ dbIndex[c].data # NoSlot => blk'[dbIndex[c].data] = c
             /\ dbIndex[c].undo # NoSlot => rev'[dbIndex[c].undo] = c
  <2>1. /\ dbIndex[c].data # NoSlot => blk[dbIndex[c].data] = c /\ dbIndex[c].data \in Slots
        /\ dbIndex[c].undo # NoSlot => rev[dbIndex[c].undo] = c /\ dbIndex[c].undo \in Slots
    BY <1>4, SlotTypes DEF SlotInv, Stored, StoredWhereIndexed, StoredWhere
  <2>2. /\ dbIndex[c].data # NoSlot => <<"blk", dbIndex[c].data>> \notin lost
        /\ dbIndex[c].undo # NoSlot => <<"rev", dbIndex[c].undo>> \notin lost
    BY <1>2, <1>4 DEF SlotInv, Committed
  <2> QED
    BY <1>1, <2>1, <2>2
<1> QED
  BY <1>0, <1>3, <1>4, DownSlots

(* The start reads the databases. *)
LEMMA StartSlots ==
  ASSUME SlotInv, Start
  PROVE  SlotInv'
<1>0. /\ phase = "down" /\ phase' = "rewind" /\ rules' \in 1..2
      /\ index' = dbIndex /\ info' = dbInfo /\ lastFile' = dbLastFile /\ tip' = dbCoins
      /\ UNCHANGED <<dirty, dirtyFiles, flush, blk, rev, unsynced, dbIndex, dbInfo, dbLastFile, dbCoins>>
  <2>1. rules \in 1..2
    BY DEF SlotInv, StoreType
  <2>2. rules' \in {rules, 2}
    BY DEF Start
  <2> QED
    BY <2>1, <2>2 DEF Start, files, databases
<1>1. flush = Idle /\ dirty = {} /\ dirtyFiles = {} /\ unsynced = {}
  BY <1>0 DEF SlotInv, Shared, Committed
<1>2. StoreType'
  BY <1>0 DEF SlotInv, StoreType
<1>3. Books'
  BY <1>0 DEF SlotInv, Books, Within, Room, Unused, Awaiting, Inside
<1>4. Shared'
  <2>1. \A f \in Files : dbInfo'[f].size =< info'[f].size /\ dbInfo'[f].undo =< info'[f].undo
    BY <1>0, SlotTypes
  <2>2. dbLastFile' =< lastFile'
    BY <1>0, BlockStoreAssumption DEF SlotInv, StoreType, Files
  <2> QED
    BY <1>0, <1>1, <2>1, <2>2 DEF Shared, Idle
<1>5. Committed'
  BY <1>0, <1>1 DEF Committed, Idle
<1>6. Stored'
  BY <1>0 DEF SlotInv, Stored, StoredWhereIndexed, StoredWhere
<1> QED
  BY <1>2, <1>3, <1>4, <1>5, <1>6 DEF SlotInv

(* A start that gives up leaves the disk as it was. *)
LEMMA RefusedSlots ==
  ASSUME SlotInv, RewindRefused
  PROVE  SlotInv'
<1>0. /\ phase = "rewind" /\ flush = Idle /\ phase' = "down" /\ flush' = Idle
      /\ index' = [b \in Blocks |-> Unknown] /\ info' = [f \in Files |-> EmptyFile]
      /\ dirty' = {} /\ dirtyFiles' = {} /\ lastFile' = 0 /\ tip' = Genesis
      /\ UNCHANGED <<rules, dbIndex, dbInfo, dbLastFile, dbCoins>>
      /\ UNCHANGED <<blk, rev, unsynced>>
  BY DEF RewindRefused, files, databases
<1>1. unsynced' = {}
  BY <1>0 DEF SlotInv, Committed
<1>2. blk' \in [Slots -> Blocks \cup {NoBlock}] /\ rev' \in [Slots -> Blocks \cup {NoBlock}]
  BY <1>0 DEF SlotInv, StoreType
<1>3. "late" \notin CrashPoints =>
        \A c \in Blocks : /\ dbIndex[c].data # NoSlot => blk'[dbIndex[c].data] = c
                          /\ dbIndex[c].undo # NoSlot => rev'[dbIndex[c].undo] = c
  BY <1>0 DEF SlotInv, Stored, StoredWhereIndexed, StoredWhere
<1> QED
  BY <1>0, <1>1, <1>2, <1>3, DownSlots

(* The flush of a rewind writes nothing that was not written before. *)
LEMMA RewindFlush ==
  LET ordinary == [Idle EXCEPT !.step = "index", !.full = TRUE]
      last == [Idle EXCEPT !.step = "index", !.full = TRUE, !.rewind = TRUE]
      Flushes == [step : {"idle", "index", "unlink", "coins"}, full : BOOLEAN,
                  prune : SUBSET Files, rewind : BOOLEAN] IN
  /\ Idle \in Flushes /\ ordinary \in Flushes /\ last \in Flushes
  /\ ordinary.step = "index" /\ ordinary.full /\ ordinary.prune = {} /\ ~ordinary.rewind
  /\ last.step = "index" /\ last.full /\ last.prune = {} /\ last.rewind
<1>1. Idle \in [step : {"idle", "index", "unlink", "coins"}, full : BOOLEAN,
                prune : SUBSET Files, rewind : BOOLEAN]
  BY DEF Idle
<1>2. Idle.prune = {} /\ ~Idle.rewind
  BY DEF Idle
<1> HIDE DEF Idle
<1> QED
  BY <1>1, <1>2

(* The rewind's DisconnectTip, with the flush that may follow. *)
LEMMA RewindStepSlots ==
  ASSUME SlotInv, RewindStep
  PROVE  SlotInv'
<1>0. /\ phase = "rewind" /\ flush = Idle /\ tip # Genesis /\ tip' = Parent[tip]
      /\ \/ flush' = Idle /\ UNCHANGED unsynced
         \/ flush' = [Idle EXCEPT !.step = "index", !.full = TRUE] /\ unsynced' = Synced(lastFile)
      /\ UNCHANGED <<phase, rules, index, dirty, info, dirtyFiles, lastFile, blk, rev>>
      /\ UNCHANGED <<dbIndex, dbInfo, dbLastFile, dbCoins>>
  BY DEF RewindStep, Disconnectable, databases
<1>1. unsynced = {} /\ unsynced' = {}
  BY <1>0 DEF SlotInv, Committed, Synced
<1>2. /\ flush' \in [step : {"idle", "index", "unlink", "coins"}, full : BOOLEAN,
                     prune : SUBSET Files, rewind : BOOLEAN]
      /\ flush'.step \in {"idle", "index"} /\ flush'.prune = {} /\ ~flush'.rewind
      /\ flush'.step = "idle" => flush' = Idle
  <2>1. Idle.step = "idle" /\ Idle.prune = {} /\ ~Idle.rewind
    BY DEF Idle
  <2> HIDE DEF Idle
  <2> QED
    BY <1>0, <2>1, RewindFlush
<1>3. tip' \in AllBlocks
  BY <1>0, ChainFacts DEF SlotInv, StoreType, AllBlocks
<1>4. StoreType'
  BY <1>0, <1>1, <1>2, <1>3 DEF SlotInv, StoreType
<1>5. Books' /\ Stored'
  BY <1>0 DEF SlotInv, Books, Within, Room, Unused, Awaiting, Inside, Stored, StoredWhereIndexed, StoredWhere
<1>6. Shared'
  BY <1>0, <1>2 DEF SlotInv, Shared
<1>7. Committed'
  BY <1>1 DEF Committed
<1> QED
  BY <1>4, <1>5, <1>6, <1>7 DEF SlotInv

(* The end of the rewind forgets positions. *)
LEMMA RewindEndSlots ==
  ASSUME SlotInv, RewindEnd
  PROVE  SlotInv'
<1>0. /\ phase = "rewind" /\ flush = Idle /\ phase' = "up"
      /\ index' = [b \in Blocks |-> IF Reset(b) THEN [Unknown EXCEPT !.known = TRUE] ELSE index[b]]
      /\ dirty' = dirty \cup {b \in Blocks : Reset(b)}
      /\ unsynced' = Synced(lastFile)
      /\ flush' = [Idle EXCEPT !.step = "index", !.full = TRUE, !.rewind = TRUE]
      /\ UNCHANGED <<rules, info, dirtyFiles, lastFile, tip, blk, rev>>
      /\ UNCHANGED <<dbIndex, dbInfo, dbLastFile, dbCoins>>
  BY DEF RewindEnd, databases
<1>1. unsynced = {} /\ unsynced' = {}
  BY <1>0 DEF SlotInv, Committed, Synced
<1>2. /\ flush' \in [step : {"idle", "index", "unlink", "coins"}, full : BOOLEAN,
                     prune : SUBSET Files, rewind : BOOLEAN]
      /\ flush'.step = "index" /\ flush'.prune = {} /\ flush'.rewind /\ flush'.full
  BY <1>0, RewindFlush
<1>3. \A b \in Blocks :
        /\ index'[b] \in Entry
        /\ Reset(b) => index'[b].data = NoSlot /\ index'[b].undo = NoSlot
        /\ ~Reset(b) => index'[b] = index[b]
  <2> DEFINE known == [Unknown EXCEPT !.known = TRUE]
  <2>1. known \in Entry /\ known.data = NoSlot /\ known.undo = NoSlot
    BY NullEntries
  <2>2. index' = [b \in Blocks |-> IF Reset(b) THEN known ELSE index[b]]
    BY <1>0
  <2>3. \A b \in Blocks : index[b] \in Entry
    BY SlotTypes
  <2> HIDE DEF known, Reset
  <2> QED
    BY <2>1, <2>2, <2>3
<1>4. index' \in [Blocks -> Entry]
  <2>1. index' = [b \in Blocks |-> index'[b]]
    BY <1>0
  <2> QED
    BY <1>3, <2>1
<1>5. StoreType'
  BY <1>0, <1>1, <1>2, <1>4 DEF SlotInv, StoreType
<1>6. Books'
  <2>1. Within(index', info')
    <3> SUFFICES ASSUME NEW b \in Blocks PROVE Inside(index'[b], info)
      BY <1>0 DEF Within
    <3> QED
      BY <1>3, NullEntries, SlotTypes DEF Within
  <2>2. Room(index', info)
    <3>1. \A f \in Files : Awaiting(index', f) \subseteq Awaiting(index, f)
      BY <1>3 DEF Awaiting
    <3> QED
      BY <3>1, SlotTypes, RoomShrinks
  <2> QED
    BY <1>0, <2>1, <2>2 DEF SlotInv, Books
<1>7. Shared'
  <2>1. \A b \in Blocks : b \in dirty' \/ index'[b] = dbIndex'[b]
    BY <1>0, <1>3 DEF SlotInv, Shared
  <2>2. \A f \in Files : f \in dirtyFiles' \/ info'[f] = dbInfo'[f]
    BY <1>0 DEF SlotInv, Shared
  <2>3. dbLastFile' =< lastFile'
    BY <1>0 DEF SlotInv, Shared
  <2> QED
    BY <1>0, <1>2, <2>1, <2>2, <2>3 DEF Shared
<1>8. Committed'
  BY <1>1 DEF Committed
<1>9. Stored'
  BY <1>0, <1>3 DEF SlotInv, Stored, StoredWhereIndexed, StoredWhere
<1> QED
  BY <1>5, <1>6, <1>7, <1>8, <1>9 DEF SlotInv

-----------------------------------------------------------------------------
(* The two chains *)

(* What an initial state and a step have to keep of ChainInv. *)
LEMMA ChainParts ==
  ASSUME SlotInv, ChainInv
  PROVE  /\ tip \in AllBlocks /\ dbCoins \in AllBlocks
         /\ Chain[tip] \subseteq Blocks /\ Chain[dbCoins] \subseteq Blocks
         /\ \A b \in Blocks : /\ index[b].undo # NoSlot => Interruptible \/ index[b].branch # 0
                              /\ dbIndex[b].undo # NoSlot => Interruptible \/ dbIndex[b].branch # 0
         /\ phase # "down" => Sound(index, tip)
         /\ phase # "down" /\ (Interruptible \/ ~flush.rewind) => Sound(index, dbCoins)
         /\ Interruptible \/ ~Rewinding => Sound(dbIndex, dbCoins)
         /\ phase # "down" /\ ~flush.full =>
              \A b \in Chain[dbCoins] : index[b].data = NoSlot => b \in Chain[tip]
         /\ ~Idle.rewind /\ ~Idle.full /\ Idle.step = "idle"
         /\ flush = Idle => ~Rewinding
<1>1. tip \in AllBlocks /\ dbCoins \in AllBlocks
  BY DEF SlotInv, StoreType
<1>2. Chain[tip] \subseteq Blocks /\ Chain[dbCoins] \subseteq Blocks
  BY <1>1, ChainShape
<1>3. ~Idle.rewind /\ ~Idle.full /\ Idle.step = "idle" /\ (flush = Idle => ~Rewinding)
  BY DEF Idle, Rewinding
<1> QED
  BY <1>1, <1>2, <1>3 DEF ChainInv

(* A block that AcceptBlock stores is on neither chain: were it pruned and *)
(* on the chain of the database, it would be on the active chain.          *)
LEMMA AcceptChain ==
  ASSUME SlotInv, ChainInv, NEW b \in Blocks, AcceptBlock(b)
  PROVE  ChainInv'
<1>0. /\ phase = "up" /\ flush = Idle /\ index[b].data = NoSlot /\ b \notin Chain[tip]
      /\ UNCHANGED <<phase, tip, flush, dbIndex, dbCoins>>
      /\ index'[b].undo = NoSlot
      /\ \A c \in Blocks : c # b => index'[c] = index[c]
  BY AcceptKinds DEF databases
<1>1. b \notin Chain[dbCoins]
  BY <1>0, ChainParts
<1>2. /\ \A c \in Chain[tip] : c \in Blocks /\ index'[c] = index[c]
      /\ \A c \in Chain[dbCoins] : c \in Blocks /\ index'[c] = index[c]
  BY <1>0, <1>1, ChainParts
<1>3. Sound(index', tip) /\ Sound(index', dbCoins)
  BY <1>0, <1>2, ChainParts DEF Sound
<1>4. \A c \in Blocks : index'[c].undo # NoSlot => Interruptible \/ index'[c].branch # 0
  BY <1>0, ChainParts
<1>5. \A c \in Chain[dbCoins] : index'[c].data = NoSlot => c \in Chain[tip]
  BY <1>0, <1>2, ChainParts
<1> QED
  BY <1>0, <1>3, <1>4, <1>5, ChainParts DEF ChainInv, Rewinding

(* A connected block is known, in its rules' branch and can be undone. *)
LEMMA ConnectChain ==
  ASSUME SlotInv, ChainInv, NEW b \in Blocks, ConnectTip(b)
  PROVE  ChainInv'
<1>0. /\ phase = "up" /\ flush = Idle /\ Parent[b] = tip /\ tip' = b /\ index[b].data # NoSlot
      /\ UNCHANGED <<phase, flush, dbIndex, dbCoins>>
  BY ConnectKinds DEF databases
<1>1. /\ \A c \in Blocks : c # b => index'[c] = index[c]
      /\ index'[b].data # NoSlot /\ index'[b].undo # NoSlot /\ index'[b].known
      /\ Interruptible \/ index'[b].branch # 0
  <2>1. index[b].known
    BY <1>0, SlotTypes DEF Within, Inside
  <2>2. CASE index[b].undo # NoSlot
    <3>1. index' = index
      BY <2>2, ConnectKinds
    <3> QED
      BY <1>0, <2>1, <2>2, <3>1, ChainParts
  <2>3. CASE index[b].undo = NoSlot
    <3>1. /\ index'[b].known = index[b].known /\ index'[b].branch = CachedBranch(b)
          /\ index'[b].data = index[b].data
          /\ \A c \in Blocks : c # b => index'[c] = index[c]
      BY <2>3, ConnectKinds
    <3>2. Interruptible \/ CachedBranch(b) # 0
      BY <1>0, ChainParts, BranchIsSet DEF Sound
    <3>3. index'[b].undo # NoSlot
      <4>1. \E f \in Files : LET slot == <<f, info[f].undo + 1>> IN
                               slot \in Slots /\ index'[b].undo = slot
        BY <2>3, ConnectKinds
      <4> QED
        BY <4>1, SlotFacts
    <3> QED
      BY <1>0, <2>1, <3>1, <3>2, <3>3
  <2> QED
    BY <2>2, <2>3
<1>2. Chain[b] = {b} \cup Chain[tip]
  BY <1>0, ChainFacts
<1>3. \A c \in Blocks : index'[c].undo # NoSlot => Interruptible \/ index'[c].branch # 0
  BY <1>1, ChainParts
<1>4. Sound(index', b)
  <2>1. \A c \in Chain[b] : c = b \/ (c \in Chain[tip] /\ index'[c] = index[c])
    BY <1>1, <1>2, ChainParts
  <2> QED
    BY <1>0, <1>1, <2>1, ChainParts DEF Sound
<1>5. Sound(index', dbCoins)
  <2>1. \A c \in Chain[dbCoins] : c = b \/ index'[c] = index[c]
    BY <1>1, ChainParts
  <2> QED
    BY <1>0, <1>1, <2>1, ChainParts DEF Sound
<1>6. \A c \in Chain[dbCoins] : index'[c].data = NoSlot => c \in Chain[b]
  BY <1>0, <1>1, <1>2, ChainParts
<1> QED
  BY <1>0, <1>3, <1>4, <1>5, <1>6, ChainParts DEF ChainInv, Rewinding

(* A disconnected block keeps its data, so that it can be connected again. *)
LEMMA DisconnectChain ==
  ASSUME SlotInv, ChainInv, phase # "down", flush = Idle, Disconnectable, tip' = Parent[tip],
         UNCHANGED <<phase, index, dbIndex, dbCoins>>,
         ~flush'.rewind
  PROVE  ChainInv'
<1>1. tip # Genesis /\ index[tip].data # NoSlot /\ tip \in Blocks
  BY ChainParts DEF Disconnectable, AllBlocks
<1>2. Chain[tip] = {tip} \cup Chain[tip']
  BY <1>1, ChainFacts
<1>3. Sound(index, tip') /\ Sound(index, dbCoins) /\ Sound(dbIndex, dbCoins)
  BY <1>2, ChainParts DEF Sound
<1>4. \A c \in Chain[dbCoins] : index[c].data = NoSlot => c \in Chain[tip']
  BY <1>1, <1>2, ChainParts
<1> QED
  BY <1>3, <1>4, ChainParts DEF ChainInv, Rewinding

(* Pruning takes data and undo data together, and only in prune mode. *)
LEMMA FlushFilesChain ==
  ASSUME SlotInv, ChainInv, Working, NEW full \in BOOLEAN, NEW P \in SUBSET Files,
         P # {} => PruneMode, FlushFiles(full, P)
  PROVE  ChainInv'
<1>0. /\ phase = "up" /\ flush = Idle
      /\ flush' = [step |-> "index", full |-> full \/ P # {}, prune |-> P, rewind |-> FALSE]
      /\ UNCHANGED <<phase, tip, dbIndex, dbCoins>>
  BY DEF FlushFiles, Working, databases
<1>1. \A b \in Blocks :
        /\ index'[b].known = index[b].known /\ index'[b].branch = index[b].branch
        /\ \/ index'[b] = index[b]
           \/ index'[b].data = NoSlot /\ index'[b].undo = NoSlot /\ P # {}
  <2>1. index \in [Blocks -> Entry]
    BY SlotTypes
  <2>2. index' = [b \in Blocks |-> IF InPruned(b, P)
                                   THEN [index[b] EXCEPT !.data = NoSlot, !.undo = NoSlot]
                                   ELSE index[b]]
    BY DEF FlushFiles
  <2>3. \A b \in Blocks : InPruned(b, P) => P # {}
    BY DEF InPruned
  <2> QED
    BY <2>1, <2>2, <2>3 DEF Entry
<1>2. \A b \in Blocks : index'[b].undo # NoSlot => Interruptible \/ index'[b].branch # 0
  BY <1>1, ChainParts
<1>3. Sound(index', tip) /\ Sound(index', dbCoins)
  BY <1>0, <1>1, ChainParts DEF Sound
<1>4. flush'.full = (full \/ P # {}) /\ flush'.rewind = FALSE /\ flush'.step = "index"
  BY <1>0
<1>5. ~flush'.full => \A c \in Chain[dbCoins] : index'[c].data = NoSlot => c \in Chain[tip]
  BY <1>0, <1>1, <1>4, ChainParts
<1> QED
  BY <1>0, <1>2, <1>3, <1>4, <1>5, ChainParts DEF ChainInv, Rewinding

(* The index database takes over what holds of the index in memory, except *)
(* at the end of a rewind.                                                 *)
LEMMA FlushIndexChain ==
  ASSUME SlotInv, ChainInv, FlushIndex
  PROVE  ChainInv'
<1>0. /\ phase # "down" /\ flush.step = "index" /\ dbIndex' = index
      /\ \/ flush.prune # {} /\ flush' = [flush EXCEPT !.step = "unlink"]
         \/ flush.full /\ flush' = [flush EXCEPT !.step = "coins"]
         \/ ~flush.full /\ flush' = Idle
      /\ UNCHANGED <<phase, index, tip, dbCoins>>
  BY FlushIndexKinds
<1>1. flush.rewind => flush.prune = {} /\ flush.full
  BY DEF SlotInv, Shared
<1>2. /\ ~flush'.rewind => ~flush.rewind
      /\ ~flush'.full => ~flush.full
      /\ flush.rewind => flush'.step = "coins" /\ flush'.rewind
  <2>1. CASE flush' = Idle /\ ~flush.full
    BY <1>1, <2>1, ChainParts
  <2>2. CASE flush.prune # {} /\ flush' = [flush EXCEPT !.step = "unlink"]
    BY <1>1, <2>2 DEF SlotInv, StoreType
  <2>3. CASE flush.full /\ flush' = [flush EXCEPT !.step = "coins"]
    BY <2>3 DEF SlotInv, StoreType
  <2> QED
    BY <1>0, <2>1, <2>2, <2>3
<1> QED
  BY <1>0, <1>2, ChainParts DEF ChainInv, Rewinding, Sound

(* Unlinking and writing the coins *)
LEMMA FlushRestChain ==
  ASSUME SlotInv, ChainInv, FlushUnlink \/ FlushCoins
  PROVE  ChainInv'
<1>1. CASE FlushUnlink
  <2>1. /\ flush.step = "unlink" /\ flush' = [flush EXCEPT !.step = "coins"]
        /\ UNCHANGED <<phase, index, tip, dbIndex, dbCoins>>
    BY <1>1 DEF FlushUnlink, memory, databases
  <2>2. flush'.rewind = flush.rewind /\ flush'.full = flush.full
    BY <2>1 DEF SlotInv, StoreType
  <2>3. ~Rewinding
    BY <2>1 DEF Rewinding
  <2> QED
    BY <2>1, <2>2, <2>3, ChainParts DEF ChainInv, Rewinding, Sound
<1>2. CASE FlushCoins
  <2>1. /\ flush.step = "coins" /\ flush' = Idle /\ dbCoins' = tip
        /\ UNCHANGED <<phase, index, tip, dbIndex>>
    BY <1>2 DEF FlushCoins, memory
  <2>2. phase # "down" /\ \A b \in Blocks : index[b] = dbIndex[b]
    BY <2>1 DEF SlotInv, Shared, Idle
  <2>3. Sound(index, tip)
    BY <2>2, ChainParts
  <2>4. Sound(dbIndex, tip)
    BY <2>2, <2>3, ChainParts DEF Sound
  <2> QED
    BY <2>1, <2>3, <2>4, ChainParts DEF ChainInv, Sound
<1> QED
  BY <1>1, <1>2

(* A crash, or a refused start, leaves a sound chain on disk. *)
LEMMA DownChain ==
  ASSUME SlotInv, ChainInv, Crash \/ RewindRefused
  PROVE  ChainInv'
<1>0. /\ phase' = "down" /\ index' = [b \in Blocks |-> Unknown] /\ flush' = Idle
      /\ UNCHANGED <<dbIndex, dbCoins>>
  BY DEF Crash, RewindRefused, databases
<1>1. Interruptible \/ ~Rewinding
  <2>1. CASE RewindRefused
    BY <2>1, ChainParts DEF RewindRefused
  <2>2. CASE Crash
    <3> SUFFICES ASSUME Rewinding PROVE Interruptible
      OBVIOUS
    <3>1. flush.step = "coins" /\ flush.rewind /\ flush.prune = {}
      BY DEF Rewinding, SlotInv, Shared
    <3>2. CrashPoint = "rewind"
      BY <3>1 DEF CrashPoint
    <3> QED
      BY <2>2, <3>2 DEF Crash, Interruptible
  <2> QED
    BY <2>1, <2>2
<1>2. \A b \in Blocks : index'[b].undo = NoSlot
  BY <1>0, NullEntries
<1> QED
  BY <1>0, <1>1, <1>2, ChainParts DEF ChainInv, Sound

(* The start takes the chain of the coin database as the active chain. *)
LEMMA StartChain ==
  ASSUME SlotInv, ChainInv, Start
  PROVE  ChainInv'
<1>0. /\ phase = "down" /\ index' = dbIndex /\ tip' = dbCoins
      /\ UNCHANGED <<flush, dbIndex, dbCoins>>
  BY DEF Start, databases
<1>1. flush = Idle
  BY <1>0 DEF SlotInv, Shared
<1>2. Sound(dbIndex, dbCoins)
  BY <1>1, ChainParts
<1> QED
  BY <1>0, <1>1, <1>2, ChainParts DEF ChainInv, Sound

(* The end of a rewind touches blocks off the active chain only, and gives *)
(* up all that it touches.                                                 *)
LEMMA RewindEndChain ==
  ASSUME SlotInv, ChainInv, RewindEnd
  PROVE  ChainInv'
<1>0. /\ phase = "rewind" /\ flush = Idle
      /\ index' = [b \in Blocks |-> IF Reset(b) THEN [Unknown EXCEPT !.known = TRUE] ELSE index[b]]
      /\ flush' = [Idle EXCEPT !.step = "index", !.full = TRUE, !.rewind = TRUE]
      /\ UNCHANGED <<tip, dbIndex, dbCoins>>
  BY DEF RewindEnd, databases
<1>1. flush'.step = "index" /\ flush'.full /\ flush'.rewind
  BY <1>0, RewindFlush
<1>2. \A b \in Blocks : /\ b \in Chain[tip] => index'[b] = index[b]
                        /\ \/ index'[b] = index[b]
                           \/ /\ index'[b].known /\ index'[b].data = NoSlot
                              /\ index'[b].undo = NoSlot /\ index'[b].branch = 0
  <2> DEFINE known == [Unknown EXCEPT !.known = TRUE]
  <2>1. known.known /\ known.undo = NoSlot /\ known.data = NoSlot /\ known.branch = 0
    BY DEF Unknown
  <2>2. index' = [b \in Blocks |-> IF Reset(b) THEN known ELSE index[b]]
    BY <1>0
  <2>3. \A b \in Blocks : b \in Chain[tip] => ~Reset(b)
    BY DEF Reset
  <2> HIDE DEF known, Reset
  <2> QED
    BY <2>1, <2>2, <2>3
<1>3. \A b \in Blocks : index'[b].undo # NoSlot => Interruptible \/ index'[b].branch # 0
  BY <1>2, ChainParts
<1>4. Sound(index', tip)
  BY <1>0, <1>2, ChainParts DEF Sound
<1>5. Interruptible => Sound(index', dbCoins)
  BY <1>0, <1>2, ChainParts DEF Sound
<1> QED
  BY <1>0, <1>1, <1>3, <1>4, <1>5, ChainParts DEF ChainInv, Rewinding, Sound

-----------------------------------------------------------------------------
(* The theorems *)

(* In the initial state nothing is stored and nothing is named. *)
LEMMA InitInv ==
  Init => IInv
<1> SUFFICES ASSUME Init PROVE IInv
  OBVIOUS
<1>0. /\ phase = "up" /\ rules = 1 /\ flush = Idle /\ lastFile = 0 /\ dbLastFile = 0
      /\ tip = Genesis /\ dbCoins = Genesis /\ dirty = {} /\ dirtyFiles = {} /\ unsynced = {}
      /\ index = [b \in Blocks |-> Unknown] /\ dbIndex = index
      /\ info = [f \in Files |-> EmptyFile] /\ dbInfo = info
      /\ blk = [s \in Slots |-> NoBlock] /\ rev = [s \in Slots |-> NoBlock]
  BY DEF Init
<1>1. \A b \in Blocks : /\ index[b].data = NoSlot /\ index[b].undo = NoSlot /\ index[b] = Unknown
                        /\ Inside(index[b], info)
  BY <1>0, NullEntries
<1>2. \A f \in Files : info[f].undo = 0 /\ info[f].size = 0
  BY <1>0 DEF EmptyFile
<1>3. /\ Idle.step = "idle" /\ ~Idle.rewind /\ Idle.prune = {} /\ ~Idle.full
      /\ Idle \in [step : {"idle", "index", "unlink", "coins"}, full : BOOLEAN,
                   prune : SUBSET Files, rewind : BOOLEAN]
  BY DEF Idle
<1>4. StoreType
  <2>1. index \in [Blocks -> Entry] /\ info \in [Files -> FileInfo]
    BY <1>0, NullEntries
  <2>2. 0 \in Files /\ Genesis \in AllBlocks
    BY BlockStoreAssumption DEF Files, AllBlocks
  <2> QED
    BY <1>0, <1>3, <2>1, <2>2 DEF StoreType
<1>5. Books
  <2>1. Within(index, info)
    BY <1>1 DEF Within
  <2>2. Room(index, info)
    <3>1. \A f \in Files : Cardinality(Awaiting(index, f)) = 0
      <4>1. \A f \in Files : Awaiting(index, f) = {}
        BY <1>1 DEF Awaiting
      <4> QED
        BY <4>1, FS_EmptySet
    <3> QED
      BY <1>2, <3>1 DEF Room
  <2> QED
    BY <1>0, <1>2, <2>1, <2>2 DEF Books, Unused
<1>6. Shared
  BY <1>0, <1>2, <1>3 DEF Shared
<1>7. Committed /\ Stored
  BY <1>0, <1>1, <1>3 DEF Committed, Stored, StoredWhereIndexed, StoredWhere
<1>8. ChainInv
  <2>1. Sound(index, Genesis)
    BY ChainFacts DEF Sound
  <2> QED
    BY <1>0, <1>1, <2>1, ChainFacts DEF ChainInv
<1>9. DpowType
  BY DEF Init, DpowType
<1> QED
  BY <1>4, <1>5, <1>6, <1>7, <1>8, <1>9 DEF IInv, SlotInv

(* The files that FindFilesToPrune marks lie before the last one. *)
LEMMA PruneKinds ==
  ASSUME SlotInv, FlushStart \/ FlushPrune
  PROVE  /\ Working
         /\ \E full \in BOOLEAN, P \in SUBSET Files :
              /\ \A f \in P : f < lastFile
              /\ P # {} => PruneMode
              /\ FlushFiles(full, P)
<1>1. CASE FlushStart
  BY <1>1 DEF FlushStart
<1>2. CASE FlushPrune
  <2>1. PICK n \in Prunable : FlushFiles(TRUE, {f \in Prunable : f =< n})
    BY <1>2 DEF FlushPrune
  <2>2. \A f \in Prunable : f \in Files /\ f < lastFile
    BY DEF Prunable
  <2> DEFINE P == {f \in Prunable : f =< n}
  <2>3. P \in SUBSET Files /\ \A f \in P : f < lastFile
    BY <2>2
  <2>4. FlushFiles(TRUE, P)
    BY <2>1
  <2> HIDE DEF P
  <2> QED
    BY <1>2, <2>3, <2>4 DEF FlushPrune
<1> QED
  BY <1>1, <1>2

(* Every step keeps the part about slots. *)
LEMMA NextSlots ==
  ASSUME SlotInv, [Next]_vars
  PROVE  SlotInv'
<1>1. ASSUME NEW b \in Blocks, AcceptBlock(b) PROVE SlotInv'
  BY <1>1, AcceptSlots
<1>2. ASSUME NEW b \in Blocks, ConnectTip(b) PROVE SlotInv'
  BY <1>2, ConnectSlots
<1>3. CASE DisconnectTip
  BY <1>3, DisconnectSlots DEF DisconnectTip, Disconnectable
<1>4. CASE FlushStart \/ FlushPrune
  BY <1>4, PruneKinds, FlushFilesSlots
<1>5. CASE FlushIndex
  BY <1>5, FlushIndexSlots
<1>6. CASE FlushUnlink
  BY <1>6, FlushUnlinkSlots
<1>7. CASE FlushCoins
  BY <1>7, FlushCoinsSlots
<1>8. CASE Crash
  BY <1>8, CrashSlots
<1>9. CASE Start
  BY <1>9, StartSlots
<1>10. CASE RewindRefused
  BY <1>10, RefusedSlots
<1>11. CASE RewindStep
  BY <1>11, RewindStepSlots
<1>12. CASE RewindEnd
  BY <1>12, RewindEndSlots
<1>13. CASE UNCHANGED vars
  <2>1. UNCHANGED <<phase, rules, index, dirty, info, dirtyFiles, lastFile, tip, flush,
                    blk, rev, unsynced, dbIndex, dbInfo, dbLastFile, dbCoins>>
    BY <1>13 DEF vars, memory, files, databases
  <2> QED
    BY <2>1 DEF SlotInv, StoreType, Books, Within, Room, Unused, Shared, Committed,
                Stored, StoredWhereIndexed, StoredWhere, Awaiting, Inside
<1> QED
  BY <1>1, <1>2, <1>3, <1>4, <1>5, <1>6, <1>7, <1>8, <1>9, <1>10, <1>11, <1>12, <1>13
     DEF Next

(* Every step keeps the part about chains. *)
LEMMA NextChain ==
  ASSUME SlotInv, ChainInv, [Next]_vars
  PROVE  ChainInv'
<1>0. ~Idle.rewind
  BY DEF Idle
<1>1. ASSUME NEW b \in Blocks, AcceptBlock(b) PROVE ChainInv'
  BY <1>1, AcceptChain
<1>2. ASSUME NEW b \in Blocks, ConnectTip(b) PROVE ChainInv'
  BY <1>2, ConnectChain
<1>3. CASE DisconnectTip
  <2>1. /\ phase = "up" /\ flush = Idle /\ Disconnectable /\ tip' = Parent[tip]
        /\ UNCHANGED <<phase, index, flush, dbIndex, dbCoins>>
    BY <1>3 DEF DisconnectTip, Working, databases
  <2> QED
    BY <1>0, <2>1, DisconnectChain
<1>4. CASE FlushStart \/ FlushPrune
  BY <1>4, PruneKinds, FlushFilesChain
<1>5. CASE FlushIndex
  BY <1>5, FlushIndexChain
<1>6. CASE FlushUnlink \/ FlushCoins
  BY <1>6, FlushRestChain
<1>7. CASE Crash \/ RewindRefused
  BY <1>7, DownChain
<1>8. CASE Start
  BY <1>8, StartChain
<1>9. CASE RewindStep
  <2>1. /\ phase = "rewind" /\ flush = Idle /\ Disconnectable /\ tip' = Parent[tip]
        /\ flush' = Idle \/ flush' = [Idle EXCEPT !.step = "index", !.full = TRUE]
        /\ UNCHANGED <<phase, index, dbIndex, dbCoins>>
    BY <1>9 DEF RewindStep, databases
  <2>2. ~flush'.rewind
    BY <1>0, <2>1, RewindFlush
  <2> QED
    BY <2>1, <2>2, DisconnectChain
<1>10. CASE RewindEnd
  BY <1>10, RewindEndChain
<1>11. CASE UNCHANGED vars
  <2>1. UNCHANGED <<phase, index, tip, flush, dbIndex, dbCoins>>
    BY <1>11 DEF vars, memory, databases
  <2> QED
    BY <2>1 DEF ChainInv, Sound, Rewinding
<1> QED
  BY <1>1, <1>2, <1>3, <1>4, <1>5, <1>6, <1>7, <1>8, <1>9, <1>10, <1>11 DEF Next

(* NOTARIZED_HASH is a block, in memory and in komodostate. *)
LEMMA NextDpow ==
  ASSUME DpowType, [Next]_vars
  PROVE  DpowType'
<1>1. ASSUME NEW b \in Blocks, ConnectTip(b) PROVE DpowType'
  <2>1. NewNotarized(b) \in {komodostate, Notarises[b]} /\ (Notarises[b] = NoBlock \/ Notarises[b] \in Blocks)
    BY BlockStoreAssumption DEF NewNotarized
  <2>2. notarized' = NewNotarized(b) /\ komodostate' = NewNotarized(b)
    BY <1>1 DEF ConnectTip
  <2> QED
    BY <2>1, <2>2 DEF DpowType
<1>2. CASE \E b \in Blocks : AcceptBlock(b)
  BY <1>2 DEF DpowType, AcceptBlock, dpow
<1>3. CASE DisconnectTip \/ RewindStep
  BY <1>3 DEF DpowType, DisconnectTip, RewindStep, KomodoDisconnect
<1>4. CASE FlushStart \/ FlushPrune
  BY <1>4 DEF DpowType, FlushStart, FlushPrune, FlushFiles, dpow
<1>5. CASE FlushIndex \/ FlushUnlink \/ FlushCoins
  BY <1>5 DEF DpowType, FlushIndex, FlushUnlink, FlushCoins, dpow
<1>6. CASE Crash \/ Start \/ RewindRefused
  BY <1>6 DEF DpowType, Crash, Start, RewindRefused
<1>7. CASE RewindEnd
  BY <1>7 DEF DpowType, RewindEnd, dpow
<1>8. CASE UNCHANGED vars
  BY <1>8 DEF DpowType, vars, dpow
<1> QED
  BY <1>1, <1>2, <1>3, <1>4, <1>5, <1>6, <1>7, <1>8 DEF Next

(* The invariant of the block store, for every crash. *)
THEOREM Invariance ==
  Spec => []IInv
<1>1. Init => IInv
  BY InitInv
<1>2. IInv /\ [Next]_vars => IInv'
  <2> SUFFICES ASSUME IInv, [Next]_vars PROVE IInv'
    OBVIOUS
  <2>1. SlotInv'
    BY NextSlots DEF IInv
  <2>2. ChainInv'
    BY NextChain DEF IInv
  <2>3. DpowType'
    BY NextDpow DEF IInv
  <2> QED
    BY <2>1, <2>2, <2>3 DEF IInv
<1> QED
  BY <1>1, <1>2, PTL DEF Spec

(* The type invariant, for every crash: in particular the rev file always  *)
(* has room for the undo data of the blocks in the blk file, although a    *)
(* crash forgets sizes and ConnectTip writes in its own order.             *)
THEOREM TypeCorrect ==
  Spec => []TypeOK
<1>1. IInv => TypeOK
  BY DEF IInv, SlotInv, StoreType, DpowType, TypeOK
<1> QED
  BY <1>1, Invariance, PTL

(* No crash makes ReadBlockFromDisk or UndoReadFromDisk find anything else *)
(* than what the index promises, as long as undo data written after its    *)
(* file was left survives ("late" is not considered).                      *)
THEOREM StoredIsIndexed ==
  "late" \notin CrashPoints => (Spec => []StoredWhereIndexed)
<1> SUFFICES ASSUME "late" \notin CrashPoints PROVE Spec => []StoredWhereIndexed
  OBVIOUS
<1>1. IInv => StoredWhereIndexed
  BY DEF IInv, SlotInv, Stored
<1> QED
  BY <1>1, Invariance, PTL

(* Whatever the order of flushes, prunings and crashes, LoadBlockIndexDB   *)
(* finds the chain of the coin database in the block index database.       *)
THEOREM CoinsAreIndexed == Spec => []CoinsReferToIndex
<1>1. IInv => CoinsReferToIndex
  <2> SUFFICES ASSUME IInv, phase = "down", NEW b \in Chain[dbCoins]
               PROVE  dbIndex[b].known /\ ("rewind" \in CrashPoints \/ dbIndex[b].branch # 0)
    BY DEF CoinsReferToIndex
  <2>1. flush = Idle /\ SlotInv /\ ChainInv
    BY DEF IInv, SlotInv, Shared
  <2>2. Sound(dbIndex, dbCoins)
    BY <2>1, ChainParts
  <2> QED
    BY <2>2 DEF Sound, Interruptible
<1> QED
  BY <1>1, Invariance, PTL

(* There is a first block to rewind, or a height after the tip: what       *)
(* FirstRewound chooses exists.                                            *)
LEMMA FirstRewoundExists ==
  ASSUME SlotInv
  PROVE  /\ Height(tip) \in Nat /\ FirstRewound \in Nat \ {0}
         /\ tip = Genesis => Height(tip) = 0
<1> DEFINE C == Chain[tip]
           S == {Height(b) : b \in {c \in C : ~Validated(c)}} \cup {Height(tip) + 1}
           P(h) == /\ \A b \in C : Height(b) < h => Validated(b)
                   /\ \A b \in C : Height(b) = h => ~Validated(b)
<1>0. tip \in AllBlocks
  BY DEF SlotInv, StoreType
<1>1. /\ Height(tip) \in Nat /\ C \subseteq Blocks
      /\ \A a \in C : Height(a) \in Nat /\ Height(a) =< Height(tip)
      /\ \A a, c \in C : Height(a) = Height(c) => a = c
  BY <1>0, ChainShape
<1>2. \A a \in C : Height(a) >= 1
  <2> SUFFICES ASSUME NEW a \in C PROVE Height(a) >= 1
    OBVIOUS
  <2>1. a \in Blocks /\ a \in AllBlocks /\ a \in Chain[a]
    BY <1>1, ChainFacts
  <2>2. Chain[a] \subseteq Blocks /\ IsFiniteSet(Blocks)
    BY <2>1, ChainShape, BlockStoreAssumption
  <2>3. IsFiniteSet(Chain[a])
    BY <2>2, FS_Subset
  <2>4. Height(a) # 0
    BY <2>1, <2>3, FS_EmptySet DEF Height
  <2> QED
    BY <1>1, <2>4
<1>3. S \in SUBSET Nat /\ S # {}
  BY <1>1
<1> HIDE DEF C
<1>4. PICK h \in S : \A m \in S : h =< m
  <2> HIDE DEF S
  <2> QED
    BY <1>3, LeastNatural
<1>5. h \in 1..Height(tip) + 1
  BY <1>1, <1>2, <1>4
<1>6. P(h)
  <2>1. \A b \in C : ~Validated(b) => Height(b) \in S
    OBVIOUS
  <2>2. \A b \in C : Height(b) < h => Validated(b)
    BY <1>1, <1>3, <1>4, <2>1
  <2>3. h = Height(tip) + 1 \/ \E c \in C : ~Validated(c) /\ h = Height(c)
    BY <1>4
  <2>4. \A b \in C : Height(b) = h => ~Validated(b)
    <3> SUFFICES ASSUME NEW b \in C, Height(b) = h PROVE ~Validated(b)
      OBVIOUS
    <3>1. Height(b) \in Nat /\ Height(b) =< Height(tip) /\ Height(tip) \in Nat
      BY <1>1
    <3>2. h # Height(tip) + 1
      BY <3>1
    <3>3. PICK c \in C : ~Validated(c) /\ h = Height(c)
      BY <2>3, <3>2
    <3>4. b = c
      BY <1>1, <3>3
    <3> QED
      BY <3>3, <3>4
  <2> QED
    BY <2>2, <2>4
<1>7. FirstRewound = CHOOSE x \in 1..Height(tip) + 1 : P(x)
  BY DEF FirstRewound, C
<1> HIDE DEF P
<1>8. FirstRewound \in 1..Height(tip) + 1
  BY <1>5, <1>6, <1>7
<1>9. tip = Genesis => Height(tip) = 0
  BY ChainFacts, FS_EmptySet DEF Height
<1> QED
  BY <1>1, <1>8, <1>9

(* RewindBlockIndex stops only before a rewind that is too long, at the    *)
(* notarised block and at a block that an interrupted rewind gave up; any  *)
(* other block that it must disconnect has its data and its undo data      *)
(* where the index says, or was pruned.  No crash is left out but the loss *)
(* of undo data written after its file was left.                           *)
THEOREM RewindCanContinue ==
  "late" \notin CrashPoints => (Spec => []RewindContinues)
<1> SUFFICES ASSUME "late" \notin CrashPoints PROVE Spec => []RewindContinues
  OBVIOUS
<1>1. IInv => RewindContinues
  <2> SUFFICES ASSUME IInv, phase = "rewind", flush = Idle, ~RewindDone, tip # notarized
               PROVE  Disconnectable \/ (tip # Genesis /\ GivenUp(tip))
    BY DEF RewindContinues
  <2>1. SlotInv /\ ChainInv /\ StoredWhereIndexed
    BY DEF IInv, SlotInv, Stored
  <2>2. Height(tip) >= FirstRewound /\ ~(PruneMode /\ index[tip].data = NoSlot)
    BY DEF RewindDone
  <2>3. tip # Genesis
    BY <2>1, <2>2, FirstRewoundExists
  <2>4. tip \in Blocks /\ tip \in Chain[tip]
    BY <2>1, <2>3, ChainParts, ChainFacts DEF AllBlocks
  <2>5. CASE index[tip].data = NoSlot
    BY <2>1, <2>2, <2>3, <2>4, <2>5, ChainParts DEF Sound, GivenUp
  <2>6. CASE index[tip].data # NoSlot
    <3>1. index[tip].undo # NoSlot
      BY <2>1, <2>4, <2>6, ChainParts DEF Sound
    <3> QED
      BY <2>1, <2>3, <2>4, <2>6, <3>1 DEF Disconnectable, StoredWhereIndexed, StoredWhere
  <2> QED
    BY <2>5, <2>6
<1> QED
  BY <1>1, Invariance, PTL

=============================================================================
