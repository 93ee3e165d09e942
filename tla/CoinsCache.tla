------------------------------ MODULE CoinsCache ------------------------------
(***************************************************************************)
(* The stack of coin views (src/coins.cpp, src/txdb.cpp): the database     *)
(* CCoinsViewDB, the write-back cache pcoinsTip over it, and the cache     *)
(* "view" that ConnectTip, DisconnectTip, TestBlockValidity and VerifyDB   *)
(* put over pcoinsTip under cs_main.  A cache entry carries DIRTY (differs *)
(* from the parent) and FRESH (the parent has no unspent output); both are *)
(* only hints, and a wrong one silently loses or revives a coin when the   *)
(* cache is flushed.  Best block and best anchors are cached as hashes that*)
(* are null until first read.                                              *)
(*                                                                         *)
(* One action is one call of the view's interface.  The module implements  *)
(* CoinsLedger, which has no caches.                                       *)
(***************************************************************************)
EXTENDS Integers

CONSTANTS
  Txids,          \* transactions whose outputs may be unspent
  Outputs,        \* output indexes of a transaction
  Nullifiers,     \* nullifiers of spent notes, of both pools
  ShieldedTypes,  \* SPROUT, SAPLING
  Roots,          \* roots of a commitment tree, numbered as the tree grows
  Blocks          \* block hashes

VARIABLES
  db,     \* CCoinsViewDB: the records in LevelDB
  tip,    \* pcoinsTip
  view,   \* the cache of the block being processed
  open    \* view is in scope

vars == <<db, tip, view, open>>

NullHash == 0     \* uint256().IsNull()
EmptyRoot == 1    \* SproutMerkleTree::empty_root(), SaplingMerkleTree::empty_root()

ASSUME CoinsAssumption ==
  /\ Roots \subseteq Nat \ {NullHash}
  /\ EmptyRoot \in Roots
  /\ Blocks \subseteq Nat \ {NullHash}

--------------------------------------------------------------------------------
(***************************************************************************)
(* Entries.  The entry of a transaction holds its unspent outputs; none    *)
(* left is CCoins::IsPruned.  "cached" says that the map has the key.      *)
(***************************************************************************)
CoinsEntry ==
  [cached : BOOLEAN, coins : SUBSET Outputs, dirty : BOOLEAN, fresh : BOOLEAN]

NoCoins == [cached |-> FALSE, coins |-> {}, dirty |-> FALSE, fresh |-> FALSE]

CoinsRead(c) ==
  [cached |-> TRUE, coins |-> c, dirty |-> FALSE, fresh |-> c = {}]

(* CNullifiersCacheEntry, CAnchorsSproutCacheEntry, CAnchorsSaplingCacheEntry *)
MarkEntry == [cached : BOOLEAN, entered : BOOLEAN, dirty : BOOLEAN]

NoMark == [cached |-> FALSE, entered |-> FALSE, dirty |-> FALSE]
MarkRead(e) == [cached |-> TRUE, entered |-> e, dirty |-> FALSE]
MarkWritten(e) == [cached |-> TRUE, entered |-> e, dirty |-> TRUE]

Database ==
  [coins : [Txids -> SUBSET Outputs],
   nullifiers : SUBSET Nullifiers,
   anchors : [ShieldedTypes -> SUBSET (Roots \ {EmptyRoot})],
   hashAnchor : [ShieldedTypes -> Roots],
   hashBlock : Blocks \cup {NullHash}]

Cache ==
  [coins : [Txids -> CoinsEntry],
   nullifiers : [Nullifiers -> MarkEntry],
   anchors : [ShieldedTypes -> [Roots -> MarkEntry]],
   hashAnchor : [ShieldedTypes -> Roots \cup {NullHash}],
   hashBlock : Blocks \cup {NullHash}]

EmptyCache ==
  [coins |-> [k \in Txids |-> NoCoins],
   nullifiers |-> [n \in Nullifiers |-> NoMark],
   anchors |-> [t \in ShieldedTypes |-> [r \in Roots |-> NoMark]],
   hashAnchor |-> [t \in ShieldedTypes |-> NullHash],
   hashBlock |-> NullHash]

Init ==
  /\ db = [coins |-> [k \in Txids |-> {}],
           nullifiers |-> {},
           anchors |-> [t \in ShieldedTypes |-> {}],
           hashAnchor |-> [t \in ShieldedTypes |-> EmptyRoot],
           hashBlock |-> NullHash]
  /\ tip = EmptyCache
  /\ view = EmptyCache
  /\ open = FALSE

--------------------------------------------------------------------------------
(***************************************************************************)
(* Reading.  A miss asks the parent and keeps the answer, so a read of the *)
(* view also fills pcoinsTip.  The database has no record of a transaction *)
(* without unspent outputs, and finds the empty root without one.          *)
(***************************************************************************)
TipCoins(k) ==
  IF tip.coins[k].cached \/ db.coins[k] = {} THEN tip.coins[k]
  ELSE CoinsRead(db.coins[k])

ViewCoins(k) ==
  IF view.coins[k].cached \/ ~TipCoins(k).cached THEN view.coins[k]
  ELSE CoinsRead(TipCoins(k).coins)

TipNullifier(n) ==
  IF tip.nullifiers[n].cached THEN tip.nullifiers[n]
  ELSE MarkRead(n \in db.nullifiers)

ViewNullifier(n) ==
  IF view.nullifiers[n].cached THEN view.nullifiers[n]
  ELSE MarkRead(TipNullifier(n).entered)

TipAnchor(t, r) ==
  IF tip.anchors[t][r].cached \/ r \notin db.anchors[t] \cup {EmptyRoot}
  THEN tip.anchors[t][r]
  ELSE MarkRead(TRUE)

ViewAnchor(t, r) ==
  IF view.anchors[t][r].cached \/ ~TipAnchor(t, r).entered THEN view.anchors[t][r]
  ELSE MarkRead(TRUE)

TipBestAnchor(t) ==
  IF tip.hashAnchor[t] = NullHash THEN db.hashAnchor[t] ELSE tip.hashAnchor[t]

ViewBestAnchor(t) ==
  IF view.hashAnchor[t] = NullHash THEN TipBestAnchor(t) ELSE view.hashAnchor[t]

TipBestBlock == IF tip.hashBlock = NullHash THEN db.hashBlock ELSE tip.hashBlock

ViewBestBlock == IF view.hashBlock = NullHash THEN TipBestBlock ELSE view.hashBlock

(* The reads, of pcoinsTip or of the view; a hit in the view has no effect. *)

(* FetchCoins, called by GetCoins, AccessCoins and HaveCoins *)
FetchCoins(k) ==
  /\ \/ UNCHANGED view
     \/ open /\ ~view.coins[k].cached
        /\ view' = [view EXCEPT !.coins[k] = ViewCoins(k)]
  /\ tip' = [tip EXCEPT !.coins[k] = TipCoins(k)]
  /\ UNCHANGED <<db, open>>

GetNullifier(n) ==
  /\ \/ UNCHANGED view
     \/ open /\ ~view.nullifiers[n].cached
        /\ view' = [view EXCEPT !.nullifiers[n] = ViewNullifier(n)]
  /\ tip' = [tip EXCEPT !.nullifiers[n] = TipNullifier(n)]
  /\ UNCHANGED <<db, open>>

(* GetSproutAnchorAt, GetSaplingAnchorAt *)
GetAnchorAt(t, r) ==
  /\ \/ UNCHANGED view
     \/ open /\ ~view.anchors[t][r].cached
        /\ view' = [view EXCEPT !.anchors[t][r] = ViewAnchor(t, r)]
  /\ tip' = [tip EXCEPT !.anchors[t][r] = TipAnchor(t, r)]
  /\ UNCHANGED <<db, open>>

GetBestAnchor(t) ==
  /\ \/ UNCHANGED view
     \/ open /\ view.hashAnchor[t] = NullHash
        /\ view' = [view EXCEPT !.hashAnchor[t] = ViewBestAnchor(t)]
  /\ tip' = [tip EXCEPT !.hashAnchor[t] = TipBestAnchor(t)]
  /\ UNCHANGED <<db, open>>

GetBestBlock ==
  /\ \/ UNCHANGED view
     \/ open /\ view.hashBlock = NullHash
        /\ view' = [view EXCEPT !.hashBlock = ViewBestBlock]
  /\ tip' = [tip EXCEPT !.hashBlock = TipBestBlock]
  /\ UNCHANGED <<db, open>>

--------------------------------------------------------------------------------
(***************************************************************************)
(* Writing.  Only the view is written to.                                  *)
(***************************************************************************)
OpenView ==
  /\ ~open
  /\ open' = TRUE
  /\ view' = EmptyCache
  /\ UNCHANGED <<db, tip>>

(* Mutant: an entry missing from the parent's cache is taken to be missing *)
(* from the database too.                                                  *)
ModifiableFreshOnMiss(k) ==
  IF view.coins[k].cached THEN view.coins[k]
  ELSE [CoinsRead(TipCoins(k).coins) EXCEPT !.fresh = ~tip.coins[k].cached]

(* What ModifyCoins inserts: a transaction the parent does not know, or    *)
(* only knows as pruned, is FRESH.                                         *)
Modifiable(k) ==
  IF view.coins[k].cached THEN view.coins[k] ELSE CoinsRead(TipCoins(k).coins)

(* ModifyCoins, the caller's change of the entry to v, ~CCoinsModifier *)
ModifyCoins(k, v) ==
  /\ open
  /\ LET e == [Modifiable(k) EXCEPT !.coins = v, !.dirty = TRUE]
     IN  view' = [view EXCEPT !.coins[k] = IF e.fresh /\ v = {} THEN NoCoins ELSE e]
  /\ tip' = IF view.coins[k].cached THEN tip
            ELSE [tip EXCEPT !.coins[k] = TipCoins(k)]
  /\ UNCHANGED <<db, open>>

SetNullifiers(n, spent) ==
  /\ open
  /\ view' = [view EXCEPT !.nullifiers[n] = MarkWritten(spent)]
  /\ UNCHANGED <<db, tip, open>>

(* AbstractPushAnchor; a block without shielded outputs pushes the root it *)
(* found, which only caches the best anchor.                               *)
PushAnchor(t, r) ==
  /\ open
  /\ r >= ViewBestAnchor(t)
  /\ tip' = IF view.hashAnchor[t] # NullHash THEN tip
            ELSE [tip EXCEPT !.hashAnchor[t] = TipBestAnchor(t)]
  /\ view' = IF r = ViewBestAnchor(t)
             THEN [view EXCEPT !.hashAnchor[t] = r]
             ELSE [view EXCEPT !.hashAnchor[t] = r,
                               !.anchors[t][r] = MarkWritten(TRUE)]
  /\ UNCHANGED <<db, open>>

(* AbstractPopAnchor with the root that was best before the block, from    *)
(* its undo data.  BringBestAnchorIntoCache reads the current one first.   *)
PopAnchor(t, old) ==
  LET current == ViewBestAnchor(t)
  IN
  /\ open
  /\ old < current
  /\ ViewAnchor(t, old).entered
  /\ \A r \in Roots : old < r /\ r < current => ~ViewAnchor(t, r).entered
  /\ tip' = [tip EXCEPT
               !.hashAnchor[t] = IF view.hashAnchor[t] # NullHash THEN @
                                 ELSE TipBestAnchor(t),
               !.anchors[t][current] = IF view.anchors[t][current].cached THEN @
                                       ELSE TipAnchor(t, current)]
  /\ view' = [view EXCEPT !.hashAnchor[t] = old,
                          !.anchors[t][current] = MarkWritten(FALSE)]
  /\ UNCHANGED <<db, open>>

SetBestBlock(b) ==
  /\ open
  /\ view' = [view EXCEPT !.hashBlock = b]
  /\ UNCHANGED <<db, tip, open>>

--------------------------------------------------------------------------------
(***************************************************************************)
(* Flushing.  Each operator is what BatchWrite makes of one key.           *)
(***************************************************************************)
MergeCoinsErasePruned(child, parent) ==   \* mutant: FRESH is not looked at
  IF ~child.dirty THEN parent
  ELSE IF child.coins = {} THEN NoCoins
  ELSE IF ~parent.cached THEN [child EXCEPT !.fresh = TRUE]
  ELSE [parent EXCEPT !.coins = child.coins, !.dirty = TRUE]

MergeCoins(child, parent) ==
  IF ~child.dirty THEN parent
  ELSE IF ~parent.cached
       THEN IF child.coins = {} THEN NoCoins
            ELSE [cached |-> TRUE, coins |-> child.coins, dirty |-> TRUE, fresh |-> TRUE]
  ELSE IF parent.fresh /\ child.coins = {} THEN NoCoins
  ELSE [parent EXCEPT !.coins = child.coins, !.dirty = TRUE]

(* BatchWriteNullifiers, BatchWriteAnchors *)
MergeMark(child, parent) ==
  IF ~child.dirty \/ (parent.cached /\ parent.entered = child.entered) THEN parent
  ELSE MarkWritten(child.entered)

Merge(child, parent) ==
  [coins |-> [k \in Txids |-> MergeCoins(child.coins[k], parent.coins[k])],
   nullifiers |-> [n \in Nullifiers |->
                     MergeMark(child.nullifiers[n], parent.nullifiers[n])],
   anchors |-> [t \in ShieldedTypes |-> [r \in Roots |->
                     MergeMark(child.anchors[t][r], parent.anchors[t][r])]],
   hashAnchor |-> child.hashAnchor,
   hashBlock |-> child.hashBlock]

FlushViewUnread ==   \* mutant: a path that never reads the best anchors
  /\ open
  /\ view.hashBlock # NullHash
  /\ tip' = Merge(view, tip)
  /\ view' = EmptyCache
  /\ open' = FALSE
  /\ UNCHANGED db

(***************************************************************************)
(* view.Flush() in ConnectTip and DisconnectTip.  ConnectBlock and         *)
(* DisconnectBlock have set the best block by then, and read every best    *)
(* anchor in PushAnchor or PopAnchor; only the genesis block skips them.   *)
(***************************************************************************)
FlushView ==
  /\ open
  /\ view.hashBlock # NullHash
  /\ \/ \A t \in ShieldedTypes : view.hashAnchor[t] # NullHash
     \/ TipBestBlock = NullHash /\ view = [EmptyCache EXCEPT !.hashBlock = view.hashBlock]
  /\ tip' = Merge(view, tip)
  /\ view' = EmptyCache
  /\ open' = FALSE
  /\ UNCHANGED db

(* The block is invalid, or was only tested: view goes out of scope. *)
DiscardView ==
  /\ open
  /\ view' = EmptyCache
  /\ open' = FALSE
  /\ UNCHANGED <<db, tip>>

Stored(marks, stored, S) ==
  {x \in S : IF marks[x].dirty THEN marks[x].entered ELSE x \in stored}

(* CCoinsViewDB::BatchWrite, one atomic LevelDB batch *)
Written(cache) ==
  [coins |-> [k \in Txids |-> IF cache.coins[k].dirty THEN cache.coins[k].coins
                              ELSE db.coins[k]],
   nullifiers |-> Stored(cache.nullifiers, db.nullifiers, Nullifiers),
   anchors |-> [t \in ShieldedTypes |->
                  Stored(cache.anchors[t], db.anchors[t], Roots \ {EmptyRoot})],
   hashAnchor |-> [t \in ShieldedTypes |->
                     IF cache.hashAnchor[t] = NullHash THEN db.hashAnchor[t]
                     ELSE cache.hashAnchor[t]],
   hashBlock |-> IF cache.hashBlock = NullHash THEN db.hashBlock ELSE cache.hashBlock]

(* CCoinsViewCache::Flush keeps the three hashes. *)
Flushed(cache) ==
  [EmptyCache EXCEPT !.hashAnchor = cache.hashAnchor, !.hashBlock = cache.hashBlock]

(* pcoinsTip->Flush() in FlushStateToDisk, never while a view is in use *)
FlushTip ==
  /\ ~open
  /\ db' = Written(tip)
  /\ tip' = Flushed(tip)
  /\ UNCHANGED <<view, open>>

Crash ==
  /\ tip' = EmptyCache
  /\ view' = EmptyCache
  /\ open' = FALSE
  /\ UNCHANGED db

Next ==
  \/ \E k \in Txids : FetchCoins(k)
  \/ \E k \in Txids, v \in SUBSET Outputs : ModifyCoins(k, v)
  \/ \E n \in Nullifiers : GetNullifier(n)
  \/ \E n \in Nullifiers, spent \in BOOLEAN : SetNullifiers(n, spent)
  \/ \E t \in ShieldedTypes : GetBestAnchor(t)
  \/ \E t \in ShieldedTypes, r \in Roots :
       GetAnchorAt(t, r) \/ PushAnchor(t, r) \/ PopAnchor(t, r)
  \/ GetBestBlock
  \/ \E b \in Blocks : SetBestBlock(b)
  \/ OpenView
  \/ FlushView
  \/ DiscardView
  \/ FlushTip
  \/ Crash

Spec == Init /\ [][Next]_vars

--------------------------------------------------------------------------------
(* The ledgers that the database, pcoinsTip and the view stand for. *)
DbLedger ==
  [coins |-> db.coins,
   nullifiers |-> db.nullifiers,
   anchors |-> [t \in ShieldedTypes |-> db.anchors[t] \cup {EmptyRoot}],
   block |-> db.hashBlock]

TipLedger ==
  [coins |-> [k \in Txids |-> TipCoins(k).coins],
   nullifiers |-> {n \in Nullifiers : TipNullifier(n).entered},
   anchors |-> [t \in ShieldedTypes |-> {r \in Roots : TipAnchor(t, r).entered}],
   block |-> TipBestBlock]

ViewLedger ==
  [coins |-> [k \in Txids |-> ViewCoins(k).coins],
   nullifiers |-> {n \in Nullifiers : ViewNullifier(n).entered},
   anchors |-> [t \in ShieldedTypes |-> {r \in Roots : ViewAnchor(t, r).entered}],
   block |-> ViewBestBlock]

Ledger == INSTANCE CoinsLedger WITH
  durable <- DbLedger, committed <- TipLedger, working <- ViewLedger

(***************************************************************************)
(* The caches cannot be observed: through any interleaving of reads,       *)
(* writes, flushes of the view and of pcoinsTip, discarded blocks and      *)
(* crashes, every level answers as the ledgers without caches would.       *)
(***************************************************************************)
ImplementsLedger == Ledger!Spec

(* The types; in particular the database never holds a null best anchor or *)
(* forgets its best block, however the caches' null hashes are flushed.    *)
TypeOK ==
  /\ db \in Database
  /\ tip \in Cache
  /\ view \in Cache
  /\ open \in BOOLEAN

(***************************************************************************)
(* What DIRTY and FRESH must mean for a flush to be allowed to use them: a *)
(* clean entry repeats its parent, and under a FRESH one the parent has    *)
(* nothing unspent, for pcoinsTip over the database and the view over      *)
(* pcoinsTip.  And the assertion in CCoinsViewCache::BatchWrite: an        *)
(* unspent entry that a view pushes into a parent without one is FRESH,    *)
(* because anything the grandparent has was pulled through the parent.     *)
(***************************************************************************)
HintsSound ==
  \A k \in Txids :
    /\ LET e == tip.coins[k]
       IN  e.cached => /\ ~e.dirty => e.coins = db.coins[k]
                       /\ e.fresh => db.coins[k] = {}
    /\ LET e == view.coins[k]
       IN  e.cached => /\ ~e.dirty => e.coins = TipCoins(k).coins
                       /\ e.fresh => TipCoins(k).coins = {}
                       /\ open /\ e.dirty /\ e.coins # {} /\ ~tip.coins[k].cached => e.fresh

(***************************************************************************)
(* The assertions of ConnectBlock, ConnectTip and DisconnectTip on         *)
(* GetSproutAnchorAt(GetBestAnchor()), and more: at every level the best   *)
(* anchor is the latest anchor that can be found there.                    *)
(***************************************************************************)
BestAnchorLatest ==
  \A t \in ShieldedTypes :
    /\ Ledger!IsLatest(DbLedger.anchors[t], db.hashAnchor[t])
    /\ Ledger!IsLatest(TipLedger.anchors[t], TipBestAnchor(t))
    /\ Ledger!IsLatest(ViewLedger.anchors[t], ViewBestAnchor(t))

================================================================================
