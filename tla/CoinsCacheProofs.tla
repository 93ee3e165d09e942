--------------------------- MODULE CoinsCacheProofs ---------------------------
(***************************************************************************)
(* The stack of coin views implements the ledgers without caches, for any  *)
(* sets of transactions, outputs, nullifiers, pools and roots.             *)
(*                                                                         *)
(* HintsSound alone is not inductive.  The invariant adds what the map     *)
(* holds for a key it does not have, that an entry of the view whose key   *)
(* pcoinsTip lacks is FRESH before it is dirty, the same facts for         *)
(* nullifiers and anchors (which have no FRESH), that a closed view is     *)
(* empty, and that pcoinsTip has nothing to write while its best block is  *)
(* null: the genesis block alone is flushed without reading the best       *)
(* anchors.                                                                *)
(***************************************************************************)
EXTENDS CoinsCache, TLAPS

(* Keys that the maps do not have; an entry the parent lacks is FRESH. *)
CoinsEntries ==
  \A k \in Txids :
    /\ ~tip.coins[k].cached => tip.coins[k] = NoCoins
    /\ ~view.coins[k].cached => view.coins[k] = NoCoins
    /\ open /\ view.coins[k].cached /\ ~tip.coins[k].cached => view.coins[k].fresh

(* A clean nullifier repeats the parent's answer. *)
NullifierEntries ==
  \A n \in Nullifiers :
    /\ ~tip.nullifiers[n].cached => tip.nullifiers[n] = NoMark
    /\ ~view.nullifiers[n].cached => view.nullifiers[n] = NoMark
    /\ tip.nullifiers[n].cached /\ ~tip.nullifiers[n].dirty
         => (tip.nullifiers[n].entered <=> n \in db.nullifiers)
    /\ view.nullifiers[n].cached /\ ~view.nullifiers[n].dirty
         => (view.nullifiers[n].entered <=> TipNullifier(n).entered)

(* A clean anchor was found in the parent; the empty root is never removed. *)
AnchorEntries ==
  \A t \in ShieldedTypes : \A r \in Roots :
    /\ ~tip.anchors[t][r].cached => tip.anchors[t][r] = NoMark
    /\ ~view.anchors[t][r].cached => view.anchors[t][r] = NoMark
    /\ tip.anchors[t][r].cached /\ ~tip.anchors[t][r].dirty
         => tip.anchors[t][r].entered /\ r \in db.anchors[t] \cup {EmptyRoot}
    /\ view.anchors[t][r].cached /\ ~view.anchors[t][r].dirty
         => view.anchors[t][r].entered /\ TipAnchor(t, r).entered
    /\ r = EmptyRoot /\ tip.anchors[t][r].cached => tip.anchors[t][r].entered
    /\ r = EmptyRoot /\ view.anchors[t][r].cached => view.anchors[t][r].entered

(* Until a block has been flushed into it, pcoinsTip repeats the database. *)
NothingToWrite ==
  tip.hashBlock = NullHash =>
    \A t \in ShieldedTypes :
      /\ tip.hashAnchor[t] \in {NullHash, db.hashAnchor[t]}
      /\ \A r \in Roots : ~tip.anchors[t][r].dirty

(* BestAnchorLatest, in terms of the entries. *)
BestAnchors ==
  \A t \in ShieldedTypes :
    /\ db.hashAnchor[t] \in db.anchors[t] \cup {EmptyRoot}
    /\ \A r \in db.anchors[t] \cup {EmptyRoot} : r =< db.hashAnchor[t]
    /\ TipAnchor(t, TipBestAnchor(t)).entered
    /\ \A r \in Roots : TipAnchor(t, r).entered => r =< TipBestAnchor(t)
    /\ ViewAnchor(t, ViewBestAnchor(t)).entered
    /\ \A r \in Roots : ViewAnchor(t, r).entered => r =< ViewBestAnchor(t)

ClosedIsEmpty == ~open => view = EmptyCache

IInv ==
  /\ TypeOK
  /\ HintsSound
  /\ CoinsEntries
  /\ NullifierEntries
  /\ AnchorEntries
  /\ NothingToWrite
  /\ BestAnchors
  /\ ClosedIsEmpty

--------------------------------------------------------------------------------
USE CoinsAssumption

CoinsPart == HintsSound /\ CoinsEntries

AnchorsPart == AnchorEntries /\ NothingToWrite /\ BestAnchors

(* What each level answers for coins, nullifiers and anchors is unchanged. *)
SameCoins ==
  /\ db'.coins = db.coins
  /\ \A k \in Txids : TipCoins(k).coins' = TipCoins(k).coins
  /\ \A k \in Txids : ViewCoins(k).coins' = ViewCoins(k).coins

SameNullifiers ==
  /\ db'.nullifiers = db.nullifiers
  /\ \A n \in Nullifiers : TipNullifier(n).entered' = TipNullifier(n).entered
  /\ \A n \in Nullifiers : ViewNullifier(n).entered' = ViewNullifier(n).entered

SameAnchors ==
  /\ db'.anchors = db.anchors
  /\ \A t \in ShieldedTypes, r \in Roots : TipAnchor(t, r).entered' = TipAnchor(t, r).entered
  /\ \A t \in ShieldedTypes, r \in Roots : ViewAnchor(t, r).entered' = ViewAnchor(t, r).entered

SameBlock ==
  /\ db'.hashBlock = db.hashBlock
  /\ TipBestBlock' = TipBestBlock
  /\ ViewBestBlock' = ViewBestBlock

(* The components of a cache. *)
LEMMA CacheParts ==
  ASSUME NEW c \in Cache
  PROVE  /\ c.coins \in [Txids -> CoinsEntry]
         /\ c.nullifiers \in [Nullifiers -> MarkEntry]
         /\ c.anchors \in [ShieldedTypes -> [Roots -> MarkEntry]]
         /\ c.hashAnchor \in [ShieldedTypes -> Roots \cup {NullHash}]
         /\ c.hashBlock \in Blocks \cup {NullHash}
BY DEF Cache

(* An empty cache is a cache. *)
LEMMA EmptyCacheType == EmptyCache \in Cache
BY DEF EmptyCache, Cache, CoinsEntry, MarkEntry, NoCoins, NoMark

(* The record a nullifier's read inserts, by cases. *)
LEMMA MarkReadCases ==
  /\ MarkRead(TRUE) \in MarkEntry /\ MarkRead(FALSE) \in MarkEntry
  /\ \A n \in Nullifiers :
       MarkRead(n \in db.nullifiers) =
         IF n \in db.nullifiers THEN MarkRead(TRUE) ELSE MarkRead(FALSE)
<1>1. MarkRead(TRUE) \in MarkEntry /\ MarkRead(FALSE) \in MarkEntry
  BY DEF MarkRead, MarkEntry
<1>2. ASSUME NEW n \in Nullifiers, n \in db.nullifiers
      PROVE  MarkRead(n \in db.nullifiers) = MarkRead(TRUE)
  <2>1. (n \in db.nullifiers) = TRUE
    BY <1>2
  <2> QED
    BY <2>1, Zenon
<1>3. ASSUME NEW n \in Nullifiers, ~(n \in db.nullifiers)
      PROVE  MarkRead(n \in db.nullifiers) = MarkRead(FALSE)
  <2>1. (n \in db.nullifiers) = FALSE
    BY <1>3
  <2> QED
    BY <2>1, Zenon
<1> QED
  BY <1>1, <1>2, <1>3, Zenon

(* What a read inserts is an entry of the right type. *)
LEMMA ReadTypes ==
  ASSUME TypeOK
  PROVE  /\ \A k \in Txids : TipCoins(k) \in CoinsEntry /\ ViewCoins(k) \in CoinsEntry
         /\ \A n \in Nullifiers : TipNullifier(n) \in MarkEntry /\ ViewNullifier(n) \in MarkEntry
         /\ \A t \in ShieldedTypes, r \in Roots :
               TipAnchor(t, r) \in MarkEntry /\ ViewAnchor(t, r) \in MarkEntry
         /\ \A t \in ShieldedTypes : TipBestAnchor(t) \in Roots /\ ViewBestAnchor(t) \in Roots
         /\ TipBestBlock \in Blocks \cup {NullHash}
         /\ ViewBestBlock \in Blocks \cup {NullHash}
<1>1. tip \in Cache /\ view \in Cache /\ db \in Database
  BY DEF TypeOK
<1>2. /\ db.coins \in [Txids -> SUBSET Outputs]
      /\ db.hashAnchor \in [ShieldedTypes -> Roots]
      /\ db.hashBlock \in Blocks \cup {NullHash}
  BY <1>1 DEF Database
<1>3. \A k \in Txids : TipCoins(k) \in CoinsEntry /\ ViewCoins(k) \in CoinsEntry
  BY <1>1, <1>2, CacheParts DEF TipCoins, ViewCoins, CoinsRead, CoinsEntry
<1>4. \A n \in Nullifiers : TipNullifier(n) \in MarkEntry /\ ViewNullifier(n) \in MarkEntry
  <2>1. ASSUME NEW n \in Nullifiers PROVE TipNullifier(n) \in MarkEntry
    <3>1. tip.nullifiers[n] \in MarkEntry
      BY <1>1, CacheParts
    <3>2. MarkRead(n \in db.nullifiers) \in MarkEntry
      BY MarkReadCases
    <3> QED
      BY <3>1, <3>2 DEF TipNullifier
  <2> QED
    BY <1>1, <2>1, CacheParts DEF ViewNullifier, MarkRead, MarkEntry
<1>5. \A t \in ShieldedTypes, r \in Roots :
        TipAnchor(t, r) \in MarkEntry /\ ViewAnchor(t, r) \in MarkEntry
  BY <1>1, CacheParts DEF TipAnchor, ViewAnchor, MarkRead, MarkEntry
<1>6. \A t \in ShieldedTypes : TipBestAnchor(t) \in Roots /\ ViewBestAnchor(t) \in Roots
  BY <1>1, <1>2, CacheParts DEF TipBestAnchor, ViewBestAnchor
<1>7. TipBestBlock \in Blocks \cup {NullHash} /\ ViewBestBlock \in Blocks \cup {NullHash}
  BY <1>1, <1>2, CacheParts DEF TipBestBlock, ViewBestBlock
<1> QED
  BY <1>3, <1>4, <1>5, <1>6, <1>7

--------------------------------------------------------------------------------
(***************************************************************************)
(* An action that leaves the maps of one kind alone keeps that part of the *)
(* invariant and the answers of every level.                               *)
(***************************************************************************)
CoinsUntouched ==
  db'.coins = db.coins /\ tip'.coins = tip.coins /\ view'.coins = view.coins /\ open' = open

NullifiersUntouched ==
  /\ db'.nullifiers = db.nullifiers
  /\ tip'.nullifiers = tip.nullifiers
  /\ view'.nullifiers = view.nullifiers

AnchorsUntouched ==
  /\ db'.anchors = db.anchors /\ db'.hashAnchor = db.hashAnchor
  /\ tip'.anchors = tip.anchors /\ tip'.hashAnchor = tip.hashAnchor
  /\ view'.anchors = view.anchors /\ view'.hashAnchor = view.hashAnchor
  /\ tip'.hashBlock = NullHash => tip.hashBlock = NullHash

BlockUntouched ==
  /\ db'.hashBlock = db.hashBlock
  /\ tip'.hashBlock = tip.hashBlock
  /\ view'.hashBlock = view.hashBlock

(* Coins untouched. *)
LEMMA CoinsFrame ==
  ASSUME CoinsPart, CoinsUntouched
  PROVE  CoinsPart' /\ SameCoins
BY DEF CoinsPart, CoinsUntouched, SameCoins, HintsSound, CoinsEntries, TipCoins, ViewCoins

(* Nullifiers untouched. *)
LEMMA NullifiersFrame ==
  ASSUME NullifierEntries, NullifiersUntouched
  PROVE  NullifierEntries' /\ SameNullifiers
<1>1. \A n \in Nullifiers : TipNullifier(n)' = TipNullifier(n)
  BY Zenon DEF NullifiersUntouched, TipNullifier
<1>2. \A n \in Nullifiers : ViewNullifier(n)' = ViewNullifier(n)
  BY <1>1, Zenon DEF NullifiersUntouched, ViewNullifier
<1> QED
  BY <1>1, <1>2 DEF NullifierEntries, SameNullifiers, NullifiersUntouched

(* Anchors untouched. *)
LEMMA AnchorsFrame ==
  ASSUME AnchorsPart, AnchorsUntouched
  PROVE  AnchorsPart' /\ SameAnchors
<1>1. \A t, r :
        TipAnchor(t, r)' = TipAnchor(t, r) /\ ViewAnchor(t, r)' = ViewAnchor(t, r)
  BY DEF AnchorsUntouched, TipAnchor, ViewAnchor
<1>2. \A t \in ShieldedTypes :
        TipBestAnchor(t)' = TipBestAnchor(t) /\ ViewBestAnchor(t)' = ViewBestAnchor(t)
  BY DEF AnchorsUntouched, TipBestAnchor, ViewBestAnchor
<1>3. AnchorEntries'
  BY <1>1 DEF AnchorEntries, AnchorsPart, AnchorsUntouched
<1>4. NothingToWrite'
  BY DEF NothingToWrite, AnchorsPart, AnchorsUntouched
<1>5. BestAnchors'
  BY <1>1, <1>2 DEF BestAnchors, AnchorsPart, AnchorsUntouched
<1> QED
  BY <1>1, <1>3, <1>4, <1>5 DEF AnchorsPart, SameAnchors, AnchorsUntouched

(* The best block untouched. *)
LEMMA BlockFrame ==
  ASSUME BlockUntouched
  PROVE  SameBlock
BY DEF BlockUntouched, SameBlock, TipBestBlock, ViewBestBlock

(* If every level answers as before, the ledgers are the same. *)
LEMMA SameLedgers ==
  ASSUME SameCoins, SameNullifiers, SameAnchors, SameBlock
  PROVE  DbLedger' = DbLedger /\ TipLedger' = TipLedger /\ ViewLedger' = ViewLedger
<1>1. DbLedger' = DbLedger
  BY DEF SameCoins, SameNullifiers, SameAnchors, SameBlock, DbLedger
<1>2. TipLedger' = TipLedger
  BY DEF SameCoins, SameNullifiers, SameAnchors, SameBlock, TipLedger
<1>3. ViewLedger' = ViewLedger
  BY DEF SameCoins, SameNullifiers, SameAnchors, SameBlock, ViewLedger
<1> QED
  BY <1>1, <1>2, <1>3

--------------------------------------------------------------------------------
(***************************************************************************)
(* Updating one component of a cache: d is c with one entry replaced.      *)
(***************************************************************************)
OnlyCoins(d, c, k, e) ==
  /\ d \in Cache
  /\ d.coins[k] = e /\ \A j \in Txids : j # k => d.coins[j] = c.coins[j]
  /\ d.nullifiers = c.nullifiers /\ d.anchors = c.anchors
  /\ d.hashAnchor = c.hashAnchor /\ d.hashBlock = c.hashBlock

OnlyNullifier(d, c, n, e) ==
  /\ d \in Cache
  /\ d.nullifiers[n] = e
  /\ \A m \in Nullifiers : m # n => d.nullifiers[m] = c.nullifiers[m]
  /\ d.coins = c.coins /\ d.anchors = c.anchors
  /\ d.hashAnchor = c.hashAnchor /\ d.hashBlock = c.hashBlock

OnlyAnchor(d, c, t, r, e) ==
  /\ d \in Cache
  /\ d.anchors[t][r] = e
  /\ \A u \in ShieldedTypes, q \in Roots : u # t \/ q # r => d.anchors[u][q] = c.anchors[u][q]
  /\ d.coins = c.coins /\ d.nullifiers = c.nullifiers
  /\ d.hashAnchor = c.hashAnchor /\ d.hashBlock = c.hashBlock

OnlyBestAnchor(d, c, t, r) ==
  /\ d \in Cache
  /\ d.hashAnchor[t] = r
  /\ \A u \in ShieldedTypes : u # t => d.hashAnchor[u] = c.hashAnchor[u]
  /\ d.coins = c.coins /\ d.nullifiers = c.nullifiers
  /\ d.anchors = c.anchors /\ d.hashBlock = c.hashBlock

OnlyBestBlock(d, c, b) ==
  /\ d \in Cache
  /\ d.hashBlock = b
  /\ d.coins = c.coins /\ d.nullifiers = c.nullifiers
  /\ d.anchors = c.anchors /\ d.hashAnchor = c.hashAnchor

(* A transaction's entry. *)
LEMMA CoinsUpdate ==
  ASSUME NEW c \in Cache, NEW k \in Txids, NEW e \in CoinsEntry
  PROVE  OnlyCoins([c EXCEPT !.coins[k] = e], c, k, e)
<1> DEFINE d == [c EXCEPT !.coins = [c.coins EXCEPT ![k] = e]]
<1>1. [c.coins EXCEPT ![k] = e] \in [Txids -> CoinsEntry]
  BY CacheParts
<1>2. d \in Cache /\ d.coins = [c.coins EXCEPT ![k] = e]
  BY <1>1 DEF Cache
<1>3. /\ d.nullifiers = c.nullifiers /\ d.anchors = c.anchors
      /\ d.hashAnchor = c.hashAnchor /\ d.hashBlock = c.hashBlock
  BY <1>1 DEF Cache
<1>4. d = [c EXCEPT !.coins[k] = e]
  OBVIOUS
<1> HIDE DEF d
<1> QED
  BY <1>2, <1>3, <1>4, CacheParts DEF OnlyCoins

(* A nullifier. *)
LEMMA NullifierUpdate ==
  ASSUME NEW c \in Cache, NEW n \in Nullifiers, NEW e \in MarkEntry
  PROVE  OnlyNullifier([c EXCEPT !.nullifiers[n] = e], c, n, e)
<1> DEFINE d == [c EXCEPT !.nullifiers = [c.nullifiers EXCEPT ![n] = e]]
<1>1. [c.nullifiers EXCEPT ![n] = e] \in [Nullifiers -> MarkEntry]
  BY CacheParts
<1>2. d \in Cache /\ d.nullifiers = [c.nullifiers EXCEPT ![n] = e]
  BY <1>1 DEF Cache
<1>3. /\ d.coins = c.coins /\ d.anchors = c.anchors
      /\ d.hashAnchor = c.hashAnchor /\ d.hashBlock = c.hashBlock
  BY <1>1 DEF Cache
<1>4. d = [c EXCEPT !.nullifiers[n] = e]
  OBVIOUS
<1> HIDE DEF d
<1> QED
  BY <1>2, <1>3, <1>4, CacheParts DEF OnlyNullifier

(* An anchor. *)
LEMMA AnchorUpdate ==
  ASSUME NEW c \in Cache, NEW t \in ShieldedTypes, NEW r \in Roots, NEW e \in MarkEntry
  PROVE  OnlyAnchor([c EXCEPT !.anchors[t][r] = e], c, t, r, e)
<1> DEFINE d == [c EXCEPT !.anchors = [c.anchors EXCEPT ![t][r] = e]]
<1>1. [c.anchors EXCEPT ![t][r] = e] \in [ShieldedTypes -> [Roots -> MarkEntry]]
  BY CacheParts
<1>2. d \in Cache /\ d.anchors = [c.anchors EXCEPT ![t][r] = e]
  BY <1>1 DEF Cache
<1>3. /\ d.coins = c.coins /\ d.nullifiers = c.nullifiers
      /\ d.hashAnchor = c.hashAnchor /\ d.hashBlock = c.hashBlock
  BY <1>1 DEF Cache
<1>4. d = [c EXCEPT !.anchors[t][r] = e]
  OBVIOUS
<1> HIDE DEF d
<1> QED
  BY <1>2, <1>3, <1>4, CacheParts DEF OnlyAnchor

(* The best anchor of a pool. *)
LEMMA BestAnchorUpdate ==
  ASSUME NEW c \in Cache, NEW t \in ShieldedTypes, NEW r \in Roots \cup {NullHash}
  PROVE  OnlyBestAnchor([c EXCEPT !.hashAnchor[t] = r], c, t, r)
<1> DEFINE d == [c EXCEPT !.hashAnchor = [c.hashAnchor EXCEPT ![t] = r]]
<1>1. [c.hashAnchor EXCEPT ![t] = r] \in [ShieldedTypes -> Roots \cup {NullHash}]
  BY CacheParts
<1>2. d \in Cache /\ d.hashAnchor = [c.hashAnchor EXCEPT ![t] = r]
  BY <1>1 DEF Cache
<1>3. /\ d.coins = c.coins /\ d.nullifiers = c.nullifiers
      /\ d.anchors = c.anchors /\ d.hashBlock = c.hashBlock
  BY <1>1 DEF Cache
<1>4. d = [c EXCEPT !.hashAnchor[t] = r]
  OBVIOUS
<1> HIDE DEF d
<1> QED
  BY <1>2, <1>3, <1>4, CacheParts DEF OnlyBestAnchor

(* The best block. *)
LEMMA BestBlockUpdate ==
  ASSUME NEW c \in Cache, NEW b \in Blocks \cup {NullHash}
  PROVE  OnlyBestBlock([c EXCEPT !.hashBlock = b], c, b)
BY DEF Cache, OnlyBestBlock

--------------------------------------------------------------------------------
(***************************************************************************)
(* Coins, one transaction at a time.                                       *)
(***************************************************************************)
CoinsAt(k) ==
  /\ ~tip.coins[k].cached => tip.coins[k] = NoCoins
  /\ ~view.coins[k].cached => view.coins[k] = NoCoins
  /\ tip.coins[k].cached =>
       /\ ~tip.coins[k].dirty => tip.coins[k].coins = db.coins[k]
       /\ tip.coins[k].fresh => db.coins[k] = {}
  /\ view.coins[k].cached =>
       /\ ~view.coins[k].dirty => view.coins[k].coins = TipCoins(k).coins
       /\ view.coins[k].fresh => TipCoins(k).coins = {}
       /\ open /\ ~tip.coins[k].cached => view.coins[k].fresh

(* The part of the invariant about coins, by transaction. *)
LEMMA CoinsByKey == CoinsPart <=> \A k \in Txids : CoinsAt(k)
BY DEF CoinsPart, CoinsAt, HintsSound, CoinsEntries

(* The same, in the next state. *)
LEMMA CoinsByKeyNext == ASSUME \A k \in Txids : CoinsAt(k)' PROVE CoinsPart'
BY DEF CoinsPart, CoinsAt, HintsSound, CoinsEntries

(* An untouched transaction. *)
LEMMA CoinsAtFrame ==
  ASSUME NEW k, CoinsAt(k), open' = open,
         db'.coins[k] = db.coins[k], tip'.coins[k] = tip.coins[k], view'.coins[k] = view.coins[k]
  PROVE  CoinsAt(k)' /\ TipCoins(k)' = TipCoins(k) /\ ViewCoins(k)' = ViewCoins(k)
BY DEF CoinsAt, TipCoins, ViewCoins

(* The fields of an entry that a read inserts. *)
LEMMA CoinsReadFields ==
  ASSUME NEW c \in SUBSET Outputs
  PROVE  /\ CoinsRead(c) \in CoinsEntry
         /\ CoinsRead(c).cached /\ ~CoinsRead(c).dirty
         /\ CoinsRead(c).coins = c
         /\ CoinsRead(c).fresh <=> c = {}
BY DEF CoinsRead, CoinsEntry

(* The fields of an entry that is not there. *)
LEMMA NoCoinsFields ==
  /\ NoCoins \in CoinsEntry
  /\ ~NoCoins.cached /\ ~NoCoins.dirty /\ ~NoCoins.fresh /\ NoCoins.coins = {}
BY DEF NoCoins, CoinsEntry

(* What a read of pcoinsTip answers has sound hints, too. *)
LEMMA TipCoinsFacts ==
  ASSUME TypeOK, NEW k \in Txids, CoinsAt(k)
  PROVE  /\ TipCoins(k) \in CoinsEntry
         /\ tip.coins[k].cached => TipCoins(k) = tip.coins[k]
         /\ ~TipCoins(k).cached => TipCoins(k) = NoCoins /\ db.coins[k] = {} /\ ~tip.coins[k].cached
         /\ TipCoins(k).cached => /\ ~TipCoins(k).dirty => TipCoins(k).coins = db.coins[k]
                                  /\ TipCoins(k).fresh => db.coins[k] = {}
<1>1. TipCoins(k) \in CoinsEntry /\ db.coins[k] \in SUBSET Outputs
  BY ReadTypes DEF TypeOK, Database
<1>2. CASE tip.coins[k].cached \/ db.coins[k] = {}
  BY <1>1, <1>2 DEF TipCoins, CoinsAt
<1>3. CASE ~(tip.coins[k].cached \/ db.coins[k] = {})
  BY <1>1, <1>3, CoinsReadFields DEF TipCoins
<1> QED
  BY <1>2, <1>3

(* FetchCoins caches what was there already. *)
LEMMA FetchCoinsStep ==
  ASSUME TypeOK, CoinsPart, NEW k \in Txids, FetchCoins(k)
  PROVE  /\ TypeOK' /\ CoinsPart' /\ SameCoins
         /\ NullifiersUntouched /\ AnchorsUntouched /\ BlockUntouched
<1>1. tip \in Cache /\ view \in Cache /\ TipCoins(k) \in CoinsEntry /\ ViewCoins(k) \in CoinsEntry
  BY ReadTypes DEF TypeOK
<1>2. tip.coins \in [Txids -> CoinsEntry] /\ view.coins \in [Txids -> CoinsEntry]
  BY <1>1, CacheParts
<1>3. /\ tip' \in Cache
      /\ tip'.coins[k] = TipCoins(k) /\ \A j \in Txids : j # k => tip'.coins[j] = tip.coins[j]
      /\ tip'.nullifiers = tip.nullifiers /\ tip'.anchors = tip.anchors
      /\ tip'.hashAnchor = tip.hashAnchor /\ tip'.hashBlock = tip.hashBlock
  <2>1. OnlyCoins(tip', tip, k, TipCoins(k))
    BY <1>1, CoinsUpdate, Zenon DEF FetchCoins
  <2> QED
    BY <1>1, <2>1 DEF OnlyCoins
<1>4. /\ view' \in Cache
      /\ \/ view'.coins[k] = view.coins[k]
         \/ open /\ ~view.coins[k].cached /\ view'.coins[k] = ViewCoins(k)
      /\ \A j \in Txids : j # k => view'.coins[j] = view.coins[j]
      /\ view'.nullifiers = view.nullifiers /\ view'.anchors = view.anchors
      /\ view'.hashAnchor = view.hashAnchor /\ view'.hashBlock = view.hashBlock
  <2>1. \/ view' = view
        \/ open /\ ~view.coins[k].cached /\ OnlyCoins(view', view, k, ViewCoins(k))
    BY <1>1, CoinsUpdate, Zenon DEF FetchCoins
  <2> QED
    BY <1>1, <2>1 DEF OnlyCoins
<1>5. db' = db /\ open' = open
  BY DEF FetchCoins
<1>6. TypeOK'
  BY <1>3, <1>4, <1>5 DEF TypeOK
<1>7. NullifiersUntouched /\ AnchorsUntouched /\ BlockUntouched
  BY <1>3, <1>4, <1>5 DEF NullifiersUntouched, AnchorsUntouched, BlockUntouched
<1>8. CoinsAt(k) /\ db.coins[k] \in SUBSET Outputs
  BY CoinsByKey DEF TypeOK, Database
<1>9. TipCoins(k)' = TipCoins(k)
  BY <1>2, <1>3, <1>5 DEF TipCoins, CoinsRead
<1>10. ViewCoins(k).coins' = ViewCoins(k).coins
  BY <1>2, <1>3, <1>4, <1>5, <1>8, <1>9 DEF ViewCoins, CoinsRead, CoinsAt, NoCoins
<1>11. CoinsAt(k)'
  <2>1. CASE view'.coins[k] = view.coins[k]
    BY <1>3, <1>5, <1>8, <1>9, <2>1, TipCoinsFacts DEF CoinsAt
  <2>2. CASE open /\ ~view.coins[k].cached /\ view'.coins[k] = ViewCoins(k)
    BY <1>3, <1>5, <1>8, <1>9, <2>2, TipCoinsFacts, CoinsReadFields DEF CoinsAt, ViewCoins, CoinsEntry
  <2> QED
    BY <1>4, <2>1, <2>2
<1>12. \A j \in Txids : j # k => CoinsAt(j)' /\ TipCoins(j)' = TipCoins(j) /\ ViewCoins(j)' = ViewCoins(j)
  BY <1>3, <1>4, <1>5, CoinsAtFrame, CoinsByKey
<1>13. CoinsPart'
  BY <1>11, <1>12, CoinsByKeyNext
<1> QED
  BY <1>5, <1>6, <1>7, <1>9, <1>10, <1>12, <1>13 DEF SameCoins

(* The entry ModifyCoins hands to the caller, and leaves behind. *)
LEMMA ModifiableFacts ==
  ASSUME TypeOK, NEW k \in Txids, CoinsAt(k)
  PROVE  /\ Modifiable(k) \in CoinsEntry
         /\ Modifiable(k).cached
         /\ Modifiable(k).fresh => TipCoins(k).coins = {}
         /\ open /\ ~TipCoins(k).cached => Modifiable(k).fresh
<1>1. TipCoins(k) \in CoinsEntry /\ view.coins[k] \in CoinsEntry
  BY ReadTypes, CacheParts DEF TypeOK
<1>2. CASE view.coins[k].cached
  BY <1>1, <1>2, TipCoinsFacts DEF Modifiable, CoinsAt
<1>3. CASE ~view.coins[k].cached
  <2>1. TipCoins(k).coins \in SUBSET Outputs /\ Modifiable(k) = CoinsRead(TipCoins(k).coins)
    BY <1>1, <1>3 DEF Modifiable, CoinsEntry
  <2> QED
    BY <1>1, <2>1, TipCoinsFacts, CoinsReadFields, NoCoinsFields
<1> QED
  BY <1>2, <1>3

(* ModifyCoins changes the answer of the view for one transaction. *)
LEMMA ModifyCoinsStep ==
  ASSUME TypeOK, CoinsPart, NEW k \in Txids, NEW v \in SUBSET Outputs, ModifyCoins(k, v)
  PROVE  /\ TypeOK' /\ CoinsPart'
         /\ open /\ open' = open /\ db' = db
         /\ \A j \in Txids : TipCoins(j).coins' = TipCoins(j).coins
         /\ \A j \in Txids : j # k => ViewCoins(j).coins' = ViewCoins(j).coins
         /\ ViewCoins(k).coins' = v
         /\ NullifiersUntouched /\ AnchorsUntouched /\ BlockUntouched
<1> DEFINE e == [Modifiable(k) EXCEPT !.coins = v, !.dirty = TRUE]
<1> DEFINE w == IF e.fresh /\ v = {} THEN NoCoins ELSE e
<1>1. tip \in Cache /\ view \in Cache /\ TipCoins(k) \in CoinsEntry
  BY ReadTypes DEF TypeOK
<1>2. CoinsAt(k) /\ db.coins[k] \in SUBSET Outputs
  BY CoinsByKey DEF TypeOK, Database
<1>3. /\ Modifiable(k).fresh => TipCoins(k).coins = {}
      /\ open /\ ~TipCoins(k).cached => Modifiable(k).fresh
      /\ e \in CoinsEntry /\ e.cached /\ e.dirty /\ e.coins = v
      /\ e.fresh <=> Modifiable(k).fresh
  <2>1. /\ Modifiable(k) \in CoinsEntry /\ Modifiable(k).cached
        /\ Modifiable(k).fresh => TipCoins(k).coins = {}
        /\ open /\ ~TipCoins(k).cached => Modifiable(k).fresh
    BY <1>2, ModifiableFacts
  <2>2. e \in CoinsEntry /\ e.cached /\ e.dirty /\ e.coins = v /\ (e.fresh <=> Modifiable(k).fresh)
    BY <2>1 DEF CoinsEntry
  <2> QED
    BY <2>1, <2>2
<1>4. open /\ open' = open /\ db' = db
  BY DEF ModifyCoins
<1>5. view' = [view EXCEPT !.coins[k] = w]
  BY Zenon DEF ModifyCoins
<1>6. IF view.coins[k].cached THEN tip' = tip ELSE OnlyCoins(tip', tip, k, TipCoins(k))
  BY <1>1, CoinsUpdate, Zenon DEF ModifyCoins
<1> HIDE DEF e
<1>7. w \in CoinsEntry /\ ((w = NoCoins /\ v = {} /\ e.fresh) \/ (w = e /\ ~(e.fresh /\ v = {})))
  BY <1>3, NoCoinsFields
<1> HIDE DEF w
<1>8. /\ view' \in Cache
      /\ view'.coins[k] = w /\ \A j \in Txids : j # k => view'.coins[j] = view.coins[j]
      /\ view'.nullifiers = view.nullifiers /\ view'.anchors = view.anchors
      /\ view'.hashAnchor = view.hashAnchor /\ view'.hashBlock = view.hashBlock
  <2>1. OnlyCoins(view', view, k, w)
    BY <1>1, <1>5, <1>7, CoinsUpdate, Zenon
  <2> QED
    BY <2>1 DEF OnlyCoins
<1>9. /\ tip' \in Cache
      /\ tip'.coins[k] = IF view.coins[k].cached THEN tip.coins[k] ELSE TipCoins(k)
      /\ \A j \in Txids : j # k => tip'.coins[j] = tip.coins[j]
      /\ tip'.nullifiers = tip.nullifiers /\ tip'.anchors = tip.anchors
      /\ tip'.hashAnchor = tip.hashAnchor /\ tip'.hashBlock = tip.hashBlock
  BY <1>1, <1>6 DEF OnlyCoins
<1>10. TypeOK'
  BY <1>4, <1>8, <1>9 DEF TypeOK
<1>11. NullifiersUntouched /\ AnchorsUntouched /\ BlockUntouched
  BY <1>4, <1>8, <1>9 DEF NullifiersUntouched, AnchorsUntouched, BlockUntouched
<1>12. TipCoins(k)' = TipCoins(k)
  BY <1>2, <1>4, <1>9, TipCoinsFacts DEF TipCoins
<1>13. ViewCoins(k).coins' = v
  <2>1. ViewCoins(k)' = IF w.cached \/ ~TipCoins(k).cached THEN w ELSE CoinsRead(TipCoins(k).coins)
    BY <1>8, <1>12 DEF ViewCoins
  <2>2. TipCoins(k).coins \in SUBSET Outputs
    BY <1>1 DEF CoinsEntry
  <2> QED
    BY <1>3, <1>7, <2>1, <2>2, NoCoinsFields, CoinsReadFields
<1>14. CoinsAt(k)'
  <2>1. ~tip'.coins[k].cached => tip'.coins[k] = NoCoins
    BY <1>2, <1>9, TipCoinsFacts DEF CoinsAt
  <2>2. tip'.coins[k].cached => /\ ~tip'.coins[k].dirty => tip'.coins[k].coins = db'.coins[k]
                                /\ tip'.coins[k].fresh => db'.coins[k] = {}
    BY <1>2, <1>4, <1>9, TipCoinsFacts DEF CoinsAt
  <2>3. ~view'.coins[k].cached => view'.coins[k] = NoCoins
    BY <1>3, <1>7, <1>8
  <2>4. view'.coins[k].cached => /\ view'.coins[k].dirty
                                 /\ view'.coins[k].fresh => TipCoins(k).coins = {}
    BY <1>3, <1>7, <1>8, NoCoinsFields
  <2>5. view'.coins[k].cached /\ ~tip'.coins[k].cached => view'.coins[k].fresh
    <3>1. CASE view.coins[k].cached
      BY <1>2, <1>3, <1>4, <1>7, <1>8, <1>9, <3>1, NoCoinsFields DEF CoinsAt, Modifiable
    <3>2. CASE ~view.coins[k].cached
      BY <1>3, <1>4, <1>7, <1>8, <1>9, <3>2, NoCoinsFields
    <3> QED
      BY <3>1, <3>2
  <2> QED
    BY <1>12, <2>1, <2>2, <2>3, <2>4, <2>5 DEF CoinsAt
<1>15. \A j \in Txids : j # k => CoinsAt(j)' /\ TipCoins(j)' = TipCoins(j) /\ ViewCoins(j)' = ViewCoins(j)
  BY <1>4, <1>8, <1>9, CoinsAtFrame, CoinsByKey
<1>16. CoinsPart'
  BY <1>14, <1>15, CoinsByKeyNext
<1> QED
  BY <1>4, <1>10, <1>11, <1>12, <1>13, <1>15, <1>16

--------------------------------------------------------------------------------
(***************************************************************************)
(* Nullifiers, one at a time.                                              *)
(***************************************************************************)
NullifierAt(n) ==
  /\ ~tip.nullifiers[n].cached => tip.nullifiers[n] = NoMark
  /\ ~view.nullifiers[n].cached => view.nullifiers[n] = NoMark
  /\ tip.nullifiers[n].cached /\ ~tip.nullifiers[n].dirty
       => (tip.nullifiers[n].entered <=> n \in db.nullifiers)
  /\ view.nullifiers[n].cached /\ ~view.nullifiers[n].dirty
       => (view.nullifiers[n].entered <=> TipNullifier(n).entered)

(* The fields of a mark that a read or a write inserts. *)
LEMMA MarkFields ==
  /\ MarkRead(TRUE) \in MarkEntry /\ MarkRead(FALSE) \in MarkEntry
  /\ MarkRead(TRUE).cached /\ MarkRead(TRUE).entered /\ ~MarkRead(TRUE).dirty
  /\ MarkRead(FALSE).cached /\ ~MarkRead(FALSE).entered /\ ~MarkRead(FALSE).dirty
  /\ MarkWritten(TRUE) \in MarkEntry /\ MarkWritten(FALSE) \in MarkEntry
  /\ MarkWritten(TRUE).cached /\ MarkWritten(TRUE).entered /\ MarkWritten(TRUE).dirty
  /\ MarkWritten(FALSE).cached /\ ~MarkWritten(FALSE).entered /\ MarkWritten(FALSE).dirty
  /\ NoMark \in MarkEntry /\ ~NoMark.cached /\ ~NoMark.entered /\ ~NoMark.dirty
BY DEF MarkRead, MarkWritten, NoMark, MarkEntry

(* The mark of a Boolean, by cases. *)
LEMMA MarkCases ==
  ASSUME NEW b \in BOOLEAN
  PROVE  /\ MarkRead(b) = IF b THEN MarkRead(TRUE) ELSE MarkRead(FALSE)
         /\ MarkWritten(b) = IF b THEN MarkWritten(TRUE) ELSE MarkWritten(FALSE)
<1>1. CASE b = TRUE
  BY <1>1, Zenon
<1>2. CASE b = FALSE
  BY <1>2, Zenon
<1> QED
  BY <1>1, <1>2, Zenon

(* What the reads of a nullifier answer. *)
LEMMA NullifierReads ==
  ASSUME TypeOK, NEW n \in Nullifiers, NullifierAt(n)
  PROVE  /\ TipNullifier(n) \in MarkEntry /\ TipNullifier(n).cached
         /\ tip.nullifiers[n].cached => TipNullifier(n) = tip.nullifiers[n]
         /\ ~TipNullifier(n).dirty => (TipNullifier(n).entered <=> n \in db.nullifiers)
         /\ ViewNullifier(n) \in MarkEntry /\ ViewNullifier(n).cached
         /\ view.nullifiers[n].cached => ViewNullifier(n) = view.nullifiers[n]
         /\ ~ViewNullifier(n).dirty => (ViewNullifier(n).entered <=> TipNullifier(n).entered)
<1>1. TipNullifier(n) \in MarkEntry /\ ViewNullifier(n) \in MarkEntry
  BY ReadTypes
<1>2. /\ TipNullifier(n).cached
      /\ tip.nullifiers[n].cached => TipNullifier(n) = tip.nullifiers[n]
      /\ ~TipNullifier(n).dirty => (TipNullifier(n).entered <=> n \in db.nullifiers)
  <2>1. CASE tip.nullifiers[n].cached
    BY <2>1 DEF TipNullifier, NullifierAt
  <2>2. CASE ~tip.nullifiers[n].cached
    <3>1. TipNullifier(n) = IF n \in db.nullifiers THEN MarkRead(TRUE) ELSE MarkRead(FALSE)
      BY <2>2, MarkReadCases DEF TipNullifier
    <3> QED
      BY <2>2, <3>1, MarkFields
  <2> QED
    BY <2>1, <2>2
<1>3. /\ ViewNullifier(n).cached
      /\ view.nullifiers[n].cached => ViewNullifier(n) = view.nullifiers[n]
      /\ ~ViewNullifier(n).dirty => (ViewNullifier(n).entered <=> TipNullifier(n).entered)
  <2>1. CASE view.nullifiers[n].cached
    BY <2>1 DEF ViewNullifier, NullifierAt
  <2>2. CASE ~view.nullifiers[n].cached
    <3>1. TipNullifier(n).entered \in BOOLEAN
      BY <1>1 DEF MarkEntry
    <3>2. ViewNullifier(n) = IF TipNullifier(n).entered THEN MarkRead(TRUE) ELSE MarkRead(FALSE)
      BY <2>2, <3>1, MarkCases, Zenon DEF ViewNullifier
    <3> QED
      BY <2>2, <3>2, MarkFields
  <2> QED
    BY <2>1, <2>2
<1> QED
  BY <1>1, <1>2, <1>3

(* An untouched nullifier. *)
LEMMA NullifierAtFrame ==
  ASSUME NEW n, NullifierAt(n), db' = db,
         tip'.nullifiers[n] = tip.nullifiers[n], view'.nullifiers[n] = view.nullifiers[n]
  PROVE  NullifierAt(n)' /\ TipNullifier(n)' = TipNullifier(n) /\ ViewNullifier(n)' = ViewNullifier(n)
<1>1. TipNullifier(n)' = TipNullifier(n)
  BY Zenon DEF TipNullifier
<1>2. ViewNullifier(n)' = ViewNullifier(n)
  BY <1>1, Zenon DEF ViewNullifier
<1> QED
  BY <1>1, <1>2 DEF NullifierAt

(* Reading a nullifier caches what was there already. *)
LEMMA GetNullifierStep ==
  ASSUME TypeOK, NullifierEntries, NEW n \in Nullifiers, GetNullifier(n)
  PROVE  /\ TypeOK' /\ NullifierEntries' /\ SameNullifiers
         /\ CoinsUntouched /\ AnchorsUntouched /\ BlockUntouched
<1>1. tip \in Cache /\ view \in Cache /\ TipNullifier(n) \in MarkEntry /\ ViewNullifier(n) \in MarkEntry
  BY ReadTypes DEF TypeOK
<1>2. \A m \in Nullifiers : NullifierAt(m)
  BY DEF NullifierEntries, NullifierAt
<1>3. /\ tip' \in Cache
      /\ tip'.nullifiers[n] = TipNullifier(n)
      /\ \A m \in Nullifiers : m # n => tip'.nullifiers[m] = tip.nullifiers[m]
      /\ tip'.coins = tip.coins /\ tip'.anchors = tip.anchors
      /\ tip'.hashAnchor = tip.hashAnchor /\ tip'.hashBlock = tip.hashBlock
  <2>1. OnlyNullifier(tip', tip, n, TipNullifier(n))
    BY <1>1, NullifierUpdate, Zenon DEF GetNullifier
  <2> QED
    BY <1>1, <2>1 DEF OnlyNullifier
<1>4. /\ view' \in Cache
      /\ view'.nullifiers[n] \in {view.nullifiers[n], ViewNullifier(n)}
      /\ \A m \in Nullifiers : m # n => view'.nullifiers[m] = view.nullifiers[m]
      /\ view'.coins = view.coins /\ view'.anchors = view.anchors
      /\ view'.hashAnchor = view.hashAnchor /\ view'.hashBlock = view.hashBlock
  <2>1. view' = view \/ OnlyNullifier(view', view, n, ViewNullifier(n))
    BY <1>1, NullifierUpdate, Zenon DEF GetNullifier
  <2> QED
    BY <1>1, <2>1 DEF OnlyNullifier
<1>5. db' = db /\ open' = open
  BY DEF GetNullifier
<1>6. TypeOK'
  BY <1>3, <1>4, <1>5 DEF TypeOK
<1>7. CoinsUntouched /\ AnchorsUntouched /\ BlockUntouched
  BY <1>3, <1>4, <1>5 DEF CoinsUntouched, AnchorsUntouched, BlockUntouched
<1>8. TipNullifier(n)' = TipNullifier(n)
  <2>1. TipNullifier(n).cached
    BY <1>2, NullifierReads
  <2> QED
    BY <1>3, <1>5, <2>1 DEF TipNullifier
<1>9. ViewNullifier(n)' = ViewNullifier(n)
  <2>1. ViewNullifier(n).cached
    BY <1>2, NullifierReads
  <2>2. CASE view'.nullifiers[n] = view.nullifiers[n]
    BY <1>8, <2>2, Zenon DEF ViewNullifier
  <2>3. CASE view'.nullifiers[n] = ViewNullifier(n)
    BY <2>1, <2>3 DEF ViewNullifier
  <2> QED
    BY <1>4, <2>2, <2>3
<1>10. NullifierAt(n)'
  BY <1>2, <1>3, <1>4, <1>5, <1>8, NullifierReads DEF NullifierAt
<1>11. \A m \in Nullifiers : m # n =>
         NullifierAt(m)' /\ TipNullifier(m)' = TipNullifier(m) /\ ViewNullifier(m)' = ViewNullifier(m)
  BY <1>2, <1>3, <1>4, <1>5, NullifierAtFrame
<1>12. NullifierEntries'
  BY <1>10, <1>11 DEF NullifierEntries, NullifierAt
<1> QED
  BY <1>5, <1>6, <1>7, <1>8, <1>9, <1>11, <1>12 DEF SameNullifiers

(* SetNullifiers changes the answer of the view for one nullifier. *)
LEMMA SetNullifiersStep ==
  ASSUME TypeOK, NullifierEntries, NEW n \in Nullifiers, NEW spent \in BOOLEAN,
         SetNullifiers(n, spent)
  PROVE  /\ TypeOK' /\ NullifierEntries'
         /\ open /\ open' = open /\ db' = db
         /\ \A m \in Nullifiers : TipNullifier(m).entered' = TipNullifier(m).entered
         /\ \A m \in Nullifiers : m # n => ViewNullifier(m).entered' = ViewNullifier(m).entered
         /\ ViewNullifier(n).entered' <=> spent
         /\ CoinsUntouched /\ AnchorsUntouched /\ BlockUntouched
<1>1. tip' = tip /\ db' = db /\ open /\ open' = open
  BY DEF SetNullifiers
<1>2. \A m \in Nullifiers : NullifierAt(m)
  BY DEF NullifierEntries, NullifierAt
<1>3. MarkWritten(spent) = IF spent THEN MarkWritten(TRUE) ELSE MarkWritten(FALSE)
  BY MarkCases, Zenon
<1>4. /\ view' \in Cache
      /\ view'.nullifiers[n] = MarkWritten(spent)
      /\ \A m \in Nullifiers : m # n => view'.nullifiers[m] = view.nullifiers[m]
      /\ view'.coins = view.coins /\ view'.anchors = view.anchors
      /\ view'.hashAnchor = view.hashAnchor /\ view'.hashBlock = view.hashBlock
  <2>1. MarkWritten(spent) \in MarkEntry /\ view \in Cache
    BY <1>3, MarkFields DEF TypeOK
  <2>2. OnlyNullifier(view', view, n, MarkWritten(spent))
    BY <2>1, NullifierUpdate, Zenon DEF SetNullifiers
  <2> QED
    BY <2>2 DEF OnlyNullifier
<1>5. TypeOK'
  BY <1>1, <1>4 DEF TypeOK
<1>6. CoinsUntouched /\ AnchorsUntouched /\ BlockUntouched
  BY <1>1, <1>4 DEF CoinsUntouched, AnchorsUntouched, BlockUntouched
<1>7. \A m \in Nullifiers : TipNullifier(m)' = TipNullifier(m)
  BY <1>1, Zenon DEF TipNullifier
<1>8. view'.nullifiers[n].cached /\ view'.nullifiers[n].dirty /\ (view'.nullifiers[n].entered <=> spent)
  BY <1>3, <1>4, MarkFields
<1>9. ViewNullifier(n).entered' <=> spent
  BY <1>8 DEF ViewNullifier
<1>10. NullifierAt(n)'
  BY <1>1, <1>2, <1>8 DEF NullifierAt
<1>11. \A m \in Nullifiers : m # n =>
         NullifierAt(m)' /\ TipNullifier(m)' = TipNullifier(m) /\ ViewNullifier(m)' = ViewNullifier(m)
  BY <1>1, <1>2, <1>4, NullifierAtFrame
<1>12. NullifierEntries'
  BY <1>10, <1>11 DEF NullifierEntries, NullifierAt
<1> QED
  BY <1>1, <1>5, <1>6, <1>7, <1>9, <1>11, <1>12

--------------------------------------------------------------------------------
(***************************************************************************)
(* Anchors, one root at a time.                                            *)
(***************************************************************************)
AnchorAt(t, r) ==
  /\ ~tip.anchors[t][r].cached => tip.anchors[t][r] = NoMark
  /\ ~view.anchors[t][r].cached => view.anchors[t][r] = NoMark
  /\ tip.anchors[t][r].cached /\ ~tip.anchors[t][r].dirty
       => tip.anchors[t][r].entered /\ r \in db.anchors[t] \cup {EmptyRoot}
  /\ view.anchors[t][r].cached /\ ~view.anchors[t][r].dirty
       => view.anchors[t][r].entered /\ TipAnchor(t, r).entered
  /\ r = EmptyRoot /\ tip.anchors[t][r].cached => tip.anchors[t][r].entered
  /\ r = EmptyRoot /\ view.anchors[t][r].cached => view.anchors[t][r].entered

(* What the reads of an anchor answer. *)
LEMMA AnchorReads ==
  ASSUME TypeOK, NEW t \in ShieldedTypes, NEW r \in Roots, AnchorAt(t, r)
  PROVE  /\ TipAnchor(t, r) \in MarkEntry
         /\ tip.anchors[t][r].cached => TipAnchor(t, r) = tip.anchors[t][r]
         /\ ~TipAnchor(t, r).cached => /\ TipAnchor(t, r) = NoMark
                                       /\ TipAnchor(t, r) = tip.anchors[t][r]
         /\ TipAnchor(t, r).dirty => tip.anchors[t][r].dirty
         /\ TipAnchor(t, r).cached /\ ~TipAnchor(t, r).dirty
              => TipAnchor(t, r).entered /\ r \in db.anchors[t] \cup {EmptyRoot}
         /\ r = EmptyRoot => TipAnchor(t, r).entered
         /\ ViewAnchor(t, r) \in MarkEntry
         /\ view.anchors[t][r].cached => ViewAnchor(t, r) = view.anchors[t][r]
         /\ ~ViewAnchor(t, r).cached => /\ ViewAnchor(t, r) = NoMark
                                        /\ ViewAnchor(t, r) = view.anchors[t][r]
         /\ ViewAnchor(t, r).cached /\ ~ViewAnchor(t, r).dirty
              => ViewAnchor(t, r).entered /\ TipAnchor(t, r).entered
         /\ r = EmptyRoot => ViewAnchor(t, r).entered
<1>1. TipAnchor(t, r) \in MarkEntry /\ ViewAnchor(t, r) \in MarkEntry
  BY ReadTypes
<1>2. /\ tip.anchors[t][r].cached => TipAnchor(t, r) = tip.anchors[t][r]
      /\ ~TipAnchor(t, r).cached => /\ TipAnchor(t, r) = NoMark
                                    /\ TipAnchor(t, r) = tip.anchors[t][r]
      /\ TipAnchor(t, r).dirty => tip.anchors[t][r].dirty
      /\ TipAnchor(t, r).cached /\ ~TipAnchor(t, r).dirty
           => TipAnchor(t, r).entered /\ r \in db.anchors[t] \cup {EmptyRoot}
      /\ r = EmptyRoot => TipAnchor(t, r).entered
  BY MarkFields DEF TipAnchor, AnchorAt
<1>3. /\ view.anchors[t][r].cached => ViewAnchor(t, r) = view.anchors[t][r]
      /\ ~ViewAnchor(t, r).cached => /\ ViewAnchor(t, r) = NoMark
                                     /\ ViewAnchor(t, r) = view.anchors[t][r]
      /\ ViewAnchor(t, r).cached /\ ~ViewAnchor(t, r).dirty
           => ViewAnchor(t, r).entered /\ TipAnchor(t, r).entered
      /\ r = EmptyRoot => ViewAnchor(t, r).entered
  BY <1>2, MarkFields DEF ViewAnchor, AnchorAt
<1> QED
  BY <1>1, <1>2, <1>3

(* An untouched anchor. *)
LEMMA AnchorAtFrame ==
  ASSUME NEW t, NEW r, AnchorAt(t, r), db' = db,
         tip'.anchors[t][r] = tip.anchors[t][r], view'.anchors[t][r] = view.anchors[t][r]
  PROVE  AnchorAt(t, r)' /\ TipAnchor(t, r)' = TipAnchor(t, r) /\ ViewAnchor(t, r)' = ViewAnchor(t, r)
<1>1. TipAnchor(t, r)' = TipAnchor(t, r) /\ ViewAnchor(t, r)' = ViewAnchor(t, r)
  BY DEF TipAnchor, ViewAnchor
<1> QED
  BY <1>1 DEF AnchorAt

(* A root that pcoinsTip may have read meanwhile. *)
LEMMA AnchorAtTipRead ==
  ASSUME TypeOK, NEW t \in ShieldedTypes, NEW r \in Roots, AnchorAt(t, r), db' = db,
         tip'.anchors[t][r] \in {tip.anchors[t][r], TipAnchor(t, r)}
  PROVE  /\ TipAnchor(t, r)' = TipAnchor(t, r)
         /\ tip'.anchors[t][r].dirty => tip.anchors[t][r].dirty
         /\ view'.anchors[t][r] \in {view.anchors[t][r], ViewAnchor(t, r)}
              => AnchorAt(t, r)' /\ ViewAnchor(t, r)' = ViewAnchor(t, r)
<1>1. TipAnchor(t, r)' = TipAnchor(t, r)
  BY AnchorReads, MarkFields DEF TipAnchor
<1>2. tip'.anchors[t][r].dirty => tip.anchors[t][r].dirty
  BY AnchorReads
<1>3. ASSUME view'.anchors[t][r] \in {view.anchors[t][r], ViewAnchor(t, r)}
      PROVE  ViewAnchor(t, r)' = ViewAnchor(t, r)
  <2>1. CASE view'.anchors[t][r] = view.anchors[t][r]
    BY <1>1, <2>1 DEF ViewAnchor
  <2>2. CASE view'.anchors[t][r] = ViewAnchor(t, r) /\ ViewAnchor(t, r).cached
    BY <2>2 DEF ViewAnchor
  <2> QED
    BY <1>3, <2>1, <2>2, AnchorReads
<1>4. ASSUME view'.anchors[t][r] \in {view.anchors[t][r], ViewAnchor(t, r)}
      PROVE  AnchorAt(t, r)'
  BY <1>1, <1>4, AnchorReads DEF AnchorAt
<1> QED
  BY <1>1, <1>2, <1>3, <1>4

(* The best anchors remain the latest if every level answers as before. *)
LEMMA BestAnchorsFrame ==
  ASSUME BestAnchors, SameAnchors, db' = db, TypeOK,
         \A t \in ShieldedTypes :
           TipBestAnchor(t)' = TipBestAnchor(t) /\ ViewBestAnchor(t)' = ViewBestAnchor(t)
  PROVE  BestAnchors'
<1>1. \A t \in ShieldedTypes : TipBestAnchor(t) \in Roots /\ ViewBestAnchor(t) \in Roots
  BY ReadTypes
<1>2. \A t \in ShieldedTypes, r \in Roots :
        /\ TipAnchor(t, r).entered' = TipAnchor(t, r).entered
        /\ ViewAnchor(t, r).entered' = ViewAnchor(t, r).entered
  BY DEF SameAnchors
<1>3. ASSUME NEW t \in ShieldedTypes
      PROVE  /\ TipAnchor(t, TipBestAnchor(t)).entered'
             /\ ViewAnchor(t, ViewBestAnchor(t)).entered'
  BY <1>1, <1>2, <1>3 DEF BestAnchors
<1> QED
  BY <1>1, <1>2, <1>3 DEF BestAnchors

(* Reading an anchor caches what was there already. *)
LEMMA GetAnchorAtStep ==
  ASSUME TypeOK, AnchorsPart, NEW t \in ShieldedTypes, NEW r \in Roots, GetAnchorAt(t, r)
  PROVE  /\ TypeOK' /\ AnchorsPart' /\ SameAnchors
         /\ CoinsUntouched /\ NullifiersUntouched /\ BlockUntouched
<1>1. tip \in Cache /\ view \in Cache /\ TipAnchor(t, r) \in MarkEntry /\ ViewAnchor(t, r) \in MarkEntry
  BY ReadTypes DEF TypeOK
<1>2. \A u \in ShieldedTypes, q \in Roots : AnchorAt(u, q)
  BY DEF AnchorsPart, AnchorEntries, AnchorAt
<1>3. /\ tip' \in Cache
      /\ tip'.anchors[t][r] = TipAnchor(t, r)
      /\ \A u \in ShieldedTypes, q \in Roots :
           u # t \/ q # r => tip'.anchors[u][q] = tip.anchors[u][q]
      /\ tip'.coins = tip.coins /\ tip'.nullifiers = tip.nullifiers
      /\ tip'.hashAnchor = tip.hashAnchor /\ tip'.hashBlock = tip.hashBlock
  <2>1. OnlyAnchor(tip', tip, t, r, TipAnchor(t, r))
    BY <1>1, AnchorUpdate, Zenon DEF GetAnchorAt
  <2> QED
    BY <1>1, <2>1 DEF OnlyAnchor
<1>4. /\ view' \in Cache
      /\ view'.anchors[t][r] \in {view.anchors[t][r], ViewAnchor(t, r)}
      /\ \A u \in ShieldedTypes, q \in Roots :
           u # t \/ q # r => view'.anchors[u][q] = view.anchors[u][q]
      /\ view'.coins = view.coins /\ view'.nullifiers = view.nullifiers
      /\ view'.hashAnchor = view.hashAnchor /\ view'.hashBlock = view.hashBlock
  <2>1. view' = view \/ OnlyAnchor(view', view, t, r, ViewAnchor(t, r))
    <3>1. view' = view \/ view' = [view EXCEPT !.anchors[t][r] = ViewAnchor(t, r)]
      BY Zenon DEF GetAnchorAt
    <3>2. OnlyAnchor([view EXCEPT !.anchors[t][r] = ViewAnchor(t, r)], view, t, r, ViewAnchor(t, r))
      BY <1>1, AnchorUpdate, Zenon
    <3> QED
      BY <3>1, <3>2, Zenon
  <2>2. CASE view' = view
    BY <1>1, <2>2
  <2>3. CASE OnlyAnchor(view', view, t, r, ViewAnchor(t, r))
    BY <2>3 DEF OnlyAnchor
  <2> QED
    BY <2>1, <2>2, <2>3
<1>5. db' = db /\ open' = open
  BY DEF GetAnchorAt
<1>6. TypeOK'
  BY <1>3, <1>4, <1>5 DEF TypeOK
<1>7. CoinsUntouched /\ NullifiersUntouched /\ BlockUntouched
  BY <1>3, <1>4, <1>5 DEF CoinsUntouched, NullifiersUntouched, BlockUntouched
<1>8. \A u \in ShieldedTypes, q \in Roots :
        /\ AnchorAt(u, q)' /\ TipAnchor(u, q)' = TipAnchor(u, q) /\ ViewAnchor(u, q)' = ViewAnchor(u, q)
        /\ tip'.anchors[u][q].dirty => tip.anchors[u][q].dirty
  BY <1>2, <1>3, <1>4, <1>5, AnchorAtTipRead
<1>9. SameAnchors
  BY <1>5, <1>8 DEF SameAnchors
<1>10. \A u \in ShieldedTypes :
         TipBestAnchor(u)' = TipBestAnchor(u) /\ ViewBestAnchor(u)' = ViewBestAnchor(u)
  BY <1>3, <1>4, <1>5 DEF TipBestAnchor, ViewBestAnchor
<1>11. BestAnchors'
  BY <1>5, <1>9, <1>10, BestAnchorsFrame DEF AnchorsPart
<1>12. AnchorEntries'
  BY <1>8 DEF AnchorEntries, AnchorAt
<1>13. NothingToWrite'
  BY <1>3, <1>5, <1>8 DEF NothingToWrite, AnchorsPart
<1> QED
  BY <1>6, <1>7, <1>9, <1>11, <1>12, <1>13 DEF AnchorsPart

(* Reading a best anchor caches what was there already. *)
LEMMA GetBestAnchorStep ==
  ASSUME TypeOK, AnchorsPart, NEW t \in ShieldedTypes, GetBestAnchor(t)
  PROVE  /\ TypeOK' /\ AnchorsPart' /\ SameAnchors
         /\ CoinsUntouched /\ NullifiersUntouched /\ BlockUntouched
<1>1. tip \in Cache /\ view \in Cache /\ TipBestAnchor(t) \in Roots /\ ViewBestAnchor(t) \in Roots
  BY ReadTypes DEF TypeOK
<1>2. \A u \in ShieldedTypes, q \in Roots : AnchorAt(u, q)
  BY DEF AnchorsPart, AnchorEntries, AnchorAt
<1>3. /\ tip' \in Cache
      /\ tip'.hashAnchor[t] = TipBestAnchor(t)
      /\ \A u \in ShieldedTypes : u # t => tip'.hashAnchor[u] = tip.hashAnchor[u]
      /\ tip'.coins = tip.coins /\ tip'.nullifiers = tip.nullifiers
      /\ tip'.anchors = tip.anchors /\ tip'.hashBlock = tip.hashBlock
  <2>1. OnlyBestAnchor(tip', tip, t, TipBestAnchor(t))
    BY <1>1, BestAnchorUpdate, Zenon DEF GetBestAnchor
  <2> QED
    BY <1>1, <2>1 DEF OnlyBestAnchor
<1>4. /\ view' \in Cache
      /\ view'.hashAnchor[t] \in {view.hashAnchor[t], ViewBestAnchor(t)}
      /\ \A u \in ShieldedTypes : u # t => view'.hashAnchor[u] = view.hashAnchor[u]
      /\ view'.coins = view.coins /\ view'.nullifiers = view.nullifiers
      /\ view'.anchors = view.anchors /\ view'.hashBlock = view.hashBlock
  <2>1. view' = view \/ OnlyBestAnchor(view', view, t, ViewBestAnchor(t))
    <3>1. view' = view \/ view' = [view EXCEPT !.hashAnchor[t] = ViewBestAnchor(t)]
      BY Zenon DEF GetBestAnchor
    <3>2. OnlyBestAnchor([view EXCEPT !.hashAnchor[t] = ViewBestAnchor(t)], view, t, ViewBestAnchor(t))
      BY <1>1, BestAnchorUpdate, Zenon
    <3> QED
      BY <3>1, <3>2, Zenon
  <2>2. CASE view' = view
    BY <1>1, <2>2
  <2>3. CASE OnlyBestAnchor(view', view, t, ViewBestAnchor(t))
    BY <2>3 DEF OnlyBestAnchor
  <2> QED
    BY <2>1, <2>2, <2>3
<1>5. db' = db /\ open' = open
  BY DEF GetBestAnchor
<1>6. TypeOK'
  BY <1>3, <1>4, <1>5 DEF TypeOK
<1>7. CoinsUntouched /\ NullifiersUntouched /\ BlockUntouched
  BY <1>3, <1>4, <1>5 DEF CoinsUntouched, NullifiersUntouched, BlockUntouched
<1>8. \A u \in ShieldedTypes, q \in Roots :
        AnchorAt(u, q)' /\ TipAnchor(u, q)' = TipAnchor(u, q) /\ ViewAnchor(u, q)' = ViewAnchor(u, q)
  BY <1>2, <1>3, <1>4, <1>5, AnchorAtFrame
<1>9. SameAnchors
  BY <1>5, <1>8 DEF SameAnchors
<1>10. ASSUME NEW u \in ShieldedTypes
       PROVE  TipBestAnchor(u)' = TipBestAnchor(u) /\ ViewBestAnchor(u)' = ViewBestAnchor(u)
  <2>1. TipBestAnchor(u)' = TipBestAnchor(u)
    BY <1>1, <1>3, <1>5 DEF TipBestAnchor, NullHash
  <2> QED
    BY <1>1, <1>4, <2>1 DEF ViewBestAnchor, NullHash
<1>11. BestAnchors'
  BY <1>5, <1>9, <1>10, BestAnchorsFrame DEF AnchorsPart
<1>12. AnchorEntries'
  BY <1>8 DEF AnchorEntries, AnchorAt
<1>13. NothingToWrite'
  <2>1. ASSUME tip'.hashBlock = NullHash, NEW u \in ShieldedTypes
        PROVE  tip'.hashAnchor[u] \in {NullHash, db'.hashAnchor[u]}
    BY <1>3, <1>5, <2>1 DEF NothingToWrite, AnchorsPart, TipBestAnchor
  <2>2. ASSUME tip'.hashBlock = NullHash, NEW u \in ShieldedTypes, NEW q \in Roots
        PROVE  ~tip'.anchors[u][q].dirty
    BY <1>3, <2>2 DEF NothingToWrite, AnchorsPart
  <2> QED
    BY <2>1, <2>2 DEF NothingToWrite
<1> QED
  BY <1>6, <1>7, <1>9, <1>11, <1>12, <1>13 DEF AnchorsPart

(* A best anchor and an anchor of the same pool. *)
OnlyAnchors(d, c, t, h, r, e) ==
  /\ d \in Cache
  /\ d.hashAnchor[t] = h
  /\ \A u \in ShieldedTypes : u # t => d.hashAnchor[u] = c.hashAnchor[u]
  /\ d.anchors[t][r] = e
  /\ \A u \in ShieldedTypes, q \in Roots : u # t \/ q # r => d.anchors[u][q] = c.anchors[u][q]
  /\ d.coins = c.coins /\ d.nullifiers = c.nullifiers /\ d.hashBlock = c.hashBlock

(* Updating both. *)
LEMMA AnchorsUpdate ==
  ASSUME NEW c \in Cache, NEW t \in ShieldedTypes, NEW h \in Roots \cup {NullHash},
         NEW r \in Roots, NEW e \in MarkEntry
  PROVE  OnlyAnchors([c EXCEPT !.hashAnchor[t] = h, !.anchors[t][r] = e], c, t, h, r, e)
<1> DEFINE b == [c EXCEPT !.hashAnchor[t] = h]
<1> DEFINE d == [b EXCEPT !.anchors[t][r] = e]
<1>1. OnlyBestAnchor(b, c, t, h)
  BY BestAnchorUpdate, Zenon
<1>2. d = [c EXCEPT !.hashAnchor[t] = h, !.anchors[t][r] = e]
  OBVIOUS
<1> HIDE DEF b
<1>3. b \in Cache
  BY <1>1 DEF OnlyBestAnchor
<1>4. OnlyAnchor(d, b, t, r, e)
  BY <1>3, AnchorUpdate, Zenon
<1> HIDE DEF d
<1>5. OnlyAnchors(d, c, t, h, r, e)
  BY <1>1, <1>4 DEF OnlyAnchors, OnlyAnchor, OnlyBestAnchor
<1> QED
  BY <1>2, <1>5, Zenon

(* Push and Pop read through pcoinsTip, and do not change what it answers. *)
LEMMA TipMayRead ==
  ASSUME TypeOK, AnchorsPart, db' = db, tip'.hashBlock = tip.hashBlock,
         \A u \in ShieldedTypes : tip'.hashAnchor[u] \in {tip.hashAnchor[u], TipBestAnchor(u)},
         \A u \in ShieldedTypes, q \in Roots :
           tip'.anchors[u][q] \in {tip.anchors[u][q], TipAnchor(u, q)}
  PROVE  /\ \A u \in ShieldedTypes : TipBestAnchor(u)' = TipBestAnchor(u)
         /\ \A u \in ShieldedTypes, q \in Roots : TipAnchor(u, q)' = TipAnchor(u, q)
         /\ \A u \in ShieldedTypes, q \in Roots :
              view'.anchors[u][q] = view.anchors[u][q]
                => AnchorAt(u, q)' /\ ViewAnchor(u, q)' = ViewAnchor(u, q)
         /\ NothingToWrite'
<1>1. \A u \in ShieldedTypes, q \in Roots : AnchorAt(u, q)
  BY DEF AnchorsPart, AnchorEntries, AnchorAt
<1>2. \A u \in ShieldedTypes, q \in Roots :
        /\ TipAnchor(u, q)' = TipAnchor(u, q)
        /\ tip'.anchors[u][q].dirty => tip.anchors[u][q].dirty
        /\ view'.anchors[u][q] = view.anchors[u][q]
             => AnchorAt(u, q)' /\ ViewAnchor(u, q)' = ViewAnchor(u, q)
  BY <1>1, AnchorAtTipRead
<1>3. \A u \in ShieldedTypes : TipBestAnchor(u) \in Roots
  BY ReadTypes
<1>4. \A u \in ShieldedTypes : TipBestAnchor(u)' = TipBestAnchor(u)
  BY <1>3 DEF TipBestAnchor, NullHash
<1>5. NothingToWrite'
  <2>1. ASSUME tip'.hashBlock = NullHash, NEW u \in ShieldedTypes
        PROVE  tip'.hashAnchor[u] \in {NullHash, db'.hashAnchor[u]}
    BY <2>1 DEF NothingToWrite, AnchorsPart, TipBestAnchor
  <2>2. ASSUME tip'.hashBlock = NullHash, NEW u \in ShieldedTypes, NEW q \in Roots
        PROVE  ~tip'.anchors[u][q].dirty
    BY <1>2, <2>2 DEF NothingToWrite, AnchorsPart
  <2> QED
    BY <2>1, <2>2 DEF NothingToWrite
<1> QED
  BY <1>2, <1>4, <1>5

(* The best anchors of the database and of pcoinsTip stay, the view's are given. *)
LEMMA BestAnchorsOfView ==
  ASSUME TypeOK, BestAnchors, db' = db,
         \A u \in ShieldedTypes : TipBestAnchor(u)' = TipBestAnchor(u),
         \A u \in ShieldedTypes, q \in Roots : TipAnchor(u, q)' = TipAnchor(u, q),
         \A u \in ShieldedTypes :
           /\ ViewAnchor(u, ViewBestAnchor(u)).entered'
           /\ \A q \in Roots : ViewAnchor(u, q).entered' => q =< ViewBestAnchor(u)'
  PROVE  BestAnchors'
<1>1. \A u \in ShieldedTypes : TipBestAnchor(u) \in Roots
  BY ReadTypes
<1>2. ASSUME NEW u \in ShieldedTypes
      PROVE  TipAnchor(u, TipBestAnchor(u)).entered'
  BY <1>1, <1>2 DEF BestAnchors
<1> QED
  BY <1>1, <1>2 DEF BestAnchors

(* Roots are numbers. *)
LEMMA RootOrder ==
  /\ \A x, y, z \in Roots : x =< y /\ z >= y => x =< z
  /\ \A x, y, z \in Roots : x =< y /\ z >= y /\ z # y => x < z
  /\ \A x, y \in Roots : x < y => y # EmptyRoot /\ x # y
  /\ \A x, y, z \in Roots : x =< y /\ x # y /\ ~(z < x /\ x < y) => x =< z
<1>1. \A x \in Roots : x \in Nat /\ x # 0
  BY DEF NullHash
<1> QED
  BY <1>1 DEF EmptyRoot

(* PushAnchor adds a later anchor to the view's, or changes nothing. *)
LEMMA PushAnchorStep ==
  ASSUME TypeOK, AnchorsPart, NEW t \in ShieldedTypes, NEW r \in Roots, PushAnchor(t, r)
  PROVE  /\ TypeOK' /\ AnchorsPart'
         /\ open /\ open' = open /\ db' = db
         /\ \A u \in ShieldedTypes, q \in Roots : TipAnchor(u, q).entered' = TipAnchor(u, q).entered
         /\ \A u \in ShieldedTypes, q \in Roots :
              u # t \/ q # r => ViewAnchor(u, q).entered' = ViewAnchor(u, q).entered
         /\ \/ ViewAnchor(t, r).entered' = ViewAnchor(t, r).entered
            \/ /\ \A q \in Roots : ViewAnchor(t, q).entered => q < r
               /\ ViewAnchor(t, r).entered'
         /\ CoinsUntouched /\ NullifiersUntouched /\ BlockUntouched
<1>1. /\ tip \in Cache /\ view \in Cache
      /\ \A u \in ShieldedTypes : TipBestAnchor(u) \in Roots /\ ViewBestAnchor(u) \in Roots
  BY ReadTypes DEF TypeOK
<1>2. open /\ open' = open /\ db' = db /\ r >= ViewBestAnchor(t)
  BY DEF PushAnchor
<1>3. tip' = tip \/ OnlyBestAnchor(tip', tip, t, TipBestAnchor(t))
  <2>1. tip' = tip \/ tip' = [tip EXCEPT !.hashAnchor[t] = TipBestAnchor(t)]
    BY Zenon DEF PushAnchor
  <2>2. OnlyBestAnchor([tip EXCEPT !.hashAnchor[t] = TipBestAnchor(t)], tip, t, TipBestAnchor(t))
    BY <1>1, BestAnchorUpdate, Zenon
  <2> QED
    BY <2>1, <2>2, Zenon
<1>4. \/ r = ViewBestAnchor(t) /\ OnlyBestAnchor(view', view, t, r)
      \/ r # ViewBestAnchor(t) /\ OnlyAnchors(view', view, t, r, r, MarkWritten(TRUE))
  <2>1. \/ r = ViewBestAnchor(t) /\ view' = [view EXCEPT !.hashAnchor[t] = r]
        \/ /\ r # ViewBestAnchor(t)
           /\ view' = [view EXCEPT !.hashAnchor[t] = r, !.anchors[t][r] = MarkWritten(TRUE)]
    BY Zenon DEF PushAnchor
  <2>2. OnlyBestAnchor([view EXCEPT !.hashAnchor[t] = r], view, t, r)
    BY <1>1, BestAnchorUpdate, Zenon
  <2>3. MarkWritten(TRUE) \in MarkEntry
    BY MarkFields
  <2>4. OnlyAnchors([view EXCEPT !.hashAnchor[t] = r, !.anchors[t][r] = MarkWritten(TRUE)],
                    view, t, r, r, MarkWritten(TRUE))
    BY <1>1, <2>3, AnchorsUpdate, Zenon
  <2> QED
    BY <2>1, <2>2, <2>4, Zenon
<1>5. /\ tip' \in Cache
      /\ \A u \in ShieldedTypes : tip'.hashAnchor[u] \in {tip.hashAnchor[u], TipBestAnchor(u)}
      /\ tip'.coins = tip.coins /\ tip'.nullifiers = tip.nullifiers
      /\ tip'.anchors = tip.anchors /\ tip'.hashBlock = tip.hashBlock
  <2>1. CASE tip' = tip
    BY <1>1, <2>1
  <2>2. CASE OnlyBestAnchor(tip', tip, t, TipBestAnchor(t))
    BY <2>2 DEF OnlyBestAnchor
  <2> QED
    BY <1>3, <2>1, <2>2
<1>6. /\ view' \in Cache
      /\ view'.hashAnchor[t] = r
      /\ \A u \in ShieldedTypes : u # t => view'.hashAnchor[u] = view.hashAnchor[u]
      /\ \A u \in ShieldedTypes, q \in Roots :
           u # t \/ q # r => view'.anchors[u][q] = view.anchors[u][q]
      /\ r = ViewBestAnchor(t) => view'.anchors[t][r] = view.anchors[t][r]
      /\ r # ViewBestAnchor(t) => view'.anchors[t][r] = MarkWritten(TRUE)
      /\ view'.coins = view.coins /\ view'.nullifiers = view.nullifiers
      /\ view'.hashBlock = view.hashBlock
  <2>1. CASE r = ViewBestAnchor(t) /\ OnlyBestAnchor(view', view, t, r)
    BY <2>1 DEF OnlyBestAnchor
  <2>2. CASE r # ViewBestAnchor(t) /\ OnlyAnchors(view', view, t, r, r, MarkWritten(TRUE))
    BY <2>2 DEF OnlyAnchors
  <2> QED
    BY <1>4, <2>1, <2>2
<1>7. TypeOK'
  BY <1>2, <1>5, <1>6 DEF TypeOK
<1>8. CoinsUntouched /\ NullifiersUntouched /\ BlockUntouched
  BY <1>2, <1>5, <1>6 DEF CoinsUntouched, NullifiersUntouched, BlockUntouched
<1>9. /\ \A u \in ShieldedTypes : TipBestAnchor(u)' = TipBestAnchor(u)
      /\ \A u \in ShieldedTypes, q \in Roots : TipAnchor(u, q)' = TipAnchor(u, q)
      /\ \A u \in ShieldedTypes, q \in Roots :
           view'.anchors[u][q] = view.anchors[u][q]
             => AnchorAt(u, q)' /\ ViewAnchor(u, q)' = ViewAnchor(u, q)
      /\ NothingToWrite'
  BY <1>2, <1>5, TipMayRead
<1>10. AnchorAt(t, r)' /\ ViewAnchor(t, r).entered'
  <2>1. CASE r = ViewBestAnchor(t)
    BY <1>6, <1>9, <2>1 DEF BestAnchors, AnchorsPart
  <2>2. CASE r # ViewBestAnchor(t)
    <3>1. AnchorAt(t, r)
      BY DEF AnchorsPart, AnchorEntries, AnchorAt
    <3>2. /\ view'.anchors[t][r].cached /\ view'.anchors[t][r].dirty
          /\ view'.anchors[t][r].entered
      BY <1>6, <2>2, MarkFields
    <3>3. ViewAnchor(t, r).entered'
      BY <3>2 DEF ViewAnchor
    <3>4. AnchorAt(t, r)'
      BY <1>2, <1>5, <3>1, <3>2 DEF AnchorAt
    <3> QED
      BY <3>3, <3>4
  <2> QED
    BY <2>1, <2>2
<1>11. AnchorEntries'
  <2>1. \A u \in ShieldedTypes, q \in Roots : AnchorAt(u, q)'
    BY <1>6, <1>9, <1>10
  <2> QED
    BY <2>1 DEF AnchorEntries, AnchorAt
<1>12. ViewBestAnchor(t)' = r /\ \A u \in ShieldedTypes : u # t => ViewBestAnchor(u)' = ViewBestAnchor(u)
  BY <1>6, <1>9 DEF ViewBestAnchor, NullHash
<1>13. BestAnchors'
  <2>1. ASSUME NEW u \in ShieldedTypes
        PROVE  /\ ViewAnchor(u, ViewBestAnchor(u)).entered'
               /\ \A q \in Roots : ViewAnchor(u, q).entered' => q =< ViewBestAnchor(u)'
    <3>1. CASE u = t
      <4>1. ViewAnchor(t, ViewBestAnchor(t)).entered'
        BY <1>10, <1>12
      <4>2. ASSUME NEW q \in Roots, ViewAnchor(t, q).entered'
            PROVE  q =< r
        <5>1. CASE q = r
          BY <5>1
        <5>2. CASE q # r
          <6>1. ViewAnchor(t, q).entered
            BY <1>6, <1>9, <4>2, <5>2
          <6>2. q =< ViewBestAnchor(t)
            BY <6>1 DEF BestAnchors, AnchorsPart
          <6> QED
            BY <1>1, <1>2, <6>2, RootOrder
        <5> QED
          BY <5>1, <5>2
      <4> QED
        BY <1>12, <3>1, <4>1, <4>2
    <3>2. CASE u # t
      <4>1. \A q \in Roots : ViewAnchor(u, q)' = ViewAnchor(u, q)
        BY <1>6, <1>9, <3>2
      <4> QED
        BY <1>1, <1>12, <3>2, <4>1 DEF BestAnchors, AnchorsPart
    <3> QED
      BY <3>1, <3>2
  <2> QED
    BY <1>2, <1>9, <2>1, BestAnchorsOfView DEF AnchorsPart
<1>14. \A u \in ShieldedTypes, q \in Roots :
         u # t \/ q # r => ViewAnchor(u, q).entered' = ViewAnchor(u, q).entered
  BY <1>6, <1>9
<1>15. \/ ViewAnchor(t, r).entered' = ViewAnchor(t, r).entered
       \/ /\ \A q \in Roots : ViewAnchor(t, q).entered => q < r
          /\ ViewAnchor(t, r).entered'
  <2>1. CASE r = ViewBestAnchor(t)
    BY <1>6, <1>9, <2>1
  <2>2. CASE r # ViewBestAnchor(t)
    <3>1. \A q \in Roots : ViewAnchor(t, q).entered => q =< ViewBestAnchor(t)
      BY DEF BestAnchors, AnchorsPart
    <3>2. \A q \in Roots : q =< ViewBestAnchor(t) => q < r
      BY <1>1, <1>2, <2>2, RootOrder
    <3>3. \A q \in Roots : ViewAnchor(t, q).entered => q < r
      BY <3>1, <3>2
    <3> QED
      BY <1>10, <3>3
  <2> QED
    BY <2>1, <2>2
<1> QED
  BY <1>2, <1>7, <1>8, <1>9, <1>11, <1>13, <1>14, <1>15 DEF AnchorsPart

(* PopAnchor removes the latest anchor of the view, which is not the empty root. *)
LEMMA PopAnchorStep ==
  ASSUME TypeOK, AnchorsPart, NEW t \in ShieldedTypes, NEW old \in Roots, PopAnchor(t, old),
         NEW current \in Roots, current = ViewBestAnchor(t)
  PROVE  /\ TypeOK' /\ AnchorsPart'
         /\ open /\ open' = open /\ db' = db
         /\ \A u \in ShieldedTypes, q \in Roots : TipAnchor(u, q).entered' = TipAnchor(u, q).entered
         /\ \A u \in ShieldedTypes, q \in Roots :
              u # t \/ q # current => ViewAnchor(u, q).entered' = ViewAnchor(u, q).entered
         /\ current # EmptyRoot /\ ViewAnchor(t, current).entered
         /\ \A q \in Roots : ViewAnchor(t, q).entered => q =< current
         /\ ~ViewAnchor(t, current).entered'
         /\ CoinsUntouched /\ NullifiersUntouched /\ BlockUntouched
<1> DEFINE h == IF view.hashAnchor[t] # NullHash THEN tip.hashAnchor[t] ELSE TipBestAnchor(t)
<1> DEFINE e == IF view.anchors[t][current].cached THEN tip.anchors[t][current]
                ELSE TipAnchor(t, current)
<1>1. /\ tip \in Cache /\ view \in Cache
      /\ \A u \in ShieldedTypes : TipBestAnchor(u) \in Roots /\ ViewBestAnchor(u) \in Roots
      /\ TipAnchor(t, current) \in MarkEntry
  BY ReadTypes DEF TypeOK
<1>2. /\ open /\ open' = open /\ db' = db
      /\ old < current
      /\ ViewAnchor(t, old).entered
      /\ \A q \in Roots : old < q /\ q < current => ~ViewAnchor(t, q).entered
  BY DEF PopAnchor
<1>3. OnlyAnchors(tip', tip, t, h, current, e)
  <2>1. tip' = [tip EXCEPT !.hashAnchor[t] = h, !.anchors[t][current] = e]
    BY <1>1 DEF PopAnchor, Cache
  <2>2. h \in Roots \cup {NullHash} /\ e \in MarkEntry
    BY <1>1, CacheParts
  <2> HIDE DEF h, e
  <2> QED
    BY <1>1, <2>1, <2>2, AnchorsUpdate, Zenon
<1>4. OnlyAnchors(view', view, t, old, current, MarkWritten(FALSE))
  <2>1. view' = [view EXCEPT !.hashAnchor[t] = old, !.anchors[t][current] = MarkWritten(FALSE)]
    BY Zenon DEF PopAnchor
  <2>2. MarkWritten(FALSE) \in MarkEntry
    BY MarkFields
  <2> QED
    BY <1>1, <2>1, <2>2, AnchorsUpdate, Zenon
<1>5. e \in {tip.anchors[t][current], TipAnchor(t, current)}
      /\ h \in {tip.hashAnchor[t], TipBestAnchor(t)}
  BY <1>1
<1>6. ViewAnchor(t, current).entered /\ \A q \in Roots : ViewAnchor(t, q).entered => q =< current
  BY DEF AnchorsPart, BestAnchors
<1> HIDE DEF h, e
<1>7. /\ tip' \in Cache
      /\ \A u \in ShieldedTypes : tip'.hashAnchor[u] \in {tip.hashAnchor[u], TipBestAnchor(u)}
      /\ tip'.coins = tip.coins /\ tip'.nullifiers = tip.nullifiers
      /\ \A u \in ShieldedTypes, q \in Roots :
           tip'.anchors[u][q] \in {tip.anchors[u][q], TipAnchor(u, q)}
      /\ tip'.hashBlock = tip.hashBlock
  BY <1>3, <1>5 DEF OnlyAnchors
<1>8. /\ view' \in Cache
      /\ view'.hashAnchor[t] = old
      /\ \A u \in ShieldedTypes : u # t => view'.hashAnchor[u] = view.hashAnchor[u]
      /\ \A u \in ShieldedTypes, q \in Roots :
           u # t \/ q # current => view'.anchors[u][q] = view.anchors[u][q]
      /\ view'.anchors[t][current] = MarkWritten(FALSE)
      /\ view'.coins = view.coins /\ view'.nullifiers = view.nullifiers
      /\ view'.hashBlock = view.hashBlock
  BY <1>4 DEF OnlyAnchors
<1>9. TypeOK'
  BY <1>2, <1>7, <1>8 DEF TypeOK
<1>10. CoinsUntouched /\ NullifiersUntouched /\ BlockUntouched
  BY <1>2, <1>7, <1>8 DEF CoinsUntouched, NullifiersUntouched, BlockUntouched
<1>11. /\ \A u \in ShieldedTypes : TipBestAnchor(u)' = TipBestAnchor(u)
       /\ \A u \in ShieldedTypes, q \in Roots : TipAnchor(u, q)' = TipAnchor(u, q)
       /\ \A u \in ShieldedTypes, q \in Roots :
            view'.anchors[u][q] = view.anchors[u][q]
              => AnchorAt(u, q)' /\ ViewAnchor(u, q)' = ViewAnchor(u, q)
       /\ NothingToWrite'
  BY <1>2, <1>7, TipMayRead
<1>12. current # EmptyRoot
  BY <1>2, <1>5, RootOrder
<1>13. AnchorAt(t, current)' /\ ~ViewAnchor(t, current).entered'
  <2>1. AnchorAt(t, current)
    BY <1>5 DEF AnchorsPart, AnchorEntries, AnchorAt
  <2>2. /\ view'.anchors[t][current].cached /\ view'.anchors[t][current].dirty
        /\ ~view'.anchors[t][current].entered
    BY <1>8, MarkFields
  <2>3. ~ViewAnchor(t, current).entered'
    BY <2>2 DEF ViewAnchor
  <2>4. /\ ~tip'.anchors[t][current].cached => tip'.anchors[t][current] = NoMark
        /\ tip'.anchors[t][current].cached /\ ~tip'.anchors[t][current].dirty
             => /\ tip'.anchors[t][current].entered
                /\ current \in db.anchors[t] \cup {EmptyRoot}
    BY <1>7, <2>1, AnchorReads DEF AnchorAt
  <2> QED
    BY <1>2, <1>12, <2>2, <2>3, <2>4 DEF AnchorAt
<1>14. AnchorEntries'
  <2>1. \A u \in ShieldedTypes, q \in Roots : AnchorAt(u, q)'
    BY <1>8, <1>11, <1>13
  <2> QED
    BY <2>1 DEF AnchorEntries, AnchorAt
<1>15. ViewBestAnchor(t)' = old /\ \A u \in ShieldedTypes : u # t => ViewBestAnchor(u)' = ViewBestAnchor(u)
  BY <1>8, <1>11 DEF ViewBestAnchor, NullHash
<1>16. BestAnchors'
  <2>1. ASSUME NEW u \in ShieldedTypes
        PROVE  /\ ViewAnchor(u, ViewBestAnchor(u)).entered'
               /\ \A q \in Roots : ViewAnchor(u, q).entered' => q =< ViewBestAnchor(u)'
    <3>1. CASE u = t
      <4>1. old # current
        BY <1>2, RootOrder
      <4>2. ViewAnchor(t, old).entered'
        BY <1>2, <1>8, <1>11, <4>1
      <4>3. ViewAnchor(t, ViewBestAnchor(t)).entered'
        BY <1>15, <4>2
      <4>4. ASSUME NEW q \in Roots, ViewAnchor(t, q).entered'
            PROVE  q =< old
        <5>1. q # current
          BY <1>13, <4>4
        <5>2. ViewAnchor(t, q).entered
          BY <1>8, <1>11, <4>4, <5>1
        <5>3. q =< current /\ ~(old < q /\ q < current)
          BY <1>2, <1>6, <5>2
        <5> QED
          BY <5>1, <5>3, RootOrder
      <4> QED
        BY <1>15, <3>1, <4>3, <4>4
    <3>2. CASE u # t
      <4>1. \A q \in Roots : ViewAnchor(u, q)' = ViewAnchor(u, q)
        BY <1>8, <1>11, <3>2
      <4> QED
        BY <1>1, <1>15, <3>2, <4>1 DEF BestAnchors, AnchorsPart
    <3> QED
      BY <3>1, <3>2
  <2> QED
    BY <1>2, <1>11, <2>1, BestAnchorsOfView DEF AnchorsPart
<1>17. \A u \in ShieldedTypes, q \in Roots :
         u # t \/ q # current => ViewAnchor(u, q).entered' = ViewAnchor(u, q).entered
  BY <1>8, <1>11
<1> QED
  BY <1>2, <1>6, <1>9, <1>10, <1>11, <1>12, <1>13, <1>14, <1>16, <1>17 DEF AnchorsPart

--------------------------------------------------------------------------------
(***************************************************************************)
(* The best block.                                                         *)
(***************************************************************************)
(* Reading the best block caches what was there already. *)
LEMMA GetBestBlockStep ==
  ASSUME TypeOK, GetBestBlock
  PROVE  TypeOK' /\ SameBlock /\ CoinsUntouched /\ NullifiersUntouched /\ AnchorsUntouched
<1>1. /\ tip \in Cache /\ view \in Cache
      /\ TipBestBlock \in Blocks \cup {NullHash} /\ ViewBestBlock \in Blocks \cup {NullHash}
  BY ReadTypes DEF TypeOK
<1>2. db' = db /\ open' = open
  BY DEF GetBestBlock
<1>3. OnlyBestBlock(tip', tip, TipBestBlock)
  BY <1>1, BestBlockUpdate, Zenon DEF GetBestBlock
<1>4. view' = view \/ OnlyBestBlock(view', view, ViewBestBlock)
  <2>1. view' = view \/ view' = [view EXCEPT !.hashBlock = ViewBestBlock]
    BY Zenon DEF GetBestBlock
  <2>2. OnlyBestBlock([view EXCEPT !.hashBlock = ViewBestBlock], view, ViewBestBlock)
    BY <1>1, BestBlockUpdate, Zenon
  <2> QED
    BY <2>1, <2>2, Zenon
<1>5. /\ view' \in Cache /\ view'.hashBlock \in {view.hashBlock, ViewBestBlock}
      /\ view'.coins = view.coins /\ view'.nullifiers = view.nullifiers
      /\ view'.anchors = view.anchors /\ view'.hashAnchor = view.hashAnchor
  <2>1. CASE view' = view
    BY <1>1, <2>1
  <2>2. CASE OnlyBestBlock(view', view, ViewBestBlock)
    BY <2>2 DEF OnlyBestBlock
  <2> QED
    BY <1>4, <2>1, <2>2
<1>6. TypeOK'
  BY <1>2, <1>3, <1>5 DEF TypeOK, OnlyBestBlock
<1>7. TipBestBlock' = TipBestBlock
  BY <1>2, <1>3 DEF TipBestBlock, OnlyBestBlock
<1>8. ViewBestBlock' = ViewBestBlock
  BY <1>5, <1>7 DEF ViewBestBlock
<1>9. CoinsUntouched /\ NullifiersUntouched /\ AnchorsUntouched
  BY <1>2, <1>3, <1>5 DEF CoinsUntouched, NullifiersUntouched, AnchorsUntouched, OnlyBestBlock,
                          TipBestBlock
<1> QED
  BY <1>2, <1>6, <1>7, <1>8, <1>9 DEF SameBlock

(* SetBestBlock changes the answer of the view. *)
LEMMA SetBestBlockStep ==
  ASSUME TypeOK, NEW b \in Blocks, SetBestBlock(b)
  PROVE  /\ TypeOK'
         /\ open /\ open' = open /\ db' = db
         /\ TipBestBlock' = TipBestBlock /\ ViewBestBlock' = b
         /\ CoinsUntouched /\ NullifiersUntouched /\ AnchorsUntouched
<1>1. tip \in Cache /\ view \in Cache /\ b \in Blocks \cup {NullHash} /\ b # NullHash
  BY DEF TypeOK
<1>2. db' = db /\ open /\ open' = open /\ tip' = tip
  BY DEF SetBestBlock
<1>3. OnlyBestBlock(view', view, b)
  BY <1>1, BestBlockUpdate, Zenon DEF SetBestBlock
<1>4. TypeOK'
  BY <1>1, <1>2, <1>3 DEF TypeOK, OnlyBestBlock
<1>5. TipBestBlock' = TipBestBlock
  BY <1>2 DEF TipBestBlock
<1>6. ViewBestBlock' = b
  BY <1>1, <1>3 DEF ViewBestBlock, OnlyBestBlock
<1>7. CoinsUntouched /\ NullifiersUntouched /\ AnchorsUntouched
  BY <1>2, <1>3 DEF CoinsUntouched, NullifiersUntouched, AnchorsUntouched, OnlyBestBlock
<1> QED
  BY <1>2, <1>4, <1>5, <1>6, <1>7

--------------------------------------------------------------------------------
(***************************************************************************)
(* An empty view.  It repeats pcoinsTip, and the invariant reduces to what *)
(* it says of pcoinsTip over the database.                                 *)
(***************************************************************************)
TipCoinsInv ==
  \A k \in Txids :
    /\ ~tip.coins[k].cached => tip.coins[k] = NoCoins
    /\ tip.coins[k].cached => /\ ~tip.coins[k].dirty => tip.coins[k].coins = db.coins[k]
                              /\ tip.coins[k].fresh => db.coins[k] = {}

TipNullifiersInv ==
  \A n \in Nullifiers :
    /\ ~tip.nullifiers[n].cached => tip.nullifiers[n] = NoMark
    /\ tip.nullifiers[n].cached /\ ~tip.nullifiers[n].dirty
         => (tip.nullifiers[n].entered <=> n \in db.nullifiers)

TipAnchorsInv ==
  \A t \in ShieldedTypes : \A r \in Roots :
    /\ ~tip.anchors[t][r].cached => tip.anchors[t][r] = NoMark
    /\ tip.anchors[t][r].cached /\ ~tip.anchors[t][r].dirty
         => tip.anchors[t][r].entered /\ r \in db.anchors[t] \cup {EmptyRoot}
    /\ r = EmptyRoot /\ tip.anchors[t][r].cached => tip.anchors[t][r].entered

TipBestInv ==
  \A t \in ShieldedTypes :
    /\ db.hashAnchor[t] \in db.anchors[t] \cup {EmptyRoot}
    /\ \A r \in db.anchors[t] \cup {EmptyRoot} : r =< db.hashAnchor[t]
    /\ TipAnchor(t, TipBestAnchor(t)).entered
    /\ \A r \in Roots : TipAnchor(t, r).entered => r =< TipBestAnchor(t)

TipInv == TipCoinsInv /\ TipNullifiersInv /\ TipAnchorsInv /\ NothingToWrite /\ TipBestInv

(* The view answers what pcoinsTip answers. *)
ViewRepeats ==
  /\ \A k \in Txids : ViewCoins(k).coins = TipCoins(k).coins
  /\ \A n \in Nullifiers : ViewNullifier(n).entered <=> TipNullifier(n).entered
  /\ \A t \in ShieldedTypes, r \in Roots : ViewAnchor(t, r).entered <=> TipAnchor(t, r).entered
  /\ ViewBestBlock = TipBestBlock

(* The invariant implies what it says of pcoinsTip. *)
LEMMA TipInvHolds == IInv => TipInv
<1> SUFFICES ASSUME IInv PROVE TipInv
  OBVIOUS
<1>1. TipCoinsInv
  BY DEF IInv, HintsSound, CoinsEntries, TipCoinsInv
<1>2. TipNullifiersInv
  BY DEF IInv, NullifierEntries, TipNullifiersInv
<1>3. TipAnchorsInv
  BY DEF IInv, AnchorEntries, TipAnchorsInv
<1>4. TipBestInv /\ NothingToWrite
  BY DEF IInv, BestAnchors, TipBestInv
<1> QED
  BY <1>1, <1>2, <1>3, <1>4 DEF TipInv

(* What an empty cache holds. *)
LEMMA EmptyCacheFields ==
  /\ \A k \in Txids : EmptyCache.coins[k] = NoCoins
  /\ \A n \in Nullifiers : EmptyCache.nullifiers[n] = NoMark
  /\ \A t \in ShieldedTypes, r \in Roots : EmptyCache.anchors[t][r] = NoMark
  /\ \A t \in ShieldedTypes : EmptyCache.hashAnchor[t] = NullHash
  /\ EmptyCache.hashBlock = NullHash
BY DEF EmptyCache

(* Under an empty view it is all there is to show. *)
LEMMA EmptyView == TypeOK /\ TipInv /\ view = EmptyCache => IInv /\ ViewRepeats
<1> SUFFICES ASSUME TypeOK, TipInv, view = EmptyCache PROVE IInv /\ ViewRepeats
  OBVIOUS
<1>1. /\ \A k \in Txids : view.coins[k] = NoCoins
      /\ \A n \in Nullifiers : view.nullifiers[n] = NoMark
      /\ \A t \in ShieldedTypes, r \in Roots : view.anchors[t][r] = NoMark
      /\ \A t \in ShieldedTypes : view.hashAnchor[t] = NullHash
      /\ view.hashBlock = NullHash
  BY EmptyCacheFields
<1>2. /\ \A k \in Txids : TipCoins(k) \in CoinsEntry
      /\ \A n \in Nullifiers : TipNullifier(n) \in MarkEntry
      /\ \A t \in ShieldedTypes : TipBestAnchor(t) \in Roots
  BY ReadTypes
<1>3. HintsSound /\ CoinsEntries
  BY <1>1, NoCoinsFields DEF HintsSound, CoinsEntries, TipInv, TipCoinsInv
<1>4. NullifierEntries
  BY <1>1, MarkFields DEF NullifierEntries, TipInv, TipNullifiersInv
<1>5. AnchorEntries
  BY <1>1, MarkFields DEF AnchorEntries, TipInv, TipAnchorsInv
<1>6. ASSUME NEW k \in Txids
      PROVE  ViewCoins(k).coins = TipCoins(k).coins
  <2>1. CASE TipCoins(k).cached
    BY <1>1, <1>2, <2>1, NoCoinsFields, CoinsReadFields DEF ViewCoins, CoinsEntry
  <2>2. CASE ~TipCoins(k).cached
    <3>1. CoinsAt(k)
      BY <1>1, NoCoinsFields DEF CoinsAt, TipInv, TipCoinsInv
    <3> QED
      BY <1>1, <2>2, <3>1, TipCoinsFacts DEF ViewCoins
  <2> QED
    BY <2>1, <2>2
<1>7. ASSUME NEW n \in Nullifiers
      PROVE  ViewNullifier(n).entered <=> TipNullifier(n).entered
  <2>1. TipNullifier(n).entered \in BOOLEAN
    BY <1>2 DEF MarkEntry
  <2>2. ~view.nullifiers[n].cached
    BY <1>1, MarkFields
  <2>3. ViewNullifier(n) = IF TipNullifier(n).entered THEN MarkRead(TRUE) ELSE MarkRead(FALSE)
    BY <2>1, <2>2, MarkCases, Zenon DEF ViewNullifier
  <2> QED
    BY <2>3, MarkFields
<1>8. ASSUME NEW t \in ShieldedTypes, NEW r \in Roots
      PROVE  ViewAnchor(t, r).entered <=> TipAnchor(t, r).entered
  <2>1. view.anchors[t][r] = NoMark
    BY <1>1
  <2>2. ViewAnchor(t, r) = IF TipAnchor(t, r).entered THEN MarkRead(TRUE) ELSE NoMark
    BY <2>1, MarkFields DEF ViewAnchor
  <2> QED
    BY <2>2, MarkFields
<1>9. \A t \in ShieldedTypes : ViewBestAnchor(t) = TipBestAnchor(t)
  BY <1>1 DEF ViewBestAnchor
<1>10. BestAnchors
  BY <1>2, <1>8, <1>9 DEF BestAnchors, TipInv, TipBestInv
<1>11. ViewBestBlock = TipBestBlock
  BY <1>1 DEF ViewBestBlock
<1>12. IInv
  BY <1>3, <1>4, <1>5, <1>10 DEF IInv, TipInv, ClosedIsEmpty
<1> QED
  BY <1>6, <1>7, <1>8, <1>11, <1>12 DEF ViewRepeats

(***************************************************************************)
(* An empty pcoinsTip, after a start or a flush, repeats the database.     *)
(***************************************************************************)
TipEmpty ==
  /\ \A k \in Txids : tip.coins[k] = NoCoins
  /\ \A n \in Nullifiers : tip.nullifiers[n] = NoMark
  /\ \A t \in ShieldedTypes, r \in Roots : tip.anchors[t][r] = NoMark
  /\ \A t \in ShieldedTypes : tip.hashAnchor[t] \in {NullHash, db.hashAnchor[t]}
  /\ tip.hashBlock \in {NullHash, db.hashBlock}

DbInv ==
  \A t \in ShieldedTypes :
    /\ db.hashAnchor[t] \in db.anchors[t] \cup {EmptyRoot}
    /\ \A r \in db.anchors[t] \cup {EmptyRoot} : r =< db.hashAnchor[t]

TipRepeats ==
  /\ \A k \in Txids : TipCoins(k).coins = db.coins[k]
  /\ \A n \in Nullifiers : TipNullifier(n).entered <=> n \in db.nullifiers
  /\ \A t \in ShieldedTypes, r \in Roots :
       TipAnchor(t, r).entered <=> r \in db.anchors[t] \cup {EmptyRoot}
  /\ TipBestBlock = db.hashBlock

(* The invariant holds of an empty pcoinsTip. *)
LEMMA EmptyTip == TypeOK /\ DbInv /\ TipEmpty => TipInv /\ TipRepeats
<1> SUFFICES ASSUME TypeOK, DbInv, TipEmpty PROVE TipInv /\ TipRepeats
  OBVIOUS
<1>1. /\ \A k \in Txids : db.coins[k] \in SUBSET Outputs
      /\ \A t \in ShieldedTypes : db.hashAnchor[t] \in Roots
  BY DEF TypeOK, Database
<1>2. TipCoinsInv
  <2>1. \A k \in Txids : tip.coins[k] = NoCoins
    BY DEF TipEmpty
  <2> QED
    BY <2>1, NoCoinsFields DEF TipCoinsInv
<1>3. TipNullifiersInv
  <2>1. \A n \in Nullifiers : tip.nullifiers[n] = NoMark
    BY DEF TipEmpty
  <2> QED
    BY <2>1, MarkFields DEF TipNullifiersInv
<1>4. TipAnchorsInv
  <2>1. \A t \in ShieldedTypes, r \in Roots : tip.anchors[t][r] = NoMark
    BY DEF TipEmpty
  <2> QED
    BY <2>1, MarkFields DEF TipAnchorsInv
<1>5. NothingToWrite
  BY MarkFields DEF NothingToWrite, TipEmpty
<1>6. ASSUME NEW k \in Txids
      PROVE  TipCoins(k).coins = db.coins[k]
  <2>1. tip.coins[k] = NoCoins /\ db.coins[k] \in SUBSET Outputs
    BY <1>1 DEF TipEmpty
  <2>2. TipCoins(k) = IF db.coins[k] = {} THEN NoCoins ELSE CoinsRead(db.coins[k])
    BY <2>1, NoCoinsFields DEF TipCoins
  <2> QED
    BY <2>1, <2>2, NoCoinsFields, CoinsReadFields
<1>7. ASSUME NEW n \in Nullifiers
      PROVE  TipNullifier(n).entered <=> n \in db.nullifiers
  <2>1. ~tip.nullifiers[n].cached
    BY MarkFields DEF TipEmpty
  <2>2. TipNullifier(n) = IF n \in db.nullifiers THEN MarkRead(TRUE) ELSE MarkRead(FALSE)
    BY <2>1, MarkReadCases, Zenon DEF TipNullifier
  <2> QED
    BY <2>2, MarkFields
<1>8. ASSUME NEW t \in ShieldedTypes, NEW r \in Roots
      PROVE  TipAnchor(t, r).entered <=> r \in db.anchors[t] \cup {EmptyRoot}
  <2>1. tip.anchors[t][r] = NoMark
    BY DEF TipEmpty
  <2>2. TipAnchor(t, r) = IF r \in db.anchors[t] \cup {EmptyRoot} THEN MarkRead(TRUE) ELSE NoMark
    BY <2>1, MarkFields DEF TipAnchor
  <2> QED
    BY <2>2, MarkFields
<1>9. \A t \in ShieldedTypes : TipBestAnchor(t) = db.hashAnchor[t]
  BY DEF TipBestAnchor, TipEmpty
<1>10. TipBestInv
  <2>1. ASSUME NEW t \in ShieldedTypes
        PROVE  /\ TipAnchor(t, TipBestAnchor(t)).entered
               /\ \A r \in Roots : TipAnchor(t, r).entered => r =< TipBestAnchor(t)
    BY <1>1, <1>8, <1>9 DEF DbInv
  <2> QED
    BY <2>1 DEF TipBestInv, DbInv
<1>11. TipBestBlock = db.hashBlock
  BY DEF TipBestBlock, TipEmpty
<1> QED
  BY <1>2, <1>3, <1>4, <1>5, <1>6, <1>7, <1>8, <1>10, <1>11 DEF TipInv, TipRepeats

(* pcoinsTip and the database untouched. *)
LEMMA TipInvFrame ==
  ASSUME TipInv, db' = db, tip' = tip
  PROVE  /\ TipInv'
         /\ DbLedger' = DbLedger /\ TipLedger' = TipLedger
<1>1. /\ \A t, r : TipAnchor(t, r)' = TipAnchor(t, r)
      /\ \A t : TipBestAnchor(t)' = TipBestAnchor(t)
      /\ \A k : TipCoins(k)' = TipCoins(k)
      /\ TipBestBlock' = TipBestBlock
  BY DEF TipAnchor, TipBestAnchor, TipCoins, TipBestBlock
<1>2. \A n : TipNullifier(n)' = TipNullifier(n)
  BY Zenon DEF TipNullifier
<1>3. TipBestInv'
  BY <1>1 DEF TipInv, TipBestInv
<1>4. TipCoinsInv' /\ TipNullifiersInv' /\ TipAnchorsInv' /\ NothingToWrite'
  BY DEF TipInv, TipCoinsInv, TipNullifiersInv, TipAnchorsInv, NothingToWrite
<1>5. DbLedger' = DbLedger /\ TipLedger' = TipLedger
  BY <1>1, <1>2 DEF DbLedger, TipLedger
<1> QED
  BY <1>3, <1>4, <1>5 DEF TipInv

(* Levels that answer the same stand for the same ledger. *)
LEMMA RepeatedLedger == ViewRepeats => ViewLedger = TipLedger
<1> SUFFICES ASSUME ViewRepeats PROVE ViewLedger = TipLedger
  OBVIOUS
<1>1. {n \in Nullifiers : ViewNullifier(n).entered} = {n \in Nullifiers : TipNullifier(n).entered}
  BY DEF ViewRepeats
<1>2. [t \in ShieldedTypes |-> {r \in Roots : ViewAnchor(t, r).entered}]
        = [t \in ShieldedTypes |-> {r \in Roots : TipAnchor(t, r).entered}]
  <2>1. \A t \in ShieldedTypes :
          {r \in Roots : ViewAnchor(t, r).entered} = {r \in Roots : TipAnchor(t, r).entered}
    BY DEF ViewRepeats
  <2> QED
    BY <2>1
<1>3. [k \in Txids |-> ViewCoins(k).coins] = [k \in Txids |-> TipCoins(k).coins]
  BY DEF ViewRepeats
<1>4. ViewBestBlock = TipBestBlock
  BY DEF ViewRepeats
<1> QED
  BY <1>1, <1>2, <1>3, <1>4, Zenon DEF ViewLedger, TipLedger

(* The same for pcoinsTip and the database. *)
LEMMA RepeatedDatabase == TypeOK /\ TipRepeats => TipLedger = DbLedger
<1> SUFFICES ASSUME TypeOK, TipRepeats PROVE TipLedger = DbLedger
  OBVIOUS
<1>1. /\ db.coins \in [Txids -> SUBSET Outputs] /\ db.nullifiers \subseteq Nullifiers
      /\ \A t \in ShieldedTypes : db.anchors[t] \subseteq Roots
  BY DEF TypeOK, Database
<1>2. {n \in Nullifiers : TipNullifier(n).entered} = db.nullifiers
  BY <1>1 DEF TipRepeats
<1>3. [t \in ShieldedTypes |-> {r \in Roots : TipAnchor(t, r).entered}]
        = [t \in ShieldedTypes |-> db.anchors[t] \cup {EmptyRoot}]
  <2>1. \A t \in ShieldedTypes :
          {r \in Roots : TipAnchor(t, r).entered} = db.anchors[t] \cup {EmptyRoot}
    BY <1>1 DEF TipRepeats
  <2> QED
    BY <2>1
<1>4. [k \in Txids |-> TipCoins(k).coins] = db.coins
  BY <1>1 DEF TipRepeats
<1>5. TipBestBlock = db.hashBlock
  BY DEF TipRepeats
<1> QED
  BY <1>2, <1>3, <1>4, <1>5, Zenon DEF DbLedger, TipLedger

--------------------------------------------------------------------------------
(***************************************************************************)
(* Flushing pcoinsTip: the database becomes what pcoinsTip answered.       *)
(***************************************************************************)
(* The batch, key by key. *)
LEMMA WrittenFields ==
  ASSUME TypeOK, TipInv
  PROVE  /\ Written(tip) \in Database
         /\ \A k \in Txids : Written(tip).coins[k] = TipCoins(k).coins
         /\ Written(tip).nullifiers = {n \in Nullifiers : TipNullifier(n).entered}
         /\ \A t \in ShieldedTypes :
              Written(tip).anchors[t] \cup {EmptyRoot} = {r \in Roots : TipAnchor(t, r).entered}
         /\ \A t \in ShieldedTypes : Written(tip).hashAnchor[t] = TipBestAnchor(t)
         /\ Written(tip).hashBlock = TipBestBlock
<1> DEFINE coins == [k \in Txids |-> IF tip.coins[k].dirty THEN tip.coins[k].coins ELSE db.coins[k]]
<1> DEFINE nullifiers == Stored(tip.nullifiers, db.nullifiers, Nullifiers)
<1> DEFINE anchors == [t \in ShieldedTypes |->
                         Stored(tip.anchors[t], db.anchors[t], Roots \ {EmptyRoot})]
<1> DEFINE hashAnchor == [t \in ShieldedTypes |->
                            IF tip.hashAnchor[t] = NullHash THEN db.hashAnchor[t]
                            ELSE tip.hashAnchor[t]]
<1> DEFINE hashBlock == IF tip.hashBlock = NullHash THEN db.hashBlock ELSE tip.hashBlock
<1>1. /\ tip.coins \in [Txids -> CoinsEntry]
      /\ tip.hashAnchor \in [ShieldedTypes -> Roots \cup {NullHash}]
      /\ tip.hashBlock \in Blocks \cup {NullHash}
  BY CacheParts DEF TypeOK
<1>2. /\ db.coins \in [Txids -> SUBSET Outputs]
      /\ db.hashAnchor \in [ShieldedTypes -> Roots]
      /\ db.hashBlock \in Blocks \cup {NullHash}
  BY DEF TypeOK, Database
<1>3. coins \in [Txids -> SUBSET Outputs]
  BY <1>1, <1>2 DEF CoinsEntry
<1>4. nullifiers \in SUBSET Nullifiers /\ anchors \in [ShieldedTypes -> SUBSET (Roots \ {EmptyRoot})]
  BY DEF Stored
<1>5. hashAnchor \in [ShieldedTypes -> Roots] /\ hashBlock \in Blocks \cup {NullHash}
  BY <1>1, <1>2
<1>6. ASSUME NEW k \in Txids
      PROVE  coins[k] = TipCoins(k).coins
  <2>1. /\ ~tip.coins[k].cached => tip.coins[k] = NoCoins
        /\ tip.coins[k].cached /\ ~tip.coins[k].dirty => tip.coins[k].coins = db.coins[k]
    BY DEF TipInv, TipCoinsInv
  <2> QED
    BY <1>2, <2>1, NoCoinsFields, CoinsReadFields DEF TipCoins
<1>7. ASSUME NEW n \in Nullifiers
      PROVE  n \in nullifiers <=> TipNullifier(n).entered
  <2>1. /\ ~tip.nullifiers[n].cached => tip.nullifiers[n] = NoMark
        /\ tip.nullifiers[n].cached /\ ~tip.nullifiers[n].dirty
             => (tip.nullifiers[n].entered <=> n \in db.nullifiers)
    BY DEF TipInv, TipNullifiersInv
  <2>2. n \in nullifiers <=> IF tip.nullifiers[n].dirty THEN tip.nullifiers[n].entered
                             ELSE n \in db.nullifiers
    BY DEF Stored
  <2>3. CASE tip.nullifiers[n].cached
    BY <2>1, <2>2, <2>3 DEF TipNullifier
  <2>4. CASE ~tip.nullifiers[n].cached
    <3>1. TipNullifier(n) = IF n \in db.nullifiers THEN MarkRead(TRUE) ELSE MarkRead(FALSE)
      BY <2>4, MarkReadCases, Zenon DEF TipNullifier
    <3> QED
      BY <2>1, <2>2, <2>4, <3>1, MarkFields
  <2> QED
    BY <2>3, <2>4
<1>8. ASSUME NEW t \in ShieldedTypes, NEW r \in Roots
      PROVE  r \in anchors[t] \cup {EmptyRoot} <=> TipAnchor(t, r).entered
  <2>1. /\ ~tip.anchors[t][r].cached => tip.anchors[t][r] = NoMark
        /\ tip.anchors[t][r].cached /\ ~tip.anchors[t][r].dirty
             => tip.anchors[t][r].entered /\ r \in db.anchors[t] \cup {EmptyRoot}
        /\ r = EmptyRoot /\ tip.anchors[t][r].cached => tip.anchors[t][r].entered
    BY DEF TipInv, TipAnchorsInv
  <2>2. r \in anchors[t] \cup {EmptyRoot} <=>
          r = EmptyRoot \/ IF tip.anchors[t][r].dirty THEN tip.anchors[t][r].entered
                           ELSE r \in db.anchors[t]
    BY DEF Stored
  <2> QED
    BY <2>1, <2>2, MarkFields DEF TipAnchor
<1>9. \A t \in ShieldedTypes : hashAnchor[t] = TipBestAnchor(t)
  BY DEF TipBestAnchor
<1>10. hashBlock = TipBestBlock
  BY DEF TipBestBlock
<1>11. Written(tip) = [coins |-> coins, nullifiers |-> nullifiers, anchors |-> anchors,
                       hashAnchor |-> hashAnchor, hashBlock |-> hashBlock]
  BY Zenon DEF Written
<1> HIDE DEF coins, nullifiers, anchors, hashAnchor, hashBlock
<1>12. Written(tip) \in Database
  BY <1>3, <1>4, <1>5, <1>11 DEF Database
<1>13. /\ Written(tip).coins = coins /\ Written(tip).nullifiers = nullifiers
       /\ Written(tip).anchors = anchors /\ Written(tip).hashAnchor = hashAnchor
       /\ Written(tip).hashBlock = hashBlock
  BY <1>11
<1>14. nullifiers = {n \in Nullifiers : TipNullifier(n).entered}
  BY <1>4, <1>7
<1>15. \A t \in ShieldedTypes : anchors[t] \cup {EmptyRoot} = {r \in Roots : TipAnchor(t, r).entered}
  BY <1>4, <1>8
<1> QED
  BY <1>6, <1>9, <1>10, <1>12, <1>13, <1>14, <1>15

(* FlushTip writes what pcoinsTip answers and goes on answering it. *)
LEMMA FlushTipStep ==
  ASSUME IInv, FlushTip
  PROVE  /\ TypeOK' /\ DbInv' /\ TipEmpty' /\ view' = EmptyCache
         /\ DbLedger' = TipLedger
         /\ ~open /\ open' = open
<1>1. /\ ~open /\ open' = open /\ view = EmptyCache /\ view' = EmptyCache
      /\ db' = Written(tip) /\ tip' = Flushed(tip)
  BY DEF IInv, ClosedIsEmpty, FlushTip
<1>2. TypeOK /\ TipInv /\ tip \in Cache
  BY TipInvHolds DEF IInv, TypeOK
<1>3. /\ db' \in Database
      /\ \A k \in Txids : db'.coins[k] = TipCoins(k).coins
      /\ db'.nullifiers = {n \in Nullifiers : TipNullifier(n).entered}
      /\ \A t \in ShieldedTypes :
           db'.anchors[t] \cup {EmptyRoot} = {r \in Roots : TipAnchor(t, r).entered}
      /\ \A t \in ShieldedTypes : db'.hashAnchor[t] = TipBestAnchor(t)
      /\ db'.hashBlock = TipBestBlock
  BY <1>1, <1>2, WrittenFields, Zenon
<1>4. /\ tip' \in Cache
      /\ tip'.coins = EmptyCache.coins /\ tip'.nullifiers = EmptyCache.nullifiers
      /\ tip'.anchors = EmptyCache.anchors
      /\ tip'.hashAnchor = tip.hashAnchor /\ tip'.hashBlock = tip.hashBlock
  BY <1>1, <1>2, EmptyCacheType DEF Flushed, Cache
<1>5. TypeOK'
  BY <1>1, <1>2, <1>3, <1>4, EmptyCacheType DEF TypeOK
<1>6. TipEmpty'
  <2>1. /\ \A k \in Txids : tip'.coins[k] = NoCoins
        /\ \A n \in Nullifiers : tip'.nullifiers[n] = NoMark
        /\ \A t \in ShieldedTypes, r \in Roots : tip'.anchors[t][r] = NoMark
    BY <1>4, EmptyCacheFields
  <2>2. /\ \A t \in ShieldedTypes : tip'.hashAnchor[t] \in {NullHash, db'.hashAnchor[t]}
        /\ tip'.hashBlock \in {NullHash, db'.hashBlock}
    BY <1>3, <1>4 DEF TipBestAnchor, TipBestBlock
  <2> QED
    BY <2>1, <2>2 DEF TipEmpty
<1>7. DbInv'
  <2>1. ASSUME NEW t \in ShieldedTypes
        PROVE  /\ db'.hashAnchor[t] \in db'.anchors[t] \cup {EmptyRoot}
               /\ \A r \in db'.anchors[t] \cup {EmptyRoot} : r =< db'.hashAnchor[t]
    <3>1. TipBestAnchor(t) \in Roots
      BY <1>2, ReadTypes
    <3>2. /\ TipAnchor(t, TipBestAnchor(t)).entered
          /\ \A r \in Roots : TipAnchor(t, r).entered => r =< TipBestAnchor(t)
      BY <1>2 DEF TipInv, TipBestInv
    <3>3. TipBestAnchor(t) \in db'.anchors[t] \cup {EmptyRoot}
      BY <1>3, <3>1, <3>2
    <3>4. \A r \in db'.anchors[t] \cup {EmptyRoot} : r =< TipBestAnchor(t)
      BY <1>3, <3>2
    <3> QED
      BY <1>3, <3>3, <3>4
  <2> QED
    BY <2>1 DEF DbInv
<1>8. DbLedger' = TipLedger
  <2>1. db'.coins = [k \in Txids |-> TipCoins(k).coins]
    BY <1>3 DEF Database
  <2>2. [t \in ShieldedTypes |-> db'.anchors[t] \cup {EmptyRoot}]
          = [t \in ShieldedTypes |-> {r \in Roots : TipAnchor(t, r).entered}]
    BY <1>3
  <2> QED
    BY <1>3, <2>1, <2>2, Zenon DEF DbLedger, TipLedger
<1> QED
  BY <1>1, <1>5, <1>6, <1>7, <1>8

--------------------------------------------------------------------------------
(***************************************************************************)
(* Flushing the view: pcoinsTip answers what the view answered.            *)
(***************************************************************************)
(* What BatchWrite makes of a transaction's entry.  A dirty entry that     *)
(* pcoinsTip does not have is FRESH, so that the database has nothing      *)
(* unspent under it and may be left alone or taken to be empty.            *)
LEMMA MergedCoins ==
  ASSUME TypeOK, open, NEW k \in Txids, CoinsAt(k),
         NEW m, m = MergeCoins(view.coins[k], tip.coins[k])
  PROVE  /\ m \in CoinsEntry
         /\ ~m.cached => m = NoCoins
         /\ m.cached => (~m.dirty => m.coins = db.coins[k]) /\ (m.fresh => db.coins[k] = {})
         /\ (IF m.cached \/ db.coins[k] = {} THEN m ELSE CoinsRead(db.coins[k])).coins
              = ViewCoins(k).coins
<1>1. /\ view.coins[k] \in CoinsEntry /\ tip.coins[k] \in CoinsEntry
      /\ db.coins[k] \in SUBSET Outputs
  BY CacheParts DEF TypeOK, Database
<1>2. /\ TipCoins(k) \in CoinsEntry /\ TipCoins(k).coins \in SUBSET Outputs
      /\ tip.coins[k].cached => TipCoins(k) = tip.coins[k]
      /\ ~TipCoins(k).cached => TipCoins(k) = NoCoins /\ db.coins[k] = {} /\ ~tip.coins[k].cached
  BY TipCoinsFacts DEF CoinsEntry
<1>3. CASE ~view.coins[k].dirty
  <2>1. m = tip.coins[k]
    BY <1>3 DEF MergeCoins
  <2>2. TipCoins(k) = IF m.cached \/ db.coins[k] = {} THEN m ELSE CoinsRead(db.coins[k])
    BY <2>1 DEF TipCoins
  <2>3. ViewCoins(k).coins = TipCoins(k).coins
    BY <1>2, <1>3, NoCoinsFields, CoinsReadFields DEF ViewCoins, CoinsAt
  <2> QED
    BY <1>1, <2>1, <2>2, <2>3 DEF CoinsAt
<1>4. CASE view.coins[k].dirty
  <2>1. view.coins[k].cached /\ ViewCoins(k) = view.coins[k]
    BY <1>4, NoCoinsFields DEF CoinsAt, ViewCoins
  <2>2. CASE ~tip.coins[k].cached
    <3>1. db.coins[k] = {}
      BY <1>1, <2>1, <2>2, CoinsReadFields DEF CoinsAt, TipCoins
    <3>2. CASE view.coins[k].coins = {}
      BY <1>4, <2>1, <2>2, <3>1, <3>2, NoCoinsFields DEF MergeCoins
    <3>3. CASE view.coins[k].coins # {}
      <4>1. m = [cached |-> TRUE, coins |-> view.coins[k].coins, dirty |-> TRUE, fresh |-> TRUE]
        BY <1>4, <2>2, <3>3 DEF MergeCoins
      <4>2. m \in CoinsEntry /\ m.cached /\ m.dirty /\ m.coins = view.coins[k].coins
        BY <1>1, <4>1 DEF CoinsEntry
      <4> QED
        BY <2>1, <3>1, <4>2
    <3> QED
      BY <3>2, <3>3
  <2>3. CASE tip.coins[k].cached
    <3>1. CASE tip.coins[k].fresh /\ view.coins[k].coins = {}
      BY <1>4, <2>1, <2>3, <3>1, NoCoinsFields DEF MergeCoins, CoinsAt
    <3>2. CASE ~(tip.coins[k].fresh /\ view.coins[k].coins = {})
      <4>1. m = [tip.coins[k] EXCEPT !.coins = view.coins[k].coins, !.dirty = TRUE]
        BY <1>4, <2>3, <3>2 DEF MergeCoins
      <4>2. /\ m \in CoinsEntry /\ m.cached /\ m.dirty /\ m.coins = view.coins[k].coins
            /\ m.fresh <=> tip.coins[k].fresh
        BY <1>1, <2>3, <4>1 DEF CoinsEntry
      <4> QED
        BY <2>1, <2>3, <4>2 DEF CoinsAt
    <3> QED
      BY <3>1, <3>2
  <2> QED
    BY <2>2, <2>3
<1> QED
  BY <1>3, <1>4

(* What BatchWrite makes of a nullifier. *)
LEMMA MergedNullifier ==
  ASSUME TypeOK, NEW n \in Nullifiers, NullifierAt(n),
         NEW m, m = MergeMark(view.nullifiers[n], tip.nullifiers[n])
  PROVE  /\ m \in MarkEntry
         /\ ~m.cached => m = NoMark
         /\ m.cached /\ ~m.dirty => (m.entered <=> n \in db.nullifiers)
         /\ IF m.cached THEN m.entered <=> ViewNullifier(n).entered
            ELSE n \in db.nullifiers <=> ViewNullifier(n).entered
<1>1. view.nullifiers[n] \in MarkEntry /\ tip.nullifiers[n] \in MarkEntry
  BY CacheParts DEF TypeOK
<1>2. /\ tip.nullifiers[n].cached => TipNullifier(n) = tip.nullifiers[n]
      /\ ~tip.nullifiers[n].cached => (TipNullifier(n).entered <=> n \in db.nullifiers)
  <2>1. CASE tip.nullifiers[n].cached
    BY <2>1, NullifierReads
  <2>2. CASE ~tip.nullifiers[n].cached
    <3>1. TipNullifier(n) = IF n \in db.nullifiers THEN MarkRead(TRUE) ELSE MarkRead(FALSE)
      BY <2>2, MarkReadCases, Zenon DEF TipNullifier
    <3> QED
      BY <2>2, <3>1, MarkFields
  <2> QED
    BY <2>1, <2>2
<1>3. /\ view.nullifiers[n].cached => ViewNullifier(n) = view.nullifiers[n]
      /\ ~view.nullifiers[n].dirty => (ViewNullifier(n).entered <=> TipNullifier(n).entered)
  <2>1. CASE view.nullifiers[n].cached
    BY <2>1, NullifierReads
  <2>2. CASE ~view.nullifiers[n].cached
    <3>1. TipNullifier(n).entered \in BOOLEAN
      BY NullifierReads DEF MarkEntry
    <3>2. ViewNullifier(n) = IF TipNullifier(n).entered THEN MarkRead(TRUE) ELSE MarkRead(FALSE)
      BY <2>2, <3>1, MarkCases, Zenon DEF ViewNullifier
    <3> QED
      BY <2>2, <3>2, MarkFields
  <2> QED
    BY <2>1, <2>2
<1>4. CASE ~view.nullifiers[n].dirty
  <2>1. m = tip.nullifiers[n]
    BY <1>4 DEF MergeMark
  <2> QED
    BY <1>1, <1>2, <1>3, <1>4, <2>1 DEF NullifierAt
<1>5. CASE view.nullifiers[n].dirty
  <2>1. view.nullifiers[n].cached
    BY <1>5, MarkFields DEF NullifierAt
  <2>2. CASE tip.nullifiers[n].cached /\ tip.nullifiers[n].entered = view.nullifiers[n].entered
    <3>1. m = tip.nullifiers[n]
      BY <2>2 DEF MergeMark
    <3> QED
      BY <1>1, <1>3, <2>1, <2>2, <3>1 DEF NullifierAt
  <2>3. CASE ~(tip.nullifiers[n].cached /\ tip.nullifiers[n].entered = view.nullifiers[n].entered)
    <3>1. m = MarkWritten(view.nullifiers[n].entered)
      BY <1>5, <2>3 DEF MergeMark
    <3>2. view.nullifiers[n].entered \in BOOLEAN
      BY <1>1 DEF MarkEntry
    <3>3. m = IF view.nullifiers[n].entered THEN MarkWritten(TRUE) ELSE MarkWritten(FALSE)
      BY <3>1, <3>2, MarkCases, Zenon
    <3> QED
      BY <1>3, <2>1, <3>3, MarkFields
  <2> QED
    BY <2>2, <2>3
<1> QED
  BY <1>4, <1>5

(* What BatchWrite makes of an anchor. *)
LEMMA MergedAnchor ==
  ASSUME TypeOK, NEW t \in ShieldedTypes, NEW r \in Roots, AnchorAt(t, r),
         NEW m, m = MergeMark(view.anchors[t][r], tip.anchors[t][r])
  PROVE  /\ m \in MarkEntry
         /\ ~m.cached => m = NoMark
         /\ m.cached /\ ~m.dirty => m.entered /\ r \in db.anchors[t] \cup {EmptyRoot}
         /\ r = EmptyRoot /\ m.cached => m.entered
         /\ IF m.cached THEN m.entered <=> ViewAnchor(t, r).entered
            ELSE r \in db.anchors[t] \cup {EmptyRoot} <=> ViewAnchor(t, r).entered
<1>1. view.anchors[t][r] \in MarkEntry /\ tip.anchors[t][r] \in MarkEntry
  BY CacheParts DEF TypeOK
<1>2. /\ tip.anchors[t][r].cached => TipAnchor(t, r) = tip.anchors[t][r]
      /\ ~tip.anchors[t][r].cached =>
           (TipAnchor(t, r).entered <=> r \in db.anchors[t] \cup {EmptyRoot})
  BY MarkFields DEF TipAnchor, AnchorAt
<1>3. /\ view.anchors[t][r].cached => ViewAnchor(t, r) = view.anchors[t][r]
      /\ ~view.anchors[t][r].dirty => (ViewAnchor(t, r).entered <=> TipAnchor(t, r).entered)
  BY MarkFields DEF ViewAnchor, AnchorAt
<1>4. CASE ~view.anchors[t][r].dirty
  <2>1. m = tip.anchors[t][r]
    BY <1>4 DEF MergeMark
  <2> QED
    BY <1>1, <1>2, <1>3, <1>4, <2>1 DEF AnchorAt
<1>5. CASE view.anchors[t][r].dirty
  <2>1. view.anchors[t][r].cached
    BY <1>5, MarkFields DEF AnchorAt
  <2>2. CASE tip.anchors[t][r].cached /\ tip.anchors[t][r].entered = view.anchors[t][r].entered
    <3>1. m = tip.anchors[t][r]
      BY <2>2 DEF MergeMark
    <3> QED
      BY <1>1, <1>3, <2>1, <2>2, <3>1 DEF AnchorAt
  <2>3. CASE ~(tip.anchors[t][r].cached /\ tip.anchors[t][r].entered = view.anchors[t][r].entered)
    <3>1. m = MarkWritten(view.anchors[t][r].entered)
      BY <1>5, <2>3 DEF MergeMark
    <3>2. view.anchors[t][r].entered \in BOOLEAN
      BY <1>1 DEF MarkEntry
    <3>3. m = IF view.anchors[t][r].entered THEN MarkWritten(TRUE) ELSE MarkWritten(FALSE)
      BY <3>1, <3>2, MarkCases, Zenon
    <3> QED
      BY <1>3, <2>1, <3>3, MarkFields DEF AnchorAt
  <2> QED
    BY <2>2, <2>3
<1> QED
  BY <1>4, <1>5

(* FlushView makes pcoinsTip answer what the view answered. *)
LEMMA FlushViewStep ==
  ASSUME IInv, FlushView
  PROVE  /\ TypeOK' /\ TipInv' /\ view' = EmptyCache
         /\ DbLedger' = DbLedger /\ TipLedger' = ViewLedger
         /\ open /\ open' = FALSE
<1>1. /\ open /\ open' = FALSE /\ view' = EmptyCache /\ db' = db
      /\ view.hashBlock # NullHash /\ tip' = Merge(view, tip)
  BY DEF FlushView
<1>2. TypeOK /\ tip \in Cache /\ view \in Cache
  BY DEF IInv, TypeOK
<1>3. /\ tip'.coins = [k \in Txids |-> MergeCoins(view.coins[k], tip.coins[k])]
      /\ tip'.nullifiers = [n \in Nullifiers |-> MergeMark(view.nullifiers[n], tip.nullifiers[n])]
      /\ tip'.anchors = [t \in ShieldedTypes |-> [r \in Roots |->
                           MergeMark(view.anchors[t][r], tip.anchors[t][r])]]
      /\ tip'.hashAnchor = view.hashAnchor /\ tip'.hashBlock = view.hashBlock
  BY <1>1 DEF Merge
<1>4. ASSUME NEW k \in Txids
      PROVE  LET m == tip'.coins[k] IN
             /\ m \in CoinsEntry
             /\ ~m.cached => m = NoCoins
             /\ m.cached => (~m.dirty => m.coins = db.coins[k]) /\ (m.fresh => db.coins[k] = {})
             /\ (IF m.cached \/ db.coins[k] = {} THEN m ELSE CoinsRead(db.coins[k])).coins
                  = ViewCoins(k).coins
  <2>1. CoinsAt(k)
    BY CoinsByKey DEF IInv, CoinsPart
  <2>2. tip'.coins[k] = MergeCoins(view.coins[k], tip.coins[k])
    BY <1>3
  <2> QED
    BY <1>1, <1>2, <2>1, <2>2, MergedCoins
<1>5. ASSUME NEW n \in Nullifiers
      PROVE  LET m == tip'.nullifiers[n] IN
             /\ m \in MarkEntry
             /\ ~m.cached => m = NoMark
             /\ m.cached /\ ~m.dirty => (m.entered <=> n \in db.nullifiers)
             /\ IF m.cached THEN m.entered <=> ViewNullifier(n).entered
                ELSE n \in db.nullifiers <=> ViewNullifier(n).entered
  <2>1. NullifierAt(n)
    BY DEF IInv, NullifierEntries, NullifierAt
  <2>2. tip'.nullifiers[n] = MergeMark(view.nullifiers[n], tip.nullifiers[n])
    BY <1>3
  <2> QED
    BY <1>2, <2>1, <2>2, MergedNullifier
<1>6. ASSUME NEW t \in ShieldedTypes, NEW r \in Roots
      PROVE  LET m == tip'.anchors[t][r] IN
             /\ m \in MarkEntry
             /\ ~m.cached => m = NoMark
             /\ m.cached /\ ~m.dirty => m.entered /\ r \in db.anchors[t] \cup {EmptyRoot}
             /\ r = EmptyRoot /\ m.cached => m.entered
             /\ IF m.cached THEN m.entered <=> ViewAnchor(t, r).entered
                ELSE r \in db.anchors[t] \cup {EmptyRoot} <=> ViewAnchor(t, r).entered
  <2>1. AnchorAt(t, r)
    BY DEF IInv, AnchorEntries, AnchorAt
  <2>2. tip'.anchors[t][r] = MergeMark(view.anchors[t][r], tip.anchors[t][r])
    BY <1>3
  <2> QED
    BY <1>2, <2>1, <2>2, MergedAnchor
<1>7. TypeOK'
  <2>1. /\ tip'.coins \in [Txids -> CoinsEntry]
        /\ tip'.nullifiers \in [Nullifiers -> MarkEntry]
        /\ tip'.anchors \in [ShieldedTypes -> [Roots -> MarkEntry]]
    BY <1>3, <1>4, <1>5, <1>6
  <2>2. /\ tip'.hashAnchor \in [ShieldedTypes -> Roots \cup {NullHash}]
        /\ tip'.hashBlock \in Blocks \cup {NullHash}
    BY <1>2, <1>3, CacheParts
  <2>3. tip' \in Cache
    <3>1. tip' = [coins |-> tip'.coins, nullifiers |-> tip'.nullifiers, anchors |-> tip'.anchors,
                  hashAnchor |-> tip'.hashAnchor, hashBlock |-> tip'.hashBlock]
      BY <1>1 DEF Merge
    <3> QED
      BY <2>1, <2>2, <3>1 DEF Cache
  <2> QED
    BY <1>1, <1>2, <2>3, EmptyCacheType DEF TypeOK
<1>8. \A k \in Txids : TipCoins(k).coins' = ViewCoins(k).coins
  BY <1>1, <1>4 DEF TipCoins
<1>9. ASSUME NEW n \in Nullifiers
      PROVE  TipNullifier(n).entered' <=> ViewNullifier(n).entered
  <2>1. CASE tip'.nullifiers[n].cached
    BY <1>5, <2>1 DEF TipNullifier
  <2>2. CASE ~tip'.nullifiers[n].cached
    <3>1. TipNullifier(n)' = IF n \in db.nullifiers THEN MarkRead(TRUE) ELSE MarkRead(FALSE)
      BY <1>1, <2>2, MarkReadCases, Zenon DEF TipNullifier
    <3> QED
      BY <1>5, <2>2, <3>1, MarkFields
  <2> QED
    BY <2>1, <2>2
<1>10. ASSUME NEW t \in ShieldedTypes, NEW r \in Roots
       PROVE  TipAnchor(t, r).entered' <=> ViewAnchor(t, r).entered
  <2>1. TipAnchor(t, r)' = IF tip'.anchors[t][r].cached \/ r \notin db.anchors[t] \cup {EmptyRoot}
                           THEN tip'.anchors[t][r] ELSE MarkRead(TRUE)
    BY <1>1 DEF TipAnchor
  <2>2. CASE tip'.anchors[t][r].cached
    BY <1>6, <2>1, <2>2
  <2>3. CASE ~tip'.anchors[t][r].cached /\ r \in db.anchors[t] \cup {EmptyRoot}
    <3>1. TipAnchor(t, r)' = MarkRead(TRUE)
      BY <2>1, <2>3
    <3>2. ViewAnchor(t, r).entered
      BY <1>6, <2>3
    <3>3. MarkRead(TRUE).entered
      BY MarkFields
    <3> QED
      BY <3>1, <3>2, <3>3
  <2>4. CASE ~tip'.anchors[t][r].cached /\ r \notin db.anchors[t] \cup {EmptyRoot}
    <3>1. TipAnchor(t, r)' = NoMark
      BY <1>6, <2>1, <2>4
    <3> QED
      BY <1>6, <2>4, <3>1, MarkFields
  <2> QED
    BY <2>2, <2>3, <2>4
<1>11. \A t \in ShieldedTypes : TipBestAnchor(t)' = ViewBestAnchor(t)
  <2>1. CASE \A t \in ShieldedTypes : view.hashAnchor[t] # NullHash
    BY <1>3, <2>1 DEF TipBestAnchor, ViewBestAnchor
  <2>2. CASE /\ TipBestBlock = NullHash
             /\ view = [EmptyCache EXCEPT !.hashBlock = view.hashBlock]
    <3>1. \A t \in ShieldedTypes : view.hashAnchor[t] = NullHash
      <4>1. view.hashAnchor = EmptyCache.hashAnchor
        BY <2>2, EmptyCacheType DEF Cache
      <4> QED
        BY <4>1, EmptyCacheFields
    <3>2. tip.hashBlock = NullHash
      BY <2>2 DEF TipBestBlock
    <3>3. \A t \in ShieldedTypes : TipBestAnchor(t) = db.hashAnchor[t]
      BY <3>2 DEF IInv, NothingToWrite, TipBestAnchor
    <3> QED
      BY <1>1, <1>3, <3>1, <3>3 DEF TipBestAnchor, ViewBestAnchor
  <2> QED
    BY <2>1, <2>2 DEF FlushView
<1>12. TipBestBlock' = ViewBestBlock
  BY <1>1, <1>3 DEF TipBestBlock, ViewBestBlock
<1>13. TipInv'
  <2>1. TipCoinsInv'
    BY <1>1, <1>4 DEF TipCoinsInv
  <2>2. TipNullifiersInv'
    BY <1>1, <1>5 DEF TipNullifiersInv
  <2>3. TipAnchorsInv'
    BY <1>1, <1>6 DEF TipAnchorsInv
  <2>4. NothingToWrite'
    BY <1>1, <1>3 DEF NothingToWrite
  <2>5. TipBestInv'
    <3>1. ASSUME NEW t \in ShieldedTypes
          PROVE  /\ TipAnchor(t, TipBestAnchor(t)).entered'
                 /\ \A r \in Roots : TipAnchor(t, r).entered' => r =< TipBestAnchor(t)'
      <4>1. ViewBestAnchor(t) \in Roots
        BY <1>2, ReadTypes
      <4>2. /\ ViewAnchor(t, ViewBestAnchor(t)).entered
            /\ \A r \in Roots : ViewAnchor(t, r).entered => r =< ViewBestAnchor(t)
        BY DEF IInv, BestAnchors
      <4>3. TipAnchor(t, TipBestAnchor(t)).entered'
        BY <1>10, <1>11, <4>1, <4>2
      <4> QED
        BY <1>10, <1>11, <4>2, <4>3
    <3>2. ASSUME NEW t \in ShieldedTypes
          PROVE  /\ db'.hashAnchor[t] \in db'.anchors[t] \cup {EmptyRoot}
                 /\ \A r \in db'.anchors[t] \cup {EmptyRoot} : r =< db'.hashAnchor[t]
      BY <1>1 DEF IInv, BestAnchors
    <3> QED
      BY <3>1, <3>2 DEF TipBestInv
  <2> QED
    BY <2>1, <2>2, <2>3, <2>4, <2>5 DEF TipInv
<1>14. TipLedger' = ViewLedger
  <2>1. {n \in Nullifiers : TipNullifier(n).entered}' = {n \in Nullifiers : ViewNullifier(n).entered}
    BY <1>9
  <2>2. [t \in ShieldedTypes |-> {r \in Roots : TipAnchor(t, r).entered}]'
          = [t \in ShieldedTypes |-> {r \in Roots : ViewAnchor(t, r).entered}]
    <3>1. \A t \in ShieldedTypes :
            {r \in Roots : TipAnchor(t, r).entered}' = {r \in Roots : ViewAnchor(t, r).entered}
      BY <1>10
    <3> QED
      BY <3>1
  <2>3. [k \in Txids |-> TipCoins(k).coins]' = [k \in Txids |-> ViewCoins(k).coins]
    BY <1>8
  <2> QED
    BY <1>12, <2>1, <2>2, <2>3, Zenon DEF TipLedger, ViewLedger
<1>15. DbLedger' = DbLedger
  BY <1>1 DEF DbLedger
<1> QED
  BY <1>1, <1>7, <1>13, <1>14, <1>15

(* OpenView and DiscardView leave an empty view over an untouched pcoinsTip. *)
LEMMA EmptiedViewStep ==
  ASSUME IInv, OpenView \/ DiscardView
  PROVE  /\ TypeOK' /\ TipInv' /\ view' = EmptyCache
         /\ DbLedger' = DbLedger /\ TipLedger' = TipLedger
         /\ ((~open /\ open' = TRUE) \/ (open /\ open' = FALSE))
<1>1. /\ db' = db /\ tip' = tip /\ view' = EmptyCache
      /\ ((~open /\ open' = TRUE) \/ (open /\ open' = FALSE))
  BY DEF OpenView, DiscardView
<1>2. TypeOK /\ TipInv
  BY TipInvHolds DEF IInv
<1>3. TypeOK'
  BY <1>1, <1>2, EmptyCacheType DEF TypeOK
<1> QED
  BY <1>1, <1>2, <1>3, TipInvFrame

(* After a crash the node starts from the database with empty caches. *)
LEMMA CrashStep ==
  ASSUME IInv, Crash
  PROVE  /\ TypeOK' /\ DbInv' /\ TipEmpty' /\ view' = EmptyCache
         /\ DbLedger' = DbLedger /\ open' = FALSE
<1>1. db' = db /\ tip' = EmptyCache /\ view' = EmptyCache /\ open' = FALSE
  BY DEF Crash
<1>2. TypeOK'
  BY <1>1, EmptyCacheType DEF IInv, TypeOK
<1>3. DbInv'
  BY <1>1 DEF IInv, BestAnchors, DbInv
<1>4. TipEmpty'
  BY <1>1, EmptyCacheFields DEF TipEmpty
<1> QED
  BY <1>1, <1>2, <1>3, <1>4 DEF DbLedger

--------------------------------------------------------------------------------
(***************************************************************************)
(* The steps of the caches as steps of the ledgers.                        *)
(***************************************************************************)
(* Every level answers as before. *)
LEMMA LedgerStutter ==
  ASSUME SameCoins, SameNullifiers, SameAnchors, SameBlock, open' = open
  PROVE  UNCHANGED Ledger!vars
BY SameLedgers DEF Ledger!vars

(* The database and pcoinsTip answer as before. *)
LEMMA LedgersBelow ==
  ASSUME db' = db,
         \A k \in Txids : TipCoins(k).coins' = TipCoins(k).coins,
         \A n \in Nullifiers : TipNullifier(n).entered' = TipNullifier(n).entered,
         \A t \in ShieldedTypes, r \in Roots : TipAnchor(t, r).entered' = TipAnchor(t, r).entered,
         TipBestBlock' = TipBestBlock
  PROVE  DbLedger' = DbLedger /\ TipLedger' = TipLedger
BY DEF DbLedger, TipLedger

(* The parts of the view's ledger, and a ledger with one part replaced. *)
MakeLedger(c, n, a, b) == [coins |-> c, nullifiers |-> n, anchors |-> a, block |-> b]

WorkingCoins == [k \in Txids |-> ViewCoins(k).coins]
WorkingNullifiers == {n \in Nullifiers : ViewNullifier(n).entered}
WorkingAnchors == [t \in ShieldedTypes |-> {r \in Roots : ViewAnchor(t, r).entered}]

Put(f, k, v) == [f EXCEPT ![k] = v]
SetCoins(l, k, v) == [l EXCEPT !.coins[k] = v]
SetNull(l, S) == [l EXCEPT !.nullifiers = S]
SetAnchors(l, t, S) == [l EXCEPT !.anchors[t] = S]
SetBlock(l, x) == [l EXCEPT !.block = x]

(* Replacing one part of a ledger. *)
LEMMA LedgerUpdate ==
  ASSUME NEW c, NEW n, NEW a, NEW b
  PROVE  /\ MakeLedger(c, n, a, b).nullifiers = n
         /\ MakeLedger(c, n, a, b).anchors = a
         /\ \A S : SetNull(MakeLedger(c, n, a, b), S) = MakeLedger(c, S, a, b)
         /\ \A x : SetBlock(MakeLedger(c, n, a, b), x) = MakeLedger(c, n, a, x)
BY DEF MakeLedger, SetNull, SetBlock

(* The same for one transaction and for one pool. *)
LEMMA LedgerUpdateAt ==
  ASSUME NEW c, NEW n, NEW a, NEW b, NEW k, NEW v
  PROVE  /\ SetCoins(MakeLedger(c, n, a, b), k, v) = MakeLedger(Put(c, k, v), n, a, b)
         /\ SetAnchors(MakeLedger(c, n, a, b), k, v) = MakeLedger(c, n, Put(a, k, v), b)
BY DEF MakeLedger, SetCoins, SetAnchors, Put

(* The ledger of the view, in parts. *)
LEMMA ViewLedgerParts ==
  /\ ViewLedger = MakeLedger(WorkingCoins, WorkingNullifiers, WorkingAnchors, ViewBestBlock)
  /\ ViewLedger' = MakeLedger(WorkingCoins', WorkingNullifiers', WorkingAnchors', ViewBestBlock')
BY Zenon DEF ViewLedger, MakeLedger, WorkingCoins, WorkingNullifiers, WorkingAnchors

(* Parts whose answers are unchanged. *)
LEMMA WorkingFrame ==
  /\ SameCoins => WorkingCoins' = WorkingCoins
  /\ SameNullifiers => WorkingNullifiers' = WorkingNullifiers
  /\ SameAnchors => WorkingAnchors' = WorkingAnchors
BY DEF SameCoins, SameNullifiers, SameAnchors, WorkingCoins, WorkingNullifiers, WorkingAnchors

(* ModifyCoins as Modify. *)
LEMMA LedgerModify ==
  ASSUME NEW k \in Txids, NEW v \in SUBSET Outputs,
         open, open' = open, DbLedger' = DbLedger, TipLedger' = TipLedger,
         \A j \in Txids : j # k => ViewCoins(j).coins' = ViewCoins(j).coins,
         ViewCoins(k).coins' = v,
         SameNullifiers, SameAnchors, SameBlock
  PROVE  Ledger!Modify(k, v)
<1>1. WorkingCoins' = Put(WorkingCoins, k, v)
  BY DEF WorkingCoins, Put
<1>2. ViewBestBlock' = ViewBestBlock
  BY DEF SameBlock
<1>3. ViewLedger' = SetCoins(ViewLedger, k, v)
  BY <1>1, <1>2, LedgerUpdateAt, ViewLedgerParts, WorkingFrame
<1> QED
  BY <1>3, Zenon DEF Ledger!Modify, Ledger!Work, SetCoins

(* SetNullifiers as Nullify. *)
LEMMA LedgerNullify ==
  ASSUME NEW n \in Nullifiers, NEW spent \in BOOLEAN,
         open, open' = open, DbLedger' = DbLedger, TipLedger' = TipLedger,
         \A m \in Nullifiers : m # n => ViewNullifier(m).entered' = ViewNullifier(m).entered,
         ViewNullifier(n).entered' <=> spent,
         SameCoins, SameAnchors, SameBlock
  PROVE  Ledger!Nullify(n, spent)
<1>1. WorkingNullifiers' = IF spent THEN WorkingNullifiers \cup {n} ELSE WorkingNullifiers \ {n}
  <2>1. \A m \in Nullifiers : m # n => (ViewNullifier(m).entered' <=> ViewNullifier(m).entered)
    OBVIOUS
  <2> QED
    BY <2>1 DEF WorkingNullifiers
<1>2. ViewBestBlock' = ViewBestBlock
  BY DEF SameBlock
<1>3. ViewLedger.nullifiers = WorkingNullifiers
  BY ViewLedgerParts, LedgerUpdate
<1>4. ViewLedger' = SetNull(ViewLedger, WorkingNullifiers')
  BY <1>2, ViewLedgerParts, LedgerUpdate, WorkingFrame
<1>5. ViewLedger' = SetNull(ViewLedger, IF spent THEN ViewLedger.nullifiers \cup {n}
                                        ELSE ViewLedger.nullifiers \ {n})
  BY <1>1, <1>3, <1>4, Zenon
<1> QED
  BY <1>5, Zenon DEF Ledger!Nullify, Ledger!Work, SetNull

(* A change of one pool's anchors. *)
LEMMA LedgerAnchors ==
  ASSUME NEW t \in ShieldedTypes, NEW S, SameCoins, SameNullifiers, SameBlock,
         WorkingAnchors' = Put(WorkingAnchors, t, S)
  PROVE  /\ ViewLedger.anchors = WorkingAnchors
         /\ ViewLedger' = SetAnchors(ViewLedger, t, S)
<1>1. ViewBestBlock' = ViewBestBlock
  BY DEF SameBlock
<1>2. ViewLedger.anchors = WorkingAnchors
  BY ViewLedgerParts, LedgerUpdate
<1>3. ViewLedger' = SetAnchors(ViewLedger, t, S)
  BY <1>1, LedgerUpdateAt, ViewLedgerParts, WorkingFrame
<1> QED
  BY <1>2, <1>3

(* PushAnchor as Push. *)
LEMMA LedgerPush ==
  ASSUME NEW t \in ShieldedTypes, NEW r \in Roots,
         open, open' = open, DbLedger' = DbLedger, TipLedger' = TipLedger,
         \A q \in Roots : ViewAnchor(t, q).entered => q < r,
         \A u \in ShieldedTypes, q \in Roots :
           u # t \/ q # r => ViewAnchor(u, q).entered' = ViewAnchor(u, q).entered,
         ViewAnchor(t, r).entered',
         SameCoins, SameNullifiers, SameBlock
  PROVE  Ledger!Push(t, r)
<1>1. WorkingAnchors' = Put(WorkingAnchors, t, WorkingAnchors[t] \cup {r})
  <2>1. \A q \in Roots : q # r => (ViewAnchor(t, q).entered' <=> ViewAnchor(t, q).entered)
    OBVIOUS
  <2>2. WorkingAnchors'[t] = WorkingAnchors[t] \cup {r}
    BY <2>1 DEF WorkingAnchors
  <2>3. \A u \in ShieldedTypes : u # t => WorkingAnchors'[u] = WorkingAnchors[u]
    BY DEF WorkingAnchors
  <2> QED
    BY <2>2, <2>3 DEF WorkingAnchors, Put
<1>2. \A x \in WorkingAnchors[t] : x < r
  BY DEF WorkingAnchors
<1>3. /\ ViewLedger.anchors = WorkingAnchors
      /\ ViewLedger' = SetAnchors(ViewLedger, t, WorkingAnchors[t] \cup {r})
  BY <1>1, LedgerAnchors, Zenon
<1> QED
  BY <1>2, <1>3, Zenon DEF Ledger!Push, Ledger!Work, SetAnchors

(* PopAnchor as Pop. *)
LEMMA LedgerPop ==
  ASSUME NEW t \in ShieldedTypes, NEW r \in Roots,
         open, open' = open, DbLedger' = DbLedger, TipLedger' = TipLedger,
         r # EmptyRoot, ViewAnchor(t, r).entered,
         \A q \in Roots : ViewAnchor(t, q).entered => q =< r,
         \A u \in ShieldedTypes, q \in Roots :
           u # t \/ q # r => ViewAnchor(u, q).entered' = ViewAnchor(u, q).entered,
         ~ViewAnchor(t, r).entered',
         SameCoins, SameNullifiers, SameBlock
  PROVE  Ledger!Pop(t, r)
<1>1. WorkingAnchors' = Put(WorkingAnchors, t, WorkingAnchors[t] \ {r})
  <2>1. \A q \in Roots : q # r => (ViewAnchor(t, q).entered' <=> ViewAnchor(t, q).entered)
    OBVIOUS
  <2>2. WorkingAnchors'[t] = WorkingAnchors[t] \ {r}
    BY <2>1 DEF WorkingAnchors
  <2>3. \A u \in ShieldedTypes : u # t => WorkingAnchors'[u] = WorkingAnchors[u]
    BY DEF WorkingAnchors
  <2> QED
    BY <2>2, <2>3 DEF WorkingAnchors, Put
<1>2. r \in WorkingAnchors[t] /\ \A x \in WorkingAnchors[t] : x =< r
  BY DEF WorkingAnchors
<1>3. /\ ViewLedger.anchors = WorkingAnchors
      /\ ViewLedger' = SetAnchors(ViewLedger, t, WorkingAnchors[t] \ {r})
  BY <1>1, LedgerAnchors, Zenon
<1>4. r # Ledger!EmptyRoot
  BY DEF EmptyRoot, Ledger!EmptyRoot
<1> QED
  BY <1>2, <1>3, <1>4, Zenon DEF Ledger!Pop, Ledger!Work, Ledger!IsLatest, SetAnchors

(* SetBestBlock as SetBest. *)
LEMMA LedgerSetBest ==
  ASSUME NEW b \in Blocks,
         open, open' = open, DbLedger' = DbLedger, TipLedger' = TipLedger,
         ViewBestBlock' = b, SameCoins, SameNullifiers, SameAnchors
  PROVE  Ledger!SetBest(b)
<1>1. ViewLedger' = SetBlock(ViewLedger, b)
  BY ViewLedgerParts, LedgerUpdate, WorkingFrame
<1> QED
  BY <1>1, Zenon DEF Ledger!SetBest, Ledger!Work, SetBlock

--------------------------------------------------------------------------------
LedgerStep == Ledger!Next \/ UNCHANGED Ledger!vars

(* A step that keeps a view open, or closed, and its parts of the invariant. *)
LEMMA KeepsInvariant ==
  ASSUME IInv, TypeOK', CoinsPart', NullifierEntries', AnchorsPart', open' = open,
         open \/ view' = view
  PROVE  IInv'
<1>1. ClosedIsEmpty'
  BY DEF IInv, ClosedIsEmpty
<1> QED
  BY <1>1 DEF IInv, CoinsPart, AnchorsPart

(* A step that ends with an empty view over a sound pcoinsTip. *)
LEMMA EmptyViewNext ==
  ASSUME TypeOK', TipInv', view' = EmptyCache
  PROVE  IInv' /\ ViewLedger' = TipLedger'
<1>1. (TypeOK /\ TipInv /\ view = EmptyCache => IInv /\ ViewRepeats)'
  BY EmptyView, PTL
<1>2. (ViewRepeats => ViewLedger = TipLedger)'
  BY RepeatedLedger, PTL
<1>3. EmptyCache' = EmptyCache
  BY DEF EmptyCache, NoCoins, NoMark
<1> QED
  BY <1>1, <1>2, <1>3

(* A step that ends with an empty pcoinsTip over the database. *)
LEMMA EmptyTipNext ==
  ASSUME TypeOK', DbInv', TipEmpty', view' = EmptyCache
  PROVE  IInv' /\ TipLedger' = DbLedger' /\ ViewLedger' = DbLedger'
<1>1. (TypeOK /\ DbInv /\ TipEmpty => TipInv /\ TipRepeats)'
  BY EmptyTip, PTL
<1>2. (TypeOK /\ TipRepeats => TipLedger = DbLedger)'
  BY RepeatedDatabase, PTL
<1>3. TipInv' /\ TipLedger' = DbLedger'
  BY <1>1, <1>2
<1> QED
  BY <1>3, EmptyViewNext

(* A closed view stands for pcoinsTip's ledger. *)
LEMMA ClosedRepeats ==
  ASSUME IInv, ~open
  PROVE  ViewLedger = TipLedger
BY EmptyView, RepeatedLedger, TipInvHolds DEF IInv, ClosedIsEmpty

(* Reads and writes of coins. *)
LEMMA CoinsActions ==
  ASSUME IInv, NEW k \in Txids,
         FetchCoins(k) \/ \E v \in SUBSET Outputs : ModifyCoins(k, v)
  PROVE  IInv' /\ LedgerStep
<1>1. TypeOK /\ CoinsPart /\ NullifierEntries /\ AnchorsPart
  BY DEF IInv, CoinsPart, AnchorsPart
<1>2. CASE FetchCoins(k)
  <2>1. /\ TypeOK' /\ CoinsPart' /\ SameCoins
        /\ NullifiersUntouched /\ AnchorsUntouched /\ BlockUntouched
    BY <1>1, <1>2, FetchCoinsStep
  <2>2. open' = open /\ (open \/ view' = view)
    BY <1>2 DEF FetchCoins
  <2>3. NullifierEntries' /\ SameNullifiers /\ AnchorsPart' /\ SameAnchors /\ SameBlock
    BY <1>1, <2>1, NullifiersFrame, AnchorsFrame, BlockFrame
  <2> QED
    BY <2>1, <2>2, <2>3, KeepsInvariant, LedgerStutter DEF LedgerStep
<1>3. ASSUME NEW v \in SUBSET Outputs, ModifyCoins(k, v)
      PROVE  IInv' /\ LedgerStep
  <2>1. /\ TypeOK' /\ CoinsPart'
        /\ open /\ open' = open /\ db' = db
        /\ \A j \in Txids : TipCoins(j).coins' = TipCoins(j).coins
        /\ \A j \in Txids : j # k => ViewCoins(j).coins' = ViewCoins(j).coins
        /\ ViewCoins(k).coins' = v
        /\ NullifiersUntouched /\ AnchorsUntouched /\ BlockUntouched
    BY <1>1, <1>3, ModifyCoinsStep
  <2>2. NullifierEntries' /\ SameNullifiers /\ AnchorsPart' /\ SameAnchors /\ SameBlock
    BY <1>1, <2>1, NullifiersFrame, AnchorsFrame, BlockFrame
  <2>3. IInv'
    BY <2>1, <2>2, KeepsInvariant
  <2>4. DbLedger' = DbLedger /\ TipLedger' = TipLedger
    BY <2>1, <2>2, LedgersBelow DEF SameNullifiers, SameAnchors, SameBlock
  <2>5. Ledger!Modify(k, v)
    BY <2>1, <2>2, <2>4, LedgerModify
  <2> QED
    BY <2>3, <2>5, Zenon DEF LedgerStep, Ledger!Next
<1> QED
  BY <1>2, <1>3

(* Reads and writes of nullifiers. *)
LEMMA NullifierActions ==
  ASSUME IInv, NEW n \in Nullifiers,
         GetNullifier(n) \/ \E spent \in BOOLEAN : SetNullifiers(n, spent)
  PROVE  IInv' /\ LedgerStep
<1>1. TypeOK /\ CoinsPart /\ NullifierEntries /\ AnchorsPart
  BY DEF IInv, CoinsPart, AnchorsPart
<1>2. CASE GetNullifier(n)
  <2>1. /\ TypeOK' /\ NullifierEntries' /\ SameNullifiers
        /\ CoinsUntouched /\ AnchorsUntouched /\ BlockUntouched
    BY <1>1, <1>2, GetNullifierStep
  <2>2. open' = open /\ (open \/ view' = view)
    BY <1>2 DEF GetNullifier
  <2>3. CoinsPart' /\ SameCoins /\ AnchorsPart' /\ SameAnchors /\ SameBlock
    BY <1>1, <2>1, CoinsFrame, AnchorsFrame, BlockFrame
  <2> QED
    BY <2>1, <2>2, <2>3, KeepsInvariant, LedgerStutter DEF LedgerStep
<1>3. ASSUME NEW spent \in BOOLEAN, SetNullifiers(n, spent)
      PROVE  IInv' /\ LedgerStep
  <2>1. /\ TypeOK' /\ NullifierEntries'
        /\ open /\ open' = open /\ db' = db
        /\ \A m \in Nullifiers : TipNullifier(m).entered' = TipNullifier(m).entered
        /\ \A m \in Nullifiers : m # n => ViewNullifier(m).entered' = ViewNullifier(m).entered
        /\ ViewNullifier(n).entered' <=> spent
        /\ CoinsUntouched /\ AnchorsUntouched /\ BlockUntouched
    BY <1>1, <1>3, SetNullifiersStep
  <2>2. CoinsPart' /\ SameCoins /\ AnchorsPart' /\ SameAnchors /\ SameBlock
    BY <1>1, <2>1, CoinsFrame, AnchorsFrame, BlockFrame
  <2>3. IInv'
    BY <2>1, <2>2, KeepsInvariant
  <2>4. DbLedger' = DbLedger /\ TipLedger' = TipLedger
    BY <2>1, <2>2, LedgersBelow DEF SameCoins, SameAnchors, SameBlock
  <2>5. Ledger!Nullify(n, spent)
    BY <2>1, <2>2, <2>4, LedgerNullify
  <2> QED
    BY <2>3, <2>5, Zenon DEF LedgerStep, Ledger!Next
<1> QED
  BY <1>2, <1>3

(* Reads and writes of anchors. *)
LEMMA AnchorActions ==
  ASSUME IInv, NEW t \in ShieldedTypes, NEW r \in Roots,
         GetBestAnchor(t) \/ GetAnchorAt(t, r) \/ PushAnchor(t, r) \/ PopAnchor(t, r)
  PROVE  IInv' /\ LedgerStep
<1>1. TypeOK /\ CoinsPart /\ NullifierEntries /\ AnchorsPart
  BY DEF IInv, CoinsPart, AnchorsPart
<1>2. CASE GetBestAnchor(t) \/ GetAnchorAt(t, r)
  <2>1. /\ TypeOK' /\ AnchorsPart' /\ SameAnchors
        /\ CoinsUntouched /\ NullifiersUntouched /\ BlockUntouched
    BY <1>1, <1>2, GetBestAnchorStep, GetAnchorAtStep
  <2>2. open' = open /\ (open \/ view' = view)
    BY <1>2 DEF GetBestAnchor, GetAnchorAt
  <2>3. CoinsPart' /\ SameCoins /\ NullifierEntries' /\ SameNullifiers /\ SameBlock
    BY <1>1, <2>1, CoinsFrame, NullifiersFrame, BlockFrame
  <2> QED
    BY <2>1, <2>2, <2>3, KeepsInvariant, LedgerStutter DEF LedgerStep
<1>3. CASE PushAnchor(t, r)
  <2>1. /\ TypeOK' /\ AnchorsPart'
        /\ open /\ open' = open /\ db' = db
        /\ \A u \in ShieldedTypes, q \in Roots : TipAnchor(u, q).entered' = TipAnchor(u, q).entered
        /\ \A u \in ShieldedTypes, q \in Roots :
             u # t \/ q # r => ViewAnchor(u, q).entered' = ViewAnchor(u, q).entered
        /\ \/ ViewAnchor(t, r).entered' = ViewAnchor(t, r).entered
           \/ /\ \A q \in Roots : ViewAnchor(t, q).entered => q < r
              /\ ViewAnchor(t, r).entered'
        /\ CoinsUntouched /\ NullifiersUntouched /\ BlockUntouched
    BY <1>1, <1>3, PushAnchorStep
  <2>2. CoinsPart' /\ SameCoins /\ NullifierEntries' /\ SameNullifiers /\ SameBlock
    BY <1>1, <2>1, CoinsFrame, NullifiersFrame, BlockFrame
  <2>3. IInv'
    BY <2>1, <2>2, KeepsInvariant
  <2>4. CASE ViewAnchor(t, r).entered' = ViewAnchor(t, r).entered
    <3>1. SameAnchors
      BY <2>1, <2>4 DEF SameAnchors
    <3> QED
      BY <2>1, <2>2, <2>3, <3>1, LedgerStutter DEF LedgerStep
  <2>5. CASE (\A q \in Roots : ViewAnchor(t, q).entered => q < r) /\ ViewAnchor(t, r).entered'
    <3>1. DbLedger' = DbLedger /\ TipLedger' = TipLedger
      BY <2>1, <2>2, LedgersBelow DEF SameCoins, SameNullifiers, SameBlock
    <3>2. Ledger!Push(t, r)
      BY <2>1, <2>2, <2>5, <3>1, LedgerPush
    <3> QED
      BY <2>3, <3>2, Zenon DEF LedgerStep, Ledger!Next
  <2> QED
    BY <2>1, <2>4, <2>5
<1>4. CASE PopAnchor(t, r)
  <2>1. ViewBestAnchor(t) \in Roots
    BY <1>1, ReadTypes
  <2>2. PICK current \in Roots : current = ViewBestAnchor(t)
    BY <2>1
  <2>3. /\ TypeOK' /\ AnchorsPart'
        /\ open /\ open' = open /\ db' = db
        /\ \A u \in ShieldedTypes, q \in Roots : TipAnchor(u, q).entered' = TipAnchor(u, q).entered
        /\ \A u \in ShieldedTypes, q \in Roots :
             u # t \/ q # current => ViewAnchor(u, q).entered' = ViewAnchor(u, q).entered
        /\ current # EmptyRoot /\ ViewAnchor(t, current).entered
        /\ \A q \in Roots : ViewAnchor(t, q).entered => q =< current
        /\ ~ViewAnchor(t, current).entered'
        /\ CoinsUntouched /\ NullifiersUntouched /\ BlockUntouched
    BY <1>1, <1>4, <2>2, PopAnchorStep
  <2>4. CoinsPart' /\ SameCoins /\ NullifierEntries' /\ SameNullifiers /\ SameBlock
    BY <1>1, <2>3, CoinsFrame, NullifiersFrame, BlockFrame
  <2>5. IInv'
    BY <2>3, <2>4, KeepsInvariant
  <2>6. DbLedger' = DbLedger /\ TipLedger' = TipLedger
    BY <2>3, <2>4, LedgersBelow DEF SameCoins, SameNullifiers, SameBlock
  <2>7. Ledger!Pop(t, current)
    BY <2>3, <2>4, <2>6, LedgerPop
  <2> QED
    BY <2>5, <2>7, Zenon DEF LedgerStep, Ledger!Next
<1> QED
  BY <1>2, <1>3, <1>4

(* Reads and writes of the best block. *)
LEMMA BlockActions ==
  ASSUME IInv, GetBestBlock \/ \E b \in Blocks : SetBestBlock(b)
  PROVE  IInv' /\ LedgerStep
<1>1. TypeOK /\ CoinsPart /\ NullifierEntries /\ AnchorsPart
  BY DEF IInv, CoinsPart, AnchorsPart
<1>2. CASE GetBestBlock
  <2>1. TypeOK' /\ SameBlock /\ CoinsUntouched /\ NullifiersUntouched /\ AnchorsUntouched
    BY <1>1, <1>2, GetBestBlockStep
  <2>2. open' = open /\ (open \/ view' = view)
    BY <1>2 DEF GetBestBlock
  <2>3. /\ CoinsPart' /\ SameCoins /\ NullifierEntries' /\ SameNullifiers
        /\ AnchorsPart' /\ SameAnchors
    BY <1>1, <2>1, CoinsFrame, NullifiersFrame, AnchorsFrame
  <2> QED
    BY <2>1, <2>2, <2>3, KeepsInvariant, LedgerStutter DEF LedgerStep
<1>3. ASSUME NEW b \in Blocks, SetBestBlock(b)
      PROVE  IInv' /\ LedgerStep
  <2>1. /\ TypeOK'
        /\ open /\ open' = open /\ db' = db
        /\ TipBestBlock' = TipBestBlock /\ ViewBestBlock' = b
        /\ CoinsUntouched /\ NullifiersUntouched /\ AnchorsUntouched
    BY <1>1, <1>3, SetBestBlockStep
  <2>2. /\ CoinsPart' /\ SameCoins /\ NullifierEntries' /\ SameNullifiers
        /\ AnchorsPart' /\ SameAnchors
    BY <1>1, <2>1, CoinsFrame, NullifiersFrame, AnchorsFrame
  <2>3. IInv'
    BY <2>1, <2>2, KeepsInvariant
  <2>4. DbLedger' = DbLedger /\ TipLedger' = TipLedger
    BY <2>1, <2>2, LedgersBelow DEF SameCoins, SameNullifiers, SameAnchors
  <2>5. Ledger!SetBest(b)
    BY <2>1, <2>2, <2>4, LedgerSetBest
  <2> QED
    BY <2>3, <2>5, Zenon DEF LedgerStep, Ledger!Next
<1> QED
  BY <1>2, <1>3

(* Opening, flushing and discarding the view, flushing pcoinsTip, crashing. *)
LEMMA LevelActions ==
  ASSUME IInv, OpenView \/ FlushView \/ DiscardView \/ FlushTip \/ Crash
  PROVE  IInv' /\ LedgerStep
<1>1. CASE OpenView \/ DiscardView
  <2>1. /\ TypeOK' /\ TipInv' /\ view' = EmptyCache
        /\ DbLedger' = DbLedger /\ TipLedger' = TipLedger
        /\ ((~open /\ open' = TRUE) \/ (open /\ open' = FALSE))
    BY <1>1, EmptiedViewStep
  <2>2. IInv' /\ ViewLedger' = TipLedger'
    BY <2>1, EmptyViewNext
  <2>3. Ledger!Open \/ Ledger!Discard
    BY <2>1, <2>2 DEF Ledger!Open, Ledger!Discard
  <2> QED
    BY <2>2, <2>3 DEF LedgerStep, Ledger!Next
<1>2. CASE FlushView
  <2>1. /\ TypeOK' /\ TipInv' /\ view' = EmptyCache
        /\ DbLedger' = DbLedger /\ TipLedger' = ViewLedger
        /\ open /\ open' = FALSE
    BY <1>2, FlushViewStep
  <2>2. IInv' /\ ViewLedger' = TipLedger'
    BY <2>1, EmptyViewNext
  <2>3. Ledger!Commit
    BY <2>1, <2>2 DEF Ledger!Commit
  <2> QED
    BY <2>2, <2>3 DEF LedgerStep, Ledger!Next
<1>3. CASE FlushTip
  <2>1. /\ TypeOK' /\ DbInv' /\ TipEmpty' /\ view' = EmptyCache
        /\ DbLedger' = TipLedger
        /\ ~open /\ open' = open
    BY <1>3, FlushTipStep
  <2>2. IInv' /\ TipLedger' = DbLedger' /\ ViewLedger' = DbLedger'
    BY <2>1, EmptyTipNext
  <2>3. Ledger!Flush
    BY <2>1, <2>2, ClosedRepeats DEF Ledger!Flush
  <2> QED
    BY <2>2, <2>3 DEF LedgerStep, Ledger!Next
<1>4. CASE Crash
  <2>1. /\ TypeOK' /\ DbInv' /\ TipEmpty' /\ view' = EmptyCache
        /\ DbLedger' = DbLedger /\ open' = FALSE
    BY <1>4, CrashStep
  <2>2. IInv' /\ TipLedger' = DbLedger' /\ ViewLedger' = DbLedger'
    BY <2>1, EmptyTipNext
  <2>3. Ledger!Crash
    BY <2>1, <2>2 DEF Ledger!Crash
  <2> QED
    BY <2>2, <2>3 DEF LedgerStep, Ledger!Next
<1> QED
  BY <1>1, <1>2, <1>3, <1>4

--------------------------------------------------------------------------------
(* A new database under empty caches. *)
LEMMA InitInvariant ==
  ASSUME Init
  PROVE  IInv /\ Ledger!Init
<1>1. TypeOK
  <2>1. db \in Database
    BY DEF Init, Database
  <2> QED
    BY <2>1, EmptyCacheType DEF Init, TypeOK
<1>2. DbInv
  BY DEF Init, DbInv, EmptyRoot
<1>3. TipEmpty
  BY EmptyCacheFields DEF Init, TipEmpty
<1>4. view = EmptyCache
  BY DEF Init
<1>5. TipInv /\ TipRepeats
  BY <1>1, <1>2, <1>3, EmptyTip
<1>6. IInv /\ ViewRepeats
  BY <1>1, <1>4, <1>5, EmptyView
<1>7. TipLedger = DbLedger /\ ViewLedger = DbLedger
  BY <1>1, <1>5, <1>6, RepeatedLedger, RepeatedDatabase
<1>8. DbLedger = Ledger!NewLedger
  <2>1. \A t \in ShieldedTypes : db.anchors[t] \cup {EmptyRoot} = {EmptyRoot}
    BY DEF Init
  <2>2. [t \in ShieldedTypes |-> db.anchors[t] \cup {EmptyRoot}]
          = [t \in ShieldedTypes |-> {EmptyRoot}]
    BY <2>1
  <2>3. /\ db.coins = [k \in Txids |-> {}]
        /\ db.nullifiers = {}
        /\ db.hashBlock = NullHash
    BY DEF Init
  <2> QED
    BY <2>2, <2>3
    DEF DbLedger, Ledger!NewLedger, NullHash, EmptyRoot, Ledger!NullHash, Ledger!EmptyRoot
<1> QED
  BY <1>6, <1>7, <1>8 DEF Init, Ledger!Init

(* A stuttering step. *)
LEMMA StutterStep ==
  ASSUME IInv, UNCHANGED vars
  PROVE  IInv' /\ LedgerStep
<1>1. TypeOK /\ CoinsPart /\ NullifierEntries /\ AnchorsPart
  BY DEF IInv, CoinsPart, AnchorsPart
<1>2. CoinsUntouched /\ NullifiersUntouched /\ AnchorsUntouched /\ BlockUntouched
  BY DEF vars, CoinsUntouched, NullifiersUntouched, AnchorsUntouched, BlockUntouched
<1>3. TypeOK' /\ open' = open /\ view' = view
  BY <1>1 DEF vars, TypeOK
<1>4. /\ CoinsPart' /\ SameCoins /\ NullifierEntries' /\ SameNullifiers
      /\ AnchorsPart' /\ SameAnchors /\ SameBlock
  BY <1>1, <1>2, CoinsFrame, NullifiersFrame, AnchorsFrame, BlockFrame
<1> QED
  BY <1>3, <1>4, KeepsInvariant, LedgerStutter DEF LedgerStep

(* Every step keeps the invariant and is a step of the ledgers. *)
LEMMA NextStep ==
  ASSUME IInv, [Next]_vars
  PROVE  IInv' /\ LedgerStep
<1>1. CASE \E k \in Txids : FetchCoins(k) \/ \E v \in SUBSET Outputs : ModifyCoins(k, v)
  BY <1>1, CoinsActions
<1>2. CASE \E n \in Nullifiers : GetNullifier(n) \/ \E spent \in BOOLEAN : SetNullifiers(n, spent)
  BY <1>2, NullifierActions
<1>3. CASE \E t \in ShieldedTypes, r \in Roots :
             GetBestAnchor(t) \/ GetAnchorAt(t, r) \/ PushAnchor(t, r) \/ PopAnchor(t, r)
  BY <1>3, AnchorActions
<1>4. CASE GetBestBlock \/ \E b \in Blocks : SetBestBlock(b)
  BY <1>4, BlockActions
<1>5. CASE OpenView \/ FlushView \/ DiscardView \/ FlushTip \/ Crash
  BY <1>5, LevelActions
<1>6. CASE UNCHANGED vars
  BY <1>6, StutterStep
<1>7. \A t \in ShieldedTypes : GetBestAnchor(t) => \E r \in Roots : GetBestAnchor(t)
  OBVIOUS
<1> QED
  BY <1>1, <1>2, <1>3, <1>4, <1>5, <1>6, <1>7, Zenon DEF Next

(* The invariant gives the property that names the ledgers. *)
LEMMA LatestHolds == IInv => BestAnchorLatest
<1> SUFFICES ASSUME IInv, NEW t \in ShieldedTypes
             PROVE  /\ Ledger!IsLatest(DbLedger.anchors[t], db.hashAnchor[t])
                    /\ Ledger!IsLatest(TipLedger.anchors[t], TipBestAnchor(t))
                    /\ Ledger!IsLatest(ViewLedger.anchors[t], ViewBestAnchor(t))
  BY DEF BestAnchorLatest
<1>1. TypeOK /\ BestAnchors
  BY DEF IInv
<1>2. TipBestAnchor(t) \in Roots /\ ViewBestAnchor(t) \in Roots
  BY <1>1, ReadTypes
<1>3. /\ DbLedger.anchors[t] = db.anchors[t] \cup {EmptyRoot}
      /\ TipLedger.anchors[t] = {r \in Roots : TipAnchor(t, r).entered}
      /\ ViewLedger.anchors[t] = {r \in Roots : ViewAnchor(t, r).entered}
  BY DEF DbLedger, TipLedger, ViewLedger
<1>4. Ledger!IsLatest(DbLedger.anchors[t], db.hashAnchor[t])
  BY <1>1, <1>3 DEF BestAnchors, Ledger!IsLatest
<1>5. Ledger!IsLatest(TipLedger.anchors[t], TipBestAnchor(t))
  BY <1>1, <1>2, <1>3 DEF BestAnchors, Ledger!IsLatest
<1>6. Ledger!IsLatest(ViewLedger.anchors[t], ViewBestAnchor(t))
  BY <1>1, <1>2, <1>3 DEF BestAnchors, Ledger!IsLatest
<1> QED
  BY <1>4, <1>5, <1>6

--------------------------------------------------------------------------------
(* The inductive invariant holds in every state. *)
THEOREM Invariance == Spec => []IInv
<1>1. Init => IInv
  BY InitInvariant
<1>2. IInv /\ [Next]_vars => IInv'
  BY NextStep
<1> QED
  BY <1>1, <1>2, PTL DEF Spec

(* Type correctness of the database and the caches (CCoinsViewDB,          *)
(* CCoinsViewCache): the stored best anchor is never null, whatever hashes *)
(* a flush passes down.                                                    *)
THEOREM TypeCorrect == Spec => []TypeOK
<1>1. IInv => TypeOK
  BY DEF IInv
<1> QED
  BY <1>1, Invariance, PTL

(* DIRTY and FRESH are sound hints in every interleaving of reads, writes, *)
(* flushes and crashes, and the assertion of CCoinsViewCache::BatchWrite   *)
(* on the FRESH flag holds.                                                *)
THEOREM HintsAreSound == Spec => []HintsSound
<1>1. IInv => HintsSound
  BY DEF IInv
<1> QED
  BY <1>1, Invariance, PTL

(* At each level GetBestAnchor names the latest anchor that GetAnchorAt    *)
(* finds there: the assertions of ConnectBlock, ConnectTip and             *)
(* DisconnectTip.                                                          *)
THEOREM BestAnchorIsLatest == Spec => []BestAnchorLatest
BY LatestHolds, Invariance, PTL

(* The caches cannot be observed: every step of the stack of views is a    *)
(* step of the three ledgers of CoinsLedger, or leaves them alone.         *)
THEOREM Refinement == Spec => ImplementsLedger
<1>1. Init => Ledger!Init
  BY InitInvariant
<1>2. IInv /\ [Next]_vars => [Ledger!Next]_(Ledger!vars)
  BY NextStep DEF LedgerStep
<1> QED
  BY <1>1, <1>2, Invariance, PTL DEF Spec, ImplementsLedger, Ledger!Spec

================================================================================
