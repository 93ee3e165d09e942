------------------------------ MODULE CoinsLedger ------------------------------
(***************************************************************************)
(* What the stack of coin views promises its callers, with no caches: the  *)
(* database holds one ledger (durable), the node works on a second one     *)
(* (committed, what pcoinsTip answers) and a block being connected or      *)
(* disconnected sees a third (working), which either replaces committed as *)
(* a whole or is forgotten.  A ledger is the set of unspent outputs of     *)
(* every transaction, the set of spent nullifiers, the anchors of each     *)
(* shielded pool that may be used, and the block it is the state of.       *)
(***************************************************************************)
EXTENDS Integers

CONSTANTS
  Txids,          \* transactions whose outputs may be unspent
  Outputs,        \* output indexes of a transaction
  Nullifiers,     \* nullifiers of spent notes, of both pools
  ShieldedTypes,  \* SPROUT, SAPLING
  Roots,          \* roots of a commitment tree, numbered as the tree grows
  Blocks          \* block hashes

NullHash == 0     \* uint256().IsNull()
EmptyRoot == 1    \* SproutMerkleTree::empty_root(), SaplingMerkleTree::empty_root()

Ledger ==
  [coins : [Txids -> SUBSET Outputs],
   nullifiers : SUBSET Nullifiers,
   anchors : [ShieldedTypes -> SUBSET Roots],
   block : Blocks \cup {NullHash}]

(***************************************************************************)
(* The tree of a pool only grows along a chain, so its latest anchor is    *)
(* the largest one.                                                        *)
(***************************************************************************)
IsLatest(S, r) == r \in S /\ \A x \in S : x =< r

VARIABLES durable, committed, working, open

vars == <<durable, committed, working, open>>

NewLedger ==
  [coins |-> [k \in Txids |-> {}],
   nullifiers |-> {},
   anchors |-> [t \in ShieldedTypes |-> {EmptyRoot}],
   block |-> NullHash]

Init ==
  /\ durable = NewLedger
  /\ committed = NewLedger
  /\ working = NewLedger
  /\ open = FALSE

(* A block is connected or disconnected on a copy of the committed ledger. *)
Open ==
  /\ ~open
  /\ open' = TRUE
  /\ working' = committed
  /\ UNCHANGED <<durable, committed>>

Work(ledger) ==
  /\ open
  /\ working' = ledger
  /\ UNCHANGED <<durable, committed, open>>

Modify(k, v) == Work([working EXCEPT !.coins[k] = v])

Nullify(n, spent) ==
  Work([working EXCEPT !.nullifiers =
          IF spent THEN working.nullifiers \cup {n} ELSE working.nullifiers \ {n}])

Push(t, r) ==
  /\ \A x \in working.anchors[t] : x < r
  /\ Work([working EXCEPT !.anchors[t] = working.anchors[t] \cup {r}])

Pop(t, r) ==
  /\ IsLatest(working.anchors[t], r)
  /\ r # EmptyRoot
  /\ Work([working EXCEPT !.anchors[t] = working.anchors[t] \ {r}])

SetBest(b) == Work([working EXCEPT !.block = b])

(* The working ledger replaces the committed one, or is forgotten.  While  *)
(* no block is being processed, working repeats committed.                 *)
Commit ==
  /\ open
  /\ open' = FALSE
  /\ committed' = working
  /\ UNCHANGED <<durable, working>>

Discard ==
  /\ open
  /\ open' = FALSE
  /\ working' = committed
  /\ UNCHANGED <<durable, committed>>

Flush ==
  /\ ~open
  /\ durable' = committed
  /\ UNCHANGED <<committed, working, open>>

(* Memory is lost, the database is not. *)
Crash ==
  /\ open' = FALSE
  /\ committed' = durable
  /\ working' = durable
  /\ UNCHANGED durable

Next ==
  \/ Open
  \/ \E k \in Txids, v \in SUBSET Outputs : Modify(k, v)
  \/ \E n \in Nullifiers, spent \in BOOLEAN : Nullify(n, spent)
  \/ \E t \in ShieldedTypes, r \in Roots : Push(t, r) \/ Pop(t, r)
  \/ \E b \in Blocks : SetBest(b)
  \/ Commit
  \/ Discard
  \/ Flush
  \/ Crash

Spec == Init /\ [][Next]_vars

================================================================================
