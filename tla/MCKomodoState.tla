--------------------------- MODULE MCKomodoState ---------------------------
(* Block 3 at height 3, the chain 4 - 5 - 6 on it with a second block 9 on *)
(* 4, and the branch 7 - 8.                                                *)
EXTENDS KomodoState, TLC

CONSTANTS k1, v1, n0, n1, n2, other

MCParent == 4 :> 3 @@ 5 :> 4 @@ 6 :> 5 @@ 7 :> 3 @@ 8 :> 7 @@ 9 :> 4
MCHeight == [b \in 1..6 |-> b] @@ 7 :> 4 @@ 8 :> 5 @@ 9 :> 5

Notarise(tx, block, MoM) ==
    [type |-> "notarise", tx |-> tx, notarized |-> MCHeight[block], hash |-> block, MoM |-> MoM]
Foreign(tx, height) ==
    [type |-> "notarise", tx |-> tx, notarized |-> height, hash |-> other, MoM |-> 0]
Ratify(tx, pubkeys) == [type |-> "ratify", tx |-> tx, pubkeys |-> pubkeys]
Kv(tx, height, value, days) ==
    [type |-> "kv", tx |-> tx,
     update |-> [key |-> k1, height |-> height, value |-> value, ok |-> TRUE,
                 flags |-> [days |-> days, protected |-> FALSE],
                 pubkey |-> None, sig |-> None, transfer |-> None]]

(* Block 7, lower than 5, carries the later notarisation, and 8 one of a   *)
(* block the node does not know.  Both branches ratify notaries, near the  *)
(* end of the table.  The key update of 5 is in a transaction that only    *)
(* its check scans; block 9 notarises in the wrong place.                  *)
MCOutputs ==
    4 :> <<Notarise(1, 1, 0)>>
    @@ 5 :> <<Notarise(1, 2, 1), Kv(2, 5, v1, 2)>>
    @@ 6 :> <<Ratify(1, n2)>>
    @@ 7 :> <<Notarise(1, 3, 0), Ratify(1, n1), Kv(1, 3, v1, 1)>>
    @@ 8 :> <<Ratify(1, n2), Foreign(1, 4)>>
    @@ 9 :> <<Notarise(2, 4, 0)>>
=============================================================================
