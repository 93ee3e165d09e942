---------------------------- MODULE MCChainState ----------------------------
(***************************************************************************)
(* A small block tree for TLC, or parts of it:                             *)
(*                                                                         *)
(*   g --- a1 --- a2 --- a3 --- a4                                         *)
(*           `--- b2 --- b3 --- b4                                         *)
(*                                                                         *)
(* Every block adds one unit of work, except the last b block: forkPower   *)
(* is the work of its chain and decides which branch is better.  In the    *)
(* runs with dPoW a3 carries a notarisation of a2 or, to see what happens  *)
(* when notaries follow the other branch, of b2.                           *)
(***************************************************************************)
EXTENDS ChainState, TLC

CONSTANTS g, a1, a2, a3, a4, b2, b3, b4, forkPower

Tree == a1 :> g @@ a2 :> a1 @@ a3 :> a2 @@ a4 :> a3 @@ b2 :> a1 @@ b3 :> b2 @@ b4 :> b3

MCParent == [b \in Blocks \ {g} |-> Tree[b]]

MCAncestors[b \in Blocks] ==
    IF b = g THEN {b} ELSE MCAncestors[Tree[b]] \cup {b}

ForkTip == CHOOSE b \in {b2, b3, b4} \cap Blocks :
               \A c \in {b2, b3, b4} \cap Blocks : c \in MCAncestors[b]

MCChainPower ==
    [b \in Blocks |-> IF b = ForkTip THEN forkPower ELSE Cardinality(MCAncestors[b])]

MCNotarises == [b \in Blocks |-> IF b = a3 THEN a2 ELSE None]
MCNotarisesFork == [b \in Blocks |-> IF b = a3 THEN b2 ELSE None]
MCNoNotarisation == [b \in Blocks |-> None]
=============================================================================
