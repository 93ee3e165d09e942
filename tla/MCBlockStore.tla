----------------------------- MODULE MCBlockStore -----------------------------
(* A chain of two blocks and a fork of one from the genesis block.  Block 2 *)
(* carries a notarisation of block 1.                                       *)
EXTENDS BlockStore

MCParent == [b \in Blocks |-> IF b = 2 THEN 1 ELSE 0]

MCNotarises == [b \in Blocks |-> IF b = 2 THEN 1 ELSE NoBlock]

================================================================================
