-------------------------- MODULE MCBlockDownload --------------------------
(* The block tree 0 - 1 - 2 with a side block 3 on 1: an honest peer on one *)
(* branch and another peer on the other.                                    *)
EXTENDS BlockDownload, TLC

CONSTANTS honest, other

MCParent == 1 :> 0 @@ 2 :> 1 @@ 3 :> 1
MCHeight == 0 :> 0 @@ 1 :> 1 @@ 2 :> 2 @@ 3 :> 2
MCPeerTip == honest :> 2 @@ other :> 3
=============================================================================
