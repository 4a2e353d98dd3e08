------------------------------ MODULE MCMinis ------------------------------
(* Instances of Minis for TLC.                                             *)
EXTENDS Minis, TLC

\* Three blocks; miner "x" has two miniblocks in the second.
ThreeBlocks == "b1" :> <<"x", "y">> @@ "b2" :> <<"x", "y", "x">> @@ "b3" :> <<"y">>
=============================================================================
