----------------------------- MODULE MCPipeline -----------------------------
(* Instances of Pipeline for TLC.                                          *)
EXTENDS Pipeline, TLC

\* Three heights: an SC transaction and a counted one, then an invalid
\* deploy, then an SC transaction and an ignored one.  Transactions are numbers.
Chain == 0 :> <<1, 11>> @@ 1 :> <<21>> @@ 2 :> <<2, 31>>

\* Two heights with one SC transaction each.
ShortChain == 0 :> <<1>> @@ 1 :> <<2, 11>>
=============================================================================
