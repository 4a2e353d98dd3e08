-------------------------- MODULE MCVariableHistory --------------------------
(* Instances of VariableHistory for TLC.                                   *)
EXTENDS VariableHistory, TLC
=============================================================================
