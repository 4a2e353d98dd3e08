------------------------------ MODULE MCStore ------------------------------
(* An instance of Store for TLC.                                           *)
EXTENDS Store

Stage(id, scid, method, height, brief) ==
    [id |-> id, scid |-> scid, method |-> method, height |-> height,
     brief |-> brief]

\* A contract with two calls of one signer at one height whose txids agree in the
\* six characters that the key keeps, and a third call in a later block.
OneContract == {Stage(1, "x", "install", 1, "a"),
                Stage(2, "x", "invoke", 2, "b"),
                Stage(3, "x", "invoke", 2, "b"),
                Stage(4, "x", "invoke", 3, "c")}
=============================================================================
