----------------------------- MODULE MCFastSync -----------------------------
(* An instance of FastSync for TLC.                                        *)
EXTENDS FastSync

\* "a" and "b" are installs, "b" stated a block too high and listed last, "i" and
\* "j" are invalid, "d" is dropped; "o" lies below starting_height and "s" is one
\* of the two that are skipped.
MCContracts    == {"o", "s", "a", "i", "j", "d", "b"}
MCListedAt     == [o |-> 1, s |-> 2, a |-> 2, i |-> 3, j |-> 4, d |-> 5, b |-> 7]
MCRegistered   == [o |-> 0, s |-> 1, a |-> 1, i |-> 2, j |-> 3, d |-> 4, b |-> 5]
MCBlock_Height == [o |-> 0, s |-> 1, a |-> 1, i |-> 2, j |-> 3, d |-> 4, b |-> 4]
MCOutcome      == [o |-> "stage", s |-> "stage", a |-> "stage", i |-> "invalid",
                   j |-> "invalid", d |-> "drop", b |-> "stage"]
=============================================================================
