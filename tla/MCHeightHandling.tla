--------------------------- MODULE MCHeightHandling ---------------------------
(* Instances of HeightHandling for TLC.                                    *)
EXTENDS HeightHandling, TLC

\* The workers run the same code on the same channel.
WorkerSymmetry == Permutations(Workers)
===============================================================================
