----------------------------- MODULE MCSessions -----------------------------
(* Small instances of Sessions for TLC.                                    *)
EXTENDS Sessions, TLC

CONSTANTS w1, w2, w3

MCWorkers == {w1, w2, w3}
MCSymmetry == Permutations(MCWorkers)
=============================================================================
