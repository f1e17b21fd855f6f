----------------------------- MODULE MCWorkers ------------------------------
(* Values for the constants of Workers. *)
EXTENDS Workers, TLC

CONSTANTS w1, w2, w3

MCExpansion == 1 .. 2
MCWorker == {w1, w2, w3}
MCStart == {w1, w2}
Interchangeable == Permutations(MCWorker)
=============================================================================
