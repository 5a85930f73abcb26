--------------------------- MODULE MCWorkerQueue ----------------------------
(* Two jobs for one device, on which one or two worker processes run. *)
EXTENDS WorkerQueue, TLC

CONSTANTS w1, w2, h1, h2

MCSymmetry == Permutations({w1, w2}) \cup Permutations({h1, h2})
=============================================================================
