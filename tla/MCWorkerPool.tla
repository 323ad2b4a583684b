---------------------------- MODULE MCWorkerPool ----------------------------
(***************************************************************************)
(* Instances of WorkerPool for TLC.                                        *)
(***************************************************************************)
EXTENDS WorkerPoolLedger, TLC

CONSTANTS w1, w2

TwoWorkers == {w1, w2}

\* The workers differ in name only.
WorkerSymmetry == Permutations(Workers)

=============================================================================
