---------------------------- MODULE MCSecureOps ----------------------------
(***************************************************************************)
(* Instances of SecureOps for TLC.                                         *)
(***************************************************************************)
EXTENDS SecureOps, TLC

CONSTANTS w1, w2, a1, a2

TwoWorkers   == {w1, w2}
OneApprover  == {a1}
TwoApprovers == {a1, a2}

\* The workers, and the requests, differ in name only.
RunnerSymmetry == Permutations(Workers) \union Permutations(Approvers)

=============================================================================
