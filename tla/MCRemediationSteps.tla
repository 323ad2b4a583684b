------------------------- MODULE MCRemediationSteps -------------------------
(***************************************************************************)
(* An instance of RemediationSteps for TLC: every answer of up to five     *)
(* lines.                                                                  *)
(***************************************************************************)
EXTENDS RemediationSteps

ShortAnswers == UNION {[1..n -> LineKinds] : n \in 0..5}

=============================================================================
