--------------------------- MODULE MCRunbookStore ---------------------------
(***************************************************************************)
(* Instances of RunbookStore for TLC.                                      *)
(***************************************************************************)
EXTENDS RunbookStore

CONSTANTS r1, a1, u1

OneRetriever == {r1}
OneRequest   == {a1}
OneUuid      == {u1}
TwoFiles     == {"log4shell", "ssh"}

=============================================================================
