---------------------------- MODULE MCIngestion ----------------------------
(***************************************************************************)
(* An instance of Ingestion for TLC.                                       *)
(***************************************************************************)
EXTENDS Ingestion, TLC

CONSTANTS c1, c2, bad, r1, r2, q1

ThreeCves  == {c1, c2, bad}
BadCve     == {bad}
TwoRuns    == {r1, r2}
OneRequest == {q1}
Alike      == Permutations({c1, c2}) \union Permutations(TwoRuns)

CvePayload(url, fields, scores) ==
    [source |-> "CVE", url |-> url, fields |-> fields, scores |-> scores]
SiemPayload(epoch, labels) ==
    [source |-> "SIEM_ALERT", url |-> "none", epoch |-> epoch, labels |-> labels]
SyslogPayload(pri) == [source |-> "SYSLOG", url |-> "none", pri |-> pri]

\* Each adapter with each outcome, a refused URL and a source without adapter.
SamplePayloads ==
    {CvePayload("none", "readable", <<NoScore, 98, 50>>),
     CvePayload("allowed", "readable", <<NoScore, NoScore, NoScore>>),
     CvePayload("refused", "readable", <<75, NoScore, NoScore>>),
     CvePayload("none", "unreadable", <<0, NoScore, NoScore>>),
     CvePayload("none", "mistyped", <<0, NoScore, NoScore>>),
     SiemPayload("fits", <<"", "P1", "LOW", "">>),
     SiemPayload("fits", <<"MEDIUM", "", "", "">>),
     SiemPayload("overflow", <<"HIGH", "", "", "">>),
     SyslogPayload(11),
     SyslogPayload(NoPri),
     [source |-> "AUTH", url |-> "none"]}

\* The demo users' tokens, no token, and one with a role nobody knows.
SampleTokens ==
    Issued \union {[claims |-> "missing",  role |-> "unknown"],
                   [claims |-> "complete", role |-> "unknown"]}

=============================================================================
