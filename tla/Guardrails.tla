----------------------------- MODULE Guardrails -----------------------------
(***************************************************************************)
(* The checks of src/src/security/guardrails/ on texts that enter and      *)
(* leave the models, and the grader's reading of its judge's reply         *)
(* (src/src/agents/grader.py), as functions.                               *)
(*                                                                         *)
(* Of a text they keep what the patterns find in it, of a reply what       *)
(* json.loads and float make of it.  Scores are in tenths.                 *)
(***************************************************************************)
EXTENDS Integers

SOFT_SIGNAL_THRESHOLD == 3
HALLUCINATION_SCORE_THRESHOLD == 3
GRADE_PASS_THRESHOLD == 7

Scores == 0..10

-----------------------------------------------------------------------------
(* injection.py                                                            *)

\* l1: some pattern of the corpus matches; soft_signals: how many of the six
\* soft patterns do; verdict: what comes of asking the judge.
Texts ==
    [l1           : BOOLEAN,
     soft_signals : 0..6,
     verdict      : {"injection", "clean", "error"}]

\* _run_l2_judge: any exception, an unreadable reply included, is a "no".
JudgedInjection(text) == text.verdict = "injection"

\* InjectionCheck.check
InjectionBlocked(text, l2_enabled) ==
    \/ text.l1
    \/ /\ l2_enabled
       /\ text.soft_signals >= SOFT_SIGNAL_THRESHOLD
       /\ JudgedInjection(text)

-----------------------------------------------------------------------------
(* output_filter.py                                                        *)

Outputs == [injection_echo : BOOLEAN, prompt_leak : BOOLEAN]

\* OutputFilter.check, as remediation_node calls it.
OutputBlocked(output, retrieval_score) ==
    \/ output.injection_echo
    \/ output.prompt_leak
    \/ retrieval_score < HALLUCINATION_SCORE_THRESHOLD

-----------------------------------------------------------------------------
(* grader.py: _parse_grade_response                                        *)

NoNumber == -1

\* score: data["score"] as float() takes it.  "number" includes numeric
\* strings and infinities; "nan" is a float, too; "huge" is an integer that
\* no float holds; "unusable" is a reply that is no JSON, no object, has no
\* score, or one that float() refuses.  found: the first number between 0 and
\* 1 in the reply's text, rounded down to tenths.
Replies ==
    [score : [kind : {"number"}, tenths : Int]
             \union [kind : {"nan", "huge", "unusable"}],
     found : Scores \union {NoNumber}]

\* max(0.0, min(1.0, score))
Clamp(tenths) == IF tenths > 10 THEN 10 ELSE IF tenths < 0 THEN 0 ELSE tenths

\* float() of an integer beyond the floats raises OverflowError, which the
\* except clause does not list.
GradeRaises(reply) == reply.score.kind = "huge"

\* min(1.0, nan) is 1.0, as nan compares less than nothing.
ParseGrade(reply) ==
    CASE reply.score.kind = "number"   -> Clamp(reply.score.tenths)
      [] reply.score.kind = "nan"      -> 10
      [] reply.score.kind = "unusable" -> IF reply.found = NoNumber THEN 0 ELSE reply.found

=============================================================================
