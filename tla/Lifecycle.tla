----------------------------- MODULE Lifecycle -----------------------------
(***************************************************************************)
(* The stages an event goes through in the agent graph (graph/builder.py), *)
(* with the nodes between two stages taken together.  A file is what is on *)
(* record of an event: its stage, and how many approvals and reports its   *)
(* audit trail holds.  Incident is the lifecycle of one event built from   *)
(* these steps, SecureOps the whole system.                                *)
(***************************************************************************)
EXTENDS Naturals

\* "open": before the review (injection_check to remediation); "review": at
\* human_review; "cleared": at the reporter; "closed": at END.
Stages == {"new", "open", "review", "cleared", "closed"}

EventFiles == [stage : Stages, approved : Nat, reported : Nat]

NewFile == [stage |-> "new", approved |-> 0, reported |-> 0]

\* ainvoke with fresh input starts over and keeps the trail.
Reopened(f) == [f EXCEPT !.stage = "open"]

\* Mutation: the review is skipped for whoever has been approved before.
AssessedTrusting(f, critical) ==
    {[f EXCEPT !.stage = s] :
        s \in {"open", "closed", IF critical /\ f.approved = 0 THEN "review" ELSE "cleared"}}

\* Mutation: the rewrite loop of an event nobody reviews has no end.
AssessedInCircles(f, critical) ==
    {[f EXCEPT !.stage = IF critical THEN "review" ELSE "open"]}

\* A step towards the remediation, its end, or the end of a blocked event.
Assessed(f, critical) ==
    {[f EXCEPT !.stage = s] :
        s \in {"open", "closed", IF critical THEN "review" ELSE "cleared"}}

\* human_review and the edge behind it.
Decided(f, approve) ==
    IF approve
    THEN [stage |-> "cleared", approved |-> f.approved + 1, reported |-> f.reported]
    ELSE [f EXCEPT !.stage = "closed"]

\* Mutation: the reporter is not the last node.
ReportedAndReopened(f) ==
    [stage |-> "open", approved |-> f.approved, reported |-> f.reported + 1]

\* reporter
Reported(f) ==
    [stage |-> "closed", approved |-> f.approved, reported |-> f.reported + 1]

=============================================================================
