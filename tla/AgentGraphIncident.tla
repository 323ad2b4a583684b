------------------------- MODULE AgentGraphIncident -------------------------
(***************************************************************************)
(* AgentGraph implements Incident.                                         *)
(***************************************************************************)
EXTENDS AgentGraph

Stage(next) ==
    IF next = "none" THEN "new"
    ELSE IF next = "human_review" THEN "review"
    ELSE IF next = "reporter" THEN "cleared"
    ELSE IF next = "end" THEN "closed"
    ELSE "open"

\* A thread's file: its stage, and what its trail says of approvals and
\* reports.
FileOf(t) ==
    [stage    |-> Stage(t.next),
     approved |-> Count(t.audit_trail, "human_approved"),
     reported |-> Count(t.audit_trail, "report_generated")]

Contract == INSTANCE Incident WITH
    critical <- severity = "CRITICAL",
    working  <- run = "running",
    decision <- resume,
    file     <- FileOf(thread),
    kept     <- FileOf(saved),
    flushes  <- Len(batches)

\* The graph keeps to the lifecycle: each step of a node, an edge, the
\* checkpointer, a resume or a failure is one step of Incident or changes
\* nothing in it.  In particular the rewrite loop never leaves the open
\* stage, no edge of graph/builder.py leads past the review or the reporter,
\* and no channel but the trail and the next node carries an approval over.
ImplementsIncident == Contract!Spec

=============================================================================
