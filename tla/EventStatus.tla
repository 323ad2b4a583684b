---------------------------- MODULE EventStatus ----------------------------
(***************************************************************************)
(* GET /events/{event_id} (src/src/api/routes/events.py): the status of an *)
(* event as read from the audit_entries rows its graph runs have written.  *)
(***************************************************************************)
EXTENDS AgentGraph

\* The rows of one transaction carry the same timestamp (DEFAULT NOW() is the
\* transaction's start), so ORDER BY timestamp may put any of the last
\* transaction's rows last.
PossibleLastActions ==
    IF batches = <<>> THEN {}
    ELSE LET rows == batches[Len(batches)] IN {rows[i] : i \in DOMAIN rows}

\* The answers get_event may give.
Statuses ==
    IF batches = <<>>
    THEN {"queued"}
    ELSE {IF last_action = "report_generated" THEN "completed" ELSE "processing" :
             last_action \in PossibleLastActions}

\* An event that can read "completed" has been reported: never one whose only
\* runs were blocked, rejected or still suspended, and a CRITICAL one only
\* with an approval on record, whichever row sorts last.
CompletedIsEarned ==
    "completed" \in Statuses =>
        \A b \in DOMAIN batches :
            /\ Count(batches[b], "report_generated") > 0
            /\ Count(batches[b], "injection_check_passed") > 0
            /\ severity = "CRITICAL" =>
                  Count(batches[b], "human_approved") \in 1..approvals

\* events.py:100, "processing: workers have started but not completed": a
\* suspended event, whose run has started and waits for its approval, may read
\* so.
SuspendedReadsProcessing ==
    Suspended /\ saved.report = NoReport => "processing" \in Statuses

=============================================================================
