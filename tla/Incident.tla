------------------------------ MODULE Incident ------------------------------
(***************************************************************************)
(* What the agent graph promises of one event, with no nodes, texts or     *)
(* loops in it: runs work on the event's file, a CRITICAL event is         *)
(* reported only after a decision brought to its review, and a run that is *)
(* cut off leaves the file as it stood at some earlier step.               *)
(*                                                                         *)
(* AgentGraphIncident shows that AgentGraph implements it.                 *)
(***************************************************************************)
EXTENDS Lifecycle

VARIABLES
    critical,   \* whether the event needs an approval
    working,    \* whether a run is in progress
    decision,   \* the decision a run was started with: "none" once it is used
    file,       \* the event's file in the hands of the run
    kept,       \* the file as last written down
    flushes     \* transactions that reached the audit table

incident == <<critical, working, decision, file, kept, flushes>>

Init ==
    /\ critical \in BOOLEAN
    /\ working = FALSE
    /\ decision = "none"
    /\ file = NewFile
    /\ kept = NewFile
    /\ flushes = 0

\* The event is handed to a worker.
Start ==
    /\ ~working
    /\ working' = TRUE
    /\ file' = Reopened(kept)
    /\ UNCHANGED <<critical, decision, kept, flushes>>

\* A human's decision sets the file in motion again.
Continue(d) ==
    /\ ~working
    /\ kept.stage \in {"open", "review", "cleared"}
    /\ working' = TRUE
    /\ decision' = d
    /\ UNCHANGED <<critical, file, kept, flushes>>

Step ==
    /\ working
    /\ decision' = "none"
    /\ UNCHANGED <<critical, working, kept>>

Assess ==
    /\ file.stage = "open"
    /\ file' \in Assessed(file, critical)
    /\ UNCHANGED flushes
    /\ Step

Decide ==
    /\ file.stage = "review"
    /\ decision # "none"
    /\ file' = Decided(file, decision = "approve")
    /\ UNCHANGED flushes
    /\ Step

Report ==
    /\ file.stage = "cleared"
    /\ file' = Reported(file)
    /\ flushes' \in {flushes, flushes + 1}
    /\ Step

Keep ==
    /\ working
    /\ kept' = file
    /\ UNCHANGED <<critical, working, decision, file, flushes>>

\* The file is closed, or waits for a decision that the run does not bring.
Finish ==
    /\ working
    /\ \/ file.stage = "closed"
       \/ file.stage = "review" /\ decision = "none"
    /\ working' = FALSE
    /\ kept' = file
    /\ decision' = "none"
    /\ UNCHANGED <<critical, file, flushes>>

CutOff ==
    /\ working
    /\ working' = FALSE
    /\ kept' \in {kept, file}
    /\ file' = kept'
    /\ decision' = "none"
    /\ UNCHANGED <<critical, flushes>>

Next ==
    \/ Start
    \/ \E d \in {"approve", "reject"} : Continue(d)
    \/ Assess
    \/ Decide
    \/ Report
    \/ Keep
    \/ Finish
    \/ CutOff

Spec == Init /\ [][Next]_incident

=============================================================================
