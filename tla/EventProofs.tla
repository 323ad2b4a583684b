---------------------------- MODULE EventProofs ----------------------------
(***************************************************************************)
(* What the rest of the system is told of an event's runs, for any number  *)
(* of rewrites, deliveries, decisions and dying runs, and whatever texts   *)
(* and replies come in: an event that reads "completed" has been through   *)
(* what it should, and AgentGraph implements Incident.                     *)
(***************************************************************************)
EXTENDS EventStatus, AgentGraphIncident, AgentGraphProofs

-----------------------------------------------------------------------------
(* The status                                                              *)

Passes(trail) == Count(trail, "injection_check_passed")

\* A thread is behind the injection check only with the check's entry in its
\* trail, wherever the trail and the next node come from.
PassedOK(t) == t.next \in Nodes \ {"injection_check"} => Passes(t.audit_trail) > 0

\* What a transaction of rows shows after n approve requests.
Earned(rows, n) ==
    /\ Count(rows, "report_generated") > 0
    /\ Passes(rows) > 0
    /\ severity = "CRITICAL" => Count(rows, "human_approved") \in 1..n

EarnedInv ==
    /\ PassedOK(thread)
    /\ PassedOK(saved)
    /\ \A b \in DOMAIN batches : Earned(batches[b], approvals)

\* More approve requests take nothing from rows that are written.
LEMMA EarnedStays ==
    ASSUME NEW rows, NEW n \in Nat, NEW m \in Nat, Earned(rows, n), n <= m
    PROVE  Earned(rows, m)
BY DEF Earned

\* No step gets a thread behind the check, or rows into the table, without
\* what they have to show.
LEMMA EarnedStep ==
    GraphAssumption /\ Typed /\ CriticalInv /\ EarnedInv /\ [Next]_vars => EarnedInv'
<1> SUFFICES ASSUME GraphAssumption, Typed, CriticalInv, EarnedInv, [Next]_vars
             PROVE  EarnedInv'
  OBVIOUS
<1>a. /\ thread \in Threads /\ saved \in Threads
      /\ thread.audit_trail \in Seq(AuditActions)
      /\ approvals \in Nat
      /\ batches \in Seq(Seq(AuditActions))
  <2>1. approvals \in 0..decisions /\ decisions \in Nat
    BY DEF Typed, TypeOK, GraphAssumption
  <2>2. QED
    BY <2>1 DEF Typed, TypeOK, Threads
<1>b. /\ PassedOK(thread) /\ PassedOK(saved)
      /\ \A b \in DOMAIN batches : Earned(batches[b], approvals)
  BY DEF EarnedInv
<1>n. Passes(thread.audit_trail) \in Nat
  BY <1>a, CountIsNat DEF Passes
<1>s. severity' = severity
  BY SeverityStays
\* Rows that are there already.
<1>r. ASSUME PassedOK(thread)', PassedOK(saved)',
             approvals' \in Nat, approvals <= approvals',
             \A b \in DOMAIN batches' : Earned(batches'[b], approvals)
      PROVE  EarnedInv'
  <2>1. \A b \in DOMAIN batches' : Earned(batches'[b], approvals')
    BY <1>a, <1>r, EarnedStays
  <2>2. \A b \in DOMAIN batches' : Earned(batches[b], approvals)'
    BY <1>s, <2>1 DEF Earned, Passes
  <2>3. QED
    BY <1>r, <2>2 DEF EarnedInv
\* A node appends its entry and moves on from behind the check, or to the end.
<1>c. ASSUME NEW t \in Threads, t.audit_trail = thread.audit_trail,
             NEW next, NEW action \in AuditActions, MoveOn(t, next, action),
             \/ thread.next \in Nodes \ {"injection_check"}
             \/ action = "injection_check_passed"
             \/ next = "end"
      PROVE  EarnedInv'
  <2>1. /\ thread'.next = next
        /\ thread'.audit_trail = Append(thread.audit_trail, action)
        /\ saved' = saved /\ batches' = batches /\ approvals' = approvals
    BY <1>c DEF MoveOn, StepDone, counters, Threads
  <2>2. Passes(thread'.audit_trail) =
           Passes(thread.audit_trail) + (IF action = "injection_check_passed" THEN 1 ELSE 0)
    BY <1>a, <1>c, <2>1, CountAppend DEF Passes
  <2>3. next = "end" \/ Passes(thread'.audit_trail) > 0
    BY <1>b, <1>c, <1>n, <2>2 DEF PassedOK
  <2>4. PassedOK(thread)'
    BY <2>1, <2>3 DEF PassedOK, Nodes, Passes
  <2>5. PassedOK(saved)'
    BY <1>b, <2>1 DEF PassedOK, Passes
  <2>6. QED
    BY <1>a, <1>b, <1>r, <2>1, <2>4, <2>5
<1>1. CASE Invoke
  <2>1. thread'.next = "injection_check"
    BY <1>a, <1>1 DEF Invoke, Threads
  <2>2. saved' = saved /\ batches' = batches /\ approvals' = approvals
    BY <1>1 DEF Invoke
  <2>3. PassedOK(thread)' /\ PassedOK(saved)'
    BY <1>b, <2>1, <2>2 DEF PassedOK, Passes
  <2>4. QED
    BY <1>a, <1>b, <1>r, <2>2, <2>3
<1>2. ASSUME NEW d \in Decisions, Resume(d) \/ ResumeFails(d)
      PROVE  EarnedInv'
  <2>1. /\ thread' = thread /\ saved' = saved /\ batches' = batches
        /\ approvals' = approvals \/ approvals' = approvals + 1
    BY <1>a, <1>2 DEF Resume, ResumeFails, threadVars
  <2>2. PassedOK(thread)' /\ PassedOK(saved)'
    BY <1>b, <2>1 DEF PassedOK, Passes
  <2>3. QED
    BY <1>a, <1>b, <1>r, <2>1, <2>2
<1>3. CASE Checkpoint \/ RunReturns \/ RunDies \/ UNCHANGED vars
  <2>1. /\ thread' \in {thread, saved} /\ saved' \in {thread, saved}
        /\ batches' = batches /\ approvals' = approvals
    BY <1>3 DEF Checkpoint, RunReturns, RunDies, counters, vars, threadVars
  <2>2. PassedOK(thread)' /\ PassedOK(saved)'
    BY <1>b, <2>1 DEF PassedOK, Passes
  <2>3. QED
    BY <1>a, <1>b, <1>r, <2>1, <2>2
<1>4. CASE InjectionCheck
  <2>1. PICK blocked \in BOOLEAN :
           MoveOn(thread, route_after_injection(blocked),
                  IF blocked THEN "injection_blocked" ELSE "injection_check_passed")
    BY <1>4, InjectionStep
  <2>2. QED
    BY <1>a, <1>c, <2>1 DEF route_after_injection, AuditActions
<1>5. CASE Retrieve
  BY <1>a, <1>c, <1>5 DEF Retrieve, At, Nodes, AuditActions
<1>6. CASE Grade
  <2>1. PICK score \in Scores :
           MoveOn([thread EXCEPT !.retrieval_score = score],
                  route_after_grade(score, thread.rewrite_count), "retrieval_graded")
    BY <1>6, GradeStep
  <2>2. [thread EXCEPT !.retrieval_score = score] \in Threads
    BY <1>a, StepsAreThreads DEF Nodes, AuditActions
  <2>3. [thread EXCEPT !.retrieval_score = score].audit_trail = thread.audit_trail
    BY <1>a DEF Threads
  <2>4. thread.next = "grade"
    BY <1>6 DEF Grade, At
  <2>5. QED
    BY <1>c, <2>1, <2>2, <2>3, <2>4 DEF Nodes, AuditActions
<1>7. CASE Rewrite
  <2>1. [thread EXCEPT !.rewrite_count = @ + 1] \in Threads
    BY <1>a, StepsAreThreads DEF Nodes, AuditActions
  <2>2. [thread EXCEPT !.rewrite_count = @ + 1].audit_trail = thread.audit_trail
    BY <1>a DEF Threads
  <2>3. QED
    BY <1>c, <1>7, <2>1, <2>2 DEF Rewrite, At, Nodes, AuditActions
<1>8. CASE Remediate
  <2>1. PICK steps \in {"model", "filtered"} :
           MoveOn([thread EXCEPT !.remediation_steps = steps],
                  route_after_remediation, "remediation_generated")
    BY <1>8, RemediateStep
  <2>2. [thread EXCEPT !.remediation_steps = steps] \in Threads
    BY <1>a, StepsAreThreads DEF Nodes, AuditActions, StepSources
  <2>3. [thread EXCEPT !.remediation_steps = steps].audit_trail = thread.audit_trail
    BY <1>a DEF Threads
  <2>4. thread.next = "remediation"
    BY <1>8 DEF Remediate, At
  <2>5. QED
    BY <1>c, <2>1, <2>2, <2>3, <2>4 DEF Nodes, AuditActions
<1>9. CASE HumanReview
  <2>1. PICK yn \in {"yes", "no"} : Reviewed(yn)
    BY <1>9 DEF HumanReview
  <2>2. [thread EXCEPT !.human_approved = yn] \in Threads
    BY <1>a, StepsAreThreads DEF Nodes, AuditActions
  <2>3. [thread EXCEPT !.human_approved = yn].audit_trail = thread.audit_trail
    BY <1>a DEF Threads
  <2>4. thread.next = "human_review"
    BY <1>9 DEF HumanReview, At
  <2>5. QED
    BY <1>c, <2>1, <2>2, <2>3, <2>4 DEF Reviewed, Nodes, AuditActions
<1>10. CASE Reporter
  <2> DEFINE trail == Append(thread.audit_trail, "report_generated")
  <2>1. /\ thread.next = "reporter" /\ thread'.next = "end"
        /\ saved' = saved /\ approvals' = approvals
        /\ batches' \in {batches, Append(batches, trail)}
    BY <1>a, <1>10 DEF Reporter, At, FlushAuditTrail, StepDone, counters, Threads
  <2>2. /\ Count(trail, "report_generated") = Count(thread.audit_trail, "report_generated") + 1
        /\ Count(trail, "injection_check_passed")
              = Count(thread.audit_trail, "injection_check_passed") + 0
        /\ Count(trail, "human_approved") = Count(thread.audit_trail, "human_approved") + 0
    BY <1>a, CountAppend DEF AuditActions
  <2>3. /\ Count(thread.audit_trail, "report_generated") \in Nat
        /\ Count(thread.audit_trail, "human_approved") \in Nat
    BY <1>a, CountIsNat
  <2>4. Passes(thread.audit_trail) > 0
    BY <1>b, <2>1 DEF PassedOK, Nodes
  <2>5. severity = "CRITICAL" =>
           /\ Count(thread.audit_trail, "report_generated")
                 < Count(thread.audit_trail, "human_approved")
           /\ Count(thread.audit_trail, "human_approved") <= approvals
    BY <2>1 DEF CriticalInv, CriticalOK, Approved, Reported
  <2>t. trail \in Seq(AuditActions)
    BY <1>a, StepsAreThreads DEF Nodes, AuditActions
  <2> HIDE DEF trail
  <2>6. Earned(trail, approvals)
    BY <1>a, <1>n, <2>2, <2>3, <2>4, <2>5 DEF Earned, Passes
  <2>7. PassedOK(thread)' /\ PassedOK(saved)'
    BY <1>b, <2>1 DEF PassedOK, Passes, Nodes
  <2>8. ASSUME NEW b \in DOMAIN batches'
        PROVE  Earned(batches'[b], approvals)
    <3>1. \/ b \in DOMAIN batches /\ batches'[b] = batches[b]
          \/ batches'[b] = trail
      <4>1. CASE batches' = batches
        BY <4>1
      <4>2. CASE batches' = Append(batches, trail)
        BY <1>a, <2>t, <4>2
      <4>3. QED
        BY <2>1, <4>1, <4>2
    <3>2. QED
      BY <1>b, <2>6, <3>1
  <2>9. QED
    BY <1>a, <1>r, <2>1, <2>7, <2>8
<1>11. QED
  BY <1>1, <1>2, <1>3, <1>4, <1>5, <1>6, <1>7, <1>8, <1>9, <1>10 DEF Next, RunStep

\* Whichever row of a transaction the query puts last, an event that reads
\* "completed" was let through the injection check and reported, and a
\* CRITICAL one approved.
THEOREM CompletedEventsEarnedIt == Spec => []CompletedIsEarned
<1>1. Init => EarnedInv
  BY DEF Init, EarnedInv, PassedOK, NewThread, Nodes
<1>2. EarnedInv => CompletedIsEarned
  BY DEF EarnedInv, Earned, Passes, CompletedIsEarned
<1>3. QED
  BY <1>1, <1>2, CriticalInvariant, EarnedStep, GraphAssumption, PTL DEF Spec

-----------------------------------------------------------------------------
(* The incident                                                            *)

IncidentVars ==
    <<severity = "CRITICAL", run = "running", resume, FileOf(thread), FileOf(saved),
      Len(batches)>>

\* A thread of which only the channels a file does not show have changed.
LEMMA FileAfter ==
    ASSUME Typed, NEW t \in Threads, t.audit_trail = thread.audit_trail,
           NEW next \in Nodes \union {"none", "end"}, NEW action \in AuditActions,
           thread' = [t EXCEPT !.next = next, !.audit_trail = Append(@, action)]
    PROVE  FileOf(thread)' =
              [stage    |-> Stage(next),
               approved |-> FileOf(thread).approved
                               + (IF action = "human_approved" THEN 1 ELSE 0),
               reported |-> FileOf(thread).reported
                               + (IF action = "report_generated" THEN 1 ELSE 0)]
<1>1. thread.audit_trail \in Seq(AuditActions)
  BY DEF Typed, TypeOK, Threads
<1>2. thread'.next = next /\ thread'.audit_trail = Append(thread.audit_trail, action)
  BY DEF Threads
<1>3. \A b : Count(Append(thread.audit_trail, action), b)
                = Count(thread.audit_trail, b) + (IF action = b THEN 1 ELSE 0)
  BY <1>1, CountAppend
<1>4. FileOf(thread)' =
         [stage    |-> Stage(next),
          approved |-> Count(Append(thread.audit_trail, action), "human_approved"),
          reported |-> Count(Append(thread.audit_trail, action), "report_generated")]
  BY <1>2 DEF FileOf, Stage, Count
<1>5. /\ FileOf(thread).approved = Count(thread.audit_trail, "human_approved")
      /\ FileOf(thread).reported = Count(thread.audit_trail, "report_generated")
  BY DEF FileOf
<1>6. QED
  BY <1>3, <1>4, <1>5

\* A file's counts are numbers.
LEMMA FilesAreTyped ==
    ASSUME NEW t \in Threads
    PROVE  FileOf(t).approved \in Nat /\ FileOf(t).reported \in Nat
<1>1. t.audit_trail \in Seq(AuditActions)
  BY DEF Threads
<1>2. QED
  BY <1>1, CountIsNat DEF FileOf

\* A node before the review is a step of the assessment.
LEMMA OpenStep ==
    ASSUME Typed, run = "running", Stage(thread.next) = "open",
           NEW t \in Threads, t.audit_trail = thread.audit_trail,
           NEW next \in Nodes \union {"none", "end"},
           NEW action \in AuditActions \ {"human_approved", "report_generated"},
           Stage(next) \in {"open", "closed",
                            IF severity = "CRITICAL" THEN "review" ELSE "cleared"},
           MoveOn(t, next, action)
    PROVE  Contract!Assess
<1>1. /\ FileOf(thread).approved \in Nat /\ FileOf(thread).reported \in Nat
  BY FilesAreTyped DEF Typed, TypeOK
<1>2. FileOf(thread)' =
         [stage    |-> Stage(next),
          approved |-> FileOf(thread).approved + 0,
          reported |-> FileOf(thread).reported + 0]
  BY FileAfter DEF MoveOn
<1>3. FileOf(thread)' = [FileOf(thread) EXCEPT !.stage = Stage(next)]
  BY <1>1, <1>2 DEF FileOf
<1>4. FileOf(thread)' \in Contract!Assessed(FileOf(thread), severity = "CRITICAL")
  BY <1>3 DEF Contract!Assessed
<1>5. /\ severity' = severity /\ run' = run /\ saved' = saved /\ batches' = batches
      /\ resume' = "none"
  BY DEF MoveOn, StepDone
<1>6. FileOf(saved)' = FileOf(saved)
  BY <1>5
<1>7. FileOf(thread).stage = "open"
  BY DEF FileOf
<1>8. QED
  BY <1>4, <1>5, <1>6, <1>7 DEF Contract!Assess, Contract!Step

\* Every step of the graph is a step of the incident or none.
LEMMA IncidentStep ==
    GraphAssumption /\ Typed /\ [Next]_vars => [Contract!Next]_IncidentVars
<1> SUFFICES ASSUME GraphAssumption, Typed, [Next]_vars
             PROVE  Contract!Next \/ UNCHANGED IncidentVars
  OBVIOUS
<1>a. /\ thread \in Threads /\ saved \in Threads
      /\ batches \in Seq(Seq(AuditActions))
      /\ run \in {"idle", "running"}
      /\ thread.next \in Nodes \union {"none", "end"}
      /\ saved.next \in Nodes \union {"none", "end"}
      /\ FileOf(thread).approved \in Nat /\ FileOf(thread).reported \in Nat
  BY FilesAreTyped DEF Typed, TypeOK, Threads
<1>1. CASE Invoke
  <2>1. /\ run = "idle" /\ run' = "running"
        /\ thread' = [saved EXCEPT !.next = "injection_check"]
        /\ severity' = severity /\ saved' = saved /\ resume' = resume
        /\ batches' = batches
    BY <1>1 DEF Invoke
  <2>2. thread'.next = "injection_check" /\ thread'.audit_trail = saved.audit_trail
    BY <1>a, <2>1 DEF Threads
  <2>3. FileOf(thread)' = Contract!Reopened(FileOf(saved))
    <3>1. FileOf(thread)' =
             [stage    |-> "open",
              approved |-> FileOf(saved).approved,
              reported |-> FileOf(saved).reported]
      BY <2>2 DEF FileOf, Stage, Count
    <3>2. QED
      BY <3>1 DEF FileOf, Contract!Reopened
  <2>4. FileOf(saved)' = FileOf(saved) /\ Len(batches)' = Len(batches)
    BY <2>1
  <2>5. Contract!Start
    BY <2>1, <2>3, <2>4 DEF Contract!Start
  <2>6. QED
    BY <2>5 DEF Contract!Next
<1>2. ASSUME NEW d \in Decisions, Resume(d)
      PROVE  Contract!Next
  <2>1. /\ run = "idle" /\ run' = "running" /\ saved.next \in Nodes
        /\ severity' = severity /\ thread' = thread /\ saved' = saved
        /\ resume' = d /\ batches' = batches
    BY <1>2 DEF Resume
  <2>2. FileOf(saved).stage \in {"open", "review", "cleared"}
    BY <2>1 DEF FileOf, Stage, Nodes
  <2>3. Contract!Continue(d)
    BY <2>1, <2>2 DEF Contract!Continue
  <2>4. QED
    BY <2>3 DEF Contract!Next, Decisions
<1>3. ASSUME NEW d \in Decisions, ResumeFails(d)
      PROVE  UNCHANGED IncidentVars
  BY <1>3 DEF ResumeFails, threadVars, IncidentVars, FileOf, Count
<1>4. CASE Checkpoint
  <2>1. /\ run = "running" /\ saved' = thread
        /\ severity' = severity /\ run' = run /\ thread' = thread
        /\ resume' = resume /\ batches' = batches
    BY <1>4 DEF Checkpoint
  <2>2. FileOf(saved)' = FileOf(thread) /\ FileOf(thread)' = FileOf(thread)
    BY <2>1
  <2>3. Contract!Keep
    BY <2>1, <2>2 DEF Contract!Keep
  <2>4. QED
    BY <2>3 DEF Contract!Next
<1>5. CASE RunDies
  <2>1. /\ run = "running" /\ run' = "idle"
        /\ saved' \in {saved, thread} /\ thread' = saved'
        /\ severity' = severity /\ resume' = "none" /\ batches' = batches
    BY <1>5 DEF RunDies
  <2>2. /\ FileOf(saved)' \in {FileOf(saved), FileOf(thread)}
        /\ FileOf(thread)' = FileOf(saved)'
    BY <2>1
  <2>3. Contract!CutOff
    BY <2>1, <2>2 DEF Contract!CutOff
  <2>4. QED
    BY <2>3 DEF Contract!Next
<1>6. CASE InjectionCheck
  <2>1. PICK blocked \in BOOLEAN :
           MoveOn(thread, route_after_injection(blocked),
                  IF blocked THEN "injection_blocked" ELSE "injection_check_passed")
    BY <1>6, InjectionStep
  <2>2. run = "running" /\ Stage(thread.next) = "open"
    BY <1>6 DEF InjectionCheck, At, Stage
  <2>3. Stage(route_after_injection(blocked)) \in {"open", "closed"}
    BY DEF Stage, route_after_injection
  <2>4. Contract!Assess
    BY <1>a, <2>1, <2>2, <2>3, OpenStep DEF route_after_injection, Nodes, AuditActions
  <2>5. QED
    BY <2>4 DEF Contract!Next
<1>7. CASE Retrieve
  <2>1. run = "running" /\ Stage(thread.next) = "open" /\ Stage("grade") = "open"
    BY <1>7 DEF Retrieve, At, Stage
  <2>2. Contract!Assess
    BY <1>a, <1>7, <2>1, OpenStep DEF Retrieve, Nodes, AuditActions
  <2>3. QED
    BY <2>2 DEF Contract!Next
<1>8. CASE Grade
  <2>1. PICK score \in Scores :
           MoveOn([thread EXCEPT !.retrieval_score = score],
                  route_after_grade(score, thread.rewrite_count), "retrieval_graded")
    BY <1>8, GradeStep
  <2>2. [thread EXCEPT !.retrieval_score = score] \in Threads
    BY <1>a, StepsAreThreads DEF Nodes, AuditActions
  <2>3. [thread EXCEPT !.retrieval_score = score].audit_trail = thread.audit_trail
    BY <1>a DEF Threads
  <2>4. run = "running" /\ Stage(thread.next) = "open"
    BY <1>8 DEF Grade, At, Stage
  <2>5. /\ route_after_grade(score, thread.rewrite_count) \in Nodes
        /\ Stage(route_after_grade(score, thread.rewrite_count)) = "open"
    BY DEF Stage, route_after_grade, Nodes
  <2>6. Contract!Assess
    BY <2>1, <2>2, <2>3, <2>4, <2>5, OpenStep DEF AuditActions
  <2>7. QED
    BY <2>6 DEF Contract!Next
<1>9. CASE Rewrite
  <2>1. [thread EXCEPT !.rewrite_count = @ + 1] \in Threads
    BY <1>a, StepsAreThreads DEF Nodes, AuditActions
  <2>2. [thread EXCEPT !.rewrite_count = @ + 1].audit_trail = thread.audit_trail
    BY <1>a DEF Threads
  <2>3. run = "running" /\ Stage(thread.next) = "open" /\ Stage("retrieve") = "open"
    BY <1>9 DEF Rewrite, At, Stage
  <2>4. Contract!Assess
    BY <1>9, <2>1, <2>2, <2>3, OpenStep DEF Rewrite, Nodes, AuditActions
  <2>5. QED
    BY <2>4 DEF Contract!Next
<1>10. CASE Remediate
  <2>1. PICK steps \in {"model", "filtered"} :
           MoveOn([thread EXCEPT !.remediation_steps = steps],
                  route_after_remediation, "remediation_generated")
    BY <1>10, RemediateStep
  <2>2. [thread EXCEPT !.remediation_steps = steps] \in Threads
    BY <1>a, StepsAreThreads DEF Nodes, AuditActions, StepSources
  <2>3. [thread EXCEPT !.remediation_steps = steps].audit_trail = thread.audit_trail
    BY <1>a DEF Threads
  <2>4. run = "running" /\ Stage(thread.next) = "open"
    BY <1>10 DEF Remediate, At, Stage
  <2>5. /\ route_after_remediation \in Nodes
        /\ Stage(route_after_remediation) =
              IF severity = "CRITICAL" THEN "review" ELSE "cleared"
    BY DEF Stage, route_after_remediation, Nodes
  <2>6. Contract!Assess
    BY <2>1, <2>2, <2>3, <2>4, <2>5, OpenStep DEF AuditActions
  <2>7. QED
    BY <2>6 DEF Contract!Next
<1>11. CASE HumanReview
  <2>1. PICK yn \in {"yes", "no"} :
           yn = (IF resume = "approve" THEN "yes" ELSE "no") /\ Reviewed(yn)
    BY <1>11 DEF HumanReview
  <2>2. [thread EXCEPT !.human_approved = yn] \in Threads
    BY <1>a, StepsAreThreads DEF Nodes, AuditActions
  <2>3. [thread EXCEPT !.human_approved = yn].audit_trail = thread.audit_trail
    BY <1>a DEF Threads
  <2>4. /\ run = "running" /\ resume # "none" /\ FileOf(thread).stage = "review"
    BY <1>11 DEF HumanReview, At, FileOf, Stage
  <2>5. FileOf(thread)' =
           [stage    |-> Stage(route_after_human_review(yn)),
            approved |-> FileOf(thread).approved + (IF yn = "yes" THEN 1 ELSE 0),
            reported |-> FileOf(thread).reported + 0]
    <3>1. CASE yn = "yes"
      BY <2>1, <2>2, <2>3, <3>1, FileAfter
         DEF Reviewed, MoveOn, route_after_human_review, Nodes, AuditActions
    <3>2. CASE yn = "no"
      BY <2>1, <2>2, <2>3, <3>2, FileAfter
         DEF Reviewed, MoveOn, route_after_human_review, Nodes, AuditActions
    <3>3. QED
      BY <3>1, <3>2
  <2>6. FileOf(thread)' = Contract!Decided(FileOf(thread), resume = "approve")
    <3>1. CASE resume = "approve"
      <4>1. yn = "yes" /\ Stage(route_after_human_review(yn)) = "cleared"
        BY <2>1, <3>1 DEF Stage, route_after_human_review
      <4>2. FileOf(thread)' =
               [stage    |-> "cleared",
                approved |-> FileOf(thread).approved + 1,
                reported |-> FileOf(thread).reported]
        BY <1>a, <2>5, <4>1
      <4>3. QED
        BY <3>1, <4>2 DEF Contract!Decided
    <3>2. CASE resume # "approve"
      <4>1. yn = "no" /\ Stage(route_after_human_review(yn)) = "closed"
        BY <2>1, <3>2 DEF Stage, route_after_human_review
      <4>2. FileOf(thread)' = [FileOf(thread) EXCEPT !.stage = "closed"]
        BY <1>a, <2>5, <4>1 DEF FileOf
      <4>3. QED
        BY <3>2, <4>2 DEF Contract!Decided
    <3>3. QED
      BY <3>1, <3>2
  <2>7. /\ severity' = severity /\ run' = run /\ saved' = saved /\ batches' = batches
        /\ resume' = "none"
    BY <2>1 DEF Reviewed, MoveOn, StepDone
  <2>8. FileOf(saved)' = FileOf(saved)
    BY <2>7
  <2>9. Contract!Decide
    BY <2>4, <2>6, <2>7, <2>8 DEF Contract!Decide, Contract!Step
  <2>10. QED
    BY <2>9 DEF Contract!Next
<1>12. CASE Reporter
  <2> DEFINE trail == Append(thread.audit_trail, "report_generated")
             t == [thread EXCEPT !.report = ReportOf(thread)]
  <2>1. /\ thread' = [thread EXCEPT !.next = "end", !.report = ReportOf(thread),
                                    !.audit_trail = trail]
        /\ batches' \in {batches, Append(batches, trail)}
        /\ severity' = severity /\ run' = run /\ saved' = saved /\ resume' = "none"
    BY <1>12 DEF Reporter, FlushAuditTrail, StepDone
  <2>2. t \in Threads /\ t.audit_trail = thread.audit_trail
    <3>1. ReportOf(thread) \in Reports
      BY <1>a DEF Threads, ReportOf, Reports
    <3>2. QED
      BY <1>a, <3>1 DEF Threads
  <2>3. thread' = [t EXCEPT !.next = "end", !.audit_trail = Append(@, "report_generated")]
    BY <1>a, <2>1 DEF Threads
  <2> HIDE DEF t
  <2>4. FileOf(thread)' =
           [stage    |-> Stage("end"),
            approved |-> FileOf(thread).approved + 0,
            reported |-> FileOf(thread).reported + 1]
    BY <2>2, <2>3, FileAfter DEF Nodes, AuditActions
  <2>5. FileOf(thread)' = Contract!Reported(FileOf(thread))
    <3>1. FileOf(thread)' =
             [stage    |-> "closed",
              approved |-> FileOf(thread).approved,
              reported |-> FileOf(thread).reported + 1]
      BY <1>a, <2>4 DEF Stage
    <3>2. QED
      BY <3>1 DEF Contract!Reported
  <2>6. Len(batches)' \in {Len(batches), Len(batches) + 1}
    BY <1>a, <2>1
  <2>7. run = "running" /\ FileOf(thread).stage = "cleared"
    BY <1>12 DEF Reporter, At, FileOf, Stage
  <2>8. FileOf(saved)' = FileOf(saved)
    BY <2>1
  <2>9. Contract!Report
    BY <2>1, <2>5, <2>6, <2>7, <2>8 DEF Contract!Report, Contract!Step
  <2>10. QED
    BY <2>9 DEF Contract!Next
<1>13. CASE RunReturns
  <2>1. /\ run = "running" /\ run' = "idle" /\ saved' = thread /\ thread' = thread
        /\ severity' = severity /\ resume' = "none" /\ batches' = batches
        /\ \/ thread.next = "end"
           \/ thread.next = "human_review" /\ resume = "none"
    BY <1>13 DEF RunReturns
  <2>2. \/ FileOf(thread).stage = "closed"
        \/ FileOf(thread).stage = "review" /\ resume = "none"
    BY <2>1 DEF FileOf, Stage
  <2>3. FileOf(saved)' = FileOf(thread) /\ FileOf(thread)' = FileOf(thread)
    BY <2>1
  <2>4. Contract!Finish
    BY <2>1, <2>2, <2>3 DEF Contract!Finish
  <2>5. QED
    BY <2>4 DEF Contract!Next
<1>14. CASE UNCHANGED vars
  BY <1>14 DEF vars, threadVars, IncidentVars, FileOf, Count
<1>15. QED
  BY <1>1, <1>2, <1>3, <1>4, <1>5, <1>6, <1>7, <1>8, <1>9, <1>10, <1>11, <1>12,
     <1>13, <1>14 DEF Next, RunStep

\* The agent graph keeps to the lifecycle of an incident.
THEOREM GraphImplementsIncident == Spec => ImplementsIncident
<1>1. Init => Contract!Init
  <2>1. Init => run # "running" /\ resume = "none" /\ Len(batches) = 0
    BY DEF Init
  <2>2. Init => FileOf(thread) = Contract!NewFile /\ FileOf(saved) = Contract!NewFile
    BY CountEmpty DEF Init, NewThread, FileOf, Stage, Contract!NewFile
  <2>3. (severity = "CRITICAL") \in BOOLEAN
    OBVIOUS
  <2>4. Init => (run = "running") = FALSE
    BY <2>1
  <2>5. QED
    BY <2>1, <2>2, <2>3, <2>4 DEF Contract!Init
<1>2. Init => Typed
  BY GraphTypeInit, GraphAssumption
<1>3. GraphAssumption /\ Typed /\ [Next]_vars => [Contract!Next]_(Contract!incident)
  BY IncidentStep DEF IncidentVars, Contract!incident
<1>4. QED
  BY <1>1, <1>2, <1>3, GraphTypeStep, GraphAssumption,
     PTL DEF Spec, ImplementsIncident, Contract!Spec

=============================================================================
