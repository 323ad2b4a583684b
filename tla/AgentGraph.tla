----------------------------- MODULE AgentGraph -----------------------------
(***************************************************************************)
(* The LangGraph agent pipeline of src/src/graph/ and src/src/agents/, run *)
(* by a worker on one event, with its checkpointer, the human approval of  *)
(* CRITICAL events and the audit table the reporter writes.                *)
(*                                                                         *)
(* One action is one graph node together with the conditional edge that    *)
(* follows it: it updates the channels of ThreatState in memory.  The      *)
(* checkpointer saves the channels in the background (LangGraph's default  *)
(* "async" durability), so a run that dies resumes or restarts from a      *)
(* checkpoint that may be older than what it had done.                     *)
(*                                                                         *)
(* Texts and documents are reduced to what the guardrails and the grader   *)
(* make of them.  An audit entry is its action name.                       *)
(***************************************************************************)
EXTENDS Guardrails, Sequences, FiniteSets

CONSTANTS
    MAX_REWRITES,   \* routers.MAX_REWRITES
    INJECTION_L2_ENABLED,  \* settings.INJECTION_L2_ENABLED
    EventTexts,     \* what the descriptions of events may look like
    JudgeReplies,   \* what the grader's model may reply
    ModelOutputs,   \* what the remediation's model may reply
    ApproverSaver,  \* the saver the approval route's graph is compiled with:
                    \*   "own"    a MemorySaver of the API process (threats.py:23)
                    \*   "shared" the saver of the graph that was suspended
    MaxInvokes,     \* bound: times the queue hands the event to a worker
    MaxDecisions,   \* bound: requests to POST /threats/{event_id}/approve
    MaxDeaths       \* bound: runs that raise, crash or are cancelled

ASSUME GraphAssumption ==
    /\ MAX_REWRITES \in Nat
    /\ INJECTION_L2_ENABLED \in BOOLEAN
    /\ EventTexts \subseteq Texts
    /\ JudgeReplies \subseteq Replies
    /\ ModelOutputs \subseteq Outputs
    /\ ApproverSaver \in {"own", "shared"}
    /\ MaxInvokes \in Nat
    /\ MaxDecisions \in Nat
    /\ MaxDeaths \in Nat

Nodes == {"injection_check", "retrieve", "grade", "rewrite", "remediation",
          "human_review", "reporter"}

\* What a node appends to the audit_trail channel.
AuditActions == {"injection_check_passed", "injection_blocked",
                 "runbook_retrieval", "retrieval_graded", "hyde_rewrite",
                 "remediation_generated", "human_approved", "human_rejected",
                 "report_generated"}

Decisions == {"approve", "reject"}

\* What the steps come from: the model, or the notice of the output filter.
StepSources == {"unset", "model", "filtered"}

Approvals == {"unset", "yes", "no"}

\* The fields of a report that are copied from channels.
Reports ==
    [human_approved    : Approvals,
     retrieval_score   : Scores,
     rewrite_count     : Nat,
     remediation_steps : StepSources]

\* A thread without a report.
NoReport ==
    [human_approved |-> "none", retrieval_score |-> 0, rewrite_count |-> 0,
     remediation_steps |-> "unset"]

\* The thread of one event: the next node and the channels that nodes and
\* edges read.  "none" is a thread without a checkpoint, "end" one whose run
\* is complete.
Threads ==
    [next              : Nodes \union {"none", "end"},
     rewrite_count     : Nat,
     retrieval_score   : Scores,
     remediation_steps : StepSources,
     human_approved    : Approvals,
     report            : Reports \union {NoReport},
     audit_trail       : Seq(AuditActions)]

VARIABLES
    severity,    \* secure_event["severity"], upper-cased: never changes
    run,         \* whether a worker or the API is inside ainvoke: "idle", "running"
    thread,      \* the channels in the memory of the running graph
    saved,       \* the thread's latest checkpoint
    resume,      \* payload of the Command(resume=...) a run was started with
    batches,     \* the transactions of the audit_entries table, in order
    \* observers and the bounds' counters
    approvals,   \* approve requests that resumed the thread at its review
    requested,   \* whether an approve request came while the event waited for it
    work,        \* nodes completed, by all the runs of the event
    invokes, decisions, deaths

threadVars == <<run, thread, saved, resume>>
counters   == <<approvals, requested, invokes, decisions, deaths>>
vars       == <<severity, threadVars, batches, work, counters>>

TypeOK ==
    /\ severity \in {"CRITICAL", "OTHER"}
    /\ run \in {"idle", "running"}
    /\ thread \in Threads
    /\ saved \in Threads
    /\ resume \in Decisions \union {"none"}
    /\ batches \in Seq(Seq(AuditActions))
    /\ approvals \in 0..decisions
    /\ requested \in {"no", "yes"}
    /\ work \in Nat
    /\ invokes \in 0..MaxInvokes
    /\ decisions \in 0..MaxDecisions
    /\ deaths \in 0..MaxDeaths

NewThread ==
    [next |-> "none", rewrite_count |-> 0, retrieval_score |-> 0,
     remediation_steps |-> "unset", human_approved |-> "unset",
     report |-> NoReport, audit_trail |-> <<>>]

Init ==
    /\ severity \in {"CRITICAL", "OTHER"}
    /\ run = "idle"
    /\ thread = NewThread
    /\ saved = NewThread
    /\ resume = "none"
    /\ batches = <<>>
    /\ approvals = 0
    /\ requested = "no"
    /\ work = 0
    /\ invokes = 0
    /\ decisions = 0
    /\ deaths = 0

-----------------------------------------------------------------------------
(* The edges (routers.py)                                                  *)

route_after_injection(blocked) == IF blocked THEN "end" ELSE "retrieve"

\* Mutation: one rewrite too many.
route_after_grade_at_limit(score, rewrite_count) ==
    IF score < GRADE_PASS_THRESHOLD /\ rewrite_count <= MAX_REWRITES
    THEN "rewrite" ELSE "remediation"

\* Mutation: exhausted rewrites drop the event.
route_after_grade_gives_up(score, rewrite_count) ==
    IF score >= GRADE_PASS_THRESHOLD THEN "remediation"
    ELSE IF rewrite_count < MAX_REWRITES THEN "rewrite" ELSE "end"

\* Mutation: the edge names a node that is not in the graph.
route_after_grade_unknown(score, rewrite_count) ==
    IF score < GRADE_PASS_THRESHOLD /\ rewrite_count < MAX_REWRITES
    THEN "rewriter" ELSE "remediation"

\* Mutation: any rewrite so far will do.
route_after_grade_impatient(score, rewrite_count) ==
    IF score < GRADE_PASS_THRESHOLD /\ rewrite_count = 0 THEN "rewrite" ELSE "remediation"

route_after_grade(score, rewrite_count) ==
    IF score < GRADE_PASS_THRESHOLD /\ rewrite_count < MAX_REWRITES
    THEN "rewrite" ELSE "remediation"

\* Mutation: an event approved before is not reviewed again.
route_after_remediation_trusting ==
    IF severity = "CRITICAL" /\ thread.human_approved # "yes"
    THEN "human_review" ELSE "reporter"

route_after_remediation ==
    IF severity = "CRITICAL" THEN "human_review" ELSE "reporter"

\* Mutation: any decision leads to the report.
route_after_human_review_decided(human_approved) ==
    IF human_approved # "unset" THEN "reporter" ELSE "end"

route_after_human_review(human_approved) ==
    IF human_approved = "yes" THEN "reporter" ELSE "end"

-----------------------------------------------------------------------------
(* Runs: what LangGraph and the checkpointer do around the nodes.          *)

\* _process_message: ainvoke with fresh input on thread_id = event_id.  The
\* input restarts the thread at the entry point; the channels it does not
\* mention, rewrite_count and human_approved among them, and the trail
\* (operator.add with []) keep what an earlier run left there.
Invoke ==
    /\ run = "idle"
    /\ invokes < MaxInvokes
    /\ run' = "running"
    /\ thread' = [saved EXCEPT !.next = "injection_check"]
    /\ invokes' = invokes + 1
    /\ UNCHANGED <<severity, saved, resume, batches, approvals, requested,
                   work, decisions, deaths>>

Suspended == run = "idle" /\ saved.next = "human_review"

\* approve_threat on a graph that shares the saver: ainvoke(Command(resume))
\* goes on with the thread's pending node.
Resume(d) ==
    /\ ApproverSaver = "shared"
    /\ run = "idle"
    /\ saved.next \in Nodes
    /\ decisions < MaxDecisions
    /\ decisions' = decisions + 1
    /\ approvals' = approvals + (IF d = "approve" /\ Suspended THEN 1 ELSE 0)
    /\ requested' = IF d = "approve" /\ Suspended THEN "yes" ELSE requested
    /\ run' = "running"
    /\ resume' = d
    /\ UNCHANGED <<severity, thread, saved, batches, work, invokes, deaths>>

\* approve_threat where its saver holds no checkpoint of the thread, as shipped
\* it never does: the resume has nothing to go on with and the request ends in
\* an HTTP 500.
ResumeFails(d) ==
    /\ ApproverSaver = "own" \/ saved.next = "none"
    /\ decisions < MaxDecisions
    /\ decisions' = decisions + 1
    /\ requested' = IF d = "approve" /\ Suspended THEN "yes" ELSE requested
    /\ UNCHANGED <<severity, threadVars, batches, approvals, work, invokes, deaths>>

\* The background write of the latest step's checkpoint.
Checkpoint ==
    /\ run = "running"
    /\ saved # thread
    /\ saved' = thread
    /\ UNCHANGED <<severity, run, thread, resume, batches, work, counters>>

\* Mutation: the review waits in its node instead of interrupting the run.
RunReturnsAtEndOnly ==
    /\ run = "running"
    /\ thread.next = "end"
    /\ run' = "idle"
    /\ saved' = thread
    /\ resume' = "none"
    /\ UNCHANGED <<severity, thread, batches, work, counters>>

\* ainvoke returns, having flushed its checkpoints: at END, or suspended by
\* interrupt() in human_review when the run brings no decision for it.
RunReturns ==
    /\ run = "running"
    /\ \/ thread.next = "end"
       \/ thread.next = "human_review" /\ resume = "none"
    /\ run' = "idle"
    /\ saved' = thread
    /\ resume' = "none"
    /\ UNCHANGED <<severity, thread, batches, work, counters>>

\* A node, the checkpointer or the process fails, or the pool cancels the
\* worker: what was done since the last checkpoint may or may not be saved.
RunDies ==
    /\ run = "running"
    /\ deaths < MaxDeaths
    /\ deaths' = deaths + 1
    /\ run' = "idle"
    /\ saved' \in {saved, thread}
    /\ thread' = saved'
    /\ resume' = "none"
    /\ UNCHANGED <<severity, batches, approvals, requested, work, invokes,
                   decisions>>

-----------------------------------------------------------------------------
(* The nodes (agents/)                                                     *)

At(node) == run = "running" /\ thread.next = node

\* Mutation: the payload stays until a review asks for it.
StepDoneKeepsResume ==
    /\ work' = work + 1
    /\ UNCHANGED <<severity, run, saved, resume, counters>>

\* A resume payload is there for the step the run starts with, and no other.
StepDone ==
    /\ resume' = "none"
    /\ work' = work + 1
    /\ UNCHANGED <<severity, run, saved, counters>>

\* A node that leaves the channels as in t, and its audit entry in the trail.
MoveOn(t, next, action) ==
    /\ thread' = [t EXCEPT !.next = next, !.audit_trail = Append(@, action)]
    /\ UNCHANGED batches
    /\ StepDone

InjectionCheck ==
    /\ At("injection_check")
    /\ \E text \in EventTexts :
          LET blocked == InjectionBlocked(text, INJECTION_L2_ENABLED)
          IN  MoveOn(thread, route_after_injection(blocked),
                     IF blocked THEN "injection_blocked" ELSE "injection_check_passed")

Retrieve ==
    /\ At("retrieve")
    /\ MoveOn(thread, "grade", "runbook_retrieval")

\* A reply that GradeRaises is one of the ways to RunDies.
Grade ==
    /\ At("grade")
    /\ \E reply \in JudgeReplies :
          /\ ~GradeRaises(reply)
          /\ LET score == ParseGrade(reply)
             IN  MoveOn([thread EXCEPT !.retrieval_score = score],
                        route_after_grade(score, thread.rewrite_count),
                        "retrieval_graded")

\* Mutation: the rewrite is not counted.
RewriteUncounted ==
    /\ At("rewrite")
    /\ MoveOn(thread, "retrieve", "hyde_rewrite")

Rewrite ==
    /\ At("rewrite")
    /\ MoveOn([thread EXCEPT !.rewrite_count = @ + 1], "retrieve", "hyde_rewrite")

Remediate ==
    /\ At("remediation")
    /\ \E output \in ModelOutputs :
          LET steps == IF OutputBlocked(output, thread.retrieval_score)
                       THEN "filtered" ELSE "model"
          IN  MoveOn([thread EXCEPT !.remediation_steps = steps],
                     route_after_remediation, "remediation_generated")

\* What the review leaves behind.
Reviewed(approved) ==
    MoveOn([thread EXCEPT !.human_approved = approved],
           route_after_human_review(approved),
           IF approved = "yes" THEN "human_approved" ELSE "human_rejected")

\* Mutation: the decision is looked up under another key and defaults to False.
HumanReviewDefaulted ==
    /\ At("human_review")
    /\ resume # "none"
    /\ Reviewed("no")

\* interrupt() returns the payload of the run's resume.
HumanReview ==
    /\ At("human_review")
    /\ resume # "none"
    /\ Reviewed(IF resume = "approve" THEN "yes" ELSE "no")

\* Mutation: only the reporter's own entry is flushed.
FlushLastEntry(trail) == batches' = Append(batches, <<trail[Len(trail)]>>)

\* flush_audit_trail: all rows in one transaction.
FlushAuditTrail(trail) == batches' = Append(batches, trail)

ReportOf(t) ==
    [human_approved    |-> t.human_approved,
     retrieval_score   |-> t.retrieval_score,
     rewrite_count     |-> t.rewrite_count,
     remediation_steps |-> t.remediation_steps]

\* A flush that fails is logged and the node goes on.
Reporter ==
    /\ At("reporter")
    /\ LET trail == Append(thread.audit_trail, "report_generated")
       IN  /\ FlushAuditTrail(trail) \/ UNCHANGED batches
           /\ thread' = [thread EXCEPT !.next = "end",
                                       !.report = ReportOf(thread),
                                       !.audit_trail = trail]
    /\ StepDone

-----------------------------------------------------------------------------
RunStep ==
    \/ InjectionCheck
    \/ Retrieve
    \/ Grade
    \/ Rewrite
    \/ Remediate
    \/ HumanReview
    \/ Reporter
    \/ RunReturns

Next ==
    \/ Invoke
    \/ \E d \in Decisions : Resume(d) \/ ResumeFails(d)
    \/ Checkpoint
    \/ RunDies
    \/ RunStep

Spec == Init /\ [][Next]_vars

\* The event loop goes on with a run it has started, and an awaited model,
\* index or database call comes back.  Nobody has to approve, and no
\* checkpoint has to be written before the run returns.
FairSpec == Spec /\ WF_vars(RunStep)

-----------------------------------------------------------------------------
(* Properties                                                              *)

\* How often an action is in a trail.
Count(trail, action) == Cardinality({i \in DOMAIN trail : trail[i] = action})

\* The rewrite loop is bounded over the life of the thread: rewrites are
\* counted one by one (rewriter.py:81), never reset by a redelivery
\* (injection_check.py:68, 95) nor lost apart from the trail by a crash, and
\* stop at MAX_REWRITES (routers.py:39-43).
RewritesAreCounted ==
    \A t \in {thread, saved} :
        /\ Count(t.audit_trail, "hyde_rewrite") = t.rewrite_count
        /\ t.rewrite_count <= MAX_REWRITES

\* The nodes a run at t may still go through: rewriting leads back, and costs
\* one of the rewrites left.
Ahead(next) ==
    CASE next = "injection_check" -> 6
      [] next = "retrieve" -> 5
      [] next = "grade" -> 4
      [] next \in {"rewrite", "remediation"} -> 3
      [] next = "human_review" -> 2
      [] next = "reporter" -> 1
      [] OTHER -> 0

NodesLeft(t) == Ahead(t.next) + 3 * (MAX_REWRITES - t.rewrite_count)

\* Every node takes its run nearer to the end, the rewrite loop included
\* (builder.py:80-110, routers.py:39-43): no cycle of the graph can go on for
\* ever, whatever the models reply.
RunsRunDown ==
    [][run = "running" /\ thread' # thread =>
          \/ NodesLeft(thread') < NodesLeft(thread)
          \/ run' = "idle"]_vars

\* A run from the entry point with no rewrite spent yet.
FullRun == 6 + 3 * MAX_REWRITES

\* What the event costs over its life, the nodes of runs that died behind their
\* checkpoint included: six for each time it is handed out and three for each
\* rewrite, whose budget neither a redelivery nor an approval grants anew
\* (injection_check.py:68, rewriter.py:81).  Only a death does: it may lose the
\* rewrites of its run with the checkpoint, and adds at most one run anew.
WorkIsBounded == work <= 6 * invokes + 3 * MAX_REWRITES + deaths * FullRun

\* builder.py:52-54: a CRITICAL event enters the reporter from the human
\* review of an approve, and its report says so; whatever an earlier run, a
\* stale human_approved channel or a restart from an old checkpoint left.
ReportNeedsApproval ==
    severity = "CRITICAL" =>
        \A t \in {thread, saved} :
            /\ t.next = "reporter" =>
                  /\ t.human_approved = "yes"
                  /\ t.audit_trail # <<>>
                  /\ t.audit_trail[Len(t.audit_trail)] = "human_approved"
            /\ t.report.human_approved \in {"none", "yes"}

\* One approval lets at most one report into the thread, and an approval is one
\* that was asked for: of the approve requests, those that found the event at
\* its review count, and each is used by that review.  A decision that resumes
\* a run at another node is never kept for the suspension the run comes to, nor
\* for a later one.
ApprovalUsedOnce ==
    severity = "CRITICAL" =>
        \A t \in {thread, saved} :
            /\ Count(t.audit_trail, "report_generated")
                  <= Count(t.audit_trail, "human_approved")
            /\ Count(t.audit_trail, "human_approved") <= approvals

\* A report is the outcome of the grading loop (routers.py:31-43,
\* output_filter.py:88): the runbooks it names passed the grade or all the
\* thread's rewrites were spent on them, and steps of the model stand in it only
\* with the grounding the output filter asks for; although score, rewrite
\* count and steps are channels of their own that a redelivery finds set.
ReportIsGraded ==
    \A t \in {thread, saved} : t.report # NoReport =>
        /\ \/ t.report.retrieval_score >= GRADE_PASS_THRESHOLD
           \/ t.report.rewrite_count = MAX_REWRITES
        /\ t.report.remediation_steps = "model" =>
              t.report.retrieval_score >= HALLUCINATION_SCORE_THRESHOLD
        /\ t.report.remediation_steps # "unset"

\* What the audit table shows of a CRITICAL event: every report_generated row
\* is written with the human_approved row right before it, in the same
\* transaction, also by reports of runs that died before their checkpoint.
AuditShowsApproval ==
    severity = "CRITICAL" =>
        \A b \in DOMAIN batches : \A i \in DOMAIN batches[b] :
            batches[b][i] = "report_generated" =>
                i > 1 /\ batches[b][i - 1] = "human_approved"

\* ainvoke comes back: the rewrite loop ends and a CRITICAL event suspends
\* instead of holding its worker until somebody decides.
RunEnds == (run = "running") ~> (run = "idle")

\* A run of an event nobody has to approve ends in its report, whatever scores
\* the grader gives (routers.py:39-43, best effort after MAX_REWRITES), unless
\* the injection check blocks it or the run dies.
UncriticalRunReports ==
    (run = "running" /\ severity # "CRITICAL") ~>
        \/ saved.report # NoReport
        \/ Count(saved.audit_trail, "injection_blocked") > 0
        \/ deaths > 0

\* M6 and threats.py:44: an approve request for a suspended event leads to its
\* report, when the approver's graph shares the saver and no run dies.
ApprovalLeadsToReport ==
    (requested = "yes") ~> (saved.report.human_approved = "yes" \/ deaths > 0)

\* threats.py:45-46, "``approved=False`` terminates the pipeline without a
\* report": once a resumed run has ended on a rejection, the thread holds no
\* report to answer with (threats.py:70).
RejectEndsWithoutReport ==
    run = "running" /\ thread.next = "end"
                    /\ thread.audit_trail[Len(thread.audit_trail)] = "human_rejected"
        => thread.report = NoReport

\* docs/M7-security/system-design.md:89, "Every graph run produces one or more
\* AuditEntry rows in Postgres": a run that has returned at END left rows.
EveryRunAudited ==
    run = "idle" /\ saved.next = "end" => batches # <<>>

=============================================================================
