-------------------------- MODULE AgentGraphProofs --------------------------
(***************************************************************************)
(* Theorems about AgentGraph for any number of rewrites, redeliveries,     *)
(* decisions and dying runs, with either saver behind the approval route.  *)
(***************************************************************************)
EXTENDS AgentGraph, FiniteSetTheorems, TLAPS

-----------------------------------------------------------------------------
(* Type correctness                                                        *)

\* Between runs nothing is in flight: memory is the checkpoint, and no resume
\* payload is left over.
Quiet == run = "idle" => thread = saved /\ resume = "none"

Typed == TypeOK /\ Quiet

\* Whatever the judge replies, a reply that does not raise gives a score
\* between 0 and 1: the thresholds of the edges and of the output filter are
\* compared with nothing else.
THEOREM ScoresAreBounded ==
    ASSUME NEW reply \in Replies, ~GradeRaises(reply)
    PROVE  ParseGrade(reply) \in Scores
<1>1. reply.score \in [kind : {"number"}, tenths : Int]
                         \union [kind : {"nan", "huge", "unusable"}]
  BY DEF Replies
<1>2. reply.found \in Scores \union {NoNumber}
  BY DEF Replies
<1>3. CASE reply.score.kind = "number"
  <2>1. reply.score.tenths \in Int
    BY <1>1, <1>3
  <2>2. ParseGrade(reply) = Clamp(reply.score.tenths)
    BY <1>3 DEF ParseGrade
  <2>3. QED
    BY <2>1, <2>2 DEF Clamp, Scores
<1>4. CASE reply.score.kind = "nan"
  BY <1>4 DEF ParseGrade, Scores
<1>5. CASE reply.score.kind = "unusable"
  <2>1. ParseGrade(reply) = IF reply.found = NoNumber THEN 0 ELSE reply.found
    BY <1>5 DEF ParseGrade
  <2>2. QED
    BY <1>2, <2>1 DEF Scores
<1>6. reply.score.kind \in {"number", "nan", "unusable"}
  BY <1>1 DEF GradeRaises
<1>7. QED
  BY <1>3, <1>4, <1>5, <1>6

\* The threads a node leaves behind are threads.
LEMMA StepsAreThreads ==
    ASSUME NEW t \in Threads, NEW next \in Nodes \union {"none", "end"},
           NEW action \in AuditActions
    PROVE  /\ [t EXCEPT !.next = next] \in Threads
           /\ [t EXCEPT !.next = next, !.audit_trail = Append(@, action)] \in Threads
           /\ [t EXCEPT !.rewrite_count = @ + 1] \in Threads
           /\ \A score \in Scores : [t EXCEPT !.retrieval_score = score] \in Threads
           /\ \A steps \in StepSources : [t EXCEPT !.remediation_steps = steps] \in Threads
           /\ \A yn \in {"yes", "no"} : [t EXCEPT !.human_approved = yn] \in Threads
           /\ [t EXCEPT !.next = next, !.report = ReportOf(t),
                        !.audit_trail = Append(t.audit_trail, action)] \in Threads
           /\ Append(t.audit_trail, action) \in Seq(AuditActions)
<1>1. /\ t.audit_trail \in Seq(AuditActions) /\ t.rewrite_count + 1 \in Nat
      /\ t.human_approved \in Approvals /\ t.rewrite_count \in Nat
      /\ t.retrieval_score \in Scores /\ t.remediation_steps \in StepSources
  BY DEF Threads
<1>2. Append(t.audit_trail, action) \in Seq(AuditActions)
  BY <1>1
<1>3. [t EXCEPT !.next = next] \in Threads
  BY DEF Threads
<1>4. [t EXCEPT !.next = next, !.audit_trail = Append(@, action)] \in Threads
  BY <1>2 DEF Threads
<1>5. [t EXCEPT !.rewrite_count = @ + 1] \in Threads
  BY <1>1 DEF Threads
<1>6. \A score \in Scores : [t EXCEPT !.retrieval_score = score] \in Threads
  BY DEF Threads
<1>7. \A steps \in StepSources : [t EXCEPT !.remediation_steps = steps] \in Threads
  BY DEF Threads
<1>8. \A yn \in {"yes", "no"} : [t EXCEPT !.human_approved = yn] \in Threads
  BY DEF Threads, Approvals
<1>9. ReportOf(t) \in Reports
  BY <1>1 DEF ReportOf, Reports
<1>10. [t EXCEPT !.next = next, !.report = ReportOf(t),
                 !.audit_trail = Append(t.audit_trail, action)] \in Threads
  BY <1>2, <1>9 DEF Threads
<1>11. QED
  BY <1>2, <1>3, <1>4, <1>5, <1>6, <1>7, <1>8, <1>10

\* What the injection check, the grader and the remediation move on with,
\* whatever texts and replies they are given.
LEMMA InjectionStep ==
    ASSUME InjectionCheck
    PROVE  \E blocked \in BOOLEAN :
              MoveOn(thread, route_after_injection(blocked),
                     IF blocked THEN "injection_blocked" ELSE "injection_check_passed")
<1>1. PICK text \in EventTexts :
         MoveOn(thread, route_after_injection(InjectionBlocked(text, INJECTION_L2_ENABLED)),
                IF InjectionBlocked(text, INJECTION_L2_ENABLED)
                THEN "injection_blocked" ELSE "injection_check_passed")
  BY DEF InjectionCheck
<1>2. InjectionBlocked(text, INJECTION_L2_ENABLED) \in BOOLEAN
  BY DEF InjectionBlocked
<1>3. QED
  BY <1>1, <1>2

LEMMA GradeStep ==
    ASSUME GraphAssumption, Grade
    PROVE  \E score \in Scores :
              MoveOn([thread EXCEPT !.retrieval_score = score],
                     route_after_grade(score, thread.rewrite_count), "retrieval_graded")
<1>1. PICK reply \in JudgeReplies :
         /\ ~GradeRaises(reply)
         /\ MoveOn([thread EXCEPT !.retrieval_score = ParseGrade(reply)],
                   route_after_grade(ParseGrade(reply), thread.rewrite_count),
                   "retrieval_graded")
  BY DEF Grade
<1>2. ParseGrade(reply) \in Scores
  BY <1>1, ScoresAreBounded DEF GraphAssumption
<1>3. QED
  BY <1>1, <1>2

\* Steps of the model pass with the grounding the output filter asks for.
LEMMA RemediateStep ==
    ASSUME Remediate
    PROVE  \E steps \in {"model", "filtered"} :
              /\ MoveOn([thread EXCEPT !.remediation_steps = steps],
                        route_after_remediation, "remediation_generated")
              /\ steps = "model" =>
                    ~(thread.retrieval_score < HALLUCINATION_SCORE_THRESHOLD)
<1>1. PICK output \in ModelOutputs :
         MoveOn([thread EXCEPT !.remediation_steps =
                    IF OutputBlocked(output, thread.retrieval_score)
                    THEN "filtered" ELSE "model"],
                route_after_remediation, "remediation_generated")
  BY DEF Remediate
<1>2. CASE OutputBlocked(output, thread.retrieval_score)
  BY <1>1, <1>2
<1>3. CASE ~OutputBlocked(output, thread.retrieval_score)
  BY <1>1, <1>3 DEF OutputBlocked
<1>4. QED
  BY <1>2, <1>3

\* A step of any kind keeps the types.
LEMMA GraphTypeStep == GraphAssumption /\ Typed /\ [Next]_vars => Typed'
<1> SUFFICES ASSUME GraphAssumption, Typed, [Next]_vars
             PROVE  Typed'
  OBVIOUS
<1> USE DEF Typed, Quiet
<1>a. /\ severity \in {"CRITICAL", "OTHER"}
      /\ run \in {"idle", "running"}
      /\ thread \in Threads
      /\ saved \in Threads
      /\ resume \in Decisions \union {"none"}
      /\ batches \in Seq(Seq(AuditActions))
      /\ approvals \in 0..decisions
      /\ requested \in {"no", "yes"}
      /\ work \in Nat
      /\ invokes \in 0..MaxInvokes
      /\ decisions \in 0..MaxDecisions
      /\ deaths \in 0..MaxDeaths
  BY DEF TypeOK
<1>b. /\ MaxInvokes \in Nat /\ MaxDecisions \in Nat /\ MaxDeaths \in Nat
  BY DEF GraphAssumption
<1>c. ASSUME StepDone, thread' \in Threads, batches' \in Seq(Seq(AuditActions)),
             run = "running"
      PROVE  Typed'
  BY <1>a, <1>c DEF StepDone, TypeOK, counters
<1>d. ASSUME NEW t \in Threads, NEW next \in Nodes \union {"none", "end"},
             NEW action \in AuditActions, MoveOn(t, next, action), run = "running"
      PROVE  Typed'
  <2>1. thread' \in Threads
    BY <1>d, StepsAreThreads DEF MoveOn
  <2>2. QED
    BY <1>a, <1>c, <1>d, <2>1 DEF MoveOn
<1>1. CASE Invoke
  <2>1. thread' \in Threads
    BY <1>a, <1>1, StepsAreThreads DEF Invoke, Nodes, AuditActions
  <2>2. QED
    BY <1>a, <1>b, <1>1, <2>1 DEF Invoke, TypeOK
<1>2. ASSUME NEW d \in Decisions, Resume(d)
      PROVE  Typed'
  BY <1>a, <1>b, <1>2 DEF Resume, TypeOK
<1>3. ASSUME NEW d \in Decisions, ResumeFails(d)
      PROVE  Typed'
  BY <1>a, <1>b, <1>3 DEF ResumeFails, TypeOK, threadVars
<1>4. CASE Checkpoint
  BY <1>a, <1>4 DEF Checkpoint, TypeOK, counters
<1>5. CASE RunDies
  BY <1>a, <1>b, <1>5 DEF RunDies, TypeOK
<1>6. CASE InjectionCheck
  <2>1. PICK blocked \in BOOLEAN :
           MoveOn(thread, route_after_injection(blocked),
                  IF blocked THEN "injection_blocked" ELSE "injection_check_passed")
    BY <1>6, InjectionStep
  <2>2. QED
    BY <1>a, <1>d, <1>6, <2>1
       DEF InjectionCheck, At, route_after_injection, Nodes, AuditActions
<1>7. CASE Retrieve
  BY <1>a, <1>d, <1>7 DEF Retrieve, At, Nodes, AuditActions
<1>8. CASE Grade
  <2>1. PICK score \in Scores :
           MoveOn([thread EXCEPT !.retrieval_score = score],
                  route_after_grade(score, thread.rewrite_count), "retrieval_graded")
    BY <1>8, GradeStep
  <2>2. [thread EXCEPT !.retrieval_score = score] \in Threads
    BY <1>a, StepsAreThreads DEF Nodes, AuditActions
  <2>3. QED
    BY <1>d, <1>8, <2>1, <2>2 DEF Grade, At, route_after_grade, Nodes, AuditActions
<1>9. CASE Rewrite
  <2>1. [thread EXCEPT !.rewrite_count = @ + 1] \in Threads
    BY <1>a, StepsAreThreads DEF Nodes, AuditActions
  <2>2. QED
    BY <1>d, <1>9, <2>1 DEF Rewrite, At, Nodes, AuditActions
<1>10. CASE Remediate
  <2>1. PICK steps \in {"model", "filtered"} :
           MoveOn([thread EXCEPT !.remediation_steps = steps],
                  route_after_remediation, "remediation_generated")
    BY <1>10, RemediateStep
  <2>2. [thread EXCEPT !.remediation_steps = steps] \in Threads
    BY <1>a, StepsAreThreads DEF Nodes, AuditActions, StepSources
  <2>3. QED
    BY <1>d, <1>10, <2>1, <2>2
       DEF Remediate, At, route_after_remediation, Nodes, AuditActions
<1>11. CASE HumanReview
  <2>1. PICK yn \in {"yes", "no"} : Reviewed(yn)
    BY <1>11 DEF HumanReview
  <2>2. [thread EXCEPT !.human_approved = yn] \in Threads
    BY <1>a, StepsAreThreads DEF Nodes, AuditActions
  <2>3. QED
    BY <1>d, <1>11, <2>1, <2>2
       DEF HumanReview, Reviewed, At, route_after_human_review, Nodes, AuditActions
<1>12. CASE Reporter
  <2>1. /\ thread' \in Threads
        /\ Append(thread.audit_trail, "report_generated") \in Seq(AuditActions)
    BY <1>a, <1>12, StepsAreThreads DEF Reporter, Nodes, AuditActions
  <2>2. batches' \in Seq(Seq(AuditActions))
    <3>1. \/ batches' = Append(batches, Append(thread.audit_trail, "report_generated"))
          \/ batches' = batches
      BY <1>12 DEF Reporter, FlushAuditTrail
    <3>2. ASSUME NEW T, NEW bs \in Seq(T), NEW b \in T
          PROVE  Append(bs, b) \in Seq(T)
      OBVIOUS
    <3>3. QED
      BY <1>a, <2>1, <3>1, <3>2
  <2>3. QED
    BY <1>c, <1>12, <2>1, <2>2 DEF Reporter, At
<1>13. CASE RunReturns
  BY <1>a, <1>13 DEF RunReturns, TypeOK, counters
<1>14. CASE UNCHANGED vars
  BY <1>a, <1>14 DEF vars, threadVars, counters, TypeOK
<1>15. QED
  BY <1>1, <1>2, <1>3, <1>4, <1>5, <1>6, <1>7, <1>8, <1>9, <1>10, <1>11, <1>12,
     <1>13, <1>14 DEF Next, RunStep

\* The initial thread is a thread, and nothing is in flight.
LEMMA GraphTypeInit == GraphAssumption /\ Init => Typed
<1> SUFFICES ASSUME GraphAssumption, Init
             PROVE  Typed
  OBVIOUS
<1>1. NewThread \in Threads
  BY DEF Threads, NewThread, Scores, StepSources, Approvals
<1>2. batches \in Seq(Seq(AuditActions))
  BY DEF Init
<1>3. QED
  BY <1>1, <1>2 DEF Init, Typed, Quiet, TypeOK, GraphAssumption

\* Every reachable state of the graph is well typed (type correctness).
THEOREM GraphTypeCorrect == Spec => []TypeOK
<1>1. Init => Typed
  BY GraphTypeInit, GraphAssumption
<1>2. Typed => TypeOK
  BY DEF Typed
<1>3. QED
  BY <1>1, <1>2, GraphTypeStep, GraphAssumption, PTL DEF Spec

-----------------------------------------------------------------------------
(* Counting in trails                                                      *)

\* A count is a natural number.
LEMMA CountIsNat ==
    ASSUME NEW s \in Seq(AuditActions), NEW b
    PROVE  Count(s, b) \in Nat
<1>1. IsFiniteSet(1..Len(s))
  BY FS_Interval
<1>2. IsFiniteSet({i \in DOMAIN s : s[i] = b})
  BY <1>1, FS_Subset
<1>3. QED
  BY <1>2, FS_CardinalityType DEF Count

\* A node's entry adds one to its own count and nothing to the others.
LEMMA CountAppend ==
    ASSUME NEW s \in Seq(AuditActions), NEW a \in AuditActions, NEW b
    PROVE  Count(Append(s, a), b) = Count(s, b) + (IF a = b THEN 1 ELSE 0)
<1> DEFINE I == {i \in DOMAIN s : s[i] = b}
           J == {i \in DOMAIN Append(s, a) : Append(s, a)[i] = b}
           n == Len(s) + 1
<1>1. IsFiniteSet(1..Len(s))
  BY FS_Interval
<1>2. IsFiniteSet(I)
  BY <1>1, FS_Subset
<1>3. n \notin I
  OBVIOUS
<1>c. Count(Append(s, a), b) = Cardinality(J) /\ Count(s, b) = Cardinality(I)
  BY DEF Count
<1> HIDE DEF I, J
<1>4. CASE a = b
  <2>1. J = I \union {n}
    BY <1>4 DEF I, J
  <2>2. Cardinality(J) = Cardinality(I) + 1
    BY <1>2, <1>3, <2>1, FS_AddElement
  <2>3. QED
    BY <1>c, <1>4, <2>2
<1>5. CASE a # b
  <2>1. J = I
    BY <1>5 DEF I, J
  <2>2. Cardinality(I) \in Nat
    BY <1>2, FS_CardinalityType
  <2>3. QED
    BY <1>c, <1>5, <2>1, <2>2
<1>6. QED
  BY <1>4, <1>5

\* The empty trail has nothing to count.
LEMMA CountEmpty == \A b : Count(<<>>, b) = 0
<1>1. \A b : {i \in DOMAIN <<>> : <<>>[i] = b} = {}
  OBVIOUS
<1>2. QED
  BY <1>1, FS_EmptySet DEF Count

-----------------------------------------------------------------------------
(* The rewrite loop                                                        *)

\* The count is exact, and a pending rewrite still has budget.
RewriteOK(t) ==
    /\ Count(t.audit_trail, "hyde_rewrite") = t.rewrite_count
    /\ t.rewrite_count <= MAX_REWRITES
    /\ t.next = "rewrite" => t.rewrite_count < MAX_REWRITES

RewriteInv == RewriteOK(thread) /\ RewriteOK(saved)

\* No step miscounts a rewrite or starts one too many.
LEMMA RewriteStep ==
    GraphAssumption /\ Typed /\ RewriteInv /\ [Next]_vars => RewriteInv'
<1> SUFFICES ASSUME GraphAssumption, Typed, RewriteInv, [Next]_vars
             PROVE  RewriteInv'
  OBVIOUS
<1>a. /\ thread \in Threads /\ saved \in Threads
      /\ thread.audit_trail \in Seq(AuditActions)
      /\ thread.rewrite_count \in Nat /\ saved.rewrite_count \in Nat
      /\ MAX_REWRITES \in Nat
  BY DEF Typed, TypeOK, Threads, GraphAssumption
<1>b. RewriteOK(thread) /\ RewriteOK(saved)
  BY DEF RewriteInv
<1>c. ASSUME NEW next \in Nodes \union {"none", "end"},
             NEW action \in AuditActions \ {"hyde_rewrite"},
             next = "rewrite" => thread.rewrite_count < MAX_REWRITES,
             thread'.next = next,
             thread'.rewrite_count = thread.rewrite_count,
             thread'.audit_trail = Append(thread.audit_trail, action),
             saved' = saved
      PROVE  RewriteInv'
  <2>1. Count(Append(thread.audit_trail, action), "hyde_rewrite")
           = Count(thread.audit_trail, "hyde_rewrite") + 0
    BY <1>a, CountAppend
  <2>2. Count(thread.audit_trail, "hyde_rewrite") = thread.rewrite_count
    BY <1>b DEF RewriteOK
  <2>3. RewriteOK(thread)'
    BY <1>a, <1>b, <1>c, <2>1, <2>2 DEF RewriteOK
  <2>4. QED
    BY <1>b, <1>c, <2>3 DEF RewriteInv
<1>d. ASSUME NEW t \in Threads,
             t.rewrite_count = thread.rewrite_count,
             t.audit_trail = thread.audit_trail,
             NEW next \in Nodes \union {"none", "end"},
             NEW action \in AuditActions \ {"hyde_rewrite"},
             next = "rewrite" => thread.rewrite_count < MAX_REWRITES,
             MoveOn(t, next, action)
      PROVE  RewriteInv'
  <2>1. /\ thread'.next = next
        /\ thread'.rewrite_count = thread.rewrite_count
        /\ thread'.audit_trail = Append(thread.audit_trail, action)
        /\ saved' = saved
    BY <1>d DEF MoveOn, StepDone, Threads
  <2>2. QED
    BY <1>c, <1>d, <2>1
<1>1. CASE Invoke
  <2>1. thread' = [saved EXCEPT !.next = "injection_check"] /\ saved' = saved
    BY <1>1 DEF Invoke
  <2>2. QED
    BY <1>a, <1>b, <2>1 DEF RewriteInv, RewriteOK, Threads
<1>2. CASE UNCHANGED <<thread, saved>>
  BY <1>b, <1>2 DEF RewriteInv
<1>3. CASE Checkpoint \/ RunReturns
  BY <1>b, <1>3 DEF Checkpoint, RunReturns, RewriteInv
<1>4. CASE RunDies
  BY <1>b, <1>4 DEF RunDies, RewriteInv
<1>5. CASE InjectionCheck
  BY <1>a, <1>d, <1>5, InjectionStep DEF route_after_injection, Nodes, AuditActions
<1>6. CASE Retrieve
  BY <1>a, <1>d, <1>6 DEF Retrieve, Nodes, AuditActions
<1>7. CASE Grade
  <2>1. PICK score \in Scores :
           MoveOn([thread EXCEPT !.retrieval_score = score],
                  route_after_grade(score, thread.rewrite_count), "retrieval_graded")
    BY <1>7, GradeStep
  <2>2. [thread EXCEPT !.retrieval_score = score] \in Threads
    BY <1>a, StepsAreThreads DEF Nodes, AuditActions
  <2>3. /\ [thread EXCEPT !.retrieval_score = score].rewrite_count = thread.rewrite_count
        /\ [thread EXCEPT !.retrieval_score = score].audit_trail = thread.audit_trail
    BY <1>a DEF Threads
  <2>4. QED
    BY <1>d, <2>1, <2>2, <2>3 DEF route_after_grade, Nodes, AuditActions
<1>8. CASE Rewrite
  <2>1. /\ thread.next = "rewrite"
        /\ thread'.next = "retrieve"
        /\ thread'.rewrite_count = thread.rewrite_count + 1
        /\ thread'.audit_trail = Append(thread.audit_trail, "hyde_rewrite")
        /\ saved' = saved
    BY <1>a, <1>8 DEF Rewrite, MoveOn, At, StepDone, Threads
  <2>2. Count(Append(thread.audit_trail, "hyde_rewrite"), "hyde_rewrite")
           = Count(thread.audit_trail, "hyde_rewrite") + 1
    BY <1>a, CountAppend DEF AuditActions
  <2>3. RewriteOK(thread)'
    BY <1>a, <1>b, <2>1, <2>2 DEF RewriteOK
  <2>4. QED
    BY <1>b, <2>1, <2>3 DEF RewriteInv
<1>9. CASE Remediate
  <2>1. PICK steps \in {"model", "filtered"} :
           MoveOn([thread EXCEPT !.remediation_steps = steps],
                  route_after_remediation, "remediation_generated")
    BY <1>9, RemediateStep
  <2>2. [thread EXCEPT !.remediation_steps = steps] \in Threads
    BY <1>a, StepsAreThreads DEF Nodes, AuditActions, StepSources
  <2>3. /\ [thread EXCEPT !.remediation_steps = steps].rewrite_count = thread.rewrite_count
        /\ [thread EXCEPT !.remediation_steps = steps].audit_trail = thread.audit_trail
    BY <1>a DEF Threads
  <2>4. QED
    BY <1>d, <2>1, <2>2, <2>3 DEF route_after_remediation, Nodes, AuditActions
<1>10. CASE HumanReview
  <2>1. PICK yn \in {"yes", "no"} : Reviewed(yn)
    BY <1>10 DEF HumanReview
  <2>2. [thread EXCEPT !.human_approved = yn] \in Threads
    BY <1>a, StepsAreThreads DEF Nodes, AuditActions
  <2>3. /\ [thread EXCEPT !.human_approved = yn].rewrite_count = thread.rewrite_count
        /\ [thread EXCEPT !.human_approved = yn].audit_trail = thread.audit_trail
    BY <1>a DEF Threads
  <2>4. QED
    BY <1>d, <2>1, <2>2, <2>3
       DEF Reviewed, route_after_human_review, Nodes, AuditActions
<1>11. CASE Reporter
  <2>1. /\ thread'.next = "end"
        /\ thread'.rewrite_count = thread.rewrite_count
        /\ thread'.audit_trail = Append(thread.audit_trail, "report_generated")
        /\ saved' = saved
    BY <1>a, <1>11 DEF Reporter, StepDone, Threads
  <2>2. QED
    BY <1>c, <2>1 DEF Nodes, AuditActions
<1>12. ASSUME NEW d \in Decisions, Resume(d) \/ ResumeFails(d)
       PROVE  UNCHANGED <<thread, saved>>
  BY <1>12 DEF Resume, ResumeFails, threadVars
<1>13. QED
  BY <1>1, <1>2, <1>3, <1>4, <1>5, <1>6, <1>7, <1>8, <1>9, <1>10, <1>11, <1>12
     DEF Next, RunStep, vars, threadVars

\* For any MAX_REWRITES and any number of redeliveries, crashes and resumes,
\* rewrites are counted exactly and never exceed MAX_REWRITES.
THEOREM RewritesStayCounted == Spec => []RewritesAreCounted
<1>1. Init => Typed
  BY GraphTypeInit, GraphAssumption
<1>2. Init => RewriteInv
  BY CountEmpty, GraphAssumption
     DEF Init, RewriteInv, RewriteOK, NewThread, GraphAssumption
<1>3. RewriteInv => RewritesAreCounted
  BY DEF RewriteInv, RewriteOK, RewritesAreCounted
<1>4. QED
  BY <1>1, <1>2, <1>3, GraphTypeStep, RewriteStep, GraphAssumption, PTL DEF Spec

-----------------------------------------------------------------------------
(* The length of a run                                                     *)

\* The thread has gone through one node, and has fewer before it.
Advances ==
    /\ NodesLeft(thread') < NodesLeft(thread)
    /\ work' = work + 1
    /\ saved' = saved
    /\ invokes' = invokes
    /\ deaths' = deaths

LEMMA NodesLeftIsNat ==
    ASSUME GraphAssumption, NEW t \in Threads, RewriteOK(t)
    PROVE  NodesLeft(t) \in Nat /\ Ahead(t.next) \in 0..6
<1>1. /\ t.next \in Nodes \union {"none", "end"}
      /\ t.rewrite_count \in Nat /\ t.rewrite_count <= MAX_REWRITES
      /\ MAX_REWRITES \in Nat
  BY DEF Threads, RewriteOK, GraphAssumption
<1>2. Ahead(t.next) \in 0..6
  BY <1>1 DEF Ahead, Nodes
<1> QED
  BY <1>1, <1>2 DEF NodesLeft

\* A node goes on nearer to the end, whatever it is handed.
LEMMA NodeAdvances ==
    ASSUME GraphAssumption, Typed, RewriteInv, RunStep, ~RunReturns
    PROVE  Advances
<1>a. /\ thread \in Threads
      /\ thread.rewrite_count \in Nat /\ MAX_REWRITES \in Nat
  BY DEF Typed, TypeOK, Threads, GraphAssumption
\* One of the nodes that move on without a rewrite.
<1>b. ASSUME NEW t \in Threads,
             t.rewrite_count = thread.rewrite_count,
             NEW next, NEW action,
             Ahead(next) < Ahead(thread.next), Ahead(next) \in Int, Ahead(thread.next) \in Int,
             MoveOn(t, next, action)
      PROVE  Advances
  <2>1. /\ thread'.next = next
        /\ thread'.rewrite_count = thread.rewrite_count
        /\ work' = work + 1
        /\ saved' = saved /\ invokes' = invokes /\ deaths' = deaths
    BY <1>b DEF MoveOn, StepDone, counters, Threads
  <2>2. NodesLeft(thread') < NodesLeft(thread)
    BY <1>a, <1>b, <2>1 DEF NodesLeft
  <2> QED
    BY <2>1, <2>2 DEF Advances
<1>1. CASE InjectionCheck
  <2>1. PICK blocked \in BOOLEAN :
           MoveOn(thread, route_after_injection(blocked),
                  IF blocked THEN "injection_blocked" ELSE "injection_check_passed")
    BY <1>1, InjectionStep
  <2>2. Ahead(thread.next) = 6 /\ Ahead(route_after_injection(blocked)) \in {0, 5}
    BY <1>1 DEF InjectionCheck, At, Ahead, route_after_injection
  <2> QED
    BY <1>a, <1>b, <2>1, <2>2
<1>2. CASE Retrieve
  <2>1. Ahead(thread.next) = 5 /\ Ahead("grade") = 4
    BY <1>2 DEF Retrieve, At, Ahead
  <2> QED
    BY <1>2, <1>a, <1>b, <2>1 DEF Retrieve
<1>3. CASE Grade
  <2>1. PICK score \in Scores :
           MoveOn([thread EXCEPT !.retrieval_score = score],
                  route_after_grade(score, thread.rewrite_count), "retrieval_graded")
    BY <1>3, GradeStep
  <2>2. [thread EXCEPT !.retrieval_score = score] \in Threads
    BY <1>a, StepsAreThreads DEF Nodes, AuditActions
  <2>3. [thread EXCEPT !.retrieval_score = score].rewrite_count = thread.rewrite_count
    BY <1>a DEF Threads
  <2>4. /\ Ahead(thread.next) = 4
        /\ Ahead(route_after_grade(score, thread.rewrite_count)) = 3
    BY <1>3 DEF Grade, At, Ahead, route_after_grade
  <2>5. /\ Ahead(thread.next) \in Int
        /\ Ahead(route_after_grade(score, thread.rewrite_count)) \in Int
        /\ Ahead(route_after_grade(score, thread.rewrite_count)) < Ahead(thread.next)
    BY <2>4
  <2> QED
    BY <1>b, <2>1, <2>2, <2>3, <2>5, Zenon
<1>4. CASE Rewrite
  <2>1. /\ thread.next = "rewrite" /\ thread'.next = "retrieve"
        /\ thread'.rewrite_count = thread.rewrite_count + 1
        /\ work' = work + 1
        /\ saved' = saved /\ invokes' = invokes /\ deaths' = deaths
    BY <1>a, <1>4 DEF Rewrite, MoveOn, At, StepDone, counters, Threads
  <2>2. Ahead(thread.next) = 3 /\ Ahead(thread'.next) = 5
    BY <2>1 DEF Ahead
  <2>3. NodesLeft(thread') < NodesLeft(thread)
    BY <1>a, <2>1, <2>2 DEF NodesLeft
  <2> QED
    BY <2>1, <2>3 DEF Advances
<1>5. CASE Remediate
  <2>1. PICK steps \in {"model", "filtered"} :
           MoveOn([thread EXCEPT !.remediation_steps = steps],
                  route_after_remediation, "remediation_generated")
    BY <1>5, RemediateStep
  <2>2. [thread EXCEPT !.remediation_steps = steps] \in Threads
    BY <1>a, StepsAreThreads DEF Nodes, AuditActions, StepSources
  <2>3. [thread EXCEPT !.remediation_steps = steps].rewrite_count = thread.rewrite_count
    BY <1>a DEF Threads
  <2>4. Ahead(thread.next) = 3 /\ Ahead(route_after_remediation) \in {1, 2}
    BY <1>5 DEF Remediate, At, Ahead, route_after_remediation
  <2>5. /\ Ahead(thread.next) \in Int
        /\ Ahead(route_after_remediation) \in Int
        /\ Ahead(route_after_remediation) < Ahead(thread.next)
    BY <2>4
  <2> QED
    BY <1>b, <2>1, <2>2, <2>3, <2>5, Zenon
<1>6. CASE HumanReview
  <2>1. PICK yn \in {"yes", "no"} : Reviewed(yn)
    BY <1>6 DEF HumanReview
  <2>2. [thread EXCEPT !.human_approved = yn] \in Threads
    BY <1>a, StepsAreThreads DEF Nodes, AuditActions
  <2>3. [thread EXCEPT !.human_approved = yn].rewrite_count = thread.rewrite_count
    BY <1>a DEF Threads
  <2>4. Ahead(thread.next) = 2 /\ Ahead(route_after_human_review(yn)) \in {0, 1}
    BY <1>6 DEF HumanReview, At, Ahead, route_after_human_review
  <2>5. /\ Ahead(thread.next) \in Int
        /\ Ahead(route_after_human_review(yn)) \in Int
        /\ Ahead(route_after_human_review(yn)) < Ahead(thread.next)
    BY <2>4
  <2> QED
    BY <1>b, <2>1, <2>2, <2>3, <2>5, Zenon DEF Reviewed
<1>7. CASE Reporter
  <2>1. /\ thread.next = "reporter" /\ thread'.next = "end"
        /\ thread'.rewrite_count = thread.rewrite_count
        /\ work' = work + 1
        /\ saved' = saved /\ invokes' = invokes /\ deaths' = deaths
    BY <1>a, <1>7 DEF Reporter, At, StepDone, counters, Threads
  <2>2. Ahead(thread.next) = 1 /\ Ahead(thread'.next) = 0
    BY <2>1 DEF Ahead
  <2>3. NodesLeft(thread') < NodesLeft(thread)
    BY <1>a, <2>1, <2>2 DEF NodesLeft
  <2> QED
    BY <2>1, <2>3 DEF Advances
<1> QED
  BY <1>1, <1>2, <1>3, <1>4, <1>5, <1>6, <1>7 DEF RunStep

\* No cycle of the graph can go on for ever, for any MAX_REWRITES: what a run
\* has left is a natural number and every node makes it smaller.
THEOREM NodesLeftGoDown == Spec => RunsRunDown
<1> DEFINE Down == run = "running" /\ thread' # thread =>
                      \/ NodesLeft(thread') < NodesLeft(thread)
                      \/ run' = "idle"
<1>1. Init => Typed
  BY GraphTypeInit, GraphAssumption
<1>2. Init => RewriteInv
  BY CountEmpty, GraphAssumption
     DEF Init, RewriteInv, RewriteOK, NewThread, GraphAssumption
<1>3. Typed /\ RewriteInv /\ [Next]_vars => [Down]_vars
  <2> SUFFICES ASSUME Typed, RewriteInv, Next PROVE Down
    BY DEF vars, threadVars
  <2>1. CASE RunStep
    BY <2>1, NodeAdvances, GraphAssumption DEF Advances, RunReturns
  <2>2. CASE Invoke
    BY <2>2 DEF Invoke
  <2>3. CASE RunDies
    BY <2>3 DEF RunDies
  <2>4. CASE Checkpoint
    BY <2>4 DEF Checkpoint
  <2>5. CASE \E d \in Decisions : Resume(d) \/ ResumeFails(d)
    BY <2>5 DEF Resume, ResumeFails, threadVars
  <2> QED
    BY <2>1, <2>2, <2>3, <2>4, <2>5 DEF Next
<1> QED
  BY <1>1, <1>2, <1>3, GraphTypeStep, RewriteStep, GraphAssumption,
     PTL DEF Spec, RunsRunDown

Budget == 6 * invokes + 3 * MAX_REWRITES + deaths * FullRun

\* What has been done and what the thread still has before it, together.
WorkInv == work + NodesLeft(thread) <= Budget

LEMMA OneMoreTime ==
    ASSUME NEW n \in Nat, NEW k \in Nat
    PROVE  n * k \in Nat /\ (n + 1) * k = n * k + k
  OBVIOUS

\* Only being handed out again and a death give a thread more nodes to go
\* through than it had.
LEMMA WorkStep ==
    GraphAssumption /\ Typed /\ RewriteInv /\ WorkInv /\ [Next]_vars => WorkInv'
<1> SUFFICES ASSUME GraphAssumption, Typed, RewriteInv, WorkInv, [Next]_vars
             PROVE  WorkInv'
  OBVIOUS
<1>a. /\ thread \in Threads /\ saved \in Threads
      /\ MAX_REWRITES \in Nat /\ invokes \in Nat /\ deaths \in Nat /\ work \in Nat
      /\ saved.rewrite_count \in Nat
      /\ run = "idle" => thread = saved
  BY DEF Typed, TypeOK, Quiet, Threads, GraphAssumption
<1>b. /\ NodesLeft(thread) \in Nat /\ NodesLeft(saved) \in Nat
      /\ Ahead(saved.next) \in 0..6
  BY <1>a, NodesLeftIsNat DEF RewriteInv
<1>c. FullRun \in Nat /\ NodesLeft(saved) <= FullRun
  BY <1>a, <1>b DEF FullRun, NodesLeft
<1> DEFINE lost == deaths * FullRun
<1>d. lost \in Nat /\ (deaths + 1) * FullRun = lost + FullRun
  BY <1>a, <1>c, OneMoreTime
<1>e. Budget = 6 * invokes + 3 * MAX_REWRITES + lost /\ Budget \in Nat
  BY <1>a, <1>d DEF Budget
<1> HIDE DEF lost
<1>1. CASE UNCHANGED <<thread, work, invokes, deaths>>
  BY <1>1 DEF WorkInv, Budget, NodesLeft
<1>2. CASE Advances
  <2>1. NodesLeft(thread)' \in Int
    <3>1. RewriteInv' /\ Typed'
      BY GraphTypeStep, RewriteStep
    <3> QED
      BY <3>1, NodesLeftIsNat DEF RewriteInv, Typed, TypeOK
  <2>2. NodesLeft(thread)' < NodesLeft(thread) /\ work' = work + 1 /\ Budget' = Budget
    BY <1>2 DEF Advances, Budget
  <2>3. work' + NodesLeft(thread)' <= Budget
    BY <1>a, <1>b, <1>e, <2>1, <2>2 DEF WorkInv
  <2> QED
    BY <2>2, <2>3 DEF WorkInv
<1>3. CASE RunDies
  <2>1. thread' \in {thread, saved} /\ work' = work /\ invokes' = invokes
        /\ deaths' = deaths + 1
    BY <1>3 DEF RunDies
  <2>2. Budget' = Budget + FullRun
    <3>1. Budget' = 6 * invokes + 3 * MAX_REWRITES + (deaths + 1) * FullRun
      BY <2>1 DEF Budget, FullRun
    <3> QED
      BY <1>a, <1>c, <1>d, <1>e, <3>1
  <2>3. NodesLeft(thread)' \in {NodesLeft(thread), NodesLeft(saved)}
    BY <2>1 DEF NodesLeft
  <2>4. work' + NodesLeft(thread)' <= Budget + FullRun
    BY <1>a, <1>b, <1>c, <1>e, <2>1, <2>3 DEF WorkInv
  <2> QED
    BY <2>2, <2>4 DEF WorkInv
<1>4. CASE Invoke
  <2>1. /\ thread' = [saved EXCEPT !.next = "injection_check"] /\ thread = saved
        /\ work' = work /\ invokes' = invokes + 1 /\ deaths' = deaths
    BY <1>a, <1>4 DEF Invoke
  <2>2. thread'.next = "injection_check" /\ thread'.rewrite_count = saved.rewrite_count
    BY <1>a, <2>1 DEF Threads
  <2>3. Ahead(thread'.next) = 6
    BY <2>2 DEF Ahead
  <2>4. NodesLeft(thread)' \in Int /\ NodesLeft(thread)' <= NodesLeft(thread) + 6
    <3>1. NodesLeft(thread)' = 6 + 3 * (MAX_REWRITES - saved.rewrite_count)
      BY <2>2, <2>3 DEF NodesLeft
    <3>2. NodesLeft(thread) = Ahead(saved.next) + 3 * (MAX_REWRITES - saved.rewrite_count)
      BY <2>1 DEF NodesLeft
    <3> QED
      BY <1>a, <1>b, <3>1, <3>2
  <2>5. Budget' = Budget + 6
    <3>1. Budget' = 6 * (invokes + 1) + 3 * MAX_REWRITES + lost
      BY <2>1 DEF Budget, FullRun, lost
    <3> QED
      BY <1>a, <1>d, <1>e, <3>1
  <2>6. work' + NodesLeft(thread)' <= Budget + 6
    BY <1>a, <1>b, <1>e, <2>1, <2>4 DEF WorkInv
  <2> QED
    BY <2>5, <2>6 DEF WorkInv
<1>5. CASE Checkpoint \/ RunReturns
  BY <1>1, <1>5 DEF Checkpoint, RunReturns, counters
<1>6. CASE RunStep
  BY <1>2, <1>5, <1>6, NodeAdvances
<1>7. CASE \E d \in Decisions : Resume(d) \/ ResumeFails(d)
  BY <1>1, <1>7 DEF Resume, ResumeFails, threadVars
<1> QED
  BY <1>1, <1>3, <1>4, <1>5, <1>6, <1>7 DEF Next, vars, threadVars, counters

\* Over its whole life an event costs six nodes for each time the queue hands
\* it out, three for each of MAX_REWRITES rewrites, and a full run for each run
\* that dies, the nodes lost with their checkpoint counted; for any MAX_REWRITES
\* and any number of redeliveries, decisions and deaths.
THEOREM WorkStaysBounded == Spec => []WorkIsBounded
<1>1. Init => Typed
  BY GraphTypeInit, GraphAssumption
<1>2. Init => RewriteInv
  BY CountEmpty, GraphAssumption
     DEF Init, RewriteInv, RewriteOK, NewThread, GraphAssumption
<1>3. Init => WorkInv
  <2> SUFFICES ASSUME Init PROVE WorkInv
    OBVIOUS
  <2>1. /\ thread.next = "none" /\ thread.rewrite_count = 0
        /\ work = 0 /\ invokes = 0 /\ deaths = 0
    BY DEF Init, NewThread
  <2>2. Ahead(thread.next) = 0
    BY <2>1 DEF Ahead
  <2>3. MAX_REWRITES \in Nat /\ deaths * FullRun = 0
    BY <2>1, GraphAssumption DEF GraphAssumption, FullRun
  <2> QED
    BY <2>1, <2>2, <2>3 DEF WorkInv, Budget, NodesLeft
<1>4. Typed /\ RewriteInv /\ WorkInv => WorkIsBounded
  <2> SUFFICES ASSUME Typed, RewriteInv, WorkInv PROVE WorkIsBounded
    OBVIOUS
  <2>1. /\ thread \in Threads /\ work \in Nat
        /\ MAX_REWRITES \in Nat /\ invokes \in Nat /\ deaths \in Nat
    BY GraphAssumption DEF Typed, TypeOK, GraphAssumption
  <2>2. NodesLeft(thread) \in Nat
    BY <2>1, NodesLeftIsNat, GraphAssumption DEF RewriteInv
  <2>3. FullRun \in Nat
    BY <2>1 DEF FullRun
  <2>4. deaths * FullRun \in Nat
    BY <2>1, <2>3, OneMoreTime
  <2>5. Budget \in Nat /\ work + NodesLeft(thread) <= Budget
    BY <2>1, <2>4 DEF Budget, WorkInv
  <2>6. work <= Budget
    BY <2>1, <2>2, <2>5
  <2> QED
    BY <2>6 DEF Budget, WorkIsBounded
<1> QED
  BY <1>1, <1>2, <1>3, <1>4, GraphTypeStep, RewriteStep, WorkStep, GraphAssumption,
     PTL DEF Spec

-----------------------------------------------------------------------------
(* Approvals                                                               *)

\* Every report entry of a trail has its approval right before it.
Followed(trail) ==
    \A i \in DOMAIN trail :
        trail[i] = "report_generated" => i > 1 /\ trail[i - 1] = "human_approved"

\* A thread on its way to the reporter has just been approved.
FreshlyApproved(t) ==
    /\ t.human_approved = "yes"
    /\ t.audit_trail # <<>>
    /\ t.audit_trail[Len(t.audit_trail)] = "human_approved"

Approved(t) == Count(t.audit_trail, "human_approved")
Reported(t) == Count(t.audit_trail, "report_generated")

\* The state of a CRITICAL event's thread after n approve requests: the
\* approval a thread at the reporter brings is not yet spent on a report.
CriticalOK(t, n) ==
    /\ t.report.human_approved \in {"none", "yes"}
    /\ Followed(t.audit_trail)
    /\ Reported(t) <= Approved(t)
    /\ Approved(t) <= n
    /\ t.next = "reporter" => FreshlyApproved(t) /\ Reported(t) < Approved(t)

\* An approve that the review is about to read is not in the trail yet; one
\* that resumed the run at another node is not there when a review comes.
CriticalInv ==
    severity = "CRITICAL" =>
        /\ CriticalOK(thread, approvals)
        /\ CriticalOK(saved, approvals)
        /\ resume = "approve" /\ thread.next = "human_review" =>
              Approved(thread) < approvals
        /\ \A b \in DOMAIN batches : Followed(batches[b])

\* What one more entry does to a trail's report entries.
LEMMA FollowedAppend ==
    ASSUME NEW trail \in Seq(AuditActions), NEW action \in AuditActions,
           Followed(trail),
           action = "report_generated" =>
               trail # <<>> /\ trail[Len(trail)] = "human_approved"
    PROVE  Followed(Append(trail, action))
<1> SUFFICES ASSUME NEW i \in DOMAIN Append(trail, action),
                    Append(trail, action)[i] = "report_generated"
             PROVE  i > 1 /\ Append(trail, action)[i - 1] = "human_approved"
  BY DEF Followed
<1>1. CASE i = Len(trail) + 1
  <2>1. action = "report_generated"
    BY <1>1
  <2>2. Len(trail) > 0
    BY <2>1
  <2>3. QED
    BY <1>1, <2>1, <2>2
<1>2. CASE i # Len(trail) + 1
  <2>1. i \in DOMAIN trail /\ trail[i] = "report_generated"
    BY <1>2
  <2>2. i > 1 /\ trail[i - 1] = "human_approved"
    BY <2>1 DEF Followed
  <2>3. QED
    BY <2>1, <2>2
<1>3. QED
  BY <1>1, <1>2

\* An event keeps its severity.
LEMMA SeverityStays == [Next]_vars => severity' = severity
<1>1. InjectionCheck \/ Retrieve \/ Grade \/ Rewrite \/ Remediate \/ HumanReview
         => severity' = severity
  BY DEF InjectionCheck, Retrieve, Grade, Rewrite, Remediate, HumanReview, Reviewed,
     MoveOn, StepDone
<1>2. Reporter \/ RunReturns => severity' = severity
  BY DEF Reporter, StepDone, RunReturns
<1>3. \A d \in Decisions : Resume(d) \/ ResumeFails(d) => severity' = severity
  BY DEF Resume, ResumeFails
<1>4. Invoke \/ Checkpoint \/ RunDies => severity' = severity
  BY DEF Invoke, Checkpoint, RunDies
<1>5. QED
  BY <1>1, <1>2, <1>3, <1>4 DEF Next, RunStep, vars

\* No step reports a CRITICAL event without an approval of its own.
LEMMA CriticalStep ==
    GraphAssumption /\ Typed /\ CriticalInv /\ [Next]_vars => CriticalInv'
<1> SUFFICES ASSUME GraphAssumption, Typed, CriticalInv, [Next]_vars,
                    severity = "CRITICAL"
             PROVE  CriticalInv'
  BY SeverityStays DEF CriticalInv
<1>a. /\ thread \in Threads /\ saved \in Threads
      /\ thread.audit_trail \in Seq(AuditActions)
      /\ saved.audit_trail \in Seq(AuditActions)
      /\ approvals \in Nat
  <2>1. approvals \in 0..decisions /\ decisions \in Nat
    BY DEF Typed, TypeOK, GraphAssumption
  <2>2. QED
    BY <2>1 DEF Typed, TypeOK, Threads
<1>b. /\ CriticalOK(thread, approvals)
      /\ CriticalOK(saved, approvals)
      /\ resume = "approve" /\ thread.next = "human_review" =>
            Approved(thread) < approvals
      /\ \A b \in DOMAIN batches : Followed(batches[b])
  BY DEF CriticalInv
<1>n. /\ Approved(thread) \in Nat /\ Reported(thread) \in Nat
      /\ Approved(saved) \in Nat /\ Reported(saved) \in Nat
  BY <1>a, CountIsNat DEF Approved, Reported
\* A node that is neither the review nor the reporter.
<1>c. ASSUME NEW action \in AuditActions \ {"human_approved", "report_generated"},
             thread'.next # "reporter",
             thread'.report = thread.report,
             thread'.audit_trail = Append(thread.audit_trail, action),
             saved' = saved, approvals' = approvals, resume' = "none",
             batches' = batches
      PROVE  CriticalInv'
  <2>1. Approved(thread)' = Approved(thread) /\ Reported(thread)' = Reported(thread)
    <3>1. /\ Approved(thread)' = Approved(thread) + 0
          /\ Reported(thread)' = Reported(thread) + 0
      BY <1>a, <1>c, CountAppend DEF Approved, Reported
    <3>2. QED
      BY <1>n, <3>1
  <2>2. Followed(thread.audit_trail)'
    BY <1>a, <1>b, <1>c, FollowedAppend DEF CriticalOK
  <2>3. CriticalOK(thread, approvals)'
    BY <1>b, <1>c, <2>1, <2>2 DEF CriticalOK
  <2>4. QED
    BY <1>b, <1>c, <2>3 DEF CriticalInv
<1>d. ASSUME NEW t \in Threads,
             t.report = thread.report, t.audit_trail = thread.audit_trail,
             NEW next \in Nodes \union {"none", "end"},
             NEW action \in AuditActions \ {"human_approved", "report_generated"},
             next # "reporter", MoveOn(t, next, action)
      PROVE  CriticalInv'
  <2>1. /\ thread'.next = next
        /\ thread'.report = thread.report
        /\ thread'.audit_trail = Append(thread.audit_trail, action)
        /\ saved' = saved /\ approvals' = approvals /\ resume' = "none"
        /\ batches' = batches
    BY <1>d DEF MoveOn, StepDone, counters, Threads
  <2>2. QED
    BY <1>c, <1>d, <2>1
<1>1. CASE Invoke
  <2>1. /\ thread' = [saved EXCEPT !.next = "injection_check"]
        /\ saved' = saved /\ approvals' = approvals /\ batches' = batches
        /\ resume' = "none"
    BY <1>1 DEF Invoke, Typed, Quiet
  <2>2. /\ thread'.next = "injection_check"
        /\ thread'.report = saved.report
        /\ thread'.audit_trail = saved.audit_trail
    BY <1>a, <2>1 DEF Threads
  <2>3. CriticalOK(thread, approvals)'
    BY <1>b, <2>1, <2>2 DEF CriticalOK, Approved, Reported
  <2>4. QED
    BY <1>b, <2>1, <2>3 DEF CriticalInv
<1>2. ASSUME NEW d \in Decisions, Resume(d)
      PROVE  CriticalInv'
  <2>1. /\ thread' = thread /\ saved' = saved /\ batches' = batches /\ resume' = d
        /\ approvals' = approvals + (IF d = "approve" /\ Suspended THEN 1 ELSE 0)
        /\ thread.next = "human_review" => Suspended
    BY <1>2 DEF Resume, Suspended, Typed, Quiet
  <2>2. approvals' >= approvals /\ approvals' \in Nat
    BY <1>a, <2>1
  <2>3. CriticalOK(thread, approvals)' /\ CriticalOK(saved, approvals)'
    BY <1>a, <1>b, <1>n, <2>1, <2>2 DEF CriticalOK, Approved, Reported
  <2>4. resume' = "approve" /\ thread'.next = "human_review" =>
           Approved(thread)' < approvals'
    BY <1>a, <1>b, <1>n, <2>1 DEF CriticalOK, Approved
  <2>5. QED
    BY <1>b, <2>1, <2>3, <2>4 DEF CriticalInv
<1>3. CASE UNCHANGED <<threadVars, batches, approvals>>
  BY <1>b, <1>3 DEF CriticalInv, threadVars, CriticalOK
<1>4. CASE Checkpoint \/ RunReturns
  <2>1. /\ thread' = thread /\ saved' = thread /\ batches' = batches
        /\ approvals' = approvals /\ resume' \in {resume, "none"}
    BY <1>4 DEF Checkpoint, RunReturns, counters
  <2>2. QED
    BY <1>b, <2>1 DEF CriticalInv, CriticalOK, Approved, Reported
<1>5. CASE RunDies
  <2>1. /\ saved' \in {saved, thread} /\ thread' = saved' /\ batches' = batches
        /\ approvals' = approvals /\ resume' = "none"
    BY <1>5 DEF RunDies
  <2>2. QED
    BY <1>b, <2>1 DEF CriticalInv, CriticalOK, Approved, Reported
<1>6. CASE InjectionCheck
  BY <1>a, <1>d, <1>6, InjectionStep DEF route_after_injection, Nodes, AuditActions
<1>7. CASE Retrieve
  BY <1>a, <1>d, <1>7 DEF Retrieve, Nodes, AuditActions
<1>8. CASE Grade
  <2>1. PICK score \in Scores :
           MoveOn([thread EXCEPT !.retrieval_score = score],
                  route_after_grade(score, thread.rewrite_count), "retrieval_graded")
    BY <1>8, GradeStep
  <2>2. [thread EXCEPT !.retrieval_score = score] \in Threads
    BY <1>a, StepsAreThreads DEF Nodes, AuditActions
  <2>3. /\ [thread EXCEPT !.retrieval_score = score].report = thread.report
        /\ [thread EXCEPT !.retrieval_score = score].audit_trail = thread.audit_trail
    BY <1>a DEF Threads
  <2>4. QED
    BY <1>d, <2>1, <2>2, <2>3 DEF route_after_grade, Nodes, AuditActions
<1>9. CASE Rewrite
  <2>1. [thread EXCEPT !.rewrite_count = @ + 1] \in Threads
    BY <1>a, StepsAreThreads DEF Nodes, AuditActions
  <2>2. /\ [thread EXCEPT !.rewrite_count = @ + 1].report = thread.report
        /\ [thread EXCEPT !.rewrite_count = @ + 1].audit_trail = thread.audit_trail
    BY <1>a DEF Threads
  <2>3. QED
    BY <1>d, <1>9, <2>1, <2>2 DEF Rewrite, Nodes, AuditActions
<1>10. CASE Remediate
  <2>1. PICK steps \in {"model", "filtered"} :
           MoveOn([thread EXCEPT !.remediation_steps = steps],
                  route_after_remediation, "remediation_generated")
    BY <1>10, RemediateStep
  <2>2. [thread EXCEPT !.remediation_steps = steps] \in Threads
    BY <1>a, StepsAreThreads DEF Nodes, AuditActions, StepSources
  <2>3. /\ [thread EXCEPT !.remediation_steps = steps].report = thread.report
        /\ [thread EXCEPT !.remediation_steps = steps].audit_trail = thread.audit_trail
    BY <1>a DEF Threads
  <2>4. QED
    BY <1>d, <2>1, <2>2, <2>3 DEF route_after_remediation, Nodes, AuditActions
<1>11. CASE HumanReview
  <2>1. PICK yn \in {"yes", "no"} :
          /\ yn = (IF resume = "approve" THEN "yes" ELSE "no")
          /\ Reviewed(yn)
    BY <1>11 DEF HumanReview
  <2>2. /\ thread'.next = route_after_human_review(yn)
        /\ thread'.human_approved = yn
        /\ thread'.report = thread.report
        /\ thread'.audit_trail =
              Append(thread.audit_trail, IF yn = "yes" THEN "human_approved"
                                                       ELSE "human_rejected")
        /\ saved' = saved /\ approvals' = approvals /\ resume' = "none"
        /\ batches' = batches
    BY <1>a, <2>1 DEF Reviewed, MoveOn, StepDone, counters, Threads
  <2>3. CASE yn = "no"
    BY <1>c, <2>2, <2>3 DEF route_after_human_review, AuditActions
  <2>4. CASE yn = "yes"
    <3>1. thread'.audit_trail = Append(thread.audit_trail, "human_approved")
      BY <2>2, <2>4
    <3>2. /\ Approved(thread)' = Approved(thread) + 1
          /\ Reported(thread)' = Reported(thread) + 0
      BY <1>a, <3>1, CountAppend DEF Approved, Reported, AuditActions
    <3>3. Approved(thread) < approvals
      BY <1>b, <1>11, <2>1, <2>4 DEF HumanReview, At
    <3>4. Followed(thread.audit_trail)'
      BY <1>a, <1>b, <3>1, FollowedAppend DEF CriticalOK, AuditActions
    <3>5. FreshlyApproved(thread)'
      BY <1>a, <2>2, <2>4, <3>1 DEF FreshlyApproved
    <3>6. /\ Reported(thread)' <= Approved(thread)'
          /\ Approved(thread)' <= approvals'
          /\ Reported(thread)' < Approved(thread)'
      BY <1>a, <1>b, <1>n, <2>2, <3>2, <3>3 DEF CriticalOK
    <3>7. CriticalOK(thread, approvals)'
      BY <1>b, <2>2, <3>4, <3>5, <3>6 DEF CriticalOK
    <3>8. QED
      BY <1>b, <2>2, <3>7 DEF CriticalInv, CriticalOK, Approved, Reported
  <2>5. QED
    BY <2>3, <2>4
<1>12. CASE Reporter
  <2> DEFINE trail == Append(thread.audit_trail, "report_generated")
  <2>1. /\ thread.next = "reporter"
        /\ thread'.next = "end"
        /\ thread'.report.human_approved = thread.human_approved
        /\ thread'.audit_trail = trail
        /\ saved' = saved /\ approvals' = approvals /\ resume' = "none"
        /\ batches' \in {batches, Append(batches, trail)}
    BY <1>a, <1>12
       DEF Reporter, ReportOf, At, FlushAuditTrail, StepDone, counters, Threads
  <2>2. FreshlyApproved(thread) /\ Reported(thread) < Approved(thread)
    BY <1>b, <2>1 DEF CriticalOK
  <2>3. Followed(trail)
    BY <1>a, <1>b, <2>2, FollowedAppend DEF CriticalOK, FreshlyApproved, AuditActions
  <2> HIDE DEF trail
  <2>4. /\ Approved(thread)' = Approved(thread) + 0
        /\ Reported(thread)' = Reported(thread) + 1
    BY <1>a, <2>1, CountAppend DEF Approved, Reported, AuditActions, trail
  <2>5. /\ Reported(thread)' <= Approved(thread)'
        /\ Approved(thread)' <= approvals'
    BY <1>a, <1>b, <1>n, <2>1, <2>2, <2>4 DEF CriticalOK
  <2>6. CriticalOK(thread, approvals)'
    BY <2>1, <2>2, <2>3, <2>5 DEF CriticalOK, FreshlyApproved
  <2>7. batches \in Seq(Seq(AuditActions))
    BY DEF Typed, TypeOK
  <2>8. \A b \in DOMAIN batches' : Followed(batches'[b])
    BY <1>b, <2>1, <2>3, <2>7
  <2>9. QED
    BY <1>b, <2>1, <2>6, <2>8 DEF CriticalInv, CriticalOK, Approved, Reported
<1>13. ASSUME NEW d \in Decisions, ResumeFails(d)
       PROVE  UNCHANGED <<threadVars, batches, approvals>>
  BY <1>13 DEF ResumeFails
<1>14. QED
  BY <1>1, <1>2, <1>3, <1>4, <1>5, <1>6, <1>7, <1>8, <1>9, <1>10, <1>11, <1>12, <1>13
     DEF Next, RunStep, vars, counters

\* The inductive invariant of the approval theorems.
LEMMA CriticalInvariant == Spec => [](Typed /\ CriticalInv)
<1>1. Init => Typed
  BY GraphTypeInit, GraphAssumption
<1>2. Init => CriticalInv
  BY CountEmpty
     DEF Init, CriticalInv, CriticalOK, Approved, Reported, Followed, NewThread, NoReport
<1>3. QED
  BY <1>1, <1>2, GraphTypeStep, CriticalStep, GraphAssumption, PTL DEF Spec

\* A CRITICAL event is only ever reported out of the review that approved it.
THEOREM ReportsAreApproved == Spec => []ReportNeedsApproval
<1>1. Typed /\ CriticalInv => ReportNeedsApproval
  BY DEF CriticalInv, CriticalOK, FreshlyApproved, ReportNeedsApproval
<1>2. QED
  BY <1>1, CriticalInvariant, PTL

\* Each report of a CRITICAL event has an approve request of its own.
THEOREM ApprovalsAreUsedOnce == Spec => []ApprovalUsedOnce
<1>1. Typed /\ CriticalInv => ApprovalUsedOnce
  BY DEF CriticalInv, CriticalOK, Approved, Reported, ApprovalUsedOnce
<1>2. QED
  BY <1>1, CriticalInvariant, PTL

\* In the audit table each report of a CRITICAL event follows its approval.
THEOREM AuditRecordsApproval == Spec => []AuditShowsApproval
<1>1. Typed /\ CriticalInv => AuditShowsApproval
  BY DEF CriticalInv, Followed, AuditShowsApproval
<1>2. QED
  BY <1>1, CriticalInvariant, PTL

\* As the API is shipped no approve request reaches the suspended thread, and
\* a CRITICAL event comes to no report and leaves no audit row.
NothingComesOut ==
    ApproverSaver = "own" /\ severity = "CRITICAL" =>
        /\ thread.report = NoReport /\ saved.report = NoReport
        /\ batches = <<>>

OwnSaverInv == (ApproverSaver = "own" => approvals = 0) /\ NothingComesOut

LEMMA NodeKeepsCounters == RunStep => UNCHANGED counters
<1>1. ASSUME NEW t, NEW next, NEW action, MoveOn(t, next, action)
      PROVE  UNCHANGED counters
  BY <1>1 DEF MoveOn, StepDone
<1>2. CASE InjectionCheck \/ Retrieve \/ Grade \/ Rewrite \/ Remediate \/ HumanReview
  BY <1>1, <1>2 DEF InjectionCheck, Retrieve, Grade, Rewrite, Remediate, HumanReview, Reviewed
<1>3. CASE Reporter \/ RunReturns
  BY <1>3 DEF Reporter, StepDone, RunReturns
<1> QED
  BY <1>2, <1>3 DEF RunStep

LEMMA OwnSaverStep ==
    GraphAssumption /\ Typed /\ CriticalInv /\ OwnSaverInv /\ [Next]_vars => OwnSaverInv'
<1> SUFFICES ASSUME GraphAssumption, Typed, CriticalInv, OwnSaverInv, [Next]_vars,
                    ApproverSaver = "own"
             PROVE  OwnSaverInv'
  BY DEF OwnSaverInv, NothingComesOut
<1>a. /\ thread \in Threads /\ saved \in Threads
      /\ thread.audit_trail \in Seq(AuditActions)
  BY DEF Typed, TypeOK, Threads
<1>b. approvals = 0 /\ NothingComesOut
  BY DEF OwnSaverInv
<1>1. approvals' = 0
  <2>1. ~(\E d \in Decisions : Resume(d))
    BY DEF Resume
  <2>2. CASE RunStep
    <3>1. approvals' = approvals
      BY <2>2, NodeKeepsCounters DEF counters
    <3> QED
      BY <1>b, <3>1
  <2>3. CASE Invoke \/ Checkpoint \/ RunDies \/ \E d \in Decisions : ResumeFails(d)
    BY <1>b, <2>3 DEF Invoke, Checkpoint, RunDies, ResumeFails, counters
  <2>4. CASE UNCHANGED vars
    BY <1>b, <2>4 DEF vars, counters
  <2> QED
    BY <2>1, <2>2, <2>3, <2>4 DEF Next
<1>2. SUFFICES ASSUME severity = "CRITICAL"
               PROVE  thread'.report = NoReport /\ saved'.report = NoReport /\ batches' = <<>>
  BY <1>1, SeverityStays DEF OwnSaverInv, NothingComesOut
<1>c. thread.report = NoReport /\ saved.report = NoReport /\ batches = <<>>
  BY <1>b, <1>2 DEF NothingComesOut
\* Only an approval the review has recorded leads to the reporter.
<1>3. thread.next # "reporter"
  <2>1. SUFFICES ASSUME thread.next = "reporter" PROVE FALSE
    OBVIOUS
  <2>2. CriticalOK(thread, 0)
    BY <1>b, <1>2 DEF CriticalInv
  <2>3. Reported(thread) \in Nat /\ Approved(thread) \in Nat
    BY <1>a, CountIsNat DEF Threads, Reported, Approved
  <2> QED
    BY <2>1, <2>2, <2>3 DEF CriticalOK
<1>4. ~Reporter
  BY <1>3 DEF Reporter, At
<1>d. ASSUME NEW t \in Threads, t.report = thread.report, NEW next, NEW action,
             MoveOn(t, next, action)
      PROVE  thread'.report = NoReport /\ saved' = saved /\ batches' = batches
  BY <1>c, <1>d DEF MoveOn, StepDone, Threads
<1>5. CASE InjectionCheck \/ Retrieve
  BY <1>a, <1>c, <1>d, <1>5 DEF InjectionCheck, Retrieve
<1>6. CASE Grade
  <2>1. PICK score \in Scores :
           MoveOn([thread EXCEPT !.retrieval_score = score],
                  route_after_grade(score, thread.rewrite_count), "retrieval_graded")
    BY <1>6, GradeStep
  <2>2. [thread EXCEPT !.retrieval_score = score] \in Threads
    BY <1>a, StepsAreThreads DEF Nodes, AuditActions
  <2>3. [thread EXCEPT !.retrieval_score = score].report = thread.report
    BY <1>a DEF Threads
  <2> QED
    BY <1>c, <1>d, <2>1, <2>2, <2>3
<1>7. CASE Rewrite
  <2>1. [thread EXCEPT !.rewrite_count = @ + 1] \in Threads
    BY <1>a, StepsAreThreads DEF Nodes, AuditActions
  <2>2. [thread EXCEPT !.rewrite_count = @ + 1].report = thread.report
    BY <1>a DEF Threads
  <2> QED
    BY <1>c, <1>d, <1>7, <2>1, <2>2 DEF Rewrite
<1>8. CASE Remediate
  <2>1. PICK steps \in {"model", "filtered"} :
           MoveOn([thread EXCEPT !.remediation_steps = steps],
                  route_after_remediation, "remediation_generated")
    BY <1>8, RemediateStep
  <2>2. [thread EXCEPT !.remediation_steps = steps] \in Threads
    BY <1>a, StepsAreThreads DEF Nodes, AuditActions, StepSources
  <2>3. [thread EXCEPT !.remediation_steps = steps].report = thread.report
    BY <1>a DEF Threads
  <2> QED
    BY <1>c, <1>d, <2>1, <2>2, <2>3
<1>9. CASE HumanReview
  <2>1. PICK yn \in {"yes", "no"} : Reviewed(yn)
    BY <1>9 DEF HumanReview
  <2>2. [thread EXCEPT !.human_approved = yn] \in Threads
    BY <1>a, StepsAreThreads DEF Nodes, AuditActions
  <2>3. [thread EXCEPT !.human_approved = yn].report = thread.report
    BY <1>a DEF Threads
  <2> QED
    BY <1>c, <1>d, <2>1, <2>2, <2>3 DEF Reviewed
<1>10. CASE Invoke
  BY <1>a, <1>c, <1>10 DEF Invoke, Threads
<1>11. CASE Checkpoint \/ RunReturns \/ RunDies
  BY <1>c, <1>11 DEF Checkpoint, RunReturns, RunDies
<1>12. CASE \E d \in Decisions : Resume(d) \/ ResumeFails(d)
  BY <1>c, <1>12 DEF Resume, ResumeFails, threadVars
<1>13. CASE UNCHANGED vars
  BY <1>c, <1>13 DEF vars, threadVars
<1> QED
  BY <1>4, <1>5, <1>6, <1>7, <1>8, <1>9, <1>10, <1>11, <1>12, <1>13 DEF Next, RunStep

\* With the approval route's saver as it is shipped (threats.py:23) no CRITICAL
\* event is ever reported or audited, however often it is handed out and
\* approved: the counterexamples of the approval and audit findings are no
\* accident of their bounds.
THEOREM OwnSaverReportsNothing == Spec => []NothingComesOut
<1>1. Init => OwnSaverInv
  BY DEF Init, OwnSaverInv, NothingComesOut, NewThread
<1>2. OwnSaverInv => NothingComesOut
  BY DEF OwnSaverInv
<1> QED
  BY <1>1, <1>2, CriticalInvariant, OwnSaverStep, GraphAssumption, PTL DEF Spec

-----------------------------------------------------------------------------
(* Grades                                                                  *)

\* What a report, or a thread on its way to one, owes to the grading loop.
Graded(score, rewrite_count) ==
    score >= GRADE_PASS_THRESHOLD \/ rewrite_count = MAX_REWRITES

Grounded(score, steps) ==
    steps # "unset" /\ (steps = "model" => score >= HALLUCINATION_SCORE_THRESHOLD)

GradedOK(t) ==
    /\ t.next \in {"remediation", "human_review", "reporter"} =>
          Graded(t.retrieval_score, t.rewrite_count)
    /\ t.next \in {"human_review", "reporter"} =>
          Grounded(t.retrieval_score, t.remediation_steps)
    /\ t.report # NoReport =>
          /\ Graded(t.report.retrieval_score, t.report.rewrite_count)
          /\ Grounded(t.report.retrieval_score, t.report.remediation_steps)

GradedInv == GradedOK(thread) /\ GradedOK(saved)

\* No step reaches the remediation, the review or the reporter on a score, a
\* rewrite count or steps that another run left behind.
LEMMA GradedStep ==
    GraphAssumption /\ Typed /\ RewriteInv /\ GradedInv /\ [Next]_vars => GradedInv'
<1> SUFFICES ASSUME GraphAssumption, Typed, RewriteInv, GradedInv, [Next]_vars
             PROVE  GradedInv'
  OBVIOUS
<1>a. /\ thread \in Threads /\ saved \in Threads
      /\ thread.rewrite_count \in Nat /\ thread.rewrite_count <= MAX_REWRITES
      /\ MAX_REWRITES \in Nat
  BY DEF Typed, TypeOK, Threads, GraphAssumption, RewriteInv, RewriteOK
<1>b. GradedOK(thread) /\ GradedOK(saved)
  BY DEF GradedInv
\* A node that does not lead behind the grade.
<1>c. ASSUME NEW t \in Threads, t.report = thread.report,
             NEW next \in Nodes \union {"none", "end"}, NEW action,
             next \notin {"remediation", "human_review", "reporter"},
             MoveOn(t, next, action)
      PROVE  GradedInv'
  <2>1. thread'.next = next /\ thread'.report = thread.report /\ saved' = saved
    BY <1>c DEF MoveOn, StepDone, Threads
  <2>2. QED
    BY <1>b, <1>c, <2>1 DEF GradedInv, GradedOK
<1>1. CASE Invoke
  <2>1. thread' = [saved EXCEPT !.next = "injection_check"] /\ saved' = saved
    BY <1>1 DEF Invoke
  <2>2. thread'.next = "injection_check" /\ thread'.report = saved.report
    BY <1>a, <2>1 DEF Threads
  <2>3. QED
    BY <1>b, <2>1, <2>2 DEF GradedInv, GradedOK
<1>2. CASE UNCHANGED <<thread, saved>>
  BY <1>b, <1>2 DEF GradedInv
<1>3. CASE Checkpoint \/ RunReturns
  BY <1>b, <1>3 DEF Checkpoint, RunReturns, GradedInv
<1>4. CASE RunDies
  BY <1>b, <1>4 DEF RunDies, GradedInv
<1>5. CASE InjectionCheck
  BY <1>a, <1>c, <1>5, InjectionStep DEF route_after_injection, Nodes
<1>6. CASE Retrieve
  BY <1>a, <1>c, <1>6 DEF Retrieve, Nodes
<1>7. CASE Grade
  <2>1. PICK score \in Scores :
           MoveOn([thread EXCEPT !.retrieval_score = score],
                  route_after_grade(score, thread.rewrite_count), "retrieval_graded")
    BY <1>7, GradeStep
  <2>2. /\ thread'.next = route_after_grade(score, thread.rewrite_count)
        /\ thread'.retrieval_score = score
        /\ thread'.rewrite_count = thread.rewrite_count
        /\ thread'.report = thread.report
        /\ saved' = saved
    BY <1>a, <2>1 DEF MoveOn, StepDone, Threads
  <2>3. thread'.next = "remediation" => Graded(score, thread.rewrite_count)
    BY <1>a, <2>2 DEF route_after_grade, Graded, GRADE_PASS_THRESHOLD, Scores
  <2>4. thread'.next \in {"rewrite", "remediation"}
    BY <2>2 DEF route_after_grade
  <2>5. QED
    BY <1>b, <2>2, <2>3, <2>4 DEF GradedInv, GradedOK
<1>8. CASE Rewrite
  <2>1. thread'.next = "retrieve" /\ thread'.report = thread.report /\ saved' = saved
    BY <1>a, <1>8 DEF Rewrite, MoveOn, StepDone, Threads
  <2>2. QED
    BY <1>b, <2>1 DEF GradedInv, GradedOK
<1>9. CASE Remediate
  <2>1. PICK steps \in {"model", "filtered"} :
           /\ MoveOn([thread EXCEPT !.remediation_steps = steps],
                     route_after_remediation, "remediation_generated")
           /\ steps = "model" => ~(thread.retrieval_score < HALLUCINATION_SCORE_THRESHOLD)
    BY <1>9, RemediateStep
  <2>2. /\ thread'.next = route_after_remediation
        /\ thread'.retrieval_score = thread.retrieval_score
        /\ thread'.rewrite_count = thread.rewrite_count
        /\ thread'.remediation_steps = steps
        /\ thread'.report = thread.report
        /\ saved' = saved
    BY <1>a, <2>1 DEF MoveOn, StepDone, Threads
  <2>3. Graded(thread.retrieval_score, thread.rewrite_count)
    BY <1>b, <1>9 DEF Remediate, At, GradedOK
  <2>4. thread.retrieval_score \in Int
    BY <1>a DEF Threads, Scores
  <2>5. Grounded(thread.retrieval_score, steps)
    BY <2>1, <2>4 DEF Grounded, HALLUCINATION_SCORE_THRESHOLD
  <2>6. QED
    BY <1>b, <2>2, <2>3, <2>5 DEF GradedInv, GradedOK
<1>10. CASE HumanReview
  <2>1. PICK yn \in {"yes", "no"} : Reviewed(yn)
    BY <1>10 DEF HumanReview
  <2>2. /\ thread'.retrieval_score = thread.retrieval_score
        /\ thread'.rewrite_count = thread.rewrite_count
        /\ thread'.remediation_steps = thread.remediation_steps
        /\ thread'.report = thread.report
        /\ saved' = saved
    BY <1>a, <2>1 DEF Reviewed, MoveOn, StepDone, Threads
  <2>3. thread.next = "human_review"
    BY <1>10 DEF HumanReview, At
  <2>4. QED
    BY <1>b, <2>2, <2>3 DEF GradedInv, GradedOK
<1>11. CASE Reporter
  <2>1. /\ thread.next = "reporter"
        /\ thread'.next = "end"
        /\ thread'.report = ReportOf(thread)
        /\ saved' = saved
    BY <1>a, <1>11 DEF Reporter, At, StepDone, Threads
  <2>2. /\ thread'.report.retrieval_score = thread.retrieval_score
        /\ thread'.report.rewrite_count = thread.rewrite_count
        /\ thread'.report.remediation_steps = thread.remediation_steps
    BY <2>1 DEF ReportOf
  <2>3. QED
    BY <1>b, <2>1, <2>2 DEF GradedInv, GradedOK
<1>12. ASSUME NEW d \in Decisions, Resume(d) \/ ResumeFails(d)
       PROVE  UNCHANGED <<thread, saved>>
  BY <1>12 DEF Resume, ResumeFails, threadVars
<1>13. QED
  BY <1>1, <1>2, <1>3, <1>4, <1>5, <1>6, <1>7, <1>8, <1>9, <1>10, <1>11, <1>12
     DEF Next, RunStep, vars, threadVars

\* Whatever the judge and the model reply, and whatever redeliveries, resumes
\* and crashes leave in the channels: a report went through its grading loop,
\* and shows steps of the model only with the grounding required.
THEOREM ReportsAreGraded == Spec => []ReportIsGraded
<1>1. Init => Typed
  BY GraphTypeInit, GraphAssumption
<1>2. Init => RewriteInv
  BY CountEmpty, GraphAssumption
     DEF Init, RewriteInv, RewriteOK, NewThread, GraphAssumption
<1>3. Init => GradedInv
  BY DEF Init, GradedInv, GradedOK, NewThread
<1>4. GradedInv => ReportIsGraded
  BY DEF GradedInv, GradedOK, Graded, Grounded, ReportIsGraded
<1>5. QED
  BY <1>1, <1>2, <1>3, <1>4, GraphTypeStep, RewriteStep, GradedStep, GraphAssumption,
     PTL DEF Spec

=============================================================================
