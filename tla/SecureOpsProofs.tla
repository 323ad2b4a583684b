-------------------------- MODULE SecureOpsProofs --------------------------
(***************************************************************************)
(* Theorems about SecureOps for any number of workers, approval requests,  *)
(* messages, redeliveries, faults and crashes.                             *)
(***************************************************************************)
EXTENDS SecureOps, WorkerPoolProofs

USE DEF Msgs, NoMsg, Holding, Suspended

-----------------------------------------------------------------------------
(* The pool inside the system                                              *)

\* Whatever the graph and the approval route do, the pool takes its own
\* steps or none.
LEMMA PoolInSystem == [SystemNext]_systemVars => [Next]_vars
<1>1. PoolStep => Next
  BY DEF PoolStep, Next, WorkerStep
<1>2. ProcessEnds => Next
  BY DEF ProcessEnds, Next
<1>3. \A w \in Workers : StartRun(w) \/ RunEnds(w) \/ RunRaises(w) => Next
  BY DEF StartRun, RunEnds, RunRaises, Next, WorkerStep
<1>4. \A r \in Runners : RunStep(r) => UNCHANGED vars
  BY DEF RunStep, Assess, Report, StepTo
<1>5. \A a \in Approvers :
        Decide(a) \/ Answer(a) \/ AnswerFails(a) => UNCHANGED vars
  BY DEF Decide, StepTo, Answer, AnswerFails, Done
<1>6. \A a \in Approvers, m \in Msgs, d \in {"approve", "reject"} :
        Approve(a, m, d) => UNCHANGED vars
  BY DEF Approve
<1>7. UNCHANGED systemVars => UNCHANGED vars
  BY DEF systemVars
<1>8. QED
  BY <1>1, <1>2, <1>3, <1>4, <1>5, <1>6, <1>7 DEF SystemNext

\* The system's worker pool is the worker pool: every safety theorem of
\* WorkerPoolProofs holds of the system as well.
THEOREM SystemRunsPool == SystemSpec => Spec
<1>1. SystemInit => Init
  BY DEF SystemInit
<1>2. QED
  BY <1>1, PoolInSystem, PTL DEF SystemSpec, Spec

\* So the whole system keeps the queue's books: whatever runs and requests do,
\* an event leaves the queue processed or dead-lettered, none is lost silently,
\* and while nobody moves the cursor what is abandoned is not taken up again.
THEOREM SystemKeepsTheBooks ==
    /\ SystemSpec => ImplementsLedger
    /\ SystemSpec => []NoSilentLoss
    /\ MaxRewinds = 0 => (SystemSpec => AbandonedStayPending)
<1>1. SystemSpec => ImplementsLedger
  BY SystemRunsPool, PoolImplementsLedger, PTL
<1>2. SystemSpec => []NoSilentLoss
  BY SystemRunsPool, EventsAreNotLost, PTL
<1>3. ASSUME MaxRewinds = 0 PROVE SystemSpec => AbandonedStayPending
  <2>1. Spec => AbandonedStayPending
    BY <1>3, AbandonedEventsStay
  <2> QED
    BY <2>1, SystemRunsPool, PTL
<1> QED
  BY <1>1, <1>2, <1>3

-----------------------------------------------------------------------------
(* Type correctness                                                        *)

\* The types, and with InHand that a run is about an event.
SystemTyped == SystemTypeOK /\ LossInv

\* A run is about one of the events, or there is no run.
LEMMA EventType ==
    ASSUME PoolAssumption, SystemAssumption, SystemTyped, NEW r \in Runners
    PROVE  /\ Event(r) \in Msgs \union {NoMsg}
           /\ r \in Workers => r \notin Approvers
           /\ r \in Workers /\ pc[r] # "graph" => Event(r) = NoMsg
           /\ r \in Workers /\ pc[r] = "graph" => Event(r) = msg[r] /\ msg[r] \in Msgs
           /\ r \in Approvers => Event(r) = request[r]
<1>1. CASE r \in Approvers
  BY <1>1 DEF SystemTyped, SystemTypeOK, SystemAssumption, Event
<1>2. CASE r \in Workers
  BY <1>2 DEF SystemTyped, LossInv, Typed, InHand, TypeOK, ProcessOK, RedisOK, SystemAssumption, Event
<1>3. QED
  BY <1>1, <1>2 DEF Runners

\* What a node, a decision or a redelivery makes of a file is a file.
LEMMA FilesStayFiles ==
    ASSUME NEW f \in EventFiles
    PROVE  /\ Reopened(f) \in EventFiles
           /\ Assessed(f, TRUE) \subseteq EventFiles
           /\ Assessed(f, FALSE) \subseteq EventFiles
           /\ Decided(f, TRUE) \in EventFiles
           /\ Decided(f, FALSE) \in EventFiles
           /\ Reported(f) \in EventFiles
BY DEF EventFiles, Stages, Reopened, Assessed, Decided, Reported

\* A run that goes on changes its own file, its event's checkpoint and its
\* payload.
LEMMA StepTyped ==
    ASSUME PoolAssumption, SystemAssumption, SystemTyped,
           NEW r \in Runners, NEW f \in EventFiles, Event(r) # NoMsg, StepTo(r, f)
    PROVE  /\ kept' \in [Msgs -> EventFiles]
           /\ file' \in [Runners -> EventFiles]
           /\ payload' \in [Approvers -> {"none", "approve", "reject"}]
           /\ UNCHANGED <<critical, request, approvals, continued, resumes, failures>>
<1>1. Event(r) \in Msgs
  BY EventType
<1>2. QED
  BY <1>1 DEF StepTo, SystemTyped, SystemTypeOK, askVars

\* One more of something.
LEMMA CountUp ==
    ASSUME NEW S, NEW n \in [S -> Nat], NEW x \in S
    PROVE  [n EXCEPT ![x] = @ + 1] \in [S -> Nat]
OBVIOUS

LEMMA SystemTypeStep ==
    PoolAssumption /\ SystemAssumption /\ SystemTyped /\ [SystemNext]_systemVars
        => SystemTyped'
<1> SUFFICES ASSUME PoolAssumption, SystemAssumption, SystemTyped, [SystemNext]_systemVars
             PROVE  SystemTyped'
  OBVIOUS
<1> DEFINE GraphOK ==
      /\ critical \in SUBSET Msgs
      /\ kept \in [Msgs -> EventFiles]
      /\ file \in [Runners -> EventFiles]
      /\ request \in [Approvers -> Msgs \union {NoMsg}]
      /\ payload \in [Approvers -> {"none", "approve", "reject"}]
      /\ rows \in [Msgs -> Nat]
      /\ reports \in [Msgs -> Nat]
      /\ approvals \in [Msgs -> Nat]
      /\ continued \in [Msgs -> Nat]
      /\ resumes \in [Msgs -> Nat]
      /\ failures \in [Msgs -> Nat]
<1>l. LossInv'
  BY PoolInSystem, LossStep DEF SystemTyped
<1>g. GraphOK
  BY DEF SystemTyped, SystemTypeOK
<1>q. GraphOK' => SystemTyped'
  BY <1>l DEF SystemTyped, SystemTypeOK, LossInv, Typed
<1>n. NewFile \in EventFiles
  BY DEF NewFile, EventFiles, Stages
<1>1. CASE PoolStep \/ UNCHANGED systemVars
  BY <1>1, <1>g, <1>q DEF PoolStep, systemVars, graphVars, runVars, askVars
<1>2. CASE ProcessEnds
  BY <1>2, <1>g, <1>q, <1>n DEF ProcessEnds, askVars
<1>3. ASSUME NEW w \in Workers, StartRun(w)
      PROVE  SystemTyped'
  <2>1. cursor + 1 \in Msgs
    BY <1>3 DEF StartRun, Consume, Deliver, SystemTyped, LossInv, Typed, TypeOK, RedisOK
  <2>2. Reopened(kept[cursor + 1]) \in EventFiles
    BY <2>1, <1>g, FilesStayFiles
  <2>3. QED
    BY <1>3, <2>2, <1>g, <1>q DEF StartRun, askVars
<1>4. ASSUME NEW w \in Workers, RunEnds(w) \/ RunRaises(w)
      PROVE  SystemTyped'
  BY <1>4, <1>g, <1>q, <1>n DEF RunEnds, RunRaises, askVars
<1>5. ASSUME NEW r \in Runners, Assess(r)
      PROVE  SystemTyped'
  <2>1. PICK f \in Assessed(file[r], Event(r) \in critical) : StepTo(r, f)
    BY <1>5 DEF Assess
  <2>2. f \in EventFiles
    <3>1. file[r] \in EventFiles
      BY <1>g
    <3>2. CASE Event(r) \in critical
      <4>1. f \in Assessed(file[r], TRUE)
        BY <2>1, <3>2 DEF Assessed
      <4>2. QED
        BY <3>1, <4>1, FilesStayFiles
    <3>3. CASE Event(r) \notin critical
      <4>1. f \in Assessed(file[r], FALSE)
        BY <2>1, <3>3 DEF Assessed
      <4>2. QED
        BY <3>1, <4>1, FilesStayFiles
    <3>4. QED
      BY <3>2, <3>3
  <2>3. QED
    BY <1>5, <1>g, <1>q, <2>1, <2>2, StepTyped DEF Assess
<1>6. ASSUME NEW r \in Runners, Report(r)
      PROVE  SystemTyped'
  <2>1. Reported(file[r]) \in EventFiles
    BY <1>g, FilesStayFiles
  <2>2. Event(r) \in Msgs
    BY <1>6, EventType DEF Report
  <2>3. rows' \in [Msgs -> Nat]
    <3>0. rows[Event(r)] + file[r].reported + 1 \in Nat
      <4>1. rows[Event(r)] \in Nat
        BY <1>g, <2>2
      <4>2. file[r] \in EventFiles
        BY <1>g
      <4>3. QED
        BY <4>1, <4>2 DEF EventFiles
    <3>1. [rows EXCEPT ![Event(r)] = @ + file[r].reported + 1] \in [Msgs -> Nat]
      BY <1>g, <2>2, <3>0
    <3>2. QED
      BY <1>6, <1>g, <3>1 DEF Report
  <2>4. reports' \in [Msgs -> Nat]
    BY <1>6, <1>g, <2>2, CountUp DEF Report
  <2>5. QED
    BY <1>6, <1>g, <1>q, <2>1, <2>3, <2>4, StepTyped DEF Report
<1>7. ASSUME NEW a \in Approvers, Decide(a)
      PROVE  SystemTyped'
  <2>0. a \in Runners
    BY DEF Runners
  <2>1. Decided(file[a], payload[a] = "approve") \in EventFiles
    <3>1. file[a] \in EventFiles
      BY <1>g, <2>0
    <3>2. CASE payload[a] = "approve"
      <4>1. Decided(file[a], payload[a] = "approve") = Decided(file[a], TRUE)
        BY <3>2 DEF Decided
      <4>2. QED
        BY <3>1, <4>1, FilesStayFiles
    <3>3. CASE payload[a] # "approve"
      <4>1. Decided(file[a], payload[a] = "approve") = Decided(file[a], FALSE)
        BY <3>3 DEF Decided
      <4>2. QED
        BY <3>1, <4>1, FilesStayFiles
    <3>4. QED
      BY <3>2, <3>3
  <2>2. QED
    BY <1>7, <1>g, <1>q, <2>0, <2>1, StepTyped DEF Decide
<1>8. ASSUME NEW a \in Approvers, NEW m \in Msgs, NEW d \in {"approve", "reject"},
             Approve(a, m, d)
      PROVE  SystemTyped'
  <2>1. /\ approvals' \in [Msgs -> Nat] /\ continued' \in [Msgs -> Nat]
        /\ resumes' \in [Msgs -> Nat]
    BY <1>8, <1>g, CountUp DEF Approve
  <2>2. QED
    BY <1>8, <1>g, <1>q, <2>1 DEF Approve
<1>9. ASSUME NEW a \in Approvers, Answer(a) \/ AnswerFails(a)
      PROVE  SystemTyped'
  <2>1. Event(a) \in Msgs
    BY <1>9, EventType DEF Answer, AnswerFails, Runners
  <2>2. failures' \in [Msgs -> Nat]
    <3>1. [failures EXCEPT ![Event(a)] = @ + 1] \in [Msgs -> Nat]
      BY <1>g, <2>1, CountUp
    <3>2. QED
      BY <1>9, <1>g, <3>1 DEF Answer, AnswerFails
  <2>4. Done(a)
    BY <1>9 DEF Answer, AnswerFails
  <2>5. /\ file' \in [Runners -> EventFiles]
        /\ request' \in [Approvers -> Msgs \union {NoMsg}]
        /\ payload' \in [Approvers -> {"none", "approve", "reject"}]
    BY <1>g, <1>n, <2>4 DEF Done
  <2>6. UNCHANGED <<critical, kept, rows, reports, approvals, continued, resumes>>
    BY <2>4 DEF Done
  <2>7. QED
    BY <1>g, <1>q, <2>2, <2>5, <2>6
<1>10. QED
  BY <1>1, <1>2, <1>3, <1>4, <1>5, <1>6, <1>7, <1>8, <1>9 DEF SystemNext, RunStep

LEMMA SystemTypedInit == PoolAssumption /\ SystemInit => SystemTyped
<1> SUFFICES ASSUME PoolAssumption, SystemInit
             PROVE  SystemTyped
  OBVIOUS
<1>1. LossInv
  BY DEF SystemInit, Init, TypeOK, RedisOK, ProcessOK, ObserverOK, InHand, Typed,
     PoolAssumption, LossInv, AckHasReason, HandedOut, NoSilentLoss
<1>2. NewFile \in EventFiles
  BY DEF NewFile, EventFiles, Stages
<1>3. QED
  BY <1>1, <1>2 DEF SystemInit, SystemTyped, SystemTypeOK, LossInv, Typed

\* Type correctness of the composed system.
THEOREM SystemTypeCorrect == SystemSpec => []SystemTypeOK
<1>1. SystemTyped => SystemTypeOK
  BY DEF SystemTyped
<1>2. QED
  BY <1>1, SystemTypedInit, SystemTypeStep, PoolAssumption, SystemAssumption, PTL DEF SystemSpec

-----------------------------------------------------------------------------
(* How runs begin, go on and end                                           *)

\* No run but r's is touched.
OthersRunOn(r) ==
    \A q \in Runners \ {r} : Event(q)' = Event(q) /\ file'[q] = file[q]

\* Steps that begin no run and carry none on: each run stays or ends.
RunsStop ==
    /\ UNCHANGED <<critical, kept, request, payload, rows, reports, askVars>>
    /\ \A m \in Msgs : deliveries'[m] \in Nat /\ deliveries'[m] >= deliveries[m]
    /\ \A r \in Runners : Event(r)' = NoMsg \/ (Event(r)' = Event(r) /\ file'[r] = file[r])

\* The pool's own steps, returning and raising runs, and ending processes.
LEMMA PoolStopsRuns ==
    ASSUME PoolAssumption, SystemAssumption, SystemTyped,
           \/ PoolStep \/ ProcessEnds \/ UNCHANGED systemVars
           \/ \E w \in Workers : RunEnds(w) \/ RunRaises(w)
    PROVE  RunsStop
<1>t. /\ pc \in [Workers -> Suspended] /\ msg \in [Workers -> Msgs \union {NoMsg}]
      /\ deliveries \in [Msgs -> Nat]
      /\ file \in [Runners -> EventFiles]
      /\ Workers \intersect Approvers = {}
  BY DEF SystemTyped, SystemTypeOK, TypeOK, RedisOK, ProcessOK, ObserverOK, SystemAssumption,
     PoolAssumption
<1>1. CASE PoolStep
  <2>0. \A m \in Msgs : deliveries'[m] \in Nat /\ deliveries'[m] >= deliveries[m]
    <3>1. deliveries' = deliveries \/ Deliver
      BY <1>1 DEF PoolStep, Publish, Rewind, StartPool, EnsureGroup, EnsureGroupFails,
         ConsumeFails, Ack, AckFails, PublishDlq, PublishDlqFails, AckDlq, AckDlqFails,
         observerVars
    <3>2. QED
      BY <1>t, <3>1 DEF Deliver
  <2>1. ASSUME NEW v \in Workers
        PROVE  Event(v)' = NoMsg \/ Event(v)' = Event(v)
    <3>1. CASE Publish \/ Rewind
      BY <1>t, <3>1 DEF Publish, Rewind, processVars, Event
    <3>2. CASE StartPool
      BY <1>t, <3>2 DEF StartPool, Event
    <3>3. ASSUME NEW w \in Workers, EnsureGroup(w) \/ EnsureGroupFails(w) \/ ConsumeFails(w)
          PROVE  Event(v)' = NoMsg \/ Event(v)' = Event(v)
      BY <1>t, <3>3 DEF EnsureGroup, EnsureGroupFails, ConsumeFails, GoTo, Die, Event
    <3>4. ASSUME NEW w \in Workers, Ack(w) \/ AckFails(w)
          PROVE  Event(v)' = NoMsg \/ Event(v)' = Event(v)
      BY <1>t, <3>4, FailureSplit DEF Ack, AckFails, NextRead, Event
    <3>5. ASSUME NEW w \in Workers,
                 PublishDlq(w) \/ PublishDlqFails(w) \/ AckDlq(w) \/ AckDlqFails(w)
          PROVE  Event(v)' = NoMsg \/ Event(v)' = Event(v)
      BY <1>t, <3>5 DEF PublishDlq, PublishDlqFails, AckDlq, AckDlqFails, GoTo, Die, NextRead,
         Event
    <3>6. QED
      BY <1>1, <3>1, <3>2, <3>3, <3>4, <3>5 DEF PoolStep
  <2>2. \A a \in Approvers : Event(a)' = Event(a)
    BY <1>1 DEF PoolStep, graphVars, runVars, Event
  <2>3. UNCHANGED graphVars
    BY <1>1 DEF PoolStep
  <2>4. QED
    BY <2>0, <2>1, <2>2, <2>3 DEF RunsStop, graphVars, runVars, Runners
<1>2. CASE ProcessEnds
  <2>1. \A v \in Workers : Event(v)' = NoMsg
    BY <1>t, <1>2 DEF ProcessEnds, PoolExits, Crash, EndProcess, Event
  <2>2. \A a \in Approvers : Event(a)' = Event(a) /\ file'[a] = file[a]
    BY <1>t, <1>2 DEF ProcessEnds, Event, Runners
  <2>3. deliveries' = deliveries
    BY <1>2 DEF ProcessEnds, PoolExits, Crash, observerVars
  <2>4. QED
    BY <1>t, <1>2, <2>1, <2>2, <2>3 DEF RunsStop, ProcessEnds, Runners
<1>3. ASSUME NEW w \in Workers, RunEnds(w) \/ RunRaises(w)
      PROVE  RunsStop
  <2>1. \A v \in Workers : v # w => Event(v)' = Event(v) /\ file'[v] = file[v]
    BY <1>t, <1>3, FailureSplit
       DEF RunEnds, RunRaises, GraphReturns, GraphRaises, GoTo, Event, Runners
  <2>2. Event(w)' = NoMsg
    BY <1>t, <1>3, FailureSplit DEF RunEnds, RunRaises, GraphReturns, GraphRaises, GoTo, Event
  <2>3. \A a \in Approvers : Event(a)' = Event(a) /\ file'[a] = file[a]
    BY <1>t, <1>3 DEF RunEnds, RunRaises, Event, Runners
  <2>4. deliveries' = deliveries
    BY <1>3 DEF RunEnds, RunRaises, GraphReturns, GraphRaises, observerVars
  <2>5. QED
    BY <1>t, <1>3, <2>1, <2>2, <2>3, <2>4 DEF RunsStop, RunEnds, RunRaises, Runners
<1>4. CASE UNCHANGED systemVars
  BY <1>t, <1>4 DEF RunsStop, systemVars, vars, processVars, observerVars, graphVars, runVars,
     Event
<1>5. QED
  BY <1>1, <1>2, <1>3, <1>4

\* A delivery begins a run of the worker that had none.
LEMMA DeliveryBeginsRun ==
    ASSUME PoolAssumption, SystemAssumption, SystemTyped, NEW w \in Workers, StartRun(w)
    PROVE  /\ Event(w) = NoMsg /\ Event(w)' = cursor + 1 /\ cursor + 1 \in Msgs
           /\ file'[w] = Reopened(kept[cursor + 1])
           /\ OthersRunOn(w)
           /\ deliveries' = [deliveries EXCEPT ![cursor + 1] = @ + 1]
           /\ returned' = returned
           /\ UNCHANGED <<critical, kept, request, payload, rows, reports, askVars>>
<1>t. /\ pc \in [Workers -> Suspended] /\ msg \in [Workers -> Msgs \union {NoMsg}]
      /\ file \in [Runners -> EventFiles]
      /\ Workers \intersect Approvers = {}
  BY DEF SystemTyped, SystemTypeOK, TypeOK, ProcessOK, SystemAssumption
<1>1. cursor + 1 \in Msgs
  BY DEF StartRun, Consume, Deliver, SystemTyped, LossInv, Typed, TypeOK, RedisOK
<1>2. Event(w) = NoMsg /\ Event(w)' = cursor + 1 /\ file'[w] = Reopened(kept[cursor + 1])
  BY <1>t DEF StartRun, Consume, Event, Runners
<1>3. OthersRunOn(w)
  BY <1>t DEF StartRun, Consume, Event, Runners, OthersRunOn
<1>4. QED
  BY <1>1, <1>2, <1>3 DEF StartRun, Consume, Deliver

\* A step of a run ends no run and begins none.
LEMMA StepGoesOn ==
    ASSUME PoolAssumption, SystemAssumption, SystemTyped,
           NEW r \in Runners, NEW f, Event(r) # NoMsg, StepTo(r, f)
    PROVE  /\ Event(r) \in Msgs /\ Event(r)' = Event(r)
           /\ file'[r] = f
           /\ OthersRunOn(r)
           /\ kept' = [kept EXCEPT ![Event(r)] = f]
           /\ payload' = [a \in Approvers |-> IF a = r THEN "none" ELSE payload[a]]
           /\ UNCHANGED <<vars, critical, request, askVars>>
<1>1. \A q \in Runners : Event(q)' = Event(q)
  BY DEF StepTo, vars, processVars, Event
<1>2. file'[r] = f /\ \A q \in Runners \ {r} : file'[q] = file[q]
  BY DEF StepTo, SystemTyped, SystemTypeOK
<1>3. QED
  BY <1>1, <1>2, EventType DEF OthersRunOn, StepTo

\* A request begins a run on the latest checkpoint.
LEMMA RequestBeginsRun ==
    ASSUME PoolAssumption, SystemAssumption, SystemTyped,
           NEW a \in Approvers, NEW m \in Msgs, NEW d \in {"approve", "reject"},
           Approve(a, m, d)
    PROVE  /\ a \in Runners /\ Event(a) = NoMsg /\ Event(a)' = m /\ file'[a] = kept[m]
           /\ OthersRunOn(a)
           /\ UNCHANGED <<vars, critical, kept, rows, reports>>
<1>1. a \in Runners /\ Event(a) = NoMsg /\ Event(a)' = m /\ file'[a] = kept[m]
  BY DEF Approve, SystemTyped, SystemTypeOK, Event, Runners
<1>2. \A q \in Runners \ {a} : Event(q)' = Event(q) /\ file'[q] = file[q]
  BY DEF Approve, SystemTyped, SystemTypeOK, Event, Runners, vars, processVars
<1>3. QED
  BY <1>1, <1>2 DEF OthersRunOn, Approve

\* A request that is done with ends its run.
LEMMA RequestEndsRun ==
    ASSUME PoolAssumption, SystemAssumption, SystemTyped,
           NEW a \in Approvers, Done(a)
    PROVE  /\ a \in Runners /\ Event(a)' = NoMsg
           /\ OthersRunOn(a)
           /\ UNCHANGED <<vars, critical, kept, rows, reports, approvals, continued, resumes>>
<1>1. a \in Runners /\ Event(a)' = NoMsg
  BY DEF Done, SystemTyped, SystemTypeOK, Event, Runners
<1>2. \A q \in Runners \ {a} : Event(q)' = Event(q) /\ file'[q] = file[q]
  BY DEF Done, SystemTyped, SystemTypeOK, Event, Runners, vars, processVars
<1>3. QED
  BY <1>1, <1>2 DEF OthersRunOn, Done

-----------------------------------------------------------------------------
(* Counting runs                                                           *)

\* The runs that may still report m.
Reports(r, m) == Event(r) = m /\ file[r].stage # "closed"
Reporting(m) == {r \in Runners : Reports(r, m)}

\* Of these, when m is CRITICAL, the ones a request has let through: at the
\* reporter, or at the review with an approve.
Cleared(r, m) ==
    /\ Event(r) = m
    /\ \/ file[r].stage = "cleared"
       \/ r \in Approvers /\ file[r].stage = "review" /\ payload[r] = "approve"
Clearing(m) == {r \in Runners : Cleared(r, m)}

\* Runs can be counted.
LEMMA RunnersFinite ==
    ASSUME PoolAssumption, SystemAssumption, NEW S \in SUBSET Runners
    PROVE  IsFiniteSet(S) /\ Cardinality(S) \in Nat
<1>1. IsFiniteSet(Runners)
  BY FS_Union DEF PoolAssumption, SystemAssumption, Runners
<1>2. QED
  BY <1>1, FS_Subset, FS_CardinalityType

\* Fewer runs, a smaller count.
LEMMA RunnersFewer ==
    ASSUME PoolAssumption, SystemAssumption, NEW S \in SUBSET Runners, NEW T \in SUBSET S
    PROVE  Cardinality(T) <= Cardinality(S)
BY RunnersFinite, FS_Subset

\* When only r comes or goes, the count changes by r alone.
LEMMA OneRunner ==
    ASSUME PoolAssumption, SystemAssumption, NEW r \in Runners,
           NEW S \in SUBSET Runners, NEW T \in SUBSET Runners, S \ {r} = T \ {r}
    PROVE  /\ r \notin T => Cardinality(T) <= Cardinality(S)
           /\ r \in S => Cardinality(T) <= Cardinality(S)
           /\ r \in S /\ r \notin T => Cardinality(T) + 1 = Cardinality(S)
           /\ Cardinality(T) <= Cardinality(S) + 1
<1>1. /\ IsFiniteSet(S) /\ IsFiniteSet(T)
      /\ Cardinality(S) \in Nat /\ Cardinality(T) \in Nat
  BY RunnersFinite
<1>2. /\ (r \in S <=> r \in T) => Cardinality(T) = Cardinality(S)
      /\ r \in S /\ r \notin T => Cardinality(T) = Cardinality(S) - 1
      /\ r \notin S /\ r \in T => Cardinality(T) = Cardinality(S) + 1
  BY <1>1, CardinalityMove
<1>3. QED
  BY <1>1, <1>2

\* The step of a run, of any kind.
Goes(r) == Assess(r) \/ Report(r) \/ (r \in Approvers /\ Decide(r))

\* It takes the run's event on, and what becomes of it decides who counts.
LEMMA GoesOn ==
    ASSUME PoolAssumption, SystemAssumption, SystemTyped, NEW r \in Runners, Goes(r)
    PROVE  /\ Event(r) \in Msgs /\ Event(r)' = Event(r) /\ OthersRunOn(r)
           /\ Reports(r, Event(r))
           /\ payload' = [a \in Approvers |-> IF a = r THEN "none" ELSE payload[a]]
           /\ file'[r] \in EventFiles
           /\ kept' = [kept EXCEPT ![Event(r)] = file'[r]]
           /\ file'[r].stage = "cleared" /\ Event(r) \in critical => Cleared(r, Event(r))
           /\ ~Report(r) => /\ UNCHANGED <<rows, reports>>
                            /\ file'[r].reported = file[r].reported
           /\ Report(r) =>
                 /\ Cleared(r, Event(r)) /\ file'[r].stage = "closed"
                 /\ rows' \in {rows, [rows EXCEPT ![Event(r)] = @ + file[r].reported + 1]}
                 /\ reports' = [reports EXCEPT ![Event(r)] = @ + 1]
                 /\ file'[r].reported = file[r].reported + 1
           /\ UNCHANGED <<vars, critical, request, askVars>>
<1>t. file[r] \in EventFiles /\ payload \in [Approvers -> {"none", "approve", "reject"}]
  BY DEF SystemTyped, SystemTypeOK
<1>s. ASSUME NEW f, StepTo(r, f), Event(r) # NoMsg
      PROVE  /\ Event(r) \in Msgs /\ Event(r)' = Event(r) /\ OthersRunOn(r)
             /\ payload' = [a \in Approvers |-> IF a = r THEN "none" ELSE payload[a]]
             /\ file'[r] = f /\ kept' = [kept EXCEPT ![Event(r)] = f]
             /\ UNCHANGED <<vars, critical, request, askVars>>
  BY <1>s, StepGoesOn
<1>1. CASE Assess(r)
  <2>1. PICK f \in Assessed(file[r], Event(r) \in critical) : StepTo(r, f)
    BY <1>1 DEF Assess
  <2>2. /\ f \in EventFiles /\ f.reported = file[r].reported
        /\ f.stage = "cleared" => Event(r) \notin critical
    BY <1>t, <2>1 DEF Assessed, EventFiles, Stages
  <2>3. Event(r) # NoMsg /\ file[r].stage = "open" /\ UNCHANGED <<rows, reports>>
    BY <1>1 DEF Assess
  <2>4. QED
    BY <1>s, <2>1, <2>2, <2>3 DEF Reports, Report
<1>2. CASE Report(r)
  <2>1. /\ StepTo(r, Reported(file[r])) /\ Event(r) # NoMsg /\ file[r].stage = "cleared"
        /\ rows' \in {rows, [rows EXCEPT ![Event(r)] = @ + file[r].reported + 1]}
        /\ reports' = [reports EXCEPT ![Event(r)] = @ + 1]
    BY <1>2 DEF Report
  <2>2. /\ Reported(file[r]) \in EventFiles /\ Reported(file[r]).stage = "closed"
        /\ Reported(file[r]).reported = file[r].reported + 1
    BY <1>t DEF Reported, EventFiles, Stages
  <2>3. QED
    BY <1>2, <1>s, <2>1, <2>2 DEF Reports, Cleared
<1>3. CASE r \in Approvers /\ Decide(r)
  <2> DEFINE f == Decided(file[r], payload[r] = "approve")
  <2>1. /\ StepTo(r, f) /\ Event(r) # NoMsg /\ file[r].stage = "review"
        /\ UNCHANGED <<rows, reports>>
    BY <1>3 DEF Decide
  <2>2. CASE payload[r] = "approve"
    <3>1. f = [stage |-> "cleared", approved |-> file[r].approved + 1,
               reported |-> file[r].reported]
      BY <2>2 DEF Decided
    <3>2. f \in EventFiles /\ f.reported = file[r].reported
      BY <1>t, <3>1 DEF EventFiles, Stages
    <3>3. Cleared(r, Event(r))
      BY <1>3, <2>1, <2>2 DEF Cleared
    <3>4. QED
      BY <1>s, <2>1, <3>2, <3>3 DEF Reports, Report
  <2>3. CASE payload[r] # "approve"
    <3>1. f = [file[r] EXCEPT !.stage = "closed"]
      BY <2>3 DEF Decided
    <3>2. f \in EventFiles /\ f.reported = file[r].reported /\ f.stage = "closed"
      BY <1>t, <3>1 DEF EventFiles, Stages
    <3>3. QED
      BY <1>s, <2>1, <3>2 DEF Reports, Report
  <2>4. QED
    BY <2>2, <2>3
<1>4. QED
  BY <1>1, <1>2, <1>3 DEF Goes

-----------------------------------------------------------------------------
(* Reports of CRITICAL events rest on approvals                            *)

\* A request that may report m pays for its run or for its report, and nothing
\* gets past the review before somebody approved there.
Backed(m) == reports[m] + Cardinality(Clearing(m)) <= approvals[m] + continued[m]
AskedFor(m) ==
    (kept[m].stage = "cleared" \/ Clearing(m) # {} \/ reports[m] > 0) => approvals[m] > 0

ApprovalInv == \A m \in critical : Backed(m) /\ AskedFor(m)

LEMMA ApprovalStep ==
    PoolAssumption /\ SystemAssumption /\ SystemTyped /\ ApprovalInv
        /\ [SystemNext]_systemVars => ApprovalInv'
<1>c. [SystemNext]_systemVars => critical' = critical
  BY DEF SystemNext, PoolStep, ProcessEnds, StartRun, RunEnds, RunRaises, RunStep, Assess,
     Report, Decide, StepTo, Approve, Answer, AnswerFails, Done, systemVars, graphVars
<1> SUFFICES ASSUME PoolAssumption, SystemAssumption, SystemTyped, ApprovalInv,
                    [SystemNext]_systemVars, NEW m \in critical
             PROVE  Backed(m)' /\ AskedFor(m)'
  BY <1>c DEF ApprovalInv
<1> DEFINE n == Cardinality(Clearing(m))
<1>e. m \in Msgs /\ m # NoMsg
  BY DEF SystemTyped, SystemTypeOK
<1>t. /\ m \in Msgs /\ m # NoMsg
      /\ reports \in [Msgs -> Nat] /\ approvals \in [Msgs -> Nat] /\ continued \in [Msgs -> Nat]
      /\ kept \in [Msgs -> EventFiles] /\ file \in [Runners -> EventFiles]
      /\ payload \in [Approvers -> {"none", "approve", "reject"}]
  BY <1>e DEF SystemTyped, SystemTypeOK
<1>m. reports[m] \in Nat /\ approvals[m] \in Nat /\ continued[m] \in Nat
  BY <1>t
<1>r. Clearing(m) \in SUBSET Runners /\ Clearing(m)' \in SUBSET Runners
  BY DEF Clearing
<1>n. n \in Nat /\ n' \in Nat
  BY <1>r, RunnersFinite
<1>i. /\ reports[m] + n <= approvals[m] + continued[m]
      /\ kept[m].stage = "cleared" \/ Clearing(m) # {} \/ reports[m] > 0 => approvals[m] > 0
  BY DEF ApprovalInv, Backed, AskedFor
<1>q. /\ Backed(m)' <=> reports'[m] + n' <= approvals'[m] + continued'[m]
      /\ AskedFor(m)' <=>
            (kept'[m].stage = "cleared" \/ Clearing(m)' # {} \/ reports'[m] > 0
                => approvals'[m] > 0)
  BY DEF Backed, AskedFor
\* Runs that others leave alone count as before.
<1>o. ASSUME NEW r \in Runners, OthersRunOn(r),
             \A a \in Approvers \ {r} : payload'[a] = payload[a]
      PROVE  Clearing(m)' \ {r} = Clearing(m) \ {r}
  BY <1>o DEF Clearing, Cleared, OthersRunOn
<1> HIDE DEF n
\* No more runs let through, and no report more.
<1>s. ASSUME Clearing(m)' \subseteq Clearing(m), reports' = reports, approvals' = approvals,
             continued' = continued, kept'[m].stage = "cleared" => kept[m].stage = "cleared"
      PROVE  Backed(m)' /\ AskedFor(m)'
  <2>1. n' <= n
    BY <1>r, <1>s, RunnersFewer DEF n
  <2>2. QED
    BY <1>m, <1>n, <1>i, <1>q, <1>s, <2>1
<1>1. CASE RunsStop
  <2>1. Clearing(m)' \subseteq Clearing(m)
    BY <1>1, <1>t DEF RunsStop, Clearing, Cleared
  <2>2. QED
    BY <1>1, <1>s, <2>1 DEF RunsStop, askVars
<1>2. ASSUME NEW w \in Workers, StartRun(w)
      PROVE  Backed(m)' /\ AskedFor(m)'
  <2>1. /\ Event(w)' = cursor + 1 /\ file'[w] = Reopened(kept[cursor + 1])
        /\ OthersRunOn(w) /\ w \in Runners /\ w \notin Approvers
        /\ cursor + 1 \in Msgs
        /\ UNCHANGED <<critical, kept, request, payload, rows, reports, askVars>>
    BY <1>2, DeliveryBeginsRun, EventType DEF Runners
  <2>2. w \notin Clearing(m)'
    BY <1>t, <2>1 DEF Clearing, Cleared, Reopened, EventFiles
  <2>3. Clearing(m)' \subseteq Clearing(m)
    BY <1>o, <2>1, <2>2
  <2>4. QED
    BY <1>s, <2>1, <2>3 DEF askVars
<1>3. ASSUME NEW r \in Runners, Goes(r)
      PROVE  Backed(m)' /\ AskedFor(m)'
  <2>1. /\ Event(r) \in Msgs /\ Event(r)' = Event(r) /\ OthersRunOn(r)
        /\ payload' = [a \in Approvers |-> IF a = r THEN "none" ELSE payload[a]]
        /\ file'[r] \in EventFiles
        /\ kept' = [kept EXCEPT ![Event(r)] = file'[r]]
        /\ file'[r].stage = "cleared" /\ Event(r) \in critical => Cleared(r, Event(r))
        /\ ~Report(r) => reports' = reports
        /\ Report(r) => /\ Cleared(r, Event(r)) /\ file'[r].stage = "closed"
                        /\ reports' = [reports EXCEPT ![Event(r)] = @ + 1]
        /\ approvals' = approvals /\ continued' = continued
    BY <1>3, GoesOn DEF askVars
  <2>2. Clearing(m)' \ {r} = Clearing(m) \ {r}
    BY <1>o, <2>1
  <2>3. r \in Clearing(m)' => Event(r) = m /\ file'[r].stage = "cleared"
    BY <2>1 DEF Clearing, Cleared
  <2>4. r \in Clearing(m)' => r \in Clearing(m)
    BY <2>1, <2>3 DEF Clearing
  <2>5. Clearing(m)' \subseteq Clearing(m)
    BY <2>2, <2>4
  <2>6. kept'[m].stage = "cleared" => kept[m].stage = "cleared" \/ Clearing(m) # {}
    BY <1>t, <2>1 DEF Clearing
  <2>7. CASE Report(r) /\ Event(r) = m
    <3>1. r \in Clearing(m) /\ r \notin Clearing(m)'
      BY <2>1, <2>3, <2>7 DEF Clearing
    <3>2. n' < n
      BY <1>n, <1>r, <2>2, <3>1, OneRunner DEF n
    <3>3. reports'[m] = reports[m] + 1
      BY <1>t, <2>1, <2>7
    <3>4. Backed(m)'
      <4>1. approvals'[m] = approvals[m] /\ continued'[m] = continued[m]
        BY <2>1
      <4>2. (reports[m] + 1) + n' <= approvals[m] + continued[m]
        BY <1>m, <1>n, <1>i, <3>2
      <4>3. QED
        BY <1>q, <3>3, <4>1, <4>2
    <3>5. AskedFor(m)'
      BY <1>i, <1>q, <2>1, <3>1
    <3>6. QED
      BY <3>4, <3>5
  <2>8. CASE ~(Report(r) /\ Event(r) = m)
    <3>1. reports'[m] = reports[m]
      BY <1>t, <2>1, <2>8
    <3>2. n' <= n
      BY <1>r, <2>5, RunnersFewer DEF n
    <3>3. QED
      BY <1>m, <1>n, <1>i, <1>q, <2>1, <2>5, <2>6, <3>1, <3>2
  <2>9. QED
    BY <2>7, <2>8
<1>4. ASSUME NEW a \in Approvers, NEW e \in Msgs, NEW d \in {"approve", "reject"},
             Approve(a, e, d)
      PROVE  Backed(m)' /\ AskedFor(m)'
  <2>1. /\ a \in Runners /\ Event(a)' = e /\ file'[a] = kept[e] /\ OthersRunOn(a)
        /\ kept' = kept /\ reports' = reports
    BY <1>4, RequestBeginsRun
  <2>2. /\ payload'[a] = d /\ \A b \in Approvers \ {a} : payload'[b] = payload[b]
        /\ approvals' = IF kept[e].stage = "review" /\ d = "approve"
                        THEN [approvals EXCEPT ![e] = @ + 1] ELSE approvals
        /\ continued' = IF kept[e].stage = "cleared"
                        THEN [continued EXCEPT ![e] = @ + 1] ELSE continued
    BY <1>4, <1>t DEF Approve
  <2>3. Clearing(m)' \ {a} = Clearing(m) \ {a}
    BY <1>o, <2>1, <2>2
  <2>4. CASE a \notin Clearing(m)'
    <3>1. n' <= n
      BY <1>r, <2>1, <2>3, <2>4, OneRunner DEF n
    <3>2. /\ approvals'[m] = approvals[m] \/ approvals'[m] = approvals[m] + 1
          /\ continued'[m] = continued[m] \/ continued'[m] = continued[m] + 1
      BY <1>t, <2>2
    <3>3. QED
      BY <1>m, <1>n, <1>i, <1>q, <2>1, <2>3, <2>4, <3>1, <3>2
  <2>5. CASE a \in Clearing(m)'
    <3>1. e = m /\ (kept[m].stage = "cleared" \/ (kept[m].stage = "review" /\ d = "approve"))
      BY <2>1, <2>2, <2>5 DEF Clearing, Cleared
    <3>2. n' <= n + 1
      BY <1>r, <2>1, <2>3, OneRunner DEF n
    <3>3. CASE kept[m].stage = "cleared"
      <4>1. approvals'[m] = approvals[m] /\ continued'[m] = continued[m] + 1
        BY <1>t, <2>2, <3>1, <3>3
      <4>2. QED
        BY <1>m, <1>n, <1>i, <1>q, <2>1, <3>2, <3>3, <4>1
    <3>4. CASE kept[m].stage = "review" /\ d = "approve"
      <4>1. approvals'[m] = approvals[m] + 1 /\ continued'[m] = continued[m]
        BY <1>t, <2>2, <3>1, <3>4
      <4>2. QED
        BY <1>m, <1>n, <1>i, <1>q, <2>1, <3>2, <4>1
    <3>5. QED
      BY <3>1, <3>3, <3>4
  <2>6. QED
    BY <2>4, <2>5
<1>5. ASSUME NEW a \in Approvers, Done(a)
      PROVE  Backed(m)' /\ AskedFor(m)'
  <2>1. /\ a \in Runners /\ Event(a)' = NoMsg /\ OthersRunOn(a)
        /\ UNCHANGED <<vars, critical, kept, rows, reports, approvals, continued, resumes>>
    BY <1>5, RequestEndsRun
  <2>2. \A b \in Approvers \ {a} : payload'[b] = payload[b]
    BY <1>5, <1>t DEF Done
  <2>3. Clearing(m)' \ {a} = Clearing(m) \ {a}
    BY <1>o, <2>1, <2>2
  <2>4. a \notin Clearing(m)'
    BY <1>t, <2>1 DEF Clearing, Cleared
  <2>5. Clearing(m)' \subseteq Clearing(m)
    BY <2>3, <2>4
  <2>6. QED
    BY <1>s, <2>1, <2>5
<1>6. QED
  BY <1>1, <1>2, <1>3, <1>4, <1>5, PoolStopsRuns
     DEF SystemNext, RunStep, Answer, AnswerFails, Runners, Goes

\* For any number of workers, requests and redeliveries of an event, in any
\* order and however their runs overlap: a CRITICAL event is reported only
\* after an approval of its review, and no more often than requests approved
\* the review or found it cleared.
THEOREM CriticalReportsAreApproved == SystemSpec => []CriticalReportsApproved
<1>1. SystemInit => ApprovalInv
  <2> SUFFICES ASSUME SystemInit, NEW m \in critical
               PROVE  Backed(m) /\ AskedFor(m)
    BY DEF ApprovalInv
  <2>1. Clearing(m) = {} /\ m \in Msgs
    BY DEF SystemInit, Clearing, Cleared, NewFile
  <2>2. QED
    BY <2>1, FS_EmptySet DEF SystemInit, Backed, AskedFor, NewFile
<1>2. SystemTyped /\ ApprovalInv => CriticalReportsApproved
  <2> SUFFICES ASSUME SystemTyped, ApprovalInv, NEW m \in critical
               PROVE  /\ reports[m] > 0 => approvals[m] > 0
                      /\ reports[m] <= approvals[m] + continued[m]
    BY DEF CriticalReportsApproved
  <2>1. Backed(m) /\ AskedFor(m)
    BY DEF ApprovalInv
  <2>2. reports[m] \in Nat /\ approvals[m] \in Nat /\ continued[m] \in Nat
    BY DEF SystemTyped, SystemTypeOK
  <2>3. Cardinality(Clearing(m)) \in Nat
    BY PoolAssumption, SystemAssumption, RunnersFinite DEF Clearing
  <2>4. QED
    BY <2>1, <2>2, <2>3 DEF Backed, AskedFor
<1>3. QED
  BY <1>1, <1>2, SystemTypedInit, SystemTypeStep, ApprovalStep, PoolAssumption, SystemAssumption,
     PTL DEF SystemSpec

-----------------------------------------------------------------------------
(* Reports are bounded by what starts runs, and rows by reports            *)

\* A delivery or a resume of m pays for a run of it or for its report.
ReportsOf(m) == reports[m] + Cardinality(Reporting(m)) <= deliveries[m] + resumes[m]

\* No file of m has more reports in its trail than were written of m.
OnRecord(m) ==
    /\ kept[m].reported <= reports[m]
    /\ \A r \in Runners : Event(r) = m => file[r].reported <= reports[m]

RowsOf(m) == 2 * rows[m] <= reports[m] * (reports[m] + 1)

RowsInv == \A m \in Msgs : ReportsOf(m) /\ OnRecord(m) /\ RowsOf(m)

\* One more flush, of one more report than the trail had.
LEMMA OneMoreFlush ==
    ASSUME NEW old \in Nat, NEW new \in Nat, NEW trail \in Nat, NEW n \in Nat,
           2 * old <= n * (n + 1), trail <= n, new = old \/ new = old + trail + 1
    PROVE  2 * new <= (n + 1) * ((n + 1) + 1)
<1>1. (n + 1) * ((n + 1) + 1) = n * (n + 1) + 2 * n + 2
  OBVIOUS
<1>2. n * (n + 1) \in Nat
  OBVIOUS
<1>3. 2 * new <= 2 * old + 2 * n + 2
  OBVIOUS
<1>4. QED
  BY <1>1, <1>2, <1>3

LEMMA RowsStep ==
    PoolAssumption /\ SystemAssumption /\ SystemTyped /\ RowsInv
        /\ [SystemNext]_systemVars => RowsInv'
<1> SUFFICES ASSUME PoolAssumption, SystemAssumption, SystemTyped, RowsInv,
                    [SystemNext]_systemVars, NEW m \in Msgs
             PROVE  ReportsOf(m)' /\ OnRecord(m)' /\ RowsOf(m)'
  BY DEF RowsInv
<1> DEFINE n == Cardinality(Reporting(m))
<1>t. /\ rows \in [Msgs -> Nat] /\ reports \in [Msgs -> Nat]
      /\ resumes \in [Msgs -> Nat] /\ deliveries \in [Msgs -> Nat]
      /\ kept \in [Msgs -> EventFiles] /\ file \in [Runners -> EventFiles]
      /\ m # NoMsg
  BY DEF SystemTyped, SystemTypeOK, TypeOK, ObserverOK
<1>m. /\ rows[m] \in Nat /\ reports[m] \in Nat
      /\ deliveries[m] \in Nat /\ resumes[m] \in Nat
  BY <1>t
<1>r. Reporting(m) \in SUBSET Runners /\ Reporting(m)' \in SUBSET Runners
  BY DEF Reporting
<1>n. n \in Nat /\ n' \in Nat
  BY <1>r, RunnersFinite
<1>i. /\ reports[m] + n <= deliveries[m] + resumes[m]
      /\ OnRecord(m) /\ RowsOf(m)
  BY DEF RowsInv, ReportsOf
<1>q. ReportsOf(m)' <=> reports'[m] + n' <= deliveries'[m] + resumes'[m]
  BY DEF ReportsOf
<1>o. ASSUME NEW r \in Runners, OthersRunOn(r)
      PROVE  Reporting(m)' \ {r} = Reporting(m) \ {r}
  BY <1>o DEF Reporting, Reports, OthersRunOn
<1>w. ASSUME rows' = rows, reports' = reports
      PROVE  RowsOf(m)'
  BY <1>i, <1>w DEF RowsOf
<1> HIDE DEF n
<1>1. CASE RunsStop
  <2>1. Reporting(m)' \subseteq Reporting(m)
    BY <1>1, <1>t DEF RunsStop, Reporting, Reports
  <2>2. n' <= n
    BY <1>r, <2>1, RunnersFewer DEF n
  <2>3. /\ rows' = rows /\ reports' = reports /\ resumes' = resumes /\ kept' = kept
        /\ deliveries'[m] \in Nat /\ deliveries'[m] >= deliveries[m]
    BY <1>1 DEF RunsStop, askVars
  <2>4. OnRecord(m)'
    BY <1>1, <1>i, <1>t, <2>3 DEF OnRecord, RunsStop
  <2>5. QED
    BY <1>m, <1>n, <1>i, <1>q, <1>w, <2>2, <2>3, <2>4
<1>2. ASSUME NEW w \in Workers, StartRun(w)
      PROVE  ReportsOf(m)' /\ OnRecord(m)' /\ RowsOf(m)'
  <2>1. /\ Event(w)' = cursor + 1 /\ OthersRunOn(w) /\ w \in Runners /\ cursor + 1 \in Msgs
        /\ file'[w] = Reopened(kept[cursor + 1])
        /\ deliveries' = [deliveries EXCEPT ![cursor + 1] = @ + 1]
        /\ rows' = rows /\ reports' = reports /\ resumes' = resumes /\ kept' = kept
    BY <1>2, DeliveryBeginsRun DEF askVars, Runners
  <2>2. Reporting(m)' \ {w} = Reporting(m) \ {w}
    BY <1>o, <2>1
  <2>3. OnRecord(m)'
    <3>1. file'[w].reported = kept[cursor + 1].reported
      BY <1>t, <2>1 DEF Reopened, EventFiles
    <3>2. QED
      BY <1>i, <2>1, <3>1 DEF OnRecord, OthersRunOn
  <2>4. CASE cursor + 1 = m
    <3>1. deliveries'[m] = deliveries[m] + 1
      BY <1>t, <2>1, <2>4
    <3>2. n' <= n + 1
      BY <1>r, <2>1, <2>2, OneRunner DEF n
    <3>3. QED
      BY <1>m, <1>n, <1>i, <1>q, <1>w, <2>1, <2>3, <3>1, <3>2
  <2>5. CASE cursor + 1 # m
    <3>1. deliveries'[m] = deliveries[m] /\ w \notin Reporting(m)'
      BY <1>t, <2>1, <2>5 DEF Reporting, Reports
    <3>2. n' <= n
      BY <1>r, <2>1, <2>2, <3>1, OneRunner DEF n
    <3>3. QED
      BY <1>m, <1>n, <1>i, <1>q, <1>w, <2>1, <2>3, <3>1, <3>2
  <2>6. QED
    BY <2>4, <2>5
<1>3. ASSUME NEW r \in Runners, Goes(r)
      PROVE  ReportsOf(m)' /\ OnRecord(m)' /\ RowsOf(m)'
  <2>1. /\ Event(r) \in Msgs /\ Event(r)' = Event(r) /\ OthersRunOn(r)
        /\ Reports(r, Event(r))
        /\ kept' = [kept EXCEPT ![Event(r)] = file'[r]]
        /\ ~Report(r) => /\ rows' = rows /\ reports' = reports
                         /\ file'[r].reported = file[r].reported
        /\ Report(r) =>
              /\ file'[r].stage = "closed"
              /\ rows' \in {rows, [rows EXCEPT ![Event(r)] = @ + file[r].reported + 1]}
              /\ reports' = [reports EXCEPT ![Event(r)] = @ + 1]
              /\ file'[r].reported = file[r].reported + 1
        /\ deliveries' = deliveries /\ resumes' = resumes
    BY <1>3, GoesOn DEF vars, observerVars, askVars
  <2>2. Reporting(m)' \ {r} = Reporting(m) \ {r}
    BY <1>o, <2>1
  <2>3. Event(r) = m => r \in Reporting(m)
    BY <2>1 DEF Reporting
  <2>4. Event(r) # m => r \notin Reporting(m)'
    BY <2>1 DEF Reporting, Reports
  <2>5. n' <= n
    BY <1>r, <2>2, <2>3, <2>4, OneRunner DEF n
  <2>f. /\ file[r].reported \in Nat
        /\ Event(r) = m => file[r].reported <= reports[m]
        /\ kept[m].reported \in Nat /\ kept[m].reported <= reports[m]
    BY <1>i, <1>t DEF OnRecord, EventFiles
  <2>6. CASE Report(r) /\ Event(r) = m
    <3>1. r \notin Reporting(m)'
      BY <2>1, <2>6 DEF Reporting, Reports
    <3>2. n' < n
      BY <1>n, <1>r, <2>2, <2>3, <2>6, <3>1, OneRunner DEF n
    <3>3. reports'[m] = reports[m] + 1
      BY <1>t, <2>1, <2>6
    <3>4. ReportsOf(m)'
      <4>1. deliveries'[m] = deliveries[m] /\ resumes'[m] = resumes[m]
        BY <2>1
      <4>2. (reports[m] + 1) + n' <= deliveries[m] + resumes[m]
        BY <1>m, <1>n, <1>i, <3>2
      <4>3. QED
        BY <1>q, <3>3, <4>1, <4>2
    <3>5. OnRecord(m)'
      <4>1. kept'[m].reported <= reports'[m]
        <5>1. kept'[m].reported = file[r].reported + 1
          BY <1>t, <2>1, <2>6
        <5>2. file[r].reported \in Nat /\ file[r].reported <= reports[m]
          BY <2>6, <2>f
        <5>3. QED
          BY ONLY <1>m, <3>3, <5>1, <5>2
      <4>2. ASSUME NEW q \in Runners, Event(q)' = m
            PROVE  file'[q].reported <= reports'[m]
        <5>1. CASE q = r
          BY <1>m, <2>1, <2>6, <2>f, <3>3, <5>1
        <5>2. CASE q # r
          <6>1. file'[q].reported \in Nat /\ file'[q].reported <= reports[m]
            BY <1>i, <1>t, <2>1, <4>2, <5>2 DEF OnRecord, OthersRunOn, EventFiles
          <6>2. QED
            BY <1>m, <3>3, <6>1
        <5>3. QED
          BY <5>1, <5>2
      <4>3. QED
        BY <4>1, <4>2 DEF OnRecord
    <3>6. RowsOf(m)'
      <4>1. rows'[m] = rows[m] \/ rows'[m] = rows[m] + file[r].reported + 1
        BY <1>t, <2>1, <2>6
      <4>2. rows'[m] \in Nat
        BY <1>m, <2>f, <4>1
      <4>3. 2 * rows'[m] <= (reports[m] + 1) * ((reports[m] + 1) + 1)
        BY <1>m, <1>i, <2>6, <2>f, <4>1, <4>2, OneMoreFlush DEF RowsOf
      <4>4. QED
        BY <3>3, <4>3 DEF RowsOf
    <3>7. QED
      BY <3>4, <3>5, <3>6
  <2>7. CASE ~(Report(r) /\ Event(r) = m)
    <3>1. reports'[m] = reports[m] /\ rows'[m] = rows[m]
      BY <1>t, <2>1, <2>7
    <3>2. Event(r) = m => file'[r].reported = file[r].reported
      BY <2>1, <2>7
    <3>3. OnRecord(m)'
      <4>1. kept'[m].reported <= reports'[m]
        BY <1>t, <2>1, <2>f, <3>1, <3>2
      <4>2. \A q \in Runners : Event(q)' = m => file'[q].reported <= reports'[m]
        BY <1>i, <2>1, <2>f, <3>1, <3>2 DEF OnRecord, OthersRunOn
      <4>3. QED
        BY <4>1, <4>2 DEF OnRecord
    <3>4. RowsOf(m)'
      BY <1>i, <3>1 DEF RowsOf
    <3>5. QED
      BY <1>m, <1>n, <1>i, <1>q, <2>1, <2>5, <3>1, <3>3, <3>4
  <2>8. QED
    BY <2>6, <2>7
<1>4. ASSUME NEW a \in Approvers, NEW e \in Msgs, NEW d \in {"approve", "reject"},
             Approve(a, e, d)
      PROVE  ReportsOf(m)' /\ OnRecord(m)' /\ RowsOf(m)'
  <2>1. /\ a \in Runners /\ Event(a)' = e /\ file'[a] = kept[e] /\ OthersRunOn(a)
        /\ rows' = rows /\ reports' = reports /\ kept' = kept /\ deliveries' = deliveries
        /\ resumes' = [resumes EXCEPT ![e] = @ + 1]
    BY <1>4, RequestBeginsRun DEF vars, observerVars, Approve
  <2>2. Reporting(m)' \ {a} = Reporting(m) \ {a}
    BY <1>o, <2>1
  <2>3. OnRecord(m)'
    BY <1>i, <2>1 DEF OnRecord, OthersRunOn
  <2>4. CASE e = m
    <3>1. resumes'[m] = resumes[m] + 1
      BY <1>t, <2>1, <2>4
    <3>2. n' <= n + 1
      BY <1>r, <2>1, <2>2, OneRunner DEF n
    <3>3. QED
      BY <1>m, <1>n, <1>i, <1>q, <1>w, <2>1, <2>3, <3>1, <3>2
  <2>5. CASE e # m
    <3>1. resumes'[m] = resumes[m] /\ a \notin Reporting(m)'
      BY <1>t, <2>1, <2>5 DEF Reporting, Reports
    <3>2. n' <= n
      BY <1>r, <2>1, <2>2, <3>1, OneRunner DEF n
    <3>3. QED
      BY <1>m, <1>n, <1>i, <1>q, <1>w, <2>1, <2>3, <3>1, <3>2
  <2>6. QED
    BY <2>4, <2>5
<1>5. ASSUME NEW a \in Approvers, Done(a)
      PROVE  ReportsOf(m)' /\ OnRecord(m)' /\ RowsOf(m)'
  <2>1. /\ a \in Runners /\ Event(a)' = NoMsg /\ OthersRunOn(a)
        /\ rows' = rows /\ reports' = reports /\ kept' = kept
        /\ deliveries' = deliveries /\ resumes' = resumes
    BY <1>5, RequestEndsRun DEF vars, observerVars
  <2>2. Reporting(m)' \ {a} = Reporting(m) \ {a} /\ a \notin Reporting(m)'
    BY <1>o, <1>t, <2>1 DEF Reporting, Reports
  <2>3. n' <= n
    BY <1>r, <2>1, <2>2, OneRunner DEF n
  <2>4. OnRecord(m)'
    BY <1>i, <1>t, <2>1 DEF OnRecord, OthersRunOn
  <2>5. QED
    BY <1>m, <1>n, <1>i, <1>q, <1>w, <2>1, <2>3, <2>4
<1>6. QED
  BY <1>1, <1>2, <1>3, <1>4, <1>5, PoolStopsRuns
     DEF SystemNext, RunStep, Answer, AnswerFails, Runners, Goes

\* For any system: an event is not reported more often than it was delivered
\* and resumed, whatever runs overlap, fail and start again, and n reports
\* leave no more than 1 + 2 + ... + n report rows.
THEOREM ReportsAreBoundedByRuns == SystemSpec => []ReportsPerRun
<1>1. SystemInit => RowsInv
  <2> SUFFICES ASSUME SystemInit, NEW m \in Msgs
               PROVE  ReportsOf(m) /\ OnRecord(m) /\ RowsOf(m)
    BY DEF RowsInv
  <2>1. \A r \in Runners : Event(r) = NoMsg
    BY DEF SystemInit, Init, Runners, Event
  <2>2. m # NoMsg
    BY PoolAssumption DEF PoolAssumption
  <2>3. Reporting(m) = {}
    BY <2>1, <2>2 DEF Reporting, Reports
  <2>4. ReportsOf(m)
    BY <2>3, FS_EmptySet DEF SystemInit, Init, ReportsOf
  <2>5. QED
    BY <2>1, <2>2, <2>4 DEF SystemInit, OnRecord, RowsOf, NewFile
<1>2. SystemTyped /\ RowsInv => ReportsPerRun
  <2> SUFFICES ASSUME SystemTyped, RowsInv, NEW m \in Msgs
               PROVE  /\ reports[m] <= deliveries[m] + resumes[m]
                      /\ 2 * rows[m] <= reports[m] * (reports[m] + 1)
    BY DEF ReportsPerRun
  <2>1. ReportsOf(m) /\ RowsOf(m)
    BY DEF RowsInv
  <2>2. reports[m] \in Nat /\ deliveries[m] \in Nat /\ resumes[m] \in Nat
    BY DEF SystemTyped, SystemTypeOK, TypeOK, ObserverOK
  <2>3. Cardinality(Reporting(m)) \in Nat
    BY PoolAssumption, SystemAssumption, RunnersFinite DEF Reporting
  <2>4. QED
    BY <2>1, <2>2, <2>3 DEF ReportsOf, RowsOf
<1>3. QED
  BY <1>1, <1>2, SystemTypedInit, SystemTypeStep, RowsStep, PoolAssumption, SystemAssumption,
     PTL DEF SystemSpec

-----------------------------------------------------------------------------
(* No event is stranded half way                                           *)

\* An event nobody was handed has no thread and no run.
Untouched(m) ==
    deliveries[m] = 0 => /\ kept[m].stage = "new"
                         /\ \A r \in Runners : Event(r) # m

\* Until the first checkpoint the first delivery's run is all there is.
FirstRun(m) ==
    deliveries[m] = 1 /\ kept[m].stage = "new" =>
        \A r \in Runners : Event(r) = m => r \in Workers /\ file[r].stage = "open"

\* The latest checkpoint is final, or held by a run, or that of a run that
\* raised or was cut off (its message was never returned, nor acknowledged).
Attended(m) ==
    \/ kept[m].stage \in {"closed", "review"}
    \/ \E r \in Runners : Event(r) = m /\ (file[r] = kept[m] \/ kept[m].stage = "new")
    \/ m \notin returned /\ \A w \in Workers : Event(w) # m

Tended(m) ==
    /\ Untouched(m)
    /\ FirstRun(m)
    /\ deliveries[m] = 1 /\ failures[m] = 0 => Attended(m)

TendedInv == \A m \in Msgs : Tended(m)

\* Steps after which each run is where it was or was cut off.
LEMMA CutOffsTended ==
    ASSUME PoolAssumption, SystemAssumption, SystemTyped, HandsInv, TendedInv,
           RunsStop, returned' = returned,
           \A a \in Approvers : Event(a)' = Event(a) /\ file'[a] = file[a],
           NEW m \in Msgs
    PROVE  Tended(m)'
<1>t. /\ deliveries[m] \in Nat /\ deliveries'[m] \in Nat /\ deliveries'[m] >= deliveries[m]
      /\ kept' = kept /\ failures' = failures /\ m # NoMsg
      /\ \A r \in Runners : Event(r)' = NoMsg \/ (Event(r)' = Event(r) /\ file'[r] = file[r])
  BY DEF RunsStop, askVars, SystemTyped, SystemTypeOK, TypeOK, ObserverOK
<1>i. Tended(m) /\ OneHand(m)
  BY DEF TendedInv, HandsInv
<1>1. Untouched(m)'
  BY <1>t, <1>i DEF Tended, Untouched
<1>2. CASE deliveries[m] = 0
  <2>1. /\ kept[m].stage = "new" /\ \A r \in Runners : Event(r) # m
        /\ m \notin returned
    BY <1>i, <1>2 DEF Tended, Untouched, OneHand
  <2>2. FirstRun(m)' /\ Attended(m)'
    BY <1>t, <2>1 DEF FirstRun, Attended, Runners
  <2>3. QED
    BY <1>1, <2>2 DEF Tended
<1>3. CASE deliveries[m] = 1
  <2>1. FirstRun(m)'
    BY <1>t, <1>i, <1>3 DEF Tended, FirstRun
  <2>2. ASSUME failures[m] = 0, deliveries'[m] = 1
        PROVE  Attended(m)'
    <3>0. Attended(m)
      BY <1>i, <1>3, <2>2 DEF Tended
    <3>1. CASE kept[m].stage \in {"closed", "review"}
      BY <1>t, <3>1 DEF Attended
    <3>2. CASE m \notin returned /\ \A w \in Workers : Event(w) # m
      BY <1>t, <3>2 DEF Attended, Runners
    <3>3. ASSUME NEW r \in Runners, Event(r) = m, file[r] = kept[m] \/ kept[m].stage = "new"
          PROVE  Attended(m)'
      <4>1. CASE Event(r)' = m
        BY <1>t, <3>3, <4>1 DEF Attended
      <4>2. CASE Event(r)' # m
        <5>1. r \in Workers /\ pc[r] = "graph" /\ msg[r] = m
          BY <1>t, <3>3, <4>2, EventType DEF Runners
        <5>2. m \notin returned /\ \A w \in Workers : msg[w] = m => w = r
          BY <1>i, <1>3, <5>1 DEF OneHand
        <5>3. \A w \in Workers : Event(w) = m => w = r
          BY <1>t, <5>2, EventType DEF Runners
        <5>4. \A w \in Workers : Event(w)' # m
          BY <1>t, <4>2, <5>3 DEF Runners
        <5>5. QED
          BY <5>2, <5>4 DEF Attended
      <4>3. QED
        BY <4>1, <4>2
    <3>4. QED
      BY <3>0, <3>1, <3>2, <3>3 DEF Attended
  <2>3. QED
    BY <1>1, <1>t, <2>1, <2>2 DEF Tended
<1>4. CASE deliveries[m] > 1
  BY <1>1, <1>t, <1>4 DEF Tended, FirstRun
<1>5. QED
  BY <1>t, <1>2, <1>3, <1>4

\* A run that returns leaves its last checkpoint, or another run's, behind.
LEMMA ReturnsTended ==
    ASSUME PoolAssumption, SystemAssumption, SystemTyped, HandsInv, TendedInv,
           NEW w \in Workers, RunEnds(w), NEW m \in Msgs
    PROVE  Tended(m)'
<1>t. /\ pc \in [Workers -> Suspended] /\ msg \in [Workers -> Msgs \union {NoMsg}]
      /\ deliveries[m] \in Nat /\ m # NoMsg /\ file \in [Runners -> EventFiles]
  BY DEF SystemTyped, SystemTypeOK, TypeOK, ProcessOK, ObserverOK
<1>r. RunsStop
  BY PoolStopsRuns
<1>1. /\ kept' = kept /\ failures' = failures /\ deliveries' = deliveries
      /\ returned' = returned \union {msg[w]}
      /\ w \in Runners /\ pc[w] = "graph" /\ Returns(w) /\ Event(w) = msg[w] /\ Event(w)' = NoMsg
  BY <1>t, EventType DEF RunEnds, GraphReturns, GoTo, askVars, Runners, Event
<1>2. OthersRunOn(w)
  BY <1>t DEF RunEnds, GraphReturns, GoTo, OthersRunOn, Event, Runners
<1>i. Tended(m) /\ OneHand(m)
  BY DEF TendedInv, HandsInv
<1>3. Untouched(m)' /\ FirstRun(m)'
  BY <1>t, <1>1, <1>2, <1>i DEF Tended, Untouched, FirstRun, OthersRunOn
<1>4. ASSUME deliveries[m] = 1, failures[m] = 0
      PROVE  Attended(m)'
  <2>0. Attended(m)
    BY <1>i, <1>4 DEF Tended
  <2>1. CASE kept[m].stage \in {"closed", "review"}
    BY <1>1, <2>1 DEF Attended
  <2>2. CASE m \notin returned /\ \A v \in Workers : Event(v) # m
    <3>1. m \notin returned' /\ \A v \in Workers : Event(v)' # m
      BY <1>t, <1>1, <1>2, <2>2 DEF OthersRunOn, Runners
    <3>2. QED
      BY <3>1 DEF Attended
  <2>3. ASSUME NEW r \in Runners, Event(r) = m, file[r] = kept[m] \/ kept[m].stage = "new"
        PROVE  Attended(m)'
    <3>1. CASE r # w
      BY <1>1, <1>2, <2>3, <3>1 DEF Attended, OthersRunOn
    <3>2. CASE r = w
      <4>1. file[w].stage \in {"closed", "review"}
        BY <1>1 DEF Returns
      <4>2. kept[m].stage # "new"
        BY <1>i, <1>4, <2>3, <3>2, <4>1 DEF Tended, FirstRun
      <4>3. QED
        BY <1>1, <2>3, <3>2, <4>1, <4>2 DEF Attended
    <3>3. QED
      BY <3>1, <3>2
  <2>4. QED
    BY <2>0, <2>1, <2>2, <2>3 DEF Attended
<1>5. QED
  BY <1>1, <1>3, <1>4 DEF Tended

LEMMA TendedStep ==
    PoolAssumption /\ SystemAssumption /\ SystemTyped /\ HandsInv /\ TendedInv
        /\ [SystemNext]_systemVars => TendedInv'
<1> SUFFICES ASSUME PoolAssumption, SystemAssumption, SystemTyped, HandsInv, TendedInv,
                    [SystemNext]_systemVars, NEW m \in Msgs
             PROVE  Tended(m)'
  BY DEF TendedInv
<1>t. /\ pc \in [Workers -> Suspended] /\ msg \in [Workers -> Msgs \union {NoMsg}]
      /\ deliveries \in [Msgs -> Nat] /\ deliveries[m] \in Nat /\ m # NoMsg
      /\ file \in [Runners -> EventFiles] /\ kept \in [Msgs -> EventFiles]
      /\ failures \in [Msgs -> Nat]
      /\ Workers \intersect Approvers = {}
  <2>1. /\ pc \in [Workers -> Suspended] /\ msg \in [Workers -> Msgs \union {NoMsg}]
        /\ deliveries \in [Msgs -> Nat]
    BY DEF SystemTyped, SystemTypeOK, TypeOK, ProcessOK, ObserverOK
  <2>2. /\ file \in [Runners -> EventFiles] /\ kept \in [Msgs -> EventFiles]
        /\ failures \in [Msgs -> Nat]
    BY DEF SystemTyped, SystemTypeOK
  <2>3. QED
    BY <2>1, <2>2 DEF SystemAssumption
<1>i. Tended(m) /\ OneHand(m)
  BY DEF TendedInv, HandsInv
<1>1. CASE PoolStep \/ ProcessEnds \/ UNCHANGED systemVars \/ \E w \in Workers : RunRaises(w)
  <2>1. RunsStop
    BY <1>1, PoolStopsRuns
  <2>2. returned' = returned
    BY <1>1 DEF PoolStep, ProcessEnds, RunRaises, GraphRaises, PoolExits, Crash, Publish, Rewind,
       StartPool, EnsureGroup, EnsureGroupFails, ConsumeFails, Deliver, Ack, AckFails,
       PublishDlq, PublishDlqFails, AckDlq, AckDlqFails, observerVars, systemVars, vars
  <2>3. \A a \in Approvers : Event(a)' = Event(a) /\ file'[a] = file[a]
    BY <1>1, <1>t DEF PoolStep, ProcessEnds, RunRaises, systemVars, graphVars, runVars, Event,
       Runners
  <2>4. QED
    BY <2>1, <2>2, <2>3, CutOffsTended
<1>2. ASSUME NEW w \in Workers, RunEnds(w)
      PROVE  Tended(m)'
  BY <1>2, ReturnsTended
<1>3. ASSUME NEW w \in Workers, StartRun(w)
      PROVE  Tended(m)'
  <2>1. /\ Event(w) = NoMsg /\ Event(w)' = cursor + 1
        /\ file'[w].stage = "open"
        /\ OthersRunOn(w) /\ w \in Runners
        /\ deliveries' = [deliveries EXCEPT ![cursor + 1] = @ + 1]
        /\ returned' = returned /\ kept' = kept /\ failures' = failures
        /\ cursor + 1 \in Msgs
    BY <1>t, <1>3, DeliveryBeginsRun DEF Reopened, EventFiles, askVars, Runners
  <2>2. CASE m = cursor + 1
    <3>1. deliveries'[m] = deliveries[m] + 1
      BY <1>t, <2>1, <2>2
    <3>2. CASE deliveries[m] = 0
      <4>1. kept[m].stage = "new" /\ \A r \in Runners : Event(r) # m
        BY <1>i, <3>2 DEF Tended, Untouched
      <4>2. Untouched(m)'
        BY <1>t, <3>1, <3>2 DEF Untouched
      <4>3. FirstRun(m)'
        BY <1>3, <2>1, <4>1 DEF FirstRun, OthersRunOn
      <4>4. Attended(m)'
        BY <2>1, <2>2, <4>1 DEF Attended
      <4>5. QED
        BY <4>2, <4>3, <4>4 DEF Tended
    <3>3. CASE deliveries[m] # 0
      <4>1. deliveries'[m] # 0 /\ deliveries'[m] # 1
        BY <1>t, <3>1, <3>3
      <4>2. QED
        BY <4>1 DEF Tended, Untouched, FirstRun
    <3>4. QED
      BY <3>2, <3>3
  <2>3. CASE m # cursor + 1
    <3>1. deliveries'[m] = deliveries[m]
      BY <1>t, <2>1, <2>3
    <3>2. \A r \in Runners : Event(r) = m \/ Event(r)' = m =>
             Event(r) = m /\ Event(r)' = m /\ file'[r] = file[r]
      BY <1>t, <2>1, <2>3 DEF OthersRunOn
    <3>3. Untouched(m)' /\ FirstRun(m)'
      BY <1>i, <2>1, <3>1, <3>2 DEF Tended, Untouched, FirstRun
    <3>4. Attended(m) => Attended(m)'
      BY <2>1, <3>2 DEF Attended, Runners
    <3>5. QED
      BY <1>i, <2>1, <3>1, <3>3, <3>4 DEF Tended
  <2>4. QED
    BY <2>2, <2>3
<1>4. ASSUME NEW r \in Runners, Assess(r) \/ Report(r) \/ (r \in Approvers /\ Decide(r))
      PROVE  Tended(m)'
  <2>1. PICK f : StepTo(r, f) /\ f.stage # "new" /\ Event(r) # NoMsg
    <3>1. file[r] \in EventFiles
      BY <1>t
    <3>2. CASE Assess(r)
      BY <3>1, <3>2 DEF Assess, Assessed, EventFiles
    <3>3. CASE Report(r)
      BY <3>1, <3>3 DEF Report, Reported
    <3>4. CASE r \in Approvers /\ Decide(r)
      BY <3>1, <3>4 DEF Decide, Decided, EventFiles
    <3>5. QED
      BY <1>4, <3>2, <3>3, <3>4
  <2>2. /\ Event(r) \in Msgs /\ Event(r)' = Event(r) /\ file'[r] = f /\ OthersRunOn(r)
        /\ kept' = [kept EXCEPT ![Event(r)] = f]
        /\ deliveries' = deliveries /\ returned' = returned /\ failures' = failures
    BY <2>1, StepGoesOn DEF vars, observerVars, askVars
  <2>3. CASE Event(r) = m
    <3>1. kept'[m] = f
      BY <1>t, <2>2, <2>3
    <3>2. Untouched(m)'
      BY <1>i, <2>2, <2>3 DEF Tended, Untouched
    <3>3. FirstRun(m)' /\ Attended(m)'
      BY <2>1, <2>2, <2>3, <3>1 DEF FirstRun, Attended
    <3>4. QED
      BY <3>2, <3>3 DEF Tended
  <2>4. CASE Event(r) # m
    <3>1. kept'[m] = kept[m]
      BY <1>t, <2>2, <2>4
    <3>2. \A q \in Runners : Event(q) = m \/ Event(q)' = m =>
             Event(q) = m /\ Event(q)' = m /\ file'[q] = file[q]
      BY <2>2, <2>4 DEF OthersRunOn
    <3>3. Untouched(m)' /\ FirstRun(m)'
      BY <1>i, <2>2, <3>1, <3>2 DEF Tended, Untouched, FirstRun
    <3>4. Attended(m) => Attended(m)'
      BY <2>2, <3>1, <3>2 DEF Attended, Runners
    <3>5. QED
      BY <1>i, <2>2, <3>3, <3>4 DEF Tended
  <2>5. QED
    BY <2>3, <2>4
<1>5. ASSUME NEW a \in Approvers, NEW n \in Msgs, NEW d \in {"approve", "reject"},
             Approve(a, n, d)
      PROVE  Tended(m)'
  <2>1. /\ a \in Runners /\ Event(a) = NoMsg /\ Event(a)' = n /\ OthersRunOn(a)
        /\ deliveries' = deliveries /\ returned' = returned /\ kept' = kept
        /\ failures' = failures /\ kept[n].stage # "new"
    BY <1>5, RequestBeginsRun DEF vars, observerVars, Approve
  <2>2. Untouched(m)' /\ FirstRun(m)'
    BY <1>i, <2>1 DEF Tended, Untouched, FirstRun, OthersRunOn
  <2>3. Attended(m) => Attended(m)'
    BY <1>t, <2>1 DEF Attended, OthersRunOn, Runners
  <2>4. QED
    BY <1>i, <2>1, <2>2, <2>3 DEF Tended
<1>6. ASSUME NEW a \in Approvers, Answer(a) \/ AnswerFails(a)
      PROVE  Tended(m)'
  <2>1. /\ a \in Runners /\ a \notin Workers /\ Event(a)' = NoMsg /\ OthersRunOn(a)
        /\ deliveries' = deliveries /\ returned' = returned /\ kept' = kept
    BY <1>t, <1>6, RequestEndsRun DEF Answer, AnswerFails, vars, observerVars
  <2>2. Untouched(m)' /\ FirstRun(m)'
    BY <1>t, <1>i, <2>1 DEF Tended, Untouched, FirstRun, OthersRunOn
  <2>3. ASSUME deliveries[m] = 1, failures'[m] = 0
        PROVE  Attended(m)'
    <3>1. CASE Event(a) # m
      <4>1. failures[m] = 0
        BY <1>t, <1>6, <2>3, <3>1 DEF Answer, AnswerFails
      <4>2. Attended(m)
        BY <1>i, <2>3, <4>1 DEF Tended
      <4>3. QED
        BY <1>t, <2>1, <3>1, <4>2 DEF Attended, OthersRunOn, Runners
    <3>2. CASE Event(a) = m
      <4>1. ~AnswerFails(a)
        BY <1>t, <2>3, <3>2 DEF AnswerFails
      <4>2. Returns(a) /\ failures[m] = 0
        BY <1>6, <2>3, <4>1 DEF Answer
      <4>3. kept[m].stage # "new"
        BY <1>i, <2>1, <2>3, <3>2 DEF Tended, FirstRun
      <4>4. Attended(m)
        BY <1>i, <2>3, <4>2 DEF Tended
      <4>5. file[a].stage \in {"closed", "review"}
        BY <4>2 DEF Returns
      <4>6. QED
        BY <1>t, <2>1, <3>2, <4>3, <4>4, <4>5 DEF Attended, OthersRunOn, Runners
    <3>3. QED
      BY <3>1, <3>2
  <2>4. QED
    BY <2>1, <2>2, <2>3 DEF Tended
<1>7. QED
  BY <1>1, <1>2, <1>3, <1>4, <1>5, <1>6 DEF SystemNext, RunStep, Runners

\* For any system: an event that was delivered once, is off the queue's books
\* and in no run, and none of whose resumes failed, is closed or waits for
\* its review.
THEOREM EventsAreNotStranded == SystemSpec => []NoEventStranded
<1>1. SystemInit => TendedInv
  BY PoolAssumption
     DEF SystemInit, Init, TendedInv, Tended, Untouched, FirstRun, Event, NewFile,
         Runners, PoolAssumption
<1>2. SystemTyped /\ TendedInv /\ Accounted => NoEventStranded
  <2> SUFFICES ASSUME SystemTyped, TendedInv, Accounted, NEW m \in 1..published,
                      deliveries[m] = 1, m \notin pending, dlq[m] = 0, failures[m] = 0,
                      RunsOf(m) = {}
               PROVE  kept[m].stage \in {"closed", "review"}
    BY DEF NoEventStranded
  <2>1. m \in Msgs
    BY PoolAssumption DEF SystemTyped, SystemTypeOK, TypeOK, RedisOK, PoolAssumption
  <2>2. Attended(m)
    BY <2>1 DEF TendedInv, Tended
  <2>3. m \in returned
    BY <2>1 DEF Accounted
  <2>4. QED
    BY <2>2, <2>3 DEF Attended, RunsOf
<1>3. QED
  BY <1>1, <1>2, SystemRunsPool, HandsInvariant, AccountedInvariant, SystemTypedInit,
     SystemTypeStep, TendedStep, PoolAssumption, SystemAssumption, PTL DEF SystemSpec

-----------------------------------------------------------------------------
(* The system as shipped                                                   *)

\* With a saver of its own the approval route resumes nothing.
OwnSaver == \A m \in Msgs : resumes[m] = 0 /\ approvals[m] = 0 /\ continued[m] = 0

\* As the repository ships it (threats.py:23, and a cursor nobody moves back),
\* an entry of the stream is reported into the audit table at most once, and a
\* CRITICAL one never, whatever fails, is cancelled or starts again.
THEOREM ShippedReportsAtMostOnce ==
    ASSUME ApproverSaver = "own", MaxRewinds = 0
    PROVE  SystemSpec => []((\A m \in Msgs : rows[m] <= 1) /\ \A m \in critical : rows[m] = 0)
<1>1. SystemInit => OwnSaver
  BY DEF SystemInit, OwnSaver
<1>2. OwnSaver /\ [SystemNext]_systemVars => OwnSaver'
  <2>1. ~(\E a \in Approvers, m \in Msgs, d \in {"approve", "reject"} : Approve(a, m, d))
    BY DEF Approve
  <2>2. [SystemNext]_systemVars => UNCHANGED <<resumes, approvals, continued>>
    BY <2>1 DEF SystemNext, PoolStep, ProcessEnds, StartRun, RunEnds, RunRaises, RunStep, Assess,
                Report, StepTo, Decide, Answer, AnswerFails, Done, graphVars, askVars, systemVars
  <2>3. QED
    BY <2>2 DEF OwnSaver
<1>3. SystemTyped /\ OwnSaver /\ ReportsPerRun /\ CriticalReportsApproved /\ DeliveredToOneWorker
        => (\A m \in Msgs : rows[m] <= 1) /\ \A m \in critical : rows[m] = 0
  <2> SUFFICES ASSUME SystemTyped, OwnSaver, ReportsPerRun, CriticalReportsApproved,
                      DeliveredToOneWorker, NEW m \in Msgs
               PROVE  rows[m] <= 1 /\ (m \in critical => rows[m] = 0)
    BY DEF SystemTyped, SystemTypeOK
  <2>1. rows[m] \in Nat /\ reports[m] \in Nat /\ deliveries[m] \in Nat
    BY DEF SystemTyped, SystemTypeOK, TypeOK, ObserverOK
  <2>2. /\ reports[m] <= deliveries[m] + 0 /\ deliveries[m] <= 1
        /\ 2 * rows[m] <= reports[m] * (reports[m] + 1)
    BY DEF OwnSaver, ReportsPerRun, DeliveredToOneWorker
  <2>3. m \in critical => reports[m] = 0
    BY <2>1 DEF OwnSaver, CriticalReportsApproved
  <2>4. reports[m] = 0 \/ reports[m] = 1
    BY <2>1, <2>2
  <2>5. CASE reports[m] = 0
    BY <2>1, <2>2, <2>5
  <2>6. CASE reports[m] = 1
    BY <2>1, <2>2, <2>3, <2>6
  <2>7. QED
    BY <2>4, <2>5, <2>6
<1>4. Spec => []DeliveredToOneWorker
  BY EventsGoToOneWorker
<1> QED
  BY <1>1, <1>2, <1>3, <1>4, SystemRunsPool, CriticalReportsAreApproved, ReportsAreBoundedByRuns,
     SystemTypedInit, SystemTypeStep, PoolAssumption, SystemAssumption, PTL DEF SystemSpec

=============================================================================
