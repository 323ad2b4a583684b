----------------------------- MODULE SecureOps -----------------------------
(***************************************************************************)
(* The whole of SecureOps: the worker pool (WorkerPool), the runs of the   *)
(* agent graph its workers make on the events they are handed (Lifecycle,  *)
(* which AgentGraph implements), and the approval route of the API, whose  *)
(* requests run the same threads in another process.                       *)
(*                                                                         *)
(* Runs of one event may overlap: nothing locks a thread.  Each run loads  *)
(* the latest checkpoint when it starts, goes on in its own memory, and    *)
(* every step writes a checkpoint that becomes the latest.  (AgentGraph    *)
(* has the delay between a step and its checkpoint.)                       *)
(***************************************************************************)
EXTENDS WorkerPool, Lifecycle

CONSTANTS
    Approvers,     \* requests to POST /threats/{event_id}/approve in progress at once
    ApproverSaver, \* the saver the approval route's graph is compiled with:
                   \* "own" (threats.py:23) or "shared" with the workers
    MaxResumes     \* bound: requests that resume a thread

ASSUME SystemAssumption ==
    /\ IsFiniteSet(Approvers)
    /\ Workers \intersect Approvers = {}
    /\ ApproverSaver \in {"own", "shared"}
    /\ MaxResumes \in Nat

Runners == Workers \union Approvers

VARIABLES
    critical,   \* the events of severity CRITICAL
    kept,       \* kept[m]: the latest checkpoint of m's thread
    file,       \* file[r]: the thread in the memory of r's run
    request,    \* request[a]: the event a's request is about
    payload,    \* payload[a]: its Command(resume=...), "none" once it is used
    rows,       \* rows[m]: report_generated rows of m in audit_entries
    \* observers
    reports,    \* reports[m]: reports written of m, by whichever run
    approvals,  \* approvals[m]: approve requests that found m at its review
    continued,  \* continued[m]: requests, of either decision, that found m cleared
    resumes,    \* resumes[m]: requests that resumed m
    failures    \* failures[m]: resumes of m that raised

runVars    == <<kept, file, request, payload, rows, reports>>
askVars    == <<approvals, continued, resumes, failures>>
graphVars  == <<critical, runVars, askVars>>
systemVars == <<vars, graphVars>>

SystemTypeOK ==
    /\ TypeOK
    /\ critical \in SUBSET Msgs
    /\ kept \in [Msgs -> EventFiles]
    /\ file \in [Runners -> EventFiles]
    /\ request \in [Approvers -> Msgs \union {NoMsg}]
    /\ payload \in [Approvers -> {"none", "approve", "reject"}]
    /\ rows \in [Msgs -> Nat]
    /\ reports \in [Msgs -> Nat]
    /\ approvals \in [Msgs -> Nat]
    /\ continued \in [Msgs -> Nat]
    /\ resumes \in [Msgs -> Nat]
    /\ failures \in [Msgs -> Nat]

SystemInit ==
    /\ Init
    /\ critical \in SUBSET Msgs
    /\ kept = [m \in Msgs |-> NewFile]
    /\ file = [r \in Runners |-> NewFile]
    /\ request = [a \in Approvers |-> NoMsg]
    /\ payload = [a \in Approvers |-> "none"]
    /\ rows = [m \in Msgs |-> 0]
    /\ reports = [m \in Msgs |-> 0]
    /\ approvals = [m \in Msgs |-> 0]
    /\ continued = [m \in Msgs |-> 0]
    /\ resumes = [m \in Msgs |-> 0]
    /\ failures = [m \in Msgs |-> 0]

-----------------------------------------------------------------------------
(* Runs                                                                    *)

\* The event r's run is about; NoMsg when r is not in ainvoke.
Event(r) ==
    IF r \in Approvers THEN request[r]
    ELSE IF pc[r] = "graph" THEN msg[r] ELSE NoMsg

\* A step takes the file on to f and writes its checkpoint; the payload was
\* there for the first step only.
StepTo(r, f) ==
    /\ file' = [file EXCEPT ![r] = f]
    /\ kept' = [kept EXCEPT ![Event(r)] = f]
    /\ payload' = [a \in Approvers |-> IF a = r THEN "none" ELSE payload[a]]
    /\ UNCHANGED <<vars, critical, request, askVars>>

Assess(r) ==
    /\ Event(r) # NoMsg
    /\ file[r].stage = "open"
    /\ \E f \in Assessed(file[r], Event(r) \in critical) : StepTo(r, f)
    /\ UNCHANGED <<rows, reports>>

Decide(a) ==
    /\ Event(a) # NoMsg
    /\ file[a].stage = "review"
    /\ payload[a] # "none"
    /\ StepTo(a, Decided(file[a], payload[a] = "approve"))
    /\ UNCHANGED <<rows, reports>>

\* The whole trail is flushed, with an entry for each report the thread has
\* ever made and for this one, or the flush fails and is swallowed.
Report(r) ==
    /\ Event(r) # NoMsg
    /\ file[r].stage = "cleared"
    /\ StepTo(r, Reported(file[r]))
    /\ rows' \in {rows, [rows EXCEPT ![Event(r)] = @ + file[r].reported + 1]}
    /\ reports' = [reports EXCEPT ![Event(r)] = @ + 1]

\* ainvoke comes back: at END, or at an interrupt with no payload for it.
Returns(r) ==
    \/ file[r].stage = "closed"
    \/ /\ file[r].stage = "review"
       /\ r \in Approvers => payload[r] = "none"

-----------------------------------------------------------------------------
(* The workers' runs                                                       *)

\* The run starts over on what the latest checkpoint holds.
StartRun(w) ==
    /\ Consume(w)
    /\ file' = [file EXCEPT ![w] = Reopened(kept[cursor + 1])]
    /\ UNCHANGED <<critical, kept, request, payload, rows, reports, askVars>>

\* Mutation: a suspended run is taken for one that is still going.
RunEndsAtEndOnly(w) ==
    /\ GraphReturns(w)
    /\ file[w].stage = "closed"
    /\ file' = [file EXCEPT ![w] = NewFile]
    /\ UNCHANGED <<critical, kept, request, payload, rows, reports, askVars>>

RunEnds(w) ==
    /\ GraphReturns(w)
    /\ Returns(w)
    /\ file' = [file EXCEPT ![w] = NewFile]
    /\ UNCHANGED <<critical, kept, request, payload, rows, reports, askVars>>

RunRaises(w) ==
    /\ GraphRaises(w)
    /\ file' = [file EXCEPT ![w] = NewFile]
    /\ UNCHANGED <<critical, kept, request, payload, rows, reports, askVars>>

\* The runs of a process that ends are gone; their checkpoints stay.
ProcessEnds ==
    /\ PoolExits \/ Crash
    /\ file' = [r \in Runners |-> IF r \in Workers THEN NewFile ELSE file[r]]
    /\ UNCHANGED <<critical, kept, request, payload, rows, reports, askVars>>

\* What the pool does without the graph.
PoolStep ==
    /\ \/ Publish
       \/ Rewind
       \/ StartPool
       \/ \E w \in Workers :
             \/ EnsureGroup(w) \/ EnsureGroupFails(w)
             \/ ConsumeFails(w)
             \/ Ack(w) \/ AckFails(w)
             \/ PublishDlq(w) \/ PublishDlqFails(w)
             \/ AckDlq(w) \/ AckDlqFails(w)
    /\ UNCHANGED graphVars

-----------------------------------------------------------------------------
(* POST /threats/{event_id}/approve                                        *)

\* The resumed run goes on with the pending node of the latest checkpoint,
\* wherever another run may have left it.  (With a saver of its own, or with
\* nothing to go on with, the request changes nothing.)
Approve(a, m, d) ==
    /\ ApproverSaver = "shared"
    /\ request[a] = NoMsg
    /\ resumes[m] < MaxResumes
    /\ kept[m].stage \in {"open", "review", "cleared"}
    /\ request' = [request EXCEPT ![a] = m]
    /\ file' = [file EXCEPT ![a] = kept[m]]
    /\ payload' = [payload EXCEPT ![a] = d]
    /\ approvals' = IF kept[m].stage = "review" /\ d = "approve"
                    THEN [approvals EXCEPT ![m] = @ + 1] ELSE approvals
    /\ continued' = IF kept[m].stage = "cleared"
                    THEN [continued EXCEPT ![m] = @ + 1] ELSE continued
    /\ resumes' = [resumes EXCEPT ![m] = @ + 1]
    /\ UNCHANGED <<vars, critical, kept, rows, reports, failures>>

\* The request is done with: answered, or given up.
Done(a) ==
    /\ request' = [request EXCEPT ![a] = NoMsg]
    /\ file' = [file EXCEPT ![a] = NewFile]
    /\ payload' = [payload EXCEPT ![a] = "none"]
    /\ UNCHANGED <<vars, critical, kept, rows, reports, approvals, continued, resumes>>

\* 200, with the report channel in the body: the last report the thread ever
\* made, by this run or an earlier one (there is one when file[a].reported > 0).
Answer(a) ==
    /\ Event(a) # NoMsg
    /\ Returns(a)
    /\ Done(a)
    /\ UNCHANGED failures

\* The run raises (a 500), or the API's process ends.
AnswerFails(a) ==
    /\ Event(a) # NoMsg
    /\ failures' = [failures EXCEPT ![Event(a)] = @ + 1]
    /\ Done(a)

-----------------------------------------------------------------------------
RunStep(r) == Assess(r) \/ Report(r)

SystemNext ==
    \/ PoolStep
    \/ ProcessEnds
    \/ \E w \in Workers : StartRun(w) \/ RunEnds(w) \/ RunRaises(w)
    \/ \E r \in Runners : RunStep(r)
    \/ \E a \in Approvers :
          \/ \E m \in Msgs, d \in {"approve", "reject"} : Approve(a, m, d)
          \/ Decide(a)
          \/ Answer(a)
          \/ AnswerFails(a)

SystemSpec == SystemInit /\ [][SystemNext]_systemVars

\* What a worker and its run do when nothing raises.
WorkerGoesOn(w) ==
    \/ StartRun(w) \/ RunStep(w) \/ RunEnds(w)
    \/ /\ EnsureGroup(w) \/ Ack(w) \/ PublishDlq(w) \/ AckDlq(w)
       /\ UNCHANGED graphVars

RequestGoesOn(a) == RunStep(a) \/ Decide(a) \/ Answer(a)

\* The fairness of WorkerPool's FairSpec, with the graph's steps in it; a
\* request in progress goes on, too.  Nothing is assumed of producers, of
\* humans making requests, or of faults.
SystemFairSpec ==
    /\ SystemSpec
    /\ WF_systemVars(StartPool /\ UNCHANGED graphVars)
    /\ WF_systemVars(ProcessEnds /\ PoolExits)
    /\ \A w \in Workers : WF_systemVars(WorkerGoesOn(w))
    /\ \A a \in Approvers : WF_systemVars(RequestGoesOn(a))

-----------------------------------------------------------------------------
(* Properties                                                              *)

\* The runs in progress on an event.
RunsOf(m) == {r \in Runners : Event(r) = m}

\* A CRITICAL event is reported only after an approval of its review, and never
\* more often than there were requests that may report it: those that approved
\* the review, and those (a reject, too, see Approve) that found the thread at
\* the reporter, cleared by an approval whose report was not on record yet.
\* Deliveries, resumes, failures and overlapping runs of the event coming in
\* each other's way add none (threats.py:62 beside consumer.py:62).
CriticalReportsApproved ==
    \A m \in critical :
        /\ reports[m] > 0 => approvals[m] > 0
        /\ reports[m] <= approvals[m] + continued[m]

\* What overlapping runs cost the audit table: each delivery and each resume of
\* an event makes at most one report of it, and as each report writes the ones
\* before it again (reporter.py:81), n of them leave no more than 1 + 2 + ... + n
\* report_generated rows.
ReportsPerRun ==
    \A m \in Msgs :
        /\ reports[m] <= deliveries[m] + resumes[m]
        /\ 2 * rows[m] <= reports[m] * (reports[m] + 1)

\* An event is not stranded half way: delivered once, off the queue's books,
\* not dead-lettered, and with no run in progress and no failed request, it
\* is closed or waits for its review (the ack of consumer.py:63 comes after
\* the checkpoint of the run's last step, and approvals keep it that way).
NoEventStranded ==
    \A m \in 1..published :
        (/\ deliveries[m] = 1
         /\ m \notin pending
         /\ dlq[m] = 0
         /\ failures[m] = 0
         /\ RunsOf(m) = {})
            => kept[m].stage \in {"closed", "review"}

\* Every published event gets to its end or its review, unless a graph run of
\* it failed, or a Redis command, the process or a resume did.
EventsCloseOrWait ==
    \A m \in Msgs :
        (m <= published) ~> \/ kept[m].stage \in {"closed", "review"}
                            \/ retry_counts[m] > 0
                            \/ faults + crashes + failures[m] > 0

=============================================================================
