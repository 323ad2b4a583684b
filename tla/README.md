# Formal models of SecureOps AI

TLA+ models of the event pipeline of this repository: how events get onto the
Redis stream, the worker pool that reads it, the LangGraph agent graph it runs on
each event with its checkpoints, human approval and audit log, the status the
API derives from them, the runbook index the graph retrieves from, and queue,
graph and approvals working together. TLC
checks the models on small instances, TLAPS proves the main safety properties
for every value of the constants. Paths below are relative to the repository
root (`src/workers/consumer.py` is the worker pool).

## The system

| component | state it keeps | operations | talks to |
|---|---|---|---|
| Event producers (`src/ingestion/producer.py`, `POST /events/ingest`, `src/workers/batch_ingest.py`) | none | `publish` | roles and limits in front of the route, XADD on the event stream |
| Event queue (`src/ingestion/queue/`) | stream, consumer group with its cursor and Pending Entries List (PEL), dead-letter stream, all in Redis | `publish`, `ensure_group`, `consume`, `ack` | producers, workers |
| Worker pool (`src/workers/consumer.py`) | `_retry_counts` of the process; per worker the suspended coroutine and its message | `run_worker_pool`, `run_worker`, `_process_message` | queue, agent graph |
| Agent graph (`src/graph/`, `src/agents/`, `ThreatState`) | per event a thread of channels, in memory and in the checkpointer | seven nodes, four conditional edges, interrupt and resume | workers, approval route, runbook store, models, audit log |
| Approval route (`src/api/routes/threats.py`) | a `MemorySaver` of its own | `POST /threats/{id}/approve` | agent graph |
| Audit log (`src/security/audit.py`, Alembic 001) | `audit_entries` | `flush_audit_trail` (one transaction), `append_audit_entry` (no caller) | reporter node, status route |
| Event status (`src/api/routes/events.py`) | none | `GET /events/{id}` | audit log |
| NVD batch ingest (`src/workers/batch_ingest.py`) | none between runs | fetch a day's CVEs, parse all, publish each | NVD, queue |
| Runbook store (`src/rag/`, `src/api/routes/runbooks.py`) | cached index handle per process; the Pinecone index | init, upsert, query, delete, seed | retrieve node, API |
| Normalizer and adapters (`src/ingestion/`) | adapter cache | parsing of payloads into events | ingest route, batch job |
| Guardrails (`src/security/guardrails/`) | none | text and URL checks | nodes, ingest route, batch job |
| Authentication, roles and limits (`src/security/rbac.py`, `src/api/limiter.py`) | the limiter's counters | `require_role`, limits per route | routes |
| Health, wiring, tracing | library state | per request | - |

How they interact. A producer XADDs an event. N coroutines of one process read
the stream through one consumer group, run the graph with
`thread_id = event_id`, and XACK when it returns. A failing run is counted in a
dictionary the coroutines share; the MAX_RETRIES-th failure copies the message
to the dead-letter stream and acknowledges it. Inside the graph a grading loop
may rewrite the query up to MAX_REWRITES times, a CRITICAL event is suspended
by `interrupt()` until a human resumes it, and the reporter flushes the
accumulated trail to PostgreSQL, from which the status route answers.

What is hard here: coroutines that share a counter across awaits; Redis
commands that may fail after the server has executed them; a worker's error
that cancels all others; a crash between any two of publish, ack, flush and
checkpoint; a thread that is restarted with the channels of an earlier run; an
approval that may come for a thread in any state; runs of one thread that
overlap, since nothing locks a thread; SQL rows whose order is not
determined; a batch that fails halfway, runs again and overlaps another, with a
window cut to whole seconds; an index that several processes initialise at once
and a seed load that is repeated over what an earlier one left.
`PROJECT.json` lists each of these hazards at its line, with the
properties that cover it or the reason none does.

What makes each component correct: the queue and pool lose no event silently,
deliver each to one worker, dead-letter only after the documented number of
failures and keep counting right; the graph ends, bounds its loop and reports a
CRITICAL event only on an approval given for it, with runbooks that were graded
and steps that are grounded; the audit table shows that approval; an event that
is off the queue is closed or at its review; the status never shows more than what happened; a batch run that
completes has its whole day on the stream and an accepted request its event;
the runbook index keeps what answered writes stored.

## Modules

| module | models | checked by |
|---|---|---|
| `WorkerPool` | stream, group, PEL, dead-letter stream, the workers, restart and crash of the process | `pool_*`, `system_*` |
| `EventLedger` | what the queue promises, with no workers, cursor or counters in it | `pool_safety` |
| `WorkerPoolLedger` | the refinement mapping of WorkerPool to EventLedger | `pool_safety` |
| `Guardrails` | injection check, output filter and the reading of the judge's reply as functions | `graph_*` |
| `AgentGraph` | one event's thread: nodes, edges, checkpoints, interrupt/resume, audit flush | `graph_*` |
| `Lifecycle` | the stages of an event and the steps between them | `graph_safety`, `system_*` |
| `Incident` | what the graph promises of one event, with no nodes, texts or loops in it | `graph_safety` |
| `AgentGraphIncident` | the refinement mapping of AgentGraph to Incident | `graph_safety` |
| `RemediationSteps` | the loop that splits the model's answer into steps | `steps_doc` |
| `EventStatus` | `GET /events/{id}` over the rows AgentGraph writes | `graph_safety`, `graph_status_doc` |
| `SecureOps` | the composition: WorkerPool, a run of Lifecycle steps per worker, and approve requests | `system_*` |
| `Access` | roles, tokens and `require_role` | `ingest_safety` |
| `Ingestion` | `POST /events/ingest` and the runs of the batch job, on one stream | `ingest_safety` |
| `Normalization` | the normaliser and its adapters as functions | `ingest_safety` |
| `RunbookStore` | the runbook index, and pool, API and seed script as its users | `store_safety` |
| `MCWorkerPool`, `MCAgentGraph`, `MCRemediationSteps`, `MCSecureOps`, `MCIngestion`, `MCRunbookStore` | instances for TLC | |
| `WorkerPoolProofs`, `AgentGraphProofs`, `EventProofs`, `RemediationStepsProofs`, `SecureOpsProofs`, `IngestionProofs`, `RunbookStoreProofs` | theorems | TLAPS |
| `SmallestNatural` | a least element of any set of naturals, for the one proof that needs induction, in `IngestionProofs` | TLAPS |

`WorkerPool`, `AgentGraph`, `Ingestion` and `RunbookStore` are the detailed
modules, one per process or protocol. `SecureOps` composes the first with what
the second implements: `AgentGraph` refines `Incident`, `Incident` is made of
the steps of `Lifecycle`, and `SecureOps` takes the same steps for every run of
every event.

Operators whose comment starts with "Mutation:" are wrong variants of the
definition that follows them. They are part of no specification; each is the
bug that one property is known to catch (`mutants` in `PROJECT.json`).

### WorkerPool

An action is one stretch of a coroutine between two awaits together with the
command it awaits, so workers interleave where the event loop can switch. The
values of `pc` are the awaits: `ensure` and `consume` of `run_worker`; `graph`,
`ack`, `dlqPublish`, `dlqAck` of `_process_message`; `dead` is a coroutine that
raised, `down` one whose process is not running.

| state | code |
|---|---|
| `published`, `group`, `cursor`, `pending`, `dlq` | the stream's length, the group, its last-delivered-id, its PEL, copies per message on the dead-letter stream |
| `retry_counts` | `_retry_counts`, 0 for a missing entry |
| `pc`, `msg` | where a coroutine is suspended, the `msg` in its scope |
| `returned`, `deliveries` | observers: runs that returned, XREADGROUP replies per message |

Every Redis command has a failing action (`ConsumeFails`, `AckFails`,
`PublishDlqFails`, ...) in which the server may or may not have executed it. The
`except` of `_process_message` covers the graph run and the first ack; an error
in reading or dead-lettering ends the worker (`Die`), and `PoolExits` is
`asyncio.gather` raising and `asyncio.run` cancelling the rest. `Rewind` is
outside the program: an operator's XGROUP SETID. It is the only way an entry is
delivered twice to readers of ">", and the runs that need redelivery
use it; the runs about the pool as shipped set `MaxRewinds = 0`. The graph run
is one step that returns or raises; `SecureOps` opens it up. Not modelled:
payloads, closing connections, more than one process of workers at a time.

### AgentGraph

An action is a node with the conditional edge behind it. `thread` holds the
channels of `ThreatState` that edges or later steps read, `saved` the latest
checkpoint. LangGraph's default durability writes checkpoints in the background,
so `Checkpoint` may or may not happen between two nodes, `RunReturns` flushes, and
`RunDies` (a node raises, the checkpointer fails, the pool cancels the worker,
the process crashes) leaves either state behind. `Invoke` is
`_process_message`'s `ainvoke` with fresh input: on a thread that exists it
restarts at `injection_check` and keeps the other channels. `MaxInvokes = 2`
stands for redelivery (a rewind, or a dead-lettered payload published again).
The second `Invoke` is what brings stale channels into play.

`ApproverSaver` is where the approval route finds threads: `"own"` is the code
as shipped, `"shared"` is a graph resumed through the saver it was suspended in,
as `tests/integration/test_graph.py` does and the documents describe. With
`"own"` a request finds no thread and changes none (`ResumeFails`). Every behaviour
with `"own"` is one with `"shared"` in which no request resumes, but for those
failing requests, which touch no thread; so `graph_safety` uses `"shared"`.

`work`, `approvals` and `requested` are observers: no guard reads them. `work`
counts the nodes all runs of the event have completed, and is not rolled back
when a run dies behind its checkpoint. `approvals` counts the approve requests
that found the event suspended at its review, and no others: an approve that
resumes a run at another node is not counted, so a decision kept for the
suspension that run comes to would show in `ApprovalUsedOnce`. (`interrupt()`
takes the payload only where the resumed run begins: `StepDone` drops it with the
first node.)

What a text holds for the checks is drawn each time a node reads it (the judge
may answer otherwise the second time), from three constants:
`EventTexts` (what the injection patterns find in the event's text and what the
second layer's judge says), `JudgeReplies` (what `json.loads` and `float` make
of the grader's reply) and `ModelOutputs` (what the output filter finds). The
operators of `Guardrails` decide on them as the code does, with scores in
tenths: a reply can be out of range, NaN, too large for a float (`OverflowError`,
which ends the run) or no JSON at all. `Reports` carries the score, rewrite count
and origin of the steps a report was made with, for `ReportIsGraded`.

Abstractions: an audit entry is its action name; severity is CRITICAL or other;
queries, documents and the steps' wording are left out. Runs of one thread do
not overlap here: two workers holding the same event, or an approval during a
redelivery, are in `SecureOps`. LangGraph and the savers are external, modelled
from how the code uses them. `flush_audit_trail` succeeds or fails as a whole; its statement
writes `:detail::jsonb`, a spelling SQLAlchemy's `text()` may not bind, in which
case every flush against PostgreSQL fails and is swallowed. The tests replace the
flush by a mock, and the model keeps both outcomes.

### RemediationSteps

`_parse_steps`, an action per line of the answer and one for the return. Of a
line the model keeps how it begins (`LineKinds`); a step is the sequence of the
numbers of its lines. `LinesAreKept` says that no line with text is lost,
repeated or moved. `IndividualSteps` says what the docstring promises, with an
item being a line that begins with a number of any length: the code starts a
step only where the second character is the separator, so `10.` is joined to step
9 and the property is violated (`steps_doc`). How far it does hold is the theorem
`NineStepsAreIndividual`.

### Lifecycle, Incident and SecureOps

A file is what is on record of an event: its stage (new, open, at review,
cleared for the report, closed) and how many approvals and reports its trail
holds. `Lifecycle` has the steps between stages, with the nodes of one stage
taken together; `AgentGraphIncident` maps a thread to its file, and
`ImplementsIncident` says that each step of AgentGraph is a step of Incident or
changes nothing in it.

`SecureOps` extends WorkerPool. `Consume` starts a run (`StartRun`), which goes
on in steps while the worker's `pc` is `graph`, and ends in `RunEnds` or
`RunRaises`. `Approve` is a request to the approval route, which runs in the
API's process beside the workers.

| state | code |
|---|---|
| `kept[m]` | the latest checkpoint of the thread of m |
| `file[r]` | the thread in the memory of run r, a worker's or a request's |
| `request[a]`, `payload[a]` | the event of the request a is in; its `Command(resume=...)` until it is used |
| `rows[m]` | `report_generated` rows of m: a flush writes one for each report the trail ever had (`file[r].reported`) and one for this |
| `reports[m]` | observer: reports of m, by whichever run |
| `approvals[m]`, `continued[m]` | observers: approve requests that found m at its review; requests of either decision that found it cleared for the report |
| `resumes[m]`, `failures[m]` | observers: requests that resumed m, and those of them that raised |

Nothing locks a thread, so runs of one event overlap: each loads the latest
checkpoint once and goes on in its own memory, and each step's checkpoint
becomes the latest, over what the other has written. A resume goes on with whatever
node is pending, so a reject that finds the thread at the reporter goes on to
report: an approve that has decided and a reject that comes before the report is
on record make two reports of one approval. `CriticalReportsApproved` counts over
all runs of an event, and says what is left of the promise: no report without an
approval of the review before it, and no more reports than requests that approved
there or found the thread already cleared (`continued`). A delivery, a failure or a
run in another's way adds none. What an answer's body holds is the report channel,
which no node clears, so it is the last report the thread ever made, whatever
this request decided. The file keeps how many there were (`reported`), and
the disagreement with the documents is `graph_reject_doc`'s, where the channel
itself is modelled. With `ApproverSaver = "own"` a request finds no thread and changes
nothing, which is a stutter. Two simplifications: a checkpoint is written with
its step (AgentGraph has the delay between them), and it is loaded in the
command that starts the run.

### EventStatus

`Statuses` is the set of answers `get_event` may give: the rows of one
transaction share the timestamp `DEFAULT NOW()`, so any of the last
transaction's rows may be the last row of the query.

### Ingestion, Access and Normalization

Each run of the batch job is a process of its own: it computes its window
(`BeginRun`), gets the response and parses every record (`Fetch`, one step, since
`_adapter.parse` never suspends), and awaits one publish after the other.
`RunFails` is any of these commands raising, or the process ending. A request
passes the role check, the limiter, the URL check and the adapter in one step,
for the same reason, and then awaits its publish; the answers are the route's
status codes. `Access` has a token as what it decodes to (missing, not
decodable, without the claims, or with a role), and `require_role` as its
function. The limiter may refuse any request: its counts and its window are the
library's.

| state | code |
|---|---|
| `now`, `feed` | the clock in half seconds; when NVD published each CVE |
| `stream` | copies of each event on the stream; a CVE parsed twice is two events with ids of their own, counted under its name |
| `run`, `began`, `batch` | where a run is, its `end` before truncation, the rest of `events` |
| `answer`, `event` | a request's response, the severity of the event it is publishing |

The clock distinguishes a second's exact instant from the rest of it, which is
all that `strftime("...%S.000")` tells apart. NVD is external: it returns a CVE
from its publication on, both ends of a window included, in one page. Of a
payload `Normalization` keeps what decides severity or outcome: scores in tenths,
labels, the PRI, whether a field can be read. An exception is a `ValueError`
(which the route turns into a 422) or another one (a 500): `OverflowError` of an
epoch beyond `time_t` (`siem_adapter.py:83` does not list it), `TypeError` or
`AttributeError` of a field of an unexpected JSON type. The payloads of
the instance cover each adapter with each outcome.

### RunbookStore

Pinecone's client is synchronous and every call is moved to a thread, so listing
the indexes, creating one, and each read or write is a command of its own (`pc`
names the one a caller awaits). `handle[p]` is `_index` in the memory of process
p: the pool, the API, which starts only after its own `init_pinecone`, or the
seed script. A caller that has listed the indexes before another created one
gets the conflict (`CreateConflicts`) and raises: a request, an event's run, or the
script. `todo` is what the script has yet to upsert; a vector's id is its file's
stem. Texts are version numbers that grow with each edit. `sawIndex`, `floor`
and `promised` are observers for the properties.

## Runs

Deadlock is not checked: the bounded models stop when their events, requests
and faults are used up, where the program would wait for more.

| run | instance | shows |
|---|---|---|
| `pool_safety` | 2 workers, 2 messages, MAX_RETRIES 2, 3 rewinds, 2 faults, 1 crash; worker symmetry | `NoSilentLoss`, `DeadLetterBudget`, `CountsKeptUntilOutcome`, `ImplementsLedger` |
| `pool_retry_doc` | as shipped, no fault | violated: `PendingEventuallySettled` |
| `graph_safety` | shared saver, second layer of the injection check on, outputs the filter finds nothing in, 2 deliveries, 2 decisions, 1 death, fair | `RewritesAreCounted`, `WorkIsBounded`, `ReportNeedsApproval`, `ApprovalUsedOnce`, `AuditShowsApproval`, `CompletedIsEarned`, `ReportIsGraded`, `RunsRunDown`, `ImplementsIncident`, `RunEnds`, `UncriticalRunReports`, `ApprovalLeadsToReport` |
| `system_safety` | 1 message, 2 workers, 2 requests at a time and 2 in all, shared saver, MAX_RETRIES 2, 1 rewind, 1 crash, no failing Redis command; symmetry of workers and of requests | `SystemTypeOK`, `CriticalReportsApproved`, `ReportsPerRun`, `NoEventStranded` |
| `system_progress` | own saver, 2 messages, 2 workers, MAX_RETRIES 3, no rewind, 1 fault, 1 crash, fair | `DeliveredToOneWorker`, `AbandonedStayPending`, `EveryEventDelivered`, `UndisturbedEventsSettle`, `EventsCloseOrWait` |
| `ingest_safety` | 2 runs at any times, 2 sound CVEs and a malformed one, a day of 2 half seconds, a clock of 5 instants, 1 request over 11 payloads and 5 tokens, 1 fault; symmetry of runs and of sound CVEs | `CompletedRunCoversItsDay`, `DailyRunsLeaveNoGap`, `CopiesAccounted`, `AnswersMatchStream` |
| `store_safety` | 1 coroutine of the pool, 1 of the API, the script; 2 files, 1 edit, 1 delete, 1 created runbook, 1 fault, fair | `HandleMeansIndex`, `ExistingIndexIsKept`, `AnsweredWritesStay`, `ReloadsSucceed` |
| `graph_audit_doc`, `graph_status_doc`, `graph_approval_doc` | own saver, 1 delivery | violated, see below |
| `graph_reject_doc` | shared saver, 2 deliveries, 2 decisions, MAX_REWRITES 0 (the rewrites have no part in it) | violated: `RejectEndsWithoutReport` |
| `steps_doc` | all answers of up to 5 lines | violated: `IndividualSteps` |

Why these bounds are enough to be of interest. In the pool, two workers and
three rewinds let the same message be in both hands at once and reach the
dead-letter stream (MAX_RETRIES 2 needs two deliveries) and come back after it;
two faults let a failed command be followed by a failing recovery; the crash
falls between any two steps. In the graph, two deliveries and one death let a
run die before or after the review, the flush and their checkpoints and the next
one start from what is left; two decisions allow approve/reject in any order;
MAX_REWRITES is the code's value, and the texts and replies of the
instance lie on either side of each threshold. An output that echoes an injection
or leaks the prompt is left to the smaller runs: the filter treats it like one
with a score below its threshold, which `graph_safety` has. In the system, one message is enough for runs to
overlap (threads of different events share nothing but the queue, which
`pool_safety` covers with two): after the rewind two workers hold it, and two
requests may join them in any stage. In the ingestion, two runs can overlap, follow
each other within a day or after it, and repeat one that failed; the length of
the day does not matter to the windows as long as it is whole seconds (the proofs
leave it open), and the clock reaches both kinds of instants on either side of them. In the runbook
store, three callers of three processes race for the index, one file's text
differs from the other's, and the fault falls on any command or ends any process.

Fairness. `SecureOps!SystemFairSpec`, after `WorkerPool!FairSpec`: each worker's
steps, those of its run included, other than a graph run or a Redis command that
raises (`WorkerGoesOn`), the steps of a request in progress, the end of a pool whose gather has raised, and a
restart of a pool that is down. All but the last are what the event loop, bounded
Redis timeouts and model-client timeouts give; the restart is the operator's
(no worker service stands in `docker-compose.yml`) and is only needed for
events to be delivered after a crash. Producers, crashes, rewinds, faults
and humans making requests are not fair. `AgentGraph!FairSpec`: a run that has started goes on. No human
has to decide, no checkpoint has to be written early. `RunbookStore!FairSpec`:
a command that is awaited comes back, and the script goes on from file to file.
Nobody has to call, nobody has to run the script: `ReloadsSucceed` is about
those who run it again and again. `Ingestion` is checked for safety only.

### Where the code and its documents differ

- `pool_retry_doc`: a message whose run failed is never read again (`consume`
  asks for ">" only and nothing claims pending entries), so it stays in the PEL,
  its count stays at 1 and the dead-letter stream is out of reach without outside
  help, against `docs/M10-workers/architecture.md:51-74`.
- `graph_audit_doc`: blocked and rejected runs reach END without the reporter
  and leave no audit row, against `docs/M7-security/system-design.md:89`.
- `graph_status_doc`: a suspended event reads "queued", against the docstring at
  `src/api/routes/events.py:100`. "processing" can only come from a tie of
  timestamps.
- `graph_approval_doc`: the approval route looks for the thread in a saver that
  no worker writes, against `src/api/routes/threats.py:44` and
  `docs/M9-api/system-design.md:102`.
- `graph_reject_doc`: no node clears the report channel and the route answers with
  it, so on a shared saver a reject of an event that was reported before ends its
  run with a report, against `src/api/routes/threats.py:45-46`.
- `steps_doc`: an item with a number of two digits is joined to the step before
  it, against the docstring at `src/agents/remediation.py:65`.

One more disagreement has no run, because the model would only repeat the line:
`docs/M7-security/system-design.md:68` denies analysts `POST /events/ingest`, where
`src/api/routes/events.py:60` and `docs/M9-api/system-design.md` admit them.
`Access` follows the code.

Nothing promises otherwise, but a reader of the audit table should know: each
report flushes the whole trail again, so the rows of an earlier report are
inserted a second time after a redelivery (`ReportsPerRun` bounds them by
n(n+1)/2 for n reports).

## Proofs

Each theorem holds for all constants that meet the module's ASSUME (finitely
many workers, natural bounds, MAX_RETRIES at least 1). The bounds themselves are
arbitrary, so the theorems cover every number of messages, faults and crashes.

`WorkerPoolProofs`
- `TypeCorrect`. Inductive with `InHand`: a worker has a published message
  exactly where the code has `msg` in scope; without it `retry_counts[msg[w]]`
  is not typed.
- `EventsAreNotLost`. `NoSilentLoss` alone is not inductive: a worker at `ack`
  could remove anything. `LossInv` adds `AckHasReason` (a worker at `ack` has a
  run that returned, one at `dlqAck` a copy) and `HandedOut` (what is behind the
  cursor or in hand was delivered).
- `CountsAreKept`: the action property follows from `LossInv` step by step.
- `PoolImplementsLedger`: initial states map to initial states and each step to
  a ledger step or a stutter, under `LossInv`.
- `DeadLettersAreBudgeted`. Deliveries of a message pay for its attempts in
  progress, its counted failures, its pending decisions to dead-letter and its
  copies; `Budget` is the balance, and each action moves one unit from one
  account to another (`PaidSteps`, `OneMoves`). Workers are counted by
  cardinality, hence the finiteness assumption.
- `EventsGoToOneWorker`, for `MaxRewinds = 0`, from `HandsInv` (a message
  delivered once at most is in one worker's hands at most) and from deliveries
  being bounded by where the cursor stands, which nothing but a rewind moves back.
- `AbandonedEventsStay`, for `MaxRewinds = 0`: a pending event in nobody's hands
  stays pending and in nobody's hands. It needs `PendingDelivered` (what is pending
  was delivered), so that the next delivery, of an event not yet delivered, is of
  another one. The counterexample of `pool_retry_doc` is thus the rule.
- `NothingIsDeadLettered`, for `MaxRewinds = 0` and MAX_RETRIES of at least 2: one
  delivery does not pay for a dead-letter copy (`DeadLetterBudget`).

`AgentGraphProofs`
- `GraphTypeCorrect`, inductive with `Quiet`: between runs memory is the
  checkpoint and no resume payload is left.
- `RewritesStayCounted`, with "a pending rewrite has budget left".
- `ReportsAreApproved`, `ApprovalsAreUsedOnce`, `AuditRecordsApproval`, from one
  invariant, `CriticalInv`: reports never outnumber approvals in a trail, fall
  strictly behind while the thread is at the reporter, every report entry
  follows an approval entry, and approval entries never outnumber the requests that
  approved a suspended review, one fewer while such a request has not used its
  payload. It holds for memory, checkpoint and every flushed batch, so no crash
  point breaks it.
- `NodesLeftGoDown`: each node lowers `NodesLeft`, how many nodes are ahead with
  every rewrite that is left taken. With fairness this is why a run ends; without it
  the theorem still says that no run loops.
- `WorkStaysBounded`. The invariant is that the work done and what `NodesLeft`
  allows the thread in memory fit together in the budget (`WorkInv`). A node moves
  one unit from what is allowed to what is done, a delivery adds six and a rewrite
  pays for itself. A death may set the thread back to a checkpoint with fewer
  rewrites counted, by no more than a full run (`FullRun`), which the bound grants for
  each death: it is a bound that deaths do raise.
- `OwnSaverReportsNothing`, for `ApproverSaver = "own"`: a CRITICAL event is never
  reported and has no audit row. A resume finds no thread, so no thread ever
  carries an approval to the reporter (`OwnSaverInv`). The findings of
  `graph_approval_doc` and, for CRITICAL events, `graph_audit_doc` hold for any
  number of deliveries and requests.
- `ScoresAreBounded`: whatever the judge replies, a score the graph goes on with
  lies between 0 and 1.
- `ReportsAreGraded`, from `GradedInv`: a thread past the grading loop has a
  passing grade or no rewrites left, one past the remediation has steps that are
  grounded, and neither channel changes on the way to the report.

`EventProofs`
- `GraphImplementsIncident`: each action is one step of Incident or a stutter,
  under AgentGraph's type invariant and `Quiet`.
- `CompletedEventsEarnedIt`. `EarnedInv` says of every flushed transaction what
  the property says of them, whatever the status, and of a thread behind
  `injection_check` that its trail has the check's entry; the approvals come from
  `CriticalInv`.

`SecureOpsProofs`
- `SystemRunsPool`: the composition implements WorkerPool's specification, so
  the pool's theorems hold in it; `SystemKeepsTheBooks` names those that matter
  to a user of the system, and `SystemTypeCorrect` uses them.
- `CriticalReportsAreApproved`, from `ApprovalInv`. `Backed`: the reports made and
  the runs on their way to one (`Clearing`: cleared, or an approve about to decide)
  do not outnumber the requests that approved the review or found the thread
  cleared; it is a sum over all runs, so no run can use another's. `AskedFor`: no
  checkpoint, run or report is past the review before somebody approved there,
  without which a reject could be the first to find a cleared thread.
- `ReportsAreBoundedByRuns`, from `RowsInv`. `ReportsOf`: a run that has not closed
  its file still holds the delivery or resume that pays for its report. `OnRecord`:
  no thread's trail has more reports than were made, so that a flush of the n-th
  report writes n rows at most (`RowsOf`, `OneMoreFlush`).
- `EventsAreNotStranded`, from `TendedInv`: a thread without deliveries is
  untouched, one with a single delivery and no failed resume is closed, at its review,
  or attended to by a run in progress or by the queue.
- `ShippedReportsAtMostOnce`, for `ApproverSaver = "own"` and `MaxRewinds = 0`: at
  most one report of an event in the audit table, and none of a CRITICAL one. It
  follows from the two theorems above and from `OwnSaver` (no request resumes
  anything): one delivery pays for one report, one report flushes one row, and a
  CRITICAL one would need an approval.

`RunbookStoreProofs`
- `StoreTypeCorrect`, inductive with `CallShape`: which operation may await which
  command, and that the script alone writes files' ids.
- `HandlesAreReal` and `InitIsIdempotent`, from one invariant: a caller at
  `open` has an index to open, and one that began with the index there is never
  on its way to create it.
- `AnsweredWritesAreKept`. `AnsweredWritesStay` needs `OwnIds` (a request in the
  middle of its upsert has an id no one else writes), `FilesGetNewer` (neither the disk
  nor the text the script holds is older than what is vouched for) and
  `LoadProgress` (a file the script has passed is in the index, or on its way).

`IngestionProofs`
- `SeverityKeepsOrder`, on functions; `NormalizeIsTotal` and `IngestionTypeCorrect`.
- `AnswersAreTrue`, inductive as it stands.
- `CompletedRunsCover`, from `CoverInv`: a run with a response has published, or
  still holds, every CVE of its day. The clock is what keeps a CVE from joining
  that day after the fetch.
- `DailyRunsCover`. Of the runs whose window ends after a given CVE the earliest to
  begin is taken (`SmallestNatural`). Either it begins with the first of all, or the
  run within a day before it has a window that ends no later than the CVE, and this
  one's starts no later than that one's ends: the cut to whole seconds keeps order
  (`CutsKeepOrder`) and is made at both ends.
- `CopiesAreAccounted`, from `CopiesInv`: each copy of a CVE has a run of its own
  that had it in its response and does not hold it any more (`Paid`); copies are
  compared with the cardinality of a finite set of runs.

`RemediationStepsProofs`, for answers of any length
- `NoLineIsLost` (`LinesAreKept`), from `SplitInv`: the finished steps and the one in
  the making hold the lines seen so far, each once and in order, cut at the lines
  the code takes for numbers (`WellCut`). A line that is skipped, starts a step or
  joins one is a lemma each (`LineSkipped`, `StepAdded`, `LineJoined`).
- `NineStepsAreIndividual`: if no item has a number of two digits, `IndividualSteps`
  holds. So the tenth item is exactly where `steps_doc` begins.

Only model-checked: the liveness properties (`EveryEventDelivered`,
`UndisturbedEventsSettle`, `EventsCloseOrWait`, `RunEnds`, `UncriticalRunReports`,
`ApprovalLeadsToReport`, `ReloadsSucceed`), since fairness and ENABLED are outside this
prover's reach. Every other property of the passing runs is a theorem. The
refinements proved are of the pool and of one thread; that the overlapping runs of
`SecureOps` each take steps of `Lifecycle` is by definition, and what follows from
their overlap is stated by its own properties.

## Not modelled

- Guardrails: the patterns themselves (the model has what they find), PII
  masking, which changes no decision, and the URL check, which the ingest route
  is given an outcome of and which always passes for the batch job's constant
  URL. `GuardrailPipeline` is used nowhere.
- Authentication: the coding of tokens and the limiter's counting, which belong
  to libraries; the middleware. `assert_graph_role` is called with ANALYST only
  and always passes.
- The health check, application wiring, configuration, the model factory,
  tracing and metrics: one request's or start-up's straight-line code, with
  no state over time.
- `append_audit_entry`, `NVDAdapter.fetch_recent` and the smoke test of
  `producer.py` have no caller.

Hazards without a property, with the reasons `PROJECT.json` gives: entries left
in `_retry_counts` (a leak, not a wrong step), the rewritten query of an earlier
run used by the first retrieval of a redelivery (queries are abstracted), responses of
more than one page (nothing in the repository promises more), the SIEM payload whose
`OverflowError` becomes a 500 (that nothing is queued then holds by the order of two
lines), a runbook deleted while its own create request is upserting, whose vector
comes back (`RunbookStore` has the interleaving, `AnsweredWritesStay` ends with the
deletion, and nothing says which should win), and the probes of the health check
without a timeout. Two hazards are covered in part: that a run returns only with its last
checkpoint written is assumed in `SecureOps` (AgentGraph has the delay), and that a
tie of timestamps may show a reported event as "processing" is in `Statuses`, while
`CompletedIsEarned` speaks of "completed" only.
