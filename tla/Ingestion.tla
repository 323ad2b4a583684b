----------------------------- MODULE Ingestion -----------------------------
(***************************************************************************)
(* How events reach the event stream: POST /events/ingest publishes one    *)
(* normalised event per request (src/src/api/routes/events.py), and each   *)
(* run of the batch job (src/src/workers/batch_ingest.py) fetches the      *)
(* CVEs NVD published in the day before it, parses all of them and         *)
(* publishes them one by one.                                              *)
(*                                                                         *)
(* An action is a stretch of code between two awaits that can suspend, and *)
(* the HTTP or Redis command it awaits.  A command may fail before or      *)
(* after the server has executed it.                                       *)
(*                                                                         *)
(* The clock counts half seconds: an even tick is the exact instant of a   *)
(* second, an odd one any instant within it.                               *)
(***************************************************************************)
EXTENDS Normalization, Access, FiniteSets

CONSTANTS
    Cves,          \* the CVEs of the feed
    Malformed,     \* those whose record NVDAdapter.parse raises on
    Runs,          \* bound: the batch job's runs; a run is a process of its own
    Requests,      \* bound: the ingest requests
    Payloads,      \* the payloads a request may carry
    Credentials,   \* the tokens it may bring
    Day,           \* timedelta(days=1) in half seconds
    MaxTime,       \* bound: the clock
    MaxFaults      \* bound: commands that raise and processes that end

ASSUME IngestionAssumption ==
    /\ Malformed \subseteq Cves
    /\ Cves \intersect Requests = {}
    /\ IsFiniteSet(Runs)
    /\ Payloads \subseteq AllPayloads
    /\ Credentials \subseteq Tokens
    /\ Day \in Nat \ {0}
    /\ Day % 2 = 0
    /\ MaxTime \in Nat
    /\ Day <= MaxTime
    /\ MaxFaults \in Nat

Never   == -1
Times   == Day..MaxTime
NoEvent == "none"

VARIABLES
    now,           \* the clock
    feed,          \* feed[c]: when NVD published c, or Never
    stream,        \* stream[e]: copies of event e on the event stream
    \* the batch job
    run,           \* what each run awaits or how it has ended
    began,         \* when it computed its window
    batch,         \* the parsed events it has yet to publish
    \* the API
    answer,        \* the status of each request's response
    event,         \* the severity of the event a request is publishing
    \* the bound's counter
    faults

worldVars   == <<now, feed>>
jobVars     == <<run, began, batch>>
requestVars == <<answer, event>>
vars        == <<worldVars, stream, jobVars, requestVars, faults>>

TypeOK ==
    /\ now \in Times
    /\ feed \in [Cves -> Times \union {Never}]
    /\ stream \in [Cves \union Requests -> Nat]
    /\ run \in [Runs -> {"new", "fetch", "publish", "done", "failed"}]
    /\ began \in [Runs -> Times \union {Never}]
    /\ batch \in [Runs -> SUBSET Cves]
    /\ answer \in [Requests -> {"new", "publish", "202", "400", "401", "422", "429", "500"}]
    /\ event \in [Requests -> Severities \union {NoEvent}]
    /\ faults \in 0..MaxFaults

Init ==
    /\ now = Day
    /\ feed = [c \in Cves |-> Never]
    /\ stream = [e \in Cves \union Requests |-> 0]
    /\ run = [r \in Runs |-> "new"]
    /\ began = [r \in Runs |-> Never]
    /\ batch = [r \in Runs |-> {}]
    /\ answer = [q \in Requests |-> "new"]
    /\ event = [q \in Requests |-> NoEvent]
    /\ faults = 0

-----------------------------------------------------------------------------
(* Outside the program.                                                    *)

Tick ==
    /\ now < MaxTime
    /\ now' = now + 1
    /\ UNCHANGED <<feed, stream, jobVars, requestVars, faults>>

\* NVD publishes a CVE; from then on its API returns it.
NvdPublishes(c) ==
    /\ feed[c] = Never
    /\ feed' = [feed EXCEPT ![c] = now]
    /\ UNCHANGED <<now, stream, jobVars, requestVars, faults>>

\* A command raises, or a process ends.
Fault ==
    /\ faults < MaxFaults
    /\ faults' = faults + 1

\* XADD
Publish(e) == stream' = [stream EXCEPT ![e] = @ + 1]

-----------------------------------------------------------------------------
(* The batch job                                                           *)

\* strftime("%Y-%m-%dT%H:%M:%S.000")
Trunc(t) == t - (t % 2)

\* Mutation: the start is not cut off and the end is left out.
WindowExact(t) == (t - Day)..(Trunc(t) - 1)

\* pubStartDate..pubEndDate of a run that begins at t; NVD includes both.
Window(t) == Trunc(t - Day)..Trunc(t)

\* The CVEs NVD has in the window of run r.
Response(r) == {c \in Cves : feed[c] \in Window(began[r])}

BeginRun(r) ==
    /\ run[r] = "new"
    /\ run' = [run EXCEPT ![r] = "fetch"]
    /\ began' = [began EXCEPT ![r] = now]
    /\ UNCHANGED <<worldVars, stream, batch, requestVars, faults>>

\* Mutation: records are parsed as they are published.
FetchUnparsed(r) ==
    /\ run[r] = "fetch"
    /\ run' = [run EXCEPT ![r] = "publish"]
    /\ batch' = [batch EXCEPT ![r] = Response(r) \ Malformed]
    /\ UNCHANGED <<worldVars, stream, began, requestVars, faults>>

\* One GET, unpaged, and the parse of every record: the first that raises
\* ends the run with nothing published.
Fetch(r) ==
    /\ run[r] = "fetch"
    /\ IF Response(r) \intersect Malformed # {}
       THEN run' = [run EXCEPT ![r] = "failed"] /\ UNCHANGED batch
       ELSE /\ run' = [run EXCEPT ![r] = "publish"]
            /\ batch' = [batch EXCEPT ![r] = Response(r)]
    /\ UNCHANGED <<worldVars, stream, began, requestVars, faults>>

\* The order is the response's.
PublishNext(r) ==
    /\ run[r] = "publish"
    /\ \E c \in batch[r] :
          /\ Publish(c)
          /\ batch' = [batch EXCEPT ![r] = @ \ {c}]
    /\ UNCHANGED <<worldVars, run, began, requestVars, faults>>

\* "nvd_batch_ingest_complete"
FinishRun(r) ==
    /\ run[r] = "publish"
    /\ batch[r] = {}
    /\ run' = [run EXCEPT ![r] = "done"]
    /\ UNCHANGED <<worldVars, stream, began, batch, requestVars, faults>>

\* Mutation: a failing publish is skipped.
RunFailsOnlyFetching(r) ==
    /\ Fault
    /\ \/ /\ run[r] = "fetch"
          /\ run' = [run EXCEPT ![r] = "failed"]
          /\ UNCHANGED batch
       \/ /\ run[r] = "publish"
          /\ \E c \in batch[r] : batch' = [batch EXCEPT ![r] = @ \ {c}]
          /\ UNCHANGED run
    /\ UNCHANGED <<worldVars, stream, began, requestVars>>

\* The GET, a publish or the process ends the run; nothing remembers how far
\* it got.
RunFails(r) ==
    /\ run[r] \in {"fetch", "publish"}
    /\ Fault
    /\ run' = [run EXCEPT ![r] = "failed"]
    /\ batch' = [batch EXCEPT ![r] = {}]
    /\ \/ UNCHANGED stream
       \/ \E c \in batch[r] : Publish(c)
    /\ UNCHANGED <<worldVars, began, requestVars>>

-----------------------------------------------------------------------------
(* POST /events/ingest                                                     *)

Answer(q, status) ==
    /\ answer' = [answer EXCEPT ![q] = status]
    /\ event' = [event EXCEPT ![q] = NoEvent]

\* Mutation: what the adapter raises is published.
IngestUnchecked(q) ==
    /\ answer[q] = "new"
    /\ \E p \in Payloads :
          /\ answer' = [answer EXCEPT ![q] = "publish"]
          /\ event' = [event EXCEPT ![q] = normalize(p)]
    /\ UNCHANGED <<worldVars, stream, jobVars, faults>>

\* Every URL of the payload passes SSRFGuard before anything is normalised;
\* only ValueError and KeyError become a 422.
Accept(q, p) ==
    IF p.url = "refused" THEN Answer(q, "400")
    ELSE IF normalize(p) = "ValueError" THEN Answer(q, "422")
    ELSE IF normalize(p) = "OtherError" THEN Answer(q, "500")
    ELSE /\ answer' = [answer EXCEPT ![q] = "publish"]
         /\ event' = [event EXCEPT ![q] = normalize(p)]

\* The dependency on the caller's role and the limiter come before the route.
Ingest(q) ==
    /\ answer[q] = "new"
    /\ \E token \in Credentials :
          IF require_role(token, "ANALYST") # "granted"
          THEN Answer(q, require_role(token, "ANALYST"))
          ELSE \/ Answer(q, "429")
               \/ \E p \in Payloads : Accept(q, p)
    /\ UNCHANGED <<worldVars, stream, jobVars, faults>>

PublishRequest(q) ==
    /\ answer[q] = "publish"
    /\ Publish(q)
    /\ Answer(q, "202")
    /\ UNCHANGED <<worldVars, jobVars, faults>>

\* Mutation: a failing publish does not fail the request.
PublishRequestFailsUnseen(q) ==
    /\ answer[q] = "publish"
    /\ Fault
    /\ Answer(q, "202")
    /\ UNCHANGED <<worldVars, stream, jobVars>>

PublishRequestFails(q) ==
    /\ answer[q] = "publish"
    /\ Fault
    /\ UNCHANGED stream \/ Publish(q)
    /\ Answer(q, "500")
    /\ UNCHANGED <<worldVars, jobVars>>

-----------------------------------------------------------------------------
Next ==
    \/ Tick
    \/ \E c \in Cves : NvdPublishes(c)
    \/ \E r \in Runs : BeginRun(r) \/ Fetch(r) \/ PublishNext(r) \/ FinishRun(r) \/ RunFails(r)
    \/ \E q \in Requests : Ingest(q) \/ PublishRequest(q) \/ PublishRequestFails(q)

Spec == Init /\ [][Next]_vars

-----------------------------------------------------------------------------
(* Properties                                                              *)

\* A completed run leaves nothing out of the day before it began
\* (batch_ingest.py:51-59, 86-90), whatever runs before it failed or ran
\* beside it.  The last part of a second is outside: %S.000 cuts it off, and
\* the next day's window starts with it.
CompletedRunCoversItsDay ==
    \A r \in Runs, c \in Cves :
        /\ run[r] = "done"
        /\ feed[c] # Never
        /\ began[r] - Day <= feed[c]
        /\ feed[c] < Trunc(began[r])
        => stream[c] > 0

\* A run but the first begins at most a day after another of them.
Daily(runs, first) ==
    \A r \in runs :
        \/ began[r] = began[first]
        \/ \E s \in runs : began[s] < began[r] /\ began[r] - Day <= began[s]

\* Nothing but its own clock tells a run where the last one stopped
\* (batch_ingest.py:51-55): whatever else failed, completed runs that begin at
\* most a day apart leave no gap, from the day before the first to the second
\* the last begins in.
DailyRunsLeaveNoGap ==
    \A runs \in SUBSET {r \in Runs : run[r] = "done"} : \A first, last \in runs :
        Daily(runs, first) =>
            \A c \in Cves :
                /\ feed[c] # Never
                /\ began[first] - Day <= feed[c]
                /\ feed[c] < Trunc(began[last])
                => stream[c] > 0

\* The runs that may have published CVE c: their windows hold it, and no
\* malformed record that was there when they began.
Accountable(c) ==
    {r \in Runs :
        /\ began[r] # Never
        /\ feed[c] \in Window(began[r])
        /\ \A m \in Malformed : feed[m] \in Window(began[r]) => feed[m] = began[r]}

\* Each run puts a CVE on the stream at most once, and not at all if a record
\* of its response does not parse (batch_ingest.py:77-82): overlapping and
\* repeated runs duplicate an event, a single run never does.
CopiesAccounted ==
    \A c \in Cves : stream[c] <= Cardinality(Accountable(c))

\* "Returns HTTP 202 Accepted" only for an event that is queued, and queued
\* once; a refused payload leaves nothing behind (events.py:60-88).  After a
\* 500 the event may be queued or not.
AnswersMatchStream ==
    \A q \in Requests :
        /\ answer[q] = "202" => stream[q] = 1
        /\ answer[q] \in {"new", "publish", "400", "401", "422", "429"} => stream[q] = 0
        /\ stream[q] <= 1

=============================================================================
