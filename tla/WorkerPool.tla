----------------------------- MODULE WorkerPool -----------------------------
(***************************************************************************)
(* The Redis Streams consumer pool of src/src/workers/consumer.py: N       *)
(* asyncio workers of one process read the stream REDIS_STREAM_NAME        *)
(* through the consumer group "secureops-workers", run the agent graph on  *)
(* each message and acknowledge it; the MAX_RETRIES-th counted failure of  *)
(* a message moves it to the dead-letter stream.                           *)
(*                                                                         *)
(* One action is one stretch of a worker's coroutine between two awaits    *)
(* together with the Redis command or graph call it awaits, so the workers *)
(* interleave exactly where the event loop can switch.  A Redis command    *)
(* may fail before or after the server has executed it.                    *)
(*                                                                         *)
(* Messages are the stream ids 1..MaxMsgs in XADD order; payloads are left *)
(* out.  The graph run is one step that returns or raises (AgentGraph      *)
(* models what happens inside it).                                         *)
(***************************************************************************)
EXTENDS Naturals, FiniteSets

CONSTANTS
    Workers,       \* the workers of the pool (settings.WORKER_COUNT of them)
    MAX_RETRIES,   \* consumer.MAX_RETRIES
    MaxMsgs,       \* bound: messages published on the event stream
    MaxRewinds,    \* bound: times the group's cursor is moved back from outside
    MaxFaults,     \* bound: Redis commands that raise in a worker
    MaxCrashes     \* bound: abrupt ends of the worker process

ASSUME PoolAssumption ==
    /\ IsFiniteSet(Workers)
    /\ MAX_RETRIES \in Nat \ {0}
    /\ MaxMsgs \in Nat
    /\ MaxRewinds \in Nat
    /\ MaxFaults \in Nat
    /\ MaxCrashes \in Nat

Msgs == 1..MaxMsgs
NoMsg == 0

VARIABLES
    \* Redis
    published,     \* XLEN of the event stream: entries 1..published; XACK deletes none
    group,         \* whether the consumer group "exists" or is "absent"
    cursor,        \* last-delivered-id of the group
    pending,       \* the group's Pending Entries List
    dlq,           \* dlq[m]: copies of m on the dead-letter stream
    \* the worker process
    retry_counts,  \* consumer._retry_counts (0: no entry)
    pc,            \* where each worker's coroutine is suspended
    msg,           \* the message each worker has in hand
    \* observers: no action reads them
    returned,      \* messages for which graph.ainvoke has returned normally
    deliveries,    \* deliveries[m]: times XREADGROUP has handed out m
    \* the bounds' counters
    rewinds, faults, crashes

redisVars    == <<published, group, cursor, pending, dlq>>
processVars  == <<retry_counts, pc, msg>>
observerVars == <<returned, deliveries>>
boundVars    == <<rewinds, faults, crashes>>
vars         == <<redisVars, processVars, observerVars, boundVars>>

Suspended == {"down", "ensure", "consume", "graph", "ack",
              "dlqPublish", "dlqAck", "dead"}

\* The points at which a worker has a message in hand.
Holding == {"graph", "ack", "dlqPublish", "dlqAck"}

RedisOK ==
    /\ published \in 0..MaxMsgs
    /\ group \in {"absent", "exists"}
    /\ cursor \in 0..published
    /\ pending \in SUBSET (1..published)
    /\ dlq \in [Msgs -> Nat]

ProcessOK ==
    /\ retry_counts \in [Msgs -> Nat]
    /\ pc \in [Workers -> Suspended]
    /\ msg \in [Workers -> Msgs \union {NoMsg}]

ObserverOK ==
    /\ returned \in SUBSET (1..published)
    /\ deliveries \in [Msgs -> Nat]
    /\ rewinds \in 0..MaxRewinds
    /\ faults \in 0..MaxFaults
    /\ crashes \in 0..MaxCrashes

TypeOK == RedisOK /\ ProcessOK /\ ObserverOK

Init ==
    /\ published = 0
    /\ group = "absent"
    /\ cursor = 0
    /\ pending = {}
    /\ dlq = [m \in Msgs |-> 0]
    /\ retry_counts = [m \in Msgs |-> 0]
    /\ pc = [w \in Workers |-> "down"]
    /\ msg = [w \in Workers |-> NoMsg]
    /\ returned = {}
    /\ deliveries = [m \in Msgs |-> 0]
    /\ rewinds = 0
    /\ faults = 0
    /\ crashes = 0

-----------------------------------------------------------------------------
(* The producer and the environment.                                       *)

\* producer.publish, called by POST /events/ingest and the batch job: XADD.
Publish ==
    /\ published < MaxMsgs
    /\ published' = published + 1
    /\ UNCHANGED <<group, cursor, pending, dlq, processVars, observerVars, boundVars>>

\* Outside the program: XGROUP SETID moves the group's last-delivered-id
\* back, the only way an entry already delivered is handed out again by a
\* reader that asks for ">".
Rewind ==
    /\ rewinds < MaxRewinds
    /\ group = "exists"
    /\ \E id \in 0..published : id < cursor /\ cursor' = id
    /\ rewinds' = rewinds + 1
    /\ UNCHANGED <<published, group, pending, dlq, processVars, observerVars,
                   faults, crashes>>

-----------------------------------------------------------------------------
(* Control flow of a worker's coroutine.                                   *)

GoTo(w, place) ==
    /\ pc' = [pc EXCEPT ![w] = place]
    /\ UNCHANGED msg

\* Back to the top of run_worker's loop.
NextRead(w) ==
    /\ pc' = [pc EXCEPT ![w] = "consume"]
    /\ msg' = [msg EXCEPT ![w] = NoMsg]

\* An exception _process_message does not handle leaves run_worker.
Die(w) ==
    /\ pc' = [pc EXCEPT ![w] = "dead"]
    /\ msg' = [msg EXCEPT ![w] = NoMsg]

\* A Redis command raises in the worker.
Fault ==
    /\ faults < MaxFaults
    /\ faults' = faults + 1
    /\ UNCHANGED <<rewinds, crashes>>

\* backend.ack: XACK takes the entry off the PEL, not off the stream.
Xack(m) == pending' = pending \ {m}

\* Mutation: the limit is tested against the next failure.
RecordFailureOneEarly(w) ==
    LET m == msg[w]
        retries == retry_counts[m] + 1
    IN  /\ retry_counts' = [retry_counts EXCEPT ![m] = retries]
        /\ IF retries + 1 >= MAX_RETRIES THEN GoTo(w, "dlqPublish") ELSE NextRead(w)

\* Mutation: the count is popped before the copy is published.
RecordFailurePopsFirst(w) ==
    LET m == msg[w]
        retries == retry_counts[m] + 1
    IN  IF retries >= MAX_RETRIES
        THEN GoTo(w, "dlqPublish") /\ retry_counts' = [retry_counts EXCEPT ![m] = 0]
        ELSE NextRead(w) /\ retry_counts' = [retry_counts EXCEPT ![m] = retries]

\* The except block of _process_message up to its first await.
RecordFailure(w) ==
    LET m == msg[w]
        retries == retry_counts[m] + 1
    IN  /\ retry_counts' = [retry_counts EXCEPT ![m] = retries]
        /\ IF retries >= MAX_RETRIES THEN GoTo(w, "dlqPublish") ELSE NextRead(w)

\* _retry_counts.pop(msg.message_id, None)
Forget(m) == retry_counts' = [retry_counts EXCEPT ![m] = 0]

-----------------------------------------------------------------------------
(* run_worker                                                              *)

\* Mutation: the group starts at "$", the end of the stream.
CreateGroupAtEnd ==
    /\ group' = "exists"
    /\ cursor' = IF group = "exists" THEN cursor ELSE published
    /\ UNCHANGED <<published, pending, dlq>>

\* Mutation: a group that exists is created anew.
CreateGroupAnew ==
    /\ group' = "exists"
    /\ cursor' = 0
    /\ UNCHANGED <<published, pending, dlq>>

\* XGROUP CREATE ... id=0 MKSTREAM; BUSYGROUP is ignored.
CreateGroup ==
    /\ group' = "exists"
    /\ cursor' = IF group = "exists" THEN cursor ELSE 0
    /\ UNCHANGED <<published, pending, dlq>>

EnsureGroup(w) ==
    /\ pc[w] = "ensure"
    /\ CreateGroup
    /\ GoTo(w, "consume")
    /\ UNCHANGED <<retry_counts, observerVars, boundVars>>

EnsureGroupFails(w) ==
    /\ pc[w] = "ensure"
    /\ Fault
    /\ CreateGroup \/ UNCHANGED redisVars
    /\ Die(w)
    /\ UNCHANGED <<retry_counts, observerVars>>

\* Mutation: the read goes one past the end of the stream.
DeliverPastEnd ==
    /\ cursor <= published
    /\ cursor < MaxMsgs
    /\ cursor' = cursor + 1
    /\ pending' = pending \union {cursor + 1}
    /\ deliveries' = [deliveries EXCEPT ![cursor + 1] = @ + 1]
    /\ UNCHANGED <<published, group, dlq, returned>>

\* The server's side of XREADGROUP ... > COUNT 1: the next entry is entered
\* in the PEL (an entry already there only changes its owner).
Deliver ==
    /\ cursor < published
    /\ cursor' = cursor + 1
    /\ pending' = pending \union {cursor + 1}
    /\ deliveries' = [deliveries EXCEPT ![cursor + 1] = @ + 1]
    /\ UNCHANGED <<published, group, dlq, returned>>

Consume(w) ==
    /\ pc[w] = "consume"
    /\ Deliver
    /\ pc' = [pc EXCEPT ![w] = "graph"]
    /\ msg' = [msg EXCEPT ![w] = cursor + 1]
    /\ UNCHANGED <<retry_counts, boundVars>>

\* XREADGROUP raises, or the entry's JSON does: the worker ends, and an
\* entry the server had handed out stays in the PEL.
ConsumeFails(w) ==
    /\ pc[w] = "consume"
    /\ Fault
    /\ Die(w)
    /\ Deliver \/ UNCHANGED <<redisVars, observerVars>>
    /\ UNCHANGED retry_counts

-----------------------------------------------------------------------------
(* _process_message                                                        *)

\* graph.ainvoke returns: at END, or suspended at an interrupt.
GraphReturns(w) ==
    /\ pc[w] = "graph"
    /\ returned' = returned \union {msg[w]}
    /\ GoTo(w, "ack")
    /\ UNCHANGED <<redisVars, retry_counts, deliveries, boundVars>>

\* Mutation: the ack stands in a finally block.
GraphRaisesAckedAnyway(w) ==
    /\ pc[w] = "graph"
    /\ GoTo(w, "ack")
    /\ UNCHANGED <<redisVars, retry_counts, observerVars, boundVars>>

GraphRaises(w) ==
    /\ pc[w] = "graph"
    /\ RecordFailure(w)
    /\ UNCHANGED <<redisVars, observerVars, boundVars>>

Ack(w) ==
    /\ pc[w] = "ack"
    /\ Xack(msg[w])
    /\ Forget(msg[w])
    /\ NextRead(w)
    /\ UNCHANGED <<published, group, cursor, dlq, observerVars, boundVars>>

\* The ack is inside the try: when it raises the run counts as failed.
AckFails(w) ==
    /\ pc[w] = "ack"
    /\ Fault
    /\ Xack(msg[w]) \/ UNCHANGED pending
    /\ RecordFailure(w)
    /\ UNCHANGED <<published, group, cursor, dlq, observerVars>>

AddToDlq(m) == dlq' = [dlq EXCEPT ![m] = @ + 1]

PublishDlq(w) ==
    /\ pc[w] = "dlqPublish"
    /\ AddToDlq(msg[w])
    /\ GoTo(w, "dlqAck")
    /\ UNCHANGED <<published, group, cursor, pending, retry_counts, observerVars,
                   boundVars>>

\* Mutation: a failed copy is ignored and the message acknowledged.
PublishDlqFailsIgnored(w) ==
    /\ pc[w] = "dlqPublish"
    /\ Fault
    /\ AddToDlq(msg[w]) \/ UNCHANGED dlq
    /\ GoTo(w, "dlqAck")
    /\ UNCHANGED <<published, group, cursor, pending, retry_counts, observerVars>>

\* Inside the except block nothing catches: the worker ends.
PublishDlqFails(w) ==
    /\ pc[w] = "dlqPublish"
    /\ Fault
    /\ AddToDlq(msg[w]) \/ UNCHANGED dlq
    /\ Die(w)
    /\ UNCHANGED <<published, group, cursor, pending, retry_counts, observerVars>>

AckDlq(w) ==
    /\ pc[w] = "dlqAck"
    /\ Xack(msg[w])
    /\ Forget(msg[w])
    /\ NextRead(w)
    /\ UNCHANGED <<published, group, cursor, dlq, observerVars, boundVars>>

AckDlqFails(w) ==
    /\ pc[w] = "dlqAck"
    /\ Fault
    /\ Xack(msg[w]) \/ UNCHANGED pending
    /\ Die(w)
    /\ UNCHANGED <<published, group, cursor, dlq, retry_counts, observerVars>>

-----------------------------------------------------------------------------
(* run_worker_pool and the process it runs in.                             *)

PoolDown == \A w \in Workers : pc[w] = "down"

StartPool ==
    /\ PoolDown
    /\ pc' = [w \in Workers |-> "ensure"]
    /\ UNCHANGED <<redisVars, retry_counts, msg, observerVars, boundVars>>

\* The coroutines are gone, and the module's dictionary with the process.
EndProcess ==
    /\ pc' = [w \in Workers |-> "down"]
    /\ msg' = [w \in Workers |-> NoMsg]
    /\ retry_counts' = [m \in Msgs |-> 0]

\* asyncio.gather raises the first worker's exception; asyncio.run cancels
\* the other workers where they are (CancelledError is no Exception, so no
\* failure is counted) and the process ends.  Until then they run on.
PoolExits ==
    /\ \E w \in Workers : pc[w] = "dead"
    /\ EndProcess
    /\ UNCHANGED <<redisVars, observerVars, boundVars>>

Crash ==
    /\ ~PoolDown
    /\ crashes < MaxCrashes
    /\ crashes' = crashes + 1
    /\ EndProcess
    /\ UNCHANGED <<redisVars, observerVars, rewinds, faults>>

-----------------------------------------------------------------------------
WorkerStep(w) ==
    \/ EnsureGroup(w) \/ EnsureGroupFails(w)
    \/ Consume(w)     \/ ConsumeFails(w)
    \/ GraphReturns(w) \/ GraphRaises(w)
    \/ Ack(w)         \/ AckFails(w)
    \/ PublishDlq(w)  \/ PublishDlqFails(w)
    \/ AckDlq(w)      \/ AckDlqFails(w)

Next ==
    \/ Publish
    \/ Rewind
    \/ StartPool
    \/ PoolExits
    \/ Crash
    \/ \E w \in Workers : WorkerStep(w)

Spec == Init /\ [][Next]_vars

\* What a coroutine does when no Redis command raises in it.
WorkerRuns(w) ==
    \/ EnsureGroup(w) \/ Consume(w)
    \/ GraphReturns(w) \/ GraphRaises(w) \/ Ack(w)
    \/ PublishDlq(w) \/ AckDlq(w)

\* The event loop runs every ready coroutine, an awaited graph run or Redis
\* command comes back, a process whose gather has raised ends, and a pool
\* that is down is started again.  Nothing is assumed of producers, nor that
\* any fault, crash or rewind ever happens.
FairSpec ==
    /\ Spec
    /\ WF_vars(StartPool)
    /\ WF_vars(PoolExits)
    /\ \A w \in Workers : WF_vars(WorkerRuns(w))

-----------------------------------------------------------------------------
(* Properties                                                              *)

\* No event is lost silently: every published event is still ahead of the
\* group's cursor, pending in the group, run by the graph, or copied to the
\* dead-letter stream.  It rests on the order publish-then-ack of
\* consumer.py:79-80 and on ack following ainvoke (62-63), whatever crashes,
\* failed commands and cursor rewinds come between.
NoSilentLoss ==
    \A m \in 1..published :
        m > cursor \/ m \in pending \/ m \in returned \/ dlq[m] > 0

\* The dead-letter budget: a message gets its first dead-letter copy after
\* no fewer than MAX_RETRIES deliveries and each further copy costs at least
\* one more, although the counter is shared by workers that hold the same
\* message at once, is tested before an await and reset after another
\* (consumer.py:68-81).
DeadLetterBudget ==
    \A m \in Msgs : dlq[m] > 0 => dlq[m] + MAX_RETRIES <= deliveries[m] + 1

\* A failure count is given up only with a settled outcome, the graph run or
\* the dead-letter copy, or with the whole process: no interleaving of
\* workers drops the count of a message that has neither.
CountsKeptUntilOutcome ==
    [][\A m \in Msgs :
          retry_counts'[m] < retry_counts[m]
              => m \in returned \/ dlq[m] > 0 \/ PoolDown']_vars

\* redis_backend.py:28, "each event is delivered to exactly one worker": no
\* event is in two workers' hands, nor handed out again after a failure, a
\* crash or a restart of the pool.  It holds as long as nobody rewinds the
\* group's cursor.
DeliveredToOneWorker ==
    /\ \A m \in Msgs : deliveries[m] <= 1
    /\ \A w1, w2 \in Workers :
          w1 # w2 /\ msg[w1] # NoMsg => msg[w1] # msg[w2]

\* A pending entry that is in nobody's hands remains so: XREADGROUP is asked
\* for ">" only (redis_backend.py:68-70) and nothing claims entries, so what a
\* failed run (consumer.py:67-69), a crash or the pool's exit leaves in the PEL
\* is not run, retried, acknowledged or dead-lettered again.  It holds as long
\* as nobody rewinds the group's cursor.
AbandonedStayPending ==
    [][\A m \in pending : (\A w \in Workers : msg[w] # m) =>
          m \in pending' /\ \A w \in Workers : msg'[w] # m]_vars

\* Every published event reaches a worker, those published before the group
\* existed included (XGROUP CREATE starts at id 0, redis_backend.py:53),
\* although workers and the pool may end and start again in between.
EveryEventDelivered ==
    \A m \in Msgs : (m <= published) ~> (deliveries[m] > 0)

\* An event is run and acknowledged, unless its own graph run has failed, a
\* Redis command has failed or the process has crashed: what other events do
\* never keeps it from completing.
UndisturbedEventsSettle ==
    \A m \in Msgs :
        (m <= published) ~> \/ m \in returned /\ m \notin pending
                            \/ retry_counts[m] > 0
                            \/ faults + crashes > 0

\* docs/M10-workers/architecture.md:51-74 (the failed message comes back
\* "same msg from PEL" until it is acked or dead-lettered): an entry of the
\* PEL does not stay there for ever.
PendingEventuallySettled ==
    \A m \in Msgs : (m \in pending) ~> (m \notin pending)

=============================================================================
