-------------------------- MODULE WorkerPoolProofs --------------------------
(***************************************************************************)
(* Theorems about WorkerPool for any number of workers, messages, retries, *)
(* rewinds, faults and crashes.                                            *)
(***************************************************************************)
EXTENDS WorkerPoolLedger, FiniteSetTheorems, TLAPS

USE DEF Msgs, NoMsg, Holding, Suspended

-----------------------------------------------------------------------------
(* Type correctness                                                        *)

\* A worker has a published message in hand where the code has a msg in
\* scope, and none elsewhere.  Typing retry_counts[msg[w]] needs it.
InHand ==
    \A w \in Workers :
        /\ pc[w] \in Holding => msg[w] \in 1..published
        /\ pc[w] \notin Holding => msg[w] = NoMsg

Typed == TypeOK /\ InHand

\* The except block counts the failure, then goes on to the dead-letter
\* stream or back to the loop.
LEMMA FailureSplit ==
    ASSUME NEW w \in Workers, RecordFailure(w)
    PROVE  /\ retry_counts' = [retry_counts EXCEPT ![msg[w]] = retry_counts[msg[w]] + 1]
           /\ \/ /\ pc' = [pc EXCEPT ![w] = "dlqPublish"]
                 /\ msg' = msg
                 /\ retry_counts[msg[w]] + 1 >= MAX_RETRIES
              \/ /\ pc' = [pc EXCEPT ![w] = "consume"]
                 /\ msg' = [msg EXCEPT ![w] = NoMsg]
BY DEF RecordFailure, GoTo, NextRead

\* A step of any kind keeps the types and the hands.
LEMMA TypeStep == PoolAssumption /\ Typed /\ [Next]_vars => Typed'
<1> SUFFICES ASSUME PoolAssumption, Typed, [Next]_vars
             PROVE  Typed'
  OBVIOUS
<1> USE DEF PoolAssumption, TypeOK, RedisOK, ProcessOK, ObserverOK, InHand, Typed
<1>1. CASE Publish
  BY <1>1 DEF Publish, processVars, observerVars, boundVars
<1>2. CASE Rewind
  BY <1>2 DEF Rewind, processVars, observerVars
<1>3. CASE StartPool
  BY <1>3 DEF StartPool, PoolDown, redisVars, observerVars, boundVars
<1>4. CASE PoolExits
  BY <1>4 DEF PoolExits, EndProcess, redisVars, observerVars, boundVars
<1>5. CASE Crash
  BY <1>5 DEF Crash, EndProcess, redisVars, observerVars
<1>6. ASSUME NEW w \in Workers, WorkerStep(w)
      PROVE  Typed'
  <2>a. pc[w] \in Holding =>
            /\ msg[w] \in 1..published /\ msg[w] \in Msgs
            /\ retry_counts[msg[w]] + 1 \in Nat /\ dlq[msg[w]] + 1 \in Nat
    OBVIOUS
  <2>b. cursor < published =>
            /\ cursor + 1 \in 1..published /\ cursor + 1 \in Msgs
            /\ deliveries[cursor + 1] + 1 \in Nat
    OBVIOUS
  <2>c. Fault => /\ faults' \in 0..MaxFaults
                 /\ rewinds' \in 0..MaxRewinds /\ crashes' \in 0..MaxCrashes
    BY DEF Fault
  <2>d. Deliver => RedisOK'
    BY <2>b DEF Deliver
  <2>e. UNCHANGED redisVars => RedisOK'
    BY DEF redisVars
  <2>f. CreateGroup => RedisOK'
    BY <2>b DEF CreateGroup
  <2>1. CASE EnsureGroup(w)
    <3>1. RedisOK'
      BY <2>f, <2>1 DEF EnsureGroup
    <3>2. ProcessOK'
      BY <2>a, <2>1 DEF EnsureGroup, CreateGroup, GoTo, observerVars, boundVars
    <3>3. ObserverOK'
      BY <2>a, <2>1 DEF EnsureGroup, CreateGroup, GoTo, observerVars, boundVars
    <3>4. InHand'
      BY <2>a, <2>1 DEF EnsureGroup, CreateGroup, GoTo, observerVars, boundVars
    <3>5. QED
      BY <3>1, <3>2, <3>3, <3>4
  <2>2. CASE EnsureGroupFails(w)
    <3>1. RedisOK'
      BY <2>e, <2>f, <2>2 DEF EnsureGroupFails
    <3>2. ProcessOK'
      BY <2>a, <2>2 DEF EnsureGroupFails, CreateGroup, Fault, Die, redisVars, observerVars
    <3>3. ObserverOK'
      BY <2>a, <2>c, <2>2 DEF EnsureGroupFails, CreateGroup, Die, redisVars, observerVars
    <3>4. InHand'
      BY <2>a, <2>2 DEF EnsureGroupFails, CreateGroup, Fault, Die, redisVars, observerVars
    <3>5. QED
      BY <3>1, <3>2, <3>3, <3>4
  <2>3. CASE Consume(w)
    <3>1. RedisOK'
      BY <2>d, <2>3 DEF Consume
    <3>2. ProcessOK'
      BY <2>a, <2>b, <2>3 DEF Consume, Deliver, boundVars
    <3>3. ObserverOK'
      BY <2>a, <2>b, <2>3 DEF Consume, Deliver, boundVars
    <3>4. InHand'
      BY <2>a, <2>b, <2>3 DEF Consume, Deliver, boundVars
    <3>5. QED
      BY <3>1, <3>2, <3>3, <3>4
  <2>4. CASE ConsumeFails(w)
    <3>1. RedisOK'
      BY <2>d, <2>e, <2>4 DEF ConsumeFails
    <3>2. ProcessOK'
      BY <2>a, <2>b, <2>4 DEF ConsumeFails, Deliver, Fault, Die, redisVars, observerVars
    <3>3. ObserverOK'
      BY <2>a, <2>c, <2>b, <2>4 DEF ConsumeFails, Deliver, Die, redisVars, observerVars
    <3>4. InHand'
      BY <2>a, <2>b, <2>4 DEF ConsumeFails, Deliver, Fault, Die, redisVars, observerVars
    <3>5. QED
      BY <3>1, <3>2, <3>3, <3>4
  <2>5. CASE GraphReturns(w)
    <3>1. RedisOK'
      BY <2>a, <2>5 DEF GraphReturns, GoTo, redisVars, boundVars
    <3>2. ProcessOK'
      BY <2>a, <2>5 DEF GraphReturns, GoTo, redisVars, boundVars
    <3>3. ObserverOK'
      BY <2>a, <2>5 DEF GraphReturns, GoTo, redisVars, boundVars
    <3>4. InHand'
      BY <2>a, <2>5 DEF GraphReturns, GoTo, redisVars, boundVars
    <3>5. QED
      BY <3>1, <3>2, <3>3, <3>4
  <2>6. CASE GraphRaises(w)
    <3>1. RedisOK'
      BY <2>a, <2>6, FailureSplit DEF GraphRaises, redisVars, observerVars, boundVars
    <3>2. ProcessOK'
      BY <2>a, <2>6, FailureSplit DEF GraphRaises, redisVars, observerVars, boundVars
    <3>3. ObserverOK'
      BY <2>a, <2>6, FailureSplit DEF GraphRaises, redisVars, observerVars, boundVars
    <3>4. InHand'
      BY <2>a, <2>6, FailureSplit DEF GraphRaises, redisVars, observerVars, boundVars
    <3>5. QED
      BY <3>1, <3>2, <3>3, <3>4
  <2>7. CASE Ack(w)
    <3>1. RedisOK'
      BY <2>a, <2>7 DEF Ack, Xack, Forget, NextRead, observerVars, boundVars
    <3>2. ProcessOK'
      BY <2>a, <2>7 DEF Ack, Xack, Forget, NextRead, observerVars, boundVars
    <3>3. ObserverOK'
      BY <2>a, <2>7 DEF Ack, Xack, Forget, NextRead, observerVars, boundVars
    <3>4. InHand'
      BY <2>a, <2>7 DEF Ack, Xack, Forget, NextRead, observerVars, boundVars
    <3>5. QED
      BY <3>1, <3>2, <3>3, <3>4
  <2>8. CASE AckFails(w)
    <3>1. RedisOK'
      BY <2>a, <2>8, FailureSplit DEF AckFails, Xack, Fault, observerVars
    <3>2. ProcessOK'
      BY <2>a, <2>8, FailureSplit DEF AckFails, Xack, Fault, observerVars
    <3>3. ObserverOK'
      BY <2>a, <2>c, <2>8, FailureSplit DEF AckFails, Xack, observerVars
    <3>4. InHand'
      BY <2>a, <2>8, FailureSplit DEF AckFails, Xack, Fault, observerVars
    <3>5. QED
      BY <3>1, <3>2, <3>3, <3>4
  <2>9. CASE PublishDlq(w)
    <3>1. RedisOK'
      BY <2>a, <2>9 DEF PublishDlq, AddToDlq, GoTo, observerVars, boundVars
    <3>2. ProcessOK'
      BY <2>a, <2>9 DEF PublishDlq, AddToDlq, GoTo, observerVars, boundVars
    <3>3. ObserverOK'
      BY <2>a, <2>9 DEF PublishDlq, AddToDlq, GoTo, observerVars, boundVars
    <3>4. InHand'
      BY <2>a, <2>9 DEF PublishDlq, AddToDlq, GoTo, observerVars, boundVars
    <3>5. QED
      BY <3>1, <3>2, <3>3, <3>4
  <2>10. CASE PublishDlqFails(w)
    <3>1. RedisOK'
      BY <2>a, <2>10 DEF PublishDlqFails, AddToDlq, Fault, Die, observerVars
    <3>2. ProcessOK'
      BY <2>a, <2>10 DEF PublishDlqFails, AddToDlq, Fault, Die, observerVars
    <3>3. ObserverOK'
      BY <2>a, <2>c, <2>10 DEF PublishDlqFails, AddToDlq, Die, observerVars
    <3>4. InHand'
      BY <2>a, <2>10 DEF PublishDlqFails, AddToDlq, Fault, Die, observerVars
    <3>5. QED
      BY <3>1, <3>2, <3>3, <3>4
  <2>11. CASE AckDlq(w)
    <3>1. RedisOK'
      BY <2>a, <2>11 DEF AckDlq, Xack, Forget, NextRead, observerVars, boundVars
    <3>2. ProcessOK'
      BY <2>a, <2>11 DEF AckDlq, Xack, Forget, NextRead, observerVars, boundVars
    <3>3. ObserverOK'
      BY <2>a, <2>11 DEF AckDlq, Xack, Forget, NextRead, observerVars, boundVars
    <3>4. InHand'
      BY <2>a, <2>11 DEF AckDlq, Xack, Forget, NextRead, observerVars, boundVars
    <3>5. QED
      BY <3>1, <3>2, <3>3, <3>4
  <2>12. CASE AckDlqFails(w)
    <3>1. RedisOK'
      BY <2>a, <2>12 DEF AckDlqFails, Xack, Fault, Die, observerVars
    <3>2. ProcessOK'
      BY <2>a, <2>12 DEF AckDlqFails, Xack, Fault, Die, observerVars
    <3>3. ObserverOK'
      BY <2>a, <2>c, <2>12 DEF AckDlqFails, Xack, Die, observerVars
    <3>4. InHand'
      BY <2>a, <2>12 DEF AckDlqFails, Xack, Fault, Die, observerVars
    <3>5. QED
      BY <3>1, <3>2, <3>3, <3>4
  <2>13. QED
    BY <1>6, <2>1, <2>2, <2>3, <2>4, <2>5, <2>6, <2>7, <2>8, <2>9, <2>10, <2>11, <2>12
       DEF WorkerStep
<1>7. CASE UNCHANGED vars
  BY <1>7 DEF vars, redisVars, processVars, observerVars, boundVars
<1>8. QED
  BY <1>1, <1>2, <1>3, <1>4, <1>5, <1>6, <1>7 DEF Next

\* Every reachable state is well typed (type correctness).
THEOREM TypeCorrect == Spec => []TypeOK
<1>1. Init => Typed
  BY PoolAssumption DEF Init, TypeOK, RedisOK, ProcessOK, ObserverOK, InHand, Typed, PoolAssumption
<1>2. Typed => TypeOK
  BY DEF Typed
<1>3. QED
  BY <1>1, <1>2, TypeStep, PoolAssumption, PTL DEF Spec

-----------------------------------------------------------------------------
(* No event is lost silently                                               *)

\* A worker about to ack has its reason: the graph returned, or the copy is
\* on the dead-letter stream.
AckHasReason ==
    \A w \in Workers :
        /\ pc[w] = "ack" => msg[w] \in returned
        /\ pc[w] = "dlqAck" => dlq[msg[w]] > 0

\* What has been handed out was delivered; a reading worker's group exists,
\* and the cursor of one that does not is where XGROUP CREATE will put it.
HandedOut ==
    /\ \A w \in Workers : msg[w] # NoMsg => deliveries[msg[w]] > 0
    /\ \A m \in Msgs : m <= cursor => deliveries[m] > 0
    /\ \A m \in Msgs : deliveries[m] > 0 => m <= published
    /\ \A w \in Workers : pc[w] \in Holding \union {"consume"} => group = "exists"
    /\ group = "absent" => cursor = 0

LossInv == Typed /\ AckHasReason /\ HandedOut /\ NoSilentLoss

\* No step breaks the accounting.
LEMMA LossStep == PoolAssumption /\ LossInv /\ [Next]_vars => LossInv'
<1> SUFFICES ASSUME PoolAssumption, LossInv, [Next]_vars
             PROVE  AckHasReason' /\ HandedOut' /\ NoSilentLoss'
  BY TypeStep DEF LossInv
<1> USE DEF TypeOK, RedisOK, ProcessOK, ObserverOK, InHand, Typed
<1> USE DEF PoolAssumption, LossInv, AckHasReason, HandedOut, NoSilentLoss
<1>1. CASE Publish
  BY <1>1 DEF Publish, processVars, observerVars
<1>2. CASE Rewind
  BY <1>2 DEF Rewind, processVars, observerVars
<1>3. CASE StartPool
  BY <1>3 DEF StartPool, PoolDown, redisVars, observerVars
<1>4. CASE PoolExits
  BY <1>4 DEF PoolExits, EndProcess, redisVars, observerVars
<1>5. CASE Crash
  BY <1>5 DEF Crash, EndProcess, redisVars, observerVars
<1>6. ASSUME NEW w \in Workers, WorkerStep(w)
      PROVE  AckHasReason' /\ HandedOut' /\ NoSilentLoss'
  <2>a. \A v \in Workers : pc[v] \in Holding => msg[v] \in Msgs /\ msg[v] \in 1..published
    OBVIOUS
  <2>b. Deliver => /\ cursor + 1 \in Msgs /\ group' = group /\ cursor' = cursor + 1
                   /\ deliveries'[cursor + 1] > 0
                   /\ \A m \in Msgs : deliveries[m] > 0 => deliveries'[m] > 0
                   /\ \A m \in Msgs : m <= cursor' => deliveries'[m] > 0
                   /\ \A m \in Msgs : deliveries'[m] > 0 => m <= published'
    BY DEF Deliver
  <2>c. \A m \in Msgs : AddToDlq(m) =>
            /\ dlq'[m] > 0
            /\ \A n \in Msgs : dlq[n] > 0 => dlq'[n] > 0
    BY DEF AddToDlq
  <2>f. \A m \in Msgs : AddToDlq(m) \/ UNCHANGED dlq =>
            \A n \in Msgs : dlq[n] > 0 => dlq'[n] > 0
    BY <2>c
  <2>d. Deliver => NoSilentLoss'
    BY DEF Deliver
  <2>e. UNCHANGED <<redisVars, observerVars>> => NoSilentLoss'
    BY DEF redisVars, observerVars
  <2>1. CASE EnsureGroup(w)
    <3>1. AckHasReason'
      BY <2>a, <2>1 DEF EnsureGroup, CreateGroup, GoTo, observerVars
    <3>2. HandedOut'
      BY <2>a, <2>1 DEF EnsureGroup, CreateGroup, GoTo, observerVars
    <3>3. NoSilentLoss'
      BY <2>a, <2>1 DEF EnsureGroup, CreateGroup, GoTo, observerVars
    <3>4. QED
      BY <3>1, <3>2, <3>3
  <2>2. CASE EnsureGroupFails(w)
    <3>1. AckHasReason'
      BY <2>a, <2>2 DEF EnsureGroupFails, CreateGroup, Die, redisVars, observerVars
    <3>2. HandedOut'
      BY <2>a, <2>2 DEF EnsureGroupFails, CreateGroup, Die, redisVars, observerVars
    <3>3. NoSilentLoss'
      BY <2>a, <2>2 DEF EnsureGroupFails, CreateGroup, Die, redisVars, observerVars
    <3>4. QED
      BY <3>1, <3>2, <3>3
  <2>3. CASE Consume(w)
    <3>1. AckHasReason'
      BY <2>a, <2>3 DEF Consume, Deliver
    <3>2. HandedOut'
      BY <2>b, <2>3 DEF Consume
    <3>3. NoSilentLoss'
      BY <2>d, <2>3 DEF Consume
    <3>4. QED
      BY <3>1, <3>2, <3>3
  <2>4. CASE ConsumeFails(w)
    <3>1. AckHasReason'
      BY <2>a, <2>4 DEF ConsumeFails, Deliver, Die, redisVars, observerVars
    <3>2. HandedOut'
      BY <2>b, <2>4 DEF ConsumeFails, Die, redisVars, observerVars
    <3>3. NoSilentLoss'
      BY <2>d, <2>e, <2>4 DEF ConsumeFails
    <3>4. QED
      BY <3>1, <3>2, <3>3
  <2>5. CASE GraphReturns(w)
    <3>1. AckHasReason'
      BY <2>a, <2>5 DEF GraphReturns, GoTo, redisVars
    <3>2. HandedOut'
      BY <2>a, <2>5 DEF GraphReturns, GoTo, redisVars
    <3>3. NoSilentLoss'
      BY <2>a, <2>5 DEF GraphReturns, GoTo, redisVars
    <3>4. QED
      BY <3>1, <3>2, <3>3
  <2>6. CASE GraphRaises(w)
    <3>1. AckHasReason'
      BY <2>a, <2>6, FailureSplit DEF GraphRaises, redisVars, observerVars
    <3>2. HandedOut'
      BY <2>a, <2>6, FailureSplit DEF GraphRaises, redisVars, observerVars
    <3>3. NoSilentLoss'
      BY <2>a, <2>6, FailureSplit DEF GraphRaises, redisVars, observerVars
    <3>4. QED
      BY <3>1, <3>2, <3>3
  <2>7. CASE Ack(w)
    <3>1. AckHasReason'
      BY <2>a, <2>7 DEF Ack, Xack, NextRead, observerVars
    <3>2. HandedOut'
      BY <2>a, <2>7 DEF Ack, Xack, NextRead, observerVars
    <3>3. NoSilentLoss'
      BY <2>a, <2>7 DEF Ack, Xack, NextRead, observerVars
    <3>4. QED
      BY <3>1, <3>2, <3>3
  <2>8. CASE AckFails(w)
    <3>1. AckHasReason'
      BY <2>a, <2>8, FailureSplit DEF AckFails, Xack, observerVars
    <3>2. HandedOut'
      BY <2>a, <2>8, FailureSplit DEF AckFails, Xack, observerVars
    <3>3. NoSilentLoss'
      BY <2>a, <2>8, FailureSplit DEF AckFails, Xack, observerVars
    <3>4. QED
      BY <3>1, <3>2, <3>3
  <2>9. CASE PublishDlq(w)
    <3>1. AckHasReason'
      BY <2>a, <2>c, <2>9 DEF PublishDlq, GoTo, observerVars
    <3>2. HandedOut'
      BY <2>a, <2>9 DEF PublishDlq, AddToDlq, GoTo, observerVars
    <3>3. NoSilentLoss'
      BY <2>a, <2>c, <2>9 DEF PublishDlq, observerVars
    <3>4. QED
      BY <3>1, <3>2, <3>3
  <2>10. CASE PublishDlqFails(w)
    <3>1. AckHasReason'
      BY <2>a, <2>c, <2>10 DEF PublishDlqFails, Die, observerVars
    <3>2. HandedOut'
      BY <2>a, <2>10 DEF PublishDlqFails, AddToDlq, Die, observerVars
    <3>3. NoSilentLoss'
      <4>1. \A n \in Msgs : dlq[n] > 0 => dlq'[n] > 0
        BY <2>a, <2>f, <2>10 DEF PublishDlqFails
      <4>2. /\ published' = published /\ cursor' = cursor
            /\ pending' = pending /\ returned' = returned
        BY <2>10 DEF PublishDlqFails, observerVars
      <4>3. QED
        BY <4>1, <4>2
    <3>4. QED
      BY <3>1, <3>2, <3>3
  <2>11. CASE AckDlq(w)
    <3>1. AckHasReason'
      BY <2>a, <2>11 DEF AckDlq, Xack, NextRead, observerVars
    <3>2. HandedOut'
      BY <2>a, <2>11 DEF AckDlq, Xack, NextRead, observerVars
    <3>3. NoSilentLoss'
      BY <2>a, <2>11 DEF AckDlq, Xack, NextRead, observerVars
    <3>4. QED
      BY <3>1, <3>2, <3>3
  <2>12. CASE AckDlqFails(w)
    <3>1. AckHasReason'
      BY <2>a, <2>12 DEF AckDlqFails, Xack, Die, observerVars
    <3>2. HandedOut'
      BY <2>a, <2>12 DEF AckDlqFails, Xack, Die, observerVars
    <3>3. NoSilentLoss'
      BY <2>a, <2>12 DEF AckDlqFails, Xack, Die, observerVars
    <3>4. QED
      BY <3>1, <3>2, <3>3
  <2>13. QED
    BY <1>6, <2>1, <2>2, <2>3, <2>4, <2>5, <2>6, <2>7, <2>8, <2>9, <2>10, <2>11, <2>12
       DEF WorkerStep
<1>7. CASE UNCHANGED vars
  BY <1>7 DEF vars, redisVars, processVars, observerVars
<1>8. QED
  BY <1>1, <1>2, <1>3, <1>4, <1>5, <1>6, <1>7 DEF Next

\* The accounting holds in every reachable state.
LEMMA LossInvariant == Spec => []LossInv
<1>1. Init => LossInv
  BY PoolAssumption DEF Init, TypeOK, RedisOK, ProcessOK, ObserverOK, InHand, Typed,
     PoolAssumption, LossInv, AckHasReason, HandedOut, NoSilentLoss
<1>2. QED
  BY <1>1, LossStep, PoolAssumption, PTL DEF Spec

\* For any pool, every published event is ahead of the cursor, pending, run
\* by the graph or dead-lettered.
THEOREM EventsAreNotLost == Spec => []NoSilentLoss
<1>1. LossInv => NoSilentLoss
  BY DEF LossInv
<1>2. QED
  BY <1>1, LossInvariant, PTL

-----------------------------------------------------------------------------
(* Failure counts                                                          *)

\* For any pool, a step that lowers a message's failure count finds the
\* message run or dead-lettered, or takes the whole process down.
THEOREM CountsAreKept == Spec => CountsKeptUntilOutcome
<1> DEFINE Kept == \A m \in Msgs : retry_counts'[m] < retry_counts[m]
                        => m \in returned \/ dlq[m] > 0 \/ PoolDown'
<1>1. PoolAssumption /\ LossInv /\ [Next]_vars => [Kept]_vars
  <2> SUFFICES ASSUME LossInv, Next, NEW m \in Msgs, retry_counts'[m] < retry_counts[m]
               PROVE  m \in returned \/ dlq[m] > 0 \/ PoolDown'
    OBVIOUS
  <2>t. /\ retry_counts \in [Msgs -> Nat]
        /\ pc \in [Workers -> Suspended]
        /\ \A w \in Workers : pc[w] \in Holding => msg[w] \in Msgs
        /\ AckHasReason
    BY DEF LossInv, Typed, TypeOK, ProcessOK, RedisOK, InHand
  <2>n. retry_counts[m] \in Nat /\ ~(retry_counts[m] < retry_counts[m])
    BY <2>t
  <2>0. retry_counts' # retry_counts
    BY <2>n
  <2>1. CASE EndProcess
    BY <2>1 DEF EndProcess, PoolDown
  <2>2. ASSUME NEW w \in Workers, Ack(w) \/ AckDlq(w)
        PROVE  m \in returned \/ dlq[m] > 0
    <3>1. retry_counts' = [retry_counts EXCEPT ![msg[w]] = 0]
      BY <2>2 DEF Ack, AckDlq, Forget
    <3>2. m = msg[w]
      BY <2>t, <2>n, <3>1
    <3>3. QED
      BY <2>t, <2>2, <3>2 DEF Ack, AckDlq, AckHasReason
  <2>3. ASSUME NEW w \in Workers, GraphRaises(w) \/ AckFails(w)
        PROVE  FALSE
    <3>1. retry_counts' = [retry_counts EXCEPT ![msg[w]] = retry_counts[msg[w]] + 1]
      BY <2>3, FailureSplit DEF GraphRaises, AckFails
    <3>2. msg[w] \in Msgs
      BY <2>t, <2>3 DEF GraphRaises, AckFails
    <3>3. QED
      BY <2>t, <3>1, <3>2
  <2>4. \/ EndProcess
        \/ \E w \in Workers : Ack(w) \/ AckDlq(w)
        \/ \E w \in Workers : GraphRaises(w) \/ AckFails(w)
    BY <2>0 DEF Next, Publish, Rewind, StartPool, PoolExits, Crash, WorkerStep, processVars,
       EnsureGroup, EnsureGroupFails, Consume, ConsumeFails, GraphReturns,
       PublishDlq, PublishDlqFails, AckDlqFails
  <2>5. QED
    BY <2>1, <2>2, <2>3, <2>4
<1>2. QED
  BY <1>1, LossInvariant, PoolAssumption, PTL DEF Spec, CountsKeptUntilOutcome

-----------------------------------------------------------------------------
(* The pool implements the ledger                                          *)

\* One more event published is one more element of the interval.
LEMMA IntervalGrows ==
    ASSUME NEW n \in Nat
    PROVE  1..(n + 1) = 1..n \union {n + 1}
OBVIOUS

LedgerVars == <<Waiting, Handed, pending, returned, DeadLettered>>

\* Each step of the pool is a step of the ledger or leaves it as it is.
LEMMA LedgerStep ==
    PoolAssumption /\ LossInv /\ [Next]_vars => [Ledger!Next]_LedgerVars
<1> SUFFICES ASSUME PoolAssumption, LossInv, [Next]_vars
             PROVE  Ledger!Next \/ UNCHANGED LedgerVars
  OBVIOUS
<1> USE DEF TypeOK, RedisOK, ProcessOK, ObserverOK, InHand, Typed
<1> USE DEF PoolAssumption, LossInv, AckHasReason, HandedOut
<1>a. UNCHANGED <<redisVars, observerVars>> => UNCHANGED LedgerVars
  BY DEF redisVars, observerVars, LedgerVars, Waiting, Handed, DeadLettered
<1>b. Deliver => Ledger!HandOut(cursor + 1) /\ cursor + 1 \in Msgs
  <2> SUFFICES ASSUME Deliver
               PROVE  Ledger!HandOut(cursor + 1) /\ cursor + 1 \in Msgs
    OBVIOUS
  <2>a. /\ cursor \in Nat /\ published \in Nat /\ cursor + 1 \in 1..published
        /\ cursor + 1 \in Msgs /\ cursor' = cursor + 1 /\ published' = published
    BY DEF Deliver
  <2>b. \A m \in 1..published : m > cursor + 1 <=> m > cursor /\ m # cursor + 1
    BY <2>a
  <2>1. cursor + 1 \in Waiting /\ Waiting' = Waiting \ {cursor + 1} /\ cursor + 1 \in Msgs
    <3>1. Waiting' = {m \in 1..published : m > cursor + 1}
      BY <2>a DEF Waiting
    <3>2. cursor + 1 > cursor
      BY <2>a
    <3>3. QED
      BY <2>a, <2>b, <3>1, <3>2 DEF Waiting
  <2>2. Handed' = Handed \union {cursor + 1}
    BY <2>1 DEF Deliver, Handed
  <2>3. pending' = pending \union {cursor + 1} /\ returned' = returned
        /\ DeadLettered' = DeadLettered
    BY DEF Deliver, DeadLettered
  <2>4. QED
    BY <2>1, <2>2, <2>3 DEF Ledger!HandOut
<1>c. ASSUME NEW m \in returned \union DeadLettered, Xack(m),
             UNCHANGED <<published, cursor, deliveries, dlq, returned>>
      PROVE  Ledger!Settle(m)
  BY <1>c DEF Xack, Waiting, Handed, DeadLettered, Ledger!Settle
<1>d. ASSUME NEW m \in Handed, AddToDlq(m),
             UNCHANGED <<published, cursor, pending, deliveries, returned>>
      PROVE  Ledger!DeadLetter(m)
  <2>1. DeadLettered' = DeadLettered \union {m}
    BY <1>d DEF AddToDlq, DeadLettered, Handed
  <2>2. QED
    BY <2>1, <1>d DEF Waiting, Handed, Ledger!DeadLetter
<1>e. \A m \in Msgs : Ledger!HandOut(m) \/ Ledger!Settle(m) \/ Ledger!DeadLetter(m)
                       \/ Ledger!Process(m) \/ Ledger!Accept(m) => Ledger!Next
  BY DEF Ledger!Next
<1>1. CASE Publish
  <2>a. /\ cursor \in Nat /\ published \in Nat /\ cursor < published + 1
        /\ published + 1 \in Msgs /\ cursor' = cursor /\ published' = published + 1
    BY <1>1 DEF Publish
  <2>b. 1..(published + 1) = 1..published \union {published + 1}
    BY <2>a, IntervalGrows
  <2>1. Waiting' = Waiting \union {published + 1}
    BY <2>a, <2>b DEF Waiting
  <2>2. published + 1 \notin Waiting \union Handed
    BY <2>a DEF Waiting, Handed
  <2>3. /\ Handed' = Handed /\ DeadLettered' = DeadLettered
        /\ pending' = pending /\ returned' = returned
    BY <1>1 DEF Publish, observerVars, Handed, DeadLettered
  <2>4. Ledger!Accept(published + 1)
    BY <2>1, <2>2, <2>3 DEF Ledger!Accept
  <2>5. QED
    BY <1>e, <2>a, <2>4
<1>2. CASE Rewind
  <2>1. PICK id \in 0..published : id < cursor /\ cursor' = id
    BY <1>2 DEF Rewind
  <2> DEFINE S == {m \in 1..published : id < m /\ m <= cursor}
  <2>2. /\ published' = published /\ Handed' = Handed /\ DeadLettered' = DeadLettered
        /\ pending' = pending /\ returned' = returned
    BY <1>2 DEF Rewind, observerVars, Handed, DeadLettered
  <2>3. Waiting' = Waiting \union S
    <3>1. \A m \in 1..published : m > id <=> m > cursor \/ (id < m /\ m <= cursor)
      BY <2>1
    <3>2. QED
      BY <2>1, <2>2, <3>1 DEF Waiting
  <2>4. S \in SUBSET Handed
    BY DEF Handed
  <2>5. Ledger!Replay(S)
    BY <2>2, <2>3, <2>4 DEF Ledger!Replay
  <2>6. QED
    BY <2>4, <2>5 DEF Ledger!Next
<1>3. CASE StartPool
  BY <1>a, <1>3 DEF StartPool
<1>4. CASE PoolExits
  BY <1>a, <1>4 DEF PoolExits
<1>5. CASE Crash
  BY <1>a, <1>5 DEF Crash
<1>6. ASSUME NEW w \in Workers, WorkerStep(w)
      PROVE  Ledger!Next \/ UNCHANGED LedgerVars
  <2>a. pc[w] \in Holding => msg[w] \in Msgs /\ msg[w] \in Handed
    BY DEF Handed
  <2>g. CreateGroup /\ UNCHANGED observerVars => UNCHANGED LedgerVars
    BY DEF CreateGroup, observerVars, LedgerVars, Waiting, Handed, DeadLettered
  <2>1. CASE EnsureGroup(w)
    BY <2>g, <2>1 DEF EnsureGroup
  <2>2. CASE EnsureGroupFails(w)
    BY <1>a, <2>g, <2>2 DEF EnsureGroupFails
  <2>3. CASE Consume(w)
    BY <1>b, <1>e, <2>3 DEF Consume
  <2>4. CASE ConsumeFails(w)
    BY <1>a, <1>b, <1>e, <2>4 DEF ConsumeFails
  <2>5. CASE GraphReturns(w)
    <3>1. Ledger!Process(msg[w])
      BY <2>a, <2>5 DEF GraphReturns, redisVars, Waiting, Handed, DeadLettered, Ledger!Process
    <3>2. QED
      BY <1>e, <2>a, <2>5, <3>1 DEF GraphReturns
  <2>6. CASE GraphRaises(w)
    BY <1>a, <2>6 DEF GraphRaises
  <2>7. CASE Ack(w)
    BY <1>c, <1>e, <2>a, <2>7 DEF Ack, observerVars
  <2>8. CASE AckFails(w)
    <3>1. CASE Xack(msg[w])
      BY <1>c, <1>e, <2>a, <2>8, <3>1 DEF AckFails, observerVars
    <3>2. CASE UNCHANGED pending
      BY <1>a, <2>8, <3>2 DEF AckFails, redisVars
    <3>3. QED
      BY <2>8, <3>1, <3>2 DEF AckFails
  <2>9. CASE PublishDlq(w)
    BY <1>d, <1>e, <2>a, <2>9 DEF PublishDlq, observerVars
  <2>10. CASE PublishDlqFails(w)
    <3>1. CASE AddToDlq(msg[w])
      BY <1>d, <1>e, <2>a, <2>10, <3>1 DEF PublishDlqFails, observerVars
    <3>2. CASE UNCHANGED dlq
      BY <1>a, <2>10, <3>2 DEF PublishDlqFails, redisVars
    <3>3. QED
      BY <2>10, <3>1, <3>2 DEF PublishDlqFails
  <2>b. pc[w] = "dlqAck" => msg[w] \in DeadLettered
    BY <2>a DEF DeadLettered
  <2>11. CASE AckDlq(w)
    BY <1>c, <1>e, <2>a, <2>b, <2>11 DEF AckDlq, observerVars
  <2>12. CASE AckDlqFails(w)
    <3>1. CASE Xack(msg[w])
      BY <1>c, <1>e, <2>a, <2>b, <2>12, <3>1 DEF AckDlqFails, observerVars
    <3>2. CASE UNCHANGED pending
      BY <1>a, <2>12, <3>2 DEF AckDlqFails, redisVars
    <3>3. QED
      BY <2>12, <3>1, <3>2 DEF AckDlqFails
  <2>13. QED
    BY <1>6, <2>1, <2>2, <2>3, <2>4, <2>5, <2>6, <2>7, <2>8, <2>9, <2>10, <2>11, <2>12
       DEF WorkerStep
<1>7. CASE UNCHANGED vars
  BY <1>a, <1>7 DEF vars
<1>8. QED
  BY <1>1, <1>2, <1>3, <1>4, <1>5, <1>6, <1>7 DEF Next

\* For any pool, the worker pool is an implementation of the event ledger.
THEOREM PoolImplementsLedger == Spec => ImplementsLedger
<1>1. Init => Ledger!Init
  BY PoolAssumption DEF Init, Ledger!Init, Waiting, Handed, DeadLettered, PoolAssumption
<1>2. LedgerVars = Ledger!ledger
  BY DEF LedgerVars, Ledger!ledger
<1>3. PoolAssumption /\ LossInv /\ [Next]_vars => [Ledger!Next]_(Ledger!ledger)
  BY LedgerStep, <1>2 DEF LedgerVars, Ledger!ledger
<1>4. QED
  BY <1>1, <1>3, LossInvariant, PoolAssumption, PTL DEF Spec, ImplementsLedger, Ledger!Spec

-----------------------------------------------------------------------------
(* The dead-letter budget                                                  *)

\* Counting: each delivery of m pays for one worker still trying it or for
\* one counted failure; after the first MAX_RETRIES - 1 of them, each
\* dead-letter copy of m, made or about to be made, costs one more.
Tries(w, m) == msg[w] = m /\ pc[w] \in {"graph", "ack"}
Dooms(w, m) == msg[w] = m /\ pc[w] = "dlqPublish"
Trying(m) == {w \in Workers : Tries(w, m)}
Doomed(m) == {w \in Workers : Dooms(w, m)}

Paid(retries, tries, copies, dooms, delivered) ==
    /\ retries + tries <= delivered
    /\ copies + dooms > 0 => copies + dooms + tries + MAX_RETRIES <= delivered + 1

BudgetOf(m) == Paid(retry_counts[m], Cardinality(Trying(m)),
                    dlq[m], Cardinality(Doomed(m)), deliveries[m])

Budget == \A m \in Msgs : BudgetOf(m)

\* What the steps do to the numbers: a delivery, an attempt more or less, a
\* counted failure, a decision to dead-letter, the copy, its abandonment.
LEMMA PaidSteps ==
    ASSUME PoolAssumption, NEW r \in Nat, NEW t \in Nat, NEW c \in Nat, NEW d \in Nat,
           NEW n \in Nat, Paid(r, t, c, d, n)
    PROVE  /\ Paid(r, t, c, d, n + 1)
           /\ Paid(r, t + 1, c, d, n + 1)
           /\ Paid(0, t, c, d, n)
           /\ t > 0 => Paid(0, t - 1, c, d, n)
           /\ t > 0 => Paid(r + 1, t - 1, c, d, n)
           /\ t > 0 /\ r + 1 >= MAX_RETRIES => Paid(r + 1, t - 1, c, d + 1, n)
           /\ d > 0 => Paid(r, t, c, d - 1, n)
           /\ d > 0 => Paid(r, t, c + 1, d - 1, n)
           /\ Paid(0, 0, c, 0, n)
BY DEF Paid, PoolAssumption

\* Two finite sets that agree but on one element.
LEMMA CardinalityMove ==
    ASSUME NEW S, NEW R, NEW e, IsFiniteSet(S), IsFiniteSet(R), R \ {e} = S \ {e}
    PROVE  /\ Cardinality(S) \in Nat
           /\ Cardinality(R) \in Nat
           /\ (e \in S <=> e \in R) => Cardinality(R) = Cardinality(S)
           /\ e \in S => Cardinality(S) > 0
           /\ e \in S /\ e \notin R => Cardinality(R) = Cardinality(S) - 1
           /\ e \notin S /\ e \in R => Cardinality(R) = Cardinality(S) + 1
<1>1. Cardinality(S) \in Nat /\ Cardinality(R) \in Nat
  BY FS_CardinalityType
<1>0. e \in S => Cardinality(S) > 0
  BY <1>1, FS_EmptySet
<1>2. CASE e \in S <=> e \in R
  <2>1. S = R
    BY <1>2
  <2>2. QED
    BY <1>0, <1>1, <2>1
<1>3. CASE e \in S /\ e \notin R
  <2>1. R = S \ {e}
    BY <1>3
  <2>2. Cardinality(R) = Cardinality(S) - 1
    BY <1>3, <2>1, FS_RemoveElement
  <2>3. QED
    BY <1>0, <1>1, <1>3, <2>2
<1>4. CASE e \notin S /\ e \in R
  <2>1. R = S \union {e}
    BY <1>4
  <2>2. Cardinality(R) = Cardinality(S) + 1
    BY <1>4, <2>1, FS_AddElement
  <2>3. QED
    BY <1>0, <1>1, <1>4, <2>2
<1>5. QED
  BY <1>2, <1>3, <1>4

\* A message's workers are finitely many, so that they can be counted.
LEMMA WorkerSetsFinite ==
    ASSUME PoolAssumption, NEW m
    PROVE  /\ IsFiniteSet(Trying(m)) /\ IsFiniteSet(Trying(m)')
           /\ IsFiniteSet(Doomed(m)) /\ IsFiniteSet(Doomed(m)')
           /\ Cardinality(Trying(m)) \in Nat /\ Cardinality(Trying(m)') \in Nat
           /\ Cardinality(Doomed(m)) \in Nat /\ Cardinality(Doomed(m)') \in Nat
<1>1. IsFiniteSet(Workers)
  BY DEF PoolAssumption
<1>2. /\ Trying(m) \subseteq Workers /\ Trying(m)' \subseteq Workers
      /\ Doomed(m) \subseteq Workers /\ Doomed(m)' \subseteq Workers
  BY DEF Trying, Doomed
<1>3. /\ IsFiniteSet(Trying(m)) /\ IsFiniteSet(Trying(m)')
      /\ IsFiniteSet(Doomed(m)) /\ IsFiniteSet(Doomed(m)')
  BY <1>1, <1>2, FS_Subset
<1>4. QED
  BY <1>3, FS_CardinalityType

\* When only w moves, the two sets change by w alone.
LEMMA OneMoves ==
    ASSUME PoolAssumption, NEW w \in Workers, NEW m,
           \A v \in Workers \ {w} : pc'[v] = pc[v] /\ msg'[v] = msg[v]
    PROVE  /\ (Tries(w, m) <=> Tries(w, m)')
                 => Cardinality(Trying(m)') = Cardinality(Trying(m))
           /\ Tries(w, m) => Cardinality(Trying(m)) > 0
           /\ Dooms(w, m) => Cardinality(Doomed(m)) > 0
           /\ Tries(w, m) /\ ~Tries(w, m)'
                 => Cardinality(Trying(m)') = Cardinality(Trying(m)) - 1
           /\ ~Tries(w, m) /\ Tries(w, m)'
                 => Cardinality(Trying(m)') = Cardinality(Trying(m)) + 1
           /\ (Dooms(w, m) <=> Dooms(w, m)')
                 => Cardinality(Doomed(m)') = Cardinality(Doomed(m))
           /\ Dooms(w, m) /\ ~Dooms(w, m)'
                 => Cardinality(Doomed(m)') = Cardinality(Doomed(m)) - 1
           /\ ~Dooms(w, m) /\ Dooms(w, m)'
                 => Cardinality(Doomed(m)') = Cardinality(Doomed(m)) + 1
<1>1. Trying(m)' \ {w} = Trying(m) \ {w}
  BY DEF Trying, Tries
<1>2. Doomed(m)' \ {w} = Doomed(m) \ {w}
  BY DEF Doomed, Dooms
<1>3. (w \in Trying(m) <=> Tries(w, m)) /\ (w \in Trying(m)' <=> Tries(w, m)')
  BY DEF Trying
<1>4. (w \in Doomed(m) <=> Dooms(w, m)) /\ (w \in Doomed(m)' <=> Dooms(w, m)')
  BY DEF Doomed
<1>5. QED
  BY <1>1, <1>2, <1>3, <1>4, WorkerSetsFinite, CardinalityMove

\* No step breaks the budget: a copy is made only where it has been paid for.
LEMMA BudgetStep == PoolAssumption /\ Typed /\ Budget /\ [Next]_vars => Budget'
<1> SUFFICES ASSUME PoolAssumption, Typed, Budget, [Next]_vars, NEW m \in Msgs
             PROVE  BudgetOf(m)'
  BY DEF Budget
<1> DEFINE r == retry_counts[m]
           t == Cardinality(Trying(m))
           c == dlq[m]
           d == Cardinality(Doomed(m))
           n == deliveries[m]
<1>t. /\ retry_counts \in [Msgs -> Nat] /\ deliveries \in [Msgs -> Nat]
      /\ dlq \in [Msgs -> Nat] /\ cursor \in Nat
      /\ pc \in [Workers -> Suspended] /\ msg \in [Workers -> Msgs \union {NoMsg}]
  BY DEF Typed, TypeOK, RedisOK, ProcessOK, ObserverOK, PoolAssumption
<1>n. r \in Nat /\ t \in Nat /\ c \in Nat /\ d \in Nat /\ n \in Nat
  BY <1>t, WorkerSetsFinite
<1>b. Paid(r, t, c, d, n)
  BY DEF Budget, BudgetOf
<1>q. BudgetOf(m)' <=> Paid(r', t', c', d', n')
  BY DEF BudgetOf, Paid
<1> HIDE DEF r, t, c, d, n
<1>s. ASSUME UNCHANGED <<r, t, c, d, n>>
      PROVE  BudgetOf(m)'
  BY <1>b, <1>s, <1>q
<1>u. ASSUME UNCHANGED <<pc, msg, retry_counts, dlq, deliveries>>
      PROVE  BudgetOf(m)'
  BY <1>s, <1>u DEF r, t, c, d, n, Trying, Doomed, Tries, Dooms
\* With every worker down nobody tries.
<1>d. ASSUME \A w \in Workers : pc'[w] \in {"down", "ensure"},
             UNCHANGED <<dlq, deliveries>>,
             r' = r \/ r' = 0
      PROVE  BudgetOf(m)'
  <2>1. Trying(m)' = {} /\ Doomed(m)' = {}
    BY <1>d DEF Trying, Doomed, Tries, Dooms
  <2>2. t' = 0 /\ d' = 0 /\ c' = c /\ n' = n
    BY <1>d, <2>1, FS_EmptySet DEF t, d, c, n
  <2>3. Paid(r, 0, c, 0, n) /\ Paid(0, 0, c, 0, n)
    BY <1>b, <1>n, PoolAssumption DEF Paid, PoolAssumption
  <2>4. QED
    BY <1>d, <1>q, <2>2, <2>3
<1>1. CASE Publish
  BY <1>u, <1>1 DEF Publish, processVars, observerVars
<1>2. CASE Rewind
  BY <1>u, <1>2 DEF Rewind, processVars, observerVars
<1>3. CASE StartPool
  BY <1>d, <1>3 DEF StartPool, redisVars, observerVars, r
<1>4. CASE PoolExits
  BY <1>d, <1>4 DEF PoolExits, EndProcess, redisVars, observerVars, r
<1>5. CASE Crash
  BY <1>d, <1>5 DEF Crash, EndProcess, redisVars, observerVars, r
<1>6. ASSUME NEW w \in Workers, WorkerStep(w)
      PROVE  BudgetOf(m)'
  <2> DEFINE Others == \A v \in Workers \ {w} : pc'[v] = pc[v] /\ msg'[v] = msg[v]
  <2>a. ASSUME Others
        PROVE  /\ (Tries(w, m) <=> Tries(w, m)') => t' = t
               /\ Tries(w, m) => t > 0
               /\ Tries(w, m) /\ ~Tries(w, m)' => t' = t - 1
               /\ ~Tries(w, m) /\ Tries(w, m)' => t' = t + 1
               /\ (Dooms(w, m) <=> Dooms(w, m)') => d' = d
               /\ Dooms(w, m) => d > 0
               /\ Dooms(w, m) /\ ~Dooms(w, m)' => d' = d - 1
               /\ ~Dooms(w, m) /\ Dooms(w, m)' => d' = d + 1
    BY <2>a, OneMoves DEF t, d
  <2>p. /\ Paid(r, t, c, d, n + 1)
        /\ Paid(r, t + 1, c, d, n + 1)
        /\ Paid(0, t, c, d, n)
        /\ t > 0 => Paid(0, t - 1, c, d, n)
        /\ t > 0 => Paid(r + 1, t - 1, c, d, n)
        /\ t > 0 /\ r + 1 >= MAX_RETRIES => Paid(r + 1, t - 1, c, d + 1, n)
        /\ d > 0 => Paid(r, t, c, d - 1, n)
        /\ d > 0 => Paid(r, t, c + 1, d - 1, n)
    BY <1>b, <1>n, PaidSteps
  <2>r. ASSUME RecordFailure(w), pc[w] \in {"graph", "ack"}, UNCHANGED <<dlq, deliveries>>
        PROVE  BudgetOf(m)'
    <3>1. Others
      BY <1>t, <2>r, FailureSplit
    <3>2. c' = c /\ n' = n
      BY <2>r DEF c, n
    <3>3. CASE msg[w] # m
      <4>1. r' = r
        BY <1>t, <2>r, <3>3, FailureSplit DEF r
      <4>2. ~Tries(w, m) /\ ~Tries(w, m)' /\ ~Dooms(w, m) /\ ~Dooms(w, m)'
        BY <1>t, <2>r, <3>3, FailureSplit DEF Tries, Dooms
      <4>3. QED
        BY <1>s, <2>a, <3>1, <3>2, <4>1, <4>2
    <3>4. CASE msg[w] = m
      <4>1. r' = r + 1
        BY <1>t, <2>r, <3>4, FailureSplit DEF r
      <4>2. Tries(w, m) /\ ~Tries(w, m)' /\ ~Dooms(w, m)
        BY <1>t, <2>r, <3>4, FailureSplit DEF Tries, Dooms
      <4>3. t > 0 /\ t' = t - 1 /\ (d' = d \/ d' = d + 1)
        BY <2>a, <3>1, <4>2
      <4>4. d' = d + 1 => r + 1 >= MAX_RETRIES
        <5>1. Dooms(w, m)' => pc'[w] = "dlqPublish"
          BY DEF Dooms
        <5>2. pc'[w] = "dlqPublish" => r + 1 >= MAX_RETRIES
          BY <1>t, <2>r, <3>4, FailureSplit DEF r
        <5>3. ~Dooms(w, m)' => d' = d
          BY <2>a, <3>1, <4>2
        <5>4. QED
          BY <1>n, <5>1, <5>2, <5>3
      <4>5. QED
        BY <1>q, <2>p, <3>2, <4>1, <4>3, <4>4
    <3>5. QED
      BY <3>3, <3>4
  <2>1. CASE EnsureGroup(w)
    <3>1. Others
      BY <1>t, <2>1 DEF EnsureGroup, CreateGroup, GoTo, observerVars
    <3>2. UNCHANGED <<r, t, c, d, n>>
      BY <1>t, <2>a, <2>1, <3>1
         DEF EnsureGroup, CreateGroup, GoTo, observerVars, Tries, Dooms, r, c, n
    <3>3. QED
      BY <1>s, <3>2
  <2>2. CASE EnsureGroupFails(w)
    <3>1. Others
      BY <1>t, <2>2 DEF EnsureGroupFails, CreateGroup, Die, redisVars, observerVars
    <3>2. UNCHANGED <<r, t, c, d, n>>
      BY <1>t, <2>a, <2>2, <3>1
         DEF EnsureGroupFails, CreateGroup, Die, redisVars, observerVars, Tries, Dooms, r, c, n
    <3>3. QED
      BY <1>s, <3>2
  <2>3. CASE Consume(w)
    <3>1. Others
      BY <1>t, <2>3 DEF Consume, Deliver
    <3>2. \/ UNCHANGED <<r, t, c, d, n>>
          \/ UNCHANGED <<r, c, d>> /\ t' = t + 1 /\ n' = n + 1
      BY <1>t, <2>a, <2>3, <3>1
         DEF Consume, Deliver, Tries, Dooms, r, c, n
    <3>3. QED
      BY <1>s, <1>b, <1>q, <2>p, <3>2
  <2>4. CASE ConsumeFails(w)
    <3>1. Others
      BY <1>t, <2>4 DEF ConsumeFails, Deliver, Die, redisVars, observerVars
    <3>2. UNCHANGED <<r, t, c, d>> /\ (n' = n \/ n' = n + 1)
      BY <1>t, <2>a, <2>4, <3>1
         DEF ConsumeFails, Deliver, Die, redisVars, observerVars, Tries, Dooms, r, c, n
    <3>3. QED
      BY <1>s, <1>b, <1>q, <2>p, <3>2
  <2>5. CASE GraphReturns(w)
    <3>1. Others
      BY <1>t, <2>5 DEF GraphReturns, GoTo, redisVars
    <3>2. UNCHANGED <<r, t, c, d, n>>
      BY <1>t, <2>a, <2>5, <3>1
         DEF GraphReturns, GoTo, redisVars, Tries, Dooms, r, c, n
    <3>3. QED
      BY <1>s, <3>2
  <2>6. CASE GraphRaises(w)
    BY <2>6, <2>r DEF GraphRaises, redisVars, observerVars
  <2>7. CASE Ack(w)
    <3>1. Others
      BY <1>t, <2>7 DEF Ack, Forget, NextRead, observerVars
    <3>2. \/ UNCHANGED <<r, t, c, d, n>>
          \/ UNCHANGED <<c, d, n>> /\ t > 0 /\ r' = 0 /\ t' = t - 1
      BY <1>t, <2>a, <2>7, <3>1
         DEF Ack, Forget, NextRead, observerVars, Tries, Dooms, r, c, n
    <3>3. QED
      BY <1>s, <1>b, <1>q, <2>p, <3>2
  <2>8. CASE AckFails(w)
    BY <2>8, <2>r DEF AckFails, observerVars
  <2>9. CASE PublishDlq(w)
    <3>1. Others
      BY <1>t, <2>9 DEF PublishDlq, AddToDlq, GoTo, observerVars
    <3>2. \/ UNCHANGED <<r, t, c, d, n>>
          \/ UNCHANGED <<r, t, n>> /\ d > 0 /\ c' = c + 1 /\ d' = d - 1
      BY <1>t, <2>a, <2>9, <3>1
         DEF PublishDlq, AddToDlq, GoTo, observerVars, Tries, Dooms, r, c, n
    <3>3. QED
      BY <1>s, <1>b, <1>q, <2>p, <3>2
  <2>10. CASE PublishDlqFails(w)
    <3>1. Others
      BY <1>t, <2>10 DEF PublishDlqFails, AddToDlq, Die, observerVars
    <3>2. \/ UNCHANGED <<r, t, c, d, n>>
          \/ UNCHANGED <<r, t, n>> /\ d > 0 /\ c' \in {c, c + 1} /\ d' = d - 1
      BY <1>t, <2>a, <2>10, <3>1
         DEF PublishDlqFails, AddToDlq, Die, observerVars, Tries, Dooms, r, c, n
    <3>3. QED
      BY <1>s, <1>b, <1>q, <2>p, <3>2
  <2>11. CASE AckDlq(w)
    <3>1. Others
      BY <1>t, <2>11 DEF AckDlq, Forget, NextRead, observerVars
    <3>2. UNCHANGED <<t, c, d, n>> /\ r' \in {r, 0}
      BY <1>t, <2>a, <2>11, <3>1
         DEF AckDlq, Forget, NextRead, observerVars, Tries, Dooms, r, c, n
    <3>3. QED
      BY <1>s, <1>b, <1>q, <2>p, <3>2
  <2>12. CASE AckDlqFails(w)
    <3>1. Others
      BY <1>t, <2>12 DEF AckDlqFails, Die, observerVars
    <3>2. UNCHANGED <<r, t, c, d, n>>
      BY <1>t, <2>a, <2>12, <3>1
         DEF AckDlqFails, Die, observerVars, Tries, Dooms, r, c, n
    <3>3. QED
      BY <1>s, <3>2
  <2>13. QED
    BY <1>6, <2>1, <2>2, <2>3, <2>4, <2>5, <2>6, <2>7, <2>8, <2>9, <2>10, <2>11, <2>12
       DEF WorkerStep
<1>7. CASE UNCHANGED vars
  BY <1>u, <1>7 DEF vars, redisVars, processVars, observerVars
<1>8. QED
  BY <1>1, <1>2, <1>3, <1>4, <1>5, <1>6, <1>7 DEF Next

\* For any pool: a message's first dead-letter copy takes MAX_RETRIES
\* deliveries of it at least, each further copy one more.
THEOREM DeadLettersAreBudgeted == Spec => []DeadLetterBudget
<1>1. Init => Budget
  <2> SUFFICES ASSUME Init, NEW m \in Msgs
               PROVE  BudgetOf(m)
    BY DEF Budget
  <2>1. Trying(m) = {} /\ Doomed(m) = {}
    BY DEF Init, Trying, Doomed, Tries, Dooms
  <2>2. QED
    BY <2>1, FS_EmptySet DEF Init, BudgetOf, Paid
<1>2. Typed /\ Budget => DeadLetterBudget
  <2> SUFFICES ASSUME PoolAssumption, Typed, Budget, NEW m \in Msgs, dlq[m] > 0
               PROVE  dlq[m] + MAX_RETRIES <= deliveries[m] + 1
    BY PoolAssumption DEF DeadLetterBudget
  <2>1. BudgetOf(m)
    BY DEF Budget
  <2>2. dlq[m] \in Nat /\ deliveries[m] \in Nat /\ MAX_RETRIES \in Nat
    BY DEF Typed, TypeOK, RedisOK, ObserverOK, PoolAssumption
  <2>3. QED
    BY <2>1, <2>2, WorkerSetsFinite DEF BudgetOf, Paid
<1>3. Init => Typed
  BY PoolAssumption DEF Init, TypeOK, RedisOK, ProcessOK, ObserverOK, InHand, Typed,
     PoolAssumption
<1>4. QED
  BY <1>1, <1>2, <1>3, TypeStep, BudgetStep, PoolAssumption, PTL DEF Spec

-----------------------------------------------------------------------------
(* What was delivered is on the books                                      *)

\* NoSilentLoss, for what is behind the cursor or was before a rewind.
Accounted ==
    \A m \in Msgs : deliveries[m] > 0 => m \in pending \/ m \in returned \/ dlq[m] > 0

LEMMA AccountedStep == PoolAssumption /\ LossInv /\ Accounted /\ [Next]_vars => Accounted'
<1> SUFFICES ASSUME PoolAssumption, LossInv, Accounted, [Next]_vars,
                    NEW m \in Msgs, deliveries'[m] > 0
             PROVE  m \in pending' \/ m \in returned' \/ dlq'[m] > 0
  BY DEF Accounted
<1>t. /\ deliveries \in [Msgs -> Nat] /\ dlq \in [Msgs -> Nat] /\ dlq[m] \in Nat
      /\ \A w \in Workers : pc[w] \in Holding => msg[w] \in Msgs
      /\ AckHasReason
  BY DEF LossInv, Typed, TypeOK, RedisOK, ObserverOK, InHand
<1>i. deliveries[m] > 0 => m \in pending \/ m \in returned \/ dlq[m] > 0
  BY DEF Accounted
<1>s. ASSUME deliveries' = deliveries, pending \subseteq pending', returned \subseteq returned',
             dlq' = dlq
      PROVE  m \in pending' \/ m \in returned' \/ dlq'[m] > 0
  BY <1>i, <1>s
<1>d. ASSUME Deliver
      PROVE  m \in pending' \/ m \in returned' \/ dlq'[m] > 0
  <2>1. m = cursor + 1 \/ deliveries'[m] = deliveries[m]
    BY <1>t, <1>d DEF Deliver
  <2>2. QED
    BY <1>i, <1>d, <2>1 DEF Deliver
<1>1. CASE Publish \/ Rewind \/ StartPool \/ PoolExits \/ Crash \/ UNCHANGED vars
  BY <1>1, <1>s DEF Publish, Rewind, StartPool, PoolExits, Crash, vars, redisVars, observerVars
<1>2. ASSUME NEW w \in Workers, EnsureGroup(w) \/ EnsureGroupFails(w)
      PROVE  m \in pending' \/ m \in returned' \/ dlq'[m] > 0
  BY <1>2, <1>s DEF EnsureGroup, EnsureGroupFails, CreateGroup, redisVars, observerVars
<1>3. ASSUME NEW w \in Workers, Consume(w) \/ ConsumeFails(w)
      PROVE  m \in pending' \/ m \in returned' \/ dlq'[m] > 0
  BY <1>3, <1>s, <1>d DEF Consume, ConsumeFails, redisVars, observerVars
<1>4. ASSUME NEW w \in Workers, GraphReturns(w) \/ GraphRaises(w)
      PROVE  m \in pending' \/ m \in returned' \/ dlq'[m] > 0
  BY <1>4, <1>s DEF GraphReturns, GraphRaises, redisVars, observerVars
<1>5. ASSUME NEW w \in Workers, Ack(w) \/ AckFails(w)
      PROVE  m \in pending' \/ m \in returned' \/ dlq'[m] > 0
  <2>1. msg[w] \in returned
    BY <1>t, <1>5 DEF Ack, AckFails, AckHasReason
  <2>2. QED
    BY <1>i, <1>5, <2>1 DEF Ack, AckFails, Xack, observerVars
<1>6. ASSUME NEW w \in Workers, PublishDlq(w) \/ PublishDlqFails(w)
      PROVE  m \in pending' \/ m \in returned' \/ dlq'[m] > 0
  <2>1. dlq'[m] = dlq[m] \/ dlq'[m] = dlq[m] + 1
    <3>1. dlq' = dlq \/ dlq' = [dlq EXCEPT ![msg[w]] = @ + 1]
      BY <1>6 DEF PublishDlq, PublishDlqFails, AddToDlq
    <3>2. msg[w] \in Msgs
      BY <1>t, <1>6 DEF PublishDlq, PublishDlqFails
    <3>3. QED
      BY <1>t, <3>1, <3>2
  <2>2. pending' = pending /\ returned' = returned /\ deliveries' = deliveries
    BY <1>6 DEF PublishDlq, PublishDlqFails, observerVars
  <2>3. QED
    BY <1>t, <1>i, <2>1, <2>2
<1>7. ASSUME NEW w \in Workers, AckDlq(w) \/ AckDlqFails(w)
      PROVE  m \in pending' \/ m \in returned' \/ dlq'[m] > 0
  <2>1. dlq[msg[w]] > 0
    BY <1>t, <1>7 DEF AckDlq, AckDlqFails, AckHasReason
  <2>2. QED
    BY <1>i, <1>7, <2>1 DEF AckDlq, AckDlqFails, Xack, observerVars
<1>8. QED
  BY <1>1, <1>2, <1>3, <1>4, <1>5, <1>6, <1>7 DEF Next, WorkerStep

LEMMA AccountedInvariant == Spec => []Accounted
<1>1. Init => Accounted
  BY PoolAssumption DEF Init, Accounted, PoolAssumption
<1>2. QED
  BY <1>1, LossInvariant, AccountedStep, PoolAssumption, PTL DEF Spec

-----------------------------------------------------------------------------
(* One worker per event                                                    *)

\* A message delivered once at most is in one worker's hands at most, whose
\* run is its first; one never delivered was never run.
OneHand(m) ==
    /\ deliveries[m] = 0 => m \notin returned
    /\ deliveries[m] <= 1 =>
          \A w \in Workers : msg[w] = m =>
              /\ \A v \in Workers : msg[v] = m => v = w
              /\ pc[w] = "graph" => m \notin returned

HandsInv == \A m \in Msgs : OneHand(m)

\* A worker comes by a message only by being handed the next entry.
LEMMA HandsOff ==
    ASSUME PoolAssumption, LossInv, [Next]_vars,
           \A w \in Workers : ~Consume(w)
    PROVE  /\ \A v \in Workers : /\ msg'[v] \in {msg[v], NoMsg}
                                 /\ pc'[v] = "graph" => pc[v] = "graph" /\ msg'[v] = msg[v]
           /\ \A m \in Msgs : deliveries'[m] \in Nat /\ deliveries'[m] >= deliveries[m]
           /\ \/ returned' = returned
              \/ \E w \in Workers : /\ pc[w] = "graph" /\ pc'[w] # "graph"
                                    /\ returned' = returned \union {msg[w]}
                                    /\ msg' = msg
<1>t. /\ pc \in [Workers -> Suspended] /\ msg \in [Workers -> Msgs \union {NoMsg}]
      /\ deliveries \in [Msgs -> Nat]
  BY DEF LossInv, Typed, TypeOK, ProcessOK, ObserverOK
<1> DEFINE Goal == /\ \A v \in Workers :
                         /\ msg'[v] \in {msg[v], NoMsg}
                         /\ pc'[v] = "graph" => pc[v] = "graph" /\ msg'[v] = msg[v]
                   /\ deliveries' = deliveries \/ Deliver
                   /\ \/ returned' = returned
                      \/ \E w \in Workers : /\ pc[w] = "graph" /\ pc'[w] # "graph"
                                            /\ returned' = returned \union {msg[w]}
                                            /\ msg' = msg
<1>g. ASSUME Goal
      PROVE  \A m \in Msgs : deliveries'[m] \in Nat /\ deliveries'[m] >= deliveries[m]
  BY <1>t, <1>g DEF Deliver
<1>1. CASE Publish \/ Rewind \/ UNCHANGED vars
  BY <1>t, <1>1, <1>g DEF Publish, Rewind, vars, processVars, observerVars
<1>2. CASE StartPool \/ PoolExits \/ Crash
  BY <1>t, <1>2, <1>g DEF StartPool, PoolExits, Crash, EndProcess, observerVars
<1>3. ASSUME NEW w \in Workers, EnsureGroup(w) \/ EnsureGroupFails(w) \/ ConsumeFails(w)
      PROVE  Goal
  BY <1>t, <1>3
     DEF EnsureGroup, EnsureGroupFails, ConsumeFails, Deliver, GoTo, Die, observerVars
<1>4. ASSUME NEW w \in Workers, GraphReturns(w)
      PROVE  Goal
  BY <1>t, <1>4 DEF GraphReturns, GoTo
<1>5. ASSUME NEW w \in Workers, GraphRaises(w) \/ Ack(w) \/ AckFails(w)
      PROVE  Goal
  BY <1>t, <1>5, FailureSplit DEF GraphRaises, Ack, AckFails, NextRead, observerVars
<1>6. ASSUME NEW w \in Workers,
             PublishDlq(w) \/ PublishDlqFails(w) \/ AckDlq(w) \/ AckDlqFails(w)
      PROVE  Goal
  BY <1>t, <1>6
     DEF PublishDlq, PublishDlqFails, AckDlq, AckDlqFails, GoTo, Die, NextRead, observerVars
<1>7. QED
  BY <1>g, <1>1, <1>2, <1>3, <1>4, <1>5, <1>6 DEF Next, WorkerStep

LEMMA HandsStep == PoolAssumption /\ LossInv /\ HandsInv /\ [Next]_vars => HandsInv'
<1> SUFFICES ASSUME PoolAssumption, LossInv, HandsInv, [Next]_vars, NEW m \in Msgs
             PROVE  OneHand(m)'
  BY DEF HandsInv
<1>t. /\ pc \in [Workers -> Suspended] /\ msg \in [Workers -> Msgs \union {NoMsg}]
      /\ deliveries \in [Msgs -> Nat] /\ deliveries[m] \in Nat /\ m # NoMsg
      /\ \A w \in Workers : msg[w] # NoMsg => deliveries[msg[w]] > 0
  BY DEF LossInv, Typed, TypeOK, ProcessOK, ObserverOK, HandedOut
<1>i. OneHand(m)
  BY DEF HandsInv
<1>1. ASSUME NEW w \in Workers, Consume(w)
      PROVE  OneHand(m)'
  <2>1. /\ pc' = [pc EXCEPT ![w] = "graph"] /\ msg' = [msg EXCEPT ![w] = cursor + 1]
        /\ deliveries' = [deliveries EXCEPT ![cursor + 1] = @ + 1]
        /\ returned' = returned /\ cursor + 1 \in Msgs
        /\ msg[w] = NoMsg
    <3>1. cursor + 1 \in Msgs
      BY <1>1 DEF Consume, Deliver, LossInv, Typed, TypeOK, RedisOK
    <3>2. msg[w] = NoMsg
      BY <1>1 DEF Consume, LossInv, Typed, InHand
    <3>3. QED
      BY <1>1, <3>1, <3>2 DEF Consume, Deliver
  <2>2. CASE m = cursor + 1
    <3>1. deliveries'[m] = deliveries[m] + 1
      BY <1>t, <2>1, <2>2
    <3>2. CASE deliveries[m] = 0
      <4>1. m \notin returned /\ \A v \in Workers : msg[v] # m
        BY <1>i, <1>t, <3>2 DEF OneHand
      <4>2. QED
        BY <1>t, <2>1, <2>2, <3>1, <3>2, <4>1 DEF OneHand
    <3>3. CASE deliveries[m] # 0
      BY <1>t, <3>1, <3>3 DEF OneHand
    <3>4. QED
      BY <3>2, <3>3
  <2>3. CASE m # cursor + 1
    <3>1. deliveries'[m] = deliveries[m]
      BY <1>t, <2>1, <2>3
    <3>2. \A v \in Workers : msg'[v] = m => v # w /\ msg[v] = m /\ pc'[v] = pc[v]
      BY <1>t, <2>1, <2>3
    <3>3. QED
      BY <1>i, <2>1, <3>1, <3>2 DEF OneHand
  <2>4. QED
    BY <2>2, <2>3
<1>2. CASE \A w \in Workers : ~Consume(w)
  <2>1. /\ \A v \in Workers : /\ msg'[v] \in {msg[v], NoMsg}
                              /\ pc'[v] = "graph" => pc[v] = "graph" /\ msg'[v] = msg[v]
        /\ deliveries'[m] \in Nat /\ deliveries'[m] >= deliveries[m]
    BY <1>2, HandsOff
  <2>2. CASE returned' = returned
    BY <1>i, <1>t, <2>1, <2>2 DEF OneHand
  <2>3. ASSUME NEW w \in Workers, pc[w] = "graph", pc'[w] # "graph",
               returned' = returned \union {msg[w]}, msg' = msg
        PROVE  OneHand(m)'
    BY <1>i, <1>t, <2>1, <2>3 DEF OneHand
  <2>4. QED
    BY <1>2, <2>2, <2>3, HandsOff
<1>3. QED
  BY <1>1, <1>2

\* With nobody to move the cursor back nothing is handed out twice.
HandedOnce == \A m \in Msgs : deliveries[m] <= 1 /\ (m > cursor => deliveries[m] = 0)

LEMMA HandedOnceStep ==
    ASSUME PoolAssumption, MaxRewinds = 0, LossInv, HandedOnce, [Next]_vars
    PROVE  HandedOnce'
<1> SUFFICES ASSUME NEW m \in Msgs
             PROVE  deliveries'[m] <= 1 /\ (m > cursor' => deliveries'[m] = 0)
  BY DEF HandedOnce
<1>t. /\ deliveries \in [Msgs -> Nat] /\ cursor \in Nat /\ rewinds = 0
      /\ deliveries[m] <= 1 /\ (m > cursor => deliveries[m] = 0) /\ m \in Nat
      /\ group = "absent" => cursor = 0
  BY DEF LossInv, Typed, TypeOK, RedisOK, ObserverOK, HandedOut, HandedOnce, PoolAssumption
<1>1. CASE cursor' = cursor /\ deliveries' = deliveries
  BY <1>t, <1>1
<1>2. CASE CreateGroup /\ deliveries' = deliveries
  <2>1. group \in {"absent", "exists"}
    BY DEF LossInv, Typed, TypeOK, RedisOK
  <2>2. QED
    BY <1>t, <1>2, <2>1 DEF CreateGroup
<1>3. CASE Deliver
  <2>1. cursor' = cursor + 1 /\ deliveries' = [deliveries EXCEPT ![cursor + 1] = @ + 1]
    BY <1>3 DEF Deliver
  <2>2. CASE m = cursor + 1
    BY <1>t, <2>1, <2>2
  <2>3. CASE m # cursor + 1
    BY <1>t, <2>1, <2>3
  <2>4. QED
    BY <2>2, <2>3
<1>4. ~Rewind
  BY <1>t DEF Rewind
<1>5. \/ cursor' = cursor /\ deliveries' = deliveries
      \/ CreateGroup /\ deliveries' = deliveries
      \/ Deliver
  BY <1>4 DEF Next, vars, redisVars, observerVars, Publish, StartPool, PoolExits, Crash,
     WorkerStep, EnsureGroup, EnsureGroupFails, Consume, ConsumeFails, GraphReturns,
     GraphRaises, Ack, AckFails, PublishDlq, PublishDlqFails, AckDlq, AckDlqFails
<1>6. QED
  BY <1>1, <1>2, <1>3, <1>5

LEMMA HandsInvariant == Spec => []HandsInv
<1>1. Init => HandsInv
  BY PoolAssumption DEF Init, HandsInv, OneHand, PoolAssumption
<1>2. QED
  BY <1>1, LossInvariant, HandsStep, PoolAssumption, PTL DEF Spec

\* For any pool whose group's cursor nobody moves back: every event is handed
\* to one worker, once.
THEOREM EventsGoToOneWorker ==
    ASSUME MaxRewinds = 0
    PROVE  Spec => []DeliveredToOneWorker
<1>1. Init => HandedOnce
  BY PoolAssumption DEF Init, HandedOnce, PoolAssumption
<1>2. LossInv /\ HandedOnce /\ [Next]_vars => HandedOnce'
  BY HandedOnceStep, PoolAssumption
<1>3. LossInv /\ HandsInv /\ HandedOnce => DeliveredToOneWorker
  <2>1. LossInv => \A w \in Workers : msg[w] \in Msgs \union {NoMsg}
    BY DEF LossInv, Typed, TypeOK, ProcessOK
  <2>2. QED
    BY <2>1 DEF HandsInv, OneHand, HandedOnce, DeliveredToOneWorker
<1>4. QED
  BY <1>1, <1>2, <1>3, LossInvariant, HandsInvariant, PTL DEF Spec

\* As shipped, three failed attempts are needed for a dead-letter copy and one
\* delivery is all an event gets: nothing ever reaches the dead-letter stream
\* unless somebody moves the group's cursor back (consumer.py:30, 72-82).
THEOREM NothingIsDeadLettered ==
    ASSUME MaxRewinds = 0, MAX_RETRIES >= 2
    PROVE  Spec => [](\A m \in Msgs : dlq[m] = 0)
<1>1. TypeOK /\ DeadLetterBudget /\ DeliveredToOneWorker => \A m \in Msgs : dlq[m] = 0
  <2> SUFFICES ASSUME TypeOK, DeadLetterBudget, DeliveredToOneWorker, NEW m \in Msgs
               PROVE  dlq[m] = 0
    OBVIOUS
  <2>1. /\ dlq[m] \in Nat /\ deliveries[m] \in Nat /\ MAX_RETRIES \in Nat
        /\ deliveries[m] <= 1
        /\ dlq[m] > 0 => dlq[m] + MAX_RETRIES <= deliveries[m] + 1
    BY PoolAssumption
       DEF TypeOK, RedisOK, ObserverOK, PoolAssumption, DeadLetterBudget, DeliveredToOneWorker
  <2> QED
    BY <2>1
<1> QED
  BY <1>1, TypeCorrect, DeadLettersAreBudgeted, EventsGoToOneWorker, PTL

-----------------------------------------------------------------------------
(* What a failure leaves in the Pending Entries List                       *)

\* What is pending has been handed out.
PendingDelivered == \A m \in pending : deliveries[m] > 0

\* The PEL gains what is delivered and loses what a worker acknowledges.
LEMMA PendingSplit ==
    ASSUME LossInv, [Next]_vars
    PROVE  \/ Deliver
           \/ /\ deliveries' = deliveries
              /\ \/ pending' = pending
                 \/ \E w \in Workers : msg[w] \in Msgs /\ pending' = pending \ {msg[w]}
<1>t. \A w \in Workers : pc[w] \in Holding => msg[w] \in Msgs
  BY PoolAssumption DEF LossInv, Typed, TypeOK, RedisOK, InHand, PoolAssumption
<1>1. CASE Publish \/ Rewind \/ StartPool \/ PoolExits \/ Crash \/ UNCHANGED vars
  BY <1>1 DEF Publish, Rewind, StartPool, PoolExits, Crash, vars, redisVars, observerVars
<1>2. ASSUME NEW w \in Workers,
             \/ EnsureGroup(w) \/ EnsureGroupFails(w) \/ Consume(w) \/ ConsumeFails(w)
             \/ GraphReturns(w) \/ GraphRaises(w) \/ PublishDlq(w) \/ PublishDlqFails(w)
      PROVE  Deliver \/ (deliveries' = deliveries /\ pending' = pending)
  BY <1>2 DEF EnsureGroup, EnsureGroupFails, CreateGroup, Consume, ConsumeFails, GraphReturns,
              GraphRaises, PublishDlq, PublishDlqFails, redisVars, observerVars
<1>3. ASSUME NEW w \in Workers, Ack(w) \/ AckFails(w) \/ AckDlq(w) \/ AckDlqFails(w)
      PROVE  /\ msg[w] \in Msgs /\ deliveries' = deliveries
             /\ pending' = pending \/ pending' = pending \ {msg[w]}
  BY <1>t, <1>3 DEF Ack, AckFails, AckDlq, AckDlqFails, Xack, observerVars
<1> QED
  BY <1>1, <1>2, <1>3 DEF Next, WorkerStep

LEMMA PendingDeliveredStep ==
    ASSUME LossInv, PendingDelivered, [Next]_vars
    PROVE  PendingDelivered'
<1>t. /\ deliveries \in [Msgs -> Nat] /\ pending \subseteq Msgs
      /\ cursor \in Nat /\ published \in 0..MaxMsgs
  BY PoolAssumption DEF LossInv, Typed, TypeOK, RedisOK, ObserverOK, PoolAssumption
<1>1. CASE Deliver
  <2>1. /\ pending' = pending \union {cursor + 1} /\ cursor + 1 \in Msgs
        /\ deliveries' = [deliveries EXCEPT ![cursor + 1] = @ + 1]
    BY <1>t, <1>1, PoolAssumption DEF Deliver, PoolAssumption
  <2> QED
    BY <1>t, <2>1 DEF PendingDelivered
<1>2. CASE deliveries' = deliveries /\ pending' \subseteq pending
  BY <1>2 DEF PendingDelivered
<1> QED
  BY <1>1, <1>2, PendingSplit

\* For any pool whose group's cursor nobody moves back: an event whose run has
\* failed, or whose worker is gone, is never taken up again, so a failure is
\* not retried and a crash is not recovered from.
THEOREM AbandonedEventsStay ==
    ASSUME MaxRewinds = 0
    PROVE  Spec => AbandonedStayPending
<1> DEFINE Stay == \A m \in pending : (\A w \in Workers : msg[w] # m) =>
                       m \in pending' /\ \A w \in Workers : msg'[w] # m
<1>1. Init => HandedOnce /\ PendingDelivered
  BY PoolAssumption DEF Init, HandedOnce, PendingDelivered, PoolAssumption
<1>2. LossInv /\ HandedOnce /\ PendingDelivered /\ [Next]_vars
         => HandedOnce' /\ PendingDelivered'
  BY HandedOnceStep, PendingDeliveredStep, PoolAssumption
<1>3. LossInv /\ HandedOnce /\ PendingDelivered /\ [Next]_vars => [Stay]_vars
  <2> SUFFICES ASSUME LossInv, HandedOnce, PendingDelivered, [Next]_vars,
                      NEW m \in pending, \A w \in Workers : msg[w] # m
               PROVE  m \in pending' /\ \A w \in Workers : msg'[w] # m
    OBVIOUS
  <2>t. /\ m \in Msgs /\ m # NoMsg /\ cursor \in Nat
        /\ msg \in [Workers -> Msgs \union {NoMsg}]
    BY PoolAssumption DEF LossInv, Typed, TypeOK, RedisOK, ProcessOK, PoolAssumption
  <2>1. m \in pending'
    BY <2>t, PendingSplit DEF Deliver
  <2>2. m # cursor + 1
    BY <2>t DEF HandedOnce, PendingDelivered
  <2>3. ASSUME NEW w \in Workers, Consume(w) PROVE \A v \in Workers : msg'[v] # m
    BY <2>t, <2>2, <2>3 DEF Consume
  <2>4. ASSUME \A w \in Workers : ~Consume(w)
        PROVE  \A v \in Workers : msg'[v] # m
    <3>1. \A v \in Workers : msg'[v] \in {msg[v], NoMsg}
      BY <2>4, HandsOff, PoolAssumption
    <3> QED
      BY <2>t, <3>1
  <2> QED
    BY <2>1, <2>3, <2>4
<1> QED
  BY <1>1, <1>2, <1>3, LossInvariant, PTL DEF Spec, AbandonedStayPending

=============================================================================
