-------------------------- MODULE IngestionProofs --------------------------
(***************************************************************************)
(* Proofs about Ingestion, for any feed, payloads, runs and requests, and  *)
(* about the severities of Normalization.                                  *)
(***************************************************************************)
EXTENDS Ingestion, FiniteSetTheorems, SmallestNatural

-----------------------------------------------------------------------------
(* Severities                                                              *)

\* Every outcome of a scalar level is a severity.
LEMMA LevelsAreSeverities ==
    /\ \A score \in Int : cvss_to_severity(score) \in Severities
    /\ \A label : label_to_severity(label) \in Severities
    /\ \A pri \in Nat : decode_pri(pri) \in Severities
<1>1. \A score \in Int : cvss_to_severity(score) \in Severities
  BY DEF cvss_to_severity, Severities
<1>2. \A label : label_to_severity(label) \in Severities
  BY DEF label_to_severity, Severities
<1>3. \A pri \in Nat : decode_pri(pri) \in Severities
  BY DEF decode_pri, SYSLOG_SEVERITY, Severities, NoPri
<1>4. QED
  BY <1>1, <1>2, <1>3

\* The first field that is not empty is one of the fields.
LEMMA FirstIsAField ==
    ASSUME NEW S, NEW n \in 0..4, NEW fields \in [1..n -> S], NEW empty, NEW default \in S
    PROVE  First(fields, empty, default) \in S
<1>1. CASE \A i \in 1..n : fields[i] = empty
  BY <1>1 DEF First
<1>2. CASE \E i \in 1..n : fields[i] # empty
  <2>1. ASSUME NEW k \in 1..n, fields[k] # empty, \A j \in 1..(k - 1) : fields[j] = empty
        PROVE  First(fields, empty, default) \in S
    BY <2>1 DEF First
  <2>2. CASE 1 \in 1..n /\ fields[1] # empty
    BY <2>1, <2>2
  <2>3. CASE 2 \in 1..n /\ fields[2] # empty /\ fields[1] = empty
    BY <2>1, <2>3
  <2>4. CASE 3 \in 1..n /\ fields[3] # empty /\ fields[1] = empty /\ fields[2] = empty
    BY <2>1, <2>4
  <2>5. CASE 4 \in 1..n /\ fields[4] # empty /\ fields[1] = empty /\ fields[2] = empty
             /\ fields[3] = empty
    BY <2>1, <2>5
  <2>6. QED
    BY <1>2, <2>2, <2>3, <2>4, <2>5
<1>3. QED
  BY <1>1, <1>2

\* Every payload has an outcome: a severity, or one of the two kinds of
\* exceptions the route tells apart (events.py:76-82).
LEMMA NormalizeIsTotal ==
    \A p \in AllPayloads : normalize(p) \in Severities \union {"ValueError", "OtherError"}
<1> SUFFICES ASSUME NEW p \in AllPayloads
             PROVE  normalize(p) \in Severities \union {"ValueError", "OtherError"}
  OBVIOUS
<1>1. CASE p \in CvePayloads
  <2>1. p.scores \in [1..3 -> Nat \union {NoScore}] /\ p.source = "CVE"
    BY <1>1 DEF CvePayloads
  <2>2. First(p.scores, NoScore, NoScore) \in Nat \union {NoScore}
    <3> DEFINE S == Nat \union {NoScore}
    <3>1. 3 \in 0..4 /\ p.scores \in [1..3 -> S] /\ NoScore \in S
      BY <2>1
    <3> HIDE DEF S
    <3>2. First(p.scores, NoScore, NoScore) \in S
      BY <3>1, FirstIsAField
    <3>3. QED
      BY <3>2 DEF S
  <2>3. First(p.scores, NoScore, NoScore) \in Int
    BY <2>2 DEF NoScore
  <2>4. QED
    BY <2>1, <2>3, LevelsAreSeverities DEF normalize, NvdParse
<1>2. CASE p \in SiemPayloads
  BY <1>2, LevelsAreSeverities DEF SiemPayloads, normalize, SiemParse
<1>3. CASE p \in SyslogPayloads
  <2>1. p.source = "SYSLOG" /\ p.pri \in Nat \union {NoPri}
    BY <1>3 DEF SyslogPayloads
  <2>2. decode_pri(NoPri) \in Severities
    BY DEF decode_pri, Severities
  <2>3. QED
    BY <2>1, <2>2, LevelsAreSeverities DEF normalize, SyslogParse
<1>4. CASE p \in OtherPayloads
  BY <1>4 DEF OtherPayloads, normalize
<1>5. QED
  BY <1>1, <1>2, <1>3, <1>4 DEF AllPayloads

\* A source that rates one event at least as severe as another keeps that
\* order when both are normalised: for CVSS scores (nvd_adapter.py:61) and
\* for syslog, where a smaller PRI % 8 is more severe (syslog_adapter.py:68).
THEOREM SeverityKeepsOrder ==
    /\ \A s, t \in Nat : s >= t => Rank(cvss_to_severity(s)) >= Rank(cvss_to_severity(t))
    /\ \A p, q \in Nat : p % 8 <= q % 8 => Rank(decode_pri(p)) >= Rank(decode_pri(q))
<1>1. \A s, t \in Nat : s >= t => Rank(cvss_to_severity(s)) >= Rank(cvss_to_severity(t))
  BY DEF cvss_to_severity, Rank, NoScore
<1>2. ASSUME NEW p \in Nat, NEW q \in Nat, p % 8 <= q % 8
      PROVE  Rank(decode_pri(p)) >= Rank(decode_pri(q))
  <2> DEFINE RankOf(n) == IF n <= 2 THEN 4 ELSE IF n = 3 THEN 3 ELSE IF n = 4 THEN 2
                          ELSE IF n = 5 THEN 1 ELSE 0
  <2>1. p % 8 \in 0..7 /\ q % 8 \in 0..7
    OBVIOUS
  <2>2. \A n \in 0..7 : Rank(SYSLOG_SEVERITY[n + 1]) = RankOf(n)
    BY DEF SYSLOG_SEVERITY, Rank
  <2>3. Rank(decode_pri(p)) = RankOf(p % 8) /\ Rank(decode_pri(q)) = RankOf(q % 8)
    BY <2>1, <2>2 DEF decode_pri, NoPri
  <2>4. \A m, n \in 0..7 : m <= n => RankOf(m) >= RankOf(n)
    OBVIOUS
  <2>5. QED
    BY <1>2, <2>1, <2>3, <2>4
<1>3. QED
  BY <1>1, <1>2

-----------------------------------------------------------------------------
(* Type correctness                                                        *)

\* The lowest role may ingest: a caller is let in or has no role at all.
LEMMA AnalystsMayIngest ==
    ASSUME NEW token \in Tokens
    PROVE  require_role(token, "ANALYST") \in {"granted", "401"}
BY DEF Tokens, Roles, ROLE_HIERARCHY, require_role

\* Publishing counts one event up and leaves the others alone.
LEMMA PublishCounts ==
    ASSUME TypeOK, NEW e \in Cves \union Requests, Publish(e)
    PROVE  /\ stream' \in [Cves \union Requests -> Nat]
           /\ stream'[e] = stream[e] + 1
           /\ \A d \in Cves \union Requests : d # e => stream'[d] = stream[d]
BY DEF TypeOK, Publish

\* A step keeps the types.
LEMMA TypeStep == IngestionAssumption /\ TypeOK /\ [Next]_vars => TypeOK'
<1> SUFFICES ASSUME IngestionAssumption, TypeOK, [Next]_vars
             PROVE  TypeOK'
  OBVIOUS
<1>f. Fault => faults' \in 0..MaxFaults
  BY DEF Fault, TypeOK, IngestionAssumption
<1>1. CASE Tick
  BY <1>1 DEF Tick, TypeOK, Times, jobVars, requestVars, IngestionAssumption
<1>2. ASSUME NEW c \in Cves, NvdPublishes(c)
      PROVE  TypeOK'
  BY <1>2 DEF NvdPublishes, TypeOK, jobVars, requestVars
<1>3. ASSUME NEW r \in Runs, BeginRun(r) \/ FinishRun(r)
      PROVE  TypeOK'
  BY <1>3 DEF BeginRun, FinishRun, TypeOK, worldVars, requestVars
<1>4. ASSUME NEW r \in Runs, Fetch(r)
      PROVE  TypeOK'
  <2>1. Response(r) \subseteq Cves
    BY DEF Response
  <2>2. QED
    BY <1>4, <2>1 DEF Fetch, TypeOK, worldVars, requestVars
<1>5. ASSUME NEW r \in Runs, PublishNext(r)
      PROVE  TypeOK'
  <2>1. PICK c \in batch[r] : Publish(c) /\ batch' = [batch EXCEPT ![r] = @ \ {c}]
    BY <1>5 DEF PublishNext
  <2>2. c \in Cves
    BY <2>1 DEF TypeOK
  <2>3. stream' \in [Cves \union Requests -> Nat]
    BY <2>1, <2>2, PublishCounts
  <2>4. QED
    BY <1>5, <2>1, <2>3 DEF PublishNext, TypeOK, worldVars, requestVars
<1>6. ASSUME NEW r \in Runs, RunFails(r)
      PROVE  TypeOK'
  <2>1. \A c \in batch[r] : c \in Cves
    BY DEF TypeOK
  <2>2. stream' \in [Cves \union Requests -> Nat]
    BY <1>6, <2>1, PublishCounts DEF RunFails, TypeOK
  <2>3. QED
    BY <1>6, <1>f, <2>2 DEF RunFails, TypeOK, worldVars, requestVars
<1>7. ASSUME NEW q \in Requests, Ingest(q)
      PROVE  TypeOK'
  <2>1. answer' \in [Requests -> {"new", "publish", "202", "400", "401", "422", "429", "500"}]
    BY <1>7, AnalystsMayIngest DEF Ingest, Accept, Answer, TypeOK, IngestionAssumption
  <2>2. event' \in [Requests -> Severities \union {NoEvent}]
    BY <1>7, NormalizeIsTotal DEF Ingest, Accept, Answer, TypeOK, IngestionAssumption
  <2>3. QED
    BY <1>7, <2>1, <2>2 DEF Ingest, TypeOK, worldVars, jobVars
<1>8. ASSUME NEW q \in Requests, PublishRequest(q) \/ PublishRequestFails(q)
      PROVE  TypeOK'
  <2>1. stream' \in [Cves \union Requests -> Nat]
    BY <1>8, PublishCounts DEF PublishRequest, PublishRequestFails, TypeOK
  <2>2. faults' \in 0..MaxFaults
    BY <1>8, <1>f DEF PublishRequest, PublishRequestFails, TypeOK
  <2>3. QED
    BY <1>8, <2>1, <2>2 DEF PublishRequest, PublishRequestFails, Answer, TypeOK, worldVars, jobVars
<1>9. CASE UNCHANGED vars
  BY <1>9 DEF vars, worldVars, jobVars, requestVars, TypeOK
<1>10. QED
  BY <1>1, <1>2, <1>3, <1>4, <1>5, <1>6, <1>7, <1>8, <1>9 DEF Next

\* The variables of the job, the API and the stream keep their types.
THEOREM IngestionTypeCorrect == Spec => []TypeOK
<1>1. IngestionAssumption /\ Init => TypeOK
  BY DEF IngestionAssumption, Init, TypeOK, Times
<1>2. QED
  BY <1>1, TypeStep, IngestionAssumption, PTL DEF Spec

-----------------------------------------------------------------------------
(* Answers                                                                 *)

AnswerInv == TypeOK /\ AnswersMatchStream

\* No step of a run touches a request's event, and none of another request
\* does either.
LEMMA AnswerStep == IngestionAssumption /\ AnswerInv /\ [Next]_vars => AnswerInv'
<1> SUFFICES ASSUME IngestionAssumption, AnswerInv, [Next]_vars
             PROVE  AnswerInv'
  OBVIOUS
<1> USE DEF AnswerInv
<1>1. TypeOK'
  BY TypeStep
<1>2. SUFFICES AnswersMatchStream'
  BY <1>1
<1>a. ASSUME UNCHANGED answer,
             \/ UNCHANGED stream
             \/ \E c \in Cves : Publish(c)
      PROVE  AnswersMatchStream'
  BY <1>a, PublishCounts DEF AnswersMatchStream, IngestionAssumption
<1>b. ASSUME NEW q \in Requests,
             \A d \in Requests : d # q => answer'[d] = answer[d] /\ stream'[d] = stream[d],
             \/ answer'[q] = "202" /\ stream'[q] = 1
             \/ answer'[q] = "500" /\ stream'[q] \in {0, 1}
             \/ answer'[q] \in {"publish", "400", "401", "422", "429"} /\ stream'[q] = 0
      PROVE  AnswersMatchStream'
  BY <1>b DEF AnswersMatchStream
<1>3. ASSUME NEW r \in Runs,
             BeginRun(r) \/ Fetch(r) \/ PublishNext(r) \/ FinishRun(r) \/ RunFails(r)
      PROVE  AnswersMatchStream'
  <2>1. \A c \in batch[r] : c \in Cves
    BY DEF TypeOK
  <2>2. QED
    BY <1>a, <1>3, <2>1 DEF BeginRun, Fetch, PublishNext, FinishRun, RunFails, requestVars
<1>4. ASSUME NEW q \in Requests, Ingest(q)
      PROVE  AnswersMatchStream'
  <2>1. answer[q] = "new" /\ UNCHANGED stream /\ stream[q] = 0
    BY <1>4 DEF Ingest, AnswersMatchStream
  <2>2. /\ \A d \in Requests : d # q => answer'[d] = answer[d]
        /\ answer'[q] \in {"publish", "400", "401", "422", "429", "500"}
    BY <1>4, AnalystsMayIngest DEF Ingest, Accept, Answer, TypeOK, IngestionAssumption
  <2>3. QED
    BY <1>b, <2>1, <2>2
<1>5. ASSUME NEW q \in Requests, PublishRequest(q) \/ PublishRequestFails(q)
      PROVE  AnswersMatchStream'
  <2>1. stream[q] = 0
    BY <1>5 DEF PublishRequest, PublishRequestFails, AnswersMatchStream
  <2>2. \A d \in Requests : d # q => answer'[d] = answer[d] /\ stream'[d] = stream[d]
    BY <1>5, PublishCounts DEF PublishRequest, PublishRequestFails, Answer, TypeOK
  <2>3. \/ answer'[q] = "202" /\ stream'[q] = 1
        \/ answer'[q] = "500" /\ stream'[q] \in {0, 1}
    BY <1>5, <2>1, PublishCounts DEF PublishRequest, PublishRequestFails, Answer, TypeOK
  <2>4. QED
    BY <1>b, <2>2, <2>3
<1>6. CASE Tick \/ \E c \in Cves : NvdPublishes(c)
  BY <1>a, <1>6 DEF Tick, NvdPublishes, requestVars
<1>7. CASE UNCHANGED vars
  BY <1>a, <1>7 DEF vars, requestVars
<1>8. QED
  BY <1>3, <1>4, <1>5, <1>6, <1>7 DEF Next

\* An accepted request is queued exactly once, a refused one never.
THEOREM AnswersAreTrue == Spec => []AnswersMatchStream
<1>1. IngestionAssumption /\ Init => AnswerInv
  BY DEF IngestionAssumption, Init, TypeOK, Times, AnswerInv, AnswersMatchStream
<1>2. QED
  BY <1>1, AnswerStep, IngestionAssumption, PTL DEF Spec, AnswerInv

-----------------------------------------------------------------------------
(* Coverage                                                                *)

\* CVE c was published in run r's window, before the second r began in.
InDayOf(r, c) ==
    /\ feed[c] # Never
    /\ Trunc(began[r] - Day) <= feed[c]
    /\ feed[c] < Trunc(began[r])

\* A run that has its response has published or still holds every CVE of its
\* day; the clock says that no CVE joins that day afterwards.
CoverInv ==
    /\ TypeOK
    /\ \A r \in Runs : run[r] # "new" => began[r] \in Times /\ began[r] <= now
    /\ \A r \in Runs, c \in Cves :
          run[r] \in {"publish", "done"} /\ InDayOf(r, c) =>
              stream[c] > 0 \/ (run[r] = "publish" /\ c \in batch[r])

\* The window starts no later than a day before the run and ends no later
\* than the run's beginning.
LEMMA WindowOfDay ==
    ASSUME IngestionAssumption, NEW t \in Times
    PROVE  /\ Trunc(t) <= t /\ Trunc(t) \in Int
           /\ Trunc(t - Day) <= t - Day /\ Trunc(t - Day) \in Nat
  BY DEF IngestionAssumption, Times, Trunc

LEMMA FromADayBefore ==
    ASSUME IngestionAssumption, NEW t \in Times, NEW f \in Int, t - Day <= f
    PROVE  Trunc(t - Day) <= f
<1>1. t \in Int /\ Day \in Int
  BY DEF IngestionAssumption, Times
<1> QED
  BY <1>1, WindowOfDay

\* Cutting off parts of a second leaves times in their order.
LEMMA CutsKeepOrder ==
    ASSUME IngestionAssumption, NEW t \in Times, NEW s \in Times, t - Day <= s
    PROVE  Trunc(t - Day) <= Trunc(s)
<1>1. t - Day \in Int /\ s \in Int
  BY DEF IngestionAssumption, Times
<1>2. ASSUME NEW a \in Int, NEW b \in Int, a <= b
      PROVE  a - (a % 2) <= b - (b % 2)
  BY <1>2
<1> QED
  BY <1>1, <1>2 DEF Trunc

\* No step loses a CVE of a run's day.
LEMMA CoverStep == IngestionAssumption /\ CoverInv /\ [Next]_vars => CoverInv'
<1> SUFFICES ASSUME IngestionAssumption, CoverInv, [Next]_vars
             PROVE  CoverInv'
  OBVIOUS
<1> USE DEF CoverInv
<1>1. TypeOK'
  BY TypeStep
<1> DEFINE Began(r) == run[r] # "new" => began[r] \in Times /\ began[r] <= now
           Covers(r, c) ==
               run[r] \in {"publish", "done"} /\ InDayOf(r, c) =>
                   stream[c] > 0 \/ (run[r] = "publish" /\ c \in batch[r])
           Inv == \A r \in Runs : Began(r) /\ \A c \in Cves : Covers(r, c)
<1>2. SUFFICES Inv'
  BY <1>1
<1>3. Inv
  OBVIOUS
<1>4. now \in Int /\ \A r \in Runs : began[r] \in Int
  BY DEF TypeOK, Times, Never, IngestionAssumption
\* Events are never taken off the stream.
<1>5. ASSUME NEW e \in Cves \union Requests, Publish(e)
      PROVE  \A c \in Cves : stream[c] > 0 => stream'[c] > 0
  BY <1>5, PublishCounts DEF TypeOK
<1>6. CASE Tick
  BY <1>3, <1>4, <1>6 DEF Tick, jobVars, InDayOf
<1>7. ASSUME NEW c \in Cves, NvdPublishes(c)
      PROVE  Inv'
  <2>1. UNCHANGED <<now, stream, run, began, batch>>
    BY <1>7 DEF NvdPublishes, jobVars
  <2>2. \A d \in Cves : feed'[d] = IF d = c THEN now ELSE feed[d]
    BY <1>7 DEF NvdPublishes, TypeOK
  <2>3. ASSUME NEW r \in Runs, run[r] # "new"
        PROVE  ~ (now < Trunc(began[r]))
    BY <1>3, <1>4, <2>3, WindowOfDay
  <2>4. QED
    BY <1>3, <2>1, <2>2, <2>3 DEF InDayOf
<1>8. ASSUME NEW r \in Runs, BeginRun(r)
      PROVE  Inv'
  <2>1. UNCHANGED <<now, feed, stream, batch>>
    BY <1>8 DEF BeginRun, worldVars
  <2>2. \A s \in Runs : s # r => run'[s] = run[s] /\ began'[s] = began[s]
    BY <1>8 DEF BeginRun, TypeOK
  <2>3. run'[r] = "fetch" /\ began'[r] = now
    BY <1>8 DEF BeginRun, TypeOK
  <2>4. QED
    BY <1>3, <1>4, <2>1, <2>2, <2>3 DEF InDayOf, TypeOK
<1>9. ASSUME NEW r \in Runs, Fetch(r)
      PROVE  Inv'
  <2>1. UNCHANGED <<now, feed, stream, began>> /\ run[r] = "fetch"
    BY <1>9 DEF Fetch, worldVars
  <2>2. \A s \in Runs : s # r => run'[s] = run[s] /\ batch'[s] = batch[s]
    BY <1>9 DEF Fetch, TypeOK
  <2>3. run'[r] = "failed" \/ (run'[r] = "publish" /\ batch'[r] = Response(r))
    BY <1>9 DEF Fetch, TypeOK
  <2>4. ASSUME NEW c \in Cves, InDayOf(r, c)
        PROVE  c \in Response(r)
    <3>1. began[r] \in Times
      BY <1>3, <2>1
    <3>2. feed[c] \in Int
      BY DEF TypeOK, Times, Never, IngestionAssumption
    <3>3. feed[c] \in Window(began[r])
      BY <2>4, <3>1, <3>2, <1>4, WindowOfDay DEF InDayOf, Window, IngestionAssumption
    <3>4. QED
      BY <3>3 DEF Response
  <2>5. QED
    BY <1>3, <2>1, <2>2, <2>3, <2>4 DEF InDayOf
<1>10. ASSUME NEW r \in Runs, PublishNext(r)
       PROVE  Inv'
  <2>1. PICK c \in batch[r] : Publish(c) /\ batch' = [batch EXCEPT ![r] = @ \ {c}]
    BY <1>10 DEF PublishNext
  <2>2. c \in Cves
    BY <2>1 DEF TypeOK
  <2>3. stream'[c] > 0
    BY <2>1, <2>2, PublishCounts DEF TypeOK
  <2>4. UNCHANGED <<now, feed, run, began>>
    BY <1>10 DEF PublishNext, worldVars
  <2>5. \A s \in Runs : batch'[s] = IF s = r THEN batch[s] \ {c} ELSE batch[s]
    BY <2>1 DEF TypeOK
  <2>6. QED
    BY <1>3, <1>5, <2>1, <2>2, <2>3, <2>4, <2>5 DEF InDayOf
<1>11. ASSUME NEW r \in Runs, FinishRun(r)
       PROVE  Inv'
  <2>1. UNCHANGED <<now, feed, stream, began, batch>> /\ batch[r] = {} /\ run[r] = "publish"
    BY <1>11 DEF FinishRun, worldVars
  <2>2. \A s \in Runs : run'[s] = IF s = r THEN "done" ELSE run[s]
    BY <1>11 DEF FinishRun, TypeOK
  <2>3. QED
    BY <1>3, <2>1, <2>2 DEF InDayOf
<1>12. ASSUME NEW r \in Runs, RunFails(r)
       PROVE  Inv'
  <2>1. UNCHANGED <<now, feed, began>> /\ run[r] # "new"
    BY <1>12 DEF RunFails, worldVars
  <2>2. \A s \in Runs : s # r => run'[s] = run[s] /\ batch'[s] = batch[s]
    BY <1>12 DEF RunFails, TypeOK
  <2>3. run'[r] = "failed"
    BY <1>12 DEF RunFails, TypeOK
  <2>4. \A c \in Cves : stream[c] > 0 => stream'[c] > 0
    BY <1>5, <1>12 DEF RunFails, TypeOK
  <2>5. QED
    BY <1>3, <2>1, <2>2, <2>3, <2>4 DEF InDayOf
<1>13. ASSUME NEW q \in Requests, Ingest(q) \/ PublishRequest(q) \/ PublishRequestFails(q)
       PROVE  Inv'
  <2>1. UNCHANGED <<now, feed, run, began, batch>>
    BY <1>13 DEF Ingest, PublishRequest, PublishRequestFails, worldVars, jobVars
  <2>2. \A c \in Cves : stream[c] > 0 => stream'[c] > 0
    BY <1>5, <1>13 DEF Ingest, PublishRequest, PublishRequestFails
  <2>3. QED
    BY <1>3, <2>1, <2>2 DEF InDayOf
<1>14. CASE UNCHANGED vars
  BY <1>3, <1>14 DEF vars, worldVars, jobVars, InDayOf
<1>15. QED
  BY <1>6, <1>7, <1>8, <1>9, <1>10, <1>11, <1>12, <1>13, <1>14 DEF Next

\* A completed run has queued every CVE published in the day before it.
THEOREM CompletedRunsCover == Spec => []CompletedRunCoversItsDay
<1>1. IngestionAssumption /\ Init => CoverInv
  BY DEF IngestionAssumption, Init, TypeOK, Times, CoverInv
<1>2. CoverInv => CompletedRunCoversItsDay
  <2> SUFFICES ASSUME CoverInv, NEW r \in Runs, NEW c \in Cves,
                      run[r] = "done", feed[c] # Never,
                      began[r] - Day <= feed[c], feed[c] < Trunc(began[r])
               PROVE  stream[c] > 0
    BY DEF CompletedRunCoversItsDay
  <2>1. began[r] \in Times
    BY DEF CoverInv
  <2>2. feed[c] \in Int
    BY IngestionAssumption DEF CoverInv, TypeOK, Times, IngestionAssumption
  <2>3. InDayOf(r, c)
    BY <2>1, <2>2, FromADayBefore, IngestionAssumption DEF InDayOf
  <2> QED
    BY <2>3 DEF CoverInv
<1>3. QED
  BY <1>1, <1>2, CoverStep, IngestionAssumption, PTL DEF Spec

\* Completed runs that begin at most a day apart leave no gap between the day
\* before the first and the second the last begins in, however many they are:
\* the earliest run that begins in a later second than the CVE's has it.
THEOREM DailyRunsCover == Spec => []DailyRunsLeaveNoGap
<1>1. IngestionAssumption /\ Init => CoverInv
  BY DEF IngestionAssumption, Init, TypeOK, Times, CoverInv
<1>2. CoverInv => DailyRunsLeaveNoGap
  <2> SUFFICES ASSUME CoverInv,
                      NEW runs \in SUBSET {r \in Runs : run[r] = "done"},
                      NEW first \in runs, NEW last \in runs, Daily(runs, first),
                      NEW c \in Cves, feed[c] # Never,
                      began[first] - Day <= feed[c], feed[c] < Trunc(began[last])
               PROVE  stream[c] > 0
    BY DEF DailyRunsLeaveNoGap
  <2>a. \A r \in runs : r \in Runs /\ run[r] = "done" /\ began[r] \in Times
    BY DEF CoverInv
  <2>b. feed[c] \in Times
    BY DEF CoverInv, TypeOK
  <2>c. Times \subseteq Nat
    BY IngestionAssumption DEF IngestionAssumption, Times
  <2> DEFINE Later == {r \in runs : feed[c] < Trunc(began[r])}
             T == {began[r] : r \in Later}
  <2>1. T \subseteq Nat /\ T # {}
    BY <2>a, <2>c
  <2> HIDE DEF T
  <2>2. PICK t \in T : \A u \in T : t <= u
    BY <2>1, SmallestOf
  <2>3. PICK r \in Later : began[r] = t
    BY <2>2 DEF T
  <2>4. \A s \in Later : began[r] <= began[s]
    BY <2>2, <2>3 DEF T
  <2>5. began[r] \in Times /\ run[r] = "done" /\ r \in Runs /\ feed[c] < Trunc(began[r])
    BY <2>a, <2>3
  <2>d. r \in runs /\ \A s \in runs : s \notin Later => ~(feed[c] < Trunc(began[s]))
    BY <2>3
  <2> HIDE DEF Later
  <2>e. feed[c] \in Int /\ began[r] \in Int
    <3>1. feed[c] \in Nat /\ began[r] \in Nat
      BY <2>b, <2>c, <2>5, Zenon
    <3> QED
      BY <3>1
  <2>6. Trunc(began[r] - Day) <= feed[c]
    <3>1. CASE began[r] = began[first]
      <4>1. began[r] - Day <= feed[c] /\ feed[c] \in Int
        BY <2>e, <3>1
      <4> QED
        BY <2>5, <4>1, FromADayBefore, IngestionAssumption
    <3>2. CASE began[r] # began[first]
      <4>1. PICK s \in runs : began[s] < began[r] /\ began[r] - Day <= began[s]
        BY <2>d, <3>2 DEF Daily
      <4>2. began[s] \in Times /\ began[s] \in Nat /\ began[r] \in Nat
        BY <2>a, <2>c, <2>5, <4>1
      <4>3. s \notin Later
        BY <2>4, <4>1, <4>2
      <4>4. ~(feed[c] < Trunc(began[s]))
        BY <2>d, <4>1, <4>3
      <4>5. Trunc(began[r] - Day) <= Trunc(began[s])
        BY <2>5, <4>1, <4>2, CutsKeepOrder, IngestionAssumption
      <4>6. Trunc(began[s]) \in Int /\ Trunc(began[r] - Day) \in Int
        BY <2>5, <4>2, WindowOfDay, IngestionAssumption
      <4>7. Trunc(began[s]) <= feed[c]
        BY <2>e, <4>4, <4>6
      <4> QED
        BY <2>e, <4>5, <4>6, <4>7
    <3> QED
      BY <3>1, <3>2
  <2>7. InDayOf(r, c)
    BY <2>5, <2>6 DEF InDayOf
  <2> QED
    BY <2>5, <2>7 DEF CoverInv
<1>3. QED
  BY <1>1, <1>2, CoverStep, IngestionAssumption, PTL DEF Spec

-----------------------------------------------------------------------------
(* Copies                                                                  *)

\* The runs that have had their turn at CVE c: it was in their response and
\* they do not hold it any more.
Paid(c) == {r \in Accountable(c) : run[r] \notin {"new", "fetch"} /\ c \notin batch[r]}

\* Each copy on the stream has a run of its own that paid for it; what a run
\* holds it may still pay for.
CopiesInv ==
    /\ CoverInv
    /\ \A c \in Cves : feed[c] <= now
    /\ \A r \in Runs : run[r] = "new" => began[r] = Never
    /\ \A r \in Runs : \A c \in batch[r] : run[r] = "publish" /\ r \in Accountable(c)
    /\ \A c \in Cves : stream[c] <= Cardinality(Paid(c))

\* A run that may have published c remains one: what NVD publishes after the
\* run's beginning is not in its window.
LEMMA AccountableStays ==
    ASSUME IngestionAssumption, CopiesInv, [Next]_vars, NEW c \in Cves, NEW r \in Accountable(c)
    PROVE  r \in Accountable(c)'
<1>1. r \in Runs /\ began[r] # Never /\ feed[c] \in Window(began[r])
  BY DEF Accountable
<1>2. run[r] # "new" /\ began[r] \in Times /\ began[r] <= now
  BY <1>1 DEF CopiesInv, CoverInv
<1>3. began'[r] = began[r]
  BY <1>1, <1>2 DEF Next, vars, worldVars, jobVars, requestVars, Tick, NvdPublishes, BeginRun, Fetch,
     PublishNext, FinishRun, RunFails, Ingest, PublishRequest, PublishRequestFails, CopiesInv,
     CoverInv, TypeOK
<1>4. \A d \in Cves : feed'[d] = feed[d] \/ (feed[d] = Never /\ feed'[d] = now)
  BY DEF Next, vars, worldVars, jobVars, requestVars, Tick, NvdPublishes, BeginRun, Fetch,
     PublishNext, FinishRun, RunFails, Ingest, PublishRequest, PublishRequestFails, CopiesInv,
     CoverInv, TypeOK
<1>5. Trunc(began[r]) <= began[r] /\ Trunc(began[r]) \in Int /\ 0 <= Trunc(began[r] - Day)
      /\ Trunc(began[r] - Day) \in Int /\ began[r] \in Int /\ now \in Int
  BY <1>2 DEF IngestionAssumption, Times, Trunc, CopiesInv, CoverInv, TypeOK
<1>6. feed'[c] = feed[c]
  BY <1>1, <1>4, <1>5 DEF Window, Never
<1>7. ASSUME NEW m \in Malformed, feed'[m] \in Window(began[r])
      PROVE  feed'[m] = began[r]
  <2>1. m \in Cves
    BY DEF IngestionAssumption
  <2>2. CASE feed'[m] = feed[m]
    BY <1>7, <2>2 DEF Accountable
  <2>3. CASE feed'[m] = now
    BY <1>2, <1>5, <1>7, <2>3 DEF Window
  <2>4. QED
    BY <1>4, <2>1, <2>2, <2>3
<1>8. QED
  BY <1>1, <1>3, <1>6, <1>7 DEF Accountable, Window

\* Nor is a payment taken back.
LEMMA PaidStays ==
    ASSUME IngestionAssumption, CopiesInv, [Next]_vars, NEW c \in Cves
    PROVE  Paid(c) \subseteq Paid(c)'
<1> SUFFICES ASSUME NEW r \in Paid(c)
             PROVE  r \in Paid(c)'
  OBVIOUS
<1>1. r \in Accountable(c) /\ r \in Runs /\ run[r] \notin {"new", "fetch"} /\ c \notin batch[r]
  BY DEF Paid, Accountable
<1>2. r \in Accountable(c)'
  BY <1>1, AccountableStays
<1>3. run'[r] \notin {"new", "fetch"} /\ c \notin batch'[r]
  BY <1>1 DEF Next, vars, worldVars, jobVars, requestVars, Tick, NvdPublishes, BeginRun, Fetch,
     PublishNext, FinishRun, RunFails, Ingest, PublishRequest, PublishRequestFails, CopiesInv,
     CoverInv, TypeOK
<1>4. QED
  BY <1>2, <1>3 DEF Paid

\* The runs are finitely many, and so are those that paid.
LEMMA PaidFinite ==
    ASSUME IngestionAssumption, NEW c
    PROVE  IsFiniteSet(Paid(c)) /\ Cardinality(Paid(c)) \in Nat
<1>1. Paid(c) \subseteq Runs /\ IsFiniteSet(Runs)
  BY DEF Paid, Accountable, IngestionAssumption
<1>2. QED
  BY <1>1, FS_Subset, FS_CardinalityType

\* A copy that a step adds is paid for by a run that had not paid before.
LEMMA CopyIsPaid ==
    ASSUME IngestionAssumption, CopiesInv, [Next]_vars, NEW c \in Cves
    PROVE  \/ stream'[c] = stream[c]
           \/ /\ stream'[c] = stream[c] + 1
              /\ \E r \in Paid(c)' : r \notin Paid(c)
<1> USE DEF CopiesInv, CoverInv
<1>1. ASSUME NEW e \in Cves \union Requests, Publish(e)
      PROVE  stream'[c] = IF e = c THEN stream[c] + 1 ELSE stream[c]
  BY <1>1, PublishCounts
<1>2. ASSUME NEW r \in Runs, PublishNext(r)
      PROVE  \/ stream'[c] = stream[c]
             \/ stream'[c] = stream[c] + 1 /\ r \in Paid(c)' /\ r \notin Paid(c)
  <2>1. PICK d \in batch[r] : Publish(d) /\ batch' = [batch EXCEPT ![r] = @ \ {d}]
    BY <1>2 DEF PublishNext
  <2>2. d \in Cves
    BY <2>1 DEF TypeOK
  <2>3. CASE d = c
    <3>1. r \in Accountable(c) /\ r \notin Paid(c)
      BY <2>1, <2>3 DEF Paid
    <3>2. run'[r] = "publish" /\ c \notin batch'[r]
      BY <1>2, <2>1, <2>3 DEF PublishNext, TypeOK
    <3>3. r \in Paid(c)'
      BY <3>1, <3>2, AccountableStays DEF Paid
    <3>4. QED
      BY <1>1, <2>1, <2>2, <2>3, <3>1, <3>3
  <2>4. QED
    BY <1>1, <2>1, <2>2, <2>3
<1>3. ASSUME NEW r \in Runs, RunFails(r), stream'[c] # stream[c]
      PROVE  stream'[c] = stream[c] + 1 /\ r \in Paid(c)' /\ r \notin Paid(c)
  <2>1. PICK d \in batch[r] : Publish(d)
    BY <1>3 DEF RunFails
  <2>2. d \in Cves
    BY <2>1 DEF TypeOK
  <2>3. d = c
    BY <1>1, <1>3, <2>1, <2>2
  <2>4. r \in Accountable(c) /\ r \notin Paid(c)
    BY <2>1, <2>3 DEF Paid
  <2>5. run'[r] = "failed" /\ c \notin batch'[r]
    BY <1>3 DEF RunFails, TypeOK
  <2>6. r \in Paid(c)'
    BY <2>4, <2>5, AccountableStays DEF Paid
  <2>7. QED
    BY <1>1, <2>1, <2>2, <2>3, <2>4, <2>6
<1>4. ASSUME NEW q \in Requests, PublishRequest(q) \/ PublishRequestFails(q)
      PROVE  stream'[c] = stream[c]
  <2>1. q # c
    BY DEF IngestionAssumption
  <2>2. QED
    BY <1>1, <1>4, <2>1 DEF PublishRequest, PublishRequestFails
<1>5. ASSUME \/ Tick
             \/ \E d \in Cves : NvdPublishes(d)
             \/ \E r \in Runs : BeginRun(r) \/ Fetch(r) \/ FinishRun(r)
             \/ \E q \in Requests : Ingest(q)
             \/ UNCHANGED vars
      PROVE  stream' = stream
  BY <1>5 DEF Tick, NvdPublishes, BeginRun, Fetch, FinishRun, Ingest, vars
<1>6. QED
  BY <1>2, <1>3, <1>4, <1>5 DEF Next

\* A step keeps the books.
LEMMA CopiesStep == IngestionAssumption /\ CopiesInv /\ [Next]_vars => CopiesInv'
<1> SUFFICES ASSUME IngestionAssumption, CopiesInv, [Next]_vars
             PROVE  CopiesInv'
  OBVIOUS
<1>1. CoverInv'
  BY CoverStep DEF CopiesInv
<1>2. \A c \in Cves : feed'[c] <= now'
  <2>1. now \in Int /\ \A c \in Cves : feed[c] \in Int
    BY DEF CopiesInv, CoverInv, TypeOK, Times, Never, IngestionAssumption
  <2>2. now' = now \/ now' = now + 1
    BY DEF Next, vars, worldVars, Tick, NvdPublishes, BeginRun, Fetch, PublishNext, FinishRun,
       RunFails, Ingest, PublishRequest, PublishRequestFails
  <2>3. \A c \in Cves : feed'[c] = feed[c] \/ feed'[c] = now
    BY DEF Next, vars, worldVars, Tick, NvdPublishes, BeginRun, Fetch, PublishNext, FinishRun,
       RunFails, Ingest, PublishRequest, PublishRequestFails, CopiesInv, CoverInv, TypeOK
  <2>4. QED
    BY <2>1, <2>2, <2>3 DEF CopiesInv
<1>3. \A r \in Runs : run'[r] = "new" => began'[r] = Never
  BY DEF Next, vars, jobVars, Tick, NvdPublishes, BeginRun, Fetch, PublishNext, FinishRun,
     RunFails, Ingest, PublishRequest, PublishRequestFails, CopiesInv, CoverInv, TypeOK
<1>4. ASSUME NEW r \in Runs, NEW c \in batch'[r]
      PROVE  run'[r] = "publish" /\ r \in Accountable(c)'
  <2>1. c \in Cves
    BY <1>1 DEF CoverInv, TypeOK
  <2>2. CASE c \in batch[r]
    <3>1. r \in Accountable(c)'
      BY <2>1, <2>2, AccountableStays DEF CopiesInv
    <3>2. run'[r] = "publish"
      BY <1>4, <2>2 DEF Next, vars, jobVars, Tick, NvdPublishes, BeginRun, Fetch, PublishNext,
         FinishRun, RunFails, Ingest, PublishRequest, PublishRequestFails, CopiesInv, CoverInv, TypeOK
    <3>3. QED
      BY <3>1, <3>2
  <2>3. CASE c \notin batch[r]
    <3>1. /\ run[r] = "fetch" /\ run'[r] = "publish" /\ batch'[r] = Response(r)
          /\ Response(r) \intersect Malformed = {} /\ UNCHANGED <<feed, began>>
      BY <1>4, <2>3 DEF Next, vars, worldVars, jobVars, Tick, NvdPublishes, BeginRun, Fetch,
         PublishNext, FinishRun, RunFails, Ingest, PublishRequest, PublishRequestFails, CopiesInv,
         CoverInv, TypeOK
    <3>2. began[r] # Never
      BY <3>1 DEF CopiesInv, CoverInv, Times, Never, IngestionAssumption
    <3>3. feed[c] \in Window(began[r])
      BY <1>4, <3>1 DEF Response
    <3>4. \A m \in Malformed : feed[m] \notin Window(began[r])
      BY <3>1 DEF Response, IngestionAssumption
    <3>5. r \in Accountable(c)
      BY <3>2, <3>3, <3>4 DEF Accountable
    <3>6. QED
      BY <2>1, <3>1, <3>5, AccountableStays
  <2>4. QED
    BY <2>2, <2>3
<1>5. ASSUME NEW c \in Cves
      PROVE  stream'[c] <= Cardinality(Paid(c)')
  <2>1. IsFiniteSet(Paid(c)) /\ Cardinality(Paid(c)) \in Nat
    BY PaidFinite
  <2>2. IsFiniteSet(Paid(c)') /\ Cardinality(Paid(c)') \in Nat
    <3>1. Paid(c)' \subseteq Runs /\ IsFiniteSet(Runs)
      BY DEF Paid, Accountable, IngestionAssumption
    <3>2. QED
      BY <3>1, FS_Subset, FS_CardinalityType
  <2>3. Paid(c) \subseteq Paid(c)'
    BY PaidStays
  <2>4. Cardinality(Paid(c)) <= Cardinality(Paid(c)')
    BY <2>2, <2>3, FS_Subset
  <2>5. ASSUME NEW r \in Paid(c)', r \notin Paid(c)
        PROVE  Cardinality(Paid(c)) + 1 <= Cardinality(Paid(c)')
    <3>1. Cardinality(Paid(c) \union {r}) = Cardinality(Paid(c)) + 1
      BY <2>1, <2>5, FS_AddElement
    <3>2. Paid(c) \union {r} \subseteq Paid(c)'
      BY <2>3, <2>5
    <3>3. Cardinality(Paid(c) \union {r}) <= Cardinality(Paid(c)')
      BY <2>2, <3>2, FS_Subset
    <3>4. QED
      BY <3>1, <3>3
  <2>6. stream[c] \in Nat /\ stream[c] <= Cardinality(Paid(c))
    BY DEF CopiesInv, CoverInv, TypeOK
  <2>7. QED
    BY <2>1, <2>2, <2>4, <2>5, <2>6, CopyIsPaid
<1>6. QED
  BY <1>1, <1>2, <1>3, <1>4, <1>5 DEF CopiesInv

\* Each copy of a CVE is accounted for by a run that had it in its response.
THEOREM CopiesAreAccounted == Spec => []CopiesAccounted
<1>1. ASSUME IngestionAssumption, Init
      PROVE  CopiesInv
  <2>1. CoverInv
    BY <1>1 DEF IngestionAssumption, Init, TypeOK, Times, CoverInv
  <2>2. \A c \in Cves : Cardinality(Paid(c)) \in Nat
    BY <1>1, PaidFinite
  <2>3. QED
    BY <1>1, <2>1, <2>2 DEF CopiesInv, Init, IngestionAssumption, Never
<1>2. ASSUME IngestionAssumption, CopiesInv
      PROVE  CopiesAccounted
  <2>1. SUFFICES ASSUME NEW c \in Cves
                 PROVE  stream[c] <= Cardinality(Accountable(c))
    BY DEF CopiesAccounted
  <2>2. IsFiniteSet(Accountable(c)) /\ Cardinality(Accountable(c)) \in Nat
    <3>1. Accountable(c) \subseteq Runs /\ IsFiniteSet(Runs)
      BY <1>2 DEF Accountable, IngestionAssumption
    <3>2. QED
      BY <3>1, FS_Subset, FS_CardinalityType
  <2>3. Cardinality(Paid(c)) <= Cardinality(Accountable(c))
    BY <2>2, FS_Subset DEF Paid
  <2>4. Cardinality(Paid(c)) \in Nat
    BY <1>2, PaidFinite
  <2>5. stream[c] \in Nat /\ stream[c] <= Cardinality(Paid(c))
    BY <1>2 DEF CopiesInv, CoverInv, TypeOK
  <2>6. QED
    BY <2>2, <2>3, <2>4, <2>5
<1>3. QED
  BY <1>1, <1>2, CopiesStep, IngestionAssumption, PTL DEF Spec

=============================================================================
