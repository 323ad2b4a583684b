------------------------- MODULE RunbookStoreProofs -------------------------
(***************************************************************************)
(* Proofs about RunbookStore, for any files, callers and bounds.           *)
(***************************************************************************)
EXTENDS RunbookStore, TLAPS

-----------------------------------------------------------------------------
(* Type correctness                                                        *)

\* How the steps of a call keep the calls' variables well typed.
LEMMA RaiseKeepsCalls ==
    ASSUME NEW c \in Callers, CallsOK, Return(c),
           \/ UNCHANGED <<handle, todo>>
           \/ EndScript
    PROVE  CallsOK'
BY DEF CallsOK, EndScript, Return, Commands, Operations, Processes

LEMMA BeginKeepsCalls ==
    ASSUME NEW c \in Callers, CallsOK, NEW o \in Operations, NEW i \in Ids \union {NoId},
           NEW v \in Texts \union {NoText}, Begin(c, o, i, v),
           o \in {"create", "delete"} => i \in Ids,
           o = "create" => v \in Texts,
           todo' \in SUBSET Files
    PROVE  CallsOK'
<1>1. AfterInit(o) \in Commands
  BY DEF AfterInit, Operations, Commands
<1>2. /\ AfterInit(o) \in {"upsert", "delete"} => i \in Ids
      /\ AfterInit(o) = "upsert" => v \in Texts
  BY DEF AfterInit, Operations
<1>3. pc' \in [Callers -> Commands] /\ op' \in [Callers -> Operations]
  BY <1>1 DEF Begin, CallsOK, Commands
<1>4. id' \in [Callers -> Ids \union {NoId}] /\ text' \in [Callers -> Texts \union {NoText}]
  BY DEF Begin, CallsOK
<1>5. \A d \in Callers : pc'[d] \in {"upsert", "delete"} => id'[d] \in Ids
  BY <1>2 DEF Begin, CallsOK
<1>6. \A d \in Callers : pc'[d] = "upsert" => text'[d] \in Texts
  BY <1>2 DEF Begin, CallsOK
<1>7. QED
  BY <1>3, <1>4, <1>5, <1>6 DEF Begin, CallsOK

LEMMA GoToKeepsCalls ==
    ASSUME NEW c \in Callers, CallsOK, NEW k \in Commands \ {"upsert", "delete"}, GoTo(c, k),
           handle' \in [Processes -> {"none", "open"}], UNCHANGED todo
    PROVE  CallsOK'
BY DEF CallsOK, GoTo

\* Where a call can be: only a call that reads, warms up or seeds initialises
\* the index (create and delete requests find the API's handle open), the
\* loader alone writes files' ids, and requests write uuids.
CallShape ==
    \A c \in Callers :
        /\ pc[c] \in {"list", "create", "open"} =>
               IF c = Loader THEN op[c] = "seed" ELSE op[c] \in {"startup", "read"}
        /\ pc[c] = "upsert" => id[c] \in IF c = Loader THEN Files ELSE Uuids
        /\ pc[c] = "nextFile" => c = Loader

Typed == TypeOK /\ CallShape

\* A step of any kind keeps the types and the shape.
LEMMA TypeStep == StoreAssumption /\ Typed /\ [Next]_vars => Typed'
<1> SUFFICES ASSUME StoreAssumption, Typed, [Next]_vars
             PROVE  Typed'
  OBVIOUS
<1> USE DEF Typed, TypeOK
<1>f. Fault => faults' \in 0..MaxFaults /\ deletes' = deletes
  BY DEF Fault, ObserverOK, StoreAssumption
<1>r. \A c \in Callers : pc[c] \in {"upsert", "delete"} =>
          /\ id[c] \in Ids
          /\ pc[c] = "upsert" => text[c] \in Texts
  BY DEF CallsOK
<1>v. \A i : RemoveVector(i) =>
          /\ vectors' \in [Ids -> Texts \union {NoText}]
          /\ promised' \in [Ids -> Texts \union {NoText}]
          /\ floor' \in [Files -> Texts \union {NoText}]
  BY DEF RemoveVector, ServiceOK, ObserverOK
<1>s. \A c \in Callers : Return(c) => CallShape'
  BY DEF Return, CallShape, CallsOK
<1>i. \A f \in Files : f \in Ids
  BY DEF Ids
<1>1. ASSUME NEW f \in Files, EditFile(f)
      PROVE  Typed'
  BY <1>1 DEF EditFile, serviceVars, callVars, observerVars, boundVars, ServiceOK, CallsOK,
     ObserverOK, CallShape
<1>2. ASSUME NEW c \in Callers, Retrieve(c) \/ Startup(c) \/ ReadRequest(c)
      PROVE  Typed'
  <2>1. PICK o \in {"read", "startup"} : Begin(c, o, NoId, NoText) /\ c # Loader
    BY <1>2 DEF Retrieve, Startup, ReadRequest, Serving, StoreAssumption
  <2>2. UNCHANGED <<todo, floor, deletes>>
    BY <1>2 DEF Retrieve, Startup, ReadRequest
  <2>3. CallsOK'
    <3>1. o \in Operations /\ o \notin {"create", "delete"} /\ todo' \in SUBSET Files
      BY <2>1, <2>2 DEF Operations, CallsOK
    <3>2. QED
      BY <2>1, <3>1, BeginKeepsCalls
  <2>4. CallShape'
    BY <2>1 DEF Begin, AfterInit, CallShape, CallsOK
  <2>5. QED
    BY <2>1, <2>2, <2>3, <2>4 DEF Begin, serviceVars, ServiceOK, ObserverOK
<1>3. ASSUME NEW c \in Callers, CreateRequest(c)
      PROVE  Typed'
  <2>1. PICK i \in Uuids : Begin(c, "create", i, 1)
    BY <1>3 DEF CreateRequest
  <2>2. /\ UNCHANGED <<todo, floor, deletes>>
        /\ handle[ProcessOf(c)] = "open" /\ c # Loader
        /\ 1 \in Texts
    BY <1>3 DEF CreateRequest, Serving, ProcessOf, StoreAssumption, Texts
  <2>3. CallsOK'
    BY <2>1, <2>2, BeginKeepsCalls DEF Operations, CallsOK, Ids
  <2>4. CallShape'
    BY <2>1, <2>2 DEF Begin, AfterInit, CallShape, CallsOK
  <2>5. QED
    BY <2>1, <2>2, <2>3, <2>4 DEF Begin, serviceVars, ServiceOK, ObserverOK
<1>4. ASSUME NEW c \in Callers, DeleteRequest(c)
      PROVE  Typed'
  <2>1. PICK i \in Ids : Begin(c, "delete", i, NoText)
    BY <1>4 DEF DeleteRequest
  <2>2. /\ UNCHANGED <<todo, floor>>
        /\ deletes' \in 0..MaxDeletes
        /\ handle[ProcessOf(c)] = "open" /\ c # Loader
    BY <1>4 DEF DeleteRequest, Serving, ProcessOf, StoreAssumption, ObserverOK
  <2>3. CallsOK'
    BY <2>1, <2>2, BeginKeepsCalls DEF Operations, CallsOK
  <2>4. CallShape'
    BY <2>1, <2>2 DEF Begin, AfterInit, CallShape, CallsOK
  <2>5. QED
    BY <2>1, <2>2, <2>3, <2>4 DEF Begin, serviceVars, ServiceOK, ObserverOK
<1>5. CASE StartLoad
  <2>1. Loader \in Callers /\ Begin(Loader, "seed", NoId, NoText) /\ todo' = Files
    BY <1>5 DEF StartLoad, Callers
  <2>2. CallsOK'
    BY <2>1, BeginKeepsCalls DEF Operations
  <2>3. CallShape'
    BY <2>1 DEF Begin, AfterInit, CallShape, CallsOK
  <2>4. QED
    BY <1>5, <2>1, <2>2, <2>3 DEF StartLoad, Begin, serviceVars, ServiceOK, ObserverOK
<1>6. ASSUME NEW c \in Callers, CallRuns(c)
      PROVE  Typed'
  <2>1. CASE ListIndexes(c)
    <3>1. CallsOK'
      BY <2>1, GoToKeepsCalls DEF ListIndexes, CallsOK, Commands
    <3>2. CallShape'
      BY <2>1 DEF ListIndexes, GoTo, CallShape, CallsOK
    <3>3. QED
      BY <2>1, <3>1, <3>2
         DEF ListIndexes, serviceVars, observerVars, boundVars, ServiceOK, ObserverOK
  <2>2. CASE CreateIndex(c)
    <3>1. CallsOK'
      BY <2>2, GoToKeepsCalls DEF CreateIndex, CallsOK, Commands
    <3>2. CallShape'
      BY <2>2 DEF CreateIndex, GoTo, CallShape, CallsOK
    <3>3. QED
      BY <2>2, <3>1, <3>2 DEF CreateIndex, observerVars, boundVars, ServiceOK, ObserverOK
  <2>3. CASE CreateConflicts(c)
    <3>1. CallsOK' /\ CallShape'
      BY <1>s, <2>3, RaiseKeepsCalls DEF CreateConflicts, Raise
    <3>2. QED
      BY <2>3, <3>1
         DEF CreateConflicts, Raise, Return, serviceVars, boundVars, ServiceOK, ObserverOK
  <2>4. CASE OpenIndex(c)
    <3>1. AfterInit(op[c]) \in {"idle", "read", "nextFile"}
          /\ (AfterInit(op[c]) = "nextFile" => c = Loader)
      BY <2>4 DEF OpenIndex, CallShape, AfterInit
    <3>2. handle' \in [Processes -> {"none", "open"}] /\ UNCHANGED todo
      BY <2>4 DEF OpenIndex, CallsOK
    <3>3. CallsOK'
      BY <2>4, <3>1, <3>2, GoToKeepsCalls DEF OpenIndex, Commands
    <3>4. CallShape'
      BY <2>4, <3>1 DEF OpenIndex, GoTo, CallShape, CallsOK
    <3>5. QED
      BY <2>4, <3>3, <3>4
         DEF OpenIndex, serviceVars, observerVars, boundVars, ServiceOK, ObserverOK
  <2>5. CASE Query(c)
    <3>1. CallsOK' /\ CallShape'
      BY <1>s, <2>5, RaiseKeepsCalls DEF Query
    <3>2. QED
      BY <2>5, <3>1 DEF Query, Return, serviceVars, boundVars, ServiceOK, ObserverOK
  <2>6. CASE Upsert(c)
    <3>1. ServiceOK' /\ disk' = disk
      BY <1>r, <2>6 DEF Upsert, ServiceOK
    <3>2. CASE c = Loader
      <4>1. GoTo(c, "nextFile") /\ UNCHANGED <<handle, todo, observerVars, boundVars>>
        BY <2>6, <3>2 DEF Upsert, observerVars
      <4>2. CallsOK'
        BY <4>1, GoToKeepsCalls DEF CallsOK, Commands
      <4>3. CallShape'
        BY <3>2, <4>1 DEF GoTo, CallShape, CallsOK
      <4>4. QED
        BY <3>1, <4>1, <4>2, <4>3 DEF observerVars, boundVars, ObserverOK
    <3>3. CASE c # Loader
      <4>1. Return(c) /\ UNCHANGED <<handle, todo, floor, boundVars>>
            /\ promised' = [promised EXCEPT ![id[c]] = text[c]]
        BY <2>6, <3>3 DEF Upsert
      <4>2. CallsOK' /\ CallShape'
        BY <1>s, <4>1, RaiseKeepsCalls
      <4>3. ObserverOK'
        BY <1>r, <2>6, <4>1 DEF Upsert, Return, boundVars, ObserverOK
      <4>4. QED
        BY <3>1, <4>2, <4>3
    <3>4. QED
      BY <3>2, <3>3
  <2>7. CASE Delete(c)
    <3>1. CallsOK' /\ CallShape'
      BY <1>s, <2>7, RaiseKeepsCalls DEF Delete
    <3>2. QED
      BY <1>v, <2>7, <3>1 DEF Delete, Return, boundVars, ServiceOK, ObserverOK
  <2>8. QED
    BY <1>6, <2>1, <2>2, <2>3, <2>4, <2>5, <2>6, <2>7 DEF CallRuns
<1>7. ASSUME NEW c \in Callers, InitFails(c)
      PROVE  Typed'
  <2>1. CallsOK' /\ CallShape'
    BY <1>s, <1>7, RaiseKeepsCalls DEF InitFails, Raise
  <2>2. ServiceOK'
    BY <1>7 DEF InitFails, ServiceOK
  <2>3. ObserverOK'
    BY <1>f, <1>7 DEF InitFails, Raise, Return, ObserverOK
  <2>4. QED
    BY <1>7, <2>1, <2>2, <2>3 DEF InitFails
<1>8. ASSUME NEW c \in Callers, CommandFails(c)
      PROVE  Typed'
  <2>1. CallsOK' /\ CallShape'
    BY <1>s, <1>8, RaiseKeepsCalls DEF CommandFails, Raise
  <2>2. /\ vectors' \in [Ids -> Texts \union {NoText}]
        /\ promised' \in [Ids -> Texts \union {NoText}]
        /\ floor' \in [Files -> Texts \union {NoText}]
    BY <1>r, <1>v, <1>8 DEF CommandFails, ServiceOK, ObserverOK
  <2>3. ObserverOK'
    BY <1>f, <1>8, <2>2 DEF CommandFails, Raise, Return, ObserverOK
  <2>4. QED
    BY <1>8, <2>1, <2>2, <2>3 DEF CommandFails, ServiceOK
<1>9. ASSUME NEW f \in Files, NextFile(f)
      PROVE  Typed'
  <2>1. CallsOK'
    BY <1>9, <1>i DEF NextFile, CallsOK, Commands
  <2>2. CallShape'
    BY <1>9 DEF NextFile, CallShape, CallsOK
  <2>3. QED
    BY <1>9, <2>1, <2>2 DEF NextFile, serviceVars, observerVars, boundVars, ServiceOK, ObserverOK
<1>10. CASE FinishLoad
  <2>1. Loader \in Callers
    BY DEF Callers
  <2>2. CallsOK' /\ CallShape'
    BY <1>s, <1>10, <2>1, RaiseKeepsCalls DEF FinishLoad
  <2>3. ObserverOK'
    BY <1>10 DEF FinishLoad, Return, boundVars, ObserverOK
  <2>4. QED
    BY <1>10, <2>2, <2>3 DEF FinishLoad, serviceVars, ServiceOK
<1>11. ASSUME NEW p \in Processes, ProcessEnds(p)
       PROVE  Typed'
  <2>1. CallsOK'
    BY <1>11 DEF ProcessEnds, CallsOK, Commands, Operations
  <2>2. CallShape'
    BY <1>11 DEF ProcessEnds, CallShape, CallsOK
  <2>3. QED
    BY <1>f, <1>11, <2>1, <2>2 DEF ProcessEnds, serviceVars, ServiceOK, ObserverOK
<1>12. CASE UNCHANGED vars
  BY <1>12 DEF vars, serviceVars, callVars, observerVars, boundVars, ServiceOK, CallsOK,
     ObserverOK, CallShape
<1>13. QED
  BY <1>1, <1>2, <1>3, <1>4, <1>5, <1>6, <1>7, <1>8, <1>9, <1>10, <1>11, <1>12
     DEF Next, LoadRuns

\* Every reachable state of the runbook store is well typed.
THEOREM StoreTypeCorrect == Spec => []TypeOK
<1>1. StoreAssumption /\ Init => Typed
  BY DEF StoreAssumption, Init, Typed, TypeOK, ServiceOK, CallsOK, ObserverOK, CallShape,
     Commands, Operations, Texts
<1>2. QED
  BY <1>1, TypeStep, StoreAssumption, PTL DEF Spec, Typed

-----------------------------------------------------------------------------
(* The index                                                               *)

\* An index, once seen or opened, exists.
IndexInv ==
    /\ Typed
    /\ HandleMeansIndex
    /\ ExistingIndexIsKept
    /\ \A c \in Callers : pc[c] = "open" => index = "exists"
    /\ \A c \in sawIndex : index = "exists"

\* No step breaks it: nothing takes an index away, and a handle or a call
\* past the listing has one behind it.
LEMMA IndexStep == StoreAssumption /\ IndexInv /\ [Next]_vars => IndexInv'
<1> SUFFICES ASSUME StoreAssumption, IndexInv, [Next]_vars
             PROVE  IndexInv'
  OBVIOUS
<1>1. Typed'
  BY TypeStep DEF IndexInv
<1>2. index = "exists" => index' = "exists"
  <2>1. \A c \in Callers : CallRuns(c) => index' = index \/ index' = "exists"
    BY DEF CallRuns, ListIndexes, CreateIndex, CreateConflicts, OpenIndex, Query, Upsert,
       Delete, serviceVars
  <2>2. \A c \in Callers :
           Retrieve(c) \/ Startup(c) \/ ReadRequest(c) \/ CreateRequest(c) \/ DeleteRequest(c)
              => index' = index
    BY DEF Retrieve, Startup, ReadRequest, CreateRequest, DeleteRequest, Begin, serviceVars
  <2>3. \A c \in Callers : InitFails(c) \/ CommandFails(c) => index' = index \/ index' = "exists"
    BY DEF InitFails, CommandFails
  <2>4. QED
    BY <2>1, <2>2, <2>3 DEF Next, EditFile, StartLoad, Begin, LoadRuns, NextFile, FinishLoad,
       ProcessEnds, vars, serviceVars
<1> USE DEF IndexInv, HandleMeansIndex, ExistingIndexIsKept, Typed, TypeOK, CallsOK, ServiceOK
\* One fact about each coroutine and one about the handles make the invariant.
<1> DEFINE Call(c) == /\ pc'[c] = "open" => index' = "exists"
                      /\ c \in sawIndex' => index' = "exists" /\ pc'[c] # "create"
           Handles == \A p \in Processes : handle'[p] = "open" => index' = "exists"
<1>3. SUFFICES Handles /\ \A c \in Callers : Call(c)
  BY <1>1 DEF ObserverOK
<1>4. \A c \in Callers : UNCHANGED pc /\ UNCHANGED sawIndex => Call(c)
  BY <1>2
<1>5. ASSUME NEW c \in Callers, Return(c)
      PROVE  \A d \in Callers : Call(d)
  BY <1>2, <1>5 DEF Return
<1>6. ASSUME NEW c \in Callers, NEW k \in Commands, GoTo(c, k), sawIndex' = sawIndex,
             k = "open" => index' = "exists", k = "create" => index = "absent"
      PROVE  \A d \in Callers : Call(d)
  BY <1>2, <1>6 DEF GoTo
<1>7. ASSUME NEW c \in Callers, NEW o \in Operations, NEW i, NEW v, Begin(c, o, i, v)
      PROVE  Handles /\ \A d \in Callers : Call(d)
  <2>1. AfterInit(o) \notin {"open", "create"}
    BY DEF AfterInit, Operations
  <2>2. QED
    BY <1>2, <1>7, <2>1 DEF Begin, serviceVars
<1>8. UNCHANGED handle => Handles
  BY <1>2
<1>9. EndScript => Handles
  BY <1>2 DEF EndScript
<1>10. ASSUME NEW f \in Files, EditFile(f) \/ NextFile(f)
       PROVE  Handles /\ \A c \in Callers : Call(c)
  BY <1>2, <1>10 DEF EditFile, NextFile, callVars, observerVars
<1>11. ASSUME NEW c \in Callers,
              Retrieve(c) \/ Startup(c) \/ ReadRequest(c) \/ CreateRequest(c) \/ DeleteRequest(c)
       PROVE  Handles /\ \A d \in Callers : Call(d)
  <2>1. \E o \in Operations : \E i, v : Begin(c, o, i, v)
    BY <1>11 DEF Retrieve, Startup, ReadRequest, CreateRequest, DeleteRequest, Operations
  <2>2. QED
    BY <1>7, <2>1
<1>12. CASE StartLoad
  BY <1>7, <1>12 DEF StartLoad, Callers, Operations
<1>13. ASSUME NEW c \in Callers, CallRuns(c)
       PROVE  Handles /\ \A d \in Callers : Call(d)
  <2>1. CASE ListIndexes(c)
    BY <1>6, <1>8, <2>1 DEF ListIndexes, serviceVars, observerVars, Commands
  <2>2. CASE CreateIndex(c)
    BY <1>6, <1>8, <2>2 DEF CreateIndex, observerVars, Commands
  <2>3. CASE CreateConflicts(c)
    BY <1>5, <1>8, <1>9, <2>3 DEF CreateConflicts, Raise
  <2>4. CASE OpenIndex(c)
    <3>1. index' = "exists"
      BY <1>2, <2>4 DEF OpenIndex
    <3>2. AfterInit(op[c]) \in Commands \ {"create"}
      BY DEF AfterInit, Operations, Commands
    <3>3. \A d \in Callers : Call(d)
      BY <1>6, <2>4, <3>1, <3>2 DEF OpenIndex, observerVars
    <3>4. QED
      BY <3>1, <3>3
  <2>5. CASE Query(c)
    BY <1>5, <1>8, <2>5 DEF Query
  <2>6. CASE Upsert(c)
    BY <1>5, <1>6, <1>8, <2>6 DEF Upsert, Commands
  <2>7. CASE Delete(c)
    BY <1>5, <1>8, <2>7 DEF Delete
  <2>8. QED
    BY <1>13, <2>1, <2>2, <2>3, <2>4, <2>5, <2>6, <2>7 DEF CallRuns
<1>14. ASSUME NEW c \in Callers, InitFails(c) \/ CommandFails(c)
       PROVE  Handles /\ \A d \in Callers : Call(d)
  BY <1>5, <1>8, <1>9, <1>14 DEF InitFails, CommandFails, Raise
<1>15. CASE FinishLoad
  BY <1>5, <1>9, <1>15 DEF FinishLoad, Callers
<1>16. ASSUME NEW p \in Processes, ProcessEnds(p)
       PROVE  Handles /\ \A c \in Callers : Call(c)
  BY <1>2, <1>16 DEF ProcessEnds
<1>17. CASE UNCHANGED vars
  BY <1>2, <1>17 DEF vars, callVars, observerVars
<1>18. QED
  BY <1>10, <1>11, <1>12, <1>13, <1>14, <1>15, <1>16, <1>17 DEF Next, LoadRuns

\* A cached handle always has an index behind it.
THEOREM HandlesAreReal == Spec => []HandleMeansIndex
<1>1. StoreAssumption /\ Init => IndexInv
  BY DEF StoreAssumption, Init, IndexInv, Typed, TypeOK, ServiceOK, CallsOK, ObserverOK,
     CallShape, Commands, Operations, Texts, HandleMeansIndex, ExistingIndexIsKept
<1>2. QED
  BY <1>1, IndexStep, StoreAssumption, PTL DEF Spec, IndexInv

\* No call creates an index that existed when the call began.
THEOREM InitIsIdempotent == Spec => []ExistingIndexIsKept
<1>1. StoreAssumption /\ Init => IndexInv
  BY DEF StoreAssumption, Init, IndexInv, Typed, TypeOK, ServiceOK, CallsOK, ObserverOK,
     CallShape, Commands, Operations, Texts, HandleMeansIndex, ExistingIndexIsKept
<1>2. QED
  BY <1>1, IndexStep, StoreAssumption, PTL DEF Spec, IndexInv

-----------------------------------------------------------------------------
(* Answered writes                                                         *)

\* Requests write under ids of their own, which vouch for nothing yet.
OwnIds ==
    \A c \in Callers \ {Loader} : pc[c] = "upsert" =>
        /\ promised[id[c]] = NoText
        /\ \A d \in Callers \ {Loader} : pc[d] = "upsert" /\ id[d] = id[c] => d = c

\* A seed file's text only gets newer: what is on disk is no older than what
\* is vouched for or than what the present load began with, nor is what the
\* loader is writing.
FilesGetNewer ==
    /\ \A f \in Files : disk[f] >= promised[f] /\ disk[f] >= floor[f]
    /\ pc[Loader] = "upsert" =>
          text[Loader] >= promised[id[Loader]] /\ text[Loader] >= floor[id[Loader]]

\* The files the loader has passed are in the index, or the last one is on
\* its way.
LoadProgress ==
    pc[Loader] # "idle" =>
        \A f \in Files \ todo :
            vectors[f] >= floor[f] \/ (pc[Loader] = "upsert" /\ id[Loader] = f)

PromiseInv == Typed /\ AnsweredWritesStay /\ OwnIds /\ FilesGetNewer /\ LoadProgress

\* No step breaks it.
LEMMA PromiseStep == StoreAssumption /\ PromiseInv /\ [Next]_vars => PromiseInv'
<1> SUFFICES ASSUME StoreAssumption, PromiseInv, [Next]_vars
             PROVE  PromiseInv'
  OBVIOUS
<1> USE DEF PromiseInv
<1>1. Typed'
  BY TypeStep
<1>2. Loader \in Callers /\ \A f \in Files : f \in Ids
  BY DEF Callers, Ids
<1> DEFINE Inv == AnsweredWritesStay /\ OwnIds /\ FilesGetNewer /\ LoadProgress
<1>3. SUFFICES Inv'
  BY <1>1
<1>a. ASSUME UNCHANGED <<vectors, disk, promised, floor, todo, id, text>>,
             \A c \in Callers : pc'[c] = "upsert" => pc[c] = "upsert",
             pc'[Loader] = pc[Loader] \/ (pc[Loader] # "idle" /\ pc[Loader] # "upsert")
                \/ pc'[Loader] = "idle"
      PROVE  Inv'
  BY <1>2, <1>a DEF AnsweredWritesStay, OwnIds, FilesGetNewer, LoadProgress
\* A call that returns takes no part any more.
<1>b. ASSUME NEW c \in Callers, Return(c), c = Loader \/ UNCHANGED todo,
             UNCHANGED <<vectors, disk, promised, floor>>
      PROVE  Inv'
  <2>1. \A d \in Callers : d # c => pc'[d] = pc[d] /\ id'[d] = id[d] /\ text'[d] = text[d]
    BY <1>b DEF Return, Typed, TypeOK, CallsOK
  <2>2. pc'[c] = "idle"
    BY <1>b DEF Return, Typed, TypeOK, CallsOK
  <2>3. QED
    BY <1>2, <1>b, <2>1, <2>2 DEF AnsweredWritesStay, OwnIds, FilesGetNewer, LoadProgress
\* What is deleted vouches for nothing.
<1>c. ASSUME NEW c \in Callers, Return(c), c = Loader \/ UNCHANGED todo,
             NEW i \in Ids, RemoveVector(i), UNCHANGED disk
      PROVE  Inv'
  <2>1. \A d \in Callers : d # c => pc'[d] = pc[d] /\ id'[d] = id[d] /\ text'[d] = text[d]
    BY <1>c DEF Return, Typed, TypeOK, CallsOK
  <2>2. pc'[c] = "idle"
    BY <1>c DEF Return, Typed, TypeOK, CallsOK
  <2>3. \A j \in Ids : /\ vectors'[j] = IF j = i THEN NoText ELSE vectors[j]
                       /\ promised'[j] = IF j = i THEN NoText ELSE promised[j]
    BY <1>c DEF RemoveVector, Typed, TypeOK, ServiceOK, ObserverOK
  <2>4. \A f \in Files : floor'[f] = IF f = i THEN NoText ELSE floor[f]
    BY <1>c DEF RemoveVector, Typed, TypeOK, ObserverOK
  <2>5. AnsweredWritesStay'
    BY <2>3 DEF AnsweredWritesStay
  <2>6. OwnIds'
    <3>1. \A d \in Callers \ {Loader} : pc'[d] = "upsert" =>
             d # c /\ pc[d] = "upsert" /\ id'[d] = id[d] /\ id[d] \in Ids
      BY <2>1, <2>2 DEF Typed, TypeOK, CallsOK
    <3>2. \A d \in Callers \ {Loader} : pc'[d] = "upsert" => promised'[id'[d]] = NoText
      BY <2>3, <3>1 DEF OwnIds
    <3>3. QED
      BY <3>1, <3>2 DEF OwnIds
  <2>7. \A f \in Files : disk[f] \in Nat
    BY DEF Typed, TypeOK, Texts, StoreAssumption
  <2>8. \A d \in Callers : pc[d] = "upsert" => text[d] \in Nat
    BY DEF Typed, TypeOK, CallsOK, Texts, StoreAssumption
  <2>9. FilesGetNewer'
    <3>1. \A f \in Files : disk'[f] >= promised'[f] /\ disk'[f] >= floor'[f]
      BY <1>2, <1>c, <2>3, <2>4, <2>7 DEF FilesGetNewer, NoText
    <3>2. ASSUME pc'[Loader] = "upsert"
          PROVE  text'[Loader] >= promised'[id'[Loader]] /\ text'[Loader] >= floor'[id'[Loader]]
      <4>1. Loader # c /\ pc[Loader] = "upsert" /\ id'[Loader] = id[Loader]
            /\ text'[Loader] = text[Loader]
        BY <1>2, <2>1, <2>2, <3>2
      <4>2. id[Loader] \in Files
        BY <1>2, <4>1 DEF Typed, CallShape
      <4>3. QED
        BY <1>2, <2>3, <2>4, <2>8, <4>1, <4>2 DEF FilesGetNewer, NoText
    <3>3. QED
      BY <3>1, <3>2 DEF FilesGetNewer
  <2>10. \A f \in Files : \/ vectors'[f] >= floor'[f]
                         \/ (vectors'[f] = vectors[f] /\ floor'[f] = floor[f])
    BY <1>2, <2>3, <2>4 DEF NoText
  <2>11. LoadProgress'
    BY <1>2, <1>c, <2>1, <2>2, <2>10 DEF LoadProgress
  <2>12. QED
    BY <2>5, <2>6, <2>9, <2>11
\* A write to an id that only its writer can speak for.
<1>d. ASSUME NEW c \in Callers, pc[c] = "upsert",
             vectors' = [vectors EXCEPT ![id[c]] = text[c]], UNCHANGED <<disk, floor>>,
             c = Loader \/ UNCHANGED todo,
             \/ Return(c) /\ UNCHANGED promised
             \/ /\ c = Loader /\ GoTo(c, "nextFile") /\ UNCHANGED <<promised, todo>>
             \/ /\ c # Loader /\ Return(c)
                /\ promised' = [promised EXCEPT ![id[c]] = text[c]]
      PROVE  Inv'
  <2>1. \A d \in Callers : d # c => pc'[d] = pc[d] /\ id'[d] = id[d] /\ text'[d] = text[d]
    BY <1>d DEF Return, GoTo, Typed, TypeOK, CallsOK
  <2>2. pc'[c] \in {"idle", "nextFile"} /\ (pc'[c] # "idle" => c = Loader /\ todo' = todo)
    BY <1>d DEF Return, GoTo, Typed, TypeOK, CallsOK
  <2>3. id[c] \in Ids /\ (IF c = Loader THEN id[c] \in Files ELSE id[c] \in Uuids)
    BY <1>d DEF Typed, TypeOK, CallsOK, CallShape
  <2>4. \A j \in Ids : vectors'[j] = IF j = id[c] THEN text[c] ELSE vectors[j]
    BY <1>d DEF Typed, TypeOK, ServiceOK
  <2>5. \A j \in Ids : promised'[j] = promised[j]
                       \/ (c # Loader /\ j = id[c] /\ promised'[j] = text[c])
    BY <1>d, <2>3 DEF Typed, TypeOK, ObserverOK
  <2>6. AnsweredWritesStay'
    <3>1. CASE c = Loader
      BY <1>d, <2>3, <2>4, <2>5, <3>1 DEF AnsweredWritesStay, FilesGetNewer
    <3>2. CASE c # Loader
      <4>1. promised[id[c]] = NoText /\ id[c] \notin Files
        BY <1>d, <2>3, <3>2 DEF OwnIds, StoreAssumption
      <4>2. QED
        BY <1>d, <2>4, <2>5, <4>1 DEF AnsweredWritesStay
    <3>3. QED
      BY <3>1, <3>2
  <2>7. OwnIds'
    <3>1. \A d \in Callers \ {Loader} : pc'[d] = "upsert" =>
             d # c /\ pc[d] = "upsert" /\ id'[d] = id[d] /\ id[d] \in Uuids
      BY <2>1, <2>2 DEF Typed, CallShape
    <3>2. \A d \in Callers \ {Loader} : pc'[d] = "upsert" => id[d] # id[c]
      BY <1>d, <2>3, <3>1 DEF OwnIds, StoreAssumption
    <3>3. QED
      BY <2>5, <3>1, <3>2 DEF OwnIds, Ids
  <2>8. \A f \in Files : promised'[f] = promised[f]
    BY <1>2, <2>3, <2>5 DEF StoreAssumption
  <2>9. FilesGetNewer'
    <3>1. pc'[Loader] = "upsert" =>
            /\ pc[Loader] = "upsert" /\ id'[Loader] = id[Loader] /\ text'[Loader] = text[Loader]
            /\ id[Loader] \in Files
      BY <1>2, <2>1, <2>2 DEF Typed, CallShape
    <3>2. QED
      BY <1>d, <2>8, <3>1 DEF FilesGetNewer
  <2>10. LoadProgress'
    <3>1. CASE c = Loader
      BY <1>2, <1>d, <2>2, <2>3, <2>4, <3>1 DEF LoadProgress, FilesGetNewer
    <3>2. CASE c # Loader
      <4>1. \A f \in Files : vectors'[f] = vectors[f]
        BY <1>2, <2>3, <2>4, <3>2 DEF StoreAssumption
      <4>2. QED
        BY <1>2, <1>d, <2>1, <3>2, <4>1 DEF LoadProgress
    <3>3. QED
      BY <3>1, <3>2
  <2>11. QED
    BY <2>6, <2>7, <2>9, <2>10
\* A call of a request or a retriever begins, with an id of its own or none.
<1>e. ASSUME NEW c \in Callers \ {Loader}, NEW o \in Operations, NEW i, NEW v,
             Begin(c, o, i, v), UNCHANGED <<todo, floor>>,
             o = "create" => i \notin Drawn /\ i \in Ids
      PROVE  Inv'
  <2>1. \A d \in Callers : d # c => pc'[d] = pc[d] /\ id'[d] = id[d] /\ text'[d] = text[d]
    BY <1>e DEF Begin, Typed, TypeOK, CallsOK
  <2>2. id'[c] = i /\ (pc'[c] = "upsert" => o = "create")
    BY <1>e DEF Begin, Typed, TypeOK, CallsOK, AfterInit, Operations
  <2>3. UNCHANGED <<vectors, disk, promised>>
    BY <1>e DEF Begin, serviceVars
  <2>4. OwnIds'
    BY <1>e, <2>1, <2>2, <2>3 DEF OwnIds, Drawn
  <2>5. QED
    BY <1>2, <1>e, <2>1, <2>3, <2>4 DEF AnsweredWritesStay, FilesGetNewer, LoadProgress
<1>4. ASSUME NEW f \in Files, EditFile(f)
      PROVE  Inv'
  <2>1. \A g \in Files : disk[g] \in Nat
    BY DEF Typed, TypeOK, Texts, StoreAssumption
  <2>2. \A g \in Files : disk'[g] \in Nat /\ disk'[g] >= disk[g]
    BY <1>4, <2>1 DEF EditFile, Texts, StoreAssumption, Typed, TypeOK
  <2>3. \A g \in Files : promised[g] \in Nat /\ floor[g] \in Nat
    BY <1>2 DEF Typed, TypeOK, ObserverOK, Texts, NoText, StoreAssumption
  <2>4. UNCHANGED <<vectors, promised, floor, todo, pc, id, text>>
    BY <1>4 DEF EditFile, serviceVars, callVars, observerVars
  <2>5. \A g \in Files : disk'[g] >= promised[g] /\ disk'[g] >= floor[g]
    BY <2>1, <2>2, <2>3 DEF FilesGetNewer
  <2>6. QED
    BY <2>4, <2>5 DEF AnsweredWritesStay, OwnIds, FilesGetNewer, LoadProgress
<1>5. ASSUME NEW c \in Callers,
             Retrieve(c) \/ Startup(c) \/ ReadRequest(c) \/ CreateRequest(c) \/ DeleteRequest(c)
      PROVE  Inv'
  <2>1. c # Loader
    BY <1>5 DEF Retrieve, Startup, ReadRequest, CreateRequest, DeleteRequest, Serving,
       StoreAssumption
  <2>2. \E o \in Operations : \E i, v :
           /\ Begin(c, o, i, v)
           /\ o = "create" => i \notin Drawn /\ i \in Ids
    BY <1>5 DEF Retrieve, Startup, ReadRequest, CreateRequest, DeleteRequest, Operations, Ids
  <2>3. UNCHANGED <<todo, floor>>
    BY <1>5 DEF Retrieve, Startup, ReadRequest, CreateRequest, DeleteRequest
  <2>4. QED
    BY <1>e, <2>1, <2>2, <2>3
<1>6. CASE StartLoad
  <2>1. /\ UNCHANGED <<vectors, disk, promised>>
        /\ \A d \in Callers : d # Loader => pc'[d] = pc[d] /\ id'[d] = id[d]
        /\ pc'[Loader] # "upsert"
        /\ todo' = Files /\ floor' = disk
    BY <1>2, <1>6 DEF StartLoad, Begin, serviceVars, AfterInit, Typed, TypeOK, CallsOK
  <2>2. \A f \in Files : disk[f] \in Nat
    BY DEF Typed, TypeOK, Texts, StoreAssumption
  <2>3. QED
    BY <1>2, <2>1, <2>2 DEF AnsweredWritesStay, OwnIds, FilesGetNewer, LoadProgress
<1>7. ASSUME NEW c \in Callers, CallRuns(c)
      PROVE  Inv'
  <2>1. CASE ListIndexes(c) \/ CreateIndex(c) \/ OpenIndex(c)
    <3>1. PICK k : GoTo(c, k)
      BY <2>1 DEF ListIndexes, CreateIndex, OpenIndex
    <3>2. UNCHANGED <<vectors, disk, promised, floor, todo, id, text>>
      BY <2>1 DEF ListIndexes, CreateIndex, OpenIndex, GoTo, serviceVars, observerVars
    <3>3. pc[c] \in {"list", "create", "open"} /\ pc'[c] # "upsert"
      <4>1. ListIndexes(c) \/ CreateIndex(c) => pc'[c] \in {"create", "open"}
        BY DEF ListIndexes, CreateIndex, GoTo, Typed, TypeOK, CallsOK
      <4>2. OpenIndex(c) => pc'[c] = AfterInit(op[c]) /\ op[c] \in {"seed", "startup", "read"}
        BY DEF OpenIndex, GoTo, Typed, TypeOK, CallsOK, CallShape
      <4>3. QED
        BY <2>1, <4>1, <4>2 DEF ListIndexes, CreateIndex, OpenIndex, AfterInit
    <3>4. \A d \in Callers : d # c => pc'[d] = pc[d]
      BY <3>1 DEF GoTo, Typed, TypeOK, CallsOK
    <3>5. QED
      BY <1>2, <1>a, <3>2, <3>3, <3>4
  <2>2. CASE CreateConflicts(c) \/ Query(c)
    <3>1. Return(c) /\ (c = Loader \/ UNCHANGED todo) /\ UNCHANGED <<vectors, disk, promised, floor>>
      BY <2>2 DEF CreateConflicts, Query, Raise, serviceVars
    <3>2. QED
      BY <1>b, <3>1
  <2>3. CASE Upsert(c)
    <3>1. /\ pc[c] = "upsert"
          /\ vectors' = [vectors EXCEPT ![id[c]] = text[c]]
          /\ UNCHANGED <<disk, floor, todo>>
      BY <2>3 DEF Upsert
    <3>2. \/ c = Loader /\ GoTo(c, "nextFile") /\ UNCHANGED promised
          \/ c # Loader /\ Return(c) /\ promised' = [promised EXCEPT ![id[c]] = text[c]]
      BY <2>3 DEF Upsert
    <3>3. QED
      BY <1>d, <3>1, <3>2
  <2>4. CASE Delete(c)
    <3>1. id[c] \in Ids
      BY <2>4 DEF Delete, Typed, TypeOK, CallsOK
    <3>2. QED
      BY <1>c, <2>4, <3>1 DEF Delete
  <2>5. QED
    BY <1>7, <2>1, <2>2, <2>3, <2>4 DEF CallRuns
<1>8. ASSUME NEW c \in Callers, InitFails(c) \/ CommandFails(c)
      PROVE  Inv'
  <2>1. Return(c) /\ (c = Loader \/ UNCHANGED todo) /\ UNCHANGED disk
    BY <1>8 DEF InitFails, CommandFails, Raise
  <2>2. CASE UNCHANGED <<vectors, promised, floor>>
    BY <1>b, <2>1, <2>2
  <2>3. CASE pc[c] = "upsert" /\ vectors' = [vectors EXCEPT ![id[c]] = text[c]]
             /\ UNCHANGED <<floor, promised>>
    BY <1>d, <2>1, <2>3
  <2>4. CASE pc[c] = "delete" /\ RemoveVector(id[c])
    <3>1. id[c] \in Ids
      BY <2>4 DEF Typed, TypeOK, CallsOK
    <3>2. QED
      BY <1>c, <2>1, <2>4, <3>1
  <2>5. QED
    BY <1>8, <2>2, <2>3, <2>4 DEF InitFails, CommandFails
<1>9. ASSUME NEW f \in Files, NextFile(f)
      PROVE  Inv'
  <2>1. /\ UNCHANGED <<vectors, disk, promised, floor>>
        /\ todo' = todo \ {f} /\ f \in todo /\ pc[Loader] = "nextFile"
    BY <1>9 DEF NextFile, serviceVars, observerVars
  <2>2. \A d \in Callers : d # Loader => pc'[d] = pc[d] /\ id'[d] = id[d]
    BY <1>9 DEF NextFile, Typed, TypeOK, CallsOK
  <2>3. pc'[Loader] = "upsert" /\ id'[Loader] = f /\ text'[Loader] = disk[f]
    BY <1>2, <1>9 DEF NextFile, Typed, TypeOK, CallsOK
  <2>4. QED
    BY <1>2, <2>1, <2>2, <2>3 DEF AnsweredWritesStay, OwnIds, FilesGetNewer, LoadProgress
<1>10. CASE FinishLoad
  <2>1. /\ UNCHANGED <<vectors, disk>> /\ pc[Loader] = "nextFile"
        /\ todo = {} /\ todo' = {}
    BY <1>10 DEF FinishLoad, EndScript, serviceVars
  <2>2. \A d \in Callers : d # Loader => pc'[d] = pc[d] /\ id'[d] = id[d]
    BY <1>10 DEF FinishLoad, Return, Typed, TypeOK, CallsOK
  <2>3. pc'[Loader] = "idle"
    BY <1>2, <1>10 DEF FinishLoad, Return, Typed, TypeOK, CallsOK
  <2>4. /\ \A f \in Files : promised'[f] = floor[f] /\ floor'[f] = NoText
        /\ \A i \in Ids \ Files : promised'[i] = promised[i]
    BY <1>2, <1>10 DEF FinishLoad
  <2>5. \A f \in Files : vectors[f] >= floor[f]
    BY <2>1 DEF LoadProgress
  <2>6. AnsweredWritesStay'
    BY <2>1, <2>4, <2>5 DEF AnsweredWritesStay
  <2>7. OwnIds'
    <3>1. \A d \in Callers \ {Loader} : pc'[d] = "upsert" =>
             pc[d] = "upsert" /\ id'[d] = id[d] /\ id[d] \in Ids \ Files
      BY <2>2 DEF Typed, CallShape, Ids, StoreAssumption
    <3>2. QED
      BY <2>4, <3>1 DEF OwnIds
  <2>8. \A f \in Files : disk[f] \in Nat
    BY DEF Typed, TypeOK, Texts, StoreAssumption
  <2>9. FilesGetNewer' /\ LoadProgress'
    BY <2>1, <2>3, <2>4, <2>8 DEF FilesGetNewer, LoadProgress, NoText
  <2>10. QED
    BY <2>6, <2>7, <2>9
<1>11. ASSUME NEW p \in Processes, ProcessEnds(p)
       PROVE  Inv'
  <2>1. UNCHANGED <<vectors, disk, promised, floor>>
    BY <1>11 DEF ProcessEnds, serviceVars
  <2>2. \A d \in Callers : \/ pc'[d] = "idle"
                          \/ (pc'[d] = pc[d] /\ id'[d] = id[d] /\ text'[d] = text[d])
    BY <1>11 DEF ProcessEnds
  <2>3. pc'[Loader] = "idle" \/ todo' = todo
    BY <1>2, <1>11 DEF ProcessEnds, ProcessOf, StoreAssumption
  <2>4. QED
    BY <1>2, <2>1, <2>2, <2>3 DEF AnsweredWritesStay, OwnIds, FilesGetNewer, LoadProgress
<1>12. CASE UNCHANGED vars
  BY <1>a, <1>12 DEF vars, serviceVars, callVars, observerVars
<1>13. QED
  BY <1>4, <1>5, <1>6, <1>7, <1>8, <1>9, <1>10, <1>11, <1>12 DEF Next, LoadRuns

\* What answered writes stored stays until it is deleted.
THEOREM AnsweredWritesAreKept == Spec => []AnsweredWritesStay
<1>1. StoreAssumption /\ Init => PromiseInv
  <2>1. StoreAssumption /\ Init => Typed
    BY DEF StoreAssumption, Init, Typed, TypeOK, ServiceOK, CallsOK, ObserverOK,
       CallShape, Commands, Operations, Texts
  <2>2. Init => AnsweredWritesStay /\ OwnIds
    BY DEF Init, AnsweredWritesStay, OwnIds
  <2>3. StoreAssumption /\ Init => FilesGetNewer /\ LoadProgress
    BY DEF StoreAssumption, Init, FilesGetNewer, LoadProgress, NoText, Callers, Ids
  <2>4. QED
    BY <2>1, <2>2, <2>3 DEF PromiseInv
<1>2. QED
  BY <1>1, PromiseStep, StoreAssumption, PTL DEF Spec, PromiseInv

=============================================================================
