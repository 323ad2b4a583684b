---------------------------- MODULE RunbookStore ----------------------------
(***************************************************************************)
(* The runbook index of src/src/rag and the processes that use it: the     *)
(* worker pool, whose retrieve nodes query it, the API, which warms it up  *)
(* before it serves and then reads, writes and deletes, and the seed       *)
(* script, which upserts every file of data/seed_runbooks.                 *)
(*                                                                         *)
(* Pinecone's client is synchronous and runs in threads: listing the       *)
(* indexes, creating one and every read and write are commands of their    *)
(* own, between which other coroutines and processes go on.  A command may *)
(* fail before or after the service has executed it.                       *)
(*                                                                         *)
(* Embeddings, scores, tags and titles are left out; a text is the number  *)
(* of its version.                                                         *)
(***************************************************************************)
EXTENDS Naturals

CONSTANTS
    Retrievers,    \* the pool's coroutines inside retrieve_node
    Requests,      \* the API's coroutines: its startup, then requests at once
    Loader,        \* the seed script's only coroutine
    Files,         \* the seed files; a vector's id is the file's stem
    Uuids,         \* bound: the ids uuid4() gives to runbooks created by requests
    MaxEdits,      \* bound: edits of seed files
    MaxDeletes,    \* bound: delete requests
    MaxFaults      \* bound: calls that raise and processes that end, in all

ASSUME StoreAssumption ==
    /\ Loader \notin Retrievers \union Requests
    /\ Retrievers \intersect Requests = {}
    /\ Files \intersect Uuids = {}
    /\ "none" \notin Files \union Uuids
    /\ MaxEdits \in Nat
    /\ MaxDeletes \in Nat
    /\ MaxFaults \in Nat

Callers   == Retrievers \union Requests \union {Loader}
Processes == {"pool", "api", "loader"}
Ids       == Files \union Uuids
NoId      == "none"
Texts     == 1..(MaxEdits + 1)
NoText    == 0

ProcessOf(c) == IF c \in Retrievers THEN "pool"
                ELSE IF c \in Requests THEN "api" ELSE "loader"

VARIABLES
    \* Pinecone
    index,         \* whether the index is "absent" or "exists"
    vectors,       \* vectors[i]: the text stored under id i, NoText if none
    \* the seed directory
    disk,          \* disk[f]: the text in file f
    \* the processes
    handle,        \* handle[p]: pinecone_store._index in p, "none" or "open"
    pc,            \* the command each coroutine awaits
    op,            \* what it was called for
    id, text,      \* what it writes
    todo,          \* the files the loader has yet to upsert
    \* observers: no action reads them
    sawIndex,      \* callers whose call began when the index existed
    floor,         \* the texts on disk when the present load began
    promised,      \* promised[i]: the text under i an answered write vouches for
    \* the bounds' counters
    deletes, faults

serviceVars  == <<index, vectors>>
callVars     == <<pc, op, id, text>>
observerVars == <<sawIndex, floor, promised>>
boundVars    == <<deletes, faults>>
vars         == <<serviceVars, disk, handle, callVars, todo, observerVars, boundVars>>

Commands   == {"idle", "list", "create", "open", "read", "upsert", "delete", "nextFile"}
Operations == {"startup", "read", "create", "delete", "seed"}

ServiceOK ==
    /\ index \in {"absent", "exists"}
    /\ vectors \in [Ids -> Texts \union {NoText}]

CallsOK ==
    /\ handle \in [Processes -> {"none", "open"}]
    /\ pc \in [Callers -> Commands]
    /\ op \in [Callers -> Operations]
    /\ id \in [Callers -> Ids \union {NoId}]
    /\ text \in [Callers -> Texts \union {NoText}]
    /\ todo \in SUBSET Files
    /\ \A c \in Callers : pc[c] \in {"upsert", "delete"} => id[c] \in Ids
    /\ \A c \in Callers : pc[c] = "upsert" => text[c] \in Texts

ObserverOK ==
    /\ sawIndex \in SUBSET Callers
    /\ floor \in [Files -> Texts \union {NoText}]
    /\ promised \in [Ids -> Texts \union {NoText}]
    /\ deletes \in 0..MaxDeletes
    /\ faults \in 0..MaxFaults

TypeOK == ServiceOK /\ disk \in [Files -> Texts] /\ CallsOK /\ ObserverOK

Init ==
    /\ index = "absent"
    /\ vectors = [i \in Ids |-> NoText]
    /\ disk = [f \in Files |-> 1]
    /\ handle = [p \in Processes |-> "none"]
    /\ pc = [c \in Callers |-> "idle"]
    /\ op = [c \in Callers |-> "read"]
    /\ id = [c \in Callers |-> NoId]
    /\ text = [c \in Callers |-> NoText]
    /\ todo = {}
    /\ sawIndex = {}
    /\ floor = [f \in Files |-> NoText]
    /\ promised = [i \in Ids |-> NoText]
    /\ deletes = 0
    /\ faults = 0

-----------------------------------------------------------------------------
(* Outside the program.                                                    *)

\* A file's new text is newer than every text there is.
EditFile(f) ==
    /\ \E v \in Texts :
          /\ \A g \in Files : disk[g] < v
          /\ disk' = [disk EXCEPT ![f] = v]
    /\ UNCHANGED <<serviceVars, handle, callVars, todo, observerVars, boundVars>>

-----------------------------------------------------------------------------
(* Control flow of a call.                                                 *)

\* The first command of an operation once the index is at hand.
AfterInit(o) ==
    IF o = "startup" THEN "idle"
    ELSE IF o = "create" THEN "upsert"
    ELSE IF o = "seed" THEN "nextFile"
    ELSE o

\* A call of o that writes text v under i; init_pinecone returns the cached
\* handle without a command.
Begin(c, o, i, v) ==
    /\ pc[c] = "idle"
    /\ pc' = [pc EXCEPT ![c] = IF handle[ProcessOf(c)] = "open" THEN AfterInit(o) ELSE "list"]
    /\ op' = [op EXCEPT ![c] = o]
    /\ id' = [id EXCEPT ![c] = i]
    /\ text' = [text EXCEPT ![c] = v]
    /\ sawIndex' = IF index = "exists" THEN sawIndex \union {c} ELSE sawIndex \ {c}
    /\ UNCHANGED <<serviceVars, disk, handle, promised, faults>>

GoTo(c, command) ==
    /\ pc' = [pc EXCEPT ![c] = command]
    /\ UNCHANGED <<op, id, text>>

Return(c) ==
    /\ pc' = [pc EXCEPT ![c] = "idle"]
    /\ id' = [id EXCEPT ![c] = NoId]
    /\ text' = [text EXCEPT ![c] = NoText]
    /\ sawIndex' = sawIndex \ {c}
    /\ op' = [op EXCEPT ![c] = "read"]

\* The seed script ends, and with it its process.
EndScript ==
    /\ handle' = [handle EXCEPT !["loader"] = "none"]
    /\ todo' = {}

\* The call raises: a request or an event's run has failed; the script ends.
Raise(c) ==
    /\ Return(c)
    /\ IF c = Loader THEN EndScript ELSE UNCHANGED <<handle, todo>>

\* A command raises, or a process ends.
Fault ==
    /\ faults < MaxFaults
    /\ faults' = faults + 1
    /\ UNCHANGED deletes

-----------------------------------------------------------------------------
(* init_pinecone                                                           *)

\* Mutation: the handle is cached before the index is known to exist.
ListIndexesCachesHandle(c) ==
    /\ pc[c] = "list"
    /\ handle' = [handle EXCEPT ![ProcessOf(c)] = "open"]
    /\ GoTo(c, IF index = "exists" THEN "open" ELSE "create")
    /\ UNCHANGED <<serviceVars, disk, todo, observerVars, boundVars>>

\* Mutation: the list is not looked at.
ListIndexesIgnored(c) ==
    /\ pc[c] = "list"
    /\ GoTo(c, "create")
    /\ UNCHANGED <<serviceVars, disk, handle, todo, observerVars, boundVars>>

\* existing = {idx["name"] for idx in pc.list_indexes()}
ListIndexes(c) ==
    /\ pc[c] = "list"
    /\ GoTo(c, IF index = "exists" THEN "open" ELSE "create")
    /\ UNCHANGED <<serviceVars, disk, handle, todo, observerVars, boundVars>>

CreateIndex(c) ==
    /\ pc[c] = "create"
    /\ index = "absent"
    /\ index' = "exists"
    /\ GoTo(c, "open")
    /\ UNCHANGED <<vectors, disk, handle, todo, observerVars, boundVars>>

\* Mutation: the creation is tried again until it succeeds.
CreateConflictsRetried(c) ==
    /\ pc[c] = "create"
    /\ index = "exists"
    /\ UNCHANGED vars

\* Another caller was faster: the service answers 409 and the client raises.
CreateConflicts(c) ==
    /\ pc[c] = "create"
    /\ index = "exists"
    /\ Raise(c)
    /\ UNCHANGED <<serviceVars, disk, floor, promised, boundVars>>

\* _index = ...: the handle is cached for the process.
OpenIndex(c) ==
    /\ pc[c] = "open"
    /\ handle' = [handle EXCEPT ![ProcessOf(c)] = "open"]
    /\ GoTo(c, AfterInit(op[c]))
    /\ UNCHANGED <<serviceVars, disk, todo, observerVars, boundVars>>

InitFails(c) ==
    /\ pc[c] \in {"list", "create", "open"}
    /\ Fault
    /\ Raise(c)
    /\ \/ UNCHANGED index
       \/ pc[c] = "create" /\ index' = "exists"
    /\ UNCHANGED <<vectors, disk, floor, promised>>

-----------------------------------------------------------------------------
(* The operations.                                                         *)

\* retrieve_node of an event in the pool.
Retrieve(c) ==
    /\ c \in Retrievers
    /\ Begin(c, "read", NoId, NoText)
    /\ UNCHANGED <<todo, floor, deletes>>

\* The API's lifespan warms the index up; no request is served before it
\* has, and if it raises the server does not start.
Startup(c) ==
    /\ c \in Requests
    /\ handle["api"] = "none"
    /\ \A d \in Requests : pc[d] = "idle"
    /\ Begin(c, "startup", NoId, NoText)
    /\ UNCHANGED <<todo, floor, deletes>>

Serving(c) == c \in Requests /\ handle["api"] = "open"

\* GET /runbooks, GET /health
ReadRequest(c) ==
    /\ Serving(c)
    /\ Begin(c, "read", NoId, NoText)
    /\ UNCHANGED <<todo, floor, deletes>>

\* Ids a request has been given.
Drawn == {id[c] : c \in Callers} \union {i \in Ids : vectors[i] # NoText \/ promised[i] # NoText}

\* Mutation: metadata["id"] is taken as it is, absent or not.
CreateRequestWithoutId(c) ==
    /\ Serving(c)
    /\ Begin(c, "create", NoId, 1)
    /\ UNCHANGED <<todo, floor, deletes>>

\* POST /runbooks: its metadata has no id, so the vector gets a new one.
CreateRequest(c) ==
    /\ Serving(c)
    /\ \E i \in Uuids \ Drawn : Begin(c, "create", i, 1)
    /\ UNCHANGED <<todo, floor, deletes>>

\* DELETE /runbooks/{id}
DeleteRequest(c) ==
    /\ Serving(c)
    /\ deletes < MaxDeletes
    /\ deletes' = deletes + 1
    /\ \E i \in Ids : Begin(c, "delete", i, NoText)
    /\ UNCHANGED <<todo, floor>>

Query(c) ==
    /\ pc[c] = "read"
    /\ Return(c)
    /\ UNCHANGED <<serviceVars, disk, handle, todo, floor, promised, boundVars>>

\* Mutation: what is in the index already is skipped.
UpsertIfAbsent(c) ==
    /\ pc[c] = "upsert"
    /\ vectors' = [vectors EXCEPT ![id[c]] = IF @ = NoText THEN text[c] ELSE @]
    /\ IF c = Loader
       THEN GoTo(c, "nextFile") /\ UNCHANGED <<sawIndex, promised>>
       ELSE Return(c) /\ promised' = [promised EXCEPT ![id[c]] = text[c]]
    /\ UNCHANGED <<index, disk, handle, todo, floor, boundVars>>

\* The upsert is answered: the request returns the id, the loader goes on.
Upsert(c) ==
    /\ pc[c] = "upsert"
    /\ vectors' = [vectors EXCEPT ![id[c]] = text[c]]
    /\ IF c = Loader
       THEN GoTo(c, "nextFile") /\ UNCHANGED <<sawIndex, promised>>
       ELSE Return(c) /\ promised' = [promised EXCEPT ![id[c]] = text[c]]
    /\ UNCHANGED <<index, disk, handle, todo, floor, boundVars>>

\* Nobody vouches any more for what has been deleted.
RemoveVector(i) ==
    /\ vectors' = [vectors EXCEPT ![i] = NoText]
    /\ promised' = [promised EXCEPT ![i] = NoText]
    /\ floor' = [f \in Files |-> IF f = i THEN NoText ELSE floor[f]]

Delete(c) ==
    /\ pc[c] = "delete"
    /\ RemoveVector(id[c])
    /\ Return(c)
    /\ UNCHANGED <<index, disk, handle, todo, boundVars>>

\* The embedding or the command raises.
CommandFails(c) ==
    /\ pc[c] \in {"read", "upsert", "delete"}
    /\ Fault
    /\ Raise(c)
    /\ \/ UNCHANGED <<vectors, floor, promised>>
       \/ /\ pc[c] = "upsert"
          /\ vectors' = [vectors EXCEPT ![id[c]] = text[c]]
          /\ UNCHANGED <<floor, promised>>
       \/ pc[c] = "delete" /\ RemoveVector(id[c])
    /\ UNCHANGED <<index, disk>>

-----------------------------------------------------------------------------
(* load_runbooks                                                           *)

StartLoad ==
    /\ Begin(Loader, "seed", NoId, NoText)
    /\ todo' = Files
    /\ floor' = disk
    /\ UNCHANGED deletes

\* The next file is read; its embedding and upsert are awaited.
NextFile(f) ==
    /\ pc[Loader] = "nextFile"
    /\ f \in todo
    /\ todo' = todo \ {f}
    /\ pc' = [pc EXCEPT ![Loader] = "upsert"]
    /\ id' = [id EXCEPT ![Loader] = f]
    /\ text' = [text EXCEPT ![Loader] = disk[f]]
    /\ UNCHANGED <<serviceVars, disk, handle, op, observerVars, boundVars>>

\* All files are upserted: "runbooks_loaded".  The query that follows changes
\* nothing.
FinishLoad ==
    /\ pc[Loader] = "nextFile"
    /\ todo = {}
    /\ Return(Loader)
    /\ EndScript
    /\ promised' = [i \in Ids |-> IF i \in Files THEN floor[i] ELSE promised[i]]
    /\ floor' = [f \in Files |-> NoText]
    /\ UNCHANGED <<serviceVars, disk, boundVars>>

\* A process ends where its coroutines are.
ProcessEnds(p) ==
    /\ Fault
    /\ handle' = [handle EXCEPT ![p] = "none"]
    /\ pc' = [c \in Callers |-> IF ProcessOf(c) = p THEN "idle" ELSE pc[c]]
    /\ id' = [c \in Callers |-> IF ProcessOf(c) = p THEN NoId ELSE id[c]]
    /\ text' = [c \in Callers |-> IF ProcessOf(c) = p THEN NoText ELSE text[c]]
    /\ todo' = IF p = "loader" THEN {} ELSE todo
    /\ sawIndex' = {c \in sawIndex : ProcessOf(c) # p}
    /\ op' = [c \in Callers |-> IF ProcessOf(c) = p THEN "read" ELSE op[c]]
    /\ UNCHANGED <<serviceVars, disk, floor, promised>>

-----------------------------------------------------------------------------
\* What a call does when no command of its own raises.
CallRuns(c) ==
    \/ ListIndexes(c) \/ CreateIndex(c) \/ CreateConflicts(c) \/ OpenIndex(c)
    \/ Query(c) \/ Upsert(c) \/ Delete(c)

LoadRuns ==
    \/ \E f \in Files : NextFile(f)
    \/ FinishLoad

Next ==
    \/ \E f \in Files : EditFile(f)
    \/ \E c \in Callers :
          \/ Retrieve(c) \/ Startup(c)
          \/ ReadRequest(c) \/ CreateRequest(c) \/ DeleteRequest(c)
          \/ CallRuns(c)
          \/ InitFails(c) \/ CommandFails(c)
    \/ StartLoad
    \/ LoadRuns
    \/ \E p \in Processes : ProcessEnds(p)

Spec == Init /\ [][Next]_vars

\* A command in a thread comes back.  Nobody has to call, and the script is
\* run only when somebody runs it.
FairSpec ==
    /\ Spec
    /\ \A c \in Callers : WF_vars(CallRuns(c))
    /\ WF_vars(LoadRuns)

-----------------------------------------------------------------------------
(* Properties                                                              *)

\* A handle is cached only once there is an index behind it, whoever created
\* it and whatever failed on the way (pinecone_store.py:53-74).
HandleMeansIndex == \A p \in Processes : handle[p] = "open" => index = "exists"

\* "Idempotent: creating an existing index is skipped"
\* (pinecone_store.py:49): a call that begins when the index exists does not
\* try to create it.  A call that begins before that may lose a race and
\* raise.
ExistingIndexIsKept == \A c \in sawIndex : pc[c] # "create"

\* What an answered write vouches for stays in the index until it is
\* deleted: the text a create request stored, and for each seed file a text
\* no older than the one on disk when the last finished load began
\* (runbook_loader.py:53-69), whatever loads failed or were cut off since.
AnsweredWritesStay ==
    \A i \in Ids : promised[i] # NoText =>
        IF i \in Files THEN vectors[i] >= promised[i] ELSE vectors[i] = promised[i]

\* A failed load is repaired by running the script again: init_pinecone and
\* the upserts by file name can be repeated over what an earlier load left.
ReloadsSucceed ==
    ([]<>(pc[Loader] # "idle")) => <>[](\A f \in Files : vectors[f] # NoText)

=============================================================================
