-------------------------- MODULE MockManagement --------------------------
(***************************************************************************)
(* The admin API (MockManagementService over MongoMockRepository).         *)
(* Requests run concurrently on one event loop or in several processes; a  *)
(* request is suspended at each database operation, so an action is the    *)
(* outstanding operation together with the code that runs until the next   *)
(* one.  Between a request's operations anybody else's may take effect:    *)
(* there is no transaction, no revision check and no lock.                 *)
(***************************************************************************)
EXTENDS MockModel, Naturals, FiniteSets

CONSTANTS
    Handlers,   \* requests that can be in flight at once
    Duty,       \* Duty[h]: the routes the client behind h manages
    DbFailures, \* whether a database operation can raise
    Crashes     \* whether the process can die under a request

ASSUME HandlerAssumption ==
    /\ Duty \in [Handlers -> SUBSET Routes]
    /\ DbFailures \in BOOLEAN /\ Crashes \in BOOLEAN

VARIABLES
    store,      \* the `mocks` collection
    minted,     \* ids assigned so far: ObjectIds are never reused
    pc,         \* the database operation a handler waits for
    req,        \* its request
    local,      \* the aggregates it holds in memory, by id
    pending,    \* activation: conflicts not saved yet
    reply,      \* its last answer
    asked       \* history: ids some client asked to activate

dbVars == <<store, minted>>
vars == <<store, minted, pc, req, local, pending, reply, asked>>

CreateReq == [op: {"create"}, doc: NewDoc]
UpdateReq == [op: {"update"}, id: Ids, cmd: Cmds]
ActivateReq == [op: {"activate"}, id: Ids, force: BOOLEAN]
PlainReq == [op: {"delete", "deactivate"}, id: Ids]
NoReq == [op |-> "none"]
Request == CreateReq \cup UpdateReq \cup ActivateReq \cup PlainReq

PC == {"idle", "insert", "get", "list", "saveConflict", "save", "removeGet", "remove"}

(* 2xx, 404, 409 conflict, OperationNotAllowed, 422, domain error, 500, and
   no answer at all *)
Answer == {"none", "ok", "not_found", "conflict", "not_allowed", "invalid",
           "domain_error", "error", "lost"}

Nothing == [i \in Ids |-> NoDoc]

(* The operation a handler waits for is one its request gets to. *)
InProgress(h) ==
    /\ pc[h] = "insert" => req[h] \in CreateReq
    /\ pc[h] \in {"get", "save"} => req[h] \in UpdateReq \cup ActivateReq \cup PlainReq
    /\ pc[h] = "save" => req[h].op # "delete"
    /\ pc[h] \in {"list", "saveConflict"} => req[h] \in ActivateReq
    /\ pc[h] \in {"removeGet", "remove"} => req[h] \in PlainReq /\ req[h].op = "delete"
    /\ pc[h] \in {"list", "saveConflict", "save"} => local[h][req[h].id] \in Doc

TypeOK ==
    /\ store \in [Ids -> MaybeDoc]
    /\ minted \in SUBSET Ids
    /\ pc \in [Handlers -> PC]
    /\ req \in [Handlers -> Request \cup {NoReq}]
    /\ local \in [Handlers -> [Ids -> MaybeDoc]]
    /\ pending \in [Handlers -> SUBSET Ids]
    /\ reply \in [Handlers -> Answer]
    /\ asked \in SUBSET Ids
    /\ \A h \in Handlers : InProgress(h)

Init ==
    /\ store = Nothing
    /\ minted = {}
    /\ pc = [h \in Handlers |-> "idle"]
    /\ req = [h \in Handlers |-> NoReq]
    /\ local = [h \in Handlers |-> Nothing]
    /\ pending = [h \in Handlers |-> {}]
    /\ reply = [h \in Handlers |-> "none"]
    /\ asked = {}

-----------------------------------------------------------------------------
(* Helper actions: a handler answers, or goes on to its next operation.    *)

Reply(h, r) ==
    /\ pc' = [pc EXCEPT ![h] = "idle"]
    /\ reply' = [reply EXCEPT ![h] = r]
    /\ req' = [req EXCEPT ![h] = NoReq]
    /\ local' = [local EXCEPT ![h] = Nothing]
    /\ pending' = [pending EXCEPT ![h] = {}]

Await(h, op) == pc' = [pc EXCEPT ![h] = op] /\ UNCHANGED <<reply, req>>

(* A write that took effect may still raise in the client. *)
AnyAnswer == {"ok", "error"}  \* mutant: a write that worked is reported as failed
WriteAnswers == {"ok"} \cup (IF DbFailures THEN {"error"} ELSE {})

(* Requests.  A client addresses mocks of its routes, or ids that are gone. *)
Managed(h) == {i \in minted : store[i] = NoDoc \/ store[i].route \in Duty[h]}

(* Bound: a create is only sent while an id is left for it. *)
RoomForCreate == Cardinality({h \in Handlers : pc[h] = "insert"}) < Cardinality(Ids \ minted)

Receive(h, r, op) ==
    /\ pc[h] = "idle"
    /\ pc' = [pc EXCEPT ![h] = op]
    /\ req' = [req EXCEPT ![h] = r]
    /\ reply' = [reply EXCEPT ![h] = "none"]
    /\ UNCHANGED <<store, minted, local, pending>>

ReceiveCreate(h) ==
    /\ RoomForCreate
    /\ \E r \in CreateReq : r.doc.route \in Duty[h] /\ Receive(h, r, "insert")
    /\ UNCHANGED asked

ReceiveUpdate(h) ==
    /\ \E r \in UpdateReq :
        /\ r.id \in Managed(h)
        /\ r.cmd.route \in Duty[h] \cup {Unset}
        /\ HasChanges(r.cmd)
        /\ Receive(h, r, "get")
    /\ UNCHANGED asked

(* An update without a field is refused before the database is asked. *)
RefuseEmptyUpdate(h) ==
    /\ pc[h] = "idle"
    /\ \E c \in Cmds : ~HasChanges(c)
    /\ Reply(h, "invalid")
    /\ UNCHANGED <<store, minted, asked>>

ReceiveActivate(h) ==
    \E r \in ActivateReq :
        /\ r.id \in Managed(h)
        /\ Receive(h, r, "get")
        /\ asked' = asked \cup {r.id}

ReceivePlain(h) ==
    /\ \E r \in PlainReq : r.id \in Managed(h) /\ Receive(h, r, "get")
    /\ UNCHANGED asked

-----------------------------------------------------------------------------
(* The steps of a request. *)

Insert(h) ==
    /\ pc[h] = "insert"
    /\ \E i \in Ids \ minted :
        /\ store' = [store EXCEPT ![i] = req[h].doc]
        /\ minted' = minted \cup {i}
    /\ \E r \in WriteAnswers : Reply(h, r)
    /\ UNCHANGED asked

(* What each operation decides on the copy it loaded: nothing but a copy is
   changed yet. *)
KeepCopy(h, d) ==
    /\ local' = [local EXCEPT ![h] = [@ EXCEPT ![req[h].id] = d]]
    /\ UNCHANGED pending

LoadedForUpdate(h, d) ==
    /\ req[h].op = "update"
    /\ \/ ~Accepts(req[h].cmd) /\ Reply(h, "domain_error")
       \/ /\ Accepts(req[h].cmd)
          /\ KeepCopy(h, Updated(d, req[h].cmd)) /\ Await(h, "save")

SkipRemove(h) ==  \* mutant: the answer does not wait for remove
    req[h].op = "delete" /\ Reply(h, "ok")
LoadedForDelete(h) ==
    /\ req[h].op = "delete"
    /\ Await(h, "removeGet") /\ UNCHANGED <<local, pending>>

LoadedForActivate(h, d) ==
    /\ req[h].op = "activate"
    /\ \/ d.active /\ Reply(h, "not_allowed")
       \/ ~d.active /\ KeepCopy(h, d) /\ Await(h, "list")

LoadedForDeactivate(h, d) ==
    /\ req[h].op = "deactivate"
    /\ \/ ~d.active /\ Reply(h, "not_allowed")
       \/ d.active /\ KeepCopy(h, Inactive(d)) /\ Await(h, "save")

Get(h) ==
    LET d == store[req[h].id] IN
    /\ pc[h] = "get"
    /\ UNCHANGED <<store, minted, asked>>
    /\ \/ d = NoDoc /\ Reply(h, "not_found")
       \/ /\ d # NoDoc
          /\ \/ LoadedForUpdate(h, d) \/ LoadedForDelete(h)
             \/ LoadedForActivate(h, d) \/ LoadedForDeactivate(h, d)

ListCandidates(d) ==
    {j \in Ids : /\ store[j] # NoDoc /\ store[j].active
                 /\ store[j].route = d.route /\ store[j].scope = d.scope}

NoConflicts(i, d) == {}  \* mutant: the conflict check is dropped
FindConflicts(i, d) == {j \in ListCandidates(d) \ {i} : SameTarget(d, store[j])}

(* What activate() and deactivate() leave in memory before the first save. *)
ActivatedOnly(mem, i, conflicts) ==  \* mutant: conflicts are saved as they were
    [j \in Ids |-> CASE j = i -> Active(mem[i])
                     [] j \in conflicts -> store[j]
                     [] OTHER -> mem[j]]
Switched(mem, i, conflicts) ==
    [j \in Ids |-> CASE j = i -> Active(mem[i])
                     [] j \in conflicts -> Inactive(store[j])
                     [] OTHER -> mem[j]]

(* list_candidates, the conflict check, and the deactivations in memory. *)
List(h) ==
    LET i == req[h].id
        conflicts == FindConflicts(i, local[h][i]) IN
    /\ pc[h] = "list"
    /\ UNCHANGED <<store, minted, asked>>
    /\ \/ conflicts # {} /\ ~req[h].force /\ Reply(h, "conflict")
       \/ /\ conflicts = {} \/ req[h].force
          /\ local' = [local EXCEPT ![h] = Switched(@, i, conflicts)]
          /\ pending' = [pending EXCEPT ![h] = conflicts]
          /\ Await(h, IF conflicts = {} THEN "save" ELSE "saveConflict")

(* document.replace(): no upsert, and DocumentNotFound becomes a 500. *)
Upsert(h, i) == store' = [store EXCEPT ![i] = local[h][i]]  \* mutant
Replace(h, i) == store[i] # NoDoc /\ store' = [store EXCEPT ![i] = local[h][i]]

(* Conflicts are saved one at a time, in the order the query returned them
   (by priority and age, which the model leaves open). *)
SaveConflictAgain(h) ==  \* mutant: the loop does not advance
    /\ pc[h] = "saveConflict"
    /\ \E j \in pending[h] : Replace(h, j)
    /\ UNCHANGED <<minted, pc, req, local, pending, reply, asked>>
SaveConflict(h) ==
    /\ pc[h] = "saveConflict"
    /\ UNCHANGED <<minted, asked>>
    /\ \E j \in pending[h] :
        \/ store[j] = NoDoc /\ Reply(h, "error") /\ UNCHANGED store
        \/ /\ Replace(h, j)
           /\ \/ DbFailures /\ Reply(h, "error")
              \/ /\ pending' = [pending EXCEPT ![h] = @ \ {j}]
                 /\ Await(h, IF pending[h] = {j} THEN "save" ELSE "saveConflict")
                 /\ UNCHANGED local

Save(h) ==
    LET i == req[h].id IN
    /\ pc[h] = "save"
    /\ UNCHANGED <<minted, asked>>
    /\ \/ store[i] = NoDoc /\ Reply(h, "error") /\ UNCHANGED store
       \/ Replace(h, i) /\ \E r \in WriteAnswers : Reply(h, r)

(* remove looks the document up again; delete_mock ignores what it returns. *)
RemoveGet(h) ==
    /\ pc[h] = "removeGet"
    /\ UNCHANGED <<store, minted, asked>>
    /\ \/ store[req[h].id] = NoDoc /\ Reply(h, "ok")
       \/ store[req[h].id] # NoDoc /\ Await(h, "remove") /\ UNCHANGED <<local, pending>>

Remove(h) ==
    /\ pc[h] = "remove"
    /\ store' = [store EXCEPT ![req[h].id] = NoDoc]
    /\ UNCHANGED <<minted, asked>>
    /\ \E r \in WriteAnswers : Reply(h, r)

(* The outstanding operation raises without having taken effect. *)
DbError(h) ==
    /\ DbFailures /\ pc[h] # "idle"
    /\ Reply(h, "error")
    /\ UNCHANGED <<store, minted, asked>>

Crash(h) ==
    /\ Crashes /\ pc[h] # "idle"
    /\ Reply(h, "lost")
    /\ UNCHANGED <<store, minted, asked>>

Arrive(h) ==
    \/ ReceiveCreate(h) \/ ReceiveUpdate(h) \/ RefuseEmptyUpdate(h)
    \/ ReceiveActivate(h) \/ ReceivePlain(h)

Step(h) ==
    \/ Insert(h) \/ Get(h) \/ List(h) \/ SaveConflict(h) \/ Save(h)
    \/ RemoveGet(h) \/ Remove(h)

Next == \E h \in Handlers : Arrive(h) \/ Step(h) \/ DbError(h) \/ Crash(h)

Spec == Init /\ [][Next]_vars

(* Every database operation ends: with a result or, after the driver's
   timeouts, with an exception. *)
FairSpec == Spec /\ \A h \in Handlers : WF_vars(Step(h))

-----------------------------------------------------------------------------
(* Properties that hold however requests interleave, fail and crash.       *)

(* A deleted mock never comes back: the saves of requests that loaded it
   before it was deleted (mongo_mock_repository.py:98) do not revive it. *)
NoResurrection ==
    [][\A i \in minted : store[i] = NoDoc => store'[i] = NoDoc]_vars

(* A mock nobody asked to activate is never on, though updates, whole-document
   saves and conflict resolution all write the flag from stale copies. *)
NeverActivatedUnasked ==
    \A i \in Ids : store[i] # NoDoc /\ store[i].active => i \in asked

(* While the database works, the only 500 is for a mock deleted under the
   request, the target or one of its conflicts (mongo_mock_repository.py:98-107). *)
ErrorOnlyWhenVanished ==
    [][\A h \in Handlers : reply[h] # "error" /\ reply'[h] = "error"
         => pc[h] # "insert" /\ \E i \in pending[h] \cup {req[h].id} : store[i] = NoDoc]_vars

(* Who is told that a mock is deleted is told the truth, though delete_mock
   looks it up twice and ignores what remove returns
   (mock_management_service.py:155-159). *)
DeletedIsGone ==
    [][\A h \in Handlers :
         req[h] \in PlainReq /\ req[h].op = "delete" /\ reply[h] # "ok" /\ reply'[h] = "ok"
         => store'[req[h].id] = NoDoc]_vars

(* Every request is answered. *)
Answered == \A h \in Handlers : pc[h] # "idle" ~> pc[h] = "idle"

-----------------------------------------------------------------------------
(* Properties that hold when no two requests in flight manage the same
   route: one admin client per route.                                      *)

OneWriterPerRoute ==
    \A g, h \in Handlers : g # h => Duty[g] \cap Duty[h] = {}

Catalog == INSTANCE MockCatalog WITH store <- store, minted <- minted

(* The operations are then as good as atomic, failures and crashes included. *)
ImplementsCatalog == Catalog!Spec

(* What a request is about to write still matches the database: nobody has
   changed the mocks it loaded, and the conflicts it found are all there are. *)
UpToDate(h) ==
    LET i == req[h].id IN
    /\ pc[h] = "insert" => req[h].doc.route \in Duty[h]
    /\ pc[h] \notin {"idle", "insert"} => i \in Managed(h)
    /\ pc[h] \in {"get", "save"} /\ req[h].op = "update"
         => req[h].cmd.route \in Duty[h] \cup {Unset}
    /\ pc[h] \in {"list", "saveConflict", "save", "removeGet", "remove"} => store[i] # NoDoc
    /\ pc[h] = "list" => local[h][i] = store[i]
    /\ pc[h] = "saveConflict" =>
         /\ local[h][i] = Active(store[i])
         /\ pending[h] = Catalog!ActiveConflicts(i)
         /\ \A j \in pending[h] : local[h][j] = Inactive(store[j])
    /\ pc[h] = "save" =>
         \/ /\ req[h].op = "activate"
            /\ local[h][i] = Active(store[i])
            /\ Catalog!ActiveConflicts(i) = {}
         \/ /\ req[h].op = "update" /\ Accepts(req[h].cmd)
            /\ local[h][i] = Updated(store[i], req[h].cmd)
         \/ /\ req[h].op = "deactivate"
            /\ local[h][i] = Inactive(store[i])
CopiesUpToDate == \A h \in Handlers : UpToDate(h)

(* No two active mocks answer the same requests (mock_management_service.py:
   189-226), at any point of a forced activation.  Needs KeyStable. *)
ConflictFree == Catalog!ConflictFree

(* Without KeyStable, exactly one thing brings two active mocks into conflict:
   an update that gives an active one another route, scope or rules, which is
   not checked (update_mock.py:60-75).  Activations, inserts, and saves of
   half-done or interrupted requests never do. *)
InConflict(i, j) ==
    /\ i # j /\ store[i] # NoDoc /\ store[j] # NoDoc
    /\ store[i].active /\ store[j].active /\ SameTarget(store[i], store[j])
MovedWhileOn(k) ==
    /\ store[k] # NoDoc /\ store[k].active
    /\ store'[k] # NoDoc /\ ~SameTarget(store[k], store'[k])
ConflictsOnlyByUpdate ==
    [][\A i, j \in Ids : ~InConflict(i, j) /\ InConflict(i, j)'
         => MovedWhileOn(i) \/ MovedWhileOn(j)]_vars

(* A forced activation of an existing mock switches it on, unless the
   database fails or the process dies: whatever conflicts with it is no
   obstacle (mock_management_service.py:208-238). *)
ForcedActivationWorks ==
    \A h \in Handlers, i \in Ids :
        (/\ pc[h] = "get" /\ req[h] = [op |-> "activate", id |-> i, force |-> TRUE]
         /\ store[i] # NoDoc)
        ~> (store[i] # NoDoc /\ store[i].active) \/ reply[h] \in {"error", "lost"}

-----------------------------------------------------------------------------
(* Properties the interface documents: they hold of one client per route   *)
(* too, and concurrent requests on one route violate them.                 *)

(* An update writes the fields it names and no other: "fields to change",
   update_mock.py:23. *)
UpdateKeepsOtherFields ==
    [][\A h \in Handlers :
         pc[h] = "save" /\ req[h].op = "update" /\ pc'[h] = "idle" /\ store' # store
         => store'[req[h].id] = Updated(store[req[h].id], req[h].cmd)]_vars

(* An activation that was not told to deactivate conflicts does not succeed
   beside an active one: "MockConflictError: If active conflicts exist and
   should not be deactivated", mock_management_service.py:179. *)
UnforcedActivationExcludes ==
    [][\A h \in Handlers :
         pc[h] = "save" /\ req[h].op = "activate" /\ ~req[h].force /\ reply'[h] = "ok"
         => FindConflicts(req[h].id, local[h][req[h].id]) = {}]_vars
=============================================================================
