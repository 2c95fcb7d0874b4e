----------------------- MODULE MockRefinement_proofs -----------------------
(***************************************************************************)
(* With one client per route the admin API is as good as atomic: it        *)
(* implements MockCatalog, through failures and crashes, and keeps active  *)
(* mocks free of conflicts.  Without that discipline TLC shows it does not *)
(* (the runs that expect a violation).                                     *)
(***************************************************************************)
EXTENDS MockManagement_proofs

StoredIsMinted == \A i \in Ids : store[i] # NoDoc => i \in minted

LEMMA StoredStep == TypeOK /\ StoredIsMinted /\ [Next]_vars => StoredIsMinted'
  <1> SUFFICES ASSUME TypeOK, StoredIsMinted, [Next]_vars PROVE StoredIsMinted'
    OBVIOUS
  <1>1. ASSUME NEW h \in Handlers, Step(h) PROVE StoredIsMinted'
    <2>1. CASE Insert(h)  BY <2>1 DEF Insert, TypeOK, StoredIsMinted
    <2>2. CASE Get(h) \/ List(h) \/ RemoveGet(h)
      BY <2>2 DEF Get, List, RemoveGet, StoredIsMinted
    <2>3. CASE SaveConflict(h)
      BY <2>3 DEF SaveConflict, Replace, TypeOK, StoredIsMinted
    <2>4. CASE Save(h)  BY <2>4 DEF Save, Replace, TypeOK, StoredIsMinted
    <2>5. CASE Remove(h)  BY <2>5 DEF Remove, TypeOK, StoredIsMinted
    <2> QED BY <1>1, <2>1, <2>2, <2>3, <2>4, <2>5 DEF Step
  <1>2. CASE UNCHANGED <<store, minted>>
    BY <1>2 DEF StoredIsMinted
  <1> QED BY <1>1, <1>2 DEF Next, vars, Arrive, ReceiveCreate, ReceiveUpdate, RefuseEmptyUpdate,
     ReceiveActivate, ReceivePlain, Receive, DbError, Crash

InDuty(d, h) == d = NoDoc \/ d.route \in Duty[h]

(* What the step of one handler may do to everybody else's mocks. *)
Frame(h) ==
    /\ \A g \in Handlers \ {h} : /\ pc'[g] = pc[g] /\ req'[g] = req[g]
                                 /\ local'[g] = local[g] /\ pending'[g] = pending[g]
    /\ minted \subseteq minted'
    /\ \A j \in Ids : \/ store'[j] = store[j]
                      \/ /\ InDuty(store[j], h) /\ InDuty(store'[j], h)
                         /\ j \in minted /\ store[j] = NoDoc => store'[j] = NoDoc

LEMMA CatalogConflicts ==
    \A i \in Ids : Catalog!ActiveConflicts(i) =
        {j \in Ids \ {i} : store[j] # NoDoc /\ store[j].active /\ SameTarget(store[i], store[j])}
  BY DEF Catalog!ActiveConflicts, Catalog!Exists, Catalog!SameTarget, SameTarget

LEMMA CatalogConflictsNext ==
    \A i \in Ids : Catalog!ActiveConflicts(i)' =
        {j \in Ids \ {i} : store'[j] # NoDoc /\ store'[j].active /\ SameTarget(store'[i], store'[j])}
  BY DEF Catalog!ActiveConflicts, Catalog!Exists, Catalog!SameTarget, SameTarget

(* A handler keeps its grip on the mocks of its routes while others move. *)
LEMMA OthersStay ==
    ASSUME TypeOK, OneWriterPerRoute, NEW h \in Handlers, NEW g \in Handlers \ {h},
           Frame(h), UpToDate(g)
    PROVE  UpToDate(g)'
  <1> DEFINE i == req[g].id
  <1>1. /\ pc'[g] = pc[g] /\ req'[g] = req[g]
        /\ local'[g] = local[g] /\ pending'[g] = pending[g]
    BY DEF Frame
  <1>2. CASE pc[g] \in {"idle", "insert"}
    BY <1>1, <1>2 DEF UpToDate
  <1>3. CASE pc[g] \notin {"idle", "insert"}
    <2>1. i \in Ids /\ i \in minted /\ InDuty(store[i], g)
      BY <1>3, RequestKinds DEF UpToDate, Managed, InDuty, TypeOK, InProgress, PC
    <2>2. ASSUME NEW j \in Ids, store[j] # NoDoc, store[j].route \in Duty[g]
          PROVE  store'[j] = store[j]
      BY <2>2 DEF Frame, InDuty, OneWriterPerRoute
    <2>3. store'[i] = store[i] /\ i \in minted'
      BY <2>1, <2>2 DEF Frame, InDuty
    <2>4. ASSUME NEW k \in Ids, k = i, store[k] # NoDoc
          PROVE  /\ Catalog!ActiveConflicts(k)' = Catalog!ActiveConflicts(k)
                 /\ \A j \in Catalog!ActiveConflicts(k) : store'[j] = store[j]
      <3>1. store[k].route \in Duty[g] /\ store'[k] = store[k]
        BY <2>1, <2>3, <2>4 DEF InDuty
      <3>2. ASSUME NEW j \in Ids, store'[j] # NoDoc, store'[j].route \in Duty[g]
            PROVE  store'[j] = store[j]
        BY <3>2 DEF Frame, InDuty, OneWriterPerRoute
      <3>3. \A j \in Catalog!ActiveConflicts(k) : store'[j] = store[j]
        BY <2>2, <3>1, CatalogConflicts DEF SameTarget
      <3>4. \A j \in Ids \ {k} :
              (store'[j] # NoDoc /\ store'[j].active /\ SameTarget(store'[k], store'[j]))
              <=> (store[j] # NoDoc /\ store[j].active /\ SameTarget(store[k], store[j]))
        BY <2>2, <3>1, <3>2 DEF SameTarget
      <3>5. {j \in Ids \ {k} : store'[j] # NoDoc /\ store'[j].active /\ SameTarget(store'[k], store'[j])}
            = {j \in Ids \ {k} : store[j] # NoDoc /\ store[j].active /\ SameTarget(store[k], store[j])}
        BY <3>4
      <3> QED BY <3>3, <3>5, CatalogConflicts, CatalogConflictsNext
    <2>5. i \in Managed(g)'
      BY <2>1, <2>3 DEF Managed, InDuty
    <2>6. PICK k \in Ids : k = i
      BY <2>1
    <2>7. UpToDate(g)'
      <3>1. k = req'[g].id
        BY <1>1, <2>6
      <3> QED BY <1>1, <1>3, <2>3, <2>4, <2>5, <2>6, <3>1 DEF UpToDate
    <2> QED BY <2>7
  <1> QED BY <1>2, <1>3

-----------------------------------------------------------------------------
(* What a handler's own steps do.                                          *)

LEMMA ReplyUpToDate ==
    ASSUME TypeOK, NEW h \in Handlers, NEW r, Reply(h, r)
    PROVE  /\ UpToDate(h)'
           /\ \A g \in Handlers \ {h} : /\ pc'[g] = pc[g] /\ req'[g] = req[g]
                                        /\ local'[g] = local[g] /\ pending'[g] = pending[g]
  <1>1. pc'[h] = "idle"
    BY DEF Reply, TypeOK
  <1>2. UpToDate(h)'
    BY <1>1 DEF UpToDate
  <1> QED BY <1>2 DEF Reply, TypeOK

LEMMA ArriveUpToDate ==
    ASSUME TypeOK, NEW h \in Handlers, Arrive(h)
    PROVE  Frame(h) /\ UpToDate(h)' /\ UNCHANGED <<store, minted>>
  <1>1. CASE RefuseEmptyUpdate(h)
    BY <1>1, ReplyUpToDate DEF RefuseEmptyUpdate, Frame
  <1>2. CASE ReceiveCreate(h)
    <2>1. PICK r \in CreateReq : r.doc.route \in Duty[h] /\ Receive(h, r, "insert")
      BY <1>2 DEF ReceiveCreate
    <2>2. pc'[h] = "insert" /\ req'[h] = r
      BY <2>1 DEF Receive, TypeOK
    <2> QED BY <2>1, <2>2 DEF Receive, Frame, UpToDate, TypeOK
  <1>3. ASSUME NEW r \in UpdateReq \cup ActivateReq \cup PlainReq, Receive(h, r, "get"),
               r.id \in Managed(h), r.op = "update" => r.cmd.route \in Duty[h] \cup {Unset}
        PROVE  Frame(h) /\ UpToDate(h)' /\ UNCHANGED <<store, minted>>
    <2>1. pc'[h] = "get" /\ req'[h] = r /\ UNCHANGED <<store, minted, local, pending>>
      BY <1>3 DEF Receive, TypeOK
    <2>2. Managed(h)' = Managed(h)
      BY <2>1 DEF Managed
    <2>3. UpToDate(h)'
      BY <1>3, <2>1, <2>2 DEF UpToDate
    <2> QED BY <1>3, <2>1, <2>3 DEF Receive, Frame, TypeOK
  <1>4. CASE ReceiveUpdate(h)  BY <1>3, <1>4 DEF ReceiveUpdate
  <1>5. CASE ReceiveActivate(h)  BY <1>3, <1>5, RequestKinds DEF ReceiveActivate
  <1>6. CASE ReceivePlain(h)  BY <1>3, <1>6, RequestKinds DEF ReceivePlain
  <1> QED BY <1>1, <1>2, <1>4, <1>5, <1>6 DEF Arrive

(* A step that only moves the handler on: nobody else's state changes. *)
LEMMA AwaitFrame ==
    ASSUME TypeOK, NEW h \in Handlers, NEW op, Await(h, op),
           \A g \in Handlers \ {h} : local'[g] = local[g] /\ pending'[g] = pending[g],
           minted' = minted,
           \A j \in Ids : \/ store'[j] = store[j]
                          \/ /\ InDuty(store[j], h) /\ InDuty(store'[j], h)
                             /\ store[j] # NoDoc
    PROVE  Frame(h) /\ pc'[h] = op /\ req' = req
  BY DEF Await, Frame, TypeOK

LEMMA GetUpToDate ==
    ASSUME TypeOK, NEW h \in Handlers, Get(h), UpToDate(h)
    PROVE  Frame(h) /\ UpToDate(h)' /\ UNCHANGED dbVars
  <1> USE DEF LoadedForUpdate, LoadedForDelete, LoadedForActivate, LoadedForDeactivate, KeepCopy
  <1> DEFINE i == req[h].id
  <1>0. UNCHANGED <<store, minted>> /\ i \in Ids
    BY RequestKinds DEF Get, TypeOK, InProgress
  <1>1. CASE \E r \in Answer : Reply(h, r)
    BY <1>0, <1>1, ReplyUpToDate DEF Frame, dbVars
  <1>2. CASE ~(\E r \in Answer : Reply(h, r))
    <2>1. store[i] # NoDoc /\ i \in Managed(h)
      BY <1>2 DEF Get, Answer, UpToDate
    <2>2. Managed(h)' = Managed(h)
      BY <1>0 DEF Managed
    <2>3. PICK op \in {"save", "list", "removeGet"} :
            /\ Await(h, op)
            /\ op = "list" => local' = [local EXCEPT ![h] = [@ EXCEPT ![i] = store[i]]]
            /\ op = "save" =>
                 \/ /\ req[h].op = "update" /\ Accepts(req[h].cmd)
                    /\ local' = [local EXCEPT ![h] = [@ EXCEPT ![i] = Updated(store[i], req[h].cmd)]]
                 \/ /\ req[h].op = "deactivate"
                    /\ local' = [local EXCEPT ![h] = [@ EXCEPT ![i] = Inactive(store[i])]]
            /\ op = "removeGet" => UNCHANGED local
            /\ UNCHANGED pending
      BY <1>2 DEF Get, Answer
    <2>4. /\ \A g \in Handlers \ {h} : local'[g] = local[g] /\ pending'[g] = pending[g]
          /\ op = "list" => local'[h][i] = store[i]
          /\ op = "save" =>
               \/ /\ req[h].op = "update" /\ Accepts(req[h].cmd)
                  /\ local'[h][i] = Updated(store[i], req[h].cmd)
               \/ req[h].op = "deactivate" /\ local'[h][i] = Inactive(store[i])
      BY <1>0, <2>3 DEF TypeOK
    <2>5. Frame(h) /\ pc'[h] = op /\ req' = req
      BY <1>0, <2>3, <2>4, AwaitFrame
    <2>6. req[h].op = "update" => req[h].cmd.route \in Duty[h] \cup {Unset}
      BY DEF Get, UpToDate
    <2>7. UpToDate(h)'
      BY <1>0, <2>1, <2>2, <2>3, <2>4, <2>5, <2>6 DEF UpToDate
    <2> QED BY <1>0, <2>5, <2>7 DEF dbVars
  <1> QED BY <1>1, <1>2

LEMMA ListUpToDate ==
    ASSUME TypeOK, NEW h \in Handlers, List(h), UpToDate(h)
    PROVE  Frame(h) /\ UpToDate(h)' /\ UNCHANGED dbVars
  <1>0. PICK i \in Ids : i = req[h].id
    BY RequestKinds DEF List, TypeOK, InProgress
  <1> DEFINE conflicts == FindConflicts(i, local[h][i])
             op == IF conflicts = {} THEN "save" ELSE "saveConflict"
  <1>1. CASE Reply(h, "conflict")
    BY <1>1, ReplyUpToDate DEF List, Frame, dbVars
  <1>2. CASE ~Reply(h, "conflict")
    <2>1. /\ store[i] # NoDoc /\ store[i] \in Doc /\ local[h][i] = store[i]
          /\ i \in Managed(h) /\ req[h].op = "activate"
      BY <1>0, RequestKinds DEF List, UpToDate, TypeOK, MaybeDoc, InProgress
    <2>2. /\ local' = [local EXCEPT ![h] = Switched(@, i, conflicts)]
          /\ pending' = [pending EXCEPT ![h] = conflicts]
          /\ Await(h, op)
          /\ UNCHANGED <<store, minted>>
      BY <1>0, <1>2 DEF List
    <2>3. conflicts = Catalog!ActiveConflicts(i)
      <3>1. conflicts = {j \in Ids \ {i} : store[j] # NoDoc /\ store[j].active
                                           /\ SameTarget(store[i], store[j])}
        BY <2>1 DEF FindConflicts, ListCandidates, SameTarget
      <3> QED BY <3>1, CatalogConflicts
    <2>4. Catalog!ActiveConflicts(i)' = Catalog!ActiveConflicts(i)
      BY <2>2, CatalogConflicts, CatalogConflictsNext
    <2>5. /\ local'[h] = Switched(local[h], i, conflicts) /\ pending'[h] = conflicts
          /\ \A g \in Handlers \ {h} : local'[g] = local[g] /\ pending'[g] = pending[g]
      BY <2>2 DEF TypeOK
    <2>6. local'[h][i] = Active(store[i]) /\ \A j \in conflicts : local'[h][j] = Inactive(store[j])
      <3>1. i \notin conflicts /\ conflicts \subseteq Ids
        BY DEF FindConflicts, ListCandidates
      <3> QED BY <2>1, <2>5, <3>1 DEF Switched
    <2>7. Frame(h) /\ pc'[h] = op /\ req' = req
      BY <2>2, <2>5, AwaitFrame
    <2>8. i \in Managed(h)' /\ i = req'[h].id
      BY <1>0, <2>1, <2>2, <2>7 DEF Managed
    <2>9. UpToDate(h)'
      <3>1. CASE conflicts = {}
        BY <2>1, <2>2, <2>3, <2>4, <2>6, <2>7, <2>8, <3>1 DEF UpToDate
      <3>2. CASE conflicts # {}
        BY <2>1, <2>2, <2>3, <2>4, <2>5, <2>6, <2>7, <2>8, <3>2 DEF UpToDate
      <3> QED BY <3>1, <3>2
    <2> QED BY <2>2, <2>7, <2>9 DEF dbVars
  <1> QED BY <1>1, <1>2

(* Saving one conflict is the catalog's deactivation of it. *)
LEMMA SaveConflictUpToDate ==
    ASSUME TypeOK, NEW h \in Handlers, SaveConflict(h), UpToDate(h)
    PROVE  Frame(h) /\ UpToDate(h)' /\ (Catalog!Next \/ UNCHANGED dbVars)
  <1>0. PICK i \in Ids : i = req[h].id
    BY RequestKinds DEF SaveConflict, TypeOK, InProgress
  <1>1. /\ store[i] \in Doc /\ local[h][i] = Active(store[i]) /\ i \in Managed(h)
        /\ pending[h] = Catalog!ActiveConflicts(i)
        /\ \A j \in pending[h] : local[h][j] = Inactive(store[j])
        /\ req[h].op = "activate" /\ store[i].route \in Duty[h]
    BY <1>0, RequestKinds DEF SaveConflict, UpToDate, TypeOK, MaybeDoc, Managed, InProgress
  <1>2. \A j \in pending[h] : /\ j \in Ids \ {i} /\ store[j] \in Doc
                              /\ store[j].active /\ SameTarget(store[i], store[j])
    BY <1>0, <1>1, CatalogConflicts DEF TypeOK, MaybeDoc
  <1>3. PICK j \in pending[h] :
          /\ store' = [store EXCEPT ![j] = Inactive(store[j])]
          /\ \/ Reply(h, "error")
             \/ /\ pending' = [pending EXCEPT ![h] = @ \ {j}]
                /\ Await(h, IF pending[h] = {j} THEN "save" ELSE "saveConflict")
                /\ UNCHANGED local
    BY <1>1, <1>2, DocOps DEF SaveConflict, Replace
  <1>4. /\ store'[j] = Inactive(store[j]) /\ store'[j] \in Doc /\ ~store'[j].active
        /\ \A k \in Ids \ {j} : store'[k] = store[k]
        /\ InDuty(store[j], h) /\ InDuty(store'[j], h)
    BY <1>1, <1>2, <1>3, DocOps DEF TypeOK, InDuty, SameTarget
  <1>5. UNCHANGED <<minted>>
    BY DEF SaveConflict
  <1>6. Catalog!Next
    <2>1. Catalog!DeactivateMock(j)
      BY <1>2, <1>3, <1>5, DocOps DEF Catalog!DeactivateMock, Catalog!Exists, Catalog!Inactive, Inactive
    <2> QED BY <1>2, <2>1 DEF Catalog!Next
  <1>7. CASE Reply(h, "error")
    BY <1>2, <1>4, <1>5, <1>6, <1>7, ReplyUpToDate, DocOps DEF Frame
  <1> DEFINE op == IF pending[h] = {j} THEN "save" ELSE "saveConflict"
  <1>8. CASE pending' = [pending EXCEPT ![h] = @ \ {j}] /\ Await(h, op) /\ UNCHANGED local
    <2>1. pending'[h] = pending[h] \ {j} /\ \A g \in Handlers \ {h} : pending'[g] = pending[g]
      BY <1>8 DEF TypeOK
    <2>2. Frame(h) /\ pc'[h] = op /\ req' = req
      BY <1>2, <1>4, <1>5, <1>8, <2>1, AwaitFrame, DocOps
    <2>3. Catalog!ActiveConflicts(i)' = Catalog!ActiveConflicts(i) \ {j}
      <3>1. \A k \in Ids \ {i} :
              (store'[k] # NoDoc /\ store'[k].active /\ SameTarget(store'[i], store'[k]))
              <=> (k # j /\ store[k] # NoDoc /\ store[k].active /\ SameTarget(store[i], store[k]))
        BY <1>2, <1>4
      <3>2. {k \in Ids \ {i} : store'[k] # NoDoc /\ store'[k].active /\ SameTarget(store'[i], store'[k])}
            = {k \in Ids \ {i} : store[k] # NoDoc /\ store[k].active /\ SameTarget(store[i], store[k])} \ {j}
        BY <3>1
      <3> QED BY <3>2, CatalogConflicts, CatalogConflictsNext
    <2>4. i \in Managed(h)' /\ i = req'[h].id /\ store'[i] = store[i] /\ store'[i] # NoDoc
      BY <1>0, <1>1, <1>2, <1>4, <1>5, <2>2, DocOps DEF Managed
    <2>5. \A k \in pending'[h] : local'[h][k] = Inactive(store'[k])
      BY <1>1, <1>2, <1>4, <1>8, <2>1
    <2>6. UpToDate(h)'
      <3>1. CASE pending[h] = {j}
        BY <1>1, <1>8, <2>2, <2>3, <2>4, <3>1 DEF UpToDate
      <3>2. CASE pending[h] # {j}
        BY <1>1, <1>8, <2>1, <2>2, <2>3, <2>4, <2>5, <3>2 DEF UpToDate
      <3> QED BY <3>1, <3>2
    <2> QED BY <1>6, <2>2, <2>6
  <1> QED BY <1>3, <1>7, <1>8

(* Saving the target is the catalog's operation of the same name. *)
LEMMA SaveUpToDate ==
    ASSUME TypeOK, NEW h \in Handlers, Save(h), UpToDate(h)
    PROVE  Frame(h) /\ UpToDate(h)' /\ (Catalog!Next \/ UNCHANGED dbVars)
  <1>0. PICK i \in Ids : i = req[h].id
    BY RequestKinds DEF Save, TypeOK, InProgress
  <1>1. /\ store[i] \in Doc /\ i \in Managed(h) /\ store[i].route \in Duty[h]
        /\ store' = [store EXCEPT ![i] = local[h][i]] /\ UNCHANGED minted
        /\ \E r \in Answer : Reply(h, r)
    BY <1>0, WriteAnswersAreAnswers DEF Save, Replace, UpToDate, TypeOK, MaybeDoc, Managed
  <1>2. local[h][i] \in Doc /\ local[h][i].route \in Duty[h] /\ Catalog!Next
    <2>1. CASE /\ local[h][i] = Active(store[i]) /\ Catalog!ActiveConflicts(i) = {}
      <3>1. Catalog!ActivateMock(i)
        BY <1>1, <2>1, DocOps DEF Catalog!ActivateMock, Catalog!Exists, Catalog!Active, Active
      <3> QED BY <1>1, <2>1, <3>1, DocOps DEF Catalog!Next
    <2>2. CASE /\ req[h].op = "update" /\ Accepts(req[h].cmd)
               /\ local[h][i] = Updated(store[i], req[h].cmd)
      <3>1. req[h].cmd \in Cmds /\ req[h].cmd.route \in Duty[h] \cup {Unset}
        BY <2>2, RequestKinds DEF Save, TypeOK, InProgress, UpToDate
      <3>2. local[h][i] \in Doc /\ local[h][i].route \in Duty[h]
        BY <1>1, <2>2, <3>1, UpdatedDoc
      <3>3. Catalog!UpdateMock(i)
        BY <1>1, <2>2, <3>1, DocOps DEF Catalog!UpdateMock, Catalog!Exists, Catalog!Accepts,
           Accepts, Catalog!Updated, Updated, Catalog!Chosen, Chosen
      <3> QED BY <3>2, <3>3 DEF Catalog!Next
    <2>3. CASE local[h][i] = Inactive(store[i])
      <3>1. Catalog!DeactivateMock(i)
        BY <1>1, <2>3, DocOps DEF Catalog!DeactivateMock, Catalog!Exists, Catalog!Inactive, Inactive
      <3> QED BY <1>1, <2>3, <3>1, DocOps DEF Catalog!Next
    <2> QED BY <1>0, <2>1, <2>2, <2>3 DEF Save, UpToDate
  <1>3. \A j \in Ids : \/ store'[j] = store[j]
                       \/ /\ InDuty(store[j], h) /\ InDuty(store'[j], h)
                          /\ store[j] # NoDoc
    BY <1>1, <1>2, DocOps DEF TypeOK, InDuty
  <1> QED BY <1>1, <1>2, <1>3, ReplyUpToDate DEF Frame

LEMMA RemoveUpToDate ==
    ASSUME TypeOK, NEW h \in Handlers, Remove(h), UpToDate(h)
    PROVE  Frame(h) /\ UpToDate(h)' /\ Catalog!Next
  <1>0. PICK i \in Ids : i = req[h].id
    BY RequestKinds DEF Remove, TypeOK, InProgress
  <1>1. /\ store[i] # NoDoc /\ store[i].route \in Duty[h]
        /\ store' = [store EXCEPT ![i] = NoDoc] /\ UNCHANGED minted
        /\ \E r \in Answer : Reply(h, r)
    BY <1>0, WriteAnswersAreAnswers DEF Remove, UpToDate, Managed
  <1>2. Catalog!Next
    BY <1>1 DEF Catalog!Next, Catalog!DeleteMock, Catalog!Exists
  <1>3. \A j \in Ids : \/ store'[j] = store[j]
                       \/ InDuty(store[j], h) /\ InDuty(store'[j], h) /\ store[j] # NoDoc
    BY <1>1 DEF TypeOK, InDuty
  <1> QED BY <1>1, <1>2, <1>3, ReplyUpToDate DEF Frame

LEMMA InsertUpToDate ==
    ASSUME TypeOK, StoredIsMinted, NEW h \in Handlers, Insert(h), UpToDate(h)
    PROVE  Frame(h) /\ UpToDate(h)' /\ Catalog!Next
  <1>1. PICK i \in Ids \ minted : /\ store' = [store EXCEPT ![i] = req[h].doc]
                                  /\ minted' = minted \cup {i}
    BY DEF Insert
  <1>2. PICK r \in Answer : Reply(h, r)
    BY WriteAnswersAreAnswers DEF Insert
  <1>3. req[h].doc \in NewDoc /\ req[h].doc.route \in Duty[h]
    BY DEF Insert, UpToDate, TypeOK, InProgress, CreateReq
  <1>4. Catalog!Next
    BY <1>1, <1>3 DEF Catalog!Next, Catalog!CreateMock, Catalog!NewDoc, Catalog!Doc, NewDoc, Doc
  <1>5. \A j \in Ids : \/ store'[j] = store[j]
                       \/ InDuty(store[j], h) /\ InDuty(store'[j], h) /\ j \notin minted
    BY <1>1, <1>3 DEF TypeOK, InDuty, StoredIsMinted
  <1>6. minted \subseteq minted'
    BY <1>1
  <1> QED BY <1>2, <1>4, <1>5, <1>6, ReplyUpToDate DEF Frame

LEMMA StepUpToDate ==
    ASSUME TypeOK, StoredIsMinted, NEW h \in Handlers, UpToDate(h),
           Arrive(h) \/ Step(h) \/ DbError(h) \/ Crash(h)
    PROVE  Frame(h) /\ UpToDate(h)' /\ (Catalog!Next \/ UNCHANGED dbVars)
  <1>1. CASE Arrive(h)  BY <1>1, ArriveUpToDate DEF dbVars
  <1>2. CASE Insert(h)  BY <1>2, InsertUpToDate
  <1>3. CASE Get(h)  BY <1>3, GetUpToDate
  <1>4. CASE List(h)  BY <1>4, ListUpToDate
  <1>5. CASE SaveConflict(h)  BY <1>5, SaveConflictUpToDate
  <1>6. CASE Save(h)  BY <1>6, SaveUpToDate
  <1>7. CASE RemoveGet(h)
    <2>1. CASE Reply(h, "ok")
      BY <1>7, <2>1, ReplyUpToDate DEF RemoveGet, Frame, dbVars
    <2>2. CASE Await(h, "remove") /\ UNCHANGED <<local, pending>>
      <3>1. Frame(h) /\ pc'[h] = "remove" /\ req' = req /\ UNCHANGED <<store, minted>>
        BY <1>7, <2>2, AwaitFrame DEF RemoveGet
      <3> QED BY <1>7, <3>1 DEF RemoveGet, UpToDate, Managed, dbVars
    <2> QED BY <1>7, <2>1, <2>2 DEF RemoveGet
  <1>8. CASE Remove(h)  BY <1>8, RemoveUpToDate
  <1>9. CASE DbError(h) \/ Crash(h)
    BY <1>9, ReplyUpToDate DEF DbError, Crash, Frame, dbVars
  <1> QED BY <1>1, <1>2, <1>3, <1>4, <1>5, <1>6, <1>7, <1>8, <1>9 DEF Step

-----------------------------------------------------------------------------
(* The inductive invariant of the refinement, and what a step does to it and
   to the catalog. *)

IInv == TypeOK /\ StoredIsMinted /\ CopiesUpToDate

LEMMA InitIInv == Init => IInv /\ Catalog!Init
  BY InitType DEF Init, IInv, StoredIsMinted, CopiesUpToDate, UpToDate, Nothing, Catalog!Init

LEMMA NextIInv ==
    ASSUME OneWriterPerRoute, IInv, [Next]_vars
    PROVE  IInv' /\ [Catalog!Next]_(Catalog!vars)
  <1>1. TypeOK' /\ StoredIsMinted'
    BY NextType, StoredStep DEF IInv
  <1>2. CASE UNCHANGED vars
    BY <1>1, <1>2 DEF IInv, vars, CopiesUpToDate, UpToDate, Managed, Catalog!vars,
       Catalog!ActiveConflicts, Catalog!Exists, Catalog!SameTarget
  <1>3. ASSUME NEW h \in Handlers, Arrive(h) \/ Step(h) \/ DbError(h) \/ Crash(h)
        PROVE  CopiesUpToDate' /\ [Catalog!Next]_(Catalog!vars)
    <2>1. Frame(h) /\ UpToDate(h)' /\ (Catalog!Next \/ UNCHANGED dbVars)
      BY <1>3, StepUpToDate DEF IInv, CopiesUpToDate
    <2>2. \A g \in Handlers \ {h} : UpToDate(g)'
      BY <2>1, OthersStay DEF IInv, CopiesUpToDate
    <2> QED BY <2>1, <2>2 DEF CopiesUpToDate, Catalog!vars, dbVars
  <1> QED BY <1>1, <1>2, <1>3 DEF Next, IInv

(* With one client per route, what a request is about to write still matches
   the database when it is written. *)
THEOREM OneWriterKeepsCopies == OneWriterPerRoute => (Spec => []CopiesUpToDate)
  <1> SUFFICES ASSUME OneWriterPerRoute PROVE Spec => []CopiesUpToDate
    OBVIOUS
  <1>1. IInv /\ [Next]_vars => IInv'
    BY NextIInv
  <1>2. IInv => CopiesUpToDate
    BY DEF IInv
  <1> QED BY InitIInv, <1>1, <1>2, PTL DEF Spec

(* With one client per route, the concurrent, failing, crashing admin API
   implements the catalog of atomic operations. *)
THEOREM ServiceImplementsCatalog == OneWriterPerRoute => (Spec => ImplementsCatalog)
  <1> SUFFICES ASSUME OneWriterPerRoute PROVE Spec => ImplementsCatalog
    OBVIOUS
  <1>1. IInv /\ [Next]_vars => IInv' /\ [Catalog!Next]_(Catalog!vars)
    BY NextIInv
  <1> QED BY InitIInv, <1>1, PTL DEF Spec, ImplementsCatalog, Catalog!Spec

-----------------------------------------------------------------------------
(* Conflict freedom holds of the catalog, and so of the service.           *)

LEMMA CatalogKeepsConflictFree ==
    ASSUME KeyStable, TypeOK, ConflictFree, [Catalog!Next]_(Catalog!vars), TypeOK'
    PROVE  ConflictFree'
  <1> DEFINE On(i) == store[i] # NoDoc /\ store[i].active
             Clear(S) == \A i, j \in Ids :
                 i # j /\ S[i] # NoDoc /\ S[i].active /\ S[j] # NoDoc /\ S[j].active
                   => ~SameTarget(S[i], S[j])
  <1>1. Clear(store)
    BY CatalogConflicts DEF ConflictFree, Catalog!ConflictFree, Catalog!Exists
  <1>2. \A i \in Ids : store[i] \in Doc \cup {NoDoc}
    BY DEF TypeOK, MaybeDoc
  <1>3. SUFFICES Clear(store')
    BY CatalogConflictsNext DEF ConflictFree, Catalog!ConflictFree, Catalog!Exists
  <1>4. ASSUME NEW i \in Ids, NEW d \in Doc \cup {NoDoc}, store' = [store EXCEPT ![i] = d],
               d # NoDoc /\ d.active =>
                 \A j \in Ids \ {i} : On(j) => ~SameTarget(d, store[j])
        PROVE  Clear(store')
    BY <1>1, <1>2, <1>4 DEF SameTarget, TypeOK
  <1>5. ASSUME NEW i \in Ids, Catalog!CreateMock(i) PROVE Clear(store')
    BY <1>4, <1>5 DEF Catalog!CreateMock, Catalog!NewDoc, Catalog!Doc, Doc
  <1>6. ASSUME NEW i \in Ids, Catalog!UpdateMock(i) PROVE Clear(store')
    <2>1. PICK c \in Cmds : Accepts(c) /\ store' = [store EXCEPT ![i] = Updated(store[i], c)]
      BY <1>6 DEF Catalog!UpdateMock, Catalog!Accepts, Accepts, Catalog!Updated, Updated,
         Catalog!Chosen, Chosen
    <2>2. store[i] \in Doc
      BY <1>2, <1>6 DEF Catalog!UpdateMock, Catalog!Exists
    <2>3. /\ Updated(store[i], c) \in Doc /\ Updated(store[i], c).active = store[i].active
          /\ \A e : SameTarget(Updated(store[i], c), e) <=> SameTarget(store[i], e)
      BY <2>1, <2>2, UpdatedDoc DEF KeyStable, Updated, Chosen, SameTarget
    <2>4. \A j \in Ids \ {i} : store[i].active /\ On(j) => ~SameTarget(store[i], store[j])
      BY <1>1, <2>2, ModelAssumption
    <2> QED BY <1>4, <2>1, <2>3, <2>4
  <1>7. ASSUME NEW i \in Ids, Catalog!DeleteMock(i) PROVE Clear(store')
    BY <1>4, <1>7 DEF Catalog!DeleteMock
  <1>8. ASSUME NEW i \in Ids, Catalog!ActivateMock(i) PROVE Clear(store')
    <2>1. store[i] \in Doc /\ Active(store[i]) \in Doc
      BY <1>2, <1>8, DocOps DEF Catalog!ActivateMock, Catalog!Exists
    <2>2. store' = [store EXCEPT ![i] = Active(store[i])]
      BY <1>8 DEF Catalog!ActivateMock, Catalog!Active, Active
    <2>3. \A j \in Ids \ {i} : On(j) => ~SameTarget(store[i], store[j])
      BY <1>8, CatalogConflicts DEF Catalog!ActivateMock
    <2>4. \A e : SameTarget(Active(store[i]), e) <=> SameTarget(store[i], e)
      BY <2>1 DEF SameTarget, Active, Doc
    <2> QED BY <1>4, <2>1, <2>2, <2>3, <2>4
  <1>9. ASSUME NEW i \in Ids, Catalog!DeactivateMock(i) PROVE Clear(store')
    <2>1. store[i] \in Doc /\ Inactive(store[i]) \in Doc /\ ~Inactive(store[i]).active
      BY <1>2, <1>9, DocOps DEF Catalog!DeactivateMock, Catalog!Exists
    <2>2. store' = [store EXCEPT ![i] = Inactive(store[i])]
      BY <1>9 DEF Catalog!DeactivateMock, Catalog!Inactive, Inactive
    <2> QED BY <1>4, <2>1, <2>2
  <1>10. CASE UNCHANGED Catalog!vars
    BY <1>1, <1>10 DEF Catalog!vars
  <1> QED BY <1>5, <1>6, <1>7, <1>8, <1>9, <1>10 DEF Catalog!Next

(* With one client per route and updates that leave route, scope and rules
   alone, no two active mocks ever answer the same requests, whatever fails
   or crashes in the middle of a forced activation. *)
THEOREM ActiveMocksConflictFree ==
    OneWriterPerRoute /\ KeyStable => (Spec => []ConflictFree)
  <1> SUFFICES ASSUME OneWriterPerRoute, KeyStable PROVE Spec => []ConflictFree
    OBVIOUS
  <1>1. Init => ConflictFree
    BY DEF Init, Nothing, ConflictFree, Catalog!ConflictFree, Catalog!Exists
  <1>2. IInv /\ [Next]_vars => IInv'
    BY NextIInv
  <1>3. IInv /\ ConflictFree /\ [Next]_vars => ConflictFree'
    BY NextIInv, CatalogKeepsConflictFree DEF IInv
  <1> QED BY InitIInv, <1>1, <1>2, <1>3, PTL DEF Spec

(* The catalog's operations bring two mocks into conflict only by updating
   one that is on. *)
LEMMA CatalogConflictsByUpdate ==
    ASSUME TypeOK, [Catalog!Next]_(Catalog!vars), NEW i \in Ids, NEW j \in Ids,
           ~InConflict(i, j), InConflict(i, j)'
    PROVE  MovedWhileOn(i) \/ MovedWhileOn(j)
  <1>1. store \in [Ids -> Doc \cup {NoDoc}]
    BY DEF TypeOK, MaybeDoc
  <1>2. ASSUME NEW k \in Ids, NEW d \in Doc, store[k] \in Doc, store' = [store EXCEPT ![k] = d],
               d.active => store[k].active
        PROVE  MovedWhileOn(i) \/ MovedWhileOn(j)
    BY <1>1, <1>2, ModelAssumption DEF InConflict, MovedWhileOn, SameTarget, Doc
  <1>3. ASSUME NEW k \in Ids, Catalog!CreateMock(k) PROVE FALSE
    BY <1>1, <1>3 DEF InConflict, Catalog!CreateMock, Catalog!NewDoc, Catalog!Doc
  <1>4. ASSUME NEW k \in Ids, Catalog!UpdateMock(k) PROVE MovedWhileOn(i) \/ MovedWhileOn(j)
    <2>1. PICK c \in Cmds : Accepts(c) /\ store' = [store EXCEPT ![k] = Updated(store[k], c)]
      BY <1>4 DEF Catalog!UpdateMock, Catalog!Accepts, Accepts, Catalog!Updated, Updated,
         Catalog!Chosen, Chosen
    <2>2. store[k] \in Doc
      BY <1>1, <1>4 DEF Catalog!UpdateMock, Catalog!Exists
    <2> QED BY <1>2, <2>1, <2>2, UpdatedDoc
  <1>5. ASSUME NEW k \in Ids, Catalog!DeleteMock(k) PROVE FALSE
    BY <1>1, <1>5 DEF InConflict, Catalog!DeleteMock
  <1>6. ASSUME NEW k \in Ids, Catalog!ActivateMock(k) PROVE FALSE
    <2>1. store[k] \in Doc /\ store' = [store EXCEPT ![k] = Active(store[k])]
      BY <1>1, <1>6 DEF Catalog!ActivateMock, Catalog!Exists, Catalog!Active, Active
    <2>2. \A m \in Ids \ {k} :
            ~(store[m] # NoDoc /\ store[m].active /\ SameTarget(store[k], store[m]))
      BY <1>6, CatalogConflicts DEF Catalog!ActivateMock
    <2>3. \A e : /\ SameTarget(Active(store[k]), e) <=> SameTarget(store[k], e)
                 /\ SameTarget(e, Active(store[k])) <=> SameTarget(store[k], e)
      BY <2>1 DEF SameTarget, Active, Doc
    <2> QED BY <1>1, <2>1, <2>2, <2>3 DEF InConflict
  <1>7. ASSUME NEW k \in Ids, Catalog!DeactivateMock(k) PROVE MovedWhileOn(i) \/ MovedWhileOn(j)
    <2>1. store[k] \in Doc /\ store' = [store EXCEPT ![k] = Inactive(store[k])]
      BY <1>1, <1>7 DEF Catalog!DeactivateMock, Catalog!Exists, Catalog!Inactive, Inactive
    <2> QED BY <1>2, <2>1, DocOps
  <1>8. ~UNCHANGED Catalog!vars
    BY DEF Catalog!vars, InConflict, SameTarget
  <1> QED BY <1>3, <1>4, <1>5, <1>6, <1>7, <1>8 DEF Catalog!Next

(* With one client per route, nothing but an update of an active mock's route,
   scope or rules brings two active mocks into conflict. *)
THEOREM OnlyUpdatesMakeConflicts == OneWriterPerRoute => (Spec => ConflictsOnlyByUpdate)
  <1> SUFFICES ASSUME OneWriterPerRoute PROVE Spec => ConflictsOnlyByUpdate
    OBVIOUS
  <1>1. IInv /\ [Next]_vars => IInv'
    BY NextIInv
  <1>2. ASSUME IInv, [Next]_vars
        PROVE  [\A i, j \in Ids : ~InConflict(i, j) /\ InConflict(i, j)'
                  => MovedWhileOn(i) \/ MovedWhileOn(j)]_vars
    BY <1>2, NextIInv, CatalogConflictsByUpdate DEF IInv
  <1> QED BY InitIInv, <1>1, <1>2, PTL DEF Spec, ConflictsOnlyByUpdate

-----------------------------------------------------------------------------
(* The two promises overlapping clients of a route break hold of clients    *)
(* that keep to routes of their own: these and no others are to blame.      *)

(* Nobody but h itself takes h from `save` to `idle`. *)
LEMMA OwnStepEnds ==
    ASSUME IInv, NEW h \in Handlers, pc[h] = "save", pc'[h] = "idle", [Next]_vars
    PROVE  Save(h) \/ DbError(h) \/ Crash(h)
  <1>1. PICK g \in Handlers : Arrive(g) \/ Step(g) \/ DbError(g) \/ Crash(g)
    BY DEF Next, vars
  <1>2. Frame(g)
    BY <1>1, StepUpToDate DEF IInv, CopiesUpToDate
  <1>3. g = h
    BY <1>2 DEF Frame
  <1>4. ~Arrive(h)
    BY DEF Arrive, ReceiveCreate, ReceiveUpdate, RefuseEmptyUpdate, ReceiveActivate,
       ReceivePlain, Receive
  <1>5. Step(h) => Save(h)
    BY DEF Step, Insert, Get, List, SaveConflict, Save, RemoveGet, Remove
  <1> QED BY <1>1, <1>3, <1>4, <1>5

(* With one client per route, an update changes the fields it names and no
   other, though it writes the whole document it loaded. *)
THEOREM OneWriterKeepsFields == OneWriterPerRoute => (Spec => UpdateKeepsOtherFields)
  <1> SUFFICES ASSUME OneWriterPerRoute PROVE Spec => UpdateKeepsOtherFields
    OBVIOUS
  <1>1. IInv /\ [Next]_vars => IInv'
    BY NextIInv
  <1>2. ASSUME IInv, [Next]_vars
        PROVE  [\A h \in Handlers :
                  pc[h] = "save" /\ req[h].op = "update" /\ pc'[h] = "idle" /\ store' # store
                  => store'[req[h].id] = Updated(store[req[h].id], req[h].cmd)]_vars
    <2> SUFFICES ASSUME NEW h \in Handlers, pc[h] = "save", req[h].op = "update",
                        pc'[h] = "idle", store' # store
                 PROVE  store'[req[h].id] = Updated(store[req[h].id], req[h].cmd)
      OBVIOUS
    <2>1. Save(h)
      BY <1>2, OwnStepEnds DEF DbError, Crash
    <2>2. local[h][req[h].id] = Updated(store[req[h].id], req[h].cmd)
      BY <1>2 DEF IInv, CopiesUpToDate, UpToDate
    <2>3. req[h].id \in Ids
      BY <1>2, RequestKinds DEF IInv, TypeOK, InProgress
    <2> QED BY <1>2, <2>1, <2>2, <2>3 DEF Save, Replace, IInv, TypeOK
  <1> QED BY InitIInv, <1>1, <1>2, PTL DEF Spec, UpdateKeepsOtherFields

(* With one client per route, an activation that was not told to switch off
   conflicts succeeds only while there are none. *)
THEOREM OneWriterActivatesAlone == OneWriterPerRoute => (Spec => UnforcedActivationExcludes)
  <1> SUFFICES ASSUME OneWriterPerRoute PROVE Spec => UnforcedActivationExcludes
    OBVIOUS
  <1>1. IInv /\ [Next]_vars => IInv'
    BY NextIInv
  <1>2. ASSUME IInv, NEW h \in Handlers, pc[h] = "save", req[h].op = "activate"
        PROVE  FindConflicts(req[h].id, local[h][req[h].id]) = {}
    <2> DEFINE i == req[h].id
    <2>1. i \in Ids
      BY <1>2, RequestKinds DEF IInv, TypeOK, InProgress
    <2>2. /\ local[h][i] = Active(store[i]) /\ store[i] # NoDoc
          /\ Catalog!ActiveConflicts(i) = {}
      BY <1>2 DEF IInv, CopiesUpToDate, UpToDate
    <2>3. store[i] \in Doc
      BY <1>2, <2>1, <2>2 DEF IInv, TypeOK, MaybeDoc
    <2>4. \A e : SameTarget(local[h][i], e) <=> SameTarget(store[i], e)
      BY <2>2, <2>3 DEF SameTarget, Active, Doc
    <2>5. \A j \in Ids \ {i} :
            ~(store[j] # NoDoc /\ store[j].active /\ SameTarget(store[i], store[j]))
      BY <2>1, <2>2, CatalogConflicts
    <2> QED BY <2>4, <2>5 DEF FindConflicts, ListCandidates
  <1>3. IInv => [\A h \in Handlers :
                   pc[h] = "save" /\ req[h].op = "activate" /\ ~req[h].force /\ reply'[h] = "ok"
                   => FindConflicts(req[h].id, local[h][req[h].id]) = {}]_vars
    BY <1>2
  <1> QED BY InitIInv, <1>1, <1>3, PTL DEF Spec, UnforcedActivationExcludes

=============================================================================
