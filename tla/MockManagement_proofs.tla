----------------------- MODULE MockManagement_proofs -----------------------
(***************************************************************************)
(* Theorems about MockManagement, for any sets of ids, handlers, routes,   *)
(* scopes, rules, bodies and commands.                                     *)
(***************************************************************************)
EXTENDS MockManagement, TLAPS

-----------------------------------------------------------------------------
(* Documents.                                                              *)

LEMMA DocOps ==
    ASSUME NEW d \in Doc
    PROVE  /\ d # NoDoc
           /\ Active(d) \in Doc /\ Active(d).active
           /\ Inactive(d) \in Doc /\ ~Inactive(d).active
           /\ \A e \in Doc : /\ SameTarget(e, Active(d)) <=> SameTarget(e, d)
                             /\ SameTarget(e, Inactive(d)) <=> SameTarget(e, d)
           /\ Active(d).route = d.route /\ Inactive(d).route = d.route
  BY ModelAssumption DEF Doc, Active, Inactive, SameTarget

LEMMA UpdatedDoc ==
    ASSUME NEW d \in Doc, NEW c \in Cmds, Accepts(c)
    PROVE  /\ Updated(d, c) \in Doc
           /\ Updated(d, c).active = d.active
           /\ Updated(d, c).route \in {d.route} \cup ({c.route} \ {Unset})
  BY ModelAssumption DEF Doc, Updated, Chosen, Accepts, UpdateCmd

LEMMA RequestKinds ==
    /\ \A r \in CreateReq : r.doc \in Doc /\ ~r.doc.active /\ r.op = "create"
    /\ \A r \in UpdateReq : r.id \in Ids /\ r.cmd \in Cmds /\ r.op = "update"
    /\ \A r \in ActivateReq : r.id \in Ids /\ r.force \in BOOLEAN /\ r.op = "activate"
    /\ \A r \in PlainReq : r.id \in Ids /\ r.op \in {"delete", "deactivate"}
  BY DEF CreateReq, UpdateReq, ActivateReq, PlainReq, NewDoc

-----------------------------------------------------------------------------
(* Type correctness.                                                       *)

LEMMA InitType == Init => TypeOK
  BY DEF Init, TypeOK, Nothing, MaybeDoc, PC, Answer, InProgress

(* A handler that answers is idle, and the others do not notice. *)
LEMMA ReplyType ==
    ASSUME TypeOK, NEW h \in Handlers, NEW r \in Answer, Reply(h, r),
           store' \in [Ids -> MaybeDoc], minted' \in SUBSET Ids, asked' \in SUBSET Ids
    PROVE  TypeOK'
  <1>1. /\ pc' \in [Handlers -> PC] /\ reply' \in [Handlers -> Answer]
        /\ req' \in [Handlers -> Request \cup {NoReq}]
        /\ local' \in [Handlers -> [Ids -> MaybeDoc]]
        /\ pending' \in [Handlers -> SUBSET Ids]
    BY DEF TypeOK, Reply, PC, Nothing, MaybeDoc
  <1>2. ASSUME NEW g \in Handlers PROVE InProgress(g)'
    <2>1. CASE g = h  BY <2>1 DEF TypeOK, Reply, InProgress
    <2>2. CASE g # h  BY <2>2 DEF TypeOK, Reply, InProgress
    <2> QED BY <2>1, <2>2
  <1> QED BY <1>1, <1>2 DEF TypeOK

(* A handler that goes on leaves the others alone. *)
LEMMA AwaitType ==
    ASSUME TypeOK, NEW h \in Handlers, NEW op \in PC, Await(h, op),
           store' \in [Ids -> MaybeDoc], UNCHANGED <<minted, asked>>,
           local' \in [Handlers -> [Ids -> MaybeDoc]],
           pending' \in [Handlers -> SUBSET Ids],
           \A g \in Handlers \ {h} : local'[g] = local[g],
           InProgress(h)'
    PROVE  TypeOK'
  <1>1. pc' \in [Handlers -> PC]  BY DEF TypeOK, Await
  <1>2. ASSUME NEW g \in Handlers \ {h} PROVE InProgress(g)'
    BY DEF TypeOK, Await, InProgress
  <1> QED BY <1>1, <1>2 DEF TypeOK, Await

LEMMA ReceiveType ==
    ASSUME TypeOK, NEW h \in Handlers, NEW op \in PC, NEW r \in Request, Receive(h, r, op),
           asked' \in SUBSET Ids,
           op = "insert" => r \in CreateReq,
           op # "insert" => op = "get" /\ r \in UpdateReq \cup ActivateReq \cup PlainReq
    PROVE  TypeOK'
  <1>1. /\ pc' \in [Handlers -> PC] /\ reply' \in [Handlers -> Answer]
        /\ req' \in [Handlers -> Request \cup {NoReq}]
    BY DEF TypeOK, Receive, Answer
  <1>2. ASSUME NEW g \in Handlers PROVE InProgress(g)'
    <2>1. CASE g = h  BY <2>1 DEF TypeOK, Receive, InProgress
    <2>2. CASE g # h  BY <2>2 DEF TypeOK, Receive, InProgress
    <2> QED BY <2>1, <2>2
  <1> QED BY <1>1, <1>2 DEF TypeOK, Receive

LEMMA ArriveType ==
    ASSUME TypeOK, NEW h \in Handlers, Arrive(h)
    PROVE  TypeOK'
  <1>1. CASE ReceiveCreate(h)
    <2>1. PICK r \in CreateReq : Receive(h, r, "insert") /\ UNCHANGED asked
      BY <1>1 DEF ReceiveCreate
    <2>2. r \in Request /\ "insert" \in PC /\ asked' \in SUBSET Ids
      BY <2>1 DEF Request, PC, TypeOK
    <2> QED BY <2>1, <2>2, ReceiveType
  <1>2. CASE ReceiveUpdate(h)
    BY <1>2, ReceiveType DEF ReceiveUpdate, Request, PC, TypeOK
  <1>3. CASE RefuseEmptyUpdate(h)
    BY <1>3, ReplyType DEF RefuseEmptyUpdate, Answer, TypeOK
  <1>4. CASE ReceiveActivate(h)
    BY <1>4, ReceiveType, RequestKinds DEF ReceiveActivate, Request, PC, TypeOK
  <1>5. CASE ReceivePlain(h)
    BY <1>5, ReceiveType DEF ReceivePlain, Request, PC, TypeOK
  <1> QED BY <1>1, <1>2, <1>3, <1>4, <1>5 DEF Arrive

LEMMA WriteAnswersAreAnswers == WriteAnswers \subseteq Answer
  BY DEF WriteAnswers, Answer

LEMMA GetType ==
    ASSUME TypeOK, NEW h \in Handlers, Get(h)
    PROVE  TypeOK'
  <1> USE DEF LoadedForUpdate, LoadedForDelete, LoadedForActivate, LoadedForDeactivate, KeepCopy
  <1> DEFINE i == req[h].id
             d == store[i]
  <1>1. /\ i \in Ids /\ d \in MaybeDoc
        /\ req[h] \in UpdateReq \cup ActivateReq \cup PlainReq
    BY RequestKinds DEF Get, TypeOK, InProgress
  <1>2. CASE \E r \in Answer : Reply(h, r)
    BY <1>2, ReplyType DEF Get, TypeOK
  <1>3. ASSUME d \in Doc, NEW e \in Doc, NEW op \in {"save", "list"}, Await(h, op),
               local' = [local EXCEPT ![h] = [@ EXCEPT ![i] = e]], UNCHANGED pending,
               op = "list" => req[h] \in ActivateReq,
               op = "save" => req[h].op # "delete"
        PROVE  TypeOK'
    <2>1. local' \in [Handlers -> [Ids -> MaybeDoc]] /\ local'[h][i] = e
      BY <1>1, <1>3 DEF TypeOK, MaybeDoc
    <2>2. InProgress(h)'
      BY <1>1, <1>3, <2>1 DEF TypeOK, Await, InProgress
    <2> QED BY <1>3, <2>1, <2>2, AwaitType DEF TypeOK, Get, PC
  <1>4. CASE req[h].op = "delete" /\ Await(h, "removeGet") /\ UNCHANGED <<local, pending>>
    <2>1. InProgress(h)'
      BY <1>1, <1>4, RequestKinds DEF TypeOK, Await, InProgress
    <2> QED BY <1>4, <2>1, AwaitType DEF TypeOK, Get, PC
  <1>5. CASE req[h].op = "update" /\ Accepts(req[h].cmd) /\ d # NoDoc /\ ~(\E r \in Answer : Reply(h, r))
    <2>1. d \in Doc /\ Updated(d, req[h].cmd) \in Doc
      BY <1>1, <1>5, RequestKinds, UpdatedDoc DEF MaybeDoc
    <2> QED BY <2>1, <1>3, <1>5 DEF Get, Answer
  <1>6. CASE req[h].op = "activate" /\ d # NoDoc /\ ~(\E r \in Answer : Reply(h, r))
    <2>1. d \in Doc /\ req[h] \in ActivateReq
      BY <1>1, <1>6, RequestKinds DEF MaybeDoc
    <2> QED BY <2>1, <1>3, <1>6 DEF Get, Answer
  <1>7. CASE req[h].op = "deactivate" /\ d # NoDoc /\ ~(\E r \in Answer : Reply(h, r))
    <2>1. d \in Doc /\ Inactive(d) \in Doc
      BY <1>1, <1>7, DocOps DEF MaybeDoc
    <2> QED BY <2>1, <1>3, <1>7 DEF Get, Answer
  <1> QED BY <1>2, <1>4, <1>5, <1>6, <1>7 DEF Get, Answer

LEMMA ListType ==
    ASSUME TypeOK, NEW h \in Handlers, List(h)
    PROVE  TypeOK'
  <1> DEFINE i == req[h].id
             conflicts == FindConflicts(i, local[h][i])
             mem == Switched(local[h], i, conflicts)
             op == IF conflicts = {} THEN "save" ELSE "saveConflict"
  <1>1. /\ i \in Ids /\ req[h] \in ActivateReq /\ local[h][i] \in Doc
        /\ local[h] \in [Ids -> MaybeDoc]
    BY RequestKinds DEF List, TypeOK, InProgress
  <1>2. conflicts \in SUBSET Ids /\ \A j \in conflicts : store[j] \in Doc
    BY DEF FindConflicts, ListCandidates, TypeOK, MaybeDoc
  <1>3. mem \in [Ids -> MaybeDoc] /\ mem[i] \in Doc
    BY <1>1, <1>2, DocOps DEF Switched, MaybeDoc
  <1>4. CASE Reply(h, "conflict")
    BY <1>4, ReplyType DEF List, TypeOK, Answer
  <1>5. CASE /\ local' = [local EXCEPT ![h] = mem]
             /\ pending' = [pending EXCEPT ![h] = conflicts]
             /\ Await(h, op)
    <2>1. local' \in [Handlers -> [Ids -> MaybeDoc]] /\ local'[h] = mem
      BY <1>3, <1>5 DEF TypeOK
    <2>2. pending' \in [Handlers -> SUBSET Ids]
      BY <1>2, <1>5 DEF TypeOK
    <2>3. op \in {"save", "saveConflict"}
      OBVIOUS
    <2>4. InProgress(h)'
      BY <1>1, <1>3, <1>5, <2>1, <2>3, RequestKinds DEF TypeOK, Await, InProgress
    <2> QED BY <1>5, <2>1, <2>2, <2>3, <2>4, AwaitType DEF TypeOK, List, PC
  <1> QED BY <1>4, <1>5 DEF List

LEMMA ReplaceType ==
    ASSUME TypeOK, NEW h \in Handlers, NEW i \in Ids, Replace(h, i)
    PROVE  store' \in [Ids -> MaybeDoc]
  BY DEF TypeOK, Replace

LEMMA SaveConflictType ==
    ASSUME TypeOK, NEW h \in Handlers, SaveConflict(h)
    PROVE  TypeOK'
  <1>1. PICK j \in pending[h] :
          \/ Reply(h, "error") /\ UNCHANGED store
          \/ /\ Replace(h, j)
             /\ \/ Reply(h, "error")
                \/ /\ pending' = [pending EXCEPT ![h] = @ \ {j}]
                   /\ Await(h, IF pending[h] = {j} THEN "save" ELSE "saveConflict")
                   /\ UNCHANGED local
    BY DEF SaveConflict
  <1>2. store' \in [Ids -> MaybeDoc] /\ UNCHANGED <<minted, asked>> /\ req[h] \in ActivateReq
    BY <1>1, ReplaceType DEF SaveConflict, TypeOK, InProgress
  <1>3. CASE Reply(h, "error")
    BY <1>2, <1>3, ReplyType DEF TypeOK, Answer
  <1> DEFINE op == IF pending[h] = {j} THEN "save" ELSE "saveConflict"
  <1>4. CASE /\ pending' = [pending EXCEPT ![h] = @ \ {j}]
             /\ Await(h, op) /\ UNCHANGED local
    <2>1. local[h][req[h].id] \in Doc
      BY DEF SaveConflict, TypeOK, InProgress
    <2>2. op \in {"save", "saveConflict"}
      OBVIOUS
    <2>3. InProgress(h)'
      BY <1>2, <1>4, <2>1, <2>2, RequestKinds DEF TypeOK, Await, InProgress
    <2>4. pending' \in [Handlers -> SUBSET Ids]
      BY <1>4 DEF TypeOK
    <2> QED BY <1>2, <1>4, <2>2, <2>3, <2>4, AwaitType DEF TypeOK, PC
  <1> QED BY <1>1, <1>3, <1>4

LEMMA StepType ==
    ASSUME TypeOK, NEW h \in Handlers, Step(h)
    PROVE  TypeOK'
  <1>1. CASE Insert(h)
    <2>1. req[h].doc \in Doc
      BY <1>1, RequestKinds DEF Insert, TypeOK, InProgress
    <2>2. store' \in [Ids -> MaybeDoc] /\ minted' \in SUBSET Ids
      BY <1>1, <2>1 DEF Insert, TypeOK, MaybeDoc
    <2> QED BY <1>1, <2>2, ReplyType, WriteAnswersAreAnswers DEF Insert, TypeOK
  <1>2. CASE Get(h)  BY <1>2, GetType
  <1>3. CASE List(h)  BY <1>3, ListType
  <1>4. CASE SaveConflict(h)  BY <1>4, SaveConflictType
  <1>5. CASE Save(h)
    <2>1. req[h].id \in Ids
      BY <1>5, RequestKinds DEF Save, TypeOK, InProgress
    <2>2. store' \in [Ids -> MaybeDoc]
      BY <1>5, <2>1, ReplaceType DEF Save, TypeOK
    <2> QED BY <1>5, <2>2, ReplyType, WriteAnswersAreAnswers DEF Save, TypeOK, Answer
  <1>6. CASE RemoveGet(h)
    <2>1. CASE Reply(h, "ok")
      BY <1>6, <2>1, ReplyType DEF RemoveGet, TypeOK, Answer
    <2>2. CASE Await(h, "remove") /\ UNCHANGED <<local, pending>>
      <3>1. InProgress(h)'
        BY <1>6, <2>2 DEF RemoveGet, TypeOK, Await, InProgress
      <3> QED BY <1>6, <2>2, <3>1, AwaitType DEF RemoveGet, TypeOK, PC
    <2> QED BY <1>6, <2>1, <2>2 DEF RemoveGet
  <1>7. CASE Remove(h)
    <2>1. store' \in [Ids -> MaybeDoc]
      BY <1>7 DEF Remove, TypeOK, MaybeDoc
    <2> QED BY <1>7, <2>1, ReplyType, WriteAnswersAreAnswers DEF Remove, TypeOK
  <1> QED BY <1>1, <1>2, <1>3, <1>4, <1>5, <1>6, <1>7 DEF Step

LEMMA NextType == TypeOK /\ [Next]_vars => TypeOK'
  <1> SUFFICES ASSUME TypeOK, [Next]_vars PROVE TypeOK'
    OBVIOUS
  <1>1. CASE UNCHANGED vars
    BY <1>1 DEF vars, TypeOK, InProgress
  <1>2. ASSUME NEW h \in Handlers, Arrive(h) PROVE TypeOK'  BY <1>2, ArriveType
  <1>3. ASSUME NEW h \in Handlers, Step(h) PROVE TypeOK'  BY <1>3, StepType
  <1>4. ASSUME NEW h \in Handlers, DbError(h) \/ Crash(h) PROVE TypeOK'
    BY <1>4, ReplyType DEF DbError, Crash, TypeOK, Answer
  <1> QED BY <1>1, <1>2, <1>3, <1>4 DEF Next

(* Every variable keeps its type, and a handler waits only for an operation
   its request gets to. *)
THEOREM TypeCorrectness == Spec => []TypeOK
  BY InitType, NextType, PTL DEF Spec

-----------------------------------------------------------------------------
(* A deleted mock never comes back: inserts take fresh ids, and a replace of
   a missing document fails (mongo_mock_repository.py:83-107). *)
THEOREM DeletedStaysDeleted == Spec => NoResurrection
  <1>1. ASSUME TypeOK, [Next]_vars
        PROVE  [\A i \in minted : store[i] = NoDoc => store'[i] = NoDoc]_vars
    <2> SUFFICES ASSUME NEW h \in Handlers, Step(h), NEW i \in minted, store[i] = NoDoc
                 PROVE  store'[i] = NoDoc
      BY <1>1 DEF Next, Arrive, ReceiveCreate, ReceiveUpdate, RefuseEmptyUpdate,
         ReceiveActivate, ReceivePlain, Receive, DbError, Crash, TypeOK
    <2>1. CASE Insert(h)  BY <1>1, <2>1 DEF Insert, TypeOK
    <2>2. CASE Get(h) \/ List(h) \/ RemoveGet(h)  BY <2>2 DEF Get, List, RemoveGet
    <2>3. CASE SaveConflict(h)
      BY <1>1, <2>3 DEF SaveConflict, Replace, TypeOK
    <2>4. CASE Save(h)  BY <1>1, <2>4 DEF Save, Replace, TypeOK
    <2>5. CASE Remove(h)  BY <1>1, <2>5 DEF Remove, TypeOK
    <2> QED BY <2>1, <2>2, <2>3, <2>4, <2>5 DEF Step
  <1> QED BY <1>1, TypeCorrectness, PTL DEF Spec, NoResurrection

(* Who is told that a mock is deleted is told the truth. *)
THEOREM DeletedMeansGone == Spec => DeletedIsGone
  <1> DEFINE Told(h) == req[h] \in PlainReq /\ req[h].op = "delete" /\ reply[h] # "ok" /\ reply'[h] = "ok"
  <1>1. ASSUME TypeOK, [Next]_vars
        PROVE  [\A h \in Handlers : Told(h) => store'[req[h].id] = NoDoc]_vars
    <2> SUFFICES ASSUME NEW h \in Handlers, Told(h), NEW g \in Handlers,
                        Arrive(g) \/ Step(g) \/ DbError(g) \/ Crash(g)
                 PROVE  store'[req[h].id] = NoDoc
      BY <1>1 DEF Next
    <2>1. ~(\E r \in Answer \ {"ok"} : Reply(h, r)) /\ req[h].id \in Ids
      BY <1>1, RequestKinds DEF Reply, TypeOK
    <2>2. CASE Arrive(g)
      BY <1>1, <2>1, <2>2 DEF Arrive, ReceiveCreate, ReceiveUpdate, RefuseEmptyUpdate,
         ReceiveActivate, ReceivePlain, Receive, Reply, TypeOK, Answer
    <2>3. CASE DbError(g) \/ Crash(g)
      BY <1>1, <2>1, <2>3 DEF DbError, Crash, Reply, TypeOK, Answer
    <2>4. CASE Step(g)
      <3>1. CASE Insert(g)
        BY <1>1, <3>1, RequestKinds DEF Insert, Reply, TypeOK, InProgress
      <3>2. CASE Get(g)
        BY <1>1, <2>1, <3>2 DEF Get, LoadedForUpdate, LoadedForDelete, LoadedForActivate,
           LoadedForDeactivate, Await, Reply, TypeOK, Answer
      <3>3. CASE List(g)
        BY <1>1, <2>1, <3>3 DEF List, Await, Reply, TypeOK, Answer
      <3>4. CASE SaveConflict(g)
        BY <1>1, <2>1, <3>4 DEF SaveConflict, Await, Reply, TypeOK, Answer
      <3>5. CASE Save(g)
        <4>1. g # h
          BY <1>1, <3>5 DEF Save, TypeOK, InProgress
        <4> QED BY <1>1, <3>5, <4>1 DEF Save, Reply, TypeOK
      <3>6. CASE RemoveGet(g)
        BY <1>1, <2>1, <3>6 DEF RemoveGet, Await, Reply, TypeOK, Answer
      <3>7. CASE Remove(g)
        BY <1>1, <2>1, <3>7 DEF Remove, Reply, TypeOK
      <3> QED BY <2>4, <3>1, <3>2, <3>3, <3>4, <3>5, <3>6, <3>7 DEF Step
    <2> QED BY <2>2, <2>3, <2>4
  <1> QED BY <1>1, TypeCorrectness, PTL DEF Spec, DeletedIsGone

(* While the database works, a request fails only for a mock that was deleted
   under it: the target, or a conflict it was about to switch off
   (mongo_mock_repository.py:98-107). *)
THEOREM ErrorsHaveVanished == ~DbFailures => (Spec => ErrorOnlyWhenVanished)
  <1> SUFFICES ASSUME ~DbFailures PROVE Spec => ErrorOnlyWhenVanished
    OBVIOUS
  <1> DEFINE Vanished(h) ==
               pc[h] # "insert" /\ \E i \in pending[h] \cup {req[h].id} : store[i] = NoDoc
  <1>1. ASSUME TypeOK, [Next]_vars
        PROVE  [\A h \in Handlers : reply[h] # "error" /\ reply'[h] = "error" => Vanished(h)]_vars
    <2> SUFFICES ASSUME NEW h \in Handlers, reply[h] # "error", reply'[h] = "error",
                        NEW g \in Handlers, Arrive(g) \/ Step(g) \/ DbError(g) \/ Crash(g)
                 PROVE  Vanished(h)
      BY <1>1 DEF Next
    <2>1. reply \in [Handlers -> Answer] /\ WriteAnswers = {"ok"}
      BY <1>1 DEF TypeOK, WriteAnswers
    <2>2. ASSUME NEW r, r # "error", Reply(g, r) PROVE FALSE
      BY <2>1, <2>2 DEF Reply
    <2>3. ASSUME UNCHANGED reply PROVE FALSE
      BY <2>3
    <2>4. ~Arrive(g)
      BY <2>1, <2>2 DEF Arrive, ReceiveCreate, ReceiveUpdate, RefuseEmptyUpdate,
         ReceiveActivate, ReceivePlain, Receive
    <2>5. ~DbError(g) /\ ~Crash(g)
      BY <2>2 DEF DbError, Crash
    <2>6. ~Get(g)
      BY <2>2, <2>3 DEF Get, LoadedForUpdate, LoadedForDelete, LoadedForActivate,
         LoadedForDeactivate, Await
    <2>7. ~List(g) /\ ~RemoveGet(g)
      BY <2>2, <2>3 DEF List, RemoveGet, Await
    <2>8. ~Insert(g) /\ ~Remove(g)
      BY <2>1, <2>2 DEF Insert, Remove
    <2>9. ASSUME Reply(g, "error") PROVE g = h
      BY <2>1, <2>9 DEF Reply
    <2>10. CASE Save(g)
      BY <2>1, <2>2, <2>9, <2>10 DEF Save
    <2>11. CASE SaveConflict(g)
      BY <2>3, <2>9, <2>11 DEF SaveConflict, Await
    <2> QED BY <2>4, <2>5, <2>6, <2>7, <2>8, <2>10, <2>11 DEF Step
  <1> QED BY <1>1, TypeCorrectness, PTL DEF Spec, ErrorOnlyWhenVanished

-----------------------------------------------------------------------------
(* A mock nobody asked to activate is never on.  The flag travels through the
   copies handlers hold, so the invariant follows those too.               *)

OnIsAsked(d, i, A) == d # NoDoc /\ d.active => i \in A

AskedInv ==
    /\ \A i \in Ids : OnIsAsked(store[i], i, asked)
    /\ \A h \in Handlers, i \in Ids : OnIsAsked(local[h][i], i, asked)
    /\ \A h \in Handlers : req[h] \in ActivateReq => req[h].id \in asked

LEMMA InitAsked == Init => AskedInv
  BY DEF Init, AskedInv, OnIsAsked, Nothing, NoReq, ActivateReq

(* What a step may do to the store and to the handler's copies. *)
LEMMA AskedStep ==
    ASSUME TypeOK, AskedInv, NEW h \in Handlers,
           asked \subseteq asked',
           \A i \in Ids : OnIsAsked(store'[i], i, asked),
           \A i \in Ids : OnIsAsked(local'[h][i], i, asked),
           \A g \in Handlers \ {h} : local'[g] = local[g] /\ req'[g] = req[g],
           req'[h] \in ActivateReq => req'[h].id \in asked'
    PROVE  AskedInv'
  BY DEF AskedInv, OnIsAsked

LEMMA AskedReply ==
    ASSUME TypeOK, AskedInv, NEW h \in Handlers, NEW r, Reply(h, r), UNCHANGED asked,
           \A i \in Ids : OnIsAsked(store'[i], i, asked)
    PROVE  AskedInv'
  <1>1. \A i \in Ids : OnIsAsked(local'[h][i], i, asked)
    BY DEF Reply, TypeOK, Nothing, OnIsAsked
  <1>2. req'[h] \notin ActivateReq
    BY DEF Reply, TypeOK, NoReq, ActivateReq
  <1>3. \A g \in Handlers \ {h} : local'[g] = local[g] /\ req'[g] = req[g]
    BY DEF Reply, TypeOK
  <1> QED BY <1>1, <1>2, <1>3, AskedStep

LEMMA AskedArrive ==
    ASSUME TypeOK, AskedInv, NEW h \in Handlers, Arrive(h)
    PROVE  AskedInv'
  <1>1. CASE RefuseEmptyUpdate(h)
    BY <1>1, AskedReply DEF RefuseEmptyUpdate, AskedInv
  <1>2. CASE ~RefuseEmptyUpdate(h)
    <2>1. UNCHANGED <<store, local>> /\ asked \subseteq asked'
          /\ \A g \in Handlers \ {h} : req'[g] = req[g]
      BY <1>2 DEF Arrive, ReceiveCreate, ReceiveUpdate, ReceiveActivate, ReceivePlain,
         Receive, TypeOK
    <2>2. req'[h] \in ActivateReq => req'[h].id \in asked'
      BY <1>2, RequestKinds DEF Arrive, ReceiveCreate, ReceiveUpdate, ReceiveActivate,
         ReceivePlain, Receive, TypeOK
    <2> QED BY <2>1, <2>2, AskedStep DEF AskedInv
  <1> QED BY <1>1, <1>2

LEMMA AskedGet ==
    ASSUME TypeOK, AskedInv, NEW h \in Handlers, Get(h)
    PROVE  AskedInv'
  <1> USE DEF LoadedForUpdate, LoadedForDelete, LoadedForActivate, LoadedForDeactivate, KeepCopy
  <1> DEFINE i == req[h].id
  <1>1. CASE \E r \in Answer : Reply(h, r)
    BY <1>1, AskedReply DEF Get, AskedInv
  <1>2. CASE UNCHANGED <<local, req>>
    BY <1>2 DEF Get, AskedInv
  <1>3. ASSUME NEW e \in Doc, e.active => store[i].active, store[i] \in Doc, i \in Ids,
               local' = [local EXCEPT ![h] = [@ EXCEPT ![i] = e]], UNCHANGED req
        PROVE  AskedInv'
    <2>0. local[h] \in [Ids -> MaybeDoc] /\ local'[h] = [local[h] EXCEPT ![i] = e]
      BY <1>3 DEF TypeOK
    <2>1. ASSUME NEW j \in Ids PROVE OnIsAsked(local'[h][j], j, asked)
      <3>1. CASE j = i
        <4>1. local'[h][j] = e
          BY <2>0, <3>1
        <4>2. OnIsAsked(store[i], i, asked)
          BY <1>3 DEF AskedInv
        <4> QED BY <1>3, <3>1, <4>1, <4>2, DocOps DEF OnIsAsked
      <3>2. CASE j # i
        BY <1>3, <2>0, <3>2 DEF AskedInv
      <3> QED BY <3>1, <3>2
    <2> QED BY <1>3, <2>1, AskedStep DEF Get, AskedInv, TypeOK
  <1>4. i \in Ids /\ (store[i] # NoDoc => store[i] \in Doc)
    BY RequestKinds DEF Get, TypeOK, InProgress, MaybeDoc
  <1>5. store[i] \in Doc => Inactive(store[i]) \in Doc /\ ~Inactive(store[i]).active
    BY DocOps
  <1>6. store[i] \in Doc /\ req[h].op = "update" /\ Accepts(req[h].cmd)
          => Updated(store[i], req[h].cmd) \in Doc
             /\ Updated(store[i], req[h].cmd).active = store[i].active
    BY RequestKinds, UpdatedDoc DEF Get, TypeOK, InProgress
  <1>7. CASE ~(\E r \in Answer : Reply(h, r)) /\ local' # local
    BY <1>3, <1>4, <1>5, <1>6, <1>7 DEF Get, Answer, Await
  <1> QED BY <1>1, <1>2, <1>7 DEF Get, Answer, Await

LEMMA AskedList ==
    ASSUME TypeOK, AskedInv, NEW h \in Handlers, List(h)
    PROVE  AskedInv'
  <1> DEFINE i == req[h].id
             conflicts == FindConflicts(i, local[h][i])
  <1>1. CASE Reply(h, "conflict")
    BY <1>1, AskedReply DEF List, AskedInv
  <1>2. CASE local' = [local EXCEPT ![h] = Switched(@, i, conflicts)] /\ UNCHANGED req
    <2>1. i \in Ids /\ i \in asked
      BY RequestKinds DEF List, TypeOK, InProgress, AskedInv
    <2>2. \A j \in conflicts : store[j] \in Doc
      BY DEF FindConflicts, ListCandidates, TypeOK, MaybeDoc
    <2>3. local'[h] = Switched(local[h], i, conflicts)
      BY <1>2 DEF TypeOK
    <2>4. \A j \in Ids : OnIsAsked(local'[h][j], j, asked)
      BY <2>1, <2>2, <2>3, DocOps DEF Switched, AskedInv, OnIsAsked
    <2> QED BY <1>2, <2>4, AskedStep DEF List, AskedInv, TypeOK
  <1> QED BY <1>1, <1>2 DEF List, Await

LEMMA AskedReplace ==
    ASSUME TypeOK, AskedInv, NEW h \in Handlers, NEW i \in Ids, Replace(h, i)
    PROVE  \A j \in Ids : OnIsAsked(store'[j], j, asked)
  BY DEF Replace, TypeOK, AskedInv, OnIsAsked

LEMMA AskedSteps ==
    ASSUME TypeOK, AskedInv, NEW h \in Handlers, Step(h)
    PROVE  AskedInv'
  <1>1. CASE Insert(h)
    <2>1. req[h].doc \in Doc /\ ~req[h].doc.active
      BY <1>1, RequestKinds DEF Insert, TypeOK, InProgress
    <2>2. \A j \in Ids : OnIsAsked(store'[j], j, asked)
      BY <1>1, <2>1 DEF Insert, TypeOK, AskedInv, OnIsAsked
    <2> QED BY <1>1, <2>2, AskedReply DEF Insert
  <1>2. CASE Get(h)  BY <1>2, AskedGet
  <1>3. CASE List(h)  BY <1>3, AskedList
  <1>4. CASE SaveConflict(h)
    <2>1. \A j \in Ids : OnIsAsked(store'[j], j, asked)
      BY <1>4, AskedReplace DEF SaveConflict, TypeOK, AskedInv
    <2>2. CASE Reply(h, "error")
      BY <1>4, <2>1, <2>2, AskedReply DEF SaveConflict
    <2>3. CASE UNCHANGED <<local, req>>
      BY <1>4, <2>1, <2>3 DEF SaveConflict, AskedInv
    <2> QED BY <1>4, <2>2, <2>3 DEF SaveConflict, Await
  <1>5. CASE Save(h)
    <2>1. req[h].id \in Ids
      BY <1>5, RequestKinds DEF Save, TypeOK, InProgress
    <2>2. \A j \in Ids : OnIsAsked(store'[j], j, asked)
      BY <1>5, <2>1, AskedReplace DEF Save, AskedInv
    <2> QED BY <1>5, <2>2, AskedReply DEF Save
  <1>6. CASE RemoveGet(h)
    <2>1. CASE Reply(h, "ok")
      BY <1>6, <2>1, AskedReply DEF RemoveGet, AskedInv
    <2>2. CASE UNCHANGED <<local, req>>
      BY <1>6, <2>2 DEF RemoveGet, AskedInv
    <2> QED BY <1>6, <2>1, <2>2 DEF RemoveGet, Await
  <1>7. CASE Remove(h)
    <2>1. \A j \in Ids : OnIsAsked(store'[j], j, asked)
      BY <1>7 DEF Remove, TypeOK, AskedInv, OnIsAsked
    <2> QED BY <1>7, <2>1, AskedReply DEF Remove
  <1> QED BY <1>1, <1>2, <1>3, <1>4, <1>5, <1>6, <1>7 DEF Step

(* A mock nobody asked to activate is never on. *)
THEOREM OnlyAskedAreActive == Spec => []NeverActivatedUnasked
  <1>1. TypeOK /\ AskedInv /\ [Next]_vars => AskedInv'
    <2> SUFFICES ASSUME TypeOK, AskedInv, [Next]_vars PROVE AskedInv'
      OBVIOUS
    <2>1. CASE UNCHANGED vars  BY <2>1 DEF vars, AskedInv
    <2>2. ASSUME NEW h \in Handlers, DbError(h) \/ Crash(h) PROVE AskedInv'
      BY <2>2, AskedReply DEF DbError, Crash, AskedInv
    <2> QED BY <2>1, <2>2, AskedArrive, AskedSteps DEF Next
  <1>2. AskedInv => NeverActivatedUnasked
    BY DEF AskedInv, NeverActivatedUnasked, OnIsAsked
  <1> QED BY InitAsked, <1>1, <1>2, TypeCorrectness, PTL DEF Spec

=============================================================================
