--------------------- MODULE SideEffectDelivery_proofs ---------------------
(***************************************************************************)
(* Theorems about SideEffectDelivery, for any requests, workers and lists  *)
(* of effects.  The invariant says of every dispatch which list it runs    *)
(* over and how far it is (RunsOver); lists hold together because a part   *)
(* handed to Celery is one parallel effect or all the sequential ones.     *)
(***************************************************************************)
EXTENDS SideEffectDelivery, FiniteSetTheorems, TLAPS

(* The two stages a request can end in once its effects are through. *)
USE DEF PastEffects

-----------------------------------------------------------------------------
(* Positions, and the effects at them.                                     *)

LEMMA FirstIsLeast ==
    ASSUME NEW S \in SUBSET Nat, S # {}
    PROVE  First(S) \in S /\ \A j \in S : First(S) <= j
  <1> DEFINE Less == {e \in Nat \X Nat : e[1] < e[2]}
  <1>1. IsWellFoundedOn(Less, Nat)
    BY NatLessThanWellFounded, SMT DEF OpToRel
  <1>0. \A i, j \in Nat : j < i => <<j, i>> \in Less
    OBVIOUS
  <1> HIDE DEF Less
  <1>2. PICK i \in S : \A j \in S : ~(<<j, i>> \in Less)
    BY <1>1, WFMin, Zenon
  <1>3. ASSUME NEW j \in S PROVE i <= j
    <2>1. ~(j < i)
      BY <1>0, <1>2
    <2> QED BY <2>1
  <1> QED BY <1>3 DEF First

(* A list of effects, as mocks declare them. *)
Plan(p) ==
    /\ DOMAIN p \subseteq Positions
    /\ \A i \in DOMAIN p : p[i] \in Effect /\ p[i].attempts * (1 + MaxRestores) < MaxCount

LEMMA PlansAreLists ==
    ASSUME NEW p \in Responses \cup {NoEffects}
    PROVE  Plan(p)
  <1>1. CASE p \in Responses
    BY <1>1, ResponseAssumption, DeliveryAssumption DEF Plan
  <1>2. CASE p = NoEffects
    BY <1>2 DEF Plan, NoEffects
  <1> QED BY <1>1, <1>2

LEMMA AttemptsAreBounded ==
    ASSUME NEW p, Plan(p), NEW i \in DOMAIN p
    PROVE  /\ Attempts(p[i]) \in Nat \ {0}
           /\ Attempts(p[i]) < MaxCount
           /\ p[i].policy = "retry" => Attempts(p[i]) = p[i].attempts
  <1> DEFINE a == p[i].attempts
  <1>1. a \in Nat \ {0} /\ a * (1 + MaxRestores) < MaxCount
    BY DEF Plan, Effect
  <1>2. a <= a * (1 + MaxRestores)
    BY <1>1, DeliveryAssumption
  <1> HIDE DEF a
  <1>3. a < MaxCount /\ 1 < MaxCount
    BY <1>1, <1>2, DeliveryAssumption
  <1> QED BY <1>1, <1>3 DEF Attempts, a

-----------------------------------------------------------------------------
(* How far a dispatch is: of the enabled effects of its list S, those it   *)
(* is past are settled by n calls and the successes s, and come before     *)
(* those left.                                                             *)

SettledBy(p, n, s, i) == i \in s \/ (p[i].policy = "ignore" /\ n[i] > 0)
TriesUsedBy(p, n, i) ==
    /\ p[i].enabled
    /\ \/ ~p[i].callable
       \/ p[i].policy = "fail_mock" /\ n[i] > 0
       \/ p[i].policy = "retry" /\ n[i] >= p[i].attempts

RunsOver(p, n, s, S, d) ==
    /\ d.left \subseteq Enabled(p, S)
    /\ \A i \in Enabled(p, S) \ d.left :
         p[i].callable /\ SettledBy(p, n, s, i) /\ \A j \in d.left : i < j
    /\ d.status = "done" <=> d.left = {}
    /\ d.status = "calling" => p[First(d.left)].callable /\
         d.tries < Attempts(p[First(d.left)]) /\ d.tries <= n[First(d.left)]
    /\ d.status = "failed" => TriesUsedBy(p, n, First(d.left))

Row == [Positions -> 0..MaxCount]

(* More calls and more successes leave a dispatch where it is. *)
Grows(n, s, nn, ss) == s \subseteq ss /\ \A i \in Positions : n[i] <= nn[i]

LEMMA SettledGrows ==
    ASSUME NEW p, Plan(p), NEW i \in DOMAIN p,
           NEW n \in Row, NEW nn \in Row, NEW s, NEW ss, Grows(n, s, nn, ss)
    PROVE  /\ SettledBy(p, n, s, i) => SettledBy(p, nn, ss, i)
           /\ TriesUsedBy(p, n, i) => TriesUsedBy(p, nn, i)
  <1>1. /\ n[i] \in Nat /\ nn[i] \in Nat /\ n[i] <= nn[i]
        /\ p[i].attempts \in Nat
    BY DeliveryAssumption DEF Row, Grows, Plan, Effect
  <1> QED BY <1>1 DEF SettledBy, TriesUsedBy, Grows

LEMMA RunGrows ==
    ASSUME NEW p, Plan(p), NEW S \in SUBSET DOMAIN p, NEW d \in Dispatch,
           NEW n \in Row, NEW nn \in Row, NEW s, NEW ss, Grows(n, s, nn, ss),
           RunsOver(p, n, s, S, d)
    PROVE  RunsOver(p, nn, ss, S, d)
  <1>1. Enabled(p, S) \subseteq DOMAIN p /\ DOMAIN p \subseteq Nat
    BY ResponseAssumption DEF Enabled, Plan
  <1>2. \A i \in Enabled(p, S) \ d.left : p[i].callable /\ SettledBy(p, nn, ss, i)
    BY <1>1, SettledGrows DEF RunsOver
  <1>3. CASE d.left = {}
    BY <1>2, <1>3 DEF RunsOver, Dispatch
  <1>4. CASE d.left # {}
    <2>1. First(d.left) \in DOMAIN p
      BY <1>1, <1>4, FirstIsLeast DEF RunsOver
    <2>2. First(d.left) \in Positions /\ n[First(d.left)] <= nn[First(d.left)]
      BY <2>1 DEF Grows, Plan
    <2>3. n[First(d.left)] \in Nat /\ nn[First(d.left)] \in Nat /\ d.tries \in Nat
      BY <2>2, DeliveryAssumption DEF Row, Dispatch
    <2>4. d.status = "failed" => TriesUsedBy(p, nn, First(d.left))
      BY <2>1, SettledGrows DEF RunsOver
    <2> QED BY <1>2, <2>2, <2>3, <2>4 DEF RunsOver
  <1> QED BY <1>3, <1>4

(* A dispatch over what is left of a list begins like one over the list. *)
LEMMA Proceeds ==
    ASSUME NEW p, Plan(p), NEW S \in SUBSET DOMAIN p, NEW L \in SUBSET Enabled(p, S),
           NEW n \in Row, NEW s,
           \A i \in Enabled(p, S) \ L :
             p[i].callable /\ SettledBy(p, n, s, i) /\ \A j \in L : i < j
    PROVE  RunsOver(p, n, s, S, Proceed(p, L)) /\ Proceed(p, L) \in Dispatch
  <1>1. L \subseteq DOMAIN p /\ L \in SUBSET Positions /\ L \subseteq Nat
    BY ResponseAssumption DEF Enabled, Plan
  <1>2. Proceed(p, L) \in Dispatch
    BY <1>1 DEF Proceed, Dispatch
  <1> DEFINE d == Proceed(p, L)
  <1>3. /\ d.left = L /\ d.tries = 0
        /\ d.status = "done" <=> L = {}
        /\ d.status = "calling" <=> L # {} /\ p[First(L)].callable
        /\ d.status = "failed" <=> L # {} /\ ~p[First(L)].callable
    BY DEF Proceed
  <1> HIDE DEF d
  <1>4. CASE L = {}
    BY <1>2, <1>3, <1>4 DEF RunsOver, d
  <1>5. CASE L # {}
    <2>1. First(L) \in L /\ First(L) \in DOMAIN p /\ First(L) \in Positions
      BY <1>1, <1>5, FirstIsLeast
    <2>2. 0 < Attempts(p[First(L)]) /\ 0 <= n[First(L)] /\ p[First(L)].enabled
      BY <2>1, AttemptsAreBounded, DeliveryAssumption DEF Row, Enabled
    <2> QED BY <1>2, <1>3, <1>5, <2>2 DEF RunsOver, TriesUsedBy, d
  <1> QED BY <1>2, <1>4, <1>5 DEF d

LEMMA Begins ==
    ASSUME NEW p, Plan(p), NEW S \in SUBSET DOMAIN p, NEW n \in Row, NEW s
    PROVE  RunsOver(p, n, s, S, Begin(p, S)) /\ Begin(p, S) \in Dispatch
  BY Proceeds DEF Begin

(* What a call of the effect at i adds to the calls and the successes. *)
Called(n, i) == [n EXCEPT ![i] = OneMore(@)]
Won(s, i, ok) == IF ok THEN s \cup {i} ELSE s

LEMMA CallsGrow ==
    ASSUME NEW n \in Row, NEW i \in Positions, NEW s \in SUBSET Positions, NEW ok \in BOOLEAN
    PROVE  /\ Called(n, i) \in Row /\ Won(s, i, ok) \in SUBSET Positions
           /\ Grows(n, s, Called(n, i), Won(s, i, ok))
           /\ Called(n, i)[i] > 0 \/ MaxCount = 0
           /\ \A m \in Nat : m <= n[i] /\ m < MaxCount => m + 1 <= Called(n, i)[i]
           /\ \A j \in Positions \ {i} : Called(n, i)[j] = n[j]
  BY DeliveryAssumption DEF Row, Called, Won, Grows, OneMore

(* A call takes the dispatch to the next try, the next effect or its end. *)
LEMMA Continues ==
    ASSUME NEW p, Plan(p), NEW S \in SUBSET DOMAIN p, NEW d \in Dispatch,
           NEW n \in Row, NEW s \in SUBSET Positions, NEW ok \in BOOLEAN,
           RunsOver(p, n, s, S, d), d.status = "calling"
    PROVE  LET i == First(d.left)
           IN /\ i \in d.left /\ i \in DOMAIN p /\ i \in Positions
              /\ RunsOver(p, Called(n, i), Won(s, i, ok), S, AfterCall(p, d, ok))
              /\ AfterCall(p, d, ok) \in Dispatch
  <1> DEFINE i == First(d.left)
             e == p[i]
             nn == Called(n, i)
             ss == Won(s, i, ok)
             L == d.left \ {i}
  <1>1. Enabled(p, S) \subseteq DOMAIN p /\ DOMAIN p \subseteq Nat /\ DOMAIN p \subseteq Positions
    BY ResponseAssumption DEF Enabled, Plan
  <1>2. d.left # {} /\ d.left \subseteq Enabled(p, S)
    BY DEF RunsOver
  <1>3. i \in d.left /\ \A j \in d.left : i <= j
    BY <1>1, <1>2, FirstIsLeast
  <1>4. i \in DOMAIN p /\ i \in Positions /\ i \in Nat /\ e.enabled
    BY <1>1, <1>2, <1>3 DEF Enabled
  <1>5. /\ nn \in Row /\ ss \in SUBSET Positions /\ Grows(n, s, nn, ss)
        /\ \A m \in Nat : m <= n[i] /\ m < MaxCount => m + 1 <= nn[i]
    BY <1>4, CallsGrow
  <1>6. /\ Attempts(e) \in Nat \ {0} /\ Attempts(e) < MaxCount
        /\ e.policy = "retry" => Attempts(e) = e.attempts
        /\ e.policy \in {"ignore", "fail_mock", "retry"} /\ e.attempts \in Nat
    BY <1>4, AttemptsAreBounded DEF Plan, Effect
  <1>7. /\ d.tries \in Nat /\ d.tries < Attempts(e) /\ d.tries <= n[i]
        /\ nn[i] \in Nat /\ n[i] \in Nat
    BY <1>4, <1>5, DeliveryAssumption DEF RunsOver, Dispatch, Row
  <1>8. d.tries + 1 <= nn[i] /\ nn[i] > 0
    BY <1>5, <1>6, <1>7, DeliveryAssumption
  <1>9. RunsOver(p, nn, ss, S, d)
    BY <1>5, RunGrows
  <1>10. CASE ok \/ e.policy = "ignore"
    <2>1. SettledBy(p, nn, ss, i)
      BY <1>8, <1>10 DEF SettledBy, Won
    <2>2. \A j \in Enabled(p, S) \ L :
            p[j].callable /\ SettledBy(p, nn, ss, j) /\ \A l \in L : j < l
      BY <1>1, <1>2, <1>3, <1>4, <1>9, <2>1 DEF RunsOver
    <2>3. AfterCall(p, d, ok) = Proceed(p, L)
      BY <1>10 DEF AfterCall, GivesUp
    <2>4. L \in SUBSET Enabled(p, S)
      BY <1>2
    <2> HIDE DEF L, nn, ss
    <2>5. RunsOver(p, nn, ss, S, Proceed(p, L)) /\ Proceed(p, L) \in Dispatch
      BY <1>5, <2>2, <2>4, Proceeds
    <2> QED BY <1>3, <1>4, <2>3, <2>5 DEF nn, ss
  <1>11. CASE ~(ok \/ e.policy = "ignore") /\ GivesUp(e, d.tries)
    <2>1. AfterCall(p, d, ok) = [d EXCEPT !.status = "failed"]
      BY <1>11 DEF AfterCall
    <2>2. TriesUsedBy(p, nn, i)
      BY <1>4, <1>6, <1>7, <1>8, <1>11 DEF TriesUsedBy, GivesUp
    <2> HIDE DEF nn, ss
    <2>3. RunsOver(p, nn, ss, S, AfterCall(p, d, ok)) /\ AfterCall(p, d, ok) \in Dispatch
      BY <1>2, <1>9, <2>1, <2>2 DEF RunsOver, Dispatch
    <2> QED BY <1>3, <1>4, <2>3 DEF nn, ss
  <1>12. CASE ~(ok \/ e.policy = "ignore") /\ ~GivesUp(e, d.tries)
    <2>1. AfterCall(p, d, ok) = [d EXCEPT !.tries = @ + 1]
      BY <1>12 DEF AfterCall
    <2>2. d.tries + 1 < Attempts(e)
      BY <1>6, <1>7, <1>12 DEF GivesUp
    <2> HIDE DEF nn, ss
    <2>3. AfterCall(p, d, ok) = [left |-> d.left, tries |-> d.tries + 1, status |-> "calling"]
      BY <2>1 DEF Dispatch
    <2>4. RunsOver(p, nn, ss, S, AfterCall(p, d, ok)) /\ AfterCall(p, d, ok) \in Dispatch
      BY <1>2, <1>7, <1>8, <1>9, <2>2, <2>3 DEF RunsOver, Dispatch
    <2> QED BY <1>3, <1>4, <2>4 DEF nn, ss
  <1> QED BY <1>10, <1>11, <1>12

-----------------------------------------------------------------------------
(* The invariant.                                                          *)

Run(r, S, d) == RunsOver(plan[r], calls[r], succeeded[r], S, d)
SyncDone(r) ==
    \A i \in Enabled(plan[r], Sync(plan[r])) : plan[r][i].callable /\ Settled(r, i)
Sequential(p) == Async(p) \ Parallel(p)

(* Where a request is tells what its own dispatches run over. *)
SyncOk(r) ==
    /\ stage[r] = "new" => /\ plan[r] = NoEffects /\ background[r] = NoDispatch
                           /\ \A i \in Positions : calls[r][i] = 0
    /\ stage[r] = "sync" => Run(r, Sync(plan[r]), sync[r])
    /\ stage[r] \in {"schedule", "respond"} \cup PastEffects => SyncDone(r)
    /\ sync[r].status = "calling" => stage[r] = "sync"

(* What is still to be handed over is never part of the sequential effects. *)
UnsentOk(r) ==
    /\ stage[r] = "schedule" =>
         /\ unsent[r] # {} /\ unsent[r] \subseteq Async(plan[r])
         /\ Sequential(plan[r]) \subseteq unsent[r]
         /\ scheduler = "in_process" => unsent[r] = Async(plan[r])
    /\ stage[r] \in {"respond"} \cup PastEffects => unsent[r] = {}
    /\ scheduler = "celery" /\ stage[r] \in {"schedule", "respond"} \cup PastEffects =>
         \A i \in Async(plan[r]) \ unsent[r] : \E j \in Sent : j.req = r /\ i \in j.part

BackgroundOk(r) ==
    background[r].status # "done" =>
        /\ scheduler = "in_process" /\ stage[r] \notin {"new", "sync", "schedule"}
        /\ SyncDone(r) /\ Run(r, Async(plan[r]), background[r])

(* A job is one parallel effect or all the sequential ones. *)
JobOk(j) ==
    /\ scheduler = "celery" /\ stage[j.req] \notin {"new", "sync"}
    /\ SyncDone(j.req)
    /\ \/ \E i \in Parallel(plan[j.req]) : j.part = {i}
       \/ j.part = Sequential(plan[j.req])

TaskOk(w) ==
    task[w] # NoTask => /\ task[w].run.status = "calling"
                        /\ Run(task[w].job.req, task[w].job.part, task[w].run)

OrderOk(r) ==
    \A i, j \in DOMAIN plan[r] :
        Precedes(plan[r], i, j) /\ calls[r][j] > 0 => Settled(r, i)

IInv ==
    /\ TypeOK
    /\ \A r \in Requests : SyncOk(r) /\ UnsentOk(r) /\ BackgroundOk(r) /\ OrderOk(r)
    /\ \A j \in Sent : JobOk(j)
    /\ \A w \in Workers : TaskOk(w)

LEMMA RequestFacts ==
    ASSUME TypeOK, NEW r \in Requests
    PROVE  /\ Plan(plan[r]) /\ calls[r] \in Row /\ succeeded[r] \in SUBSET Positions
           /\ sync[r] \in Dispatch /\ background[r] \in Dispatch
           /\ Sync(plan[r]) \in SUBSET DOMAIN plan[r]
           /\ Async(plan[r]) \in SUBSET DOMAIN plan[r]
           /\ DOMAIN plan[r] \subseteq Positions
           /\ NoDispatch \in Dispatch
  <1>1. Plan(plan[r])
    BY PlansAreLists DEF TypeOK
  <1> QED BY <1>1 DEF TypeOK, Row, Plan, Sync, Async, NoDispatch, Dispatch

LEMMA InitInv == Init => IInv
  <1> SUFFICES ASSUME Init PROVE IInv
    OBVIOUS
  <1>1. Positions \subseteq Nat /\ MaxRestores \in Nat /\ MaxCount \in Nat
    BY ResponseAssumption, DeliveryAssumption
  <1>2. NoDispatch \in Dispatch /\ NoDispatch.left = {} /\ NoDispatch.status = "done"
    BY DEF NoDispatch, Dispatch
  <1>3. TypeOK
    BY <1>1, <1>2 DEF Init, TypeOK, Stage, Task, NoTask, Awaiting
  <1>4. \A r \in Requests : SyncOk(r) /\ UnsentOk(r) /\ BackgroundOk(r) /\ OrderOk(r)
    BY <1>2 DEF Init, SyncOk, UnsentOk, BackgroundOk, OrderOk, NoEffects
  <1>5. Sent = {} /\ acked = {} /\ \A w \in Workers : TaskOk(w)
    BY DEF Init, Sent, Busy, TaskOk
  <1> QED BY <1>3, <1>4, <1>5 DEF IInv

-----------------------------------------------------------------------------
(* Steps keep the types.                                                   *)

LEMMA Recorded ==
    ASSUME TypeOK, NEW r \in Requests, NEW i \in Positions, NEW ok \in BOOLEAN,
           Record(r, i, ok)
    PROVE  /\ calls' \in [Requests -> [Positions -> 0..MaxCount]]
           /\ succeeded' \in [Requests -> SUBSET Positions]
           /\ calls'[r] = Called(calls[r], i) /\ succeeded'[r] = Won(succeeded[r], i, ok)
           /\ \A q \in Requests \ {r} : calls'[q] = calls[q] /\ succeeded'[q] = succeeded[q]
           /\ \A q \in Requests : Grows(calls[q], succeeded[q], calls'[q], succeeded'[q])
  <1>1. /\ calls' = [calls EXCEPT ![r] = Called(calls[r], i)]
        /\ succeeded' = [succeeded EXCEPT ![r] = Won(succeeded[r], i, ok)]
    BY DEF Record, Called, Won, TypeOK
  <1>2. calls[r] \in Row /\ succeeded[r] \in SUBSET Positions
    BY RequestFacts
  <1>3. /\ Called(calls[r], i) \in Row /\ Won(succeeded[r], i, ok) \in SUBSET Positions
        /\ Grows(calls[r], succeeded[r], Called(calls[r], i), Won(succeeded[r], i, ok))
    BY <1>2, CallsGrow
  <1>4. \A q \in Requests \ {r} : calls'[q] = calls[q] /\ succeeded'[q] = succeeded[q]
    BY <1>1 DEF TypeOK
  <1>5. calls'[r] = Called(calls[r], i) /\ succeeded'[r] = Won(succeeded[r], i, ok)
    BY <1>1 DEF TypeOK
  <1>6. \A q \in Requests : Grows(calls[q], succeeded[q], calls[q], succeeded[q])
    BY DeliveryAssumption DEF TypeOK, Grows
  <1> QED BY <1>1, <1>3, <1>4, <1>5, <1>6 DEF TypeOK, Row

(* The process dies under a dispatch: a call more, or none. *)
LEMMA CutsOff ==
    ASSUME TypeOK, NEW r \in Requests, NEW d \in Dispatch, d.status = "calling" => d.left # {},
           CutOff(r, d)
    PROVE  \/ UNCHANGED history
           \/ /\ d.status = "calling" /\ First(d.left) \in d.left /\ First(d.left) \in Positions
              /\ Record(r, First(d.left), FALSE)
  <1>1. ASSUME d.status = "calling" PROVE First(d.left) \in d.left
    <2>1. d.left \in SUBSET Nat
      BY ResponseAssumption DEF Dispatch
    <2> QED BY <1>1, <2>1, FirstIsLeast
  <1> QED BY <1>1 DEF CutOff, Dispatch

LEMMA RunAfterCall ==
    ASSUME TypeOK, NEW r \in Requests, NEW S \in SUBSET DOMAIN plan[r], NEW d \in Dispatch,
           NEW ok \in BOOLEAN, d.status = "calling", Run(r, S, d),
           Record(r, First(d.left), ok)
    PROVE  /\ First(d.left) \in d.left /\ First(d.left) \in Positions
           /\ AfterCall(plan[r], d, ok) \in Dispatch
           /\ RunsOver(plan[r], calls'[r], succeeded'[r], S, AfterCall(plan[r], d, ok))
  <1>1. /\ Plan(plan[r]) /\ calls[r] \in Row /\ succeeded[r] \in SUBSET Positions
    BY RequestFacts
  <1> DEFINE i == First(d.left)
  <1>2. /\ i \in d.left /\ i \in Positions /\ AfterCall(plan[r], d, ok) \in Dispatch
        /\ RunsOver(plan[r], Called(calls[r], i), Won(succeeded[r], i, ok), S,
                    AfterCall(plan[r], d, ok))
    BY <1>1, Continues DEF Run
  <1>3. calls'[r] = Called(calls[r], i) /\ succeeded'[r] = Won(succeeded[r], i, ok)
    BY <1>2, Recorded
  <1> QED BY <1>2, <1>3

(* A dispatch that calls has something left to call. *)
LEMMA CallingIsAwaiting ==
    ASSUME NEW p, NEW n, NEW s, NEW S, NEW d, RunsOver(p, n, s, S, d)
    PROVE  d.status = "calling" <=> Awaiting(d)
  BY DEF RunsOver, Awaiting

LEMMA SettlesType ==
    ASSUME TypeOK, NEW r \in Requests, NEW p \in Responses \cup {NoEffects},
           NEW d \in Dispatch, d.status = "calling" <=> Awaiting(d),
           Settle(r, p, d)
    PROVE  /\ sync' \in [Requests -> Dispatch] /\ stage' \in [Requests -> Stage]
           /\ unsent' \in [Requests -> SUBSET Positions]
           /\ \A q \in Requests : stage'[q] = "sync" <=> Awaiting(sync'[q])
  <1>1. Async(p) \subseteq Positions
    BY PlansAreLists DEF Plan, Async
  <1>2. \A q \in Requests \ {r} : sync'[q] = sync[q] /\ stage'[q] = stage[q]
    BY DEF Settle, TypeOK
  <1>3. sync'[r] = d /\ stage'[r] = CASE d.status = "calling" -> "sync"
                                     [] d.status = "failed" -> "error"
                                     [] OTHER -> IF Async(p) = {} THEN "respond" ELSE "schedule"
    BY DEF Settle, TypeOK
  <1>4. stage'[r] = "sync" <=> d.status = "calling"
    BY <1>3
  <1>5. \A q \in Requests : stage'[q] = "sync" <=> Awaiting(sync'[q])
    BY <1>2, <1>3, <1>4 DEF TypeOK
  <1>6. sync' \in [Requests -> Dispatch] /\ unsent' \in [Requests -> SUBSET Positions]
    BY <1>1 DEF Settle, TypeOK
  <1>7. stage' \in [Requests -> Stage]
    BY <1>3, <1>4 DEF Settle, TypeOK, Stage
  <1> QED BY <1>5, <1>6, <1>7

LEMMA ExecuteType ==
    ASSUME IInv, NEW r \in Requests, Execute(r)
    PROVE  TypeOK'
  <1>1. PICK p \in Responses : plan' = [plan EXCEPT ![r] = p] /\ Settle(r, p, Begin(p, Sync(p)))
    BY DEF Execute
  <1>2. Plan(p) /\ Sync(p) \in SUBSET DOMAIN p /\ calls[r] \in Row
    BY PlansAreLists, RequestFacts DEF IInv, Sync
  <1>3. /\ Begin(p, Sync(p)) \in Dispatch
        /\ Begin(p, Sync(p)).status = "calling" <=> Awaiting(Begin(p, Sync(p)))
    BY <1>2, Begins, CallingIsAwaiting
  <1>4. /\ sync' \in [Requests -> Dispatch] /\ stage' \in [Requests -> Stage]
        /\ unsent' \in [Requests -> SUBSET Positions]
        /\ \A q \in Requests : stage'[q] = "sync" <=> Awaiting(sync'[q])
    BY <1>1, <1>3, SettlesType DEF IInv
  <1> QED BY <1>1, <1>4 DEF IInv, TypeOK, Execute, brokerVars, history

LEMMA SyncCallRuns ==
    ASSUME IInv, NEW r \in Requests, NEW ok \in BOOLEAN, stage[r] = "sync",
           Record(r, First(sync[r].left), ok)
    PROVE  /\ First(sync[r].left) \in sync[r].left /\ First(sync[r].left) \in Positions
           /\ AfterCall(plan[r], sync[r], ok) \in Dispatch
           /\ RunsOver(plan[r], calls'[r], succeeded'[r], Sync(plan[r]),
                       AfterCall(plan[r], sync[r], ok))
  <1>1. sync[r] \in Dispatch /\ sync[r].status = "calling" /\ Sync(plan[r]) \in SUBSET DOMAIN plan[r]
    BY RequestFacts DEF IInv, TypeOK, Awaiting
  <1>2. Run(r, Sync(plan[r]), sync[r])
    BY DEF IInv, SyncOk
  <1> QED BY <1>1, <1>2, RunAfterCall DEF IInv

LEMMA SyncCallType ==
    ASSUME IInv, NEW r \in Requests, SyncCall(r)
    PROVE  TypeOK'
  <1>1. PICK ok \in BOOLEAN : /\ Record(r, First(sync[r].left), ok)
                              /\ Settle(r, plan[r], AfterCall(plan[r], sync[r], ok))
    BY DEF SyncCall
  <1> DEFINE d == AfterCall(plan[r], sync[r], ok)
  <1>2. /\ First(sync[r].left) \in Positions /\ d \in Dispatch
        /\ d.status = "calling" <=> Awaiting(d)
    BY <1>1, SyncCallRuns, CallingIsAwaiting DEF SyncCall
  <1>3. /\ calls' \in [Requests -> [Positions -> 0..MaxCount]]
        /\ succeeded' \in [Requests -> SUBSET Positions]
    BY <1>1, <1>2, Recorded DEF IInv
  <1>4. plan[r] \in Responses \cup {NoEffects}
    BY DEF IInv, TypeOK
  <1> HIDE DEF d
  <1>5. /\ sync' \in [Requests -> Dispatch] /\ stage' \in [Requests -> Stage]
        /\ unsent' \in [Requests -> SUBSET Positions]
        /\ \A q \in Requests : stage'[q] = "sync" <=> Awaiting(sync'[q])
    BY <1>1, <1>2, <1>4, SettlesType DEF IInv, d
  <1> QED BY <1>3, <1>5 DEF IInv, TypeOK, SyncCall, brokerVars

LEMMA StartBackgroundType ==
    ASSUME IInv, NEW r \in Requests, StartBackground(r)
    PROVE  TypeOK'
  <1>1. /\ Plan(plan[r]) /\ calls[r] \in Row /\ unsent[r] \in SUBSET DOMAIN plan[r]
    BY RequestFacts DEF IInv, StartBackground, UnsentOk
  <1>2. Begin(plan[r], unsent[r]) \in Dispatch
    BY <1>1, Begins
  <1> QED BY <1>2 DEF IInv, TypeOK, StartBackground, Stage, brokerVars, history

LEMMA BackgroundRuns ==
    ASSUME IInv, NEW r \in Requests, NEW ok \in BOOLEAN, background[r].status = "calling",
           Record(r, First(background[r].left), ok)
    PROVE  /\ First(background[r].left) \in background[r].left
           /\ First(background[r].left) \in Positions
           /\ AfterCall(plan[r], background[r], ok) \in Dispatch
           /\ RunsOver(plan[r], calls'[r], succeeded'[r], Async(plan[r]),
                       AfterCall(plan[r], background[r], ok))
  <1>1. background[r] \in Dispatch /\ Async(plan[r]) \in SUBSET DOMAIN plan[r]
    BY RequestFacts DEF IInv
  <1>2. Run(r, Async(plan[r]), background[r])
    BY DEF IInv, BackgroundOk
  <1> QED BY <1>1, <1>2, RunAfterCall DEF IInv

LEMMA BackgroundCallType ==
    ASSUME IInv, NEW r \in Requests, BackgroundCall(r)
    PROVE  TypeOK'
  <1>1. PICK ok \in BOOLEAN :
          /\ Record(r, First(background[r].left), ok)
          /\ background' = [background EXCEPT ![r] = AfterCall(plan[r], @, ok)]
    BY DEF BackgroundCall
  <1>2. First(background[r].left) \in Positions /\ AfterCall(plan[r], background[r], ok) \in Dispatch
    BY <1>1, BackgroundRuns DEF BackgroundCall
  <1>3. /\ calls' \in [Requests -> [Positions -> 0..MaxCount]]
        /\ succeeded' \in [Requests -> SUBSET Positions]
    BY <1>1, <1>2, Recorded DEF IInv
  <1>4. background' \in [Requests -> Dispatch]
    BY <1>1, <1>2 DEF IInv, TypeOK
  <1> QED BY <1>3, <1>4 DEF IInv, TypeOK, BackgroundCall, brokerVars

LEMMA PublishType ==
    ASSUME IInv, NEW r \in Requests, Publish(r)
    PROVE  TypeOK'
  <1>1. unsent[r] \in SUBSET Positions /\ unsent[r] # {} /\ unsent[r] \in SUBSET Nat
    BY ResponseAssumption DEF IInv, TypeOK, Publish, UnsentOk
  <1>2. NextPart(plan[r], unsent[r]) \subseteq Positions
    <2>1. CASE unsent[r] \cap Parallel(plan[r]) # {}
      BY <1>1, <2>1, FirstIsLeast DEF NextPart
    <2> QED BY <1>1, <2>1 DEF NextPart
  <1>3. [job |-> [req |-> r, part |-> NextPart(plan[r], unsent[r])], copy |-> 0] \in Message
    BY <1>2 DEF Message, Job
  <1>4. queue' \subseteq Message
    BY <1>3 DEF IInv, TypeOK, Publish
  <1>5. unsent' \in [Requests -> SUBSET Positions]
    BY DEF IInv, TypeOK, Publish, StillUnsent
  <1>6. stage' \in [Requests -> Stage] /\ \A q \in Requests : stage'[q] = "sync" <=> stage[q] = "sync"
    BY DEF IInv, TypeOK, Publish, Stage
  <1> QED BY <1>4, <1>5, <1>6 DEF IInv, TypeOK, Publish, history

LEMMA AnswerType ==
    ASSUME IInv, NEW r \in Requests, PublishFails(r) \/ Respond(r)
    PROVE  TypeOK'
  BY DEF IInv, TypeOK, PublishFails, Respond, Stage, brokerVars, history

LEMMA CrashType ==
    ASSUME IInv, NEW r \in Requests, Crash(r)
    PROVE  TypeOK'
  <1>1. /\ sync[r] \in Dispatch /\ background[r] \in Dispatch /\ NoDispatch \in Dispatch
    BY RequestFacts DEF IInv
  <1>2. /\ sync[r].status = "calling" => sync[r].left # {}
        /\ background[r].status = "calling" => background[r].left # {}
    BY DEF IInv, SyncOk, BackgroundOk, Run, RunsOver
  <1>3. \/ UNCHANGED history
        \/ \E i \in Positions : Record(r, i, FALSE)
    BY <1>1, <1>2, CutsOff DEF IInv, Crash
  <1>4. /\ calls' \in [Requests -> [Positions -> 0..MaxCount]]
        /\ succeeded' \in [Requests -> SUBSET Positions]
    BY <1>3, Recorded DEF IInv, TypeOK, history
  <1>5. ~Awaiting(NoDispatch)
    BY DEF Awaiting, NoDispatch
  <1>6. \A q \in Requests \ {r} : sync'[q] = sync[q] /\ stage'[q] = stage[q]
    BY DEF Crash, IInv, TypeOK
  <1>7. sync'[r] = NoDispatch /\ stage'[r] # "sync"
    BY DEF Crash, IInv, TypeOK, InService
  <1>8. \A q \in Requests : stage'[q] = "sync" <=> Awaiting(sync'[q])
    BY <1>5, <1>6, <1>7 DEF IInv, TypeOK
  <1> QED BY <1>1, <1>4, <1>8 DEF IInv, TypeOK, Crash, Stage, brokerVars

(* Jobs that were sent are about requests whose plan is known. *)
LEMMA JobFacts ==
    ASSUME IInv, NEW j \in Sent
    PROVE  /\ j \in Job /\ j.req \in Requests /\ JobOk(j)
           /\ j.part \in SUBSET DOMAIN plan[j.req]
           /\ j.part \in SUBSET Async(plan[j.req])
  <1>1. j \in Job
    <2>1. \A m \in queue : m.job \in Job
      BY DEF IInv, TypeOK, Message
    <2>2. \A w \in Busy : task[w].job \in Job
      BY DEF IInv, TypeOK, Busy, Task
    <2> QED BY <2>1, <2>2 DEF Sent, IInv, TypeOK
  <1>2. j.req \in Requests /\ JobOk(j)
    BY <1>1 DEF Job, IInv
  <1> QED BY <1>1, <1>2 DEF JobOk, Sequential, Parallel, Async

LEMMA TaskFacts ==
    ASSUME IInv, NEW w \in Workers, task[w] # NoTask
    PROVE  /\ task[w] \in [job: Job, copy: Nat, run: Dispatch]
           /\ task[w].job \in Sent /\ task[w].job.req \in Requests /\ task[w].run \in Dispatch
           /\ task[w].job.part \in SUBSET DOMAIN plan[task[w].job.req]
           /\ task[w].run.status = "calling" /\ task[w].run.left # {}
           /\ Run(task[w].job.req, task[w].job.part, task[w].run)
  <1>1. task[w] \in [job: Job, copy: Nat, run: Dispatch]
    BY DEF IInv, TypeOK, Task
  <1>2. task[w].job \in Sent
    BY DEF Sent, Busy
  <1>3. TaskOk(w)
    BY DEF IInv
  <1> QED BY <1>1, <1>2, <1>3, JobFacts DEF TaskOk, Run, RunsOver

LEMMA HoldsType ==
    ASSUME TypeOK, NEW w \in Workers, NEW t \in [job: Job, copy: Nat, run: Dispatch],
           t.run.status = "calling" <=> Awaiting(t.run), Hold(w, t)
    PROVE  /\ task' \in [Workers -> Task] /\ acked' \subseteq Job
           /\ \A v \in Workers : task'[v] # NoTask <=> Awaiting(task'[v].run)
  <1>1. ~Awaiting(NoTask.run) /\ NoTask \in Task
    BY DEF Awaiting, NoTask, NoDispatch, Task
  <1>2. t \in Task /\ t.job \in Job
    BY DEF Task
  <1>3. CASE t.run.status = "calling"
    <2>1. task' = [task EXCEPT ![w] = t] /\ acked' = acked
      BY <1>3 DEF Hold
    <2>2. t # NoTask /\ Awaiting(t.run)
      BY <1>1, <1>3
    <2> QED BY <1>2, <2>1, <2>2 DEF TypeOK
  <1>4. CASE t.run.status # "calling"
    <2>1. task' = [task EXCEPT ![w] = NoTask] /\ acked' = acked \cup {t.job}
      BY <1>4 DEF Hold
    <2> QED BY <1>1, <1>2, <2>1 DEF TypeOK
  <1> QED BY <1>3, <1>4

LEMMA TakenRuns ==
    ASSUME IInv, NEW m \in queue
    PROVE  /\ m.job \in Sent /\ m.job \in Job /\ m.job.req \in Requests /\ m.copy \in Nat
           /\ m.job.part \in SUBSET DOMAIN plan[m.job.req]
           /\ Begin(plan[m.job.req], m.job.part) \in Dispatch
           /\ Run(m.job.req, m.job.part, Begin(plan[m.job.req], m.job.part))
  <1>1. m.job \in Sent /\ m.copy \in Nat
    BY DEF Sent, IInv, TypeOK, Message
  <1>2. m.job.req \in Requests /\ m.job.part \in SUBSET DOMAIN plan[m.job.req] /\ m.job \in Job
    BY <1>1, JobFacts
  <1> QED BY <1>1, <1>2, Begins, RequestFacts DEF Run, IInv

LEMMA TakeType ==
    ASSUME IInv, NEW w \in Workers, Take(w)
    PROVE  TypeOK'
  <1>1. PICK m \in queue :
          /\ queue' = queue \ {m}
          /\ Hold(w, [job |-> m.job, copy |-> m.copy, run |-> Begin(plan[m.job.req], m.job.part)])
    BY DEF Take
  <1> DEFINE t == [job |-> m.job, copy |-> m.copy, run |-> Begin(plan[m.job.req], m.job.part)]
  <1>2. t \in [job: Job, copy: Nat, run: Dispatch] /\ (t.run.status = "calling" <=> Awaiting(t.run))
    BY TakenRuns, CallingIsAwaiting DEF Run
  <1> HIDE DEF t
  <1>3. /\ task' \in [Workers -> Task] /\ acked' \subseteq Job
        /\ \A v \in Workers : task'[v] # NoTask <=> Awaiting(task'[v].run)
    BY <1>1, <1>2, HoldsType DEF IInv, t
  <1> QED BY <1>1, <1>3 DEF IInv, TypeOK, Take, reqVars, history

LEMMA WorkerCallRuns ==
    ASSUME IInv, NEW w \in Workers, NEW ok \in BOOLEAN, task[w] # NoTask,
           Record(task[w].job.req, First(task[w].run.left), ok)
    PROVE  LET t == task[w]
               d == AfterCall(plan[t.job.req], t.run, ok)
           IN /\ First(t.run.left) \in t.run.left /\ First(t.run.left) \in Positions
              /\ d \in Dispatch
              /\ RunsOver(plan[t.job.req], calls'[t.job.req], succeeded'[t.job.req], t.job.part, d)
              /\ [t EXCEPT !.run = AfterCall(plan[t.job.req], @, ok)]
                 = [job |-> t.job, copy |-> t.copy, run |-> d]
  <1> DEFINE t == task[w]
             d == AfterCall(plan[t.job.req], t.run, ok)
  <1>1. /\ t \in [job: Job, copy: Nat, run: Dispatch] /\ t.job.req \in Requests
        /\ t.run \in Dispatch /\ t.run.status = "calling"
        /\ t.job.part \in SUBSET DOMAIN plan[t.job.req]
        /\ Run(t.job.req, t.job.part, t.run)
    BY TaskFacts
  <1>2. [t EXCEPT !.run = d] = [job |-> t.job, copy |-> t.copy, run |-> d]
    BY <1>1
  <1>3. /\ First(t.run.left) \in t.run.left /\ First(t.run.left) \in Positions
        /\ d \in Dispatch
        /\ RunsOver(plan[t.job.req], calls'[t.job.req], succeeded'[t.job.req], t.job.part, d)
    BY <1>1, RunAfterCall DEF IInv
  <1> QED BY <1>2, <1>3

LEMMA WorkerCallType ==
    ASSUME IInv, NEW w \in Workers, WorkerCall(w)
    PROVE  TypeOK'
  <1> DEFINE r == task[w].job.req
  <1>1. task[w] # NoTask
    BY DEF WorkerCall
  <1>2. PICK ok \in BOOLEAN : /\ Record(r, First(task[w].run.left), ok)
                              /\ Hold(w, [task[w] EXCEPT !.run = AfterCall(plan[r], @, ok)])
    BY DEF WorkerCall
  <1> DEFINE d == AfterCall(plan[r], task[w].run, ok)
             t == [job |-> task[w].job, copy |-> task[w].copy, run |-> d]
  <1>3. /\ First(task[w].run.left) \in Positions /\ d \in Dispatch /\ Hold(w, t)
        /\ d.status = "calling" <=> Awaiting(d)
    BY <1>1, <1>2, WorkerCallRuns, CallingIsAwaiting
  <1>4. t \in [job: Job, copy: Nat, run: Dispatch] /\ t.run = d /\ r \in Requests
    BY <1>1, <1>3, TaskFacts
  <1> HIDE DEF t, d
  <1>5. /\ task' \in [Workers -> Task] /\ acked' \subseteq Job
        /\ \A v \in Workers : task'[v] # NoTask <=> Awaiting(task'[v].run)
    BY <1>3, <1>4, HoldsType DEF IInv
  <1>6. /\ calls' \in [Requests -> [Positions -> 0..MaxCount]]
        /\ succeeded' \in [Requests -> SUBSET Positions]
    BY <1>2, <1>3, <1>4, Recorded DEF IInv
  <1> QED BY <1>5, <1>6 DEF IInv, TypeOK, WorkerCall, reqVars

LEMMA RestoreType ==
    ASSUME IInv, NEW w \in Workers, task[w] # NoTask, Restore(w)
    PROVE  queue' \subseteq Message /\ restored' \in 0..MaxRestores
  <1>1. restored' \in 0..MaxRestores /\ restored + 1 \in Nat
    BY DeliveryAssumption DEF IInv, TypeOK, Restore
  <1>2. [job |-> task[w].job, copy |-> restored + 1] \in Message
    BY <1>1, TaskFacts DEF Message
  <1> QED BY <1>1, <1>2 DEF IInv, TypeOK, Restore

LEMMA CutOffWorker ==
    ASSUME IInv, NEW w \in Workers, task[w] # NoTask, CutOff(task[w].job.req, task[w].run)
    PROVE  \/ UNCHANGED history
           \/ /\ First(task[w].run.left) \in task[w].run.left
              /\ First(task[w].run.left) \in Positions
              /\ Record(task[w].job.req, First(task[w].run.left), FALSE)
  BY TaskFacts, CutsOff DEF IInv

LEMMA LetGoType ==
    ASSUME IInv, NEW w \in Workers, task[w] # NoTask, CutOff(task[w].job.req, task[w].run),
           task' = [task EXCEPT ![w] = NoTask]
    PROVE  /\ task' \in [Workers -> Task]
           /\ \A v \in Workers : task'[v] # NoTask <=> Awaiting(task'[v].run)
           /\ calls' \in [Requests -> [Positions -> 0..MaxCount]]
           /\ succeeded' \in [Requests -> SUBSET Positions]
  <1>1. ~Awaiting(NoTask.run) /\ NoTask \in Task
    BY DEF Awaiting, NoTask, NoDispatch, Task
  <1>2. \/ UNCHANGED history
        \/ \E i \in Positions : Record(task[w].job.req, i, FALSE)
    BY CutOffWorker
  <1>3. task[w].job.req \in Requests
    BY TaskFacts
  <1>4. /\ calls' \in [Requests -> [Positions -> 0..MaxCount]]
        /\ succeeded' \in [Requests -> SUBSET Positions]
    BY <1>2, <1>3, Recorded DEF IInv, TypeOK, history
  <1> QED BY <1>1, <1>4 DEF IInv, TypeOK

LEMMA WorkerLostType ==
    ASSUME IInv, NEW w \in Workers, WorkerLost(w)
    PROVE  TypeOK'
  BY LetGoType, RestoreType DEF WorkerLost, IInv, TypeOK, reqVars

LEMMA VisibilityTimeoutType ==
    ASSUME IInv, NEW w \in Workers, VisibilityTimeout(w)
    PROVE  TypeOK'
  BY RestoreType DEF VisibilityTimeout, IInv, TypeOK, reqVars, history

LEMMA TimeLimitType ==
    ASSUME IInv, NEW w \in Workers, TimeLimit(w)
    PROVE  TypeOK'
  BY LetGoType, TaskFacts DEF TimeLimit, IInv, TypeOK, reqVars

LEMMA NextType ==
    ASSUME IInv, [Next]_vars
    PROVE  TypeOK'
  <1>1. ASSUME NEW r \in Requests, Serve(r) PROVE TypeOK'
    BY <1>1, SyncCallType, StartBackgroundType, BackgroundCallType, PublishType, AnswerType
       DEF Serve
  <1>2. ASSUME NEW r \in Requests, Execute(r) \/ PublishFails(r) \/ Crash(r) PROVE TypeOK'
    BY <1>2, ExecuteType, AnswerType, CrashType
  <1>3. ASSUME NEW w \in Workers,
               Work(w) \/ WorkerLost(w) \/ VisibilityTimeout(w) \/ TimeLimit(w)
        PROVE TypeOK'
    BY <1>3, TakeType, WorkerCallType, WorkerLostType, VisibilityTimeoutType, TimeLimitType
       DEF Work
  <1>4. ASSUME UNCHANGED vars PROVE TypeOK'
    BY <1>4 DEF IInv, TypeOK, vars, reqVars, brokerVars, history
  <1> QED BY <1>1, <1>2, <1>3, <1>4 DEF Next

-----------------------------------------------------------------------------
(* What more calls and more successes leave as it is.                      *)

Steady(q) ==
    /\ scheduler' = scheduler /\ plan'[q] = plan[q] /\ calls'[q] \in Row
    /\ Grows(calls[q], succeeded[q], calls'[q], succeeded'[q])

LEMMA StaysSettled ==
    ASSUME IInv, NEW q \in Requests, Steady(q)
    PROVE  /\ \A i \in DOMAIN plan[q] : Settled(q, i) => Settled(q, i)'
           /\ \A i \in DOMAIN plan[q] : TriesUsed(q, i) => TriesUsed(q, i)'
           /\ SyncDone(q) => SyncDone(q)'
           /\ \A S \in SUBSET DOMAIN plan[q], d \in Dispatch :
                Run(q, S, d) => RunsOver(plan[q], calls'[q], succeeded'[q], S, d)
  <1>1. Plan(plan[q]) /\ calls[q] \in Row /\ calls'[q] \in Row
    BY RequestFacts DEF IInv, Steady
  <1>2. Grows(calls[q], succeeded[q], calls'[q], succeeded'[q]) /\ plan'[q] = plan[q]
    BY DEF Steady
  <1>3. \A i \in DOMAIN plan[q] :
          /\ SettledBy(plan[q], calls[q], succeeded[q], i)
             => SettledBy(plan[q], calls'[q], succeeded'[q], i)
          /\ TriesUsedBy(plan[q], calls[q], i) => TriesUsedBy(plan[q], calls'[q], i)
    BY <1>1, <1>2, SettledGrows
  <1>4. \A i \in DOMAIN plan[q] : Settled(q, i) => Settled(q, i)'
    BY <1>2, <1>3 DEF Settled, SettledBy
  <1>5. \A i \in DOMAIN plan[q] : TriesUsed(q, i) => TriesUsed(q, i)'
    BY <1>2, <1>3 DEF TriesUsed, TriesUsedBy
  <1>6. SyncDone(q) => SyncDone(q)'
    BY <1>2, <1>4 DEF SyncDone, Enabled, Sync
  <1>7. \A S \in SUBSET DOMAIN plan[q], d \in Dispatch :
          Run(q, S, d) => RunsOver(plan[q], calls'[q], succeeded'[q], S, d)
    BY <1>1, <1>2, RunGrows DEF Run
  <1> QED BY <1>4, <1>5, <1>6, <1>7

LEMMA StaysInOrder ==
    ASSUME IInv, NEW q \in Requests, Steady(q),
           \A j \in DOMAIN plan[q] : calls'[q][j] > 0 =>
             \/ calls[q][j] > 0
             \/ \A i \in DOMAIN plan[q] : Precedes(plan[q], i, j) => Settled(q, i)
    PROVE  OrderOk(q)'
  <1>1. OrderOk(q) /\ scheduler' = scheduler /\ plan'[q] = plan[q]
    BY DEF IInv, Steady
  <1>2. ASSUME NEW i \in DOMAIN plan[q], NEW j \in DOMAIN plan[q],
               Precedes(plan[q], i, j), calls'[q][j] > 0
        PROVE  Settled(q, i)'
    <2>1. Settled(q, i)
      BY <1>1, <1>2 DEF OrderOk
    <2> QED BY <2>1, StaysSettled
  <1> QED BY <1>1, <1>2 DEF OrderOk, Precedes

LEMMA StaysOk ==
    ASSUME IInv, NEW j \in Sent, Steady(j.req), stage'[j.req] \notin {"new", "sync"}
    PROVE  JobOk(j)'
  <1>1. /\ j.req \in Requests /\ JobOk(j) /\ j.part \subseteq DOMAIN plan[j.req]
        /\ plan'[j.req] = plan[j.req] /\ scheduler' = scheduler
    BY JobFacts DEF Steady
  <1>2. SyncDone(j.req)'
    BY <1>1, StaysSettled DEF JobOk
  <1>3. JobOk(j)'
    BY <1>1, <1>2 DEF JobOk, Sequential, Parallel, Async, Sync
  <1> QED BY <1>3

Undisturbed(q) ==
    /\ stage'[q] = stage[q] /\ sync'[q] = sync[q] /\ unsent'[q] = unsent[q]
    /\ background'[q] = background[q]

LEMMA StaysUndisturbed ==
    ASSUME IInv, NEW q \in Requests, Steady(q), Undisturbed(q), Sent \subseteq Sent',
           stage[q] = "new" => calls'[q] = calls[q]
    PROVE  SyncOk(q)' /\ UnsentOk(q)' /\ BackgroundOk(q)'
  <1>1. /\ stage'[q] = stage[q] /\ sync'[q] = sync[q] /\ unsent'[q] = unsent[q]
        /\ background'[q] = background[q] /\ plan'[q] = plan[q] /\ scheduler' = scheduler
    BY DEF Steady, Undisturbed
  <1>2. SyncOk(q) /\ UnsentOk(q) /\ BackgroundOk(q)
    BY DEF IInv
  <1>3. /\ Sync(plan[q]) \in SUBSET DOMAIN plan[q] /\ Async(plan[q]) \in SUBSET DOMAIN plan[q]
        /\ sync[q] \in Dispatch /\ background[q] \in Dispatch
    BY RequestFacts DEF IInv
  <1>4. /\ SyncDone(q) => SyncDone(q)'
        /\ Run(q, Sync(plan[q]), sync[q]) => Run(q, Sync(plan[q]), sync[q])'
        /\ Run(q, Async(plan[q]), background[q]) => Run(q, Async(plan[q]), background[q])'
    BY <1>1, <1>3, StaysSettled DEF Run
  <1>6. SyncOk(q)'
    BY <1>1, <1>2, <1>4 DEF SyncOk
  <1>7. UnsentOk(q)'
    BY <1>1, <1>2 DEF UnsentOk, Sequential, Parallel, Async, Sync
  <1>8. BackgroundOk(q)'
    BY <1>1, <1>2, <1>4 DEF BackgroundOk
  <1> QED BY <1>6, <1>7, <1>8

LEMMA QuietIsSteady ==
    ASSUME IInv, UNCHANGED <<scheduler, plan, history>>
    PROVE  \A q \in Requests : Steady(q) /\ OrderOk(q)'
  <1>1. \A q \in Requests : Steady(q)
    BY DeliveryAssumption DEF IInv, TypeOK, Steady, Row, Grows, history
  <1>2. \A q \in Requests : calls'[q] = calls[q]
    BY DEF history
  <1> QED BY <1>1, <1>2, StaysInOrder

LEMMA CallIsSteady ==
    ASSUME IInv, UNCHANGED <<scheduler, plan>>,
           NEW r \in Requests, NEW i \in Positions, NEW ok \in BOOLEAN, Record(r, i, ok),
           \A k \in DOMAIN plan[r] : Precedes(plan[r], k, i) => Settled(r, k)
    PROVE  \A q \in Requests : Steady(q) /\ OrderOk(q)' /\ (q # r => calls'[q] = calls[q])
  <1>1. \A q \in Requests : Steady(q)
    BY Recorded DEF IInv, Steady, Row
  <1>2. \A q \in Requests \ {r} : calls'[q] = calls[q]
    BY Recorded DEF IInv
  <1>3. \A j \in Positions \ {i} : calls'[r][j] = calls[r][j]
    <2>1. calls[r] \in Row /\ calls'[r] = Called(calls[r], i)
      BY Recorded, RequestFacts DEF IInv
    <2> QED BY <2>1 DEF Row, Called
  <1>4. DOMAIN plan[r] \subseteq Positions
    BY RequestFacts DEF IInv
  <1>5. OrderOk(r)'
    BY <1>1, <1>3, <1>4, StaysInOrder
  <1>6. \A q \in Requests \ {r} : OrderOk(q)'
    BY <1>1, <1>2, StaysInOrder
  <1> QED BY <1>1, <1>2, <1>5, <1>6

(* What a dispatch is past is settled. *)
LEMMA BeforeFirst ==
    ASSUME IInv, NEW r \in Requests, NEW S \in SUBSET DOMAIN plan[r], NEW d \in Dispatch,
           Run(r, S, d), d.left # {}, NEW k \in S, plan[r][k].enabled, k < First(d.left)
    PROVE  Settled(r, k)
  <1>1. d.left \in SUBSET Nat /\ k \in Nat
    BY ResponseAssumption, RequestFacts DEF IInv, Dispatch, Plan
  <1>2. First(d.left) \in Nat /\ \A j \in d.left : First(d.left) <= j
    BY <1>1, FirstIsLeast
  <1>3. k \in Enabled(plan[r], S) \ d.left
    BY <1>1, <1>2 DEF Enabled
  <1> QED BY <1>3 DEF Run, RunsOver, Settled, SettledBy

(* What comes first in the list of a dispatch over async effects waits for
   nothing, once the sync ones are done. *)
LEMMA FirstMayBeCalled ==
    ASSUME IInv, NEW r \in Requests, NEW S \in SUBSET Async(plan[r]), NEW d \in Dispatch,
           SyncDone(r), Run(r, S, d), d.left # {},
           \/ scheduler = "in_process" /\ S = Async(plan[r])
           \/ scheduler = "celery" /\ S = Sequential(plan[r])
           \/ scheduler = "celery" /\ \E i \in Parallel(plan[r]) : S = {i},
           NEW k \in DOMAIN plan[r], Precedes(plan[r], k, First(d.left))
    PROVE  Settled(r, k)
  <1> DEFINE i == First(d.left)
  <1>1. d.left \in SUBSET Nat /\ S \in SUBSET DOMAIN plan[r]
    BY ResponseAssumption DEF Dispatch, Async
  <1>2. i \in d.left /\ i \in S /\ i \in Async(plan[r])
    BY <1>1, FirstIsLeast DEF Run, RunsOver, Enabled
  <1>3. plan[r][i].mode # "sync" /\ plan[r][k].enabled
    BY <1>2 DEF Async, Sync, Precedes
  <1>4. CASE plan[r][k].mode = "sync"
    BY <1>3, <1>4 DEF SyncDone, Enabled, Sync
  <1>5. CASE plan[r][k].mode # "sync"
    <2>1. k < i /\ k \in Async(plan[r])
      BY <1>5 DEF Precedes, Async, Sync
    <2>2. k \in S
      <3>1. CASE scheduler = "in_process" /\ S = Async(plan[r])
        BY <2>1, <3>1
      <3>2. CASE scheduler = "celery"
        <4>1. plan[r][k].strategy = "sequential" /\ plan[r][i].strategy = "sequential"
          BY <1>5, <3>2 DEF Precedes
        <4>2. i \notin Parallel(plan[r]) /\ k \in Sequential(plan[r])
          BY <2>1, <4>1 DEF Parallel, Sequential
        <4> QED BY <1>2, <3>2, <4>2
      <3> QED BY <3>1, <3>2
    <2> QED BY <1>1, <1>3, <2>1, <2>2, BeforeFirst
  <1> QED BY <1>4, <1>5

LEMMA BrokerKept ==
    ASSUME IInv, UNCHANGED brokerVars,
           \A j \in Sent : Steady(j.req) /\ stage'[j.req] \notin {"new", "sync"}
    PROVE  /\ Sent' = Sent /\ \A j \in Sent' : JobOk(j)'
           /\ \A w \in Workers : TaskOk(w)'
  <1>1. Sent' = Sent /\ task' = task
    BY DEF Sent, Busy, brokerVars
  <1>2. \A j \in Sent : JobOk(j)'
    BY StaysOk
  <1>5. ASSUME NEW w \in Workers, task[w] # NoTask
        PROVE  Run(task[w].job.req, task[w].job.part, task[w].run)'
    <2> DEFINE r == task[w].job.req
    <2>1. /\ r \in Requests /\ Steady(r) /\ task[w].run \in Dispatch
          /\ task[w].job.part \in SUBSET DOMAIN plan[r]
          /\ Run(r, task[w].job.part, task[w].run)
      BY <1>5, TaskFacts
    <2>2. RunsOver(plan[r], calls'[r], succeeded'[r], task[w].job.part, task[w].run)
      BY <2>1, StaysSettled
    <2> QED BY <1>1, <2>1, <2>2 DEF Run, Steady
  <1>6. \A w \in Workers : TaskOk(w)'
    BY <1>1, <1>5, TaskFacts DEF TaskOk
  <1> QED BY <1>1, <1>2, <1>6

-----------------------------------------------------------------------------
(* Steps of a request keep the invariant.                                  *)

(* A step of request r leaves the others and the broker as they are. *)
LEMMA RequestStepKeeps ==
    ASSUME IInv, TypeOK', NEW r \in Requests, UNCHANGED brokerVars,
           \A q \in Requests \ {r} : Steady(q) /\ Undisturbed(q) /\ calls'[q] = calls[q],
           \A q \in Requests : OrderOk(q)',
           \/ \A j \in Sent : j.req # r
           \/ Steady(r) /\ stage'[r] \notin {"new", "sync"},
           SyncOk(r)', UnsentOk(r)', BackgroundOk(r)'
    PROVE  IInv'
  <1>1. \A j \in Sent : j.req \in Requests /\ stage[j.req] \notin {"new", "sync"}
    BY JobFacts DEF JobOk
  <1>2. \A j \in Sent : Steady(j.req) /\ stage'[j.req] \notin {"new", "sync"}
    BY <1>1 DEF Undisturbed
  <1>3. /\ Sent' = Sent /\ \A j \in Sent' : JobOk(j)'
        /\ \A w \in Workers : TaskOk(w)'
    BY <1>2, BrokerKept
  <1>4. \A q \in Requests \ {r} : SyncOk(q)' /\ UnsentOk(q)' /\ BackgroundOk(q)'
    BY <1>3, StaysUndisturbed
  <1>5. \A q \in Requests : SyncOk(q)' /\ UnsentOk(q)' /\ BackgroundOk(q)'
    BY <1>4
  <1> QED BY <1>3, <1>5 DEF IInv

(* A request with no jobs: it has not been through with its sync effects. *)
LEMMA NoJobsYet ==
    ASSUME IInv, NEW r \in Requests, stage[r] \in {"new", "sync"}
    PROVE  \A j \in Sent : j.req # r
  BY JobFacts DEF JobOk

(* A dispatch that is done is past everything, and all of it could be called. *)
LEMMA DoneIsSettled ==
    ASSUME NEW p, NEW n, NEW s, NEW S, NEW d, RunsOver(p, n, s, S, d), d.status = "done"
    PROVE  \A i \in Enabled(p, S) : p[i].callable /\ SettledBy(p, n, s, i)
  BY DEF RunsOver

LEMMA SettlesInv ==
    ASSUME IInv, NEW r \in Requests, NEW d \in Dispatch,
           stage[r] \in {"new", "sync"},
           plan'[r] \in Responses \cup {NoEffects}, calls'[r] \in Row,
           scheduler' = scheduler, background' = background,
           RunsOver(plan'[r], calls'[r], succeeded'[r], Sync(plan'[r]), d),
           Settle(r, plan'[r], d)
    PROVE  SyncOk(r)' /\ UnsentOk(r)' /\ BackgroundOk(r)'
  <1> DEFINE p == plan'[r]
  <1>1. /\ sync'[r] = d
        /\ stage'[r] = CASE d.status = "calling" -> "sync"
                         [] d.status = "failed" -> "error"
                         [] OTHER -> IF Async(p) = {} THEN "respond" ELSE "schedule"
        /\ unsent'[r] = IF d.status = "done" THEN Async(p) ELSE {}
    BY DEF Settle, IInv, TypeOK
  <1>2. d.status \in {"calling", "done", "failed"}
    BY DEF Dispatch
  <1>3. stage'[r] # "new" /\ stage'[r] \notin PastEffects
    BY <1>1, <1>2
  <1>4. background[r].status = "done"
    BY DEF IInv, BackgroundOk, NoDispatch
  <1>5. BackgroundOk(r)'
    BY <1>4 DEF BackgroundOk
  <1>6. CASE d.status = "calling"
    <2>1. stage'[r] = "sync"
      BY <1>1, <1>6
    <2> QED BY <1>1, <1>5, <2>1 DEF SyncOk, UnsentOk, Run
  <1>7. CASE d.status = "failed"
    <2>1. stage'[r] = "error" /\ unsent'[r] = {}
      BY <1>1, <1>7
    <2> QED BY <1>1, <1>5, <1>7, <2>1 DEF SyncOk, UnsentOk
  <1>8. CASE d.status = "done"
    <2>1. stage'[r] \in {"respond", "schedule"} /\ unsent'[r] = Async(p)
      BY <1>1, <1>8
    <2>2. stage'[r] = "respond" <=> Async(p) = {}
      BY <1>1, <1>8
    <2>3. SyncDone(r)'
      BY <1>8, DoneIsSettled DEF SyncDone, Settled, SettledBy
    <2>4. SyncOk(r)'
      BY <1>1, <1>8, <2>1, <2>3 DEF SyncOk
    <2>5. UnsentOk(r)'
      BY <2>1, <2>2 DEF UnsentOk, Sequential
    <2> QED BY <1>5, <2>4, <2>5
  <1> QED BY <1>2, <1>6, <1>7, <1>8

LEMMA ExecuteInv ==
    ASSUME IInv, NEW r \in Requests, Execute(r)
    PROVE  IInv'
  <1>1. PICK p \in Responses : plan' = [plan EXCEPT ![r] = p] /\ Settle(r, p, Begin(p, Sync(p)))
    BY DEF Execute
  <1>2. Plan(p) /\ Sync(p) \in SUBSET DOMAIN p /\ calls[r] \in Row /\ plan'[r] = p
    BY <1>1, PlansAreLists, RequestFacts DEF IInv, Sync, TypeOK
  <1>3. /\ Begin(p, Sync(p)) \in Dispatch
        /\ RunsOver(p, calls[r], succeeded[r], Sync(p), Begin(p, Sync(p)))
    BY <1>2, Begins
  <1>4. stage[r] = "new" /\ UNCHANGED <<scheduler, background, brokerVars, history, crashed>>
    BY DEF Execute
  <1>5. calls' = calls /\ succeeded' = succeeded
    BY <1>4 DEF history
  <1>6. \A q \in Requests \ {r} : Steady(q) /\ Undisturbed(q) /\ calls'[q] = calls[q]
    BY <1>1, <1>4, <1>5, DeliveryAssumption
       DEF IInv, TypeOK, Steady, Grows, Row, Undisturbed, Settle
  <1>7. SyncOk(r)' /\ UnsentOk(r)' /\ BackgroundOk(r)'
    BY <1>1, <1>2, <1>3, <1>4, <1>5, SettlesInv
  <1>8. \A q \in Requests \ {r} : OrderOk(q)'
    BY <1>6, StaysInOrder
  <1>9. OrderOk(r)'
    <2>1. \A i \in Positions : calls[r][i] = 0
      BY <1>4 DEF IInv, SyncOk
    <2> QED BY <1>2, <1>5, <2>1 DEF OrderOk, Plan
  <1> QED BY <1>4, <1>6, <1>7, <1>8, <1>9, ExecuteType, NoJobsYet, RequestStepKeeps

LEMMA SyncCallInv ==
    ASSUME IInv, NEW r \in Requests, SyncCall(r)
    PROVE  IInv'
  <1>1. PICK ok \in BOOLEAN : /\ Record(r, First(sync[r].left), ok)
                              /\ Settle(r, plan[r], AfterCall(plan[r], sync[r], ok))
    BY DEF SyncCall
  <1> DEFINE i == First(sync[r].left)
             d == AfterCall(plan[r], sync[r], ok)
  <1>2. /\ stage[r] = "sync"
        /\ UNCHANGED <<scheduler, plan, background, brokerVars, crashed>>
    BY DEF SyncCall
  <1>3. /\ i \in sync[r].left /\ i \in Positions /\ d \in Dispatch
        /\ RunsOver(plan[r], calls'[r], succeeded'[r], Sync(plan[r]), d)
    BY <1>1, <1>2, SyncCallRuns
  <1>4. /\ Run(r, Sync(plan[r]), sync[r]) /\ sync[r] \in Dispatch
        /\ Sync(plan[r]) \in SUBSET DOMAIN plan[r] /\ plan[r] \in Responses \cup {NoEffects}
    BY <1>2, RequestFacts DEF IInv, SyncOk, TypeOK
  <1>5. \A k \in DOMAIN plan[r] : Precedes(plan[r], k, i) => Settled(r, k)
    <2>1. i \in Sync(plan[r])
      BY <1>3, <1>4 DEF Run, RunsOver, Enabled
    <2>2. ASSUME NEW k \in DOMAIN plan[r], Precedes(plan[r], k, i)
          PROVE  k \in Sync(plan[r]) /\ plan[r][k].enabled /\ k < i
      BY <2>1, <2>2 DEF Precedes, Sync
    <2> QED BY <1>3, <1>4, <2>2, BeforeFirst
  <1>6. \A q \in Requests : Steady(q) /\ OrderOk(q)' /\ (q # r => calls'[q] = calls[q])
    BY <1>1, <1>2, <1>3, <1>5, CallIsSteady
  <1>7. \A q \in Requests \ {r} : Undisturbed(q)
    BY <1>1, <1>2 DEF Undisturbed, Settle, IInv, TypeOK
  <1>8. calls'[r] \in Row /\ plan'[r] = plan[r]
    BY <1>2, <1>6 DEF Steady
  <1> HIDE DEF i, d
  <1>9. SyncOk(r)' /\ UnsentOk(r)' /\ BackgroundOk(r)'
    BY <1>1, <1>2, <1>3, <1>4, <1>8, SettlesInv DEF d
  <1> QED BY <1>2, <1>6, <1>7, <1>9, SyncCallType, NoJobsYet, RequestStepKeeps

LEMMA StartBackgroundInv ==
    ASSUME IInv, NEW r \in Requests, StartBackground(r)
    PROVE  IInv'
  <1> DEFINE d == Begin(plan[r], unsent[r])
  <1>1. /\ scheduler = "in_process" /\ stage[r] = "schedule"
        /\ background'[r] = d /\ unsent'[r] = {} /\ stage'[r] = "respond"
        /\ UNCHANGED <<scheduler, plan, sync, brokerVars, history, crashed>>
    BY DEF StartBackground, IInv, TypeOK
  <1>2. SyncDone(r) /\ unsent[r] = Async(plan[r])
    BY <1>1 DEF IInv, SyncOk, UnsentOk
  <1>3. Run(r, Async(plan[r]), d)
    BY <1>2, RequestFacts, Begins DEF IInv, Run
  <1>4. \A q \in Requests : Steady(q) /\ OrderOk(q)' /\ calls'[q] = calls[q]
    BY <1>1, QuietIsSteady DEF history
  <1>5. \A q \in Requests \ {r} : Undisturbed(q)
    BY DEF Undisturbed, StartBackground, IInv, TypeOK
  <1>6. SyncDone(r)'
    BY <1>2, <1>4, StaysSettled
  <1>7. SyncOk(r)'
    BY <1>1, <1>6 DEF SyncOk, IInv
  <1>8. UnsentOk(r)'
    BY <1>1 DEF UnsentOk
  <1>9. RunsOver(plan[r], calls'[r], succeeded'[r], Async(plan[r]), d)
    BY <1>1, <1>3 DEF Run, history
  <1> HIDE DEF d
  <1>10. BackgroundOk(r)'
    BY <1>1, <1>6, <1>9 DEF BackgroundOk, Run
  <1> QED BY <1>1, <1>4, <1>5, <1>7, <1>8, <1>10, StartBackgroundType, RequestStepKeeps

LEMMA BackgroundMayCall ==
    ASSUME IInv, NEW r \in Requests, background[r].status = "calling"
    PROVE  /\ SyncDone(r) /\ Run(r, Async(plan[r]), background[r])
           /\ stage[r] \notin {"new", "sync", "schedule"} /\ scheduler = "in_process"
           /\ \A k \in DOMAIN plan[r] :
                Precedes(plan[r], k, First(background[r].left)) => Settled(r, k)
  <1>1. /\ SyncDone(r) /\ Run(r, Async(plan[r]), background[r])
        /\ stage[r] \notin {"new", "sync", "schedule"} /\ scheduler = "in_process"
    BY DEF IInv, BackgroundOk
  <1>2. background[r] \in Dispatch /\ background[r].left # {}
    BY <1>1, RequestFacts DEF IInv, Run, RunsOver
  <1> QED BY <1>1, <1>2, FirstMayBeCalled

LEMMA BackgroundCallInv ==
    ASSUME IInv, NEW r \in Requests, BackgroundCall(r)
    PROVE  IInv'
  <1>1. PICK ok \in BOOLEAN :
          /\ Record(r, First(background[r].left), ok)
          /\ background' = [background EXCEPT ![r] = AfterCall(plan[r], @, ok)]
    BY DEF BackgroundCall
  <1> DEFINE i == First(background[r].left)
             d == AfterCall(plan[r], background[r], ok)
  <1>2. /\ background[r].status = "calling" /\ background'[r] = d
        /\ UNCHANGED <<scheduler, plan, stage, sync, unsent, brokerVars, crashed>>
    BY <1>1 DEF BackgroundCall, IInv, TypeOK
  <1>3. /\ i \in Positions
        /\ RunsOver(plan[r], calls'[r], succeeded'[r], Async(plan[r]), d)
    BY <1>1, <1>2, BackgroundRuns
  <1>4. /\ SyncDone(r) /\ stage[r] \notin {"new", "sync", "schedule"} /\ scheduler = "in_process"
        /\ \A k \in DOMAIN plan[r] : Precedes(plan[r], k, i) => Settled(r, k)
    BY <1>2, BackgroundMayCall
  <1>5. \A q \in Requests : Steady(q) /\ OrderOk(q)' /\ (q # r => calls'[q] = calls[q])
    BY <1>1, <1>2, <1>3, <1>4, CallIsSteady
  <1>6. \A q \in Requests \ {r} : Undisturbed(q)
    BY <1>1, <1>2 DEF Undisturbed, IInv, TypeOK
  <1>7. SyncDone(r)'
    BY <1>4, <1>5, StaysSettled
  <1>8. SyncOk(r)'
    BY <1>2, <1>4, <1>7 DEF SyncOk, IInv
  <1>9. UnsentOk(r)'
    BY <1>2, <1>4 DEF UnsentOk, IInv
  <1> HIDE DEF i, d
  <1>10. BackgroundOk(r)'
    BY <1>2, <1>3, <1>4, <1>7 DEF BackgroundOk, Run
  <1> QED BY <1>2, <1>4, <1>5, <1>6, <1>8, <1>9, <1>10, BackgroundCallType, RequestStepKeeps

LEMMA AnswerInv ==
    ASSUME IInv, NEW r \in Requests, PublishFails(r) \/ Respond(r)
    PROVE  IInv'
  <1>1. /\ \/ stage[r] = "schedule" /\ stage'[r] = "error"
           \/ stage[r] = "respond" /\ stage'[r] \in PastEffects
        /\ UNCHANGED <<scheduler, plan, sync, unsent, background, brokerVars, history, crashed>>
    BY DEF PublishFails, Respond, IInv, TypeOK
  <1>2. \A q \in Requests : Steady(q) /\ OrderOk(q)' /\ calls'[q] = calls[q]
    BY <1>1, QuietIsSteady DEF history
  <1>3. \A q \in Requests \ {r} : Undisturbed(q)
    BY DEF Undisturbed, PublishFails, Respond, IInv, TypeOK
  <1>4. SyncDone(r)' /\ SyncDone(r)
    BY <1>1, <1>2, StaysSettled DEF IInv, SyncOk
  <1>5. SyncOk(r)'
    BY <1>1, <1>4 DEF SyncOk, IInv
  <1>6. Sent' = Sent
    BY <1>1 DEF Sent, Busy, brokerVars
  <1>7. UnsentOk(r)'
    BY <1>1, <1>6 DEF UnsentOk, IInv, Sequential, Parallel, Async, Sync
  <1>8. BackgroundOk(r)'
    BY <1>1, <1>4 DEF BackgroundOk, IInv, Run, history
  <1> QED BY <1>1, <1>2, <1>3, <1>5, <1>7, <1>8, AnswerType, RequestStepKeeps

LEMMA CrashInv ==
    ASSUME IInv, NEW r \in Requests, Crash(r)
    PROVE  IInv'
  <1>1. /\ stage'[r] = IF stage[r] \in InService THEN "lost" ELSE stage[r]
        /\ sync'[r] = NoDispatch /\ background'[r] = NoDispatch
        /\ UNCHANGED <<scheduler, plan, unsent, brokerVars>>
    BY DEF Crash, IInv, TypeOK
  <1>2. NoDispatch.status = "done"
    BY DEF NoDispatch
  <1>3. stage[r] \in InService \/ background[r].status = "calling"
    BY DEF Crash
  <1>4. stage[r] # "new" /\ stage'[r] \notin InService /\ stage'[r] # "new"
    BY <1>1, <1>2, <1>3 DEF IInv, SyncOk, InService
  <1>5. \/ UNCHANGED history
        \/ \E i \in Positions : /\ Record(r, i, FALSE)
                                /\ \A k \in DOMAIN plan[r] : Precedes(plan[r], k, i) => Settled(r, k)
    <2>1. CASE stage[r] \in InService /\ CutOff(r, sync[r])
      <3>1. sync[r] \in Dispatch /\ (sync[r].status = "calling" => sync[r].left # {})
        BY RequestFacts DEF IInv, SyncOk, Run, RunsOver
      <3>2. ASSUME sync[r].status = "calling", NEW k \in DOMAIN plan[r],
                   First(sync[r].left) \in sync[r].left,
                   Precedes(plan[r], k, First(sync[r].left))
            PROVE  Settled(r, k)
        <4>1. Run(r, Sync(plan[r]), sync[r]) /\ Sync(plan[r]) \in SUBSET DOMAIN plan[r]
          BY <3>2, RequestFacts DEF IInv, SyncOk
        <4>2. First(sync[r].left) \in Sync(plan[r])
          BY <3>2, <4>1 DEF Run, RunsOver, Enabled
        <4>3. k \in Sync(plan[r]) /\ plan[r][k].enabled /\ k < First(sync[r].left)
          BY <3>2, <4>2 DEF Precedes, Sync
        <4> QED BY <3>1, <3>2, <4>1, <4>3, BeforeFirst
      <3> QED BY <2>1, <3>1, <3>2, CutsOff DEF IInv
    <2>2. CASE background[r].status = "calling" /\ CutOff(r, background[r])
      <3>1. background[r] \in Dispatch /\ background[r].left # {}
        BY <2>2, RequestFacts, BackgroundMayCall DEF IInv, Run, RunsOver
      <3> QED BY <2>2, <3>1, CutsOff, BackgroundMayCall DEF IInv
    <2> QED BY <2>1, <2>2 DEF Crash
  <1>6. \A q \in Requests : Steady(q) /\ OrderOk(q)' /\ (q # r => calls'[q] = calls[q])
    BY <1>1, <1>5, CallIsSteady, QuietIsSteady DEF history
  <1>7. \A q \in Requests \ {r} : Undisturbed(q)
    BY DEF Undisturbed, Crash, IInv, TypeOK
  <1>8. SyncDone(r) => SyncDone(r)'
    BY <1>6, StaysSettled
  <1>9. SyncOk(r)'
    BY <1>1, <1>2, <1>4, <1>8 DEF SyncOk, IInv, InService
  <1>10. UnsentOk(r)'
    <2>1. Sent' = Sent
      BY <1>1 DEF Sent, Busy, brokerVars
    <2> QED BY <1>1, <1>4, <2>1 DEF UnsentOk, IInv, InService, Sequential, Parallel, Async, Sync
  <1>11. BackgroundOk(r)'
    BY <1>1, <1>2 DEF BackgroundOk
  <1>12. \/ \A j \in Sent : j.req # r
         \/ stage'[r] \notin {"new", "sync"}
    BY <1>4 DEF InService
  <1> QED BY <1>1, <1>6, <1>7, <1>9, <1>10, <1>11, <1>12, CrashType, RequestStepKeeps

-----------------------------------------------------------------------------
(* Steps of the broker and the workers keep the invariant.                 *)

(* The requests are not disturbed by a step of the broker that loses no
   job: calls are made for requests that are past their sync effects. *)
LEMMA BrokerStepKeeps ==
    ASSUME IInv, TypeOK', UNCHANGED reqVars, Sent' = Sent,
           \A q \in Requests : Steady(q) /\ OrderOk(q)' /\ (stage[q] = "new" => calls'[q] = calls[q]),
           \A w \in Workers : TaskOk(w)'
    PROVE  IInv'
  <1>1. \A q \in Requests : Undisturbed(q)
    BY DEF Undisturbed, reqVars
  <1>2. \A q \in Requests : SyncOk(q)' /\ UnsentOk(q)' /\ BackgroundOk(q)'
    BY <1>1, StaysUndisturbed
  <1>3. \A j \in Sent : Steady(j.req) /\ stage'[j.req] \notin {"new", "sync"}
    BY JobFacts DEF JobOk, reqVars
  <1>4. \A j \in Sent : JobOk(j)'
    BY <1>3, StaysOk
  <1> QED BY <1>2, <1>4 DEF IInv

LEMMA TaskStays ==
    ASSUME IInv, NEW w \in Workers, task'[w] = task[w], \A q \in Requests : Steady(q)
    PROVE  TaskOk(w)'
  <1> SUFFICES ASSUME task[w] # NoTask
               PROVE  TaskOk(w)'
    BY DEF TaskOk
  <1> DEFINE r == task[w].job.req
  <1>1. /\ r \in Requests /\ task[w].run \in Dispatch /\ task[w].run.status = "calling"
        /\ task[w].job.part \in SUBSET DOMAIN plan[r]
        /\ Run(r, task[w].job.part, task[w].run) /\ Steady(r)
    BY TaskFacts
  <1>2. RunsOver(plan[r], calls'[r], succeeded'[r], task[w].job.part, task[w].run)
    BY <1>1, StaysSettled
  <1> QED BY <1>1, <1>2 DEF TaskOk, Run, Steady

(* Steps as the queue sees them: a job at most is finished. *)
Finished == acked \cup killed
FinishesOne(j) == Sent' = Sent /\ Finished' \in {Finished, Finished \cup {j}}

(* Of a job that is held, the broker keeps knowing. *)
LEMMA HoldsInv ==
    ASSUME IInv, NEW w \in Workers, NEW t \in [job: Job, copy: Nat, run: Dispatch],
           UNCHANGED <<plan, killed>>, \A q \in Requests : Steady(q), t.job.req \in Requests,
           t.job.part \in SUBSET DOMAIN plan[t.job.req],
           RunsOver(plan[t.job.req], calls'[t.job.req], succeeded'[t.job.req], t.job.part, t.run),
           Hold(w, t),
           \/ task[w] = NoTask /\ \E m \in queue : m.job = t.job /\ queue' = queue \ {m}
           \/ task[w] # NoTask /\ task[w].job = t.job /\ queue' = queue
    PROVE  /\ Sent' = Sent
           /\ \A v \in Workers : TaskOk(v)'
           /\ t.job \in Sent /\ FinishesOne(t.job)
  <1>1. \A v \in Workers \ {w} : task'[v] = task[v]
    BY DEF Hold, IInv, TypeOK
  <1>2. \A v \in Workers \ {w} : TaskOk(v)'
    BY <1>1, TaskStays
  <1>3. {m.job : m \in queue} \cup {t.job} = {m.job : m \in queue'} \cup {t.job}
    OBVIOUS
  <1>4. t.job \in Sent
    BY DEF Sent, Busy
  <1>5. {task[v].job : v \in Busy} \cup {t.job} = {task[v].job : v \in Busy \ {w}} \cup {t.job}
    BY DEF Busy
  <1>6. {task[v].job : v \in Busy \ {w}} = {task'[v].job : v \in Busy' \ {w}}
    BY <1>1 DEF Busy
  <1>7. CASE t.run.status = "calling"
    <2>1. task'[w] = t /\ acked' = acked
      BY <1>7 DEF Hold, IInv, TypeOK
    <2>2. w \in Busy'
      BY <1>7, <2>1 DEF Busy, NoTask, NoDispatch
    <2>3. {task'[v].job : v \in Busy'} = {task'[v].job : v \in Busy' \ {w}} \cup {t.job}
      BY <2>1, <2>2
    <2>4. Sent' = Sent
      BY <1>3, <1>4, <1>5, <1>6, <2>1, <2>3, ZenonT(60) DEF Sent
    <2>5. TaskOk(w)'
      BY <1>7, <2>1 DEF TaskOk, Run, Steady
    <2> QED BY <1>2, <1>4, <2>1, <2>4, <2>5 DEF FinishesOne, Finished
  <1>8. CASE t.run.status # "calling"
    <2>1. task'[w] = NoTask /\ acked' = acked \cup {t.job}
      BY <1>8 DEF Hold, IInv, TypeOK
    <2>2. Busy' = Busy' \ {w}
      BY <2>1 DEF Busy
    <2>3. Sent' = Sent
      BY <1>3, <1>4, <1>5, <1>6, <2>1, <2>2 DEF Sent
    <2>4. TaskOk(w)'
      BY <2>1 DEF TaskOk
    <2> QED BY <1>2, <1>4, <2>1, <2>3, <2>4 DEF FinishesOne, Finished
  <1> QED BY <1>7, <1>8

LEMMA TakeInv ==
    ASSUME IInv, NEW w \in Workers, Take(w)
    PROVE  IInv' /\ \E j \in Sent : FinishesOne(j)
  <1>1. PICK m \in queue :
          /\ queue' = queue \ {m}
          /\ Hold(w, [job |-> m.job, copy |-> m.copy, run |-> Begin(plan[m.job.req], m.job.part)])
    BY DEF Take
  <1> DEFINE t == [job |-> m.job, copy |-> m.copy, run |-> Begin(plan[m.job.req], m.job.part)]
  <1>2. task[w] = NoTask /\ UNCHANGED <<reqVars, restored, killed, history, crashed>>
    BY DEF Take
  <1>3. \A q \in Requests : Steady(q) /\ OrderOk(q)' /\ calls'[q] = calls[q]
    BY <1>2, QuietIsSteady DEF history, reqVars
  <1>4. /\ t \in [job: Job, copy: Nat, run: Dispatch] /\ t.job = m.job /\ t.job.req \in Requests
        /\ t.job.part \in SUBSET DOMAIN plan[t.job.req]
        /\ RunsOver(plan[t.job.req], calls'[t.job.req], succeeded'[t.job.req], t.job.part, t.run)
    BY <1>2, TakenRuns DEF Run, history
  <1> HIDE DEF t
  <1>5. /\ Sent' = Sent /\ \A v \in Workers : TaskOk(v)'
        /\ t.job \in Sent /\ FinishesOne(t.job)
    BY <1>1, <1>2, <1>3, <1>4, HoldsInv DEF t, reqVars
  <1> QED BY <1>2, <1>3, <1>5, TakeType, BrokerStepKeeps

LEMMA WorkerMayCall ==
    ASSUME IInv, NEW w \in Workers, task[w] # NoTask
    PROVE  /\ stage[task[w].job.req] # "new"
           /\ \A k \in DOMAIN plan[task[w].job.req] :
                Precedes(plan[task[w].job.req], k, First(task[w].run.left))
                => Settled(task[w].job.req, k)
  <1> DEFINE r == task[w].job.req
             S == task[w].job.part
  <1>1. /\ task[w].job \in Sent /\ r \in Requests /\ task[w].run \in Dispatch
        /\ task[w].run.left # {} /\ Run(r, S, task[w].run)
    BY TaskFacts
  <1>2. JobOk(task[w].job) /\ S \in SUBSET Async(plan[r])
    BY <1>1, JobFacts
  <1>3. /\ SyncDone(r) /\ scheduler = "celery" /\ stage[r] # "new"
        /\ \/ \E i \in Parallel(plan[r]) : S = {i}
           \/ S = Sequential(plan[r])
    BY <1>2 DEF JobOk
  <1> QED BY <1>1, <1>2, <1>3, FirstMayBeCalled

LEMMA WorkerCallInv ==
    ASSUME IInv, NEW w \in Workers, WorkerCall(w)
    PROVE  IInv' /\ \E j \in Sent : FinishesOne(j)
  <1> DEFINE r == task[w].job.req
  <1>1. task[w] # NoTask /\ UNCHANGED <<reqVars, queue, restored, killed, crashed>>
    BY DEF WorkerCall
  <1>2. PICK ok \in BOOLEAN : /\ Record(r, First(task[w].run.left), ok)
                              /\ Hold(w, [task[w] EXCEPT !.run = AfterCall(plan[r], @, ok)])
    BY DEF WorkerCall
  <1> DEFINE d == AfterCall(plan[r], task[w].run, ok)
             t == [job |-> task[w].job, copy |-> task[w].copy, run |-> d]
  <1>3. /\ First(task[w].run.left) \in Positions /\ d \in Dispatch /\ Hold(w, t)
        /\ RunsOver(plan[r], calls'[r], succeeded'[r], task[w].job.part, d)
    BY <1>1, <1>2, WorkerCallRuns
  <1>4. /\ t \in [job: Job, copy: Nat, run: Dispatch] /\ t.run = d /\ t.job = task[w].job
        /\ r \in Requests /\ t.job.part \in SUBSET DOMAIN plan[r]
    BY <1>1, <1>3, TaskFacts
  <1>5. \A q \in Requests : Steady(q) /\ OrderOk(q)' /\ (q # r => calls'[q] = calls[q])
    <2>1. \A k \in DOMAIN plan[r] :
            Precedes(plan[r], k, First(task[w].run.left)) => Settled(r, k)
      BY <1>1, WorkerMayCall
    <2>2. UNCHANGED <<scheduler, plan>> /\ r \in Requests /\ First(task[w].run.left) \in Positions
      BY <1>1, <1>3, <1>4 DEF reqVars
    <2> HIDE DEF r
    <2> QED BY <1>2, <2>1, <2>2, CallIsSteady
  <1> HIDE DEF t, d
  <1>6. /\ Sent' = Sent /\ \A v \in Workers : TaskOk(v)'
        /\ t.job \in Sent /\ FinishesOne(t.job)
    BY <1>1, <1>3, <1>4, <1>5, HoldsInv DEF reqVars
  <1>7. stage[r] # "new"
    BY <1>1, WorkerMayCall
  <1> QED BY <1>1, <1>5, <1>6, <1>7, WorkerCallType, BrokerStepKeeps

(* A worker is lost or stopped in the middle of its dispatch. *)
LEMMA LetGoInv ==
    ASSUME IInv, NEW w \in Workers, task[w] # NoTask, CutOff(task[w].job.req, task[w].run),
           task' = [task EXCEPT ![w] = NoTask], UNCHANGED <<reqVars, acked>>
    PROVE  /\ \A q \in Requests : /\ Steady(q) /\ OrderOk(q)'
                                  /\ stage[q] = "new" => calls'[q] = calls[q]
           /\ \A v \in Workers : TaskOk(v)'
           /\ {task[v].job : v \in Busy} = {task'[v].job : v \in Busy'} \cup {task[w].job}
  <1> DEFINE r == task[w].job.req
  <1>1. \/ UNCHANGED history
        \/ \E i \in Positions : /\ Record(r, i, FALSE)
                                /\ \A k \in DOMAIN plan[r] : Precedes(plan[r], k, i) => Settled(r, k)
    BY CutOffWorker, WorkerMayCall
  <1>2. r \in Requests /\ stage[r] # "new"
    BY TaskFacts, WorkerMayCall
  <1>3. \A q \in Requests : Steady(q) /\ OrderOk(q)' /\ (q # r => calls'[q] = calls[q])
    BY <1>1, <1>2, CallIsSteady, QuietIsSteady DEF history, reqVars
  <1>4. \A v \in Workers \ {w} : task'[v] = task[v]
    BY DEF IInv, TypeOK
  <1>5. \A v \in Workers : TaskOk(v)'
    <2>1. TaskOk(w)'
      BY DEF TaskOk, IInv, TypeOK
    <2> QED BY <1>3, <1>4, <2>1, TaskStays
  <1>6. Busy' = Busy \ {w} /\ w \in Busy
    BY <1>4 DEF Busy, IInv, TypeOK
  <1>7. {task[v].job : v \in Busy} = {task'[v].job : v \in Busy'} \cup {task[w].job}
    BY <1>4, <1>6
  <1> QED BY <1>2, <1>3, <1>5, <1>7

LEMMA JobsOfMessages ==
    ASSUME NEW Q, NEW m
    PROVE  {x.job : x \in Q \cup {m}} = {x.job : x \in Q} \cup {m.job}
  OBVIOUS

LEMMA RestoredIsSent ==
    ASSUME NEW w \in Workers, Restore(w)
    PROVE  {m.job : m \in queue'} = {m.job : m \in queue} \cup {task[w].job}
  BY JobsOfMessages DEF Restore

LEMMA WorkerLostInv ==
    ASSUME IInv, NEW w \in Workers, WorkerLost(w)
    PROVE  IInv' /\ \E j \in Sent : FinishesOne(j)
  <1>1. /\ task[w] # NoTask /\ Restore(w) /\ CutOff(task[w].job.req, task[w].run)
        /\ task' = [task EXCEPT ![w] = NoTask] /\ UNCHANGED <<reqVars, acked, killed, crashed>>
    BY DEF WorkerLost
  <1>2. /\ \A q \in Requests : /\ Steady(q) /\ OrderOk(q)'
                               /\ stage[q] = "new" => calls'[q] = calls[q]
        /\ \A v \in Workers : TaskOk(v)'
        /\ {task[v].job : v \in Busy} = {task'[v].job : v \in Busy'} \cup {task[w].job}
    BY <1>1, LetGoInv
  <1>3. Sent' = Sent
    BY <1>1, <1>2, RestoredIsSent DEF Sent
  <1>9. task[w].job \in Sent /\ FinishesOne(task[w].job)
    BY <1>1, <1>3, TaskFacts DEF FinishesOne, Finished
  <1> QED BY <1>9, <1>1, <1>2, <1>3, WorkerLostType, BrokerStepKeeps

LEMMA VisibilityTimeoutInv ==
    ASSUME IInv, NEW w \in Workers, VisibilityTimeout(w)
    PROVE  IInv' /\ \E j \in Sent : FinishesOne(j)
  <1>1. /\ task[w] # NoTask /\ Restore(w)
        /\ UNCHANGED <<reqVars, task, acked, killed, history, crashed>>
    BY DEF VisibilityTimeout
  <1>2. \A q \in Requests : Steady(q) /\ OrderOk(q)' /\ calls'[q] = calls[q]
    BY <1>1, QuietIsSteady DEF history, reqVars
  <1>3. \A v \in Workers : TaskOk(v)'
    BY <1>1, <1>2, TaskStays
  <1>4. task[w].job \in {task[v].job : v \in Busy} /\ Busy' = Busy
    BY <1>1 DEF Busy
  <1>5. Sent' = Sent
    BY <1>1, <1>4, RestoredIsSent DEF Sent
  <1>9. task[w].job \in Sent /\ FinishesOne(task[w].job)
    BY <1>1, <1>5, TaskFacts DEF FinishesOne, Finished
  <1> QED BY <1>9, <1>1, <1>2, <1>3, <1>5, VisibilityTimeoutType, BrokerStepKeeps

LEMMA TimeLimitInv ==
    ASSUME IInv, NEW w \in Workers, TimeLimit(w)
    PROVE  IInv' /\ \E j \in Sent : FinishesOne(j)
  <1>1. /\ task[w] # NoTask /\ CutOff(task[w].job.req, task[w].run)
        /\ killed' = killed \cup {task[w].job}
        /\ task' = [task EXCEPT ![w] = NoTask] /\ UNCHANGED <<reqVars, queue, restored, acked, crashed>>
    BY DEF TimeLimit
  <1>2. /\ \A q \in Requests : /\ Steady(q) /\ OrderOk(q)'
                               /\ stage[q] = "new" => calls'[q] = calls[q]
        /\ \A v \in Workers : TaskOk(v)'
        /\ {task[v].job : v \in Busy} = {task'[v].job : v \in Busy'} \cup {task[w].job}
    BY <1>1, LetGoInv
  <1>3. Sent' = Sent
    BY <1>1, <1>2 DEF Sent
  <1>9. task[w].job \in Sent /\ FinishesOne(task[w].job)
    BY <1>1, <1>3, TaskFacts DEF FinishesOne, Finished
  <1> QED BY <1>9, <1>1, <1>2, <1>3, TimeLimitType, BrokerStepKeeps

(* The next part is one parallel effect, or all the sequential ones once no
   parallel one is left. *)
LEMMA NextPartIsAJob ==
    ASSUME IInv, NEW r \in Requests, stage[r] = "schedule"
    PROVE  LET S == NextPart(plan[r], unsent[r])
           IN /\ S \subseteq unsent[r] /\ S # {}
              /\ \/ \E i \in Parallel(plan[r]) : S = {i}
                 \/ S = Sequential(plan[r]) /\ S = unsent[r]
  <1>1. /\ unsent[r] # {} /\ unsent[r] \subseteq Async(plan[r])
        /\ Sequential(plan[r]) \subseteq unsent[r] /\ unsent[r] \in SUBSET Nat
    BY ResponseAssumption DEF IInv, UnsentOk, TypeOK
  <1>2. CASE unsent[r] \cap Parallel(plan[r]) # {}
    <2>1. First(unsent[r] \cap Parallel(plan[r])) \in unsent[r] \cap Parallel(plan[r])
      BY <1>1, <1>2, FirstIsLeast
    <2> QED BY <1>2, <2>1 DEF NextPart
  <1>3. CASE unsent[r] \cap Parallel(plan[r]) = {}
    <2>1. unsent[r] = Sequential(plan[r])
      BY <1>1, <1>3 DEF Sequential
    <2> QED BY <1>1, <1>3, <2>1 DEF NextPart
  <1> QED BY <1>2, <1>3

LEMMA PublishInv ==
    ASSUME IInv, NEW r \in Requests, Publish(r)
    PROVE  IInv' /\ \E j \in Job : Sent' = Sent \cup {j} /\ Finished' = Finished
  <1> PICK S : S = NextPart(plan[r], unsent[r])
    OBVIOUS
  <1> PICK j : j = [req |-> r, part |-> S]
    OBVIOUS
  <1>1. /\ scheduler = "celery" /\ stage[r] = "schedule"
        /\ queue' = queue \cup {[job |-> j, copy |-> 0]}
        /\ unsent'[r] = unsent[r] \ S
        /\ stage'[r] = IF unsent[r] \ S = {} THEN "respond" ELSE "schedule"
        /\ UNCHANGED <<scheduler, plan, sync, background, task, restored, acked, killed, history, crashed>>
    BY DEF Publish, StillUnsent, IInv, TypeOK
  <1>2. /\ S \subseteq unsent[r] /\ S # {}
        /\ \/ \E i \in Parallel(plan[r]) : S = {i}
           \/ S = Sequential(plan[r]) /\ S = unsent[r]
    BY <1>1, NextPartIsAJob
  <1>3. j.req = r /\ j.part = S
    OBVIOUS
  <1>4. Sent' = Sent \cup {j}
    <2>1. {m.job : m \in queue'} = {m.job : m \in queue} \cup {j}
      BY <1>1, JobsOfMessages, ZenonT(60)
    <2> QED BY <1>1, <2>1 DEF Sent, Busy
  <1>5. \A q \in Requests : Steady(q) /\ OrderOk(q)' /\ calls'[q] = calls[q]
    BY <1>1, QuietIsSteady DEF history
  <1>6. \A q \in Requests \ {r} : Undisturbed(q)
    BY <1>1 DEF Undisturbed, Publish, IInv, TypeOK
  <1>7. SyncDone(r) /\ SyncDone(r)'
    BY <1>1, <1>5, StaysSettled DEF IInv, SyncOk
  <1>8. stage'[r] \in {"respond", "schedule"} /\ (stage'[r] = "respond" <=> unsent'[r] = {})
    BY <1>1
  <1>9. SyncOk(r)'
    BY <1>1, <1>7, <1>8 DEF SyncOk, IInv
  <1>10. UnsentOk(r)'
    <2>1. /\ unsent[r] \subseteq Async(plan[r]) /\ Sequential(plan[r]) \subseteq unsent[r]
          /\ \A i \in Async(plan[r]) \ unsent[r] : \E k \in Sent : k.req = r /\ i \in k.part
      BY <1>1 DEF IInv, UnsentOk
    <2>2. \A i \in Async(plan[r]) \ unsent'[r] : \E k \in Sent' : k.req = r /\ i \in k.part
      BY <1>1, <1>3, <1>4, <2>1
    <2>3. unsent'[r] # {} => Sequential(plan[r]) \subseteq unsent'[r]
      BY <1>1, <1>2, <2>1 DEF Sequential
    <2>4. Sequential(plan[r])' = Sequential(plan[r]) /\ Async(plan[r])' = Async(plan[r])
      BY <1>1 DEF Sequential, Parallel, Async, Sync
    <2> QED BY <1>1, <1>8, <2>1, <2>2, <2>3, <2>4 DEF UnsentOk
  <1>11. BackgroundOk(r)'
    BY <1>1 DEF IInv, BackgroundOk
  <1>12. \A q \in Requests : SyncOk(q)' /\ UnsentOk(q)' /\ BackgroundOk(q)'
    BY <1>4, <1>5, <1>6, <1>9, <1>10, <1>11, StaysUndisturbed
  <1>13. \A k \in Sent : JobOk(k)'
    <2>1. \A q \in Requests : stage[q] \notin {"new", "sync"} => stage'[q] \notin {"new", "sync"}
      BY <1>6, <1>8 DEF Undisturbed
    <2> QED BY <1>5, <2>1, JobFacts, StaysOk DEF JobOk
  <1>14. JobOk(j)'
    BY <1>1, <1>2, <1>3, <1>7, <1>8 DEF JobOk, Sequential, Parallel, Async, Sync
  <1>16. \A w \in Workers : TaskOk(w)'
    BY <1>1, <1>5, TaskStays
  <1>17. j \in Job /\ Finished' = Finished
    BY <1>1, <1>2 DEF Job, Finished, IInv, TypeOK
  <1> QED BY <1>17, <1>4, <1>5, <1>12, <1>13, <1>14, <1>16, PublishType DEF IInv

LEMMA StutterInv ==
    ASSUME IInv, UNCHANGED vars
    PROVE  IInv'
  <1>1. UNCHANGED <<reqVars, scheduler, plan, brokerVars, history, task>>
    BY DEF vars, reqVars, brokerVars
  <1>2. \A q \in Requests : Steady(q) /\ OrderOk(q)' /\ calls'[q] = calls[q]
    BY <1>1, QuietIsSteady DEF history
  <1>3. \A w \in Workers : TaskOk(w)'
    BY <1>1, <1>2, TaskStays
  <1>4. Sent' = Sent /\ acked' = acked
    BY <1>1 DEF Sent, Busy, brokerVars
  <1> QED BY <1>1, <1>2, <1>3, <1>4, NextType, BrokerStepKeeps

LEMMA NextInv ==
    ASSUME IInv, [Next]_vars
    PROVE  IInv'
  <1>1. ASSUME NEW r \in Requests, Serve(r) PROVE IInv'
    BY <1>1, SyncCallInv, StartBackgroundInv, BackgroundCallInv, PublishInv, AnswerInv DEF Serve
  <1>2. ASSUME NEW r \in Requests, Execute(r) \/ PublishFails(r) \/ Crash(r) PROVE IInv'
    BY <1>2, ExecuteInv, AnswerInv, CrashInv
  <1>3. ASSUME NEW w \in Workers,
               Work(w) \/ WorkerLost(w) \/ VisibilityTimeout(w) \/ TimeLimit(w)
        PROVE IInv'
    BY <1>3, TakeInv, WorkerCallInv, WorkerLostInv, VisibilityTimeoutInv, TimeLimitInv DEF Work
  <1>4. ASSUME UNCHANGED vars PROVE IInv'
    BY <1>4, StutterInv
  <1> QED BY <1>1, <1>2, <1>3, <1>4 DEF Next

LEMMA DeliveryInvariant == Spec => []IInv
  BY InitInv, NextInv, PTL DEF Spec

-----------------------------------------------------------------------------
(* The theorems.                                                           *)

(* Requests, dispatches, messages and tasks keep their types; a request is in
   its sync effects, and a worker busy, exactly while a provider call is
   awaited (side_effect_dispatcher_service.py:34-58). *)
THEOREM DeliveryTypeCorrectness == Spec => []TypeOK
  BY DeliveryInvariant, PTL DEF IInv

(* Whatever workers die and messages come twice: nothing is called before
   what precedes it is settled, and no request is answered before its sync
   effects are (side_effect_dispatcher_service.py:42-47,
   side_effect_execution_service.py:52-53). *)
THEOREM CallsAreInOrder == Spec => []InOrder
  <1>1. IInv => InOrder
    BY DEF IInv, InOrder, OrderOk, SyncOk, SyncDone
  <1> QED BY <1>1, DeliveryInvariant, PTL

(* A request that is through with scheduling to Celery has sent all of its
   async effects (celery_async_task_scheduler.py:42-50). *)
THEOREM AllAreSent == Spec => []NoneLost
  <1>1. IInv => NoneLost
    BY DEF IInv, NoneLost, UnsentOk
  <1> QED BY <1>1, DeliveryInvariant, PTL

(* Celery, its workers and their failures implement a queue that loses
   nothing (tasks/side_effects.py:26-32, celery/app.py:17-27). *)
THEOREM DeliveryImplementsQueue == Spec => ImplementsQueue
  <1>1. Init => Queue!Init
    BY DEF Init, Queue!Init, Sent, Busy
  <1>2. ASSUME IInv, [Next]_vars
        PROVE  [Queue!Next]_(Queue!vars)
    <2> SUFFICES \/ \E j \in Job : Sent' = Sent \cup {j} /\ Finished' = Finished
                 \/ \E j \in Sent : FinishesOne(j)
                 \/ UNCHANGED brokerVars
      <3>1. ASSUME NEW j \in Job, Sent' = Sent \cup {j}, Finished' = Finished
            PROVE  [Queue!Next]_(Queue!vars)
        <4>1. CASE j \in Sent
          BY <3>1, <4>1 DEF Queue!vars, Finished
        <4>2. CASE j \notin Sent
          BY <3>1, <4>2 DEF Queue!Next, Queue!Send, Finished
        <4> QED BY <4>1, <4>2
      <3>2. ASSUME NEW j \in Sent, FinishesOne(j)
            PROVE  [Queue!Next]_(Queue!vars)
        <4>1. CASE Finished' = Finished
          BY <3>2, <4>1 DEF Queue!vars, Finished, FinishesOne
        <4>2. CASE j \notin Finished /\ Finished' = Finished \cup {j}
          BY <1>2, <3>2, <4>2, JobFacts DEF Queue!Next, Queue!Finish, Finished, FinishesOne
        <4> QED BY <3>2, <4>1, <4>2 DEF FinishesOne
      <3>3. ASSUME UNCHANGED brokerVars
            PROVE  [Queue!Next]_(Queue!vars)
        BY <3>3 DEF brokerVars, Queue!vars, Sent, Busy
      <3> QED BY <3>1, <3>2, <3>3
    <2>1. ASSUME NEW r \in Requests, Publish(r)
          PROVE  \E j \in Job : Sent' = Sent \cup {j} /\ Finished' = Finished
      BY <1>2, <2>1, PublishInv
    <2>2. ASSUME NEW r \in Requests,
                 \/ Execute(r) \/ SyncCall(r) \/ StartBackground(r) \/ BackgroundCall(r)
                 \/ Respond(r) \/ PublishFails(r) \/ Crash(r)
          PROVE  UNCHANGED brokerVars
      BY <2>2 DEF Execute, SyncCall, StartBackground, BackgroundCall, Respond, PublishFails, Crash
    <2>3. ASSUME NEW w \in Workers,
                 \/ Take(w) \/ WorkerCall(w)
                 \/ WorkerLost(w) \/ VisibilityTimeout(w) \/ TimeLimit(w)
          PROVE  \E j \in Sent : FinishesOne(j)
      BY <1>2, <2>3, TakeInv, WorkerCallInv, WorkerLostInv, VisibilityTimeoutInv, TimeLimitInv
    <2>4. ASSUME UNCHANGED vars
          PROVE  UNCHANGED brokerVars
      BY <2>4 DEF vars
    <2> QED BY <1>2, <2>1, <2>2, <2>3, <2>4 DEF Next, Serve, Work
  <1> QED BY <1>1, <1>2, DeliveryInvariant, PTL DEF Spec, ImplementsQueue, Queue!Spec

-----------------------------------------------------------------------------
(* How often a provider is called.  The calls of an effect that are still
   to come are counted by slots, one for each try of each delivery: a slot is
   open while the delivery - unsent, waiting in the broker, or with a worker
   - may use it.  A call closes a slot, and a message delivered again opens
   as many as there are tries.                                             *)

NotSent(r, i) ==
    stage[r] \in {"new", "sync"} \/ (stage[r] = "schedule" /\ i \in unsent[r])

Open(r, i, k, t) ==
    \/ k = 0 /\ NotSent(r, i)
    \/ \E m \in queue : m.copy = k /\ m.job.req = r /\ i \in m.job.part
    \/ \E w \in Busy : /\ task[w].copy = k /\ task[w].job.req = r /\ i \in task[w].run.left
                       /\ i = First(task[w].run.left) => t >= task[w].run.tries

Slots(r, i) ==
    {s \in (0..restored) \X (0..(Attempts(plan[r][i]) - 1)) : Open(r, i, s[1], s[2])}

Deliverable(r) == {i \in Async(plan[r]) : scheduler = "celery"}

CountOk(r) ==
    \A i \in DOMAIN plan[r] :
        IF i \in Deliverable(r)
        THEN calls[r][i] + Cardinality(Slots(r, i)) <= Attempts(plan[r][i]) * (1 + restored)
        ELSE calls[r][i] <= Attempts(plan[r][i])

(* Copies are told apart: no two holders have the same one, each is younger
   than the restorations so far, and what is unsent has none. *)
CopiesOk ==
    /\ \A m \in queue : /\ m.copy <= restored
                        /\ \A w \in Busy : m.job = task[w].job => m.copy # task[w].copy
    /\ \A w \in Busy : /\ task[w].copy <= restored
                       /\ \A v \in Busy \ {w} : task[v].job = task[w].job => task[v].copy # task[w].copy
    /\ \A j \in Sent : stage[j.req] = "schedule" => j.part \cap unsent[j.req] = {}

(* Without copies, the tries of a dispatch are all the calls there are. *)
Fresh(n, d) ==
    d.status = "calling" =>
        \A i \in d.left : n[i] = IF i = First(d.left) THEN d.tries ELSE 0

FreshOk(r) ==
    /\ stage[r] = "sync" => Fresh(calls[r], sync[r])
    /\ scheduler = "in_process" =>
         /\ stage[r] \in {"new", "sync", "schedule"} =>
              \A i \in Async(plan[r]) : calls[r][i] = 0
         /\ Fresh(calls[r], background[r])

DInv == IInv /\ CopiesOk /\ \A r \in Requests : CountOk(r) /\ FreshOk(r)

LEMMA FreshBegins ==
    ASSUME NEW p, Plan(p), NEW S \in SUBSET DOMAIN p, NEW n \in Row, \A i \in S : n[i] = 0
    PROVE  Fresh(n, Begin(p, S))
  BY DEF Fresh, Begin, Proceed, Enabled

LEMMA FreshContinues ==
    ASSUME NEW p, Plan(p), NEW S \in SUBSET DOMAIN p, NEW d \in Dispatch,
           NEW n \in Row, NEW s \in SUBSET Positions, NEW ok \in BOOLEAN,
           RunsOver(p, n, s, S, d), d.status = "calling", Fresh(n, d)
    PROVE  LET i == First(d.left)
           IN /\ Fresh(Called(n, i), AfterCall(p, d, ok))
              /\ Called(n, i)[i] <= Attempts(p[i])
  <1> DEFINE i == First(d.left)
             nn == Called(n, i)
             L == d.left \ {i}
  <1>1. /\ i \in d.left /\ i \in DOMAIN p /\ i \in Positions
    BY Continues
  <1>2. d.tries \in Nat /\ d.tries < Attempts(p[i]) /\ n[i] = d.tries
    BY <1>1 DEF RunsOver, Dispatch, Fresh
  <1>3. Attempts(p[i]) \in Nat /\ Attempts(p[i]) < MaxCount
    BY <1>1, AttemptsAreBounded
  <1>4. nn[i] = d.tries + 1
    BY <1>1, <1>2, <1>3, DeliveryAssumption DEF Called, OneMore, Row
  <1>5. d.left \subseteq Positions
    BY DEF Dispatch
  <1>6. \A j \in L : nn[j] = 0
    BY <1>5 DEF Called, Row, Fresh
  <1> HIDE DEF nn
  <1>7. ASSUME AfterCall(p, d, ok) = Proceed(p, L)
        PROVE  Fresh(nn, AfterCall(p, d, ok))
    BY <1>6, <1>7 DEF Proceed, Fresh
  <1>8. ASSUME AfterCall(p, d, ok) = [d EXCEPT !.status = "failed"]
        PROVE  Fresh(nn, AfterCall(p, d, ok))
    BY <1>8 DEF Fresh, Dispatch
  <1>9. ASSUME AfterCall(p, d, ok) = [d EXCEPT !.tries = @ + 1]
        PROVE  Fresh(nn, AfterCall(p, d, ok))
    <2>1. AfterCall(p, d, ok) = [left |-> d.left, tries |-> d.tries + 1, status |-> "calling"]
      BY <1>9 DEF Dispatch
    <2> QED BY <1>4, <1>6, <2>1 DEF Fresh
  <1>10. Fresh(nn, AfterCall(p, d, ok))
    BY <1>7, <1>8, <1>9 DEF AfterCall
  <1> QED BY <1>2, <1>3, <1>4, <1>10 DEF nn

(* Which slots a dispatch may use after a call. *)
LEMMA CallShrinks ==
    ASSUME NEW p, NEW d \in Dispatch, d.left # {}, NEW ok,
           AfterCall(p, d, ok).status = "calling"
    PROVE  /\ AfterCall(p, d, ok).left \subseteq d.left
           /\ First(d.left) \in AfterCall(p, d, ok).left =>
                /\ First(AfterCall(p, d, ok).left) = First(d.left)
                /\ AfterCall(p, d, ok).tries = d.tries + 1
  <1> PICK dd : dd = AfterCall(p, d, ok)
    OBVIOUS
  <1>1. d.left \in SUBSET Nat /\ d.left # {}
    BY ResponseAssumption DEF Dispatch, RunsOver
  <1>2. First(d.left) \in d.left
    BY <1>1, FirstIsLeast
  <1>3. CASE dd = Proceed(p, d.left \ {First(d.left)})
    BY <1>3 DEF Proceed
  <1>4. CASE dd = [d EXCEPT !.status = "failed"]
    BY <1>4 DEF Dispatch
  <1>5. CASE dd = [d EXCEPT !.tries = @ + 1]
    BY <1>5 DEF Dispatch
  <1> QED BY <1>3, <1>4, <1>5 DEF AfterCall

(* Parts of a request that have an effect in common are the same. *)
LEMMA PartsAreDisjoint ==
    ASSUME IInv, NEW j \in Sent, NEW k \in Sent, j.req = k.req, j.part \cap k.part # {}
    PROVE  j = k
  <1>1. j \in Job /\ k \in Job /\ JobOk(j) /\ JobOk(k)
    BY JobFacts
  <1>2. j.part = k.part
    BY <1>1 DEF JobOk, Sequential
  <1> QED BY <1>1, <1>2 DEF Job

(* Cardinalities: slots lost and slots gained. *)
LEMMA SlotsAreCounted ==
    ASSUME NEW S, IsFiniteSet(S), NEW T, NEW x \in S
    PROVE  /\ Cardinality(S) \in Nat
           /\ T \subseteq S => Cardinality(T) \in Nat /\ Cardinality(T) <= Cardinality(S)
           /\ T \subseteq S \ {x} => Cardinality(T) \in Nat /\ Cardinality(T) + 1 <= Cardinality(S)
  <1>1. Cardinality(S) \in Nat
    BY FS_CardinalityType
  <1>2. IsFiniteSet(S \ {x}) /\ Cardinality(S \ {x}) = Cardinality(S) - 1
    BY FS_RemoveElement
  <1>3. ASSUME T \subseteq S PROVE Cardinality(T) \in Nat /\ Cardinality(T) <= Cardinality(S)
    BY <1>3, FS_Subset, FS_CardinalityType
  <1>4. ASSUME T \subseteq S \ {x} PROVE Cardinality(T) \in Nat /\ Cardinality(T) <= Cardinality(S \ {x})
    BY <1>2, <1>4, FS_Subset, FS_CardinalityType
  <1> QED BY <1>1, <1>2, <1>3, <1>4

(* One try of every delivery is all there can be. *)
LEMMA AtMostAllSlots ==
    ASSUME NEW n \in Nat, NEW a \in Nat \ {0}, NEW T \in SUBSET ((0..n) \X (0..(a - 1)))
    PROVE  /\ IsFiniteSet(T) /\ Cardinality(T) \in Nat
           /\ Cardinality(T) <= a * (1 + n)
  <1>1. /\ IsFiniteSet(0..n) /\ Cardinality(0..n) = 1 + n
        /\ IsFiniteSet(0..(a - 1)) /\ Cardinality(0..(a - 1)) = a
    BY FS_Interval, SMTT(30)
  <1>2. /\ IsFiniteSet((0..n) \X (0..(a - 1)))
        /\ Cardinality((0..n) \X (0..(a - 1))) = (1 + n) * a
    BY <1>1, FS_Product
  <1>3. /\ IsFiniteSet(T) /\ Cardinality(T) \in Nat
        /\ Cardinality(T) <= (1 + n) * a
    BY <1>2, FS_Subset, FS_CardinalityType
  <1>4. (1 + n) * a = a * (1 + n)
    OBVIOUS
  <1> QED BY <1>3, <1>4

LEMMA LayerIsFinite ==
    ASSUME NEW k, NEW a \in Nat \ {0}
    PROVE  IsFiniteSet({k} \X (0..(a - 1))) /\ Cardinality({k} \X (0..(a - 1))) = a
  <1>1. IsFiniteSet({k}) /\ Cardinality({k}) = 1
    BY FS_Singleton
  <1>2. IsFiniteSet(0..(a - 1)) /\ Cardinality(0..(a - 1)) = a
    BY FS_Interval
  <1>3. /\ IsFiniteSet({k} \X (0..(a - 1)))
        /\ Cardinality({k} \X (0..(a - 1))) = 1 * a
    BY <1>1, <1>2, FS_Product
  <1> QED BY <1>3

LEMMA SlotsAreFinite ==
    ASSUME IInv, NEW r \in Requests, NEW i \in DOMAIN plan[r]
    PROVE  IsFiniteSet(Slots(r, i))
  <1> DEFINE a == Attempts(plan[r][i])
  <1>1. a \in Nat \ {0} /\ restored \in Nat
    BY RequestFacts, AttemptsAreBounded, DeliveryAssumption DEF IInv, TypeOK
  <1>2. Slots(r, i) \in SUBSET ((0..restored) \X (0..(a - 1)))
    BY DEF Slots
  <1> HIDE DEF a
  <1> QED BY <1>1, <1>2, AtMostAllSlots

(* A step that opens slots only for a new restoration keeps the count, if it
   closes one for each call. *)
OpensNone(q) ==
    \A i \in DOMAIN plan[q], k, t \in Nat :
        Open(q, i, k, t)' => Open(q, i, k, t) \/ (restored' = restored + 1 /\ k = restored + 1)

ClosesOne(q, i) ==
    \E k \in 0..restored, t \in 0..(Attempts(plan[q][i]) - 1) :
        Open(q, i, k, t) /\ ~Open(q, i, k, t)'

LEMMA CountsOne ==
    ASSUME IInv, TypeOK', NEW r \in Requests, NEW i \in DOMAIN plan[r], plan'[r] = plan[r], OpensNone(r),
           restored' \in {restored, restored + 1},
           calls[r][i] + Cardinality(Slots(r, i)) <= Attempts(plan[r][i]) * (1 + restored),
           \/ calls'[r][i] = calls[r][i]
           \/ calls'[r][i] <= calls[r][i] + 1 /\ ClosesOne(r, i)
    PROVE  calls'[r][i] + Cardinality(Slots(r, i)') <= Attempts(plan[r][i]) * (1 + restored')
  <1> DEFINE a == Attempts(plan[r][i])
             Old == Slots(r, i)
             New == Slots(r, i)'
             Kept == New \cap Old
             Layer == IF restored' = restored THEN {} ELSE {restored + 1} \X (0..(a - 1))
  <1>1. /\ a \in Nat \ {0} /\ restored \in Nat /\ calls[r][i] \in Nat /\ calls'[r][i] \in Nat
    BY RequestFacts, AttemptsAreBounded, DeliveryAssumption DEF IInv, TypeOK
  <1>2. New = {s \in (0..restored') \X (0..(a - 1)) : Open(r, i, s[1], s[2])'}
    BY DEF Slots
  <1>3. Old = {s \in (0..restored) \X (0..(a - 1)) : Open(r, i, s[1], s[2])}
    BY DEF Slots
  <1>4. IsFiniteSet(Old) /\ Cardinality(Old) \in Nat
    BY SlotsAreFinite, FS_CardinalityType
  <1> HIDE DEF a, New, Old
  <1>5. New \subseteq Kept \cup Layer
    <2> SUFFICES ASSUME NEW s \in New PROVE s \in Old \/ s \in Layer
      OBVIOUS
    <2>1. PICK k \in 0..restored', t \in 0..(a - 1) : s = <<k, t>> /\ Open(r, i, k, t)'
      BY <1>2
    <2>2. k \in Nat /\ t \in Nat
      BY <1>1, <2>1
    <2>3. Open(r, i, k, t) \/ (restored' = restored + 1 /\ k = restored + 1)
      BY <2>1, <2>2 DEF OpensNone
    <2>4. CASE restored' = restored + 1 /\ k = restored + 1
      BY <1>1, <2>1, <2>4
    <2>5. CASE Open(r, i, k, t) /\ ~(restored' = restored + 1 /\ k = restored + 1)
      <3>1. k \in 0..restored
        BY <1>1, <2>1, <2>5
      <3> QED BY <1>3, <2>1, <2>5, <3>1
    <2> QED BY <2>3, <2>4, <2>5
  <1>6. /\ IsFiniteSet(Layer)
        /\ Cardinality(Layer) = IF restored' = restored THEN 0 ELSE a
    <2>1. CASE restored' = restored
      BY <2>1, FS_EmptySet
    <2>2. CASE restored' # restored
      <3>1. a \in Nat \ {0}
        BY <1>1
      <3>2. /\ IsFiniteSet({restored + 1} \X (0..(a - 1)))
            /\ Cardinality({restored + 1} \X (0..(a - 1))) = a
        BY <3>1, LayerIsFinite
      <3> QED BY <2>2, <3>2
    <2> QED BY <2>1, <2>2
  <1>7. Kept \subseteq Old
    OBVIOUS
  <1>8. /\ IsFiniteSet(Kept) /\ Cardinality(Kept) \in Nat
        /\ Cardinality(Kept) <= Cardinality(Old)
    BY <1>4, <1>7, FS_Subset, FS_CardinalityType
  <1> HIDE DEF Kept, Layer
  <1>9. Cardinality(New) \in Nat /\ Cardinality(New) <= Cardinality(Kept) + Cardinality(Layer)
    <2>1. /\ IsFiniteSet(Kept \cup Layer)
          /\ Cardinality(Kept \cup Layer)
             = Cardinality(Kept) + Cardinality(Layer) - Cardinality(Kept \cap Layer)
      BY <1>6, <1>8, FS_Union
    <2>2. Cardinality(Kept \cap Layer) \in Nat
      BY <1>6, FS_Intersection, FS_CardinalityType
    <2>3. /\ IsFiniteSet(New) /\ Cardinality(New) \in Nat
          /\ Cardinality(New) <= Cardinality(Kept \cup Layer)
      BY <1>5, <2>1, FS_Subset, FS_CardinalityType
    <2> QED BY <1>1, <1>6, <1>8, <2>1, <2>2, <2>3
  <1>10. calls'[r][i] + Cardinality(Kept) <= calls[r][i] + Cardinality(Old)
    <2>1. CASE calls'[r][i] = calls[r][i]
      BY <1>1, <1>4, <1>8, <2>1
    <2>2. CASE calls'[r][i] <= calls[r][i] + 1 /\ ClosesOne(r, i)
      <3>1. PICK k \in 0..restored, t \in 0..(a - 1) : Open(r, i, k, t) /\ ~Open(r, i, k, t)'
        BY <2>2 DEF ClosesOne, a
      <3>2. <<k, t>> \in Old /\ <<k, t>> \notin New
        BY <1>2, <1>3, <3>1
      <3>3. Kept \subseteq Old \ {<<k, t>>}
        BY <3>2 DEF Kept
      <3>4. Cardinality(Kept) + 1 <= Cardinality(Old)
        BY <1>4, <3>2, <3>3, SlotsAreCounted
      <3> QED BY <1>1, <1>4, <1>8, <2>2, <3>4
    <2> QED BY <2>1, <2>2
  <1>11. a * (1 + (restored + 1)) = a * (1 + restored) + a
    BY <1>1
  <1>12. a * (1 + restored) \in Nat
    BY <1>1
  <1>13. calls'[r][i] + Cardinality(New) <= a * (1 + restored')
    <2>1. CASE restored' = restored
      BY <1>1, <1>4, <1>6, <1>8, <1>9, <1>10, <1>12, <2>1 DEF a, Old
    <2>2. CASE restored' = restored + 1
      BY <1>1, <1>4, <1>6, <1>8, <1>9, <1>10, <1>11, <1>12, <2>2 DEF a, Old
    <2> QED BY <2>1, <2>2
  <1> QED BY <1>13 DEF a, New

LEMMA CountsAll ==
    ASSUME DInv, TypeOK', NEW r \in Requests, scheduler' = scheduler, plan'[r] = plan[r],
           OpensNone(r), restored' \in {restored, restored + 1},
           \A i \in DOMAIN plan[r] :
             \/ calls'[r][i] = calls[r][i]
             \/ i \notin Deliverable(r) /\ calls'[r][i] <= Attempts(plan[r][i])
             \/ i \in Deliverable(r) /\ calls'[r][i] <= calls[r][i] + 1 /\ ClosesOne(r, i)
    PROVE  CountOk(r)'
  <1>1. Deliverable(r)' = Deliverable(r)
    BY DEF Deliverable, Async, Sync
  <1>2. ASSUME NEW i \in DOMAIN plan[r], i \in Deliverable(r)
        PROVE  calls'[r][i] + Cardinality(Slots(r, i)') <= Attempts(plan[r][i]) * (1 + restored')
    <2>1. calls[r][i] + Cardinality(Slots(r, i)) <= Attempts(plan[r][i]) * (1 + restored)
      BY <1>2 DEF DInv, CountOk
    <2> QED BY <1>2, <2>1, CountsOne DEF DInv
  <1>3. ASSUME NEW i \in DOMAIN plan[r], i \notin Deliverable(r)
        PROVE  calls'[r][i] <= Attempts(plan[r][i])
    BY <1>3 DEF DInv, CountOk
  <1> QED BY <1>1, <1>2, <1>3 DEF CountOk

LEMMA RequestsOpenNone ==
    ASSUME UNCHANGED brokerVars, NEW r \in Requests,
           \A i \in DOMAIN plan[r] : NotSent(r, i)' => NotSent(r, i)
    PROVE  OpensNone(r)
  <1>1. queue' = queue /\ task' = task /\ Busy' = Busy
    BY DEF brokerVars, Busy
  <1> QED BY <1>1 DEF OpensNone, Open

LEMMA RequestsKeepCopies ==
    ASSUME DInv, UNCHANGED brokerVars,
           \A q \in Requests : stage'[q] = "schedule" =>
             \/ stage[q] = "schedule" /\ unsent'[q] = unsent[q]
             \/ stage[q] \in {"new", "sync"}
    PROVE  CopiesOk'
  <1>1. queue' = queue /\ task' = task /\ Busy' = Busy /\ restored' = restored /\ Sent' = Sent
    BY DEF brokerVars, Busy, Sent
  <1>2. \A j \in Sent : j.req \in Requests /\ stage[j.req] \notin {"new", "sync"}
    BY JobFacts DEF JobOk, DInv
  <1> QED BY <1>1, <1>2 DEF CopiesOk, DInv

LEMMA RequestStepCounts ==
    ASSUME DInv, IInv', NEW r \in Requests, UNCHANGED <<scheduler, brokerVars>>,
           \A q \in Requests \ {r} :
             Undisturbed(q) /\ plan'[q] = plan[q] /\ calls'[q] = calls[q],
           stage'[r] = "schedule" => \/ stage[r] = "schedule" /\ unsent'[r] = unsent[r]
                                     \/ stage[r] \in {"new", "sync"},
           CountOk(r)', FreshOk(r)'
    PROVE  DInv'
  <1>1. CopiesOk'
    BY RequestsKeepCopies DEF Undisturbed
  <1>2. ASSUME NEW q \in Requests \ {r}
        PROVE  CountOk(q)' /\ FreshOk(q)'
    <2>1. stage'[q] = stage[q] /\ unsent'[q] = unsent[q]
      BY DEF Undisturbed
    <2>2. \A i \in DOMAIN plan[q] : NotSent(q, i)' => NotSent(q, i)
      BY <2>1 DEF NotSent
    <2>3. restored' = restored /\ OpensNone(q)
      BY <2>2, RequestsOpenNone DEF brokerVars
    <2>4. CountOk(q)'
      BY <2>3, CountsAll DEF IInv
    <2>5. FreshOk(q)'
      BY DEF FreshOk, DInv, Undisturbed, Async, Sync
    <2> QED BY <2>4, <2>5
  <1> QED BY <1>1, <1>2 DEF DInv

LEMMA RequestCountsOwn ==
    ASSUME DInv, IInv', NEW r \in Requests, UNCHANGED <<scheduler, plan, brokerVars>>,
           \A i \in DOMAIN plan[r] : NotSent(r, i)' => NotSent(r, i),
           \A i \in DOMAIN plan[r] :
             \/ calls'[r][i] = calls[r][i]
             \/ i \notin Deliverable(r) /\ calls'[r][i] <= Attempts(plan[r][i])
    PROVE  CountOk(r)'
  <1>1. restored' = restored /\ OpensNone(r)
    BY RequestsOpenNone DEF brokerVars
  <1> QED BY <1>1, CountsAll DEF IInv

LEMMA ExecuteCounts ==
    ASSUME DInv, NEW r \in Requests, Execute(r)
    PROVE  DInv'
  <1>1. PICK p \in Responses : plan' = [plan EXCEPT ![r] = p] /\ Settle(r, p, Begin(p, Sync(p)))
    BY DEF Execute
  <1>2. /\ stage[r] = "new" /\ background[r] = NoDispatch /\ \A i \in Positions : calls[r][i] = 0
        /\ UNCHANGED <<scheduler, background, brokerVars, history, crashed>>
    BY DEF Execute, DInv, IInv, SyncOk
  <1>3. Plan(p) /\ Sync(p) \in SUBSET DOMAIN p /\ calls[r] \in Row /\ plan'[r] = p
    BY <1>1, PlansAreLists, RequestFacts DEF DInv, IInv, Sync, TypeOK
  <1>4. calls' = calls /\ restored' = restored
    BY <1>2 DEF history, brokerVars
  <1>5. \A q \in Requests \ {r} : Undisturbed(q) /\ plan'[q] = plan[q] /\ calls'[q] = calls[q]
    BY <1>1, <1>2, <1>4 DEF DInv, IInv, TypeOK, Undisturbed, Settle
  <1>6. \A i \in DOMAIN p : calls'[r][i] = 0
    BY <1>2, <1>3, <1>4 DEF Plan
  <1>7. CountOk(r)'
    <2> SUFFICES ASSUME NEW i \in DOMAIN p
                 PROVE  /\ calls'[r][i] <= Attempts(p[i])
                        /\ calls'[r][i] + Cardinality(Slots(r, i)') <= Attempts(p[i]) * (1 + restored')
      BY <1>3 DEF CountOk
    <2> DEFINE a == Attempts(p[i])
               T == Slots(r, i)'
    <2>1. a \in Nat \ {0} /\ restored' \in Nat
      BY <1>3, <1>4, AttemptsAreBounded, DeliveryAssumption DEF DInv, IInv, TypeOK
    <2>2. T \in SUBSET ((0..restored') \X (0..(a - 1)))
      BY <1>3 DEF Slots
    <2> HIDE DEF a, T
    <2>3. Cardinality(T) \in Nat /\ Cardinality(T) <= a * (1 + restored')
      BY <2>1, <2>2, AtMostAllSlots
    <2> QED BY <1>6, <2>1, <2>3 DEF a, T
  <1>8. FreshOk(r)'
    <2>1. sync'[r] = Begin(p, Sync(p))
      BY <1>1 DEF Settle, DInv, IInv, TypeOK
    <2>2. Fresh(calls[r], Begin(p, Sync(p)))
      BY <1>2, <1>3, FreshBegins DEF Plan
    <2>3. Fresh(calls'[r], background'[r])
      BY <1>2 DEF Fresh, NoDispatch
    <2> QED BY <1>3, <1>4, <1>6, <2>1, <2>2, <2>3 DEF FreshOk, Async
  <1>9. IInv'
    BY ExecuteInv DEF DInv
  <1> QED BY <1>2, <1>5, <1>7, <1>8, <1>9, RequestStepCounts

LEMMA SyncCallCounts ==
    ASSUME DInv, NEW r \in Requests, SyncCall(r)
    PROVE  DInv'
  <1>1. PICK ok \in BOOLEAN : /\ Record(r, First(sync[r].left), ok)
                              /\ Settle(r, plan[r], AfterCall(plan[r], sync[r], ok))
    BY DEF SyncCall
  <1> DEFINE i == First(sync[r].left)
             d == AfterCall(plan[r], sync[r], ok)
  <1>2. /\ stage[r] = "sync" /\ IInv
        /\ UNCHANGED <<scheduler, plan, background, brokerVars, crashed>>
    BY DEF SyncCall, DInv
  <1>3. /\ i \in Positions /\ i \in sync[r].left /\ d \in Dispatch
    BY <1>1, <1>2, SyncCallRuns
  <1>4. /\ Run(r, Sync(plan[r]), sync[r]) /\ sync[r] \in Dispatch /\ sync[r].status = "calling"
        /\ Sync(plan[r]) \in SUBSET DOMAIN plan[r] /\ Fresh(calls[r], sync[r])
        /\ Plan(plan[r]) /\ calls[r] \in Row /\ succeeded[r] \in SUBSET Positions
    BY <1>2, RequestFacts DEF DInv, IInv, SyncOk, TypeOK, FreshOk, Awaiting
  <1>5. /\ calls'[r] = Called(calls[r], i)
        /\ \A q \in Requests \ {r} : calls'[q] = calls[q]
    BY <1>1, <1>2, <1>3, Recorded DEF IInv
  <1>6. Fresh(calls'[r], d) /\ calls'[r][i] <= Attempts(plan[r][i])
    BY <1>4, <1>5, FreshContinues DEF Run
  <1>7. \A j \in Positions \ {i} : calls'[r][j] = calls[r][j]
    BY <1>4, <1>5 DEF Row, Called
  <1>8. i \in Sync(plan[r])
    BY <1>3, <1>4 DEF Run, RunsOver, Enabled
  <1>9. /\ sync'[r] = d
        /\ stage'[r] \notin {"new"}
        /\ \A q \in Requests \ {r} : Undisturbed(q)
    BY <1>1, <1>2 DEF Settle, IInv, TypeOK, Undisturbed
  <1> HIDE DEF i, d
  <1>10. IInv'
    BY <1>2, SyncCallInv
  <1>11. CountOk(r)'
    BY <1>2, <1>4, <1>6, <1>7, <1>8, <1>10, RequestCountsOwn DEF NotSent, Deliverable, Async, Plan
  <1>12. FreshOk(r)'
    <2>1. background[r].status = "done"
      BY <1>2 DEF IInv, BackgroundOk
    <2>2. Fresh(calls'[r], background'[r])
      BY <1>2, <2>1 DEF Fresh
    <2>3. \A j \in Async(plan[r]) : calls'[r][j] = calls[r][j]
      BY <1>4, <1>7, <1>8 DEF Async, Plan
    <2>4. scheduler = "in_process" => \A j \in Async(plan[r]) : calls[r][j] = 0
      BY <1>2 DEF DInv, FreshOk
    <2> QED BY <1>2, <1>6, <1>9, <2>2, <2>3, <2>4 DEF FreshOk
  <1> QED BY <1>2, <1>5, <1>9, <1>10, <1>11, <1>12, RequestStepCounts

LEMMA StartBackgroundCounts ==
    ASSUME DInv, NEW r \in Requests, StartBackground(r)
    PROVE  DInv'
  <1> DEFINE d == Begin(plan[r], unsent[r])
  <1>1. /\ scheduler = "in_process" /\ stage[r] = "schedule" /\ IInv
        /\ background'[r] = d /\ stage'[r] = "respond"
        /\ UNCHANGED <<scheduler, plan, sync, brokerVars, history, crashed>>
        /\ \A q \in Requests \ {r} : Undisturbed(q)
    BY DEF StartBackground, DInv, IInv, TypeOK, Undisturbed
  <1>2. unsent[r] = Async(plan[r]) /\ \A i \in Async(plan[r]) : calls[r][i] = 0
    BY <1>1 DEF DInv, IInv, UnsentOk, FreshOk
  <1>3. Fresh(calls[r], d)
    BY <1>1, <1>2, RequestFacts, FreshBegins DEF IInv
  <1> HIDE DEF d
  <1>4. IInv'
    BY <1>1, StartBackgroundInv
  <1>5. calls' = calls
    BY <1>1 DEF history
  <1>6. CountOk(r)'
    BY <1>1, <1>4, <1>5, RequestCountsOwn DEF NotSent
  <1>7. FreshOk(r)'
    BY <1>1, <1>3, <1>5 DEF FreshOk
  <1> QED BY <1>1, <1>4, <1>5, <1>6, <1>7, RequestStepCounts

LEMMA BackgroundCallCounts ==
    ASSUME DInv, NEW r \in Requests, BackgroundCall(r)
    PROVE  DInv'
  <1>1. PICK ok \in BOOLEAN :
          /\ Record(r, First(background[r].left), ok)
          /\ background' = [background EXCEPT ![r] = AfterCall(plan[r], @, ok)]
    BY DEF BackgroundCall
  <1> DEFINE i == First(background[r].left)
             d == AfterCall(plan[r], background[r], ok)
  <1>2. /\ background[r].status = "calling" /\ background'[r] = d /\ IInv
        /\ UNCHANGED <<scheduler, plan, stage, sync, unsent, brokerVars, crashed>>
        /\ \A q \in Requests \ {r} : Undisturbed(q)
    BY <1>1 DEF BackgroundCall, DInv, IInv, TypeOK, Undisturbed
  <1>3. i \in Positions
    BY <1>1, <1>2, BackgroundRuns
  <1>4. /\ stage[r] \notin {"new", "sync", "schedule"} /\ scheduler = "in_process"
        /\ Run(r, Async(plan[r]), background[r])
    BY <1>2, BackgroundMayCall
  <1>5. /\ background[r] \in Dispatch /\ Fresh(calls[r], background[r])
        /\ Async(plan[r]) \in SUBSET DOMAIN plan[r]
        /\ Plan(plan[r]) /\ calls[r] \in Row /\ succeeded[r] \in SUBSET Positions
    BY <1>2, <1>4, RequestFacts DEF DInv, IInv, FreshOk
  <1>6. /\ calls'[r] = Called(calls[r], i)
        /\ \A q \in Requests \ {r} : calls'[q] = calls[q]
    BY <1>1, <1>2, <1>3, Recorded DEF IInv
  <1>7. Fresh(calls'[r], d) /\ calls'[r][i] <= Attempts(plan[r][i])
    BY <1>2, <1>4, <1>5, <1>6, FreshContinues DEF Run
  <1>8. \A j \in Positions \ {i} : calls'[r][j] = calls[r][j]
    BY <1>5, <1>6 DEF Row, Called
  <1> HIDE DEF i, d
  <1>9. IInv'
    BY <1>2, BackgroundCallInv
  <1>10. CountOk(r)'
    BY <1>2, <1>4, <1>5, <1>7, <1>8, <1>9, RequestCountsOwn DEF NotSent, Deliverable, Plan
  <1>11. FreshOk(r)'
    BY <1>2, <1>4, <1>7 DEF FreshOk
  <1> QED BY <1>2, <1>4, <1>6, <1>9, <1>10, <1>11, RequestStepCounts

LEMMA AnswerCounts ==
    ASSUME DInv, NEW r \in Requests, PublishFails(r) \/ Respond(r)
    PROVE  DInv'
  <1>1. /\ stage[r] \in {"schedule", "respond"} /\ stage'[r] \in {"error"} \cup PastEffects /\ IInv
        /\ UNCHANGED <<scheduler, plan, sync, unsent, background, brokerVars, history, crashed>>
        /\ \A q \in Requests \ {r} : Undisturbed(q)
    BY DEF PublishFails, Respond, DInv, IInv, TypeOK, Undisturbed
  <1>2. IInv' /\ calls' = calls
    BY <1>1, AnswerInv DEF history
  <1>3. CountOk(r)'
    BY <1>1, <1>2, RequestCountsOwn DEF NotSent
  <1>4. FreshOk(r)'
    BY <1>1, <1>2 DEF FreshOk, DInv
  <1> QED BY <1>1, <1>2, <1>3, <1>4, RequestStepCounts

(* The calls a request makes by itself are the tries of its dispatch. *)
LEMMA OwnCallCounts ==
    ASSUME DInv, NEW r \in Requests, NEW S \in SUBSET DOMAIN plan[r], NEW d \in Dispatch,
           d.status = "calling", Run(r, S, d), Fresh(calls[r], d),
           Record(r, First(d.left), FALSE)
    PROVE  /\ First(d.left) \in S
           /\ calls'[r][First(d.left)] <= Attempts(plan[r][First(d.left)])
           /\ \A j \in DOMAIN plan[r] \ {First(d.left)} : calls'[r][j] = calls[r][j]
           /\ \A q \in Requests \ {r} : calls'[q] = calls[q]
  <1> DEFINE i == First(d.left)
  <1>1. /\ Plan(plan[r]) /\ calls[r] \in Row /\ succeeded[r] \in SUBSET Positions
        /\ DOMAIN plan[r] \subseteq Positions
    BY RequestFacts DEF DInv, IInv
  <1>2. i \in d.left /\ i \in Positions
    BY RunAfterCall DEF DInv, IInv
  <1>3. /\ calls'[r] = Called(calls[r], i)
        /\ \A q \in Requests \ {r} : calls'[q] = calls[q]
    BY <1>2, Recorded DEF DInv, IInv
  <1>4. calls'[r][i] <= Attempts(plan[r][i])
    BY <1>1, <1>3, FreshContinues DEF Run
  <1>5. i \in S
    BY <1>2 DEF Run, RunsOver, Enabled
  <1>6. \A j \in DOMAIN plan[r] \ {i} : calls'[r][j] = calls[r][j]
    BY <1>1, <1>2, <1>3 DEF Row, Called
  <1> QED BY <1>3, <1>4, <1>5, <1>6

LEMMA CrashCounts ==
    ASSUME DInv, NEW r \in Requests, Crash(r)
    PROVE  DInv'
  <1>1. /\ stage'[r] = IF stage[r] \in InService THEN "lost" ELSE stage[r]
        /\ background'[r] = NoDispatch /\ IInv
        /\ UNCHANGED <<scheduler, plan, unsent, brokerVars>>
        /\ \A q \in Requests \ {r} : Undisturbed(q)
    BY DEF Crash, DInv, IInv, TypeOK, Undisturbed
  <1>2. stage[r] # "new" /\ stage'[r] \notin InService /\ stage'[r] # "new"
    BY <1>1 DEF Crash, IInv, SyncOk, InService, NoDispatch
  <1>3. IInv'
    BY <1>1, CrashInv
  <1>4. /\ \A q \in Requests \ {r} : calls'[q] = calls[q]
        /\ \A i \in DOMAIN plan[r] :
             \/ calls'[r][i] = calls[r][i]
             \/ i \notin Deliverable(r) /\ calls'[r][i] <= Attempts(plan[r][i])
    <2>1. CASE UNCHANGED history
      BY <2>1 DEF history
    <2>2. CASE sync[r].status = "calling" /\ Record(r, First(sync[r].left), FALSE)
      <3>1. /\ stage[r] = "sync" /\ Run(r, Sync(plan[r]), sync[r]) /\ sync[r] \in Dispatch
            /\ Sync(plan[r]) \in SUBSET DOMAIN plan[r] /\ Fresh(calls[r], sync[r])
        BY <1>1, <2>2, RequestFacts DEF DInv, IInv, SyncOk, FreshOk
      <3>2. \A i \in Sync(plan[r]) : i \notin Deliverable(r)
        BY DEF Deliverable, Async
      <3> QED BY <2>2, <3>1, <3>2, OwnCallCounts, ZenonT(60)
    <2>3. CASE background[r].status = "calling" /\ Record(r, First(background[r].left), FALSE)
      <3>1. /\ scheduler = "in_process" /\ Run(r, Async(plan[r]), background[r])
            /\ background[r] \in Dispatch /\ Async(plan[r]) \in SUBSET DOMAIN plan[r]
            /\ Fresh(calls[r], background[r])
        BY <1>1, <2>3, RequestFacts, BackgroundMayCall DEF DInv, IInv, FreshOk
      <3>2. \A i \in DOMAIN plan[r] : i \notin Deliverable(r)
        BY <3>1 DEF Deliverable
      <3> QED BY <2>3, <3>1, <3>2, OwnCallCounts
    <2> QED BY <2>1, <2>2, <2>3 DEF Crash, CutOff
  <1>5. CountOk(r)'
    BY <1>1, <1>2, <1>3, <1>4, RequestCountsOwn DEF NotSent, InService
  <1>6. FreshOk(r)'
    BY <1>1, <1>2 DEF FreshOk, InService, Fresh, NoDispatch
  <1> QED BY <1>1, <1>2, <1>3, <1>4, <1>5, <1>6, RequestStepCounts DEF InService

(* Publishing hands slots from what is unsent to the first copy. *)
LEMMA PublishCounts ==
    ASSUME DInv, NEW r \in Requests, Publish(r)
    PROVE  DInv'
  <1> PICK S : S = NextPart(plan[r], unsent[r])
    OBVIOUS
  <1> PICK m : m = [job |-> [req |-> r, part |-> S], copy |-> 0]
    OBVIOUS
  <1>1. /\ scheduler = "celery" /\ stage[r] = "schedule" /\ IInv
        /\ queue' = queue \cup {m}
        /\ unsent'[r] = unsent[r] \ S
        /\ stage'[r] \in {"respond", "schedule"}
        /\ UNCHANGED <<scheduler, plan, sync, background, task, restored, acked, killed, history, crashed>>
        /\ \A q \in Requests \ {r} : Undisturbed(q)
    BY DEF Publish, StillUnsent, DInv, IInv, TypeOK, Undisturbed
  <1>2. S \subseteq unsent[r] /\ S # {} /\ m.job.req = r /\ m.job.part = S /\ m.copy = 0
    BY <1>1, NextPartIsAJob
  <1>3. IInv'
    BY <1>1, PublishInv
  <1>4. Sent' = Sent \cup {m.job} /\ Busy' = Busy
    <2>1. {x.job : x \in queue'} = {x.job : x \in queue} \cup {m.job}
      BY <1>1, JobsOfMessages
    <2> QED BY <1>1, <2>1 DEF Sent, Busy
  <1>5. \A j \in Sent : j.req = r => j.part \cap unsent[r] = {}
    BY <1>1 DEF DInv, CopiesOk
  <1>6. \A w \in Busy : task[w].job # m.job
    BY <1>2, <1>5 DEF Sent
  <1>7. CopiesOk'
    <2>1. \A x \in queue' : /\ x.copy <= restored'
                            /\ \A w \in Busy' : x.job = task'[w].job => x.copy # task'[w].copy
      BY <1>1, <1>2, <1>4, <1>6, DeliveryAssumption DEF DInv, CopiesOk, IInv, TypeOK
    <2>2. \A w \in Busy' :
            /\ task'[w].copy <= restored'
            /\ \A v \in Busy' \ {w} : task'[v].job = task'[w].job => task'[v].copy # task'[w].copy
      BY <1>1, <1>4 DEF DInv, CopiesOk
    <2>3. ASSUME NEW j \in Sent', stage'[j.req] = "schedule"
          PROVE  j.part \cap unsent'[j.req] = {}
      <3>1. CASE j.req = r
        BY <1>1, <1>2, <1>4, <1>5, <3>1
      <3>2. CASE j.req # r
        <4>1. j \in Sent /\ j.req \in Requests \ {r}
          BY <1>1, <1>2, <1>4, <3>2, JobFacts
        <4> QED BY <1>1, <2>3, <4>1 DEF DInv, CopiesOk, Undisturbed
      <3> QED BY <3>1, <3>2
    <2> QED BY <2>1, <2>2, <2>3 DEF CopiesOk
  <1>8. \A q \in Requests : OpensNone(q)
    <2> SUFFICES ASSUME NEW q \in Requests, NEW i \in DOMAIN plan[q], NEW k \in Nat, NEW t \in Nat,
                        Open(q, i, k, t)'
                 PROVE  Open(q, i, k, t)
      BY DEF OpensNone
    <2>1. NotSent(q, i)' => NotSent(q, i)
      BY <1>1 DEF NotSent, Undisturbed
    <2>2. q = r /\ i \in S => NotSent(q, i)
      BY <1>1, <1>2 DEF NotSent
    <2> QED BY <1>1, <1>2, <1>4, <2>1, <2>2 DEF Open
  <1>9. calls' = calls
    BY <1>1 DEF history
  <1>10. \A q \in Requests : CountOk(q)'
    BY <1>1, <1>3, <1>8, <1>9, CountsAll DEF IInv
  <1>11. \A q \in Requests : FreshOk(q)'
    BY <1>1, <1>9 DEF FreshOk, DInv, Undisturbed
  <1> QED BY <1>3, <1>7, <1>10, <1>11 DEF DInv

LEMMA BrokerStepCounts ==
    ASSUME DInv, IInv', UNCHANGED reqVars, CopiesOk', \A q \in Requests : OpensNone(q),
           restored' \in {restored, restored + 1},
           \A q \in Requests : \A i \in DOMAIN plan[q] :
             \/ calls'[q][i] = calls[q][i]
             \/ i \in Deliverable(q) /\ calls'[q][i] <= calls[q][i] + 1 /\ ClosesOne(q, i)
    PROVE  DInv'
  <1>1. UNCHANGED <<scheduler, plan, stage, sync, background>>
    BY DEF reqVars
  <1>2. \A q \in Requests : CountOk(q)'
    BY <1>1, CountsAll DEF IInv
  <1>3. ASSUME NEW q \in Requests
        PROVE  FreshOk(q)'
    <2>1. /\ Sync(plan[q]) \in SUBSET DOMAIN plan[q] /\ Async(plan[q]) \in SUBSET DOMAIN plan[q]
          /\ Sync(plan[q]) \cap Deliverable(q) = {}
          /\ scheduler = "in_process" => Deliverable(q) = {}
      BY RequestFacts DEF Deliverable, Async, DInv, IInv
    <2>2. FreshOk(q) /\ SyncOk(q) /\ BackgroundOk(q)
      BY DEF DInv, IInv
    <2>3. stage[q] = "sync" => Fresh(calls'[q], sync[q])
      <3>1. stage[q] = "sync" => sync[q].left \subseteq Sync(plan[q])
        BY <2>2 DEF SyncOk, Run, RunsOver, Enabled
      <3> QED BY <2>1, <2>2, <3>1 DEF FreshOk, Fresh
    <2>4. scheduler = "in_process" => Fresh(calls'[q], background[q])
      <3>1. background[q].status = "calling" => background[q].left \subseteq Async(plan[q])
        BY <2>2 DEF BackgroundOk, Run, RunsOver, Enabled
      <3> QED BY <2>1, <2>2, <3>1 DEF FreshOk, Fresh
    <2>5. scheduler = "in_process" /\ stage[q] \in {"new", "sync", "schedule"} =>
            \A i \in Async(plan[q]) : calls'[q][i] = 0
      BY <2>1, <2>2 DEF FreshOk
    <2> QED BY <1>1, <2>3, <2>4, <2>5 DEF FreshOk, Async, Sync
  <1> QED BY <1>2, <1>3 DEF DInv

(* The slot of the call a worker is in belongs to it alone. *)
LEMMA SlotIsOwn ==
    ASSUME DInv, NEW w \in Workers, task[w] # NoTask
    PROVE  LET r == task[w].job.req
               k == task[w].copy
               i == First(task[w].run.left)
               t == task[w].run.tries
           IN /\ i \in Deliverable(r) /\ i \in task[w].run.left
              /\ k \in 0..restored /\ t \in 0..(Attempts(plan[r][i]) - 1)
              /\ Open(r, i, k, t)
              /\ ~NotSent(r, i)
              /\ \A m \in queue : ~(m.copy = k /\ m.job.req = r /\ i \in m.job.part)
              /\ \A v \in Busy \ {w} :
                   ~(task[v].copy = k /\ task[v].job.req = r /\ i \in task[v].run.left)
  <1> PICK r, k, i, t : /\ r = task[w].job.req /\ k = task[w].copy
                        /\ i = First(task[w].run.left) /\ t = task[w].run.tries
    OBVIOUS
  <1>1. /\ task[w].job \in Sent /\ r \in Requests /\ task[w].run \in Dispatch /\ k \in Nat
        /\ task[w].run.left # {} /\ Run(r, task[w].job.part, task[w].run)
        /\ task[w].run.status = "calling" /\ w \in Busy
    BY TaskFacts DEF DInv, Busy
  <1>2. task[w].run.left \in SUBSET Nat
    BY <1>1, ResponseAssumption DEF Dispatch
  <1>3. i \in task[w].run.left /\ i \in task[w].job.part
    BY <1>1, <1>2, FirstIsLeast DEF Run, RunsOver, Enabled
  <1>4. JobOk(task[w].job) /\ i \in Async(plan[r])
    BY <1>1, <1>3, JobFacts DEF DInv
  <1>5. i \in Deliverable(r) /\ stage[r] \notin {"new", "sync"}
    BY <1>4 DEF JobOk, Deliverable
  <1>6. Attempts(plan[r][i]) \in Nat /\ t \in Nat /\ t < Attempts(plan[r][i])
    BY <1>1, <1>4, RequestFacts, AttemptsAreBounded DEF DInv, IInv, Run, RunsOver, Dispatch, Async
  <1>7. k \in 0..restored
    BY <1>1, DeliveryAssumption DEF DInv, CopiesOk, IInv, TypeOK
  <1>8. Open(r, i, k, t)
    <2>1. /\ task[w].copy = k /\ task[w].job.req = r /\ i \in task[w].run.left
          /\ i = First(task[w].run.left) => t >= task[w].run.tries
      BY <1>1, <1>3, <1>6
    <2>2. \E v \in Busy : /\ task[v].copy = k /\ task[v].job.req = r /\ i \in task[v].run.left
                          /\ i = First(task[v].run.left) => t >= task[v].run.tries
      BY <1>1, <2>1
    <2> QED BY <2>2 DEF Open
  <1>9. ~NotSent(r, i)
    BY <1>1, <1>3, <1>5 DEF NotSent, DInv, CopiesOk
  <1>10. ASSUME NEW m \in queue, m.copy = k, m.job.req = r, i \in m.job.part
         PROVE  FALSE
    <2>1. m.job \in Sent
      BY DEF Sent
    <2>2. m.job = task[w].job
      BY <1>1, <1>3, <1>10, <2>1, PartsAreDisjoint DEF DInv
    <2> QED BY <1>1, <1>10, <2>2 DEF DInv, CopiesOk
  <1>11. ASSUME NEW v \in Busy \ {w}, task[v].copy = k, task[v].job.req = r, i \in task[v].run.left
         PROVE  FALSE
    <2>1. task[v].job \in Sent /\ i \in task[v].job.part
      BY <1>11, TaskFacts DEF DInv, Busy, Run, RunsOver, Enabled
    <2>2. task[v].job = task[w].job
      BY <1>1, <1>3, <1>11, <2>1, PartsAreDisjoint DEF DInv
    <2> QED BY <1>1, <1>11, <2>2 DEF DInv, CopiesOk
  <1>12. t \in 0..(Attempts(plan[r][i]) - 1)
    BY <1>6
  <1> QED BY <1>3, <1>5, <1>7, <1>8, <1>9, <1>10, <1>11, <1>12

(* Tasks stay the copies they are, whoever ends. *)
SameCopies ==
    \A v \in Busy' : v \in Busy /\ task'[v].job = task[v].job /\ task'[v].copy = task[v].copy

LEMMA CopiesStay ==
    ASSUME DInv, UNCHANGED reqVars, Sent' = Sent, SameCopies,
           \/ queue' = queue /\ restored' = restored
           \/ \E w \in Workers : Restore(w)
    PROVE  CopiesOk'
  <1>1. restored \in Nat /\ restored' \in Nat /\ restored <= restored'
    BY DeliveryAssumption DEF DInv, IInv, TypeOK, Restore
  <1>2. \A m \in queue' : \/ m \in queue
                          \/ restored' = restored + 1 /\ m.copy = restored'
    BY DEF Restore
  <1>3. /\ \A m \in queue : m.copy \in Nat /\ m.copy <= restored
        /\ \A v \in Busy : task[v].copy \in Nat /\ task[v].copy <= restored
    BY TaskFacts DEF DInv, IInv, TypeOK, CopiesOk, Message, Busy
  <1>4. \A m \in queue' : /\ m.copy <= restored'
                          /\ \A w \in Busy' : m.job = task'[w].job => m.copy # task'[w].copy
    BY <1>1, <1>2, <1>3 DEF DInv, CopiesOk, SameCopies
  <1>5. \A w \in Busy' :
          /\ task'[w].copy <= restored'
          /\ \A v \in Busy' \ {w} : task'[v].job = task'[w].job => task'[v].copy # task'[w].copy
    BY <1>1, <1>3 DEF DInv, CopiesOk, SameCopies
  <1>6. \A j \in Sent' : stage'[j.req] = "schedule" => j.part \cap unsent'[j.req] = {}
    BY DEF DInv, CopiesOk, reqVars
  <1> QED BY <1>4, <1>5, <1>6 DEF CopiesOk

(* Workers that go on have less to do than before. *)
LessLeft ==
    \A v \in Busy' :
        /\ v \in Busy /\ task'[v].run.left \subseteq task[v].run.left
        /\ First(task[v].run.left) \in task'[v].run.left =>
             /\ First(task'[v].run.left) = First(task[v].run.left)
             /\ task'[v].run.tries \in Nat /\ task'[v].run.tries >= task[v].run.tries

QueueGrows ==
    \/ queue' = queue /\ restored' = restored
    \/ \E w \in Workers : Restore(w)

LEMMA QueueGrowsBy ==
    ASSUME DInv, QueueGrows
    PROVE  /\ restored' \in {restored, restored + 1} /\ restored \in Nat
           /\ \A m \in queue' : m \in queue \/ (restored' = restored + 1 /\ m.copy = restored + 1)
  BY DeliveryAssumption DEF QueueGrows, Restore, DInv, IInv, TypeOK

LEMMA WorkersOpenNone ==
    ASSUME DInv, UNCHANGED reqVars, SameCopies, LessLeft, QueueGrows
    PROVE  \A q \in Requests : OpensNone(q)
  <1> SUFFICES ASSUME NEW q \in Requests, NEW i \in DOMAIN plan[q], NEW k \in Nat, NEW t \in Nat,
                      Open(q, i, k, t)'
               PROVE  Open(q, i, k, t) \/ (restored' = restored + 1 /\ k = restored + 1)
    BY DEF OpensNone
  <1>1. CASE k = 0 /\ NotSent(q, i)'
    BY <1>1 DEF Open, NotSent, reqVars
  <1>2. CASE \E m \in queue' : m.copy = k /\ m.job.req = q /\ i \in m.job.part
    BY <1>2, QueueGrowsBy DEF Open
  <1>3. ASSUME NEW w \in Busy', task'[w].copy = k, task'[w].job.req = q, i \in task'[w].run.left,
               i = First(task'[w].run.left) => t >= task'[w].run.tries
        PROVE  Open(q, i, k, t)
    <2>1. /\ w \in Busy /\ task[w].copy = k /\ task[w].job.req = q /\ i \in task[w].run.left
          /\ task[w].run.tries \in Nat
      BY <1>3, TaskFacts DEF SameCopies, LessLeft, Busy, DInv, Dispatch
    <2>2. i = First(task[w].run.left) => t >= task[w].run.tries
      BY <1>3, <2>1 DEF LessLeft
    <2> QED BY <2>1, <2>2 DEF Open
  <1> QED BY <1>1, <1>2, <1>3 DEF Open

LEMMA WorkerClosesOne ==
    ASSUME DInv, NEW w \in Workers, task[w] # NoTask, UNCHANGED reqVars, SameCopies, LessLeft,
           QueueGrows,
           w \in Busy' /\ First(task[w].run.left) \in task'[w].run.left =>
             task'[w].run.tries = task[w].run.tries + 1,
           NEW r, r = task[w].job.req, NEW i, i = First(task[w].run.left)
    PROVE  ClosesOne(r, i)
  <1> PICK k, t : k = task[w].copy /\ t = task[w].run.tries
    OBVIOUS
  <1>1. /\ k \in 0..restored /\ t \in 0..(Attempts(plan[r][i]) - 1)
        /\ Open(r, i, k, t) /\ ~NotSent(r, i)
        /\ \A m \in queue : ~(m.copy = k /\ m.job.req = r /\ i \in m.job.part)
        /\ \A v \in Busy \ {w} :
             ~(task[v].copy = k /\ task[v].job.req = r /\ i \in task[v].run.left)
    BY SlotIsOwn
  <1>2. t \in Nat /\ i \in task[w].run.left
    BY TaskFacts, SlotIsOwn DEF DInv, Dispatch
  <1>3. ~NotSent(r, i)'
    BY <1>1 DEF NotSent, reqVars
  <1>4. \A m \in queue' : ~(m.copy = k /\ m.job.req = r /\ i \in m.job.part)
    BY <1>1, QueueGrowsBy
  <1>5. ASSUME NEW v \in Busy', task'[v].copy = k, task'[v].job.req = r, i \in task'[v].run.left,
               i = First(task'[v].run.left) => t >= task'[v].run.tries
        PROVE  FALSE
    <2>1. CASE v # w
      BY <1>1, <1>5, <2>1 DEF SameCopies, LessLeft
    <2>2. CASE v = w
      <3>1. First(task'[w].run.left) = i /\ task'[w].run.tries = t + 1
        BY <1>5, <2>2 DEF LessLeft
      <3> QED BY <1>2, <1>5, <2>2, <3>1
    <2> QED BY <2>1, <2>2
  <1>6. ~Open(r, i, k, t)'
    BY <1>3, <1>4, <1>5 DEF Open
  <1> QED BY <1>1, <1>6 DEF ClosesOne

(* A call is one more for its effect, and none for any other. *)
LEMMA WorkerCallsOne ==
    ASSUME DInv, NEW w \in Workers, task[w] # NoTask, NEW ok \in BOOLEAN,
           NEW r, r = task[w].job.req, NEW i, i = First(task[w].run.left),
           Record(r, i, ok), ClosesOne(r, i)
    PROVE  \A q \in Requests : \A j \in DOMAIN plan[q] :
             \/ calls'[q][j] = calls[q][j]
             \/ j \in Deliverable(q) /\ calls'[q][j] <= calls[q][j] + 1 /\ ClosesOne(q, j)
  <1>1. /\ r \in Requests /\ i \in Deliverable(r) /\ i \in Positions /\ calls[r] \in Row
        /\ DOMAIN plan[r] \subseteq Positions
    BY TaskFacts, SlotIsOwn, RequestFacts DEF DInv, IInv, Deliverable, Async
  <1>2. /\ calls'[r] = Called(calls[r], i)
        /\ \A q \in Requests \ {r} : calls'[q] = calls[q]
    BY <1>1, Recorded DEF DInv, IInv
  <1>3. \A j \in Positions \ {i} : calls'[r][j] = calls[r][j]
    BY <1>1, <1>2 DEF Row, Called
  <1>4. calls'[r][i] <= calls[r][i] + 1
    <2> PICK n : n = calls[r]
      OBVIOUS
    <2>1. n \in [Positions -> 0..MaxCount] /\ MaxCount \in Nat /\ n[i] \in 0..MaxCount
      BY <1>1, DeliveryAssumption DEF Row
    <2>2. Called(n, i)[i] <= n[i] + 1
      <3>1. Called(n, i)[i] = OneMore(n[i])
        BY <1>1, <2>1 DEF Called
      <3>2. \A m \in 0..MaxCount : OneMore(m) <= m + 1
        BY DeliveryAssumption DEF OneMore
      <3> QED BY <2>1, <3>1, <3>2
    <2> QED BY <1>2, <2>2, SMTT(30)
  <1> QED BY <1>1, <1>2, <1>3, <1>4

LEMMA TakeCounts ==
    ASSUME DInv, NEW w \in Workers, Take(w)
    PROVE  DInv'
  <1>1. PICK m \in queue :
          /\ queue' = queue \ {m}
          /\ Hold(w, [job |-> m.job, copy |-> m.copy, run |-> Begin(plan[m.job.req], m.job.part)])
    BY DEF Take
  <1> PICK d : d = Begin(plan[m.job.req], m.job.part)
    OBVIOUS
  <1> PICK t : t = [job |-> m.job, copy |-> m.copy, run |-> d]
    OBVIOUS
  <1>2. /\ task[w] = NoTask /\ IInv /\ UNCHANGED <<reqVars, restored, killed, history, crashed>>
        /\ w \notin Busy
    BY DEF Take, DInv, Busy
  <1>3. /\ m.copy \in Nat /\ m \in Message /\ d \in Dispatch
        /\ d.left \subseteq m.job.part
        /\ \A i \in d.left : d.tries = 0
    BY <1>2, TakenRuns DEF IInv, TypeOK, Run, RunsOver, Enabled, Begin, Proceed
  <1>4. /\ \A v \in Workers \ {w} : task'[v] = task[v]
        /\ task'[w] \in {t, NoTask}
    BY <1>1 DEF Hold, IInv, TypeOK, DInv
  <1>5. \A v \in Busy' : \/ v = w /\ task'[v] = t
                         \/ v # w /\ v \in Busy /\ task'[v] = task[v]
    BY <1>4 DEF Busy
  <1>6. IInv' /\ Sent' = Sent
    BY <1>2, TakeInv DEF FinishesOne
  <1>7. CopiesOk'
    <2>1. \A x \in queue' : x \in queue /\ x # m
      BY <1>1
    <2>2. ASSUME NEW x \in queue', x.job = m.job, x.copy = m.copy
          PROVE  FALSE
      BY <1>3, <2>1, <2>2, SMTT(30) DEF IInv, TypeOK, DInv, Message
    <2>3. \A x \in queue' : /\ x.copy <= restored'
                            /\ \A v \in Busy' : x.job = task'[v].job => x.copy # task'[v].copy
      BY <1>2, <1>5, <2>1, <2>2 DEF DInv, CopiesOk
    <2>4. \A v \in Busy' :
            /\ task'[v].copy <= restored'
            /\ \A u \in Busy' \ {v} : task'[u].job = task'[v].job => task'[u].copy # task'[v].copy
      BY <1>2, <1>5 DEF DInv, CopiesOk
    <2> QED BY <1>2, <1>6, <2>3, <2>4 DEF DInv, CopiesOk, reqVars
  <1>8. \A q \in Requests : OpensNone(q)
    <2> SUFFICES ASSUME NEW q \in Requests, NEW i \in DOMAIN plan[q], NEW k \in Nat, NEW y \in Nat,
                        Open(q, i, k, y)'
                 PROVE  Open(q, i, k, y)
      BY DEF OpensNone
    <2>1. NotSent(q, i)' => NotSent(q, i)
      BY <1>2 DEF NotSent, reqVars
    <2> QED BY <1>1, <1>3, <1>5, <2>1 DEF Open
  <1>9. calls' = calls /\ restored' = restored
    BY <1>2 DEF history
  <1> QED BY <1>2, <1>6, <1>7, <1>8, <1>9, BrokerStepCounts

LEMMA WorkerCallCounts ==
    ASSUME DInv, NEW w \in Workers, WorkerCall(w)
    PROVE  DInv'
  <1> PICK r, i : r = task[w].job.req /\ i = First(task[w].run.left)
    OBVIOUS
  <1>1. task[w] # NoTask /\ UNCHANGED <<reqVars, queue, restored, killed, crashed>> /\ IInv
    BY DEF WorkerCall, DInv
  <1>2. PICK ok \in BOOLEAN : /\ Record(r, i, ok)
                              /\ Hold(w, [task[w] EXCEPT !.run = AfterCall(plan[r], @, ok)])
    BY DEF WorkerCall
  <1> PICK d : d = AfterCall(plan[r], task[w].run, ok)
    OBVIOUS
  <1> PICK t : t = [job |-> task[w].job, copy |-> task[w].copy, run |-> d]
    OBVIOUS
  <1>3. Hold(w, t) /\ d \in Dispatch
    BY <1>1, <1>2, WorkerCallRuns
  <1>4. /\ \A v \in Workers \ {w} : task'[v] = task[v]
        /\ task'[w] = IF d.status = "calling" THEN t ELSE NoTask
    BY <1>3 DEF Hold, IInv, TypeOK, DInv
  <1>5. \A v \in Busy' : \/ v = w /\ w \in Busy /\ task'[v] = t /\ d.status = "calling"
                         \/ v # w /\ v \in Busy /\ task'[v] = task[v]
    BY <1>1, <1>4 DEF Busy
  <1>6. d.status = "calling" =>
          /\ d.left \subseteq task[w].run.left
          /\ i \in d.left => First(d.left) = i /\ d.tries = task[w].run.tries + 1
    <2>1. /\ Plan(plan[r]) /\ task[w].job.part \in SUBSET DOMAIN plan[r] /\ task[w].run \in Dispatch
          /\ Run(r, task[w].job.part, task[w].run) /\ task[w].run.status = "calling"
      BY <1>1, TaskFacts, RequestFacts DEF IInv
    <2> PICK e, p, S, n, s : /\ e = task[w].run /\ p = plan[r] /\ S = task[w].job.part
                             /\ n = calls[r] /\ s = succeeded[r]
      OBVIOUS
    <2>2. RunsOver(p, n, s, S, e) /\ d = AfterCall(p, e, ok) /\ i = First(e.left)
      BY <2>1 DEF Run
    <2>3. e \in Dispatch /\ e.left # {}
      BY <2>1, <2>2 DEF RunsOver
    <2>4. d.status = "calling" => /\ d.left \subseteq e.left
                                  /\ First(e.left) \in d.left =>
                                       First(d.left) = First(e.left) /\ d.tries = e.tries + 1
      <3>1. SUFFICES ASSUME d.status = "calling"
                     PROVE  /\ d.left \subseteq e.left
                            /\ First(e.left) \in d.left =>
                                 First(d.left) = First(e.left) /\ d.tries = e.tries + 1
        OBVIOUS
      <3>2. AfterCall(p, e, ok).status = "calling"
        BY <2>2, <3>1
      <3>3. /\ AfterCall(p, e, ok).left \subseteq e.left
            /\ First(e.left) \in AfterCall(p, e, ok).left =>
                 /\ First(AfterCall(p, e, ok).left) = First(e.left)
                 /\ AfterCall(p, e, ok).tries = e.tries + 1
        BY <2>3, <3>2, CallShrinks
      <3> QED BY <2>2, <3>3
    <2> QED BY <2>2, <2>4
  <1>7. SameCopies
    BY <1>5 DEF SameCopies
  <1>8. \A v \in Busy : task[v].run.tries \in Nat
    BY TaskFacts DEF DInv, Busy, Dispatch
  <1>9. LessLeft
    <2>1. ASSUME NEW v \in Busy'
          PROVE  /\ v \in Busy /\ task'[v].run.left \subseteq task[v].run.left
                 /\ First(task[v].run.left) \in task'[v].run.left =>
                      /\ First(task'[v].run.left) = First(task[v].run.left)
                      /\ task'[v].run.tries \in Nat /\ task'[v].run.tries >= task[v].run.tries
      <3>1. CASE v = w
        <4>1. w \in Busy /\ task'[w] = t /\ d.status = "calling"
          BY <1>5, <3>1
        <4>2. task'[w].run = d
          BY <4>1
        <4>3. d.tries \in Nat /\ task[w].run.tries \in Nat
          BY <1>3, <1>8, <4>1 DEF Dispatch
        <4>4. PICK e : e = task[w].run
          OBVIOUS
        <4>5. /\ d.left \subseteq e.left
              /\ First(e.left) \in d.left =>
                   First(d.left) = First(e.left) /\ d.tries \in Nat /\ d.tries >= e.tries
          <5>1. e.tries \in Nat /\ (d.tries = e.tries + 1 => d.tries >= e.tries)
            BY <4>3, <4>4
          <5> QED BY <1>6, <4>1, <4>3, <4>4, <5>1
        <4>6. /\ w \in Busy /\ task'[w].run.left \subseteq task[w].run.left
              /\ First(task[w].run.left) \in task'[w].run.left =>
                   /\ First(task'[w].run.left) = First(task[w].run.left)
                   /\ task'[w].run.tries \in Nat /\ task'[w].run.tries >= task[w].run.tries
          BY <4>1, <4>2, <4>4, <4>5
        <4> QED BY <3>1, <4>6
      <3>2. CASE v # w
        BY <1>5, <1>8, <3>2
      <3> QED BY <3>1, <3>2
    <2> QED BY <2>1 DEF LessLeft
  <1>10. QueueGrows
    BY <1>1 DEF QueueGrows
  <1>11. ClosesOne(r, i)
    <2>1. w \in Busy' /\ First(task[w].run.left) \in task'[w].run.left =>
            task'[w].run.tries = task[w].run.tries + 1
      BY <1>5, <1>6, SMTT(30)
    <2>2. task[w] # NoTask /\ UNCHANGED reqVars
      BY <1>1
    <2> QED BY <1>7, <1>9, <1>10, <2>1, <2>2, WorkerClosesOne
  <1>12. \A q \in Requests : \A j \in DOMAIN plan[q] :
           \/ calls'[q][j] = calls[q][j]
           \/ j \in Deliverable(q) /\ calls'[q][j] <= calls[q][j] + 1 /\ ClosesOne(q, j)
    BY <1>1, <1>2, <1>11, WorkerCallsOne
  <1>13. IInv' /\ Sent' = Sent
    BY <1>1, WorkerCallInv DEF FinishesOne
  <1>14. CopiesOk'
    BY <1>1, <1>7, <1>13, CopiesStay
  <1>15. \A q \in Requests : OpensNone(q)
    BY <1>1, <1>7, <1>9, <1>10, WorkersOpenNone
  <1> QED BY <1>1, <1>12, <1>13, <1>14, <1>15, BrokerStepCounts

(* A worker lets go of its task in the middle of a call. *)
LEMMA LetGoCounts ==
    ASSUME DInv, IInv', NEW w \in Workers, task[w] # NoTask,
           CutOff(task[w].job.req, task[w].run), task' = [task EXCEPT ![w] = NoTask],
           UNCHANGED reqVars, Sent' = Sent, QueueGrows
    PROVE  DInv'
  <1> PICK r, i : r = task[w].job.req /\ i = First(task[w].run.left)
    OBVIOUS
  <1>1. \A v \in Busy' : v # w /\ v \in Busy /\ task'[v] = task[v]
    BY DEF Busy, DInv, IInv, TypeOK
  <1>2. \A v \in Busy : task[v].run.tries \in Nat
    BY TaskFacts DEF DInv, Busy, Dispatch
  <1>3. SameCopies /\ LessLeft /\ w \notin Busy'
    BY <1>1, <1>2 DEF SameCopies, LessLeft
  <1>4. ClosesOne(r, i)
    BY <1>3, WorkerClosesOne
  <1>5. UNCHANGED history \/ Record(r, i, FALSE)
    BY DEF CutOff
  <1>6. \A q \in Requests : \A j \in DOMAIN plan[q] :
          \/ calls'[q][j] = calls[q][j]
          \/ j \in Deliverable(q) /\ calls'[q][j] <= calls[q][j] + 1 /\ ClosesOne(q, j)
    BY <1>4, <1>5, WorkerCallsOne DEF history
  <1>7. CopiesOk'
    BY <1>3, CopiesStay DEF QueueGrows
  <1>8. \A q \in Requests : OpensNone(q)
    BY <1>3, WorkersOpenNone
  <1> QED BY <1>6, <1>7, <1>8, QueueGrowsBy, BrokerStepCounts

LEMMA WorkerLostCounts ==
    ASSUME DInv, NEW w \in Workers, WorkerLost(w)
    PROVE  DInv'
  <1>1. IInv' /\ Sent' = Sent
    BY WorkerLostInv DEF DInv, FinishesOne
  <1> QED BY <1>1, LetGoCounts DEF WorkerLost, QueueGrows

LEMMA TimeLimitCounts ==
    ASSUME DInv, NEW w \in Workers, TimeLimit(w)
    PROVE  DInv'
  <1>1. IInv' /\ Sent' = Sent
    BY TimeLimitInv DEF DInv, FinishesOne
  <1> QED BY <1>1, LetGoCounts DEF TimeLimit, QueueGrows

LEMMA VisibilityTimeoutCounts ==
    ASSUME DInv, NEW w \in Workers, VisibilityTimeout(w)
    PROVE  DInv'
  <1>1. IInv' /\ Sent' = Sent
    BY VisibilityTimeoutInv DEF DInv, FinishesOne
  <1>2. /\ UNCHANGED reqVars /\ task' = task /\ calls' = calls /\ Restore(w) /\ Busy' = Busy
    BY DEF VisibilityTimeout, history, Busy
  <1>3. \A v \in Busy : task[v].run.tries \in Nat
    BY TaskFacts DEF DInv, Busy, Dispatch
  <1>4. SameCopies /\ LessLeft /\ QueueGrows
    BY <1>2, <1>3 DEF SameCopies, LessLeft, QueueGrows
  <1>5. CopiesOk'
    BY <1>1, <1>2, <1>4, CopiesStay
  <1>6. \A q \in Requests : OpensNone(q)
    BY <1>2, <1>4, WorkersOpenNone
  <1> QED BY <1>1, <1>2, <1>4, <1>5, <1>6, QueueGrowsBy, BrokerStepCounts

LEMMA StutterCounts ==
    ASSUME DInv, UNCHANGED vars
    PROVE  DInv'
  <1>1. UNCHANGED reqVars /\ task' = task /\ calls' = calls /\ Busy' = Busy /\ QueueGrows
    BY DEF vars, brokerVars, history, Busy, QueueGrows
  <1>2. IInv' /\ Sent' = Sent
    BY <1>1, StutterInv DEF DInv, vars, brokerVars, Sent
  <1>3. \A v \in Busy : task[v].run.tries \in Nat
    BY TaskFacts DEF DInv, Busy, Dispatch
  <1>4. SameCopies /\ LessLeft
    BY <1>1, <1>3 DEF SameCopies, LessLeft
  <1>5. CopiesOk'
    BY <1>1, <1>2, <1>4, CopiesStay DEF QueueGrows
  <1> QED BY <1>1, <1>2, <1>4, <1>5, QueueGrowsBy, WorkersOpenNone, BrokerStepCounts

LEMMA InitCounts == Init => DInv
  <1> SUFFICES ASSUME Init PROVE DInv
    OBVIOUS
  <1>1. IInv /\ Sent = {} /\ Busy = {} /\ queue = {}
    BY InitInv DEF Init, Sent, Busy
  <1>2. \A r \in Requests : DOMAIN plan[r] = {}
    BY DEF Init, NoEffects
  <1>3. \A r \in Requests : CountOk(r)
    BY <1>2 DEF CountOk
  <1>4. \A r \in Requests : FreshOk(r)
    BY <1>2 DEF FreshOk, Init, Fresh, NoDispatch, Async
  <1> QED BY <1>1, <1>3, <1>4 DEF DInv, CopiesOk

LEMMA NextCounts ==
    ASSUME DInv, [Next]_vars
    PROVE  DInv'
  <1>1. ASSUME NEW r \in Requests, Serve(r) PROVE DInv'
    BY <1>1, SyncCallCounts, StartBackgroundCounts, BackgroundCallCounts, PublishCounts,
       AnswerCounts DEF Serve
  <1>2. ASSUME NEW r \in Requests, Execute(r) \/ PublishFails(r) \/ Crash(r) PROVE DInv'
    BY <1>2, ExecuteCounts, AnswerCounts, CrashCounts
  <1>3. ASSUME NEW w \in Workers,
               Work(w) \/ WorkerLost(w) \/ VisibilityTimeout(w) \/ TimeLimit(w)
        PROVE DInv'
    BY <1>3, TakeCounts, WorkerCallCounts, WorkerLostCounts, VisibilityTimeoutCounts,
       TimeLimitCounts DEF Work
  <1>4. ASSUME UNCHANGED vars PROVE DInv'
    BY <1>4, StutterCounts
  <1> QED BY <1>1, <1>2, <1>3, <1>4 DEF Next

(* A provider is called once for an effect, or as often as its retries say,
   for each time its message was delivered; sync effects, and those of the
   in-process scheduler, are never repeated (side_effect_dispatcher_service.py:
   209-268, tasks/side_effects.py:26-32). *)
THEOREM CallsAreBounded == Spec => []NoDuplicates
  <1>1. DInv => NoDuplicates
    <2> SUFFICES ASSUME DInv, NEW r \in Requests, NEW i \in DOMAIN plan[r]
                 PROVE  calls[r][i] <= Attempts(plan[r][i]) * (1 + (IF plan[r][i].mode = "sync" THEN 0 ELSE restored))
      BY DEF NoDuplicates
    <2> DEFINE a == Attempts(plan[r][i])
    <2>1. /\ a \in Nat \ {0} /\ restored \in Nat /\ calls[r][i] \in Nat
      BY RequestFacts, AttemptsAreBounded, DeliveryAssumption DEF DInv, IInv, TypeOK
    <2>2. CASE i \in Deliverable(r)
      <3>1. calls[r][i] + Cardinality(Slots(r, i)) <= a * (1 + restored)
        BY <2>2 DEF DInv, CountOk
      <3>2. Cardinality(Slots(r, i)) \in Nat
        BY SlotsAreFinite, FS_CardinalityType DEF DInv
      <3>3. plan[r][i].mode # "sync"
        BY <2>2 DEF Deliverable, Async, Sync
      <3>4. a * (1 + restored) \in Nat
        BY <2>1
      <3> HIDE DEF a
      <3> QED BY <2>1, <3>1, <3>2, <3>3, <3>4 DEF a
    <2>3. CASE i \notin Deliverable(r)
      <3>1. calls[r][i] <= a
        BY <2>3 DEF DInv, CountOk
      <3> HIDE DEF a
      <3>2. a <= a * (1 + restored) /\ a = a * (1 + 0) /\ a * (1 + restored) \in Nat
        BY <2>1
      <3> QED BY <2>1, <3>1, <3>2 DEF a
    <2> QED BY <2>2, <2>3
  <1> QED BY <1>1, InitCounts, NextCounts, PTL DEF Spec

-----------------------------------------------------------------------------
(* No call after a success.  An effect may be called while somebody has it
   still to do: its request, the broker or a worker.  Nobody gets it back but
   by another delivery, so that who calls it for the first delivery is the
   only one who may, and until it succeeds.                                *)

MayCall(r, i) ==
    \/ stage[r] = "new"
    \/ stage[r] = "sync" /\ (i \in sync[r].left \/ i \in Async(plan[r]))
    \/ stage[r] = "schedule" /\ i \in unsent[r]
    \/ background[r].status = "calling" /\ i \in background[r].left
    \/ \E m \in queue : m.job.req = r /\ i \in m.job.part
    \/ \E w \in Busy : task[w].job.req = r /\ i \in task[w].run.left

Again(r, i) == restored > 0 /\ i \in Async(plan[r])

NotTwice ==
    \A r \in Requests : \A i \in Positions :
        MayCall(r, i) /\ i \in succeeded[r] => Again(r, i)

(* Nobody holds a job that was acknowledged, unless it was delivered again. *)
AckedApart ==
    restored = 0 => \A j \in acked : /\ \A m \in queue : m.job # j
                                     /\ \A w \in Busy : task[w].job # j

CauseOk(r) == stage[r] = "error" => Cause(r)
AckedOk(j) ==
    \A i \in Enabled(plan[j.req], j.part) :
        Settled(j.req, i) \/ \E k \in j.part : k <= i /\ GivenUp(j.req, k)

GInv ==
    /\ DInv /\ NotTwice /\ AckedApart
    /\ \A r \in Requests : CauseOk(r)
    /\ \A j \in acked : AckedOk(j)

LEMMA AgainIsRedelivered ==
    ASSUME TypeOK, NEW r \in Requests, NEW i \in DOMAIN plan[r]
    PROVE  Again(r, i) => Redelivered(r, i)
  BY RequestFacts DEF Again, Redelivered, Async, Sync, Plan, Effect

(* What is left after a call was left before, without a success. *)
LEMMA CallsFollow ==
    ASSUME NEW p, NEW d \in Dispatch, NEW ok \in BOOLEAN
    PROVE  /\ AfterCall(p, d, ok).left \subseteq d.left
           /\ ok => First(d.left) \notin AfterCall(p, d, ok).left
  <1> PICK e : e = AfterCall(p, d, ok)
    OBVIOUS
  <1>1. CASE e = Proceed(p, d.left \ {First(d.left)})
    BY <1>1 DEF Proceed
  <1>2. CASE ~ok /\ e = [d EXCEPT !.status = "failed"]
    BY <1>2 DEF Dispatch
  <1>3. CASE ~ok /\ e = [d EXCEPT !.tries = @ + 1]
    BY <1>3 DEF Dispatch
  <1> QED BY <1>1, <1>2, <1>3 DEF AfterCall

LEMMA RestoredGrows ==
    ASSUME IInv, [Next]_vars
    PROVE  /\ restored \in Nat /\ restored' \in {restored, restored + 1}
           /\ scheduler' = scheduler
  <1>1. restored \in Nat
    BY DeliveryAssumption DEF IInv, TypeOK
  <1>2. ASSUME NEW r \in Requests,
               \/ Execute(r) \/ Serve(r) \/ PublishFails(r) \/ Crash(r)
        PROVE  restored' = restored /\ scheduler' = scheduler
    BY <1>2 DEF Serve, Execute, SyncCall, StartBackground, BackgroundCall, Publish, Respond,
       PublishFails, Crash, brokerVars
  <1>3. ASSUME NEW w \in Workers,
               \/ Work(w) \/ WorkerLost(w) \/ VisibilityTimeout(w) \/ TimeLimit(w)
        PROVE  restored' \in {restored, restored + 1} /\ scheduler' = scheduler
    BY <1>3 DEF Work, Take, WorkerCall, WorkerLost, VisibilityTimeout, TimeLimit, Restore, reqVars
  <1>4. ASSUME UNCHANGED vars PROVE restored' = restored /\ scheduler' = scheduler
    BY <1>4 DEF vars, reqVars, brokerVars
  <1> QED BY <1>1, <1>2, <1>3, <1>4 DEF Next

-----------------------------------------------------------------------------
(* Nobody gets an effect back.                                             *)

(* What a step of a request leaves to the broker, and to other requests. *)
LEMMA RequestNarrows ==
    ASSUME NEW r \in Requests, UNCHANGED <<queue, task>>,
           \A q \in Requests \ {r} : Undisturbed(q) /\ plan'[q] = plan[q],
           NEW i \in Positions, ~MayCall(r, i) =>
             ~ \/ stage'[r] = "new"
               \/ stage'[r] = "sync" /\ (i \in sync'[r].left \/ i \in Async(plan'[r]))
               \/ stage'[r] = "schedule" /\ i \in unsent'[r]
               \/ background'[r].status = "calling" /\ i \in background'[r].left
    PROVE  \A q \in Requests : MayCall(q, i)' => MayCall(q, i)
  <1>1. Busy' = Busy
    BY DEF Busy
  <1>2. ASSUME NEW q \in Requests \ {r} PROVE MayCall(q, i)' => MayCall(q, i)
    BY <1>1, <1>2 DEF MayCall, Undisturbed
  <1>3. MayCall(r, i)' => MayCall(r, i)
    BY <1>1 DEF MayCall
  <1> QED BY <1>2, <1>3

LEMMA SettlesNarrow ==
    ASSUME IInv, NEW r \in Requests, NEW d \in Dispatch, NEW i \in Positions,
           stage[r] \in {"new", "sync"}, stage[r] = "sync" => plan'[r] = plan[r],
           stage[r] = "sync" => d.left \subseteq sync[r].left,
           background' = background, Settle(r, plan'[r], d), ~MayCall(r, i)
    PROVE  ~ \/ stage'[r] = "new"
             \/ stage'[r] = "sync" /\ (i \in sync'[r].left \/ i \in Async(plan'[r]))
             \/ stage'[r] = "schedule" /\ i \in unsent'[r]
             \/ background'[r].status = "calling" /\ i \in background'[r].left
  <1>1. /\ sync'[r] = d
        /\ stage'[r] \in {"sync", "error", "respond", "schedule"}
        /\ unsent'[r] \in {Async(plan'[r]), {}}
    BY DEF Settle, IInv, TypeOK
  <1> QED BY <1>1 DEF MayCall

LEMMA RequestsNarrow ==
    ASSUME IInv, NEW r \in Requests, NEW i \in Positions,
           \/ Execute(r) \/ SyncCall(r) \/ StartBackground(r) \/ BackgroundCall(r)
           \/ PublishFails(r) \/ Respond(r) \/ Crash(r)
    PROVE  \A q \in Requests : MayCall(q, i)' => MayCall(q, i)
  <1>1. CASE Execute(r)
    <2>1. PICK p \in Responses : plan' = [plan EXCEPT ![r] = p] /\ Settle(r, p, Begin(p, Sync(p)))
      BY <1>1 DEF Execute
    <2>2. /\ stage[r] = "new" /\ UNCHANGED <<queue, task>> /\ background' = background
          /\ \A q \in Requests \ {r} : Undisturbed(q) /\ plan'[q] = plan[q]
      BY <1>1, <2>1 DEF Execute, Settle, Undisturbed, IInv, TypeOK, brokerVars
    <2>3. MayCall(r, i)
      BY <2>2 DEF MayCall
    <2> QED BY <2>2, <2>3, RequestNarrows
  <1>2. CASE SyncCall(r)
    <2>1. PICK ok \in BOOLEAN : /\ Record(r, First(sync[r].left), ok)
                                /\ Settle(r, plan[r], AfterCall(plan[r], sync[r], ok))
      BY <1>2 DEF SyncCall
    <2>2. /\ stage[r] = "sync" /\ UNCHANGED <<queue, task>> /\ background' = background
          /\ plan' = plan /\ \A q \in Requests \ {r} : Undisturbed(q)
      BY <1>2, <2>1 DEF SyncCall, Settle, Undisturbed, IInv, TypeOK, brokerVars
    <2> PICK d : d = AfterCall(plan[r], sync[r], ok)
      OBVIOUS
    <2>3. d \in Dispatch /\ d.left \subseteq sync[r].left /\ Settle(r, plan'[r], d)
      BY <2>1, <2>2, SyncCallRuns, CallsFollow, RequestFacts DEF IInv
    <2> QED BY <2>2, <2>3, SettlesNarrow, RequestNarrows
  <1>3. CASE StartBackground(r)
    <2>1. /\ stage[r] = "schedule" /\ stage'[r] = "respond" /\ UNCHANGED <<queue, task, plan>>
          /\ background'[r].left = Enabled(plan[r], unsent[r])
          /\ \A q \in Requests \ {r} : Undisturbed(q)
      BY <1>3 DEF StartBackground, Begin, Proceed, Undisturbed, IInv, TypeOK, brokerVars
    <2>2. i \in background'[r].left => MayCall(r, i)
      BY <2>1 DEF Enabled, MayCall
    <2> QED BY <2>1, <2>2, RequestNarrows
  <1>4. CASE BackgroundCall(r)
    <2>1. PICK ok \in BOOLEAN : background' = [background EXCEPT ![r] = AfterCall(plan[r], @, ok)]
      BY <1>4 DEF BackgroundCall
    <2>2. /\ background[r].status = "calling"
          /\ background'[r] = AfterCall(plan[r], background[r], ok)
          /\ UNCHANGED <<queue, task, plan, stage, sync, unsent>>
          /\ \A q \in Requests \ {r} : Undisturbed(q)
      BY <1>4, <2>1 DEF BackgroundCall, Undisturbed, IInv, TypeOK, brokerVars
    <2>3. background'[r].left \subseteq background[r].left
      BY <2>2, CallsFollow, RequestFacts DEF IInv
    <2>4. stage[r] \notin {"new", "sync", "schedule"}
      BY <2>2, BackgroundMayCall
    <2>5. i \in background'[r].left => MayCall(r, i)
      BY <2>2, <2>3 DEF MayCall
    <2> QED BY <2>2, <2>4, <2>5, RequestNarrows
  <1>5. CASE PublishFails(r) \/ Respond(r)
    <2>1. /\ stage'[r] \in {"error"} \cup PastEffects /\ UNCHANGED <<queue, task, plan, background>>
          /\ \A q \in Requests \ {r} : Undisturbed(q)
      BY <1>5 DEF PublishFails, Respond, Undisturbed, IInv, TypeOK, brokerVars
    <2>2. background[r].status = "calling" /\ i \in background[r].left => MayCall(r, i)
      BY DEF MayCall
    <2> QED BY <2>1, <2>2, RequestNarrows
  <1>6. CASE Crash(r)
    <2>1. /\ stage'[r] = IF stage[r] \in InService THEN "lost" ELSE stage[r]
          /\ background'[r] = NoDispatch
          /\ UNCHANGED <<queue, task, plan>>
          /\ \A q \in Requests \ {r} : Undisturbed(q)
      BY <1>6 DEF Crash, Undisturbed, IInv, TypeOK, brokerVars
    <2>2. background'[r].status # "calling"
      BY <2>1 DEF NoDispatch
    <2>3. stage'[r] = "new" => MayCall(r, i)
      BY <2>1 DEF MayCall, InService
    <2>4. stage'[r] \notin {"sync", "schedule"}
      BY <2>1 DEF InService
    <2> QED BY <2>1, <2>2, <2>3, <2>4, RequestNarrows
  <1> QED BY <1>1, <1>2, <1>3, <1>4, <1>5, <1>6

(* The broker takes over what was unsent; a worker what was in a message. *)
LEMMA PublishNarrows ==
    ASSUME IInv, NEW r \in Requests, NEW i \in Positions, Publish(r)
    PROVE  \A q \in Requests : MayCall(q, i)' => MayCall(q, i)
  <1> PICK S : S = NextPart(plan[r], unsent[r])
    OBVIOUS
  <1>1. /\ stage[r] = "schedule"
        /\ queue' = queue \cup {[job |-> [req |-> r, part |-> S], copy |-> 0]}
        /\ unsent'[r] \subseteq unsent[r] /\ stage'[r] \in {"respond", "schedule"}
        /\ UNCHANGED <<plan, background, task>>
        /\ \A q \in Requests \ {r} : Undisturbed(q)
    BY DEF Publish, StillUnsent, IInv, TypeOK, Undisturbed
  <1>2. S \subseteq unsent[r]
    BY <1>1, NextPartIsAJob
  <1>3. ASSUME NEW q \in Requests, MayCall(q, i)' PROVE MayCall(q, i)
    <2>1. Busy' = Busy
      BY <1>1 DEF Busy
    <2>2. ASSUME NEW m \in queue', m.job.req = q, i \in m.job.part PROVE MayCall(q, i)
      <3>1. CASE m \in queue
        BY <2>2, <3>1 DEF MayCall
      <3>2. CASE m \notin queue
        BY <1>1, <1>2, <2>2, <3>2 DEF MayCall
      <3> QED BY <3>1, <3>2
    <2> QED BY <1>1, <1>3, <2>1, <2>2 DEF MayCall, Undisturbed
  <1> QED BY <1>3

LEMMA BrokerNarrows ==
    ASSUME IInv, NEW i \in Positions, UNCHANGED reqVars,
           \A m \in queue' : m \in queue \/ (restored' > 0 /\ m.job \in Sent),
           \A w \in Busy' : \A r \in Requests :
             task'[w].job.req = r /\ i \in task'[w].run.left => MayCall(r, i)
    PROVE  \A r \in Requests : MayCall(r, i)' => MayCall(r, i) \/ Again(r, i)'
  <1> SUFFICES ASSUME NEW r \in Requests, MayCall(r, i)', ~MayCall(r, i) PROVE Again(r, i)'
    OBVIOUS
  <1>1. PICK m \in queue' : m.job.req = r /\ i \in m.job.part
    BY DEF MayCall, reqVars
  <1>2. m \notin queue
    BY <1>1 DEF MayCall
  <1>3. restored' > 0 /\ i \in Async(plan[r])
    BY <1>1, <1>2, JobFacts
  <1> QED BY <1>3 DEF Again, reqVars

LEMMA WorkersNarrow ==
    ASSUME IInv, NEW w \in Workers, NEW i \in Positions,
           Take(w) \/ WorkerCall(w) \/ WorkerLost(w) \/ VisibilityTimeout(w) \/ TimeLimit(w)
    PROVE  \A r \in Requests : MayCall(r, i)' => MayCall(r, i) \/ Again(r, i)'
  <1>1. CASE Take(w)
    <2>1. PICK m \in queue :
            /\ queue' = queue \ {m}
            /\ Hold(w, [job |-> m.job, copy |-> m.copy, run |-> Begin(plan[m.job.req], m.job.part)])
      BY <1>1 DEF Take
    <2> PICK t : t = [job |-> m.job, copy |-> m.copy, run |-> Begin(plan[m.job.req], m.job.part)]
      OBVIOUS
    <2>2. /\ \A v \in Workers \ {w} : task'[v] = task[v]
          /\ task'[w] \in {t, NoTask} /\ UNCHANGED reqVars
      BY <1>1, <2>1 DEF Take, Hold, IInv, TypeOK
    <2>3. t.job = m.job /\ t.run.left \subseteq m.job.part
      BY DEF Begin, Proceed, Enabled
    <2>4. ASSUME NEW v \in Busy', NEW r \in Requests, task'[v].job.req = r, i \in task'[v].run.left
          PROVE  MayCall(r, i)
      <3>1. CASE v = w
        BY <2>2, <2>3, <2>4, <3>1 DEF MayCall, Busy
      <3>2. CASE v # w
        BY <2>2, <2>4, <3>2 DEF MayCall, Busy
      <3> QED BY <3>1, <3>2
    <2> QED BY <2>1, <2>2, <2>4, BrokerNarrows
  <1>2. CASE WorkerCall(w)
    <2> PICK r : r = task[w].job.req
      OBVIOUS
    <2>1. task[w] # NoTask /\ UNCHANGED <<reqVars, queue>>
      BY <1>2 DEF WorkerCall
    <2>2. PICK ok \in BOOLEAN : /\ Record(r, First(task[w].run.left), ok)
                                /\ Hold(w, [task[w] EXCEPT !.run = AfterCall(plan[r], @, ok)])
      BY <1>2 DEF WorkerCall
    <2> PICK d : d = AfterCall(plan[r], task[w].run, ok)
      OBVIOUS
    <2> PICK t : t = [job |-> task[w].job, copy |-> task[w].copy, run |-> d]
      OBVIOUS
    <2>3. Hold(w, t) /\ d.left \subseteq task[w].run.left
      <3>1. Hold(w, t)
        BY <2>1, <2>2, WorkerCallRuns
      <3>2. task[w].run \in Dispatch
        BY <2>1, TaskFacts
      <3>3. d.left \subseteq task[w].run.left
        BY <3>2, CallsFollow
      <3> QED BY <3>1, <3>3
    <2>4. /\ \A v \in Workers \ {w} : task'[v] = task[v]
          /\ task'[w] \in {t, NoTask}
      BY <2>3 DEF Hold, IInv, TypeOK
    <2>5. ASSUME NEW v \in Busy', NEW q \in Requests, task'[v].job.req = q, i \in task'[v].run.left
          PROVE  MayCall(q, i)
      <3>1. CASE v = w
        <4>1. task'[w] = t
          BY <2>4, <3>1 DEF Busy
        <4>2. task[w].job.req = q /\ i \in task[w].run.left
          BY <2>3, <2>5, <3>1, <4>1
        <4> QED BY <2>1, <4>2 DEF MayCall, Busy
      <3>2. CASE v # w
        BY <2>4, <2>5, <3>2 DEF MayCall, Busy
      <3> QED BY <3>1, <3>2
    <2> QED BY <2>1, <2>5, BrokerNarrows
  <1>3. CASE WorkerLost(w) \/ VisibilityTimeout(w) \/ TimeLimit(w)
    <2>1. /\ task[w] # NoTask /\ UNCHANGED reqVars
          /\ \/ queue' = queue
             \/ restored' > 0 /\ \A m \in queue' : m \in queue \/ m.job = task[w].job
      BY <1>3, DeliveryAssumption
         DEF WorkerLost, VisibilityTimeout, TimeLimit, Restore, IInv, TypeOK
    <2>2. \A m \in queue' : m \in queue \/ (restored' > 0 /\ m.job \in Sent)
      BY <2>1, TaskFacts
    <2>3. \A v \in Busy' : v \in Busy /\ task'[v] = task[v]
      BY <1>3 DEF WorkerLost, VisibilityTimeout, TimeLimit, Busy, IInv, TypeOK
    <2> QED BY <2>1, <2>2, <2>3, BrokerNarrows DEF MayCall
  <1> QED BY <1>1, <1>2, <1>3

LEMMA NextNarrows ==
    ASSUME IInv, [Next]_vars, NEW r \in Requests, NEW i \in Positions
    PROVE  MayCall(r, i)' => MayCall(r, i) \/ Again(r, i)'
  <1>1. CASE UNCHANGED vars
    BY <1>1 DEF vars, reqVars, brokerVars, MayCall, Busy
  <1>2. ASSUME NEW q \in Requests, Execute(q) \/ Serve(q) \/ PublishFails(q) \/ Crash(q)
        PROVE  MayCall(r, i)' => MayCall(r, i)
    BY <1>2, RequestsNarrow, PublishNarrows DEF Serve
  <1>3. ASSUME NEW w \in Workers,
               \/ Work(w) \/ WorkerLost(w) \/ VisibilityTimeout(w) \/ TimeLimit(w)
        PROVE  MayCall(r, i)' => MayCall(r, i) \/ Again(r, i)'
    BY <1>3, WorkersNarrow DEF Work
  <1> QED BY <1>1, <1>2, <1>3 DEF Next

-----------------------------------------------------------------------------
(* Who calls may call, and a success leaves it to nobody.                  *)

Allowed(r, i, ok) ==
    /\ Record(r, i, ok) /\ UNCHANGED <<scheduler, plan>>
    /\ stage[r] # "new" /\ MayCall(r, i)
    /\ ok => ~MayCall(r, i)' \/ Again(r, i)'

LEMMA SyncCallAllowed ==
    ASSUME DInv, NEW r \in Requests, SyncCall(r)
    PROVE  \E i \in Positions, ok \in BOOLEAN : Allowed(r, i, ok)
  <1>1. PICK ok \in BOOLEAN : /\ Record(r, First(sync[r].left), ok)
                              /\ Settle(r, plan[r], AfterCall(plan[r], sync[r], ok))
    BY DEF SyncCall
  <1> PICK i : i = First(sync[r].left)
    OBVIOUS
  <1> PICK d : d = AfterCall(plan[r], sync[r], ok)
    OBVIOUS
  <1>2. /\ IInv /\ stage[r] = "sync" /\ UNCHANGED <<scheduler, plan, background, queue, task>>
        /\ Busy' = Busy
    BY DEF SyncCall, DInv, brokerVars, Busy
  <1>3. /\ i \in sync[r].left /\ i \in Positions
        /\ Run(r, Sync(plan[r]), sync[r])
    BY <1>1, <1>2, SyncCallRuns DEF IInv, SyncOk
  <1>4. i \in Sync(plan[r]) /\ i \notin Async(plan[r])
    BY <1>3 DEF Run, RunsOver, Enabled, Async
  <1>5. /\ sync'[r] = d /\ stage'[r] # "new"
        /\ unsent'[r] \in {Async(plan[r]), {}}
    BY <1>1, <1>2 DEF Settle, IInv, TypeOK
  <1>6. ok => i \notin d.left
    BY <1>2, CallsFollow, RequestFacts DEF IInv
  <1>7. background[r].status # "calling"
    BY <1>2 DEF IInv, BackgroundOk
  <1>8. /\ \A m \in queue : m.job.req # r
        /\ \A w \in Busy : task[w].job.req # r
    BY <1>2, NoJobsYet DEF Sent
  <1>9. ok => ~MayCall(r, i)'
    BY <1>2, <1>4, <1>5, <1>6, <1>7, <1>8 DEF MayCall
  <1>10. MayCall(r, i)
    BY <1>2, <1>3 DEF MayCall
  <1> QED BY <1>1, <1>2, <1>3, <1>9, <1>10 DEF Allowed

LEMMA BackgroundCallAllowed ==
    ASSUME DInv, NEW r \in Requests, BackgroundCall(r)
    PROVE  \E i \in Positions, ok \in BOOLEAN : Allowed(r, i, ok)
  <1>1. PICK ok \in BOOLEAN :
          /\ Record(r, First(background[r].left), ok)
          /\ background' = [background EXCEPT ![r] = AfterCall(plan[r], @, ok)]
    BY DEF BackgroundCall
  <1> PICK i : i = First(background[r].left)
    OBVIOUS
  <1>2. /\ background[r].status = "calling" /\ IInv
        /\ background'[r] = AfterCall(plan[r], background[r], ok)
        /\ UNCHANGED <<scheduler, plan, stage, sync, unsent, queue, task>> /\ Busy' = Busy
    BY <1>1 DEF BackgroundCall, DInv, IInv, TypeOK, brokerVars, Busy
  <1>3. i \in background[r].left /\ i \in Positions
    BY <1>1, <1>2, BackgroundRuns
  <1>4. stage[r] \notin {"new", "sync", "schedule"} /\ scheduler = "in_process"
    BY <1>2, BackgroundMayCall
  <1>5. ok => i \notin background'[r].left
    BY <1>2, CallsFollow, RequestFacts DEF IInv
  <1>6. /\ \A m \in queue : m.job.req # r
        /\ \A w \in Busy : task[w].job.req # r
    BY <1>2, <1>4, JobFacts DEF JobOk, Sent
  <1>7. ok => ~MayCall(r, i)'
    BY <1>2, <1>4, <1>5, <1>6 DEF MayCall
  <1>8. MayCall(r, i)
    BY <1>2, <1>3 DEF MayCall
  <1> QED BY <1>1, <1>2, <1>3, <1>4, <1>7, <1>8 DEF Allowed

LEMMA WorkerCallAllowed ==
    ASSUME DInv, NEW w \in Workers, WorkerCall(w)
    PROVE  \E r \in Requests, i \in Positions, ok \in BOOLEAN : Allowed(r, i, ok)
  <1> PICK r, i, k : r = task[w].job.req /\ i = First(task[w].run.left) /\ k = task[w].copy
    OBVIOUS
  <1>1. task[w] # NoTask /\ UNCHANGED <<reqVars, queue, restored>> /\ IInv
    BY DEF WorkerCall, DInv
  <1>2. PICK ok \in BOOLEAN : /\ Record(r, i, ok)
                              /\ Hold(w, [task[w] EXCEPT !.run = AfterCall(plan[r], @, ok)])
    BY DEF WorkerCall
  <1> PICK d : d = AfterCall(plan[r], task[w].run, ok)
    OBVIOUS
  <1> PICK t : t = [job |-> task[w].job, copy |-> task[w].copy, run |-> d]
    OBVIOUS
  <1>3. Hold(w, t) /\ i \in Positions /\ i \in task[w].run.left
    BY <1>1, <1>2, WorkerCallRuns
  <1>4. /\ \A v \in Workers \ {w} : task'[v] = task[v]
        /\ task'[w] \in {t, NoTask}
    BY <1>1, <1>3 DEF Hold, IInv, TypeOK
  <1>5. r \in Requests /\ task[w].run \in Dispatch /\ w \in Busy
    BY <1>1, TaskFacts DEF Busy
  <1>6. ok => i \notin d.left
    BY <1>5, CallsFollow
  <1>7. /\ i \in Deliverable(r) /\ ~NotSent(r, i) /\ k \in 0..restored
        /\ \A m \in queue : ~(m.copy = k /\ m.job.req = r /\ i \in m.job.part)
        /\ \A v \in Busy \ {w} : ~(task[v].copy = k /\ task[v].job.req = r /\ i \in task[v].run.left)
    BY <1>1, SlotIsOwn
  <1>8. stage[r] \notin {"new", "sync"} /\ background[r].status # "calling"
        /\ i \in Async(plan[r]) /\ (stage[r] = "schedule" => i \notin unsent[r])
    BY <1>1, <1>5, <1>7, BackgroundMayCall DEF NotSent, Deliverable
  <1>9. MayCall(r, i)
    BY <1>3, <1>5 DEF MayCall
  <1>10. restored \in Nat /\ restored' = restored
    BY <1>1, DeliveryAssumption DEF IInv, TypeOK
  <1>11. ASSUME ok, restored = 0 PROVE ~MayCall(r, i)'
    <2>1. /\ \A m \in queue : m.copy = k
          /\ \A v \in Busy : task[v].copy = k
      <3>1. /\ \A m \in queue : m.copy \in Nat /\ m.copy <= restored
            /\ \A v \in Busy : task[v].copy \in Nat /\ task[v].copy <= restored
        BY <1>1, TaskFacts DEF DInv, CopiesOk, IInv, TypeOK, Message, Busy
      <3> QED BY <1>7, <1>11, <3>1
    <2>2. \A m \in queue' : ~(m.job.req = r /\ i \in m.job.part)
      BY <1>1, <1>7, <2>1
    <2>3. ASSUME NEW v \in Busy' PROVE ~(task'[v].job.req = r /\ i \in task'[v].run.left)
      <3>1. CASE v = w
        <4>1. task'[w].run.left = d.left
          BY <1>4, <3>1 DEF Busy
        <4> QED BY <1>6, <1>11, <3>1, <4>1
      <3>2. CASE v # w
        <4>1. v \in Busy \ {w} /\ task'[v] = task[v]
          BY <1>4, <3>2 DEF Busy
        <4> QED BY <1>7, <2>1, <4>1
      <3> QED BY <3>1, <3>2
    <2> QED BY <1>1, <1>8, <2>2, <2>3 DEF MayCall, reqVars
  <1>12. restored # 0 => Again(r, i)'
    BY <1>1, <1>8, <1>10 DEF Again, reqVars
  <1> QED BY <1>1, <1>2, <1>3, <1>5, <1>8, <1>9, <1>11, <1>12 DEF Allowed, reqVars

(* A call that is cut off is no success. *)
LEMMA CutOffAllowed ==
    ASSUME IInv, NEW r \in Requests, NEW d \in Dispatch, CutOff(r, d), UNCHANGED <<scheduler, plan>>,
           stage[r] # "new", d.status = "calling" => d.left # {} /\ \A i \in d.left : MayCall(r, i)
    PROVE  UNCHANGED history \/ \E i \in Positions, ok \in BOOLEAN : Allowed(r, i, ok)
  <1>1. CASE UNCHANGED history
    BY <1>1
  <1>2. CASE ~UNCHANGED history
    <2>1. /\ First(d.left) \in d.left /\ First(d.left) \in Positions
          /\ Record(r, First(d.left), FALSE) /\ d.status = "calling"
      BY <1>2, CutsOff DEF IInv
    <2>2. Allowed(r, First(d.left), FALSE)
      BY <2>1 DEF Allowed
    <2> QED BY <2>1, <2>2
  <1> QED BY <1>1, <1>2

LEMMA NextAllowed ==
    ASSUME DInv, [Next]_vars
    PROVE  \/ UNCHANGED history
           \/ \E r \in Requests, i \in Positions, ok \in BOOLEAN : Allowed(r, i, ok)
  <1>0. IInv
    BY DEF DInv
  <1>1. CASE UNCHANGED vars
    BY <1>1 DEF vars
  <1>2. ASSUME NEW r \in Requests, Execute(r) \/ Serve(r) \/ PublishFails(r)
        PROVE  UNCHANGED history \/ \E i \in Positions, ok \in BOOLEAN : Allowed(r, i, ok)
    <2>1. SyncCall(r) \/ BackgroundCall(r) \/ UNCHANGED history
      BY <1>2 DEF Serve, Execute, StartBackground, Publish, Respond, PublishFails
    <2> QED BY <2>1, SyncCallAllowed, BackgroundCallAllowed
  <1>3. ASSUME NEW r \in Requests, Crash(r)
        PROVE  UNCHANGED history \/ \E i \in Positions, ok \in BOOLEAN : Allowed(r, i, ok)
    <2>1. /\ UNCHANGED <<scheduler, plan>> /\ sync[r] \in Dispatch /\ background[r] \in Dispatch
      BY <1>0, <1>3, RequestFacts DEF Crash, IInv
    <2>2. CASE stage[r] \in InService /\ CutOff(r, sync[r])
      <3>1. sync[r].status = "calling" => sync[r].left # {} /\ \A i \in sync[r].left : MayCall(r, i)
        BY <1>0 DEF IInv, SyncOk, Run, RunsOver, MayCall
      <3>2. stage[r] # "new"
        BY <2>2 DEF InService
      <3> QED BY <1>0, <2>1, <2>2, <3>1, <3>2, CutOffAllowed
    <2>3. CASE background[r].status = "calling" /\ CutOff(r, background[r])
      <3>1. /\ background[r].left # {} /\ \A i \in background[r].left : MayCall(r, i)
            /\ stage[r] # "new"
        BY <1>0, <2>3, BackgroundMayCall DEF Run, RunsOver, MayCall
      <3> QED BY <1>0, <2>1, <2>3, <3>1, CutOffAllowed
    <2> QED BY <1>3, <2>2, <2>3 DEF Crash
  <1>4. ASSUME NEW w \in Workers,
               \/ Work(w) \/ WorkerLost(w) \/ VisibilityTimeout(w) \/ TimeLimit(w)
        PROVE  UNCHANGED history \/ \E r \in Requests, i \in Positions, ok \in BOOLEAN : Allowed(r, i, ok)
    <2>1. CASE WorkerCall(w)
      BY <2>1, WorkerCallAllowed
    <2>2. CASE Take(w) \/ VisibilityTimeout(w)
      BY <2>2 DEF Take, VisibilityTimeout
    <2>3. CASE WorkerLost(w) \/ TimeLimit(w)
      <3>1. /\ task[w] # NoTask /\ CutOff(task[w].job.req, task[w].run)
            /\ UNCHANGED <<scheduler, plan>> /\ w \in Busy
        BY <2>3 DEF WorkerLost, TimeLimit, reqVars, Busy
      <3>2. /\ task[w].run \in Dispatch /\ task[w].job.req \in Requests /\ task[w].run.left # {}
            /\ stage[task[w].job.req] # "new"
        BY <1>0, <3>1, TaskFacts, WorkerMayCall
      <3>3. \A i \in task[w].run.left : MayCall(task[w].job.req, i)
        BY <3>1 DEF MayCall
      <3> QED BY <1>0, <3>1, <3>2, <3>3, CutOffAllowed
    <2> QED BY <1>4, <2>1, <2>2, <2>3 DEF Work
  <1> QED BY <1>1, <1>2, <1>3, <1>4 DEF Next

-----------------------------------------------------------------------------
(* The invariant is kept.                                                  *)

LEMMA PlanStays ==
    ASSUME IInv, [Next]_vars, NEW r \in Requests, stage[r] # "new"
    PROVE  plan'[r] = plan[r]
  <1>1. ASSUME NEW q \in Requests, Execute(q) PROVE plan'[r] = plan[r]
    <2>1. PICK p \in Responses : plan' = [plan EXCEPT ![q] = p]
      BY <1>1 DEF Execute
    <2>2. q # r
      BY <1>1 DEF Execute
    <2> QED BY <2>1, <2>2 DEF IInv, TypeOK
  <1>2. ASSUME NEW q \in Requests, Serve(q) \/ PublishFails(q) \/ Crash(q)
        PROVE  plan'[r] = plan[r]
    BY <1>2 DEF Serve, SyncCall, StartBackground, BackgroundCall, Publish, Respond,
       PublishFails, Crash
  <1>3. ASSUME NEW w \in Workers,
               \/ Work(w) \/ WorkerLost(w) \/ VisibilityTimeout(w) \/ TimeLimit(w)
        PROVE  plan'[r] = plan[r]
    BY <1>3 DEF Work, Take, WorkerCall, WorkerLost, VisibilityTimeout, TimeLimit, reqVars
  <1>4. ASSUME UNCHANGED vars PROVE plan'[r] = plan[r]
    BY <1>4 DEF vars, reqVars
  <1> QED BY <1>1, <1>2, <1>3, <1>4 DEF Next

LEMMA StepsAreSteady ==
    ASSUME DInv, [Next]_vars, NEW r \in Requests, stage[r] # "new"
    PROVE  /\ Steady(r)
           /\ \A i \in Positions : i \in succeeded'[r] \ succeeded[r] =>
                MayCall(r, i) /\ (~MayCall(r, i)' \/ Again(r, i)')
  <1>0. IInv /\ plan'[r] = plan[r] /\ scheduler' = scheduler
    BY PlanStays, RestoredGrows DEF DInv
  <1>1. CASE UNCHANGED history
    BY <1>0, <1>1, DeliveryAssumption DEF IInv, TypeOK, Steady, Row, Grows, history
  <1>2. CASE \E q \in Requests, i \in Positions, ok \in BOOLEAN : Allowed(q, i, ok)
    <2>1. PICK q \in Requests, i \in Positions, ok \in BOOLEAN : Allowed(q, i, ok)
      BY <1>2
    <2>2. /\ calls' \in [Requests -> [Positions -> 0..MaxCount]]
          /\ succeeded'[q] = Won(succeeded[q], i, ok)
          /\ \A u \in Requests \ {q} : succeeded'[u] = succeeded[u]
          /\ Grows(calls[r], succeeded[r], calls'[r], succeeded'[r])
      BY <1>0, <2>1, Recorded DEF IInv, Allowed
    <2>3. Steady(r)
      BY <1>0, <2>2 DEF Steady, Row
    <2>4. ASSUME NEW k \in Positions, k \in succeeded'[r] \ succeeded[r]
          PROVE  MayCall(r, k) /\ (~MayCall(r, k)' \/ Again(r, k)')
      <3>1. r = q /\ k = i /\ ok
        BY <2>2, <2>4 DEF Won
      <3> QED BY <2>1, <3>1 DEF Allowed
    <2> QED BY <2>3, <2>4
  <1> QED BY <1>1, <1>2, NextAllowed

LEMMA AgainStays ==
    ASSUME IInv, [Next]_vars, NEW r \in Requests, NEW i \in Positions, Again(r, i)
    PROVE  Again(r, i)'
  <1>1. stage[r] # "new"
    BY DEF Again, IInv, SyncOk, NoEffects, Async
  <1> QED BY <1>1, PlanStays, RestoredGrows DEF Again

LEMMA NotTwiceKept ==
    ASSUME GInv, [Next]_vars
    PROVE  NotTwice'
  <1> SUFFICES ASSUME NEW r \in Requests, NEW i \in Positions, MayCall(r, i)', i \in succeeded'[r]
               PROVE  Again(r, i)'
    BY DEF NotTwice
  <1>1. DInv /\ IInv
    BY DEF GInv, DInv
  <1>2. MayCall(r, i) \/ Again(r, i)'
    BY <1>1, NextNarrows
  <1>3. CASE MayCall(r, i) /\ i \in succeeded[r]
    BY <1>1, <1>3, AgainStays DEF GInv, NotTwice
  <1>4. CASE i \notin succeeded[r] /\ stage[r] # "new"
    BY <1>1, <1>4, StepsAreSteady
  <1>5. CASE i \notin succeeded[r] /\ stage[r] = "new"
    <2>1. succeeded'[r] = succeeded[r]
      <3>1. CASE UNCHANGED history
        BY <3>1 DEF history
      <3>2. CASE \E q \in Requests, k \in Positions, ok \in BOOLEAN : Allowed(q, k, ok)
        BY <1>1, <1>5, <3>2, Recorded DEF Allowed, IInv
      <3> QED BY <1>1, <3>1, <3>2, NextAllowed
    <2> QED BY <1>5, <2>1
  <1> QED BY <1>2, <1>3, <1>4, <1>5

(* A job that was acknowledged is over, unless messages are delivered again. *)
LEMMA AckedIsOver ==
    ASSUME GInv, restored = 0, NEW j \in acked, NEW i \in j.part
    PROVE  ~MayCall(j.req, i)
  <1>1. IInv /\ j \in Sent /\ CopiesOk
    BY DEF GInv, DInv, Sent
  <1>2. j.req \in Requests /\ JobOk(j)
    BY <1>1, JobFacts
  <1>3. /\ stage[j.req] \notin {"new", "sync"} /\ background[j.req].status # "calling"
        /\ stage[j.req] = "schedule" => i \notin unsent[j.req]
    BY <1>1, <1>2, BackgroundMayCall DEF JobOk, CopiesOk
  <1>4. ASSUME NEW m \in queue, m.job.req = j.req, i \in m.job.part PROVE FALSE
    <2>1. m.job = j
      BY <1>1, <1>4, PartsAreDisjoint DEF Sent
    <2> QED BY <2>1 DEF GInv, AckedApart
  <1>5. ASSUME NEW w \in Busy, task[w].job.req = j.req, i \in task[w].run.left PROVE FALSE
    <2>1. task[w].job \in Sent /\ i \in task[w].job.part
      BY <1>1, <1>5, TaskFacts DEF Busy, Run, RunsOver, Enabled
    <2>2. task[w].job = j
      BY <1>1, <1>5, <2>1, PartsAreDisjoint
    <2> QED BY <2>2 DEF GInv, AckedApart
  <1> QED BY <1>3, <1>4, <1>5 DEF MayCall

LEMMA HoldApart ==
    ASSUME GInv, NEW w \in Workers, NEW t, Hold(w, t), restored = 0,
           \/ /\ task[w] = NoTask
              /\ \E m \in queue : m.job = t.job /\ queue' = queue \ {m}
           \/ task[w] # NoTask /\ task[w].job = t.job /\ queue' = queue
    PROVE  \A j \in acked' : /\ \A m \in queue' : m.job # j
                             /\ \A v \in Busy' : task'[v].job # j
  <1>1. IInv /\ CopiesOk /\ \A j \in acked : /\ \A m \in queue : m.job # j
                                             /\ \A v \in Busy : task[v].job # j
    BY DEF GInv, DInv, AckedApart
  <1>2. /\ \A v \in Workers \ {w} : task'[v] = task[v]
        /\ \/ task'[w] = t /\ acked' = acked
           \/ task'[w] = NoTask /\ acked' = acked \cup {t.job}
    BY <1>1 DEF Hold, IInv, TypeOK
  <1>3. /\ \A m \in queue : m \in Message /\ m.copy = 0
        /\ \A v \in Busy : task[v].copy = 0
    <2>1. /\ \A m \in queue : m \in Message /\ m.copy \in Nat /\ m.copy <= restored
          /\ \A v \in Busy : task[v].copy <= restored
      BY <1>1 DEF CopiesOk, IInv, TypeOK, Message
    <2>2. \A v \in Busy : task[v].copy \in Nat
      BY <1>1, TaskFacts DEF Busy
    <2> QED BY <2>1, <2>2
  <1>4. \A m \in queue : \A v \in Busy : m.job # task[v].job
    BY <1>1, <1>3 DEF CopiesOk
  <1>5. \A v \in Busy : \A u \in Busy \ {v} : task[u].job # task[v].job
    BY <1>1, <1>3 DEF CopiesOk
  <1>6. \A m \in queue : \A n \in queue \ {m} : m.job # n.job
    BY <1>3 DEF Message
  <1>7. t.job \notin acked
    BY <1>1 DEF Busy
  <1>8. \A m \in queue' : m \in queue /\ m.job # t.job
    BY <1>4, <1>6 DEF Busy
  <1>9. \A v \in Busy' \ {w} : v \in Busy /\ task'[v] = task[v] /\ task[v].job # t.job
    <2> SUFFICES ASSUME NEW v \in Busy' \ {w}
                 PROVE  v \in Busy /\ task'[v] = task[v] /\ task[v].job # t.job
      OBVIOUS
    <2>1. v \in Busy /\ task'[v] = task[v]
      BY <1>2 DEF Busy
    <2>2. CASE \E m \in queue : m.job = t.job
      BY <1>4, <2>1, <2>2
    <2>3. CASE task[w] # NoTask /\ task[w].job = t.job
      BY <1>5, <2>1, <2>3 DEF Busy
    <2> QED BY <2>1, <2>2, <2>3
  <1> QED BY <1>1, <1>2, <1>7, <1>8, <1>9 DEF Busy

LEMMA AckedApartKept ==
    ASSUME GInv, [Next]_vars
    PROVE  AckedApart'
  <1> SUFFICES ASSUME restored' = 0
               PROVE  \A j \in acked' : /\ \A m \in queue' : m.job # j
                                        /\ \A w \in Busy' : task'[w].job # j
    BY DEF AckedApart
  <1>1. IInv /\ DInv /\ restored = 0
    BY RestoredGrows DEF GInv, DInv
  <1>2. \A j \in acked : /\ \A m \in queue : m.job # j
                         /\ \A w \in Busy : task[w].job # j
    BY <1>1 DEF GInv, AckedApart
  <1>3. ASSUME UNCHANGED <<queue, acked>>, \A v \in Busy' : v \in Busy /\ task'[v] = task[v]
        PROVE  \A j \in acked' : /\ \A m \in queue' : m.job # j
                                 /\ \A w \in Busy' : task'[w].job # j
    BY <1>2, <1>3
  <1>4. ASSUME NEW r \in Requests, Publish(r)
        PROVE  \A j \in acked' : /\ \A m \in queue' : m.job # j
                                 /\ \A w \in Busy' : task'[w].job # j
    <2> PICK S : S = NextPart(plan[r], unsent[r])
      OBVIOUS
    <2>1. /\ stage[r] = "schedule" /\ UNCHANGED <<task, acked>> /\ Busy' = Busy
          /\ queue' = queue \cup {[job |-> [req |-> r, part |-> S], copy |-> 0]}
      BY <1>4 DEF Publish, Busy
    <2>2. S \subseteq unsent[r] /\ S # {}
      BY <1>1, <2>1, NextPartIsAJob
    <2>3. \A j \in acked : j.req = r => j.part \cap unsent[r] = {}
      BY <1>1, <2>1 DEF DInv, CopiesOk, Sent
    <2>4. \A j \in acked : j # [req |-> r, part |-> S]
      BY <2>2, <2>3
    <2> QED BY <1>2, <2>1, <2>4
  <1>5. ASSUME NEW r \in Requests,
               \/ Execute(r) \/ SyncCall(r) \/ StartBackground(r) \/ BackgroundCall(r)
               \/ Respond(r) \/ PublishFails(r) \/ Crash(r)
        PROVE  UNCHANGED <<queue, acked, task>> /\ Busy' = Busy
    BY <1>5 DEF Execute, SyncCall, StartBackground, BackgroundCall, Respond, PublishFails, Crash,
       brokerVars, Busy
  <1>6. ASSUME NEW w \in Workers, Take(w)
        PROVE  \A j \in acked' : /\ \A m \in queue' : m.job # j
                                 /\ \A v \in Busy' : task'[v].job # j
    <2>1. PICK m \in queue :
            /\ queue' = queue \ {m}
            /\ Hold(w, [job |-> m.job, copy |-> m.copy, run |-> Begin(plan[m.job.req], m.job.part)])
      BY <1>6 DEF Take
    <2>2. task[w] = NoTask
      BY <1>6 DEF Take
    <2> QED BY <1>1, <2>1, <2>2, HoldApart
  <1>7. ASSUME NEW w \in Workers, WorkerCall(w)
        PROVE  \A j \in acked' : /\ \A m \in queue' : m.job # j
                                 /\ \A v \in Busy' : task'[v].job # j
    <2>1. task[w] # NoTask /\ queue' = queue
      BY <1>7 DEF WorkerCall
    <2>2. PICK ok \in BOOLEAN :
            /\ Record(task[w].job.req, First(task[w].run.left), ok)
            /\ Hold(w, [task[w] EXCEPT !.run = AfterCall(plan[task[w].job.req], @, ok)])
      BY <1>7 DEF WorkerCall
    <2> PICK t : t = [job |-> task[w].job, copy |-> task[w].copy,
                      run |-> AfterCall(plan[task[w].job.req], task[w].run, ok)]
      OBVIOUS
    <2>3. Hold(w, t) /\ t.job = task[w].job
      BY <1>1, <2>1, <2>2, WorkerCallRuns
    <2> QED BY <1>1, <2>1, <2>3, HoldApart
  <1>8. ASSUME NEW w \in Workers, WorkerLost(w) \/ VisibilityTimeout(w)
        PROVE  FALSE
    BY <1>1, <1>8 DEF WorkerLost, VisibilityTimeout, Restore
  <1>9. ASSUME NEW w \in Workers, TimeLimit(w)
        PROVE  UNCHANGED <<queue, acked>> /\ \A v \in Busy' : v \in Busy /\ task'[v] = task[v]
    BY <1>1, <1>9 DEF TimeLimit, Busy, IInv, TypeOK
  <1>10. CASE UNCHANGED vars
    BY <1>3, <1>10 DEF vars, brokerVars, Busy
  <1> QED BY <1>3, <1>4, <1>5, <1>6, <1>7, <1>8, <1>9, <1>10 DEF Next, Serve, Work

(* What was given up stays so, and jobs that are over stay accounted for. *)
LEMMA GivenUpStays ==
    ASSUME GInv, [Next]_vars, NEW r \in Requests, stage[r] # "new",
           NEW i \in DOMAIN plan[r], GivenUp(r, i),
           i \in succeeded'[r] \ succeeded[r] => Again(r, i)'
    PROVE  GivenUp(r, i)'
  <1>1. IInv /\ DInv /\ TypeOK'
    BY NextType DEF GInv, DInv
  <1>2. Steady(r) /\ plan'[r] = plan[r]
    BY <1>1, StepsAreSteady DEF Steady
  <1>3. TriesUsed(r, i)'
    BY <1>1, <1>2, StaysSettled DEF GivenUp
  <1>4. restored \in Nat /\ restored' \in {restored, restored + 1}
    BY <1>1, RestoredGrows
  <1>5. Redelivered(r, i) => Redelivered(r, i)'
    BY <1>2, <1>4 DEF Redelivered
  <1>6. Again(r, i)' => Redelivered(r, i)'
    BY <1>1, <1>2, RequestFacts DEF Again, Redelivered, Async, Sync, Plan, Effect, IInv
  <1> QED BY <1>3, <1>5, <1>6 DEF GivenUp

LEMMA AcksStay ==
    ASSUME GInv, [Next]_vars, NEW j \in acked
    PROVE  AckedOk(j)'
  <1>1. IInv /\ DInv /\ j \in Sent
    BY DEF GInv, DInv, Sent
  <1>2. /\ j.req \in Requests /\ JobOk(j) /\ j.part \subseteq Async(plan[j.req])
        /\ j.part \subseteq DOMAIN plan[j.req] /\ j.part \subseteq Positions
    BY <1>1, JobFacts, RequestFacts DEF IInv
  <1>3. stage[j.req] # "new"
    BY <1>2 DEF JobOk
  <1>4. Steady(j.req) /\ plan'[j.req] = plan[j.req]
    BY <1>1, <1>2, <1>3, StepsAreSteady DEF Steady
  <1>5. restored \in Nat /\ restored' \in {restored, restored + 1}
    BY <1>1, RestoredGrows
  <1>6. ASSUME NEW k \in j.part, GivenUp(j.req, k) PROVE GivenUp(j.req, k)'
    <2>1. ASSUME k \in succeeded'[j.req] \ succeeded[j.req] PROVE Again(j.req, k)'
      <3>1. MayCall(j.req, k)
        BY <1>1, <1>2, <1>3, <2>1, StepsAreSteady
      <3>2. restored # 0
        BY <3>1, AckedIsOver
      <3> QED BY <1>2, <1>4, <1>5, <3>2 DEF Again
    <2> QED BY <1>2, <1>3, <1>6, <2>1, GivenUpStays
  <1>7. \A i \in j.part : Settled(j.req, i) => Settled(j.req, i)'
    BY <1>1, <1>2, <1>4, StaysSettled
  <1>8. AckedOk(j)
    BY DEF GInv
  <1> QED BY <1>4, <1>6, <1>7, <1>8 DEF AckedOk, Enabled

LEMMA EndedIsAccounted ==
    ASSUME NEW j \in Job, Plan(plan'[j.req]), j.part \subseteq Async(plan'[j.req]),
           NEW d \in Dispatch, d.status # "calling",
           RunsOver(plan'[j.req], calls'[j.req], succeeded'[j.req], j.part, d),
           \A i \in d.left : i \in succeeded'[j.req] => restored' > 0
    PROVE  AckedOk(j)'
  <1> DEFINE p == plan'[j.req]
             f == First(d.left)
  <1>1. \A i \in Enabled(p, j.part) \ d.left : Settled(j.req, i)'
    BY DEF RunsOver, Settled, SettledBy
  <1>2. CASE d.status = "done"
    BY <1>1, <1>2 DEF RunsOver, AckedOk
  <1>3. CASE d.status = "failed"
    <2>1. d.left # {} /\ d.left \in SUBSET Nat /\ d.left \subseteq j.part
      BY <1>3, ResponseAssumption DEF RunsOver, Dispatch, Enabled
    <2>2. f \in j.part /\ f \in d.left /\ \A i \in d.left : f <= i
      BY <2>1, FirstIsLeast
    <2>3. TriesUsed(j.req, f)'
      BY <1>3 DEF RunsOver, TriesUsed, TriesUsedBy
    <2>4. p[f].mode = "async"
      BY <2>2 DEF Async, Sync, Plan, Effect
    <2>5. GivenUp(j.req, f)'
      BY <2>2, <2>3, <2>4 DEF GivenUp, Redelivered
    <2> QED BY <1>1, <2>2, <2>5 DEF AckedOk
  <1> QED BY <1>2, <1>3 DEF Dispatch

LEMMA HoldAccounts ==
    ASSUME IInv, NEW w \in Workers, NEW t \in [job: Job, copy: Nat, run: Dispatch],
           t.job \in Sent, Hold(w, t), UNCHANGED <<plan, restored>>,
           RunsOver(plan[t.job.req], calls'[t.job.req], succeeded'[t.job.req], t.job.part, t.run),
           \A i \in t.run.left : i \in succeeded'[t.job.req] => Again(t.job.req, i)
    PROVE  \A j \in acked' \ acked : AckedOk(j)'
  <1>1. CASE t.run.status = "calling"
    BY <1>1 DEF Hold
  <1>2. CASE t.run.status # "calling"
    <2>1. acked' = acked \cup {t.job}
      BY <1>2 DEF Hold
    <2>2. /\ t.job.req \in Requests /\ t.job.part \subseteq Async(plan[t.job.req])
          /\ t.job \in Job
      BY JobFacts
    <2>3. Plan(plan'[t.job.req]) /\ plan'[t.job.req] = plan[t.job.req]
      BY <2>2, RequestFacts DEF IInv
    <2>4. \A i \in t.run.left : i \in succeeded'[t.job.req] => restored' > 0
      BY DEF Again
    <2>5. AckedOk(t.job)'
      BY <1>2, <2>2, <2>3, <2>4, EndedIsAccounted
    <2> QED BY <2>1, <2>5
  <1> QED BY <1>1, <1>2

LEMMA AcksKept ==
    ASSUME GInv, [Next]_vars
    PROVE  \A j \in acked' : AckedOk(j)'
  <1>1. IInv /\ DInv /\ NotTwice
    BY DEF GInv, DInv
  <1>2. ASSUME acked' = acked PROVE \A j \in acked' \ acked : AckedOk(j)'
    BY <1>2
  <1>3. ASSUME NEW w \in Workers, Take(w) PROVE \A j \in acked' \ acked : AckedOk(j)'
    <2>1. PICK m \in queue :
            /\ queue' = queue \ {m}
            /\ Hold(w, [job |-> m.job, copy |-> m.copy, run |-> Begin(plan[m.job.req], m.job.part)])
      BY <1>3 DEF Take
    <2> PICK d : d = Begin(plan[m.job.req], m.job.part)
      OBVIOUS
    <2> PICK t : t = [job |-> m.job, copy |-> m.copy, run |-> d]
      OBVIOUS
    <2>2. /\ m.job \in Sent /\ m.job \in Job /\ m.job.req \in Requests /\ m.copy \in Nat
          /\ d \in Dispatch /\ Run(m.job.req, m.job.part, d) /\ d.left \subseteq m.job.part
          /\ m.job.part \subseteq Positions
      BY <1>1, TakenRuns, RequestFacts DEF IInv, Run, RunsOver, Enabled
    <2>3. UNCHANGED <<plan, restored>> /\ calls' = calls /\ succeeded' = succeeded
      BY <1>3 DEF Take, reqVars, history
    <2>4. \A i \in d.left : i \in succeeded'[m.job.req] => Again(m.job.req, i)
      BY <1>1, <2>2, <2>3 DEF NotTwice, MayCall
    <2>5. /\ t \in [job: Job, copy: Nat, run: Dispatch] /\ Hold(w, t)
          /\ t.job = m.job /\ t.run = d
      BY <2>1, <2>2
    <2>6. RunsOver(plan[t.job.req], calls'[t.job.req], succeeded'[t.job.req], t.job.part, t.run)
      BY <2>2, <2>3, <2>5 DEF Run
    <2> QED BY <1>1, <2>2, <2>3, <2>4, <2>5, <2>6, HoldAccounts
  <1>4. ASSUME NEW w \in Workers, WorkerCall(w) PROVE \A j \in acked' \ acked : AckedOk(j)'
    <2> PICK r, i, e : r = task[w].job.req /\ e = task[w].run /\ i = First(e.left)
      OBVIOUS
    <2>1. task[w] # NoTask /\ UNCHANGED <<plan, restored>>
      BY <1>4 DEF WorkerCall, reqVars
    <2>2. PICK ok \in BOOLEAN : /\ Record(r, i, ok)
                                /\ Hold(w, [task[w] EXCEPT !.run = AfterCall(plan[r], @, ok)])
      BY <1>4 DEF WorkerCall
    <2> PICK d : d = AfterCall(plan[r], e, ok)
      OBVIOUS
    <2> PICK t : t = [job |-> task[w].job, copy |-> task[w].copy, run |-> d]
      OBVIOUS
    <2>3. /\ Hold(w, t) /\ d \in Dispatch /\ i \in Positions
          /\ RunsOver(plan[r], calls'[r], succeeded'[r], task[w].job.part, d)
      BY <1>1, <2>1, <2>2, WorkerCallRuns
    <2>4. /\ task[w] \in [job: Job, copy: Nat, run: Dispatch] /\ task[w].job \in Sent
          /\ r \in Requests /\ e \in Dispatch
      BY <1>1, <2>1, TaskFacts
    <2>5. /\ t \in [job: Job, copy: Nat, run: Dispatch] /\ t.job = task[w].job
          /\ t.job.req = r /\ t.run = d
      BY <2>3, <2>4
    <2>6. d.left \subseteq e.left /\ (ok => i \notin d.left)
      BY <2>4, CallsFollow
    <2>7. succeeded'[r] = Won(succeeded[r], i, ok)
      BY <1>1, <2>2, <2>3, <2>4, Recorded DEF IInv
    <2>8. ASSUME NEW k \in d.left, k \in succeeded'[r] PROVE Again(r, k)
      <3>1. k \in succeeded[r] /\ k \in e.left /\ k \in Positions
        BY <2>4, <2>6, <2>7, <2>8 DEF Won, Dispatch
      <3>2. MayCall(r, k)
        BY <2>1, <3>1 DEF MayCall, Busy
      <3> QED BY <1>1, <2>4, <3>1, <3>2 DEF NotTwice
    <2> QED BY <1>1, <2>1, <2>3, <2>4, <2>5, <2>8, HoldAccounts
  <1>5. ASSUME NEW r \in Requests, Execute(r) \/ Serve(r) \/ PublishFails(r) \/ Crash(r)
        PROVE  acked' = acked
    BY <1>5 DEF Serve, Execute, SyncCall, StartBackground, BackgroundCall, Publish, Respond,
       PublishFails, Crash, brokerVars
  <1>6. ASSUME NEW w \in Workers, WorkerLost(w) \/ VisibilityTimeout(w) \/ TimeLimit(w)
        PROVE  acked' = acked
    BY <1>6 DEF WorkerLost, VisibilityTimeout, TimeLimit
  <1>7. ASSUME UNCHANGED vars PROVE acked' = acked
    BY <1>7 DEF vars, brokerVars
  <1>8. \A j \in acked' \ acked : AckedOk(j)'
    BY <1>2, <1>3, <1>4, <1>5, <1>6, <1>7 DEF Next, Work
  <1> QED BY <1>8, AcksStay

(* A request answered with an error stays so, and its cause. *)
LEMMA ErrorStays ==
    ASSUME IInv, [Next]_vars, NEW r \in Requests, stage'[r] = "error",
           ~ (Execute(r) \/ SyncCall(r) \/ PublishFails(r))
    PROVE  stage[r] = "error" /\ unsent'[r] = unsent[r]
  <1>1. ASSUME NEW q \in Requests \ {r}, Execute(q) \/ Serve(q) \/ PublishFails(q) \/ Crash(q)
        PROVE  stage'[r] = stage[r] /\ unsent'[r] = unsent[r]
    BY <1>1 DEF Serve, Execute, SyncCall, Settle, StartBackground, BackgroundCall, Publish,
       Respond, PublishFails, Crash, IInv, TypeOK
  <1>2. ASSUME StartBackground(r) \/ BackgroundCall(r) \/ Publish(r) \/ Respond(r) \/ Crash(r)
        PROVE  stage[r] = "error" /\ unsent'[r] = unsent[r]
    BY <1>2 DEF StartBackground, BackgroundCall, Publish, Respond, Crash, IInv, TypeOK
  <1>3. ASSUME NEW w \in Workers,
               \/ Work(w) \/ WorkerLost(w) \/ VisibilityTimeout(w) \/ TimeLimit(w)
        PROVE  stage'[r] = stage[r] /\ unsent'[r] = unsent[r]
    BY <1>3 DEF Work, Take, WorkerCall, WorkerLost, VisibilityTimeout, TimeLimit, reqVars
  <1>4. ASSUME UNCHANGED vars PROVE stage'[r] = stage[r] /\ unsent'[r] = unsent[r]
    BY <1>4 DEF vars, reqVars
  <1> QED BY <1>1, <1>2, <1>3, <1>4 DEF Next, Serve

LEMMA CauseStays ==
    ASSUME GInv, [Next]_vars, NEW r \in Requests, stage[r] = "error", unsent'[r] = unsent[r]
    PROVE  CauseOk(r)'
  <1>1. IInv /\ DInv
    BY DEF GInv, DInv
  <1>2. Steady(r) /\ plan'[r] = plan[r]
    BY <1>1, StepsAreSteady DEF Steady
  <1>3. ASSUME NEW i \in Sync(plan[r]) PROVE ~MayCall(r, i)
    <2>1. \A m \in queue : m.job.req = r => i \notin m.job.part
      BY <1>1, <1>3, JobFacts DEF Sent, Async
    <2>2. \A w \in Busy : task[w].job.req = r => i \notin task[w].run.left
      BY <1>1, <1>3, TaskFacts, JobFacts DEF Busy, Run, RunsOver, Enabled, Async
    <2>3. background[r].status = "calling" => i \notin background[r].left
      BY <1>1, <1>3, BackgroundMayCall DEF Run, RunsOver, Enabled, Async
    <2> QED BY <2>1, <2>2, <2>3 DEF MayCall
  <1>4. ASSUME NEW i \in Sync(plan[r]), GivenUp(r, i) PROVE GivenUp(r, i)'
    <2>1. i \in DOMAIN plan[r] /\ i \in Positions
      BY <1>1, RequestFacts DEF IInv
    <2>2. i \notin succeeded'[r] \ succeeded[r]
      BY <1>1, <1>3, <2>1, StepsAreSteady
    <2> QED BY <1>4, <2>1, <2>2, GivenUpStays
  <1>5. CauseOk(r)
    BY DEF GInv
  <1> QED BY <1>2, <1>4, <1>5 DEF CauseOk, Cause, Sync

(* A dispatch of the sync effects that fails gives up one it did not settle. *)
LEMMA FailureIsCause ==
    ASSUME NEW r \in Requests, NEW d \in Dispatch, Plan(plan'[r]),
           RunsOver(plan'[r], calls'[r], succeeded'[r], Sync(plan'[r]), d),
           d.status = "failed", \A i \in d.left : i \notin succeeded'[r]
    PROVE  \E i \in Sync(plan'[r]) : GivenUp(r, i)'
  <1> DEFINE f == First(d.left)
  <1>1. d.left # {} /\ d.left \in SUBSET Nat /\ d.left \subseteq Sync(plan'[r])
    BY ResponseAssumption DEF RunsOver, Dispatch, Enabled
  <1>2. f \in d.left /\ f \in Sync(plan'[r])
    BY <1>1, FirstIsLeast
  <1>3. TriesUsed(r, f)'
    BY DEF RunsOver, TriesUsed, TriesUsedBy
  <1> QED BY <1>2, <1>3 DEF GivenUp

LEMMA CausesKept ==
    ASSUME GInv, [Next]_vars, NEW r \in Requests
    PROVE  CauseOk(r)'
  <1> SUFFICES ASSUME stage'[r] = "error" PROVE CauseOk(r)'
    BY DEF CauseOk, Cause
  <1>1. IInv /\ NotTwice
    BY DEF GInv, DInv
  <1>2. CASE Execute(r)
    <2>1. PICK p \in Responses : plan' = [plan EXCEPT ![r] = p] /\ Settle(r, p, Begin(p, Sync(p)))
      BY <1>2 DEF Execute
    <2> PICK d : d = Begin(p, Sync(p))
      OBVIOUS
    <2>2. /\ stage[r] = "new" /\ calls' = calls /\ succeeded' = succeeded /\ plan'[r] = p
          /\ plan[r] = NoEffects
      BY <1>1, <1>2, <2>1 DEF Execute, history, IInv, TypeOK, SyncOk
    <2>3. Plan(p) /\ Sync(p) \in SUBSET DOMAIN p /\ calls[r] \in Row
      BY <1>1, PlansAreLists, RequestFacts DEF IInv, Sync
    <2>4. d \in Dispatch /\ RunsOver(p, calls[r], succeeded[r], Sync(p), d)
      BY <2>3, Begins
    <2>5. d.status = "failed"
      BY <1>1, <2>1, <2>4 DEF Settle, IInv, TypeOK, Dispatch
    <2>6. \A i \in Positions : i \notin succeeded[r]
      BY <1>1, <2>2 DEF NotTwice, MayCall, Again, Async, NoEffects
    <2>7. \E i \in Sync(plan'[r]) : GivenUp(r, i)'
      BY <2>2, <2>3, <2>4, <2>5, <2>6, FailureIsCause DEF Dispatch
    <2> QED BY <2>7 DEF CauseOk, Cause
  <1>3. CASE SyncCall(r)
    <2> PICK e, i : e = sync[r] /\ i = First(e.left)
      OBVIOUS
    <2>1. PICK ok \in BOOLEAN : /\ Record(r, i, ok)
                                /\ Settle(r, plan[r], AfterCall(plan[r], e, ok))
      BY <1>3 DEF SyncCall
    <2> PICK d : d = AfterCall(plan[r], e, ok)
      OBVIOUS
    <2>2. stage[r] = "sync" /\ plan' = plan /\ e \in Dispatch /\ Plan(plan[r])
      BY <1>1, <1>3, RequestFacts DEF SyncCall, IInv
    <2>3. /\ d \in Dispatch /\ i \in Positions
          /\ RunsOver(plan[r], calls'[r], succeeded'[r], Sync(plan[r]), d)
      BY <1>1, <2>1, <2>2, SyncCallRuns
    <2>4. d.status = "failed"
      BY <1>1, <2>1, <2>3 DEF Settle, IInv, TypeOK, Dispatch
    <2>5. d.left \subseteq e.left /\ (ok => i \notin d.left)
      BY <2>2, CallsFollow
    <2>6. succeeded'[r] = Won(succeeded[r], i, ok)
      BY <1>1, <2>1, <2>3, Recorded DEF IInv
    <2>7. ASSUME NEW k \in d.left PROVE k \notin succeeded'[r]
      <3>1. k \in Sync(plan[r]) /\ k \in e.left /\ k \in Positions
        BY <2>2, <2>3, <2>5 DEF RunsOver, Enabled, Dispatch
      <3>2. MayCall(r, k) /\ ~Again(r, k)
        BY <2>2, <3>1 DEF MayCall, Again, Async
      <3>3. k \notin succeeded[r]
        BY <1>1, <3>1, <3>2 DEF NotTwice
      <3> QED BY <2>5, <2>6, <3>3 DEF Won
    <2>8. \E k \in Sync(plan'[r]) : GivenUp(r, k)'
      BY <2>2, <2>3, <2>4, <2>7, FailureIsCause
    <2> QED BY <2>8 DEF CauseOk, Cause
  <1>4. CASE PublishFails(r)
    <2>1. unsent'[r] # {}
      BY <1>1, <1>4 DEF PublishFails, IInv, UnsentOk
    <2> QED BY <2>1 DEF CauseOk, Cause
  <1>5. CASE ~ (Execute(r) \/ SyncCall(r) \/ PublishFails(r))
    BY <1>1, <1>5, ErrorStays, CauseStays
  <1> QED BY <1>2, <1>3, <1>4, <1>5

LEMMA InitGiven == Init => GInv
  <1> SUFFICES ASSUME Init PROVE GInv
    OBVIOUS
  <1>1. DInv
    BY InitCounts
  <1> QED BY <1>1 DEF Init, GInv, NotTwice, AckedApart, CauseOk

LEMMA NextGiven ==
    ASSUME GInv, [Next]_vars
    PROVE  GInv'
  <1>1. DInv'
    BY NextCounts DEF GInv
  <1> QED BY <1>1, NotTwiceKept, AckedApartKept, CausesKept, AcksKept DEF GInv

LEMMA GivenInvariant == Spec => []GInv
  BY InitGiven, NextGiven, PTL DEF Spec

(* A request past its effects has settled the sync ones and handed over the
   async ones. *)
LEMMA PastHasNoCause ==
    ASSUME IInv, NEW r \in Requests, stage[r] \in PastEffects
    PROVE  ~Cause(r)
  <1>1. SyncDone(r) /\ unsent[r] = {}
    BY DEF IInv, SyncOk, UnsentOk
  <1>2. ASSUME NEW i \in Sync(plan[r]), TriesUsed(r, i) PROVE i \in succeeded[r]
    BY <1>1, <1>2 DEF TriesUsed, SyncDone, Enabled, Settled
  <1>3. \A i \in Sync(plan[r]) : ~Redelivered(r, i)
    BY DEF Sync, Redelivered
  <1> QED BY <1>1, <1>2, <1>3 DEF Cause, GivenUp

(* Effects fail a request exactly when a sync one was tried as its policy says
   and did not succeed, or async ones were not handed over: a request answered
   with its response, or with the failure to build it, has no such cause
   (side_effect_dispatcher_service.py:149-173, catch_all_routes.py:99-105). *)
THEOREM ErrorsHaveCauses == Spec => []ErrorHasCause
  <1>1. GInv => ErrorHasCause
    BY PastHasNoCause DEF GInv, DInv, ErrorHasCause, CauseOk
  <1> QED BY <1>1, GivenInvariant, PTL

(* A job that was acknowledged has settled its effects, or given one up that
   did not succeed, but for jobs delivered twice (celery/app.py:17-27,
   README.md:178). *)
THEOREM AcknowledgedIsSettled == Spec => []AtLeastOnce
  <1>1. GInv => AtLeastOnce
    BY DEF GInv, AtLeastOnce, AckedOk
  <1> QED BY <1>1, GivenInvariant, PTL

(* No retry follows a success: an effect that succeeded is called again only
   when the broker delivers a message again
   (side_effect_dispatcher_service.py:208-243). *)
THEOREM SuccessEndsCalls == Spec => NoRepeats
  <1>1. ASSUME GInv, [Next]_vars
        PROVE  [\A r \in Requests : \A i \in DOMAIN plan[r] :
                  i \in succeeded[r] /\ calls'[r][i] # calls[r][i] => Redelivered(r, i)]_vars
    <2> SUFFICES ASSUME NEW r \in Requests, NEW i \in DOMAIN plan[r],
                        i \in succeeded[r], calls'[r][i] # calls[r][i]
                 PROVE  Redelivered(r, i)
      BY DEF vars
    <2>1. DInv /\ IInv /\ i \in Positions
      BY <1>1, RequestFacts DEF GInv, DInv, IInv
    <2>2. PICK q \in Requests, k \in Positions, ok \in BOOLEAN : Allowed(q, k, ok)
      BY <1>1, <2>1, NextAllowed DEF history
    <2>3. /\ calls'[q] = Called(calls[q], k)
          /\ \A u \in Requests \ {q} : calls'[u] = calls[u]
      BY <2>1, <2>2, Recorded DEF IInv, Allowed
    <2>4. q = r /\ k = i
      BY <2>1, <2>3, RequestFacts DEF Called, Row, IInv
    <2>5. Again(r, i)
      BY <1>1, <2>1, <2>2, <2>4 DEF GInv, NotTwice, Allowed
    <2> QED BY <2>1, <2>5, AgainIsRedelivered DEF IInv
  <1> QED BY <1>1, GivenInvariant, PTL DEF Spec, NoRepeats

=============================================================================
