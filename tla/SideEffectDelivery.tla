------------------------ MODULE SideEffectDelivery ------------------------
(***************************************************************************)
(* The side effects of served requests: sync ones are dispatched before    *)
(* the response is built, async ones are handed to the scheduler the       *)
(* settings choose, and what it accepted is dispatched later - by a task   *)
(* of the same event loop, or by Celery workers that take messages from a  *)
(* Redis broker, acknowledge them when they are through, and may die.      *)
(*                                                                         *)
(* A step is the completion of one provider call, publication or broker    *)
(* operation together with the code up to the next one.                    *)
(***************************************************************************)
EXTENDS SideEffectModel

CONSTANTS
    Requests,       \* requests served
    Workers,        \* Celery worker processes
    Schedulers,     \* values settings.async_task_scheduler may have
    BrokerFailures, \* whether publishing can fail
    Crashes,        \* whether the API process can die
    TimeLimits,     \* whether celery_task_time_limit is set
    MaxRestores,    \* bound: how often the broker delivers a message again
    MaxCount        \* bound: where the call counters saturate

ASSUME DeliveryAssumption ==
    /\ Schedulers \subseteq {"in_process", "celery"}
    /\ BrokerFailures \in BOOLEAN /\ Crashes \in BOOLEAN /\ TimeLimits \in BOOLEAN
    /\ MaxRestores \in Nat
    /\ MaxCount \in Nat
    /\ \A p \in Responses : \A i \in DOMAIN p : p[i].attempts * (1 + MaxRestores) < MaxCount

VARIABLES
    scheduler,  \* the scheduler this process was configured with
    plan,       \* the side effects of the mock a request resolved to
    stage,      \* how far a request is, or how it was answered
    sync,       \* its dispatch of the sync effects
    unsent,     \* async effects not handed over yet
    background, \* the in-process task for its async effects
    queue,      \* messages waiting in the broker
    task,       \* the message each worker holds, with its dispatch
    restored,   \* messages the broker put back so far
    acked,      \* history: jobs acknowledged after their dispatch ended
    killed,     \* history: jobs a time limit ended
    calls,      \* history: provider calls made, by request and position
    succeeded,  \* history: positions whose provider reported success
    crashed     \* history: requests whose process died under their effects

reqVars == <<scheduler, plan, stage, sync, unsent, background>>
brokerVars == <<queue, task, restored, acked, killed>>
history == <<calls, succeeded>>
vars == <<reqVars, brokerVars, history, crashed>>

(* A message carries one effect or an ordered batch; copies of it are told
   apart by the restoration they come from. *)
Job == [req: Requests, part: SUBSET Positions]
Message == [job: Job, copy: Nat]
NoDispatch == [left |-> {}, tries |-> 0, status |-> "done"]
NoTask == [job |-> [req |-> "none", part |-> {}], copy |-> 0, run |-> NoDispatch]
Task == [job: Job, copy: Nat, run: Dispatch] \cup {NoTask}

(* "error" is the 500 of a request whose effects failed, "unbuilt" that of one
   whose response could not be built after they were through. *)
Stage == {"new", "sync", "schedule", "respond", "ok", "unbuilt", "error", "lost"}
InService == {"sync", "schedule", "respond"}
PastEffects == {"ok", "unbuilt"}
Answers == PastEffects \cup {"error", "lost"}
NoEffects == <<>>

Busy == {w \in Workers : task[w] # NoTask}

(* Whoever is in the middle of a dispatch waits for a provider call. *)
Awaiting(d) == d.status = "calling" /\ d.left # {}

TypeOK ==
    /\ scheduler \in Schedulers
    /\ plan \in [Requests -> Responses \cup {NoEffects}]
    /\ stage \in [Requests -> Stage]
    /\ sync \in [Requests -> Dispatch]
    /\ unsent \in [Requests -> SUBSET Positions]
    /\ background \in [Requests -> Dispatch]
    /\ queue \subseteq Message
    /\ task \in [Workers -> Task]
    /\ restored \in 0..MaxRestores
    /\ acked \subseteq Job /\ killed \subseteq Job
    /\ calls \in [Requests -> [Positions -> 0..MaxCount]]
    /\ succeeded \in [Requests -> SUBSET Positions]
    /\ crashed \subseteq Requests
    /\ \A r \in Requests : stage[r] = "sync" <=> Awaiting(sync[r])
    /\ \A w \in Workers : task[w] # NoTask <=> Awaiting(task[w].run)

Init ==
    /\ scheduler \in Schedulers
    /\ plan = [r \in Requests |-> NoEffects]
    /\ stage = [r \in Requests |-> "new"]
    /\ sync = [r \in Requests |-> NoDispatch]
    /\ unsent = [r \in Requests |-> {}]
    /\ background = [r \in Requests |-> NoDispatch]
    /\ queue = {} /\ task = [w \in Workers |-> NoTask] /\ restored = 0
    /\ acked = {} /\ killed = {}
    /\ calls = [r \in Requests |-> [i \in Positions |-> 0]]
    /\ succeeded = [r \in Requests |-> {}] /\ crashed = {}

-----------------------------------------------------------------------------
(* A provider call for request r.  One that is reported as failed - a lost
   answer, a timeout, a status of 500 - may have taken effect all the same:
   every call counts, and success is what the provider reports.            *)

OneMore(n) == IF n < MaxCount THEN n + 1 ELSE n

Record(r, i, ok) ==
    /\ calls' = [calls EXCEPT ![r][i] = OneMore(@)]
    /\ succeeded' = [succeeded EXCEPT ![r] = IF ok THEN @ \cup {i} ELSE @]

(* The process dies under dispatch d, before or during the call it waits
   for: nobody learns what that call did. *)
CutOff(r, d) ==
    \/ UNCHANGED history
    \/ d.status = "calling" /\ Record(r, First(d.left), FALSE)

(* What follows the sync dispatch: raise, schedule, or build the response. *)
Settle(r, p, d) ==
    /\ sync' = [sync EXCEPT ![r] = d]
    /\ stage' = [stage EXCEPT ![r] =
                    CASE d.status = "calling" -> "sync"
                      [] d.status = "failed" -> "error"
                      [] OTHER -> IF Async(p) = {} THEN "respond" ELSE "schedule"]
    /\ unsent' = [unsent EXCEPT ![r] = IF d.status = "done" THEN Async(p) ELSE {}]

(* A request has resolved to a mock with these side effects. *)
Execute(r) ==
    /\ stage[r] = "new"
    /\ \E p \in Responses :
        /\ plan' = [plan EXCEPT ![r] = p]
        /\ Settle(r, p, Begin(p, Sync(p)))
    /\ UNCHANGED <<scheduler, background, brokerVars, history, crashed>>

SyncCall(r) ==
    /\ stage[r] = "sync"
    /\ \E ok \in BOOLEAN :
        /\ Record(r, First(sync[r].left), ok)
        /\ Settle(r, plan[r], AfterCall(plan[r], sync[r], ok))
    /\ UNCHANGED <<scheduler, plan, background, brokerVars, crashed>>

(* InProcessAsyncTaskScheduler: one task runs all of them in order. *)
StartBackground(r) ==
    /\ scheduler = "in_process" /\ stage[r] = "schedule"
    /\ background' = [background EXCEPT ![r] = Begin(plan[r], unsent[r])]
    /\ unsent' = [unsent EXCEPT ![r] = {}]
    /\ stage' = [stage EXCEPT ![r] = "respond"]
    /\ UNCHANGED <<scheduler, plan, sync, brokerVars, history, crashed>>

BackgroundCall(r) ==
    /\ background[r].status = "calling"
    /\ \E ok \in BOOLEAN :
        /\ Record(r, First(background[r].left), ok)
        /\ background' = [background EXCEPT ![r] = AfterCall(plan[r], @, ok)]
    /\ UNCHANGED <<scheduler, plan, stage, sync, unsent, brokerVars, crashed>>

(* CeleryAsyncTaskScheduler: parallel effects one message each, in order,
   then the sequential ones in one message. *)
NextPart(p, S) == IF S \cap Parallel(p) # {} THEN {First(S \cap Parallel(p))} ELSE S

SentAll(r) == {}  \* mutant: the handover stops after one message
StillUnsent(r) == unsent[r] \ NextPart(plan[r], unsent[r])

Publish(r) ==
    /\ scheduler = "celery" /\ stage[r] = "schedule"
    /\ queue' = queue \cup
         {[job |-> [req |-> r, part |-> NextPart(plan[r], unsent[r])], copy |-> 0]}
    /\ unsent' = [unsent EXCEPT ![r] = StillUnsent(r)]
    /\ stage' = [stage EXCEPT ![r] = IF StillUnsent(r) = {} THEN "respond" ELSE @]
    /\ UNCHANGED <<scheduler, plan, sync, background, task, restored, acked, killed, history, crashed>>

(* send_task raises: the client gets a 500, messages already sent stay. *)
PublishFails(r) ==
    /\ scheduler = "celery" /\ BrokerFailures /\ stage[r] = "schedule"
    /\ stage' = [stage EXCEPT ![r] = "error"]
    /\ UNCHANGED <<scheduler, plan, sync, unsent, background, brokerVars, history, crashed>>

(* The endpoint builds the response; only then is anything returned.  That
   fails on a header that is not latin-1 or a body that is not JSON, and the
   client gets a 500 though its effects are done or handed over. *)
Respond(r) ==
    /\ stage[r] = "respond"
    /\ \E answer \in PastEffects : stage' = [stage EXCEPT ![r] = answer]
    /\ UNCHANGED <<scheduler, plan, sync, unsent, background, brokerVars, history, crashed>>

(* The API process dies under a request or its background task. *)
Crash(r) ==
    /\ Crashes
    /\ \/ stage[r] \in InService /\ CutOff(r, sync[r])
       \/ background[r].status = "calling" /\ CutOff(r, background[r])
    /\ stage' = [stage EXCEPT ![r] = IF @ \in InService THEN "lost" ELSE @]
    /\ sync' = [sync EXCEPT ![r] = NoDispatch]
    /\ background' = [background EXCEPT ![r] = NoDispatch]
    /\ crashed' = crashed \cup {r}
    /\ UNCHANGED <<scheduler, plan, unsent, brokerVars>>

-----------------------------------------------------------------------------
(* Celery and its broker.                                                  *)

(* Messages are acknowledged when their dispatch has ended, however it did. *)
EarlyAck(w, t) ==  \* mutant: acknowledged before the dispatch, acks_late off
    /\ task' = [task EXCEPT ![w] = t]
    /\ acked' = acked \cup {t.job}
Hold(w, t) ==
    IF t.run.status = "calling"
    THEN task' = [task EXCEPT ![w] = t] /\ UNCHANGED acked
    ELSE task' = [task EXCEPT ![w] = NoTask] /\ acked' = acked \cup {t.job}

Take(w) ==
    /\ task[w] = NoTask
    /\ \E m \in queue :
        /\ queue' = queue \ {m}
        /\ Hold(w, [job |-> m.job, copy |-> m.copy,
                    run |-> Begin(plan[m.job.req], m.job.part)])
    /\ UNCHANGED <<reqVars, restored, killed, history, crashed>>

WorkerCall(w) ==
    LET t == task[w]
        r == t.job.req IN
    /\ t # NoTask
    /\ \E ok \in BOOLEAN :
        /\ Record(r, First(t.run.left), ok)
        /\ Hold(w, [t EXCEPT !.run = AfterCall(plan[r], @, ok)])
    /\ UNCHANGED <<reqVars, queue, restored, killed, crashed>>

ForgetJob(w) ==  \* mutant: the message of a lost worker is gone
    restored < MaxRestores /\ restored' = restored + 1 /\ UNCHANGED queue
Restore(w) ==
    /\ restored < MaxRestores
    /\ restored' = restored + 1
    /\ queue' = queue \cup {[job |-> task[w].job, copy |-> restored + 1]}

(* The worker process is lost: its message is delivered again. *)
WorkerLost(w) ==
    /\ task[w] # NoTask
    /\ Restore(w)
    /\ CutOff(task[w].job.req, task[w].run)
    /\ task' = [task EXCEPT ![w] = NoTask]
    /\ UNCHANGED <<reqVars, acked, killed, crashed>>

(* Redis delivers a message again that was not acknowledged for too long;
   the worker that holds it goes on. *)
VisibilityTimeout(w) ==
    /\ task[w] # NoTask
    /\ Restore(w)
    /\ UNCHANGED <<reqVars, task, acked, killed, history, crashed>>

(* A task over its time limit is killed and acknowledged. *)
TimeLimit(w) ==
    /\ TimeLimits /\ task[w] # NoTask
    /\ CutOff(task[w].job.req, task[w].run)
    /\ killed' = killed \cup {task[w].job}
    /\ task' = [task EXCEPT ![w] = NoTask]
    /\ UNCHANGED <<reqVars, queue, restored, acked, crashed>>

Serve(r) ==
    \/ SyncCall(r) \/ StartBackground(r) \/ BackgroundCall(r) \/ Publish(r) \/ Respond(r)

Work(w) == Take(w) \/ WorkerCall(w)

Next ==
    \/ \E r \in Requests : Execute(r) \/ Serve(r) \/ PublishFails(r) \/ Crash(r)
    \/ \E w \in Workers : Work(w) \/ WorkerLost(w) \/ VisibilityTimeout(w) \/ TimeLimit(w)

Spec == Init /\ [][Next]_vars

(* Provider calls end - in an answer, the timeout its connection or its client
   library set, or a broken connection - and workers keep taking messages.
   The task of BackgroundCall is taken to live on until then, though the
   scheduler keeps no reference to it (in_process_async_task_scheduler.py:26). *)
FairSpec ==
    /\ Spec
    /\ \A r \in Requests : WF_vars(Serve(r))
    /\ \A w \in Workers : WF_vars(Work(w))

-----------------------------------------------------------------------------
(* Properties.                                                             *)

(* An effect is settled once it took effect, or failed and is ignorable.  It
   has no tries left when it cannot be called or has used up its attempts, and
   is given up unless one of them succeeded: after that only another delivery
   of its message can give it up. *)
Settled(r, i) ==
    i \in succeeded[r] \/ (plan[r][i].policy = "ignore" /\ calls[r][i] > 0)
TriesUsed(r, i) ==
    /\ plan[r][i].enabled
    /\ \/ ~plan[r][i].callable
       \/ plan[r][i].policy = "fail_mock" /\ calls[r][i] > 0
       \/ plan[r][i].policy = "retry" /\ calls[r][i] >= plan[r][i].attempts
Redelivered(r, i) == restored > 0 /\ plan[r][i].mode = "async"
GivenUp(r, i) == TriesUsed(r, i) /\ (i \in succeeded[r] => Redelivered(r, i))

(* Which enabled effects have to be settled before another is called. *)
Precedes(p, i, j) ==
    /\ i # j /\ p[i].enabled
    /\ \/ p[i].mode = "sync" /\ (p[j].mode = "async" \/ i < j)
       \/ /\ p[i].mode = "async" /\ p[j].mode = "async" /\ i < j
          /\ \/ scheduler = "in_process"
             \/ p[i].strategy = "sequential" /\ p[j].strategy = "sequential"

(* Nothing is called before what precedes it is settled, nor is a response
   built before the request's sync effects are, whatever workers die and messages
   come twice (side_effect_dispatcher_service.py:42-47,
   side_effect_execution_service.py:52-53, README.md:175-176). *)
InOrder ==
    \A r \in Requests :
        /\ \A i, j \in DOMAIN plan[r] :
             Precedes(plan[r], i, j) /\ calls[r][j] > 0 => Settled(r, i)
        /\ stage[r] \in PastEffects =>
             \A i \in Enabled(plan[r], Sync(plan[r])) : Settled(r, i)

(* A provider is called once for an effect, or as often as its retries say,
   and that often again for each message the broker delivered again at most:
   Celery adds no retries of its own, and an effect that succeeded is not
   retried.  Sync ones are never repeated (side_effect_dispatcher_service.py:
   209-268, tasks/side_effects.py:26-32). *)
Attempts(e) == IF e.policy = "retry" THEN e.attempts ELSE 1
NoDuplicates ==
    \A r \in Requests : \A i \in DOMAIN plan[r] :
        LET deliveries == 1 + (IF plan[r][i].mode = "sync" THEN 0 ELSE restored)
        IN calls[r][i] <= Attempts(plan[r][i]) * deliveries

(* An effect that succeeded is called again only when the broker delivered a
   message again: no retry follows a success (side_effect_dispatcher_service.py:
   208-243). *)
NoRepeats ==
    [][\A r \in Requests : \A i \in DOMAIN plan[r] :
         i \in succeeded[r] /\ calls'[r][i] # calls[r][i] => Redelivered(r, i)]_vars

(* The effects fail a request exactly when a sync one was given up or async
   ones could not all be handed over: failures of ignored effects never do
   (side_effect_dispatcher_service.py:149-173), and a request whose response
   is built, or fails to be (mock_response_builder.py:23-35), has neither. *)
Cause(r) == (\E i \in Sync(plan[r]) : GivenUp(r, i)) \/ unsent[r] # {}
ErrorHasCause ==
    \A r \in Requests :
        /\ stage[r] = "error" => Cause(r)
        /\ stage[r] \in PastEffects => ~Cause(r)

(* What the broker was ever given: it waits, is being worked on, or is
   finished - acknowledged in the end or by a time limit. *)
Sent == {m.job : m \in queue} \cup {task[w].job : w \in Busy} \cup acked \cup killed

(* Once a request is through with scheduling to Celery, each async effect has
   been sent (celery_async_task_scheduler.py:42-50). *)
NoneLost ==
    \A r \in Requests : scheduler = "celery" /\ stage[r] \in {"respond"} \cup PastEffects =>
        \A i \in Async(plan[r]) : \E j \in Sent : j.req = r /\ i \in j.part

(* Workers, redeliveries and crashes implement a queue that loses nothing: a
   job stays sent until it is finished, nothing else is ever finished
   (tasks/side_effects.py:26-32, celery/app.py:17-27). *)
Queue == INSTANCE TaskQueue WITH Jobs <- Job, sent <- Sent, finished <- acked \cup killed
ImplementsQueue == Queue!Spec

(* A job is acknowledged only when each of its effects is settled, or one
   before it in the same job was given up: README.md:178, "at-least-once". *)
AtLeastOnce ==
    \A j \in acked : \A i \in Enabled(plan[j.req], j.part) :
        Settled(j.req, i) \/ \E k \in j.part : k <= i /\ GivenUp(j.req, k)

(* Every request is answered. *)
Answered == \A r \in Requests : stage[r] \in InService ~> stage[r] \in Answers

(* Every async effect of a request that is past its effects is settled in the
   end, whether its response could be built or not, unless one before it in
   its job was given up, a time limit ended the job, or - with the in-process
   scheduler, which keeps its tasks in memory - the process died
   (in_process_async_task_scheduler.py:26, config.py:38). *)
SameJob(p, k, i) ==
    k = i \/ scheduler = "in_process" \/ {k, i} \cap Parallel(p) = {}
Through(r, i) ==
    \/ Settled(r, i)
    \/ \E k \in Async(plan[r]) : k <= i /\ SameJob(plan[r], k, i) /\ GivenUp(r, k)
    \/ \E j \in killed : j.req = r /\ i \in j.part
    \/ scheduler = "in_process" /\ r \in crashed
EffectsSettle ==
    \A r \in Requests :
        stage[r] \in PastEffects ~> \A i \in Enabled(plan[r], Async(plan[r])) : Through(r, i)

(* "async side effects run after the HTTP response has already been
   returned", README.md:180-181. *)
AsyncAfterAnswer ==
    \A r \in Requests : \A i \in Async(plan[r]) : calls[r][i] > 0 => stage[r] \in Answers
=============================================================================
