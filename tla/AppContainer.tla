--------------------------- MODULE AppContainer ---------------------------
(***************************************************************************)
(* The dependency container of a process (AppContainer), from start-up to  *)
(* shutdown.  Its lazy properties check and set fields without a lock.     *)
(* FastAPI runs the synchronous dependencies that read them in a thread    *)
(* pool, so in the API two requests may build the same objects at once; a  *)
(* Celery worker runs one task at a time.                                  *)
(*                                                                         *)
(* Of an object only the executors (and the HTTP client) it reaches        *)
(* matter: they hold the connections aclose() has to close.                *)
(***************************************************************************)
EXTENDS Naturals, FiniteSets, Sequences, Functions

CONSTANTS
    Requests,       \* requests, or worker tasks, in progress at once
    Kinds,          \* kinds of executors, in the order aclose() takes them
    NoObject,       \* a field that is not set
    Roles,          \* "api" or "worker" processes
    InProcess,      \* whether async effects run in this process
    PluginFailures, \* whether loading provider plugins can fail
    CloseFailures   \* whether closing a client can fail

ASSUME ContainerAssumption ==
    /\ IsFiniteSet(Requests)
    /\ Kinds \in Seq(STRING) /\ Kinds # <<>>
    /\ \A m, n \in DOMAIN Kinds : Kinds[m] = Kinds[n] => m = n
    /\ Roles \subseteq {"api", "worker"}
    /\ InProcess \in BOOLEAN /\ PluginFailures \in BOOLEAN /\ CloseFailures \in BOOLEAN

VARIABLES
    role,       \* what the process is
    phase,      \* how far its life is
    field,      \* the container's fields
    made,       \* how many executors of each kind were created
    stack,      \* what a request is building, innermost last
    served,     \* executors that requests were served by
    background, \* executors that in-process background tasks hold
    open,       \* executors that hold connections
    mongo,      \* whether the database client is open
    left,       \* shutdown: the first kind not closed yet
    late,       \* history: executors used after they were closed
    overlap     \* history: most requests that were building at once

shutVars == <<mongo, left>>
vars == <<role, phase, field, made, stack, served, background, open, shutVars, late, overlap>>

(* The HTTP client is closed for good; executors open clients anew. *)
ClosedForGood == Kinds[1]

KindSet == {Kinds[n] : n \in DOMAIN Kinds}
Executor == [kind: KindSet, n: 1..Cardinality(Requests)]
Plugins == [kind |-> "plugins", n |-> 0]
Object == SUBSET (Executor \cup {Plugins})

ASSUME ObjectAssumption == \A object \in Object : object # NoObject

(* Fields: one of each name, and a provider and an executor per kind. *)
The(name) == <<name, "">>
ProviderOf(k) == <<"provider", k>>
ExecutorOf(k) == <<"executor", k>>

(* What a constructor takes from the container, in the order it asks. *)
Needs ==
    [request_context_resolver |-> <<"request_data_reader">>,
     request_data_reader |-> <<>>,
     mock_resolver_service |-> <<"mock_repository", "request_log_service",
                                 "scope_resolver", "mock_resolution_service">>,
     mock_repository |-> <<>>,
     request_log_service |-> <<"request_log_repository">>,
     request_log_repository |-> <<>>,
     scope_resolver |-> <<>>,
     mock_resolution_service |-> <<"rule_matcher", "mock_selection_policy">>,
     rule_matcher |-> <<>>, mock_selection_policy |-> <<>>,
     mock_response_builder |-> <<>>, connection_registry |-> <<>>,
     side_effect_execution_service |->
         <<"side_effect_dispatcher_service", "async_task_scheduler">>,
     async_task_scheduler |->
         IF InProcess THEN <<"side_effect_dispatcher_service">> ELSE <<>>,
     side_effect_dispatcher_service |-> <<"side_effect_provider_registry">>]

Names == DOMAIN Needs

Registry == The("side_effect_provider_registry")
RegistryNeeds ==
    [n \in DOMAIN Kinds |-> ProviderOf(Kinds[n])] \o <<The("connection_registry")>>

Fields == {The(name) : name \in Names} \cup {Registry}
          \cup {ProviderOf(k) : k \in KindSet} \cup {ExecutorOf(k) : k \in KindSet}

(* What an endpoint, or a task, depends on. *)
Request == The("request")
RequestNeeds ==
    IF role = "api"
    THEN <<"request_context_resolver", "mock_resolver_service",
           "side_effect_execution_service", "mock_response_builder">>
    ELSE <<"side_effect_dispatcher_service">>

Parts(f) ==
    CASE f[1] = "executor" -> <<>>
      [] f[1] = "provider" -> <<The("connection_registry"), ExecutorOf(f[2])>>
      [] f = Registry -> RegistryNeeds
      [] OTHER -> LET names == IF f = Request THEN RequestNeeds ELSE Needs[f[1]]
                  IN [n \in DOMAIN names |-> The(names[n])]

(* An object being built: the parts it has, and what they reach. *)
Frame == [field: Fields \cup {Request}, taken: Nat, holds: Object]

(* What reaches no executor makes no difference when it is built twice: it
   is taken, with all it needs, in one step. *)
Plain == Names \ {"side_effect_execution_service", "async_task_scheduler",
                  "side_effect_dispatcher_service"}
NeedsOf(names) == names \cup UNION {Range(Needs[name]) : name \in names}
PlainFields == {The(name) : name \in Plain}
WithNeeds(name) == NeedsOf(NeedsOf(NeedsOf({name})))

Top(t) == stack[t][Len(stack[t])]
Complete(fr) == fr.taken = Len(Parts(fr.field))

Idle(t) == stack[t] = <<>>
Serving(t) == ~Idle(t) /\ Top(t).field = Request /\ Complete(Top(t))
Building == {t \in Requests : ~Idle(t) /\ ~Serving(t)}

TypeOK ==
    /\ role \in Roles
    /\ phase \in {"starting", "running", "closing", "stopped", "raised", "failed"}
    /\ field \in [Fields -> Object \cup {NoObject}]
    /\ made \in [KindSet -> 0..Cardinality(Requests)]
    /\ stack \in [Requests -> Seq(Frame)]
    /\ \A t \in Requests : \A n \in DOMAIN stack[t] :
        /\ stack[t][n].taken <= Len(Parts(stack[t][n].field))
        /\ n = 1 <=> stack[t][n].field = Request
    /\ served \subseteq Executor /\ background \subseteq Executor
    /\ open \subseteq Executor /\ late \subseteq Executor
    /\ mongo \in BOOLEAN /\ left \in 1..Len(Kinds) + 1
    /\ overlap \in 0..Cardinality(Requests)

Init ==
    /\ role \in Roles /\ phase = "starting"
    /\ field = [f \in Fields |-> NoObject]
    /\ made = [k \in KindSet |-> 0]
    /\ stack = [t \in Requests |-> <<>>]
    /\ served = {} /\ background = {} /\ open = {} /\ mongo = FALSE /\ left = 1
    /\ late = {} /\ overlap = 0

-----------------------------------------------------------------------------
(* Start-up: the API opens the database client, and may fail to use it.    *)

Start ==
    /\ phase = "starting"
    /\ phase' \in {"running"} \cup IF role = "api" THEN {"failed"} ELSE {}
    /\ mongo' = (role = "api")
    /\ UNCHANGED <<role, field, made, stack, served, background, open, left, late, overlap>>

-----------------------------------------------------------------------------
(* Requests build what they depend on, part by part.  A lazy property is   *)
(* a look at its field, the construction, the assignment, and another look *)
(* at the field for the value it returns.                                  *)

Push(t, f) == stack' = [stack EXCEPT ![t] = Append(@, [field |-> f, taken |-> 0, holds |-> {}])]
Taken(fr, object) ==
    [field |-> fr.field, taken |-> fr.taken + 1, holds |-> fr.holds \cup object]
Take(t, object) == stack' = [stack EXCEPT ![t][Len(stack[t])] = Taken(@, object)]
Pop(t) == stack' = [stack EXCEPT ![t] = SubSeq(@, 1, Len(@) - 1)]

Arrive(t) ==
    /\ phase = "running" /\ Idle(t)
    /\ role = "worker" => \A u \in Requests : Idle(u)
    /\ Push(t, Request)
    /\ overlap' = IF Cardinality(Building) < overlap THEN overlap ELSE Cardinality(Building) + 1
    /\ UNCHANGED <<role, phase, field, made, served, background, open, shutVars, late>>

(* The next part is in its field, or has to be built first. *)
Look(t) ==
    LET fr == Top(t)
        part == Parts(fr.field)[fr.taken + 1] IN
    /\ ~Idle(t) /\ ~Complete(fr)
    /\ \/ field[part] = NoObject /\ part \notin PlainFields /\ Push(t, part) /\ UNCHANGED field
       \/ /\ field[part] # NoObject /\ Take(t, field[part]) /\ UNCHANGED field
       \/ /\ field[part] = NoObject /\ part \in PlainFields /\ Take(t, {})
          /\ field' = [f \in Fields |-> IF f \in {The(name) : name \in WithNeeds(part[1])}
                                       THEN {} ELSE field[f]]
    /\ UNCHANGED <<role, phase, made, served, background, open, shutVars, late, overlap>>

(* Executors are created anew; the registry has its plugins loaded before it
   is published. *)
NewExecutor(f) ==
    {[kind |-> k, n |-> made[k] + 1] : k \in {k \in KindSet : f = ExecutorOf(k)}}
Built(f, fr) ==
    fr.holds \cup NewExecutor(f)
    \cup (IF f = Registry THEN {Plugins} ELSE {})

EarlyPublish(fr) ==  \* mutant: the registry is published before it is filled
    fr.field = Registry \/ Complete(fr)
Ready(fr) == Complete(fr)

Store(t) ==
    LET fr == Top(t)
        f == fr.field IN
    /\ ~Idle(t) /\ f # Request /\ Ready(fr)
    /\ field' = [field EXCEPT ![f] = Built(f, fr)]
    /\ made' = [k \in KindSet |-> IF f = ExecutorOf(k) THEN made[k] + 1 ELSE made[k]]
    /\ Pop(t)
    /\ UNCHANGED <<role, phase, served, background, open, shutVars, late, overlap>>

(* A plugin cannot be imported, created, or registered, or is there already:
   the request fails, and what was built for the registry stays. *)
StartsOver ==  \* mutant: a failure clears the fields filled so far
    [f \in Fields |-> IF \E k \in KindSet : f = ExecutorOf(k) \/ f = ProviderOf(k)
                      THEN NoObject ELSE field[f]]
PluginError == field

SwallowsError(t) == SubSeq(stack[t], 1, Len(stack[t]) - 1)  \* mutant: the property is asked again
KeepsFrame(t) == <<Top(t)>>  \* mutant: the failed registry is left in construction
Unwound(t) == <<>>

PluginFails(t) ==
    /\ PluginFailures
    /\ ~Idle(t) /\ Top(t).field = Registry /\ Complete(Top(t))
    /\ field' = PluginError
    /\ stack' = [stack EXCEPT ![t] = Unwound(t)]
    /\ UNCHANGED <<role, phase, made, served, background, open, shutVars, late, overlap>>

(* The request is answered, after its effects used the executors it reaches. *)
Answer(t) ==
    /\ Serving(t)
    /\ stack' = [stack EXCEPT ![t] = <<>>]
    /\ served' = served \cup (Top(t).holds \ {Plugins})
    /\ UNCHANGED <<role, phase, field, made, background, open, shutVars, late, overlap>>

-----------------------------------------------------------------------------
(* Background tasks and shutdown.  The server lets requests finish before  *)
(* it shuts the application down; nothing waits for background tasks.      *)

Position(e) == CHOOSE n \in DOMAIN Kinds : Kinds[n] = e.kind

(* By then the effects of the requests have opened some clients, and some
   tasks still run.  Nothing reads the fields of the services any more. *)
BeginShutdown ==
    /\ phase = "running" /\ \A t \in Requests : Idle(t)
    /\ phase' = "closing"
    /\ open' \in SUBSET served
    /\ background' \in IF role = "api" /\ InProcess THEN SUBSET served ELSE {{}}
    /\ field' = [f \in Fields |-> IF f[1] = "executor" THEN field[f] ELSE NoObject]
    /\ served' = {}
    /\ UNCHANGED <<role, made, stack, shutVars, late, overlap>>

(* A task can use any executor it holds but a closed HTTP client. *)
BackgroundUse ==
    /\ phase = "closing"
    /\ \E e \in background :
        LET closed == field[ExecutorOf(e.kind)] = {e} /\ Position(e) < left IN
        /\ ~(closed /\ e.kind = ClosedForGood)
        /\ open' = open \cup {e}
        /\ late' = IF closed THEN late \cup {e} ELSE late
    /\ UNCHANGED <<role, phase, field, made, stack, served, background, shutVars, overlap>>

(* What aclose() closes of a kind: the executor its field holds. *)
LastForgotten(n) ==  \* mutant: the last executor is missing from aclose()
    IF n = Len(Kinds) \/ field[ExecutorOf(Kinds[n])] = NoObject
    THEN {} ELSE open \cap field[ExecutorOf(Kinds[n])]
Closes(n) ==
    IF field[ExecutorOf(Kinds[n])] = NoObject THEN {} ELSE open \cap field[ExecutorOf(Kinds[n])]

CloseNext ==
    /\ phase = "closing" /\ left <= Len(Kinds)
    /\ open' = open \ Closes(left)
    /\ left' = left + 1
    /\ UNCHANGED <<role, phase, field, made, stack, served, background, mongo, late, overlap>>

(* One of its clients fails to close: aclose() raises, and neither the
   executors behind it nor the database client are closed. *)
CloseFails ==
    /\ CloseFailures
    /\ phase = "closing" /\ left <= Len(Kinds) /\ Closes(left) # {}
    /\ phase' = "raised"
    /\ UNCHANGED <<role, field, made, stack, served, background, open, shutVars, late, overlap>>

CloseMongo ==
    /\ phase = "closing" /\ left > Len(Kinds)
    /\ mongo' = FALSE
    /\ phase' = "stopped"
    /\ UNCHANGED <<role, field, made, stack, served, background, open, left, late, overlap>>

Build(t) == Look(t) \/ Store(t)
Shutdown == CloseNext \/ CloseFails \/ CloseMongo

Next ==
    \/ Start \/ BackgroundUse \/ BeginShutdown \/ Shutdown
    \/ \E t \in Requests : Arrive(t) \/ Build(t) \/ PluginFails(t) \/ Answer(t)

Spec == Init /\ [][Next]_vars

(* Threads run on, and effects end. *)
FairSpec == Spec /\ \A t \in Requests : WF_vars(Build(t)) /\ WF_vars(Answer(t))

-----------------------------------------------------------------------------
(* Properties.                                                             *)

(* No request is served by a half-built service: whatever threads overlap and
   plugins fail, it reaches the plugins and an executor of each kind, and
   without an overlap just one, the one the container will close
   (container.py:308-364). *)
ServiceIsComplete ==
    \A t \in Requests : Serving(t) =>
        LET held == Top(t).holds IN
        /\ Plugins \in held /\ \A k \in KindSet : \E e \in held : e.kind = k
        /\ overlap = 1 => \A e \in held \ {Plugins} : field[ExecutorOf(e.kind)] = {e}

(* There are never more executors of a kind than requests that were building
   at once: requests that fail on a plugin leave theirs to the next, and later
   ones reuse what is there (container.py:312-359). *)
NoExecutorRemade == \A k \in KindSet : made[k] <= overlap

(* What a shutdown leaves open has a reason: a race of first requests in which
   the field of the executor was overwritten, a background task that used it
   after it was closed, or an earlier close that raised, which is also the one
   reason why the database client stays open (container.py:366-379,
   main.py:49-52). *)
LeftOpen(e) ==
    \/ overlap > 1 /\ field[ExecutorOf(e.kind)] # {e}
    \/ e \in late
    \/ phase = "raised" /\ Position(e) >= left
ClosedOrExplained ==
    phase \in {"stopped", "raised"} =>
      /\ \A e \in open : LeftOpen(e)
      /\ mongo => phase = "raised"

(* Every request that arrives is answered, or fails: the lazy properties need
   each other in no circle. *)
Answered == \A t \in Requests : ~Idle(t) ~> Idle(t)

(* "Close infrastructure resources owned by the container", container.py:367:
   a shutdown that ran to its end has closed every executor. *)
ClosesAll == phase = "stopped" => open = {}
=============================================================================
