------------------------ MODULE AppContainer_proofs ------------------------
(***************************************************************************)
(* The container for any number of requests and any kinds of executors:    *)
(* what a race of first requests can cost, and what it cannot.             *)
(***************************************************************************)
EXTENDS AppContainer, FiniteSetTheorems, SequenceTheorems, TLAPS

-----------------------------------------------------------------------------
(* The invariant behind the properties.                                    *)

(* What a field promises of its object, however it came to be. *)
Full(object) == Plugins \in object /\ \A k \in KindSet : \E e \in object : e.kind = k
Gives(f, object) ==
    /\ \A k \in KindSet : f \in {ExecutorOf(k), ProviderOf(k)} => \E e \in object : e.kind = k
    /\ f \in {Registry, The("side_effect_dispatcher_service"), The("side_effect_execution_service")}
         => Full(object)

(* A frame holds what its parts so far promise; only the innermost can be
   complete. *)
FrameGives(fr) ==
    /\ \A m \in 1..fr.taken : Gives(Parts(fr.field)[m], fr.holds)
    /\ fr.taken = 0 => fr.holds = {}

StackInv ==
    /\ \A t \in Requests : \A n \in DOMAIN stack[t] :
         /\ FrameGives(stack[t][n])
         /\ n < Len(stack[t]) => ~Complete(stack[t][n])
    /\ phase # "running" => \A t \in Requests : Idle(t)

FieldInv == \A f \in Fields : field[f] # NoObject => Gives(f, field[f])

(* Every executor that is held anywhere was made, and the field of its kind
   has one of those that were. *)
Made(object) == \A e \in object \ {Plugins} : e.n <= made[e.kind]

HeldInv ==
    /\ \A f \in Fields : field[f] # NoObject => Made(field[f])
    /\ \A t \in Requests : \A n \in DOMAIN stack[t] : Made(stack[t][n].holds)
    /\ Made(served) /\ Made(background) /\ Made(open)
    /\ \A k \in KindSet : field[ExecutorOf(k)] # NoObject =>
         \E m \in 1..made[k] : field[ExecutorOf(k)] = {[kind |-> k, n |-> m]}

(* Whoever waits to make an executor began to when there was none, so those
   already made and those under way were never more than the requests that
   were building at once. *)
Waiting(k) == {t \in Requests : ~Idle(t) /\ Top(t).field = ExecutorOf(k)}

CountInv ==
    /\ Cardinality(Building) <= overlap
    /\ \A k \in KindSet : /\ field[ExecutorOf(k)] = NoObject => made[k] = 0
                          /\ made[k] + Cardinality(Waiting(k)) <= overlap

(* What aclose() has passed is closed, unless a task used it again. *)
CloseInv ==
    /\ phase \in {"starting", "running"} => left = 1
    /\ phase = "stopped" => left = Len(Kinds) + 1
    /\ \A e \in open : field[ExecutorOf(e.kind)] = {e} /\ Position(e) < left => e \in late

IInv == TypeOK /\ StackInv /\ FieldInv /\ HeldInv /\ CountInv /\ CloseInv

-----------------------------------------------------------------------------
(* What needs what.                                                        *)

Dispatcher == The("side_effect_dispatcher_service")
Execution == The("side_effect_execution_service")

LEMMA NamesAre ==
    Names = {"request_context_resolver", "request_data_reader", "mock_resolver_service",
             "mock_repository", "request_log_service", "request_log_repository", "scope_resolver",
             "mock_resolution_service", "rule_matcher", "mock_selection_policy",
             "mock_response_builder", "connection_registry", "side_effect_execution_service",
             "async_task_scheduler", "side_effect_dispatcher_service"}
  BY DEF Names, Needs

LEMMA PlainNeeds ==
    /\ Plain \subseteq Names /\ "connection_registry" \in Plain
    /\ \A name \in Plain : Needs[name] \in Seq(Plain)
  <1>1. Plain = {"request_context_resolver", "request_data_reader", "mock_resolver_service",
                 "mock_repository", "request_log_service", "request_log_repository", "scope_resolver",
                 "mock_resolution_service", "rule_matcher", "mock_selection_policy",
                 "mock_response_builder", "connection_registry"}
    BY NamesAre DEF Plain
  <1>2. /\ Needs["request_context_resolver"] = <<"request_data_reader">>
        /\ Needs["mock_resolver_service"] = <<"mock_repository", "request_log_service",
                                              "scope_resolver", "mock_resolution_service">>
        /\ Needs["request_log_service"] = <<"request_log_repository">>
        /\ Needs["mock_resolution_service"] = <<"rule_matcher", "mock_selection_policy">>
        /\ \A name \in {"request_data_reader", "mock_repository", "request_log_repository",
                        "scope_resolver", "rule_matcher", "mock_selection_policy",
                        "mock_response_builder", "connection_registry"} : Needs[name] = <<>>
    BY DEF Needs
  <1>3. Needs["request_context_resolver"] \in Seq(Plain) /\ Needs["request_log_service"] \in Seq(Plain)
    BY <1>1, <1>2
  <1>4. Needs["mock_resolution_service"] \in Seq(Plain)
    BY <1>1, <1>2
  <1>5. Needs["mock_resolver_service"] \in Seq(Plain)
    BY <1>1, <1>2
  <1>6. \A name \in Plain :
          \/ name \in {"request_context_resolver", "mock_resolver_service",
                       "request_log_service", "mock_resolution_service"}
          \/ Needs[name] = <<>>
    BY <1>1, <1>2
  <1>7. <<>> \in Seq(Plain)
    OBVIOUS
  <1>8. Plain \subseteq Names /\ "connection_registry" \in Plain
    BY <1>1, NamesAre
  <1> QED BY <1>3, <1>4, <1>5, <1>6, <1>7, <1>8

(* What is taken with a plain object is plain. *)
LEMMA WithNeedsArePlain ==
    \A name \in Plain : WithNeeds(name) \subseteq Plain
  <1>1. ASSUME NEW names \in SUBSET Plain PROVE NeedsOf(names) \subseteq Plain
    <2>1. \A name \in Plain : Range(Needs[name]) \subseteq Plain
      BY PlainNeeds DEF Range
    <2> QED BY <2>1 DEF NeedsOf
  <1>2. ASSUME NEW name \in Plain PROVE WithNeeds(name) \subseteq Plain
    <2>1. {name} \in SUBSET Plain
      OBVIOUS
    <2>2. NeedsOf({name}) \in SUBSET Plain
      BY <1>1, <2>1
    <2>3. NeedsOf(NeedsOf({name})) \in SUBSET Plain
      BY <1>1, <2>2
    <2> QED BY <1>1, <2>3 DEF WithNeeds
  <1> QED BY <1>2

LEMMA OtherNeeds ==
    /\ Needs["side_effect_dispatcher_service"] = <<"side_effect_provider_registry">>
    /\ Needs["side_effect_execution_service"] =
         <<"side_effect_dispatcher_service", "async_task_scheduler">>
    /\ Needs["async_task_scheduler"] = <<"side_effect_dispatcher_service">> \/ Needs["async_task_scheduler"] = <<>>
    /\ Names = Plain \cup {"side_effect_dispatcher_service", "side_effect_execution_service",
                           "async_task_scheduler"}
  <1>1. /\ Needs["side_effect_dispatcher_service"] = <<"side_effect_provider_registry">>
        /\ Needs["side_effect_execution_service"] =
             <<"side_effect_dispatcher_service", "async_task_scheduler">>
    BY DEF Needs
  <1>2. Needs["async_task_scheduler"] =
          IF InProcess THEN <<"side_effect_dispatcher_service">> ELSE <<>>
    BY DEF Needs
  <1>3. Names = Plain \cup {"side_effect_dispatcher_service", "side_effect_execution_service",
                            "async_task_scheduler"}
    BY NamesAre DEF Plain
  <1> QED BY <1>1, <1>2, <1>3

(* The names of fields are different. *)
LEMMA FieldsDiffer ==
    /\ \A name \in Names : /\ The(name)[1] = name
                           /\ name \notin {"executor", "provider", "request", "side_effect_provider_registry"}
    /\ \A k : ExecutorOf(k)[1] = "executor" /\ ExecutorOf(k)[2] = k
    /\ \A k : ProviderOf(k)[1] = "provider" /\ ProviderOf(k)[2] = k
    /\ Registry[1] = "side_effect_provider_registry" /\ Request[1] = "request"
    /\ Dispatcher[1] = "side_effect_dispatcher_service"
    /\ Execution[1] = "side_effect_execution_service"
  <1>1. \A name \in Names : name \notin {"executor", "provider", "request", "side_effect_provider_registry"}
    BY NamesAre
  <1> QED BY <1>1 DEF The, ExecutorOf, ProviderOf, Registry, Request, Dispatcher, Execution

LEMMA PartsOf ==
    /\ \A k \in KindSet : Parts(ExecutorOf(k)) = <<>>
    /\ \A k \in KindSet : Parts(ProviderOf(k)) = <<The("connection_registry"), ExecutorOf(k)>>
    /\ Parts(Registry) = RegistryNeeds
    /\ \A name \in Names : Parts(The(name)) = [n \in DOMAIN Needs[name] |-> The(Needs[name][n])]
    /\ Parts(Request) = [n \in DOMAIN RequestNeeds |-> The(RequestNeeds[n])]
  <1>1. \A k \in KindSet : Parts(ExecutorOf(k)) = <<>>
    BY FieldsDiffer DEF Parts
  <1>2. \A k \in KindSet : Parts(ProviderOf(k)) = <<The("connection_registry"), ExecutorOf(k)>>
    BY FieldsDiffer DEF Parts
  <1>3. Parts(Registry) = RegistryNeeds
    BY FieldsDiffer DEF Parts
  <1>4. ASSUME NEW name \in Names
        PROVE  Parts(The(name)) = [n \in DOMAIN Needs[name] |-> The(Needs[name][n])]
    <2>1. /\ The(name)[1] = name /\ name # "executor" /\ name # "provider"
          /\ The(name) # Registry /\ The(name) # Request
      BY FieldsDiffer
    <2> QED BY <2>1 DEF Parts
  <1>5. Parts(Request) = [n \in DOMAIN RequestNeeds |-> The(RequestNeeds[n])]
    BY FieldsDiffer DEF Parts
  <1> QED BY <1>1, <1>2, <1>3, <1>4, <1>5

LEMMA PartsType ==
    /\ \A f \in Fields \cup {Request} : Parts(f) \in Seq(Fields)
    /\ Len(Parts(Request)) > 0
    /\ \A k \in KindSet : Len(Parts(ExecutorOf(k))) = 0
  <1> DEFINE Known == Names \cup {"side_effect_provider_registry"}
  <1>1. /\ \A name \in Known : The(name) \in Fields
        /\ Registry \in Fields
        /\ \A k \in KindSet : ExecutorOf(k) \in Fields /\ ProviderOf(k) \in Fields
    BY DEF Fields, Registry
  <1>2. ASSUME NEW f \in Fields
        PROVE  \/ f = Registry \/ \E name \in Names : f = The(name)
               \/ \E k \in KindSet : f = ExecutorOf(k) \/ f = ProviderOf(k)
    BY DEF Fields
  <1>3. \A name \in Names : Needs[name] \in Seq(Known)
    <2>1. /\ Needs["side_effect_dispatcher_service"] \in Seq(Known)
          /\ Needs["side_effect_execution_service"] \in Seq(Known)
          /\ Needs["async_task_scheduler"] \in Seq(Known)
      <3>1. /\ "side_effect_dispatcher_service" \in Known /\ "async_task_scheduler" \in Known
            /\ "side_effect_provider_registry" \in Known
        BY NamesAre
      <3> HIDE DEF Known
      <3>2. <<>> \in Seq(Known) /\ \A x, y \in Known : <<x>> \in Seq(Known) /\ <<x, y>> \in Seq(Known)
        OBVIOUS
      <3> QED BY <3>1, <3>2, OtherNeeds
    <2>2. \A name \in Plain : Needs[name] \in Seq(Known)
      BY PlainNeeds
    <2> QED BY <2>1, <2>2, OtherNeeds
  <1>4. RequestNeeds \in Seq(Known) /\ Len(RequestNeeds) > 0
    <2>1. /\ "request_context_resolver" \in Known /\ "mock_resolver_service" \in Known
          /\ "side_effect_execution_service" \in Known /\ "mock_response_builder" \in Known
          /\ "side_effect_dispatcher_service" \in Known
      BY NamesAre
    <2> HIDE DEF Known
    <2>2. CASE role = "api"
      BY <2>1, <2>2 DEF RequestNeeds
    <2>3. CASE role # "api"
      BY <2>1, <2>3 DEF RequestNeeds
    <2> QED BY <2>2, <2>3
  <1>5. ASSUME NEW names \in Seq(Known)
        PROVE  /\ [n \in DOMAIN names |-> The(names[n])] \in Seq(Fields)
               /\ Len([n \in DOMAIN names |-> The(names[n])]) = Len(names)
    BY <1>1
  <1>6. RegistryNeeds \in Seq(Fields)
    <2> PICK kinds : kinds = [n \in DOMAIN Kinds |-> ProviderOf(Kinds[n])]
      OBVIOUS
    <2>1. kinds \in Seq(Fields)
      BY <1>1, ContainerAssumption DEF KindSet
    <2>2. <<The("connection_registry")>> \in Seq(Fields)
      BY <1>1, NamesAre
    <2> QED BY <2>1, <2>2, ConcatProperties DEF RegistryNeeds
  <1> HIDE DEF Known
  <1>7. Parts(Request) \in Seq(Fields) /\ Len(Parts(Request)) > 0
    BY <1>4, <1>5, PartsOf
  <1>8. \A name \in Names : Parts(The(name)) \in Seq(Fields)
    BY <1>3, <1>5, PartsOf
  <1>9. \A k \in KindSet : Parts(ProviderOf(k)) \in Seq(Fields)
    <2>1. The("connection_registry") \in Fields
      BY <1>1, NamesAre DEF Known
    <2>2. \A x, y \in Fields : <<x, y>> \in Seq(Fields)
      OBVIOUS
    <2> QED BY <1>1, <2>1, <2>2, PartsOf
  <1>10. \A k \in KindSet : Parts(ExecutorOf(k)) \in Seq(Fields) /\ Len(Parts(ExecutorOf(k))) = 0
    <2>1. <<>> \in Seq(Fields) /\ Len(<<>>) = 0
      OBVIOUS
    <2> QED BY <2>1, PartsOf
  <1>11. Parts(Registry) \in Seq(Fields)
    BY <1>6, PartsOf
  <1> QED BY <1>2, <1>7, <1>8, <1>9, <1>10, <1>11

(* What does not depend on executors promises nothing. *)
LEMMA PlainPromisesNothing ==
    \A f \in PlainFields : /\ f \in Fields /\ \A k : f # ExecutorOf(k)
                           /\ \A object : Gives(f, object)
  <1>1. ASSUME NEW name \in Plain
        PROVE  /\ The(name) \in Fields /\ The(name) \notin {Registry, Dispatcher, Execution}
               /\ \A k : The(name) # ExecutorOf(k) /\ The(name) # ProviderOf(k)
    <2>1. name \in Names /\ name \notin {"side_effect_dispatcher_service", "side_effect_execution_service"}
      BY PlainNeeds DEF Plain
    <2> QED BY <2>1, FieldsDiffer DEF Fields
  <1> QED BY <1>1 DEF PlainFields, Gives, Dispatcher, Execution

(* A complete object holds all it promises. *)
LEMMA CompleteGives ==
    ASSUME NEW fr \in Frame, Complete(fr), FrameGives(fr),
           fr.field \in Fields, fr.holds \in Object
    PROVE  Gives(fr.field, Built(fr.field, fr))
  <1> PICK f, parts : f = fr.field /\ parts = Parts(fr.field)
    OBVIOUS
  <1>1. /\ parts \in Seq(Fields) /\ fr.taken = Len(parts)
        /\ \A m \in 1..Len(parts) : Gives(parts[m], fr.holds)
    BY PartsType DEF Complete, FrameGives
  <1>2. fr.holds \subseteq Built(f, fr)
    BY DEF Built
  <1>3. ASSUME NEW k \in KindSet, f = ExecutorOf(k)
        PROVE  \E e \in Built(f, fr) : e.kind = k
    <2>1. [kind |-> k, n |-> made[k] + 1] \in Built(f, fr)
      BY <1>3 DEF Built, NewExecutor
    <2> QED BY <2>1
  <1>4. ASSUME NEW k \in KindSet, f = ProviderOf(k)
        PROVE  \E e \in Built(f, fr) : e.kind = k
    <2>1. Len(parts) = 2 /\ parts[2] = ExecutorOf(k)
      BY <1>4, PartsOf
    <2>2. Gives(ExecutorOf(k), fr.holds)
      BY <1>1, <2>1
    <2> QED BY <1>2, <2>2 DEF Gives
  <1>5. ASSUME f = Registry PROVE Full(Built(f, fr))
    <2> PICK kinds : kinds = [n \in DOMAIN Kinds |-> ProviderOf(Kinds[n])]
      OBVIOUS
    <2>0. Kinds \in Seq(STRING)
      BY ContainerAssumption
    <2>1. kinds \in Seq(Range(kinds) \cup {The("connection_registry")}) /\ Len(kinds) = Len(Kinds)
      BY <2>0 DEF Range
    <2>2. <<The("connection_registry")>> \in Seq(Range(kinds) \cup {The("connection_registry")})
      OBVIOUS
    <2>3. parts = kinds \o <<The("connection_registry")>>
      BY <1>5, PartsOf DEF RegistryNeeds
    <2>4. \A n \in DOMAIN Kinds : n \in 1..Len(parts) /\ parts[n] = ProviderOf(Kinds[n])
      <3>1. Len(<<The("connection_registry")>>) = 1 /\ Len(kinds) \in Nat /\ DOMAIN Kinds = 1..Len(Kinds)
        BY <2>0, <2>1
      <3>2. \A n \in 1..Len(Kinds) : n <= Len(kinds) /\ n \in 1..Len(kinds) + 1 /\ kinds[n] = ProviderOf(Kinds[n])
        BY <2>1, <3>1
      <3>3. /\ Len(parts) = Len(kinds) + 1
            /\ \A n \in 1..Len(kinds) + 1 : n <= Len(kinds) => parts[n] = kinds[n]
        BY <2>1, <2>2, <2>3, <3>1, ConcatProperties
      <3> QED BY <3>1, <3>2, <3>3
    <2>5. ASSUME NEW k \in KindSet PROVE \E e \in fr.holds : e.kind = k
      <3>1. PICK n \in DOMAIN Kinds : k = Kinds[n]
        BY DEF KindSet
      <3>2. Gives(ProviderOf(k), fr.holds)
        BY <1>1, <2>4, <3>1
      <3> QED BY <3>2 DEF Gives
    <2>6. Plugins \in Built(f, fr)
      BY <1>5 DEF Built
    <2> QED BY <1>2, <2>5, <2>6 DEF Full
  <1>6. ASSUME f \in {Dispatcher, Execution} PROVE Full(Built(f, fr))
    <2>1. Gives(parts[1], fr.holds) /\ parts[1] \in {Registry, Dispatcher}
      <3>1. CASE f = Dispatcher
        <4>1. parts = [n \in DOMAIN <<"side_effect_provider_registry">> |->
                         The(<<"side_effect_provider_registry">>[n])]
          BY <3>1, PartsOf, OtherNeeds DEF Dispatcher
        <4>2. Len(parts) = 1 /\ parts[1] = Registry
          BY <4>1 DEF Registry
        <4> QED BY <1>1, <4>2
      <3>2. CASE f = Execution
        <4>1. parts = [n \in DOMAIN <<"side_effect_dispatcher_service", "async_task_scheduler">> |->
                         The(<<"side_effect_dispatcher_service", "async_task_scheduler">>[n])]
          BY <3>2, PartsOf, OtherNeeds DEF Execution
        <4>2. Len(parts) = 2 /\ parts[1] = Dispatcher
          BY <4>1 DEF Dispatcher
        <4> QED BY <1>1, <4>2
      <3> QED BY <1>6, <3>1, <3>2
    <2>2. Full(fr.holds)
      BY <2>1 DEF Gives, Dispatcher
    <2> QED BY <1>2, <2>2 DEF Full
  <1> QED BY <1>3, <1>4, <1>5, <1>6 DEF Gives, Dispatcher, Execution

(* A request that is being served holds a complete service. *)
LEMMA RequestIsFull ==
    ASSUME NEW fr \in Frame, Complete(fr), FrameGives(fr), fr.field = Request, fr.holds \in Object
    PROVE  Full(fr.holds)
  <1> PICK parts : parts = Parts(Request)
    OBVIOUS
  <1>1. parts \in Seq(Fields) /\ \A m \in 1..Len(parts) : Gives(parts[m], fr.holds)
    BY PartsType DEF Complete, FrameGives
  <1>2. CASE role = "api"
    <2>1. parts = [n \in DOMAIN <<"request_context_resolver", "mock_resolver_service",
                                  "side_effect_execution_service", "mock_response_builder">> |->
                     The(<<"request_context_resolver", "mock_resolver_service",
                           "side_effect_execution_service", "mock_response_builder">>[n])]
      BY <1>2, PartsOf DEF RequestNeeds
    <2>2. Len(parts) = 4 /\ parts[3] = Execution
      BY <2>1 DEF Execution
    <2>3. Gives(Execution, fr.holds)
      BY <1>1, <2>2
    <2> QED BY <2>3 DEF Gives, Execution
  <1>3. CASE role # "api"
    <2>1. parts = [n \in DOMAIN <<"side_effect_dispatcher_service">> |->
                     The(<<"side_effect_dispatcher_service">>[n])]
      BY <1>3, PartsOf DEF RequestNeeds
    <2>2. Len(parts) = 1 /\ parts[1] = Dispatcher
      BY <2>1 DEF Dispatcher
    <2>3. Gives(Dispatcher, fr.holds)
      BY <1>1, <2>2
    <2> QED BY <2>3 DEF Gives, Dispatcher
  <1> QED BY <1>2, <1>3

-----------------------------------------------------------------------------
(* Stacks and counts.                                                      *)

LEMMA Sizes ==
    /\ \A S \in SUBSET Requests :
         /\ IsFiniteSet(S) /\ Cardinality(S) \in Nat /\ Cardinality(S) <= Cardinality(Requests)
         /\ \A T \in SUBSET S : Cardinality(T) <= Cardinality(S)
         /\ \A t \in S : Cardinality(S \ {t}) = Cardinality(S) - 1
         /\ \A t \in Requests \ S : Cardinality(S \cup {t}) = Cardinality(S) + 1
    /\ Cardinality(Requests) \in Nat
  <1>1. IsFiniteSet(Requests) /\ Cardinality(Requests) \in Nat
    BY ContainerAssumption, FS_CardinalityType
  <1>2. ASSUME NEW S \in SUBSET Requests
        PROVE  /\ IsFiniteSet(S) /\ Cardinality(S) \in Nat /\ Cardinality(S) <= Cardinality(Requests)
               /\ \A T \in SUBSET S : Cardinality(T) <= Cardinality(S)
               /\ \A t \in S : Cardinality(S \ {t}) = Cardinality(S) - 1
               /\ \A t \in Requests \ S : Cardinality(S \cup {t}) = Cardinality(S) + 1
    <2>1. IsFiniteSet(S) /\ Cardinality(S) <= Cardinality(Requests)
      BY <1>1, FS_Subset
    <2>2. Cardinality(S) \in Nat
      BY <2>1, FS_CardinalityType
    <2>3. \A T \in SUBSET S : Cardinality(T) <= Cardinality(S)
      BY <2>1, FS_Subset
    <2>4. \A t \in S : Cardinality(S \ {t}) = Cardinality(S) - 1
      BY <2>1, FS_RemoveElement
    <2>5. \A t \in Requests \ S : Cardinality(S \cup {t}) = Cardinality(S) + 1
      BY <2>1, FS_AddElement
    <2> QED BY <2>1, <2>2, <2>3, <2>4, <2>5
  <1> QED BY <1>1, <1>2

LEMMA FieldsAreNotRequest ==
    Request \notin Fields
  <1>1. \A name \in Names : The(name) # Request
    BY FieldsDiffer
  <1>2. \A k \in KindSet : ExecutorOf(k) # Request /\ ProviderOf(k) # Request
    BY FieldsDiffer
  <1>3. Registry # Request
    BY FieldsDiffer
  <1> QED BY <1>1, <1>2, <1>3 DEF Fields

(* The innermost frame of a request in progress. *)
LEMMA TopFrame ==
    ASSUME TypeOK, StackInv, NEW t \in Requests, ~Idle(t)
    PROVE  /\ Len(stack[t]) \in Nat /\ Len(stack[t]) \in DOMAIN stack[t] /\ DOMAIN stack[t] = 1..Len(stack[t])
           /\ Top(t) \in Frame /\ Top(t).taken \in Nat /\ Top(t).holds \in Object
           /\ Top(t).field \in Fields \cup {Request}
           /\ Top(t).taken <= Len(Parts(Top(t).field)) /\ FrameGives(Top(t))
           /\ Top(t).field # Request => Len(stack[t]) > 1
           /\ phase = "running"
  <1>1. stack[t] \in Seq(Frame) /\ stack[t] # <<>>
    BY DEF TypeOK, Idle
  <1>2. Len(stack[t]) \in Nat /\ Len(stack[t]) \in 1..Len(stack[t]) /\ DOMAIN stack[t] = 1..Len(stack[t])
    BY <1>1
  <1>3. Top(t) = stack[t][Len(stack[t])] /\ Top(t) \in Frame
    BY <1>1, <1>2 DEF Top
  <1>4. Top(t).taken \in Nat /\ Top(t).holds \in Object /\ Top(t).field \in Fields \cup {Request}
    BY <1>3 DEF Frame
  <1>5. Top(t).taken <= Len(Parts(Top(t).field)) /\ (Len(stack[t]) = 1 <=> Top(t).field = Request)
    BY <1>2, <1>3 DEF TypeOK
  <1>6. FrameGives(Top(t)) /\ phase = "running"
    BY <1>2, <1>3 DEF StackInv
  <1>7. Top(t).field # Request => Len(stack[t]) > 1
    <2>1. \A l \in Nat : l \in 1..l /\ l # 1 => l > 1
      OBVIOUS
    <2> QED BY <1>2, <1>5, <2>1
  <1> QED BY <1>2, <1>3, <1>4, <1>5, <1>6, <1>7

(* While the role stays, what a request is depends on its own stack. *)
LEMMA SameStack ==
    ASSUME role' = role
    PROVE  /\ \A f : Parts(f)' = Parts(f)
           /\ \A fr : (Complete(fr)' <=> Complete(fr)) /\ (FrameGives(fr)' <=> FrameGives(fr))
           /\ \A u : stack'[u] = stack[u] =>
                /\ Top(u)' = Top(u) /\ (Idle(u)' <=> Idle(u)) /\ (Serving(u)' <=> Serving(u))
  <1>1. \A f : Parts(f)' = Parts(f)
    BY DEF Parts, RequestNeeds
  <1>2. \A fr : (Complete(fr)' <=> Complete(fr)) /\ (FrameGives(fr)' <=> FrameGives(fr))
    BY <1>1 DEF Complete, FrameGives
  <1>3. ASSUME NEW u, stack'[u] = stack[u]
        PROVE  Top(u)' = Top(u) /\ (Idle(u)' <=> Idle(u)) /\ (Serving(u)' <=> Serving(u))
    BY <1>1, <1>3 DEF Top, Idle, Serving, Complete
  <1> QED BY <1>1, <1>2, <1>3

NewFrame(f) == [field |-> f, taken |-> 0, holds |-> {}]

LEMMA PushStack ==
    ASSUME TypeOK, NEW t \in Requests, NEW f \in Fields \cup {Request}, Push(t, f)
    PROVE  /\ stack' \in [Requests -> Seq(Frame)] /\ NewFrame(f) \in Frame
           /\ \A u \in Requests : u # t => stack'[u] = stack[u]
           /\ stack'[t] = Append(stack[t], NewFrame(f))
           /\ Len(stack'[t]) = Len(stack[t]) + 1 /\ Len(stack[t]) \in Nat
           /\ DOMAIN stack'[t] = 1..Len(stack[t]) + 1 /\ DOMAIN stack[t] = 1..Len(stack[t])
           /\ stack'[t][Len(stack[t]) + 1] = NewFrame(f)
           /\ \A n \in DOMAIN stack[t] : stack'[t][n] = stack[t][n]
  <1>1. NewFrame(f) \in Frame
    BY DEF NewFrame, Frame, Object
  <1>2. stack[t] \in Seq(Frame) /\ stack' = [stack EXCEPT ![t] = Append(@, NewFrame(f))]
    BY DEF TypeOK, Push, NewFrame
  <1>3. Append(stack[t], NewFrame(f)) \in Seq(Frame)
    BY <1>1, <1>2
  <1>4. stack' \in [Requests -> Seq(Frame)] /\ stack'[t] = Append(stack[t], NewFrame(f))
        /\ \A u \in Requests : u # t => stack'[u] = stack[u]
    BY <1>2, <1>3 DEF TypeOK
  <1> PICK s, r : s = stack[t] /\ r = Append(stack[t], NewFrame(f))
    OBVIOUS
  <1>5. /\ Len(r) = Len(s) + 1 /\ Len(s) \in Nat /\ DOMAIN r = 1..Len(s) + 1 /\ DOMAIN s = 1..Len(s)
        /\ r[Len(s) + 1] = NewFrame(f) /\ \A n \in DOMAIN s : r[n] = s[n]
    BY <1>1, <1>2
  <1> QED BY <1>1, <1>4, <1>5

LEMMA TakeStack ==
    ASSUME TypeOK, StackInv, NEW t \in Requests, ~Idle(t), NEW object \in Object, Take(t, object)
    PROVE  /\ stack' \in [Requests -> Seq(Frame)] /\ Taken(Top(t), object) \in Frame
           /\ \A u \in Requests : u # t => stack'[u] = stack[u]
           /\ Len(stack'[t]) = Len(stack[t]) /\ DOMAIN stack'[t] = DOMAIN stack[t]
           /\ stack'[t][Len(stack[t])] = Taken(Top(t), object)
           /\ \A n \in DOMAIN stack[t] : n # Len(stack[t]) => stack'[t][n] = stack[t][n]
  <1> PICK s, l, new : s = stack[t] /\ l = Len(stack[t]) /\ new = Taken(Top(t), object)
    OBVIOUS
  <1>1. s \in Seq(Frame) /\ l \in DOMAIN s /\ l \in Nat /\ DOMAIN s = 1..l /\ Top(t) = s[l] /\ Top(t) \in Frame
    BY TopFrame DEF TypeOK, Top
  <1>3. new \in Frame
    <2>1. Top(t).field \in Fields \cup {Request} /\ Top(t).taken \in Nat /\ Top(t).holds \in Object
      BY TopFrame
    <2>2. Top(t).holds \cup object \in Object
      BY <2>1 DEF Object
    <2> QED BY <2>1, <2>2 DEF Frame, Taken
  <1>4. stack' = [stack EXCEPT ![t] = [s EXCEPT ![l] = new]]
    BY <1>1 DEF Take, TypeOK
  <1>5. [s EXCEPT ![l] = new] \in Seq(Frame) /\ Len([s EXCEPT ![l] = new]) = l
        /\ DOMAIN [s EXCEPT ![l] = new] = DOMAIN s
    BY <1>1, <1>3
  <1>6. stack' \in [Requests -> Seq(Frame)] /\ stack'[t] = [s EXCEPT ![l] = new]
        /\ \A u \in Requests : u # t => stack'[u] = stack[u]
    BY <1>4, <1>5 DEF TypeOK
  <1> QED BY <1>1, <1>3, <1>5, <1>6

LEMMA PopStack ==
    ASSUME TypeOK, StackInv, NEW t \in Requests, ~Idle(t), Pop(t)
    PROVE  /\ stack' \in [Requests -> Seq(Frame)]
           /\ \A u \in Requests : u # t => stack'[u] = stack[u]
           /\ Len(stack'[t]) = Len(stack[t]) - 1 /\ DOMAIN stack'[t] = 1..Len(stack[t]) - 1
           /\ \A n \in 1..Len(stack[t]) - 1 : stack'[t][n] = stack[t][n]
  <1> PICK s, l, r : s = stack[t] /\ l = Len(stack[t]) /\ r = SubSeq(stack[t], 1, Len(stack[t]) - 1)
    OBVIOUS
  <1>1. s \in Seq(Frame) /\ l \in Nat /\ l >= 1 /\ DOMAIN s = 1..l
    BY TopFrame DEF TypeOK
  <1>2. r \in Seq(Frame) /\ Len(r) = l - 1 /\ DOMAIN r = 1..l - 1 /\ \A n \in 1..l - 1 : r[n] = s[n]
    BY <1>1
  <1>3. stack' = [stack EXCEPT ![t] = r]
    BY DEF Pop
  <1>4. stack' \in [Requests -> Seq(Frame)] /\ stack'[t] = r
        /\ \A u \in Requests : u # t => stack'[u] = stack[u]
    BY <1>2, <1>3 DEF TypeOK
  <1> QED BY <1>2, <1>4

-----------------------------------------------------------------------------
(* The invariant is inductive: building.                                   *)

LEMMA GivesMore ==
    ASSUME NEW f, NEW o, NEW p, o \subseteq p, Gives(f, o)
    PROVE  Gives(f, p)
  BY DEF Gives, Full

(* If no request but t moved and t waits for no executor, the counts hold. *)
LEMMA CountsFall ==
    ASSUME CountInv, TypeOK, NEW t \in Requests, role' = role,
           \A u \in Requests : u # t => stack'[u] = stack[u],
           ~Idle(t)' => ~Idle(t) /\ (Serving(t) => Serving(t)'),
           \A k \in KindSet : ~Idle(t)' /\ Top(t).field' = ExecutorOf(k) => Top(t).field = ExecutorOf(k),
           made' = made, overlap' = overlap,
           \A k \in KindSet : field'[ExecutorOf(k)] = NoObject => field[ExecutorOf(k)] = NoObject
    PROVE  CountInv'
  <1>1. Building' \in SUBSET Building
    BY SameStack DEF Building
  <1>2. ASSUME NEW k \in KindSet PROVE Waiting(k)' \in SUBSET Waiting(k)
    BY SameStack DEF Waiting
  <1>3. Building \in SUBSET Requests /\ \A k : Waiting(k) \in SUBSET Requests
    BY DEF Building, Waiting
  <1>4. overlap \in Nat /\ Cardinality(Building)' \in Nat /\ Cardinality(Building)' <= Cardinality(Building)
        /\ Cardinality(Building) \in Nat
    <2>1. Cardinality(Building') \in Nat /\ Cardinality(Building') <= Cardinality(Building)
      BY <1>1, <1>3, Sizes
    <2> QED BY <1>3, <2>1, Sizes DEF TypeOK
  <1>5. Cardinality(Building)' <= overlap'
    BY <1>4 DEF CountInv
  <1>6. ASSUME NEW k \in KindSet
        PROVE  /\ field'[ExecutorOf(k)] = NoObject => made'[k] = 0
               /\ made'[k] + Cardinality(Waiting(k))' <= overlap'
    <2>1. Cardinality(Waiting(k)') \in Nat /\ Cardinality(Waiting(k)') <= Cardinality(Waiting(k))
          /\ Cardinality(Waiting(k)) \in Nat
      BY <1>2, <1>3, Sizes
    <2>2. made[k] \in Nat /\ made[k] + Cardinality(Waiting(k)) <= overlap
      BY Sizes DEF TypeOK, CountInv
    <2>3. made[k] + Cardinality(Waiting(k)') <= overlap
      BY <1>4, <2>1, <2>2
    <2> QED BY <2>3 DEF CountInv
  <1> QED BY <1>5, <1>6 DEF CountInv

LEMMA ArriveIInv ==
    ASSUME IInv, NEW t \in Requests, Arrive(t)
    PROVE  IInv'
  <1> USE DEF IInv
  <1>1. /\ phase = "running" /\ Idle(t) /\ Push(t, Request)
        /\ overlap' = IF Cardinality(Building) < overlap THEN overlap ELSE Cardinality(Building) + 1
        /\ UNCHANGED <<role, phase, field, made, served, background, open, mongo, left, late>>
    BY DEF Arrive, shutVars
  <1>2. /\ stack' \in [Requests -> Seq(Frame)]
        /\ \A u \in Requests : u # t => stack'[u] = stack[u]
        /\ Len(stack'[t]) = 1 /\ DOMAIN stack'[t] = 1..1 /\ stack'[t][1] = NewFrame(Request)
    <2>1. Len(stack[t]) = 0
      <3>1. stack[t] = <<>>
        BY <1>1 DEF Idle
      <3> QED BY <3>1
    <2>2. Request \in Fields \cup {Request}
      OBVIOUS
    <2>3. /\ stack' \in [Requests -> Seq(Frame)]
          /\ \A u \in Requests : u # t => stack'[u] = stack[u]
          /\ Len(stack'[t]) = Len(stack[t]) + 1 /\ DOMAIN stack'[t] = 1..Len(stack[t]) + 1
          /\ stack'[t][Len(stack[t]) + 1] = NewFrame(Request)
      BY <1>1, <2>2, PushStack
    <2>4. 0 + 1 = 1
      OBVIOUS
    <2> QED BY <2>1, <2>3, <2>4
  <1>3. ~Idle(t)' /\ Top(t)' = NewFrame(Request) /\ ~Complete(NewFrame(Request)) /\ ~Serving(t)'
    <2>1. stack'[t] # <<>> /\ Top(t)' = NewFrame(Request)
      <3>1. stack'[t] # <<>>
        <4>1. Len(<<>>) # 1
          OBVIOUS
        <4> QED BY <1>2, <4>1
      <3>2. Top(t)' = stack'[t][Len(stack'[t])]
        BY DEF Top
      <3>3. Top(t)' = stack'[t][1]
        BY <1>2, <3>2
      <3> QED BY <1>2, <3>1, <3>3
    <2>2. ~Complete(NewFrame(Request))
      <3>1. Len(Parts(Request)) # 0
        BY PartsType
      <3> QED BY <3>1 DEF Complete, NewFrame
    <2>3. Serving(t)' => Complete(NewFrame(Request))'
      BY <2>1 DEF Serving
    <2> QED BY <1>1, <2>1, <2>2, <2>3, SameStack DEF Idle
  <1>4. /\ Building' = Building \cup {t} /\ t \in Requests \ Building /\ Building \in SUBSET Requests
        /\ Building' \in SUBSET Requests
    BY <1>1, <1>2, <1>3, SameStack DEF Building
  <1>5. /\ Cardinality(Building)' = Cardinality(Building) + 1 /\ Cardinality(Building) \in Nat
        /\ Cardinality(Building) + 1 <= Cardinality(Requests) /\ Cardinality(Requests) \in Nat
    <2>1. Cardinality(Building') = Cardinality(Building) + 1
      BY <1>4, Sizes
    <2>2. Cardinality(Building') <= Cardinality(Requests)
      BY <1>4, Sizes
    <2> QED BY <1>4, <2>1, <2>2, Sizes
  <1>6. /\ overlap \in Nat /\ overlap' \in 0..Cardinality(Requests)
        /\ overlap' >= overlap /\ overlap' >= Cardinality(Building) + 1
    <2>1. overlap \in 0..Cardinality(Requests) /\ Cardinality(Building) <= overlap
      BY DEF TypeOK, CountInv
    <2> QED BY <1>1, <1>5, <2>1
  <1>7. TypeOK'
    <2>1. ASSUME NEW u \in Requests, NEW n \in DOMAIN stack'[u]
          PROVE  /\ stack'[u][n].taken <= Len(Parts(stack[u][n].field)')
                 /\ n = 1 <=> stack'[u][n].field = Request
      <3>1. CASE u # t
        BY <1>1, <1>2, <2>1, <3>1, SameStack DEF TypeOK
      <3>2. CASE u = t
        <4>1. n = 1 /\ stack'[u][n] = NewFrame(Request)
          BY <1>2, <3>2
        <4>2. Len(Parts(Request)) >= 0 /\ Parts(Request)' = Parts(Request)
          BY <1>1, PartsType, SameStack
        <4>3. Parts(stack[u][n].field)' = Parts(Request)'
          BY <4>1 DEF NewFrame
        <4> QED BY <4>1, <4>2, <4>3 DEF NewFrame
      <3> QED BY <3>1, <3>2
    <2> QED BY <1>1, <1>2, <1>6, <2>1 DEF TypeOK
  <1>8. StackInv'
    <2>1. ASSUME NEW u \in Requests, NEW n \in DOMAIN stack'[u]
          PROVE  FrameGives(stack[u][n])' /\ (n < Len(stack'[u]) => ~Complete(stack[u][n])')
      <3>1. CASE u # t
        BY <1>1, <1>2, <2>1, <3>1, SameStack DEF StackInv
      <3>2. CASE u = t
        <4>1. n = 1
          BY <1>2, <3>2
        <4>2. stack'[u][n] = NewFrame(Request) /\ ~(n < Len(stack'[u]))
          <5>1. ~(1 < 1)
            OBVIOUS
          <5> QED BY <1>2, <3>2, <4>1, <5>1
        <4>3. FrameGives(NewFrame(Request))'
          BY DEF FrameGives, NewFrame
        <4> QED BY <4>2, <4>3
      <3> QED BY <3>1, <3>2
    <2> QED BY <1>1, <2>1 DEF StackInv
  <1>9. FieldInv' /\ CloseInv'
    BY <1>1 DEF FieldInv, CloseInv
  <1>10. HeldInv'
    <2>1. ASSUME NEW u \in Requests, NEW n \in DOMAIN stack'[u] PROVE Made(stack[u][n].holds)'
      <3>1. CASE u # t
        BY <1>1, <1>2, <2>1, <3>1 DEF HeldInv, Made
      <3>2. CASE u = t
        BY <1>2, <3>2 DEF Made, NewFrame
      <3> QED BY <3>1, <3>2
    <2> QED BY <1>1, <2>1 DEF HeldInv, Made
  <1>11. CountInv'
    <2>1. ASSUME NEW k \in KindSet PROVE Waiting(k)' \in SUBSET Waiting(k)
      <3>1. Request # ExecutorOf(k)
        BY FieldsDiffer
      <3> QED BY <1>1, <1>2, <1>3, <3>1, SameStack DEF Waiting, NewFrame
    <2>2. ASSUME NEW k \in KindSet PROVE made'[k] + Cardinality(Waiting(k))' <= overlap'
      <3>1. Cardinality(Waiting(k)') \in Nat /\ Cardinality(Waiting(k)') <= Cardinality(Waiting(k))
            /\ Cardinality(Waiting(k)) \in Nat
        <4>1. Waiting(k) \in SUBSET Requests
          BY DEF Waiting
        <4> QED BY <2>1, <4>1, Sizes
      <3>2. made[k] \in Nat /\ made[k] + Cardinality(Waiting(k)) <= overlap
        BY Sizes DEF TypeOK, CountInv
      <3>3. overlap' \in Nat
        BY <1>5, <1>6
      <3> QED BY <1>1, <1>6, <3>1, <3>2, <3>3
    <2> QED BY <1>1, <1>5, <1>6, <2>2 DEF CountInv
  <1> QED BY <1>7, <1>8, <1>9, <1>10, <1>11

(* A part is taken: whatever it promises, the frame now holds. *)
LEMMA TakePart ==
    ASSUME IInv, NEW t \in Requests, ~Idle(t), ~Complete(Top(t)),
           NEW object \in Object, Take(t, object), Made(object),
           Gives(Parts(Top(t).field)[Top(t).taken + 1], object),
           field' \in [Fields -> Object \cup {NoObject}],
           \A f \in Fields : field'[f] = field[f] \/ (f \in PlainFields /\ field'[f] = {}),
           UNCHANGED <<role, phase, made, served, background, open, mongo, left, late, overlap>>
    PROVE  IInv'
  <1> USE DEF IInv
  <1> PICK fr, new, l : fr = Top(t) /\ new = Taken(Top(t), object) /\ l = Len(stack[t])
    OBVIOUS
  <1>1. /\ fr \in Frame /\ fr.taken \in Nat /\ fr.holds \in Object /\ fr.field \in Fields \cup {Request}
        /\ l \in Nat /\ l \in DOMAIN stack[t] /\ DOMAIN stack[t] = 1..l /\ fr = stack[t][l]
        /\ FrameGives(fr) /\ fr.taken <= Len(Parts(fr.field)) /\ phase = "running"
    BY TopFrame DEF Top
  <1>2. /\ stack' \in [Requests -> Seq(Frame)] /\ new \in Frame
        /\ \A u \in Requests : u # t => stack'[u] = stack[u]
        /\ Len(stack'[t]) = l /\ DOMAIN stack'[t] = DOMAIN stack[t]
        /\ stack'[t][l] = new
        /\ \A n \in DOMAIN stack[t] : n # l => stack'[t][n] = stack[t][n]
    BY TakeStack
  <1>3. new.field = fr.field /\ new.taken = fr.taken + 1 /\ new.holds = fr.holds \cup object
    BY DEF Taken
  <1>4. Top(t)' = new
    BY <1>2 DEF Top
  <1>5. /\ \A f \in Fields \cup {Request} : Parts(f)' = Parts(f)
        /\ \A x : (Complete(x)' <=> Complete(x)) /\ (FrameGives(x)' <=> FrameGives(x))
        /\ \A x : Made(x)' <=> Made(x)
    BY SameStack DEF Made
  <1>6. new.taken <= Len(Parts(new.field))
    <2>1. Len(Parts(fr.field)) \in Nat /\ fr.taken # Len(Parts(fr.field))
      BY <1>1, PartsType DEF Complete
    <2> QED BY <1>1, <1>3, <2>1
  <1>7. FrameGives(new)
    <2>1. ASSUME NEW m \in 1..new.taken PROVE Gives(Parts(fr.field)[m], new.holds)
      <3>1. m \in 1..fr.taken \/ m = fr.taken + 1
        BY <1>1, <1>3
      <3>2. CASE m \in 1..fr.taken
        <4>1. Gives(Parts(fr.field)[m], fr.holds)
          BY <1>1, <3>2 DEF FrameGives
        <4> QED BY <1>3, <4>1, GivesMore
      <3>3. CASE m = fr.taken + 1
        <4>1. Gives(Parts(fr.field)[m], object)
          BY <3>3
        <4> QED BY <1>3, <4>1, GivesMore
      <3> QED BY <3>1, <3>2, <3>3
    <2>2. new.taken # 0
      BY <1>1, <1>3
    <2> QED BY <1>3, <2>1, <2>2 DEF FrameGives
  <1>8. ASSUME NEW u \in Requests, NEW n \in DOMAIN stack'[u]
        PROVE  \/ u = t /\ n = l /\ stack'[u][n] = new
               \/ n \in DOMAIN stack[u] /\ stack'[u][n] = stack[u][n] /\ Len(stack'[u]) = Len(stack[u])
    BY <1>1, <1>2
  <1>9. TypeOK'
    <2>1. ASSUME NEW u \in Requests, NEW n \in DOMAIN stack'[u]
          PROVE  /\ stack'[u][n].taken <= Len(Parts(stack[u][n].field)')
                 /\ n = 1 <=> stack'[u][n].field = Request
      <3>1. CASE u = t /\ n = l /\ stack'[u][n] = new
        <4>1. Parts(new.field)' = Parts(new.field)
          BY <1>1, <1>3, <1>5
        <4>2. n = 1 <=> fr.field = Request
          BY <1>1, <3>1 DEF TypeOK
        <4>3. Parts(stack[u][n].field)' = Parts(new.field)
          BY <3>1, <4>1
        <4> QED BY <1>3, <1>6, <3>1, <4>2, <4>3
      <3>2. CASE n \in DOMAIN stack[u] /\ stack'[u][n] = stack[u][n]
        <4>1. stack[u][n].taken <= Len(Parts(stack[u][n].field)) /\ (n = 1 <=> stack[u][n].field = Request)
          BY <3>2 DEF TypeOK
        <4>3. stack[u] \in Seq(Frame)
          BY DEF TypeOK
        <4>4. stack[u][n] \in Frame
          BY <3>2, <4>3
        <4>5. stack[u][n].field \in Fields \cup {Request}
          BY <4>4 DEF Frame
        <4>6. Parts(stack[u][n].field)' = Parts(stack[u][n].field)
          BY <1>5, <3>2, <4>5
        <4> QED BY <3>2, <4>1, <4>6
      <3> QED BY <1>8, <3>1, <3>2
    <2> QED BY <1>2, <2>1 DEF TypeOK
  <1>10. StackInv'
    <2>1. ASSUME NEW u \in Requests, NEW n \in DOMAIN stack'[u]
          PROVE  FrameGives(stack[u][n])' /\ (n < Len(stack'[u]) => ~Complete(stack[u][n])')
      <3>1. CASE u = t /\ n = l /\ stack'[u][n] = new
        <4>1. FrameGives(stack[u][n])'
          BY <1>5, <1>7, <3>1
        <4>2. ~(n < Len(stack'[u]))
          BY <1>1, <1>2, <3>1
        <4> QED BY <4>1, <4>2
      <3>2. CASE n \in DOMAIN stack[u] /\ stack'[u][n] = stack[u][n] /\ Len(stack'[u]) = Len(stack[u])
        <4>1. FrameGives(stack[u][n]) /\ (n < Len(stack[u]) => ~Complete(stack[u][n]))
          BY <3>2 DEF StackInv
        <4> QED BY <1>5, <3>2, <4>1
      <3> QED BY <1>8, <3>1, <3>2
    <2>2. phase' = "running"
      BY <1>1
    <2> QED BY <2>1, <2>2 DEF StackInv
  <1>11. FieldInv'
    <2>1. ASSUME NEW f \in Fields, field'[f] # NoObject PROVE Gives(f, field'[f])
      BY <2>1, PlainPromisesNothing DEF FieldInv
    <2> QED BY <2>1 DEF FieldInv
  <1>12. \A k \in KindSet : field'[ExecutorOf(k)] = field[ExecutorOf(k)]
    <2>1. \A k \in KindSet : ExecutorOf(k) \in Fields
      BY DEF Fields
    <2> QED BY <2>1, PlainPromisesNothing
  <1>13. HeldInv'
    <2>1. ASSUME NEW f \in Fields, field'[f] # NoObject PROVE Made(field[f])'
      <3>1. Made({})
        BY DEF Made
      <3> QED BY <1>5, <2>1, <3>1 DEF HeldInv
    <2>2. ASSUME NEW u \in Requests, NEW n \in DOMAIN stack'[u] PROVE Made(stack[u][n].holds)'
      <3>1. CASE u = t /\ n = l /\ stack'[u][n] = new
        <4>1. Made(fr.holds)
          BY <1>1 DEF HeldInv
        <4>2. Made(new.holds)
          BY <1>3, <4>1 DEF Made
        <4> QED BY <1>5, <3>1, <4>2
      <3>2. CASE n \in DOMAIN stack[u] /\ stack'[u][n] = stack[u][n]
        BY <1>5, <3>2 DEF HeldInv
      <3> QED BY <1>8, <3>1, <3>2
    <2>3. Made(served)' /\ Made(background)' /\ Made(open)'
      BY DEF HeldInv, Made
    <2> QED BY <1>12, <2>1, <2>2, <2>3 DEF HeldInv
  <1>14. CloseInv'
    <2>1. ASSUME NEW e \in open, field'[ExecutorOf(e.kind)] = {e}, Position(e) < left PROVE e \in late
      <3>1. e \in Executor /\ e.kind \in KindSet
        BY DEF TypeOK, Executor
      <3> QED BY <1>12, <2>1, <3>1 DEF CloseInv
    <2>2. \A e : Position(e)' = Position(e)
      BY DEF Position
    <2> QED BY <2>1, <2>2 DEF CloseInv
  <1>15. CountInv'
    <2>1. ~Serving(t)
      BY DEF Serving
    <2>2. Top(t).field' = Top(t).field
      BY <1>3, <1>4
    <2> QED BY <1>2, <1>12, <2>1, <2>2, CountsFall
  <1> QED BY <1>9, <1>10, <1>11, <1>13, <1>14, <1>15

(* A part is not there yet: its construction begins.  If it is an executor,
   none of its kind was made before. *)
LEMMA PushPart ==
    ASSUME IInv, NEW t \in Requests, ~Idle(t), ~Complete(Top(t)),
           NEW part \in Fields, field[part] = NoObject, Push(t, part),
           UNCHANGED <<role, phase, field, made, served, background, open, mongo, left, late, overlap>>
    PROVE  IInv'
  <1> USE DEF IInv
  <1> PICK l : l = Len(stack[t])
    OBVIOUS
  <1>1. /\ l \in Nat /\ l \in 1..l /\ DOMAIN stack[t] = 1..l /\ Top(t) = stack[t][l] /\ phase = "running"
    BY TopFrame DEF Top
  <1>2. /\ stack' \in [Requests -> Seq(Frame)]
        /\ \A u \in Requests : u # t => stack'[u] = stack[u]
        /\ Len(stack'[t]) = l + 1 /\ DOMAIN stack'[t] = 1..l + 1
        /\ stack'[t][l + 1] = NewFrame(part)
        /\ \A n \in 1..l : stack'[t][n] = stack[t][n]
    <2>1. part \in Fields \cup {Request}
      OBVIOUS
    <2> QED BY <1>1, <2>1, PushStack
  <1>3. NewFrame(part).field = part /\ NewFrame(part).taken = 0 /\ NewFrame(part).holds = {}
    BY DEF NewFrame
  <1>4. Top(t)' = NewFrame(part)
    <2>1. Top(t)' = stack'[t][Len(stack'[t])]
      BY DEF Top
    <2> QED BY <1>2, <2>1
  <1>5. /\ \A f \in Fields \cup {Request} : Parts(f)' = Parts(f)
        /\ \A x : (Complete(x)' <=> Complete(x)) /\ (FrameGives(x)' <=> FrameGives(x))
        /\ \A x : Made(x)' <=> Made(x)
    BY SameStack DEF Made
  <1>6. FrameGives(NewFrame(part))
    BY <1>3 DEF FrameGives
  <1>7. ASSUME NEW u \in Requests, NEW n \in DOMAIN stack'[u]
        PROVE  \/ u = t /\ n = l + 1 /\ stack'[u][n] = NewFrame(part)
               \/ /\ n \in DOMAIN stack[u] /\ stack'[u][n] = stack[u][n]
                  /\ u # t => stack'[u] = stack[u]
                  /\ u = t => n \in 1..l
    BY <1>1, <1>2
  <1>8. TypeOK'
    <2>1. ASSUME NEW u \in Requests, NEW n \in DOMAIN stack'[u]
          PROVE  /\ stack'[u][n].taken <= Len(Parts(stack[u][n].field)')
                 /\ n = 1 <=> stack'[u][n].field = Request
      <3>1. CASE u = t /\ n = l + 1 /\ stack'[u][n] = NewFrame(part)
        <4>1. Parts(stack[u][n].field)' = Parts(part)
          BY <1>3, <1>5, <3>1
        <4>2. Len(Parts(part)) >= 0
          BY PartsType
        <4>3. n # 1
          BY <1>1, <3>1
        <4>4. part # Request
          BY FieldsAreNotRequest
        <4> QED BY <1>3, <3>1, <4>1, <4>2, <4>3, <4>4
      <3>2. CASE n \in DOMAIN stack[u] /\ stack'[u][n] = stack[u][n]
        <4>1. stack[u][n].taken <= Len(Parts(stack[u][n].field)) /\ (n = 1 <=> stack[u][n].field = Request)
          BY <3>2 DEF TypeOK
        <4>2. stack[u] \in Seq(Frame)
          BY DEF TypeOK
        <4>3. stack[u][n] \in Frame
          BY <3>2, <4>2
        <4>4. stack[u][n].field \in Fields \cup {Request}
          BY <4>3 DEF Frame
        <4>5. Parts(stack[u][n].field)' = Parts(stack[u][n].field)
          BY <1>5, <3>2, <4>4
        <4> QED BY <3>2, <4>1, <4>5
      <3> QED BY <1>7, <3>1, <3>2
    <2> QED BY <1>2, <2>1 DEF TypeOK
  <1>9. StackInv'
    <2>1. ASSUME NEW u \in Requests, NEW n \in DOMAIN stack'[u]
          PROVE  FrameGives(stack[u][n])' /\ (n < Len(stack'[u]) => ~Complete(stack[u][n])')
      <3>1. CASE u = t /\ n = l + 1 /\ stack'[u][n] = NewFrame(part)
        <4>1. FrameGives(stack[u][n])'
          BY <1>5, <1>6, <3>1
        <4>2. ~(n < Len(stack'[u]))
          BY <1>1, <1>2, <3>1
        <4> QED BY <4>1, <4>2
      <3>2. CASE /\ n \in DOMAIN stack[u] /\ stack'[u][n] = stack[u][n]
                 /\ u # t => stack'[u] = stack[u]
                 /\ u = t => n \in 1..l
        <4>1. FrameGives(stack[u][n]) /\ (n < Len(stack[u]) => ~Complete(stack[u][n]))
          BY <3>2 DEF StackInv
        <4>2. n < Len(stack'[u]) => ~Complete(stack[u][n])
          <5>1. CASE u # t
            BY <3>2, <4>1, <5>1
          <5>2. CASE u = t
            <6>1. n = l \/ n < l
              BY <1>1, <3>2, <5>2
            <6> QED BY <1>1, <4>1, <5>2, <6>1
          <5> QED BY <5>1, <5>2
        <4> QED BY <1>5, <3>2, <4>1, <4>2
      <3> QED BY <1>7, <3>1, <3>2
    <2>2. phase' = "running"
      BY <1>1
    <2> QED BY <2>1, <2>2 DEF StackInv
  <1>10. FieldInv' /\ CloseInv'
    BY DEF FieldInv, CloseInv, Position
  <1>11. HeldInv'
    <2>1. ASSUME NEW u \in Requests, NEW n \in DOMAIN stack'[u] PROVE Made(stack[u][n].holds)'
      <3>1. CASE u = t /\ n = l + 1 /\ stack'[u][n] = NewFrame(part)
        BY <1>3, <3>1 DEF Made
      <3>2. CASE n \in DOMAIN stack[u] /\ stack'[u][n] = stack[u][n]
        BY <1>5, <3>2 DEF HeldInv
      <3> QED BY <1>7, <3>1, <3>2
    <2>2. /\ \A f \in Fields : field'[f] # NoObject => Made(field[f])'
          /\ Made(served)' /\ Made(background)' /\ Made(open)'
      BY DEF HeldInv, Made
    <2>3. \A k \in KindSet : field'[ExecutorOf(k)] # NoObject =>
            \E m \in 1..made'[k] : field'[ExecutorOf(k)] = {[kind |-> k, n |-> m]}
      BY DEF HeldInv
    <2> QED BY <2>1, <2>2, <2>3 DEF HeldInv
  <1>12. Building' = Building /\ Building \in SUBSET Requests /\ t \in Building
    <2>1. ~Serving(t) /\ t \in Building
      BY DEF Serving, Building
    <2>2. ~Idle(t)'
      <3>1. Len(<<>>) # l + 1
        BY <1>1
      <3> QED BY <1>2, <3>1 DEF Idle
    <2>3. ~Serving(t)'
      <3>1. part # Request
        BY FieldsAreNotRequest
      <3> QED BY <1>3, <1>4, <3>1 DEF Serving
    <2> QED BY <1>2, <2>1, <2>2, <2>3, SameStack DEF Building
  <1>13. CountInv'
    <2>1. ASSUME NEW k \in KindSet PROVE made'[k] + Cardinality(Waiting(k))' <= overlap'
      <3>0. /\ Waiting(k) \in SUBSET Requests /\ made[k] \in Nat /\ overlap \in Nat
            /\ made[k] + Cardinality(Waiting(k)) <= overlap /\ Cardinality(Building) <= overlap
        BY Sizes DEF Waiting, TypeOK, CountInv
      <3>1. CASE part = ExecutorOf(k)
        <4>1. made[k] = 0
          BY <3>1 DEF CountInv
        <4>2. Waiting(k)' \in SUBSET Building
          <5>1. ASSUME NEW u \in Requests, u # t, ~Idle(u)', Top(u).field' = ExecutorOf(k)
                PROVE  u \in Building
            <6>1. ~Idle(u) /\ Top(u).field = ExecutorOf(k)
              BY <1>2, <5>1, SameStack
            <6>2. Top(u).field # Request
              BY <6>1, FieldsDiffer
            <6> QED BY <6>1, <6>2 DEF Building, Serving
          <5> QED BY <1>12, <5>1 DEF Waiting
        <4>3. Cardinality(Waiting(k)') \in Nat /\ Cardinality(Waiting(k)') <= Cardinality(Building)
              /\ Cardinality(Building) \in Nat
          BY <1>12, <4>2, Sizes
        <4>4. 0 + Cardinality(Waiting(k)') <= overlap
          BY <3>0, <4>3
        <4> QED BY <4>1, <4>4
      <3>2. CASE part # ExecutorOf(k)
        <4>1. Waiting(k)' \in SUBSET Waiting(k)
          BY <1>2, <1>3, <1>4, <3>2, SameStack DEF Waiting
        <4>2. Cardinality(Waiting(k)') \in Nat /\ Cardinality(Waiting(k)') <= Cardinality(Waiting(k))
              /\ Cardinality(Waiting(k)) \in Nat
          BY <3>0, <4>1, Sizes
        <4>3. made[k] + Cardinality(Waiting(k)') <= overlap
          BY <3>0, <4>2
        <4> QED BY <4>3
      <3> QED BY <3>1, <3>2
    <2>2. Cardinality(Building)' <= overlap'
      BY <1>12 DEF CountInv
    <2>3. \A k \in KindSet : field'[ExecutorOf(k)] = NoObject => made'[k] = 0
      BY DEF CountInv
    <2> QED BY <2>1, <2>2, <2>3 DEF CountInv
  <1> QED BY <1>8, <1>9, <1>10, <1>11, <1>13

LEMMA LookIInv ==
    ASSUME IInv, NEW t \in Requests, Look(t)
    PROVE  IInv'
  <1> USE DEF IInv
  <1> PICK fr, part : fr = Top(t) /\ part = Parts(fr.field)[fr.taken + 1]
    OBVIOUS
  <1>1. /\ ~Idle(t) /\ ~Complete(fr)
        /\ \/ field[part] = NoObject /\ part \notin PlainFields /\ Push(t, part) /\ UNCHANGED field
           \/ field[part] # NoObject /\ Take(t, field[part]) /\ UNCHANGED field
           \/ /\ field[part] = NoObject /\ part \in PlainFields /\ Take(t, {})
              /\ field' = [f \in Fields |-> IF f \in {The(name) : name \in WithNeeds(part[1])}
                                           THEN {} ELSE field[f]]
        /\ UNCHANGED <<role, phase, made, served, background, open, mongo, left, late, overlap>>
    BY DEF Look, shutVars
  <1>2. part \in Fields
    <2>1. fr.field \in Fields \cup {Request} /\ fr.taken \in Nat /\ fr.taken <= Len(Parts(fr.field))
      BY <1>1, TopFrame
    <2> PICK parts : parts = Parts(fr.field)
      OBVIOUS
    <2>2. parts \in Seq(Fields) /\ fr.taken # Len(parts) /\ fr.taken <= Len(parts)
      BY <1>1, <2>1, PartsType DEF Complete
    <2>3. fr.taken + 1 \in 1..Len(parts)
      BY <2>1, <2>2
    <2> QED BY <2>2, <2>3
  <1>3. CASE field[part] = NoObject /\ Push(t, part) /\ UNCHANGED field
    BY <1>1, <1>2, <1>3, PushPart
  <1>4. CASE field[part] # NoObject /\ Take(t, field[part]) /\ UNCHANGED field
    <2>1. /\ field[part] \in Object /\ Made(field[part]) /\ Gives(part, field[part])
          /\ field' \in [Fields -> Object \cup {NoObject}]
          /\ \A f \in Fields : field'[f] = field[f] \/ (f \in PlainFields /\ field'[f] = {})
      BY <1>2, <1>4 DEF TypeOK, HeldInv, FieldInv
    <2> QED BY <1>1, <1>4, <2>1, TakePart
  <1>5. CASE /\ part \in PlainFields /\ Take(t, {})
             /\ field' = [f \in Fields |-> IF f \in {The(name) : name \in WithNeeds(part[1])}
                                           THEN {} ELSE field[f]]
    <2>1. {} \in Object /\ Made({}) /\ Gives(part, {})
      BY <1>5, PlainPromisesNothing DEF Object, Made
    <2>2. PICK name \in Plain : part = The(name) /\ part[1] = name
      BY <1>5, PlainNeeds, FieldsDiffer DEF PlainFields
    <2>3. {The(x) : x \in WithNeeds(part[1])} \in SUBSET PlainFields
      BY <2>2, WithNeedsArePlain DEF PlainFields
    <2>4. /\ field' \in [Fields -> Object \cup {NoObject}]
          /\ \A f \in Fields : field'[f] = field[f] \/ (f \in PlainFields /\ field'[f] = {})
      BY <1>5, <2>1, <2>3 DEF TypeOK
    <2> QED BY <1>1, <1>5, <2>1, <2>4, TakePart
  <1> QED BY <1>1, <1>3, <1>4, <1>5

(* A request ends, answered or failed: what it was building is forgotten. *)
LEMMA EndsIInv ==
    ASSUME IInv, NEW t \in Requests, ~Idle(t), stack' = [stack EXCEPT ![t] = <<>>],
           served' \subseteq Executor, Made(served'),
           UNCHANGED <<role, phase, field, made, background, open, mongo, left, late, overlap>>
    PROVE  IInv'
  <1> USE DEF IInv
  <1>1. /\ stack' \in [Requests -> Seq(Frame)] /\ stack'[t] = <<>>
        /\ \A u \in Requests : u # t => stack'[u] = stack[u]
    BY DEF TypeOK
  <1>2. Idle(t)' /\ phase = "running"
    BY <1>1, TopFrame DEF Idle
  <1>3. ASSUME NEW u \in Requests, NEW n \in DOMAIN stack'[u]
        PROVE  n \in DOMAIN stack[u] /\ stack'[u] = stack[u]
    <2>1. DOMAIN <<>> = {}
      OBVIOUS
    <2> QED BY <1>1, <2>1
  <1>4. TypeOK'
    <2>1. \A u \in Requests : \A n \in DOMAIN stack'[u] :
            /\ stack'[u][n].taken <= Len(Parts(stack[u][n].field)')
            /\ n = 1 <=> stack'[u][n].field = Request
      BY <1>3, SameStack DEF TypeOK
    <2> QED BY <1>1, <2>1 DEF TypeOK
  <1>5. StackInv'
    BY <1>2, <1>3, SameStack DEF StackInv
  <1>6. FieldInv' /\ CloseInv'
    BY DEF FieldInv, CloseInv, Position
  <1>7. HeldInv'
    <2>1. \A x : Made(x)' <=> Made(x)
      BY DEF Made
    <2>2. Made(served)'
      BY DEF Made
    <2>3. \A u \in Requests : \A n \in DOMAIN stack'[u] : Made(stack[u][n].holds)'
      BY <1>3, <2>1 DEF HeldInv
    <2>4. (\A f \in Fields : field'[f] # NoObject => Made(field[f])') /\ Made(background)' /\ Made(open)'
      BY DEF HeldInv, Made
    <2>5. \A k \in KindSet : field'[ExecutorOf(k)] # NoObject =>
            \E m \in 1..made'[k] : field'[ExecutorOf(k)] = {[kind |-> k, n |-> m]}
      BY DEF HeldInv
    <2> QED BY <2>2, <2>3, <2>4, <2>5 DEF HeldInv
  <1>8. CountInv'
    BY <1>1, <1>2, CountsFall
  <1> QED BY <1>4, <1>5, <1>6, <1>7, <1>8

LEMMA AnswerIInv ==
    ASSUME IInv, NEW t \in Requests, Answer(t)
    PROVE  IInv'
  <1>1. ~Idle(t) /\ TypeOK /\ StackInv /\ HeldInv
    BY DEF Answer, Serving, IInv
  <1>2. Top(t).holds \in Object /\ Made(Top(t).holds)
    BY <1>1, TopFrame DEF HeldInv, Top
  <1>3. served' = served \cup (Top(t).holds \ {Plugins}) /\ served \subseteq Executor /\ Made(served)
    BY <1>1 DEF Answer, TypeOK, HeldInv
  <1>4. served' \subseteq Executor /\ Made(served')
    BY <1>2, <1>3 DEF Object, Made
  <1> QED BY <1>1, <1>4, EndsIInv DEF Answer, shutVars

LEMMA PluginFailsIInv ==
    ASSUME IInv, NEW t \in Requests, PluginFails(t)
    PROVE  IInv'
  <1>1. ~Idle(t) /\ stack' = [stack EXCEPT ![t] = <<>>]
    BY DEF PluginFails, Unwound
  <1>2. /\ UNCHANGED <<role, phase, field, made, background, open, mongo, left, late, overlap>>
        /\ served' \subseteq Executor /\ Made(served')
    BY DEF PluginFails, PluginError, shutVars, IInv, TypeOK, HeldInv
  <1> QED BY <1>1, <1>2, EndsIInv

-----------------------------------------------------------------------------
(* The invariant is inductive: start-up and shutdown.                      *)

LEMMA Positions ==
    \A e \in Executor : Position(e) \in DOMAIN Kinds /\ Kinds[Position(e)] = e.kind
  <1>1. \A e \in Executor : \E n \in DOMAIN Kinds : Kinds[n] = e.kind
    BY DEF Executor, KindSet
  <1> QED BY <1>1 DEF Position

(* While nothing is built, the parts about construction hold as they did. *)
LEMMA NothingBuilt ==
    ASSUME TypeOK, StackInv, CountInv, UNCHANGED <<role, made, stack, overlap>>,
           phase' # "running" => \A t \in Requests : Idle(t),
           \A k \in KindSet : field'[ExecutorOf(k)] = field[ExecutorOf(k)]
    PROVE  /\ StackInv' /\ CountInv'
           /\ \A t \in Requests : \A n \in DOMAIN stack'[t] :
                /\ stack'[t][n].taken <= Len(Parts(stack[t][n].field)')
                /\ n = 1 <=> stack'[t][n].field = Request
  <1>1. /\ \A t : (Idle(t)' <=> Idle(t)) /\ (Serving(t)' <=> Serving(t)) /\ Top(t)' = Top(t)
        /\ \A f : Parts(f)' = Parts(f)
        /\ \A fr : (Complete(fr)' <=> Complete(fr)) /\ (FrameGives(fr)' <=> FrameGives(fr))
    BY SameStack
  <1>2. Building' = Building /\ \A k : Waiting(k)' = Waiting(k)
    BY <1>1 DEF Building, Waiting
  <1>3. CountInv'
    BY <1>2 DEF CountInv
  <1>4. StackInv'
    BY <1>1 DEF StackInv
  <1>5. \A t \in Requests : \A n \in DOMAIN stack'[t] :
          /\ stack'[t][n].taken <= Len(Parts(stack[t][n].field)')
          /\ n = 1 <=> stack'[t][n].field = Request
    BY <1>1 DEF TypeOK
  <1> QED BY <1>3, <1>4, <1>5

LEMMA StartIInv ==
    ASSUME IInv, Start
    PROVE  IInv'
  <1> USE DEF IInv
  <1>1. /\ phase = "starting" /\ phase' \in {"running", "failed"} /\ mongo' \in BOOLEAN
        /\ UNCHANGED <<role, field, made, stack, served, background, open, left, late, overlap>>
    BY DEF Start
  <1>2. \A t \in Requests : Idle(t)
    BY <1>1 DEF StackInv
  <1>3. /\ StackInv' /\ CountInv'
        /\ \A t \in Requests : \A n \in DOMAIN stack'[t] :
             /\ stack'[t][n].taken <= Len(Parts(stack[t][n].field)')
             /\ n = 1 <=> stack'[t][n].field = Request
    BY <1>1, <1>2, NothingBuilt
  <1>4. TypeOK'
    BY <1>1, <1>3 DEF TypeOK
  <1>5. FieldInv' /\ HeldInv'
    BY <1>1 DEF FieldInv, HeldInv, Made
  <1>6. CloseInv'
    BY <1>1 DEF CloseInv, Position
  <1> QED BY <1>3, <1>4, <1>5, <1>6

LEMMA BeginShutdownIInv ==
    ASSUME IInv, BeginShutdown
    PROVE  IInv'
  <1> USE DEF IInv
  <1>1. /\ phase = "running" /\ \A t \in Requests : Idle(t)
        /\ phase' = "closing" /\ open' \subseteq served /\ background' \subseteq served /\ served' = {}
        /\ field' = [f \in Fields |-> IF f[1] = "executor" THEN field[f] ELSE NoObject]
        /\ UNCHANGED <<role, made, stack, mongo, left, late, overlap>>
    BY DEF BeginShutdown, shutVars
  <1>2. \A k \in KindSet : field'[ExecutorOf(k)] = field[ExecutorOf(k)]
    <2>1. \A k \in KindSet : ExecutorOf(k) \in Fields /\ ExecutorOf(k)[1] = "executor"
      BY FieldsDiffer DEF Fields
    <2> QED BY <1>1, <2>1
  <1>3. \A f \in Fields : field'[f] # NoObject => field'[f] = field[f]
    BY <1>1
  <1>4. /\ StackInv' /\ CountInv'
        /\ \A t \in Requests : \A n \in DOMAIN stack'[t] :
             /\ stack'[t][n].taken <= Len(Parts(stack[t][n].field)')
             /\ n = 1 <=> stack'[t][n].field = Request
    BY <1>1, <1>2, NothingBuilt
  <1>5. TypeOK'
    <2>1. field' \in [Fields -> Object \cup {NoObject}]
      BY <1>1 DEF TypeOK
    <2>2. served' \subseteq Executor /\ background' \subseteq Executor /\ open' \subseteq Executor
      BY <1>1 DEF TypeOK
    <2> QED BY <1>1, <1>4, <2>1, <2>2 DEF TypeOK
  <1>6. FieldInv'
    BY <1>3 DEF FieldInv
  <1>7. HeldInv'
    <2>1. \A x : Made(x)' <=> Made(x)
      BY <1>1 DEF Made
    <2>2. \A f \in Fields : field'[f] # NoObject => Made(field[f])'
      BY <1>1, <1>3 DEF HeldInv, Made
    <2>3. \A t \in Requests : \A n \in DOMAIN stack'[t] : Made(stack[t][n].holds)'
      BY <1>1 DEF HeldInv, Made
    <2>4. Made(served)' /\ Made(background)' /\ Made(open)'
      BY <1>1 DEF HeldInv, Made
    <2>5. \A k \in KindSet : field'[ExecutorOf(k)] # NoObject =>
            \E m \in 1..made'[k] : field'[ExecutorOf(k)] = {[kind |-> k, n |-> m]}
      BY <1>1, <1>2 DEF HeldInv
    <2> QED BY <2>2, <2>3, <2>4, <2>5 DEF HeldInv
  <1>8. CloseInv'
    <2>1. left' = 1
      BY <1>1 DEF CloseInv
    <2>2. ASSUME NEW e \in open' PROVE ~(Position(e)' < left')
      <3>1. e \in Executor /\ Position(e)' = Position(e)
        BY <1>1 DEF TypeOK, Position
      <3>2. Position(e) \in DOMAIN Kinds /\ Kinds \in Seq(STRING)
        BY <3>1, Positions, ContainerAssumption
      <3>3. Position(e) \in 1..Len(Kinds) /\ Len(Kinds) \in Nat
        BY <3>2
      <3> QED BY <2>1, <3>1, <3>3
    <2> QED BY <1>1, <2>2 DEF CloseInv
  <1> QED BY <1>4, <1>5, <1>6, <1>7, <1>8

LEMMA BackgroundUseIInv ==
    ASSUME IInv, BackgroundUse
    PROVE  IInv'
  <1> USE DEF IInv
  <1> PICK e \in background :
        /\ open' = open \cup {e}
        /\ late' = IF field[ExecutorOf(e.kind)] = {e} /\ Position(e) < left THEN late \cup {e} ELSE late
    BY DEF BackgroundUse
  <1>1. /\ phase = "closing"
        /\ UNCHANGED <<role, phase, field, made, stack, served, background, mongo, left, overlap>>
    BY DEF BackgroundUse, shutVars
  <1>2. /\ StackInv' /\ CountInv'
        /\ \A t \in Requests : \A n \in DOMAIN stack'[t] :
             /\ stack'[t][n].taken <= Len(Parts(stack[t][n].field)')
             /\ n = 1 <=> stack'[t][n].field = Request
    <2>1. phase # "running"
      BY <1>1
    <2>2. \A t \in Requests : Idle(t)
      BY <2>1 DEF StackInv
    <2> QED BY <1>1, <2>2, NothingBuilt
  <1>3. TypeOK'
    <2>1. open' \subseteq Executor /\ late' \subseteq Executor
      BY DEF TypeOK
    <2> QED BY <1>1, <1>2, <2>1 DEF TypeOK
  <1>4. FieldInv'
    BY <1>1 DEF FieldInv
  <1>5. HeldInv'
    <2>1. Made(open)'
      BY <1>1 DEF HeldInv, Made
    <2>2. /\ \A f \in Fields : field'[f] # NoObject => Made(field[f])'
          /\ \A t \in Requests : \A n \in DOMAIN stack'[t] : Made(stack[t][n].holds)'
          /\ Made(served)' /\ Made(background)'
      BY <1>1 DEF HeldInv, Made
    <2>3. \A k \in KindSet : field'[ExecutorOf(k)] # NoObject =>
            \E m \in 1..made'[k] : field'[ExecutorOf(k)] = {[kind |-> k, n |-> m]}
      BY <1>1 DEF HeldInv
    <2> QED BY <2>1, <2>2, <2>3 DEF HeldInv
  <1>6. CloseInv'
    <2>1. ASSUME NEW x \in open', field'[ExecutorOf(x.kind)] = {x}, Position(x)' < left' PROVE x \in late'
      <3>1. field[ExecutorOf(x.kind)] = {x} /\ Position(x) < left
        BY <1>1, <2>1 DEF Position
      <3> QED BY <3>1 DEF CloseInv
    <2> QED BY <1>1, <2>1 DEF CloseInv
  <1> QED BY <1>2, <1>3, <1>4, <1>5, <1>6

LEMMA ShutdownIInv ==
    ASSUME IInv, Shutdown
    PROVE  IInv'
  <1> USE DEF IInv
  <1>1. /\ phase = "closing" /\ open' \subseteq open /\ left' \in 1..Len(Kinds) + 1
        /\ phase' \in {"closing", "raised", "stopped"} /\ mongo' \in BOOLEAN
        /\ UNCHANGED <<role, field, made, stack, served, background, late, overlap>>
    <2>1. Len(Kinds) \in Nat /\ left \in 1..Len(Kinds) + 1
      BY ContainerAssumption DEF TypeOK
    <2>2. CASE CloseNext
      BY <2>1, <2>2 DEF CloseNext, TypeOK
    <2>3. CASE CloseFails
      BY <2>3 DEF CloseFails, shutVars, TypeOK
    <2>4. CASE CloseMongo
      BY <2>4 DEF CloseMongo, TypeOK
    <2> QED BY <2>2, <2>3, <2>4 DEF Shutdown
  <1>2. /\ StackInv' /\ CountInv'
        /\ \A t \in Requests : \A n \in DOMAIN stack'[t] :
             /\ stack'[t][n].taken <= Len(Parts(stack[t][n].field)')
             /\ n = 1 <=> stack'[t][n].field = Request
    <2>1. phase # "running"
      BY <1>1
    <2>2. \A t \in Requests : Idle(t)
      BY <2>1 DEF StackInv
    <2> QED BY <1>1, <2>2, NothingBuilt
  <1>3. TypeOK'
    BY <1>1, <1>2 DEF TypeOK
  <1>4. FieldInv'
    BY <1>1 DEF FieldInv
  <1>5. HeldInv'
    <2>1. Made(open)'
      BY <1>1 DEF HeldInv, Made
    <2>2. /\ \A f \in Fields : field'[f] # NoObject => Made(field[f])'
          /\ \A t \in Requests : \A n \in DOMAIN stack'[t] : Made(stack[t][n].holds)'
          /\ Made(served)' /\ Made(background)'
      BY <1>1 DEF HeldInv, Made
    <2>3. \A k \in KindSet : field'[ExecutorOf(k)] # NoObject =>
            \E m \in 1..made'[k] : field'[ExecutorOf(k)] = {[kind |-> k, n |-> m]}
      BY <1>1 DEF HeldInv
    <2> QED BY <2>1, <2>2, <2>3 DEF HeldInv
  <1>6. ASSUME NEW e \in open', field'[ExecutorOf(e.kind)] = {e}, Position(e)' < left' PROVE e \in late'
    <2>1. /\ e \in open /\ e \in Executor /\ field[ExecutorOf(e.kind)] = {e} /\ Position(e)' = Position(e)
          /\ Position(e) \in Nat /\ Kinds[Position(e)] = e.kind /\ left \in Nat
      <3>1. e \in open /\ e \in Executor /\ field[ExecutorOf(e.kind)] = {e} /\ Position(e)' = Position(e)
        BY <1>1, <1>6 DEF TypeOK, Position
      <3>2. Position(e) \in 1..Len(Kinds) /\ Kinds[Position(e)] = e.kind
        BY <3>1, Positions, ContainerAssumption
      <3>3. left \in Nat
        BY ContainerAssumption DEF TypeOK
      <3> QED BY <3>1, <3>2, <3>3
    <2>2. CASE Position(e) < left
      BY <1>1, <2>1, <2>2 DEF CloseInv
    <2>3. CASE ~(Position(e) < left)
      <3>1. CloseNext
        BY <1>6, <2>1, <2>3 DEF Shutdown, CloseFails, CloseMongo, shutVars
      <3>2. left' = left + 1 /\ e \notin Closes(left)
        BY <1>6, <3>1 DEF CloseNext
      <3>3. Position(e) = left
        BY <1>6, <2>1, <2>3, <3>2
      <3>4. {e} # NoObject
        <4>1. {e} \in Object
          BY <2>1 DEF Object
        <4> QED BY <4>1, ObjectAssumption
      <3> QED BY <2>1, <3>2, <3>3, <3>4 DEF Closes
    <2> QED BY <2>2, <2>3
  <1>7. phase' = "stopped" => left' = Len(Kinds) + 1
    <2>1. CASE CloseMongo
      <3>1. Len(Kinds) \in Nat /\ left \in 1..Len(Kinds) + 1
        BY ContainerAssumption DEF TypeOK
      <3>2. left > Len(Kinds) /\ left' = left
        BY <2>1 DEF CloseMongo
      <3> QED BY <3>1, <3>2
    <2> QED BY <1>1, <2>1 DEF Shutdown, CloseNext, CloseFails
  <1>8. CloseInv'
    BY <1>1, <1>6, <1>7 DEF CloseInv
  <1> QED BY <1>2, <1>3, <1>4, <1>5, <1>8

-----------------------------------------------------------------------------
(* The invariant is inductive: a finished part is published.               *)

(* What is stored was made, and no more of it than the counts allow. *)
LEMMA StoredIsMade ==
    ASSUME IInv, NEW t \in Requests, Store(t),
           NEW fr, NEW f, NEW b, fr = Top(t), f = fr.field, b = Built(f, fr)
    PROVE  /\ f \in Fields /\ b \in Object /\ Made(b)'
           /\ made' \in [KindSet -> 0..Cardinality(Requests)]
           /\ \A k \in KindSet : /\ f # ExecutorOf(k) => made'[k] = made[k]
                                 /\ f = ExecutorOf(k) =>
                                      /\ t \in Waiting(k) /\ made'[k] = made[k] + 1
                                      /\ b = {[kind |-> k, n |-> made[k] + 1]}
  <1> USE DEF IInv
  <1>1. /\ ~Idle(t) /\ f # Request /\ f \in Fields /\ Complete(fr) /\ FrameGives(fr)
        /\ fr.holds \in Object /\ Made(fr.holds) /\ fr.taken \in Nat
        /\ made' = [k \in KindSet |-> IF f = ExecutorOf(k) THEN made[k] + 1 ELSE made[k]]
    <2>1. ~Idle(t) /\ f # Request /\ Complete(fr)
          /\ made' = [k \in KindSet |-> IF f = ExecutorOf(k) THEN made[k] + 1 ELSE made[k]]
      BY DEF Store, Ready
    <2>2. fr.field \in Fields \cup {Request} /\ FrameGives(fr) /\ fr.holds \in Object /\ fr.taken \in Nat
          /\ Len(stack[t]) \in DOMAIN stack[t] /\ fr = stack[t][Len(stack[t])]
      BY <2>1, TopFrame DEF Top
    <2>3. Made(fr.holds)
      BY <2>2 DEF HeldInv
    <2> QED BY <2>1, <2>2, <2>3
  <1>2. \A k \in KindSet : made[k] \in Nat /\ made[k] <= Cardinality(Requests) /\ Cardinality(Requests) \in Nat
    BY Sizes DEF TypeOK
  <1>3. CASE \E k \in KindSet : f = ExecutorOf(k)
    <2> PICK k \in KindSet : f = ExecutorOf(k)
      BY <1>3
    <2>1. ASSUME NEW j \in KindSet, f = ExecutorOf(j) PROVE j = k
      <3>1. ExecutorOf(j)[2] = j /\ ExecutorOf(k)[2] = k
        BY FieldsDiffer
      <3> QED BY <2>1, <3>1
    <2>2. fr.holds = {}
      <3>1. Len(Parts(f)) = 0
        BY PartsType
      <3>2. fr.taken = 0
        BY <1>1, <3>1 DEF Complete
      <3> QED BY <1>1, <3>2 DEF FrameGives
    <2>3. NewExecutor(f) = {[kind |-> k, n |-> made[k] + 1]} /\ f # Registry
      <3>1. {j \in KindSet : f = ExecutorOf(j)} = {k}
        BY <2>1
      <3>2. f # Registry
        BY FieldsDiffer
      <3> QED BY <3>1, <3>2 DEF NewExecutor
    <2>4. Built(f, fr) = {[kind |-> k, n |-> made[k] + 1]}
      BY <2>2, <2>3 DEF Built
    <2>5. t \in Waiting(k)
      BY <1>1 DEF Waiting
    <2>6. made[k] + 1 <= Cardinality(Requests)
      <3>1. Waiting(k) \in SUBSET Requests
        BY DEF Waiting
      <3>2. Cardinality(Waiting(k)) \in Nat /\ Cardinality(Waiting(k) \ {t}) = Cardinality(Waiting(k)) - 1
            /\ Cardinality(Waiting(k) \ {t}) \in Nat
        <4>1. Waiting(k) \ {t} \in SUBSET Requests
          BY <3>1
        <4> QED BY <2>5, <3>1, <4>1, Sizes
      <3>3. made[k] + Cardinality(Waiting(k)) <= overlap /\ overlap \in 0..Cardinality(Requests)
        BY DEF CountInv, TypeOK
      <3> QED BY <1>2, <3>2, <3>3
    <2>7. made'[k] = made[k] + 1 /\ \A j \in KindSet : j # k => made'[j] = made[j]
      BY <1>1, <2>1
    <2>8. made' \in [KindSet -> 0..Cardinality(Requests)]
      <3>1. \A j \in KindSet : (IF f = ExecutorOf(j) THEN made[j] + 1 ELSE made[j]) \in 0..Cardinality(Requests)
        BY <1>2, <2>1, <2>6
      <3> QED BY <1>1, <3>1
    <2>9. b \in Object /\ Made(b)'
      <3> PICK e : e = [kind |-> k, n |-> made[k] + 1]
        OBVIOUS
      <3>1. e \in Executor /\ e.kind = k /\ e.n = made[k] + 1
        BY <1>2, <2>6 DEF Executor
      <3>2. {e} \in Object
        BY <3>1 DEF Object
      <3>3. made'[k] = e.n /\ e.n \in Nat
        BY <1>2, <2>7, <3>1
      <3>4. Made({e})'
        BY <3>1, <3>3 DEF Made
      <3>5. b = {e}
        BY <2>4
      <3> QED BY <3>2, <3>4, <3>5
    <2> QED BY <1>1, <2>1, <2>4, <2>5, <2>7, <2>8, <2>9
  <1>4. CASE ~\E k \in KindSet : f = ExecutorOf(k)
    <2>1. NewExecutor(f) = {}
      BY <1>4 DEF NewExecutor
    <2>2. b = fr.holds \/ b = fr.holds \cup {Plugins}
      BY <2>1 DEF Built
    <2>3. b \in Object
      BY <1>1, <2>2 DEF Object
    <2>4. made' = made
      BY <1>1, <1>4 DEF TypeOK
    <2>5. Made(b)
      BY <1>1, <2>2 DEF Made
    <2>6. Made(b)'
      BY <2>4, <2>5 DEF Made
    <2> QED BY <1>1, <1>4, <2>3, <2>4, <2>6 DEF TypeOK
  <1> QED BY <1>3, <1>4

LEMMA StoreIInv ==
    ASSUME IInv, NEW t \in Requests, Store(t)
    PROVE  IInv'
  <1> USE DEF IInv
  <1> PICK fr, f, b, l : fr = Top(t) /\ f = fr.field /\ b = Built(f, fr) /\ l = Len(stack[t])
    OBVIOUS
  <1>1. /\ ~Idle(t) /\ f # Request /\ Complete(fr) /\ Pop(t) /\ field' = [field EXCEPT ![f] = b]
        /\ UNCHANGED <<role, phase, served, background, open, mongo, left, late, overlap>>
    BY DEF Store, Ready, shutVars
  <1>2. /\ l \in Nat /\ l > 1 /\ DOMAIN stack[t] = 1..l /\ fr = stack[t][l] /\ fr \in Frame
        /\ FrameGives(fr) /\ fr.holds \in Object /\ phase = "running"
    BY <1>1, TopFrame DEF Top
  <1>3. /\ stack' \in [Requests -> Seq(Frame)]
        /\ \A u \in Requests : u # t => stack'[u] = stack[u]
        /\ Len(stack'[t]) = l - 1 /\ DOMAIN stack'[t] = 1..l - 1
        /\ \A n \in 1..l - 1 : stack'[t][n] = stack[t][n]
    BY <1>1, PopStack
  <1>4. /\ f \in Fields /\ b \in Object /\ Made(b)'
        /\ made' \in [KindSet -> 0..Cardinality(Requests)]
        /\ \A k \in KindSet : /\ f # ExecutorOf(k) => made'[k] = made[k]
                              /\ f = ExecutorOf(k) =>
                                   /\ t \in Waiting(k) /\ made'[k] = made[k] + 1
                                   /\ b = {[kind |-> k, n |-> made[k] + 1]}
    BY StoredIsMade
  <1>5. /\ field' \in [Fields -> Object \cup {NoObject}] /\ field'[f] = b
        /\ \A g \in Fields : g # f => field'[g] = field[g]
    BY <1>1, <1>4 DEF TypeOK
  <1>6. /\ \A g : Parts(g)' = Parts(g)
        /\ \A x : (Complete(x)' <=> Complete(x)) /\ (FrameGives(x)' <=> FrameGives(x))
    BY <1>1, SameStack
  <1>7. ASSUME NEW u \in Requests, NEW n \in DOMAIN stack'[u]
        PROVE  /\ n \in DOMAIN stack[u] /\ stack'[u][n] = stack[u][n]
               /\ n < Len(stack'[u]) => n < Len(stack[u])
    <2>1. CASE u # t
      BY <1>3, <2>1
    <2>2. CASE u = t
      <3>1. n \in 1..l - 1
        BY <1>3, <2>2
      <3>2. n \in 1..l /\ n < l
        BY <1>2, <3>1
      <3> QED BY <1>2, <1>3, <2>2, <3>1, <3>2
    <2> QED BY <2>1, <2>2
  <1>8. /\ ~Idle(t)' /\ ~Complete(Top(t)') /\ Top(t)' = stack[t][l - 1]
    <2>1. l - 1 \in 1..l - 1 /\ l - 1 < l /\ l - 1 \in 1..l /\ l - 1 # 0
      BY <1>2
    <2>2. stack'[t] # <<>>
      <3>1. Len(<<>>) = 0
        OBVIOUS
      <3> QED BY <1>3, <2>1, <3>1
    <2>3. Top(t)' = stack'[t][Len(stack'[t])]
      BY DEF Top
    <2>4. Top(t)' = stack[t][l - 1]
      BY <1>3, <2>1, <2>3
    <2>5. ~Complete(stack[t][l - 1])
      BY <1>2, <2>1 DEF StackInv
    <2> QED BY <2>2, <2>4, <2>5 DEF Idle
  <1>9. TypeOK'
    <2>1. \A u \in Requests : \A n \in DOMAIN stack'[u] :
            /\ stack'[u][n].taken <= Len(Parts(stack[u][n].field)')
            /\ n = 1 <=> stack'[u][n].field = Request
      BY <1>1, <1>7, SameStack DEF TypeOK
    <2> QED BY <1>1, <1>3, <1>4, <1>5, <2>1 DEF TypeOK
  <1>10. StackInv'
    <2>1. \A u \in Requests : \A n \in DOMAIN stack'[u] :
            FrameGives(stack[u][n])' /\ (n < Len(stack'[u]) => ~Complete(stack[u][n])')
      BY <1>1, <1>7, SameStack DEF StackInv
    <2>2. phase' = "running"
      BY <1>1, <1>2
    <2> QED BY <2>1, <2>2 DEF StackInv
  <1>11. FieldInv'
    <2>1. Gives(f, b)
      BY <1>1, <1>2, <1>4, CompleteGives
    <2>2. ASSUME NEW g \in Fields, field'[g] # NoObject PROVE Gives(g, field'[g])
      BY <1>5, <2>1, <2>2 DEF FieldInv
    <2> QED BY <2>2 DEF FieldInv
  <1>12. \A k \in KindSet : made[k] \in Nat /\ made'[k] \in Nat /\ made[k] <= made'[k]
    <2>1. ASSUME NEW k \in KindSet PROVE made[k] \in Nat /\ made'[k] \in Nat /\ made[k] <= made'[k]
      <3>1. made[k] \in Nat /\ made'[k] \in Nat
        BY <1>4, Sizes DEF TypeOK
      <3>2. made'[k] = made[k] \/ made'[k] = made[k] + 1
        BY <1>4
      <3> QED BY <3>1, <3>2
    <2> QED BY <2>1
  <1>13. ASSUME NEW x \in Object, Made(x) PROVE Made(x)'
    <2>1. \A e \in x \ {Plugins} : e.kind \in KindSet /\ e.n \in Nat /\ e.n <= made[e.kind]
      BY <1>13, Sizes DEF Object, Executor, Made
    <2>2. \A e \in x \ {Plugins} : e.n <= made'[e.kind]
      BY <1>12, <2>1
    <2> QED BY <2>2 DEF Made
  <1>14. HeldInv'
    <2>1. ASSUME NEW g \in Fields, field'[g] # NoObject PROVE Made(field[g])'
      <3>1. CASE g = f
        <4>1. field'[g] = b
          BY <1>5, <3>1
        <4> QED BY <1>4, <4>1 DEF Made
      <3>2. CASE g # f
        <4>1. field'[g] = field[g] /\ field[g] \in Object /\ Made(field[g])
          BY <1>5, <2>1, <3>2 DEF HeldInv, TypeOK
        <4> PICK x : x = field[g]
          OBVIOUS
        <4>2. Made(x)'
          BY <1>13, <4>1
        <4> QED BY <4>1, <4>2 DEF Made
      <3> QED BY <3>1, <3>2
    <2>2. ASSUME NEW u \in Requests, NEW n \in DOMAIN stack'[u] PROVE Made(stack[u][n].holds)'
      <3> PICK x : x = stack[u][n].holds
        OBVIOUS
      <3>1. x \in Object /\ Made(x)
        <4>1. stack[u] \in Seq(Frame) /\ n \in DOMAIN stack[u]
          BY <1>7, <2>2 DEF TypeOK
        <4>2. stack[u][n] \in Frame
          BY <4>1
        <4> QED BY <4>1, <4>2 DEF HeldInv, Frame
      <3>2. Made(x)'
        BY <1>13, <3>1
      <3>3. stack'[u][n].holds = x
        BY <1>7, <2>2
      <3> QED BY <3>2, <3>3 DEF Made
    <2>3. Made(served)' /\ Made(background)' /\ Made(open)'
      <3>1. served \in Object /\ background \in Object /\ open \in Object
        BY DEF TypeOK, Object
      <3> PICK x, y, z : x = served /\ y = background /\ z = open
        OBVIOUS
      <3>2. Made(x)' /\ Made(y)' /\ Made(z)'
        BY <1>13, <3>1 DEF HeldInv
      <3> QED BY <1>1, <3>2 DEF Made
    <2>4. ASSUME NEW k \in KindSet, field'[ExecutorOf(k)] # NoObject
          PROVE  \E m \in 1..made'[k] : field'[ExecutorOf(k)] = {[kind |-> k, n |-> m]}
      <3>1. CASE f = ExecutorOf(k)
        <4>1. field'[ExecutorOf(k)] = {[kind |-> k, n |-> made'[k]]}
          BY <1>4, <1>5, <3>1
        <4>2. made'[k] \in 1..made'[k]
          BY <1>4, <1>12, <3>1
        <4> QED BY <4>1, <4>2
      <3>2. CASE f # ExecutorOf(k)
        <4>1. ExecutorOf(k) \in Fields
          BY DEF Fields
        <4>2. field'[ExecutorOf(k)] = field[ExecutorOf(k)] /\ made'[k] = made[k]
          BY <1>4, <1>5, <3>2, <4>1
        <4> QED BY <2>4, <4>2 DEF HeldInv
      <3> QED BY <3>1, <3>2
    <2> QED BY <2>1, <2>2, <2>3, <2>4 DEF HeldInv
  <1>15. \A k \in KindSet : Top(t)'.field # ExecutorOf(k)
    <2>1. ASSUME NEW k \in KindSet, stack[t][l - 1].field = ExecutorOf(k) PROVE FALSE
      <3>1. l - 1 \in 1..l
        BY <1>2
      <3>2. stack[t] \in Seq(Frame) /\ l - 1 \in DOMAIN stack[t]
        BY <1>2, <3>1 DEF TypeOK
      <3>3. stack[t][l - 1] \in Frame /\ stack[t][l - 1].taken <= Len(Parts(stack[t][l - 1].field))
        BY <3>2 DEF TypeOK
      <3>4. stack[t][l - 1].taken \in Nat /\ Len(Parts(stack[t][l - 1].field)) = 0
        BY <2>1, <3>3, PartsType DEF Frame
      <3>5. stack[t][l - 1].taken = 0
        BY <3>3, <3>4
      <3> QED BY <1>8, <3>4, <3>5 DEF Complete
    <2> QED BY <1>8, <2>1
  <1>16. Building' = Building
    <2>1. ~Serving(t) /\ ~Serving(t)'
      BY <1>1, <1>6, <1>8 DEF Serving
    <2> QED BY <1>1, <1>3, <1>8, <2>1, SameStack DEF Building
  <1>17. ASSUME NEW k \in KindSet PROVE Waiting(k)' \in SUBSET (Waiting(k) \ {t})
    BY <1>1, <1>3, <1>15, SameStack DEF Waiting
  <1>18. CountInv'
    <2>1. ASSUME NEW k \in KindSet PROVE made'[k] + Cardinality(Waiting(k))' <= overlap'
      <3>1. Waiting(k) \in SUBSET Requests /\ Waiting(k) \ {t} \in SUBSET Requests
        BY DEF Waiting
      <3>2. /\ Cardinality(Waiting(k)') \in Nat /\ Cardinality(Waiting(k)') <= Cardinality(Waiting(k) \ {t})
            /\ Cardinality(Waiting(k) \ {t}) \in Nat /\ Cardinality(Waiting(k)) \in Nat
            /\ Cardinality(Waiting(k) \ {t}) <= Cardinality(Waiting(k))
            /\ t \in Waiting(k) => Cardinality(Waiting(k) \ {t}) = Cardinality(Waiting(k)) - 1
        <4>1. Waiting(k)' \in SUBSET Requests
          BY <1>17, <3>1
        <4> QED BY <1>17, <3>1, <4>1, Sizes
      <3>3. made[k] + Cardinality(Waiting(k)) <= overlap /\ overlap \in Nat
        BY Sizes DEF CountInv, TypeOK
      <3>4. made'[k] + Cardinality(Waiting(k)') <= overlap
        <4>1. CASE f = ExecutorOf(k)
          BY <1>4, <1>12, <3>2, <3>3, <4>1
        <4>2. CASE f # ExecutorOf(k)
          BY <1>4, <1>12, <3>2, <3>3, <4>2
        <4> QED BY <4>1, <4>2
      <3> QED BY <1>1, <3>4
    <2>2. ASSUME NEW k \in KindSet, field'[ExecutorOf(k)] = NoObject PROVE made'[k] = 0
      <3>1. ExecutorOf(k) \in Fields
        BY DEF Fields
      <3>2. b # NoObject
        BY <1>4, ObjectAssumption
      <3> QED BY <1>4, <1>5, <2>2, <3>1, <3>2 DEF CountInv
    <2>3. Cardinality(Building)' <= overlap'
      BY <1>1, <1>16 DEF CountInv
    <2> QED BY <2>1, <2>2, <2>3 DEF CountInv
  <1>19. CloseInv'
    <2>1. left' = 1 /\ phase' = "running"
      BY <1>1, <1>2 DEF CloseInv
    <2>2. ASSUME NEW e \in open' PROVE ~(Position(e)' < left')
      <3>1. e \in Executor /\ Position(e)' = Position(e)
        BY <1>1 DEF TypeOK, Position
      <3>2. Position(e) \in 1..Len(Kinds) /\ Len(Kinds) \in Nat
        BY <3>1, Positions, ContainerAssumption
      <3> QED BY <2>1, <3>1, <3>2
    <2> QED BY <2>1, <2>2 DEF CloseInv
  <1> QED BY <1>9, <1>10, <1>11, <1>14, <1>18, <1>19

-----------------------------------------------------------------------------
(* The invariant holds, and with it the properties.                        *)

LEMMA InitIInv ==
    Init => IInv
  <1> SUFFICES ASSUME Init PROVE IInv
    OBVIOUS
  <1> USE DEF Init
  <1>1. /\ Len(Kinds) \in Nat /\ 1 \in 1..Len(Kinds) + 1 /\ Cardinality(Requests) \in Nat
        /\ 0 \in 0..Cardinality(Requests)
    <2>1. Len(Kinds) \in Nat /\ Cardinality(Requests) \in Nat
      BY ContainerAssumption, Sizes
    <2> QED BY <2>1
  <1>2. \A t \in Requests : stack[t] = <<>> /\ Idle(t)
    BY DEF Idle
  <1>3. \A t \in Requests : DOMAIN stack[t] = {}
    BY <1>2
  <1>4. stack \in [Requests -> Seq(Frame)]
    <2>1. <<>> \in Seq(Frame)
      OBVIOUS
    <2> QED BY <2>1
  <1>5. field \in [Fields -> Object \cup {NoObject}] /\ made \in [KindSet -> 0..Cardinality(Requests)]
    BY <1>1
  <1>6. TypeOK
    BY <1>1, <1>3, <1>4, <1>5 DEF TypeOK
  <1>7. StackInv
    BY <1>2, <1>3 DEF StackInv
  <1>8. \A k \in KindSet : ExecutorOf(k) \in Fields
    BY DEF Fields
  <1>9. FieldInv /\ HeldInv
    BY <1>3, <1>8 DEF FieldInv, HeldInv, Made
  <1>10. CountInv
    <2>1. Building = {} /\ \A k : Waiting(k) = {}
      BY <1>2 DEF Building, Waiting
    <2>2. Cardinality({}) = 0
      BY FS_EmptySet
    <2>3. \A k \in KindSet : made[k] = 0
      OBVIOUS
    <2>4. 0 <= 0 /\ 0 + 0 <= 0
      OBVIOUS
    <2> QED BY <2>1, <2>2, <2>3, <2>4 DEF CountInv
  <1>11. CloseInv
    BY DEF CloseInv
  <1> QED BY <1>6, <1>7, <1>9, <1>10, <1>11 DEF IInv

LEMMA NextIInv ==
    IInv /\ [Next]_vars => IInv'
  <1> SUFFICES ASSUME IInv, [Next]_vars PROVE IInv'
    OBVIOUS
  <1>1. CASE Start
    BY <1>1, StartIInv
  <1>2. CASE BackgroundUse
    BY <1>2, BackgroundUseIInv
  <1>3. CASE BeginShutdown
    BY <1>3, BeginShutdownIInv
  <1>4. CASE Shutdown
    BY <1>4, ShutdownIInv
  <1>5. ASSUME NEW t \in Requests, Arrive(t) \/ Build(t) \/ PluginFails(t) \/ Answer(t)
        PROVE  IInv'
    <2>1. CASE Arrive(t)
      BY <2>1, ArriveIInv
    <2>2. CASE Look(t)
      BY <2>2, LookIInv
    <2>3. CASE Store(t)
      BY <2>3, StoreIInv
    <2>4. CASE PluginFails(t)
      BY <2>4, PluginFailsIInv
    <2>5. CASE Answer(t)
      BY <2>5, AnswerIInv
    <2> QED BY <1>5, <2>1, <2>2, <2>3, <2>4, <2>5 DEF Build
  <1>6. CASE UNCHANGED vars
    <2>1. TypeOK'
      BY <1>6 DEF IInv, TypeOK, vars, shutVars, Parts, RequestNeeds
    <2>2. /\ UNCHANGED <<role, phase, field, made, stack, served, background, open, left, late, overlap>>
          /\ TypeOK /\ StackInv /\ FieldInv /\ HeldInv /\ CountInv /\ CloseInv
      BY <1>6 DEF vars, shutVars, IInv
    <2>3. StackInv' /\ CountInv'
      <3>1. phase' # "running" => \A t \in Requests : Idle(t)
        BY <2>2 DEF StackInv
      <3> QED BY <2>2, <3>1, NothingBuilt
    <2>4. FieldInv'
      BY <2>2 DEF FieldInv
    <2>5. HeldInv'
      BY <2>2 DEF HeldInv, Made
    <2>6. CloseInv'
      BY <2>2 DEF CloseInv, Position
    <2> QED BY <2>1, <2>3, <2>4, <2>5, <2>6 DEF IInv
  <1> QED BY <1>1, <1>2, <1>3, <1>4, <1>5, <1>6 DEF Next

LEMMA Invariance ==
    Spec => []IInv
  BY InitIInv, NextIInv, PTL DEF Spec

(* Every state of the container is well formed. *)
THEOREM ContainerTypeCorrect == Spec => []TypeOK
  <1>1. IInv => TypeOK
    BY DEF IInv
  <1> QED BY <1>1, Invariance, PTL

(* Whatever requests race and whatever plugins fail, no more executors of a
   kind are ever made than there were requests building at once
   (container.py:312-359). *)
THEOREM ExecutorsAreBounded == Spec => []NoExecutorRemade
  <1>1. IInv => NoExecutorRemade
    <2> SUFFICES ASSUME IInv, NEW k \in KindSet PROVE made[k] <= overlap
      BY DEF NoExecutorRemade
    <2>1. Waiting(k) \in SUBSET Requests
      BY DEF Waiting
    <2>2. /\ Cardinality(Waiting(k)) \in Nat /\ made[k] \in Nat /\ overlap \in Nat
          /\ made[k] + Cardinality(Waiting(k)) <= overlap
      BY <2>1, Sizes DEF IInv, TypeOK, CountInv
    <2> QED BY <2>2
  <1> QED BY <1>1, Invariance, PTL

(* A request is served by a complete service, and without a race by the
   executors the container will close (container.py:308-364). *)
THEOREM ServicesAreComplete == Spec => []ServiceIsComplete
  <1>1. ASSUME IInv, NEW t \in Requests, Serving(t), NEW held, held = Top(t).holds
        PROVE  /\ Plugins \in held /\ \A k \in KindSet : \E e \in held : e.kind = k
               /\ overlap = 1 => \A e \in held \ {Plugins} : field[ExecutorOf(e.kind)] = {e}
    <2>1. /\ ~Idle(t) /\ Top(t).field = Request /\ Complete(Top(t)) /\ TypeOK /\ StackInv /\ HeldInv
          /\ CountInv
      BY <1>1 DEF Serving, IInv
    <2>2. Full(held)
      BY <1>1, <2>1, TopFrame, RequestIsFull
    <2>3. ASSUME overlap = 1, NEW e \in held \ {Plugins} PROVE field[ExecutorOf(e.kind)] = {e}
      <3>1. held \in Object /\ Made(held)
        BY <1>1, <2>1, TopFrame DEF HeldInv, Top
      <3>2. e \in Executor /\ e.kind \in KindSet /\ e.n \in Nat /\ e.n >= 1 /\ e.n <= made[e.kind]
            /\ e = [kind |-> e.kind, n |-> e.n]
        BY <2>3, <3>1, Sizes DEF Object, Executor, Made
      <3>3. made[e.kind] \in Nat /\ made[e.kind] <= 1
        <4>1. Waiting(e.kind) \in SUBSET Requests
          BY DEF Waiting
        <4>2. /\ Cardinality(Waiting(e.kind)) \in Nat /\ made[e.kind] \in Nat
              /\ made[e.kind] + Cardinality(Waiting(e.kind)) <= 1
          BY <2>1, <2>3, <3>2, <4>1, Sizes DEF TypeOK, CountInv
        <4> QED BY <4>2
      <3>4. made[e.kind] = 1 /\ e.n = 1
        BY <3>2, <3>3
      <3>5. field[ExecutorOf(e.kind)] # NoObject
        <4>1. made[e.kind] # 0
          BY <3>4
        <4> QED BY <2>1, <3>2, <4>1 DEF CountInv
      <3>6. PICK m \in 1..made[e.kind] : field[ExecutorOf(e.kind)] = {[kind |-> e.kind, n |-> m]}
        BY <2>1, <3>2, <3>5 DEF HeldInv
      <3>7. m = 1
        BY <3>4, <3>6
      <3>8. field[ExecutorOf(e.kind)] = {[kind |-> e.kind, n |-> 1]}
        BY <3>6, <3>7
      <3>9. e = [kind |-> e.kind, n |-> 1]
        BY <3>2, <3>4
      <3> QED BY <3>8, <3>9
    <2> QED BY <2>2, <2>3 DEF Full
  <1>2. IInv => ServiceIsComplete
    BY <1>1 DEF ServiceIsComplete
  <1> QED BY <1>2, Invariance, PTL

(* Only the end of the lifespan, behind the container's aclose(), ends the
   shutdown, and it closes the database client (main.py:49-52). *)
MongoClosed == phase = "stopped" => ~mongo

LEMMA MongoIsClosed == Spec => []MongoClosed
  <1>1. Init => MongoClosed
    BY DEF Init, MongoClosed
  <1>2. ASSUME MongoClosed, [Next]_vars PROVE MongoClosed'
    <2>1. CASE Start
      BY <1>2, <2>1 DEF Start, MongoClosed
    <2>2. CASE Shutdown
      BY <1>2, <2>2 DEF Shutdown, CloseNext, CloseFails, CloseMongo, shutVars, MongoClosed
    <2>3. CASE BackgroundUse \/ BeginShutdown
      BY <1>2, <2>3 DEF BackgroundUse, BeginShutdown, shutVars, MongoClosed
    <2>4. ASSUME NEW t \in Requests, Arrive(t) \/ Build(t) \/ PluginFails(t) \/ Answer(t)
          PROVE  MongoClosed'
      BY <1>2, <2>4 DEF Arrive, Build, Look, Store, PluginFails, Answer, shutVars, MongoClosed
    <2>5. CASE UNCHANGED vars
      BY <1>2, <2>5 DEF vars, shutVars, MongoClosed
    <2> QED BY <1>2, <2>1, <2>2, <2>3, <2>4, <2>5 DEF Next
  <1> QED BY <1>1, <1>2, PTL DEF Spec

(* What a shutdown leaves open was lost in a race, used again after it was
   closed, or is behind a close that failed, the database client only the
   last (container.py:366-379, main.py:49-52). *)
THEOREM ShutdownIsExplained == Spec => []ClosedOrExplained
  <1>1. ASSUME IInv, phase \in {"stopped", "raised"}, NEW e \in open PROVE LeftOpen(e)
    <2> USE <1>1 DEF IInv
    <2>1. e \in Executor /\ e.kind \in KindSet /\ e.n \in Nat /\ e.n >= 1 /\ e.n <= made[e.kind]
          /\ e = [kind |-> e.kind, n |-> e.n] /\ e # Plugins
      <3>1. e \in Executor
        BY DEF TypeOK
      <3>2. e.kind \in KindSet /\ e.n \in Nat /\ e.n >= 1 /\ e = [kind |-> e.kind, n |-> e.n]
        BY <3>1, Sizes DEF Executor
      <3>3. e # Plugins
        BY <3>2 DEF Plugins
      <3>4. e.n <= made[e.kind]
        BY <3>3 DEF HeldInv, Made
      <3> QED BY <3>1, <3>2, <3>3, <3>4
    <2>2. Position(e) \in 1..Len(Kinds) /\ Len(Kinds) \in Nat /\ left \in Nat
      BY <2>1, Positions, ContainerAssumption DEF TypeOK
    <2>3. CASE field[ExecutorOf(e.kind)] = {e}
      <3>1. CASE Position(e) < left
        BY <2>3, <3>1 DEF CloseInv, LeftOpen
      <3>2. CASE ~(Position(e) < left)
        <4>1. phase # "stopped"
          BY <2>2, <3>2 DEF CloseInv
        <4> QED BY <1>1, <2>2, <3>2, <4>1 DEF LeftOpen
      <3> QED BY <3>1, <3>2
    <2>4. CASE field[ExecutorOf(e.kind)] # {e}
      <3>1. made[e.kind] \in Nat /\ overlap \in Nat /\ made[e.kind] <= overlap
        <4>1. Waiting(e.kind) \in SUBSET Requests
          BY DEF Waiting
        <4>2. /\ Cardinality(Waiting(e.kind)) \in Nat /\ made[e.kind] \in Nat /\ overlap \in Nat
              /\ made[e.kind] + Cardinality(Waiting(e.kind)) <= overlap
          BY <2>1, <4>1, Sizes DEF TypeOK, CountInv
        <4> QED BY <4>2
      <3>2. made[e.kind] # 0
        BY <2>1, <3>1
      <3>3. field[ExecutorOf(e.kind)] # NoObject
        BY <2>1, <3>2 DEF CountInv
      <3>4. PICK m \in 1..made[e.kind] : field[ExecutorOf(e.kind)] = {[kind |-> e.kind, n |-> m]}
        BY <2>1, <3>3 DEF HeldInv
      <3>5. m # e.n
        BY <2>1, <2>4, <3>4
      <3>6. made[e.kind] > 1
        BY <2>1, <3>1, <3>4, <3>5
      <3>7. overlap > 1
        BY <3>1, <3>6
      <3> QED BY <2>4, <3>7 DEF LeftOpen
    <2> QED BY <2>3, <2>4
  <1>2. IInv /\ MongoClosed => ClosedOrExplained
    BY <1>1 DEF ClosedOrExplained, MongoClosed
  <1> QED BY <1>2, Invariance, MongoIsClosed, PTL

(* A worker takes one task at a time, and none of its effects runs in the
   background. *)
WorkerInv ==
    role = "worker" =>
      /\ \A t, u \in Requests : ~Idle(t) /\ ~Idle(u) => t = u
      /\ overlap <= 1 /\ background = {} /\ late = {}

LEMMA WorkerInvariance == Spec => []WorkerInv
  <1>1. Init => WorkerInv
    BY DEF Init, WorkerInv, Idle
  <1>2. ASSUME TypeOK, WorkerInv, [Next]_vars PROVE WorkerInv'
    <2>0. role' = role
      BY <1>2 DEF Next, vars, Start, BackgroundUse, BeginShutdown, Shutdown, CloseNext,
         CloseFails, CloseMongo, Arrive, Build, Look, Store, PluginFails, Answer
    <2> SUFFICES ASSUME role = "worker" PROVE WorkerInv'
      BY <2>0 DEF WorkerInv
    <2>1. ASSUME NEW t \in Requests, Arrive(t) PROVE WorkerInv'
      <3>1. Building = {} /\ \A u \in Requests : Idle(u)
        BY <2>1 DEF Arrive, Building
      <3>2. Cardinality(Building) = 0
        BY <3>1, FS_EmptySet
      <3>3. overlap' <= 1
        BY <1>2, <2>1, <3>2 DEF Arrive, WorkerInv
      <3>4. \A u \in Requests \ {t} : Idle(u)'
        BY <1>2, <2>1, <3>1 DEF Arrive, Push, Idle, TypeOK
      <3> QED BY <1>2, <2>1, <3>3, <3>4 DEF Arrive, WorkerInv
    <2>2. ASSUME NEW t \in Requests, Build(t) \/ PluginFails(t) \/ Answer(t) PROVE WorkerInv'
      <3>1. ~Idle(t)
        BY <2>2 DEF Build, Look, Store, PluginFails, Answer, Serving
      <3>2. \A u \in Requests \ {t} : stack'[u] = stack[u]
        BY <1>2, <2>2 DEF Build, Look, Store, PluginFails, Answer, Push, Take, Pop, TypeOK
      <3>3. UNCHANGED <<overlap, background, late>>
        BY <2>2 DEF Build, Look, Store, PluginFails, Answer
      <3> QED BY <1>2, <3>1, <3>2, <3>3 DEF WorkerInv, Idle
    <2>3. CASE BackgroundUse
      BY <1>2, <2>3 DEF BackgroundUse, WorkerInv
    <2>4. CASE BeginShutdown
      BY <1>2, <2>4 DEF BeginShutdown, WorkerInv, Idle
    <2>5. CASE Start \/ Shutdown \/ UNCHANGED vars
      BY <1>2, <2>5 DEF Start, Shutdown, CloseNext, CloseFails, CloseMongo, vars, WorkerInv, Idle
    <2> QED BY <1>2, <2>1, <2>2, <2>3, <2>4, <2>5 DEF Next
  <1> QED BY <1>1, <1>2, ContainerTypeCorrect, PTL DEF Spec

(* A Celery worker that ran its shutdown to the end has closed every executor
   (celery/state.py:32-40, container.py:367), and so has an API process in
   which no two requests were building at once and no background task used
   what was closed: who is to blame otherwise is one of these two. *)
THEOREM SerialProcessClosesAll ==
    Spec => [](role = "worker" \/ (overlap <= 1 /\ late = {}) => ClosesAll)
  <1>1. ASSUME TypeOK, WorkerInv, ClosedOrExplained
        PROVE  role = "worker" \/ (overlap <= 1 /\ late = {}) => ClosesAll
    <2>1. role = "worker" => overlap <= 1 /\ late = {}
      BY <1>1 DEF WorkerInv
    <2> QED BY <1>1, <2>1 DEF ClosesAll, ClosedOrExplained, LeftOpen, TypeOK
  <1> QED BY <1>1, WorkerInvariance, ContainerTypeCorrect, ShutdownIsExplained, PTL
=============================================================================
