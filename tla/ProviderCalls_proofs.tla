------------------------ MODULE ProviderCalls_proofs ------------------------
(***************************************************************************)
(* Theorems about ProviderCalls, for any connections, effects and callers. *)
(* Its steps are steps of ExecutorCache, so that the cache's invariant     *)
(* holds here too; over it, every client is traced to the connection it    *)
(* was created for.                                                        *)
(***************************************************************************)
EXTENDS ProviderCalls, ExecutorCache_proofs

-----------------------------------------------------------------------------
(* What is accepted, and what a cache key tells apart.                     *)

CachedProviders == {"kafka", "mongo", "postgres", "rabbitmq", "redis"}

LEMMA CallFacts ==
    ASSUME NEW r \in Calls
    PROVE  /\ r.connection \in Connections /\ r.sendable \in BOOLEAN
           /\ SettingsAccepted(r.connection)
  <1>1. PICK e \in Effects : Accepted(e) /\ \E c \in ConnectionOf(e) :
                               r = [connection |-> c, sendable |-> e.sendable]
    BY DEF Calls
  <1>2. PICK c \in ConnectionOf(e) : r = [connection |-> c, sendable |-> e.sendable]
    BY <1>1
  <1>3. PICK d \in ConnectionOf(e) : SettingsAccepted(d)
    BY <1>1 DEF Accepted
  <1>4. c = d
    BY ConnectionAssumption DEF ConnectionOf
  <1> QED BY <1>2, <1>3, <1>4, KeysAssumption DEF ConnectionOf

(* Two connections of a provider with one key give their clients the same
   parameters: the key of Kafka is all the parameters there are, and the
   others' has the connection's name. *)
LEMMA KeyDeterminesParams ==
    ASSUME NEW c \in Connections, NEW d \in Connections,
           c.provider \in CachedProviders, d.provider = c.provider,
           CacheKey(c) = CacheKey(d)
    PROVE  ClientParams(c) = ClientParams(d)
  <1>1. CASE c.provider = "kafka"
    <2>1. Rules["kafka"].key = {"bootstrap_servers", "client_id"}
      BY DEF Rules, Kafka, KafkaKey
    <2>2. \A f \in {"bootstrap_servers", "client_id"} :
            CacheKey(c)[f] = c.settings[f] /\ CacheKey(d)[f] = d.settings[f]
      BY <1>1, <2>1 DEF CacheKey
    <2>3. \A f \in {"bootstrap_servers", "client_id"} : c.settings[f] = d.settings[f]
      BY <2>2
    <2> QED BY <1>1, <2>3 DEF ClientParams
  <1>2. CASE c.provider # "kafka"
    <2>1. "name" \in Rules[c.provider].key
      BY <1>2 DEF CachedProviders, Rules, Mongo, Postgres, RabbitMQ, Redis
    <2>2. CacheKey(c)["name"] = c.name /\ CacheKey(d)["name"] = d.name
      BY <2>1 DEF CacheKey
    <2> QED BY <2>2, ConnectionAssumption
  <1> QED BY <1>1, <1>2

(* What a client is constructed with has been checked, and has an address. *)
Configured(params) ==
    /\ \A f \in DOMAIN params : params[f] # "bad"
    /\ \E f \in DOMAIN params \cap {"bootstrap_servers", "uri", "dsn", "url"} : params[f] # "absent"

LEMMA AcceptedIsConfigured ==
    ASSUME NEW c, c.provider \in CachedProviders, SettingsAccepted(c)
    PROVE  Configured(ClientParams(c))
  <1> USE DEF SettingsAccepted, Has, MayHave, Valid, ClientParams, Configured, Rules
  <1>1. CASE c.provider = "kafka"     BY <1>1 DEF Kafka
  <1>2. CASE c.provider = "mongo"     BY <1>2 DEF Mongo, MongoTuning
  <1>3. CASE c.provider = "postgres"  BY <1>3 DEF Postgres, PostgresTuning
  <1>4. CASE c.provider = "rabbitmq"  BY <1>4 DEF RabbitMQ, Exchange
  <1>5. CASE c.provider = "redis"     BY <1>5 DEF Redis, RedisTuning
  <1> QED BY <1>1, <1>2, <1>3, <1>4, <1>5 DEF CachedProviders

-----------------------------------------------------------------------------
(* The invariant: callers and clients know the connection they are for.    *)

CallOf(c) ==
    /\ call[c] \in Calls \cup {None}
    /\ (call[c] = None) = (pc[c] = "idle")
    /\ call[c] # None => call[c].connection.provider = provider
    /\ pc[c] \in {"waiting", "creating"} =>
         provider # "http" /\ want[c] = CacheKey(call[c].connection)
    /\ got[c] # None =>
         /\ provider # "http" /\ pc[c] = "using"
         /\ got[c] \in 1..Len(made) /\ made[got[c]] = CacheKey(call[c].connection)

SourceOf(n) ==
    /\ source[n] \in Connections /\ SettingsAccepted(source[n])
    /\ source[n].provider = provider /\ provider # "http"
    /\ CacheKey(source[n]) = made[n]

CallsInv ==
    /\ IInv
    /\ DOMAIN call = Callers /\ call = [c \in Callers |-> call[c]]
    /\ result \in {"none", "success", "failed", "raised"}
    /\ source \in Seq(Connections) /\ Len(source) = Len(made)
    /\ \A c \in Callers : CallOf(c)
    /\ \A n \in 1..Len(made) : SourceOf(n)

LEMMA InitCallsInv == CallsInit => CallsInv
  <1> SUFFICES ASSUME CallsInit PROVE CallsInv
    OBVIOUS
  <1>1. IInv /\ made = <<>> /\ source = <<>>
    BY InitInv DEF CallsInit, Init
  <1>2. ASSUME NEW c \in Callers PROVE CallOf(c)
    BY DEF CallsInit, Init, CallOf, Tasks
  <1> QED BY <1>1, <1>2 DEF CallsInit, CallsInv

(* Steps of one caller that create no client. *)
LEMMA CallerStep ==
    ASSUME CallsInv, NEW c \in Callers, IInv', CallOf(c)',
           UNCHANGED <<provider, made, source>>,
           \A d \in Callers \ {c} : pc'[d] = pc[d] /\ want'[d] = want[d] /\ got'[d] = got[d],
           call' = [call EXCEPT ![c] = call'[c]],
           result' \in {"none", "success", "failed", "raised"}
    PROVE  CallsInv'
  <1>1. DOMAIN call' = Callers /\ call' = [d \in Callers |-> call'[d]]
    BY DEF CallsInv
  <1>2. ASSUME NEW d \in Callers PROVE CallOf(d)'
    <2>1. CASE d = c  BY <2>1
    <2>2. CASE d # c  BY <2>2 DEF CallsInv, CallOf
    <2> QED BY <2>1, <2>2
  <1>3. \A n \in 1..Len(made') : SourceOf(n)'
    BY DEF CallsInv, SourceOf
  <1> QED BY <1>1, <1>2, <1>3 DEF CallsInv

(* Where nothing but a result changes. *)
LEMMA RefusedInv ==
    ASSUME CallsInv, NEW c \in Callers, Refuse(c) \/ SerializationFails(c)
    PROVE  CallsInv'
  <1>1. /\ UNCHANGED <<vars, source>> /\ pc[c] = "idle" /\ call' = [call EXCEPT ![c] = None]
        /\ result' \in {"none", "success", "failed", "raised"}
    BY DEF Refuse, SerializationFails, End
  <1>2. IInv'
    BY <1>1, NextInv DEF CallsInv
  <1>3. CallOf(c)'
    BY <1>1 DEF CallsInv, CallOf, vars
  <1> QED BY <1>1, <1>2, <1>3, CallerStep DEF vars, CallsInv

LEMMA BeginInv ==
    ASSUME CallsInv, NEW c \in Callers, Begin(c)
    PROVE  CallsInv'
  <1>1. PICK r \in Calls : /\ r.connection.provider = provider /\ GetClient(c, r.connection)
                           /\ call' = [call EXCEPT ![c] = r]
    BY DEF Begin
  <1>2. /\ pc[c] = "idle" /\ UNCHANGED <<provider, result, source>> /\ r # None
        /\ call'[c] = r /\ call' = [call EXCEPT ![c] = call'[c]]
        /\ c \in Tasks /\ c # Closer /\ got[c] = None
    BY <1>1, KeysAssumption, CacheAssumption DEF Begin, CallsInv, CallOf, Tasks
  <1>3. CASE provider # "http" /\ CallFor(c, CacheKey(r.connection))
    <2> DEFINE k == CacheKey(r.connection)
    <2>0. \A d \in Callers \ {c} : pc'[d] = pc[d] /\ want'[d] = want[d] /\ got'[d] = got[d]
      BY <1>3 DEF CallsInv, IInv, TypeOK, CallFor, Queue, UseCached, Goto, Tasks
    <2>1. k \in Keys
      BY <1>1, <1>3, KeysAssumption
    <2>2. IInv' /\ UNCHANGED made
      BY <1>2, <1>3, <2>1, CallForInv DEF CallsInv, CallFor
    <2>3. CASE cache[k] # None /\ UseCached(c, k)
      <3>1. got'[c] = cache[k] /\ cache[k] \in 1..Len(made) /\ made[cache[k]] = k /\ pc'[c] = "using"
        BY <1>2, <2>1, <2>3 DEF UseCached, Goto, CallsInv, IInv, TypeOK, CachedIsMade
      <3>2. CallOf(c)'
        BY <1>1, <1>2, <1>3, <2>2, <3>1 DEF CallOf
      <3> QED BY <1>2, <2>0, <2>2, <3>2, CallerStep DEF CallsInv
    <2>4. CASE ~(cache[k] # None /\ UseCached(c, k))
      <3>1. pc'[c] \in {"waiting", "creating"} /\ want'[c] = k /\ got'[c] = None
        BY <1>2, <1>3, <2>4 DEF CallFor, Queue, Goto, CallsInv, IInv, TypeOK, UseCached
      <3>2. CallOf(c)'
        BY <1>1, <1>2, <1>3, <2>2, <3>1 DEF CallOf
      <3> QED BY <1>2, <2>0, <2>2, <3>2, CallerStep DEF CallsInv
    <2> QED BY <2>3, <2>4
  <1>4. CASE /\ provider = "http" /\ Goto(c, "using")
             /\ UNCHANGED <<cache, lock, waiters, want, got, closing, made, open>>
    <2>1. pc'[c] = "using" /\ \A t \in Tasks \ {c} : pc'[t] = pc[t]
      BY <1>2, <1>4 DEF Goto, CallsInv, IInv, TypeOK
    <2>2. /\ \A d \in Callers : pc'[d] = "creating" <=> lock' = d
          /\ LockedClose' => (pc'[Closer] = "closing" <=> lock' = Closer)
      <3>1. lock # c /\ UNCHANGED lock /\ (LockedClose' = LockedClose) /\ pc'[Closer] = pc[Closer]
        BY <1>2, <1>4, <2>1 DEF CallsInv, IInv, TypeOK, LockDiscipline, LockedClose, Tasks
      <3> QED BY <2>1, <3>1 DEF CallsInv, IInv, TypeOK, LockDiscipline, Tasks
    <2>3. CacheType'
      BY <1>2, <1>4, <2>1, <2>2, GotoType
      DEF CallsInv, IInv, CacheType, TypeOK, LockDiscipline, WantsAKey, Clients, Tasks
    <2>4. IInv'
      BY <1>2, <1>4, <2>1, <2>3, SameClients DEF CallsInv, Tasks
    <2>5. CallOf(c)'
      BY <1>1, <1>2, <1>4, <2>1 DEF CallOf
    <2> QED BY <1>2, <1>4, <2>1, <2>4, <2>5, CallerStep DEF CallsInv, Tasks
  <1> QED BY <1>1, <1>3, <1>4 DEF GetClient

LEMMA GrantedCallInv ==
    ASSUME CallsInv, NEW c \in Callers, Granted(c), UNCHANGED <<provider, call, result, source>>
    PROVE  CallsInv'
  <1>1. /\ c \in Tasks /\ pc[c] = "waiting" /\ call[c] # None /\ provider # "http"
        /\ want[c] \in Keys /\ want[c] = CacheKey(call[c].connection) /\ got[c] = None
    <2>1. c \in Tasks /\ pc[c] = "waiting"
      <3>1. waiters # <<>> /\ Head(waiters) = c /\ DOMAIN waiters = 1..Len(waiters) /\ Len(waiters) \in Nat \ {0}
        BY EmptySeq, LenProperties DEF Granted, CallsInv, IInv, TypeOK
      <3> QED BY <3>1 DEF CallsInv, IInv, TypeOK, LockDiscipline, Tasks
    <2> QED BY <2>1 DEF CallsInv, CallOf, IInv, WantsAKey
  <1>2. IInv' /\ UNCHANGED <<made, want, cache>>
    BY GrantedInv DEF CallsInv, Granted
  <1>0. call' = [call EXCEPT ![c] = call'[c]]
    BY DEF CallsInv
  <1>3. CASE cache[want[c]] # None /\ UseCached(c, want[c])
    <2>0. \A d \in Callers \ {c} : pc'[d] = pc[d] /\ want'[d] = want[d] /\ got'[d] = got[d]
      BY <1>2, <1>3 DEF CallsInv, IInv, TypeOK, UseCached, Goto, Tasks
    <2>1. /\ got'[c] = cache[want[c]] /\ pc'[c] = "using"
          /\ cache[want[c]] \in 1..Len(made) /\ made[cache[want[c]]] = want[c]
      BY <1>1, <1>3 DEF UseCached, Goto, CallsInv, IInv, TypeOK, CachedIsMade
    <2>2. CallOf(c)'
      BY <1>1, <1>2, <2>1 DEF CallsInv, CallOf
    <2> QED BY <1>0, <1>2, <2>0, <2>2, CallerStep DEF CallsInv
  <1>4. CASE Goto(c, "creating") /\ UNCHANGED got
    <2>0. \A d \in Callers \ {c} : pc'[d] = pc[d] /\ want'[d] = want[d] /\ got'[d] = got[d]
      BY <1>2, <1>4 DEF CallsInv, IInv, TypeOK, Goto, Tasks
    <2>1. pc'[c] = "creating"
      BY <1>1, <1>4 DEF Goto, CallsInv, IInv, TypeOK
    <2>2. CallOf(c)'
      BY <1>1, <1>2, <1>4, <2>1 DEF CallsInv, CallOf
    <2> QED BY <1>0, <1>2, <2>0, <2>2, CallerStep DEF CallsInv
  <1> QED BY <1>3, <1>4 DEF Granted, SecondLook

(* The connection a client was created for is the one of the call that
   created it. *)
LEMMA NewSource ==
    ASSUME CallsInv, NEW c \in Callers, pc[c] = "creating",
           made' = Append(made, want[c]), source' = Append(source, call[c].connection),
           UNCHANGED provider
    PROVE  /\ call[c] # None /\ want[c] \in Keys /\ want[c] = CacheKey(call[c].connection)
           /\ provider # "http" /\ got[c] = None
           /\ source' \in Seq(Connections) /\ Len(source') = Len(made')
           /\ Len(made') = Len(made) + 1 /\ Len(made) \in Nat
           /\ made'[Len(made) + 1] = want[c]
           /\ \A n \in 1..Len(made) : made'[n] = made[n]
           /\ \A n \in 1..Len(made') : SourceOf(n)'
  <1>1. /\ call[c] \in Calls /\ want[c] \in Keys /\ want[c] = CacheKey(call[c].connection)
        /\ provider # "http" /\ call[c].connection.provider = provider /\ got[c] = None
    BY DEF CallsInv, CallOf, IInv, WantsAKey
  <1>2. call[c].connection \in Connections /\ SettingsAccepted(call[c].connection) /\ call[c] # None
    BY <1>1, CallFacts, KeysAssumption
  <1>3. /\ Len(made) \in Nat /\ Len(made') = Len(made) + 1 /\ made'[Len(made) + 1] = want[c]
        /\ \A n \in 1..Len(made) : made'[n] = made[n]
    BY <1>1, AppendProperties, LenProperties DEF CallsInv, IInv, TypeOK
  <1>4. /\ source' \in Seq(Connections) /\ Len(source') = Len(made')
        /\ source'[Len(made) + 1] = call[c].connection
        /\ \A n \in 1..Len(made) : source'[n] = source[n]
    BY <1>2, <1>3, AppendProperties, LenProperties DEF CallsInv
  <1>5. ASSUME NEW n \in 1..Len(made') PROVE SourceOf(n)'
    <2>1. CASE n = Len(made) + 1
      BY <1>1, <1>2, <1>3, <1>4, <2>1 DEF SourceOf
    <2>2. CASE n # Len(made) + 1
      <3>1. n \in 1..Len(made)
        BY <1>3, <2>2
      <3> QED BY <1>3, <1>4, <3>1 DEF CallsInv, SourceOf
    <2> QED BY <2>1, <2>2
  <1> QED BY <1>1, <1>2, <1>3, <1>4, <1>5

(* The others do not notice a client more. *)
LEMMA OthersCalls ==
    ASSUME CallsInv, NEW c \in Callers, UNCHANGED provider,
           Len(made) \in Nat, Len(made') \in Nat, Len(made') >= Len(made),
           \A n \in 1..Len(made) : made'[n] = made[n],
           \A d \in Callers \ {c} : pc'[d] = pc[d] /\ want'[d] = want[d] /\ got'[d] = got[d]
                                    /\ call'[d] = call[d]
    PROVE  \A d \in Callers \ {c} : CallOf(d)'
  <1> SUFFICES ASSUME NEW d \in Callers \ {c} PROVE CallOf(d)'
    OBVIOUS
  <1>1. CallOf(d) /\ pc'[d] = pc[d] /\ want'[d] = want[d] /\ got'[d] = got[d] /\ call'[d] = call[d]
    BY DEF CallsInv
  <1>2. got[d] # None => got[d] \in 1..Len(made') /\ made'[got[d]] = made[got[d]]
    BY <1>1 DEF CallOf
  <1> QED BY <1>1, <1>2 DEF CallOf

LEMMA CreatedCallInv ==
    ASSUME CallsInv, NEW c \in Callers, Created(c), source' = Append(source, call[c].connection),
           UNCHANGED <<provider, call, result>>
    PROVE  CallsInv'
  <1>1. /\ pc[c] = "creating" /\ made' = Append(made, want[c]) /\ IInv'
    BY CreatedInv DEF CallsInv, Created
  <1>2. /\ pc'[c] = "using" /\ want'[c] = want[c] /\ got'[c] = Len(made) + 1
        /\ \A d \in Callers \ {c} : pc'[d] = pc[d] /\ want'[d] = want[d] /\ got'[d] = got[d]
    BY DEF Created, Goto, CallsInv, IInv, TypeOK, Tasks
  <1>3. CallOf(c)'
    <2>1. Len(made) + 1 \in 1..Len(made')
      BY <1>1, NewSource
    <2> QED BY <1>1, <1>2, <2>1, NewSource DEF CallsInv, CallOf
  <1>4. \A d \in Callers : CallOf(d)'
    BY <1>1, <1>2, <1>3, NewSource, OthersCalls
  <1> QED BY <1>1, <1>4, NewSource DEF CallsInv

LEMMA ObtainFailsInv ==
    ASSUME CallsInv, NEW c \in Callers, ObtainFails(c)
    PROVE  CallsInv'
  <1>1. /\ IInv' /\ UNCHANGED <<provider, got>> /\ pc[c] = "creating" /\ call' = [call EXCEPT ![c] = None]
        /\ result' = "failed" /\ Goto(c, "idle") /\ want' = [want EXCEPT ![c] = None]
    BY CreationFailsInv DEF CallsInv, ObtainFails, End, CreationFails, SetupFails
  <1>2. /\ pc'[c] = "idle" /\ call'[c] = None /\ got'[c] = None
        /\ \A d \in Callers \ {c} : pc'[d] = pc[d] /\ want'[d] = want[d] /\ got'[d] = got[d]
                                     /\ call'[d] = call[d]
        /\ DOMAIN call' = Callers /\ call' = [d \in Callers |-> call'[d]]
    BY <1>1 DEF Goto, CallsInv, CallOf, IInv, TypeOK, Tasks
  <1>3. CallOf(c)'
    BY <1>2 DEF CallOf
  <1>4. CASE CreationFails(c) /\ UNCHANGED source
    <2>1. UNCHANGED made
      BY <1>4 DEF CreationFails
    <2> QED BY <1>1, <1>2, <1>3, <1>4, <2>1, CallerStep
  <1>5. CASE SetupFails(c) /\ source' = Append(source, call[c].connection)
    <2>1. made' = Append(made, want[c])
      BY <1>5 DEF SetupFails
    <2>2. \A d \in Callers : CallOf(d)'
      BY <1>1, <1>2, <1>3, <1>5, <2>1, NewSource, OthersCalls
    <2> QED BY <1>1, <1>2, <1>5, <2>1, <2>2, NewSource DEF CallsInv
  <1> QED BY <1>4, <1>5 DEF ObtainFails

LEMMA EndedInv ==
    ASSUME CallsInv, NEW c \in Callers, Succeeds(c) \/ Fails(c)
    PROVE  CallsInv'
  <1>1. /\ Finish(c) /\ UNCHANGED <<provider, source, made>> /\ call' = [call EXCEPT ![c] = None]
        /\ result' \in {"success", "failed", "raised"}
    BY DEF Succeeds, Fails, End, Finish
  <1>2. IInv'
    BY <1>1, FinishInv DEF CallsInv
  <1>3. /\ pc'[c] = "idle" /\ got'[c] = None /\ call'[c] = None
        /\ \A d \in Callers \ {c} : pc'[d] = pc[d] /\ want'[d] = want[d] /\ got'[d] = got[d]
    BY <1>1 DEF Finish, Goto, CallsInv, IInv, TypeOK, Tasks
  <1>4. CallOf(c)'
    BY <1>3 DEF CallOf
  <1> QED BY <1>1, <1>2, <1>3, <1>4, CallerStep

(* aclose() takes no notice of the calls. *)
LEMMA ClosesInv ==
    ASSUME CallsInv, UNCHANGED <<provider, callVars>>, Close \/ Closing
    PROVE  CallsInv'
  <1>1. IInv' /\ UNCHANGED <<want, got, made>>
    BY CloseInv, ClosingInv DEF CallsInv, Close, Closing, CloserGranted, ClientCloses, Closed
  <1>2. \A c \in Callers : pc'[c] = pc[c]
    BY CacheAssumption
    DEF CallsInv, IInv, TypeOK, Close, Closing, CloserGranted, ClientCloses, Closed, BeginClosing,
        Queue, Goto, Tasks
  <1>3. ASSUME NEW c \in Callers PROVE CallOf(c)'
    BY <1>1, <1>2 DEF CallsInv, CallOf, callVars
  <1>4. \A n \in 1..Len(made') : SourceOf(n)'
    BY <1>1 DEF CallsInv, SourceOf, callVars
  <1> QED BY <1>1, <1>3, <1>4 DEF CallsInv, callVars

LEMMA NextCallsInv == CallsInv /\ [CallsNext]_allVars => CallsInv'
  <1> SUFFICES ASSUME CallsInv, [CallsNext]_allVars PROVE CallsInv'
    OBVIOUS
  <1>1. ASSUME NEW c \in Callers, Refuse(c) \/ SerializationFails(c) \/ Begin(c) PROVE CallsInv'
    BY <1>1, RefusedInv, BeginInv
  <1>2. ASSUME NEW c \in Callers, CallAdvances(c) PROVE CallsInv'
    BY <1>2, GrantedCallInv, CreatedCallInv, ObtainFailsInv, EndedInv DEF CallAdvances, Obtain
  <1>3. CASE CloseAdvances \/ (Close /\ UNCHANGED <<provider, callVars>>)
    BY <1>3, ClosesInv DEF CloseAdvances, Closing
  <1>4. CASE UNCHANGED allVars
    <2>1. IInv'
      BY <1>4, NextInv DEF CallsInv, allVars
    <2> QED BY <1>4, <2>1 DEF CallsInv, CallOf, SourceOf, allVars, vars, callVars
  <1> QED BY <1>1, <1>2, <1>3, <1>4 DEF CallsNext

LEMMA CallsInvariant == CallsSpec => []CallsInv
  BY InitCallsInv, NextCallsInv, PTL DEF CallsSpec

-----------------------------------------------------------------------------
(* The properties.                                                         *)

(* Types: who is not idle has a call, and every client has its connection. *)
THEOREM CallsTypeCorrectness == CallsSpec => []CallsTypeOK
  <1>1. CallsInv => CallsTypeOK
    BY CallFacts DEF CallsInv, CallOf, CallsTypeOK, IInv
  <1> QED BY <1>1, CallsInvariant, PTL

(* The client a call uses was constructed with the settings of the call's own
   connection, though calls of other connections created it. *)
THEOREM CallsUseTheirOwnClients == CallsSpec => []OwnClient
  <1>1. ASSUME CallsInv PROVE OwnClient
    <2> SUFFICES ASSUME NEW c \in Callers, got[c] # None
                 PROVE  ClientParams(source[got[c]]) = ClientParams(call[c].connection)
      BY DEF OwnClient
    <2>1. /\ got[c] \in 1..Len(made) /\ CacheKey(source[got[c]]) = CacheKey(call[c].connection)
          /\ source[got[c]] \in Connections /\ source[got[c]].provider = provider /\ provider # "http"
          /\ call[c] \in Calls /\ call[c].connection.provider = provider
      BY <1>1 DEF CallsInv, CallOf, SourceOf
    <2>2. provider \in CachedProviders
      BY <1>1, <2>1, CacheAssumption DEF CallsInv, IInv, TypeOK, CachedProviders
    <2> QED BY <2>1, <2>2, CallFacts, KeyDeterminesParams
  <1> QED BY <1>1, CallsInvariant, PTL

(* No client is constructed with a setting that was not checked. *)
THEOREM ClientsAreCheckedFirst == CallsSpec => []ClientsAreConfigured
  <1>1. ASSUME CallsInv PROVE ClientsAreConfigured
    <2> SUFFICES ASSUME NEW n \in DOMAIN source PROVE Configured(ClientParams(source[n]))
      BY DEF ClientsAreConfigured, Configured
    <2>1. n \in 1..Len(made) /\ SourceOf(n)
      BY <1>1, LenProperties DEF CallsInv
    <2>2. source[n].provider \in CachedProviders
      BY <1>1, <2>1, CacheAssumption DEF SourceOf, CallsInv, IInv, TypeOK, CachedProviders
    <2> QED BY <2>1, <2>2, AcceptedIsConfigured DEF SourceOf
  <1> QED BY <1>1, CallsInvariant, PTL

(* Where aclose() takes the lock, calls of the same key share one open client,
   however they overlap with creations and closes. *)
THEOREM CallsShareOneClient == CallsSpec => []LockedOneOpenClient
  <1>1. CallsInv => LockedOneOpenClient
    BY OneEach DEF CallsInv, LockedOneOpenClient
  <1> QED BY <1>1, CallsInvariant, PTL

(* No open client is out of reach of the cache of its executor: a close with
   the lock closes it (kafka_side_effect_executor.py:71-80 takes none). *)
THEOREM CallsLeakNone == CallsSpec => []LockedNoneLeaked
  <1>1. CallsInv => LockedNoneLeaked
    BY DEF CallsInv, IInv, LockedNoneLeaked
  <1> QED BY <1>1, CallsInvariant, PTL

(* The client a call finds in the cache is open, or the aclose() under way has
   told it to close: a call is never handed one that an earlier aclose()
   closed (the first look, postgres_side_effect_executor.py:98-100). *)
THEOREM CallsFindOpenOrClosingClients == CallsSpec => []CachedIsOpenOrClosing
  <1>1. CallsInv => CachedIsOpenOrClosing
    BY DEF CallsInv, IInv
  <1> QED BY <1>1, CallsInvariant, PTL

-----------------------------------------------------------------------------
(* Refinement: with what calls add left out, the cache's own specification.
   An HTTP callback is no call of a cache: it uses the container's client
   (http_side_effect_executor.py), and its callers stay idle here. *)
CachePc == IF provider # "http" THEN pc ELSE [t \in Tasks |-> IF t = Closer THEN pc[t] ELSE "idle"]
CacheWant == IF provider # "http" THEN want ELSE [c \in Callers |-> None]

AsCache == INSTANCE ExecutorCache WITH pc <- CachePc, want <- CacheWant

(* Over a cache, the mapped variables are the variables. *)
LEMMA CachedStep ==
    ASSUME CallsInv, [CallsNext]_allVars, provider # "http"
    PROVE  [AsCache!Next]_(AsCache!vars)
  <1>1. provider' = provider
    BY DEF CallsNext, Refuse, SerializationFails, Begin, CallAdvances, Obtain, ObtainFails,
       Succeeds, Fails, CloseAdvances, Closing, allVars, vars
  <1>2. PICK p, w, pn, wn : /\ p = CachePc /\ p = pc /\ w = CacheWant /\ w = want
                            /\ pn = CachePc' /\ pn = pc' /\ wn = CacheWant' /\ wn = want'
    BY <1>1 DEF CachePc, CacheWant
  <1>3. ASSUME NEW c \in Callers, Begin(c) PROVE AsCache!Next
    <2>1. PICK r \in Calls : r.connection.provider = provider /\ CallFor(c, CacheKey(r.connection))
      BY <1>3 DEF Begin, GetClient
    <2>2. CacheKey(r.connection) \in Keys
      BY <2>1, KeysAssumption
    <2>3. AsCache!CallFor(c, CacheKey(r.connection))
      BY <1>2, <2>1 DEF CallFor, UseCached, Goto, LockFree, Queue, AsCache!CallFor,
         AsCache!UseCached, AsCache!Goto, AsCache!LockFree, AsCache!Queue
    <2> QED BY <1>1, <1>3, <2>2, <2>3 DEF AsCache!Next, AsCache!Call
  <1>4. ASSUME NEW c \in Callers, Granted(c) PROVE AsCache!Granted(c)
    BY <1>2, <1>4 DEF Granted, SecondLook, UseCached, Goto, AsCache!Granted, AsCache!SecondLook,
       AsCache!UseCached, AsCache!Goto
  <1>5. ASSUME NEW c \in Callers, Created(c) PROVE AsCache!Created(c)
    BY <1>2, <1>5 DEF Created, Goto, Release, AsCache!Created, AsCache!Goto, AsCache!Release
  <1>6. ASSUME NEW c \in Callers, CreationFails(c) PROVE AsCache!CreationFails(c)
    BY <1>2, <1>6 DEF CreationFails, Goto, GiveBack, Release, AsCache!CreationFails,
       AsCache!Goto, AsCache!GiveBack, AsCache!Release
  <1>7. ASSUME NEW c \in Callers, SetupFails(c) PROVE AsCache!SetupFails(c)
    BY <1>2, <1>7 DEF SetupFails, Goto, GiveBack, Release, AsCache!SetupFails,
       AsCache!Goto, AsCache!GiveBack, AsCache!Release
  <1>8. ASSUME NEW c \in Callers, Finish(c) PROVE AsCache!Finish(c)
    BY <1>2, <1>8 DEF Finish, Goto, AsCache!Finish, AsCache!Goto
  <1>9. Close => AsCache!Close
    BY <1>2 DEF Close, BeginClosing, ToClose, LockedClose, LockFree, Queue, Goto, Cached,
       AsCache!Close, AsCache!BeginClosing, AsCache!ToClose, AsCache!LockedClose,
       AsCache!LockFree, AsCache!Queue, AsCache!Goto, AsCache!Cached
  <1>10. CloserGranted => AsCache!CloserGranted
    BY <1>2 DEF CloserGranted, BeginClosing, ToClose, LockedClose, Goto, Cached,
       AsCache!CloserGranted, AsCache!BeginClosing, AsCache!ToClose, AsCache!LockedClose,
       AsCache!Goto, AsCache!Cached
  <1>11. (ClientCloses => AsCache!ClientCloses) /\ (Closed => AsCache!Closed)
    BY <1>2 DEF ClientCloses, Closed, Forget, LockedClose, Goto, Release, AsCache!ClientCloses,
       AsCache!Closed, AsCache!Forget, AsCache!LockedClose, AsCache!Goto, AsCache!Release
  <1>12. ASSUME NEW c \in Callers, CallAdvances(c) PROVE AsCache!Next
    BY <1>1, <1>4, <1>5, <1>6, <1>7, <1>8, <1>12 DEF CallAdvances, Obtain, ObtainFails,
       Succeeds, Fails, AsCache!Next, AsCache!Advance
  <1>13. ASSUME CloseAdvances \/ (Close /\ UNCHANGED <<provider, callVars>>) PROVE AsCache!Next
    BY <1>1, <1>9, <1>10, <1>11, <1>13 DEF CloseAdvances, Closing, AsCache!Next, AsCache!Closing
  <1>14. UNCHANGED vars => UNCHANGED AsCache!vars
    BY <1>2 DEF vars, AsCache!vars
  <1> QED BY <1>3, <1>12, <1>13, <1>14 DEF CallsNext, Refuse, SerializationFails, allVars

(* HTTP callbacks leave the cache alone, and its aclose() finds nothing. *)
LEMMA CallbackStep ==
    ASSUME CallsInv, [CallsNext]_allVars, provider = "http"
    PROVE  [AsCache!Next]_(AsCache!vars)
  <1>1. provider' = provider
    BY DEF CallsNext, Refuse, SerializationFails, Begin, CallAdvances, Obtain, ObtainFails,
       Succeeds, Fails, CloseAdvances, Closing, allVars, vars
  <1>2. /\ CachePc = [t \in Tasks |-> IF t = Closer THEN pc[t] ELSE "idle"]
        /\ CachePc' = [t \in Tasks |-> IF t = Closer THEN pc'[t] ELSE "idle"]
        /\ CacheWant' = CacheWant
    BY <1>1 DEF CachePc, CacheWant
  <1>3. ASSUME UNCHANGED <<cache, lock, waiters, got, closing, made, open>>, pc'[Closer] = pc[Closer]
        PROVE  UNCHANGED AsCache!vars
    BY <1>1, <1>2, <1>3 DEF AsCache!vars
  <1>4. DOMAIN pc = Tasks /\ Closer \in Tasks /\ Closer \notin Callers /\ DOMAIN got = Callers
        /\ got = [c \in Callers |-> got[c]]
    BY CacheAssumption DEF CallsInv, IInv, TypeOK, Tasks
  <1>5. ASSUME NEW c \in Callers, Begin(c) PROVE UNCHANGED AsCache!vars
    <2>1. Goto(c, "using") /\ UNCHANGED <<cache, lock, waiters, got, closing, made, open>>
      BY <1>5 DEF Begin, GetClient
    <2> QED BY <1>3, <1>4, <2>1 DEF Goto
  <1>6. ASSUME NEW c \in Callers, CallAdvances(c) PROVE UNCHANGED AsCache!vars
    <2>1. c \in Tasks /\ pc[c] \notin {"waiting", "creating"} /\ got[c] = None
      BY DEF CallsInv, CallOf, Tasks
    <2>2. ~Granted(c)
      BY <2>1, CacheAssumption, LenProperties DEF Granted, CallsInv, IInv, TypeOK, LockDiscipline
    <2>3. Finish(c)
      BY <1>6, <2>1, <2>2 DEF CallAdvances, Obtain, ObtainFails, Created, CreationFails,
         SetupFails, Succeeds, Fails
    <2>4. got' = got /\ pc'[Closer] = pc[Closer]
      BY <1>4, <2>1, <2>3 DEF Finish, Goto
    <2> QED BY <1>3, <2>3, <2>4 DEF Finish
  <1>7. ASSUME NEW l, Goto(Closer, l)
        PROVE  CachePc' = [CachePc EXCEPT ![Closer] = l]
    BY <1>2, <1>4, <1>7 DEF Goto
  <1>8. CachePc[Closer] = pc[Closer]
    BY <1>2, <1>4
  <1>9. CloserGranted => AsCache!CloserGranted
    BY <1>2, <1>7 DEF CloserGranted, BeginClosing, ToClose, LockedClose, Goto, Cached,
       AsCache!CloserGranted, AsCache!BeginClosing, AsCache!ToClose, AsCache!LockedClose,
       AsCache!Goto, AsCache!Cached
  <1>10. (ClientCloses => AsCache!ClientCloses) /\ (Closed => AsCache!Closed)
    BY <1>2, <1>7, <1>8 DEF ClientCloses, Closed, Forget, LockedClose, Goto, Release,
       AsCache!ClientCloses, AsCache!Closed, AsCache!Forget, AsCache!LockedClose, AsCache!Goto,
       AsCache!Release
  <1>11. BeginClosing => AsCache!BeginClosing
    BY <1>7 DEF BeginClosing, ToClose, LockedClose, Goto, Cached, AsCache!BeginClosing,
       AsCache!ToClose, AsCache!LockedClose, AsCache!Goto, AsCache!Cached
  <1>12. Queue(Closer) => AsCache!Queue(Closer)
    BY <1>7 DEF Queue, Goto, AsCache!Queue, AsCache!Goto
  <1>13. Close => AsCache!Close
    BY <1>2, <1>8, <1>11, <1>12 DEF Close, LockedClose, LockFree, AsCache!Close,
       AsCache!LockedClose, AsCache!LockFree
  <1>14. ASSUME CloseAdvances \/ (Close /\ UNCHANGED <<provider, callVars>>) PROVE AsCache!Next
    BY <1>1, <1>9, <1>10, <1>13, <1>14 DEF CloseAdvances, Closing, AsCache!Next, AsCache!Closing
  <1>15. UNCHANGED vars => UNCHANGED AsCache!vars
    BY <1>3 DEF vars
  <1> QED BY <1>5, <1>6, <1>14, <1>15 DEF CallsNext, Refuse, SerializationFails, allVars

(* Calls with all that surrounds them - refusals, serialisation, connections,
   results - do to the cache of their executor nothing that ExecutorCache does
   not do, and callbacks over HTTP nothing at all (the providers' execute()
   and the executors' get or create). *)
THEOREM CallsImplementCache == CallsSpec => AsCache!Spec
  <1>1. CallsInit => AsCache!Init
    BY DEF CallsInit, Init, CachePc, CacheWant, AsCache!Init, AsCache!Tasks, Tasks
  <1>2. CallsInv /\ [CallsNext]_allVars => [AsCache!Next]_(AsCache!vars)
    BY CachedStep, CallbackStep
  <1> QED BY <1>1, <1>2, CallsInvariant, PTL DEF CallsSpec, AsCache!Spec
=============================================================================
