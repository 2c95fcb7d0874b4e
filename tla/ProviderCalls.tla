--------------------------- MODULE ProviderCalls ---------------------------
(***************************************************************************)
(* Calls of a side effect provider, from the rendered effect to the        *)
(* result: the provider and its executor refuse what is malformed, the     *)
(* executor's cache gives the call a client, and the command is sent.      *)
(* The calls run concurrently with each other and with aclose().           *)
(***************************************************************************)
EXTENDS ExecutorCache, SideEffectProviders

CONSTANTS
    Effects     \* rendered effects; `sendable` when the payload serialises

(* What callers may ask for: calls over a connection, or calls that raise. *)
Calls == UNION {{[connection |-> c, sendable |-> e.sendable] : c \in ConnectionOf(e)}
                : e \in {e \in Effects : Accepted(e)}}
Refusing == {e.provider : e \in {e \in Effects : ~Accepted(e)}}

ASSUME KeysAssumption ==
    /\ \A r \in Calls : r.connection.provider # "http" => CacheKey(r.connection) \in Keys
    /\ \A e \in Effects : e.sendable \in BOOLEAN
    /\ None \notin Calls

VARIABLES
    call,       \* what a caller sends: over which connection, and whether it can
    result,     \* how the last call to end ended
    source      \* the connections clients were created for

callVars == <<call, result, source>>
allVars == <<vars, callVars>>

CallsTypeOK ==
    /\ TypeOK
    /\ \A c \in Callers : call[c] # None =>
        call[c].connection \in Connections /\ call[c].sendable \in BOOLEAN
    /\ \A c \in Callers : (call[c] = None) = (pc[c] = "idle")
    /\ result \in {"none", "success", "failed", "raised"}
    /\ source \in Seq(Connections) /\ Len(source) = Len(made)

CallsInit ==
    /\ Init
    /\ call = [c \in Callers |-> None]
    /\ result = "none"
    /\ source = <<>>

SerializesFirst == provider \in {"kafka", "rabbitmq"}

End(c, r) ==
    /\ call' = [call EXCEPT ![c] = None]
    /\ result' = r

-----------------------------------------------------------------------------
(* Malformed effects and settings raise before anything is opened. *)
Refuse(c) ==
    /\ pc[c] = "idle"
    /\ provider \in Refusing
    /\ End(c, "raised")
    /\ UNCHANGED <<vars, source>>

(* Kafka and RabbitMQ serialise before they look for a client, the others
   when they have one. *)
SerializationFails(c) ==
    /\ pc[c] = "idle" /\ SerializesFirst
    /\ \E r \in Calls : r.connection.provider = provider /\ ~r.sendable
    /\ End(c, "failed")
    /\ UNCHANGED <<vars, source>>

(* An HTTP callback goes through the container's one client. *)
GetClient(c, connection) ==
    \/ provider # "http" /\ CallFor(c, CacheKey(connection))
    \/ /\ provider = "http" /\ Goto(c, "using")
       /\ UNCHANGED <<cache, lock, waiters, want, got, closing, made, open>>

Begin(c) ==
    /\ pc[c] = "idle"
    /\ \E r \in Calls :
        /\ r.connection.provider = provider /\ (SerializesFirst => r.sendable)
        /\ GetClient(c, r.connection)
        /\ call' = [call EXCEPT ![c] = r]
    /\ UNCHANGED <<provider, result, source>>

Obtain(c) ==
    /\ \/ Granted(c) /\ UNCHANGED source
       \/ Created(c) /\ source' = Append(source, call[c].connection)
    /\ UNCHANGED <<provider, call, result>>

ObtainFails(c) ==
    /\ \/ CreationFails(c) /\ UNCHANGED source
       \/ SetupFails(c) /\ source' = Append(source, call[c].connection)
    /\ End(c, "failed")
    /\ UNCHANGED provider

(* The command succeeds over an open client only.  Over HTTP the failures
   that are no HTTPError, a payload that is not JSON among them, are raised. *)
Succeeds(c) ==
    /\ call[c] # None /\ call[c].sendable /\ (got[c] # None => got[c] \in open)
    /\ Finish(c) /\ End(c, "success")
    /\ UNCHANGED <<provider, source>>

Fails(c) ==
    /\ call[c] # None
    /\ Finish(c)
    /\ \/ (provider = "http" => call[c].sendable) /\ End(c, "failed")
       \/ provider = "http" /\ End(c, "raised")
    /\ UNCHANGED <<provider, source>>

CallAdvances(c) == Obtain(c) \/ ObtainFails(c) \/ Succeeds(c) \/ Fails(c)
CloseAdvances == Closing /\ UNCHANGED callVars

CallsNext ==
    \/ \E c \in Callers : Refuse(c) \/ SerializationFails(c) \/ Begin(c) \/ CallAdvances(c)
    \/ CloseAdvances
    \/ Close /\ UNCHANGED <<provider, callVars>>

CallsSpec == CallsInit /\ [][CallsNext]_allVars

(* Connecting, commands and closing end: in an answer, the timeout its
   settings or its library set, or a broken connection. *)
FairSpec ==
    /\ CallsSpec
    /\ \A c \in Callers : WF_allVars(CallAdvances(c))
    /\ WF_allVars(CloseAdvances)

-----------------------------------------------------------------------------
(* A client a call uses was constructed with the settings of the call's own
   connection: the cache key tells apart all that clients differ in
   ("test_creates_different_producers_for_different_client_id"; key() and
   create_client_map() of the executors). *)
OwnClient ==
    \A c \in Callers : got[c] # None =>
        ClientParams(source[got[c]]) = ClientParams(call[c].connection)

(* No client is constructed with settings of a wrong type or out of range, or
   without its address: what the constructor is given was checked somewhere,
   in the provider or in its executor. *)
ClientsAreConfigured ==
    \A n \in DOMAIN source :
        LET params == ClientParams(source[n]) IN
        /\ \A f \in DOMAIN params : params[f] # "bad"
        /\ \E f \in DOMAIN params \cap {"bootstrap_servers", "uri", "dsn", "url"} :
            params[f] # "absent"

(* Every call and every aclose() ends, though it waits for a lock behind calls
   that fail, and though calls create clients while aclose() closes. *)
CallsEnd == \A t \in Tasks : pc[t] # "idle" ~> pc[t] = "idle"

(* The cache's promises where aclose() takes the lock. *)
LockedOneOpenClient == LockedClose => OneOpenClient
LockedNoneLeaked == LockedClose => NoneLeaked
=============================================================================
