------------------------ MODULE SideEffectProviders ------------------------
(***************************************************************************)
(* What the side effect providers and their executors accept, before they  *)
(* open a connection: the fields an effect and its connection need and may *)
(* have.  A field is "absent", "bad" (of the wrong type or out of range)   *)
(* or has a valid value.  A minimal and a maximal pool size are one field, *)
(* "pool", that is bad too when the minimum exceeds the maximum.           *)
(***************************************************************************)
EXTENDS FiniteSets

CONSTANTS
    Connections \* the configured connections, with a provider and settings

ASSUME ConnectionAssumption ==
    \A c, d \in Connections : c.name = d.name => c = d

(* The rules of each provider.  For each type of effect it takes: the fields
   of target, options and rendered payload it must and may have.  Then the
   settings a connection must and may have, and those its client is cached
   under. *)
Http == [
    types |-> [http_callback |-> [needs |-> {}, takes |-> {"method", "headers"}]],
    required |-> {}, optional |-> {"default_headers", "timeout_seconds"},
    key |-> {}]

KeyOfServers == {"bootstrap_servers"}  \* mutant: client_id is not in the key
KafkaKey == {"bootstrap_servers", "client_id"}
Kafka == [
    types |-> [message_publish |-> [needs |-> {"destination"}, takes |-> {"key", "headers"}]],
    required |-> {"bootstrap_servers"}, optional |-> {"client_id"},
    key |-> KafkaKey]

MongoTuning == {"server_selection_timeout_ms", "pool"}
Mongo == [
    types |-> [db_insert |-> [needs |-> {"collection", "document"}, takes |-> {}],
               db_update |-> [needs |-> {"collection", "filter", "update"},
                              takes |-> {"upsert"}]],
    required |-> {"uri", "database"}, optional |-> MongoTuning,
    key |-> {"name", "uri", "database"} \cup MongoTuning]

PostgresTuning == {"pool", "command_timeout"}
Postgres == [
    types |-> [db_insert |-> [needs |-> {"table", "row"}, takes |-> {}]],
    required |-> {"dsn"}, optional |-> PostgresTuning,
    key |-> {"name", "dsn"} \cup PostgresTuning]

Exchange == {"exchange", "exchange_type", "timeout_seconds",
             "declare_exchange", "durable_exchange"}
RabbitMQ == [
    types |-> [message_publish |->
                  [needs |-> {"routing_key"},
                   takes |-> {"headers", "content_type", "delivery_mode",
                              "message_id", "correlation_id"}]],
    required |-> {"url"}, optional |-> Exchange,
    key |-> {"name", "url"} \cup Exchange]

RedisTuning == {"socket_timeout", "socket_connect_timeout", "max_connections"}
Redis == [
    types |-> [redis_set |-> [needs |-> {"key"}, takes |-> {"ttl_seconds"}],
               redis_delete |-> [needs |-> {"key"}, takes |-> {}],
               redis_publish |-> [needs |-> {"channel"}, takes |-> {}]],
    required |-> {"url"}, optional |-> RedisTuning,
    key |-> {"name", "url"} \cup RedisTuning]

Rules == [http |-> Http, kafka |-> Kafka, mongo |-> Mongo,
          postgres |-> Postgres, rabbitmq |-> RabbitMQ, redis |-> Redis]

(* required_string and the like want a valid value; optional_string,
   optional_bool, string_mapping and the like also take none. *)
Valid(value) == value \notin {"absent", "bad"}
Has(fields, names) == \A f \in names : Valid(fields[f])
MayHave(fields, names) == \A f \in names : fields[f] # "bad"

(* The URL a mock brings along needs the connection's leave; without one the
   connection must have a base URL, and the mock may add a path. *)
HttpUrl(fields, settings) ==
    \/ Valid(fields["url"]) /\ settings["allow_absolute_url"] = "true"
    \/ /\ fields["url"] = "absent"
       /\ Valid(settings["base_url"]) /\ fields["path"] # "bad"

SettingsAccepted(c) ==
    /\ Has(c.settings, Rules[c.provider].required)
    /\ MayHave(c.settings, Rules[c.provider].optional)

(* Without a connection of the name, or of the provider, a call raises too. *)
ConnectionOf(e) == {c \in Connections : c.name = e.connection /\ c.provider = e.provider}

RequiredOnly(e) ==  \* mutant: optional settings go to the client as they are
    \E c \in ConnectionOf(e) : Has(c.settings, Rules[c.provider].required)
Accepted(e) ==
    /\ e.type \in DOMAIN Rules[e.provider].types
    /\ LET rule == Rules[e.provider].types[e.type] IN
       Has(e.fields, rule.needs) /\ MayHave(e.fields, rule.takes)
    /\ \E c \in ConnectionOf(e) :
        SettingsAccepted(c) /\ (c.provider = "http" => HttpUrl(e.fields, c.settings))

(* The cache key of a connection, and what its client is constructed with. *)
CacheKey(c) ==
    [f \in Rules[c.provider].key |-> IF f = "name" THEN c.name ELSE c.settings[f]]

ClientParams(c) ==
    LET params == CASE c.provider = "kafka" -> {"bootstrap_servers", "client_id"}
                    [] c.provider = "mongo" -> {"uri"} \cup MongoTuning
                    [] c.provider = "postgres" -> {"dsn"} \cup PostgresTuning
                    [] c.provider = "rabbitmq" -> {"url"} \cup Exchange
                    [] c.provider = "redis" -> {"url"} \cup RedisTuning
    IN [f \in params |-> c.settings[f]]
=============================================================================
