-------------------------- MODULE MCProviderCalls --------------------------
(***************************************************************************)
(* Small instances of ProviderCalls for TLC: of every provider two sound   *)
(* connections, and for each field of settings, target, options and        *)
(* payload a connection, or an effect, that is sound but for that field.   *)
(***************************************************************************)
EXTENDS ProviderCalls, TLC

ProviderNames == DOMAIN Rules
Settings(p) == Rules[p].required \cup Rules[p].optional
               \cup (IF p = "http" THEN {"base_url", "allow_absolute_url"} ELSE {})
Needed(p) == IF p = "http" THEN {"base_url"} ELSE Rules[p].required
Sound(p) == [f \in Settings(p) |-> IF f \in Needed(p) THEN "a" ELSE "absent"]

(* The second connection shares its address with the first. *)
Changed(p) == IF p = "http" THEN [allow_absolute_url |-> "true"]
              ELSE [f \in {CHOOSE f \in Rules[p].optional : TRUE} |-> "b"]

OffBy(p, f, value) == [name |-> <<p, f, value>>, provider |-> p,
                       settings |-> [Sound(p) EXCEPT ![f] = value]]
AllConnections ==
    UNION {{[name |-> <<p>>, provider |-> p, settings |-> Sound(p)],
            [name |-> <<p, "2">>, provider |-> p, settings |-> Changed(p) @@ Sound(p)]}
           \cup {OffBy(p, f, "bad") : f \in Settings(p)}
           \cup {OffBy(p, f, "absent") : f \in Needed(p)} : p \in ProviderNames}

Rule(p, t) == Rules[p].types[t]
Fields(p, t) == Rule(p, t).needs \cup Rule(p, t).takes
                \cup (IF p = "http" THEN {"url", "path"} ELSE {})
Plain(p, t) == [f \in Fields(p, t) |-> IF f \in Rule(p, t).needs THEN "a" ELSE "absent"]
Effect(p, t, fields, connection, sendable) ==
    [provider |-> p, type |-> t, fields |-> fields, connection |-> connection,
     sendable |-> sendable]

EffectsOf(p, t) ==
    {Effect(p, t, Plain(p, t), name, TRUE) : name \in {c.name : c \in AllConnections}}
    \cup {Effect(p, t, Plain(p, t), <<p>>, t = "redis_delete"), Effect(p, t, Plain(p, t), <<"unknown">>, TRUE)}
    \cup {Effect(p, t, [Plain(p, t) EXCEPT ![f] = value], name, TRUE) :
             f \in Fields(p, t), value \in {"absent", "bad", "a"}, name \in {<<p>>, <<p, "2">>}}
AllEffects ==
    UNION {UNION {EffectsOf(p, t) : t \in DOMAIN Rules[p].types} : p \in ProviderNames}
    \cup {Effect(p, "another type", <<>>, <<p>>, TRUE) : p \in ProviderNames}

AllKeys == {CacheKey(r.connection) : r \in {r \in Calls : r.connection.provider # "http"}}
=============================================================================
