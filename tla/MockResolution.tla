-------------------------- MODULE MockResolution --------------------------
(***************************************************************************)
(* How an incoming request is matched with stored mocks: its session and   *)
(* scope, the candidates, the match rules with their scores, and the rank  *)
(* that decides between several matches.                                   *)
(*                                                                         *)
(* A request context keeps what resolution reads: its route, the session   *)
(* header, the two places a scope can come from, and the values of header, *)
(* query and JSON body fields.  Ids are numbers because the rank compares  *)
(* them.                                                                   *)
(***************************************************************************)
EXTENDS Naturals, SequencesExt

CONSTANTS
    Ids,            \* ObjectIds, by their order
    Routes,         \* (path, method) pairs
    Scopes,         \* visibility scopes
    DefaultScope,   \* settings.default_scope
    Sessions,       \* values of mock_session_id and of the header
    None,           \* a header, field or lookup result that is not there
    Empty,          \* a header or field that is there but blank
    Atoms,          \* scalar values of rules and requests
    Within,         \* <<a, b>>: the text of a is part of the text of b
    NoDoc           \* the result of a lookup that finds nothing

ASSUME ResolutionAssumption ==
    /\ Ids \subseteq Nat
    /\ DefaultScope \in Scopes
    /\ {None, Empty} \cap (Scopes \cup Sessions \cup Atoms) = {}
    /\ Within \subseteq (Atoms \cup Routes) \X (Atoms \cup Routes)

(* Values: missing (or null), a scalar, or a list. *)
Absent == [kind |-> "absent", items |-> <<>>]
One(a) == [kind |-> "one", items |-> <<a>>]
Many(s) == [kind |-> "many", items |-> s]

-----------------------------------------------------------------------------
(* RuleMatcherService.                                                     *)

SourceScore == [header |-> 30, body_json |-> 25, query |-> 20, path |-> 10]
OperatorScore == [eq |-> 10, neq |-> 8, in |-> 7, contains |-> 6, exists |-> 4]

Extract(c, r) ==
    CASE r.source = "path" -> One(c.route)
      [] r.source # "path" /\ <<r.source, r.key>> \in DOMAIN c.values -> c.values[r.source, r.key]
      [] OTHER -> Absent

Includes(v, e) ==
    \/ v.kind = "many" /\ \E n \in DOMAIN v.items : e = One(v.items[n])
    \/ v.kind = "one" /\ e.kind = "one" /\ <<e.items[1], v.items[1]>> \in Within

In(v, e) ==
    \/ v.kind = "absent" /\ Includes(e, One(None))
    \/ v.kind # "absent" /\ \E n \in DOMAIN v.items : Includes(e, One(v.items[n]))

Holds(c, r) ==
    LET v == Extract(c, r) IN
    CASE r.operator = "eq" -> v = r.expected
      [] r.operator = "neq" -> v # Absent /\ v # r.expected
      [] r.operator = "contains" -> Includes(v, r.expected)
      [] r.operator = "in" -> r.expected.kind = "many" /\ In(v, r.expected)
      [] r.operator = "exists" -> v # Absent

Score(r) == SourceScore[r.source] + OperatorScore[r.operator]

(* Rules are evaluated in order, up to the first mismatch. *)
LastRuleDecides(c, rules) ==  \* mutant: a mismatch does not end the loop
    FoldLeft(LAMBDA res, r : IF Holds(c, r)
                             THEN [matched |-> TRUE, score |-> res.score + Score(r)]
                             ELSE [matched |-> FALSE, score |-> 0],
             [matched |-> TRUE, score |-> 0], rules)
MatchRules(c, rules) ==
    FoldLeft(LAMBDA res, r : IF res.matched /\ Holds(c, r)
                             THEN [res EXCEPT !.score = @ + Score(r)]
                             ELSE [matched |-> FALSE, score |-> 0],
             [matched |-> TRUE, score |-> 0], rules)

-----------------------------------------------------------------------------
(* Scopes and candidates.  `db` is the collection with its timestamps:     *)
(* [doc: [Ids -> Doc or NoDoc], updated, created: [Ids -> Nat]].           *)

ScopeOf(c) ==
    IF c.header \notin {None, Empty} THEN c.header
    ELSE IF c.field \notin {None, Empty} THEN c.field ELSE DefaultScope

SessionOf(c) == IF c.session = Empty THEN None ELSE c.session

OnRoute(db, c) == {i \in Ids : db.doc[i] # NoDoc /\ db.doc[i].active /\ db.doc[i].route = c.route}

Candidates(db, c) == {i \in OnRoute(db, c) : db.doc[i].scope \in {ScopeOf(c), DefaultScope}}

(* CandidateRank.sort_key(), compared as Python compares tuples. *)
RulesBeforeScope(db, c, i) ==  \* mutant: two places of the tuple swapped
    LET d == db.doc[i] IN
    <<d.priority, Len(d.rules), IF d.scope = ScopeOf(c) THEN 1 ELSE 0,
      MatchRules(c, d.rules).score, db.updated[i], db.created[i], i>>
Rank(db, c, i) ==
    LET d == db.doc[i] IN
    <<d.priority, IF d.scope = ScopeOf(c) THEN 1 ELSE 0, Len(d.rules),
      MatchRules(c, d.rules).score, db.updated[i], db.created[i], i>>

Less(s, t) == \E n \in DOMAIN s : s[n] < t[n] /\ \A m \in 1..n - 1 : s[m] = t[m]

Matching(db, c) == {i \in Candidates(db, c) : MatchRules(c, db.doc[i].rules).matched}

(* max() keeps the first of the greatest as it goes through the list. *)
BestOf(db, c, list) ==
    FoldLeft(LAMBDA best, i : IF best = NoDoc THEN i
                              ELSE IF Less(Rank(db, c, best), Rank(db, c, i)) THEN i ELSE best,
             NoDoc, list)
ResolveBest(db, c) == BestOf(db, c, SetToSeq(Matching(db, c)))

(* The newest active mock of the route and session; its rules and its scope
   are ignored. *)
OwnScopeOnly(db, c) ==  \* mutant: the session lookup respects scopes
    {i \in OnRoute(db, c) : db.doc[i].session = SessionOf(c) /\ db.doc[i].scope = ScopeOf(c)}
InSession(db, c) == {i \in OnRoute(db, c) : db.doc[i].session = SessionOf(c)}

SessionKey(db, i) == <<db.updated[i], db.created[i], i>>

FindLatestBySessionId(db, c) ==
    IF InSession(db, c) = {} THEN NoDoc
    ELSE CHOOSE i \in InSession(db, c) :
           \A j \in InSession(db, c) \ {i} : Less(SessionKey(db, j), SessionKey(db, i))
=============================================================================
