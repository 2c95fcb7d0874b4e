----------------------------- MODULE MockModel -----------------------------
(***************************************************************************)
(* The mock aggregate and its update command, as far as the admin API's    *)
(* behaviour depends on them.  Every module about stored mocks extends     *)
(* this one.                                                               *)
(*                                                                         *)
(* A mock keeps the four things `conflicts_with` compares - its route      *)
(* (path and method), scope and match rules - its activation flag, and a   *)
(* `body` that stands for all the rest (name, description, session id,     *)
(* priority, tags, response, side effects): values that updates replace    *)
(* and nothing here interprets.                                            *)
(***************************************************************************)
CONSTANTS
    Ids,        \* the ObjectIds the database can hand out
    Routes,     \* (path, method) pairs
    Scopes,     \* visibility scopes
    RuleSets,   \* match_rules lists, compared as a whole
    Bodies,     \* contents of the remaining fields
    Blank,      \* a field value the aggregate refuses, e.g. a name of spaces
    Unset,      \* the UNSET sentinel of an update command
    NoDoc,      \* the result of a lookup that finds nothing
    Cmds        \* the update commands clients send

Doc == [route: Routes, scope: Scopes, rules: RuleSets, active: BOOLEAN, body: Bodies]
MaybeDoc == Doc \cup {NoDoc}

UpdateCmd == [route: Routes \cup {Unset}, scope: Scopes \cup {Unset},
              rules: RuleSets \cup {Unset}, body: Bodies \cup {Blank, Unset}]

ASSUME ModelAssumption ==
    /\ NoDoc \notin Doc
    /\ Unset \notin Routes \cup Scopes \cup RuleSets \cup Bodies \cup {Blank}
    /\ Blank \notin Bodies
    /\ Cmds \subseteq UpdateCmd

Inactive(d) == [d EXCEPT !.active = FALSE]
Active(d) == [d EXCEPT !.active = TRUE]

(* `MockContractMapper.to_domain_mock_model` always builds an inactive mock,
   so `create_mock`'s refusal of active ones is never reached from the API. *)
AnyDoc == Doc  \* mutant: the request may ask for an active mock
NewDoc == {d \in Doc : ~d.active}

HasChanges(c) == \E f \in {"route", "scope", "rules", "body"} : c[f] # Unset

(* The aggregate validates every candidate state before it takes it over. *)
AcceptsAll(c) == TRUE  \* mutant: no validation
Accepts(c) == c.body # Blank

Chosen(new, old) == IF new = Unset THEN old ELSE new

(* An update names fields; it has no way to name `active`. *)
Updated(d, c) == [route |-> Chosen(c.route, d.route), scope |-> Chosen(c.scope, d.scope),
                  rules |-> Chosen(c.rules, d.rules), active |-> d.active,
                  body |-> Chosen(c.body, d.body)]

(* Two mocks conflict when they answer the same requests. *)
SameTarget(d, e) == d.route = e.route /\ d.scope = e.scope /\ d.rules = e.rules

(* No command changes what `SameTarget` compares. *)
KeyStable == \A c \in Cmds : c.route = Unset /\ c.scope = Unset /\ c.rules = Unset
=============================================================================
