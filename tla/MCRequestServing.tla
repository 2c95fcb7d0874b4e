------------------------- MODULE MCRequestServing -------------------------
(***************************************************************************)
(* Small instances of RequestServing and ServedRequests for TLC.           *)
(***************************************************************************)
EXTENDS ServedRequests, TLC

Rule(source, key, op, expected) ==
    [source |-> source, key |-> key, operator |-> op, expected |-> expected]
IsA == Rule("header", "h", "eq", One("a"))
NotA == Rule("header", "h", "neq", One("a"))
HasAB == Rule("body_json", "f", "contains", One("a"))
OneOf == Rule("query", "k", "in", Many(<<"a", "b">>))
There == Rule("body_json", "f", "exists", Absent)
OnPath == Rule("path", "", "contains", One("a"))

Doc(route, scope, session, priority, rules) ==
    [route |-> route, scope |-> scope, session |-> session, active |-> TRUE,
     priority |-> priority, rules |-> rules]
Off(d) == [d EXCEPT !.active = FALSE]

Plain == Doc("/a", "global", None, 0, <<>>)
Ruled == Doc("/a", "team", None, 0, <<IsA, There>>)
Picky == Doc("/a", "guest", "s1", 0, <<NotA, HasAB, OneOf, OnPath>>)
Pinned == Doc("/a", "global", "s1", 0, <<>>)
SomeDocuments == {Off(Plain), Ruled, Pinned}

Request(session, header, field, values) ==
    [route |-> "/a", session |-> session, header |-> header, field |-> field, values |-> values]
Values(h, f) == (<<"header", "h">> :> h) @@ (<<"body_json", "f">> :> f)
Query(v) == (<<"query", "k">> :> v)
SomeContexts ==
    {Request("s1", None, "team", Values(One("a"), Many(<<"a">>))),
     Request(Empty, Empty, Empty, Values(One("b"), One("ab")) @@ Query(Many(<<"b", "c">>))),
     Request(None, "team", "guest", Values(One("b"), One("c")))}

TextWithin == {<<x, x>> : x \in {"a", "b", "c", "ab"}} \cup {<<"a", "ab">>, <<"b", "ab">>, <<"a", "/a">>}

(* Where lookups are compared with their reference alone, more kinds of
   mocks and requests meet, whenever each was created and updated. *)
AllDocuments ==
    SomeDocuments \cup
    {Plain, Picky, Off(Picky), Doc("/a", "team", "s1", 0, <<There>>), Doc("/a", "global", None, 0, <<There, IsA>>),
     Doc("/a", "global", None, 0, <<IsA>>), Doc("/a", "global", None, 0, <<OnPath>>),
     Doc("/a", "guest", None, 1, <<OnPath>>)}
AllContexts ==
    SomeContexts \cup
    {Request("s1", "guest", "team", Values(One("a"), Absent)),
     Request(None, "guest", None, Values(One("b"), One("ab")) @@ Query(One("b"))),
     Request(None, Empty, "team", Values(Absent, One("a")))}
AllDatabases ==
    LET Stamps == {s \in [updated: [Ids -> 0..1], created: [Ids -> 0..1]] :
                     \A i \in Ids : s.created[i] <= s.updated[i]} IN
    {[doc |-> doc, updated |-> s.updated, created |-> s.created] :
        doc \in [Ids -> AllDocuments \cup {NoDoc}], s \in Stamps}

AllLookups == [db: AllDatabases, ctx: AllContexts]
NoLookups == {}

RequestSymmetry == Permutations(Requests)
=============================================================================
