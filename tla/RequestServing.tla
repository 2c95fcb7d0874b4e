--------------------------- MODULE RequestServing ---------------------------
(***************************************************************************)
(* Requests to mocked routes: MockResolverService tries the session        *)
(* strategy and then the rule strategy, each with a database read of its   *)
(* own, and writes the outcome to the request log before anything is       *)
(* answered.  Between two operations of a request other requests are       *)
(* served, admin requests change mocks, and the log may be cleared.        *)
(*                                                                         *)
(* A resolved request goes on to its side effects (SideEffectDelivery).    *)
(***************************************************************************)
EXTENDS MockResolution, FiniteSets, FiniteSetsExt

CONSTANTS
    Requests,   \* requests that arrive
    Contexts,   \* what they can look like
    Schema,     \* the states a stored mock can be in
    Documents,  \* bound: those among them that mocks have in a run
    Lookups,    \* bound: collections and contexts that lookups are tried on
    PageSize,   \* records verify() looks at: list_records' default limit
    MaxWrites,  \* bound: admin requests that change a mock
    Failures    \* whether database operations fail and processes die

Collection(b) ==
    /\ b.doc \in [Ids -> Schema \cup {NoDoc}]
    /\ b.updated \in [Ids -> Nat] /\ b.created \in [Ids -> Nat]

(* What the schemas of mocks let through: the sources and operators of rules
   are enumerations. *)
ASSUME ServingAssumption ==
    /\ PageSize \in Nat \ {0} /\ MaxWrites \in Nat /\ Failures \in BOOLEAN
    /\ IsFiniteSet(Ids) /\ NoDoc \notin Ids /\ NoDoc \notin Schema
    /\ Documents \subseteq Schema
    /\ \A l \in Lookups : Collection(l.db)
    /\ \A c \in Contexts : c.route \in Routes
    /\ \A d \in Schema :
        /\ d.route \in Routes /\ d.scope \in Scopes /\ d.session \in Sessions \cup {None}
        /\ d.active \in BOOLEAN /\ d.priority \in Nat /\ d.rules \in Seq(Range(d.rules))
        /\ \A r \in Range(d.rules) :
            r.source \in DOMAIN SourceScore /\ r.operator \in DOMAIN OperatorScore

VARIABLES
    db,         \* the mocks collection
    writes,     \* admin writes so far: the time
    log,        \* the request_logs collection
    built,      \* records built so far: the order of created_at
    pc, ctx,    \* what a request waits for, and its context
    record,     \* the record it is about to write
    served,     \* the mock it resolved to, with its contents
    sessions,   \* history: what the session lookup would have found so far
    matches,    \* history: what rule matching would have found so far
    cleared     \* history: requests whose record a clear removed

vars == <<db, writes, log, built, pc, ctx, record, served, sessions, matches, cleared>>
history == <<sessions, matches, cleared>>

NoCtx == [route |-> None]
NoRecord == [req |-> None]
NotServed == [id |-> NoDoc, doc |-> NoDoc]

Answers == {"resolved", "not_found", "error", "lost"}
PC == {"new", "session", "list", "write"} \cup Answers
InService(q) == pc[q] \in {"session", "list", "write"}

Record == [req: Requests, route: Routes, mock: Ids \cup {NoDoc}, at: Nat]

TypeOK ==
    /\ db.doc \in [Ids -> Documents \cup {NoDoc}]
    /\ db.updated \in [Ids -> Nat] /\ db.created \in [Ids -> Nat]
    /\ writes \in 0..MaxWrites
    /\ log \subseteq Record /\ \A e, f \in log : e.at = f.at => e = f
    /\ built \in Nat /\ \A e \in log : e.at <= built
    /\ pc \in [Requests -> PC]
    /\ ctx \in [Requests -> Contexts \cup {NoCtx}]
    /\ record \in [Requests -> Record \cup {NoRecord}]
    /\ served \in [Requests -> [id: Ids, doc: Documents] \cup {NotServed}]
    /\ \A q \in Requests : pc[q] \in {"write", "resolved", "not_found"} =>
         record[q] = [req |-> q, route |-> ctx[q].route, mock |-> served[q].id, at |-> record[q].at]

Init ==
    /\ \E doc \in [Ids -> Documents \cup {NoDoc}] :
         db = [doc |-> doc, updated |-> [i \in Ids |-> 0], created |-> [i \in Ids |-> 0]]
    /\ writes = 0 /\ log = {} /\ built = 0
    /\ pc = [q \in Requests |-> "new"]
    /\ ctx = [q \in Requests |-> NoCtx]
    /\ record = [q \in Requests |-> NoRecord]
    /\ served = [q \in Requests |-> NotServed]
    /\ sessions = [q \in Requests |-> {}] /\ matches = [q \in Requests |-> {}]
    /\ cleared = {}

-----------------------------------------------------------------------------
(* What a request should be answered with, in a given state of the         *)
(* collection: the reference the implementation is checked against.        *)

Applies(c, d) ==
    /\ d # NoDoc /\ d.active /\ d.route = c.route
    /\ d.scope \in {ScopeOf(c), DefaultScope}
    /\ \A n \in DOMAIN d.rules : Holds(c, d.rules[n])

TotalScore(d) == MapThenSumSet(LAMBDA n : Score(d.rules[n]), DOMAIN d.rules)

(* Priority decides, then the request's own scope, the number of rules,
   their score, and age. *)
Preferred(c, b, i, j) ==
    LET d == b.doc[i]
        e == b.doc[j]
        own(x) == x.scope = ScopeOf(c) IN
    \/ d.priority > e.priority
    \/ /\ d.priority = e.priority
       /\ \/ own(d) /\ ~own(e)
          \/ /\ own(d) = own(e)
             /\ \/ Len(d.rules) > Len(e.rules)
                \/ /\ Len(d.rules) = Len(e.rules)
                   /\ \/ TotalScore(d) > TotalScore(e)
                      \/ TotalScore(d) = TotalScore(e) /\ Less(SessionKey(b, j), SessionKey(b, i))

RuleAnswer(c, b) ==
    LET A == {i \in Ids : Applies(c, b.doc[i])} IN
    IF A = {} THEN NoDoc ELSE CHOOSE i \in A : \A j \in A \ {i} : Preferred(c, b, i, j)

SessionAnswer(c, b) ==
    LET A == {i \in Ids : /\ b.doc[i] # NoDoc /\ b.doc[i].active /\ b.doc[i].route = c.route
                          /\ SessionOf(c) # None /\ b.doc[i].session = SessionOf(c)} IN
    IF A = {} THEN NoDoc
    ELSE CHOOSE i \in A : \A j \in A \ {i} : ~Less(SessionKey(b, i), SessionKey(b, j))

At(b, i) == IF i = NoDoc THEN NotServed ELSE [id |-> i, doc |-> b.doc[i]]

(* The request looks up db before or after this state of the collection. *)
Sees(q, c, b) ==
    /\ sessions' = [sessions EXCEPT ![q] = {At(b, SessionAnswer(c, b))}]
    /\ matches' = [matches EXCEPT ![q] = {At(b, RuleAnswer(c, b))}]

-----------------------------------------------------------------------------
(* The environment: admin requests, one document at a time (MockManagement *)
(* says which), and DELETE on the request log.                             *)

(* Stored timestamps are coarser than time: two writes may share one. *)
Now == (writes + 2) \div 2

(* Whatever becomes of one mock: more than MockManagement allows, which
   never brings a deleted id back. *)
AdminWrite(i) ==
    /\ writes < MaxWrites /\ writes' = writes + 1
    /\ \E d \in Documents \cup {NoDoc} :
        /\ d # db.doc[i]
        /\ db' = [doc |-> [db.doc EXCEPT ![i] = d],
                  updated |-> [db.updated EXCEPT ![i] = IF d = NoDoc THEN 0 ELSE Now],
                  created |-> [db.created EXCEPT ![i] = CASE d = NoDoc -> 0
                                                           [] db.doc[i] = NoDoc -> Now
                                                           [] OTHER -> @]]
    /\ sessions' = [q \in Requests |-> IF InService(q)
                        THEN sessions[q] \cup {At(db', SessionAnswer(ctx[q], db'))} ELSE sessions[q]]
    /\ matches' = [q \in Requests |-> IF InService(q)
                        THEN matches[q] \cup {At(db', RuleAnswer(ctx[q], db'))} ELSE matches[q]]
    /\ UNCHANGED <<log, built, pc, ctx, record, served, cleared>>

Clear ==
    /\ log # {}
    /\ log' = {}
    /\ cleared' = cleared \cup {e.req : e \in log}
    /\ UNCHANGED <<db, writes, built, pc, ctx, record, served, sessions, matches>>

-----------------------------------------------------------------------------
(* The steps of a request.                                                 *)

(* The context is built; without a session the first strategy passes. *)
Arrive(q) ==
    /\ pc[q] = "new"
    /\ \E c \in Contexts :
        /\ ctx' = [ctx EXCEPT ![q] = c]
        /\ pc' = [pc EXCEPT ![q] = IF SessionOf(c) = None THEN "list" ELSE "session"]
        /\ Sees(q, c, db)
    /\ UNCHANGED <<db, writes, log, built, record, served, cleared>>

(* A strategy has decided: the record is built, and its write awaited. *)
Unmatched(q, i) ==  \* mutant: the record does not name the mock
    [req |-> q, route |-> ctx[q].route, mock |-> NoDoc, at |-> built + 1]
RecordOf(q, i) == [req |-> q, route |-> ctx[q].route, mock |-> i, at |-> built + 1]

Decide(q, i) ==
    /\ served' = [served EXCEPT ![q] = At(db, i)]
    /\ record' = [record EXCEPT ![q] = RecordOf(q, i)]
    /\ built' = built + 1
    /\ pc' = [pc EXCEPT ![q] = "write"]

FindSession(q) ==
    LET i == FindLatestBySessionId(db, ctx[q]) IN
    /\ pc[q] = "session"
    /\ \/ i = NoDoc /\ pc' = [pc EXCEPT ![q] = "list"] /\ UNCHANGED <<built, record, served>>
       \/ i # NoDoc /\ Decide(q, i)
    /\ UNCHANGED <<db, writes, log, ctx, history>>

ListCandidates(q) ==
    /\ pc[q] = "list"
    /\ Decide(q, ResolveBest(db, ctx[q]))
    /\ UNCHANGED <<db, writes, log, ctx, history>>

(* The record is written whether or not a mock matched; then the request is
   resolved, or no strategy is left and it is answered 404. *)
WriteMatchesOnly(q) ==  \* mutant: unmatched requests are not logged
    log' = IF record[q].mock = NoDoc THEN log ELSE log \cup {record[q]}
Insert(q) == log' = log \cup {record[q]}
WriteRecord(q) ==
    /\ pc[q] = "write"
    /\ Insert(q)
    /\ pc' = [pc EXCEPT ![q] = IF record[q].mock = NoDoc THEN "not_found" ELSE "resolved"]
    /\ UNCHANGED <<db, writes, built, ctx, record, served, history>>

(* The outstanding operation raises, for a 500, or the process dies.  A
   write may have taken effect all the same. *)
Breaks(q, outcome) ==
    /\ Failures /\ InService(q)
    /\ pc' = [pc EXCEPT ![q] = outcome]
    /\ UNCHANGED log \/ (pc[q] = "write" /\ Insert(q))
    /\ UNCHANGED <<db, writes, built, ctx, record, served, history>>

DbError(q) == Breaks(q, "error")
Crash(q) == Breaks(q, "lost")

Step(q) == FindSession(q) \/ ListCandidates(q) \/ WriteRecord(q)

Next ==
    \/ \E q \in Requests : Arrive(q) \/ Step(q) \/ DbError(q) \/ Crash(q)
    \/ \E i \in Ids : AdminWrite(i)
    \/ Clear

Spec == Init /\ [][Next]_vars

-----------------------------------------------------------------------------
(* verify() and matches_expectation(): they change nothing.                *)

(* list_records' first page: the newest by created_at. *)
Page(S) == {e \in S : Cardinality({f \in S : f.at > e.at}) < PageSize}

(* An expectation names a route and maybe a mock. *)
AlwaysThisMock(e, route, mock) == e.route = route /\ e.mock = mock  \* mutant
Meets(e, route, mock) == e.route = route /\ (mock = None \/ e.mock = mock)
VerifyCount(route, mock) == Cardinality({e \in Page(log) : Meets(e, route, mock)})

-----------------------------------------------------------------------------
(* Properties.                                                             *)

(* Whatever one read of the collection finds, the session lookup and rule
   matching choose from it the mock the reference chooses: the newest of the
   session, and the one preferred by priority, scope, number of rules, score
   and age, in whatever order the database lists the candidates
   (mongo_mock_repository.py:255-313, mock_resolution_service.py:97-124).  The
   conclusion is constant: the guard spares TLC the later states. *)
LookupsAgree ==
    writes = 0 /\ (\A q \in Requests : pc[q] = "new") =>
    \A l \in Lookups :
        /\ \A list \in SetToSeqs(Matching(l.db, l.ctx)) :
             BestOf(l.db, l.ctx, list) = RuleAnswer(l.ctx, l.db)
        /\ SessionOf(l.ctx) # None =>
             FindLatestBySessionId(l.db, l.ctx) = SessionAnswer(l.ctx, l.db)

(* A request is answered as some state of the collection during its service
   demands - by session if the lookup found one, by rules only if at some
   moment there was no mock of its session - with that state's contents and
   whatever admin requests change in between (rule_matching_resolve_strategy
   .py:60-82, mock_resolution_service.py:97-124). *)
AnswerWasRight ==
    \A q \in Requests : pc[q] \in {"resolved", "not_found"} =>
        \/ served[q] \in sessions[q] \ {NotServed}
        \/ NotServed \in sessions[q] /\ served[q] \in matches[q]

(* While its session has an active mock on the route all the time, a request
   is answered by that session, never by rules or with a 404
   (mock_session_resolve_strategy.py:28-40). *)
SessionPinned ==
    \A q \in Requests :
        pc[q] \in {"resolved", "not_found"} /\ SessionOf(ctx[q]) # None /\ NotServed \notin sessions[q]
        => served[q].doc # NoDoc /\ served[q].doc.session = SessionOf(ctx[q])

(* An answered request is in the log, once and with the mock that answered
   it, until the log is cleared; no other record of it is ever there. *)
AnsweredIsLogged ==
    \A q \in Requests :
        LET own == {e \in log : e.req = q} IN
        /\ pc[q] \in {"resolved", "not_found"} /\ q \notin cleared
             => \E e \in own : e.mock = served[q].id /\ e.route = ctx[q].route
        /\ \A e \in own : own = {e} /\ pc[q] \in Answers
        /\ q \in cleared => own = {}

(* As long as the log has no more than a page, verification counts a request
   for each that was answered since it was cleared, and none twice: the only
   others it can count broke off when their record was under way
   (request_log_service.py:111-137). *)
Ended(outcomes, route, mock) ==
    {q \in Requests \ cleared : /\ pc[q] \in outcomes /\ ctx[q].route = route
                                /\ mock = None \/ served[q].id = mock}
AnsweredIsVerified ==
    Cardinality(log) <= PageSize =>
        \A route \in Routes, mock \in Ids \cup {None} :
            /\ VerifyCount(route, mock) >= Cardinality(Ended({"resolved", "not_found"}, route, mock))
            /\ VerifyCount(route, mock) <= Cardinality(Ended(Answers, route, mock))

(* "Checks whether the log contains the expected number of requests",
   request_log_service.py:115. *)
VerifyCountsAll ==
    \A r \in Routes :
        VerifyCount(r, None) = Cardinality({e \in log : Meets(e, r, None)})
=============================================================================
