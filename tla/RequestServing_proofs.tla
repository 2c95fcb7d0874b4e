----------------------- MODULE RequestServing_proofs -----------------------
(***************************************************************************)
(* What requests to mocked routes are answered with and what is left of    *)
(* them in the logs, for any number of requests, mocks and admin writes.   *)
(***************************************************************************)
EXTENDS ServedRequests, MockResolution_proofs, SequenceTheorems

-----------------------------------------------------------------------------
(* The invariant behind the properties of RequestServing.                  *)

(* The log holds records of answered requests, and of every answered request
   unless the log was cleared after it. *)
LogInv ==
    /\ IsFiniteSet(log)
    /\ \A e \in log : pc[e.req] \in Answers /\ e = record[e.req]
    /\ \A q \in Requests : pc[q] \in {"resolved", "not_found"} /\ q \notin cleared => record[q] \in log
    /\ \A q \in cleared : q \in Requests /\ pc[q] \in Answers /\ record[q] \notin log

(* A record is built once, with a time of its own. *)
RecordInv ==
    /\ \A q \in Requests : pc[q] \in {"new", "session", "list"} => record[q] = NoRecord
    /\ \A q \in Requests : record[q] # NoRecord => record[q].req = q /\ record[q].at <= built
    /\ \A q, t \in Requests :
         q # t /\ record[q] # NoRecord /\ record[t] # NoRecord => record[q].at # record[t].at

(* What the lookups would find now is in the history of every request in
   service. *)
HistoryInv ==
    /\ DOMAIN sessions = Requests /\ DOMAIN matches = Requests
    /\ \A q \in Requests : InService(q) =>
         /\ At(db, SessionAnswer(ctx[q], db)) \in sessions[q]
         /\ At(db, RuleAnswer(ctx[q], db)) \in matches[q]

(* The answer is right as soon as it is chosen. *)
AnswerInv ==
    \A q \in Requests :
        /\ pc[q] # "new" => ctx[q] \in Contexts
        /\ pc[q] = "session" => SessionOf(ctx[q]) # None
        /\ pc[q] = "list" => NotServed \in sessions[q]
        /\ pc[q] \in {"write", "resolved", "not_found"} =>
             \/ served[q] \in sessions[q] \ {NotServed} /\ served[q].doc.session = SessionOf(ctx[q])
             \/ NotServed \in sessions[q] /\ served[q] \in matches[q]

IInv == TypeOK /\ LogInv /\ RecordInv /\ HistoryInv /\ AnswerInv

(* The lines and the reply of a request at each point of its way. *)
AccessInv ==
    \A q \in Requests :
        /\ context[q] \in {None, q}
        /\ pc[q] = "new" => context[q] = None
        /\ InService(q) => context[q] = q
        /\ pc[q] \in {"new", "session", "list", "write"} \/ context[q] # None =>
             lines[q] = <<>> /\ reply[q] = NoReply

-----------------------------------------------------------------------------
(* Ranks and keys, place by place.                                         *)

LEMMA LessOf3 ==
    ASSUME NEW s \in [1..3 -> Nat], NEW t \in [1..3 -> Nat]
    PROVE  Less(s, t) <=> \/ s[1] < t[1]
                          \/ s[1] = t[1] /\ s[2] < t[2]
                          \/ s[1] = t[1] /\ s[2] = t[2] /\ s[3] < t[3]
  <1>1. Less(s, t) <=> \E n \in 1..3 : s[n] < t[n] /\ \A m \in 1..n - 1 : s[m] = t[m]
    BY DEF Less
  <1>2. \A n : n \in 1..3 <=> n = 1 \/ n = 2 \/ n = 3
    OBVIOUS
  <1>3. 1..1 - 1 = {} /\ 1..2 - 1 = {1} /\ 1..3 - 1 = {1, 2}
    OBVIOUS
  <1> QED BY <1>1, <1>2, <1>3

LEMMA LessOf7 ==
    ASSUME NEW s \in [1..7 -> Nat], NEW t \in [1..7 -> Nat]
    PROVE  Less(s, t) <=> \/ s[1] < t[1]
                          \/ /\ s[1] = t[1]
                             /\ \/ s[2] < t[2]
                                \/ /\ s[2] = t[2]
                                   /\ \/ s[3] < t[3]
                                      \/ /\ s[3] = t[3]
                                         /\ \/ s[4] < t[4]
                                            \/ s[4] = t[4] /\ Less(<<s[5], s[6], s[7]>>, <<t[5], t[6], t[7]>>)
  <1>1. Less(s, t) <=> \E n \in 1..7 : s[n] < t[n] /\ \A m \in 1..n - 1 : s[m] = t[m]
    BY DEF Less
  <1>2. Less(s, t) <=> \/ s[1] < t[1]
                       \/ s[2] < t[2] /\ \A m \in 1..1 : s[m] = t[m]
                       \/ s[3] < t[3] /\ \A m \in 1..2 : s[m] = t[m]
                       \/ s[4] < t[4] /\ \A m \in 1..3 : s[m] = t[m]
                       \/ s[5] < t[5] /\ \A m \in 1..4 : s[m] = t[m]
                       \/ s[6] < t[6] /\ \A m \in 1..5 : s[m] = t[m]
                       \/ s[7] < t[7] /\ \A m \in 1..6 : s[m] = t[m]
    <2>1. \A n : n \in 1..7 <=> n = 1 \/ n = 2 \/ n = 3 \/ n = 4 \/ n = 5 \/ n = 6 \/ n = 7
      OBVIOUS
    <2>2. \A m \in 1..1 - 1 : s[m] = t[m]
      OBVIOUS
    <2> QED BY <1>1, <2>1, <2>2
  <1>3. /\ 1..1 = {1} /\ 1..2 = {1, 2} /\ 1..3 = {1, 2, 3} /\ 1..4 = {1, 2, 3, 4}
        /\ 1..5 = {1, 2, 3, 4, 5} /\ 1..6 = {1, 2, 3, 4, 5, 6}
    OBVIOUS
  <1>4. Less(<<s[5], s[6], s[7]>>, <<t[5], t[6], t[7]>>) <=>
          \/ s[5] < t[5]
          \/ s[5] = t[5] /\ s[6] < t[6]
          \/ s[5] = t[5] /\ s[6] = t[6] /\ s[7] < t[7]
    <2> PICK u, v : u = <<s[5], s[6], s[7]>> /\ v = <<t[5], t[6], t[7]>>
      OBVIOUS
    <2>1. u \in [1..3 -> Nat] /\ v \in [1..3 -> Nat]
      OBVIOUS
    <2>2. u[1] = s[5] /\ u[2] = s[6] /\ u[3] = s[7] /\ v[1] = t[5] /\ v[2] = t[6] /\ v[3] = t[7]
      OBVIOUS
    <2> QED BY <2>1, <2>2, LessOf3
  <1> QED BY <1>2, <1>3, <1>4

-----------------------------------------------------------------------------
(* The lookups find what their reference demands, in every collection.     *)

LEMMA RulesOfDocument ==
    ASSUME NEW d \in Schema
    PROVE  /\ d.route \in Routes /\ d.priority \in Nat
           /\ Len(d.rules) \in Nat /\ DOMAIN d.rules = 1..Len(d.rules)
           /\ d.rules \in [1..Len(d.rules) -> Range(d.rules)]
           /\ \A r \in Range(d.rules) : Score(r) \in Nat
  <1>1. /\ d.route \in Routes /\ d.priority \in Nat /\ d.rules \in Seq(Range(d.rules))
        /\ \A r \in Range(d.rules) : r.source \in DOMAIN SourceScore /\ r.operator \in DOMAIN OperatorScore
    BY ServingAssumption
  <1>2. \A s \in DOMAIN SourceScore : SourceScore[s] \in Nat
    BY DEF SourceScore
  <1>3. \A o \in DOMAIN OperatorScore : OperatorScore[o] \in Nat
    BY DEF OperatorScore
  <1>4. \A r \in Range(d.rules) : Score(r) \in Nat
    BY <1>1, <1>2, <1>3 DEF Score
  <1> QED BY <1>1, <1>4

LEMMA MatchingDocument ==
    ASSUME NEW c, NEW d \in Schema
    PROVE  /\ MatchRules(c, d.rules).matched <=> \A n \in DOMAIN d.rules : Holds(c, d.rules[n])
           /\ MatchRules(c, d.rules).matched => MatchRules(c, d.rules).score = TotalScore(d)
           /\ TotalScore(d) \in Nat
  <1>1. TotalScore(d) = SumOf(d.rules)
    BY DEF TotalScore, SumOf
  <1> PICK n, S, rules : n = Len(d.rules) /\ S = Range(d.rules) /\ rules = d.rules
    OBVIOUS
  <1>2. n \in Nat /\ rules \in [1..n -> S] /\ DOMAIN rules = 1..n /\ \A r \in S : Score(r) \in Nat
    BY RulesOfDocument
  <1> QED BY <1>1, <1>2, MatchesWhenAllHold

LEMMA MatchingApplies ==
    ASSUME NEW c, NEW b, Collection(b)
    PROVE  Matching(b, c) = {i \in Ids : Applies(c, b.doc[i])}
  <1>1. ASSUME NEW i \in Ids PROVE i \in Matching(b, c) <=> Applies(c, b.doc[i])
    <2>1. CASE b.doc[i] = NoDoc
      BY <2>1 DEF Matching, Candidates, OnRoute, Applies
    <2>2. CASE b.doc[i] # NoDoc
      <3>1. b.doc[i] \in Schema
        BY <2>2 DEF Collection
      <3>2. MatchRules(c, b.doc[i].rules).matched <=>
              \A n \in DOMAIN b.doc[i].rules : Holds(c, b.doc[i].rules[n])
        BY <3>1, MatchingDocument
      <3> QED BY <2>2, <3>2 DEF Matching, Candidates, OnRoute, Applies
    <2> QED BY <2>1, <2>2
  <1>2. \A i \in Matching(b, c) : i \in Ids
    BY DEF Matching, Candidates, OnRoute
  <1> QED BY <1>1, <1>2

LEMMA MatchingRanked ==
    ASSUME NEW c, NEW b, Collection(b)
    PROVE  /\ IsFiniteSet(Matching(b, c)) /\ NoDoc \notin Matching(b, c)
           /\ \A i \in Matching(b, c) : b.doc[i] \in Schema
           /\ Ranked(b, c, Matching(b, c))
  <1>1. Matching(b, c) \in SUBSET Ids
    BY MatchingApplies
  <1>2. IsFiniteSet(Matching(b, c)) /\ NoDoc \notin Matching(b, c)
    BY <1>1, FS_Subset, ServingAssumption
  <1>3. ASSUME NEW i \in Matching(b, c)
        PROVE  /\ b.doc[i] \in Schema
               /\ Rank(b, c, i) \in [1..7 -> Nat] /\ Rank(b, c, i)[7] = i
    <2>1. b.doc[i] \in Schema /\ MatchRules(c, b.doc[i].rules).matched
      BY <1>1 DEF Matching, Candidates, OnRoute, Collection
    <2>2. MatchRules(c, b.doc[i].rules).score \in Nat
      BY <2>1, MatchingDocument
    <2>3. b.doc[i].priority \in Nat /\ Len(b.doc[i].rules) \in Nat
      BY <2>1, RulesOfDocument
    <2>4. b.updated[i] \in Nat /\ b.created[i] \in Nat /\ i \in Nat
      BY <1>1, ResolutionAssumption DEF Collection
    <2> PICK p, o, n, m, u, v :
          /\ p = b.doc[i].priority /\ o = (IF b.doc[i].scope = ScopeOf(c) THEN 1 ELSE 0)
          /\ n = Len(b.doc[i].rules) /\ m = MatchRules(c, b.doc[i].rules).score
          /\ u = b.updated[i] /\ v = b.created[i]
      OBVIOUS
    <2>5. Rank(b, c, i) = <<p, o, n, m, u, v, i>>
      BY DEF Rank
    <2>6. p \in Nat /\ o \in Nat /\ n \in Nat /\ m \in Nat /\ u \in Nat /\ v \in Nat
      BY <2>2, <2>3, <2>4
    <2> PICK t : t = <<p, o, n, m, u, v, i>>
      OBVIOUS
    <2>7. /\ t[1] = p /\ t[2] = o /\ t[3] = n /\ t[4] = m /\ t[5] = u /\ t[6] = v /\ t[7] = i
          /\ t = [k \in 1..7 |-> t[k]]
      OBVIOUS
    <2>8. ASSUME NEW k \in 1..7 PROVE t[k] \in Nat
      <3>1. k = 1 \/ k = 2 \/ k = 3 \/ k = 4 \/ k = 5 \/ k = 6 \/ k = 7
        OBVIOUS
      <3>2. t[1] \in Nat /\ t[2] \in Nat /\ t[3] \in Nat /\ t[4] \in Nat
        BY <2>6, <2>7, Zenon
      <3>3. t[5] \in Nat /\ t[6] \in Nat /\ t[7] \in Nat
        BY <2>4, <2>6, <2>7, Zenon
      <3> QED BY <3>1, <3>2, <3>3, Zenon
    <2>9. t \in [1..7 -> Nat]
      BY <2>7, <2>8
    <2> QED BY <2>1, <2>5, <2>7, <2>9
  <1> QED BY <1>2, <1>3 DEF Ranked

LEMMA GreaterIsPreferred ==
    ASSUME NEW c, NEW b, Collection(b), NEW i \in Matching(b, c), NEW j \in Matching(b, c)
    PROVE  Less(Rank(b, c, j), Rank(b, c, i)) <=> Preferred(c, b, i, j)
  <1> PICK d, e, s, t : d = b.doc[i] /\ e = b.doc[j] /\ s = Rank(b, c, j) /\ t = Rank(b, c, i)
    OBVIOUS
  <1>1. s \in [1..7 -> Nat] /\ t \in [1..7 -> Nat] /\ d \in Schema /\ e \in Schema
    BY MatchingRanked DEF Ranked
  <1>2. /\ s[1] = e.priority /\ t[1] = d.priority
        /\ s[2] = (IF e.scope = ScopeOf(c) THEN 1 ELSE 0) /\ t[2] = (IF d.scope = ScopeOf(c) THEN 1 ELSE 0)
        /\ s[3] = Len(e.rules) /\ t[3] = Len(d.rules)
        /\ s[4] = MatchRules(c, e.rules).score /\ t[4] = MatchRules(c, d.rules).score
        /\ <<s[5], s[6], s[7]>> = SessionKey(b, j) /\ <<t[5], t[6], t[7]>> = SessionKey(b, i)
    BY DEF Rank, SessionKey
  <1>3. s[4] = TotalScore(e) /\ t[4] = TotalScore(d)
    <2>1. MatchRules(c, d.rules).matched /\ MatchRules(c, e.rules).matched
      BY DEF Matching
    <2> QED BY <1>1, <1>2, <2>1, MatchingDocument
  <1>4. /\ s[1] \in Nat /\ t[1] \in Nat /\ s[2] \in Nat /\ t[2] \in Nat
        /\ s[3] \in Nat /\ t[3] \in Nat /\ s[4] \in Nat /\ t[4] \in Nat
    BY <1>1
  <1>5. /\ s[2] < t[2] <=> d.scope = ScopeOf(c) /\ e.scope # ScopeOf(c)
        /\ s[2] = t[2] <=> (d.scope = ScopeOf(c) <=> e.scope = ScopeOf(c))
    BY <1>2
  <1> PICK older : older = IF Less(SessionKey(b, j), SessionKey(b, i)) THEN 1 ELSE 0
    OBVIOUS
  <1>6. Less(s, t) <=> \/ s[1] < t[1]
                       \/ /\ s[1] = t[1]
                          /\ \/ s[2] < t[2]
                             \/ /\ s[2] = t[2]
                                /\ \/ s[3] < t[3]
                                   \/ /\ s[3] = t[3]
                                      /\ \/ s[4] < t[4]
                                         \/ s[4] = t[4] /\ older = 1
    <2> PICK l : l = (IF Less(<<s[5], s[6], s[7]>>, <<t[5], t[6], t[7]>>) THEN 1 ELSE 0)
      OBVIOUS
    <2>1. l = older
      BY <1>2
    <2>2. Less(<<s[5], s[6], s[7]>>, <<t[5], t[6], t[7]>>) <=> l = 1
      OBVIOUS
    <2> QED BY <1>1, <2>1, <2>2, LessOf7
  <1>7. Preferred(c, b, i, j) <=>
          \/ t[1] > s[1]
          \/ /\ t[1] = s[1]
             /\ \/ d.scope = ScopeOf(c) /\ e.scope # ScopeOf(c)
                \/ /\ d.scope = ScopeOf(c) <=> e.scope = ScopeOf(c)
                   /\ \/ t[3] > s[3]
                      \/ /\ t[3] = s[3]
                         /\ \/ t[4] > s[4]
                            \/ t[4] = s[4] /\ older = 1
    BY <1>2, <1>3 DEF Preferred
  <1> QED BY <1>4, <1>5, <1>6, <1>7

(* Whatever list of the candidates the database gives, max() over it, with
   the code's rank, finds the mock the reference prefers
   (mock_resolution_service.py:97-124, candidate_rank.py): what the run
   serving checks as the first half of LookupsAgree. *)
THEOREM RankedChoiceIsRight ==
    ASSUME NEW c, NEW b, Collection(b), NEW n \in Nat,
           NEW list \in [1..n -> Matching(b, c)],
           \A i \in Matching(b, c) : \E k \in 1..n : list[k] = i
    PROVE  BestOf(b, c, list) = RuleAnswer(c, b)
  <1> PICK A, best : A = Matching(b, c) /\ best = BestOf(b, c, list)
    OBVIOUS
  <1>1. A = {i \in Ids : Applies(c, b.doc[i])}
    BY MatchingApplies
  <1>2. Ranked(b, c, A) /\ NoDoc \notin A
    BY MatchingRanked
  <1>3. IF A = {} THEN best = NoDoc ELSE Greatest(b, c, A, best)
    BY <1>2, BestIsGreatest
  <1>4. CASE A = {}
    BY <1>1, <1>3, <1>4 DEF RuleAnswer
  <1>5. CASE A # {}
    <2>1. best \in A /\ \A j \in A \ {best} : Preferred(c, b, best, j)
      BY <1>3, <1>5, GreaterIsPreferred DEF Greatest
    <2>2. ASSUME NEW i \in A, \A j \in A \ {i} : Preferred(c, b, i, j) PROVE i = best
      <3>1. SUFFICES ASSUME i # best PROVE FALSE
        OBVIOUS
      <3>2. Less(Rank(b, c, best), Rank(b, c, i)) /\ Less(Rank(b, c, i), Rank(b, c, best))
        BY <2>1, <2>2, <3>1, GreaterIsPreferred
      <3> QED BY <1>2, <2>1, <3>2, RanksAreOrdered
    <2>3. RuleAnswer(c, b) = CHOOSE i \in A : \A j \in A \ {i} : Preferred(c, b, i, j)
      BY <1>1, <1>5 DEF RuleAnswer
    <2> QED BY <2>1, <2>2, <2>3
  <1> QED BY <1>4, <1>5

LEMMA ResolvesRight ==
    ASSUME NEW c, NEW b, Collection(b)
    PROVE  /\ ResolveBest(b, c) = RuleAnswer(c, b)
           /\ ResolveBest(b, c) \in Ids \cup {NoDoc}
           /\ ResolveBest(b, c) # NoDoc => b.doc[ResolveBest(b, c)] \in Schema
  <1> PICK A, n, list : A = Matching(b, c) /\ n = Cardinality(A) /\ list = SetToSeq(A)
    OBVIOUS
  <1>1. IsFiniteSet(A) /\ Ranked(b, c, A) /\ NoDoc \notin A /\ \A i \in A : b.doc[i] \in Schema
    BY MatchingRanked
  <1>2. n \in Nat /\ list \in [1..n -> A] /\ \A i \in A : \E k \in 1..n : list[k] = i
    BY <1>1, ListsAll
  <1>3. ResolveBest(b, c) = RuleAnswer(c, b)
    BY <1>2, RankedChoiceIsRight DEF ResolveBest
  <1>4. IF A = {} THEN ResolveBest(b, c) = NoDoc ELSE ResolveBest(b, c) \in A
    BY <1>1, ResolvesGreatest DEF Greatest
  <1>5. A \in SUBSET Ids
    BY MatchingApplies
  <1> QED BY <1>1, <1>3, <1>4, <1>5

Newest(b, T, i) == i \in T /\ \A j \in T \ {i} : Less(SessionKey(b, j), SessionKey(b, i))

LEMMA KeysAreOrdered ==
    ASSUME NEW b, Collection(b), NEW i \in Ids, NEW j \in Ids
    PROVE  /\ i # j => Less(SessionKey(b, i), SessionKey(b, j)) \/ Less(SessionKey(b, j), SessionKey(b, i))
           /\ Less(SessionKey(b, i), SessionKey(b, j)) => ~Less(SessionKey(b, j), SessionKey(b, i))
           /\ \A l \in Ids : Less(SessionKey(b, i), SessionKey(b, j)) /\ Less(SessionKey(b, j), SessionKey(b, l))
                             => Less(SessionKey(b, i), SessionKey(b, l))
  <1>1. ASSUME NEW l \in Ids PROVE SessionKey(b, l) \in [1..3 -> Nat] /\ SessionKey(b, l)[3] = l
    <2>1. b.updated[l] \in Nat /\ b.created[l] \in Nat /\ l \in Nat
      BY ResolutionAssumption DEF Collection
    <2> QED BY <2>1 DEF SessionKey
  <1>2. i # j => SessionKey(b, i) # SessionKey(b, j)
    BY <1>1
  <1> QED BY <1>1, <1>2, LessIsOrder

LEMMA NewestExists ==
    ASSUME NEW b, Collection(b), NEW A \in SUBSET Ids, A # {}
    PROVE  \E i : Newest(b, A, i)
  <1> DEFINE G == {m \in Nat : \A T \in SUBSET A : Cardinality(T) = m /\ T # {} => \E i : Newest(b, T, i)}
  <1>1. IsFiniteSet(A)
    BY FS_Subset, ServingAssumption
  <1>2. 0 \in G
    <2>1. \A T \in SUBSET A : Cardinality(T) = 0 => T = {}
      BY <1>1, PartsOfFinite
    <2> QED BY <2>1
  <1>3. ASSUME NEW m \in Nat, m \in G PROVE m + 1 \in G
    <2>1. ASSUME NEW T \in SUBSET A, Cardinality(T) = m + 1, NEW x \in T PROVE \E i : Newest(b, T, i)
      <3> PICK U : U = T \ {x}
        OBVIOUS
      <3>1. Cardinality(U) = m
        <4>1. Cardinality(U) = Cardinality(T) - 1
          BY <1>1, PartsOfFinite
        <4> QED BY <2>1, <4>1
      <3>2. CASE U = {}
        <4>1. Newest(b, T, x)
          BY <3>2 DEF Newest
        <4> QED BY <4>1
      <3>3. CASE U # {}
        <4>1. PICK g : Newest(b, U, g)
          BY <1>3, <3>1, <3>3
        <4>2. g \in Ids /\ x \in Ids /\ g # x /\ g \in T
          BY <4>1 DEF Newest
        <4>3. CASE Less(SessionKey(b, g), SessionKey(b, x))
          <5>1. ASSUME NEW j \in T \ {x} PROVE Less(SessionKey(b, j), SessionKey(b, x))
            BY <4>1, <4>2, <4>3, KeysAreOrdered DEF Newest
          <5>2. Newest(b, T, x)
            BY <5>1 DEF Newest
          <5> QED BY <5>2
        <4>4. CASE ~Less(SessionKey(b, g), SessionKey(b, x))
          <5>1. Less(SessionKey(b, x), SessionKey(b, g))
            BY <4>2, <4>4, KeysAreOrdered
          <5>2. Newest(b, T, g)
            BY <4>1, <4>2, <5>1 DEF Newest
          <5> QED BY <5>2
        <4> QED BY <4>3, <4>4
      <3> QED BY <3>2, <3>3
    <2> QED BY <2>1
  <1>4. Cardinality(A) \in Nat
    BY <1>1, FS_CardinalityType
  <1>5. Cardinality(A) \in G
    <2> HIDE DEF G
    <2> QED BY <1>2, <1>3, <1>4, Induction
  <1> QED BY <1>5

(* The newest active mock of the session is found
   (mongo_mock_repository.py, find_latest_by_session_id): the second half
   of LookupsAgree. *)
THEOREM LatestIsRight ==
    ASSUME NEW c, NEW b, Collection(b), SessionOf(c) # None
    PROVE  /\ FindLatestBySessionId(b, c) = SessionAnswer(c, b)
           /\ FindLatestBySessionId(b, c) # NoDoc =>
                /\ FindLatestBySessionId(b, c) \in Ids
                /\ b.doc[FindLatestBySessionId(b, c)] \in Schema
                /\ b.doc[FindLatestBySessionId(b, c)].session = SessionOf(c)
  <1> PICK A : A = InSession(b, c)
    OBVIOUS
  <1>1. A \in SUBSET Ids
    BY DEF InSession, OnRoute
  <1>2. A = {i \in Ids : /\ b.doc[i] # NoDoc /\ b.doc[i].active /\ b.doc[i].route = c.route
                         /\ SessionOf(c) # None /\ b.doc[i].session = SessionOf(c)}
    BY DEF InSession, OnRoute
  <1>3. CASE A = {}
    BY <1>2, <1>3 DEF FindLatestBySessionId, SessionAnswer
  <1>4. CASE A # {}
    <2> DEFINE First(i) == \A j \in A \ {i} : Less(SessionKey(b, j), SessionKey(b, i))
               Unbeaten(i) == \A j \in A \ {i} : ~Less(SessionKey(b, i), SessionKey(b, j))
    <2>1. FindLatestBySessionId(b, c) = (CHOOSE i \in A : First(i))
      BY <1>4 DEF FindLatestBySessionId
    <2>2. SessionAnswer(c, b) = (CHOOSE i \in A : Unbeaten(i))
      BY <1>2, <1>4 DEF SessionAnswer
    <2>3. PICK g : g \in A /\ First(g)
      BY <1>1, <1>4, NewestExists DEF Newest
    <2>4. ASSUME NEW i \in A PROVE First(i) => i = g
      BY <1>1, <2>3, KeysAreOrdered
    <2>5. ASSUME NEW i \in A PROVE Unbeaten(i) <=> i = g
      BY <1>1, <2>3, KeysAreOrdered
    <2> HIDE DEF First, Unbeaten
    <2>6. FindLatestBySessionId(b, c) = g
      BY <2>1, <2>3, <2>4
    <2>7. SessionAnswer(c, b) = g
      BY <2>2, <2>3, <2>5
    <2>8. b.doc[g] \in Schema /\ b.doc[g].session = SessionOf(c) /\ g \in Ids
      BY <1>2, <2>3 DEF Collection
    <2> QED BY <2>6, <2>7, <2>8
  <1> QED BY <1>3, <1>4

-----------------------------------------------------------------------------
(* The invariant is inductive.                                             *)

LEMMA ServedIsTyped ==
    ASSUME NEW b, NEW i \in Ids \cup {NoDoc}, i # NoDoc => b.doc[i] \in Documents
    PROVE  /\ At(b, i) \in [id : Ids, doc : Documents] \cup {NotServed}
           /\ At(b, i).id = i
           /\ i = NoDoc <=> At(b, i) = NotServed
           /\ i # NoDoc => At(b, i).doc = b.doc[i]
  <1>1. CASE i = NoDoc
    BY <1>1 DEF At, NotServed
  <1>2. CASE i # NoDoc
    BY <1>2 DEF At, NotServed
  <1> QED BY <1>1, <1>2

LEMMA RecordsAreNot ==
    NoRecord \notin Record
  <1>1. \A e \in Record : DOMAIN e = {"req", "route", "mock", "at"}
    BY DEF Record
  <1>2. DOMAIN NoRecord = {"req"}
    BY DEF NoRecord
  <1> QED BY <1>1, <1>2

LEMMA InitIInv ==
    Init => IInv
  <1> SUFFICES ASSUME Init PROVE IInv
    OBVIOUS
  <1>1. TypeOK
    <2>1. PICK doc \in [Ids -> Documents \cup {NoDoc}] :
            db = [doc |-> doc, updated |-> [i \in Ids |-> 0], created |-> [i \in Ids |-> 0]]
      BY DEF Init
    <2>2. db.doc = doc /\ db.updated = [i \in Ids |-> 0] /\ db.created = [i \in Ids |-> 0]
      BY <2>1
    <2>3. writes \in 0..MaxWrites
      BY ServingAssumption DEF Init
    <2> QED BY <2>2, <2>3 DEF Init, TypeOK, PC
  <1>2. LogInv
    BY FS_EmptySet DEF Init, LogInv
  <1>3. RecordInv
    BY DEF Init, RecordInv
  <1>4. HistoryInv
    BY DEF Init, HistoryInv, InService
  <1>5. AnswerInv
    BY DEF Init, AnswerInv
  <1> QED BY <1>1, <1>2, <1>3, <1>4, <1>5 DEF IInv

LEMMA ArriveIInv ==
    ASSUME IInv, NEW q \in Requests, Arrive(q)
    PROVE  IInv'
  <1> USE DEF IInv
  <1>1. PICK c \in Contexts :
          /\ ctx' = [ctx EXCEPT ![q] = c]
          /\ pc' = [pc EXCEPT ![q] = IF SessionOf(c) = None THEN "list" ELSE "session"]
          /\ Sees(q, c, db)
    BY DEF Arrive
  <1>2. pc[q] = "new" /\ UNCHANGED <<db, writes, log, built, record, served, cleared>>
    BY DEF Arrive
  <1>3. \A t \in Requests : t # q => pc'[t] = pc[t] /\ ctx'[t] = ctx[t]
    BY <1>1 DEF TypeOK
  <1>4. /\ ctx'[q] = c /\ pc'[q] \in {"list", "session"}
        /\ pc'[q] = "list" <=> SessionOf(c) = None
    BY <1>1 DEF TypeOK
  <1>5. TypeOK'
    <2>1. pc' \in [Requests -> PC] /\ ctx' \in [Requests -> Contexts \cup {NoCtx}]
      BY <1>1 DEF TypeOK, PC
    <2>2. ASSUME NEW t \in Requests, pc'[t] \in {"write", "resolved", "not_found"}
          PROVE  record'[t] = [req |-> t, route |-> ctx'[t].route, mock |-> served'[t].id, at |-> record'[t].at]
      <3>1. t # q
        BY <1>4, <2>2
      <3> QED BY <1>2, <1>3, <2>2, <3>1 DEF TypeOK
    <2> QED BY <1>2, <2>1, <2>2 DEF TypeOK
  <1>6. LogInv'
    <2>1. \A e \in log : e.req \in Requests /\ e.req # q
      BY <1>2 DEF LogInv, TypeOK, Record, Answers
    <2>2. q \notin cleared
      BY <1>2 DEF LogInv, Answers
    <2> QED BY <1>2, <1>3, <1>4, <2>1, <2>2 DEF LogInv
  <1>7. RecordInv'
    BY <1>2, <1>3, <1>4 DEF RecordInv
  <1>8. /\ DOMAIN sessions' = Requests /\ DOMAIN matches' = Requests
        /\ sessions'[q] = {At(db, SessionAnswer(c, db))} /\ matches'[q] = {At(db, RuleAnswer(c, db))}
        /\ \A t \in Requests : t # q => sessions'[t] = sessions[t] /\ matches'[t] = matches[t]
    BY <1>1 DEF Sees, HistoryInv
  <1>9. HistoryInv'
    BY <1>2, <1>3, <1>4, <1>8 DEF HistoryInv, InService
  <1>10. AnswerInv'
    <2>1. ASSUME NEW t \in Requests, t # q
          PROVE  AnswerInv!(t)'
      BY <1>2, <1>3, <1>8, <2>1 DEF AnswerInv
    <2>2. SessionOf(c) = None => NotServed \in sessions'[q]
      <3>1. SessionOf(c) = None => SessionAnswer(c, db) = NoDoc
        BY DEF SessionAnswer
      <3> QED BY <1>8, <3>1 DEF At
    <2>3. AnswerInv!(q)'
      BY <1>4, <2>2
    <2> QED BY <2>1, <2>3 DEF AnswerInv
  <1> QED BY <1>5, <1>6, <1>7, <1>9, <1>10

(* A strategy decides rightly. *)
LEMMA DecideIInv ==
    ASSUME IInv, NEW q \in Requests, pc[q] \in {"session", "list"},
           NEW i \in Ids \cup {NoDoc}, i # NoDoc => db.doc[i] \in Documents,
           \/ At(db, i) \in sessions[q] \ {NotServed} /\ At(db, i).doc.session = SessionOf(ctx[q])
           \/ NotServed \in sessions[q] /\ At(db, i) \in matches[q],
           Decide(q, i), UNCHANGED <<db, writes, log, ctx, history>>
    PROVE  IInv'
  <1> USE DEF IInv, history
  <1>1. /\ pc' = [pc EXCEPT ![q] = "write"] /\ built' = built + 1
        /\ served' = [served EXCEPT ![q] = At(db, i)]
        /\ record' = [record EXCEPT ![q] = RecordOf(q, i)]
    BY DEF Decide
  <1>2. /\ pc'[q] = "write" /\ served'[q] = At(db, i) /\ record'[q] = RecordOf(q, i)
        /\ \A t \in Requests : t # q => pc'[t] = pc[t] /\ served'[t] = served[t] /\ record'[t] = record[t]
    BY <1>1 DEF TypeOK
  <1>3. At(db, i) \in [id : Ids, doc : Documents] \cup {NotServed} /\ At(db, i).id = i
    BY ServedIsTyped
  <1>4. built \in Nat /\ built + 1 \in Nat /\ record[q] = NoRecord /\ ctx[q] \in Contexts
    BY DEF TypeOK, RecordInv, AnswerInv
  <1>5. RecordOf(q, i) \in Record /\ RecordOf(q, i).req = q /\ RecordOf(q, i).at = built + 1
    BY <1>4, ServingAssumption DEF RecordOf, Record
  <1>6. TypeOK'
    <2>1. pc' \in [Requests -> PC] /\ built' \in Nat /\ \A e \in log' : e.at <= built'
      <3>1. \A e \in log : e.at \in Nat /\ e.at <= built
        BY DEF TypeOK, Record
      <3> QED BY <1>1, <1>4, <3>1 DEF TypeOK, PC
    <2>2. /\ served' \in [Requests -> [id: Ids, doc: Documents] \cup {NotServed}]
          /\ record' \in [Requests -> Record \cup {NoRecord}]
      BY <1>1, <1>3, <1>5 DEF TypeOK
    <2>3. ASSUME NEW t \in Requests, pc'[t] \in {"write", "resolved", "not_found"}
          PROVE  record'[t] = [req |-> t, route |-> ctx'[t].route, mock |-> served'[t].id, at |-> record'[t].at]
      <3>1. CASE t # q
        BY <1>2, <2>3, <3>1 DEF TypeOK
      <3>2. CASE t = q
        BY <1>2, <1>3, <3>2 DEF RecordOf
      <3> QED BY <3>1, <3>2
    <2> QED BY <2>1, <2>2, <2>3 DEF TypeOK
  <1>7. LogInv'
    <2>1. \A e \in log : e.req \in Requests /\ e.req # q
      BY DEF LogInv, TypeOK, Record, Answers
    <2>2. q \notin cleared
      BY DEF LogInv, Answers
    <2> QED BY <1>2, <2>1, <2>2 DEF LogInv
  <1>8. RecordInv'
    <2>1. \A t \in Requests : record[t] # NoRecord => record[t].at \in Nat /\ record[t].at <= built
      BY DEF RecordInv, TypeOK, Record
    <2>2. \A t \in Requests : t # q /\ record[t] # NoRecord => record[t].at # built + 1
      BY <1>4, <2>1
    <2>3. \A t \in Requests : record'[t] # NoRecord => record'[t].req = t /\ record'[t].at <= built'
      <3>1. \A t \in Requests : record[t] # NoRecord => record[t].at <= built + 1
        BY <1>4, <2>1
      <3> QED BY <1>1, <1>2, <1>4, <1>5, <3>1 DEF RecordInv
    <2>4. \A t \in Requests : pc'[t] \in {"new", "session", "list"} => record'[t] = NoRecord
      BY <1>2 DEF RecordInv
    <2>5. \A t, u \in Requests :
            t # u /\ record'[t] # NoRecord /\ record'[u] # NoRecord => record'[t].at # record'[u].at
      BY <1>2, <1>5, <2>2 DEF RecordInv
    <2> QED BY <2>3, <2>4, <2>5 DEF RecordInv
  <1>9. HistoryInv'
    BY <1>2 DEF HistoryInv, InService
  <1>10. AnswerInv'
    BY <1>2, <1>4 DEF AnswerInv
  <1> QED BY <1>6, <1>7, <1>8, <1>9, <1>10

LEMMA FindSessionIInv ==
    ASSUME IInv, NEW q \in Requests, FindSession(q)
    PROVE  IInv'
  <1> USE DEF IInv
  <1> PICK i : i = FindLatestBySessionId(db, ctx[q])
    OBVIOUS
  <1>0. Collection(db) /\ \A j \in Ids : db.doc[j] # NoDoc => db.doc[j] \in Documents
    BY ServingAssumption DEF Collection, TypeOK
  <1>1. pc[q] = "session" /\ SessionOf(ctx[q]) # None /\ UNCHANGED <<db, writes, log, ctx, history>>
    BY DEF FindSession, AnswerInv
  <1>2. At(db, i) \in sessions[q]
    BY <1>0, <1>1, LatestIsRight DEF HistoryInv, InService
  <1>3. /\ i # NoDoc => i \in Ids
        /\ i # NoDoc => db.doc[i] \in Documents
        /\ i # NoDoc => db.doc[i].session = SessionOf(ctx[q])
    BY <1>0, <1>1, LatestIsRight, ServingAssumption
  <1>4. CASE i # NoDoc
    <2>1. Decide(q, i)
      BY <1>4 DEF FindSession
    <2>2. At(db, i) # NotServed /\ At(db, i).doc.session = SessionOf(ctx[q])
      BY <1>3, <1>4, ServedIsTyped
    <2> QED BY <1>1, <1>2, <1>3, <1>4, <2>1, <2>2, DecideIInv
  <1>5. CASE i = NoDoc
    <2>1. pc' = [pc EXCEPT ![q] = "list"] /\ UNCHANGED <<built, record, served>>
      BY <1>5 DEF FindSession
    <2>2. pc'[q] = "list" /\ \A t \in Requests : t # q => pc'[t] = pc[t]
      BY <2>1 DEF TypeOK
    <2> USE DEF history
    <2>3. TypeOK'
      <3>1. pc' \in [Requests -> PC]
        BY <2>1 DEF TypeOK, PC
      <3> QED BY <1>1, <2>1, <2>2, <3>1 DEF TypeOK
    <2>4. LogInv'
      <3>1. \A e \in log : e.req \in Requests /\ e.req # q
        BY <1>1 DEF LogInv, TypeOK, Record, Answers
      <3>2. q \notin cleared
        BY <1>1 DEF LogInv, Answers
      <3> QED BY <1>1, <2>1, <2>2, <3>1, <3>2 DEF LogInv
    <2>5. RecordInv'
      BY <1>1, <2>1, <2>2 DEF RecordInv
    <2>6. HistoryInv'
      BY <1>1, <2>1, <2>2 DEF HistoryInv, InService
    <2>7. AnswerInv'
      <3>1. NotServed \in sessions[q]
        BY <1>2, <1>5 DEF At
      <3> QED BY <1>1, <2>1, <2>2, <3>1 DEF AnswerInv
    <2> QED BY <2>3, <2>4, <2>5, <2>6, <2>7
  <1> QED BY <1>4, <1>5

LEMMA ListCandidatesIInv ==
    ASSUME IInv, NEW q \in Requests, ListCandidates(q)
    PROVE  IInv'
  <1> USE DEF IInv
  <1> PICK i : i = ResolveBest(db, ctx[q])
    OBVIOUS
  <1>0. Collection(db) /\ \A j \in Ids : db.doc[j] # NoDoc => db.doc[j] \in Documents
    BY ServingAssumption DEF Collection, TypeOK
  <1>1. /\ pc[q] = "list" /\ Decide(q, i) /\ UNCHANGED <<db, writes, log, ctx, history>>
        /\ NotServed \in sessions[q]
    BY DEF ListCandidates, AnswerInv
  <1>2. i \in Ids \cup {NoDoc} /\ (i # NoDoc => db.doc[i] \in Documents)
    BY <1>0, ResolvesRight, ServingAssumption
  <1>3. At(db, i) \in matches[q]
    BY <1>0, <1>1, ResolvesRight DEF HistoryInv, InService
  <1> QED BY <1>1, <1>2, <1>3, DecideIInv

(* A request ends, having written its record or not. *)
LEMMA EndIInv ==
    ASSUME IInv, NEW q \in Requests, InService(q), NEW x \in Answers,
           pc' = [pc EXCEPT ![q] = x],
           x \in {"resolved", "not_found"} => pc[q] = "write" /\ log' = log \cup {record[q]},
           log' = log \/ (pc[q] = "write" /\ log' = log \cup {record[q]}),
           UNCHANGED <<db, writes, built, ctx, record, served, history>>
    PROVE  IInv'
  <1> USE DEF IInv, history
  <1>1. pc'[q] = x /\ \A t \in Requests : t # q => pc'[t] = pc[t]
    BY DEF TypeOK
  <1>2. x \in PC /\ pc[q] \notin Answers
    BY DEF PC, InService, Answers
  <1>3. \A e \in log : e \in Record /\ e.req \in Requests /\ e.req # q /\ e = record[e.req]
    BY <1>2 DEF LogInv, TypeOK, Record
  <1>4. \A t \in cleared : t \in Requests /\ t # q
    BY <1>2 DEF LogInv
  <1>5. pc[q] = "write" => record[q] \in Record /\ record[q] # NoRecord
    <2>1. DOMAIN [req |-> q, route |-> ctx[q].route, mock |-> served[q].id, at |-> record[q].at] # DOMAIN NoRecord
      BY DEF NoRecord
    <2> QED BY <2>1 DEF TypeOK
  <1>6. \A e \in log' : e \in Record /\ e.req \in Requests /\ e = record[e.req] /\ e # NoRecord /\ pc'[e.req] \in Answers
    <2>1. \A e \in log : pc'[e.req] \in Answers /\ e # NoRecord
      BY <1>1, <1>3, RecordsAreNot DEF LogInv
    <2>2. pc[q] = "write" => record[q].req = q
      BY <1>5 DEF RecordInv
    <2> QED BY <1>1, <1>3, <1>5, <2>1, <2>2
  <1>7. TypeOK'
    <2>1. pc' \in [Requests -> PC]
      BY <1>2 DEF TypeOK
    <2>2. log' \subseteq Record /\ \A e \in log' : e.at <= built
      BY <1>6 DEF RecordInv
    <2>3. \A e, f \in log' : e.at = f.at => e = f
      <3>1. \A e, f \in log' : e.req # f.req => e.at # f.at
        BY <1>6 DEF RecordInv
      <3> QED BY <1>6, <3>1
    <2>4. ASSUME NEW t \in Requests, pc'[t] \in {"write", "resolved", "not_found"}
          PROVE  pc[t] \in {"write", "resolved", "not_found"}
      BY <1>1, <2>4 DEF Answers
    <2> QED BY <2>1, <2>2, <2>3, <2>4 DEF TypeOK
  <1>8. LogInv'
    <2>1. IsFiniteSet(log')
      BY FS_AddElement DEF LogInv
    <2>2. \A t \in Requests : pc'[t] \in {"resolved", "not_found"} /\ t \notin cleared' => record'[t] \in log'
      BY <1>1 DEF LogInv
    <2>3. \A t \in cleared' : t \in Requests /\ pc'[t] \in Answers /\ record'[t] \notin log'
      <3>1. \A t \in cleared : pc'[t] \in Answers /\ record[t] \notin log
        BY <1>1, <1>4 DEF LogInv
      <3>2. \A t \in cleared : pc[q] = "write" => record[t] # record[q]
        BY <1>4, <1>5 DEF RecordInv
      <3> QED BY <1>4, <3>1, <3>2
    <2> QED BY <1>6, <2>1, <2>2, <2>3 DEF LogInv
  <1>9. RecordInv'
    BY <1>1 DEF RecordInv, Answers
  <1>10. HistoryInv'
    <2>1. \A t \in Requests : InService(t)' => InService(t)
      BY <1>1 DEF InService, Answers
    <2> QED BY <2>1 DEF HistoryInv
  <1>11. AnswerInv'
    BY <1>1 DEF AnswerInv, Answers, InService
  <1> QED BY <1>7, <1>8, <1>9, <1>10, <1>11

LEMMA AdminWriteIInv ==
    ASSUME IInv, NEW i \in Ids, AdminWrite(i)
    PROVE  IInv'
  <1> USE DEF IInv
  <1>1. /\ writes' = writes + 1 /\ writes < MaxWrites
        /\ UNCHANGED <<log, built, pc, ctx, record, served, cleared>>
        /\ sessions' = [q \in Requests |-> IF InService(q)
                          THEN sessions[q] \cup {At(db', SessionAnswer(ctx[q], db'))} ELSE sessions[q]]
        /\ matches' = [q \in Requests |-> IF InService(q)
                          THEN matches[q] \cup {At(db', RuleAnswer(ctx[q], db'))} ELSE matches[q]]
    BY DEF AdminWrite
  <1>2. TypeOK'
    <2>1. PICK d \in Documents \cup {NoDoc} :
            db' = [doc |-> [db.doc EXCEPT ![i] = d],
                   updated |-> [db.updated EXCEPT ![i] = IF d = NoDoc THEN 0 ELSE Now],
                   created |-> [db.created EXCEPT ![i] = CASE d = NoDoc -> 0
                                                            [] db.doc[i] = NoDoc -> Now
                                                            [] OTHER -> @]]
      BY DEF AdminWrite
    <2>2. writes \in Nat /\ MaxWrites \in Nat
      BY ServingAssumption DEF TypeOK
    <2>3. Now \in Nat
      BY <2>2 DEF Now
    <2>4. db'.doc \in [Ids -> Documents \cup {NoDoc}] /\ db'.updated \in [Ids -> Nat]
      <3>1. (IF d = NoDoc THEN 0 ELSE Now) \in Nat
        BY <2>3
      <3> QED BY <2>1, <3>1 DEF TypeOK
    <2>5. db'.created \in [Ids -> Nat]
      <3> PICK t : t = CASE d = NoDoc -> 0 [] db.doc[i] = NoDoc -> Now [] OTHER -> db.created[i]
        OBVIOUS
      <3>1. t \in Nat
        BY <2>3 DEF TypeOK
      <3>2. db'.created = [db.created EXCEPT ![i] = t]
        BY <2>1
      <3> QED BY <3>1, <3>2 DEF TypeOK
    <2>6. writes' \in 0..MaxWrites
      BY <1>1, <2>2
    <2> QED BY <1>1, <2>4, <2>5, <2>6 DEF TypeOK
  <1>3. LogInv'
    BY <1>1 DEF LogInv
  <1>4. RecordInv'
    BY <1>1 DEF RecordInv
  <1>5. HistoryInv'
    BY <1>1 DEF HistoryInv, InService
  <1>6. AnswerInv'
    <2>1. \A q \in Requests : sessions[q] \subseteq sessions'[q] /\ matches[q] \subseteq matches'[q]
      BY <1>1
    <2> QED BY <1>1, <2>1 DEF AnswerInv
  <1> QED BY <1>2, <1>3, <1>4, <1>5, <1>6

LEMMA ClearIInv ==
    ASSUME IInv, Clear
    PROVE  IInv'
  <1> USE DEF IInv
  <1>1. /\ log' = {} /\ cleared' = cleared \cup {e.req : e \in log}
        /\ UNCHANGED <<db, writes, built, pc, ctx, record, served, sessions, matches>>
    BY DEF Clear
  <1>2. TypeOK'
    BY <1>1 DEF TypeOK
  <1>3. LogInv'
    <2>1. \A e \in log : e.req \in Requests /\ pc[e.req] \in Answers
      BY DEF LogInv, TypeOK, Record
    <2>2. \A q \in Requests : pc[q] \in {"resolved", "not_found"} => q \in cleared'
      <3>1. \A q \in Requests : record[q] \in log => record[q].req = q
        BY RecordsAreNot DEF RecordInv, TypeOK
      <3> QED BY <1>1, <3>1 DEF LogInv
    <2>3. IsFiniteSet(log')
      BY <1>1, FS_EmptySet
    <2> QED BY <1>1, <2>1, <2>2, <2>3 DEF LogInv
  <1>4. RecordInv' /\ HistoryInv' /\ AnswerInv'
    BY <1>1 DEF RecordInv, HistoryInv, AnswerInv, InService
  <1> QED BY <1>2, <1>3, <1>4

LEMMA NextIInv ==
    IInv /\ [Next]_vars => IInv'
  <1> SUFFICES ASSUME IInv, [Next]_vars PROVE IInv'
    OBVIOUS
  <1>1. ASSUME NEW q \in Requests, Arrive(q) PROVE IInv'
    BY <1>1, ArriveIInv
  <1>2. ASSUME NEW q \in Requests, FindSession(q) PROVE IInv'
    BY <1>2, FindSessionIInv
  <1>3. ASSUME NEW q \in Requests, ListCandidates(q) PROVE IInv'
    BY <1>3, ListCandidatesIInv
  <1>4. ASSUME NEW q \in Requests, WriteRecord(q) PROVE IInv'
    <2> PICK x : x = IF record[q].mock = NoDoc THEN "not_found" ELSE "resolved"
      OBVIOUS
    <2>1. InService(q) /\ x \in Answers /\ pc[q] = "write"
      BY <1>4 DEF WriteRecord, InService, Answers
    <2>2. /\ pc' = [pc EXCEPT ![q] = x] /\ log' = log \cup {record[q]}
          /\ UNCHANGED <<db, writes, built, ctx, record, served, history>>
      BY <1>4 DEF WriteRecord, Insert
    <2> QED BY <2>1, <2>2, EndIInv
  <1>5. ASSUME NEW q \in Requests, DbError(q) \/ Crash(q) PROVE IInv'
    <2>1. PICK x \in {"error", "lost"} : pc' = [pc EXCEPT ![q] = x]
      BY <1>5 DEF DbError, Crash, Breaks
    <2>2. /\ InService(q)
          /\ log' = log \/ (pc[q] = "write" /\ log' = log \cup {record[q]})
          /\ UNCHANGED <<db, writes, built, ctx, record, served, history>>
      BY <1>5 DEF DbError, Crash, Breaks, Insert
    <2>3. x \in Answers /\ x \notin {"resolved", "not_found"}
      BY DEF Answers
    <2> QED BY <2>1, <2>2, <2>3, EndIInv
  <1>6. ASSUME NEW i \in Ids, AdminWrite(i) PROVE IInv'
    BY <1>6, AdminWriteIInv
  <1>7. ASSUME Clear PROVE IInv'
    BY <1>7, ClearIInv
  <1>8. ASSUME UNCHANGED vars PROVE IInv'
    BY <1>8 DEF vars, IInv, TypeOK, LogInv, RecordInv, HistoryInv, AnswerInv, InService
  <1> QED BY <1>1, <1>2, <1>3, <1>4, <1>5, <1>6, <1>7, <1>8 DEF Next, Step

-----------------------------------------------------------------------------
(* The properties of RequestServing.                                       *)

LEMMA RightOfIInv ==
    ASSUME IInv
    PROVE  AnswerWasRight /\ SessionPinned
  <1>1. AnswerWasRight
    BY DEF IInv, AnswerInv, AnswerWasRight
  <1>2. ASSUME NEW q \in Requests, pc[q] \in {"resolved", "not_found"}, NotServed \notin sessions[q]
        PROVE  served[q].doc # NoDoc /\ served[q].doc.session = SessionOf(ctx[q])
    <2>1. served[q] \in sessions[q] \ {NotServed} /\ served[q].doc.session = SessionOf(ctx[q])
      BY <1>2 DEF IInv, AnswerInv
    <2>2. served[q] \in [id : Ids, doc : Documents]
      BY <2>1 DEF IInv, TypeOK
    <2> QED BY <2>1, <2>2, ServingAssumption
  <1> QED BY <1>1, <1>2 DEF SessionPinned

LEMMA LoggedOfIInv ==
    ASSUME IInv
    PROVE  AnsweredIsLogged
  <1> SUFFICES ASSUME NEW q \in Requests, NEW own, own = {e \in log : e.req = q}
               PROVE  /\ pc[q] \in {"resolved", "not_found"} /\ q \notin cleared
                           => \E e \in own : e.mock = served[q].id /\ e.route = ctx[q].route
                      /\ \A e \in own : own = {e} /\ pc[q] \in Answers
                      /\ q \in cleared => own = {}
    BY DEF AnsweredIsLogged
  <1> USE DEF IInv
  <1>1. \A e \in own : e = record[q] /\ e \in log /\ pc[q] \in Answers
    BY DEF LogInv
  <1>2. ASSUME pc[q] \in {"resolved", "not_found"}, q \notin cleared
        PROVE  record[q] \in own /\ record[q].mock = served[q].id /\ record[q].route = ctx[q].route
    <2>1. record[q] \in log
      BY <1>2 DEF LogInv
    <2>2. record[q] = [req |-> q, route |-> ctx[q].route, mock |-> served[q].id, at |-> record[q].at]
      BY <1>2 DEF TypeOK
    <2>3. record[q].req = q /\ record[q].mock = served[q].id /\ record[q].route = ctx[q].route
      BY <2>2
    <2> QED BY <2>1, <2>3
  <1>3. q \in cleared => own = {}
    BY <1>1 DEF LogInv
  <1> QED BY <1>1, <1>2, <1>3

(* A record tells what its request was about, and only finitely many requests
   have begun. *)
Begun == {q \in Requests : pc[q] # "new"}
RecordsTell ==
    /\ IsFiniteSet(Begun)
    /\ \A q \in Requests : record[q] # NoRecord =>
         record[q].route = ctx[q].route /\ record[q].mock = served[q].id

LEMMA InitTells ==
    Init => RecordsTell
  <1> SUFFICES ASSUME Init PROVE RecordsTell
    OBVIOUS
  <1>1. Begun = {}
    BY DEF Init, Begun
  <1> QED BY <1>1, FS_EmptySet DEF Init, RecordsTell

LEMMA NextTells ==
    ASSUME IInv, RecordsTell, [Next]_vars
    PROVE  RecordsTell'
  <1> USE DEF IInv
  <1>1. ASSUME NEW q \in Requests, Arrive(q) PROVE RecordsTell'
    <2>1. /\ UNCHANGED <<record, served>> /\ record[q] = NoRecord
          /\ \A t \in Requests : t # q => pc'[t] = pc[t] /\ ctx'[t] = ctx[t]
      BY <1>1 DEF Arrive, TypeOK, RecordInv
    <2>2. Begun' \in SUBSET (Begun \cup {q})
      BY <2>1 DEF Begun
    <2>3. IsFiniteSet(Begun')
      BY <2>2, FS_AddElement, FS_Subset DEF RecordsTell
    <2> QED BY <2>1, <2>3 DEF RecordsTell
  <1>2. ASSUME NEW q \in Requests, pc[q] # "new", \A t \in Requests : t # q => pc'[t] = pc[t]
        PROVE  IsFiniteSet(Begun')
    <2>1. Begun' \in SUBSET Begun
      BY <1>2 DEF Begun
    <2> QED BY <2>1, FS_Subset DEF RecordsTell
  <1>3. ASSUME NEW q \in Requests, NEW i \in Ids \cup {NoDoc}, pc[q] # "new",
               Decide(q, i), UNCHANGED ctx
        PROVE  RecordsTell'
    <2>1. /\ record'[q].route = ctx[q].route /\ record'[q].mock = i /\ served'[q] = At(db, i)
          /\ \A t \in Requests : t # q => pc'[t] = pc[t] /\ record'[t] = record[t] /\ served'[t] = served[t]
      BY <1>3 DEF Decide, RecordOf, TypeOK
    <2>2. At(db, i).id = i
      BY DEF At, NotServed
    <2> QED BY <1>2, <1>3, <2>1, <2>2 DEF RecordsTell
  <1>4. ASSUME NEW q \in Requests, FindSession(q) PROVE RecordsTell'
    <2> PICK i : i = FindLatestBySessionId(db, ctx[q])
      OBVIOUS
    <2>1. pc[q] = "session" /\ UNCHANGED ctx
      BY <1>4 DEF FindSession
    <2>2. CASE i = NoDoc
      <3>1. pc' = [pc EXCEPT ![q] = "list"] /\ UNCHANGED <<record, served>>
        BY <1>4, <2>2 DEF FindSession
      <3>2. \A t \in Requests : t # q => pc'[t] = pc[t]
        BY <3>1 DEF TypeOK
      <3> QED BY <1>2, <2>1, <3>1, <3>2 DEF RecordsTell
    <2>3. CASE i # NoDoc
      <3>1. Collection(db) /\ SessionOf(ctx[q]) # None
        BY <2>1, ServingAssumption DEF Collection, TypeOK, AnswerInv
      <3>2. i \in Ids /\ Decide(q, i)
        BY <1>4, <2>3, <3>1, LatestIsRight DEF FindSession
      <3> QED BY <1>3, <2>1, <3>2
    <2> QED BY <2>2, <2>3
  <1>5. ASSUME NEW q \in Requests, ListCandidates(q) PROVE RecordsTell'
    <2> PICK i : i = ResolveBest(db, ctx[q])
      OBVIOUS
    <2>1. Collection(db)
      BY ServingAssumption DEF Collection, TypeOK
    <2>2. i \in Ids \cup {NoDoc} /\ Decide(q, i) /\ pc[q] = "list" /\ UNCHANGED ctx
      BY <1>5, <2>1, ResolvesRight DEF ListCandidates
    <2> QED BY <1>3, <2>2
  <1>6. ASSUME NEW q \in Requests, WriteRecord(q) \/ DbError(q) \/ Crash(q) PROVE RecordsTell'
    <2>1. /\ pc[q] # "new" /\ UNCHANGED <<ctx, record, served>>
          /\ \A t \in Requests : t # q => pc'[t] = pc[t]
      BY <1>6 DEF WriteRecord, DbError, Crash, Breaks, InService, TypeOK
    <2> QED BY <1>2, <2>1 DEF RecordsTell
  <1>7. ASSUME UNCHANGED <<pc, ctx, record, served>> PROVE RecordsTell'
    BY <1>7 DEF RecordsTell, Begun
  <1>8. Clear \/ (\E i \in Ids : AdminWrite(i)) \/ UNCHANGED vars => UNCHANGED <<pc, ctx, record, served>>
    BY DEF Clear, AdminWrite, vars
  <1> QED BY <1>1, <1>4, <1>5, <1>6, <1>7, <1>8 DEF Next, Step

(* The first page of a log that fits a page is the log. *)
LEMMA PageIsWhole ==
    ASSUME IInv, Cardinality(log) <= PageSize
    PROVE  Page(log) = log /\ IsFiniteSet(log)
  <1>1. IsFiniteSet(log) /\ Cardinality(log) \in Nat
    BY FS_CardinalityType DEF IInv, LogInv
  <1>2. ASSUME NEW e \in log PROVE Cardinality({f \in log : f.at > e.at}) < PageSize
    <2> PICK later : later = {f \in log : f.at > e.at}
      OBVIOUS
    <2>1. later \in SUBSET (log \ {e})
      BY DEF IInv, TypeOK, Record
    <2>2. IsFiniteSet(log \ {e}) /\ Cardinality(log \ {e}) = Cardinality(log) - 1
      BY <1>1, FS_RemoveElement
    <2>3. Cardinality(later) \in Nat /\ Cardinality(later) <= Cardinality(log) - 1
      BY <2>1, <2>2, FS_Subset, FS_CardinalityType
    <2> QED BY <1>1, <2>3, ServingAssumption
  <1> QED BY <1>1, <1>2 DEF Page

LEMMA VerifiedOfIInv ==
    ASSUME IInv, RecordsTell
    PROVE  AnsweredIsVerified
  <1> SUFFICES ASSUME Cardinality(log) <= PageSize, NEW route, NEW mock
               PROVE  /\ VerifyCount(route, mock) >= Cardinality(Ended({"resolved", "not_found"}, route, mock))
                      /\ VerifyCount(route, mock) <= Cardinality(Ended(Answers, route, mock))
    BY DEF AnsweredIsVerified
  <1> PICK found, answered, ended :
        /\ found = {e \in log : Meets(e, route, mock)}
        /\ answered = Ended({"resolved", "not_found"}, route, mock)
        /\ ended = Ended(Answers, route, mock)
    OBVIOUS
  <1> USE DEF IInv
  <1>1. VerifyCount(route, mock) = Cardinality(found) /\ IsFiniteSet(found)
    BY PageIsWhole, FS_Subset DEF VerifyCount
  <1>2. IsFiniteSet(ended)
    <2>1. ended \in SUBSET Begun
      BY DEF Ended, Begun, Answers
    <2> QED BY <2>1, FS_Subset DEF RecordsTell
  <1>3. ASSUME NEW q \in answered PROVE record[q] \in found /\ record[q].req = q
    <2>1. q \in Requests /\ pc[q] \in {"resolved", "not_found"} /\ record[q] \in log
      BY DEF Ended, LogInv
    <2>2. record[q] # NoRecord
      BY <2>1, RecordsAreNot DEF TypeOK
    <2> QED BY <2>1, <2>2 DEF Ended, Meets, RecordInv, RecordsTell
  <1>4. Cardinality(answered) <= Cardinality(found)
    <2> PICK f : f = [q \in answered |-> record[q]]
      OBVIOUS
    <2>1. f \in Injection(answered, found)
      BY <1>3 DEF Injection, IsInjective
    <2> QED BY <1>1, <2>1, FS_Injection
  <1>5. ASSUME NEW e \in found PROVE e.req \in ended /\ e = record[e.req]
    <2>1. e.req \in Requests /\ e = record[e.req] /\ pc[e.req] \in Answers /\ e.req \notin cleared
      BY DEF LogInv, TypeOK, Record
    <2>2. record[e.req] # NoRecord
      BY <2>1, RecordsAreNot DEF TypeOK
    <2> QED BY <2>1, <2>2 DEF Ended, Meets, RecordsTell
  <1>6. Cardinality(found) <= Cardinality(ended)
    <2> PICK f : f = [e \in found |-> e.req]
      OBVIOUS
    <2>1. f \in Injection(found, ended)
      BY <1>5 DEF Injection, IsInjective
    <2> QED BY <1>2, <2>1, FS_Injection
  <1>7. Cardinality(found) \in Nat /\ Cardinality(answered) \in Nat
    <2>1. answered \in SUBSET ended
      BY DEF Ended, Answers
    <2> QED BY <1>1, <1>2, <2>1, FS_Subset, FS_CardinalityType
  <1> QED BY <1>1, <1>4, <1>6, <1>7

LEMMA InvariantOfSpec ==
    Spec => []IInv
  <1> QED BY InitIInv, NextIInv, PTL DEF Spec

(* Every request's answer is the one the collection demanded at some moment
   of its service: the session's mock if there was one, else the preferred
   match (rule_matching_resolve_strategy.py:60-82). *)
THEOREM AnswersAreRight == Spec => []AnswerWasRight
  <1> QED BY InvariantOfSpec, RightOfIInv, PTL

(* A request whose session has a mock all along is answered by the session
   (mock_session_resolve_strategy.py:28-40). *)
THEOREM SessionsArePinned == Spec => []SessionPinned
  <1> QED BY InvariantOfSpec, RightOfIInv, PTL

(* Every answered request has its one record in the log until the log is
   cleared (mock_session_resolve_strategy.py:42-55). *)
THEOREM AnswersAreLogged == Spec => []AnsweredIsLogged
  <1> QED BY InvariantOfSpec, LoggedOfIInv, PTL

LEMMA RecordsAlwaysTell ==
    Spec => []RecordsTell
  <1>1. IInv /\ RecordsTell /\ [Next]_vars => RecordsTell'
    BY NextTells
  <1> QED BY InitTells, <1>1, InvariantOfSpec, PTL DEF Spec

(* While the log fits a page, verification counts a request for each that was
   answered and not cleared, and no more than have ended
   (request_log_service.py:111-137). *)
THEOREM AnswersAreVerified == Spec => []AnsweredIsVerified
  <1> QED BY InvariantOfSpec, RecordsAlwaysTell, VerifiedOfIInv, PTL

(* Verification promises the number of requests in the log, and keeps it as
   long as the log is no longer than a page: a longer one is the only thing
   that breaks it (request_log_service.py:115). *)
THEOREM WholePageCountsAll == Spec => [](Cardinality(log) <= PageSize => VerifyCountsAll)
  <1>1. IInv => (Cardinality(log) <= PageSize => VerifyCountsAll)
    BY PageIsWhole DEF VerifyCount, VerifyCountsAll
  <1> QED BY <1>1, InvariantOfSpec, PTL

(* Whatever the collection and the request, the lookups choose as their
   reference does (mock_resolution_service.py:97-124,
   mongo_mock_repository.py:255-313). *)
THEOREM LookupsAlwaysAgree == Spec => []LookupsAgree
  <1>1. ASSUME NEW l \in Lookups, NEW list \in SetToSeqs(Matching(l.db, l.ctx))
        PROVE  BestOf(l.db, l.ctx, list) = RuleAnswer(l.ctx, l.db)
    <2> PICK A, n, b, c : A = Matching(l.db, l.ctx) /\ n = Cardinality(A) /\ b = l.db /\ c = l.ctx
      OBVIOUS
    <2>1. Collection(b)
      BY ServingAssumption
    <2>2. IsFiniteSet(A) /\ n \in Nat
      BY <2>1, MatchingRanked, FS_CardinalityType
    <2>3. list \in [1..n -> A] /\ \A i, j \in 1..n : i # j => list[i] # list[j]
      BY DEF SetToSeqs
    <2>4. list \in Surjection(1..n, A)
      <3>1. list \in Injection(1..n, A)
        BY <2>3 DEF Injection, IsInjective
      <3>2. Cardinality(1..n) = n
        BY <2>2, FS_Interval
      <3> QED BY <2>2, <3>1, <3>2, FS_Injection
    <2>5. \A i \in A : \E k \in 1..n : list[k] = i
      BY <2>4 DEF Surjection
    <2> QED BY <2>1, <2>2, <2>3, <2>5, RankedChoiceIsRight
  <1>2. ASSUME NEW l \in Lookups, SessionOf(l.ctx) # None
        PROVE  FindLatestBySessionId(l.db, l.ctx) = SessionAnswer(l.ctx, l.db)
    BY <1>2, LatestIsRight, ServingAssumption
  <1>3. LookupsAgree
    BY <1>1, <1>2 DEF LookupsAgree
  <1> QED BY <1>3, PTL

-----------------------------------------------------------------------------
(* ServedRequests: the layers around it only take its steps.               *)

LEMMA ServedStep ==
    [ServedNext]_allVars => [Next]_vars
  <1>1. ASSUME NEW q \in Requests, Enter(q) \/ Resolving(q) \/ Resolved(q) \/ Failed(q) \/ Served(q) \/ Dies(q)
        PROVE  [Next]_vars
    <2>1. CASE Enter(q) \/ Resolving(q) \/ Resolved(q) \/ Failed(q)
      BY <2>1 DEF Enter, Resolving, Resolved, Failed, Next, Step
    <2>2. CASE Served(q) \/ Dies(q)
      BY <2>2 DEF Served, Dies, Next
    <2> QED BY <1>1, <2>1, <2>2
  <1>2. UNCHANGED allVars => UNCHANGED vars
    BY DEF allVars
  <1>3. Clear \/ (\E i \in Ids : AdminWrite(i)) => Next
    BY DEF Next
  <1> QED BY <1>1, <1>2, <1>3 DEF ServedNext

(* The middleware, the log context and the error handlers around a request
   add nothing to what the request does: every step of a served request is a
   step of resolution or leaves its variables alone
   (logging_middleware.py:32-124, error_handlers.py). *)
THEOREM ServedImplementsServing == ServedSpec => Spec
  <1>1. ServedInit => Init
    BY DEF ServedInit
  <1> QED BY <1>1, ServedStep, PTL DEF ServedSpec, Spec

-----------------------------------------------------------------------------
(* Log lines and replies.                                                  *)

AccessType ==
    /\ context \in [Requests -> Requests \cup {None}]
    /\ lines \in [Requests -> Seq(Line)]
    /\ reply \in [Requests -> Reply \cup {NoReply}]

ServedIInv == IInv /\ AccessType /\ AccessInv /\ OwnId /\ CompletedOnce

(* What an answer leaves of a request: at most two lines, and a reply. *)
Closed(q, two, status, id) ==
    /\ context' = [context EXCEPT ![q] = None]
    /\ lines' = [lines EXCEPT ![q] = two]
    /\ reply' = [reply EXCEPT ![q] = [status |-> status, id |-> id]]
    /\ status \in Statuses
    /\ \/ id = q /\ two = <<Event("http_request_completed", status, q)>>
       \/ /\ id = q
          /\ two = <<Event("handled_exception", status, q), Event("http_request_completed", status, q)>>
       \/ /\ id = None
          /\ two = <<Event("http_request_completed", status, q), Event("unexpected_exception", status, None)>>

LEMMA TwoLines ==
    ASSUME NEW x, NEW y
    PROVE  <<x>> \o <<y>> = <<x, y>>
  <1> PICK S, s, t, u : S = {x, y} /\ s = <<x>> /\ t = <<y>> /\ u = s \o t
    OBVIOUS
  <1>1. s \in Seq(S) /\ t \in Seq(S) /\ Len(s) = 1 /\ Len(t) = 1 /\ s[1] = x /\ t[1] = y
    OBVIOUS
  <1>2. u \in Seq(S) /\ Len(u) = 2 /\ u[1] = x /\ u[2] = y
    <2>1. /\ u \in Seq(S) /\ Len(u) = Len(s) + Len(t)
          /\ \A i \in 1..Len(s) + Len(t) : u[i] = IF i <= Len(s) THEN s[i] ELSE t[i - Len(s)]
      BY <1>1, ConcatProperties
    <2> QED BY <1>1, <2>1
  <1>3. u = <<x, y>>
    <2>1. DOMAIN u = 1..2
      BY <1>2
    <2> PICK v : v = <<x, y>>
      OBVIOUS
    <2>2. v[1] = x /\ v[2] = y /\ v = [i \in 1..2 |-> v[i]]
      OBVIOUS
    <2>3. ASSUME NEW i \in 1..2 PROVE u[i] = v[i]
      <3>1. i = 1 \/ i = 2
        OBVIOUS
      <3> QED BY <1>2, <2>2, <3>1, Zenon
    <2>4. u = [i \in 1..2 |-> u[i]]
      BY <1>2, <2>1
    <2> QED BY <2>2, <2>3, <2>4
  <1> QED BY <1>3

LEMMA AnswerCloses ==
    ASSUME NEW q \in Requests, AccessType, context[q] = q, lines[q] = <<>>
    PROVE  /\ \A status \in Statuses :
                /\ Respond(q, status, <<>>) => \E two, id : Closed(q, two, status, id)
                /\ Handled(q, status) => \E two, id : Closed(q, two, status, id)
           /\ Unexpected(q) => \E two, id : Closed(q, two, 500, id)
  <1>1. ASSUME NEW status \in Statuses, Respond(q, status, <<>>)
        PROVE  \E two, id : Closed(q, two, status, id)
    <2> PICK last : last = Event("http_request_completed", status, q)
      OBVIOUS
    <2>1. <<>> \o <<>> \o <<last>> = <<last>>
      OBVIOUS
    <2>2. Closed(q, <<last>>, status, q)
      BY <1>1, <2>1 DEF Respond, Closed, SetContext
    <2> QED BY <2>2
  <1>2. ASSUME NEW status \in Statuses, Handled(q, status)
        PROVE  \E two, id : Closed(q, two, status, id)
    <2> PICK first, last : /\ first = Event("handled_exception", status, q)
                           /\ last = Event("http_request_completed", status, q)
      OBVIOUS
    <2>1. <<>> \o <<first>> \o <<last>> = <<first, last>>
      <3>1. <<>> \o <<first>> = <<first>>
        OBVIOUS
      <3>2. <<first>> \o <<last>> = <<first, last>>
        BY TwoLines
      <3> QED BY <3>1, <3>2, Zenon
    <2>2. Closed(q, <<first, last>>, status, q)
      BY <1>2, <2>1 DEF Handled, Respond, Closed, SetContext
    <2> QED BY <2>2
  <1>3. ASSUME Unexpected(q)
        PROVE  \E two, id : Closed(q, two, 500, id)
    <2> PICK first, last : /\ first = Event("http_request_completed", 500, q)
                           /\ last = Event("unexpected_exception", 500, None)
      OBVIOUS
    <2>1. <<>> \o <<first, last>> = <<first, last>>
      OBVIOUS
    <2>2. Closed(q, <<first, last>>, 500, None)
      BY <1>3, <2>1 DEF Unexpected, Closed, SetContext, Statuses
    <2> QED BY <2>2
  <1> QED BY <1>1, <1>2, <1>3

LEMMA ClosedIsRight ==
    ASSUME NEW q \in Requests, AccessType, NEW two, NEW status, NEW id, Closed(q, two, status, id)
    PROVE  /\ AccessType' /\ reply'[q] # NoReply
           /\ OwnId!(q)' /\ CompletedOnce!(q)'
  <1>1. /\ context'[q] = None /\ lines'[q] = two
        /\ reply'[q] = [status |-> status, id |-> id] /\ status \in Statuses
    BY DEF AccessType, Closed
  <1>2. reply'[q] # NoReply /\ reply'[q].status = status /\ reply'[q].id = id
    <2>1. reply'[q].status = status /\ reply'[q].id = id /\ status # 0
      BY <1>1 DEF Statuses
    <2> QED BY <2>1 DEF NoReply
  <1>3. CASE id = q /\ two = <<Event("http_request_completed", status, q)>>
    <2>1. /\ DOMAIN two = {1}
          /\ two[1].event = "http_request_completed" /\ two[1].status = status /\ two[1].id = q
          /\ two \in Seq(Line)
      BY <1>1, <1>3 DEF Event, Line
    <2> QED BY <1>1, <1>2, <1>3, <2>1 DEF Closed, AccessType, Reply
  <1>4. CASE /\ id = q
             /\ two = <<Event("handled_exception", status, q), Event("http_request_completed", status, q)>>
    <2>1. /\ DOMAIN two = {1, 2}
          /\ two[1].event = "handled_exception" /\ two[1].id = q
          /\ two[2].event = "http_request_completed" /\ two[2].status = status /\ two[2].id = q
      BY <1>4 DEF Event
    <2>2. two \in Seq(Line)
      <3>1. \A x, y \in Line : <<x, y>> \in Seq(Line)
        OBVIOUS
      <3> QED BY <1>1, <1>4, <3>1 DEF Event, Line
    <2>3. OwnId!(q)'
      BY <1>1, <1>2, <1>4, <2>1
    <2>4. CompletedOnce!(q)'
      BY <1>1, <1>2, <1>4, <2>1
    <2>5. AccessType'
      BY <1>1, <1>4, <2>2 DEF Closed, AccessType, Reply
    <2> QED BY <1>2, <2>3, <2>4, <2>5
  <1>5. CASE /\ id = None
             /\ two = <<Event("http_request_completed", status, q), Event("unexpected_exception", status, None)>>
    <2>1. /\ DOMAIN two = {1, 2}
          /\ two[1].event = "http_request_completed" /\ two[1].status = status /\ two[1].id = q
          /\ two[2].event = "unexpected_exception" /\ two[2].id = None
      BY <1>5 DEF Event
    <2>2. two \in Seq(Line)
      <3>1. \A x, y \in Line : <<x, y>> \in Seq(Line)
        OBVIOUS
      <3> QED BY <1>1, <1>5, <3>1 DEF Event, Line
    <2>3. OwnId!(q)'
      BY <1>1, <1>2, <1>5, <2>1
    <2>4. CompletedOnce!(q)'
      BY <1>1, <1>2, <1>5, <2>1
    <2>5. AccessType'
      BY <1>1, <1>5, <2>2 DEF Closed, AccessType, Reply
    <2> QED BY <1>2, <2>3, <2>4, <2>5
  <1> QED BY <1>3, <1>4, <1>5 DEF Closed

(* Nothing else of a request moves the lines and replies of the others. *)
Untouched(q) ==
    \A t \in Requests : t # q => /\ pc'[t] = pc[t] /\ context'[t] = context[t]
                                 /\ lines'[t] = lines[t] /\ reply'[t] = reply[t]

LEMMA OthersKept ==
    ASSUME NEW q \in Requests, Untouched(q), AccessInv, OwnId, CompletedOnce,
           AccessInv!(q)', OwnId!(q)', CompletedOnce!(q)'
    PROVE  AccessInv' /\ OwnId' /\ CompletedOnce'
  <1>1. ASSUME NEW t \in Requests, t # q PROVE AccessInv!(t)'
    BY <1>1 DEF Untouched, AccessInv, InService
  <1>2. ASSUME NEW t \in Requests, t # q PROVE OwnId!(t)'
    BY <1>2 DEF Untouched, OwnId
  <1>3. ASSUME NEW t \in Requests, t # q PROVE CompletedOnce!(t)'
    BY <1>3 DEF Untouched, CompletedOnce
  <1>4. AccessInv'
    BY <1>1 DEF AccessInv
  <1>5. OwnId'
    BY <1>2 DEF OwnId
  <1>6. CompletedOnce'
    BY <1>3 DEF CompletedOnce
  <1> QED BY <1>4, <1>5, <1>6

LEMMA ClosedIIInv ==
    ASSUME AccessType, AccessInv, OwnId, CompletedOnce, NEW q \in Requests,
           NEW two, NEW status, NEW id, Closed(q, two, status, id),
           \A t \in Requests : t # q => pc'[t] = pc[t], pc'[q] \in Answers
    PROVE  AccessType' /\ AccessInv' /\ OwnId' /\ CompletedOnce'
  <1>1. AccessType' /\ OwnId!(q)' /\ CompletedOnce!(q)'
    BY ClosedIsRight
  <1>2. context'[q] = None /\ Untouched(q)
    BY DEF AccessType, Closed, Untouched
  <1>3. AccessInv!(q)'
    BY <1>2 DEF InService, Answers
  <1> QED BY <1>1, <1>2, <1>3, OthersKept

LEMMA InitServed ==
    ServedInit => ServedIInv
  <1> SUFFICES ASSUME ServedInit PROVE ServedIInv
    OBVIOUS
  <1>1. IInv
    BY InitIInv DEF ServedInit
  <1>2. AccessType
    BY DEF ServedInit, AccessType
  <1>3. AccessInv
    BY DEF ServedInit, AccessInv, Init, InService
  <1>4. OwnId /\ CompletedOnce
    BY DEF ServedInit, OwnId, CompletedOnce
  <1> QED BY <1>1, <1>2, <1>3, <1>4 DEF ServedIInv

LEMMA NextServed ==
    ServedIInv /\ [ServedNext]_allVars => ServedIInv'
  <1> SUFFICES ASSUME ServedIInv, [ServedNext]_allVars PROVE ServedIInv'
    OBVIOUS
  <1>1. IInv'
    BY ServedStep, NextIInv DEF ServedIInv
  <1>2. TypeOK /\ AccessType /\ AccessInv /\ OwnId /\ CompletedOnce
    BY DEF ServedIInv, IInv
  <1> DEFINE Goal == AccessType' /\ AccessInv' /\ OwnId' /\ CompletedOnce'
  <1>3. ASSUME NEW q \in Requests, Enter(q) PROVE Goal
    <2>1. /\ pc[q] = "new" /\ pc'[q] \in {"session", "list"}
          /\ \A t \in Requests : t # q => pc'[t] = pc[t]
      BY <1>2, <1>3 DEF Enter, Arrive, TypeOK
    <2>2. context' = [context EXCEPT ![q] = q] /\ UNCHANGED <<lines, reply>>
      BY <1>3 DEF Enter, SetContext
    <2>3. AccessType' /\ Untouched(q) /\ context'[q] = q
      BY <1>2, <2>1, <2>2 DEF AccessType, Untouched
    <2>4. AccessInv!(q)'
      BY <1>2, <2>1, <2>2, <2>3 DEF AccessInv
    <2>5. OwnId!(q)' /\ CompletedOnce!(q)'
      BY <1>2, <2>2 DEF OwnId, CompletedOnce
    <2> QED BY <1>2, <2>3, <2>4, <2>5, OthersKept
  <1>4. ASSUME NEW q \in Requests, pc[q] \in {"session", "list", "write"}, UNCHANGED accessVars,
               \A t \in Requests : t # q => pc'[t] = pc[t],
               pc'[q] \in {"session", "list", "write", "resolved"}
        PROVE  Goal
    <2>1. UNCHANGED <<context, lines, reply>>
      BY <1>4 DEF accessVars
    <2>2. AccessType' /\ Untouched(q)
      BY <1>2, <1>4, <2>1 DEF AccessType, Untouched
    <2>3. AccessInv!(q)'
      BY <1>2, <1>4, <2>1 DEF AccessInv, InService
    <2>4. OwnId!(q)' /\ CompletedOnce!(q)'
      BY <1>2, <2>1 DEF OwnId, CompletedOnce
    <2> QED BY <1>2, <2>2, <2>3, <2>4, OthersKept
  <1>5. ASSUME NEW q \in Requests, Resolving(q) PROVE Goal
    <2>1. /\ pc[q] \in {"session", "list"} /\ pc'[q] \in {"list", "write"} /\ UNCHANGED accessVars
          /\ \A t \in Requests : t # q => pc'[t] = pc[t]
      BY <1>2, <1>5 DEF Resolving, FindSession, ListCandidates, Decide, TypeOK
    <2> QED BY <1>4, <2>1
  <1>6. ASSUME NEW q \in Requests, NEW status \in Statuses, InService(q), pc'[q] \in Answers,
               \A t \in Requests : t # q => pc'[t] = pc[t],
               \/ Handled(q, status)
               \/ Unexpected(q)
        PROVE  Goal
    <2>1. context[q] = q /\ lines[q] = <<>>
      BY <1>2, <1>6 DEF AccessInv, InService
    <2>2. PICK two, code, id : Closed(q, two, code, id)
      BY <1>2, <1>6, <2>1, AnswerCloses
    <2> QED BY <1>2, <1>6, <2>2, ClosedIIInv
  <1>7. ASSUME NEW q \in Requests, Resolved(q) PROVE Goal
    <2>1. /\ pc[q] = "write" /\ pc'[q] \in {"not_found", "resolved"}
          /\ \A t \in Requests : t # q => pc'[t] = pc[t]
      BY <1>2, <1>7 DEF Resolved, WriteRecord, TypeOK
    <2>2. CASE Handled(q, 404)
      <3>1. 404 \in Statuses /\ InService(q) /\ pc'[q] \in Answers
        BY <2>1 DEF Statuses, InService, Answers
      <3> QED BY <1>6, <2>1, <2>2, <3>1
    <2>3. CASE pc'[q] = "resolved" /\ UNCHANGED accessVars
      BY <1>4, <2>1, <2>3
    <2> QED BY <1>7, <2>2, <2>3 DEF Resolved
  <1>8. ASSUME NEW q \in Requests, Failed(q) PROVE Goal
    <2>1. /\ InService(q) /\ pc'[q] = "error"
          /\ \A t \in Requests : t # q => pc'[t] = pc[t]
      BY <1>2, <1>8 DEF Failed, DbError, Breaks, TypeOK
    <2>2. 500 \in Statuses /\ pc'[q] \in Answers
      BY <2>1 DEF Statuses, Answers
    <2>3. Handled(q, 500) \/ Unexpected(q)
      BY <1>8 DEF Failed
    <2> QED BY <1>6, <2>1, <2>2, <2>3
  <1>9. ASSUME NEW q \in Requests, Served(q) PROVE Goal
    <2>1. UNCHANGED pc /\ pc[q] = "resolved" /\ context[q] # None
      BY <1>9 DEF Served, Pending, vars
    <2>2. context[q] = q /\ lines[q] = <<>>
      BY <1>2, <2>1 DEF AccessInv
    <2>3. PICK status \in Statuses : Respond(q, status, <<>>) \/ Handled(q, status) \/ Unexpected(q)
      BY <1>9 DEF Served, Statuses
    <2>4. PICK two, code, id : Closed(q, two, code, id)
      BY <1>2, <2>2, <2>3, AnswerCloses
    <2>5. pc'[q] \in Answers /\ \A t \in Requests : t # q => pc'[t] = pc[t]
      BY <2>1 DEF Answers
    <2> QED BY <1>2, <2>4, <2>5, ClosedIIInv
  <1>10. ASSUME NEW q \in Requests, Dies(q) PROVE Goal
    <2>1. context' = [context EXCEPT ![q] = None] /\ UNCHANGED <<lines, reply>>
      BY <1>10 DEF Dies, SetContext
    <2>2. pc'[q] \in Answers /\ \A t \in Requests : t # q => pc'[t] = pc[t]
      <3>1. CASE Crash(q)
        BY <1>2, <3>1 DEF Crash, Breaks, TypeOK, Answers
      <3>2. CASE Pending(q) /\ UNCHANGED vars
        BY <3>2 DEF Pending, vars, Answers
      <3> QED BY <1>10, <3>1, <3>2 DEF Dies
    <2>3. AccessType' /\ Untouched(q) /\ context'[q] = None
      BY <1>2, <2>1, <2>2 DEF AccessType, Untouched
    <2>4. AccessInv!(q)'
      BY <2>2, <2>3 DEF InService, Answers
    <2>5. OwnId!(q)' /\ CompletedOnce!(q)'
      BY <1>2, <2>1 DEF OwnId, CompletedOnce
    <2> QED BY <1>2, <2>3, <2>4, <2>5, OthersKept
  <1>11. ASSUME UNCHANGED <<pc, context, lines, reply>> PROVE Goal
    BY <1>2, <1>11 DEF AccessType, AccessInv, OwnId, CompletedOnce, InService
  <1>12. Goal
    <2>1. ASSUME Clear \/ (\E i \in Ids : AdminWrite(i)), UNCHANGED accessVars PROVE Goal
      <3>1. UNCHANGED pc
        BY <2>1 DEF Clear, AdminWrite
      <3>2. UNCHANGED <<context, lines, reply>>
        BY <2>1 DEF accessVars
      <3> QED BY <1>11, <3>1, <3>2
    <2>2. ASSUME UNCHANGED allVars PROVE Goal
      BY <1>11, <2>2 DEF allVars, vars, accessVars
    <2> HIDE DEF Goal
    <2> QED BY <1>3, <1>5, <1>7, <1>8, <1>9, <1>10, <2>1, <2>2 DEF ServedNext
  <1> QED BY <1>1, <1>12 DEF ServedIInv

LEMMA InvariantOfServed ==
    ServedSpec => []ServedIInv
  <1> QED BY InitServed, NextServed, PTL DEF ServedSpec

(* Every variable of a served request keeps its type, and a request in service
   has no reply yet (logging_middleware.py:50-124). *)
THEOREM ServedTypeCorrect == ServedSpec => []ServedTypeOK
  <1>1. ServedIInv => ServedTypeOK
    BY IdsAssumption DEF ServedIInv, IInv, AccessType, AccessInv, ServedTypeOK, InService
  <1> QED BY <1>1, InvariantOfServed, PTL

(* However requests interleave, lines and replies carry their own id
   (logging_middleware.py:50-52, :94-123, filters.py:20-21). *)
THEOREM LinesCarryOwnId == ServedSpec => []OwnId
  <1> QED BY InvariantOfServed, PTL DEF ServedIInv

(* The completion of a request is logged once, with its reply's status
   (logging_middleware.py:90-123). *)
THEOREM CompletionLoggedOnce == ServedSpec => []CompletedOnce
  <1> QED BY InvariantOfServed, PTL DEF ServedIInv
=============================================================================
