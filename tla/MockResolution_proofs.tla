----------------------- MODULE MockResolution_proofs -----------------------
(***************************************************************************)
(* What rule matching and the choice between candidates compute, for every *)
(* collection of mocks and every request.                                  *)
(***************************************************************************)
EXTENDS MockResolution, FiniteSetTheorems, TLAPS

-----------------------------------------------------------------------------
(* Induction, stated for sets: a set of numbers has a least member.        *)

LEMMA LeastNumber ==
    ASSUME NEW S \in SUBSET Nat, S # {}
    PROVE  \E i \in S : \A j \in S : i <= j
  <1> DEFINE Smaller == {e \in Nat \X Nat : e[1] < e[2]}
  <1>1. IsWellFoundedOn(Smaller, Nat)
    BY NatLessThanWellFounded, SMT DEF OpToRel
  <1>2. \A i, j \in Nat : j < i => <<j, i>> \in Smaller
    OBVIOUS
  <1> HIDE DEF Smaller
  <1>3. PICK i \in S : \A j \in S : ~(<<j, i>> \in Smaller)
    BY <1>1, WFMin, Zenon
  <1>4. ASSUME NEW j \in S PROVE i <= j
    <2>1. ~(j < i)
      BY <1>2, <1>3
    <2> QED BY <2>1
  <1> QED BY <1>4

LEMMA Induction ==
    ASSUME NEW S, 0 \in S, \A n \in Nat : n \in S => n + 1 \in S
    PROVE  \A n \in Nat : n \in S
  <1> SUFFICES ASSUME Nat \ S # {} PROVE FALSE
    OBVIOUS
  <1>1. PICK i \in Nat \ S : \A j \in Nat \ S : i <= j
    BY LeastNumber
  <1>2. i # 0 /\ i - 1 \in Nat /\ i - 1 \in S
    BY <1>1
  <1> QED BY <1>1, <1>2

-----------------------------------------------------------------------------
(* The order of ranks.                                                     *)

LEMMA LessIsOrder ==
    ASSUME NEW k \in Nat, NEW s \in [1..k -> Nat], NEW t \in [1..k -> Nat]
    PROVE  /\ ~Less(s, s)
           /\ Less(s, t) => ~Less(t, s)
           /\ s # t => Less(s, t) \/ Less(t, s)
           /\ \A u \in [1..k -> Nat] : Less(s, t) /\ Less(t, u) => Less(s, u)
  <1>2. ASSUME NEW u \in [1..k -> Nat], Less(s, t), Less(t, u) PROVE Less(s, u)
    <2>1. PICK m \in 1..k : s[m] < t[m] /\ \A l \in 1..m - 1 : s[l] = t[l]
      BY <1>2 DEF Less
    <2>2. PICK n \in 1..k : t[n] < u[n] /\ \A l \in 1..n - 1 : t[l] = u[l]
      BY <1>2 DEF Less
    <2> PICK d : d = IF m <= n THEN m ELSE n
      OBVIOUS
    <2>3. d \in 1..k /\ d <= m /\ d <= n /\ (d = m \/ d = n)
      OBVIOUS
    <2>4. s[d] \in Nat /\ t[d] \in Nat /\ u[d] \in Nat
      BY <2>3
    <2>5. s[d] < u[d]
      <3>1. m = d \/ d \in 1..m - 1
        BY <2>3
      <3>2. n = d \/ d \in 1..n - 1
        BY <2>3
      <3>3. s[d] < t[d] \/ (d # m /\ s[d] = t[d])
        BY <2>1, <3>1
      <3>4. t[d] < u[d] \/ (d # n /\ t[d] = u[d])
        BY <2>2, <3>2
      <3> QED BY <2>3, <2>4, <3>3, <3>4
    <2>6. ASSUME NEW l \in 1..d - 1 PROVE s[l] = u[l]
      <3>1. l \in 1..m - 1 /\ l \in 1..n - 1
        BY <2>3
      <3> QED BY <2>1, <2>2, <3>1
    <2>7. DOMAIN s = 1..k
      OBVIOUS
    <2> QED BY <2>3, <2>5, <2>6, <2>7 DEF Less
  <1>3. ~Less(s, s)
    <2>1. \A n \in DOMAIN s : ~(s[n] < s[n])
      OBVIOUS
    <2> QED BY <2>1 DEF Less
  <1>4. Less(s, t) => ~Less(t, s)
    BY <1>2, <1>3
  <1>5. ASSUME s # t PROVE Less(s, t) \/ Less(t, s)
    <2> DEFINE D == {n \in 1..k : s[n] # t[n]}
    <2>1. D \in SUBSET Nat /\ D # {}
      <3>1. s = [n \in 1..k |-> s[n]] /\ t = [n \in 1..k |-> t[n]]
        OBVIOUS
      <3>2. \E n \in 1..k : s[n] # t[n]
        BY <1>5, <3>1
      <3>3. D \in SUBSET Nat
        OBVIOUS
      <3>4. D # {}
        BY <3>2
      <3> QED BY <3>3, <3>4
    <2>2. PICK n \in D : \A m \in D : n <= m
      BY <2>1, LeastNumber
    <2>3. n \in 1..k /\ s[n] # t[n] /\ s[n] \in Nat /\ t[n] \in Nat
      OBVIOUS
    <2>4. ASSUME NEW m \in 1..n - 1 PROVE s[m] = t[m]
      <3>1. m \in 1..k /\ ~(n <= m)
        BY <2>3
      <3> QED BY <2>2, <3>1
    <2>5. s[n] < t[n] \/ t[n] < s[n]
      BY <2>3
    <2>6. DOMAIN s = 1..k /\ DOMAIN t = 1..k
      OBVIOUS
    <2> QED BY <2>3, <2>4, <2>5, <2>6 DEF Less
  <1> QED BY <1>2, <1>3, <1>4, <1>5
-----------------------------------------------------------------------------
(* Folds.  One over the members of a finite set takes them in the order in *)
(* which `pick` chooses from what is left.                                 *)

FoldOf(h, s, base, pick, step) ==
    IF s = {} THEN base ELSE step[pick[s]][h[s \ {pick[s]}]]

IsFold(h, D, V, base, pick, step) ==
    h \in [SUBSET D -> V] /\ \A s \in SUBSET D : h[s] = FoldOf(h, s, base, pick, step)

Picks(pick, D) == \A s \in SUBSET D : s # {} => pick[s] \in s

LEMMA FoldExists ==
    ASSUME NEW D, IsFiniteSet(D), NEW V, NEW base \in V,
           NEW pick, Picks(pick, D),
           NEW step \in [D -> [V -> V]]
    PROVE  \E h : IsFold(h, D, V, base, pick, step)
  <1> DEFINE F(h, s) == FoldOf(h, s, base, pick, step)
             Small(n) == {s \in SUBSET D : Cardinality(s) <= n}
             Good(h, n) == \A s \in Small(n) : h[s] = F(h, s)
             G == {n \in Nat : \E h \in [SUBSET D -> V] : Good(h, n)}
  <1>1. ASSUME NEW s \in SUBSET D
        PROVE  /\ Cardinality(s) \in Nat
               /\ Cardinality(s) <= Cardinality(D)
               /\ Cardinality(s) = 0 => s = {}
               /\ s # {} => /\ s \ {pick[s]} \in SUBSET D
                            /\ Cardinality(s \ {pick[s]}) = Cardinality(s) - 1
    <2>1. IsFiniteSet(s) /\ Cardinality(s) <= Cardinality(D)
      BY FS_Subset
    <2>2. Cardinality(s) \in Nat /\ (Cardinality(s) = 0 => s = {})
      BY <2>1, FS_CardinalityType, FS_EmptySet
    <2>3. s # {} => Cardinality(s \ {pick[s]}) = Cardinality(s) - 1
      BY <2>1, FS_RemoveElement DEF Picks
    <2> QED BY <2>1, <2>2, <2>3
  <1>2. ASSUME NEW h \in [SUBSET D -> V], NEW s \in SUBSET D PROVE F(h, s) \in V
    BY <1>1 DEF FoldOf, Picks
  <1>3. 0 \in G
    <2> PICK h : h = [s \in SUBSET D |-> base]
      OBVIOUS
    <2>1. h \in [SUBSET D -> V]
      OBVIOUS
    <2>2. ASSUME NEW s \in SUBSET D, Cardinality(s) <= 0 PROVE s = {}
      <3>1. Cardinality(s) \in Nat
        BY <1>1
      <3>2. Cardinality(s) = 0
        BY <2>2, <3>1
      <3> QED BY <1>1, <3>2
    <2>3. \A s \in Small(0) : h[s] = F(h, s)
      BY <2>2 DEF FoldOf
    <2> QED BY <2>1, <2>3
  <1>4. ASSUME NEW n \in Nat, n \in G PROVE n + 1 \in G
    <2>1. PICK h \in [SUBSET D -> V] : \A s \in Small(n) : h[s] = F(h, s)
      BY <1>4
    <2> PICK g : g = [s \in SUBSET D |-> F(h, s)]
      OBVIOUS
    <2>2. g \in [SUBSET D -> V]
      BY <1>2
    <2>3. \A s \in Small(n) : g[s] = h[s]
      BY <2>1
    <2>4. ASSUME NEW s \in Small(n + 1) PROVE g[s] = F(g, s)
      <3>1. g[s] = F(h, s)
        OBVIOUS
      <3>2. CASE s = {}
        BY <3>1, <3>2 DEF FoldOf
      <3>3. CASE s # {}
        <4>1. s \ {pick[s]} \in Small(n)
          BY <1>1, <3>3
        <4> QED BY <2>3, <3>1, <3>3, <4>1 DEF FoldOf
      <3> QED BY <3>2, <3>3
    <2>5. Good(g, n + 1)
      BY <2>4
    <2> HIDE DEF Good
    <2> QED BY <2>2, <2>5
  <1>5. Cardinality(D) \in G
    <2>1. Cardinality(D) \in Nat
      BY <1>1
    <2> HIDE DEF G
    <2> QED BY <1>3, <1>4, <2>1, Induction
  <1>6. PICK h \in [SUBSET D -> V] : \A s \in Small(Cardinality(D)) : h[s] = F(h, s)
    BY <1>5
  <1>7. \A s \in SUBSET D : h[s] = F(h, s)
    BY <1>1, <1>6
  <1>8. IsFold(h, D, V, base, pick, step)
    BY <1>7 DEF IsFold
  <1> QED BY <1>8

(* FoldLeft picks the last position of what is left, and so goes through a
   list from its front. *)
LEMMA MaxIsLast ==
    ASSUME NEW n \in Nat
    PROVE  /\ \A s \in SUBSET (1..n) : s # {} => Max(s) \in s
           /\ \A k \in 1..n : Max(1..k) = k /\ (1..k) \ {k} = 1..k - 1
  <1>1. ASSUME NEW s \in SUBSET (1..n), s # {} PROVE Max(s) \in s
    <2> DEFINE D == {d \in 0..n : n - d \in s}
    <2>1. PICK x \in s : TRUE
      BY <1>1
    <2>2. D \in SUBSET Nat /\ n - x \in D
      OBVIOUS
    <2>3. PICK d \in D : \A e \in D : d <= e
      BY <2>2, LeastNumber
    <2>4. ASSUME NEW y \in s PROVE n - d >= y
      <3>1. n - y \in D
        OBVIOUS
      <3> QED BY <2>3, <3>1
    <2>5. \E m \in s : \A y \in s : m >= y
      BY <2>4
    <2> QED BY <2>5 DEF Max
  <1>2. ASSUME NEW k \in 1..n PROVE Max(1..k) = k /\ (1..k) \ {k} = 1..k - 1
    <2>1. 1..k \in SUBSET (1..n) /\ k \in 1..k
      OBVIOUS
    <2>2. \A x \in 1..k : (\A y \in 1..k : x >= y) <=> x = k
      OBVIOUS
    <2> QED BY <2>1, <2>2 DEF Max
  <1> QED BY <1>1, <1>2

(* The best of a list, one candidate after the other. *)
Better(db, c, best, i) ==
    IF best = NoDoc THEN i
    ELSE IF Less(Rank(db, c, best), Rank(db, c, i)) THEN i ELSE best

BestSteps(f, db, c, n, list) ==
    /\ BestOf(db, c, list) = f[n]
    /\ f[0] = NoDoc
    /\ \A k \in 1..n : f[k] = Better(db, c, f[k - 1], list[k])

LEMMA BestOfSteps ==
    ASSUME NEW db, NEW c, NEW n \in Nat, NEW A, NEW list \in [1..n -> A]
    PROVE  \E f : BestSteps(f, db, c, n, list)
  <1> DEFINE D == 1..n
             Iter(h) == [s \in SUBSET D |->
                           IF s = {} THEN NoDoc
                           ELSE Better(db, c, h[s \ {Max(s)}], list[Max(s)])]
  <1>1. BestOf(db, c, list) = (CHOOSE h : h = Iter(h))[D]
    <2>1. DOMAIN list = D
      OBVIOUS
    <2> QED BY <2>1 DEF BestOf, FoldLeft, MapThenFoldSet, Better
  <1>2. \E h : h = Iter(h)
    <2> PICK V, pick, step : /\ V = A \cup {NoDoc}
                             /\ pick = [s \in SUBSET D |-> Max(s)]
                             /\ step = [x \in D |-> [v \in V |-> Better(db, c, v, list[x])]]
      OBVIOUS
    <2>1. IsFiniteSet(D) /\ NoDoc \in V /\ step \in [D -> [V -> V]]
      BY FS_Interval DEF Better
    <2>2. Picks(pick, D)
      BY MaxIsLast DEF Picks
    <2>3. PICK h : IsFold(h, D, V, NoDoc, pick, step)
      BY <2>1, <2>2, FoldExists
    <2>4. \A s \in SUBSET D : h[s] = Iter(h)[s]
      BY <2>2, <2>3 DEF FoldOf, IsFold, Picks
    <2> QED BY <2>3, <2>4 DEF IsFold
  <1>3. PICK h : h = Iter(h) /\ BestOf(db, c, list) = h[D]
    BY <1>1, <1>2
  <1> PICK f : f = [k \in 0..n |-> h[1..k]]
    OBVIOUS
  <1>4. f[0] = NoDoc /\ f[n] = h[D]
    <2>1. 1..0 = {} /\ h[{}] = NoDoc
      BY <1>3
    <2> QED BY <2>1
  <1>5. ASSUME NEW k \in 1..n PROVE f[k] = Better(db, c, f[k - 1], list[k])
    <2>1. 1..k \in SUBSET D /\ 1..k # {} /\ Max(1..k) = k /\ (1..k) \ {k} = 1..k - 1
      BY MaxIsLast
    <2>2. h[1..k] = Better(db, c, h[1..k - 1], list[k])
      BY <1>3, <2>1
    <2> QED BY <2>2
  <1>6. BestSteps(f, db, c, n, list)
    BY <1>3, <1>4, <1>5 DEF BestSteps
  <1> QED BY <1>6

(* Where ranks are rows of numbers that end in the id, there is one greatest
   candidate, and in whatever order they come BestOf finds it. *)
Ranked(db, c, A) ==
    \A i \in A : Rank(db, c, i) \in [1..7 -> Nat] /\ Rank(db, c, i)[7] = i

Greatest(db, c, A, i) ==
    i \in A /\ \A j \in A \ {i} : Less(Rank(db, c, j), Rank(db, c, i))

LEMMA RanksAreOrdered ==
    ASSUME NEW db, NEW c, NEW A, Ranked(db, c, A), NEW i \in A, NEW j \in A
    PROVE  /\ i # j => Less(Rank(db, c, i), Rank(db, c, j)) \/ Less(Rank(db, c, j), Rank(db, c, i))
           /\ Less(Rank(db, c, i), Rank(db, c, j)) => ~Less(Rank(db, c, j), Rank(db, c, i))
           /\ \A l \in A : Less(Rank(db, c, i), Rank(db, c, j)) /\ Less(Rank(db, c, j), Rank(db, c, l))
                           => Less(Rank(db, c, i), Rank(db, c, l))
  <1>1. /\ Rank(db, c, i) \in [1..7 -> Nat] /\ Rank(db, c, j) \in [1..7 -> Nat]
        /\ i # j => Rank(db, c, i) # Rank(db, c, j)
        /\ \A l \in A : Rank(db, c, l) \in [1..7 -> Nat]
    BY DEF Ranked
  <1> QED BY <1>1, LessIsOrder

LEMMA BestIsGreatest ==
    ASSUME NEW db, NEW c, NEW A, Ranked(db, c, A), NoDoc \notin A,
           NEW n \in Nat, NEW list \in [1..n -> A], \A i \in A : \E k \in 1..n : list[k] = i
    PROVE  IF A = {} THEN BestOf(db, c, list) = NoDoc
           ELSE Greatest(db, c, A, BestOf(db, c, list))
  <1>0. PICK f : BestSteps(f, db, c, n, list)
    BY BestOfSteps
  <1>1. /\ BestOf(db, c, list) = f[n] /\ f[0] = NoDoc
        /\ \A k \in 1..n : f[k] = Better(db, c, f[k - 1], list[k])
    BY <1>0 DEF BestSteps
  <1> DEFINE R(i) == Rank(db, c, i)
             Leads(k) == /\ f[k] \in A
                         /\ \A m \in 1..k : list[m] = f[k] \/ Less(R(list[m]), R(f[k]))
             G == {k \in Nat : k \in 1..n => Leads(k)}
  <1>2. ASSUME NEW k \in Nat, k \in G PROVE k + 1 \in G
    <2> SUFFICES ASSUME k + 1 \in 1..n PROVE Leads(k + 1)
      OBVIOUS
    <2>1. f[k + 1] = Better(db, c, f[k], list[k + 1]) /\ list[k + 1] \in A
      BY <1>1
    <2>2. CASE k = 0
      <3>1. f[k + 1] = list[k + 1]
        BY <1>1, <2>1, <2>2 DEF Better
      <3> QED BY <2>1, <2>2, <3>1
    <2>3. CASE k # 0
      <3>1. Leads(k) /\ f[k] # NoDoc
        BY <1>2, <2>3
      <3>2. \A m \in 1..k : list[m] \in A
        OBVIOUS
      <3>3. CASE Less(R(f[k]), R(list[k + 1]))
        <4>1. f[k + 1] = list[k + 1]
          BY <2>1, <3>1, <3>3 DEF Better
        <4>2. ASSUME NEW m \in 1..k PROVE Less(R(list[m]), R(f[k + 1]))
          BY <2>1, <3>1, <3>2, <3>3, <4>1, RanksAreOrdered
        <4>3. \A m \in 1..k + 1 : m \in 1..k \/ m = k + 1
          OBVIOUS
        <4> QED BY <2>1, <4>1, <4>2, <4>3
      <3>4. CASE ~Less(R(f[k]), R(list[k + 1]))
        <4>1. f[k + 1] = f[k]
          BY <2>1, <3>1, <3>4 DEF Better
        <4>2. list[k + 1] = f[k] \/ Less(R(list[k + 1]), R(f[k]))
          BY <2>1, <3>1, <3>4, RanksAreOrdered
        <4>3. \A m \in 1..k + 1 : m \in 1..k \/ m = k + 1
          OBVIOUS
        <4> QED BY <3>1, <4>1, <4>2, <4>3
      <3> QED BY <3>3, <3>4
    <2> QED BY <2>2, <2>3
  <1>3. n \in G
    <2>1. 0 \in G
      OBVIOUS
    <2> HIDE DEF G
    <2> QED BY <1>2, <2>1, Induction
  <1>4. CASE A = {}
    <2>1. n = 0
      <3>1. n # 0 => list[1] \in A
        OBVIOUS
      <3> QED BY <1>4, <3>1
    <2> QED BY <1>1, <1>4, <2>1
  <1>5. CASE A # {}
    <2>1. n \in 1..n
      BY <1>5
    <2>2. Leads(n)
      BY <1>3, <2>1
    <2>3. ASSUME NEW j \in A \ {f[n]} PROVE Less(R(j), R(f[n]))
      <3>1. PICK k \in 1..n : list[k] = j
        OBVIOUS
      <3> QED BY <2>2, <3>1
    <2> QED BY <1>1, <1>5, <2>2, <2>3 DEF Greatest
  <1> QED BY <1>4, <1>5

(* The order in which SetToSeq lists a finite set: each member is there. *)
LEMMA ListsAll ==
    ASSUME NEW A, IsFiniteSet(A)
    PROVE  /\ Cardinality(A) \in Nat
           /\ SetToSeq(A) \in [1..Cardinality(A) -> A]
           /\ \A i \in A : \E k \in 1..Cardinality(A) : SetToSeq(A)[k] = i
  <1> PICK n : n = Cardinality(A)
    OBVIOUS
  <1>1. n \in Nat /\ ExistsBijection(1..n, A) /\ IsFiniteSet(1..n) /\ Cardinality(1..n) = n
    BY FS_CardinalityType, FS_Interval
  <1>2. \E f \in [1..n -> A] : IsInjective(f)
    BY <1>1 DEF ExistsBijection, Bijection, Injection, IsInjective
  <1>3. SetToSeq(A) \in [1..n -> A] /\ IsInjective(SetToSeq(A))
    BY <1>2 DEF SetToSeq
  <1>4. SetToSeq(A) \in Injection(1..n, A)
    BY <1>3 DEF Injection
  <1>5. SetToSeq(A) \in Surjection(1..n, A)
    BY <1>1, <1>4, FS_Injection
  <1> QED BY <1>1, <1>3, <1>5 DEF Surjection

(* A request's candidates, and the one that answers it. *)
LEMMA ResolvesGreatest ==
    ASSUME NEW db, NEW c, IsFiniteSet(Matching(db, c)), Ranked(db, c, Matching(db, c)),
           NoDoc \notin Matching(db, c)
    PROVE  IF Matching(db, c) = {} THEN ResolveBest(db, c) = NoDoc
           ELSE Greatest(db, c, Matching(db, c), ResolveBest(db, c))
  <1> PICK A, n, list : A = Matching(db, c) /\ n = Cardinality(A) /\ list = SetToSeq(A)
    OBVIOUS
  <1>1. n \in Nat /\ list \in [1..n -> A] /\ \A i \in A : \E k \in 1..n : list[k] = i
    BY ListsAll
  <1>2. IF A = {} THEN BestOf(db, c, list) = NoDoc ELSE Greatest(db, c, A, BestOf(db, c, list))
    BY <1>1, BestIsGreatest
  <1> QED BY <1>2 DEF ResolveBest

-----------------------------------------------------------------------------
(* The rules of a mock: they match when all of them hold, whatever their   *)
(* order, and their scores add up.                                         *)

After(c, res, r) ==
    IF res.matched /\ Holds(c, r) THEN [res EXCEPT !.score = @ + Score(r)]
    ELSE [matched |-> FALSE, score |-> 0]

Start == [matched |-> TRUE, score |-> 0]

MatchSteps(f, c, n, rules) ==
    /\ MatchRules(c, rules) = f[n]
    /\ f[0] = Start
    /\ \A k \in 1..n : f[k] = After(c, f[k - 1], rules[k])

LEMMA MatchRulesSteps ==
    ASSUME NEW c, NEW n \in Nat, NEW S, \A r \in S : Score(r) \in Nat, NEW rules \in [1..n -> S]
    PROVE  \E f : MatchSteps(f, c, n, rules)
  <1> DEFINE D == 1..n
             Iter(h) == [s \in SUBSET D |->
                           IF s = {} THEN Start ELSE After(c, h[s \ {Max(s)}], rules[Max(s)])]
  <1>1. MatchRules(c, rules) = (CHOOSE h : h = Iter(h))[D]
    <2>1. DOMAIN rules = D
      OBVIOUS
    <2> QED BY <2>1 DEF MatchRules, FoldLeft, MapThenFoldSet, After, Start
  <1>2. \E h : h = Iter(h)
    <2> PICK V, pick, step : /\ V = [matched : BOOLEAN, score : Nat]
                             /\ pick = [s \in SUBSET D |-> Max(s)]
                             /\ step = [x \in D |-> [v \in V |-> After(c, v, rules[x])]]
      OBVIOUS
    <2>1. ASSUME NEW x \in D, NEW v \in V PROVE After(c, v, rules[x]) \in V
      BY DEF After
    <2>2. IsFiniteSet(D) /\ Start \in V /\ step \in [D -> [V -> V]]
      <3>1. IsFiniteSet(D)
        BY FS_Interval
      <3>2. Start \in V
        BY DEF Start
      <3> HIDE DEF D
      <3>3. step \in [D -> [V -> V]]
        BY <2>1
      <3> QED BY <3>1, <3>2, <3>3
    <2>3. Picks(pick, D)
      BY MaxIsLast DEF Picks
    <2>4. PICK h : IsFold(h, D, V, Start, pick, step)
      BY <2>2, <2>3, FoldExists
    <2>5. \A s \in SUBSET D : h[s] = Iter(h)[s]
      BY <2>3, <2>4 DEF FoldOf, IsFold, Picks
    <2> QED BY <2>4, <2>5 DEF IsFold
  <1>3. PICK h : h = Iter(h) /\ MatchRules(c, rules) = h[D]
    BY <1>1, <1>2
  <1> PICK f : f = [k \in 0..n |-> h[1..k]]
    OBVIOUS
  <1>4. f[0] = Start /\ f[n] = h[D]
    <2>1. 1..0 = {} /\ h[{}] = Start
      BY <1>3
    <2> QED BY <2>1
  <1>5. ASSUME NEW k \in 1..n PROVE f[k] = After(c, f[k - 1], rules[k])
    <2>1. 1..k \in SUBSET D /\ 1..k # {} /\ Max(1..k) = k /\ (1..k) \ {k} = 1..k - 1
      BY MaxIsLast
    <2>2. h[1..k] = After(c, h[1..k - 1], rules[k])
      BY <1>3, <2>1
    <2> QED BY <2>2
  <1>6. MatchSteps(f, c, n, rules)
    BY <1>3, <1>4, <1>5 DEF MatchSteps
  <1> QED BY <1>6

(* A sum over a set does not depend on the order of its members. *)
Adds(h, w, s) == h[s] \in Nat /\ \A y \in s : h[s] = w[y] + h[s \ {y}]

LEMMA PartsOfFinite ==
    ASSUME NEW D, IsFiniteSet(D), NEW s \in SUBSET D
    PROVE  /\ Cardinality(s) \in Nat
           /\ Cardinality(s) = 0 => s = {}
           /\ \A x \in s : Cardinality(s \ {x}) = Cardinality(s) - 1
  <1>1. IsFiniteSet(s)
    BY FS_Subset
  <1> QED BY <1>1, FS_CardinalityType, FS_EmptySet, FS_RemoveElement

LEMMA SumAdds ==
    ASSUME NEW D, IsFiniteSet(D), NEW w \in [D -> Nat], NEW h, h[{}] = 0,
           \A s \in SUBSET D : s # {} => \E x \in s : h[s] = w[x] + h[s \ {x}]
    PROVE  \A s \in SUBSET D : Adds(h, w, s)
  <1> DEFINE G == {m \in Nat : \A s \in SUBSET D : Cardinality(s) <= m => Adds(h, w, s)}
  <1>1. Adds(h, w, {})
    BY DEF Adds
  <1>2. 0 \in G
    <2>1. ASSUME NEW s \in SUBSET D, Cardinality(s) <= 0 PROVE s = {}
      <3>1. Cardinality(s) \in Nat
        BY PartsOfFinite
      <3>2. Cardinality(s) = 0
        BY <2>1, <3>1
      <3> QED BY <3>2, PartsOfFinite
    <2> QED BY <1>1, <2>1
  <1>3. ASSUME NEW m \in Nat, m \in G PROVE m + 1 \in G
    <2>0. \A s \in SUBSET D : Cardinality(s) <= m => Adds(h, w, s)
      BY <1>3
    <2> SUFFICES ASSUME NEW s \in SUBSET D, Cardinality(s) = m + 1 PROVE Adds(h, w, s)
      <3>1. \A s \in SUBSET D : Cardinality(s) <= m + 1 => Cardinality(s) <= m \/ Cardinality(s) = m + 1
        BY PartsOfFinite
      <3> QED BY <2>0, <3>1
    <2> HIDE DEF G
    <2>1. s # {}
      <3>1. m + 1 # 0
        OBVIOUS
      <3>2. Cardinality({}) = 0
        BY FS_EmptySet
      <3> QED BY <3>1, <3>2
    <2>2. PICK x \in s : h[s] = w[x] + h[s \ {x}]
      BY <2>1
    <2>3. ASSUME NEW y \in s
          PROVE  s \ {y} \in SUBSET D /\ Adds(h, w, s \ {y}) /\ w[y] \in Nat
      <3>1. Cardinality(s \ {y}) = m
        BY PartsOfFinite
      <3> QED BY <2>0, <3>1
    <2>4. h[s \ {x}] \in Nat /\ w[x] \in Nat
      BY <2>3 DEF Adds
    <2>5. ASSUME NEW y \in s PROVE h[s] = w[y] + h[s \ {y}]
      <3>1. CASE y = x
        BY <2>2, <3>1
      <3>2. CASE y # x
        <4> PICK u : u = s \ {x, y}
          OBVIOUS
        <4>1. (s \ {x}) \ {y} = u /\ (s \ {y}) \ {x} = u /\ x \in s \ {y} /\ y \in s \ {x}
          BY <3>2
        <4>2. h[s \ {x}] = w[y] + h[u] /\ h[s \ {y}] = w[x] + h[u]
          <5>1. Adds(h, w, s \ {x}) /\ Adds(h, w, s \ {y})
            BY <2>3
          <5>2. h[s \ {x}] = w[y] + h[(s \ {x}) \ {y}] /\ h[s \ {y}] = w[x] + h[(s \ {y}) \ {x}]
            BY <4>1, <5>1 DEF Adds
          <5> QED BY <4>1, <5>2
        <4>3. h[u] \in Nat
          <5>1. Cardinality(s \ {x}) = m /\ Cardinality((s \ {x}) \ {y}) = m - 1
            BY <4>1, PartsOfFinite
          <5>2. Cardinality(u) <= m
            <6>1. m - 1 <= m
              OBVIOUS
            <6> QED BY <4>1, <5>1, <6>1
          <5>3. u \in SUBSET D
            OBVIOUS
          <5> QED BY <2>0, <5>2, <5>3 DEF Adds
        <4>4. w[x] \in Nat /\ w[y] \in Nat
          OBVIOUS
        <4> QED BY <2>2, <4>2, <4>3, <4>4
      <3> QED BY <3>1, <3>2
    <2>6. h[s] \in Nat
      BY <2>2, <2>4
    <2> QED BY <2>5, <2>6 DEF Adds
  <1>4. ASSUME NEW s \in SUBSET D PROVE Adds(h, w, s)
    <2>1. Cardinality(s) \in Nat
      BY PartsOfFinite
    <2> HIDE DEF G
    <2>2. Cardinality(s) \in G
      BY <1>2, <1>3, <2>1, Induction
    <2> QED BY <2>2 DEF G
  <1> QED BY <1>4

SumOf(rules) == MapThenSumSet(LAMBDA n : Score(rules[n]), DOMAIN rules)

SumSteps(g, n, rules) ==
    /\ SumOf(rules) = g[n]
    /\ g[0] = 0
    /\ \A k \in 1..n : g[k] \in Nat /\ g[k] = g[k - 1] + Score(rules[k])

LEMMA SumOfSteps ==
    ASSUME NEW n \in Nat, NEW S, \A r \in S : Score(r) \in Nat, NEW rules \in [1..n -> S]
    PROVE  \E g : SumSteps(g, n, rules)
  <1> DEFINE D == 1..n
             AnyOf(s) == CHOOSE x \in s : TRUE
             Iter(h) == [s \in SUBSET D |->
                           IF s = {} THEN 0 ELSE Score(rules[AnyOf(s)]) + h[s \ {AnyOf(s)}]]
  <1>1. SumOf(rules) = (CHOOSE h : h = Iter(h))[D]
    <2>1. DOMAIN rules = D
      OBVIOUS
    <2> QED BY <2>1 DEF SumOf, MapThenSumSet, MapThenFoldSet
  <1> PICK w : w = [x \in D |-> Score(rules[x])]
    OBVIOUS
  <1>2. w \in [D -> Nat] /\ \A x \in D : w[x] = Score(rules[x])
    OBVIOUS
  <1>3. ASSUME NEW s \in SUBSET D, s # {} PROVE AnyOf(s) \in s
    BY <1>3
  <1>4. IsFiniteSet(D)
    BY FS_Interval
  <1>5. \E h : h = Iter(h)
    <2> PICK pick, step : /\ pick = [s \in SUBSET D |-> AnyOf(s)]
                          /\ step = [x \in D |-> [v \in Nat |-> w[x] + v]]
      OBVIOUS
    <2>1. step \in [D -> [Nat -> Nat]]
      BY <1>2
    <2>2. Picks(pick, D)
      BY <1>3 DEF Picks
    <2>3. PICK h : IsFold(h, D, Nat, 0, pick, step)
      BY <1>4, <2>1, <2>2, FoldExists
    <2>4. \A s \in SUBSET D : h[s] = Iter(h)[s]
      BY <1>2, <2>2, <2>3 DEF FoldOf, IsFold, Picks
    <2> QED BY <2>3, <2>4 DEF IsFold
  <1>6. PICK h : h = Iter(h) /\ SumOf(rules) = h[D]
    BY <1>1, <1>5
  <1>7. \A s \in SUBSET D : Adds(h, w, s)
    <2>1. h[{}] = 0
      BY <1>6
    <2>2. ASSUME NEW s \in SUBSET D, s # {} PROVE \E x \in s : h[s] = w[x] + h[s \ {x}]
      <3>1. h[s] = Score(rules[AnyOf(s)]) + h[s \ {AnyOf(s)}]
        BY <1>6, <2>2
      <3> QED BY <1>2, <1>3, <2>2, <3>1
    <2> HIDE DEF D
    <2> QED BY <1>2, <1>4, <2>1, <2>2, SumAdds
  <1> PICK g : g = [k \in 0..n |-> h[1..k]]
    OBVIOUS
  <1>8. g[0] = 0 /\ g[n] = h[D]
    <2>1. 1..0 = {} /\ h[{}] = 0
      BY <1>6
    <2> QED BY <2>1
  <1>9. ASSUME NEW k \in 1..n PROVE g[k] \in Nat /\ g[k] = g[k - 1] + Score(rules[k])
    <2>1. 1..k \in SUBSET D /\ k \in 1..k /\ (1..k) \ {k} = 1..k - 1 /\ 1..k - 1 \in SUBSET D
      OBVIOUS
    <2>2. h[1..k] \in Nat /\ h[1..k] = w[k] + h[1..k - 1] /\ h[1..k - 1] \in Nat
      BY <1>7, <2>1 DEF Adds
    <2>3. g[k] = h[1..k] /\ g[k - 1] = h[1..k - 1] /\ w[k] \in Nat /\ w[k] = Score(rules[k])
      BY <1>2
    <2> QED BY <2>2, <2>3
  <1>10. SumSteps(g, n, rules)
    <2> HIDE DEF Iter
    <2>1. SumOf(rules) = g[n]
      BY <1>6, <1>8
    <2> QED BY <1>8, <1>9, <2>1 DEF SumSteps
  <1> QED BY <1>10

(* A mock matches exactly when all of its rules hold, however many it has and
   in whatever order; its score is then the sum of theirs
   (rule_matcher_service.py:51-100). *)
THEOREM MatchesWhenAllHold ==
    ASSUME NEW c, NEW n \in Nat, NEW S, \A r \in S : Score(r) \in Nat, NEW rules \in [1..n -> S]
    PROVE  /\ MatchRules(c, rules).matched \in BOOLEAN
           /\ MatchRules(c, rules).matched <=> \A k \in 1..n : Holds(c, rules[k])
           /\ MatchRules(c, rules).matched => MatchRules(c, rules).score = SumOf(rules)
           /\ SumOf(rules) \in Nat
  <1>1. PICK f : MatchSteps(f, c, n, rules)
    BY MatchRulesSteps
  <1>2. PICK g : SumSteps(g, n, rules)
    BY SumOfSteps
  <1>3. /\ MatchRules(c, rules) = f[n] /\ f[0] = Start
        /\ \A k \in 1..n : f[k] = After(c, f[k - 1], rules[k])
    BY <1>1 DEF MatchSteps
  <1>4. /\ SumOf(rules) = g[n] /\ g[0] = 0
        /\ \A k \in 1..n : g[k] \in Nat /\ g[k] = g[k - 1] + Score(rules[k])
    BY <1>2 DEF SumSteps
  <1> DEFINE All(k) == \A m \in 1..k : Holds(c, rules[m])
             V == [matched : BOOLEAN, score : Nat]
             Good(k) == f[k] \in V /\ (f[k].matched <=> All(k)) /\ (All(k) => f[k].score = g[k])
             G == {k \in Nat : k <= n => Good(k)}
  <1>5. 0 \in G
    <2>1. All(0)
      OBVIOUS
    <2> HIDE DEF All
    <2>2. Good(0)
      BY <1>3, <1>4, <2>1 DEF Start
    <2> QED BY <2>2
  <1>6. ASSUME NEW k \in Nat, k \in G PROVE k + 1 \in G
    <2> SUFFICES ASSUME k + 1 <= n PROVE Good(k + 1)
      OBVIOUS
    <2>1. k + 1 \in 1..n /\ k + 1 - 1 = k
      OBVIOUS
    <2>2. f[k + 1] = After(c, f[k], rules[k + 1]) /\ g[k + 1] = g[k] + Score(rules[k + 1])
      BY <1>3, <1>4, <2>1
    <2>3. Good(k)
      BY <1>6, <2>1
    <2>4. All(k + 1) <=> All(k) /\ Holds(c, rules[k + 1])
      <3>1. \A m \in 1..k + 1 : m \in 1..k \/ m = k + 1
        OBVIOUS
      <3>2. \A m \in 1..k : m \in 1..k + 1
        OBVIOUS
      <3> QED BY <2>1, <3>1, <3>2
    <2> HIDE DEF All
    <2> PICK v, r : v = f[k] /\ r = rules[k + 1] /\ v \in V /\ Score(r) \in Nat
      BY <2>1, <2>3
    <2>5. After(c, v, r) \in V
      BY DEF After
    <2>6. After(c, v, r).matched <=> v.matched /\ Holds(c, r)
      BY DEF After
    <2>7. v.matched /\ Holds(c, r) => After(c, v, r).score = v.score + Score(r)
      BY DEF After
    <2> HIDE DEF V
    <2> QED BY <2>2, <2>3, <2>4, <2>5, <2>6, <2>7
  <1>7. Good(n)
    <2> HIDE DEF Good
    <2> USE DEF G
    <2>1. n \in G
      <3> HIDE DEF G
      <3> QED BY <1>5, <1>6, Induction
    <2> QED BY <2>1
  <1>8. SumOf(rules) \in Nat
    <2>1. n = 0 \/ n \in 1..n
      OBVIOUS
    <2> QED BY <1>4, <2>1
  <1> QED BY <1>3, <1>4, <1>7, <1>8
=============================================================================
