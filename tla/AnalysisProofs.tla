----------------------------- MODULE AnalysisProofs ----------------------------
(***************************************************************************)
(* What the answers to the analysis queries promise, for every content of  *)
(* the engine: any number of decisions, candidates, costs, constraints and *)
(* events.  First come facts about the operators of Sorting, Timeline and  *)
(* Ranking, then the state machine of Analysis.                            *)
(***************************************************************************)
EXTENDS Analysis, FiniteSetTheorems, TLAPS

(***************************************************************************)
(* Numbers and listings.                                                   *)
(***************************************************************************)

\* A set of naturals that is not empty has a least element: every induction
\* over the length of a list, below, is by the least length that fails.
LEMMA LeastNatural ==
  ASSUME NEW T \in SUBSET Nat, T # {}
  PROVE  \E n \in T : \A m \in T : n <= m
<1> DEFINE R == OpToRel(<, Nat)
<1>1. IsWellFoundedOn(R, Nat)
  BY NatLessThanWellFounded
<1>2. \A x, y \in Nat : <<y, x>> \in R <=> y < x
  BY DEF OpToRel
<1> HIDE DEF R
<1>3. PICK n \in T : \A m \in T : ~(<<m, n>> \in R)
  BY <1>1, WFMin
<1>4. n \in Nat /\ \A m \in T : m \in Nat /\ ~(m < n)
  BY <1>2, <1>3
<1> QED
  BY <1>4

\* A listing of finitely many places has each of them once.
LEMMA ListingFacts ==
  ASSUME NEW S, IsFiniteSet(S), NEW f \in Listings(S)
  PROVE  /\ Cardinality(S) \in Nat
         /\ f \in [1..Cardinality(S) -> S]
         /\ \A p, q \in 1..Cardinality(S) : f[p] = f[q] => p = q
         /\ \A i \in S : \E p \in 1..Cardinality(S) : f[p] = i
BY FS_CardinalityType DEF Listings, Bijection, Injection, Surjection, IsInjective

\* The places of a sequence are finitely many, and so are any of them.
LEMMA PlacesFinite ==
  ASSUME NEW n \in Nat, NEW S \in SUBSET (1..n)
  PROVE  IsFiniteSet(S)
<1>1. IsFiniteSet(1..n)
  BY FS_Interval, 1 \in Int, n \in Int
<1> QED
  BY <1>1, FS_Subset

\* A permutation of 1..n does not take all of p..n behind p: there is too
\* little room.
LEMMA NoRoom ==
  ASSUME NEW n \in Nat, NEW h \in [1..n -> 1..n],
         \A q, r \in 1..n : h[q] = h[r] => q = r, NEW p \in 1..n
  PROVE  \E q \in p..n : h[q] <= p
<1> SUFFICES ASSUME \A q \in p..n : ~(h[q] <= p) PROVE FALSE
  OBVIOUS
<1>1. \A q \in p..n : q \in 1..n
  OBVIOUS
<1>2. \A q \in p..n : h[q] \in (p + 1)..n
  BY <1>1
<1> DEFINE g == [q \in p..n |-> h[q]]
<1>3. g \in [p..n -> (p + 1)..n]
  BY <1>2
<1>4. /\ IsFiniteSet(p..n) /\ IsFiniteSet((p + 1)..n)
      /\ Cardinality(p..n) = n - p + 1
      /\ Cardinality((p + 1)..n) = n - p
  <2>1. p \in Int /\ n \in Int /\ p + 1 \in Int /\ p <= n
    OBVIOUS
  <2>2. /\ IsFiniteSet(p..n)
        /\ Cardinality(p..n) = IF p > n THEN 0 ELSE n - p + 1
    BY <2>1, FS_Interval
  <2>3. /\ IsFiniteSet((p + 1)..n)
        /\ Cardinality((p + 1)..n) = IF p + 1 > n THEN 0 ELSE n - (p + 1) + 1
    BY <2>1, FS_Interval
  <2> QED
    BY <2>1, <2>2, <2>3
<1>5. g \in Injection(p..n, (p + 1)..n)
  <2>2. \A q, r \in p..n : g[q] = g[r] => q = r
    BY <1>1
  <2> HIDE DEF g
  <2>3. IsInjective(g)
    BY <1>3, <2>2 DEF IsInjective
  <2> QED
    BY <1>3, <2>3 DEF Injection
<1>6. Cardinality(p..n) <= Cardinality((p + 1)..n)
  <2> HIDE DEF g
  <2> QED
    BY <1>4, <1>5, FS_Injection
<1> QED
  BY <1>4, <1>6

(***************************************************************************)
(* The timeline.                                                           *)
(***************************************************************************)

\* Whatever the comparator, what is left is a listing.
LEMMA SortsAreListings ==
  ASSUME NEW s, NEW S, NEW f \in Sorts(s, S, EntryBefore)
  PROVE  /\ f \in Listings(S)
         /\ StrictWeakOrder(s, S, EntryBefore) =>
              \A p, q \in DOMAIN f : p < q => ~EntryBefore(s[f[q]], s[f[p]])
BY DEF Sorts

\* The entries a timeline may have.
ShownEntry == {e \in TimelineEntry : e.kind # "outcome"}

\* Between them the comparator is the rule, and it never holds both ways.
LEMMA RuleFacts ==
  ASSUME NEW a \in ShownEntry, NEW b \in ShownEntry
  PROVE  /\ EntryBefore(a, b) <=> Earlier(a, b)
         /\ ~(Earlier(a, b) /\ Earlier(b, a))
<1>1. /\ a.kind \in {"observation", "decision"} /\ b.kind \in {"observation", "decision"}
      /\ a.mono \in Nat /\ b.mono \in Nat /\ a.wall \in Int /\ b.wall \in Int
      /\ a.observation_id \in Nat /\ b.observation_id \in Nat
  BY DEF ShownEntry, TimelineEntry
<1>2. EntryBefore(a, b) <=> Earlier(a, b)
  BY <1>1 DEF EntryBefore, Earlier
<1>3. ~(Earlier(a, b) /\ Earlier(b, a))
  BY <1>1 DEF Earlier
<1> QED
  BY <1>2, <1>3

\* The rule is consistent on the entries of Y.
ConsistentOn(Y) ==
  \A a, b, c \in Y : Earlier(a, c) => Earlier(a, b) \/ Earlier(b, c)

\* That is all it lacks to be a strict weak order.
LEMMA ConsistentIsOrder ==
  ASSUME NEW s, NEW S, NEW Y \in SUBSET ShownEntry,
         \A i \in S : s[i] \in Y, \A y \in Y : \E i \in S : s[i] = y
  PROVE  StrictWeakOrder(s, S, EntryBefore) <=> ConsistentOn(Y)
<1>1. \A i, j \in S : EntryBefore(s[i], s[j]) <=> Earlier(s[i], s[j])
  BY RuleFacts
<1>2. \A i, j \in S : ~(Earlier(s[i], s[j]) /\ Earlier(s[j], s[i]))
  BY RuleFacts
<1>3. ConsistentOn(Y) <=>
        \A i, j, k \in S : Earlier(s[i], s[k]) => Earlier(s[i], s[j]) \/ Earlier(s[j], s[k])
  <2>1. ASSUME NEW i \in S, NEW j \in S, NEW k \in S, ConsistentOn(Y), Earlier(s[i], s[k])
        PROVE  Earlier(s[i], s[j]) \/ Earlier(s[j], s[k])
    BY <2>1 DEF ConsistentOn
  <2>2. ASSUME NEW a \in Y, NEW b \in Y, NEW c \in Y, Earlier(a, c),
               \A i, j, k \in S : Earlier(s[i], s[k]) => Earlier(s[i], s[j]) \/ Earlier(s[j], s[k])
        PROVE  Earlier(a, b) \/ Earlier(b, c)
    <3>1. PICK i \in S : s[i] = a
      OBVIOUS
    <3>2. PICK j \in S : s[j] = b
      OBVIOUS
    <3>3. PICK k \in S : s[k] = c
      OBVIOUS
    <3> QED
      BY <2>2, <3>1, <3>2, <3>3
  <2> QED
    BY <2>1, <2>2 DEF ConsistentOn
<1> DEFINE Tie(i, j) == ~EntryBefore(s[i], s[j]) /\ ~EntryBefore(s[j], s[i])
<1>4. StrictWeakOrder(s, S, EntryBefore) <=>
        \A i, j, k \in S :
          /\ ~(EntryBefore(s[i], s[j]) /\ EntryBefore(s[j], s[i]))
          /\ (EntryBefore(s[i], s[j]) /\ EntryBefore(s[j], s[k]) => EntryBefore(s[i], s[k]))
          /\ (Tie(i, j) /\ Tie(j, k) => Tie(i, k))
  BY DEF StrictWeakOrder
<1> HIDE DEF Tie
<1>5. \A i, j \in S : Tie(i, j) <=> ~Earlier(s[i], s[j]) /\ ~Earlier(s[j], s[i])
  BY <1>1 DEF Tie
<1>6. StrictWeakOrder(s, S, EntryBefore) <=>
        \A i, j, k \in S :
          /\ (Earlier(s[i], s[j]) /\ Earlier(s[j], s[k]) => Earlier(s[i], s[k]))
          /\ (Tie(i, j) /\ Tie(j, k) => Tie(i, k))
  BY <1>1, <1>2, <1>4
<1>7. ASSUME NEW i \in S, NEW j \in S, NEW k \in S, StrictWeakOrder(s, S, EntryBefore),
             Earlier(s[i], s[k])
      PROVE  Earlier(s[i], s[j]) \/ Earlier(s[j], s[k])
  BY <1>2, <1>5, <1>6, <1>7
<1>8. ASSUME NEW i \in S, NEW j \in S, NEW k \in S,
             \A x, y, z \in S : Earlier(s[x], s[z]) => Earlier(s[x], s[y]) \/ Earlier(s[y], s[z])
      PROVE  /\ (Earlier(s[i], s[j]) /\ Earlier(s[j], s[k]) => Earlier(s[i], s[k]))
             /\ (Tie(i, j) /\ Tie(j, k) => Tie(i, k))
  BY <1>2, <1>5, <1>8
<1> QED
  BY <1>3, <1>6, <1>7, <1>8

\* The places of an event: in the log, and in what is listed of it.
Occurrences(events, e) == {i \in 1..Len(events) : events[i] = e}
Listed(events, f, e) == {p \in DOMAIN f : events[f[p]] = e}

\* An event is in the timeline as often as it is in the log, if it is one of
\* the workload's and no outcome, and otherwise not at all.
LEMMA TimelineCounts ==
  ASSUME NEW events \in Seq(TimelineEntry), NEW w, NEW f \in Listings(Entries(events, w)),
         NEW e \in Range(events)
  PROVE  Cardinality(Listed(events, f, e)) =
           IF e.workload_id = w /\ e.kind # "outcome"
             THEN Cardinality(Occurrences(events, e)) ELSE 0
<1> DEFINE S == Entries(events, w)
<1>1. PICK A : A = Listed(events, f, e)
  OBVIOUS
<1>2. PICK B : B = Occurrences(events, e)
  OBVIOUS
<1>3. /\ A = {p \in DOMAIN f : events[f[p]] = e}
      /\ B = {i \in 1..Len(events) : events[i] = e}
  BY <1>1, <1>2 DEF Listed, Occurrences
<1>4. S \in SUBSET (1..Len(events)) /\ Len(events) \in Nat
  BY DEF Entries
<1>5. IsFiniteSet(S)
  BY <1>4, PlacesFinite
<1>6. /\ Cardinality(S) \in Nat
      /\ f \in [1..Cardinality(S) -> S]
      /\ \A p, q \in 1..Cardinality(S) : f[p] = f[q] => p = q
      /\ \A i \in S : \E p \in 1..Cardinality(S) : f[p] = i
  BY <1>5, ListingFacts
<1>7. \A i \in S : /\ i \in 1..Len(events)
                   /\ events[i].workload_id = w /\ events[i].kind # "outcome"
  BY DEF Entries
<1>8. CASE ~(e.workload_id = w /\ e.kind # "outcome")
  <2>1. A = {}
    BY <1>3, <1>6, <1>7, <1>8
  <2> QED
    BY <1>1, <2>1, <1>8, FS_EmptySet
<1>9. CASE e.workload_id = w /\ e.kind # "outcome"
  <2>1. B \subseteq S
    BY <1>3, <1>9 DEF Entries
  <2> DEFINE g == [p \in A |-> f[p]]
  <2>2. g \in [A -> B]
    BY <1>3, <1>6, <1>7
  <2>3. \A p, q \in A : g[p] = g[q] => p = q
    BY <1>3, <1>6
  <2>4. \A i \in B : \E p \in A : g[p] = i
    <3> SUFFICES ASSUME NEW i \in B PROVE \E p \in A : g[p] = i
      OBVIOUS
    <3>1. PICK p \in 1..Cardinality(S) : f[p] = i
      BY <1>3, <1>6, <2>1
    <3> QED
      BY <1>3, <3>1, <1>6
  <2>5. ExistsBijection(A, B)
    <3> HIDE DEF g
    <3>1. g \in Bijection(A, B)
      BY <2>2, <2>3, <2>4 DEF Bijection, Injection, Surjection, IsInjective
    <3> QED
      BY <3>1 DEF ExistsBijection
  <2>6. IsFiniteSet(A)
    <3>1. A \in SUBSET (1..Cardinality(S))
      BY <1>3, <1>6
    <3> QED
      BY <1>6, <3>1, PlacesFinite
  <2> QED
    <3>1. Cardinality(B) = Cardinality(A)
      BY <2>5, <2>6, FS_Bijection
    <3> QED
      BY <1>1, <1>2, <3>1, <1>9
<1> QED
  BY <1>8, <1>9

(***************************************************************************)
(* Totals.                                                                 *)
(***************************************************************************)

LEMMA ArithmeticCloses ==
  ASSUME NEW a \in Int, NEW b \in Int
  PROVE  Plus(a, b) \in Int /\ Times(a, b) \in Int
<1>1. Huge \in Int
  BY NumbersAssumption
<1>2. a + b \in Int /\ a * b \in Int
  OBVIOUS
<1>3. \A x \in Int : Round(x) \in Int
  BY <1>1 DEF Round, PosInf, NegInf
<1>4. PosInf \in Int /\ NegInf \in Int /\ NaN \in Int
  BY <1>1 DEF PosInf, NegInf, NaN
<1>5. Times(a, b) \in Int
  BY <1>2, <1>3 DEF Times
<1>6. Plus(a, b) \in {NaN, PosInf, NegInf, Round(a + b)}
  BY Zenon DEF Plus
<1> QED
  BY <1>2, <1>3, <1>4, <1>5, <1>6

\* g holds the partial sums of the first n costs.
PartialTotals(c, n, g) ==
  g = [i \in 0..n |->
         IF i = 0 THEN 0 ELSE Plus(g[i - 1], Times(c.costs[i].cost, c.costs[i].policy_weight))]

LEMMA PartialTotalsExist ==
  ASSUME NEW c, NEW n \in Nat
  PROVE  \E g : PartialTotals(c, n, g)
<1> DEFINE T == {k \in Nat : ~ \E g : PartialTotals(c, k, g)}
<1>1. SUFFICES ASSUME T # {} PROVE FALSE
  OBVIOUS
<1>2. PICK k \in T : \A m \in T : k <= m
  <2> HIDE DEF T
  <2>1. T \in SUBSET Nat
    BY DEF T
  <2> QED
    BY <2>1, <1>1, LeastNatural
<1>3. k # 0
  <2>1. PartialTotals(c, 0, [i \in 0..0 |-> 0])
    BY DEF PartialTotals
  <2> QED
    BY <2>1
<1>4. k - 1 \in Nat /\ k - 1 \notin T
  BY <1>2, <1>3
<1>5. PICK g : PartialTotals(c, k - 1, g)
  BY <1>4
<1> DEFINE x == Times(c.costs[k].cost, c.costs[k].policy_weight)
<1>6. PartialTotals(c, k, [i \in 0..k |-> IF i = k THEN Plus(g[k - 1], x) ELSE g[i]])
  BY <1>5, <1>3 DEF PartialTotals
<1> QED
  BY <1>6

\* The total of a candidate's costs is a double: finite, infinite or NaN.
LEMMA TotalIsNumber ==
  ASSUME NEW c, c.costs \in Seq(PlacementCostComponent)
  PROVE  /\ weighted_total(c) \in Int
         /\ c.costs = <<>> => weighted_total(c) = 0
<1> DEFINE n == Len(c.costs)
           x(i) == Times(c.costs[i].cost, c.costs[i].policy_weight)
<1>0. n \in Nat
  OBVIOUS
<1>1. PICK g : PartialTotals(c, n, g)
  BY <1>0, PartialTotalsExist
<1> DEFINE s[i \in 0..Len(c.costs)] ==
      IF i = 0 THEN 0 ELSE Plus(s[i - 1], Times(c.costs[i].cost, c.costs[i].policy_weight))
<1>2. s = [i \in 0..n |-> IF i = 0 THEN 0 ELSE Plus(s[i - 1], x(i))]
  BY <1>1, Zenon DEF PartialTotals
<1>3. weighted_total(c) = s[n]
  BY DEF weighted_total
<1>4. \A i \in 1..n : x(i) \in Int
  <2> SUFFICES ASSUME NEW i \in 1..n PROVE x(i) \in Int
    OBVIOUS
  <2>1. c.costs[i] \in PlacementCostComponent
    OBVIOUS
  <2>2. c.costs[i].cost \in Int /\ c.costs[i].policy_weight \in Int
    BY <2>1, NumbersAssumption DEF PlacementCostComponent
  <2> QED
    BY <2>2, ArithmeticCloses
<1> HIDE DEF s, x
<1> DEFINE T == {k \in 0..n : s[k] \notin Int}
<1>5. ASSUME T # {} PROVE FALSE
  <2>1. PICK k \in T : \A m \in T : k <= m
    <3> HIDE DEF T
    <3>1. T \in SUBSET Nat
      BY DEF T
    <3> QED
      BY <3>1, <1>5, LeastNatural
  <2>2. k \in 0..n /\ s[k] \notin Int
    OBVIOUS
  <2>3. k # 0
    BY <1>2, <2>2
  <2>4. s[k - 1] \in Int
    BY <2>1, <2>2, <2>3
  <2>5. k \in 0..n /\ k \in 1..n
    BY <1>0, <2>2, <2>3
  <2>6. s[k] = Plus(s[k - 1], x(k))
    BY <1>2, <2>3, <2>5
  <2>7. x(k) \in Int
    BY <1>4, <2>5
  <2> QED
    BY <2>2, <2>4, <2>6, <2>7, ArithmeticCloses
<1>6. c.costs = <<>> => s[n] = 0
  BY <1>0, <1>2
<1> QED
  BY <1>0, <1>3, <1>5, <1>6

(***************************************************************************)
(* Lists of numbers, compared one after the other.                         *)
(***************************************************************************)

\* Two lists that differ have a first difference.
LEMMA FirstDifference ==
  ASSUME NEW s \in Seq(Int), NEW t \in Seq(Int), s # t
  PROVE  \E n \in 0..Len(s) :
           /\ n <= Len(t)
           /\ \A i \in 1..n : s[i] = t[i]
           /\ \/ n = Len(s) /\ n < Len(t)
              \/ n = Len(t) /\ n < Len(s)
              \/ n < Len(s) /\ n < Len(t) /\ s[n + 1] # t[n + 1]
<1> DEFINE T == {n \in Nat : \/ n = Len(s) /\ n # Len(t)
                             \/ n = Len(t) /\ n # Len(s)
                             \/ n < Len(s) /\ n < Len(t) /\ s[n + 1] # t[n + 1]}
<1>1. T # {}
  <2>1. CASE Len(s) # Len(t)
    BY <2>1
  <2>2. CASE Len(s) = Len(t)
    <3>1. PICK i \in 1..Len(s) : s[i] # t[i]
      BY <2>2
    <3>2. i - 1 \in T
      BY <3>1, <2>2
    <3> QED
      BY <3>2
  <2> QED
    BY <2>1, <2>2
<1>2. PICK n \in T : \A m \in T : n <= m
  <2> HIDE DEF T
  <2>1. T \in SUBSET Nat
    BY DEF T
  <2> QED
    BY <2>1, <1>1, LeastNatural
<1>3. n <= Len(s) /\ n <= Len(t)
  <2>1. Len(s) # Len(t) => Len(s) \in T /\ Len(t) \in T
    OBVIOUS
  <2>2. n \in Nat /\ Len(s) \in Nat /\ Len(t) \in Nat
    OBVIOUS
  <2> QED
    BY <1>2, <2>1, <2>2
<1>5. n \in Nat /\ Len(s) \in Nat /\ Len(t) \in Nat
  OBVIOUS
<1>6. \A m \in Nat : m < Len(s) /\ m < Len(t) /\ s[m + 1] # t[m + 1] => m \in T
  OBVIOUS
<1>4. \A i \in 1..n : s[i] = t[i]
  <2> HIDE DEF T
  <2> SUFFICES ASSUME NEW i \in 1..n, s[i] # t[i] PROVE FALSE
    OBVIOUS
  <2>1. PICK m : m = i - 1
    OBVIOUS
  <2>2. m \in Nat /\ m + 1 = i /\ m < n
    BY <1>5, <2>1
  <2>3. m < Len(s) /\ m < Len(t)
    BY <1>3, <1>5, <2>2
  <2>4. m \in T
    BY <1>6, <2>2, <2>3
  <2> QED
    BY <1>2, <1>5, <2>2, <2>4
<1> QED
  BY <1>3, <1>4

\* They form a total order.
LEMMA LexOrder ==
  ASSUME NEW s \in Seq(Int), NEW t \in Seq(Int)
  PROVE  /\ s = t \/ LexLess(s, t) \/ LexLess(t, s)
         /\ ~(LexLess(s, t) /\ LexLess(t, s))
         /\ ~LexLess(s, s)
<1>1. s = t \/ LexLess(s, t) \/ LexLess(t, s)
  <2> SUFFICES ASSUME s # t PROVE LexLess(s, t) \/ LexLess(t, s)
    OBVIOUS
  <2>1. PICK n \in 0..Len(s) :
           /\ n <= Len(t)
           /\ \A i \in 1..n : s[i] = t[i]
           /\ \/ n = Len(s) /\ n < Len(t)
              \/ n = Len(t) /\ n < Len(s)
              \/ n < Len(s) /\ n < Len(t) /\ s[n + 1] # t[n + 1]
    BY FirstDifference
  <2>2. n < Len(s) /\ n < Len(t) => s[n + 1] \in Int /\ t[n + 1] \in Int
    OBVIOUS
  <2>3. CASE n = Len(s) /\ n < Len(t)
    BY <2>1, <2>3 DEF LexLess
  <2>4. CASE n = Len(t) /\ n < Len(s)
    BY <2>1, <2>4, n \in 0..Len(t) DEF LexLess
  <2>5. CASE n < Len(s) /\ n < Len(t) /\ s[n + 1] # t[n + 1]
    <3>1. s[n + 1] < t[n + 1] \/ t[n + 1] < s[n + 1]
      BY <2>2, <2>5
    <3>2. n \in 0..Len(s) /\ n \in 0..Len(t)
      BY <2>5
    <3> QED
      BY <2>1, <2>5, <3>1, <3>2 DEF LexLess
  <2> QED
    BY <2>1, <2>3, <2>4, <2>5
<1>2. \A u, v \in Seq(Int) : ~(LexLess(u, v) /\ LexLess(v, u))
  <2> SUFFICES ASSUME NEW u \in Seq(Int), NEW v \in Seq(Int),
                      LexLess(u, v), LexLess(v, u)
               PROVE  FALSE
    OBVIOUS
  <2>1. PICK n \in 0..Len(u) :
          /\ n < Len(v)
          /\ \A i \in 1..n : u[i] = v[i]
          /\ n = Len(u) \/ u[n + 1] < v[n + 1]
    BY DEF LexLess
  <2>2. PICK m \in 0..Len(v) :
          /\ m < Len(u)
          /\ \A i \in 1..m : v[i] = u[i]
          /\ m = Len(v) \/ v[m + 1] < u[m + 1]
    BY DEF LexLess
  <2>3. CASE n < m
    BY <2>1, <2>2, <2>3, n + 1 \in 1..m, u[n + 1] \in Int, v[n + 1] \in Int
  <2>4. CASE m < n
    BY <2>1, <2>2, <2>4, m + 1 \in 1..n, u[m + 1] \in Int, v[m + 1] \in Int
  <2>5. CASE m = n
    BY <2>1, <2>2, <2>5, u[n + 1] \in Int, v[n + 1] \in Int
  <2> QED
    BY <2>3, <2>4, <2>5
<1> QED
  BY <1>1, <1>2

LEMMA LexTransitive ==
  ASSUME NEW s \in Seq(Int), NEW t \in Seq(Int), NEW u \in Seq(Int),
         LexLess(s, t), LexLess(t, u)
  PROVE  LexLess(s, u)
<1>1. PICK n \in 0..Len(s) :
        /\ n < Len(t)
        /\ \A i \in 1..n : s[i] = t[i]
        /\ n = Len(s) \/ s[n + 1] < t[n + 1]
  BY DEF LexLess
<1>2. PICK m \in 0..Len(t) :
        /\ m < Len(u)
        /\ \A i \in 1..m : t[i] = u[i]
        /\ m = Len(t) \/ t[m + 1] < u[m + 1]
  BY DEF LexLess
<1>3. CASE n < m
  <2>1. n \in 0..Len(s) /\ n < Len(u) /\ t[n + 1] = u[n + 1]
    BY <1>1, <1>2, <1>3
  <2>2. \A i \in 1..n : s[i] = u[i]
    BY <1>1, <1>2, <1>3
  <2> QED
    BY <1>1, <2>1, <2>2 DEF LexLess
<1>4. CASE m < n
  <2>1. m \in 0..Len(s) /\ m < Len(u) /\ s[m + 1] = t[m + 1] /\ m # Len(t)
    BY <1>1, <1>2, <1>4
  <2>2. \A i \in 1..m : s[i] = u[i]
    BY <1>1, <1>2, <1>4
  <2> QED
    BY <1>2, <2>1, <2>2 DEF LexLess
<1>5. CASE m = n
  <2>1. m \in 0..Len(s) /\ m < Len(u) /\ m # Len(t)
    BY <1>1, <1>2, <1>5
  <2>2. \A i \in 1..m : s[i] = u[i]
    BY <1>1, <1>2, <1>5
  <2>3. m = Len(s) \/ s[m + 1] < u[m + 1]
    <3>1. m # Len(s) => s[m + 1] \in Int /\ t[m + 1] \in Int /\ u[m + 1] \in Int
      <4>1. /\ Len(s) \in Nat /\ Len(t) \in Nat /\ Len(u) \in Nat
            /\ m <= Len(s) /\ m < Len(t)
        BY <1>1, <1>5, <2>1
      <4>2. m # Len(s) => m + 1 \in 1..Len(s) /\ m + 1 \in 1..Len(t) /\ m + 1 \in 1..Len(u)
        BY <2>1, <4>1
      <4> QED
        BY <4>2
    <3> QED
      BY <3>1, <1>1, <1>2, <1>5, <2>1
  <2> QED
    BY <2>1, <2>2, <2>3 DEF LexLess
<1> QED
  BY <1>3, <1>4, <1>5

(***************************************************************************)
(* The order of the survivors.                                             *)
(***************************************************************************)

\* The candidates whose total is not NaN.
Comparables == {c \in PlacementCandidate : weighted_total(c) # NaN}

LEMMA SignatureType ==
  ASSUME NEW c \in PlacementCandidate
  PROVE  cost_signature(c) \in Seq(Int)
<1>1. c.costs \in Seq(PlacementCostComponent) /\ Len(c.costs) \in Nat
  BY DEF PlacementCandidate
<1>2. \A i \in 1..Len(c.costs) : c.costs[i].cost \in Int
  <2> SUFFICES ASSUME NEW i \in 1..Len(c.costs) PROVE c.costs[i].cost \in Int
    OBVIOUS
  <2>1. c.costs[i] \in PlacementCostComponent
    BY <1>1
  <2> QED
    BY <2>1, NumbersAssumption DEF PlacementCostComponent
<1>3. \A x \in Int : -x \in Int
  OBVIOUS
<1>4. \A i \in 1..Len(c.costs) : cost_signature(c)[i] \in Int
  BY <1>2, <1>3 DEF cost_signature
<1>5. DOMAIN cost_signature(c) = 1..Len(c.costs)
  BY DEF cost_signature
<1>6. cost_signature(c) = [i \in 1..Len(c.costs) |-> cost_signature(c)[i]]
  BY <1>5 DEF cost_signature
<1>7. \A n \in Nat : \A g \in [1..n -> Int] : g \in Seq(Int)
  OBVIOUS
<1>8. cost_signature(c) \in [1..Len(c.costs) -> Int]
  BY <1>4, <1>6
<1> QED
  BY <1>1, <1>7, <1>8

LEMMA ComparableFacts ==
  ASSUME NEW c \in Comparables
  PROVE  /\ weighted_total(c) \in Int /\ weighted_total(c) # NaN
         /\ cost_signature(c) \in Seq(Int)
         /\ c.candidate_id \in Nat
         /\ has_cost_evidence(c) \in BOOLEAN
<1>1. c \in PlacementCandidate
  BY DEF Comparables
<1>2. c.costs \in Seq(PlacementCostComponent) /\ c.candidate_id \in Nat
  BY <1>1 DEF PlacementCandidate
<1>3. weighted_total(c) \in Int
  BY <1>2, TotalIsNumber
<1> QED
  BY <1>1, <1>2, <1>3, SignatureType DEF Comparables, has_cost_evidence

\* a comes before b by cost evidence, total, signature and id.
Precedes(a, b) ==
  \/ has_cost_evidence(a) /\ ~has_cost_evidence(b)
  \/ ~has_cost_evidence(a) /\ ~has_cost_evidence(b) /\ a.candidate_id < b.candidate_id
  \/ /\ has_cost_evidence(a) /\ has_cost_evidence(b)
     /\ \/ weighted_total(a) < weighted_total(b)
        \/ /\ weighted_total(a) = weighted_total(b)
           /\ \/ LexLess(cost_signature(a), cost_signature(b))
              \/ /\ cost_signature(a) = cost_signature(b)
                 /\ a.candidate_id < b.candidate_id

\* The comparator of rank_candidates says so, NaN totals apart.
LEMMA BetterPrecedes ==
  ASSUME NEW a \in Comparables, NEW b \in Comparables
  PROVE  Better(a, b) <=> Precedes(a, b)
<1>1. /\ weighted_total(a) \in Int /\ weighted_total(a) # NaN
      /\ weighted_total(b) \in Int /\ weighted_total(b) # NaN
      /\ cost_signature(a) \in Seq(Int) /\ cost_signature(b) \in Seq(Int)
      /\ a.candidate_id \in Nat /\ b.candidate_id \in Nat
      /\ has_cost_evidence(a) \in BOOLEAN /\ has_cost_evidence(b) \in BOOLEAN
  BY ComparableFacts
<1>2. /\ cost_signature(a) = cost_signature(b)
           \/ LexLess(cost_signature(a), cost_signature(b))
           \/ LexLess(cost_signature(b), cost_signature(a))
      /\ ~(LexLess(cost_signature(a), cost_signature(b))
             /\ LexLess(cost_signature(b), cost_signature(a)))
      /\ cost_signature(a) = cost_signature(b) =>
           ~LexLess(cost_signature(a), cost_signature(b))
             /\ ~LexLess(cost_signature(b), cost_signature(a))
  BY <1>1, LexOrder
<1>3. cost_less(a, b) <=>
        \/ weighted_total(a) < weighted_total(b)
        \/ /\ weighted_total(a) = weighted_total(b)
           /\ \/ LexLess(cost_signature(a), cost_signature(b))
              \/ /\ cost_signature(a) = cost_signature(b)
                 /\ a.candidate_id < b.candidate_id
  BY <1>1, <1>2 DEF cost_less, Same, Less
<1>4. cost_less(b, a) <=>
        \/ weighted_total(b) < weighted_total(a)
        \/ /\ weighted_total(b) = weighted_total(a)
           /\ \/ LexLess(cost_signature(b), cost_signature(a))
              \/ /\ cost_signature(b) = cost_signature(a)
                 /\ b.candidate_id < a.candidate_id
  BY <1>1, <1>2 DEF cost_less, Same, Less
<1> QED
  BY <1>1, <1>2, <1>3, <1>4 DEF Better, Precedes

\* It is a strict order in which only candidates of the same id tie.
LEMMA PrecedesOrder ==
  ASSUME NEW a \in Comparables, NEW b \in Comparables
  PROVE  /\ ~(Precedes(a, b) /\ Precedes(b, a))
         /\ ~Precedes(a, b) /\ ~Precedes(b, a) =>
              /\ a.candidate_id = b.candidate_id
              /\ has_cost_evidence(a) <=> has_cost_evidence(b)
              /\ has_cost_evidence(a) => /\ weighted_total(a) = weighted_total(b)
                                         /\ cost_signature(a) = cost_signature(b)
<1>1. /\ weighted_total(a) \in Int /\ weighted_total(b) \in Int
      /\ cost_signature(a) \in Seq(Int) /\ cost_signature(b) \in Seq(Int)
      /\ a.candidate_id \in Nat /\ b.candidate_id \in Nat
      /\ has_cost_evidence(a) \in BOOLEAN /\ has_cost_evidence(b) \in BOOLEAN
  BY ComparableFacts
<1>2. /\ cost_signature(a) = cost_signature(b)
           \/ LexLess(cost_signature(a), cost_signature(b))
           \/ LexLess(cost_signature(b), cost_signature(a))
      /\ ~(LexLess(cost_signature(a), cost_signature(b))
             /\ LexLess(cost_signature(b), cost_signature(a)))
      /\ cost_signature(a) = cost_signature(b) =>
           ~LexLess(cost_signature(a), cost_signature(b))
             /\ ~LexLess(cost_signature(b), cost_signature(a))
  BY <1>1, LexOrder
<1> QED
  BY <1>1, <1>2 DEF Precedes

LEMMA PrecedesTransitive ==
  ASSUME NEW a \in Comparables, NEW b \in Comparables, NEW c \in Comparables,
         Precedes(a, b), Precedes(b, c)
  PROVE  Precedes(a, c)
<1>1. /\ weighted_total(a) \in Int /\ weighted_total(b) \in Int /\ weighted_total(c) \in Int
      /\ cost_signature(a) \in Seq(Int) /\ cost_signature(b) \in Seq(Int)
      /\ cost_signature(c) \in Seq(Int)
      /\ a.candidate_id \in Nat /\ b.candidate_id \in Nat /\ c.candidate_id \in Nat
      /\ has_cost_evidence(a) \in BOOLEAN /\ has_cost_evidence(b) \in BOOLEAN
      /\ has_cost_evidence(c) \in BOOLEAN
  BY ComparableFacts
<1>2. /\ LexLess(cost_signature(a), cost_signature(b))
      /\ LexLess(cost_signature(b), cost_signature(c))
      => LexLess(cost_signature(a), cost_signature(c))
  BY <1>1, LexTransitive
<1> QED
  BY <1>1, <1>2 DEF Precedes

LEMMA TieTransitive ==
  ASSUME NEW a \in Comparables, NEW b \in Comparables, NEW c \in Comparables,
         ~Precedes(a, b), ~Precedes(b, a), ~Precedes(b, c), ~Precedes(c, b)
  PROVE  ~Precedes(a, c) /\ ~Precedes(c, a)
<1>1. /\ weighted_total(a) \in Int /\ weighted_total(b) \in Int /\ weighted_total(c) \in Int
      /\ cost_signature(a) \in Seq(Int) /\ cost_signature(b) \in Seq(Int)
      /\ cost_signature(c) \in Seq(Int)
      /\ a.candidate_id \in Nat /\ b.candidate_id \in Nat /\ c.candidate_id \in Nat
      /\ has_cost_evidence(a) \in BOOLEAN /\ has_cost_evidence(b) \in BOOLEAN
      /\ has_cost_evidence(c) \in BOOLEAN
  BY ComparableFacts
<1>2. /\ a.candidate_id = b.candidate_id
      /\ has_cost_evidence(a) <=> has_cost_evidence(b)
      /\ has_cost_evidence(a) => /\ weighted_total(a) = weighted_total(b)
                                 /\ cost_signature(a) = cost_signature(b)
  BY PrecedesOrder
<1>3. /\ b.candidate_id = c.candidate_id
      /\ has_cost_evidence(b) <=> has_cost_evidence(c)
      /\ has_cost_evidence(b) => /\ weighted_total(b) = weighted_total(c)
                                 /\ cost_signature(b) = cost_signature(c)
  BY PrecedesOrder
<1>4. ~LexLess(cost_signature(a), cost_signature(a))
  BY <1>1, LexOrder
<1> QED
  BY <1>1, <1>2, <1>3, <1>4 DEF Precedes

\* On candidates without a NaN total stable_sort has a defined result.
LEMMA BetterIsOrder ==
  ASSUME NEW s, NEW S, \A i \in S : s[i] \in Comparables
  PROVE  StrictWeakOrder(s, S, Better)
<1>1. \A a, b \in Comparables : ~(Better(a, b) /\ Better(b, a))
  BY BetterPrecedes, PrecedesOrder
<1>2. \A a, b, c \in Comparables : Better(a, b) /\ Better(b, c) => Better(a, c)
  BY BetterPrecedes, PrecedesTransitive
<1>3. \A a, b, c \in Comparables :
        ~Better(a, b) /\ ~Better(b, a) /\ ~Better(b, c) /\ ~Better(c, b)
        => ~Better(a, c) /\ ~Better(c, a)
  BY BetterPrecedes, TieTransitive
<1> QED
  BY <1>1, <1>2, <1>3 DEF StrictWeakOrder

LEMMA PrecedesNot ==
  ASSUME NEW a \in Comparables, NEW b \in Comparables, NEW c \in Comparables,
         Precedes(a, b), ~Precedes(c, b)
  PROVE  Precedes(a, c)
<1>1. CASE Precedes(b, c)
  BY <1>1, PrecedesTransitive
<1>2. CASE ~Precedes(b, c)
  <2>1. /\ b.candidate_id = c.candidate_id
        /\ has_cost_evidence(b) <=> has_cost_evidence(c)
        /\ has_cost_evidence(b) => /\ weighted_total(b) = weighted_total(c)
                                   /\ cost_signature(b) = cost_signature(c)
    BY <1>2, PrecedesOrder
  <2> QED
    BY <2>1 DEF Precedes
<1> QED
  BY <1>1, <1>2

\* Candidates in order: none is preceded by a later one.
InOrder(u, n) == \A p, q \in 1..n : p < q => ~Precedes(u[q], u[p])

\* h takes every place of v to a place of u with the same candidate.
Rearranged(u, v, n, h) ==
  /\ h \in [1..n -> 1..n]
  /\ \A p, q \in 1..n : h[p] = h[q] => p = q
  /\ \A q \in 1..n : v[q] = u[h[q]]

\* Of two lists in order with the same candidates, neither has a better
\* candidate than the other at any place: all that follow would have to be
\* among too few.
LEMMA NoneAhead ==
  ASSUME NEW n \in Nat, NEW u \in [1..n -> Comparables], NEW v \in [1..n -> Comparables],
         InOrder(u, n), InOrder(v, n),
         NEW h, Rearranged(u, v, n, h), NEW p \in 1..n
  PROVE  ~Precedes(u[p], v[p])
<1>0. /\ h \in [1..n -> 1..n]
      /\ \A q, r \in 1..n : h[q] = h[r] => q = r
      /\ \A q \in 1..n : v[q] = u[h[q]]
  BY DEF Rearranged
<1> SUFFICES ASSUME Precedes(u[p], v[p]) PROVE FALSE
  OBVIOUS
<1>1. \A q \in p..n : Precedes(u[p], v[q])
  <2> SUFFICES ASSUME NEW q \in p..n PROVE Precedes(u[p], v[q])
    OBVIOUS
  <2>1. q \in 1..n /\ (q = p \/ p < q)
    OBVIOUS
  <2>2. CASE q = p
    BY <2>2
  <2>3. CASE p < q
    <3>1. ~Precedes(v[q], v[p])
      BY <2>1, <2>3 DEF InOrder
    <3>2. u[p] \in Comparables /\ v[p] \in Comparables /\ v[q] \in Comparables
      BY <2>1
    <3> QED
      BY <3>1, <3>2, PrecedesNot
  <2> QED
    BY <2>1, <2>2, <2>3
<1>2. \A q \in p..n : h[q] \in (p + 1)..n
  <2> SUFFICES ASSUME NEW q \in p..n PROVE h[q] \in (p + 1)..n
    OBVIOUS
  <2>1. q \in 1..n /\ h[q] \in 1..n /\ Precedes(u[p], u[h[q]])
    BY <1>0, <1>1
  <2>2. h[q] # p
    <3>1. u[p] \in Comparables
      OBVIOUS
    <3>2. ~Precedes(u[p], u[p])
      BY <3>1, PrecedesOrder
    <3> QED
      BY <2>1, <3>2
  <2>3. ~(h[q] < p)
    BY <2>1 DEF InOrder
  <2> QED
    BY <2>1, <2>2, <2>3
<1>3. PICK q \in p..n : h[q] <= p
  BY <1>0, NoRoom
<1> QED
  BY <1>2, <1>3, <1>0

\* What stable_sort may make of the candidates at the places in S.
Sorted(s, S) == StableSorts(s, S, Better)

\* What stable_sort leaves of candidates without a NaN total.
LEMMA StableSortFacts ==
  ASSUME NEW s, NEW S, IsFiniteSet(S), \A i \in S : s[i] \in Comparables,
         NEW f \in Sorted(s, S)
  PROVE  /\ f \in Listings(S)
         /\ [p \in 1..Cardinality(S) |-> s[f[p]]] \in [1..Cardinality(S) -> Comparables]
         /\ InOrder([p \in 1..Cardinality(S) |-> s[f[p]]], Cardinality(S))
<1>1. StrictWeakOrder(s, S, Better)
  BY BetterIsOrder
<1>2. /\ f \in Listings(S)
      /\ \A p, q \in DOMAIN f : p < q =>
           Better(s[f[p]], s[f[q]]) \/ (~Better(s[f[q]], s[f[p]]) /\ f[p] < f[q])
  BY <1>1 DEF Sorted, StableSorts
<1>3. f \in [1..Cardinality(S) -> S]
  BY <1>2, ListingFacts
<1>4. \A p \in 1..Cardinality(S) : s[f[p]] \in Comparables
  BY <1>3
<1>5. \A p, q \in 1..Cardinality(S) : p < q => ~Precedes(s[f[q]], s[f[p]])
  BY <1>2, <1>3, <1>4, BetterPrecedes, PrecedesOrder
<1> QED
  BY <1>2, <1>4, <1>5 DEF InOrder

\* The ids come out in the same order from any two arrangements of the same
\* candidates.
LEMMA SameRanking ==
  ASSUME NEW s, NEW S, IsFiniteSet(S), \A i \in S : s[i] \in Comparables,
         NEW t, NEW T, NEW h \in Bijection(T, S), \A i \in T : t[i] = s[h[i]],
         NEW f \in Sorted(s, S), NEW g \in Sorted(t, T)
  PROVE  /\ IsFiniteSet(T) /\ Cardinality(T) = Cardinality(S)
         /\ \A p \in 1..Cardinality(S) : s[f[p]].candidate_id = t[g[p]].candidate_id
<1>1. /\ h \in [T -> S]
      /\ \A i, j \in T : h[i] = h[j] => i = j
      /\ \A i \in S : \E j \in T : h[j] = i
  BY DEF Bijection, Injection, Surjection, IsInjective
<1>2. IsFiniteSet(T) /\ Cardinality(T) = Cardinality(S)
  <2>1. h \in Injection(T, S) /\ h \in Surjection(T, S)
    BY DEF Bijection
  <2> QED
    BY <2>1, FS_Injection
<1>3. \A i \in T : t[i] \in Comparables
  BY <1>1
<1>4. PICK n : n = Cardinality(S)
  OBVIOUS
<1> DEFINE u == [p \in 1..n |-> s[f[p]]]
           v == [p \in 1..n |-> t[g[p]]]
<1>5. /\ f \in Listings(S)
      /\ u \in [1..n -> Comparables] /\ InOrder(u, n)
  BY <1>4, StableSortFacts
<1>6. /\ g \in Listings(T)
      /\ v \in [1..n -> Comparables] /\ InOrder(v, n)
  BY <1>2, <1>3, <1>4, StableSortFacts
<1>7. /\ n \in Nat
      /\ f \in [1..n -> S]
      /\ \A p, q \in 1..n : f[p] = f[q] => p = q
      /\ \A i \in S : \E p \in 1..n : f[p] = i
  BY <1>4, <1>5, ListingFacts
<1>8. /\ g \in [1..n -> T]
      /\ \A p, q \in 1..n : g[p] = g[q] => p = q
      /\ \A i \in T : \E p \in 1..n : g[p] = i
  BY <1>2, <1>4, <1>6, ListingFacts
<1> DEFINE to == [q \in 1..n |-> CHOOSE p \in 1..n : f[p] = h[g[q]]]
           back == [p \in 1..n |-> CHOOSE q \in 1..n : f[p] = h[g[q]]]
<1>9. \A q \in 1..n : to[q] \in 1..n /\ f[to[q]] = h[g[q]]
  BY <1>1, <1>7, <1>8
<1>10. \A p \in 1..n : back[p] \in 1..n /\ f[p] = h[g[back[p]]]
  <2> SUFFICES ASSUME NEW p \in 1..n PROVE \E q \in 1..n : f[p] = h[g[q]]
    OBVIOUS
  <2>1. PICK j \in T : h[j] = f[p]
    BY <1>1, <1>7
  <2>2. PICK q \in 1..n : g[q] = j
    BY <1>8
  <2> QED
    BY <2>1, <2>2
<1> HIDE DEF to, back
<1>11. to \in [1..n -> 1..n] /\ back \in [1..n -> 1..n]
  BY <1>9, <1>10 DEF to, back
<1>12. /\ \A p, q \in 1..n : to[p] = to[q] => p = q
       /\ \A p, q \in 1..n : back[p] = back[q] => p = q
  <2>1. ASSUME NEW p \in 1..n, NEW q \in 1..n, to[p] = to[q] PROVE p = q
    <3>1. h[g[p]] = h[g[q]]
      BY <1>9, <2>1
    <3>2. g[p] \in T /\ g[q] \in T
      BY <1>8
    <3> QED
      BY <1>1, <1>8, <3>1, <3>2
  <2>2. ASSUME NEW p \in 1..n, NEW q \in 1..n, back[p] = back[q] PROVE p = q
    <3>1. f[p] = f[q]
      BY <1>10, <2>2
    <3> QED
      BY <1>7, <3>1
  <2> QED
    BY <2>1, <2>2
<1>13. \A q \in 1..n : v[q] = u[to[q]]
  BY <1>8, <1>9
<1>14. \A p \in 1..n : u[p] = v[back[p]]
  BY <1>7, <1>8, <1>10
<1>15. \A p \in 1..n : s[f[p]].candidate_id = t[g[p]].candidate_id
  <2> SUFFICES ASSUME NEW p \in 1..n PROVE u[p].candidate_id = v[p].candidate_id
    OBVIOUS
  <2> HIDE DEF u, v
  <2>4. Rearranged(u, v, n, to) /\ Rearranged(v, u, n, back)
    BY <1>11, <1>12, <1>13, <1>14 DEF Rearranged
  <2>1. ~Precedes(u[p], v[p])
    BY <1>5, <1>6, <1>7, <2>4, NoneAhead
  <2>2. ~Precedes(v[p], u[p])
    BY <1>5, <1>6, <1>7, <2>4, NoneAhead
  <2>3. u[p] \in Comparables /\ v[p] \in Comparables
    BY <1>5, <1>6
  <2> QED
    BY <2>1, <2>2, <2>3, PrecedesOrder
<1> QED
  BY <1>2, <1>4, <1>15

(***************************************************************************)
(* Hard constraints.                                                       *)
(***************************************************************************)

\* as_uint throws for a number that is not unsigned, and for nothing else.
LEMMA EvalThrows ==
  ASSUME NEW c, NEW hc, eval_constraint(c, hc) = "throws"
  PROVE  IsNumber(hc.value) /\ ~Unsigned(hc.value)
BY DEF eval_constraint

\* A constraint settles a candidate's fate.
Settles(c, hc) == eval_constraint(c, hc) \in {"violation", "throws"}

\* The loop over the constraints stops at the first that settles the fate.
LEMMA DecisiveFacts ==
  ASSUME NEW d, NEW c, Len(d.hard_constraints) \in Nat
  PROVE  \/ /\ Decisive(d, c) = 0
            /\ \A i \in 1..Len(d.hard_constraints) : ~Settles(c, d.hard_constraints[i])
         \/ /\ Decisive(d, c) \in 1..Len(d.hard_constraints)
            /\ Settles(c, d.hard_constraints[Decisive(d, c)])
            /\ \A i \in 1..(Decisive(d, c) - 1) : ~Settles(c, d.hard_constraints[i])
<1> DEFINE at == {i \in 1..Len(d.hard_constraints) :
                    eval_constraint(c, d.hard_constraints[i]) \in {"violation", "throws"}}
<1>1. Decisive(d, c) = IF at = {} THEN 0 ELSE CHOOSE i \in at : \A j \in at : i <= j
  BY DEF Decisive
<1>2. CASE at = {}
  BY <1>1, <1>2 DEF Settles
<1>3. CASE at # {}
  <2>1. at \in SUBSET Nat
    OBVIOUS
  <2>2. PICK k \in at : \A j \in at : k <= j
    <3> HIDE DEF at
    <3> QED
      BY <1>3, <2>1, LeastNatural
  <2>3. Decisive(d, c) \in at /\ \A j \in at : Decisive(d, c) <= j
    <3> HIDE DEF at
    <3> QED
      BY <1>1, <1>3, <2>2
  <2>4. \A i \in 1..(Decisive(d, c) - 1) : i \in 1..Len(d.hard_constraints) /\ i \notin at
    BY <2>3
  <2> QED
    BY <2>3, <2>4 DEF Settles
<1> QED
  BY <1>2, <1>3

\* What becomes of a candidate.
LEMMA FateFacts ==
  ASSUME NEW d, NEW c, Len(d.hard_constraints) \in Nat
  PROVE  /\ Fate(d, c) \in {"survives", "violation", "throws"}
         /\ Fate(d, c) = "survives" <=>
              \A i \in 1..Len(d.hard_constraints) : ~Settles(c, d.hard_constraints[i])
         /\ Fate(d, c) = "violation" =>
              \E i \in 1..Len(d.hard_constraints) :
                eval_constraint(c, d.hard_constraints[i]) = "violation"
         /\ Fate(d, c) = "throws" =>
              \E i \in 1..Len(d.hard_constraints) :
                /\ eval_constraint(c, d.hard_constraints[i]) = "throws"
                /\ \A j \in 1..(i - 1) : ~Settles(c, d.hard_constraints[j])
<1>1. CASE /\ Decisive(d, c) = 0
           /\ \A i \in 1..Len(d.hard_constraints) : ~Settles(c, d.hard_constraints[i])
  BY <1>1 DEF Fate
<1>2. CASE /\ Decisive(d, c) \in 1..Len(d.hard_constraints)
           /\ Settles(c, d.hard_constraints[Decisive(d, c)])
           /\ \A i \in 1..(Decisive(d, c) - 1) : ~Settles(c, d.hard_constraints[i])
  <2>1. PICK k : k = Decisive(d, c)
    OBVIOUS
  <2>2. /\ k \in 1..Len(d.hard_constraints) /\ k # 0
        /\ Settles(c, d.hard_constraints[k])
        /\ \A i \in 1..(k - 1) : ~Settles(c, d.hard_constraints[i])
    BY <1>2, <2>1
  <2>3. Fate(d, c) = eval_constraint(c, d.hard_constraints[k])
    BY <2>1, <2>2 DEF Fate
  <2> QED
    BY <2>2, <2>3 DEF Settles
<1> QED
  BY <1>1, <1>2, DecisiveFacts

(***************************************************************************)
(* Changes.                                                                *)
(***************************************************************************)

\* An int keeps its value.
LEMMA WrapKeeps ==
  ASSUME NEW x \in (-IntMax - 1)..IntMax
  PROVE  WrapInt(x) = x
<1>1. \A a \in Nat, b \in Nat \ {0} : a < b => a % b = a
  OBVIOUS
<1>2. /\ IntMax \in Nat
      /\ x + IntMax + 1 \in Nat /\ 2 * IntMax + 2 \in Nat \ {0}
      /\ x + IntMax + 1 < 2 * IntMax + 2
  BY NumbersAssumption
<1>3. (x + IntMax + 1) % (2 * IntMax + 2) = x + IntMax + 1
  BY <1>1, <1>2
<1> QED
  BY <1>2, <1>3 DEF WrapInt

\* a holds the candidate after each of the first n changes.
Steps(c, changes, n, a) ==
  a = [i \in 0..n |-> IF i = 0 THEN c ELSE Apply(a[i - 1], changes[i])]

LEMMA StepsExist ==
  ASSUME NEW c, NEW changes, NEW n \in Nat
  PROVE  \E a : Steps(c, changes, n, a)
<1> DEFINE T == {k \in Nat : ~ \E a : Steps(c, changes, k, a)}
<1>1. SUFFICES ASSUME T # {} PROVE FALSE
  OBVIOUS
<1>2. PICK k \in T : \A m \in T : k <= m
  <2> HIDE DEF T
  <2>1. T \in SUBSET Nat
    BY DEF T
  <2> QED
    BY <2>1, <1>1, LeastNatural
<1>3. k # 0
  <2>1. Steps(c, changes, 0, [i \in 0..0 |-> c])
    BY DEF Steps
  <2> QED
    BY <2>1
<1>4. k - 1 \in Nat /\ k - 1 \notin T
  BY <1>2, <1>3
<1>5. PICK a : Steps(c, changes, k - 1, a)
  BY <1>4
<1>6. Steps(c, changes, k,
            [i \in 0..k |-> IF i = k THEN Apply(a[k - 1], changes[k]) ELSE a[i]])
  BY <1>5, <1>3 DEF Steps
<1> QED
  BY <1>6

\* A counterfactual applies the changes one after the other.
LEMMA AfterSteps ==
  ASSUME NEW c, NEW changes, Len(changes) \in Nat
  PROVE  \E a : Steps(c, changes, Len(changes), a) /\ After(c, changes) = a[Len(changes)]
<1>1. PICK g : Steps(c, changes, Len(changes), g)
  BY StepsExist
<1> DEFINE a[i \in 0..Len(changes)] == IF i = 0 THEN c ELSE Apply(a[i - 1], changes[i])
<1>2. a = [i \in 0..Len(changes) |-> IF i = 0 THEN c ELSE Apply(a[i - 1], changes[i])]
  BY <1>1, Zenon DEF Steps
<1>3. After(c, changes) = a[Len(changes)]
  BY DEF After
<1>4. Steps(c, changes, Len(changes), a)
  <2> HIDE DEF a
  <2> QED
    BY <1>2 DEF Steps
<1> HIDE DEF a
<1> QED
  BY <1>3, <1>4

(***************************************************************************)
(* The inductive invariant: an answer is the one the query has in the      *)
(* engine's content.                                                       *)
(***************************************************************************)

ThrowsOK ==
  /\ Known(query.id)
  /\ \/ query.name \in {"explain", "replay"} /\ RankingThrows(Decision)
     \/ /\ query.name = "counterfactual" /\ query.changes \in Changes
        /\ RankingThrows(Changed(Decision, query.changes))

ExplanationOK ==
  /\ Known(query.id)
  /\ \E r \in rank_candidates(Decision) : answer.of = build_explanation(Decision, r)

ReplayOK ==
  /\ Known(query.id)
  /\ ~RankingThrows(Decision)
  /\ answer.ranking \in rank_candidates(Decision)
  /\ answer.of = replay_decision(Decision, answer.ranking)

CounterfactualOK ==
  /\ Known(query.id)
  /\ query.changes \in Changes
  /\ \E r \in rank_candidates(Changed(Decision, query.changes)) :
       answer.of = counterfactual(Decision, r)

Answered ==
  /\ answer.kind = "throws" => ThrowsOK
  /\ answer.kind = "explanation" => ExplanationOK
  /\ answer.kind = "replay" => ReplayOK
  /\ answer.kind = "counterfactual" => CounterfactualOK
  /\ answer.kind = "timeline" => answer.of \in timeline(log, query.workload)

AInv ==
  /\ dec \in Seq(PlacementDecision)
  /\ log \in Seq(TimelineEntry)
  /\ Answered

LEMMA AnswersOK ==
  ASSUME AInv, Next
  PROVE  AInv'
<1> USE DEF Answer, UnknownDecision, Throws, Known, Decision,
            ThrowsOK, ExplanationOK, ReplayOK, CounterfactualOK
<1>1. ASSUME NEW id \in AskedIds, explain(id)
      PROVE  dec' = dec /\ log' = log /\ Answered'
  BY <1>1 DEF explain, Answered
<1>2. ASSUME NEW id \in AskedIds, replay(id)
      PROVE  dec' = dec /\ log' = log /\ Answered'
  BY <1>2 DEF replay, Answered
<1>3. ASSUME NEW id \in AskedIds, NEW changes \in Changes, counterfactual_query(id, changes)
      PROVE  dec' = dec /\ log' = log /\ Answered'
  BY <1>3 DEF counterfactual_query, Answered
<1>4. ASSUME NEW a \in AskedIds, NEW b \in AskedIds, compare(a, b)
      PROVE  dec' = dec /\ log' = log /\ Answered'
  BY <1>4 DEF compare, Answered
<1>5. ASSUME NEW w \in Workloads, timeline_query(w)
      PROVE  dec' = dec /\ log' = log /\ Answered'
  BY <1>5 DEF timeline_query, Answered
<1> QED
  BY <1>1, <1>2, <1>3, <1>4, <1>5 DEF Next, AInv

LEMMA AnalysisInvariant == Spec => []AInv
<1>1. Init => AInv
  BY ContentsAssumption DEF Init, AInv, Answered
<1>2. AInv /\ [Next]_vars => AInv'
  <2> SUFFICES ASSUME AInv, [Next]_vars PROVE AInv'
    OBVIOUS
  <2>1. CASE Next
    BY <2>1, AnswersOK
  <2>2. CASE UNCHANGED vars
    BY <2>2 DEF vars, AInv, Answered, ThrowsOK, ExplanationOK, ReplayOK, CounterfactualOK,
                Known, Decision
  <2> QED
    BY <2>1, <2>2
<1> QED
  BY <1>1, <1>2, PTL DEF Spec

(***************************************************************************)
(* The timeline.                                                           *)
(***************************************************************************)

\* What a timeline shows, and how long it is.
ShownOf(l, w) == {l[i] : i \in Entries(l, w)}
LengthOf(l, w) == Cardinality(Entries(l, w))

\* t shows the places of the entries in the order of the listing f.
ListedBy(t, l, w, f) ==
  /\ f \in Listings(Entries(l, w))
  /\ t = [p \in 1..LengthOf(l, w) |-> l[f[p]]]

\* In order: no entry is earlier than one before it.
Follows(u, n) == \A p, q \in 1..n : p < q => ~Earlier(u[q], u[p])

LEMMA EntriesFacts ==
  ASSUME NEW l \in Seq(TimelineEntry), NEW w
  PROVE  /\ Entries(l, w) \in SUBSET (1..Len(l)) /\ Len(l) \in Nat
         /\ IsFiniteSet(Entries(l, w))
         /\ LengthOf(l, w) \in Nat
         /\ ShownOf(l, w) \subseteq ShownEntry
<1>1. Entries(l, w) \in SUBSET (1..Len(l)) /\ Len(l) \in Nat
  BY DEF Entries
<1>2. IsFiniteSet(Entries(l, w))
  BY <1>1, PlacesFinite
<1>3. LengthOf(l, w) \in Nat
  BY <1>2, FS_CardinalityType DEF LengthOf
<1>4. ASSUME NEW i \in Entries(l, w) PROVE l[i] \in ShownEntry
  <2>1. l[i] \in TimelineEntry /\ l[i].kind # "outcome"
    BY <1>1, <1>4 DEF Entries
  <2> QED
    BY <2>1 DEF ShownEntry
<1> QED
  BY <1>1, <1>2, <1>3, <1>4 DEF ShownOf

LEMMA ListedFacts ==
  ASSUME NEW l \in Seq(TimelineEntry), NEW w, NEW t, NEW f, ListedBy(t, l, w, f)
  PROVE  /\ t \in [1..LengthOf(l, w) -> ShownOf(l, w)]
         /\ Len(t) = LengthOf(l, w)
         /\ \A y \in ShownOf(l, w) : \E p \in 1..LengthOf(l, w) : t[p] = y
         /\ Consistent(t) <=> ConsistentOn(ShownOf(l, w))
<1>1. PICK S : S = Entries(l, w)
  OBVIOUS
<1>2. PICK n : n = LengthOf(l, w)
  OBVIOUS
<1>3. PICK Y : Y = ShownOf(l, w)
  OBVIOUS
<1>4. n \in Nat /\ IsFiniteSet(S) /\ n = Cardinality(S) /\ Y = {l[i] : i \in S}
  BY <1>1, <1>2, <1>3, EntriesFacts DEF LengthOf, ShownOf
<1>5. f \in Listings(S) /\ t = [p \in 1..n |-> l[f[p]]]
  BY <1>1, <1>2 DEF ListedBy
<1>6. /\ f \in [1..n -> S]
      /\ \A i \in S : \E p \in 1..n : f[p] = i
  BY <1>4, <1>5, ListingFacts
<1>7. t \in [1..n -> Y]
  BY <1>4, <1>5, <1>6
<1>8. \A y \in Y : \E p \in 1..n : t[p] = y
  BY <1>4, <1>5, <1>6
<1>9. Len(t) = n
  BY <1>4, <1>5
<1>10. Consistent(t) <=> ConsistentOn(Y)
  <2>1. DOMAIN t = 1..n
    BY <1>7
  <2>2. ASSUME NEW i \in 1..n, NEW j \in 1..n, NEW k \in 1..n, ConsistentOn(Y),
               Earlier(t[i], t[k])
        PROVE  Earlier(t[i], t[j]) \/ Earlier(t[j], t[k])
    <3>1. t[i] \in Y /\ t[j] \in Y /\ t[k] \in Y
      BY <1>7
    <3> QED
      BY <2>2, <3>1 DEF ConsistentOn
  <2>3. ASSUME NEW a \in Y, NEW b \in Y, NEW c \in Y, Consistent(t), Earlier(a, c)
        PROVE  Earlier(a, b) \/ Earlier(b, c)
    <3>1. PICK i \in 1..n : t[i] = a
      BY <1>8
    <3>2. PICK j \in 1..n : t[j] = b
      BY <1>8
    <3>3. PICK k \in 1..n : t[k] = c
      BY <1>8
    <3>4. Earlier(t[i], t[k]) => Earlier(t[i], t[j]) \/ Earlier(t[j], t[k])
      BY <2>1, <2>3 DEF Consistent
    <3> QED
      BY <2>3, <3>1, <3>2, <3>3, <3>4
  <2> QED
    BY <2>1, <2>2, <2>3 DEF Consistent, ConsistentOn
<1> QED
  BY <1>2, <1>3, <1>7, <1>8, <1>9, <1>10

\* The timelines are the listings, those in order where the rule is
\* consistent.
LEMMA TimelinesAre ==
  ASSUME NEW l \in Seq(TimelineEntry), NEW w, NEW t
  PROVE  t \in timeline(l, w) <=>
           /\ \E f : ListedBy(t, l, w, f)
           /\ ConsistentOn(ShownOf(l, w)) => Follows(t, LengthOf(l, w))
<1>1. PICK S : S = Entries(l, w)
  OBVIOUS
<1>2. PICK n : n = LengthOf(l, w)
  OBVIOUS
<1>3. PICK Y : Y = ShownOf(l, w)
  OBVIOUS
<1>4. n \in Nat /\ IsFiniteSet(S) /\ n = Cardinality(S) /\ Y = {l[i] : i \in S}
      /\ Y \in SUBSET ShownEntry
  BY <1>1, <1>2, <1>3, EntriesFacts DEF LengthOf, ShownOf
<1>5. StrictWeakOrder(l, S, EntryBefore) <=> ConsistentOn(Y)
  <2>1. (\A i \in S : l[i] \in Y) /\ (\A y \in Y : \E i \in S : l[i] = y)
    BY <1>4
  <2> QED
    BY <1>4, <2>1, ConsistentIsOrder
<1>6. ASSUME NEW f \in Listings(S)
      PROVE  /\ DOMAIN f = 1..n
             /\ (\A p, q \in DOMAIN f : p < q => ~EntryBefore(l[f[q]], l[f[p]]))
                  <=> Follows([p \in 1..n |-> l[f[p]]], n)
  <2>1. f \in [1..n -> S]
    BY <1>4, <1>6, ListingFacts
  <2>2. \A p \in 1..n : l[f[p]] \in ShownEntry
    BY <1>4, <2>1
  <2>3. \A p, q \in 1..n : EntryBefore(l[f[q]], l[f[p]]) <=> Earlier(l[f[q]], l[f[p]])
    BY <2>2, RuleFacts
  <2> QED
    BY <2>1, <2>3 DEF Follows
<1>7. ASSUME NEW f
      PROVE  f \in Sorts(l, S, EntryBefore) <=>
               /\ f \in Listings(S)
               /\ ConsistentOn(Y) => Follows([p \in 1..n |-> l[f[p]]], n)
  BY <1>5, <1>6 DEF Sorts
<1>8. t \in timeline(l, w) <=>
        \E f \in Sorts(l, S, EntryBefore) : t = [p \in DOMAIN f |-> l[f[p]]]
  BY <1>1 DEF timeline
<1>10. ASSUME NEW f
       PROVE  ListedBy(t, l, w, f) <=> f \in Listings(S) /\ t = [p \in 1..n |-> l[f[p]]]
  BY <1>1, <1>2 DEF ListedBy
<1>11. ASSUME t \in timeline(l, w)
       PROVE  /\ \E f : ListedBy(t, l, w, f)
              /\ ConsistentOn(Y) => Follows(t, n)
  <2>1. PICK f \in Sorts(l, S, EntryBefore) : t = [p \in DOMAIN f |-> l[f[p]]]
    BY <1>8, <1>11
  <2>2. f \in Listings(S) /\ DOMAIN f = 1..n
        /\ (ConsistentOn(Y) => Follows([p \in 1..n |-> l[f[p]]], n))
    BY <1>6, <1>7, <2>1
  <2> QED
    BY <1>10, <2>1, <2>2
<1>12. ASSUME NEW f, ListedBy(t, l, w, f), ConsistentOn(Y) => Follows(t, n)
       PROVE  t \in timeline(l, w)
  <2>1. f \in Listings(S) /\ t = [p \in 1..n |-> l[f[p]]]
    BY <1>10, <1>12
  <2>2. f \in Sorts(l, S, EntryBefore) /\ DOMAIN f = 1..n
    BY <1>6, <1>7, <1>12, <2>1
  <2> QED
    BY <1>8, <2>1, <2>2
<1> QED
  BY <1>2, <1>3, <1>11, <1>12

\* Of two lists in order with the same entries, neither has an earlier entry
\* than the other at any place.
LEMMA NoneEarlier ==
  ASSUME NEW n \in Nat, NEW Y \in SUBSET ShownEntry, ConsistentOn(Y),
         NEW u \in [1..n -> Y], NEW v \in [1..n -> Y], Follows(u, n), Follows(v, n),
         NEW h, Rearranged(u, v, n, h), NEW p \in 1..n
  PROVE  ~Earlier(u[p], v[p])
<1>1. /\ h \in [1..n -> 1..n]
      /\ \A q, r \in 1..n : h[q] = h[r] => q = r
      /\ \A q \in 1..n : v[q] = u[h[q]]
  BY DEF Rearranged
<1> SUFFICES ASSUME Earlier(u[p], v[p]) PROVE FALSE
  OBVIOUS
<1>2. PICK q \in p..n : h[q] <= p
  BY <1>1, NoRoom
<1>3. q \in 1..n /\ h[q] \in 1..n
  BY <1>1
<1>4. u[p] \in Y /\ v[p] \in Y /\ v[q] \in Y
  BY <1>3
<1>5. Earlier(u[p], v[q])
  <2>1. q # p => ~Earlier(v[q], v[p])
    BY <1>3 DEF Follows
  <2>2. Earlier(u[p], v[q]) \/ Earlier(v[q], v[p])
    BY <1>4 DEF ConsistentOn
  <2> QED
    BY <2>1, <2>2
<1>6. Earlier(u[p], u[h[q]])
  BY <1>1, <1>3, <1>5
<1>7. h[q] # p => ~Earlier(u[p], u[h[q]])
  BY <1>2, <1>3 DEF Follows
<1>8. ~Earlier(u[p], u[p])
  BY <1>4, RuleFacts
<1> QED
  BY <1>6, <1>7, <1>8

\* Two listings of the same places are rearrangements of each other.
LEMMA ListingsRearranged ==
  ASSUME NEW l \in Seq(TimelineEntry), NEW w, NEW t, NEW f, ListedBy(t, l, w, f),
         NEW v, NEW g, ListedBy(v, l, w, g)
  PROVE  \E h : Rearranged(t, v, LengthOf(l, w), h)
<1>1. PICK S : S = Entries(l, w)
  OBVIOUS
<1>2. PICK n : n = LengthOf(l, w)
  OBVIOUS
<1>3. n \in Nat /\ IsFiniteSet(S) /\ n = Cardinality(S)
  BY <1>1, <1>2, EntriesFacts DEF LengthOf
<1>4. f \in Listings(S) /\ t = [p \in 1..n |-> l[f[p]]]
  BY <1>1, <1>2 DEF ListedBy
<1>11. g \in Listings(S) /\ v = [p \in 1..n |-> l[g[p]]]
  BY <1>1, <1>2 DEF ListedBy
<1>5. /\ f \in [1..n -> S]
      /\ \A i \in S : \E p \in 1..n : f[p] = i
  BY <1>3, <1>4, ListingFacts
<1>6. /\ g \in [1..n -> S]
      /\ \A p, q \in 1..n : g[p] = g[q] => p = q
  BY <1>3, <1>11, ListingFacts
<1> DEFINE h == [q \in 1..n |-> CHOOSE p \in 1..n : f[p] = g[q]]
<1>7. \A q \in 1..n : h[q] \in 1..n /\ f[h[q]] = g[q]
  BY <1>5, <1>6
<1>8. h \in [1..n -> 1..n]
  BY <1>7
<1> HIDE DEF h
<1>9. \A p, q \in 1..n : h[p] = h[q] => p = q
  BY <1>6, <1>7
<1>10. \A q \in 1..n : v[q] = t[h[q]]
  BY <1>4, <1>7, <1>11
<1> QED
  BY <1>2, <1>8, <1>9, <1>10 DEF Rearranged

\* Where the rule is consistent and tells the entries apart, there is one
\* timeline.
LEMMA OneTimeline ==
  ASSUME NEW l \in Seq(TimelineEntry), NEW w, NEW t \in timeline(l, w), NEW v \in timeline(l, w),
         ConsistentOn(ShownOf(l, w)), ToldApart(t)
  PROVE  v = t
<1>1. PICK n : n = LengthOf(l, w)
  OBVIOUS
<1>2. PICK Y : Y = ShownOf(l, w)
  OBVIOUS
<1>3. PICK f : ListedBy(t, l, w, f)
  BY TimelinesAre
<1>4. PICK g : ListedBy(v, l, w, g)
  BY TimelinesAre
<1>5. Follows(t, n) /\ Follows(v, n)
  BY <1>1, TimelinesAre
<1>6. n \in Nat /\ Y \in SUBSET ShownEntry /\ ConsistentOn(Y)
  BY <1>1, <1>2, EntriesFacts
<1>7. t \in [1..n -> Y] /\ \A y \in Y : \E p \in 1..n : t[p] = y
  BY <1>1, <1>2, <1>3, ListedFacts
<1>8. v \in [1..n -> Y]
  BY <1>1, <1>2, <1>4, ListedFacts
<1>9. PICK h : Rearranged(t, v, n, h)
  BY <1>1, <1>3, <1>4, ListingsRearranged
<1>10. PICK k : Rearranged(v, t, n, k)
  BY <1>1, <1>3, <1>4, ListingsRearranged
<1>11. ASSUME NEW p \in 1..n PROVE v[p] = t[p]
  <2>1. ~Earlier(t[p], v[p])
    BY <1>5, <1>6, <1>7, <1>8, <1>9, NoneEarlier
  <2>2. ~Earlier(v[p], t[p])
    BY <1>5, <1>6, <1>7, <1>8, <1>10, NoneEarlier
  <2>3. PICK q \in 1..n : t[q] = v[p]
    BY <1>7, <1>8
  <2>4. t[q] = t[p] \/ Earlier(t[q], t[p]) \/ Earlier(t[p], t[q])
    BY <1>7 DEF ToldApart
  <2> QED
    BY <2>1, <2>2, <2>3, <2>4
<1>12. t = [p \in 1..n |-> t[p]] /\ v = [p \in 1..n |-> v[p]]
  BY <1>7, <1>8
<1> QED
  BY <1>11, <1>12

\* The list with the entries at i and j swapped.
Swapped(t, n, i, j) ==
  [p \in 1..n |-> IF p = i THEN t[j] ELSE IF p = j THEN t[i] ELSE t[p]]

LEMMA SwappedListing ==
  ASSUME NEW l \in Seq(TimelineEntry), NEW w, NEW t, NEW f, ListedBy(t, l, w, f),
         NEW i \in 1..LengthOf(l, w), NEW j \in 1..LengthOf(l, w)
  PROVE  ListedBy(Swapped(t, LengthOf(l, w), i, j), l, w, Swapped(f, LengthOf(l, w), i, j))
<1>1. PICK S : S = Entries(l, w)
  OBVIOUS
<1>2. PICK n : n = LengthOf(l, w)
  OBVIOUS
<1>3. n \in Nat /\ IsFiniteSet(S) /\ n = Cardinality(S) /\ i \in 1..n /\ j \in 1..n
  BY <1>1, <1>2, EntriesFacts DEF LengthOf
<1>4. f \in Listings(S) /\ t = [p \in 1..n |-> l[f[p]]]
  BY <1>1, <1>2 DEF ListedBy
<1>5. /\ f \in [1..n -> S]
      /\ \A p, q \in 1..n : f[p] = f[q] => p = q
      /\ \A y \in S : \E p \in 1..n : f[p] = y
  BY <1>3, <1>4, ListingFacts
<1>6. PICK g : g = Swapped(f, n, i, j)
  OBVIOUS
<1>7. /\ g \in [1..n -> S]
      /\ \A p \in 1..n : g[p] = IF p = i THEN f[j] ELSE IF p = j THEN f[i] ELSE f[p]
  BY <1>3, <1>5, <1>6 DEF Swapped
<1>8. \A p, q \in 1..n : g[p] = g[q] => p = q
  BY <1>3, <1>5, <1>7
<1>9. ASSUME NEW y \in S PROVE \E p \in 1..n : g[p] = y
  <2>1. PICK p \in 1..n : f[p] = y
    BY <1>5
  <2>2. g[IF p = i THEN j ELSE IF p = j THEN i ELSE p] = y
    BY <1>3, <1>7, <2>1
  <2> QED
    BY <1>3, <2>2
<1>10. g \in Listings(S)
  BY <1>3, <1>7, <1>8, <1>9 DEF Listings, Bijection, Injection, Surjection, IsInjective
<1>11. Swapped(t, n, i, j) = [p \in 1..n |-> l[g[p]]]
  BY <1>3, <1>4, <1>7 DEF Swapped
<1> QED
  BY <1>1, <1>2, <1>6, <1>10, <1>11 DEF ListedBy

\* Entries that the rule does not tell apart are swapped without breaking it.
LEMMA TiedSwap ==
  ASSUME NEW n \in Nat, NEW Y \in SUBSET ShownEntry, ConsistentOn(Y),
         NEW t \in [1..n -> Y], Follows(t, n), NEW i \in 1..n, NEW j \in 1..n,
         ~Earlier(t[i], t[j]), ~Earlier(t[j], t[i])
  PROVE  Follows(Swapped(t, n, i, j), n)
<1>1. PICK v : v = Swapped(t, n, i, j)
  OBVIOUS
<1>2. \A p \in 1..n : v[p] = IF p = i THEN t[j] ELSE IF p = j THEN t[i] ELSE t[p]
  BY <1>1 DEF Swapped
<1>3. \A x \in Y : /\ Earlier(x, t[i]) <=> Earlier(x, t[j])
                   /\ Earlier(t[i], x) <=> Earlier(t[j], x)
  <2>1. t[i] \in Y /\ t[j] \in Y
    OBVIOUS
  <2> QED
    BY <2>1 DEF ConsistentOn
<1>4. \A p \in 1..n : v[p] \in Y /\ t[p] \in Y
  BY <1>2
<1>5. ASSUME NEW p \in 1..n, NEW x \in Y
      PROVE  /\ Earlier(x, v[p]) <=> Earlier(x, t[p])
             /\ Earlier(v[p], x) <=> Earlier(t[p], x)
  <2>1. p = i => v[p] = t[j]
    BY <1>2
  <2>2. p # i /\ p = j => v[p] = t[i]
    BY <1>2
  <2>3. p # i /\ p # j => v[p] = t[p]
    BY <1>2
  <2> QED
    BY <1>3, <2>1, <2>2, <2>3
<1>6. ASSUME NEW p \in 1..n, NEW q \in 1..n, p < q PROVE ~Earlier(v[q], v[p])
  <2>1. ~Earlier(t[q], t[p])
    BY <1>6 DEF Follows
  <2>2. ~Earlier(t[q], v[p])
    BY <1>4, <1>5, <2>1
  <2> QED
    BY <1>4, <1>5, <2>2
<1> QED
  BY <1>1, <1>6 DEF Follows

\* If there is one timeline, the rule is consistent and tells its entries
\* apart: otherwise two entries that differ could be swapped.
LEMMA OnlyTimeline ==
  ASSUME NEW l \in Seq(TimelineEntry), NEW w, NEW t, timeline(l, w) = {t}
  PROVE  ConsistentOn(ShownOf(l, w)) /\ ToldApart(t)
<1>1. PICK n : n = LengthOf(l, w)
  OBVIOUS
<1>2. PICK Y : Y = ShownOf(l, w)
  OBVIOUS
<1>3. t \in timeline(l, w)
  OBVIOUS
<1>4. PICK f : ListedBy(t, l, w, f)
  BY <1>3, TimelinesAre
<1>5. n \in Nat /\ Y \in SUBSET ShownEntry
  BY <1>1, <1>2, EntriesFacts
<1>6. t \in [1..n -> Y] /\ \A y \in Y : \E p \in 1..n : t[p] = y
  BY <1>1, <1>2, <1>4, ListedFacts
<1>7. ASSUME NEW i \in 1..n, NEW j \in 1..n, t[i] # t[j],
             ConsistentOn(Y) => Follows(Swapped(t, n, i, j), n)
      PROVE  FALSE
  <2>1. ListedBy(Swapped(t, n, i, j), l, w, Swapped(f, n, i, j))
    BY <1>1, <1>4, <1>7, SwappedListing
  <2>2. Swapped(t, n, i, j) \in timeline(l, w)
    BY <1>1, <1>2, <1>7, <2>1, TimelinesAre
  <2>3. Swapped(t, n, i, j) = t
    BY <2>2
  <2>4. Swapped(t, n, i, j)[i] = t[j]
    BY <1>7 DEF Swapped
  <2> QED
    BY <1>7, <2>3, <2>4
<1>8. ConsistentOn(Y)
  <2> SUFFICES ASSUME ~ConsistentOn(Y) PROVE FALSE
    OBVIOUS
  <2>1. PICK a \in Y, c \in Y : Earlier(a, c)
    BY DEF ConsistentOn
  <2>2. a # c
    <3>1. a \in ShownEntry
      BY <1>5
    <3> QED
      BY <2>1, <3>1, RuleFacts
  <2>3. PICK i \in 1..n : t[i] = a
    BY <1>6
  <2>4. PICK j \in 1..n : t[j] = c
    BY <1>6
  <2> QED
    BY <1>7, <2>2, <2>3, <2>4
<1>9. ToldApart(t)
  <2>1. ASSUME NEW i \in 1..n, NEW j \in 1..n,
               t[i] # t[j], ~Earlier(t[i], t[j]), ~Earlier(t[j], t[i])
        PROVE  FALSE
    <3>1. Follows(t, n)
      BY <1>1, <1>2, <1>3, <1>8, TimelinesAre
    <3>2. Follows(Swapped(t, n, i, j), n)
      BY <1>5, <1>6, <1>8, <2>1, <3>1, TiedSwap
    <3> QED
      BY <1>7, <2>1, <3>2
  <2>2. DOMAIN t = 1..n
    BY <1>6
  <2> QED
    BY <2>1, <2>2 DEF ToldApart
<1> QED
  BY <1>2, <1>8, <1>9

\* The events in another order: every timeline of theirs is one of the log's.
LEMMA MovedTimelines ==
  ASSUME NEW l \in Seq(TimelineEntry), NEW w, NEW h \in Bijection(1..Len(l), 1..Len(l)),
         NEW m \in Seq(TimelineEntry), m = [i \in 1..Len(l) |-> l[h[i]]]
  PROVE  timeline(m, w) \subseteq timeline(l, w)
<1>1. PICK N : N = Len(l)
  OBVIOUS
<1>2. PICK S : S = Entries(l, w)
  OBVIOUS
<1>3. PICK T : T = Entries(m, w)
  OBVIOUS
<1>4. N \in Nat /\ DOMAIN m = 1..N /\ DOMAIN l = 1..N /\ m = [i \in 1..N |-> l[h[i]]]
  BY <1>1
<1>5. /\ h \in [1..N -> 1..N]
      /\ \A i, j \in 1..N : h[i] = h[j] => i = j
      /\ \A k \in 1..N : \E i \in 1..N : h[i] = k
  BY <1>1 DEF Bijection, Injection, Surjection, IsInjective
<1>6. /\ \A i : i \in S <=> i \in 1..N /\ l[i].workload_id = w /\ l[i].kind # "outcome"
      /\ \A i : i \in T <=> i \in 1..N /\ m[i].workload_id = w /\ m[i].kind # "outcome"
  BY <1>2, <1>3, <1>4 DEF Entries
<1>7. \A i \in 1..N : m[i] = l[h[i]] /\ (i \in T <=> h[i] \in S)
  <2> SUFFICES ASSUME NEW i \in 1..N
               PROVE  m[i] = l[h[i]] /\ (i \in T <=> h[i] \in S)
    OBVIOUS
  <2>1. m[i] = l[h[i]]
    BY <1>4
  <2>2. h[i] \in 1..N
    BY <1>5
  <2> QED
    BY <1>6, <2>1, <2>2
<1>8. S \subseteq 1..N /\ T \subseteq 1..N
  BY <1>6
<1>9. PICK g : g = [i \in T |-> h[i]]
  OBVIOUS
<1>10. g \in Bijection(T, S)
  <2>1. g \in [T -> S]
    BY <1>7, <1>8, <1>9
  <2>2. ASSUME NEW i \in T, NEW j \in T, g[i] = g[j] PROVE i = j
    <3>1. h[i] = h[j] /\ i \in 1..N /\ j \in 1..N
      BY <1>8, <1>9, <2>2
    <3> QED
      BY <1>5, <3>1
  <2>3. ASSUME NEW k \in S PROVE \E i \in T : g[i] = k
    <3>1. PICK i \in 1..N : h[i] = k
      BY <1>5, <1>8
    <3>2. i \in T
      BY <1>7, <3>1
    <3> QED
      BY <1>9, <3>1, <3>2
  <2> QED
    BY <2>1, <2>2, <2>3 DEF Bijection, Injection, Surjection, IsInjective
<1>11. PICK n : n = Cardinality(S)
  OBVIOUS
<1>12. IsFiniteSet(S) /\ IsFiniteSet(T) /\ n \in Nat /\ n = Cardinality(T)
  <2>1. IsFiniteSet(S) /\ IsFiniteSet(T) /\ n \in Nat
    BY <1>2, <1>3, <1>11, EntriesFacts DEF LengthOf
  <2>2. g \in Injection(T, S) /\ g \in Surjection(T, S)
    BY <1>10 DEF Bijection
  <2> QED
    BY <1>11, <2>1, <2>2, FS_Injection
<1>13. LengthOf(l, w) = n /\ LengthOf(m, w) = n
  BY <1>2, <1>3, <1>11, <1>12 DEF LengthOf
<1>14. ShownOf(l, w) = ShownOf(m, w)
  <2>1. ASSUME NEW i \in T PROVE \E k \in S : l[k] = m[i]
    BY <1>7, <1>8
  <2>2. ASSUME NEW k \in S PROVE \E i \in T : l[k] = m[i]
    <3>1. PICK i \in 1..N : h[i] = k
      BY <1>5, <1>8
    <3> QED
      BY <1>7, <3>1
  <2>3. ShownOf(l, w) = {l[k] : k \in S} /\ ShownOf(m, w) = {m[i] : i \in T}
    BY <1>2, <1>3 DEF ShownOf
  <2> QED
    BY <2>1, <2>2, <2>3
<1>15. ASSUME NEW t, NEW f, ListedBy(t, m, w, f)
       PROVE  \E k : ListedBy(t, l, w, k)
  <2>1. f \in Listings(T) /\ t = [p \in 1..n |-> m[f[p]]]
    BY <1>3, <1>13, <1>15 DEF ListedBy
  <2>2. /\ f \in [1..n -> T]
        /\ \A p, q \in 1..n : f[p] = f[q] => p = q
        /\ \A i \in T : \E p \in 1..n : f[p] = i
    BY <1>12, <2>1, ListingFacts
  <2>3. PICK k : k = [p \in 1..n |-> h[f[p]]]
    OBVIOUS
  <2>4. k \in [1..n -> S]
    BY <1>7, <1>8, <2>2, <2>3
  <2>5. ASSUME NEW p \in 1..n, NEW q \in 1..n, k[p] = k[q] PROVE p = q
    <3>1. h[f[p]] = h[f[q]]
      BY <2>3, <2>5
    <3>2. f[p] \in 1..N /\ f[q] \in 1..N
      BY <1>8, <2>2
    <3>3. f[p] = f[q]
      BY <1>5, <3>1, <3>2
    <3> QED
      BY <2>2, <3>3
  <2>6. ASSUME NEW y \in S PROVE \E p \in 1..n : k[p] = y
    <3>1. PICK i \in 1..N : h[i] = y
      BY <1>5, <1>8
    <3>2. i \in T
      BY <1>7, <3>1
    <3>3. PICK p \in 1..n : f[p] = i
      BY <2>2, <3>2
    <3> QED
      BY <2>3, <3>1, <3>3
  <2>7. k \in Listings(S)
    BY <1>11, <2>4, <2>5, <2>6 DEF Listings, Bijection, Injection, Surjection, IsInjective
  <2>8. \A p \in 1..n : m[f[p]] = l[k[p]]
    BY <1>7, <1>8, <2>2, <2>3
  <2>9. t = [p \in 1..n |-> l[k[p]]]
    BY <2>1, <2>8
  <2> QED
    BY <1>2, <1>13, <2>7, <2>9 DEF ListedBy
<1>16. ASSUME NEW t \in timeline(m, w) PROVE t \in timeline(l, w)
  <2>1. PICK f : ListedBy(t, m, w, f)
    BY TimelinesAre
  <2>2. ConsistentOn(ShownOf(m, w)) => Follows(t, LengthOf(m, w))
    BY TimelinesAre
  <2>3. \E k : ListedBy(t, l, w, k)
    BY <1>15, <2>1
  <2>4. ConsistentOn(ShownOf(l, w)) => Follows(t, LengthOf(l, w))
    BY <1>13, <1>14, <2>2
  <2> QED
    BY <2>3, <2>4, TimelinesAre
<1> QED
  BY <1>16

\* The order of the events makes no difference to what may be returned.
LEMMA SameTimelines ==
  ASSUME NEW l \in Seq(TimelineEntry), NEW w, NEW m \in Rearrangements(l)
  PROVE  m \in Seq(TimelineEntry) /\ timeline(m, w) = timeline(l, w)
<1>1. PICK N : N = Len(l)
  OBVIOUS
<1>2. PICK h \in Bijection(1..N, 1..N) : m = [i \in 1..N |-> l[h[i]]]
  BY <1>1 DEF Rearrangements
<1>3. N \in Nat /\ l = [i \in 1..N |-> l[i]] /\ \A i \in 1..N : l[i] \in TimelineEntry
  BY <1>1
<1>4. /\ h \in [1..N -> 1..N]
      /\ \A i, j \in 1..N : h[i] = h[j] => i = j
      /\ \A k \in 1..N : \E i \in 1..N : h[i] = k
  BY <1>2 DEF Bijection, Injection, Surjection, IsInjective
<1>5. m \in [1..N -> TimelineEntry]
  BY <1>2, <1>3, <1>4
<1>6. m \in Seq(TimelineEntry) /\ Len(m) = N
  BY <1>3, <1>5
<1> DEFINE back == [k \in 1..N |-> CHOOSE i \in 1..N : h[i] = k]
<1>7. \A k \in 1..N : back[k] \in 1..N /\ h[back[k]] = k
  BY <1>4
<1>8. back \in [1..N -> 1..N]
  BY <1>7
<1> HIDE DEF back
<1>9. \A i \in 1..N : back[h[i]] = i
  BY <1>4, <1>7
<1>10. back \in Bijection(1..N, 1..N)
  <2>1. \A i, j \in 1..N : back[i] = back[j] => i = j
    BY <1>7
  <2>2. \A i \in 1..N : \E k \in 1..N : back[k] = i
    BY <1>4, <1>9
  <2> QED
    BY <1>8, <2>1, <2>2 DEF Bijection, Injection, Surjection, IsInjective
<1>11. l = [i \in 1..N |-> m[back[i]]]
  <2>1. \A i \in 1..N : m[back[i]] = l[i]
    BY <1>2, <1>7
  <2> QED
    BY <1>3, <2>1
<1>12. timeline(m, w) \subseteq timeline(l, w)
  BY <1>1, <1>2, <1>6, MovedTimelines
<1>13. timeline(l, w) \subseteq timeline(m, w)
  BY <1>6, <1>10, <1>11, MovedTimelines
<1> QED
  BY <1>6, <1>12, <1>13

LEMMA TimelineSettled ==
  ASSUME AInv
  PROVE  TimelineIsSettled
<1> SUFFICES ASSUME answer.kind = "timeline"
             PROVE  TimelineIsSettled
  BY DEF TimelineIsSettled
<1>1. PICK l : l = log
  OBVIOUS
<1>2. PICK w : w = query.workload
  OBVIOUS
<1>3. PICK t : t = answer.of
  OBVIOUS
<1>4. l \in Seq(TimelineEntry) /\ t \in timeline(l, w)
  BY <1>1, <1>2, <1>3 DEF AInv, Answered
<1>5. PICK n : n = LengthOf(l, w)
  OBVIOUS
<1>6. PICK f : ListedBy(t, l, w, f)
  BY <1>4, TimelinesAre
<1>7. /\ n \in Nat /\ DOMAIN t = 1..n /\ DOMAIN l = 1..Len(l)
      /\ Consistent(t) <=> ConsistentOn(ShownOf(l, w))
  BY <1>4, <1>5, <1>6, ListedFacts, EntriesFacts
<1>8. ASSUME NEW e \in Range(l)
      PROVE  Cardinality({i \in DOMAIN t : t[i] = e}) =
               IF e.workload_id = w /\ e.kind # "outcome"
                 THEN Cardinality({i \in DOMAIN l : l[i] = e}) ELSE 0
  <2>1. f \in Listings(Entries(l, w)) /\ t = [p \in 1..n |-> l[f[p]]]
    BY <1>5, <1>6 DEF ListedBy
  <2>2. Cardinality(Listed(l, f, e)) =
          IF e.workload_id = w /\ e.kind # "outcome"
            THEN Cardinality(Occurrences(l, e)) ELSE 0
    BY <1>4, <1>8, <2>1, TimelineCounts
  <2>3. DOMAIN f = 1..n
    BY <1>4, <1>5, <2>1, ListingFacts, EntriesFacts DEF LengthOf
  <2>4. Listed(l, f, e) = {i \in DOMAIN t : t[i] = e}
    BY <1>7, <2>1, <2>3 DEF Listed
  <2>5. Occurrences(l, e) = {i \in DOMAIN l : l[i] = e}
    BY <1>7 DEF Occurrences
  <2> QED
    BY <2>2, <2>4, <2>5
<1>9. Consistent(t) => \A i, j \in DOMAIN t : i < j => ~Earlier(t[j], t[i])
  <2>1. Consistent(t) => Follows(t, n)
    BY <1>4, <1>5, <1>7, TimelinesAre
  <2> QED
    BY <1>7, <2>1 DEF Follows
<1>10. ASSUME Consistent(t), ToldApart(t), NEW m \in Rearrangements(l)
       PROVE  timeline(m, w) = {t}
  <2>1. \A v \in timeline(l, w) : v = t
    BY <1>4, <1>7, <1>10, OneTimeline
  <2>2. timeline(m, w) = timeline(l, w)
    BY <1>4, <1>10, SameTimelines
  <2> QED
    BY <1>4, <2>1, <2>2
<1>11. ASSUME \A m \in Rearrangements(l) : timeline(m, w) = {t}
       PROVE  Consistent(t) /\ ToldApart(t)
  <2>1. l \in Rearrangements(l)
    <3>1. PICK h : h = [i \in 1..Len(l) |-> i]
      OBVIOUS
    <3>2. h \in Bijection(1..Len(l), 1..Len(l))
      BY <3>1 DEF Bijection, Injection, Surjection, IsInjective
    <3>3. l = [i \in 1..Len(l) |-> l[h[i]]]
      BY <1>4, <3>1
    <3> QED
      BY <3>2, <3>3 DEF Rearrangements
  <2>2. timeline(l, w) = {t}
    BY <1>11, <2>1
  <2> QED
    BY <1>4, <1>7, <2>2, OnlyTimeline
<1> QED
  BY <1>1, <1>2, <1>3, <1>8, <1>9, <1>10, <1>11 DEF TimelineIsSettled

\* A timeline holds the observations and decisions of its workload, each as
\* often as the log, and follows the rule wherever that is consistent; what is
\* returned depends on nothing else exactly when the rule is consistent and
\* tells the entries apart: for every log and every result std::sort may have.
THEOREM TimelinesAreSettled == Spec => []TimelineIsSettled
<1>1. AInv => TimelineIsSettled
  BY TimelineSettled
<1> QED
  BY <1>1, AnalysisInvariant, PTL

(***************************************************************************)
(* Exceptions.                                                             *)
(***************************************************************************)

\* The constraint that throws is of a signed number, and none before it
\* excludes the candidate.
LEMMA ThrowingConstraint ==
  ASSUME NEW d, Len(d.hard_constraints) \in Nat, Len(d.candidates) \in Nat, RankingThrows(d)
  PROVE  \E i \in 1..Len(d.hard_constraints), k \in 1..Len(d.candidates) :
           /\ IsNumber(d.hard_constraints[i].value)
           /\ ~Unsigned(d.hard_constraints[i].value)
           /\ \A j \in 1..(i - 1) : ~Settles(d.candidates[k], d.hard_constraints[j])
<1>1. PICK k \in 1..Len(d.candidates) : Fate(d, d.candidates[k]) = "throws"
  BY DEF RankingThrows
<1>2. PICK c : c = d.candidates[k]
  OBVIOUS
<1>3. PICK i \in 1..Len(d.hard_constraints) :
        /\ eval_constraint(c, d.hard_constraints[i]) = "throws"
        /\ \A j \in 1..(i - 1) : ~Settles(c, d.hard_constraints[j])
  BY <1>1, <1>2, FateFacts
<1>4. IsNumber(d.hard_constraints[i].value) /\ ~Unsigned(d.hard_constraints[i].value)
  BY <1>3, EvalThrows
<1> QED
  BY <1>2, <1>3, <1>4

LEMMA DecisionFacts ==
  ASSUME NEW d \in PlacementDecision
  PROVE  /\ d.candidates \in Seq(PlacementCandidate) /\ Len(d.candidates) \in Nat
         /\ \A i \in 1..Len(d.candidates) : d.candidates[i] \in PlacementCandidate
         /\ d.hard_constraints \in Seq(PlacementConstraint) /\ Len(d.hard_constraints) \in Nat
         /\ d.selected_candidate \in Nat \ {0}
         /\ ~(d.complete /\ d.reconstructed)
         /\ d.complete \in BOOLEAN /\ d.reconstructed \in BOOLEAN
BY DEF PlacementDecision

\* What the changes leave alone.
LEMMA ChangedFacts ==
  ASSUME NEW d \in PlacementDecision, NEW changes
  PROVE  /\ Changed(d, changes).hard_constraints = d.hard_constraints
         /\ Changed(d, changes).candidates =
              [i \in 1..Len(d.candidates) |-> After(d.candidates[i], changes)]
         /\ Len(Changed(d, changes).candidates) = Len(d.candidates)
<1>1. /\ Changed(d, changes).hard_constraints = d.hard_constraints
      /\ Changed(d, changes).candidates =
           [i \in 1..Len(d.candidates) |-> After(d.candidates[i], changes)]
  BY DEF Changed, PlacementDecision
<1> QED
  BY <1>1, DecisionFacts

LEMMA NotExcludedBefore ==
  ASSUME NEW d \in PlacementDecision, NEW c, NEW i \in 1..Len(d.hard_constraints),
         \A j \in 1..(i - 1) : ~Settles(c, d.hard_constraints[j])
  PROVE  ~Excluded([d EXCEPT !.hard_constraints = SubSeq(@, 1, i - 1)], c)
<1>1. d.hard_constraints \in Seq(PlacementConstraint) /\ Len(d.hard_constraints) \in Nat
  BY DecisionFacts
<1>2. PICK e : e = [d EXCEPT !.hard_constraints = SubSeq(@, 1, i - 1)]
  OBVIOUS
<1>3. e.hard_constraints = SubSeq(d.hard_constraints, 1, i - 1)
  BY <1>2 DEF PlacementDecision
<1>4. /\ Len(SubSeq(d.hard_constraints, 1, i - 1)) = i - 1
      /\ \A j \in 1..(i - 1) : SubSeq(d.hard_constraints, 1, i - 1)[j] = d.hard_constraints[j]
  BY <1>1
<1>5. \A j \in 1..Len(e.hard_constraints) : ~Settles(c, e.hard_constraints[j])
  BY <1>3, <1>4
<1> QED
  BY <1>2, <1>5 DEF Excluded, Settles

LEMMA DecisionKnown ==
  ASSUME AInv, Known(query.id)
  PROVE  Decision \in PlacementDecision
BY DEF AInv, Known, Decision

\* An analysis fails only because of a numeric constraint that is signed, met
\* before any that excludes the candidate: for every decision and change.
THEOREM OnlySignedConstraintsThrow == Spec => []ThrowsOnlyOnSigned
<1>1. ASSUME AInv, answer.kind = "throws"
      PROVE  ThrowsOnlyOnSigned
  <2>1. PICK d : d = Decision
    OBVIOUS
  <2>2. ThrowsOK /\ d \in PlacementDecision
    BY <1>1, <2>1, DecisionKnown DEF AInv, Answered, ThrowsOK
  <2>3. d.hard_constraints \in Seq(PlacementConstraint) /\ Len(d.hard_constraints) \in Nat
        /\ d.candidates \in Seq(PlacementCandidate) /\ Len(d.candidates) \in Nat
    BY <2>2, DecisionFacts
  <2>4. CASE query.name \in {"explain", "replay"} /\ RankingThrows(d)
    <3>1. PICK i \in 1..Len(d.hard_constraints), k \in 1..Len(d.candidates) :
            /\ IsNumber(d.hard_constraints[i].value)
            /\ ~Unsigned(d.hard_constraints[i].value)
            /\ \A j \in 1..(i - 1) : ~Settles(d.candidates[k], d.hard_constraints[j])
      BY <2>3, <2>4, ThrowingConstraint
    <3>2. PICK c : c = d.candidates[k]
      OBVIOUS
    <3>3. c \in Range(d.candidates)
      BY <2>3, <3>2 DEF Range
    <3>4. ~Excluded([d EXCEPT !.hard_constraints = SubSeq(@, 1, i - 1)], c)
      BY <2>2, <3>1, <3>2, NotExcludedBefore
    <3> QED
      BY <2>1, <3>1, <3>3, <3>4 DEF ThrowsOnlyOnSigned
  <2>5. CASE query.name = "counterfactual" /\ RankingThrows(Changed(d, query.changes))
    <3>1. PICK changes : changes = query.changes
      OBVIOUS
    <3>2. PICK e : e = Changed(d, changes)
      OBVIOUS
    <3>3. e.hard_constraints = d.hard_constraints /\ Len(e.candidates) = Len(d.candidates)
      BY <2>2, <3>2, ChangedFacts
    <3>4. PICK i \in 1..Len(d.hard_constraints), k \in 1..Len(d.candidates) :
            /\ IsNumber(d.hard_constraints[i].value)
            /\ ~Unsigned(d.hard_constraints[i].value)
      BY <2>3, <2>5, <3>1, <3>2, <3>3, ThrowingConstraint
    <3>5. d.candidates[k] \in Range(d.candidates)
      BY <2>3 DEF Range
    <3> QED
      BY <2>1, <2>5, <3>4, <3>5 DEF ThrowsOnlyOnSigned
  <2> QED
    BY <2>1, <2>2, <2>4, <2>5 DEF ThrowsOK
<1>2. AInv => ThrowsOnlyOnSigned
  BY <1>1 DEF ThrowsOnlyOnSigned
<1> QED
  BY <1>2, AnalysisInvariant, PTL

(***************************************************************************)
(* Confidence.                                                             *)
(***************************************************************************)

LEMMA ConfidenceFacts ==
  ASSUME NEW d \in PlacementDecision, NEW r
  PROVE  /\ d.reconstructed <=> ConfidenceClass(d, r) = "Reconstructed"
         /\ ConfidenceClass(d, r) = "CompleteMeasured" => d.complete /\ r.missing = {}
<1>1. PICK m : m = MeasuredEvidence(d)
  OBVIOUS
<1>2. PICK t : t = TotalEvidence(d)
  OBVIOUS
<1>3. ~(d.complete /\ d.reconstructed)
  BY DecisionFacts
<1>4. PICK A : A = (t > 0 /\ 100 * m >= 95 * t)
  OBVIOUS
<1>5. PICK B : B = (t > 0 /\ 100 * m >= 60 * t)
  OBVIOUS
<1>6. ConfidenceClass(d, r) =
        IF d.complete /\ t > 0 /\ 100 * m >= 95 * t /\ r.missing = {} THEN "CompleteMeasured"
        ELSE IF t > 0 /\ 100 * m >= 60 * t /\ ~d.reconstructed THEN "StrongMixedEvidence"
        ELSE IF d.reconstructed THEN "Reconstructed"
        ELSE IF 100 * m > 20 * t THEN "PartialEvidence"
        ELSE "InsufficientEvidence"
  BY <1>1, <1>2 DEF ConfidenceClass
<1> QED
  BY <1>3, <1>6

\* Full confidence is given only to a complete set without missing evidence,
\* and a reconstructed set is never called anything else: for every decision.
THEOREM ExplanationsAreHonest == Spec => []ConfidenceIsHonest
<1>1. ASSUME AInv, answer.kind = "explanation"
      PROVE  ConfidenceIsHonest
  <2>1. PICK d : d = Decision
    OBVIOUS
  <2>2. ExplanationOK /\ d \in PlacementDecision
    BY <1>1, <2>1, DecisionKnown DEF AInv, Answered, ExplanationOK
  <2>3. PICK r \in rank_candidates(d) : answer.of = build_explanation(d, r)
    BY <2>1, <2>2 DEF ExplanationOK
  <2>4. Absent(d) \subseteq r.missing
    <3>1. PICK f : r = RankingOf(d, f)
      BY <2>3 DEF rank_candidates
    <3>2. r.missing = MissingEvidence(d)
      BY <3>1 DEF RankingOf
    <3>3. Absent(d) \subseteq MissingEvidence(d)
      BY DEF MissingEvidence
    <3> QED
      BY <3>2, <3>3
  <2>5. /\ answer.of.confidence = ConfidenceClass(d, r)
        /\ answer.of.missing_evidence = r.missing \cup Absent(d)
    BY <2>3 DEF build_explanation
  <2>6. /\ d.reconstructed <=> ConfidenceClass(d, r) = "Reconstructed"
        /\ ConfidenceClass(d, r) = "CompleteMeasured" => d.complete /\ r.missing = {}
    BY <2>2, ConfidenceFacts
  <2> QED
    BY <2>1, <2>4, <2>5, <2>6 DEF ConfidenceIsHonest
<1>2. AInv => ConfidenceIsHonest
  BY <1>1 DEF ConfidenceIsHonest
<1> QED
  BY <1>2, AnalysisInvariant, PTL

(***************************************************************************)
(* Rankings.                                                               *)
(***************************************************************************)

LEMMA StableSortsList ==
  ASSUME NEW s, NEW S, NEW f \in Sorted(s, S)
  PROVE  f \in Listings(S)
BY DEF Sorted, StableSorts

\* The ranking r of the candidates cs lists the survivors S in the order f.
RankedBy(d, r, cs, S, f) ==
  /\ r.ranked = [p \in 1..Cardinality(S) |-> cs[f[p]].candidate_id]
  /\ Len(r.ranked) = Cardinality(S)
  /\ r.rejections = Rejections(d)
  /\ r.selected = IF S = {} THEN 0 ELSE cs[f[1]].candidate_id
  /\ f \in Listings(S)

\* A ranking lists the survivors, in an order that stable_sort may give them.
LEMMA RankingFacts ==
  ASSUME NEW d \in PlacementDecision, NEW r \in rank_candidates(d)
  PROVE  \E f \in Sorted(d.candidates, Survivors(d)) :
           RankedBy(d, r, d.candidates, Survivors(d), f)
<1> DEFINE cs == d.candidates
           S == Survivors(d)
<1>1. PICK f \in Sorted(cs, S) : r = RankingOf(d, f)
  BY DEF rank_candidates, Sorted
<1>2. f \in Listings(S)
  BY <1>1, StableSortsList
<1>3. IsFiniteSet(S)
  BY DecisionFacts, PlacesFinite DEF Survivors
<1>4. f \in [1..Cardinality(S) -> S] /\ Cardinality(S) \in Nat
  BY <1>2, <1>3, ListingFacts
<1>5. /\ r.ranked = [p \in DOMAIN f |-> cs[f[p]].candidate_id]
      /\ r.rejections = Rejections(d)
      /\ r.selected = IF S = {} THEN 0 ELSE cs[f[1]].candidate_id
  BY <1>1 DEF RankingOf
<1>6. r.ranked = [p \in 1..Cardinality(S) |-> cs[f[p]].candidate_id]
  BY <1>4, <1>5
<1>7. Len(r.ranked) = Cardinality(S)
  BY <1>4, <1>6
<1> QED
  BY <1>1, <1>2, <1>5, <1>6, <1>7 DEF RankedBy

LEMMA SurvivorsFinite ==
  ASSUME NEW d \in PlacementDecision
  PROVE  Survivors(d) \in SUBSET (1..Len(d.candidates)) /\ IsFiniteSet(Survivors(d))
<1>1. Survivors(d) \in SUBSET (1..Len(d.candidates)) /\ Len(d.candidates) \in Nat
  BY DecisionFacts DEF Survivors
<1> QED
  BY <1>1, PlacesFinite

LEMMA OrdinaryComparables ==
  ASSUME NEW d \in PlacementDecision, Ordinary(d)
  PROVE  \A i \in 1..Len(d.candidates) : d.candidates[i] \in Comparables
BY DecisionFacts DEF Ordinary, Comparables

\* Unless the ranking throws, a candidate survives exactly when no constraint
\* excludes it.
LEMMA SurvivorsAre ==
  ASSUME NEW d \in PlacementDecision, ~RankingThrows(d), NEW i \in 1..Len(d.candidates)
  PROVE  /\ i \in Survivors(d) <=> ~Excluded(d, d.candidates[i])
         /\ Fate(d, d.candidates[i]) = "violation" <=> Excluded(d, d.candidates[i])
<1>1. PICK c : c = d.candidates[i]
  OBVIOUS
<1>2. Fate(d, c) # "throws"
  BY <1>1 DEF RankingThrows
<1>3. Len(d.hard_constraints) \in Nat
  BY DecisionFacts
<1>4. Fate(d, c) \in {"survives", "violation", "throws"}
  BY <1>3, FateFacts
<1>5. Fate(d, c) = "survives" <=>
        \A k \in 1..Len(d.hard_constraints) : ~Settles(c, d.hard_constraints[k])
  BY <1>3, FateFacts
<1>6. Fate(d, c) = "violation" => Excluded(d, c)
  BY <1>3, FateFacts DEF Excluded
<1>7. Excluded(d, c) => Fate(d, c) # "survives"
  BY <1>5 DEF Excluded, Settles
<1> QED
  BY <1>1, <1>2, <1>4, <1>6, <1>7 DEF Survivors

LEMMA RejectedIds ==
  ASSUME NEW d, NEW id
  PROVE  id \in DOMAIN Rejections(d) <=>
           \E i \in 1..Len(d.candidates) : /\ Fate(d, d.candidates[i]) = "violation"
                                           /\ d.candidates[i].candidate_id = id
BY DEF Rejections

\* A candidate with costs is never ranked after one without.
LEMMA CostsFirst ==
  ASSUME NEW d \in PlacementDecision, Ordinary(d), NEW S, S = Survivors(d),
         NEW f \in Sorted(d.candidates, S),
         NEW i \in 1..Cardinality(S), NEW j \in 1..Cardinality(S), i < j,
         d.candidates[f[j]].costs # <<>>
  PROVE  d.candidates[f[i]].costs # <<>>
<1>1. PICK cs : cs = d.candidates
  OBVIOUS
<1>2. IsFiniteSet(S) /\ S \in SUBSET (1..Len(cs))
  BY <1>1, SurvivorsFinite
<1>3. \A k \in S : cs[k] \in Comparables
  BY <1>1, <1>2, OrdinaryComparables
<1>4. f \in Sorted(cs, S)
  BY <1>1
<1>5. PICK u : u = [p \in 1..Cardinality(S) |-> cs[f[p]]]
  OBVIOUS
<1>6. InOrder(u, Cardinality(S))
  BY <1>2, <1>3, <1>4, <1>5, StableSortFacts
<1>7. ~Precedes(u[j], u[i])
  BY <1>6 DEF InOrder
<1>8. u[i] = d.candidates[f[i]] /\ u[j] = d.candidates[f[j]]
  BY <1>1, <1>5
<1> QED
  BY <1>7, <1>8 DEF Precedes, has_cost_evidence

LEMMA RankingSound ==
  ASSUME AInv, answer.kind = "replay"
  PROVE  RankingIsSound
<1>1. PICK d : d = Decision
  OBVIOUS
<1>2. PICK r : r = answer.ranking
  OBVIOUS
<1>3. ReplayOK /\ d \in PlacementDecision
  BY <1>1, DecisionKnown DEF AInv, Answered, ReplayOK
<1>4. ~RankingThrows(d) /\ r \in rank_candidates(d)
  BY <1>1, <1>2, <1>3 DEF ReplayOK
<1>5. PICK S : S = Survivors(d)
  OBVIOUS
<1>16. PICK f \in Sorted(d.candidates, S) : RankedBy(d, r, d.candidates, S, f)
  BY <1>3, <1>4, <1>5, RankingFacts
<1>6. /\ r.ranked = [p \in 1..Cardinality(S) |-> d.candidates[f[p]].candidate_id]
      /\ Len(r.ranked) = Cardinality(S)
      /\ r.rejections = Rejections(d)
      /\ f \in Listings(S)
  BY <1>16 DEF RankedBy
<1>7. S \in SUBSET (1..Len(d.candidates)) /\ IsFiniteSet(S)
  BY <1>3, <1>5, SurvivorsFinite
<1>8. /\ Cardinality(S) \in Nat
      /\ f \in [1..Cardinality(S) -> S]
      /\ \A i \in S : \E p \in 1..Cardinality(S) : f[p] = i
  BY <1>6, <1>7, ListingFacts
<1>9. S = {i \in 1..Len(d.candidates) : ~Excluded(d, d.candidates[i])}
  BY <1>3, <1>4, <1>5, <1>7, SurvivorsAre
<1>10. ASSUME NEW i \in 1..Len(d.candidates), Excluded(d, d.candidates[i])
       PROVE  d.candidates[i].candidate_id \in DOMAIN r.rejections
  <2>1. Fate(d, d.candidates[i]) = "violation"
    BY <1>3, <1>4, <1>10, SurvivorsAre
  <2> QED
    BY <1>6, <2>1, RejectedIds
<1>11. ASSUME NEW i \in 1..Len(d.candidates), ~Excluded(d, d.candidates[i])
       PROVE  d.candidates[i].candidate_id \in Range(r.ranked)
  <2>1. PICK p \in 1..Cardinality(S) : f[p] = i
    BY <1>8, <1>9, <1>11
  <2>2. p \in DOMAIN r.ranked /\ r.ranked[p] = d.candidates[i].candidate_id
    BY <1>6, <2>1
  <2> QED
    BY <2>2 DEF Range
<1>12. ASSUME Ordinary(d),
              \A i, j \in 1..Len(d.candidates) :
                d.candidates[i].candidate_id = d.candidates[j].candidate_id => i = j,
              NEW i \in 1..Len(r.ranked), NEW j \in 1..Len(r.ranked), i < j,
              NEW k \in 1..Len(d.candidates),
              d.candidates[k].candidate_id = r.ranked[j], d.candidates[k].costs # <<>>
       PROVE  \E m \in 1..Len(d.candidates) :
                d.candidates[m].candidate_id = r.ranked[i] /\ d.candidates[m].costs # <<>>
  <2>1. i \in 1..Cardinality(S) /\ j \in 1..Cardinality(S)
    BY <1>6
  <2>2. f[i] \in 1..Len(d.candidates) /\ f[j] \in 1..Len(d.candidates)
    BY <1>7, <1>8, <2>1
  <2>3. r.ranked[i] = d.candidates[f[i]].candidate_id
        /\ r.ranked[j] = d.candidates[f[j]].candidate_id
    BY <1>6, <2>1
  <2>4. k = f[j]
    BY <1>12, <2>2, <2>3
  <2>5. d.candidates[f[i]].costs # <<>>
    BY <1>3, <1>5, <1>6, <1>12, <2>1, <2>4, CostsFirst
  <2> QED
    BY <2>2, <2>3, <2>5
<1>13. Len(r.ranked) = Cardinality({i \in 1..Len(d.candidates) : ~Excluded(d, d.candidates[i])})
  BY <1>6, <1>9
<1>14. \A i \in 1..Len(d.candidates) :
         IF Excluded(d, d.candidates[i]) THEN d.candidates[i].candidate_id \in DOMAIN r.rejections
                                         ELSE d.candidates[i].candidate_id \in Range(r.ranked)
  BY <1>10, <1>11
<1>15. ASSUME Ordinary(d),
              \A i, j \in 1..Len(d.candidates) :
                d.candidates[i].candidate_id = d.candidates[j].candidate_id => i = j
       PROVE  \A i, j \in 1..Len(r.ranked) :
                i < j /\ (\E k \in 1..Len(d.candidates) :
                            d.candidates[k].candidate_id = r.ranked[j]
                            /\ d.candidates[k].costs # <<>>)
                => \E m \in 1..Len(d.candidates) :
                     d.candidates[m].candidate_id = r.ranked[i] /\ d.candidates[m].costs # <<>>
  BY <1>12, <1>15
<1> QED
  BY <1>1, <1>2, <1>13, <1>14, <1>15 DEF RankingIsSound

\* Every candidate is ranked or rejected, and for the right reason; those
\* without cost evidence come last: for every decision and every result
\* std::stable_sort may have.
THEOREM RankingsAreSound == Spec => []RankingIsSound
<1>1. AInv => RankingIsSound
  BY RankingSound DEF RankingIsSound
<1> QED
  BY <1>1, AnalysisInvariant, PTL

\* The fate of a candidate depends on the constraints alone.
LEMMA FateSame ==
  ASSUME NEW d, NEW e, e.hard_constraints = d.hard_constraints, NEW c
  PROVE  Fate(e, c) = Fate(d, c)
<1>1. Decisive(e, c) = Decisive(d, c)
  BY DEF Decisive
<1> QED
  BY <1>1 DEF Fate

\* The bijection of two sets of places is one of the places of survivors.
LEMMA SurvivorsPermute ==
  ASSUME NEW d \in PlacementDecision, NEW e, e.hard_constraints = d.hard_constraints,
         NEW n, n = Len(d.candidates), Len(e.candidates) = n,
         NEW h \in Bijection(1..n, 1..n),
         \A i \in 1..n : e.candidates[i] = d.candidates[h[i]]
  PROVE  /\ [i \in Survivors(e) |-> h[i]] \in Bijection(Survivors(e), Survivors(d))
         /\ DOMAIN Rejections(e) = DOMAIN Rejections(d)
<1>1. /\ h \in [1..n -> 1..n]
      /\ \A i, j \in 1..n : h[i] = h[j] => i = j
      /\ \A k \in 1..n : \E i \in 1..n : h[i] = k
  BY DEF Bijection, Injection, Surjection, IsInjective
<1>2. \A i \in 1..n : Fate(e, e.candidates[i]) = Fate(d, d.candidates[h[i]])
  BY FateSame
<1>3. PICK S : S = Survivors(d)
  OBVIOUS
<1>4. PICK T : T = Survivors(e)
  OBVIOUS
<1>5. /\ \A i : i \in S <=> i \in 1..n /\ Fate(d, d.candidates[i]) = "survives"
      /\ \A i : i \in T <=> i \in 1..n /\ Fate(e, e.candidates[i]) = "survives"
  BY <1>3, <1>4 DEF Survivors
<1>6. PICK g : g = [i \in T |-> h[i]]
  OBVIOUS
<1>7. g \in [T -> S]
  BY <1>1, <1>2, <1>5, <1>6
<1>8. \A i, j \in T : g[i] = g[j] => i = j
  BY <1>1, <1>5, <1>6
<1>9. ASSUME NEW k \in S
      PROVE  \E i \in T : g[i] = k
  <2>1. PICK i \in 1..n : h[i] = k
    BY <1>1, <1>5
  <2>2. i \in T
    BY <1>2, <1>5, <2>1
  <2> QED
    BY <1>6, <2>1, <2>2
<1>10. g \in Bijection(T, S)
  BY <1>7, <1>8, <1>9 DEF Bijection, Injection, Surjection, IsInjective
<1>11. ASSUME NEW id
       PROVE  id \in DOMAIN Rejections(e) <=> id \in DOMAIN Rejections(d)
  <2>1. id \in DOMAIN Rejections(e) <=>
          \E i \in 1..n : /\ Fate(e, e.candidates[i]) = "violation"
                          /\ e.candidates[i].candidate_id = id
    BY RejectedIds
  <2>2. id \in DOMAIN Rejections(d) <=>
          \E i \in 1..n : /\ Fate(d, d.candidates[i]) = "violation"
                          /\ d.candidates[i].candidate_id = id
    BY RejectedIds
  <2>3. ASSUME NEW i \in 1..n, Fate(d, d.candidates[i]) = "violation",
               d.candidates[i].candidate_id = id
        PROVE  \E j \in 1..n : /\ Fate(e, e.candidates[j]) = "violation"
                               /\ e.candidates[j].candidate_id = id
    <3>1. PICK j \in 1..n : h[j] = i
      BY <1>1
    <3> QED
      BY <1>2, <2>3, <3>1
  <2>4. ASSUME NEW j \in 1..n, Fate(e, e.candidates[j]) = "violation",
               e.candidates[j].candidate_id = id
        PROVE  \E i \in 1..n : /\ Fate(d, d.candidates[i]) = "violation"
                               /\ d.candidates[i].candidate_id = id
    <3>1. h[j] \in 1..n /\ d.candidates[h[j]] = e.candidates[j]
      BY <1>1
    <3> QED
      BY <1>2, <2>4, <3>1
  <2> QED
    BY <2>1, <2>2, <2>3, <2>4
<1> QED
  BY <1>3, <1>4, <1>6, <1>10, <1>11

\* Two decisions with the same candidates, in whatever order, and the same
\* constraints have the same ranking.
LEMMA SameCandidates ==
  ASSUME NEW d \in PlacementDecision, Ordinary(d),
         NEW e \in PlacementDecision, e.hard_constraints = d.hard_constraints,
         NEW n, n = Len(d.candidates), Len(e.candidates) = n,
         NEW h \in Bijection(1..n, 1..n),
         \A i \in 1..n : e.candidates[i] = d.candidates[h[i]],
         NEW r \in rank_candidates(d), NEW q \in rank_candidates(e)
  PROVE  /\ q.ranked = r.ranked
         /\ q.selected = r.selected
         /\ DOMAIN q.rejections = DOMAIN r.rejections
<1>1. PICK S : S = Survivors(d)
  OBVIOUS
<1>2. PICK T : T = Survivors(e)
  OBVIOUS
<1>3. PICK s : s = d.candidates
  OBVIOUS
<1>4. PICK t : t = e.candidates
  OBVIOUS
<1>5. PICK g : g = [i \in T |-> h[i]]
  OBVIOUS
<1>6. g \in Bijection(T, S) /\ DOMAIN Rejections(e) = DOMAIN Rejections(d)
  BY <1>1, <1>2, <1>5, SurvivorsPermute
<1>7. T \in SUBSET (1..n) /\ S \in SUBSET (1..n) /\ IsFiniteSet(S)
  BY <1>1, <1>2, SurvivorsFinite
<1>8. \A i \in T : t[i] = s[g[i]]
  BY <1>3, <1>4, <1>5, <1>7
<1>9. \A i \in S : s[i] \in Comparables
  BY <1>3, <1>7, OrdinaryComparables
<1>15. PICK f \in Sorted(s, S) : RankedBy(d, r, s, S, f)
  BY <1>1, <1>3, RankingFacts
<1>10. /\ r.ranked = [p \in 1..Cardinality(S) |-> s[f[p]].candidate_id]
       /\ r.rejections = Rejections(d)
       /\ r.selected = IF S = {} THEN 0 ELSE s[f[1]].candidate_id
  BY <1>15 DEF RankedBy
<1>16. PICK k \in Sorted(t, T) : RankedBy(e, q, t, T, k)
  BY <1>2, <1>4, RankingFacts
<1>11. /\ q.ranked = [p \in 1..Cardinality(T) |-> t[k[p]].candidate_id]
       /\ q.rejections = Rejections(e)
       /\ q.selected = IF T = {} THEN 0 ELSE t[k[1]].candidate_id
  BY <1>16 DEF RankedBy
<1>12. /\ Cardinality(T) = Cardinality(S)
       /\ \A p \in 1..Cardinality(S) : s[f[p]].candidate_id = t[k[p]].candidate_id
  <2>1. IsFiniteSet(S) /\ g \in Bijection(T, S)
    BY <1>6, <1>7
  <2>2. Cardinality(T) = Cardinality(S)
    BY <1>8, <1>9, <2>1, SameRanking
  <2>3. \A p \in 1..Cardinality(S) : s[f[p]].candidate_id = t[k[p]].candidate_id
    BY <1>8, <1>9, <2>1, SameRanking
  <2> QED
    BY <2>2, <2>3
<1>13. q.ranked = r.ranked
  BY <1>10, <1>11, <1>12
<1>14. q.selected = r.selected
  <2>1. S = {} <=> T = {}
    BY <1>6 DEF Bijection, Injection, Surjection
  <2>2. S # {} => 1 \in 1..Cardinality(S)
    <3>1. Cardinality(S) \in Nat /\ (Cardinality(S) = 0 <=> S = {})
      BY <1>7, FS_CardinalityType, FS_EmptySet
    <3> QED
      BY <3>1
  <2> QED
    BY <1>10, <1>11, <1>12, <2>1, <2>2
<1> QED
  BY <1>6, <1>10, <1>11, <1>13, <1>14

LEMMA RankingOrderFree ==
  ASSUME AInv, answer.kind = "replay", Ordinary(Decision),
         NEW cs \in Rearrangements(Decision.candidates),
         NEW r \in rank_candidates([Decision EXCEPT !.candidates = cs])
  PROVE  /\ r.ranked = answer.ranking.ranked
         /\ DOMAIN r.rejections = DOMAIN answer.ranking.rejections
<1>1. PICK d : d = Decision
  OBVIOUS
<1>2. ReplayOK /\ d \in PlacementDecision
  BY <1>1, DecisionKnown DEF AInv, Answered, ReplayOK
<1>3. PICK q : q = answer.ranking
  OBVIOUS
<1>4. q \in rank_candidates(d)
  BY <1>1, <1>2, <1>3 DEF ReplayOK
<1>5. PICK n : n = Len(d.candidates)
  OBVIOUS
<1>6. n \in Nat /\ d.candidates \in Seq(PlacementCandidate)
  BY <1>2, <1>5, DecisionFacts
<1>7. PICK h \in Bijection(1..n, 1..n) : cs = [i \in 1..n |-> d.candidates[h[i]]]
  BY <1>1, <1>5 DEF Rearrangements
<1>8. h \in [1..n -> 1..n]
  BY <1>7 DEF Bijection, Injection, Surjection
<1>9. cs \in [1..n -> PlacementCandidate]
  BY <1>5, <1>6, <1>7, <1>8
<1>10. cs \in Seq(PlacementCandidate) /\ Len(cs) = n
  BY <1>6, <1>9
<1>11. PICK e : e = [d EXCEPT !.candidates = cs]
  OBVIOUS
<1>12. /\ e \in PlacementDecision
       /\ e.hard_constraints = d.hard_constraints
       /\ e.candidates = cs
  BY <1>2, <1>10, <1>11 DEF PlacementDecision
<1>13. r \in rank_candidates(e)
  BY <1>1, <1>11
<1>14. \A i \in 1..n : e.candidates[i] = d.candidates[h[i]]
  BY <1>7, <1>12
<1>15. /\ r.ranked = q.ranked
       /\ DOMAIN r.rejections = DOMAIN q.rejections
  BY <1>1, <1>2, <1>4, <1>5, <1>7, <1>10, <1>12, <1>13, <1>14, SameCandidates
<1> QED
  BY <1>3, <1>15

\* Whatever the order in which the candidates of a decision were recorded,
\* the same are ranked, in the same order, and the same rejected.
THEOREM RankingsAreOrderFree == Spec => []RankingIsOrderFree
<1>1. AInv => RankingIsOrderFree
  BY RankingOrderFree DEF RankingIsOrderFree
<1> QED
  BY <1>1, AnalysisInvariant, PTL

(***************************************************************************)
(* Replay.                                                                 *)
(***************************************************************************)

\* X is the pair of a and t, followed by s.
Paired(X, a, t, s) ==
  /\ X \in Seq(Int) /\ Len(X) = Len(s) + 2
  /\ X[1] = a /\ X[2] = t
  /\ \A k \in 1..Len(s) : X[k + 2] = s[k]

LEMMA ConcatPairs ==
  ASSUME NEW a \in Int, NEW t \in Int, NEW s \in Seq(Int)
  PROVE  Paired(<<a, t>> \o s, a, t, s)
BY DEF Paired

LEMMA PairedAt ==
  ASSUME NEW X, NEW a, NEW t, NEW s, Paired(X, a, t, s), NEW k \in 1..Len(s), NEW i, i = k + 2
  PROVE  X[i] = s[k]
BY DEF Paired

\* X and Y have the same first n elements.
Agree(X, Y, n) == \A i \in 1..n : X[i] = Y[i]

\* Two lists that begin with the same pair agree as far as what follows it.
LEMMA PairsAgree ==
  ASSUME NEW X, NEW a, NEW t, NEW s \in Seq(Int), Paired(X, a, t, s),
         NEW Y, NEW v \in Seq(Int), Paired(Y, a, t, v),
         NEW n \in Nat, n <= Len(s), n <= Len(v)
  PROVE  Agree(X, Y, n + 2) <=> Agree(s, v, n)
<1>1. Len(s) \in Nat /\ Len(v) \in Nat
  OBVIOUS
<1>2. ASSUME NEW k \in 1..n, NEW i, i = k + 2
      PROVE  X[i] = s[k] /\ Y[i] = v[k]
  <2>1. k \in 1..Len(s) /\ k \in 1..Len(v)
    BY <1>1
  <2> QED
    BY <1>2, <2>1, PairedAt
<1>3. X[1] = Y[1] /\ X[2] = Y[2]
  BY DEF Paired
<1>4. ASSUME \A i \in 1..(n + 2) : X[i] = Y[i], NEW k \in 1..n
      PROVE  s[k] = v[k]
  <2>1. PICK i : i = k + 2
    OBVIOUS
  <2>2. i \in 1..(n + 2)
    BY <2>1
  <2> QED
    BY <1>2, <1>4, <2>1, <2>2
<1>5. ASSUME \A k \in 1..n : s[k] = v[k], NEW i \in 1..(n + 2)
      PROVE  X[i] = Y[i]
  <2>1. CASE i = 1 \/ i = 2
    BY <1>3, <2>1
  <2>2. CASE i # 1 /\ i # 2
    <3>1. PICK k : k = i - 2
      OBVIOUS
    <3>2. k \in 1..n /\ i = k + 2
      BY <2>2, <3>1
    <3> QED
      BY <1>2, <1>5, <3>2
  <2> QED
    BY <2>1, <2>2
<1> QED
  BY <1>4, <1>5 DEF Agree

\* The order of two lists that begin with a pair.
PairLess(a, t, s, b, u, v) == a < b \/ (a = b /\ (t < u \/ (t = u /\ LexLess(s, v))))

LEMMA LexPair ==
  ASSUME NEW a \in Int, NEW t \in Int, NEW s \in Seq(Int), NEW X, Paired(X, a, t, s),
         NEW b \in Int, NEW u \in Int, NEW v \in Seq(Int), NEW Y, Paired(Y, b, u, v)
  PROVE  LexLess(X, Y) <=> PairLess(a, t, s, b, u, v)
<1>1. PICK L : L = Len(s)
  OBVIOUS
<1>2. PICK M : M = Len(v)
  OBVIOUS
<1>3. L \in Nat /\ M \in Nat
  BY <1>1, <1>2
<1>4. Len(X) = L + 2 /\ X[1] = a /\ X[2] = t /\ Len(Y) = M + 2 /\ Y[1] = b /\ Y[2] = u
  BY <1>1, <1>2 DEF Paired
<1>5. ASSUME a = b, t = u, NEW n \in Nat, n <= L, n < M
      PROVE  /\ (\A i \in 1..(n + 2) : X[i] = Y[i]) <=> (\A k \in 1..n : s[k] = v[k])
             /\ n < L => X[n + 3] = s[n + 1] /\ Y[n + 3] = v[n + 1]
  <2>1. n <= Len(s) /\ n <= Len(v)
    BY <1>1, <1>2, <1>3, <1>5
  <2>2. n < L => n + 1 \in 1..Len(s) /\ n + 1 \in 1..Len(v) /\ n + 3 = (n + 1) + 2
    BY <1>1, <1>2, <1>3, <1>5
  <2>3. ASSUME n < L
        PROVE  X[n + 3] = s[n + 1] /\ Y[n + 3] = v[n + 1]
    <3>1. PICK k : k = n + 1
      OBVIOUS
    <3>2. PICK i : i = n + 3
      OBVIOUS
    <3>3. k \in 1..Len(s) /\ k \in 1..Len(v) /\ i = k + 2
      BY <2>2, <2>3, <3>1, <3>2
    <3>4. X[i] = s[k] /\ Y[i] = v[k]
      BY <3>3, PairedAt
    <3> QED
      BY <3>1, <3>2, <3>4
  <2>4. Paired(Y, a, t, v)
    BY <1>5
  <2>5. (\A i \in 1..(n + 2) : X[i] = Y[i]) <=> (\A k \in 1..n : s[k] = v[k])
    <3>1. Agree(X, Y, n + 2) <=> Agree(s, v, n)
      BY <2>1, <2>4, PairsAgree
    <3> QED
      BY <3>1 DEF Agree
  <2> QED
    BY <2>3, <2>5
<1>6. LexLess(X, Y) <=>
        \E m \in 0..(L + 2) : /\ m < M + 2
                              /\ \A i \in 1..m : X[i] = Y[i]
                              /\ m = L + 2 \/ X[m + 1] < Y[m + 1]
  BY <1>4 DEF LexLess
<1>7. LexLess(s, v) <=>
        \E n \in 0..L : /\ n < M
                        /\ \A k \in 1..n : s[k] = v[k]
                        /\ n = L \/ s[n + 1] < v[n + 1]
  BY <1>1, <1>2 DEF LexLess
<1>8. ASSUME a < b
      PROVE  LexLess(X, Y)
  <2>1. 0 \in 0..(L + 2) /\ 0 < M + 2 /\ X[0 + 1] < Y[0 + 1] /\ \A i \in 1..0 : X[i] = Y[i]
    BY <1>3, <1>4, <1>8
  <2> QED
    BY <1>6, <2>1
<1>9. ASSUME a = b, t < u
      PROVE  LexLess(X, Y)
  <2>1. 1 \in 0..(L + 2) /\ 1 < M + 2 /\ X[1 + 1] < Y[1 + 1] /\ \A i \in 1..1 : X[i] = Y[i]
    BY <1>3, <1>4, <1>9
  <2> QED
    BY <1>6, <2>1
<1>10. ASSUME a = b, t = u, LexLess(s, v)
       PROVE  LexLess(X, Y)
  <2>1. PICK n \in 0..L : /\ n < M
                          /\ \A k \in 1..n : s[k] = v[k]
                          /\ n = L \/ s[n + 1] < v[n + 1]
    BY <1>7, <1>10
  <2>2. PICK m : m = n + 2
    OBVIOUS
  <2>3. n \in Nat /\ n <= L /\ m \in 0..(L + 2) /\ m < M + 2 /\ m + 1 = n + 3
        /\ (n = L => m = L + 2)
    BY <1>3, <2>1, <2>2
  <2>4. \A i \in 1..m : X[i] = Y[i]
    BY <1>5, <1>10, <2>1, <2>2, <2>3
  <2>5. n # L => X[m + 1] = s[n + 1] /\ Y[m + 1] = v[n + 1]
    <3>1. n # L => n < L
      BY <1>3, <2>3
    <3> QED
      BY <1>5, <1>10, <2>1, <2>3, <3>1
  <2> QED
    BY <1>6, <2>1, <2>3, <2>4, <2>5
<1>11. ASSUME LexLess(X, Y)
       PROVE  a < b \/ (a = b /\ (t < u \/ (t = u /\ LexLess(s, v))))
  <2>1. PICK m \in 0..(L + 2) : /\ m < M + 2
                                /\ \A i \in 1..m : X[i] = Y[i]
                                /\ m = L + 2 \/ X[m + 1] < Y[m + 1]
    BY <1>6, <1>11
  <2>2. CASE m = 0
    BY <1>3, <1>4, <2>1, <2>2
  <2>3. CASE m = 1
    BY <1>3, <1>4, <2>1, <2>3
  <2>4. CASE m # 0 /\ m # 1
    <3>1. PICK n : n = m - 2
      OBVIOUS
    <3>2. /\ n \in Nat /\ n \in 0..L /\ n <= L /\ n < M /\ m = n + 2 /\ m + 1 = n + 3
          /\ (m = L + 2 => n = L)
      BY <1>3, <2>1, <2>4, <3>1
    <3>3. 1 \in 1..m /\ 2 \in 1..m
      BY <3>2
    <3>4. a = b /\ t = u
      BY <1>4, <2>1, <3>3
    <3>5. \A k \in 1..n : s[k] = v[k]
      BY <1>5, <2>1, <3>2, <3>4
    <3>6. n # L => X[m + 1] = s[n + 1] /\ Y[m + 1] = v[n + 1]
      <4>1. n # L => n < L
        BY <1>3, <3>2
      <4> QED
        BY <1>5, <3>2, <3>4, <4>1
    <3> QED
      BY <1>7, <2>1, <3>2, <3>4, <3>5, <3>6
  <2> QED
    BY <2>2, <2>3, <2>4
<1> QED
  BY <1>8, <1>9, <1>10, <1>11 DEF PairLess

LEMMA PairsEqual ==
  ASSUME NEW a \in Int, NEW t \in Int, NEW s \in Seq(Int), NEW X, Paired(X, a, t, s),
         NEW b \in Int, NEW u \in Int, NEW v \in Seq(Int), NEW Y, Paired(Y, b, u, v)
  PROVE  X = Y <=> a = b /\ t = u /\ s = v
<1>1. ASSUME a = b, t = u, s = v
      PROVE  X = Y
  <2>1. PICK L : L = Len(s)
    OBVIOUS
  <2>2. L \in Nat /\ L <= Len(s) /\ Paired(Y, a, t, s)
    BY <1>1, <2>1
  <2>3. \A i \in 1..(L + 2) : X[i] = Y[i]
    BY <2>2, PairsAgree DEF Agree
  <2>4. X \in Seq(Int) /\ Y \in Seq(Int) /\ Len(X) = L + 2 /\ Len(Y) = L + 2
    BY <2>1, <2>2 DEF Paired
  <2> QED
    BY <2>3, <2>4
<1>2. ASSUME X = Y
      PROVE  a = b /\ t = u /\ s = v
  <2>1. a = b /\ t = u
    BY <1>2 DEF Paired
  <2>2. Len(X) = Len(s) + 2 /\ Len(X) = Len(v) + 2
    BY <1>2 DEF Paired
  <2>3. Len(s) = Len(v)
    BY <2>2
  <2>4. PICK L : L = Len(s)
    OBVIOUS
  <2>5. L \in Nat /\ L <= Len(s) /\ L <= Len(v) /\ Paired(Y, a, t, v)
    BY <2>1, <2>3, <2>4
  <2>6. \A k \in 1..L : s[k] = v[k]
    BY <1>2, <2>5, PairsAgree DEF Agree
  <2>7. s = [k \in 1..L |-> s[k]] /\ v = [k \in 1..L |-> v[k]]
    BY <2>3, <2>4
  <2>8. [k \in 1..L |-> s[k]] = [k \in 1..L |-> v[k]]
    BY <2>6
  <2> QED
    BY <2>1, <2>7, <2>8
<1> QED
  BY <1>1, <1>2

\* What the reference order compares.
KeyOf(c) == << IF c.costs = <<>> THEN 1 ELSE 0, weighted_total(c) >> \o cost_signature(c)

LEMMA KeyFacts ==
  ASSUME NEW c \in Comparables
  PROVE  /\ Paired(KeyOf(c), IF has_cost_evidence(c) THEN 0 ELSE 1,
                   weighted_total(c), cost_signature(c))
         /\ ~has_cost_evidence(c) => weighted_total(c) = 0 /\ cost_signature(c) = <<>>
<1>1. weighted_total(c) \in Int /\ cost_signature(c) \in Seq(Int)
  BY ComparableFacts
<1>2. PICK k : k = IF has_cost_evidence(c) THEN 0 ELSE 1
  OBVIOUS
<1>3. k \in Int /\ k = IF c.costs = <<>> THEN 1 ELSE 0
  BY <1>2 DEF has_cost_evidence
<1>4. KeyOf(c) = <<k, weighted_total(c)>> \o cost_signature(c)
  BY <1>3 DEF KeyOf
<1>5. Paired(KeyOf(c), k, weighted_total(c), cost_signature(c))
  BY <1>1, <1>3, <1>4, ConcatPairs
<1>6. c.costs \in Seq(PlacementCostComponent)
  BY DEF Comparables, PlacementCandidate
<1>7. ~has_cost_evidence(c) => weighted_total(c) = 0
  BY <1>6, TotalIsNumber DEF has_cost_evidence
<1>8. ~has_cost_evidence(c) => cost_signature(c) = <<>>
  BY <1>1 DEF has_cost_evidence, cost_signature
<1> QED
  BY <1>2, <1>5, <1>7, <1>8

\* The comparator of the code decides as the reference does.
LEMMA PreferredPrecedes ==
  ASSUME NEW a \in Comparables, NEW b \in Comparables
  PROVE  Preferred(a, b) <=> Precedes(a, b)
<1>1. Preferred(a, b) <=> \/ LexLess(KeyOf(a), KeyOf(b))
                          \/ KeyOf(a) = KeyOf(b) /\ a.candidate_id < b.candidate_id
  BY DEF Preferred, KeyOf, cost_signature
<1>2. PICK ka : ka = IF has_cost_evidence(a) THEN 0 ELSE 1
  OBVIOUS
<1>3. PICK kb : kb = IF has_cost_evidence(b) THEN 0 ELSE 1
  OBVIOUS
<1>4. PICK ta : ta = weighted_total(a)
  OBVIOUS
<1>5. PICK tb : tb = weighted_total(b)
  OBVIOUS
<1>6. PICK sa : sa = cost_signature(a)
  OBVIOUS
<1>7. PICK sb : sb = cost_signature(b)
  OBVIOUS
<1>8. ka \in Int /\ kb \in Int
  BY <1>2, <1>3
<1>9. /\ ta \in Int /\ tb \in Int /\ sa \in Seq(Int) /\ sb \in Seq(Int)
      /\ has_cost_evidence(a) \in BOOLEAN /\ has_cost_evidence(b) \in BOOLEAN
  BY <1>4, <1>5, <1>6, <1>7, ComparableFacts
<1>10. Paired(KeyOf(a), ka, ta, sa) /\ Paired(KeyOf(b), kb, tb, sb)
  BY <1>2, <1>3, <1>4, <1>5, <1>6, <1>7, KeyFacts
<1>11. LexLess(KeyOf(a), KeyOf(b)) <=>
         ka < kb \/ (ka = kb /\ (ta < tb \/ (ta = tb /\ LexLess(sa, sb))))
  <2>1. PICK x : x = KeyOf(a)
    OBVIOUS
  <2>2. PICK y : y = KeyOf(b)
    OBVIOUS
  <2>3. /\ ta \in Int /\ tb \in Int /\ sa \in Seq(Int) /\ sb \in Seq(Int)
        /\ Paired(x, ka, ta, sa) /\ Paired(y, kb, tb, sb)
    BY <1>9, <1>10, <2>1, <2>2
  <2>4. LexLess(x, y) <=> PairLess(ka, ta, sa, kb, tb, sb)
    BY <1>8, <2>3, LexPair
  <2> QED
    BY <2>1, <2>2, <2>4 DEF PairLess
<1>12. KeyOf(a) = KeyOf(b) <=> ka = kb /\ ta = tb /\ sa = sb
  BY <1>8, <1>9, <1>10, PairsEqual
<1>13. /\ ~has_cost_evidence(a) => ta = 0 /\ sa = <<>>
       /\ ~has_cost_evidence(b) => tb = 0 /\ sb = <<>>
  BY <1>4, <1>5, <1>6, <1>7, KeyFacts
<1>14. sa = sb => ~LexLess(sa, sb)
  BY <1>9, LexOrder
<1>15. Precedes(a, b) <=>
         \/ has_cost_evidence(a) /\ ~has_cost_evidence(b)
         \/ ~has_cost_evidence(a) /\ ~has_cost_evidence(b) /\ a.candidate_id < b.candidate_id
         \/ /\ has_cost_evidence(a) /\ has_cost_evidence(b)
            /\ \/ ta < tb
               \/ ta = tb /\ (LexLess(sa, sb) \/ (sa = sb /\ a.candidate_id < b.candidate_id))
  BY <1>4, <1>5, <1>6, <1>7 DEF Precedes
<1>16. CASE has_cost_evidence(a) /\ has_cost_evidence(b)
  BY <1>1, <1>2, <1>3, <1>9, <1>11, <1>12, <1>15, <1>16
<1>17. CASE ~has_cost_evidence(a) /\ ~has_cost_evidence(b)
  BY <1>1, <1>2, <1>3, <1>11, <1>12, <1>13, <1>14, <1>15, <1>17
<1>18. CASE has_cost_evidence(a) /\ ~has_cost_evidence(b)
  BY <1>1, <1>2, <1>3, <1>11, <1>15, <1>18
<1>19. CASE ~has_cost_evidence(a) /\ has_cost_evidence(b)
  BY <1>1, <1>2, <1>3, <1>11, <1>12, <1>15, <1>19
<1> QED
  BY <1>16, <1>17, <1>18, <1>19

\* The first of a sorted list is one that none of the list precedes, and such
\* a one has its id.
LEMMA FirstIsBest ==
  ASSUME NEW s, NEW S, IsFiniteSet(S), \A i \in S : s[i] \in Comparables,
         NEW f \in Sorted(s, S), S # {}
  PROVE  /\ f[1] \in S
         /\ \A j \in S : ~Precedes(s[j], s[f[1]])
         /\ \A i \in S : (\A j \in S : ~Precedes(s[j], s[i])) =>
              s[i].candidate_id = s[f[1]].candidate_id
<1>1. PICK n : n = Cardinality(S)
  OBVIOUS
<1>2. n \in Nat /\ n # 0
  BY <1>1, FS_CardinalityType, FS_EmptySet
<1>3. f \in Listings(S)
  BY StableSortFacts
<1>4. f \in [1..n -> S] /\ \A i \in S : \E p \in 1..n : f[p] = i
  BY <1>1, <1>3, ListingFacts
<1>5. 1 \in 1..n /\ \A p \in 1..n : p # 1 => 1 < p
  BY <1>2
<1>6. PICK u : u = [p \in 1..n |-> s[f[p]]]
  OBVIOUS
<1>7. InOrder(u, n)
  BY <1>1, <1>6, StableSortFacts
<1>8. \A p \in 1..n : p # 1 => ~Precedes(s[f[p]], s[f[1]])
  BY <1>5, <1>6, <1>7 DEF InOrder
<1>9. \A i \in S : ~Precedes(s[i], s[i])
  BY PrecedesOrder
<1>10. f[1] \in S
  BY <1>4, <1>5
<1>11. ASSUME NEW j \in S
       PROVE  ~Precedes(s[j], s[f[1]])
  <2>1. PICK p \in 1..n : f[p] = j
    BY <1>4
  <2> QED
    BY <1>8, <1>9, <1>10, <2>1
<1>12. ASSUME NEW i \in S, \A j \in S : ~Precedes(s[j], s[i])
       PROVE  s[i].candidate_id = s[f[1]].candidate_id
  <2>1. ~Precedes(s[f[1]], s[i]) /\ ~Precedes(s[i], s[f[1]])
    BY <1>10, <1>11, <1>12
  <2>2. s[i] \in Comparables /\ s[f[1]] \in Comparables
    BY <1>10
  <2> QED
    BY <2>1, <2>2, PrecedesOrder
<1> QED
  BY <1>10, <1>11, <1>12

LEMMA ReplayHonest ==
  ASSUME NEW d \in PlacementDecision, Ordinary(d), ~RankingThrows(d),
         NEW r \in rank_candidates(d),
         NEW S, S = {i \in 1..Len(d.candidates) : ~Excluded(d, d.candidates[i])}
  PROVE  replay_decision(d, r).reproduced <=>
           \E i \in S :
             /\ d.candidates[i].candidate_id = d.selected_candidate
             /\ \A j \in S : ~Preferred(d.candidates[j], d.candidates[i])
<1>1. PICK cs : cs = d.candidates
  OBVIOUS
<1>2. S = Survivors(d)
  <2>1. Survivors(d) \in SUBSET (1..Len(d.candidates))
    BY SurvivorsFinite
  <2> QED
    BY <2>1, SurvivorsAre
<1>3. IsFiniteSet(S) /\ S \in SUBSET (1..Len(cs))
  BY <1>1, <1>2, SurvivorsFinite
<1>4. \A i \in S : cs[i] \in Comparables
  BY <1>1, <1>3, OrdinaryComparables
<1>5. PICK f \in Sorted(cs, S) : RankedBy(d, r, cs, S, f)
  BY <1>1, <1>2, RankingFacts
<1>6. r.selected = IF S = {} THEN 0 ELSE cs[f[1]].candidate_id
  BY <1>5 DEF RankedBy
<1>7. replay_decision(d, r).reproduced <=> r.selected = d.selected_candidate /\ cs # <<>>
  BY <1>1 DEF replay_decision
<1>8. d.selected_candidate # 0 /\ cs \in Seq(PlacementCandidate)
  BY <1>1, DecisionFacts
<1>9. S # {} => cs # <<>>
  BY <1>3, <1>8
<1>10. \A i, j \in S : Preferred(cs[j], cs[i]) <=> Precedes(cs[j], cs[i])
  BY <1>4, PreferredPrecedes
<1>11. CASE S = {}
  BY <1>6, <1>7, <1>8, <1>11
<1>12. CASE S # {}
  <2>1. /\ f[1] \in S
        /\ \A j \in S : ~Precedes(cs[j], cs[f[1]])
        /\ \A i \in S : (\A j \in S : ~Precedes(cs[j], cs[i])) =>
             cs[i].candidate_id = cs[f[1]].candidate_id
    BY <1>3, <1>4, <1>5, <1>12, FirstIsBest
  <2>2. replay_decision(d, r).reproduced <=> cs[f[1]].candidate_id = d.selected_candidate
    BY <1>6, <1>7, <1>9, <1>12
  <2>3. ASSUME cs[f[1]].candidate_id = d.selected_candidate
        PROVE  \E i \in S : /\ cs[i].candidate_id = d.selected_candidate
                            /\ \A j \in S : ~Preferred(cs[j], cs[i])
    BY <1>10, <2>1, <2>3
  <2>4. ASSUME NEW i \in S, cs[i].candidate_id = d.selected_candidate,
               \A j \in S : ~Preferred(cs[j], cs[i])
        PROVE  cs[f[1]].candidate_id = d.selected_candidate
    BY <1>10, <2>1, <2>4
  <2> QED
    BY <1>1, <2>2, <2>3, <2>4
<1> QED
  BY <1>11, <1>12

\* A replay reports success exactly when the recorded selection is the best
\* candidate, by the reference order, that no constraint excludes: for every
\* decision.
THEOREM ReplaysAreHonest == Spec => []ReplayIsHonest
<1>1. ASSUME AInv, answer.kind = "replay", Ordinary(Decision)
      PROVE  ReplayIsHonest
  <2>1. PICK d : d = Decision
    OBVIOUS
  <2>2. PICK r : r = answer.ranking
    OBVIOUS
  <2>3. ReplayOK /\ d \in PlacementDecision /\ Ordinary(d)
    BY <1>1, <2>1, DecisionKnown DEF AInv, Answered, ReplayOK
  <2>4. ~RankingThrows(d) /\ r \in rank_candidates(d) /\ answer.of = replay_decision(d, r)
    BY <2>1, <2>2, <2>3 DEF ReplayOK
  <2>5. PICK S : S = {i \in 1..Len(d.candidates) : ~Excluded(d, d.candidates[i])}
    OBVIOUS
  <2>6. replay_decision(d, r).reproduced <=>
          \E i \in S :
            /\ d.candidates[i].candidate_id = d.selected_candidate
            /\ \A j \in S : ~Preferred(d.candidates[j], d.candidates[i])
    BY <2>3, <2>4, <2>5, ReplayHonest
  <2> QED
    BY <2>1, <2>4, <2>5, <2>6 DEF ReplayIsHonest
<1>2. AInv => ReplayIsHonest
  BY <1>1 DEF ReplayIsHonest
<1> QED
  BY <1>2, AnalysisInvariant, PTL

(***************************************************************************)
(* Counterfactuals.                                                        *)
(***************************************************************************)

\* b is candidate a with no less free memory and no longer queue.
Roomier(a, b) ==
  /\ b.candidate_id = a.candidate_id
  /\ b.total_bytes = a.total_bytes
  /\ b.architecture = a.architecture
  /\ b.capabilities = a.capabilities
  /\ b.health = a.health
  /\ b.free_bytes >= a.free_bytes
  /\ b.depth <= a.depth

\* No constraint turns against a candidate that has more room.
LEMMA RoomierSettles ==
  ASSUME NEW a \in PlacementCandidate, NEW b \in PlacementCandidate, Roomier(a, b),
         NEW hc \in PlacementConstraint, Settles(b, hc)
  PROVE  Settles(a, hc)
<1>1. /\ a.total_bytes \in Nat /\ a.free_bytes \in Nat /\ a.depth \in Nat
      /\ b.total_bytes \in Nat /\ b.free_bytes \in Nat /\ b.depth \in Nat
  BY DEF PlacementCandidate
<1>2. hc.value.number \in Int
  BY DEF PlacementConstraint
<1>3. PICK n : n = hc.value.number
  OBVIOUS
<1>4. CASE hc.field = "memory.total_bytes"
  <2>1. Slack(a, hc.field, n) = Slack(b, hc.field, n)
    BY <1>4 DEF Slack, Roomier
  <2> QED
    BY <1>3, <1>4, <2>1 DEF Settles, eval_constraint
<1>5. CASE hc.field = "memory.free_bytes"
  <2>1. Slack(a, hc.field, n) = a.free_bytes - n /\ Slack(b, hc.field, n) = b.free_bytes - n
    BY <1>5 DEF Slack
  <2>2. Slack(b, hc.field, n) < 0 => Slack(a, hc.field, n) < 0
    BY <1>1, <1>2, <1>3, <2>1 DEF Roomier
  <2> QED
    BY <1>3, <1>5, <2>2 DEF Settles, eval_constraint
<1>6. CASE hc.field = "queue.depth"
  <2>1. Slack(a, hc.field, n) = n - a.depth /\ Slack(b, hc.field, n) = n - b.depth
    BY <1>6 DEF Slack
  <2>2. Slack(b, hc.field, n) < 0 => Slack(a, hc.field, n) < 0
    BY <1>1, <1>2, <1>3, <2>1 DEF Roomier
  <2> QED
    BY <1>3, <1>6, <2>2 DEF Settles, eval_constraint
<1>7. CASE hc.field \notin {"memory.total_bytes", "memory.free_bytes", "queue.depth"}
  BY <1>7 DEF Settles, eval_constraint, Roomier
<1> QED
  BY <1>4, <1>5, <1>6, <1>7

\* A change that makes room makes room, int arithmetic included.
LEMMA ApplyMakesRoom ==
  ASSUME NEW c \in PlacementCandidate, c.depth <= IntMax,
         NEW ch \in CounterfactualChange, MakesRoom(ch)
  PROVE  Apply(c, ch) \in PlacementCandidate /\ Roomier(c, Apply(c, ch))
<1>1. PICK dv : dv = NumberOf(ch.new_value)
  OBVIOUS
<1>2. dv \in Int
  BY <1>1 DEF NumberOf, CounterfactualChange
<1>3. c.free_bytes \in Nat /\ c.total_bytes \in Nat /\ c.depth \in Nat
  BY DEF PlacementCandidate
<1>4. Roomier(c, c)
  BY <1>3 DEF Roomier
<1>5. CASE ch.target = "memory.free_bytes"
  <2>1. ch.relative /\ dv >= 0
    BY <1>1, <1>5 DEF MakesRoom
  <2>2. PICK free : free = AtLeastZero(c.free_bytes + dv)
    OBVIOUS
  <2>3. free \in Nat /\ free >= c.free_bytes
    BY <1>2, <1>3, <2>1, <2>2 DEF AtLeastZero
  <2>4. AtLeastZero(c.total_bytes - free) \in Nat
    BY <1>3, <2>3 DEF AtLeastZero
  <2>5. Perturb(c, ch) =
          [c EXCEPT !.free_bytes = free, !.used_bytes = AtLeastZero(c.total_bytes - free)]
    BY <1>1, <1>5, <2>1, <2>2 DEF Perturb
  <2>6. Perturb(c, ch) \in PlacementCandidate
    BY <2>3, <2>4, <2>5 DEF PlacementCandidate
  <2>7. Roomier(c, Perturb(c, ch))
    BY <1>3, <2>3, <2>5 DEF Roomier, PlacementCandidate
  <2> QED
    BY <1>4, <2>6, <2>7 DEF Apply
<1>6. CASE ch.target = "queue.depth"
  <2>1. ch.relative /\ dv \in (-IntMax)..0
    BY <1>1, <1>6 DEF MakesRoom
  <2>2. IntMax \in Nat
    BY NumbersAssumption
  <2>3. DoubleToInt(dv) = dv
    BY <2>1, <2>2 DEF DoubleToInt
  <2>4. WrapInt(c.depth) = c.depth
    <3>1. c.depth \in (-IntMax - 1)..IntMax
      BY <1>3, <2>2
    <3> QED
      BY <3>1, WrapKeeps
  <2>5. WrapInt(c.depth + dv) = c.depth + dv
    <3>1. c.depth + dv \in (-IntMax - 1)..IntMax
      BY <1>3, <2>1, <2>2
    <3> QED
      BY <3>1, WrapKeeps
  <2>6. PICK depth : depth = AtLeastZero(c.depth + dv)
    OBVIOUS
  <2>7. depth \in Nat /\ depth <= c.depth
    BY <1>2, <1>3, <2>1, <2>2, <2>6 DEF AtLeastZero
  <2>8. Perturb(c, ch) = [c EXCEPT !.depth = depth]
    BY <1>1, <1>6, <2>1, <2>3, <2>4, <2>5, <2>6 DEF Perturb
  <2>9. Perturb(c, ch) \in PlacementCandidate
    BY <2>7, <2>8 DEF PlacementCandidate
  <2>10. Roomier(c, Perturb(c, ch))
    BY <1>3, <2>7, <2>8 DEF Roomier, PlacementCandidate
  <2> QED
    BY <1>4, <2>9, <2>10 DEF Apply
<1> QED
  BY <1>5, <1>6 DEF MakesRoom

LEMMA RoomierTransitive ==
  ASSUME NEW a \in PlacementCandidate, NEW b \in PlacementCandidate,
         NEW c \in PlacementCandidate, Roomier(a, b), Roomier(b, c)
  PROVE  Roomier(a, c)
<1>1. /\ a.free_bytes \in Nat /\ b.free_bytes \in Nat /\ c.free_bytes \in Nat
      /\ a.depth \in Nat /\ b.depth \in Nat /\ c.depth \in Nat
  BY DEF PlacementCandidate
<1> QED
  BY <1>1 DEF Roomier

\* So do any number of such changes, one after the other.
LEMMA AfterMakesRoom ==
  ASSUME NEW c \in PlacementCandidate, c.depth <= IntMax,
         NEW changes \in Seq(CounterfactualChange),
         \A i \in 1..Len(changes) : MakesRoom(changes[i])
  PROVE  After(c, changes) \in PlacementCandidate /\ Roomier(c, After(c, changes))
<1>1. PICK n : n = Len(changes)
  OBVIOUS
<1>2. n \in Nat
  BY <1>1
<1>3. PICK a : Steps(c, changes, n, a) /\ After(c, changes) = a[n]
  BY <1>1, <1>2, AfterSteps
<1>4. a = [i \in 0..n |-> IF i = 0 THEN c ELSE Apply(a[i - 1], changes[i])]
  BY <1>3 DEF Steps
<1>5. PICK T : T = {i \in 0..n : ~(a[i] \in PlacementCandidate /\ Roomier(c, a[i]))}
  OBVIOUS
<1>6. ASSUME T # {}
      PROVE  FALSE
  <2>1. T \in SUBSET Nat
    BY <1>2, <1>5
  <2>2. PICK k \in T : \A m \in T : k <= m
    BY <1>6, <2>1, LeastNatural
  <2>3. k \in 0..n /\ ~(a[k] \in PlacementCandidate /\ Roomier(c, a[k]))
    BY <1>5
  <2>4. Roomier(c, c) /\ c.depth \in Nat
    BY DEF Roomier, PlacementCandidate
  <2>5. k # 0
    <3>1. a[0] = c
      BY <1>2, <1>4
    <3> QED
      BY <2>3, <2>4, <3>1
  <2>6. PICK j : j = k - 1
    OBVIOUS
  <2>7. j \in 0..n /\ j < k /\ k \in 1..n /\ k - 1 = j
    BY <1>2, <2>3, <2>5, <2>6
  <2>8. j \notin T
    BY <2>2, <2>3, <2>7
  <2>9. a[j] \in PlacementCandidate /\ Roomier(c, a[j])
    BY <1>5, <2>7, <2>8
  <2>10. a[j].depth <= IntMax
    BY <2>4, <2>9, NumbersAssumption DEF Roomier, PlacementCandidate
  <2>11. changes[k] \in CounterfactualChange /\ MakesRoom(changes[k])
    BY <1>1, <2>7
  <2>12. a[k] = Apply(a[j], changes[k])
    BY <1>4, <2>3, <2>5, <2>7
  <2>13. a[k] \in PlacementCandidate /\ Roomier(a[j], a[k])
    BY <2>9, <2>10, <2>11, <2>12, ApplyMakesRoom
  <2> QED
    BY <2>3, <2>9, <2>13, RoomierTransitive
<1>7. n \in 0..n
  BY <1>2
<1> QED
  BY <1>3, <1>5, <1>6, <1>7

\* No change: the candidates are as they were.
LEMMA ChangedByNothing ==
  ASSUME NEW d \in PlacementDecision
  PROVE  Changed(d, <<>>) = d
<1>1. ASSUME NEW c
      PROVE  After(c, <<>>) = c
  <2>1. PICK n : n = Len(<<>>)
    OBVIOUS
  <2>2. n = 0
    BY <2>1
  <2>3. PICK a : Steps(c, <<>>, n, a) /\ After(c, <<>>) = a[n]
    BY <2>1, <2>2, AfterSteps
  <2>4. a[0] = c
    BY <2>2, <2>3 DEF Steps
  <2> QED
    BY <2>2, <2>3, <2>4
<1>2. d.candidates \in Seq(PlacementCandidate)
  BY DecisionFacts
<1>3. [i \in 1..Len(d.candidates) |-> After(d.candidates[i], <<>>)] = d.candidates
  BY <1>1, <1>2
<1>4. Changed(d, <<>>) = [d EXCEPT !.candidates = d.candidates]
  BY <1>3 DEF Changed
<1> QED
  BY <1>4 DEF PlacementDecision

\* Every ranking of a decision has the same ids in the same order.
LEMMA OneRanking ==
  ASSUME NEW d \in PlacementDecision, Ordinary(d),
         NEW r \in rank_candidates(d), NEW q \in rank_candidates(d)
  PROVE  q.ranked = r.ranked /\ q.selected = r.selected
<1>1. PICK n : n = Len(d.candidates)
  OBVIOUS
<1>2. PICK h : h = [i \in 1..n |-> i]
  OBVIOUS
<1>3. h \in Bijection(1..n, 1..n)
  BY <1>2 DEF Bijection, Injection, Surjection, IsInjective
<1>4. \A i \in 1..n : d.candidates[i] = d.candidates[h[i]]
  BY <1>2
<1> QED
  BY <1>1, <1>3, <1>4, SameCandidates

\* What was ranked is ranked after changes that make room.
LEMMA RoomKeepsRanked ==
  ASSUME NEW d \in PlacementDecision, NEW changes \in Seq(CounterfactualChange),
         \A i \in 1..Len(changes) : MakesRoom(changes[i]),
         \A i \in 1..Len(d.candidates) : d.candidates[i].depth <= IntMax,
         NEW r \in rank_candidates(d), NEW q \in rank_candidates(Changed(d, changes))
  PROVE  Range(r.ranked) \subseteq Range(q.ranked)
<1>1. PICK cs : cs = d.candidates
  OBVIOUS
<1>2. PICK n : n = Len(cs)
  OBVIOUS
<1>3. n \in Nat /\ \A i \in 1..n : cs[i] \in PlacementCandidate
  BY <1>1, <1>2, DecisionFacts
<1>4. PICK e : e = Changed(d, changes)
  OBVIOUS
<1>5. PICK es : es = [i \in 1..n |-> After(cs[i], changes)]
  OBVIOUS
<1>6. e = [d EXCEPT !.candidates = es]
  BY <1>1, <1>2, <1>4, <1>5 DEF Changed
<1>7. \A i \in 1..n : es[i] \in PlacementCandidate /\ Roomier(cs[i], es[i])
  BY <1>1, <1>2, <1>3, <1>5, AfterMakesRoom
<1>8. es \in Seq(PlacementCandidate) /\ Len(es) = n
  BY <1>3, <1>5, <1>7
<1>9. e \in PlacementDecision /\ e.candidates = es /\ e.hard_constraints = d.hard_constraints
  BY <1>6, <1>8 DEF PlacementDecision
<1>10. PICK S : S = Survivors(d)
  OBVIOUS
<1>11. PICK T : T = Survivors(e)
  OBVIOUS
<1>12. S \in SUBSET (1..n) /\ IsFiniteSet(S) /\ T \in SUBSET (1..n) /\ IsFiniteSet(T)
  BY <1>1, <1>2, <1>8, <1>9, <1>10, <1>11, SurvivorsFinite
<1>13. S \subseteq T
  <2> SUFFICES ASSUME NEW i \in S PROVE i \in T
    OBVIOUS
  <2>1. i \in 1..n /\ Fate(d, cs[i]) = "survives"
    BY <1>1, <1>10, <1>12 DEF Survivors
  <2>2. d.hard_constraints \in Seq(PlacementConstraint) /\ Len(d.hard_constraints) \in Nat
    BY DecisionFacts
  <2>3. \A k \in 1..Len(d.hard_constraints) : ~Settles(cs[i], d.hard_constraints[k])
    BY <2>1, <2>2, FateFacts
  <2>4. cs[i] \in PlacementCandidate /\ es[i] \in PlacementCandidate /\ Roomier(cs[i], es[i])
    BY <1>3, <1>7, <2>1
  <2>5. \A k \in 1..Len(d.hard_constraints) : d.hard_constraints[k] \in PlacementConstraint
    BY <2>2
  <2>6. \A k \in 1..Len(d.hard_constraints) : ~Settles(es[i], d.hard_constraints[k])
    BY <2>3, <2>4, <2>5, RoomierSettles
  <2>7. Fate(e, es[i]) = "survives"
    <3>1. PICK c : c = es[i]
      OBVIOUS
    <3>2. Fate(d, c) = "survives"
      BY <2>2, <2>6, <3>1, FateFacts
    <3> QED
      BY <1>9, <3>1, <3>2, FateSame
  <2> QED
    BY <1>8, <1>9, <1>11, <2>1, <2>7 DEF Survivors
<1>14. PICK f \in Sorted(cs, S) : RankedBy(d, r, cs, S, f)
  BY <1>1, <1>10, RankingFacts
<1>15. PICK g \in Sorted(es, T) : RankedBy(e, q, es, T, g)
  BY <1>4, <1>9, <1>11, RankingFacts
<1>16. /\ r.ranked = [p \in 1..Cardinality(S) |-> cs[f[p]].candidate_id]
       /\ f \in Listings(S)
  BY <1>14 DEF RankedBy
<1>17. /\ q.ranked = [p \in 1..Cardinality(T) |-> es[g[p]].candidate_id]
       /\ g \in Listings(T)
  BY <1>15 DEF RankedBy
<1>18. f \in [1..Cardinality(S) -> S]
  BY <1>12, <1>16, ListingFacts
<1>19. \A i \in T : \E p \in 1..Cardinality(T) : g[p] = i
  BY <1>12, <1>17, ListingFacts
<1>20. ASSUME NEW p \in 1..Cardinality(S)
       PROVE  \E m \in 1..Cardinality(T) : q.ranked[m] = r.ranked[p]
  <2>1. f[p] \in S /\ f[p] \in T /\ f[p] \in 1..n
    BY <1>12, <1>13, <1>18
  <2>2. PICK m \in 1..Cardinality(T) : g[m] = f[p]
    BY <1>19, <2>1
  <2>3. es[f[p]].candidate_id = cs[f[p]].candidate_id
    BY <1>7, <2>1 DEF Roomier
  <2> QED
    BY <1>16, <1>17, <2>2, <2>3
<1>21. DOMAIN r.ranked = 1..Cardinality(S) /\ DOMAIN q.ranked = 1..Cardinality(T)
  BY <1>16, <1>17
<1> QED
  BY <1>20, <1>21 DEF Range

LEMMA CounterfactualSound ==
  ASSUME AInv, answer.kind = "counterfactual", Ordinary(Decision), Decision.candidates # <<>>,
         NEW r \in rank_candidates(Decision)
  PROVE  /\ query.changes = <<>> =>
              /\ answer.of.resulting_ranking = r.ranked
              /\ answer.of.decision_changed <=> ~replay_decision(Decision, r).reproduced
         /\ /\ \A i \in 1..Len(query.changes) : MakesRoom(query.changes[i])
            /\ \A c \in Range(Decision.candidates) : c.depth <= IntMax
            => Range(r.ranked) \subseteq Range(answer.of.resulting_ranking)
<1>1. PICK d : d = Decision
  OBVIOUS
<1>2. PICK changes : changes = query.changes
  OBVIOUS
<1>3. CounterfactualOK /\ d \in PlacementDecision /\ Ordinary(d) /\ d.candidates # <<>>
  BY <1>1, DecisionKnown DEF AInv, Answered, CounterfactualOK
<1>4. changes \in Seq(CounterfactualChange)
  BY <1>2, <1>3, ChangesAssumption DEF CounterfactualOK
<1>5. PICK q \in rank_candidates(Changed(d, changes)) : answer.of = counterfactual(d, q)
  BY <1>1, <1>2, <1>3 DEF CounterfactualOK
<1>6. /\ answer.of.resulting_ranking = q.ranked
      /\ answer.of.decision_changed <=> q.selected # d.selected_candidate
  <2>1. PICK a : a = answer.of
    OBVIOUS
  <2>2. a = counterfactual(d, q)
    BY <1>5, <2>1
  <2>3. a.resulting_ranking = q.ranked
    BY <2>2 DEF counterfactual
  <2>4. a.decision_changed = (q.selected # d.selected_candidate)
    BY <2>2 DEF counterfactual
  <2> QED
    BY <2>1, <2>3, <2>4
<1>7. r \in rank_candidates(d)
  BY <1>1
<1>8. ASSUME changes = <<>>
      PROVE  /\ answer.of.resulting_ranking = r.ranked
             /\ answer.of.decision_changed <=> ~replay_decision(d, r).reproduced
  <2>1. q \in rank_candidates(d)
    BY <1>3, <1>5, <1>8, ChangedByNothing
  <2>2. q.ranked = r.ranked /\ q.selected = r.selected
    BY <1>3, <1>7, <2>1, OneRanking
  <2>3. replay_decision(d, r).reproduced <=> r.selected = d.selected_candidate
    BY <1>3 DEF replay_decision
  <2> QED
    BY <1>6, <2>2, <2>3
<1>9. ASSUME \A i \in 1..Len(changes) : MakesRoom(changes[i]),
             \A c \in Range(d.candidates) : c.depth <= IntMax
      PROVE  Range(r.ranked) \subseteq Range(q.ranked)
  <2>1. \A i \in 1..Len(d.candidates) : d.candidates[i] \in Range(d.candidates)
    BY <1>3, DecisionFacts DEF Range
  <2>2. \A i \in 1..Len(d.candidates) : d.candidates[i].depth <= IntMax
    BY <1>9, <2>1
  <2> QED
    BY <1>3, <1>4, <1>5, <1>7, <1>9, <2>2, RoomKeepsRanked
<1> QED
  BY <1>1, <1>2, <1>6, <1>8, <1>9

\* A counterfactual without changes repeats the replay, and one that only
\* makes room excludes nothing that was ranked: for every decision and every
\* list of such changes.
THEOREM CounterfactualsAreSound == Spec => []CounterfactualIsSound
<1>1. AInv => CounterfactualIsSound
  BY CounterfactualSound DEF CounterfactualIsSound
<1> QED
  BY <1>1, AnalysisInvariant, PTL
================================================================================
