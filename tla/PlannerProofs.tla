---------------------------- MODULE PlannerProofs ----------------------------
(***************************************************************************)
(* What the sort and the filter of a plan do, for any scores: lemmas about *)
(* the operators of Planner.                                               *)
(***************************************************************************)
EXTENDS Planner, FiniteSetTheorems, FunctionTheorems, TLAPS

(* R orders S, strictly and totally. *)
StrictOrder(S, R) ==
  /\ \A i \in S : << i, i >> \notin R
  /\ \A i, j, k \in S : << i, j >> \in R /\ << j, k >> \in R => << i, k >> \in R
  /\ \A i, j \in S : i # j => << i, j >> \in R \/ << j, i >> \in R

Below(S, R, i) == {j \in S : << j, i >> \in R}

LEMMA BelowCount ==
  ASSUME NEW S, IsFiniteSet(S), NEW R, StrictOrder(S, R), NEW i \in S
  PROVE  /\ IsFiniteSet(Below(S, R, i))
         /\ Cardinality(Below(S, R, i)) \in 0 .. (Cardinality(S) - 1)
         /\ \A j \in S : << j, i >> \in R =>
              Cardinality(Below(S, R, j)) < Cardinality(Below(S, R, i))
<1>1. Below(S, R, i) \subseteq S \ {i}
  BY DEF Below, StrictOrder
<1>2. IsFiniteSet(S \ {i}) /\ Cardinality(S \ {i}) = Cardinality(S) - 1
  BY FS_RemoveElement
<1>3. /\ IsFiniteSet(Below(S, R, i))
      /\ Cardinality(Below(S, R, i)) <= Cardinality(S) - 1
  BY <1>1, <1>2, FS_Subset
<1>4. Cardinality(Below(S, R, i)) \in Nat /\ Cardinality(S) \in Nat
  BY <1>3, FS_CardinalityType
<1>5. ASSUME NEW j \in S, << j, i >> \in R
      PROVE  Cardinality(Below(S, R, j)) < Cardinality(Below(S, R, i))
  <2>1. Below(S, R, j) \subseteq Below(S, R, i)
    BY <1>5 DEF Below, StrictOrder
  <2>2. j \in Below(S, R, i) /\ j \notin Below(S, R, j)
    BY <1>5 DEF Below, StrictOrder
  <2>3. /\ IsFiniteSet(Below(S, R, j))
        /\ Cardinality(Below(S, R, j)) <= Cardinality(Below(S, R, i))
        /\ Cardinality(Below(S, R, j)) # Cardinality(Below(S, R, i))
    BY <1>3, <2>1, <2>2, FS_Subset
  <2> QED
    BY <1>4, <2>3, FS_CardinalityType
<1> QED
  BY <1>3, <1>4, <1>5

(* As many elements as a set has, each with its own number of others before it. *)
LEMMA NthExists ==
  ASSUME NEW S, IsFiniteSet(S), NEW R, StrictOrder(S, R), NEW k \in 1 .. Cardinality(S)
  PROVE  /\ Nth(S, R, k) \in S
         /\ Cardinality(Below(S, R, Nth(S, R, k))) = k - 1
<1> DEFINE n == Cardinality(S)
           rank == [i \in S |-> Cardinality(Below(S, R, i))]
<1>1. n \in Nat
  BY FS_CardinalityType
<1>2. IsFiniteSet(0 .. (n - 1)) /\ Cardinality(0 .. (n - 1)) = n
  <2> HIDE DEF n
  <2>1. 0 \in Int /\ n - 1 \in Int /\ (0 > n - 1 => n = 0) /\ n - 1 - 0 + 1 = n
    BY <1>1
  <2> QED
    BY <1>1, <2>1, FS_Interval
<1>3. rank \in [S -> 0 .. (n - 1)]
  BY BelowCount
<1>4. ASSUME NEW i \in S, NEW j \in S, rank[i] = rank[j]
      PROVE  i = j
  <2>1. rank[i] \in 0 .. (n - 1)
    BY <1>3
  <2>2. << i, j >> \in R => rank[i] < rank[j]
    BY BelowCount
  <2>3. << j, i >> \in R => rank[j] < rank[i]
    BY BelowCount
  <2> HIDE DEF rank
  <2> QED
    BY <1>1, <1>4, <2>1, <2>2, <2>3 DEF StrictOrder
<1>5. rank \in Injection(S, 0 .. (n - 1))
  BY <1>3, <1>4, Fun_IsInj
<1>6. rank \in Surjection(S, 0 .. (n - 1))
  BY <1>2, <1>5, FS_Injection
<1>7. k - 1 \in 0 .. (n - 1)
  BY <1>1
<1>8. PICK i \in S : rank[i] = k - 1
  <2>1. \A t \in 0 .. (n - 1) : \E i \in S : rank[i] = t
    BY <1>6 DEF Surjection
  <2> QED
    BY <1>7, <2>1
<1>9. Cardinality({j \in S : << j, i >> \in R}) = k - 1
  BY <1>8 DEF Below
<1> QED
  BY <1>9 DEF Nth, Below

(* The k-th element of an order is the one with k - 1 others before it. *)
LEMMA NthUnique ==
  ASSUME NEW S, IsFiniteSet(S), NEW R, StrictOrder(S, R), NEW i \in S, NEW k \in Nat,
         Cardinality(Below(S, R, i)) = k - 1
  PROVE  k \in 1 .. Cardinality(S) /\ Nth(S, R, k) = i
<1>1. k \in 1 .. Cardinality(S)
  BY BelowCount, FS_CardinalityType
<1>2. /\ Nth(S, R, k) \in S
      /\ Cardinality(Below(S, R, Nth(S, R, k))) = k - 1
  BY <1>1, NthExists
<1>3. ~(<< i, Nth(S, R, k) >> \in R) /\ ~(<< Nth(S, R, k), i >> \in R)
  BY <1>2, BelowCount
<1> QED
  BY <1>1, <1>2, <1>3 DEF StrictOrder

(* Nth lists the set in its order, each element once. *)
LEMMA NthLists ==
  ASSUME NEW S, IsFiniteSet(S), NEW R, StrictOrder(S, R)
  PROVE  /\ \A k \in 1 .. Cardinality(S) : Nth(S, R, k) \in S
         /\ \A i \in S : \E k \in 1 .. Cardinality(S) : Nth(S, R, k) = i
         /\ \A j, k \in 1 .. Cardinality(S) : j < k => << Nth(S, R, j), Nth(S, R, k) >> \in R
<1>1. \A k \in 1 .. Cardinality(S) : Nth(S, R, k) \in S
  BY NthExists
<1>2. ASSUME NEW i \in S
      PROVE  \E k \in 1 .. Cardinality(S) : Nth(S, R, k) = i
  <2> DEFINE k == Cardinality(Below(S, R, i)) + 1
  <2>1. k \in Nat /\ Cardinality(Below(S, R, i)) = k - 1
    BY BelowCount
  <2> QED
    BY <2>1, NthUnique
<1>3. ASSUME NEW j \in 1 .. Cardinality(S), NEW k \in 1 .. Cardinality(S), j < k
      PROVE  << Nth(S, R, j), Nth(S, R, k) >> \in R
  <2> DEFINE a == Nth(S, R, j)
             b == Nth(S, R, k)
  <2>1. /\ a \in S /\ Cardinality(Below(S, R, a)) = j - 1
        /\ b \in S /\ Cardinality(Below(S, R, b)) = k - 1
    BY NthExists
  <2>2. a # b
    BY <1>3, <2>1
  <2>3. << b, a >> \notin R
    BY <1>3, <2>1, BelowCount
  <2> HIDE DEF a, b
  <2> QED
    BY <2>1, <2>2, <2>3 DEF a, b, StrictOrder
<1> QED
  BY <1>1, <1>2, <1>3

(* Whatever lists a set in its order, each element once, agrees with Nth. *)
LEMMA ListingUnique ==
  ASSUME NEW S, IsFiniteSet(S), NEW R, StrictOrder(S, R), NEW n \in Nat, NEW f \in [1 .. n -> S],
         \A i \in S : \E k \in 1 .. n : f[k] = i,
         \A j, k \in 1 .. n : j < k => << f[j], f[k] >> \in R
  PROVE  /\ Cardinality(S) = n
         /\ \A k \in 1 .. n : Nth(S, R, k) = f[k]
<1>1. ASSUME NEW j \in 1 .. n, NEW k \in 1 .. n, f[j] = f[k]
      PROVE  j = k
  <2>1. f[j] \in S /\ << f[j], f[j] >> \notin R
    BY DEF StrictOrder
  <2> QED
    BY <1>1, <2>1
<1>2. f \in Bijection(1 .. n, S)
  BY <1>1, Fun_IsBij
<1>3. Cardinality(S) = n
  <2>1. IsFiniteSet(1 .. n) /\ Cardinality(1 .. n) = n
    BY FS_Interval
  <2> QED
    BY <1>2, <2>1, FS_Bijection, Fun_ExistsBij
<1>4. ASSUME NEW k \in 1 .. n
      PROVE  Nth(S, R, k) = f[k]
  <2> DEFINE g == [j \in 1 .. (k - 1) |-> f[j]]
  <2>1. \A j \in 1 .. (k - 1) : j \in 1 .. n /\ j < k
    OBVIOUS
  <2>2. g \in [1 .. (k - 1) -> Below(S, R, f[k])]
    BY <2>1 DEF Below
  <2>3. \A i, j \in 1 .. (k - 1) : g[i] = g[j] => i = j
    BY <1>1, <2>1
  <2>4. ASSUME NEW i \in Below(S, R, f[k])
        PROVE  \E j \in 1 .. (k - 1) : g[j] = i
    <3>1. i \in S /\ << i, f[k] >> \in R
      BY DEF Below
    <3>2. PICK j \in 1 .. n : f[j] = i
      BY <3>1
    <3>3. ~(k < j) /\ j # k
      BY <3>1, <3>2 DEF StrictOrder
    <3>4. j \in 1 .. (k - 1)
      BY <3>3
    <3> QED
      BY <3>2, <3>4
  <2>5. g \in Bijection(1 .. (k - 1), Below(S, R, f[k]))
    BY <2>2, <2>3, <2>4, Fun_IsBij
  <2>6. IsFiniteSet(1 .. (k - 1)) /\ Cardinality(1 .. (k - 1)) = k - 1
    BY FS_Interval
  <2>7. Cardinality(Below(S, R, f[k])) = k - 1
    BY <2>5, <2>6, FS_Bijection, Fun_ExistsBij
  <2> QED
    BY <2>7, NthUnique
<1> QED
  BY <1>3, <1>4

LEMMA AscendingOrders ==
  ASSUME NEW I \in SUBSET Int
  PROVE  StrictOrder(I, Ascending(I))
BY DEF StrictOrder, Ascending

------------------------------------------------------------------------------
(* The order of the sort is strict: no two entries are left to chance. *)
LEMMA ClassRanked ==
  ASSUME NEW a \in Class
  PROVE  ClassRank(a) \in 1 .. 5 /\ ClassOrder[ClassRank(a)] = a
<1>1. DOMAIN ClassOrder = 1 .. 5
  BY DEF ClassOrder
<1>2. \E i \in DOMAIN ClassOrder : ClassOrder[i] = a
  BY DEF Class
<1> QED
  BY <1>1, <1>2 DEF ClassRank

LEMMA PositionsFinite ==
  ASSUME NEW n \in Nat, NEW S \in SUBSET (1 .. n)
  PROVE  IsFiniteSet(S) /\ S \in SUBSET Int
<1>1. IsFiniteSet(1 .. n) /\ 1 .. n \subseteq Int
  BY FS_Interval
<1>2. IsFiniteSet(S)
  BY <1>1, FS_Subset
<1> QED
  BY <1>1, <1>2

(* A list of n entries that can be sorted. *)
Sortable(c, n) ==
  DOMAIN c = 1 .. n /\ \A i \in 1 .. n : c[i].score \in Int /\ c[i].class \in Class

LEMMA SortOrderStrict ==
  ASSUME NEW n \in Nat, NEW c, Sortable(c, n), NEW S \in SUBSET (1 .. n)
  PROVE  StrictOrder(S, SortOrder(c)) /\ IsFiniteSet(S)
<1>1. IsFiniteSet(S)
  BY PositionsFinite
<1> DEFINE rank == [i \in 1 .. n |-> ClassRank(c[i].class)]
           score == [i \in 1 .. n |-> c[i].score]
<1>2. \A i \in S : score[i] \in Int /\ rank[i] \in Int /\ i \in Int
  BY ClassRanked DEF Sortable
<1>3. \A i, j \in S : rank[i] = rank[j] <=> c[i].class = c[j].class
  BY ClassRanked DEF Sortable
<1>4. ASSUME NEW i \in S, NEW j \in S
      PROVE  << i, j >> \in SortOrder(c) <=>
               \/ score[i] > score[j]
               \/ score[i] = score[j] /\ (rank[i] < rank[j] \/ (rank[i] = rank[j] /\ i < j))
  <2>1. << i, j >> \in SortOrder(c) <=> SortsBefore(c, i, j)
    BY DEF SortOrder, Sortable
  <2>2. SortsBefore(c, i, j) <=>
          \/ score[i] > score[j]
          \/ score[i] = score[j] /\ (rank[i] < rank[j] \/ (c[i].class = c[j].class /\ i < j))
    BY DEF SortsBefore
  <2>3. rank[i] = rank[j] <=> c[i].class = c[j].class
    BY <1>3
  <2> HIDE DEF rank, score
  <2> QED
    BY <2>1, <2>2, <2>3
<1> HIDE DEF rank, score
<1>5. \A i \in S : << i, i >> \notin SortOrder(c)
  BY <1>2, <1>4
<1>6. ASSUME NEW i \in S, NEW j \in S, NEW k \in S,
             << i, j >> \in SortOrder(c), << j, k >> \in SortOrder(c)
      PROVE  << i, k >> \in SortOrder(c)
  BY <1>2, <1>4, <1>6
<1>7. ASSUME NEW i \in S, NEW j \in S, i # j
      PROVE  << i, j >> \in SortOrder(c) \/ << j, i >> \in SortOrder(c)
  <2>1. \/ score[i] > score[j] \/ score[j] > score[i]
        \/ score[i] = score[j] /\ (rank[i] < rank[j] \/ rank[j] < rank[i])
        \/ score[i] = score[j] /\ rank[i] = rank[j] /\ (i < j \/ j < i)
    BY <1>2, <1>7
  <2>2. CASE \/ score[i] > score[j]
             \/ score[i] = score[j] /\ (rank[i] < rank[j] \/ (rank[i] = rank[j] /\ i < j))
    BY <1>4, <2>2
  <2>3. CASE \/ score[j] > score[i]
             \/ score[j] = score[i] /\ (rank[j] < rank[i] \/ (rank[j] = rank[i] /\ j < i))
    BY <1>4, <2>3
  <2> QED
    BY <1>2, <2>1, <2>2, <2>3
<1> QED
  BY <1>1, <1>5, <1>6, <1>7 DEF StrictOrder

------------------------------------------------------------------------------
(***************************************************************************)
(* Moving the first entry that is not blocked to the front, and leaving    *)
(* out what cannot be tried, keeps the order of the sort: install() tries  *)
(* the usable candidates, each once, in that order.                        *)
(***************************************************************************)
Usable(c) == {i \in DOMAIN c : Tried(c[i])}

Listing(c) == [k \in 1 .. Cardinality(Usable(c)) |-> c[Nth(Usable(c), SortOrder(c), k)]]

Moved(f, m) == IF m = 1 THEN f ELSE IF m <= f THEN m - 1 ELSE m

LEMMA FirstExists ==
  ASSUME NEW n \in Nat, NEW c, DOMAIN c = 1 .. n, \E i \in 1 .. n : ~IsBlocked(c[i])
  PROVE  /\ FirstUsable(c) \in 1 .. n /\ ~IsBlocked(c[FirstUsable(c)])
         /\ \A j \in 1 .. n : j < FirstUsable(c) => IsBlocked(c[j])
<1> DEFINE S == {i \in 1 .. n : ~IsBlocked(c[i])}
           first == Nth(S, Ascending(S), 1)
<1>1. IsFiniteSet(S) /\ S # {} /\ StrictOrder(S, Ascending(S))
  <2>1. S \in SUBSET (1 .. n) /\ S # {}
    OBVIOUS
  <2> HIDE DEF S
  <2> QED
    BY <2>1, PositionsFinite, AscendingOrders
<1>2. 1 \in 1 .. Cardinality(S)
  <2> HIDE DEF S
  <2> QED
    BY <1>1, FS_CardinalityType, FS_EmptySet
<1>3. first \in S /\ \A j \in S : ~(j < first)
  <2>1. first \in S /\ Cardinality(Below(S, Ascending(S), first)) = 1 - 1
    BY <1>1, <1>2, NthExists
  <2> HIDE DEF S, first
  <2>2. Below(S, Ascending(S), first) = {}
    <3>1. IsFiniteSet(Below(S, Ascending(S), first))
      BY <1>1, <2>1, BelowCount
    <3> QED
      BY <2>1, <3>1, FS_EmptySet
  <2> QED
    BY <2>1, <2>2 DEF Below, Ascending
<1> HIDE DEF first
<1>4. \E i \in DOMAIN c : ~IsBlocked(c[i]) /\ \A j \in DOMAIN c : j < i => IsBlocked(c[j])
  BY <1>3
<1> QED
  BY <1>4 DEF FirstUsable

(* Sorted(c) is c in the order of the sort. *)
LEMMA SortedFacts ==
  ASSUME NEW n \in Nat, NEW c, Sortable(c, n)
  PROVE  LET D == 1 .. n
             R == SortOrder(c)
             s(k) == Nth(D, R, k)
         IN /\ IsFiniteSet(D) /\ StrictOrder(D, R) /\ Cardinality(D) = n /\ DOMAIN c = D
            /\ \A k \in D : s(k) \in D
            /\ \A i \in D : \E k \in D : s(k) = i
            /\ \A j, k \in D : j < k => << s(j), s(k) >> \in R
            /\ Sorted(c) = [k \in D |-> c[s(k)]]
<1> DEFINE D == 1 .. n
           R == SortOrder(c)
           s(k) == Nth(D, R, k)
<1>1. IsFiniteSet(D) /\ StrictOrder(D, R) /\ Cardinality(D) = n /\ DOMAIN c = D
  <2>1. Cardinality(D) = n /\ D \in SUBSET (1 .. n)
    BY FS_Interval
  <2>2. IsFiniteSet(D) /\ StrictOrder(D, R)
    BY <2>1, SortOrderStrict
  <2> QED
    BY <2>1, <2>2 DEF Sortable
<1>2. /\ \A k \in D : s(k) \in D
      /\ \A i \in D : \E k \in D : s(k) = i
      /\ \A j, k \in D : j < k => << s(j), s(k) >> \in R
  <2> HIDE DEF R, D
  <2>1. /\ \A k \in 1 .. Cardinality(D) : s(k) \in D
        /\ \A i \in D : \E k \in 1 .. Cardinality(D) : s(k) = i
        /\ \A j, k \in 1 .. Cardinality(D) : j < k => << s(j), s(k) >> \in R
    BY <1>1, NthLists
  <2>2. 1 .. Cardinality(D) = D
    BY <1>1 DEF D
  <2> QED
    BY <2>1, <2>2
<1>3. Sorted(c) = [k \in D |-> c[s(k)]]
  BY <1>1 DEF Sorted
<1> QED
  BY <1>1, <1>2, <1>3

(* The selected entry comes before every other that is not blocked. *)
LEMMA ExecutionFirst ==
  ASSUME NEW n \in Nat, NEW c, Sortable(c, n), \E i \in 1 .. n : ~IsBlocked(c[i])
  PROVE  \E e \in 1 .. n :
           /\ Sorted(c)[FirstUsable(Sorted(c))] = c[e]
           /\ ~IsBlocked(c[e])
           /\ \A j \in 1 .. n : ~IsBlocked(c[j]) /\ j # e => << e, j >> \in SortOrder(c)
<1> DEFINE D == 1 .. n
           R == SortOrder(c)
           s(k) == Nth(D, R, k)
           f == FirstUsable(Sorted(c))
<1>1. /\ \A k \in D : s(k) \in D
      /\ \A i \in D : \E k \in D : s(k) = i
      /\ \A j, k \in D : j < k => << s(j), s(k) >> \in R
      /\ Sorted(c) = [k \in D |-> c[s(k)]]
  BY SortedFacts
<1>2. /\ f \in D /\ ~IsBlocked(Sorted(c)[f])
      /\ \A j \in D : j < f => IsBlocked(Sorted(c)[j])
  <2>1. \E k \in D : ~IsBlocked(Sorted(c)[k])
    BY <1>1
  <2>2. DOMAIN Sorted(c) = 1 .. n
    BY <1>1
  <2> QED
    BY <2>1, <2>2, FirstExists
<1> HIDE DEF f
<1>3. s(f) \in D /\ Sorted(c)[f] = c[s(f)] /\ ~IsBlocked(c[s(f)])
  BY <1>1, <1>2
<1>4. ASSUME NEW j \in D, ~IsBlocked(c[j]), j # s(f)
      PROVE  << s(f), j >> \in R
  <2>1. PICK k \in D : s(k) = j
    BY <1>1
  <2>2. ~(k < f) /\ k # f
    BY <1>1, <1>2, <1>4, <2>1
  <2> QED
    BY <1>1, <1>2, <2>1, <2>2
<1> QED
  BY <1>3, <1>4 DEF f

LEMMA AttemptedListing ==
  ASSUME NEW n \in Nat, NEW c, Sortable(c, n), NEW f, NEW plan,
         \E i \in 1 .. n : ~IsBlocked(c[i]),
         f = FirstUsable(Sorted(c)),
         plan.execution = Sorted(c)[f], plan.fallbacks = WithoutIndex(Sorted(c), f),
         plan.execution.class # "restricted"
  PROVE  Attempted(plan) = Listing(c)
<1> DEFINE D == 1 .. n
           R == SortOrder(c)
           s(k) == Nth(D, R, k)
           U == Usable(c)
<1>1. /\ IsFiniteSet(D) /\ StrictOrder(D, R) /\ DOMAIN c = D
      /\ \A k \in D : s(k) \in D
      /\ \A i \in D : \E k \in D : s(k) = i
      /\ \A j, k \in D : j < k => << s(j), s(k) >> \in R
      /\ Sorted(c) = [k \in D |-> c[s(k)]]
  BY SortedFacts
<1>2. /\ \A k \in D : s(k) \in D
      /\ \A i \in D : \E k \in D : s(k) = i
      /\ \A j, k \in D : j < k => << s(j), s(k) >> \in R
  BY <1>1
<1>3. Sorted(c) = [k \in D |-> c[s(k)]]
  BY <1>1
<1> DEFINE E == {c[i] : i \in D}
<1>4. Sorted(c) \in Seq(E) /\ Len(Sorted(c)) = n
  <2>1. Sorted(c) \in [1 .. n -> E]
    BY <1>2, <1>3
  <2> HIDE DEF E
  <2> QED
    BY <2>1
<1>5. /\ f \in D /\ ~IsBlocked(Sorted(c)[f])
      /\ \A j \in D : j < f => IsBlocked(Sorted(c)[j])
  <2>1. \E k \in D : ~IsBlocked(Sorted(c)[k])
    BY <1>2, <1>3
  <2>2. DOMAIN Sorted(c) = 1 .. n
    BY <1>3
  <2> QED
    BY <2>1, <2>2, FirstExists
<1> DEFINE listed == << plan.execution >> \o plan.fallbacks
<1>6. listed = [m \in D |-> c[s(Moved(f, m))]]
  <2>1. plan.fallbacks = [k \in 1 .. (n - 1) |-> IF k < f THEN c[s(k)] ELSE c[s(k + 1)]]
    BY <1>3, <1>4 DEF WithoutIndex
  <2>2. plan.execution = c[s(f)]
    BY <1>3, <1>5
  <2>3. plan.fallbacks \in Seq(E) /\ Len(plan.fallbacks) = n - 1
    <3>1. n - 1 \in Nat
      BY <1>5
    <3>2. ASSUME NEW k \in 1 .. (n - 1)
          PROVE  (IF k < f THEN c[s(k)] ELSE c[s(k + 1)]) \in E
      <4>1. k \in D /\ k + 1 \in D
        BY <3>1
      <4> QED
        BY <1>2, <4>1
    <3>3. plan.fallbacks \in [1 .. (n - 1) -> E]
      <4> HIDE DEF E
      <4> QED
        BY <2>1, <3>2
    <3> HIDE DEF E
    <3> QED
      BY <3>1, <3>3
  <2> QED
    BY <1>5, <2>1, <2>2, <2>3 DEF Moved
<1> HIDE DEF listed
<1> DEFINE I == {m \in D : Tried(listed[m])}
           at(k) == Nth(I, Ascending(I), k)
<1>7. I \in SUBSET Int /\ IsFiniteSet(I) /\ StrictOrder(I, Ascending(I))
  <2>1. I \in SUBSET (1 .. n)
    OBVIOUS
  <2> HIDE DEF I
  <2> QED
    BY <2>1, PositionsFinite, AscendingOrders
<1>8. /\ \A k \in 1 .. Cardinality(I) : at(k) \in I
      /\ \A m \in I : \E k \in 1 .. Cardinality(I) : at(k) = m
      /\ \A j, k \in 1 .. Cardinality(I) : j < k => at(j) < at(k)
  <2> HIDE DEF I
  <2>1. /\ \A k \in 1 .. Cardinality(I) : at(k) \in I
        /\ \A m \in I : \E k \in 1 .. Cardinality(I) : at(k) = m
        /\ \A j, k \in 1 .. Cardinality(I) : j < k => << at(j), at(k) >> \in Ascending(I)
    BY <1>7, NthLists
  <2>2. \A i, j : << i, j >> \in Ascending(I) => i < j
    BY DEF Ascending
  <2> QED
    BY <2>1, <2>2
<1>9. \A m \in D : Moved(f, m) \in D
  BY <1>5 DEF Moved
<1>10. \A p \in D : \E m \in D : Moved(f, m) = p
  <2> SUFFICES ASSUME NEW p \in D
               PROVE  \E m \in D : Moved(f, m) = p
    OBVIOUS
  <2>1. CASE p = f
    BY <2>1, <1>5 DEF Moved
  <2>2. CASE p < f
    <3>1. p + 1 \in D /\ Moved(f, p + 1) = p
      BY <2>2, <1>5 DEF Moved
    <3> QED
      BY <3>1
  <2>3. CASE p > f
    BY <2>3, <1>5 DEF Moved
  <2> QED
    BY <1>5, <2>1, <2>2, <2>3
<1>11. ASSUME NEW i \in I, NEW j \in I, i < j
       PROVE  Moved(f, i) < Moved(f, j)
  <2>1. Moved(f, j) \in D /\ ~(Moved(f, j) < f)
    <3>1. Moved(f, j) \in D /\ Sorted(c)[Moved(f, j)] = listed[j]
      BY <1>3, <1>6, <1>9
    <3> QED
      BY <1>5, <3>1 DEF Tried
  <2> QED
    BY <1>5, <1>11, <2>1 DEF Moved
<1> DEFINE h == [k \in 1 .. Cardinality(I) |-> s(Moved(f, at(k)))]
<1>12. /\ h \in [1 .. Cardinality(I) -> U]
       /\ \A i \in U : \E k \in 1 .. Cardinality(I) : h[k] = i
       /\ \A j, k \in 1 .. Cardinality(I) : j < k => << h[j], h[k] >> \in R
  <2>1. \A m \in D : m \in I <=> s(Moved(f, m)) \in U
    BY <1>1, <1>2, <1>6, <1>9 DEF Usable
  <2>2. \A k \in 1 .. Cardinality(I) : h[k] \in U
    BY <1>8, <2>1
  <2>3. ASSUME NEW i \in U
        PROVE  \E k \in 1 .. Cardinality(I) : h[k] = i
    <3>1. i \in D
      BY <1>1 DEF Usable
    <3>2. PICK p \in D : s(p) = i
      BY <1>2, <3>1
    <3>3. PICK m \in D : Moved(f, m) = p
      BY <1>10
    <3>4. PICK k \in 1 .. Cardinality(I) : at(k) = m
      BY <1>8, <2>1, <3>2, <3>3
    <3> QED
      BY <3>2, <3>3, <3>4
  <2>4. ASSUME NEW j \in 1 .. Cardinality(I), NEW k \in 1 .. Cardinality(I), j < k
        PROVE  << h[j], h[k] >> \in R
    <3>1. at(j) \in I /\ at(k) \in I /\ at(j) < at(k)
      BY <1>8, <2>4
    <3>2. Moved(f, at(j)) < Moved(f, at(k))
      BY <1>11, <3>1
    <3> QED
      BY <1>2, <1>9, <3>1, <3>2
  <2> QED
    BY <2>2, <2>3, <2>4
<1>13. IsFiniteSet(U) /\ StrictOrder(U, R)
  BY <1>1, SortOrderStrict DEF Usable
<1>14. Cardinality(U) = Cardinality(I) /\ \A k \in 1 .. Cardinality(I) : Nth(U, R, k) = h[k]
  <2> HIDE DEF h, I, U, R
  <2>1. PICK count \in Nat : count = Cardinality(I)
    BY <1>7, FS_CardinalityType
  <2>2. /\ h \in [1 .. count -> U]
        /\ \A i \in U : \E k \in 1 .. count : h[k] = i
        /\ \A j, k \in 1 .. count : j < k => << h[j], h[k] >> \in R
    BY <1>12, <2>1
  <2>3. Cardinality(U) = count /\ \A k \in 1 .. count : Nth(U, R, k) = h[k]
    BY <1>13, <2>2, ListingUnique
  <2> QED
    BY <2>1, <2>3
<1>15. Attempted(plan) = [k \in 1 .. Cardinality(I) |-> listed[at(k)]]
  <2>1. DOMAIN listed = D
    BY <1>6
  <2> QED
    BY <2>1 DEF Attempted, Picked, listed
<1>16. \A k \in 1 .. Cardinality(I) : listed[at(k)] = c[Nth(U, R, k)]
  BY <1>6, <1>8, <1>14
<1> QED
  BY <1>14, <1>15, <1>16 DEF Listing

------------------------------------------------------------------------------
(***************************************************************************)
(* What a host can offer, and what scores are added to it.                 *)
(***************************************************************************)
IsEntry(s) ==
  s = [class |-> s.class, backend |-> s.backend, availability |-> s.availability,
       score |-> s.score]

LEMMA OfferedFacts ==
  ASSUME NEW info, NEW host, NEW profile
  PROVE  LET o == Offered(info, host, profile)
         IN /\ DOMAIN o = 1 .. 7
            /\ \A i \in 1 .. 7 : IsEntry(o[i]) /\ o[i].class \in Class
            /\ \A i \in 1 .. 6 : o[i].score \in 25 .. 180 /\ o[i].class # "restricted"
            /\ o[7].score = -100 /\ o[7].class = "restricted" /\ o[7].availability = "ready"
            /\ RequiresKernel(info) =>
                 \A i \in 1 .. 6 : o[i].availability # "blocked" => o[i].class = "virtual-machine"
<1> DEFINE o == Offered(info, host, profile)
<1>1. {"wine", "proton-umu", "containerized-wine", "virtual-machine", "restricted"} \subseteq Class
  <2>1. /\ DOMAIN ClassOrder = 1 .. 5
        /\ ClassOrder[1] = "wine" /\ ClassOrder[2] = "proton-umu"
        /\ ClassOrder[3] = "containerized-wine" /\ ClassOrder[4] = "virtual-machine"
        /\ ClassOrder[5] = "restricted"
    BY DEF ClassOrder
  <2> QED
    BY <2>1 DEF Class
<1>2. /\ DOMAIN o = 1 .. 7
      /\ o[1] = Wine(info, host, Channel(profile)) /\ o[2] = WineStable(info, host)
      /\ o[3] = Proton(info, host) /\ o[4] = ProtonGe(info, host)
      /\ o[5] = Container(info, host) /\ o[6] = VirtualMachine(info, host)
      /\ o[7] = RestrictedByPolicy
  BY DEF Offered
<1>3. ASSUME NEW channel
      PROVE  LET w == Wine(info, host, channel)
             IN /\ IsEntry(w) /\ w.class = "wine" /\ w.score \in {75, 120}
                /\ RequiresKernel(info) => w.availability = "blocked"
  BY DEF Wine, Entry, IsEntry
<1>4. LET w == WineStable(info, host)
      IN /\ IsEntry(w) /\ w.class = "wine" /\ w.score \in {65, 110}
         /\ RequiresKernel(info) => w.availability = "blocked"
  BY DEF WineStable, Wine, Entry, IsEntry
<1>5. LET w == Proton(info, host)
      IN /\ IsEntry(w) /\ w.class = "proton-umu" /\ w.score \in {140, 55}
         /\ RequiresKernel(info) => w.availability = "blocked"
  BY DEF Proton, Entry, IsEntry
<1>6. LET w == ProtonGe(info, host)
      IN /\ IsEntry(w) /\ w.class = "proton-umu" /\ w.score \in {135, 50}
         /\ RequiresKernel(info) => w.availability = "blocked"
  <2> DEFINE umu == Proton(info, host)
  <2> DEFINE score == umu.score - 5
  <2>1. ProtonGe(info, host) = [umu EXCEPT !.backend = "umu-ge-proton", !.score = score]
    BY DEF ProtonGe
  <2>2. /\ IsEntry(umu) /\ umu.class = "proton-umu" /\ score \in {135, 50}
        /\ RequiresKernel(info) => umu.availability = "blocked"
    BY <1>5
  <2> HIDE DEF umu, score
  <2> QED
    BY <2>1, <2>2 DEF IsEntry
<1>7. LET w == Container(info, host)
      IN /\ IsEntry(w) /\ w.class = "containerized-wine" /\ w.score \in {45, 70}
         /\ w.availability = "blocked"
  BY DEF Container, Entry, IsEntry
<1>8. LET w == VirtualMachine(info, host)
      IN IsEntry(w) /\ w.class = "virtual-machine" /\ w.score \in {180, 25}
  BY DEF VirtualMachine, Entry, IsEntry
<1>9. LET w == RestrictedByPolicy
      IN IsEntry(w) /\ w.class = "restricted" /\ w.score = -100 /\ w.availability = "ready"
  BY DEF RestrictedByPolicy, Entry, IsEntry
<1> HIDE DEF o
<1>10. ASSUME NEW i \in 1 .. 6
       PROVE  /\ IsEntry(o[i]) /\ o[i].class \in Class
              /\ o[i].score \in 25 .. 180 /\ o[i].class # "restricted"
              /\ RequiresKernel(info) /\ o[i].availability # "blocked" =>
                   o[i].class = "virtual-machine"
  <2>1. CASE i \in {1, 2}
    BY <1>1, <1>2, <1>3, <1>4, <2>1
  <2>2. CASE i \in {3, 4}
    BY <1>1, <1>2, <1>5, <1>6, <2>2
  <2>3. CASE i \in {5, 6}
    BY <1>1, <1>2, <1>7, <1>8, <2>3
  <2> QED
    BY <2>1, <2>2, <2>3
<1>11. \A i \in 1 .. 7 : i \in 1 .. 6 \/ i = 7
  OBVIOUS
<1>12. \A i \in 1 .. 7 : IsEntry(o[i]) /\ o[i].class \in Class
  BY <1>1, <1>2, <1>9, <1>10, <1>11
<1> QED
  BY <1>2, <1>9, <1>10, <1>12 DEF o

Bonus(profile, s) == IF ProfilePrefers(profile, s) THEN 300 ELSE 0
LearnedBonus(learned, s) == IF Learned(learned, s) THEN 1000 ELSE 0

LEMMA AdjustedFacts ==
  ASSUME NEW s, IsEntry(s), s.score \in Int, NEW profile, NEW learned
  PROVE  LET a == Adjusted(s, profile, learned)
         IN /\ a.class = s.class /\ a.backend = s.backend /\ a.availability = s.availability
            /\ a.score = s.score + Bonus(profile, s) + LearnedBonus(learned, s)
            /\ a.score \in Int
BY DEF Adjusted, IsEntry, Bonus, LearnedBonus

LEMMA CandidateFacts ==
  ASSUME NEW info, NEW host, NEW profile, NEW learned
  PROVE  LET c == Candidates(info, host, profile, learned)
             o == Offered(info, host, profile)
         IN /\ DOMAIN c = 1 .. 7 /\ Sortable(c, 7)
            /\ ~IsBlocked(c[7])
            /\ \A i \in 1 .. 7 :
                 /\ c[i].class = o[i].class /\ c[i].backend = o[i].backend
                 /\ c[i].availability = o[i].availability
                 /\ c[i].score = o[i].score + Bonus(profile, o[i]) + LearnedBonus(learned, o[i])
                 /\ c[i].score \in Int
<1> DEFINE o == Offered(info, host, profile)
           c == Candidates(info, host, profile, learned)
<1>1. /\ DOMAIN o = 1 .. 7 /\ o[7].availability = "ready"
      /\ \A i \in 1 .. 7 : IsEntry(o[i]) /\ o[i].class \in Class
      /\ \A i \in 1 .. 7 : o[i].score \in Int
  <2>1. \A i \in 1 .. 7 : i \in 1 .. 6 \/ i = 7
    OBVIOUS
  <2> QED
    BY <2>1, OfferedFacts
<1>2. c = [i \in 1 .. 7 |-> Adjusted(o[i], profile, learned)]
  <2> DEFINE candidate(i) == Adjusted(o[i], profile, learned)
  <2>1. c = << candidate(1), candidate(2), candidate(3), candidate(4), candidate(5),
               candidate(6), candidate(7) >>
    BY DEF Candidates
  <2> HIDE DEF c, candidate
  <2>2. DOMAIN c = 1 .. 7 /\ \A i \in 1 .. 7 : c[i] = candidate(i)
    BY <2>1
  <2>3. c = [i \in 1 .. 7 |-> candidate(i)]
    BY <2>1
  <2> QED
    BY <2>3 DEF candidate
<1> HIDE DEF o, c
<1>3. ASSUME NEW i \in 1 .. 7
      PROVE  /\ c[i].class = o[i].class /\ c[i].backend = o[i].backend
             /\ c[i].availability = o[i].availability
             /\ c[i].score = o[i].score + Bonus(profile, o[i]) + LearnedBonus(learned, o[i])
             /\ c[i].score \in Int
  BY <1>1, <1>2, AdjustedFacts
<1>4. DOMAIN c = 1 .. 7 /\ Sortable(c, 7)
  BY <1>1, <1>2, <1>3 DEF Sortable
<1>5. ~IsBlocked(c[7])
  BY <1>1, <1>3 DEF IsBlocked
<1> QED
  BY <1>3, <1>4, <1>5 DEF o, c

(***************************************************************************)
(* What install() tries: nothing when the plan refuses the application,    *)
(* otherwise the usable candidates in their order.                         *)
(***************************************************************************)
LEMMA RefusedEmpty ==
  ASSUME NEW info, NEW host, NEW profile, NEW learned, NativeProtocol(info) \/ IsFirmware(info)
  PROVE  Attempted(Build(info, host, profile, learned)) = << >>
<1>1. SelectExecution(info, host, profile, learned).execution = RefusalOf(info)
  BY DEF SelectExecution
<1>2. RefusalOf(info).class = "restricted"
  BY DEF RefusalOf, Entry
<1> QED
  BY <1>1, <1>2 DEF Attempted, Build

LEMMA TriedInOrder ==
  ASSUME NEW info, NEW host, NEW profile, NEW learned, ~NativeProtocol(info), ~IsFirmware(info)
  PROVE  LET plan == Build(info, host, profile, learned)
             c == Candidates(info, host, profile, learned)
         IN Attempted(plan) = IF plan.execution.class = "restricted" THEN << >> ELSE Listing(c)
<1> DEFINE plan == Build(info, host, profile, learned)
           c == Candidates(info, host, profile, learned)
           f == FirstUsable(Sorted(c))
<1>1. /\ plan.execution = Sorted(c)[f]
      /\ plan.fallbacks = WithoutIndex(Sorted(c), f)
  BY DEF Build, SelectExecution, Ranking
<1>2. 7 \in Nat /\ Sortable(c, 7) /\ \E i \in 1 .. 7 : ~IsBlocked(c[i])
  BY CandidateFacts
<1>3. plan.execution.class = "restricted" => Attempted(plan) = << >>
  BY DEF Attempted
<1> HIDE DEF plan, c
<1>4. plan.execution.class # "restricted" => Attempted(plan) = Listing(c)
  BY <1>1, <1>2, AttemptedListing
<1> QED
  BY <1>3, <1>4 DEF plan, c

(***************************************************************************)
(* Two orders of one set: what the second moves to the front keeps its     *)
(* order, and so does the rest.                                            *)
(***************************************************************************)
Promoted(n, P) ==
  LET Back == (1 .. n) \ P
      front == Cardinality(P)
  IN [k \in 1 .. n |-> IF k <= front THEN Nth(P, Ascending(P), k)
                       ELSE Nth(Back, Ascending(Back), k - front)]

LEMMA PromotedPositions ==
  ASSUME NEW n \in Nat, NEW P \in SUBSET (1 .. n)
  PROVE  LET Back == (1 .. n) \ P
             h == Promoted(n, P)
         IN /\ Cardinality(P) \in Nat /\ Cardinality(Back) \in Nat
            /\ Cardinality(P) + Cardinality(Back) = n
            /\ h \in [1 .. n -> 1 .. n]
            /\ \A m \in 1 .. n : \E k \in 1 .. n : h[k] = m
            /\ \A j, k \in 1 .. n : j < k =>
                 \/ h[j] \in P /\ h[k] \notin P
                 \/ (h[j] \in P <=> h[k] \in P) /\ h[j] < h[k]
<1> DEFINE Back == (1 .. n) \ P
           front == Cardinality(P)
           back == Cardinality(Back)
           h == Promoted(n, P)
<1>1. /\ IsFiniteSet(P) /\ StrictOrder(P, Ascending(P))
      /\ IsFiniteSet(Back) /\ StrictOrder(Back, Ascending(Back))
  <2>1. Back \in SUBSET (1 .. n)
    OBVIOUS
  <2> HIDE DEF Back
  <2> QED
    BY <2>1, PositionsFinite, AscendingOrders
<1>2. front \in Nat /\ back \in Nat /\ front + back = n
  <2>1. IsFiniteSet(1 .. n) /\ Cardinality(1 .. n) = n
    BY FS_Interval
  <2>2. P \cup Back = 1 .. n /\ P \cap Back = {}
    OBVIOUS
  <2> HIDE DEF Back
  <2>3. front \in Nat /\ back \in Nat
    BY <1>1, FS_CardinalityType
  <2>4. Cardinality(P \cup Back) = front + back - Cardinality(P \cap Back)
    BY <1>1, FS_Union
  <2>5. Cardinality(P \cap Back) = 0
    BY <2>2, FS_EmptySet
  <2>6. Cardinality(P \cup Back) = n
    BY <2>1, <2>2, Zenon
  <2> HIDE DEF front, back
  <2> QED
    BY <2>3, <2>4, <2>5, <2>6
<1> DEFINE p(k) == Nth(P, Ascending(P), k)
           q(k) == Nth(Back, Ascending(Back), k)
<1>3. /\ \A k \in 1 .. front : p(k) \in P
      /\ \A m \in P : \E k \in 1 .. front : p(k) = m
      /\ \A j, k \in 1 .. front : j < k => p(j) < p(k)
  <2>1. /\ \A k \in 1 .. front : p(k) \in P
        /\ \A m \in P : \E k \in 1 .. front : p(k) = m
        /\ \A j, k \in 1 .. front : j < k => << p(j), p(k) >> \in Ascending(P)
    BY <1>1, NthLists
  <2> QED
    BY <2>1 DEF Ascending
<1>4. /\ \A k \in 1 .. back : q(k) \in Back
      /\ \A m \in Back : \E k \in 1 .. back : q(k) = m
      /\ \A j, k \in 1 .. back : j < k => q(j) < q(k)
  <2> HIDE DEF Back
  <2>1. /\ \A k \in 1 .. back : q(k) \in Back
        /\ \A m \in Back : \E k \in 1 .. back : q(k) = m
        /\ \A j, k \in 1 .. back : j < k => << q(j), q(k) >> \in Ascending(Back)
    BY <1>1, NthLists
  <2>2. \A i, j : << i, j >> \in Ascending(Back) => i < j
    BY DEF Ascending
  <2> QED
    BY <2>1, <2>2
<1>5. h = [k \in 1 .. n |-> IF k <= front THEN p(k) ELSE q(k - front)]
  BY DEF Promoted
<1> HIDE DEF front, back, p, q, h
<1>6. ASSUME NEW k \in 1 .. n
      PROVE  /\ k <= front => k \in 1 .. front /\ h[k] = p(k) /\ h[k] \in P
             /\ ~(k <= front) => k - front \in 1 .. back /\ h[k] = q(k - front) /\ h[k] \in Back
  BY <1>2, <1>3, <1>4, <1>5
<1>7. h \in [1 .. n -> 1 .. n]
  BY <1>2, <1>5, <1>6
<1>8. ASSUME NEW m \in 1 .. n
      PROVE  \E k \in 1 .. n : h[k] = m
  <2>1. CASE m \in P
    <3>1. PICK k \in 1 .. front : p(k) = m
      BY <1>3, <2>1
    <3>2. k \in 1 .. n /\ k <= front
      BY <1>2
    <3> QED
      BY <1>6, <3>1, <3>2
  <2>2. CASE m \notin P
    <3>1. PICK k \in 1 .. back : q(k) = m
      BY <1>4, <2>2
    <3>2. PICK t \in 1 .. n : ~(t <= front) /\ t - front = k
      <4>1. k + front \in 1 .. n /\ ~(k + front <= front) /\ (k + front) - front = k
        BY <1>2
      <4> QED
        BY <4>1
    <3> QED
      BY <1>6, <3>1, <3>2
  <2> QED
    BY <2>1, <2>2
<1>9. ASSUME NEW j \in 1 .. n, NEW k \in 1 .. n, j < k
      PROVE  \/ h[j] \in P /\ h[k] \notin P
             \/ (h[j] \in P <=> h[k] \in P) /\ h[j] < h[k]
  <2>1. CASE k <= front
    <3>1. j <= front
      BY <1>2, <1>9, <2>1
    <3> QED
      BY <1>3, <1>6, <1>9, <2>1, <3>1
  <2>2. CASE ~(j <= front)
    <3>1. ~(k <= front) /\ j - front < k - front
      BY <1>2, <1>9, <2>2
    <3>2. h[j] < h[k]
      BY <1>4, <1>6, <2>2, <3>1
    <3> QED
      BY <1>6, <2>2, <3>1, <3>2
  <2>3. CASE j <= front /\ ~(k <= front)
    BY <1>6, <2>3
  <2> QED
    BY <2>1, <2>2, <2>3
<1> QED
  BY <1>2, <1>7, <1>8, <1>9 DEF front, back, h

LEMMA PromotedListing ==
  ASSUME NEW S, IsFiniteSet(S), NEW R, StrictOrder(S, R), NEW Q, StrictOrder(S, Q),
         NEW n \in Nat, NEW P \in SUBSET (1 .. n),
         \A j, k \in 1 .. n :
           \/ j \in P /\ k \notin P
           \/ (j \in P <=> k \in P) /\ j < k
           => << Nth(S, R, j), Nth(S, R, k) >> \in Q
  PROVE  n = Cardinality(S) => \A k \in 1 .. n : Nth(S, Q, k) = Nth(S, R, Promoted(n, P)[k])
<1> DEFINE h == Promoted(n, P)
           g == [k \in 1 .. n |-> Nth(S, R, h[k])]
<1>1. /\ h \in [1 .. n -> 1 .. n]
      /\ \A m \in 1 .. n : \E k \in 1 .. n : h[k] = m
      /\ \A j, k \in 1 .. n : j < k =>
           \/ h[j] \in P /\ h[k] \notin P
           \/ (h[j] \in P <=> h[k] \in P) /\ h[j] < h[k]
  BY PromotedPositions
<1> HIDE DEF h
<1> SUFFICES ASSUME n = Cardinality(S)
             PROVE  \A k \in 1 .. n : Nth(S, Q, k) = g[k]
  BY DEF h
<1>2. /\ \A k \in 1 .. n : Nth(S, R, k) \in S
      /\ \A i \in S : \E k \in 1 .. n : Nth(S, R, k) = i
  BY NthLists
<1>3. g \in [1 .. n -> S]
  BY <1>1, <1>2
<1>4. \A i \in S : \E k \in 1 .. n : g[k] = i
  BY <1>1, <1>2
<1>5. ASSUME NEW j \in 1 .. n, NEW k \in 1 .. n, j < k
      PROVE  << g[j], g[k] >> \in Q
  <2>1. h[j] \in 1 .. n /\ h[k] \in 1 .. n
    BY <1>1
  <2>2. << Nth(S, R, h[j]), Nth(S, R, h[k]) >> \in Q
    BY <1>1, <1>5, <2>1
  <2> QED
    BY <2>2
<1> HIDE DEF g
<1> QED
  BY <1>3, <1>4, <1>5, ListingUnique

LEMMA PickedPromoted ==
  ASSUME NEW n \in Nat, NEW s, DOMAIN s = 1 .. n, NEW P \in SUBSET (1 .. n)
  PROVE  LET Back == (1 .. n) \ P
         IN Picked(s, P) \o Picked(s, Back) = [k \in 1 .. n |-> s[Promoted(n, P)[k]]]
<1> DEFINE Back == (1 .. n) \ P
           front == Cardinality(P)
           back == Cardinality(Back)
           a == [k \in 1 .. front |-> s[Nth(P, Ascending(P), k)]]
           b == [k \in 1 .. back |-> s[Nth(Back, Ascending(Back), k)]]
           E == {a[k] : k \in 1 .. front} \cup {b[k] : k \in 1 .. back}
<1>1. front \in Nat /\ back \in Nat /\ front + back = n
  BY PromotedPositions
<1>2. Picked(s, P) = a /\ Picked(s, Back) = b
  BY DEF Picked
<1>3. \A k \in 1 .. n : s[Promoted(n, P)[k]] = IF k <= front THEN a[k] ELSE b[k - front]
  <2> HIDE DEF Back
  <2>1. \A k \in 1 .. n : (k <= front => k \in 1 .. front)
                       /\ (~(k <= front) => k - front \in 1 .. back)
    <3> HIDE DEF front, back
    <3> QED
      BY <1>1
  <2>2. ASSUME NEW k \in 1 .. n
        PROVE  Promoted(n, P)[k] = IF k <= front THEN Nth(P, Ascending(P), k)
                                   ELSE Nth(Back, Ascending(Back), k - front)
    BY DEF Promoted, Back
  <2> QED
    BY <2>1, <2>2
<1>4. a \in Seq(E) /\ Len(a) = front /\ b \in Seq(E) /\ Len(b) = back
  <2>1. a \in [1 .. front -> E] /\ b \in [1 .. back -> E]
    OBVIOUS
  <2>2. DOMAIN a = 1 .. front /\ DOMAIN b = 1 .. back
    OBVIOUS
  <2> HIDE DEF a, b, E, front, back
  <2> QED
    BY <1>1, <2>1, <2>2
<1> HIDE DEF a, b, E, front, back
<1>5. a \o b = [k \in 1 .. n |-> IF k <= front THEN a[k] ELSE b[k - front]]
  <2> DEFINE ab == a \o b
  <2>1. ab \in Seq(E) /\ Len(ab) = n
    BY <1>1, <1>4
  <2>2. ASSUME NEW k \in 1 .. n
        PROVE  ab[k] = IF k <= front THEN a[k] ELSE b[k - front]
    <3>1. k \in 1 .. (Len(a) + Len(b))
      BY <1>1, <1>4
    <3> QED
      BY <1>1, <1>4, <3>1
  <2> HIDE DEF ab
  <2>3. ab = [k \in 1 .. n |-> ab[k]]
    BY <2>1
  <2>4. [k \in 1 .. n |-> ab[k]] = [k \in 1 .. n |-> IF k <= front THEN a[k] ELSE b[k - front]]
    BY <2>2
  <2>5. ab = [k \in 1 .. n |-> IF k <= front THEN a[k] ELSE b[k - front]]
    BY <2>3, <2>4
  <2> QED
    BY <2>5 DEF ab
<1>6. a \o b = [k \in 1 .. n |-> s[Promoted(n, P)[k]]]
  BY <1>3, <1>5
<1> QED
  BY <1>2, <1>6

------------------------------------------------------------------------------
(***************************************************************************)
(* How a profile and strategy memory move the candidates of one host.      *)
(***************************************************************************)
LEMMA SortOrderMeaning ==
  ASSUME NEW n \in Nat, NEW c, Sortable(c, n), NEW i \in 1 .. n, NEW j \in 1 .. n
  PROVE  << i, j >> \in SortOrder(c) <=> SortsBefore(c, i, j)
BY DEF SortOrder, Sortable

(* The selection is a refusal exactly if `restricted` comes before every usable class. *)
LEMMA RefusedWhen ==
  ASSUME NEW info, NEW host, NEW profile, NEW learned, ~NativeProtocol(info), ~IsFirmware(info)
  PROVE  LET c == Candidates(info, host, profile, learned)
         IN Build(info, host, profile, learned).execution.class = "restricted"
              <=> \A i \in 1 .. 6 : ~IsBlocked(c[i]) => << 7, i >> \in SortOrder(c)
<1> DEFINE c == Candidates(info, host, profile, learned)
           execution == Build(info, host, profile, learned).execution
           R == SortOrder(c)
<1>1. execution = Sorted(c)[FirstUsable(Sorted(c))]
  BY DEF Build, SelectExecution, Ranking
<1>2. 7 \in Nat /\ Sortable(c, 7) /\ ~IsBlocked(c[7])
  BY CandidateFacts
<1>3. /\ \A i \in 1 .. 6 : c[i].class # "restricted"
      /\ c[7].class = "restricted"
  <2>1. \A i \in 1 .. 6 : i \in 1 .. 7
    OBVIOUS
  <2> QED
    BY <2>1, OfferedFacts, CandidateFacts
<1> HIDE DEF c, execution
<1>4. PICK e \in 1 .. 7 :
        /\ execution = c[e] /\ ~IsBlocked(c[e])
        /\ \A j \in 1 .. 7 : ~IsBlocked(c[j]) /\ j # e => << e, j >> \in R
  <2>1. \E i \in 1 .. 7 : ~IsBlocked(c[i])
    BY <1>2
  <2> QED
    BY <1>1, <1>2, <2>1, ExecutionFirst
<1>5. StrictOrder(1 .. 7, R)
  BY <1>2, SortOrderStrict
<1> HIDE DEF R
<1>6. execution.class = "restricted" <=> e = 7
  <2>1. e \in 1 .. 6 \/ e = 7
    OBVIOUS
  <2> QED
    BY <1>3, <1>4, <2>1
<1>7. ASSUME e = 7, NEW i \in 1 .. 6, ~IsBlocked(c[i])
      PROVE  << 7, i >> \in R
  BY <1>4, <1>7
<1>8. ASSUME e # 7
      PROVE  \E i \in 1 .. 6 : ~IsBlocked(c[i]) /\ << 7, i >> \notin R
  <2>1. e \in 1 .. 6 /\ 7 \in 1 .. 7
    BY <1>8
  <2>2. << e, 7 >> \in R
    BY <1>2, <1>4, <1>8, <2>1
  <2>3. << 7, e >> \notin R
    BY <1>5, <2>1, <2>2 DEF StrictOrder
  <2> QED
    BY <1>4, <2>1, <2>3
<1>9. execution.class = "restricted"
        <=> \A i \in 1 .. 6 : ~IsBlocked(c[i]) => << 7, i >> \in R
  BY <1>6, <1>7, <1>8
<1> QED
  BY <1>9 DEF c, execution, R

(* A strategy that was learned is never `restricted`, so learning refuses nothing. *)
LEMMA LearningKeepsExecution ==
  ASSUME NEW info, NEW host, NEW profile, NEW learned, ~NativeProtocol(info), ~IsFirmware(info),
         learned # None => learned.class # "restricted",
         Build(info, host, profile, None).execution.class # "restricted"
  PROVE  Build(info, host, profile, learned).execution.class # "restricted"
<1> DEFINE o == Offered(info, host, profile)
           before == Candidates(info, host, profile, None)
           after == Candidates(info, host, profile, learned)
<1>1. PICK i \in 1 .. 6 : ~IsBlocked(before[i]) /\ << 7, i >> \notin SortOrder(before)
  BY RefusedWhen
<1>2. i \in 1 .. 7 /\ 7 \in 1 .. 7 /\ 7 \in Nat
  OBVIOUS
<1>3. Sortable(before, 7) /\ Sortable(after, 7)
  BY CandidateFacts
<1>4. /\ before[i].class = after[i].class /\ before[7].class = after[7].class
      /\ before[i].availability = after[i].availability
  BY <1>2, CandidateFacts
<1>5. ~Learned(learned, o[7]) /\ \A s : ~Learned(None, s)
  BY OfferedFacts DEF Learned
<1>6. /\ before[i].score \in Int /\ after[i].score \in Int /\ before[i].score <= after[i].score
      /\ before[7].score \in Int /\ before[7].score = after[7].score
  <2> DEFINE bonus(j) == Bonus(profile, o[j])
  <2>1. \A j \in 1 .. 7 : /\ before[j].score = o[j].score + bonus(j) + LearnedBonus(None, o[j])
                          /\ after[j].score = o[j].score + bonus(j) + LearnedBonus(learned, o[j])
                          /\ before[j].score \in Int /\ after[j].score \in Int
    BY CandidateFacts
  <2>2. \A j \in 1 .. 7 : LearnedBonus(None, o[j]) = 0 /\ LearnedBonus(learned, o[j]) \in {0, 1000}
    BY <1>5 DEF LearnedBonus
  <2>3. LearnedBonus(learned, o[7]) = 0
    BY <1>5 DEF LearnedBonus
  <2>4. o[i].score \in Int /\ o[7].score \in Int
    BY <1>2, OfferedFacts
  <2>5. bonus(i) \in Int /\ bonus(7) \in Int
    BY DEF Bonus
  <2> HIDE DEF o, before, after, bonus
  <2> QED
    BY <1>2, <2>1, <2>2, <2>3, <2>4, <2>5
<1>7. ~SortsBefore(before, 7, i)
  BY <1>1, <1>2, <1>3, SortOrderMeaning
<1>8. ~SortsBefore(after, 7, i)
  <2> HIDE DEF o, before, after
  <2> QED
    BY <1>4, <1>6, <1>7 DEF SortsBefore
<1>9. ~IsBlocked(after[i]) /\ << 7, i >> \notin SortOrder(after)
  BY <1>1, <1>2, <1>3, <1>4, <1>8, SortOrderMeaning DEF IsBlocked
<1> QED
  BY <1>9, RefusedWhen

LEMMA SameUsable ==
  ASSUME NEW info, NEW host, NEW profile, NEW learned
  PROVE  LET before == Candidates(info, host, profile, None)
             after == Candidates(info, host, profile, learned)
         IN /\ Usable(before) = Usable(after) /\ Usable(before) \in SUBSET (1 .. 6)
            /\ \A i \in Usable(before) : PrefixOf(before[i]) = PrefixOf(after[i])
<1> DEFINE before == Candidates(info, host, profile, None)
           after == Candidates(info, host, profile, learned)
<1>1. DOMAIN before = 1 .. 7 /\ DOMAIN after = 1 .. 7
  BY CandidateFacts
<1>2. ASSUME NEW i \in 1 .. 7
      PROVE  /\ before[i].class = after[i].class /\ before[i].backend = after[i].backend
             /\ before[i].availability = after[i].availability
  BY CandidateFacts
<1>3. before[7].class = "restricted"
  BY OfferedFacts, CandidateFacts
<1>4. \A i \in 1 .. 7 : i \in 1 .. 6 \/ i = 7
  OBVIOUS
<1> HIDE DEF before, after
<1>5. /\ Usable(before) = Usable(after) /\ Usable(before) \in SUBSET (1 .. 6)
      /\ \A i \in Usable(before) : PrefixOf(before[i]) = PrefixOf(after[i])
  BY <1>1, <1>2, <1>3, <1>4 DEF Usable, Tried, IsBlocked, PrefixOf
<1> QED
  BY <1>5 DEF before, after

(***************************************************************************)
(* The +1000 of a learned strategy: it comes before the others, and what   *)
(* else was in order stays so.                                             *)
(***************************************************************************)
LEMMA LearningOrders ==
  ASSUME NEW info, NEW host, NEW profile, NEW learned, NEW i \in 1 .. 6, NEW j \in 1 .. 6
  PROVE  LET o == Offered(info, host, profile)
             before == Candidates(info, host, profile, None)
             after == Candidates(info, host, profile, learned)
             known(k) == Learned(learned, o[k])
         IN \/ known(i) /\ ~known(j)
            \/ (known(i) <=> known(j)) /\ << i, j >> \in SortOrder(before)
            => << i, j >> \in SortOrder(after)
<1> DEFINE o == Offered(info, host, profile)
           before == Candidates(info, host, profile, None)
           after == Candidates(info, host, profile, learned)
           known(k) == Learned(learned, o[k])
           base(k) == o[k].score + Bonus(profile, o[k])
<1>1. i \in 1 .. 7 /\ j \in 1 .. 7 /\ 7 \in Nat
  OBVIOUS
<1>2. Sortable(before, 7) /\ Sortable(after, 7)
  BY CandidateFacts
<1>3. \A k \in {i, j} : base(k) \in 25 .. 480
  <2>1. \A k \in {i, j} : o[k].score \in 25 .. 180
    BY OfferedFacts
  <2>2. \A k \in {i, j} : Bonus(profile, o[k]) \in {0, 300}
    BY DEF Bonus
  <2> HIDE DEF o
  <2> QED
    BY <2>1, <2>2
<1>4. \A k \in {i, j} : /\ before[k].class = after[k].class
                        /\ before[k].score = base(k)
                        /\ after[k].score = IF known(k) THEN base(k) + 1000 ELSE base(k)
  <2>1. \A k \in {i, j} : LearnedBonus(None, o[k]) = 0
    BY DEF LearnedBonus, Learned
  <2>2. \A k \in {i, j} : LearnedBonus(learned, o[k]) = IF known(k) THEN 1000 ELSE 0
    BY DEF LearnedBonus
  <2>3. \A k \in {i, j} : /\ before[k].class = after[k].class
                          /\ before[k].score = base(k) + LearnedBonus(None, o[k])
                          /\ after[k].score = base(k) + LearnedBonus(learned, o[k])
    BY <1>1, CandidateFacts
  <2> SUFFICES ASSUME NEW k \in {i, j}
               PROVE  /\ before[k].class = after[k].class
                      /\ before[k].score = base(k)
                      /\ after[k].score = IF known(k) THEN base(k) + 1000 ELSE base(k)
    OBVIOUS
  <2> DEFINE x == base(k)
             plus == LearnedBonus(learned, o[k])
  <2>4. x \in 25 .. 480
    BY <1>3
  <2>5. before[k].score = x + 0 /\ after[k].score = x + plus
    BY <2>1, <2>3
  <2>6. plus = IF known(k) THEN 1000 ELSE 0
    BY <2>2
  <2> HIDE DEF o, before, after, base, known, x, plus
  <2>7. before[k].score = x
    BY <2>4, <2>5
  <2>8. after[k].score = IF known(k) THEN x + 1000 ELSE x
    BY <2>4, <2>5, <2>6
  <2> QED
    BY <2>3, <2>7, <2>8 DEF x
<1>5. /\ << i, j >> \in SortOrder(before) <=> SortsBefore(before, i, j)
      /\ << i, j >> \in SortOrder(after) <=> SortsBefore(after, i, j)
  BY <1>1, <1>2, SortOrderMeaning
<1> HIDE DEF o, before, after, base, known
<1>6. ASSUME known(i), ~known(j)
      PROVE  << i, j >> \in SortOrder(after)
  <2> DEFINE x == base(i)
             y == base(j)
  <2>1. after[i].score = x + 1000 /\ after[j].score = y
    BY <1>4, <1>6
  <2>2. x \in 25 .. 480 /\ y \in 25 .. 480
    BY <1>3
  <2> HIDE DEF x, y
  <2>3. x + 1000 > y
    BY <2>2
  <2>4. after[i].score > after[j].score
    BY <2>1, <2>3
  <2> QED
    BY <1>5, <2>4 DEF SortsBefore
<1>7. ASSUME known(i) <=> known(j), << i, j >> \in SortOrder(before)
      PROVE  << i, j >> \in SortOrder(after)
  <2> DEFINE x == base(i)
             y == base(j)
  <2>1. x \in 25 .. 480 /\ y \in 25 .. 480
    BY <1>3
  <2>2. before[i].score = x /\ before[j].score = y
    BY <1>4
  <2>3. \/ after[i].score = x + 1000 /\ after[j].score = y + 1000
        \/ after[i].score = x /\ after[j].score = y
    <3>1. CASE known(i)
      BY <1>4, <1>7, <3>1
    <3>2. CASE ~known(i)
      BY <1>4, <1>7, <3>2
    <3> QED
      BY <3>1, <3>2
  <2> HIDE DEF x, y
  <2>4. /\ after[i].score > after[j].score <=> before[i].score > before[j].score
        /\ after[i].score = after[j].score <=> before[i].score = before[j].score
    BY <2>1, <2>2, <2>3
  <2>5. before[i].class = after[i].class /\ before[j].class = after[j].class
    BY <1>4
  <2>6. SortsBefore(before, i, j)
    BY <1>5, <1>7
  <2>7. SortsBefore(after, i, j)
    BY <2>4, <2>5, <2>6 DEF SortsBefore
  <2> QED
    BY <1>5, <2>7
<1> QED
  BY <1>6, <1>7 DEF o, before, after, known

LEMMA ListingFacts ==
  ASSUME NEW n \in Nat, NEW c, Sortable(c, n)
  PROVE  LET U == Usable(c)
             R == SortOrder(c)
         IN /\ IsFiniteSet(U) /\ StrictOrder(U, R) /\ Cardinality(U) \in Nat
            /\ U \in SUBSET (1 .. n)
            /\ DOMAIN Listing(c) = 1 .. Cardinality(U)
            /\ \A k \in 1 .. Cardinality(U) : /\ Nth(U, R, k) \in U
                                              /\ Listing(c)[k] = c[Nth(U, R, k)]
            /\ \A i \in U : \E k \in 1 .. Cardinality(U) : Nth(U, R, k) = i
            /\ \A j, k \in 1 .. Cardinality(U) : j < k => << Nth(U, R, j), Nth(U, R, k) >> \in R
<1> DEFINE U == Usable(c)
           R == SortOrder(c)
<1>1. U \in SUBSET (1 .. n)
  BY DEF Usable, Sortable
<1>2. IsFiniteSet(U) /\ StrictOrder(U, R)
  BY <1>1, SortOrderStrict
<1>3. Cardinality(U) \in Nat
  BY <1>2, FS_CardinalityType
<1>4. /\ \A k \in 1 .. Cardinality(U) : Nth(U, R, k) \in U
      /\ \A i \in U : \E k \in 1 .. Cardinality(U) : Nth(U, R, k) = i
      /\ \A j, k \in 1 .. Cardinality(U) : j < k => << Nth(U, R, j), Nth(U, R, k) >> \in R
  <2> HIDE DEF U, R
  <2> QED
    BY <1>2, NthLists
<1>5. Listing(c) = [k \in 1 .. Cardinality(U) |-> c[Nth(U, R, k)]]
  BY DEF Listing
<1> HIDE DEF U, R
<1>6. /\ DOMAIN Listing(c) = 1 .. Cardinality(U)
      /\ \A k \in 1 .. Cardinality(U) : Listing(c)[k] = c[Nth(U, R, k)]
  BY <1>5
<1> QED
  BY <1>1, <1>2, <1>3, <1>4, <1>6 DEF U, R

(* What was learned moves to the front of the list that is tried. *)
LEMMA LearningPromotes ==
  ASSUME NEW info, NEW host, NEW profile, NEW learned
  PROVE  LET before == Listing(Candidates(info, host, profile, None))
             after == Listing(Candidates(info, host, profile, learned))
             n == Cardinality(Usable(Candidates(info, host, profile, None)))
             P == {k \in 1 .. n : Learned(learned, before[k])}
         IN /\ n \in Nat /\ DOMAIN before = 1 .. n /\ DOMAIN after = 1 .. n
            /\ \A k \in 1 .. n : PrefixOf(after[k]) = PrefixOf(before[Promoted(n, P)[k]])
<1> DEFINE o == Offered(info, host, profile)
           c == Candidates(info, host, profile, None)
           d == Candidates(info, host, profile, learned)
           U == Usable(c)
           R == SortOrder(c)
           Q == SortOrder(d)
           n == Cardinality(U)
           P == {k \in 1 .. n : Learned(learned, Listing(c)[k])}
<1>1. /\ Usable(d) = U /\ U \in SUBSET (1 .. 6)
      /\ \A i \in U : PrefixOf(c[i]) = PrefixOf(d[i])
  BY SameUsable
<1>2. 7 \in Nat /\ Sortable(c, 7) /\ Sortable(d, 7)
  BY CandidateFacts
<1>3. /\ IsFiniteSet(U) /\ StrictOrder(U, R) /\ n \in Nat /\ DOMAIN Listing(c) = 1 .. n
      /\ \A k \in 1 .. n : Nth(U, R, k) \in U /\ Listing(c)[k] = c[Nth(U, R, k)]
      /\ \A j, k \in 1 .. n : j < k => << Nth(U, R, j), Nth(U, R, k) >> \in R
  BY <1>2, ListingFacts
<1>4. /\ StrictOrder(U, Q) /\ DOMAIN Listing(d) = 1 .. n
      /\ \A k \in 1 .. n : Listing(d)[k] = d[Nth(U, Q, k)]
  <2>1. LET V == Usable(d)
        IN /\ StrictOrder(V, Q) /\ DOMAIN Listing(d) = 1 .. Cardinality(V)
           /\ \A k \in 1 .. Cardinality(V) : Listing(d)[k] = d[Nth(V, Q, k)]
    BY <1>2, ListingFacts
  <2> QED
    BY <1>1, <2>1
<1>5. \A k \in 1 .. n : k \in P <=> Learned(learned, o[Nth(U, R, k)])
  <2>1. \A i \in U : Learned(learned, c[i]) <=> Learned(learned, o[i])
    <3>1. \A i \in U : i \in 1 .. 7
      BY <1>1
    <3>2. \A i \in 1 .. 7 : c[i].class = o[i].class /\ c[i].backend = o[i].backend
      BY CandidateFacts
    <3> QED
      BY <3>1, <3>2 DEF Learned
  <2> QED
    BY <1>3, <2>1
<1>6. ASSUME NEW j \in 1 .. n, NEW k \in 1 .. n,
             (j \in P /\ k \notin P) \/ ((j \in P <=> k \in P) /\ j < k)
      PROVE  << Nth(U, R, j), Nth(U, R, k) >> \in Q
  <2>1. Nth(U, R, j) \in 1 .. 6 /\ Nth(U, R, k) \in 1 .. 6
    BY <1>1, <1>3
  <2>2. j < k => << Nth(U, R, j), Nth(U, R, k) >> \in R
    BY <1>3
  <2>3. /\ j \in P <=> Learned(learned, o[Nth(U, R, j)])
        /\ k \in P <=> Learned(learned, o[Nth(U, R, k)])
    BY <1>5
  <2> DEFINE x == Nth(U, R, j)
             y == Nth(U, R, k)
  <2>4. \/ Learned(learned, o[x]) /\ ~Learned(learned, o[y])
        \/ (Learned(learned, o[x]) <=> Learned(learned, o[y])) /\ << x, y >> \in R
    BY <1>6, <2>2, <2>3
  <2> HIDE DEF x, y
  <2>5. x \in 1 .. 6 /\ y \in 1 .. 6
    BY <2>1 DEF x, y
  <2>6. << x, y >> \in Q
    BY <2>4, <2>5, LearningOrders
  <2> QED
    BY <2>6 DEF x, y
<1>7. P \in SUBSET (1 .. n)
  OBVIOUS
<1> HIDE DEF U, R, Q, n, P
<1>8. \A k \in 1 .. n : Nth(U, Q, k) = Nth(U, R, Promoted(n, P)[k])
  <2>1. n = Cardinality(U)
    BY DEF n
  <2> QED
    BY <1>3, <1>4, <1>6, <1>7, <2>1, PromotedListing
<1>9. \A k \in 1 .. n : Promoted(n, P)[k] \in 1 .. n
  <2>1. Promoted(n, P) \in [1 .. n -> 1 .. n]
    BY <1>3, <1>7, PromotedPositions
  <2> QED
    BY <2>1
<1>10. ASSUME NEW k \in 1 .. n
       PROVE  PrefixOf(Listing(d)[k]) = PrefixOf(Listing(c)[Promoted(n, P)[k]])
  <2> DEFINE p == Promoted(n, P)[k]
             i == Nth(U, R, p)
  <2>1. p \in 1 .. n /\ Nth(U, Q, k) = i
    BY <1>8, <1>9
  <2> HIDE DEF p
  <2>2. i \in U /\ Listing(c)[p] = c[i]
    BY <1>3, <2>1
  <2>3. Listing(d)[k] = d[i]
    BY <1>4, <2>1
  <2> HIDE DEF i, c, d
  <2>4. PrefixOf(c[i]) = PrefixOf(d[i])
    BY <1>1, <2>2
  <2>5. PrefixOf(Listing(d)[k]) = PrefixOf(Listing(c)[p])
    BY <2>2, <2>3, <2>4
  <2> QED
    BY <2>5 DEF p, c, d
<1> QED
  BY <1>3, <1>4, <1>10 DEF U, n, P

==============================================================================
