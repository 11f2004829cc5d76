---------------------------- MODULE AnalyzerProofs ----------------------------
(***************************************************************************)
(* The walk over a resource directory, for any table and any limits:       *)
(* lemmas about the operators of Analyzer.                                 *)
(***************************************************************************)
EXTENDS Analyzer, PlannerProofs

LEMMA LeastExists ==
  ASSUME NEW n \in Nat, NEW S \in SUBSET (0 .. n), S # {}
  PROVE  \E m \in S : \A j \in S : m <= j
<1> DEFINE first == Nth(S, Ascending(S), 1)
<1>1. IsFiniteSet(S) /\ StrictOrder(S, Ascending(S)) /\ S \in SUBSET Int
  <2>1. IsFiniteSet(0 .. n)
    BY FS_Interval
  <2>2. IsFiniteSet(S)
    BY <2>1, FS_Subset
  <2>3. S \in SUBSET Int
    OBVIOUS
  <2> QED
    BY <2>2, <2>3, AscendingOrders
<1>2. 1 \in 1 .. Cardinality(S)
  BY <1>1, FS_CardinalityType, FS_EmptySet
<1>3. first \in S /\ Cardinality(Below(S, Ascending(S), first)) = 1 - 1
  BY <1>1, <1>2, NthExists
<1> HIDE DEF first
<1>4. Below(S, Ascending(S), first) = {}
  <2>1. IsFiniteSet(Below(S, Ascending(S), first))
    BY <1>1, <1>3, BelowCount
  <2> QED
    BY <1>3, <2>1, FS_EmptySet
<1>5. \A j \in S : ~(j < first)
  BY <1>3, <1>4 DEF Below, Ascending
<1> QED
  BY <1>1, <1>3, <1>5

------------------------------------------------------------------------------
(***************************************************************************)
(* Links and paths.                                                        *)
(***************************************************************************)
Directories(table, o) == {i \in DOMAIN table[o] : IsDirectory(table[o][i])}

LEMMA TableFacts ==
  ASSUME NEW table, IsTable(table), NEW o \in DOMAIN table
  PROVE  /\ DOMAIN table[o] = 1 .. Len(table[o]) /\ Len(table[o]) \in Nat
         /\ \A i \in Directories(table, o) :
              i \in Nat /\ i # 0 /\ table[o][i][2] \in DOMAIN table /\ << o, i >> # RootLink
BY DEF IsTable, Directories, RootLink

LEMMA LinkForms ==
  ASSUME NEW table, IsTable(table), NEW S \in SUBSET DOMAIN table
  PROVE  /\ RootLink \in Links(table, S) /\ Target(table, RootLink) = 0
         /\ \A o \in S : \A i \in Directories(table, o) :
              /\ << o, i >> \in Links(table, S)
              /\ Target(table, << o, i >>) = table[o][i][2]
         /\ \A link \in Links(table, S) :
              \/ link = RootLink
              \/ \E o \in S : \E i \in Directories(table, o) : link = << o, i >>
<1>1. RootLink \in Links(table, S) /\ Target(table, RootLink) = 0
  BY DEF Links, Target
<1>2. ASSUME NEW o \in S, NEW i \in Directories(table, o)
      PROVE  /\ << o, i >> \in Links(table, S)
             /\ Target(table, << o, i >>) = table[o][i][2]
  <2>1. << o, i >> \in EntriesOf(table, S) /\ EntryAt(table, << o, i >>) = table[o][i]
    BY DEF EntriesOf, EntryAt, Directories
  <2>2. << o, i >> # RootLink
    BY TableFacts
  <2> QED
    BY <2>1, <2>2 DEF Links, Target, Directories
<1>3. ASSUME NEW link \in Links(table, S), link # RootLink
      PROVE  \E o \in S : \E i \in Directories(table, o) : link = << o, i >>
  <2>1. link \in EntriesOf(table, S) /\ IsDirectory(EntryAt(table, link))
    BY <1>3 DEF Links
  <2>2. PICK o \in S : link \in {o} \X (DOMAIN table[o])
    BY <2>1 DEF EntriesOf
  <2> QED
    BY <2>1, <2>2 DEF EntryAt, Directories
<1> QED
  BY <1>1, <1>2, <1>3

LEMMA FollowsForm ==
  ASSUME NEW table, IsTable(table), NEW o \in DOMAIN table, NEW q
  PROVE  Follows(table, o, q) <=> \E i \in Directories(table, o) : table[o][i][2] = q
<1>1. {o} \in SUBSET DOMAIN table
  OBVIOUS
<1>2. ASSUME Follows(table, o, q)
      PROVE  \E i \in Directories(table, o) : table[o][i][2] = q
  <2>1. PICK link \in Links(table, {o}) \ {RootLink} : Target(table, link) = q
    BY <1>2 DEF Follows
  <2>2. PICK i \in Directories(table, o) : link = << o, i >>
    BY <1>1, <2>1, LinkForms
  <2> QED
    BY <1>1, <2>1, <2>2, LinkForms
<1>3. ASSUME NEW i \in Directories(table, o), table[o][i][2] = q
      PROVE  Follows(table, o, q)
  <2>1. << o, i >> \in Links(table, {o}) /\ Target(table, << o, i >>) = q
    BY <1>1, <1>3, LinkForms
  <2>2. << o, i >> # RootLink
    BY TableFacts
  <2> QED
    BY <2>1, <2>2 DEF Follows
<1> QED
  BY <1>2, <1>3

(* Whatever a path comes to is in every closed set, hence reached. *)
LEMMA PathReached ==
  ASSUME NEW table, IsTable(table), NEW n \in Nat, NEW p \in Paths(table, n), NEW i \in 0 .. n
  PROVE  p[i] \in Reached(table)
<1>1. /\ p \in [0 .. n -> DOMAIN table] /\ p[0] = 0
      /\ \A k \in 1 .. n : Follows(table, p[k - 1], p[k])
  BY DEF Paths
<1>2. ASSUME NEW S \in SUBSET DOMAIN table, Closed(table, S)
      PROVE  p[i] \in S
  <2> DEFINE Outside == {k \in 0 .. n : p[k] \notin S}
  <2>1. SUFFICES ASSUME Outside # {}
                 PROVE  FALSE
    OBVIOUS
  <2>2. PICK m \in Outside : \A j \in Outside : m <= j
    <3>1. Outside \in SUBSET (0 .. n)
      OBVIOUS
    <3> HIDE DEF Outside
    <3> QED
      BY <2>1, <3>1, LeastExists
  <2>3. 0 \in S
    BY <1>2, LinkForms DEF Closed
  <2>4. m # 0
    BY <1>1, <2>3
  <2>5. m \in 1 .. n /\ m - 1 \in 0 .. n /\ ~(m <= m - 1)
    BY <2>4
  <2>6. p[m - 1] \in S /\ p[m - 1] \in DOMAIN table
    BY <1>1, <2>2, <2>5
  <2>7. PICK k \in Directories(table, p[m - 1]) : table[p[m - 1]][k][2] = p[m]
    BY <1>1, <2>5, <2>6, FollowsForm
  <2>8. p[m] \in S
    <3> DEFINE o == p[m - 1]
    <3>1. << o, k >> \in Links(table, S) /\ Target(table, << o, k >>) = p[m]
      BY <2>6, <2>7, LinkForms
    <3> QED
      BY <1>2, <3>1 DEF Closed
  <2> QED
    BY <2>2, <2>8
<1>3. p[i] \in DOMAIN table
  BY <1>1
<1> QED
  BY <1>2, <1>3 DEF Reached

LEMMA WithinReached ==
  ASSUME NEW table, IsTable(table), NEW n \in Nat
  PROVE  ReachedWithin(table, n) \subseteq Reached(table)
<1> SUFFICES ASSUME NEW o \in ReachedWithin(table, n)
             PROVE  o \in Reached(table)
  OBVIOUS
<1>1. PICK k \in 0 .. n : \E p \in Paths(table, k) : p[k] = o
  BY DEF ReachedWithin
<1>2. PICK p \in Paths(table, k) : p[k] = o
  BY <1>1
<1>3. k \in Nat /\ k \in 0 .. k
  BY <1>1
<1> QED
  BY <1>2, <1>3, PathReached

LEMMA PathExtended ==
  ASSUME NEW table, IsTable(table), NEW n \in Nat, NEW p \in Paths(table, n),
         NEW i \in Directories(table, p[n])
  PROVE  \E q \in Paths(table, n + 1) : q[n + 1] = table[p[n]][i][2]
<1> DEFINE o == p[n]
           t == table[o][i][2]
           q == [k \in 0 .. (n + 1) |-> IF k = n + 1 THEN t ELSE p[k]]
<1>1. /\ p \in [0 .. n -> DOMAIN table] /\ p[0] = 0 /\ o \in DOMAIN table
      /\ \A k \in 1 .. n : Follows(table, p[k - 1], p[k])
  BY DEF Paths
<1>2. t \in DOMAIN table /\ Follows(table, o, t)
  BY <1>1, TableFacts, FollowsForm
<1> HIDE DEF t
<1>3. \A k \in 0 .. (n + 1) : k = n + 1 \/ (k \in 0 .. n /\ k # n + 1)
  OBVIOUS
<1>4. q \in [0 .. (n + 1) -> DOMAIN table] /\ q[0] = 0 /\ q[n + 1] = t
  BY <1>1, <1>2, <1>3
<1>5. ASSUME NEW k \in 1 .. (n + 1)
      PROVE  Follows(table, q[k - 1], q[k])
  <2>1. CASE k = n + 1
    <3>1. k - 1 = n /\ n \in 0 .. (n + 1) /\ n # n + 1 /\ n + 1 \in 0 .. (n + 1)
      BY <2>1
    <3>2. q[k - 1] = o /\ q[k] = t
      BY <2>1, <3>1
    <3> QED
      BY <1>2, <3>2
  <2>2. CASE k # n + 1
    <3>1. k \in 1 .. n /\ k \in 0 .. (n + 1) /\ k - 1 \in 0 .. (n + 1) /\ k - 1 # n + 1
      BY <2>2
    <3>2. q[k - 1] = p[k - 1] /\ q[k] = p[k]
      BY <2>2, <3>1
    <3> QED
      BY <1>1, <3>1, <3>2
  <2> QED
    BY <2>1, <2>2
<1>6. q \in Paths(table, n + 1)
  <2> HIDE DEF q
  <2> QED
    BY <1>4, <1>5 DEF Paths
<1> QED
  BY <1>4, <1>6 DEF t

(* In a tree only one path leads to a directory. *)
LEMMA PathsAgree ==
  ASSUME NEW table, IsTable(table), IsTree(table, Reached(table)),
         NEW m \in Nat, NEW n \in Nat, NEW p \in Paths(table, m), NEW q \in Paths(table, n),
         p[m] = q[n]
  PROVE  ~(m < n)
<1> SUFFICES ASSUME m < n
             PROVE  FALSE
  OBVIOUS
<1> DEFINE R == Reached(table)
<1>1. /\ p \in [0 .. m -> DOMAIN table] /\ p[0] = 0
      /\ \A k \in 1 .. m : Follows(table, p[k - 1], p[k])
      /\ q \in [0 .. n -> DOMAIN table]
      /\ \A k \in 1 .. n : Follows(table, q[k - 1], q[k])
  BY DEF Paths
<1>2. /\ R \in SUBSET DOMAIN table
      /\ \A k \in 0 .. m : p[k] \in R
      /\ \A k \in 0 .. n : q[k] \in R
  BY PathReached DEF Reached
<1> HIDE DEF R
<1>3. ASSUME NEW a \in R, NEW b \in R, NEW t, Follows(table, a, t), Follows(table, b, t)
      PROVE  a = b
  <2>1. PICK i \in Directories(table, a) : table[a][i][2] = t
    BY <1>2, <1>3, FollowsForm
  <2>2. PICK j \in Directories(table, b) : table[b][j][2] = t
    BY <1>2, <1>3, FollowsForm
  <2>3. /\ << a, i >> \in Links(table, R) /\ << b, j >> \in Links(table, R)
        /\ Target(table, << a, i >>) = Target(table, << b, j >>)
    BY <1>2, <2>1, <2>2, LinkForms
  <2>4. << a, i >> = << b, j >>
    BY <2>3 DEF IsTree, R
  <2> QED
    BY <2>4
<1> DEFINE Apart == {j \in 0 .. m : p[m - j] # q[n - j]}
<1>4. Apart = {}
  <2> SUFFICES ASSUME Apart # {}
               PROVE  FALSE
    OBVIOUS
  <2>1. PICK j \in Apart : \A k \in Apart : j <= k
    <3>1. Apart \in SUBSET (0 .. m)
      OBVIOUS
    <3> HIDE DEF Apart
    <3> QED
      BY <3>1, LeastExists
  <2>2. j # 0
    BY <2>1
  <2>3. j \in 1 .. m /\ j - 1 \in 0 .. m /\ ~(j <= j - 1)
    BY <2>1, <2>2
  <2>4. p[m - (j - 1)] = q[n - (j - 1)]
    BY <2>1, <2>3
  <2> DEFINE a == m - j
             b == n - j
  <2>5. /\ a \in 0 .. m /\ b \in 0 .. n /\ a + 1 \in 1 .. m /\ b + 1 \in 1 .. n
        /\ m - (j - 1) = a + 1 /\ n - (j - 1) = b + 1
        /\ (a + 1) - 1 = a /\ (b + 1) - 1 = b
    BY <2>3
  <2>6. p[a] # q[b]
    BY <2>1
  <2> HIDE DEF a, b
  <2>7. Follows(table, p[a], p[a + 1]) /\ Follows(table, q[b], q[b + 1])
    <3>1. Follows(table, p[(a + 1) - 1], p[a + 1]) /\ Follows(table, q[(b + 1) - 1], q[b + 1])
      BY <1>1, <2>5
    <3> QED
      BY <2>5, <3>1
  <2>8. p[a + 1] = q[b + 1]
    BY <2>4, <2>5
  <2> QED
    BY <1>2, <1>3, <2>5, <2>6, <2>7, <2>8
<1> DEFINE d == n - m
<1>5. q[d] = 0 /\ d \in 1 .. n /\ d - 1 \in 0 .. n
  <2>1. m \in 0 .. m /\ m - m = 0 /\ d \in 1 .. n /\ d - 1 \in 0 .. n
    OBVIOUS
  <2>2. p[m - m] = q[n - m]
    BY <1>4, <2>1
  <2> QED
    BY <1>1, <2>1, <2>2
<1> HIDE DEF d
<1>6. PICK i \in Directories(table, q[d - 1]) : table[q[d - 1]][i][2] = 0
  <2> DEFINE o == q[d - 1]
  <2>1. o \in DOMAIN table /\ Follows(table, o, 0)
    BY <1>1, <1>5
  <2> QED
    BY <2>1, FollowsForm
<1>7. /\ q[d - 1] \in R
      /\ << q[d - 1], i >> \in Links(table, R) /\ Target(table, << q[d - 1], i >>) = 0
      /\ RootLink \in Links(table, R) /\ Target(table, RootLink) = 0
  BY <1>2, <1>5, <1>6, LinkForms
<1>8. << q[d - 1], i >> # RootLink
  BY <1>2, <1>7, TableFacts
<1> QED
  BY <1>7, <1>8 DEF IsTree, R

------------------------------------------------------------------------------
(***************************************************************************)
(* Counting entries and bytes.                                             *)
(***************************************************************************)
LEMMA ImageFinite ==
  ASSUME NEW S, IsFiniteSet(S), NEW T, NEW f \in [S -> T]
  PROVE  IsFiniteSet({f[x] : x \in S})
<1> DEFINE U == {f[x] : x \in S}
<1>1. f \in Surjection(S, U)
  BY DEF Surjection
<1> HIDE DEF U
<1>2. IsFiniteSet(U)
  BY <1>1, FS_Surjection
<1> QED
  BY <1>2 DEF U

LEMMA EntriesFinite ==
  ASSUME NEW table, IsTable(table), NEW S \in SUBSET DOMAIN table
  PROVE  IsFiniteSet(EntriesOf(table, S))
<1> DEFINE f == [o \in S |-> {o} \X (DOMAIN table[o])]
           Parts == {f[o] : o \in S}
<1>1. IsFiniteSet(S)
  BY FS_Subset DEF IsTable
<1>2. IsFiniteSet(Parts)
  <2>1. f \in [S -> {f[o] : o \in S}]
    OBVIOUS
  <2> DEFINE T == {f[o] : o \in S}
  <2>2. f \in [S -> T]
    BY <2>1
  <2> HIDE DEF f, T
  <2>3. IsFiniteSet({f[x] : x \in S})
    BY <1>1, <2>2, ImageFinite
  <2> QED
    BY <2>3
<1>3. ASSUME NEW part \in Parts
      PROVE  IsFiniteSet(part)
  <2>1. PICK o \in S : part = {o} \X (DOMAIN table[o])
    OBVIOUS
  <2>2. Len(table[o]) \in Nat /\ DOMAIN table[o] = 1 .. Len(table[o])
    BY TableFacts
  <2>3. IsFiniteSet({o})
    BY FS_Singleton
  <2>4. IsFiniteSet(DOMAIN table[o])
    BY <2>2, FS_Interval
  <2> QED
    BY <2>1, <2>3, <2>4, FS_Product
<1>4. EntriesOf(table, S) = UNION Parts
  BY DEF EntriesOf
<1> HIDE DEF Parts
<1> QED
  BY <1>2, <1>3, <1>4, FS_UNION

LEMMA EntriesGrow ==
  ASSUME NEW table, IsTable(table), NEW S \in SUBSET DOMAIN table, NEW T \in SUBSET S
  PROVE  /\ EntriesOf(table, T) \subseteq EntriesOf(table, S)
         /\ Cardinality(EntriesOf(table, T)) \in Nat
         /\ Cardinality(EntriesOf(table, S)) \in Nat
         /\ Cardinality(EntriesOf(table, T)) <= Cardinality(EntriesOf(table, S))
         /\ Links(table, T) \subseteq Links(table, S)
         /\ PayloadsAt(table, T) \subseteq PayloadsAt(table, S)
<1>1. EntriesOf(table, T) \subseteq EntriesOf(table, S)
  BY DEF EntriesOf
<1>2. IsFiniteSet(EntriesOf(table, S)) /\ IsFiniteSet(EntriesOf(table, T))
  BY EntriesFinite
<1>3. Links(table, T) \subseteq Links(table, S)
  BY <1>1 DEF Links
<1>4. PayloadsAt(table, T) \subseteq PayloadsAt(table, S)
  BY <1>1 DEF PayloadsAt
<1> QED
  BY <1>1, <1>2, <1>3, <1>4, FS_Subset, FS_CardinalityType

LEMMA EntriesAdded ==
  ASSUME NEW table, IsTable(table), NEW S \in SUBSET DOMAIN table,
         NEW o \in DOMAIN table, o \notin S
  PROVE  /\ EntriesOf(table, S \cup {o}) = EntriesOf(table, S) \cup ({o} \X (DOMAIN table[o]))
         /\ Cardinality(EntriesOf(table, S \cup {o}))
              = Cardinality(EntriesOf(table, S)) + Len(table[o])
<1> DEFINE old == EntriesOf(table, S)
           new == {o} \X (DOMAIN table[o])
<1>1. EntriesOf(table, S \cup {o}) = old \cup new
  BY DEF EntriesOf
<1>2. old \cap new = {}
  BY DEF EntriesOf
<1>3. IsFiniteSet(old)
  BY EntriesFinite
<1>4. Len(table[o]) \in Nat /\ DOMAIN table[o] = 1 .. Len(table[o])
  BY TableFacts
<1>5. IsFiniteSet(new) /\ Cardinality(new) = Len(table[o])
  <2>1. IsFiniteSet({o}) /\ Cardinality({o}) = 1
    BY FS_Singleton
  <2> DEFINE n == Len(table[o])
             D == DOMAIN table[o]
  <2>2. n \in Nat /\ D = 1 .. n
    BY <1>4
  <2> HIDE DEF n, D
  <2>3. IsFiniteSet(D) /\ Cardinality(D) = n
    BY <2>2, FS_Interval
  <2>4. IsFiniteSet({o} \X D) /\ Cardinality({o} \X D) = Cardinality({o}) * Cardinality(D)
    BY <2>1, <2>3, FS_Product
  <2>5. Cardinality({o} \X D) = n
    BY <2>1, <2>2, <2>3, <2>4
  <2> QED
    BY <2>4, <2>5 DEF n, D
<1> HIDE DEF old, new
<1>6. Cardinality(old \cup new) = Cardinality(old) + Cardinality(new) - Cardinality(old \cap new)
  BY <1>3, <1>5, FS_Union
<1>7. Cardinality(old) \in Nat /\ Cardinality(old \cap new) = 0
  BY <1>2, <1>3, FS_CardinalityType, FS_EmptySet
<1>8. Cardinality(old \cup new) = Cardinality(old) + Len(table[o])
  BY <1>4, <1>5, <1>6, <1>7
<1> QED
  BY <1>1, <1>8 DEF old, new

LEMMA PayloadsAdded ==
  ASSUME NEW table, IsTable(table), NEW S \in SUBSET DOMAIN table,
         NEW o \in DOMAIN table, o \notin S
  PROVE  PayloadsAt(table, S \cup {o}) = PayloadsAt(table, S) \cup PayloadsOf(table[o])
<1>1. EntriesOf(table, S \cup {o}) = EntriesOf(table, S) \cup ({o} \X (DOMAIN table[o]))
  BY EntriesAdded
<1>2. ASSUME NEW e \in {o} \X (DOMAIN table[o])
      PROVE  EntryAt(table, e) = table[o][e[2]] /\ e[2] \in DOMAIN table[o]
  BY DEF EntryAt
<1>3. ASSUME NEW i \in DOMAIN table[o]
      PROVE  << o, i >> \in {o} \X (DOMAIN table[o]) /\ EntryAt(table, << o, i >>) = table[o][i]
  BY DEF EntryAt
<1>4. ASSUME NEW x \in PayloadsAt(table, S \cup {o}), x \notin PayloadsAt(table, S)
      PROVE  x \in PayloadsOf(table[o])
  <2>1. PICK e \in EntriesOf(table, S \cup {o}) :
          IsPayload(EntryAt(table, e)) /\ x = EntryAt(table, e)[2]
    BY DEF PayloadsAt
  <2>2. e \in {o} \X (DOMAIN table[o])
    BY <1>1, <1>4, <2>1 DEF PayloadsAt
  <2> QED
    BY <1>2, <2>1, <2>2 DEF PayloadsOf
<1>5. ASSUME NEW x \in PayloadsOf(table[o])
      PROVE  x \in PayloadsAt(table, S \cup {o})
  <2>1. PICK i \in DOMAIN table[o] : IsPayload(table[o][i]) /\ x = table[o][i][2]
    BY DEF PayloadsOf
  <2>2. << o, i >> \in EntriesOf(table, S \cup {o}) /\ EntryAt(table, << o, i >>) = table[o][i]
    BY <1>1, <1>3
  <2> QED
    BY <2>1, <2>2 DEF PayloadsAt
<1>6. PayloadsAt(table, S) \subseteq PayloadsAt(table, S \cup {o})
  BY <1>1 DEF PayloadsAt
<1> QED
  BY <1>4, <1>5, <1>6

LEMMA PayloadsFinite ==
  ASSUME NEW table, IsTable(table), NEW S \in SUBSET DOMAIN table
  PROVE  /\ IsFiniteSet(PayloadsAt(table, S))
         /\ PayloadsAt(table, S) \subseteq DOMAIN PayloadSize
<1> DEFINE E == {e \in EntriesOf(table, S) : IsPayload(EntryAt(table, e))}
           f == [e \in E |-> EntryAt(table, e)[2]]
<1>1. PayloadsAt(table, S) = {f[e] : e \in E}
  BY DEF PayloadsAt
<1>2. IsFiniteSet(E)
  BY EntriesFinite, FS_Subset
<1>3. ASSUME NEW e \in E
      PROVE  f[e] \in DOMAIN PayloadSize
  <2>1. PICK o \in S : e \in {o} \X (DOMAIN table[o])
    BY DEF EntriesOf
  <2> QED
    BY <2>1 DEF IsTable, EntryAt
<1>4. f \in [E -> DOMAIN PayloadSize]
  BY <1>3
<1> HIDE DEF E, f
<1> QED
  BY <1>1, <1>2, <1>4, ImageFinite

LEMMA BytesGrow ==
  ASSUME NEW Q, IsFiniteSet(Q), Q \subseteq DOMAIN PayloadSize, NEW P \in SUBSET Q
  PROVE  Bytes(P) \in Nat /\ Bytes(Q) \in Nat /\ Bytes(P) <= Bytes(Q)
<1> DEFINE f == [p \in Q |-> {p} \X (1 .. PayloadSize[p])]
           Parts == {f[p] : p \in Q}
           all == UNION {{p} \X (1 .. PayloadSize[p]) : p \in Q}
           some == UNION {{p} \X (1 .. PayloadSize[p]) : p \in P}
<1>1. IsFiniteSet(Parts)
  <2>1. f \in [Q -> {f[p] : p \in Q}]
    OBVIOUS
  <2> DEFINE T == {f[p] : p \in Q}
  <2>2. f \in [Q -> T]
    BY <2>1
  <2> HIDE DEF f, T
  <2>3. IsFiniteSet({f[x] : x \in Q})
    BY <2>2, ImageFinite
  <2> QED
    BY <2>3
<1>2. ASSUME NEW part \in Parts
      PROVE  IsFiniteSet(part)
  <2>1. PICK p \in Q : part = {p} \X (1 .. PayloadSize[p])
    OBVIOUS
  <2>2. PayloadSize[p] \in Nat
    BY LimitAssumption
  <2>3. IsFiniteSet({p})
    BY FS_Singleton
  <2>4. IsFiniteSet(1 .. PayloadSize[p])
    BY <2>2, FS_Interval
  <2> QED
    BY <2>1, <2>3, <2>4, FS_Product
<1>3. all = UNION Parts /\ some \subseteq all
  OBVIOUS
<1>4. Bytes(P) = Cardinality(some) /\ Bytes(Q) = Cardinality(all)
  BY DEF Bytes
<1> HIDE DEF Parts, all, some
<1>5. IsFiniteSet(all)
  BY <1>1, <1>2, <1>3, FS_UNION
<1> QED
  BY <1>3, <1>4, <1>5, FS_Subset, FS_CardinalityType

------------------------------------------------------------------------------
(***************************************************************************)
(* The invariant of the walk.  What it has read is reached within the      *)
(* depth, is readable and within the limits; every directory on its stack  *)
(* is the end of a path and stands for a link of its own (source) out of   *)
(* what was read; the links it has followed lead to different directories, *)
(* the visited ones.                                                       *)
(***************************************************************************)
Followed(table, S, n, source) == {link \in Links(table, S) : \A j \in 1 .. n : source[j] # link}

Traced(table, S, pending, source) ==
  LET n == Len(pending)
      followed == Followed(table, S, n, source)
  IN /\ source \in [1 .. n -> Links(table, S)]
     /\ \A j, k \in 1 .. n : source[j] = source[k] => j = k
     /\ \A j \in 1 .. n : Target(table, source[j]) = pending[j][1]
     /\ \A link \in followed : Target(table, link) \in S
     /\ \A a, b \in followed : Target(table, a) = Target(table, b) => a = b
     /\ \A o \in S : \E link \in followed : Target(table, link) = o

OnPath(table, o, d) == \E p \in Paths(table, d) : p[d] = o

WalkType(table) ==
  [pending : Seq((DOMAIN table) \X Nat), visited : SUBSET DOMAIN table, entries : Nat,
   payloads : SUBSET DOMAIN PayloadSize, failed : BOOLEAN]

Explored(w, table) ==
  /\ w \in WalkType(table)
  /\ \A j \in 1 .. Len(w.pending) : OnPath(table, w.pending[j][1], w.pending[j][2])
  /\ w.visited \subseteq ReachedWithin(table, MaxDepth)
  /\ \E source \in [1 .. Len(w.pending) -> Links(table, w.visited)] :
       Traced(table, w.visited, w.pending, source)
  /\ \A e \in EntriesOf(table, w.visited) : EntryAt(table, e)[1] # "unreadable"
  /\ w.entries = Cardinality(EntriesOf(table, w.visited)) /\ w.entries <= MaxResources
  /\ w.payloads = PayloadsAt(table, w.visited) /\ Bytes(w.payloads) <= MaxPayload

WalkInv(w, table) == IF w.failed THEN ~Acceptable(table) ELSE Explored(w, table)

LEMMA WalkBegins ==
  ASSUME NEW table, IsTable(table)
  PROVE  Explored(WalkStart, table)
<1> DEFINE w == WalkStart
<1>1. /\ w.pending = << << 0, 0 >> >> /\ w.visited = {} /\ w.entries = 0
      /\ w.payloads = {} /\ w.failed = FALSE
  BY DEF WalkStart
<1>2. /\ Len(w.pending) = 1 /\ w.pending[1][1] = 0 /\ w.pending[1][2] = 0
      /\ w.pending \in Seq((DOMAIN table) \X Nat)
  BY <1>1 DEF IsTable
<1>3. w \in WalkType(table)
  BY <1>1, <1>2 DEF WalkType, WalkStart
<1>4. EntriesOf(table, {}) = {}
  BY DEF EntriesOf
<1>5. PayloadsAt(table, {}) = {} /\ Links(table, {}) = {RootLink}
  BY <1>4 DEF PayloadsAt, Links
<1>6. Cardinality(EntriesOf(table, {})) = 0
  BY <1>4, FS_EmptySet
<1>7. Bytes({}) = 0
  <2>1. UNION {{p} \X (1 .. PayloadSize[p]) : p \in {}} = {}
    OBVIOUS
  <2> QED
    BY <2>1, FS_EmptySet DEF Bytes
<1>8. OnPath(table, 0, 0)
  <2> DEFINE p == [k \in 0 .. 0 |-> 0]
  <2>1. p \in [0 .. 0 -> DOMAIN table] /\ p[0] = 0
    BY DEF IsTable
  <2> HIDE DEF p
  <2>2. p \in Paths(table, 0)
    BY <2>1 DEF Paths
  <2> QED
    BY <2>1, <2>2 DEF OnPath
<1>9. \E source \in [1 .. Len(w.pending) -> Links(table, w.visited)] :
        Traced(table, w.visited, w.pending, source)
  <2> DEFINE source == [j \in 1 .. 1 |-> RootLink]
  <2>1. source \in [1 .. 1 -> Links(table, {})] /\ source[1] = RootLink
    BY <1>5
  <2> HIDE DEF source
  <2>2. Followed(table, {}, 1, source) = {}
    BY <1>5, <2>1 DEF Followed
  <2>3. Target(table, RootLink) = 0
    BY DEF Target
  <2>4. Traced(table, {}, w.pending, source)
    BY <1>2, <2>1, <2>2, <2>3 DEF Traced
  <2> QED
    BY <1>1, <1>2, <2>1, <2>4
<1> HIDE DEF w
<1>10. \A j \in 1 .. Len(w.pending) : OnPath(table, w.pending[j][1], w.pending[j][2])
  BY <1>2, <1>8
<1>11. w.entries <= MaxResources /\ Bytes(w.payloads) <= MaxPayload
  BY <1>1, <1>7, LimitAssumption
<1>12. Explored(w, table)
  BY <1>1, <1>3, <1>4, <1>5, <1>6, <1>9, <1>10, <1>11 DEF Explored
<1> QED
  BY <1>12 DEF w

LEMMA ExploredReached ==
  ASSUME NEW table, IsTable(table), NEW w, Explored(w, table)
  PROVE  /\ w.visited \subseteq Reached(table) /\ Reached(table) \in SUBSET DOMAIN table
         /\ \A j \in 1 .. Len(w.pending) : w.pending[j][1] \in Reached(table)
<1>1. w.visited \subseteq Reached(table)
  BY WithinReached, LimitAssumption DEF Explored
<1>2. Reached(table) \in SUBSET DOMAIN table
  BY DEF Reached
<1>3. ASSUME NEW j \in 1 .. Len(w.pending)
      PROVE  w.pending[j][1] \in Reached(table)
  <2> DEFINE d == w.pending[j][2]
  <2>1. w.pending \in Seq((DOMAIN table) \X Nat)
    BY DEF Explored, WalkType
  <2>2. d \in Nat
    BY <2>1
  <2>3. PICK p \in Paths(table, d) : p[d] = w.pending[j][1]
    BY DEF Explored, OnPath
  <2> HIDE DEF d
  <2>4. d \in 0 .. d
    BY <2>2
  <2> QED
    BY <2>2, <2>3, <2>4, PathReached
<1> QED
  BY <1>1, <1>2, <1>3

(* The walk is over: it has read a tree within the limits, all of it. *)
LEMMA WalkEnds ==
  ASSUME NEW table, IsTable(table), NEW w, Explored(w, table), w.pending = << >>
  PROVE  Acceptable(table) /\ w.payloads = PayloadsAt(table, Reached(table))
<1> DEFINE V == w.visited
<1>1. PICK source : Traced(table, V, w.pending, source)
  BY DEF Explored
<1>2. Len(w.pending) = 0 /\ 1 .. Len(w.pending) = {}
  OBVIOUS
<1>3. Followed(table, V, Len(w.pending), source) = Links(table, V)
  BY <1>2 DEF Followed
<1>4. Closed(table, V) /\ IsTree(table, V)
  BY <1>1, <1>3 DEF Traced, Closed, IsTree
<1>5. V = Reached(table)
  BY <1>4, ExploredReached DEF Reached
<1> HIDE DEF V
<1>6. V = w.visited
  BY DEF V
<1> QED
  BY <1>4, <1>5, <1>6 DEF Explored, Acceptable

------------------------------------------------------------------------------
(* What reading a directory changes. *)
LEMMA TopFacts ==
  ASSUME NEW table, IsTable(table), NEW w, Explored(w, table), w.pending # << >>
  PROVE  LET n == Len(w.pending)
             top == w.pending[n]
         IN /\ n \in Nat /\ n \in 1 .. n /\ n - 1 \in Nat
            /\ top \in (DOMAIN table) \X Nat
            /\ OnPath(table, top[1], top[2]) /\ top[1] \in Reached(table)
<1>1. w.pending \in Seq((DOMAIN table) \X Nat)
  BY DEF Explored, WalkType
<1>2. Len(w.pending) \in Nat /\ Len(w.pending) # 0
  BY <1>1
<1> DEFINE n == Len(w.pending)
<1>3. n \in 1 .. n /\ n - 1 \in Nat
  BY <1>2
<1>4. w.pending[n] \in (DOMAIN table) \X Nat
  BY <1>1, <1>3
<1> QED
  BY <1>2, <1>3, <1>4, ExploredReached DEF Explored

Counted(w, table, S) ==
  w.entries = Cardinality(EntriesOf(table, S)) /\ w.payloads = PayloadsAt(table, S)

LEMMA EnterAdds ==
  ASSUME NEW table, IsTable(table), NEW w, Explored(w, table),
         NEW top, top[1] \in DOMAIN table, top[1] \notin w.visited
  PROVE  Counted(Enter(w, top, table[top[1]]), table, w.visited \cup {top[1]})
<1> DEFINE o == top[1]
           entered == Enter(w, top, table[o])
<1>1. w \in WalkType(table) /\ o \in DOMAIN table
  BY DEF Explored
<1>2. /\ entered.entries = w.entries + Len(table[o])
      /\ entered.payloads = w.payloads \cup PayloadsOf(table[o])
  BY <1>1 DEF Enter, WalkType
<1>3. w.visited \in SUBSET DOMAIN table
  BY <1>1 DEF WalkType
<1> HIDE DEF o, entered
<1>4. o \notin w.visited
  BY DEF o
<1>5. /\ Cardinality(EntriesOf(table, w.visited \cup {o}))
           = Cardinality(EntriesOf(table, w.visited)) + Len(table[o])
      /\ PayloadsAt(table, w.visited \cup {o})
           = PayloadsAt(table, w.visited) \cup PayloadsOf(table[o])
  BY <1>1, <1>3, <1>4, EntriesAdded, PayloadsAdded
<1>6. /\ w.entries = Cardinality(EntriesOf(table, w.visited))
      /\ w.payloads = PayloadsAt(table, w.visited)
  BY DEF Explored
<1> QED
  BY <1>2, <1>5, <1>6 DEF o, entered, Counted

(* The cases in which the walk ends with an error. *)
Refused(w, top, table) ==
  \/ top[2] > MaxDepth \/ top[1] \in w.visited
  \/ \E i \in DOMAIN table[top[1]] : table[top[1]][i][1] = "unreadable"
  \/ Enter(w, top, table[top[1]]).entries > MaxResources
  \/ Bytes(Enter(w, top, table[top[1]]).payloads) > MaxPayload

LEMMA WalkRefuses ==
  ASSUME NEW table, IsTable(table), NEW w, Explored(w, table), w.pending # << >>,
         NEW top \in (DOMAIN table) \X Nat, top = w.pending[Len(w.pending)],
         Refused(w, top, table)
  PROVE  ~Acceptable(table)
<1> SUFFICES ASSUME Acceptable(table)
             PROVE  FALSE
  OBVIOUS
<1> DEFINE n == Len(w.pending)
           o == top[1]
           R == Reached(table)
<1>1. /\ IsTree(table, R) /\ R \subseteq ReachedWithin(table, MaxDepth)
      /\ \A e \in EntriesOf(table, R) : EntryAt(table, e)[1] # "unreadable"
      /\ Cardinality(EntriesOf(table, R)) <= MaxResources
      /\ Bytes(PayloadsAt(table, R)) <= MaxPayload
  BY DEF Acceptable
<1>2. /\ n \in 1 .. n /\ top = w.pending[n]
      /\ OnPath(table, o, top[2]) /\ o \in R /\ o \in DOMAIN table
  BY TopFacts
<1>3. w.visited \subseteq R /\ R \in SUBSET DOMAIN table
  BY ExploredReached
<1> HIDE DEF n, R
<1>4. ~(top[2] > MaxDepth)
  <2> DEFINE d == top[2]
  <2>1. d \in Nat /\ OnPath(table, o, d)
    BY <1>2
  <2>2. PICK q \in Paths(table, d) : q[d] = o
    BY <2>1 DEF OnPath
  <2>3. PICK k \in 0 .. MaxDepth : \E p \in Paths(table, k) : p[k] = o
    BY <1>1, <1>2 DEF ReachedWithin
  <2>4. PICK p \in Paths(table, k) : p[k] = o
    BY <2>3
  <2>5. k \in Nat /\ k <= MaxDepth
    BY <2>3, LimitAssumption
  <2>6. p[k] = q[d]
    BY <2>2, <2>4
  <2> HIDE DEF d
  <2>7. ~(k < d)
    BY <1>1, <2>1, <2>2, <2>4, <2>5, <2>6, PathsAgree DEF R
  <2>8. ~(d > MaxDepth)
    BY <2>1, <2>5, <2>7, LimitAssumption
  <2> QED
    BY <2>8 DEF d
<1>5. o \notin w.visited
  <2> SUFFICES ASSUME o \in w.visited
               PROVE  FALSE
    OBVIOUS
  <2>1. PICK source : Traced(table, w.visited, w.pending, source)
    BY DEF Explored
  <2>2. source[n] \in Links(table, w.visited) /\ Target(table, source[n]) = o
    BY <1>2, <2>1 DEF Traced, n
  <2>3. PICK link \in Followed(table, w.visited, n, source) : Target(table, link) = o
    BY <2>1 DEF Traced, n
  <2>4. link \in Links(table, w.visited) /\ link # source[n]
    BY <1>2, <2>3 DEF Followed
  <2>5. Links(table, w.visited) \subseteq Links(table, R)
    BY <1>3, EntriesGrow
  <2> QED
    BY <1>1, <2>2, <2>3, <2>4, <2>5 DEF IsTree
<1>6. ASSUME NEW i \in DOMAIN table[o]
      PROVE  table[o][i][1] # "unreadable"
  <2>1. << o, i >> \in EntriesOf(table, R) /\ EntryAt(table, << o, i >>) = table[o][i]
    BY <1>2 DEF EntriesOf, EntryAt
  <2> QED
    BY <1>1, <2>1
<1> DEFINE entered == Enter(w, top, table[o])
           V == w.visited \cup {o}
<1>7. entered.entries = Cardinality(EntriesOf(table, V)) /\ entered.payloads = PayloadsAt(table, V)
  <2>1. top[1] \in DOMAIN table /\ top[1] \notin w.visited
    BY <1>2, <1>5
  <2>2. Counted(entered, table, V)
    BY <2>1, EnterAdds
  <2> QED
    BY <2>2 DEF Counted
<1>8. V \in SUBSET R
  BY <1>2, <1>3
<1> HIDE DEF V
<1>9. ~(entered.entries > MaxResources)
  <2> DEFINE a == Cardinality(EntriesOf(table, V))
             b == Cardinality(EntriesOf(table, R))
  <2>1. a \in Nat /\ b \in Nat /\ a <= b
    BY <1>3, <1>8, EntriesGrow
  <2>2. b <= MaxResources
    BY <1>1
  <2> HIDE DEF a, b
  <2>3. ~(a > MaxResources)
    BY <2>1, <2>2, LimitAssumption
  <2> QED
    BY <1>7, <2>3 DEF a
<1>10. ~(Bytes(entered.payloads) > MaxPayload)
  <2> DEFINE a == Bytes(PayloadsAt(table, V))
             b == Bytes(PayloadsAt(table, R))
  <2>1. PayloadsAt(table, V) \subseteq PayloadsAt(table, R)
    BY <1>3, <1>8, EntriesGrow
  <2>2. IsFiniteSet(PayloadsAt(table, R)) /\ PayloadsAt(table, R) \subseteq DOMAIN PayloadSize
    BY <1>3, PayloadsFinite
  <2>3. a \in Nat /\ b \in Nat /\ a <= b
    BY <2>1, <2>2, BytesGrow
  <2>4. b <= MaxPayload
    BY <1>1
  <2> HIDE DEF a, b
  <2>5. ~(a > MaxPayload)
    BY <2>3, <2>4, LimitAssumption
  <2> QED
    BY <1>7, <2>5 DEF a
<1> QED
  BY <1>4, <1>5, <1>6, <1>9, <1>10 DEF Refused

(* The last of the stack, top, gives way to the c subdirectories it has. *)
Pushes(table, top, pending, c, sub, next) ==
  LET n == Len(pending)
      o == top[1]
  IN /\ n \in Nat /\ n \in 1 .. n /\ pending[n] = top
     /\ c \in Nat /\ Len(next) = n - 1 + c
     /\ sub \in [1 .. c -> Directories(table, o)]
     /\ \A i \in Directories(table, o) : \E k \in 1 .. c : sub[k] = i
     /\ \A j, k \in 1 .. c : sub[j] = sub[k] => j = k
     /\ \A j \in 1 .. (n - 1) : next[j] = pending[j]
     /\ \A k \in 1 .. c : next[n - 1 + k] = << table[o][sub[k]][2], top[2] + 1 >>

LEMMA EnterPushes ==
  ASSUME NEW table, IsTable(table), NEW w, Explored(w, table),
         NEW top \in (DOMAIN table) \X Nat, w.pending # << >>, top = w.pending[Len(w.pending)]
  PROVE  LET next == Enter(w, top, table[top[1]]).pending
         IN /\ next \in Seq((DOMAIN table) \X Nat)
            /\ \E c, sub : Pushes(table, top, w.pending, c, sub, next)
<1> DEFINE n == Len(w.pending)
           o == top[1]
           pending == Enter(w, top, table[o]).pending
           D == Directories(table, o)
           c == Cardinality(D)
           sub(k) == Nth(D, Ascending(D), k)
           found == Picked(table[o], D)
           pushed == [k \in DOMAIN found |-> << found[k][2], top[2] + 1 >>]
           rest == SubSeq(w.pending, 1, n - 1)
           Waiting == (DOMAIN table) \X Nat
<1>1. /\ n \in Nat /\ n \in 1 .. n /\ n - 1 \in Nat
      /\ top \in Waiting /\ o \in DOMAIN table /\ top[2] \in Nat
  BY TopFacts
<1>2. w.pending \in Seq(Waiting)
  BY DEF Explored, WalkType
<1>3. pending = rest \o pushed
  BY DEF Enter, Directories, Explored, WalkType
<1>4. rest \in Seq(Waiting) /\ Len(rest) = n - 1 /\ \A j \in 1 .. (n - 1) : rest[j] = w.pending[j]
  BY <1>1, <1>2
<1>5. IsFiniteSet(D) /\ D \in SUBSET Int
  <2>1. D \in SUBSET (1 .. Len(table[o])) /\ Len(table[o]) \in Nat
    BY <1>1, TableFacts DEF Directories
  <2> HIDE DEF D
  <2> QED
    BY <2>1, PositionsFinite
<1>6. c \in Nat
  BY <1>5, FS_CardinalityType
<1>7. /\ \A k \in 1 .. c : sub(k) \in D
      /\ \A i \in D : \E k \in 1 .. c : sub(k) = i
      /\ \A j, k \in 1 .. c : j < k => << sub(j), sub(k) >> \in Ascending(D)
  BY <1>5, NthLists, AscendingOrders
<1>8. \A j, k \in 1 .. c : sub(j) = sub(k) => j = k
  <2> SUFFICES ASSUME NEW j \in 1 .. c, NEW k \in 1 .. c, sub(j) = sub(k), j # k
               PROVE  FALSE
    OBVIOUS
  <2>1. j < k \/ k < j
    BY <1>6
  <2>2. sub(j) \in Int /\ << sub(j), sub(j) >> \notin Ascending(D)
    BY <1>5, <1>7 DEF Ascending
  <2> QED
    BY <1>7, <2>1, <2>2
<1>9. \A k \in 1 .. c : table[o][sub(k)][2] \in DOMAIN table
  BY <1>1, <1>7, TableFacts
<1>10. found = [k \in 1 .. c |-> table[o][sub(k)]]
  BY DEF Picked
<1> HIDE DEF pending, rest, D, c, sub, found
<1>11. pushed = [k \in 1 .. c |-> << table[o][sub(k)][2], top[2] + 1 >>]
  BY <1>10
<1> HIDE DEF pushed
<1>12. /\ pushed \in Seq(Waiting) /\ Len(pushed) = c
       /\ \A k \in 1 .. c : pushed[k] = << table[o][sub(k)][2], top[2] + 1 >>
  <2>1. \A k \in 1 .. c : << table[o][sub(k)][2], top[2] + 1 >> \in Waiting
    BY <1>1, <1>9
  <2> HIDE DEF Waiting
  <2>2. pushed \in [1 .. c -> Waiting]
    BY <1>11, <2>1
  <2>3. \A k \in 1 .. c : pushed[k] = << table[o][sub(k)][2], top[2] + 1 >>
    BY <1>11
  <2>4. pushed \in Seq(Waiting) /\ Len(pushed) = c
    BY <1>6, <2>2
  <2> QED
    BY <2>3, <2>4
<1> HIDE DEF Waiting, n
<1>13. pending \in Seq(Waiting) /\ Len(pending) = n - 1 + c
  <2>1. pending \in Seq(Waiting)
    BY <1>3, <1>4, <1>12
  <2>2. rest \in Seq(Waiting) /\ pushed \in Seq(Waiting)
    BY <1>4, <1>12
  <2>3. Len(pending) = Len(rest) + Len(pushed)
    BY <1>3, <2>2
  <2> QED
    BY <1>4, <1>12, <2>1, <2>3
<1>14. \A j \in 1 .. (n - 1) : pending[j] = w.pending[j]
  BY <1>1, <1>3, <1>4, <1>6, <1>12
<1>15. ASSUME NEW k \in 1 .. c
       PROVE  pending[n - 1 + k] = << table[o][sub(k)][2], top[2] + 1 >>
  <2>1. n - 1 + k \in 1 .. (n - 1 + c) /\ n - 1 + k > n - 1 /\ (n - 1 + k) - (n - 1) = k
    BY <1>1, <1>6
  <2>2. pending[n - 1 + k] = pushed[(n - 1 + k) - (n - 1)]
    BY <1>1, <1>3, <1>4, <1>6, <1>12, <2>1
  <2> QED
    BY <1>12, <2>1, <2>2
<1> DEFINE subs == [k \in 1 .. c |-> sub(k)]
<1>16. \A k \in 1 .. c : subs[k] = sub(k)
  OBVIOUS
<1>17. subs \in [1 .. c -> D]
  BY <1>7
<1> HIDE DEF subs
<1>18. /\ \A i \in D : \E k \in 1 .. c : subs[k] = i
       /\ \A j, k \in 1 .. c : subs[j] = subs[k] => j = k
  BY <1>7, <1>8, <1>16
<1>19. \A k \in 1 .. c : pending[n - 1 + k] = << table[o][subs[k]][2], top[2] + 1 >>
  BY <1>15, <1>16
<1>20. n = Len(w.pending) /\ D = Directories(table, o) /\ w.pending[n] = top
  BY DEF n, D
<1>21. Pushes(table, top, w.pending, c, subs, pending)
  BY <1>1, <1>6, <1>13, <1>14, <1>17, <1>18, <1>19, <1>20 DEF Pushes
<1> QED
  BY <1>13, <1>21 DEF pending, Waiting

LEMMA LinksAdded ==
  ASSUME NEW table, IsTable(table), NEW S \in SUBSET DOMAIN table,
         NEW o \in DOMAIN table, o \notin S
  PROVE  LET new == {<< o, i >> : i \in Directories(table, o)}
         IN /\ Links(table, S \cup {o}) = Links(table, S) \cup new
            /\ Links(table, S) \cap new = {}
            /\ \A i \in Directories(table, o) : Target(table, << o, i >>) = table[o][i][2]
<1> DEFINE T == S \cup {o}
           new == {<< o, i >> : i \in Directories(table, o)}
<1>1. T \in SUBSET DOMAIN table /\ o \in T /\ S \in SUBSET T
  OBVIOUS
<1>2. /\ \A q \in S : \A i \in Directories(table, q) : << q, i >> \in Links(table, S)
      /\ \A link \in Links(table, S) :
           \/ link = RootLink
           \/ \E q \in S : \E i \in Directories(table, q) : link = << q, i >>
  BY LinkForms
<1>3. /\ \A i \in Directories(table, o) : << o, i >> \in Links(table, T)
      /\ \A i \in Directories(table, o) : Target(table, << o, i >>) = table[o][i][2]
      /\ \A link \in Links(table, T) :
           \/ link = RootLink
           \/ \E q \in T : \E i \in Directories(table, q) : link = << q, i >>
  BY <1>1, LinkForms
<1>4. Links(table, S) \subseteq Links(table, T) /\ RootLink \in Links(table, S)
  BY <1>1, EntriesGrow, LinkForms
<1>5. \A i \in Directories(table, o) : << o, i >> # RootLink
  BY TableFacts
<1> HIDE DEF T
<1>6. ASSUME NEW link \in Links(table, T), link \notin Links(table, S)
      PROVE  link \in new
  <2>1. PICK q \in T : \E i \in Directories(table, q) : link = << q, i >>
    BY <1>3, <1>4, <1>6
  <2>2. q = o
    BY <1>2, <1>6, <2>1 DEF T
  <2> QED
    BY <2>1, <2>2
<1>7. ASSUME NEW i \in Directories(table, o)
      PROVE  << o, i >> \notin Links(table, S)
  BY <1>2, <1>5
<1> QED
  BY <1>3, <1>4, <1>6, <1>7 DEF T

(* A directory whose link is the last of the stack is read: the links on   *)
(* the stack stay different, the last one is followed.                     *)
LEMMA TraceExtended ==
  ASSUME NEW table, IsTable(table), NEW S \in SUBSET DOMAIN table,
         NEW top, top[1] \in DOMAIN table, top[1] \notin S,
         NEW pending, NEW source, Traced(table, S, pending, source),
         NEW c, NEW sub, NEW next, Pushes(table, top, pending, c, sub, next)
  PROVE  \E s \in [1 .. Len(next) -> Links(table, S \cup {top[1]})] :
           Traced(table, S \cup {top[1]}, next, s)
<1> DEFINE n == Len(pending)
           o == top[1]
           b == n - 1
           m == Len(next)
           T == S \cup {o}
           new == {<< o, i >> : i \in Directories(table, o)}
           old == Links(table, S)
           all == Links(table, T)
           s == [j \in 1 .. m |-> IF j <= b THEN source[j] ELSE << o, sub[j - b] >>]
           followed == Followed(table, S, n, source)
           followedNow == Followed(table, T, m, s)
<1>1. /\ source \in [1 .. n -> old]
      /\ \A j, k \in 1 .. n : source[j] = source[k] => j = k
      /\ \A j \in 1 .. n : Target(table, source[j]) = pending[j][1]
      /\ \A link \in followed : Target(table, link) \in S
      /\ \A x, y \in followed : Target(table, x) = Target(table, y) => x = y
      /\ \A q \in S : \E link \in followed : Target(table, link) = q
  BY DEF Traced
<1>2. /\ all = old \cup new /\ old \cap new = {}
      /\ \A i \in Directories(table, o) : Target(table, << o, i >>) = table[o][i][2]
  BY LinksAdded
<1>3. /\ n \in Nat /\ n \in 1 .. n /\ b \in Nat /\ m = b + c /\ b = n - 1 /\ c \in Nat
      /\ sub \in [1 .. c -> Directories(table, o)]
      /\ \A i \in Directories(table, o) : \E k \in 1 .. c : sub[k] = i
      /\ \A j, k \in 1 .. c : sub[j] = sub[k] => j = k
      /\ \A j \in 1 .. b : j \in 1 .. n /\ j # n
  <2>1. /\ n \in Nat /\ n \in 1 .. n /\ c \in Nat /\ m = n - 1 + c
        /\ sub \in [1 .. c -> Directories(table, o)]
        /\ \A i \in Directories(table, o) : \E k \in 1 .. c : sub[k] = i
        /\ \A j, k \in 1 .. c : sub[j] = sub[k] => j = k
    BY DEF Pushes
  <2> HIDE DEF n, m
  <2>2. /\ b \in Nat /\ m = b + c
        /\ \A j \in 1 .. b : j \in 1 .. n /\ j # n
    BY <2>1
  <2> QED
    BY <2>1, <2>2
<1>4. \A j \in 1 .. b : j \in 1 .. m /\ j <= b
  BY <1>3
<1>5. \A k \in 1 .. c : b + k \in 1 .. m /\ ~(b + k <= b) /\ (b + k) - b = k
  <2> HIDE DEF n, b, m
  <2> QED
    BY <1>3
<1>6. \A j \in 1 .. m : j \in 1 .. b \/ \E k \in 1 .. c : j = b + k
  <2> SUFFICES ASSUME NEW j \in 1 .. m, ~(j \in 1 .. b)
               PROVE  \E k \in 1 .. c : j = b + k
    OBVIOUS
  <2>1. j - b \in 1 .. c /\ j = b + (j - b)
    BY <1>3
  <2> QED
    BY <2>1
<1>7. \A j \in 1 .. b : s[j] = source[j] /\ s[j] \in old /\ s[j] # source[n]
  BY <1>1, <1>3, <1>4
<1>8. \A k \in 1 .. c : s[b + k] = << o, sub[k] >> /\ s[b + k] \in new
  <2> SUFFICES ASSUME NEW k \in 1 .. c
               PROVE  s[b + k] = << o, sub[k] >> /\ s[b + k] \in new
    OBVIOUS
  <2>1. s[b + k] = << o, sub[(b + k) - b] >> /\ (b + k) - b = k
    BY <1>5
  <2>2. sub[k] \in Directories(table, o)
    BY <1>3
  <2> HIDE DEF s
  <2> QED
    BY <2>1, <2>2
<1>9. /\ \A j \in 1 .. b : next[j] = pending[j]
      /\ \A k \in 1 .. c : next[b + k][1] = table[o][sub[k]][2]
  <2>1. /\ \A j \in 1 .. b : next[j] = pending[j]
        /\ \A k \in 1 .. c : next[b + k] = << table[o][sub[k]][2], top[2] + 1 >>
    BY DEF Pushes
  <2> HIDE DEF b
  <2>2. ASSUME NEW k \in 1 .. c
        PROVE  next[b + k][1] = table[o][sub[k]][2]
    BY <2>1
  <2> QED
    BY <2>1, <2>2
<1>10. source[n] \in old /\ Target(table, source[n]) = o
  <2>1. pending[n] = top
    BY DEF Pushes
  <2> QED
    BY <1>1, <1>3, <2>1
<1>11. s \in [1 .. m -> all]
  <2>1. s = [j \in 1 .. m |-> s[j]]
    OBVIOUS
  <2> HIDE DEF s, all, old, new, b, m, n
  <2>2. ASSUME NEW j \in 1 .. m
        PROVE  s[j] \in old \/ s[j] \in new
    BY <1>6, <1>7, <1>8
  <2> QED
    BY <1>2, <2>1, <2>2
<1>12. \A link \in new : \E k \in 1 .. c : s[b + k] = link
  <2> HIDE DEF s
  <2> SUFFICES ASSUME NEW i \in Directories(table, o)
               PROVE  \E k \in 1 .. c : s[b + k] = << o, i >>
    OBVIOUS
  <2>1. PICK k \in 1 .. c : sub[k] = i
    BY <1>3
  <2> QED
    BY <1>8, <2>1
<1> HIDE DEF n, b, m, old, all, s
<1>13. \A j, k \in 1 .. m : s[j] = s[k] => j = k
  <2> SUFFICES ASSUME NEW j \in 1 .. m, NEW k \in 1 .. m, s[j] = s[k]
               PROVE  j = k
    OBVIOUS
  <2>1. CASE j \in 1 .. b /\ k \in 1 .. b
    BY <1>1, <1>3, <1>7, <2>1
  <2>2. CASE j \in 1 .. b /\ k \notin 1 .. b
    BY <1>2, <1>6, <1>7, <1>8, <2>2
  <2>3. CASE j \notin 1 .. b /\ k \in 1 .. b
    BY <1>2, <1>6, <1>7, <1>8, <2>3
  <2>4. CASE j \notin 1 .. b /\ k \notin 1 .. b
    <3>1. PICK x \in 1 .. c : j = b + x
      BY <1>6, <2>4
    <3>2. PICK y \in 1 .. c : k = b + y
      BY <1>6, <2>4
    <3>3. sub[x] = sub[y]
      BY <1>8, <3>1, <3>2
    <3> QED
      BY <1>3, <3>1, <3>2, <3>3
  <2> QED
    BY <2>1, <2>2, <2>3, <2>4
<1>14. \A j \in 1 .. m : Target(table, s[j]) = next[j][1]
  <2> SUFFICES ASSUME NEW j \in 1 .. m
               PROVE  Target(table, s[j]) = next[j][1]
    OBVIOUS
  <2>1. CASE j \in 1 .. b
    BY <1>1, <1>3, <1>7, <1>9, <2>1
  <2>2. CASE j \notin 1 .. b
    <3>1. PICK x \in 1 .. c : j = b + x
      BY <1>6, <2>2
    <3>2. Target(table, s[j]) = table[o][sub[x]][2]
      BY <1>2, <1>8, <3>1
    <3> QED
      BY <1>9, <3>1, <3>2
  <2> QED
    BY <2>1, <2>2
<1>15. followed = {link \in old : \A j \in 1 .. n : source[j] # link}
  BY DEF Followed, old
<1>16. followedNow = {link \in all : \A j \in 1 .. m : s[j] # link}
  BY DEF Followed, all
<1> HIDE DEF followed, followedNow, new
<1>17. ASSUME NEW link \in followedNow
       PROVE  link \in followed \/ link = source[n]
  <2>1. link \in all /\ link \notin new
    BY <1>5, <1>12, <1>16
  <2>2. link \in old
    BY <1>2, <2>1
  <2>3. \A j \in 1 .. b : source[j] # link
    BY <1>4, <1>7, <1>16
  <2>4. \A j \in 1 .. n : j \in 1 .. b \/ j = n
    BY <1>3
  <2> QED
    BY <1>15, <2>2, <2>3, <2>4
<1>18. source[n] \in followedNow
  <2>1. source[n] \in all /\ source[n] \notin new
    BY <1>2, <1>10
  <2>2. \A j \in 1 .. m : s[j] # source[n]
    BY <1>6, <1>7, <1>8, <2>1
  <2> QED
    BY <1>16, <2>1, <2>2
<1>19. ASSUME NEW link \in followed
       PROVE  link \in followedNow
  <2>1. link \in old /\ link \in all /\ link \notin new
    BY <1>2, <1>15
  <2>2. ASSUME NEW j \in 1 .. m
        PROVE  s[j] # link
    <3>1. CASE j \in 1 .. b
      BY <1>3, <1>7, <1>15, <3>1
    <3>2. CASE j \notin 1 .. b
      BY <1>6, <1>8, <2>1, <3>2
    <3> QED
      BY <3>1, <3>2
  <2> QED
    BY <1>16, <2>1, <2>2
<1>20. \A link \in followedNow : Target(table, link) \in T
  BY <1>1, <1>10, <1>17
<1>21. \A x, y \in followedNow : Target(table, x) = Target(table, y) => x = y
  BY <1>1, <1>10, <1>17
<1>22. \A q \in T : \E link \in followedNow : Target(table, link) = q
  BY <1>1, <1>10, <1>18, <1>19
<1> HIDE DEF T
<1>23. Traced(table, T, next, s)
  BY <1>11, <1>13, <1>14, <1>20, <1>21, <1>22 DEF Traced, all, m, followedNow
<1> QED
  BY <1>11, <1>23 DEF all, m, T

(* A directory that is read, and everything that leads to, keeps the walk explored. *)
LEMMA WalkEnters ==
  ASSUME NEW table, IsTable(table), NEW w, Explored(w, table), w.pending # << >>,
         NEW top \in (DOMAIN table) \X Nat, top = w.pending[Len(w.pending)],
         ~Refused(w, top, table)
  PROVE  Explored(Enter(w, top, table[top[1]]), table)
<1> DEFINE n == Len(w.pending)
           Waiting == (DOMAIN table) \X Nat
           o == top[1]
           V == w.visited \cup {o}
           entered == Enter(w, top, table[o])
           D == Directories(table, o)
           next == entered.pending
<1>1. top = w.pending[n]
  OBVIOUS
<1>2. /\ ~(top[2] > MaxDepth) /\ o \notin w.visited
      /\ \A i \in DOMAIN table[o] : table[o][i][1] # "unreadable"
      /\ ~(entered.entries > MaxResources) /\ ~(Bytes(entered.payloads) > MaxPayload)
  BY DEF Refused
<1>3. /\ n \in Nat /\ n \in 1 .. n /\ n - 1 \in Nat
      /\ o \in DOMAIN table /\ top[2] \in Nat /\ OnPath(table, o, top[2])
  BY <1>1, TopFacts
<1>4. w \in WalkType(table) /\ w.visited \in SUBSET DOMAIN table
  BY DEF Explored, WalkType
<1>5. /\ entered.visited = V /\ entered.failed = w.failed
      /\ entered.entries = Cardinality(EntriesOf(table, V))
      /\ entered.payloads = PayloadsAt(table, V)
  <2>1. top[1] \in DOMAIN table /\ top[1] \notin w.visited
    BY <1>2, <1>3
  <2>2. Counted(entered, table, V)
    BY <2>1, EnterAdds
  <2>3. entered.visited = V /\ entered.failed = w.failed
    BY <1>4 DEF Enter, WalkType
  <2> QED
    BY <2>2, <2>3 DEF Counted
<1>6. PICK c, sub : Pushes(table, top, w.pending, c, sub, next)
  <2>1. LET read == Enter(w, top, table[top[1]]).pending
        IN \E c, sub : Pushes(table, top, w.pending, c, sub, read)
    BY <1>1, EnterPushes
  <2> QED
    BY <2>1
<1>7. /\ next \in Seq(Waiting)
      /\ c \in Nat /\ Len(next) = n - 1 + c
      /\ \A j \in 1 .. (n - 1) : next[j] = w.pending[j]
      /\ \A k \in 1 .. c : next[n - 1 + k] = << table[o][sub[k]][2], top[2] + 1 >>
      /\ \A k \in 1 .. c : sub[k] \in D
  <2>1. next \in Seq(Waiting)
    <3>1. LET read == Enter(w, top, table[top[1]]).pending
          IN read \in Seq((DOMAIN table) \X Nat)
      BY <1>1, EnterPushes
    <3> QED
      BY <3>1
  <2> HIDE DEF next
  <2> QED
    BY <1>6, <2>1 DEF Pushes
<1>8. V \in SUBSET DOMAIN table
  BY <1>3, <1>4
<1> HIDE DEF n
<1>9. entered \in WalkType(table)
  <2>1. entered.entries \in Nat
    <3>1. IsFiniteSet(EntriesOf(table, V))
      BY <1>8, EntriesFinite
    <3> QED
      BY <1>5, <3>1, FS_CardinalityType
  <2>2. entered.payloads \in SUBSET DOMAIN PayloadSize
    BY <1>5, <1>8, PayloadsFinite
  <2>3. entered.failed \in BOOLEAN
    BY <1>4, <1>5 DEF WalkType
  <2>4. entered = [pending |-> entered.pending, visited |-> entered.visited,
                   entries |-> entered.entries, payloads |-> entered.payloads,
                   failed |-> entered.failed]
    <3>1. \E x, y, z, u :
            entered = [w EXCEPT !.pending = x, !.visited = y, !.entries = z, !.payloads = u]
      BY DEF Enter
    <3>2. PICK x, y, z, u :
            entered = [w EXCEPT !.pending = x, !.visited = y, !.entries = z, !.payloads = u]
      BY <3>1
    <3> HIDE DEF entered
    <3> QED
      BY <1>4, <3>2 DEF WalkType
  <2> HIDE DEF entered, Waiting, V
  <2>5. entered.pending \in Seq(Waiting) /\ entered.visited \in SUBSET DOMAIN table
    BY <1>5, <1>7, <1>8
  <2> QED
    BY <2>1, <2>2, <2>3, <2>4, <2>5 DEF WalkType, Waiting
<1>10. ASSUME NEW j \in 1 .. Len(next)
       PROVE  OnPath(table, next[j][1], next[j][2])
  <2> HIDE DEF next, D
  <2>1. CASE j \in 1 .. (n - 1)
    <3>1. j \in 1 .. n /\ next[j] = w.pending[j]
      BY <1>3, <1>7, <2>1
    <3> QED
      BY <3>1 DEF Explored, n
  <2>2. CASE j \notin 1 .. (n - 1)
    <3> DEFINE k == j - (n - 1)
    <3>1. k \in 1 .. c /\ j = n - 1 + k
      BY <1>3, <1>7, <2>2
    <3> HIDE DEF k
    <3>2. next[j] = << table[o][sub[k]][2], top[2] + 1 >> /\ sub[k] \in D
      BY <1>7, <3>1
    <3> DEFINE d == top[2]
    <3>3. PICK p \in Paths(table, d) : p[d] = o
      BY <1>3 DEF OnPath
    <3>4. d \in Nat /\ sub[k] \in Directories(table, p[d])
      BY <1>3, <3>2, <3>3 DEF D
    <3> HIDE DEF d
    <3>5. \E q \in Paths(table, d + 1) : q[d + 1] = table[o][sub[k]][2]
      BY <3>3, <3>4, PathExtended
    <3>6. OnPath(table, table[o][sub[k]][2], d + 1)
      BY <3>5 DEF OnPath
    <3> QED
      BY <3>2, <3>6 DEF d
  <2> QED
    BY <2>1, <2>2
<1>11. V \subseteq ReachedWithin(table, MaxDepth)
  <2>1. w.visited \subseteq ReachedWithin(table, MaxDepth)
    BY DEF Explored
  <2>2. o \in ReachedWithin(table, MaxDepth)
    <3>1. top[2] \in 0 .. MaxDepth
      BY <1>2, <1>3, LimitAssumption
    <3> QED
      BY <1>3, <3>1 DEF ReachedWithin, OnPath
  <2> QED
    BY <2>1, <2>2
<1>12. \E s \in [1 .. Len(next) -> Links(table, V)] : Traced(table, V, next, s)
  <2>1. PICK source : Traced(table, w.visited, w.pending, source)
    BY DEF Explored
  <2> DEFINE pending == w.pending
             S == w.visited
  <2>2. Traced(table, S, pending, source) /\ Pushes(table, top, pending, c, sub, next)
    BY <1>6, <2>1
  <2>3. S \in SUBSET DOMAIN table /\ top[1] \in DOMAIN table /\ top[1] \notin S
    BY <1>2, <1>3, <1>4
  <2> HIDE DEF next, pending, S
  <2>4. \E s \in [1 .. Len(next) -> Links(table, S \cup {top[1]})] :
          Traced(table, S \cup {top[1]}, next, s)
    BY <2>2, <2>3, TraceExtended
  <2> QED
    BY <2>4 DEF S
<1>13. \A e \in EntriesOf(table, V) : EntryAt(table, e)[1] # "unreadable"
  <2> SUFFICES ASSUME NEW e \in EntriesOf(table, V)
               PROVE  EntryAt(table, e)[1] # "unreadable"
    OBVIOUS
  <2>1. e \in EntriesOf(table, w.visited) \/ e \in {o} \X (DOMAIN table[o])
    BY DEF EntriesOf
  <2>2. CASE e \in EntriesOf(table, w.visited)
    BY <2>2 DEF Explored
  <2>3. CASE e \in {o} \X (DOMAIN table[o])
    BY <1>2, <2>3 DEF EntryAt
  <2> QED
    BY <2>1, <2>2, <2>3
<1>14. entered.entries <= MaxResources
  <2> DEFINE a == entered.entries
  <2>1. a \in Nat /\ ~(a > MaxResources)
    BY <1>2, <1>9 DEF WalkType
  <2> HIDE DEF a
  <2>2. a <= MaxResources
    BY <2>1, LimitAssumption
  <2> QED
    BY <2>2 DEF a
<1>15. Bytes(entered.payloads) <= MaxPayload
  <2> DEFINE Q == entered.payloads
             a == Bytes(Q)
  <2>1. IsFiniteSet(Q) /\ Q \subseteq DOMAIN PayloadSize
    BY <1>5, <1>8, PayloadsFinite
  <2> HIDE DEF Q
  <2>2. a \in Nat
    BY <2>1, BytesGrow
  <2>3. ~(a > MaxPayload)
    BY <1>2 DEF Q
  <2> HIDE DEF a
  <2>4. a <= MaxPayload
    BY <2>2, <2>3, LimitAssumption
  <2> QED
    BY <2>4 DEF a, Q
<1> HIDE DEF entered, V
<1>16. Explored(entered, table)
  BY <1>5, <1>9, <1>10, <1>11, <1>12, <1>13, <1>14, <1>15 DEF Explored, next
<1> QED
  BY <1>16 DEF entered

LEMMA WalkKeeps ==
  ASSUME NEW table, IsTable(table), NEW w, WalkInv(w, table), Walking(w)
  PROVE  WalkInv(WalkStep(w, table), table)
<1>1. Explored(w, table) /\ w.pending # << >> /\ ~w.failed
  BY DEF WalkInv, Walking
<1> DEFINE last == w.pending[Len(w.pending)]
<1>2. last \in (DOMAIN table) \X Nat
  BY <1>1, TopFacts
<1>3. PICK top \in (DOMAIN table) \X Nat : top = last
  BY <1>2
<1> DEFINE entered == Enter(w, top, table[top[1]])
<1>4. WalkStep(w, table) = IF Refused(w, top, table) THEN Fail(w) ELSE entered
  BY <1>3 DEF WalkStep, Refused
<1>5. w \in WalkType(table)
  BY <1>1 DEF Explored
<1>6. CASE Refused(w, top, table)
  <2>1. ~Acceptable(table)
    BY <1>1, <1>3, <1>6, WalkRefuses
  <2>2. WalkStep(w, table).failed
    BY <1>4, <1>5, <1>6 DEF Fail, WalkType
  <2> QED
    BY <2>1, <2>2 DEF WalkInv
<1>7. CASE ~Refused(w, top, table)
  <2>1. Explored(entered, table)
    BY <1>1, <1>3, <1>7, WalkEnters
  <2>2. ~entered.failed
    BY <1>1, <1>5 DEF Enter, WalkType
  <2> HIDE DEF entered
  <2>3. WalkInv(entered, table)
    BY <2>1, <2>2 DEF WalkInv
  <2> QED
    BY <1>4, <1>7, <2>3
<1> QED
  BY <1>6, <1>7

==============================================================================
