-------------------------- MODULE DiscoveryProofs --------------------------
(***************************************************************************)
(* Proofs about Discovery, for any number of sockets, directories, editors *)
(* and times: what sorting and de-duplicating the entries found does, and  *)
(* from it that the live editors are listed newest first and once, that    *)
(* none is overlooked, and that no address is given up for another.        *)
(***************************************************************************)
EXTENDS Discovery, FiniteSetTheorems, SequenceTheorems, WellFoundedInduction, TLAPS

(***************************************************************************)
(* Numbers and orders.                                                     *)
(***************************************************************************)

\* A set of natural numbers has a least one.
LEMMA Least ==
    ASSUME NEW T, T \subseteq Nat, T # {}
    PROVE  \E n \in T : \A m \in T : n <= m
<1> DEFINE R == OpToRel(<, Nat)
<1>1. IsWellFoundedOn(R, Nat)
  BY NatLessThanWellFounded
<1>3. \A m, n \in Nat : m < n => <<m, n>> \in R
  BY DEF OpToRel
<1> HIDE DEF R
<1>2. PICK n \in T : \A m \in T : ~(<<m, n>> \in R)
  BY <1>1, WFMin
<1>4. ASSUME NEW m \in T
      PROVE  n <= m
  <2>1. m \in Nat /\ n \in Nat
    OBVIOUS
  <2>2. ~(m < n)
    BY <1>2, <1>3, <2>1
  <2> QED BY <2>1, <2>2
<1> QED BY <1>4

\* An earlier element has a smaller rank.
LEMMA RankGrows ==
    ASSUME NEW X, NEW R, IsFiniteSet(X), IsStrictOrder(X, R),
           NEW x \in X, NEW y \in X, <<x, y>> \in R
    PROVE  Rank(X, R, x) < Rank(X, R, y)
<1> DEFINE A == {z \in X : <<z, x>> \in R}
           B == {z \in X : <<z, y>> \in R}
<1>1. A \subseteq B /\ x \in B /\ x \notin A
  BY DEF IsStrictOrder
<1>2. IsFiniteSet(B) /\ IsFiniteSet(A)
  BY FS_Subset
<1>3. Cardinality(A) <= Cardinality(B) /\ Cardinality(A) # Cardinality(B)
  BY <1>1, <1>2, FS_Subset
<1>4. Cardinality(A) \in Nat /\ Cardinality(B) \in Nat
  BY <1>2, FS_CardinalityType
<1> QED BY <1>3, <1>4 DEF Rank

\* Ranks are below the number of elements.
LEMMA RankBelow ==
    ASSUME NEW X, NEW R, IsFiniteSet(X), IsStrictOrder(X, R), NEW x \in X
    PROVE  Rank(X, R, x) \in 0..(Cardinality(X) - 1)
<1> DEFINE A == {z \in X : <<z, x>> \in R}
<1>1. A \subseteq X /\ x \notin A
  BY DEF IsStrictOrder
<1>2. IsFiniteSet(A)
  BY FS_Subset
<1>3. Cardinality(A) <= Cardinality(X) /\ Cardinality(A) # Cardinality(X)
  BY <1>1, FS_Subset
<1>4. Cardinality(A) \in Nat /\ Cardinality(X) \in Nat
  BY <1>2, FS_CardinalityType
<1> QED BY <1>3, <1>4 DEF Rank

\* Each of these numbers is a rank: there are as many elements as numbers.
LEMMA RanksAreAll ==
    ASSUME NEW X, NEW R, IsFiniteSet(X), IsStrictOrder(X, R), 
           NEW k \in 1..Cardinality(X)
    PROVE  \E x \in X : Rank(X, R, x) = k - 1
<1> DEFINE f == [x \in X |-> Rank(X, R, x)]
           N == 0..(Cardinality(X) - 1)
<1>1. Cardinality(X) \in Nat
  BY FS_CardinalityType
<1>2. IsFiniteSet(N) /\ Cardinality(N) = Cardinality(X)
  <2>1. Cardinality(X) - 1 \in Int
    BY <1>1
  <2>2. \A a, b \in Int : /\ IsFiniteSet(a..b)
                         /\ Cardinality(a..b) = IF a > b THEN 0 ELSE b - a + 1
    BY FS_Interval
  <2> QED BY <1>1, <2>1, <2>2
<1>3. f \in [X -> N]
  BY RankBelow
<1>4. \A x, y \in X : x # y => f[x] # f[y]
  <2> SUFFICES ASSUME NEW x \in X, NEW y \in X, x # y PROVE Rank(X, R, x) # Rank(X, R, y)
    OBVIOUS
  <2>1. Rank(X, R, x) \in Int /\ Rank(X, R, y) \in Int
    BY RankBelow
  <2>2. <<x, y>> \in R \/ <<y, x>> \in R
    BY DEF IsStrictOrder
  <2>3. Rank(X, R, x) < Rank(X, R, y) \/ Rank(X, R, y) < Rank(X, R, x)
    BY RankGrows, <2>2
  <2> QED BY <2>1, <2>3
<1>5. f \in Injection(X, N)
  BY <1>3, <1>4 DEF Injection, IsInjective
<1>6. f \in Surjection(X, N)
  <2> HIDE DEF f, N
  <2> QED BY <1>2, <1>5, FS_Injection
<1>7. k - 1 \in N
  BY <1>1
<1> QED BY <1>6, <1>7 DEF Surjection

\* Every element has its place, and the places are in order.
LEMMA EnumeratedIs ==
    ASSUME NEW X, NEW R, IsFiniteSet(X), IsStrictOrder(X, R)
    PROVE  LET e == Enumerated(X, R) IN
           /\ e \in [1..Cardinality(X) -> X]
           /\ \A x \in X : \E k \in 1..Cardinality(X) : e[k] = x
           /\ \A i, j \in 1..Cardinality(X) : i < j => <<e[i], e[j]>> \in R
<1> DEFINE e == Enumerated(X, R)
           n == Cardinality(X)
<1>0. n \in Nat
  BY FS_CardinalityType
<1>1. \A k \in 1..n : e[k] \in X /\ Rank(X, R, e[k]) = k - 1
  BY RanksAreAll DEF Enumerated
<1>2. e \in [1..n -> X]
  BY <1>1 DEF Enumerated
<1>3. ASSUME NEW x \in X, NEW y \in X, Rank(X, R, x) <= Rank(X, R, y), x # y
      PROVE  <<x, y>> \in R
  <2>1. Rank(X, R, x) \in Int /\ Rank(X, R, y) \in Int
    BY RankBelow
  <2>2. <<y, x>> \notin R
    BY <1>3, <2>1, RankGrows
  <2> QED BY <1>3, <2>2 DEF IsStrictOrder
<1>4. ASSUME NEW x \in X
      PROVE  \E k \in 1..n : e[k] = x
  <2> DEFINE k == Rank(X, R, x) + 1
  <2>1. k \in 1..n /\ Rank(X, R, x) = k - 1
    BY <1>0, RankBelow
  <2>2. e[k] \in X /\ Rank(X, R, e[k]) = Rank(X, R, x) /\ Rank(X, R, x) \in Int
    BY <1>1, <2>1
  <2>3. e[k] = x
    <3> SUFFICES ASSUME e[k] # x PROVE FALSE
      OBVIOUS
    <3>1. <<e[k], x>> \in R /\ <<x, e[k]>> \in R
      BY <1>3, <2>2
    <3> QED BY <3>1, <2>2 DEF IsStrictOrder
  <2> QED BY <2>1, <2>3
<1>5. ASSUME NEW i \in 1..n, NEW j \in 1..n, i < j
      PROVE  <<e[i], e[j]>> \in R
  BY <1>0, <1>1, <1>3, <1>5
<1> QED BY <1>2, <1>4, <1>5

\* An interval from one has its upper bound as its size.
LEMMA IntervalSize ==
    ASSUME NEW n \in Nat
    PROVE  IsFiniteSet(1..n) /\ Cardinality(1..n) = n
<1>1. \A a, b \in Int : /\ IsFiniteSet(a..b)
                        /\ Cardinality(a..b) = IF a > b THEN 0 ELSE b - a + 1
  BY FS_Interval
<1> QED BY <1>1

LEMMA AscendingOrders ==
    ASSUME NEW X, X \subseteq Nat
    PROVE  IsStrictOrder(X, Ascending(X))
<1>1. \A i, j \in X : <<i, j>> \in Ascending(X) <=> i < j
  BY DEF Ascending
<1> QED BY <1>1 DEF IsStrictOrder

(***************************************************************************)
(* Sorting and de-duplicating.                                             *)
(***************************************************************************)
Entry == [path : Sockets, time : 0..MaxTime]

\* The names are in a strict order.
LEMMA PrecedesOrders ==
    /\ \A p \in Sockets : ~Precedes(p, p)
    /\ \A p, q, r \in Sockets : Precedes(p, q) /\ Precedes(q, r) => Precedes(p, r)
    /\ \A p, q \in Sockets : p # q => Precedes(p, q) \/ Precedes(q, p)
<1>1. /\ Names \in Seq(Sockets) /\ Len(Names) \in Nat
      /\ \A i, j \in 1..Len(Names) : Names[i] = Names[j] => i = j
  BY DiscoveryAssumption DEF IsInjective
<1>2. \A p \in Sockets : \E i \in 1..Len(Names) : Names[i] = p
  BY <1>1 DEF Sockets, ToSet
<1>3. \A p, q \in Sockets, i, j \in 1..Len(Names) :
          Names[i] = p /\ Names[j] = q => (Precedes(p, q) <=> i < j)
  BY <1>1 DEF Precedes
<1>4. ASSUME NEW p \in Sockets, NEW q \in Sockets, NEW r \in Sockets
      PROVE  /\ ~Precedes(p, p)
             /\ Precedes(p, q) /\ Precedes(q, r) => Precedes(p, r)
             /\ p # q => Precedes(p, q) \/ Precedes(q, p)
  <2>1. PICK i, j, k \in 1..Len(Names) : Names[i] = p /\ Names[j] = q /\ Names[k] = r
    BY <1>2
  <2>2. i \in Nat /\ j \in Nat /\ k \in Nat
    BY <1>1
  <2>3. /\ Precedes(p, p) <=> i < i
        /\ Precedes(p, q) <=> i < j
        /\ Precedes(q, p) <=> j < i
        /\ Precedes(q, r) <=> j < k
        /\ Precedes(p, r) <=> i < k
    BY <1>3, <2>1
  <2> QED BY <2>1, <2>2, <2>3
<1> QED BY <1>4

\* So are entries, by time and then by name.
LEMMA EntriesOrdered ==
    ASSUME NEW a \in Entry, NEW b \in Entry, NEW c \in Entry
    PROVE  /\ ~PrecedesEntry(a, a)
           /\ PrecedesEntry(a, b) /\ PrecedesEntry(b, c) => PrecedesEntry(a, c)
           /\ a # b => PrecedesEntry(a, b) \/ PrecedesEntry(b, a)
<1>1. /\ a.time \in Nat /\ b.time \in Nat /\ c.time \in Nat
      /\ a.path \in Sockets /\ b.path \in Sockets /\ c.path \in Sockets
      /\ a # b => a.path # b.path \/ a.time # b.time
  BY DiscoveryAssumption DEF Entry
<1> QED BY <1>1, PrecedesOrders DEF PrecedesEntry

\* The places of a sequence, equal entries where they are.
LEMMA SoonerOrders ==
    ASSUME NEW s \in Seq(Entry)
    PROVE  IsStrictOrder(DOMAIN s, Sooner(s))
<1> DEFINE D == DOMAIN s
           Soon(i, j) == \/ PrecedesEntry(s[i], s[j])
                         \/ ~PrecedesEntry(s[j], s[i]) /\ i < j
<1>1. D \subseteq Nat /\ \A i \in D : s[i] \in Entry
  OBVIOUS
<1>2. \A i, j \in D : <<i, j>> \in Sooner(s) <=> Soon(i, j)
  BY DEF Sooner
<1>3. ASSUME NEW i \in D, NEW j \in D, NEW k \in D
      PROVE  /\ ~Soon(i, i)
             /\ Soon(i, j) /\ Soon(j, k) => Soon(i, k)
             /\ i # j => Soon(i, j) \/ Soon(j, i)
  <2>1. /\ i \in Nat /\ j \in Nat /\ k \in Nat
        /\ s[i] \in Entry /\ s[j] \in Entry /\ s[k] \in Entry
    BY <1>1
  <2>2. ~Soon(i, i)
    BY <2>1, EntriesOrdered
  <2>3. ASSUME Soon(i, j), Soon(j, k) PROVE Soon(i, k)
    <3>1. s[i] = s[j] \/ PrecedesEntry(s[i], s[j]) 
      BY <2>1, <2>3, EntriesOrdered
    <3>2. s[j] = s[k] \/ PrecedesEntry(s[j], s[k])
      BY <2>1, <2>3, EntriesOrdered
    <3>3. CASE PrecedesEntry(s[i], s[j]) /\ PrecedesEntry(s[j], s[k])
      BY <2>1, <3>3, EntriesOrdered
    <3>4. CASE s[i] = s[j] /\ PrecedesEntry(s[j], s[k])
      BY <3>4
    <3>5. CASE PrecedesEntry(s[i], s[j]) /\ s[j] = s[k]
      BY <3>5
    <3>6. CASE s[i] = s[j] /\ s[j] = s[k]
      <4>1. ~PrecedesEntry(s[i], s[i])
        BY <2>1, EntriesOrdered
      <4>2. i < j /\ j < k
        BY <2>3, <3>6, <4>1
      <4> QED BY <2>1, <3>6, <4>1, <4>2
    <3> QED BY <3>1, <3>2, <3>3, <3>4, <3>5, <3>6
  <2>4. i # j => Soon(i, j) \/ Soon(j, i)
    BY <2>1
  <2> QED BY <2>2, <2>3, <2>4
<1> HIDE DEF Soon
<1> QED BY <1>2, <1>3 DEF IsStrictOrder

\* Sorting keeps the entries and puts none before a sooner one.
LEMMA SortedIs ==
    ASSUME NEW s \in Seq(Entry)
    PROVE  LET t == Sorted(s) IN
           /\ t \in Seq(Entry) /\ Len(t) = Len(s)
           /\ \A k \in DOMAIN t : \E i \in DOMAIN s : t[k] = s[i]
           /\ \A i \in DOMAIN s : \E k \in DOMAIN t : t[k] = s[i]
           /\ \A k, l \in DOMAIN t : k < l => ~PrecedesEntry(t[l], t[k])
<1> DEFINE D == DOMAIN s
           e == Enumerated(D, Sooner(s))
           t == Sorted(s)
<1>1. D = 1..Len(s) /\ Len(s) \in Nat /\ \A i \in D : s[i] \in Entry
  OBVIOUS
<1>2. IsFiniteSet(D) /\ Cardinality(D) = Len(s)
  BY <1>1, IntervalSize
<1>3. /\ e \in [D -> D]
      /\ \A i \in D : \E k \in D : e[k] = i
      /\ \A k, l \in D : k < l => <<e[k], e[l]>> \in Sooner(s)
  <2> HIDE DEF e
  <2>1. LET f == Enumerated(D, Sooner(s)) IN
           /\ f \in [1..Cardinality(D) -> D]
           /\ \A x \in D : \E k \in 1..Cardinality(D) : f[k] = x
           /\ \A i, j \in 1..Cardinality(D) : i < j => <<f[i], f[j]>> \in Sooner(s)
    BY <1>2, SoonerOrders, EnumeratedIs
  <2> QED BY <1>1, <1>2, <2>1 DEF e
<1>4. t = [k \in D |-> s[e[k]]]
  BY DEF Sorted
<1> HIDE DEF e, t
<1>5. t \in Seq(Entry) /\ Len(t) = Len(s) /\ DOMAIN t = D
  BY <1>1, <1>3, <1>4
<1>6. ASSUME NEW k \in D, NEW l \in D, k < l
      PROVE  ~PrecedesEntry(t[l], t[k])
  <2>1. e[k] \in D /\ e[l] \in D /\ <<e[k], e[l]>> \in Sooner(s)
    BY <1>3, <1>6
  <2>2. \/ PrecedesEntry(s[e[k]], s[e[l]])
        \/ ~PrecedesEntry(s[e[l]], s[e[k]])
    BY <2>1 DEF Sooner
  <2>3. ~PrecedesEntry(s[e[l]], s[e[k]])
    BY <1>1, <2>1, <2>2, EntriesOrdered
  <2> QED BY <1>4, <2>3
<1> QED BY <1>3, <1>4, <1>5, <1>6 DEF t

\* De-duplicating sorted entries keeps one of every path, in strict order.
LEMMA DeduplicatedIs ==
    ASSUME NEW s \in Seq(Entry),
           \A k, l \in DOMAIN s : k < l => ~PrecedesEntry(s[l], s[k])
    PROVE  LET t == Deduplicated(s) IN
           /\ t \in Seq(Entry)
           /\ \A k \in DOMAIN t : \E i \in DOMAIN s : t[k] = s[i]
           /\ \A i \in DOMAIN s : \E k \in DOMAIN t : t[k].path = s[i].path
           /\ \A k, l \in DOMAIN t : k < l => PrecedesEntry(t[k], t[l])
<1> DEFINE D == DOMAIN s
           kept == {i \in D : i > 1 => s[i].path # s[i - 1].path}
           e == Enumerated(kept, Ascending(kept))
           n == Cardinality(kept)
           t == Deduplicated(s)
<1>1. D = 1..Len(s) /\ Len(s) \in Nat /\ \A i \in D : s[i] \in Entry
  OBVIOUS
<1>2. IsFiniteSet(D)
  BY <1>1, IntervalSize
<1>3. IsFiniteSet(kept) /\ n \in Nat
  BY <1>2, FS_Subset, FS_CardinalityType
<1>4. kept \subseteq D /\ D \subseteq Nat
  BY <1>1
<1>5. IsStrictOrder(kept, Ascending(kept))
  <2> HIDE DEF kept
  <2> QED BY <1>4, AscendingOrders
<1>6. /\ e \in [1..n -> kept]
      /\ \A x \in kept : \E k \in 1..n : e[k] = x
      /\ \A k, l \in 1..n : k < l => e[k] < e[l]
  <2> HIDE DEF e, kept, n
  <2>1. LET f == Enumerated(kept, Ascending(kept)) IN
           /\ f \in [1..Cardinality(kept) -> kept]
           /\ \A x \in kept : \E k \in 1..Cardinality(kept) : f[k] = x
           /\ \A i, j \in 1..Cardinality(kept) : i < j => <<f[i], f[j]>> \in Ascending(kept)
    BY <1>3, <1>5, EnumeratedIs
  <2> QED BY <2>1 DEF e, n, Ascending
<1>7. t = [k \in 1..n |-> s[e[k]]]
  BY <1>6 DEF Deduplicated
<1>8. ASSUME NEW i \in D PROVE \E m \in kept : s[m].path = s[i].path
  <2> DEFINE same == {m \in D : s[m].path = s[i].path}
  <2>1. PICK m \in same : \A l \in same : m <= l
    <3>1. same \subseteq Nat /\ same # {}
      BY <1>4
    <3> HIDE DEF same
    <3> QED BY <3>1, Least
  <2>2. m \in D /\ s[m].path = s[i].path
    BY <2>1
  <2>3. m > 1 => s[m].path # s[m - 1].path
    <3> SUFFICES ASSUME m > 1, s[m].path = s[m - 1].path PROVE FALSE
      OBVIOUS
    <3>1. m - 1 \in D
      BY <1>1, <2>2
    <3>2. m - 1 \in same
      BY <2>2, <3>1
    <3> QED BY <1>1, <2>1, <2>2, <3>2
  <2> QED BY <2>2, <2>3
<1>9. ASSUME NEW i \in kept, NEW j \in kept, i < j
      PROVE  PrecedesEntry(s[i], s[j])
  <2>1. /\ i \in D /\ j \in D /\ j - 1 \in D /\ i <= j - 1
        /\ s[i] \in Entry /\ s[j] \in Entry /\ s[j - 1] \in Entry
        /\ s[j].path # s[j - 1].path
    BY <1>1, <1>4, <1>9
  <2>2. ~PrecedesEntry(s[j], s[i]) /\ ~PrecedesEntry(s[j], s[j - 1])
    BY <1>1, <1>9, <2>1
  <2>3. i = j - 1 \/ ~PrecedesEntry(s[j - 1], s[i])
    BY <1>1, <2>1
  <2>4. s[i] # s[j]
    <3> SUFFICES ASSUME s[i] = s[j] PROVE FALSE
      OBVIOUS
    <3>1. CASE i = j - 1
      BY <2>1, <3>1
    <3>2. CASE ~PrecedesEntry(s[j - 1], s[i])
      <4>1. s[j - 1] = s[j]
        BY <2>1, <2>2, <3>2, EntriesOrdered
      <4> QED BY <2>1, <4>1
    <3> QED BY <2>3, <3>1, <3>2
  <2> QED BY <2>1, <2>2, <2>4, EntriesOrdered
<1> HIDE DEF e, t, kept, n
<1>10. t \in Seq(Entry) /\ DOMAIN t = 1..n
  BY <1>1, <1>3, <1>4, <1>6, <1>7
<1>11. \A k, l \in DOMAIN t : k < l => PrecedesEntry(t[k], t[l])
  BY <1>6, <1>7, <1>9, <1>10
<1>12. \A k \in DOMAIN t : \E i \in DOMAIN s : t[k] = s[i]
  BY <1>4, <1>6, <1>7, <1>10
<1>13. ASSUME NEW i \in DOMAIN s PROVE \E k \in DOMAIN t : t[k].path = s[i].path
  <2>1. PICK m \in kept : s[m].path = s[i].path
    BY <1>8
  <2>2. PICK k \in 1..n : e[k] = m
    BY <1>6
  <2>3. t[k] = s[m]
    BY <1>7, <2>2
  <2> QED BY <1>10, <2>1, <2>3
<1> QED BY <1>10, <1>11, <1>12, <1>13 DEF t

\* The candidates are the paths that were found, and of two the first has an
\* entry before one of the second.
LEMMA CandidatesAre ==
    ASSUME NEW s \in Seq(Entry)
    PROVE  LET c == Candidates(s) IN
           /\ c \in Seq(Sockets)
           /\ \A i \in DOMAIN s : s[i].path \in ToSet(c)
           /\ \A k \in DOMAIN c : \E i \in DOMAIN s : s[i].path = c[k]
           /\ \A k, l \in DOMAIN c : k < l =>
                 \E i, j \in DOMAIN s : /\ s[i].path = c[k] /\ s[j].path = c[l]
                                        /\ PrecedesEntry(s[i], s[j])
<1> DEFINE t == Sorted(s)
           u == Deduplicated(t)
           c == Candidates(s)
<1>1. /\ t \in Seq(Entry) /\ Len(t) = Len(s)
      /\ \A k \in DOMAIN t : \E i \in DOMAIN s : t[k] = s[i]
      /\ \A i \in DOMAIN s : \E k \in DOMAIN t : t[k] = s[i]
      /\ \A k, l \in DOMAIN t : k < l => ~PrecedesEntry(t[l], t[k])
  BY SortedIs
<1> HIDE DEF t
<1>2. /\ u \in Seq(Entry)
      /\ \A k \in DOMAIN u : \E i \in DOMAIN t : u[k] = t[i]
      /\ \A i \in DOMAIN t : \E k \in DOMAIN u : u[k].path = t[i].path
      /\ \A k, l \in DOMAIN u : k < l => PrecedesEntry(u[k], u[l])
  BY <1>1, DeduplicatedIs
<1>3. c = [k \in DOMAIN u |-> u[k].path]
  BY DEF Candidates, t
<1> HIDE DEF u, c
<1>4. c \in Seq(Sockets) /\ DOMAIN c = DOMAIN u
  <2>1. \A k \in DOMAIN u : u[k] \in Entry
    BY <1>2
  <2>2. \A k \in DOMAIN u : u[k].path \in Sockets
    BY <2>1 DEF Entry
  <2>3. DOMAIN u = 1..Len(u) /\ Len(u) \in Nat
    BY <1>2
  <2>4. c \in [1..Len(u) -> Sockets]
    BY <1>3, <2>2, <2>3
  <2> QED BY <1>3, <2>3, <2>4
<1>5. ASSUME NEW i \in DOMAIN s PROVE s[i].path \in ToSet(c)
  <2>1. PICK j \in DOMAIN t : t[j] = s[i]
    BY <1>1
  <2>2. PICK k \in DOMAIN u : u[k].path = t[j].path
    BY <1>2
  <2>3. c[k] = s[i].path
    BY <1>3, <2>1, <2>2
  <2> QED BY <1>4, <2>2, <2>3 DEF ToSet
<1>6. \A k \in DOMAIN u : \E i \in DOMAIN s : u[k] = s[i]
  BY <1>1, <1>2
<1>7. \A k \in DOMAIN c : \E i \in DOMAIN s : s[i].path = c[k]
  BY <1>3, <1>4, <1>6
<1>8. ASSUME NEW k \in DOMAIN c, NEW l \in DOMAIN c, k < l
      PROVE  \E i, j \in DOMAIN s : /\ s[i].path = c[k] /\ s[j].path = c[l]
                                    /\ PrecedesEntry(s[i], s[j])
  <2>1. PICK i, j \in DOMAIN s : u[k] = s[i] /\ u[l] = s[j]
    BY <1>4, <1>6
  <2>2. PrecedesEntry(u[k], u[l])
    BY <1>2, <1>4, <1>8
  <2> QED BY <1>3, <1>4, <2>1, <2>2
<1> QED BY <1>4, <1>5, <1>7, <1>8 DEF c

(***************************************************************************)
(* Types.                                                                  *)
(***************************************************************************)
LEMMA InitType == Init => TypeOK
<1> SUFFICES ASSUME Init PROVE TypeOK
  OBVIOUS
<1>1. now \in 1..MaxTime /\ MaxTime \in Nat
  BY DiscoveryAssumption DEF Init
<1>2. born \in [Sockets -> 0..MaxTime]
  BY <1>1 DEF Init
<1>3. layout \in Seq(SUBSET Sockets)
  BY DiscoveryAssumption DEF Init
<1> QED BY <1>1, <1>2, <1>3 DEF Init, TypeOK, Unknown, Outcomes

LEMMA LenCases ==
    ASSUME NEW S, NEW s \in Seq(S)
    PROVE  Len(s) \in Nat /\ (Len(s) = 0 \/ Len(s) = 1 \/ Len(s) > 1)
<1>1. Len(s) \in Nat
  OBVIOUS
<1>2. \A n \in Nat : n = 0 \/ n = 1 \/ n > 1
  OBVIOUS
<1> QED BY <1>1, <1>2

LEMMA OutcomesAre ==
    /\ Unknown \in Outcomes /\ [how |-> "list"] \in Outcomes
    /\ \A p \in Sockets, how \in {"asked", "found", "picked"} : Server(p, how) \in Outcomes
    /\ \A why \in {"empty", "missing", "multiple", "cancelled", "unreachable"} :
          Failed(why) \in Outcomes
BY DEF Outcomes

\* Where the command looks is decided when it begins.
LEMMA AskedType == TypeOK => Asked \in Address
BY DiscoveryAssumption DEF TypeOK, Asked, Either, Address

LEMMA EditorsType == TypeOK /\ Editors => TypeOK'
<1> SUFFICES ASSUME TypeOK, Editors PROVE TypeOK'
  OBVIOUS
<1>1. PICK p \in Sockets : Starts(p) \/ Slows(p) \/ Recovers(p) \/ Crashes(p) \/ Exits(p)
  BY DEF Editors
<1>2. UNCHANGED <<given, pc, search, rest, live, rows, target, result, contacted>>
  BY DEF Editors
<1>3. /\ editor' \in [Sockets -> {"none", "up", "busy", "gone"}]
      /\ file' \in [Sockets -> BOOLEAN]
      /\ steady' \subseteq Sockets
  BY <1>1 DEF TypeOK, Starts, Slows, Recovers, Crashes, Exits, Becomes
<1>4. born' \in [Sockets -> 0..MaxTime] /\ now' \in 1..MaxTime
  <2>1. CASE UNCHANGED <<born, now>>
    BY <2>1 DEF TypeOK
  <2>2. CASE Starts(p)
    <3>1. PICK t \in now..MaxTime : now' = t /\ born' = [born EXCEPT ![p] = t]
      BY <2>2 DEF Starts
    <3>2. t \in 1..MaxTime /\ t \in 0..MaxTime
      BY DiscoveryAssumption DEF TypeOK
    <3> QED BY <3>1, <3>2 DEF TypeOK
  <2> QED BY <1>1, <2>1, <2>2 DEF Slows, Recovers, Crashes, Exits, Becomes
<1> QED BY <1>2, <1>3, <1>4 DEF TypeOK, given, search

LEMMA CommandType ==
    TypeOK /\ Directed /\ (\/ Start \/ OpensRoot \/ (\E p \in Sockets : Visits(p)) \/ ToProbes
               \/ Probes \/ Settles \/ ToRecords \/ Records \/ Shows \/ Picks \/ Contacts)
        => TypeOK'
<1> SUFFICES ASSUME TypeOK, Directed,
                    \/ Start \/ OpensRoot \/ (\E p \in Sockets : Visits(p)) \/ ToProbes
                    \/ Probes \/ Settles \/ ToRecords \/ Records \/ Shows \/ Picks \/ Contacts
             PROVE  TypeOK'
  OBVIOUS
<1> USE DEF Command, world, given, search
<1>1. CASE Start
  BY <1>1, AskedType, OutcomesAre DEF Address, Start, TypeOK, Ends
<1>2. CASE OpensRoot
  <2>1. Head(roots) \subseteq Sockets /\ Tail(roots) \in Seq(SUBSET Sockets)
    BY <1>2 DEF OpensRoot, TypeOK
  <2> QED BY <1>2, <2>1 DEF OpensRoot, TypeOK
<1>3. CASE \E p \in Sockets : Visits(p)
  <2>1. PICK p \in Sockets : Visits(p)
    BY <1>3
  <2>2. /\ [path |-> p, time |-> born[p]] \in Entry
        /\ [path |-> p, time |-> 0] \in Entry
    <3>1. born[p] \in 0..MaxTime /\ 0 \in 0..MaxTime
      BY DiscoveryAssumption DEF TypeOK
    <3> QED BY <3>1 DEF Entry
  <2>3. found' \in Seq(Entry)
    <3>1. found \in Seq(Entry)
      BY DEF TypeOK, Entry
    <3>2. \A e \in Entry : Append(found, e) \in Seq(Entry)
      BY <3>1
    <3> QED BY <2>1, <2>2, <3>1, <3>2 DEF Visits
  <2>4. todo' \subseteq Sockets
    BY <2>1 DEF Visits, TypeOK
  <2> QED BY <2>1, <2>3, <2>4 DEF Visits, TypeOK, Entry
<1>4. CASE ToProbes
  <2>1. found \in Seq(Entry)
    BY DEF TypeOK, Entry
  <2>2. Candidates(found) \in Seq(Sockets)
    BY <2>1, CandidatesAre
  <2> QED BY <1>4, <2>2 DEF ToProbes, TypeOK
<1>5. CASE Probes
  <2>1. /\ Head(rest) \in Sockets /\ Tail(rest) \in Seq(Sockets)
        /\ Append(live, Head(rest)) \in Seq(Sockets)
    BY <1>5 DEF Probes, TypeOK
  <2> QED BY <1>5, <2>1 DEF Probes, TypeOK
<1>6. CASE Settles
  <2>1. Len(live) = 1 => live[1] \in Sockets
    <3>1. live \in Seq(Sockets)
      BY DEF TypeOK
    <3>2. \A i \in 1..Len(live) : live[i] \in Sockets
      BY <3>1
    <3>3. Len(live) = 1 => 1 \in 1..Len(live)
      OBVIOUS
    <3> QED BY <3>2, <3>3
  <2>2. Len(live) = 0 \/ Len(live) = 1 \/ Len(live) > 1
    <3>1. live \in Seq(Sockets)
      BY DEF TypeOK
    <3> QED BY <3>1, LenCases
  <2>3. /\ target' \in Sockets \cup {"absent"} /\ result' \in Outcomes
        /\ pc' \in {"done", "contact"}
    <3>1. target \in Sockets \cup {"absent"} /\ result \in Outcomes
      BY DEF TypeOK
    <3> QED BY <1>6, <2>1, <2>2, <3>1, OutcomesAre DEF Settles, Ends
  <2> QED BY <1>6, <2>3 DEF Settles, TypeOK
<1>7. CASE ToRecords
  BY <1>7 DEF ToRecords, TypeOK
<1>8. CASE Records
  <2>1. /\ Tail(rest) \in Seq(Sockets)
        /\ Append(rows, Head(rest)) \in Seq(Sockets)
    BY <1>8 DEF Records, TypeOK
  <2> QED BY <1>8, <2>1 DEF Records, TypeOK
<1>9. CASE Shows
  <2>1. Len(rows) = 1 => rows[1] \in Sockets
    <3>1. rows \in Seq(Sockets)
      BY DEF TypeOK
    <3>2. \A i \in 1..Len(rows) : rows[i] \in Sockets
      BY <3>1
    <3>3. Len(rows) = 1 => 1 \in 1..Len(rows)
      OBVIOUS
    <3> QED BY <3>2, <3>3
  <2>2. Len(rows) = 0 \/ Len(rows) = 1 \/ Len(rows) > 1
    <3>1. rows \in Seq(Sockets)
      BY DEF TypeOK
    <3> QED BY <3>1, LenCases
  <2>3. kind \in {"connect", "root", "servers"} /\ result \in Outcomes
    BY DiscoveryAssumption DEF TypeOK
  <2>4. result' \in Outcomes /\ pc' \in {"done", "picking"}
    <3>1. CASE kind = "servers"
      BY <1>9, <3>1, OutcomesAre DEF Shows, Ends
    <3>2. CASE kind = "root" /\ Len(rows) = 0
      BY <1>9, <3>2, OutcomesAre DEF Shows, Ends
    <3>3. CASE kind = "root" /\ Len(rows) = 1
      BY <1>9, <2>1, <3>3, OutcomesAre DEF Shows, Ends
    <3>4. CASE kind = "root" /\ Len(rows) > 1
      BY <1>9, <2>3, <3>4, OutcomesAre DEF Shows, Ends
    <3>5. kind # "connect"
      BY <1>9 DEF Shows, Directed
    <3> QED BY <2>2, <2>3, <3>1, <3>2, <3>3, <3>4, <3>5
  <2> QED BY <1>9, <2>4 DEF Shows, TypeOK
<1>10. CASE Picks
  <2>1. ToSet(rows) \subseteq Sockets
    <3>1. rows \in Seq(Sockets)
      BY DEF TypeOK
    <3> QED BY <3>1 DEF ToSet
  <2> QED BY <1>10, <2>1, OutcomesAre DEF Picks, TypeOK, Ends
<1>11. CASE Contacts
  BY <1>11, OutcomesAre DEF Contacts, Directed, TypeOK, Ends
<1> QED BY <1>1, <1>2, <1>3, <1>4, <1>5, <1>6, <1>7, <1>8, <1>9, <1>10, <1>11

(***************************************************************************)
(* The editors.                                                            *)
(***************************************************************************)

\* What an editor does: it may start, and once it has gone it stays away.
LEMMA EditorsMove ==
    ASSUME TypeOK, Editors
    PROVE  /\ \A p \in Sockets : Known(p) => Known(p)' /\ born'[p] = born[p]
           /\ \A p \in Sockets : editor[p] = "gone" => editor'[p] = "gone"
           /\ steady' \subseteq steady
<1>1. PICK p \in Sockets : Starts(p) \/ Slows(p) \/ Recovers(p) \/ Crashes(p) \/ Exits(p)
  BY DEF Editors
<1>2. CASE Starts(p)
  <2>1. editor[p] = "none" /\ editor' = [editor EXCEPT ![p] = "up"] /\ steady' = steady
    BY <1>2 DEF Starts
  <2>2. PICK t : born' = [born EXCEPT ![p] = t]
    BY <1>2 DEF Starts
  <2> QED BY <2>1, <2>2 DEF Known, TypeOK
<1>3. CASE Slows(p) \/ Recovers(p) \/ Crashes(p) \/ Exits(p)
  <2>1. PICK from, to : Becomes(p, from, to) /\ from \subseteq {"up", "busy"} /\ to # "none"
    BY <1>3 DEF Slows, Recovers, Crashes, Exits
  <2> QED BY <2>1 DEF Becomes, Known, TypeOK
<1> QED BY <1>1, <1>2, <1>3

LEMMA WorldStep == TypeOK /\ World /\ [Next]_vars => World'
<1> SUFFICES ASSUME TypeOK, World, [Next]_vars PROVE World'
  OBVIOUS
<1>1. CASE UNCHANGED world
  BY <1>1 DEF World, world
<1>2. CASE Editors
  <2>1. PICK p \in Sockets : Starts(p) \/ Slows(p) \/ Recovers(p) \/ Crashes(p) \/ Exits(p)
    BY <1>2 DEF Editors
  <2>2. CASE Starts(p)
    BY <2>2 DEF Starts, World, TypeOK
  <2>3. CASE Slows(p)
    BY <2>3 DEF Slows, Becomes, World, TypeOK
  <2>4. CASE Recovers(p)
    BY <2>4 DEF Recovers, Becomes, World, TypeOK
  <2>5. CASE Crashes(p)
    BY <2>5 DEF Crashes, Becomes, World, TypeOK
  <2>6. CASE Exits(p)
    BY <2>6 DEF Exits, Becomes, World, TypeOK
  <2> QED BY <2>1, <2>2, <2>3, <2>4, <2>5, <2>6
<1> QED BY <1>1, <1>2 DEF Next, vars, Command, Start, OpensRoot, Visits, ToProbes, Probes,
           Settles, ToRecords, Records, Shows, Picks, Contacts

(***************************************************************************)
(* Where the command goes.                                                 *)
(***************************************************************************)
LEMMA DirectedStep == TypeOK /\ Directed /\ [Next]_vars => Directed'
<1> SUFFICES ASSUME TypeOK, Directed, [Next]_vars PROVE Directed'
  OBVIOUS
<1>1. /\ UNCHANGED given
      /\ Asked' = Asked
  BY DEF Next, vars, Editors, Command, Start, OpensRoot, Visits, ToProbes, Probes,
         Settles, ToRecords, Records, Shows, Picks, Contacts, given, Asked
<1>2. Asked \in Sockets => Asked # "absent"
  BY DiscoveryAssumption
<1>3. \A why : Failed(why) # Unknown
  BY DEF Failed, Unknown
<1>4. \A p, how : how \in {"asked", "found", "picked"} => Server(p, how) # Unknown
  BY DEF Server, Unknown
<1>5. [how |-> "list"] # Unknown
  BY DEF Unknown
<1> USE DEF Searching
<1>6. CASE Editors \/ UNCHANGED vars
  BY <1>1, <1>6 DEF Editors, vars, Directed, given
<1>7. CASE Start
  <2>1. Asked \in Address
    BY AskedType
  <2>2. CASE Asked = "absent"
    BY <1>1, <1>7, <2>2 DEF Start, Directed, given
  <2>3. CASE Asked = "empty"
    BY <1>1, <1>3, <1>7, <2>3 DEF Start, Directed, given, Ends
  <2>4. CASE Asked \in Sockets
    BY <1>1, <1>2, <1>7, <2>4, DiscoveryAssumption DEF Start, Directed, given
  <2> QED BY <2>1, <2>2, <2>3, <2>4 DEF Address
<1>8. CASE OpensRoot \/ (\E p \in Sockets : Visits(p)) \/ ToProbes
  BY <1>1, <1>8 DEF OpensRoot, Visits, ToProbes, Directed, given
<1>9. CASE Probes
  BY <1>1, <1>9 DEF Probes, Directed, given
<1>10. CASE Settles
  <2>1. live \in Seq(Sockets)
    BY DEF TypeOK
  <2>2. CASE Len(live) = 0
    BY <1>1, <1>3, <1>10, <2>2 DEF Settles, Directed, given, Ends
  <2>3. CASE Len(live) = 1
    BY <1>1, <1>10, <2>1, <2>3 DEF Settles, Directed, given
  <2>4. CASE Len(live) > 1
    BY <1>1, <1>3, <1>10, <2>4 DEF Settles, Directed, given, Ends
  <2>5. Len(live) = 0 \/ Len(live) = 1 \/ Len(live) > 1
    BY <2>1, LenCases
  <2> QED BY <2>2, <2>3, <2>4, <2>5
<1>11. CASE ToRecords \/ Records
  BY <1>1, <1>11 DEF ToRecords, Records, Directed, given
<1>12. CASE Shows
  <2>1. rows \in Seq(Sockets) /\ kind \in {"root", "servers"}
    BY <1>12, DiscoveryAssumption DEF TypeOK, Shows, Directed
  <2>2. CASE kind = "servers"
    BY <1>1, <1>5, <1>12, <2>2 DEF Shows, Directed, given, Ends
  <2>3. CASE kind = "root" /\ Len(rows) = 0
    BY <1>1, <1>3, <1>12, <2>3 DEF Shows, Directed, given, Ends
  <2>4. CASE kind = "root" /\ Len(rows) = 1
    BY <1>1, <1>4, <1>12, <2>4 DEF Shows, Directed, given, Ends
  <2>5. CASE kind = "root" /\ Len(rows) > 1
    BY <1>1, <1>12, <2>5 DEF Shows, Directed, given
  <2>6. Len(rows) = 0 \/ Len(rows) = 1 \/ Len(rows) > 1
    BY <2>1, LenCases
  <2> QED BY <2>1, <2>2, <2>3, <2>4, <2>5, <2>6
<1>13. CASE Picks
  BY <1>1, <1>3, <1>4, <1>13 DEF Picks, Directed, given, Ends
<1>14. CASE Contacts
  BY <1>1, <1>3, <1>4, <1>14 DEF Contacts, Directed, given, Ends
<1> QED BY <1>6, <1>7, <1>8, <1>9, <1>10, <1>11, <1>12, <1>13, <1>14 DEF Next

\* What has been found is known.
LEMMA DatedStep == TypeOK /\ World /\ Dated /\ [Next]_vars => Dated'
<1> SUFFICES ASSUME TypeOK, World, Dated, [Next]_vars PROVE Dated'
  OBVIOUS
<1>0. found \in Seq(Entry) /\ \A i \in DOMAIN found : found[i].path \in Sockets
  <2>1. found \in Seq(Entry)
    BY DEF TypeOK, Entry
  <2>2. \A i \in DOMAIN found : found[i] \in Entry
    BY <2>1
  <2> QED BY <2>1, <2>2 DEF Entry
<1>1. CASE UNCHANGED <<world, found>>
  BY <1>1 DEF world, Dated, Known
<1>2. CASE Editors
  <2>1. found' = found
    BY <1>2 DEF Editors, search
  <2> QED BY <1>0, <1>2, <2>1, EditorsMove DEF Dated, Known
<1>3. ASSUME NEW p \in Sockets, Visits(p)
      PROVE  Dated'
  <2>1. UNCHANGED world /\ editor' = editor /\ born' = born
    BY <1>3 DEF Visits, Command, world
  <2>2. CASE found' = found
    BY <2>1, <2>2 DEF Dated, Known
  <2>3. ASSUME NEW e, found' = Append(found, e), e.path = p, Known(p),
               editor[p] # "gone" => e.time = born[p]
        PROVE  Dated'
    <3>1. ASSUME NEW i \in DOMAIN found'
          PROVE  found'[i] = e \/ (i \in DOMAIN found /\ found'[i] = found[i])
      BY <1>0, <2>3
    <3> QED BY <2>1, <2>3, <3>1 DEF Dated, Known
  <2>4. CASE file[p] /\ found' = Append(found, [path |-> p, time |-> born[p]])
    <3>1. Known(p)
      BY <2>4 DEF World, Known
    <3> QED BY <2>3, <2>4, <3>1
  <2>5. CASE editor[p] = "gone" /\ found' = Append(found, [path |-> p, time |-> 0])
    BY <2>3, <2>5 DEF Known
  <2> QED BY <1>3, <2>2, <2>4, <2>5 DEF Visits
<1> QED BY <1>1, <1>2, <1>3 DEF Next, vars, Command, Start, OpensRoot, ToProbes, Probes, search,
           Settles, ToRecords, Records, Shows, Picks, Contacts

(***************************************************************************)
(* The order of the candidates.                                            *)
(***************************************************************************)
LEMMA NewerKept ==
    ASSUME TypeOK, Editors, NEW p \in Sockets, NEW q \in Sockets, Known(p), Known(q)
    PROVE  Newer(p, q)' <=> Newer(p, q)
BY EditorsMove DEF Newer

\* The order of the candidates survives what editors do.
LEMMA InOrderEditors == TypeOK /\ InOrder /\ Editors => InOrder'
<1> SUFFICES ASSUME TypeOK, InOrder, Editors PROVE InOrder'
  OBVIOUS
<1>1. rest' = rest /\ live' = live /\ rows' = rows /\ pc' = pc
  BY DEF Editors
<1>2. \A s \in {rest, live, rows} : \A i \in DOMAIN s : s[i] \in Sockets /\ Known(s[i])
  <2>1. \A s \in {rest, live, rows} : s \in Seq(Sockets)
    BY DEF TypeOK
  <2> QED BY <2>1 DEF InOrder
<1>3. \A p, q \in Sockets : Known(p) /\ Known(q) => (Newer(p, q)' <=> Newer(p, q))
  BY NewerKept
<1>4. \A p \in Sockets : (Known(p) => Known(p)') /\ (Lasting(p)' => Lasting(p))
  BY EditorsMove DEF Lasting
<1>5. \A s \in {rest, live, rows} : Ordered(s) => Ordered(s)'
  BY <1>2, <1>3 DEF Ordered
<1>6. \A s \in {rest, live, rows} : \A i \in DOMAIN s : Known(s[i])'
  BY <1>2, <1>4
<1>7. pc = "probing" =>
        /\ \A i, j \in DOMAIN rest :
              i < j /\ Lasting(rest[i])' /\ Lasting(rest[j])' => Newer(rest[i], rest[j])'
        /\ \A i \in DOMAIN live, j \in DOMAIN rest :
              Lasting(rest[j])' => Newer(live[i], rest[j])'
  <2> SUFFICES ASSUME pc = "probing"
               PROVE  /\ \A i, j \in DOMAIN rest :
                            i < j /\ Lasting(rest[i])' /\ Lasting(rest[j])' => Newer(rest[i], rest[j])'
                      /\ \A i \in DOMAIN live, j \in DOMAIN rest :
                            Lasting(rest[j])' => Newer(live[i], rest[j])'
    OBVIOUS
  <2> QED BY <1>1, <1>2, <1>3, <1>4 DEF InOrder
<1> QED BY <1>1, <1>2, <1>3, <1>5, <1>6, <1>7 DEF InOrder

\* The candidates are in order although they were found at different times.
LEMMA InOrderToProbes == TypeOK /\ Dated /\ InOrder /\ ToProbes => InOrder'
<1> SUFFICES ASSUME TypeOK, Dated, InOrder, ToProbes PROVE InOrder'
  OBVIOUS
<1>1. /\ pc' = "probing" /\ rest' = Candidates(found) /\ live' = live /\ rows' = rows
      /\ editor' = editor /\ born' = born /\ live = <<>> /\ rows = <<>>
  BY DEF ToProbes, Command, world, InOrder
<1>2. found \in Seq(Entry) /\ live \in Seq(Sockets)
  BY DEF TypeOK, Entry
<1> DEFINE c == Candidates(found)
<1>3. /\ c \in Seq(Sockets)
      /\ \A k \in DOMAIN c : \E i \in DOMAIN found : found[i].path = c[k]
      /\ \A k, l \in DOMAIN c : k < l =>
            \E i, j \in DOMAIN found : /\ found[i].path = c[k] /\ found[j].path = c[l]
                                       /\ PrecedesEntry(found[i], found[j])
  BY <1>2, CandidatesAre
<1> HIDE DEF c
<1>4. \A k \in DOMAIN c : Known(c[k])
  BY <1>3 DEF Dated
<1>5. ASSUME NEW k \in DOMAIN c, NEW l \in DOMAIN c, k < l, Lasting(c[k]), Lasting(c[l])
      PROVE  Newer(c[k], c[l])
  <2>1. PICK i, j \in DOMAIN found : /\ found[i].path = c[k] /\ found[j].path = c[l]
                                     /\ PrecedesEntry(found[i], found[j])
    BY <1>3, <1>5
  <2>2. found[i].time = born[c[k]] /\ found[j].time = born[c[l]]
    BY <1>5, <2>1 DEF Dated, Lasting
  <2> QED BY <2>1, <2>2 DEF PrecedesEntry, Newer
<1>6. rest' = c
  BY <1>1 DEF c
<1> QED BY <1>1, <1>4, <1>5, <1>6 DEF InOrder, Known, Lasting, Newer, Ordered

\* Appending what comes after all.
LEMMA OrderedAppend ==
    ASSUME NEW s \in Seq(Sockets), NEW p \in Sockets, Ordered(s),
           \A i \in DOMAIN s : Newer(s[i], p)
    PROVE  Ordered(Append(s, p))
<1>1. \A i \in DOMAIN Append(s, p) :
          i \in Nat /\ IF i = Len(s) + 1 THEN Append(s, p)[i] = p
                       ELSE i <= Len(s) /\ i \in DOMAIN s /\ Append(s, p)[i] = s[i]
  OBVIOUS
<1> SUFFICES ASSUME NEW i \in DOMAIN Append(s, p), NEW j \in DOMAIN Append(s, p), i < j
             PROVE  Newer(Append(s, p)[i], Append(s, p)[j])
  BY DEF Ordered
<1>2. i # Len(s) + 1
  BY <1>1
<1>3. i \in DOMAIN s /\ Append(s, p)[i] = s[i]
  BY <1>1, <1>2
<1> QED BY <1>1, <1>3 DEF Ordered

LEMMA InOrderProbes == TypeOK /\ World /\ InOrder /\ Probes => InOrder'
<1> SUFFICES ASSUME TypeOK, World, InOrder, Probes PROVE InOrder'
  OBVIOUS
<1>0. PICK p \in Sockets : p = Head(rest)
  <2>1. rest \in Seq(Sockets) /\ rest # <<>>
    BY DEF Probes, TypeOK
  <2> QED BY <2>1
<1>1. /\ pc = "probing" /\ pc' = pc /\ rest # <<>> /\ rest' = Tail(rest) /\ rows' = rows
      /\ live' = IF Answers(p) THEN Append(live, p) ELSE live
      /\ editor' = editor /\ born' = born
  BY <1>0 DEF Probes, Command, world
<1>2. rest \in Seq(Sockets) /\ live \in Seq(Sockets) /\ rows \in Seq(Sockets)
  BY DEF TypeOK
<1>3. /\ p \in Sockets /\ p = rest[1] /\ 1 \in DOMAIN rest /\ rest' \in Seq(Sockets)
      /\ \A i \in DOMAIN rest' : i + 1 \in DOMAIN rest /\ rest'[i] = rest[i + 1] /\ i \in Nat /\ i > 0
  BY <1>0, <1>1, <1>2
<1>4. Answers(p) => Lasting(p)
  BY DEF Answers, Lasting
<1>5. live' \in Seq(Sockets)
      /\ \A i \in DOMAIN live' : \/ i \in DOMAIN live /\ live'[i] = live[i]
                                 \/ Answers(p) /\ live'[i] = p
  BY <1>1, <1>2, <1>3
<1>6. (\A s \in {rest, live, rows} : \A i \in DOMAIN s : Known(s[i]))'
  <2>1. \A s \in {rest, live, rows} : \A i \in DOMAIN s : Known(s[i])
    BY DEF InOrder
  <2>2. Known(p)
    BY <1>3, <2>1
  <2>3. \A q : Known(q)' <=> Known(q)
    BY <1>1 DEF Known
  <2>4. \A i \in DOMAIN rest' : Known(rest'[i])
    BY <1>3, <2>1
  <2>5. \A i \in DOMAIN live' : Known(live'[i])
    BY <1>1, <1>5, <2>1, <2>2
  <2>6. \A i \in DOMAIN rows' : Known(rows'[i])
    BY <1>1, <1>5, <2>1, <2>2
  <2> QED BY <2>3, <2>4, <2>5, <2>6
<1>7. Ordered(live)'
  <2>1. Ordered(live) /\ \A i \in DOMAIN live : Answers(p) => Newer(live[i], p)
    BY <1>1, <1>3, <1>4 DEF InOrder
  <2>2. Ordered(live')
    BY <1>1, <1>2, <1>3, <2>1, OrderedAppend
  <2> QED BY <1>1, <2>2 DEF Ordered, Newer
<1>8. rows = <<>> /\ rows' = <<>>
  BY <1>1 DEF InOrder
<1>9. ASSUME NEW i \in DOMAIN rest', NEW j \in DOMAIN rest', i < j,
             Lasting(rest'[i]), Lasting(rest'[j])
      PROVE  Newer(rest'[i], rest'[j])
  BY <1>1, <1>3, <1>9 DEF InOrder
<1>10. ASSUME NEW i \in DOMAIN live', NEW j \in DOMAIN rest', Lasting(rest'[j])
       PROVE  Newer(live'[i], rest'[j])
  <2>1. CASE i \in DOMAIN live /\ live'[i] = live[i]
    BY <1>1, <1>3, <1>10, <2>1 DEF InOrder
  <2>2. CASE Answers(p) /\ live'[i] = p
    <3>1. 1 < j + 1
      BY <1>3
    <3> QED BY <1>1, <1>3, <1>4, <1>10, <2>2, <3>1 DEF InOrder
  <2> QED BY <1>5, <2>1, <2>2
<1>11. Ordered(rows)'
  BY <1>8 DEF Ordered
<1> QED BY <1>1, <1>6, <1>7, <1>8, <1>9, <1>10, <1>11 DEF InOrder, Lasting, Newer

LEMMA InOrderRecords == TypeOK /\ InOrder /\ Records => InOrder'
<1> SUFFICES ASSUME TypeOK, InOrder, Records PROVE InOrder'
  OBVIOUS
<1>0. PICK p \in Sockets : p = Head(rest)
  <2>1. rest \in Seq(Sockets) /\ rest # <<>>
    BY DEF Records, TypeOK
  <2> QED BY <2>1
<1>1. /\ pc = "recording" /\ pc' = pc /\ rest # <<>> /\ rest' = Tail(rest) /\ live' = live
      /\ rows' = IF Answers(p) THEN Append(rows, p) ELSE rows
      /\ editor' = editor /\ born' = born
  BY <1>0 DEF Records, Command, world
<1>2. rest \in Seq(Sockets) /\ live \in Seq(Sockets) /\ rows \in Seq(Sockets)
  BY DEF TypeOK
<1>3. /\ p \in Sockets /\ p = rest[1] /\ 1 \in DOMAIN rest /\ rest' \in Seq(Sockets)
      /\ \A i \in DOMAIN rest' : i + 1 \in DOMAIN rest /\ rest'[i] = rest[i + 1] /\ i \in Nat /\ i > 0
  BY <1>0, <1>1, <1>2
<1>4. rows' \in Seq(Sockets)
      /\ \A i \in DOMAIN rows' : \/ i \in DOMAIN rows /\ rows'[i] = rows[i]
                                 \/ rows'[i] = p
  BY <1>1, <1>2, <1>3
<1>5. (\A s \in {rest, live, rows} : \A i \in DOMAIN s : Known(s[i]))'
  <2>1. \A s \in {rest, live, rows} : \A i \in DOMAIN s : Known(s[i])
    BY DEF InOrder
  <2>2. Known(p)
    BY <1>3, <2>1
  <2>3. \A q : Known(q)' <=> Known(q)
    BY <1>1 DEF Known
  <2>4. \A i \in DOMAIN rest' : Known(rest'[i])
    BY <1>3, <2>1
  <2>5. \A i \in DOMAIN live' : Known(live'[i])
    BY <1>1, <1>4, <2>1, <2>2
  <2>6. \A i \in DOMAIN rows' : Known(rows'[i])
    BY <1>1, <1>4, <2>1, <2>2
  <2> QED BY <2>3, <2>4, <2>5, <2>6
<1>6. Ordered(rows)'
  <2>1. Ordered(rows) /\ \A i \in DOMAIN rows : Newer(rows[i], p)
    BY <1>1, <1>3 DEF InOrder
  <2>2. Ordered(rows')
    BY <1>1, <1>2, <1>3, <2>1, OrderedAppend
  <2> QED BY <1>1, <2>2 DEF Ordered, Newer
<1>7. Ordered(rest) /\ Ordered(live)
  BY <1>1 DEF InOrder
<1>8. Ordered(rest)' /\ Ordered(live)'
  BY <1>1, <1>3, <1>7 DEF Ordered, Newer
<1>9. ASSUME NEW i \in DOMAIN rows', NEW j \in DOMAIN rest'
      PROVE  Newer(rows'[i], rest'[j])
  <2>1. CASE i \in DOMAIN rows /\ rows'[i] = rows[i]
    BY <1>1, <1>3, <2>1 DEF InOrder
  <2>2. CASE rows'[i] = p
    <3>1. 1 < j + 1
      BY <1>3
    <3> QED BY <1>3, <1>7, <2>2, <3>1 DEF Ordered
  <2> QED BY <1>4, <2>1, <2>2
<1> QED BY <1>1, <1>5, <1>6, <1>8, <1>9 DEF InOrder, Newer

LEMMA InOrderStep ==
    TypeOK /\ World /\ Directed /\ Dated /\ InOrder /\ [Next]_vars => InOrder'
<1> SUFFICES ASSUME TypeOK, World, Directed, Dated, InOrder, [Next]_vars PROVE InOrder'
  OBVIOUS
<1>1. ASSUME UNCHANGED <<world, rest, live, rows>>,
             \/ pc' = pc
             \/ pc = "start" /\ pc' = "reading"
             \/ pc' \in {"picking", "contact", "done"}
      PROVE  InOrder'
  BY <1>1 DEF InOrder, Ordered, Newer, Known, Lasting, world
<1>2. CASE Start
  <2>1. Asked \in Address
    BY AskedType
  <2>2. pc' \in {"reading", "contact", "done"}
    BY <1>2, <2>1 DEF Start, Address, Ends
  <2> QED BY <1>1, <1>2, <2>2 DEF Start, Command
<1>3. CASE OpensRoot \/ (\E p \in Sockets : Visits(p)) \/ UNCHANGED vars
  BY <1>1, <1>3 DEF OpensRoot, Visits, vars, Command
<1>4. CASE Settles
  <2>1. Len(live) = 0 \/ Len(live) = 1 \/ Len(live) > 1
    <3>1. live \in Seq(Sockets)
      BY DEF TypeOK
    <3> QED BY <3>1, LenCases
  <2>2. pc' \in {"contact", "done"}
    BY <1>4, <2>1 DEF Settles, Ends
  <2> QED BY <1>1, <1>4, <2>2 DEF Settles, Command
<1>5. CASE Shows
  <2>1. Len(rows) = 0 \/ Len(rows) = 1 \/ Len(rows) > 1
    <3>1. rows \in Seq(Sockets)
      BY DEF TypeOK
    <3> QED BY <3>1, LenCases
  <2>2. kind = "root" \/ kind = "servers"
    BY <1>5, DiscoveryAssumption DEF TypeOK, Shows, Directed
  <2>3. pc' \in {"picking", "done"}
    BY <1>5, <2>1, <2>2 DEF Shows, Ends
  <2> QED BY <1>1, <1>5, <2>3 DEF Shows, Command
<1>6. CASE Picks \/ Contacts
  BY <1>1, <1>6 DEF Picks, Contacts, Command, Ends
<1>7. CASE ToRecords
  <2>1. rest' = live /\ live' = live /\ rows' = rows /\ rows = <<>> /\ pc' = "recording"
        /\ editor' = editor /\ born' = born
    BY <1>7 DEF ToRecords, InOrder, Command, world
  <2> QED BY <2>1 DEF InOrder, Ordered, Newer, Known
<1> QED BY <1>2, <1>3, <1>4, <1>5, <1>6, <1>7, InOrderEditors, InOrderToProbes,
           InOrderProbes, InOrderRecords DEF Next

(***************************************************************************)
(* Nobody is overlooked.                                                   *)
(***************************************************************************)

\* What the command has to go by does not change.
LEMMA GivenKept == [Next]_vars => UNCHANGED given /\ Asked' = Asked /\ Visible' = Visible
BY DEF Next, vars, Editors, Command, Start, OpensRoot, Visits, ToProbes, Probes,
       Settles, ToRecords, Records, Shows, Picks, Contacts, given, Asked, Visible

\* The first of a sequence and the others are all there are.
LEMMA HeadOrTail ==
    ASSUME NEW S, NEW s \in Seq(S), s # <<>>
    PROVE  ToSet(s) = {Head(s)} \cup ToSet(Tail(s))
<1>1. /\ Tail(s) \in Seq(S) /\ Head(s) = s[1] /\ 1 \in DOMAIN s
      /\ \A i \in DOMAIN Tail(s) : i + 1 \in DOMAIN s /\ Tail(s)[i] = s[i + 1]
      /\ \A i \in DOMAIN s : i = 1 \/ (i - 1 \in DOMAIN Tail(s) /\ Tail(s)[i - 1] = s[i])
  OBVIOUS
<1>2. ASSUME NEW x PROVE x \in ToSet(s) <=> x = Head(s) \/ x \in ToSet(Tail(s))
  <2>1. x \in ToSet(s) <=> \E i \in DOMAIN s : x = s[i]
    BY DEF ToSet
  <2>2. x \in ToSet(Tail(s)) <=> \E i \in DOMAIN Tail(s) : x = Tail(s)[i]
    BY DEF ToSet
  <2> QED BY <1>1, <2>1, <2>2
<1> QED BY <1>2

LEMMA AppendToSet ==
    ASSUME NEW S, NEW s \in Seq(S), NEW e \in S
    PROVE  ToSet(Append(s, e)) = ToSet(s) \cup {e}
<1>1. /\ \A i \in DOMAIN s : i \in DOMAIN Append(s, e) /\ Append(s, e)[i] = s[i]
      /\ Len(s) + 1 \in DOMAIN Append(s, e) /\ Append(s, e)[Len(s) + 1] = e
      /\ \A i \in DOMAIN Append(s, e) : i = Len(s) + 1 \/ i \in DOMAIN s
  OBVIOUS
<1> QED BY <1>1 DEF ToSet

LEMMA EmptyToSet == ToSet(<<>>) = {}
BY DEF ToSet

\* Before the candidates are there: the directories read, and the entries found.
LEMMA CoveredReading ==
    TypeOK /\ World /\ Covered
        /\ (OpensRoot \/ (\E p \in Sockets : Visits(p)) \/ ToProbes) => Covered'
<1> SUFFICES ASSUME TypeOK, World, Covered, Asked = "absent",
                    OpensRoot \/ (\E p \in Sockets : Visits(p)) \/ ToProbes,
                    NEW p \in Sockets, p \in steady, p \in Visible
             PROVE  /\ pc' \in {"start", "reading"} =>
                          \/ p \in todo' \cup UNION ToSet(roots')
                          \/ \E i \in DOMAIN found' : found'[i].path = p
                    /\ pc' = "probing" => p \in ToSet(rest') \cup ToSet(live')
                    /\ pc' \in {"start", "reading", "probing"}
  <2> SUFFICES ASSUME TypeOK, World, Covered,
                      OpensRoot \/ (\E p \in Sockets : Visits(p)) \/ ToProbes
               PROVE  Covered'
    OBVIOUS
  <2>1. steady' = steady
    BY DEF OpensRoot, Visits, ToProbes, Command, world
  <2>2. steady \subseteq Sockets
    BY DEF TypeOK
  <2>3. Asked' = Asked /\ Visible' = Visible
    BY GivenKept DEF Next
  <2> QED BY <2>1, <2>2, <2>3 DEF Covered
<1>0. /\ pc = "reading" /\ found \in Seq(Entry) /\ roots \in Seq(SUBSET Sockets)
      /\ \/ p \in todo \cup UNION ToSet(roots)
         \/ \E i \in DOMAIN found : found[i].path = p
  BY DEF OpensRoot, Visits, ToProbes, Covered, TypeOK, Entry
<1>1. CASE OpensRoot
  <2>1. ToSet(roots) = {todo'} \cup ToSet(roots') /\ todo = {} /\ pc' = pc /\ found' = found
    BY <1>0, <1>1, HeadOrTail DEF OpensRoot
  <2> QED BY <1>0, <2>1
<1>2. ASSUME NEW q \in Sockets, Visits(q)
      PROVE  /\ pc' = "reading"
             /\ \/ p \in todo' \cup UNION ToSet(roots')
                \/ \E i \in DOMAIN found' : found'[i].path = p
  <2>1. pc' = "reading" /\ roots' = roots /\ todo' = todo \ {q}
    BY <1>2 DEF Visits
  <2>2. ASSUME NEW e, found' = Append(found, e)
        PROVE  /\ \A i \in DOMAIN found : i \in DOMAIN found' /\ found'[i] = found[i]
               /\ \E i \in DOMAIN found' : found'[i] = e
    <3>1. /\ \A i \in DOMAIN found : i \in DOMAIN Append(found, e) /\ Append(found, e)[i] = found[i]
          /\ Len(found) + 1 \in DOMAIN Append(found, e) /\ Append(found, e)[Len(found) + 1] = e
      BY <1>0
    <3> QED BY <2>2, <3>1
  <2>3. \A i \in DOMAIN found : i \in DOMAIN found' /\ found'[i] = found[i]
    <3>1. found' = found \/ \E e : found' = Append(found, e)
      BY <1>2 DEF Visits
    <3> QED BY <2>2, <3>1
  <2>4. CASE p = q
    <3>1. file[p]
      BY DEF World
    <3>2. found' = Append(found, [path |-> p, time |-> born[p]])
      BY <1>2, <2>4, <3>1 DEF Visits
    <3>3. PICK i \in DOMAIN found' : found'[i] = [path |-> p, time |-> born[p]]
      BY <2>2, <3>2
    <3> QED BY <2>1, <3>3
  <2>5. CASE p # q
    BY <1>0, <2>1, <2>3, <2>5
  <2> QED BY <2>4, <2>5
<1>3. CASE ToProbes
  <2>1. pc' = "probing" /\ rest' = Candidates(found) /\ todo = {} /\ roots = <<>>
    BY <1>3 DEF ToProbes
  <2>2. PICK i \in DOMAIN found : found[i].path = p
    BY <1>0, <2>1, EmptyToSet
  <2>3. p \in ToSet(rest')
    BY <1>0, <2>1, <2>2, CandidatesAre
  <2> QED BY <2>1, <2>3
<1>4. CASE \E q \in Sockets : Visits(q)
  BY <1>2, <1>4
<1> QED BY <1>0, <1>1, <1>3, <1>4

\* Then: the candidates, the live ones and the rows.
LEMMA CoveredProbing ==
    TypeOK /\ World /\ Directed /\ Covered
        /\ (Probes \/ Settles \/ ToRecords \/ Records \/ Shows) => Covered'
<1> SUFFICES ASSUME TypeOK, World, Directed, Covered, Asked = "absent",
                    Probes \/ Settles \/ ToRecords \/ Records \/ Shows,
                    NEW p \in Sockets, p \in steady, p \in Visible
             PROVE  \/ pc' = "probing" /\ p \in ToSet(rest') \cup ToSet(live')
                    \/ pc' = "recording" /\ p \in ToSet(rest') \cup ToSet(rows')
                    \/ pc' = "picking" /\ p \in ToSet(rows')
                    \/ pc' = "contact" /\ p = target'
                    \/ pc' = "done"
  <2> SUFFICES ASSUME TypeOK, World, Directed, Covered,
                      Probes \/ Settles \/ ToRecords \/ Records \/ Shows
               PROVE  Covered'
    OBVIOUS
  <2>1. steady' = steady
    BY DEF Probes, Settles, ToRecords, Records, Shows, Command, world
  <2>2. steady \subseteq Sockets
    BY DEF TypeOK
  <2>3. Asked' = Asked /\ Visible' = Visible
    BY GivenKept DEF Next
  <2> QED BY <2>1, <2>2, <2>3 DEF Covered
<1>0. /\ rest \in Seq(Sockets) /\ live \in Seq(Sockets) /\ rows \in Seq(Sockets)
      /\ Answers(p)
      /\ pc = "probing" => p \in ToSet(rest) \cup ToSet(live)
      /\ pc = "recording" => p \in ToSet(rest) \cup ToSet(rows)
  BY DEF TypeOK, World, Answers, Covered
<1>1. CASE Probes
  <2>1. /\ pc = "probing" /\ pc' = pc /\ rest # <<>> /\ rest' = Tail(rest)
        /\ live' = IF Answers(Head(rest)) THEN Append(live, Head(rest)) ELSE live
    BY <1>1 DEF Probes
  <2>2. ToSet(rest) = {Head(rest)} \cup ToSet(rest') /\ Head(rest) \in Sockets
    BY <1>0, <2>1, HeadOrTail
  <2>3. live' = live \/ ToSet(live') = ToSet(live) \cup {Head(rest)}
    BY <1>0, <2>1, <2>2, AppendToSet
  <2>4. p = Head(rest) => p \in ToSet(live')
    BY <1>0, <2>1, <2>2, AppendToSet
  <2> QED BY <1>0, <2>1, <2>2, <2>3, <2>4
<1>2. CASE Settles
  <2>1. pc = "probing" /\ rest = <<>> /\ p \in ToSet(live)
    BY <1>0, <1>2, EmptyToSet DEF Settles
  <2>2. PICK i \in 1..Len(live) : live[i] = p
    BY <1>0, <2>1 DEF ToSet
  <2>3. Len(live) = 1 \/ Len(live) > 1
    <3>1. Len(live) # 0
      BY <2>2
    <3> QED BY <1>0, <3>1, LenCases
  <2>4. CASE Len(live) = 1
    BY <1>2, <2>2, <2>4 DEF Settles
  <2>5. CASE Len(live) > 1
    BY <1>2, <2>5 DEF Settles, Ends
  <2> QED BY <2>3, <2>4, <2>5
<1>3. CASE ToRecords
  BY <1>0, <1>3, EmptyToSet DEF ToRecords
<1>4. CASE Records
  <2>1. /\ pc = "recording" /\ pc' = pc /\ rest # <<>> /\ rest' = Tail(rest)
        /\ rows' = IF Answers(Head(rest)) THEN Append(rows, Head(rest)) ELSE rows
    BY <1>4 DEF Records
  <2>2. ToSet(rest) = {Head(rest)} \cup ToSet(rest') /\ Head(rest) \in Sockets
    BY <1>0, <2>1, HeadOrTail
  <2>3. rows' = rows \/ ToSet(rows') = ToSet(rows) \cup {Head(rest)}
    BY <1>0, <2>1, <2>2, AppendToSet
  <2>4. p = Head(rest) => p \in ToSet(rows')
    BY <1>0, <2>1, <2>2, AppendToSet
  <2> QED BY <1>0, <2>1, <2>2, <2>3, <2>4
<1>5. CASE Shows
  <2>1. pc = "recording" /\ rest = <<>> /\ p \in ToSet(rows) /\ rows' = rows
    BY <1>0, <1>5, EmptyToSet DEF Shows
  <2>2. kind = "servers" \/ kind = "root"
    BY <1>5, DiscoveryAssumption DEF TypeOK, Shows, Directed
  <2>3. Len(rows) = 0 \/ Len(rows) = 1 \/ Len(rows) > 1
    BY <1>0, LenCases
  <2>4. pc' \in {"done", "picking"}
    BY <1>5, <2>2, <2>3 DEF Shows, Ends
  <2> QED BY <2>1, <2>4
<1> QED BY <1>1, <1>2, <1>3, <1>4, <1>5

LEMMA CoveredStep == TypeOK /\ World /\ Directed /\ Covered /\ [Next]_vars => Covered'
<1> SUFFICES ASSUME TypeOK, World, Directed, Covered, [Next]_vars PROVE Covered'
  OBVIOUS
<1>1. Asked' = Asked /\ Visible' = Visible
  BY GivenKept
<1>2. CASE Editors
  <2>1. steady' \subseteq steady /\ UNCHANGED <<pc, search, rest, live, rows, target>>
    BY <1>2, EditorsMove DEF Editors
  <2> QED BY <1>1, <2>1 DEF Covered, search
<1>3. CASE Start
  <2>1. CASE Asked = "absent"
    <3>1. pc = "start" /\ pc' = "reading"
      BY <1>3, <2>1, DiscoveryAssumption DEF Start, Ends
    <3>2. UNCHANGED <<steady, roots, todo, found>>
      BY <1>3 DEF Start, Command, world, search
    <3> QED BY <1>1, <3>1, <3>2 DEF Covered
  <2>2. CASE Asked # "absent"
    BY <1>1, <2>2 DEF Covered
  <2> QED BY <2>1, <2>2
<1>4. CASE UNCHANGED vars
  BY <1>1, <1>4 DEF Covered, vars, world, search
<1>5. CASE Picks \/ Contacts
  BY <1>5 DEF Picks, Contacts, Ends, Covered
<1> QED BY <1>2, <1>3, <1>4, <1>5, CoveredReading, CoveredProbing DEF Next

(***************************************************************************)
(* What a command ends with.                                               *)
(***************************************************************************)

\* Editors that are in order are different ones.
LEMMA OrderedAreSeveral ==
    ASSUME NEW s \in Seq(Sockets), Ordered(s), Len(s) > 1, TypeOK
    PROVE  Cardinality(ToSet(s)) > 1
<1>1. Len(s) \in Nat /\ 1 \in DOMAIN s /\ 2 \in DOMAIN s /\ s[1] \in Sockets /\ s[2] \in Sockets
  OBVIOUS
<1>2. s[1] # s[2]
  <2>1. Newer(s[1], s[2])
    BY <1>1 DEF Ordered
  <2>2. born[s[1]] \in Int
    BY <1>1, DiscoveryAssumption DEF TypeOK
  <2> QED BY <1>1, <2>1, <2>2, PrecedesOrders DEF Newer
<1>3. IsFiniteSet(ToSet(s))
  <2>1. IsFiniteSet(1..Len(s))
    BY <1>1, IntervalSize
  <2>2. s \in Surjection(1..Len(s), ToSet(s))
    BY <1>1 DEF ToSet, Surjection
  <2> QED BY <2>1, <2>2, FS_Surjection
<1>4. {s[1], s[2]} \subseteq ToSet(s)
  BY <1>1 DEF ToSet
<1>5. Cardinality({s[1], s[2]}) = 2
  <2>1. IsFiniteSet({s[1]}) /\ Cardinality({s[1]}) = 1
    BY FS_Singleton
  <2>2. Cardinality({s[1]} \cup {s[2]}) = 2
    <3>1. s[2] \notin {s[1]}
      BY <1>2
    <3>2. Cardinality({s[1]} \cup {s[2]}) = Cardinality({s[1]}) + 1
      BY <2>1, <3>1, FS_AddElement
    <3> QED BY <2>1, <3>2
  <2>3. {s[1]} \cup {s[2]} = {s[1], s[2]}
    OBVIOUS
  <2> QED BY <2>1, <2>2, <2>3
<1>6. Cardinality(ToSet(s)) \in Nat /\ Cardinality({s[1], s[2]}) <= Cardinality(ToSet(s))
  BY <1>3, <1>4, FS_Subset, FS_CardinalityType
<1> QED BY <1>5, <1>6

LEMMA SteadyStep ==
    TypeOK /\ World /\ Directed /\ InOrder /\ Covered /\ SteadyAreFound /\ [Next]_vars
        => SteadyAreFound'
<1> SUFFICES ASSUME TypeOK, World, Directed, InOrder, Covered, SteadyAreFound, [Next]_vars
             PROVE  SteadyAreFound'
  OBVIOUS
<1>0. /\ Asked' = Asked /\ Visible' = Visible
      /\ rest \in Seq(Sockets) /\ live \in Seq(Sockets) /\ rows \in Seq(Sockets)
      /\ steady \subseteq Sockets
  BY GivenKept DEF TypeOK
<1> DEFINE overlooked == steady \cap Visible
<1>1. CASE UNCHANGED vars
  BY <1>0, <1>1 DEF vars, world, SteadyAreFound
<1>2. CASE Asked # "absent"
  BY <1>0, <1>2 DEF SteadyAreFound
<1>3. CASE result' = Unknown
  BY <1>3 DEF SteadyAreFound, Unknown, Failed
<1>4. CASE Settles /\ Asked = "absent"
  <2>1. steady' = steady /\ pc = "probing" /\ rest = <<>> /\ live' = live
    BY <1>4 DEF Settles, Command, world
  <2>2. overlooked \subseteq ToSet(live)
    BY <1>4, <2>1, EmptyToSet DEF Covered
  <2>3. CASE Len(live) = 0
    <3>1. live = <<>>
      BY <1>0, <2>3
    <3>2. overlooked = {}
      BY <2>2, <3>1, EmptyToSet
    <3>3. result' = Failed("missing")
      BY <1>4, <2>3 DEF Settles, Ends
    <3> QED BY <1>0, <2>1, <3>2, <3>3 DEF SteadyAreFound, Failed
  <2>4. CASE Len(live) = 1
    <3>1. result' = Unknown
      BY <1>4, <2>1, <2>4 DEF Settles, Directed
    <3> QED BY <1>3, <3>1
  <2>5. CASE Len(live) > 1
    <3>1. result' = Failed("multiple")
      BY <1>4, <2>5 DEF Settles, Ends
    <3>2. Cardinality(ToSet(live)) > 1
      BY <1>0, <2>5, OrderedAreSeveral DEF InOrder
    <3> QED BY <1>0, <2>1, <3>1, <3>2 DEF SteadyAreFound, Failed
  <2> QED BY <1>0, <2>3, <2>4, <2>5, LenCases
<1>5. CASE Shows /\ Asked = "absent"
  <2>1. /\ steady' = steady /\ pc = "recording" /\ rest = <<>> /\ rows' = rows
        /\ kind = "servers" \/ kind = "root"
    BY <1>5, DiscoveryAssumption DEF Shows, Command, world, TypeOK, Directed
  <2>2. overlooked \subseteq ToSet(rows)
    BY <1>5, <2>1, EmptyToSet DEF Covered
  <2>3. CASE kind = "servers"
    <3>1. result' = [how |-> "list"]
      BY <1>5, <2>3 DEF Shows, Ends
    <3> QED BY <1>0, <2>1, <2>2, <3>1 DEF SteadyAreFound, Failed
  <2>4. CASE kind = "root" /\ Len(rows) = 0
    <3>1. rows = <<>>
      BY <1>0, <2>4
    <3>2. overlooked = {}
      BY <2>2, <3>1, EmptyToSet
    <3>3. result' = Failed("missing")
      BY <1>5, <2>4 DEF Shows, Ends
    <3> QED BY <1>0, <2>1, <3>2, <3>3 DEF SteadyAreFound, Failed
  <2>5. CASE kind = "root" /\ Len(rows) = 1
    <3>1. result' = Server(rows[1], "found")
      BY <1>5, <2>5 DEF Shows, Ends
    <3>2. ToSet(rows) = {rows[1]}
      BY <1>0, <2>5 DEF ToSet
    <3> QED BY <1>0, <2>1, <2>2, <3>1, <3>2 DEF SteadyAreFound, Failed, Server
  <2>6. CASE kind = "root" /\ Len(rows) > 1
    <3>1. result' = Unknown
      BY <1>5, <2>1, <2>6 DEF Shows, Directed
    <3> QED BY <1>3, <3>1
  <2> QED BY <1>0, <2>1, <2>3, <2>4, <2>5, <2>6, LenCases
<1>6. CASE Picks /\ Asked = "absent"
  <2>1. steady' = steady /\ pc = "picking" /\ rows' = rows
    BY <1>6 DEF Picks, Command, world
  <2>2. overlooked \subseteq ToSet(rows)
    BY <1>6, <2>1 DEF Covered
  <2>3. result' = Failed("cancelled") \/ \E p \in ToSet(rows) : result' = Server(p, "picked")
    BY <1>6 DEF Picks, Ends
  <2> QED BY <1>0, <2>1, <2>2, <2>3 DEF SteadyAreFound, Failed, Server
<1>7. CASE Contacts /\ Asked = "absent"
  <2>1. steady' = steady /\ pc = "contact" /\ target \in Sockets
    BY <1>7 DEF Contacts, Command, world, Directed
  <2>2. overlooked \subseteq {target}
    BY <1>7, <2>1 DEF Covered
  <2>3. Asked # target
    BY <1>7, <2>1, DiscoveryAssumption
  <2>4. result' = Failed("unreachable") \/ result' = Server(target, "found")
    BY <1>7, <2>3 DEF Contacts, Ends
  <2> QED BY <1>0, <2>1, <2>2, <2>4 DEF SteadyAreFound, Failed, Server
<1>8. CASE Start /\ Asked = "absent"
  <2>1. result' = Unknown
    BY <1>8 DEF Start, Directed
  <2> QED BY <1>3, <2>1
<1>9. CASE Editors \/ OpensRoot \/ (\E p \in Sockets : Visits(p)) \/ ToProbes
              \/ Probes \/ ToRecords \/ Records
  <2>1. result' = Unknown
    BY <1>9 DEF Editors, OpensRoot, Visits, ToProbes, Probes, ToRecords, Records, Directed
  <2> QED BY <1>3, <2>1
<1> QED BY <1>1, <1>2, <1>4, <1>5, <1>6, <1>7, <1>8, <1>9 DEF Next

(***************************************************************************)
(* The theorems.                                                           *)
(***************************************************************************)
LEMMA InitIInv == Init => IInv
<1> SUFFICES ASSUME Init PROVE IInv
  OBVIOUS
<1>1. TypeOK
  BY InitType
<1>2. World
  BY DEF Init, World
<1>3. Directed
  BY DEF Init, Directed, Searching
<1>4. Dated
  BY DEF Init, Dated
<1>5. InOrder
  BY DEF Init, InOrder, Ordered
<1>6. Covered
  BY DEF Init, Covered, Visible
<1>7. SteadyAreFound
  BY DEF Init, SteadyAreFound, Unknown, Failed
<1> QED BY <1>1, <1>2, <1>3, <1>4, <1>5, <1>6, <1>7 DEF IInv

LEMMA StepIInv == IInv /\ [Next]_vars => IInv'
<1> SUFFICES ASSUME IInv, [Next]_vars PROVE IInv'
  OBVIOUS
<1> USE DEF IInv
<1>1. TypeOK'
  <2>1. CASE UNCHANGED vars
    BY <2>1 DEF TypeOK, vars, world, given, search
  <2> QED BY <2>1, EditorsType, CommandType DEF Next
<1>2. World' /\ Directed' /\ Dated'
  BY WorldStep, DirectedStep, DatedStep
<1>3. InOrder' /\ Covered' /\ SteadyAreFound'
  BY InOrderStep, CoveredStep, SteadyStep
<1> QED BY <1>1, <1>2, <1>3

\* The inductive invariant: who is up, where the command is directed, what it
\* knows of the sockets found, and in which order it holds them.
THEOREM Invariance == Spec => []IInv
BY InitIInv, StepIInv, PTL DEF Spec

\* Every variable of discovery has its type.
THEOREM TypeCorrect == Spec => []TypeOK
<1>1. IInv => TypeOK
  BY DEF IInv
<1> QED BY <1>1, Invariance, PTL

\* The live editors and the rows shown are listed once each and from the
\* newest to the oldest (server.rs:97), for any directories and any number of
\* editors that come and go meanwhile.
THEOREM OrderHolds == Spec => []ListedInOrder
<1>1. IInv => ListedInOrder
  BY DEF IInv, InOrder, Ordered, Newer, ListedInOrder
<1> QED BY <1>1, Invariance, PTL

\* A command that looks for an editor overlooks none that has answered all
\* along, whatever it ends with (server.rs:43-103).
THEOREM SteadyHolds == Spec => []SteadyAreFound
<1>1. IInv => SteadyAreFound
  BY DEF IInv
<1> QED BY <1>1, Invariance, PTL

\* A command that was told where to go contacts no other editor
\* (commands.rs:430).
THEOREM NoFallbackHolds == Spec => []NoFallback
<1>1. IInv => NoFallback
  <2> SUFFICES ASSUME IInv, kind # "servers", Either(flag, engineVar) # "absent"
               PROVE  contacted \subseteq {Either(flag, engineVar)}
    BY DEF NoFallback
  <2>1. kind = "connect" \/ kind = "root"
    BY DiscoveryAssumption DEF IInv, TypeOK
  <2>2. Asked = Either(flag, engineVar)
    BY <2>1 DEF Asked, Either
  <2> QED BY <2>2 DEF IInv, Directed
<1> QED BY <1>1, Invariance, PTL

=============================================================================
