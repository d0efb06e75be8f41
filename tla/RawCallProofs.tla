--------------------------- MODULE RawCallProofs ---------------------------
(***************************************************************************)
(* Proofs about RawCall and the modules it extends, for any editors, any   *)
(* metadata and values of any depth: that the check compares what it is to *)
(* compare, that the search finds what is in the table, so that a checked  *)
(* table refuses what the editor would refuse, that no handle reaches an   *)
(* editor it does not come from, and that what is given back to its editor *)
(* arrives as it was.                                                      *)
(***************************************************************************)
EXTENDS RawCall, FiniteSetTheorems, SequenceTheorems, WellFoundedInduction, TLAPS

(***************************************************************************)
(* Numbers and orders.                                                     *)
(***************************************************************************)

\* A set of natural numbers has a least one.
LEMMA Least ==
    ASSUME NEW T, T \subseteq Nat, T # {}
    PROVE  \E n \in T : \A m \in T : n <= m
<1> DEFINE R == OpToRel(<, Nat)
<1>1. IsWellFoundedOn(R, Nat)
  BY NatLessThanWellFounded
<1>3. \A m, n \in Nat : m < n => <<m, n>> \in R
  BY DEF OpToRel
<1> HIDE DEF R
<1>2. PICK n \in T : \A m \in T : ~(<<m, n>> \in R)
  BY <1>1, WFMin
<1>4. ASSUME NEW m \in T
      PROVE  n <= m
  <2>1. m \in Nat /\ n \in Nat
    OBVIOUS
  <2>2. ~(m < n)
    BY <1>2, <1>3, <2>1
  <2> QED BY <2>1, <2>2
<1> QED BY <1>4

\* An earlier element has a smaller rank.
LEMMA RankGrows ==
    ASSUME NEW X, NEW R, IsFiniteSet(X), IsStrictOrder(X, R),
           NEW x \in X, NEW y \in X, <<x, y>> \in R
    PROVE  Rank(X, R, x) < Rank(X, R, y)
<1> DEFINE A == {z \in X : <<z, x>> \in R}
           B == {z \in X : <<z, y>> \in R}
<1>1. A \subseteq B /\ x \in B /\ x \notin A
  BY DEF IsStrictOrder
<1>2. IsFiniteSet(B) /\ IsFiniteSet(A)
  BY FS_Subset
<1>3. Cardinality(A) <= Cardinality(B) /\ Cardinality(A) # Cardinality(B)
  BY <1>1, <1>2, FS_Subset
<1>4. Cardinality(A) \in Nat /\ Cardinality(B) \in Nat
  BY <1>2, FS_CardinalityType
<1> QED BY <1>3, <1>4 DEF Rank

\* Ranks are below the number of elements.
LEMMA RankBelow ==
    ASSUME NEW X, NEW R, IsFiniteSet(X), IsStrictOrder(X, R), NEW x \in X
    PROVE  Rank(X, R, x) \in 0..(Cardinality(X) - 1)
<1> DEFINE A == {z \in X : <<z, x>> \in R}
<1>1. A \subseteq X /\ x \notin A
  BY DEF IsStrictOrder
<1>2. IsFiniteSet(A)
  BY FS_Subset
<1>3. Cardinality(A) <= Cardinality(X) /\ Cardinality(A) # Cardinality(X)
  BY <1>1, FS_Subset
<1>4. Cardinality(A) \in Nat /\ Cardinality(X) \in Nat
  BY <1>2, FS_CardinalityType
<1> QED BY <1>3, <1>4 DEF Rank

\* Each of these numbers is a rank: there are as many elements as numbers.
LEMMA RanksAreAll ==
    ASSUME NEW X, NEW R, IsFiniteSet(X), IsStrictOrder(X, R), 
           NEW k \in 1..Cardinality(X)
    PROVE  \E x \in X : Rank(X, R, x) = k - 1
<1> DEFINE f == [x \in X |-> Rank(X, R, x)]
           N == 0..(Cardinality(X) - 1)
<1>1. Cardinality(X) \in Nat
  BY FS_CardinalityType
<1>2. IsFiniteSet(N) /\ Cardinality(N) = Cardinality(X)
  <2>1. Cardinality(X) - 1 \in Int
    BY <1>1
  <2>2. \A a, b \in Int : /\ IsFiniteSet(a..b)
                         /\ Cardinality(a..b) = IF a > b THEN 0 ELSE b - a + 1
    BY FS_Interval
  <2> QED BY <1>1, <2>1, <2>2
<1>3. f \in [X -> N]
  BY RankBelow
<1>4. \A x, y \in X : x # y => f[x] # f[y]
  <2> SUFFICES ASSUME NEW x \in X, NEW y \in X, x # y PROVE Rank(X, R, x) # Rank(X, R, y)
    OBVIOUS
  <2>1. Rank(X, R, x) \in Int /\ Rank(X, R, y) \in Int
    BY RankBelow
  <2>2. <<x, y>> \in R \/ <<y, x>> \in R
    BY DEF IsStrictOrder
  <2>3. Rank(X, R, x) < Rank(X, R, y) \/ Rank(X, R, y) < Rank(X, R, x)
    BY RankGrows, <2>2
  <2> QED BY <2>1, <2>3
<1>5. f \in Injection(X, N)
  BY <1>3, <1>4 DEF Injection, IsInjective
<1>6. f \in Surjection(X, N)
  <2> HIDE DEF f, N
  <2> QED BY <1>2, <1>5, FS_Injection
<1>7. k - 1 \in N
  BY <1>1
<1> QED BY <1>6, <1>7 DEF Surjection

\* Every element has its place, and the places are in order.
LEMMA EnumeratedIs ==
    ASSUME NEW X, NEW R, IsFiniteSet(X), IsStrictOrder(X, R)
    PROVE  LET e == Enumerated(X, R) IN
           /\ e \in [1..Cardinality(X) -> X]
           /\ \A x \in X : \E k \in 1..Cardinality(X) : e[k] = x
           /\ \A i, j \in 1..Cardinality(X) : i < j => <<e[i], e[j]>> \in R
<1> DEFINE e == Enumerated(X, R)
           n == Cardinality(X)
<1>0. n \in Nat
  BY FS_CardinalityType
<1>1. \A k \in 1..n : e[k] \in X /\ Rank(X, R, e[k]) = k - 1
  BY RanksAreAll DEF Enumerated
<1>2. e \in [1..n -> X]
  BY <1>1 DEF Enumerated
<1>3. ASSUME NEW x \in X, NEW y \in X, Rank(X, R, x) <= Rank(X, R, y), x # y
      PROVE  <<x, y>> \in R
  <2>1. Rank(X, R, x) \in Int /\ Rank(X, R, y) \in Int
    BY RankBelow
  <2>2. <<y, x>> \notin R
    BY <1>3, <2>1, RankGrows
  <2> QED BY <1>3, <2>2 DEF IsStrictOrder
<1>4. ASSUME NEW x \in X
      PROVE  \E k \in 1..n : e[k] = x
  <2> DEFINE k == Rank(X, R, x) + 1
  <2>1. k \in 1..n /\ Rank(X, R, x) = k - 1
    BY <1>0, RankBelow
  <2>2. e[k] \in X /\ Rank(X, R, e[k]) = Rank(X, R, x) /\ Rank(X, R, x) \in Int
    BY <1>1, <2>1
  <2>3. e[k] = x
    <3> SUFFICES ASSUME e[k] # x PROVE FALSE
      OBVIOUS
    <3>1. <<e[k], x>> \in R /\ <<x, e[k]>> \in R
      BY <1>3, <2>2
    <3> QED BY <3>1, <2>2 DEF IsStrictOrder
  <2> QED BY <2>1, <2>3
<1>5. ASSUME NEW i \in 1..n, NEW j \in 1..n, i < j
      PROVE  <<e[i], e[j]>> \in R
  BY <1>0, <1>1, <1>3, <1>5
<1> QED BY <1>2, <1>4, <1>5

\* An interval from one has its upper bound as its size.
LEMMA IntervalSize ==
    ASSUME NEW n \in Nat
    PROVE  IsFiniteSet(1..n) /\ Cardinality(1..n) = n
<1>1. \A a, b \in Int : /\ IsFiniteSet(a..b)
                        /\ Cardinality(a..b) = IF a > b THEN 0 ELSE b - a + 1
  BY FS_Interval
<1> QED BY <1>1

(***************************************************************************)
(* The table.                                                              *)
(***************************************************************************)
Function == ToSet(Order) \X Nat

\* Every name has a rank of its own.
LEMMA Ranks ==
    /\ \A name \in ToSet(Order) : RankOf[name] \in Nat
    /\ \A m, n \in ToSet(Order) : RankOf[m] = RankOf[n] => m = n
<1>1. Order \in Seq(ToSet(Order)) /\ DOMAIN Order \subseteq Nat
  BY MetadataAssumption
<1>2. ASSUME NEW name \in ToSet(Order)
      PROVE  RankOf[name] \in DOMAIN Order /\ Order[RankOf[name]] = name
  <2>1. \E i \in DOMAIN Order : Order[i] = name
    BY DEF ToSet
  <2>2. RankOf[name] = CHOOSE i \in DOMAIN Order : Order[i] = name
    BY DEF RankOf
  <2> QED BY <2>1, <2>2
<1> QED BY <1>1, <1>2

\* The functions of a version are in a strict order.
LEMMA NamesOrder ==
    ASSUME NEW v \in Versions
    PROVE  /\ IsFiniteSet(Api[v]) /\ Api[v] \subseteq Function
           /\ IsStrictOrder(Api[v], ByName(Api[v]))
<1> DEFINE A == Api[v]
<1>1. /\ Listing(v) \in Seq(Function)
      /\ \A f, g \in A : f[1] = g[1] => f = g
  BY MetadataAssumption DEF Function
<1>2. A = ToSet(Listing(v))
  BY DEF Api
<1>3. IsFiniteSet(A) /\ A \subseteq Function
  <2>1. Len(Listing(v)) \in Nat /\ Listing(v) \in [1..Len(Listing(v)) -> Function]
    BY <1>1
  <2>2. Listing(v) \in Surjection(1..Len(Listing(v)), A)
    BY <1>2, <2>1 DEF Surjection, ToSet
  <2>3. IsFiniteSet(A)
    BY <2>1, <2>2, IntervalSize, FS_Surjection
  <2> QED BY <1>2, <2>1, <2>3 DEF ToSet
<1>4. \A f \in A : f[1] \in ToSet(Order) /\ RankOf[f[1]] \in Nat
  BY <1>3, Ranks DEF Function
<1>5. \A f, g \in A : <<f, g>> \in ByName(A) <=> RankOf[f[1]] < RankOf[g[1]]
  BY DEF ByName
<1>6. \A f, g \in A : f # g => RankOf[f[1]] # RankOf[g[1]]
  BY <1>1, <1>4, Ranks
<1> HIDE DEF A
<1>7. IsStrictOrder(A, ByName(A))
  BY <1>4, <1>5, <1>6 DEF IsStrictOrder
<1> QED BY <1>3, <1>7 DEF A

\* The table has the functions of its version, each once and sorted by name.
LEMMA TableIs ==
    ASSUME NEW v \in Versions
    PROVE  LET t == Table[v] IN
           /\ t \in Seq(Function)
           /\ \A k \in DOMAIN t : t[k] \in Api[v]
           /\ \A f \in Api[v] : \E k \in DOMAIN t : t[k] = f
           /\ \A i, j \in DOMAIN t : i < j => RankOf[t[i][1]] < RankOf[t[j][1]]
<1> DEFINE A == Api[v]
           n == Cardinality(A)
           t == Table[v]
<1>1. t = Enumerated(A, ByName(A))
  BY DEF Table
<1>2. IsFiniteSet(A) /\ A \subseteq Function /\ IsStrictOrder(A, ByName(A)) /\ n \in Nat
  BY NamesOrder, FS_CardinalityType
<1> HIDE DEF A, n, t
<1>3. LET e == Enumerated(A, ByName(A)) IN
      /\ e \in [1..Cardinality(A) -> A]
      /\ \A x \in A : \E k \in 1..Cardinality(A) : e[k] = x
      /\ \A i, j \in 1..Cardinality(A) : i < j => <<e[i], e[j]>> \in ByName(A)
  BY <1>2, EnumeratedIs
<1>4. /\ t \in [1..n -> A]
      /\ \A x \in A : \E k \in 1..n : t[k] = x
      /\ \A i, j \in 1..n : i < j => <<t[i], t[j]>> \in ByName(A)
  BY <1>1, <1>3 DEF n
<1>5. DOMAIN t = 1..n /\ t \in Seq(Function)
  BY <1>2, <1>4
<1>6. \A i, j \in 1..n : i < j => RankOf[t[i][1]] < RankOf[t[j][1]]
  BY <1>4 DEF ByName
<1> QED BY <1>4, <1>5, <1>6 DEF A, t

\* The file tells what it has been made of.
LEMMA RenderedTells ==
    ASSUME NEW v \in Versions, NEW w \in Versions
    PROVE  Rendered(v) = Rendered(w) <=>
               Api[v] = Api[w] /\ Metadata[v].release = Metadata[w].release
<1>1. Api[v] = Api[w] => Table[v] = Table[w]
  BY DEF Table
<1>2. \A x \in Versions : Api[x] = {Table[x][k] : k \in DOMAIN Table[x]}
  BY TableIs
<1>3. Rendered(v) = Rendered(w) <=>
          Metadata[v].release = Metadata[w].release /\ Table[v] = Table[w]
  BY DEF Rendered
<1> QED BY <1>1, <1>2, <1>3

(***************************************************************************)
(* A value and what is in it.                                              *)
(***************************************************************************)
All == Packed \cup Values

\* Lists and records of Nushell.
LEMMA ListsAre ==
    ASSUME NEW x \in Values
    PROVE  /\ x[1] = "list" => x[2] \in Seq(Values)
           /\ x[1] = "record" => /\ Len(x[2]) \in Nat /\ DOMAIN x[2] = 1..Len(x[2])
                                 /\ \A i \in DOMAIN x[2] : x[2][i][2] \in Values
BY ValuesAssumption

\* The values in a value are values, of a smaller depth.
LEMMA PartsAre ==
    /\ \A v \in All : Depth(v) \in Nat
    /\ \A v \in All : \A w \in Parts(v) : w \in All /\ Depth(w) < Depth(v)
    /\ \A v \in Packed : \A w \in Parts(v) : w \in Packed
    /\ \A x \in Values : \A y \in Parts(x) : y \in Values
<1>1. ASSUME NEW v \in Packed, NEW w \in Parts(v) PROVE w \in Packed
  <2>1. CASE v[1] = "array"
    <3>1. v[2] \in Seq(Packed) /\ Parts(v) = {v[2][i] : i \in DOMAIN v[2]}
      BY <2>1, ValuesAssumption DEF Parts
    <3> QED BY <3>1
  <2>2. CASE v[1] = "map"
    <3>1. /\ v[2] \in Seq(Packed \X Packed)
          /\ Parts(v) = {v[2][i][1] : i \in DOMAIN v[2]} \cup {v[2][i][2] : i \in DOMAIN v[2]}
      BY <2>2, ValuesAssumption DEF Parts
    <3>2. \A i \in DOMAIN v[2] : v[2][i] \in Packed \X Packed
      BY <3>1
    <3> QED BY <3>1, <3>2
  <2>3. v[1] \notin {"list", "record"}
    BY ValuesAssumption
  <2> QED BY <2>1, <2>2, <2>3 DEF Parts
<1>2. ASSUME NEW x \in Values, NEW y \in Parts(x) PROVE y \in Values
  <2>1. CASE x[1] = "list"
    <3>1. x[2] \in Seq(Values) /\ Parts(x) = {x[2][i] : i \in DOMAIN x[2]}
      BY <2>1, ValuesAssumption DEF Parts
    <3> QED BY <3>1
  <2>2. CASE x[1] = "record"
    <3>1. Parts(x) = {x[2][i][2] : i \in DOMAIN x[2]}
      BY <2>2 DEF Parts
    <3> QED BY <2>2, <3>1, ListsAre
  <2>3. x[1] \notin {"array", "map"}
    BY ValuesAssumption
  <2> QED BY <2>1, <2>2, <2>3 DEF Parts
<1> QED BY <1>1, <1>2, ValuesAssumption DEF All

LEMMA InsideIs == \A v \in All : Inside[v] = {v} \cup UNION {Inside[w] : w \in Parts(v)}
<1> DEFINE Step(g, v) == {v} \cup UNION {g[w] : w \in Parts(v)}
<1>0. \A v \in All : Depth(v) \in Nat
  BY PartsAre
<1>1. ASSUME NEW v \in All, NEW g, NEW h,
             \A w \in All : Depth(w) < Depth(v) => g[w] = h[w]
      PROVE  Step(g, v) = Step(h, v)
  <2>1. \A w \in Parts(v) : g[w] = h[w]
    BY <1>1, PartsAre
  <2> QED BY <2>1
<1> DEFINE Up(k) == {v \in All : Depth(v) < k}
           Good(g, k) == g = [v \in Up(k) |-> Step(g, v)]
<1> HIDE DEF Step
<1>2. ASSUME NEW k \in Nat
      PROVE  \E g : Good(g, k)
  <2> DEFINE Bad == {n \in Nat : ~\E g : Good(g, n)}
  <2> SUFFICES ASSUME Bad # {} PROVE FALSE
    OBVIOUS
  <2>1. PICK n \in Bad : \A m \in Bad : n <= m
    <3>1. Bad \subseteq Nat
      OBVIOUS
    <3> HIDE DEF Bad
    <3> QED BY <3>1, Least
  <2>2. n # 0
    <3> SUFFICES ASSUME n = 0 PROVE FALSE
      OBVIOUS
    <3>1. Up(n) = {}
      BY <1>0
    <3>2. Good(<<>>, n)
      BY <3>1
    <3> QED BY <2>1, <3>2
  <2>3. n - 1 \in Nat /\ n - 1 \notin Bad
    <3>1. n \in Nat
      BY <2>1
    <3> HIDE DEF Bad
    <3> QED BY <2>1, <2>2, <3>1
  <2>4. PICK g : Good(g, n - 1)
    BY <2>3
  <2> DEFINE h == [v \in Up(n) |-> Step(g, v)]
  <2>5. ASSUME NEW v \in Up(n) PROVE Step(g, v) = Step(h, v)
    <3>1. ASSUME NEW w \in All, Depth(w) < Depth(v) PROVE g[w] = h[w]
      <4>1. w \in Up(n - 1) /\ w \in Up(n)
        BY <1>0, <2>1, <3>1
      <4> QED BY <2>4, <4>1
    <3> QED BY <1>1, <3>1
  <2>6. Good(h, n)
    BY <2>5
  <2> QED BY <2>1, <2>6
<1>3. ASSUME NEW k \in Nat, NEW m \in Nat, k <= m, NEW g, NEW h, Good(g, k), Good(h, m),
             NEW u \in Up(k)
      PROVE  g[u] = h[u]
  <2> DEFINE Bad == {Depth(v) : v \in {v \in Up(k) : g[v] # h[v]}}
  <2> SUFFICES ASSUME Bad # {} PROVE FALSE
    OBVIOUS
  <2>1. PICK n \in Bad : \A l \in Bad : n <= l
    <3>1. Bad \subseteq Nat
      BY <1>0
    <3> HIDE DEF Bad
    <3> QED BY <3>1, Least
  <2>2. PICK v \in Up(k) : g[v] # h[v] /\ n = Depth(v)
    BY <2>1
  <2>3. ASSUME NEW w \in All, Depth(w) < Depth(v) PROVE g[w] = h[w]
    <3>1. w \in Up(k)
      BY <1>0, <2>2, <2>3
    <3> QED BY <1>0, <2>1, <2>2, <2>3, <3>1
  <2>4. Step(g, v) = Step(h, v)
    BY <1>1, <2>2, <2>3
  <2>5. v \in Up(m)
    BY <1>0, <1>3, <2>2
  <2> QED BY <1>3, <2>2, <2>4, <2>5
<1> DEFINE H(v) == CHOOSE g : Good(g, Depth(v) + 1)
           F == [v \in All |-> H(v)[v]]
<1>4. ASSUME NEW v \in All PROVE F[v] = Step(F, v)
  <2>1. \A w \in All : Depth(w) + 1 \in Nat /\ w \in Up(Depth(w) + 1)
    BY <1>0
  <2>2. ASSUME NEW w \in All PROVE Good(H(w), Depth(w) + 1)
    <3> HIDE DEF Good
    <3> QED BY <1>2, <2>1
  <2>3. ASSUME NEW w \in All, Depth(w) < Depth(v) PROVE H(v)[w] = F[w]
    <3>1. Depth(w) + 1 <= Depth(v) + 1
      BY <1>0, <2>3
    <3> HIDE DEF Good, Up, H
    <3> QED BY <1>3, <2>1, <2>2, <3>1
  <2>4. Step(H(v), v) = Step(F, v)
    <3> HIDE DEF F, H
    <3> QED BY <1>1, <2>3
  <2>5. H(v)[v] = Step(H(v), v)
    <3> HIDE DEF H
    <3> QED BY <2>1, <2>2
  <2> QED BY <2>4, <2>5
<1>5. F = [v \in All |-> Step(F, v)]
  <2> HIDE DEF H
  <2>1. F = [v \in All |-> F[v]]
    OBVIOUS
  <2> HIDE DEF F
  <2> QED BY <1>4, <2>1
<1>6. Inside = CHOOSE f : f = [v \in All |-> Step(f, v)]
  BY DEF Inside, All, Step
<1>7. Inside = [v \in All |-> Step(Inside, v)]
  BY <1>5, <1>6
<1> QED BY <1>7 DEF Step

\* What a value becomes, from what the values in it become.
LEMMA ToNuIs ==
    ASSUME NEW s \in Servers
    PROVE  \A v \in Packed : ToNu[s][v] = ValueToNu(v, s, ToNu[s])
<1> DEFINE Step(g, u) == ValueToNu(u, s, g)
<1>0. \A u \in Packed : Depth(u) \in Nat
  BY PartsAre DEF All
<1>1. ASSUME NEW u \in Packed, NEW g, NEW h,
             \A w \in Packed : Depth(w) < Depth(u) => g[w] = h[w]
      PROVE  Step(g, u) = Step(h, u)
  <2>1. \A w \in Parts(u) : g[w] = h[w]
    BY <1>1, PartsAre DEF All
  <2>2. CASE u[1] = "array"
    <3>1. \A i \in DOMAIN u[2] : u[2][i] \in Parts(u)
      BY <2>2 DEF Parts
    <3>2. Each(g, u[2]) = Each(h, u[2])
      BY <2>1, <3>1 DEF Each
    <3> QED BY <2>2, <3>2 DEF ValueToNu
  <2>3. CASE u[1] = "map"
    <3>1. \A i \in DOMAIN u[2] : u[2][i][1] \in Parts(u) /\ u[2][i][2] \in Parts(u)
      BY <2>3 DEF Parts
    <3>2. /\ [i \in DOMAIN u[2] |-> g[u[2][i][1]]] = [i \in DOMAIN u[2] |-> h[u[2][i][1]]]
          /\ [i \in DOMAIN u[2] |-> g[u[2][i][2]]] = [i \in DOMAIN u[2] |-> h[u[2][i][2]]]
      BY <2>1, <3>1
    <3>3. MapToNu(u[2], g) = MapToNu(u[2], h)
      BY ONLY <3>2 DEF MapToNu
    <3> QED BY <2>3, <3>3 DEF ValueToNu
  <2>4. CASE u[1] \notin {"array", "map"}
    BY <2>4, ValuesAssumption DEF ValueToNu
  <2> QED BY <2>2, <2>3, <2>4
<1> DEFINE Up(k) == {v \in Packed : Depth(v) < k}
           Good(g, k) == g = [v \in Up(k) |-> Step(g, v)]
<1> HIDE DEF Step
<1>2. ASSUME NEW k \in Nat
      PROVE  \E g : Good(g, k)
  <2> DEFINE Bad == {n \in Nat : ~\E g : Good(g, n)}
  <2> SUFFICES ASSUME Bad # {} PROVE FALSE
    OBVIOUS
  <2>1. PICK n \in Bad : \A m \in Bad : n <= m
    <3>1. Bad \subseteq Nat
      OBVIOUS
    <3> HIDE DEF Bad
    <3> QED BY <3>1, Least
  <2>2. n # 0
    <3> SUFFICES ASSUME n = 0 PROVE FALSE
      OBVIOUS
    <3>1. Up(n) = {}
      BY <1>0
    <3>2. Good(<<>>, n)
      BY <3>1
    <3> QED BY <2>1, <3>2
  <2>3. n - 1 \in Nat /\ n - 1 \notin Bad
    <3>1. n \in Nat
      BY <2>1
    <3> HIDE DEF Bad
    <3> QED BY <2>1, <2>2, <3>1
  <2>4. PICK g : Good(g, n - 1)
    BY <2>3
  <2> DEFINE h == [v \in Up(n) |-> Step(g, v)]
  <2>5. ASSUME NEW v \in Up(n) PROVE Step(g, v) = Step(h, v)
    <3>1. ASSUME NEW w \in Packed, Depth(w) < Depth(v) PROVE g[w] = h[w]
      <4>1. w \in Up(n - 1) /\ w \in Up(n)
        BY <1>0, <2>1, <3>1
      <4> QED BY <2>4, <4>1
    <3> QED BY <1>1, <3>1
  <2>6. Good(h, n)
    BY <2>5
  <2> QED BY <2>1, <2>6
<1>3. ASSUME NEW k \in Nat, NEW m \in Nat, k <= m, NEW g, NEW h, Good(g, k), Good(h, m),
             NEW u \in Up(k)
      PROVE  g[u] = h[u]
  <2> DEFINE Bad == {Depth(v) : v \in {v \in Up(k) : g[v] # h[v]}}
  <2> SUFFICES ASSUME Bad # {} PROVE FALSE
    OBVIOUS
  <2>1. PICK n \in Bad : \A l \in Bad : n <= l
    <3>1. Bad \subseteq Nat
      BY <1>0
    <3> HIDE DEF Bad
    <3> QED BY <3>1, Least
  <2>2. PICK v \in Up(k) : g[v] # h[v] /\ n = Depth(v)
    BY <2>1
  <2>3. ASSUME NEW w \in Packed, Depth(w) < Depth(v) PROVE g[w] = h[w]
    <3>1. w \in Up(k)
      BY <1>0, <2>2, <2>3
    <3> QED BY <1>0, <2>1, <2>2, <2>3, <3>1
  <2>4. Step(g, v) = Step(h, v)
    BY <1>1, <2>2, <2>3
  <2>5. v \in Up(m)
    BY <1>0, <1>3, <2>2
  <2> QED BY <1>3, <2>2, <2>4, <2>5
<1> DEFINE H(v) == CHOOSE g : Good(g, Depth(v) + 1)
           F == [v \in Packed |-> H(v)[v]]
<1>4. ASSUME NEW v \in Packed PROVE F[v] = Step(F, v)
  <2>1. \A w \in Packed : Depth(w) + 1 \in Nat /\ w \in Up(Depth(w) + 1)
    BY <1>0
  <2>2. ASSUME NEW w \in Packed PROVE Good(H(w), Depth(w) + 1)
    <3> HIDE DEF Good
    <3> QED BY <1>2, <2>1
  <2>3. ASSUME NEW w \in Packed, Depth(w) < Depth(v) PROVE H(v)[w] = F[w]
    <3>1. Depth(w) + 1 <= Depth(v) + 1
      BY <1>0, <2>3
    <3> HIDE DEF Good, Up, H
    <3> QED BY <1>3, <2>1, <2>2, <3>1
  <2>4. Step(H(v), v) = Step(F, v)
    <3> HIDE DEF F, H
    <3> QED BY <1>1, <2>3
  <2>5. H(v)[v] = Step(H(v), v)
    <3> HIDE DEF H
    <3> QED BY <2>1, <2>2
  <2> QED BY <2>4, <2>5
<1>5. F = [v \in Packed |-> Step(F, v)]
  <2> HIDE DEF H
  <2>1. F = [v \in Packed |-> F[v]]
    OBVIOUS
  <2> HIDE DEF F
  <2> QED BY <1>4, <2>1
<1>6. ToNu[s] = CHOOSE f : f = [u \in Packed |-> Step(f, u)]
  BY DEF ToNu, Step
<1>7. ToNu[s] = [u \in Packed |-> Step(ToNu[s], u)]
  BY <1>5, <1>6
<1> QED BY <1>7 DEF Step

\* A field of a record is in it.
LEMMA FieldIs ==
    ASSUME NEW x \in Values, x[1] = "record", NEW name, Field(x[2], name) # Missing
    PROVE  /\ Field(x[2], name) \in Parts(x) /\ Field(x[2], name) \in Values
           /\ \E i \in DOMAIN x[2] : x[2][i][1] = name /\ x[2][i][2] = Field(x[2], name)
<1> DEFINE named == {i \in DOMAIN x[2] : x[2][i][1] = name}
<1>1. named # {} /\ Field(x[2], name) = x[2][Min(named)][2]
  BY DEF Field
<1>2. Min(named) \in named
  <2>1. named \subseteq Nat
    BY ListsAre
  <2>2. \E n \in named : \A m \in named : n <= m
    <3> HIDE DEF named
    <3> QED BY <1>1, <2>1, Least
  <2>3. Min(named) = CHOOSE n \in named : \A m \in named : n <= m
    BY DEF Min
  <2> QED BY <2>2, <2>3
<1>3. \A i \in DOMAIN x[2] : x[2][i][2] \in Parts(x)
  BY DEF Parts
<1> QED BY <1>1, <1>2, <1>3, PartsAre

LEMMA FromNuIs ==
    ASSUME NEW s \in Servers
    PROVE  \A x \in Values : FromNu[s][x] = ValueFromNu(x, s, FromNu[s])
<1> DEFINE Step(g, u) == ValueFromNu(u, s, g)
<1>0. \A u \in Values : Depth(u) \in Nat
  BY PartsAre DEF All
<1>1. ASSUME NEW u \in Values, NEW g, NEW h,
             \A w \in Values : Depth(w) < Depth(u) => g[w] = h[w]
      PROVE  Step(g, u) = Step(h, u)
  <2>1. \A w \in Parts(u) : g[w] = h[w]
    BY <1>1, PartsAre DEF All
  <2>2. CASE u[1] = "list"
    <3>1. \A i \in DOMAIN u[2] : u[2][i] \in Parts(u)
      BY <2>2 DEF Parts
    <3>2. Each(g, u[2]) = Each(h, u[2])
      BY <2>1, <3>1 DEF Each
    <3> QED BY <2>2, <3>2 DEF ValueFromNu
  <2>3. CASE u[1] = "record"
    <3>1. PlainFromNu(u[2], g) = PlainFromNu(u[2], h)
      <4>1. \A i \in DOMAIN u[2] : u[2][i][2] \in Parts(u)
        BY <2>3 DEF Parts
      <4>2. [i \in DOMAIN u[2] |-> g[u[2][i][2]]] = [i \in DOMAIN u[2] |-> h[u[2][i][2]]]
        BY <2>1, <4>1
      <4> QED BY ONLY <4>2 DEF PlainFromNu
    <3>2. MapFromNu(u[2], g) = MapFromNu(u[2], h)
      <4>1. CASE ~Has(u[2], "entries", "list")
        BY <4>1 DEF MapFromNu
      <4>2. CASE Has(u[2], "entries", "list")
        <5> DEFINE list == Field(u[2], "entries")
                   entries == Content(u[2], "entries")
                   Part(name, c) == [i \in DOMAIN entries |->
                                       IF entries[i][1] = "record" /\ Field(entries[i][2], name) # Missing
                                       THEN c[Field(entries[i][2], name)] ELSE Failure]
        <5>1. list[1] = "list" /\ list # Missing /\ entries = list[2]
          <6>1. list[1] = "list" /\ entries = list[2]
            BY <4>2 DEF Has, Content
          <6>2. Missing[1] = "missing"
            BY DEF Missing
          <6> HIDE DEF list, entries
          <6> QED BY <6>1, <6>2
        <5>2. list \in Values /\ list \in Parts(u)
          BY <2>3, <5>1, FieldIs
        <5>3. \A i \in DOMAIN entries : entries[i] \in Values /\ entries[i] \in Parts(list)
          <6>1. \A i \in DOMAIN entries : entries[i] \in Parts(list)
            BY <5>1 DEF Parts
          <6> QED BY <5>2, <6>1, PartsAre
        <5>4. ASSUME NEW i \in DOMAIN entries, NEW name,
                     entries[i][1] = "record", Field(entries[i][2], name) # Missing
              PROVE  g[Field(entries[i][2], name)] = h[Field(entries[i][2], name)]
          <6> DEFINE w == Field(entries[i][2], name)
          <6>1. w \in Values /\ w \in Parts(entries[i])
            BY <5>3, <5>4, FieldIs
          <6>2. /\ Depth(w) \in Nat /\ Depth(entries[i]) \in Nat /\ Depth(list) \in Nat
                /\ Depth(u) \in Nat
                /\ Depth(w) < Depth(entries[i]) /\ Depth(entries[i]) < Depth(list)
                /\ Depth(list) < Depth(u)
            <7> HIDE DEF w, entries, list
            <7> QED BY <5>2, <5>3, <6>1, PartsAre DEF All
          <6>3. Depth(w) < Depth(u)
            <7> HIDE DEF w, entries, list
            <7> QED BY <6>2
          <6> QED BY <1>1, <6>1, <6>3
        <5>5. Part("key", g) = Part("key", h) /\ Part("value", g) = Part("value", h)
          BY <5>4
        <5>6. \A c : MapFromNu(u[2], c) =
                         IF AnyFailed(Part("key", c)) \/ AnyFailed(Part("value", c)) THEN Failure
                         ELSE <<"map", [i \in DOMAIN entries |-> <<Part("key", c)[i], Part("value", c)[i]>>]>>
          <6> SUFFICES ASSUME NEW c
                       PROVE  MapFromNu(u[2], c) =
                         IF AnyFailed(Part("key", c)) \/ AnyFailed(Part("value", c)) THEN Failure
                         ELSE <<"map", [i \in DOMAIN entries |-> <<Part("key", c)[i], Part("value", c)[i]>>]>>
            OBVIOUS
          <6>1. Has(u[2], "entries", "list")
            BY <4>2
          <6> QED BY ONLY <6>1 DEF MapFromNu
        <5>7. [i \in DOMAIN entries |-> <<Part("key", g)[i], Part("value", g)[i]>>]
                  = [i \in DOMAIN entries |-> <<Part("key", h)[i], Part("value", h)[i]>>]
          <6> HIDE DEF Part
          <6> QED BY <5>5
        <5> HIDE DEF Part, entries
        <5> QED BY <5>5, <5>6, <5>7
      <4> QED BY <4>1, <4>2
    <3>3. RecordFromNu(u[2], s, g) = RecordFromNu(u[2], s, h)
      BY <3>1, <3>2 DEF RecordFromNu
    <3> QED BY <2>3, <3>3 DEF ValueFromNu
  <2>4. CASE u[1] \notin {"list", "record"}
    BY <2>4, ValuesAssumption DEF ValueFromNu
  <2> QED BY <2>2, <2>3, <2>4
<1> DEFINE Up(k) == {v \in Values : Depth(v) < k}
           Good(g, k) == g = [v \in Up(k) |-> Step(g, v)]
<1> HIDE DEF Step
<1>2. ASSUME NEW k \in Nat
      PROVE  \E g : Good(g, k)
  <2> DEFINE Bad == {n \in Nat : ~\E g : Good(g, n)}
  <2> SUFFICES ASSUME Bad # {} PROVE FALSE
    OBVIOUS
  <2>1. PICK n \in Bad : \A m \in Bad : n <= m
    <3>1. Bad \subseteq Nat
      OBVIOUS
    <3> HIDE DEF Bad
    <3> QED BY <3>1, Least
  <2>2. n # 0
    <3> SUFFICES ASSUME n = 0 PROVE FALSE
      OBVIOUS
    <3>1. Up(n) = {}
      BY <1>0
    <3>2. Good(<<>>, n)
      BY <3>1
    <3> QED BY <2>1, <3>2
  <2>3. n - 1 \in Nat /\ n - 1 \notin Bad
    <3>1. n \in Nat
      BY <2>1
    <3> HIDE DEF Bad
    <3> QED BY <2>1, <2>2, <3>1
  <2>4. PICK g : Good(g, n - 1)
    BY <2>3
  <2> DEFINE h == [v \in Up(n) |-> Step(g, v)]
  <2>5. ASSUME NEW v \in Up(n) PROVE Step(g, v) = Step(h, v)
    <3>1. ASSUME NEW w \in Values, Depth(w) < Depth(v) PROVE g[w] = h[w]
      <4>1. w \in Up(n - 1) /\ w \in Up(n)
        BY <1>0, <2>1, <3>1
      <4> QED BY <2>4, <4>1
    <3> QED BY <1>1, <3>1
  <2>6. Good(h, n)
    BY <2>5
  <2> QED BY <2>1, <2>6
<1>3. ASSUME NEW k \in Nat, NEW m \in Nat, k <= m, NEW g, NEW h, Good(g, k), Good(h, m),
             NEW u \in Up(k)
      PROVE  g[u] = h[u]
  <2> DEFINE Bad == {Depth(v) : v \in {v \in Up(k) : g[v] # h[v]}}
  <2> SUFFICES ASSUME Bad # {} PROVE FALSE
    OBVIOUS
  <2>1. PICK n \in Bad : \A l \in Bad : n <= l
    <3>1. Bad \subseteq Nat
      BY <1>0
    <3> HIDE DEF Bad
    <3> QED BY <3>1, Least
  <2>2. PICK v \in Up(k) : g[v] # h[v] /\ n = Depth(v)
    BY <2>1
  <2>3. ASSUME NEW w \in Values, Depth(w) < Depth(v) PROVE g[w] = h[w]
    <3>1. w \in Up(k)
      BY <1>0, <2>2, <2>3
    <3> QED BY <1>0, <2>1, <2>2, <2>3, <3>1
  <2>4. Step(g, v) = Step(h, v)
    BY <1>1, <2>2, <2>3
  <2>5. v \in Up(m)
    BY <1>0, <1>3, <2>2
  <2> QED BY <1>3, <2>2, <2>4, <2>5
<1> DEFINE H(v) == CHOOSE g : Good(g, Depth(v) + 1)
           F == [v \in Values |-> H(v)[v]]
<1>4. ASSUME NEW v \in Values PROVE F[v] = Step(F, v)
  <2>1. \A w \in Values : Depth(w) + 1 \in Nat /\ w \in Up(Depth(w) + 1)
    BY <1>0
  <2>2. ASSUME NEW w \in Values PROVE Good(H(w), Depth(w) + 1)
    <3> HIDE DEF Good
    <3> QED BY <1>2, <2>1
  <2>3. ASSUME NEW w \in Values, Depth(w) < Depth(v) PROVE H(v)[w] = F[w]
    <3>1. Depth(w) + 1 <= Depth(v) + 1
      BY <1>0, <2>3
    <3> HIDE DEF Good, Up, H
    <3> QED BY <1>3, <2>1, <2>2, <3>1
  <2>4. Step(H(v), v) = Step(F, v)
    <3> HIDE DEF F, H
    <3> QED BY <1>1, <2>3
  <2>5. H(v)[v] = Step(H(v), v)
    <3> HIDE DEF H
    <3> QED BY <2>1, <2>2
  <2> QED BY <2>4, <2>5
<1>5. F = [v \in Values |-> Step(F, v)]
  <2> HIDE DEF H
  <2>1. F = [v \in Values |-> F[v]]
    OBVIOUS
  <2> HIDE DEF F
  <2> QED BY <1>4, <2>1
<1>6. FromNu[s] = CHOOSE f : f = [u \in Values |-> Step(f, u)]
  BY DEF FromNu, Step
<1>7. FromNu[s] = [u \in Values |-> Step(FromNu[s], u)]
  BY <1>5, <1>6
<1> QED BY <1>7 DEF Step

(***************************************************************************)
(* The search.                                                             *)
(***************************************************************************)
Ranges == (Nat \ {0}) \X Nat
Size(range) == IF range[1] > range[2] THEN 0 ELSE range[2] - range[1] + 1
Middle(range) == (range[1] + range[2]) \div 2
Halved(table, name, g, range) ==
    IF range[1] > range[2] THEN 0
    ELSE IF RankOf[table[Middle(range)][1]] = RankOf[name] THEN Middle(range)
    ELSE IF RankOf[table[Middle(range)][1]] < RankOf[name] THEN g[<<Middle(range) + 1, range[2]>>]
    ELSE g[<<range[1], Middle(range) - 1>>]

\* Both parts of a range are smaller.
LEMMA Halves ==
    ASSUME NEW r \in Ranges, r[1] <= r[2]
    PROVE  /\ Size(r) \in Nat /\ Middle(r) \in r[1]..r[2]
           /\ <<Middle(r) + 1, r[2]>> \in Ranges /\ Size(<<Middle(r) + 1, r[2]>>) < Size(r)
           /\ <<r[1], Middle(r) - 1>> \in Ranges /\ Size(<<r[1], Middle(r) - 1>>) < Size(r)
<1> DEFINE lo == r[1]
           hi == r[2]
<1>1. lo \in Nat \ {0} /\ hi \in Nat /\ lo <= hi
  BY DEF Ranges
<1>2. Middle(r) = (lo + hi) \div 2
  BY DEF Middle
<1> HIDE DEF lo, hi
<1>3. Middle(r) \in lo..hi
  BY <1>1, <1>2
<1>4. Size(r) = hi - lo + 1
  BY <1>1 DEF Size, lo, hi
<1>5. Size(<<Middle(r) + 1, hi>>) = IF Middle(r) + 1 > hi THEN 0 ELSE hi - (Middle(r) + 1) + 1
  BY DEF Size
<1>6. Size(<<lo, Middle(r) - 1>>) = IF lo > Middle(r) - 1 THEN 0 ELSE Middle(r) - 1 - lo + 1
  BY DEF Size
<1>7. <<Middle(r) + 1, hi>> \in Ranges /\ <<lo, Middle(r) - 1>> \in Ranges
  BY <1>1, <1>3 DEF Ranges
<1>8. Size(<<Middle(r) + 1, hi>>) < Size(r) /\ Size(<<lo, Middle(r) - 1>>) < Size(r)
      /\ Size(r) \in Nat
  BY <1>1, <1>3, <1>4, <1>5, <1>6
<1> QED BY <1>3, <1>7, <1>8 DEF lo, hi

\* The search goes on in one of the halves.
LEMMA SearchHalves ==
    ASSUME NEW t, NEW name
    PROVE  \E f : /\ Search(t, name) = f[<<1, Len(t)>>]
                  /\ \A r \in Ranges : f[r] = Halved(t, name, f, r)
<1> DEFINE Step(g, v) == Halved(t, name, g, v)
<1>0. \A v \in Ranges : Size(v) \in Nat
  BY DEF Ranges, Size
<1>1. ASSUME NEW v \in Ranges, NEW g, NEW h,
             \A w \in Ranges : Size(w) < Size(v) => g[w] = h[w]
      PROVE  Step(g, v) = Step(h, v)
  <2>1. CASE v[1] > v[2]
    BY <2>1 DEF Halved
  <2>2. CASE v[1] <= v[2]
    <3>1. /\ g[<<Middle(v) + 1, v[2]>>] = h[<<Middle(v) + 1, v[2]>>]
          /\ g[<<v[1], Middle(v) - 1>>] = h[<<v[1], Middle(v) - 1>>]
      BY <1>1, <2>2, Halves
    <3> QED BY <3>1 DEF Halved
  <2>3. v[1] \in Nat /\ v[2] \in Nat
    BY DEF Ranges
  <2> QED BY <2>1, <2>2, <2>3
<1> DEFINE Up(k) == {v \in Ranges : Size(v) < k}
           Good(g, k) == g = [v \in Up(k) |-> Step(g, v)]
<1> HIDE DEF Step
<1>2. ASSUME NEW k \in Nat
      PROVE  \E g : Good(g, k)
  <2> DEFINE Bad == {n \in Nat : ~\E g : Good(g, n)}
  <2> SUFFICES ASSUME Bad # {} PROVE FALSE
    OBVIOUS
  <2>1. PICK n \in Bad : \A m \in Bad : n <= m
    <3>1. Bad \subseteq Nat
      OBVIOUS
    <3> HIDE DEF Bad
    <3> QED BY <3>1, Least
  <2>2. n # 0
    <3> SUFFICES ASSUME n = 0 PROVE FALSE
      OBVIOUS
    <3>1. Up(n) = {}
      BY <1>0
    <3>2. Good(<<>>, n)
      BY <3>1
    <3> QED BY <2>1, <3>2
  <2>3. n - 1 \in Nat /\ n - 1 \notin Bad
    <3>1. n \in Nat
      BY <2>1
    <3> HIDE DEF Bad
    <3> QED BY <2>1, <2>2, <3>1
  <2>4. PICK g : Good(g, n - 1)
    BY <2>3
  <2> DEFINE h == [v \in Up(n) |-> Step(g, v)]
  <2>5. ASSUME NEW v \in Up(n) PROVE Step(g, v) = Step(h, v)
    <3>1. ASSUME NEW w \in Ranges, Size(w) < Size(v) PROVE g[w] = h[w]
      <4>1. w \in Up(n - 1) /\ w \in Up(n)
        BY <1>0, <2>1, <3>1
      <4> QED BY <2>4, <4>1
    <3> QED BY <1>1, <3>1
  <2>6. Good(h, n)
    BY <2>5
  <2> QED BY <2>1, <2>6
<1>3. ASSUME NEW k \in Nat, NEW m \in Nat, k <= m, NEW g, NEW h, Good(g, k), Good(h, m),
             NEW u \in Up(k)
      PROVE  g[u] = h[u]
  <2> DEFINE Bad == {Size(v) : v \in {v \in Up(k) : g[v] # h[v]}}
  <2> SUFFICES ASSUME Bad # {} PROVE FALSE
    OBVIOUS
  <2>1. PICK n \in Bad : \A l \in Bad : n <= l
    <3>1. Bad \subseteq Nat
      BY <1>0
    <3> HIDE DEF Bad
    <3> QED BY <3>1, Least
  <2>2. PICK v \in Up(k) : g[v] # h[v] /\ n = Size(v)
    BY <2>1
  <2>3. ASSUME NEW w \in Ranges, Size(w) < Size(v) PROVE g[w] = h[w]
    <3>1. w \in Up(k)
      BY <1>0, <2>2, <2>3
    <3> QED BY <1>0, <2>1, <2>2, <2>3, <3>1
  <2>4. Step(g, v) = Step(h, v)
    BY <1>1, <2>2, <2>3
  <2>5. v \in Up(m)
    BY <1>0, <1>3, <2>2
  <2> QED BY <1>3, <2>2, <2>4, <2>5
<1> DEFINE H(v) == CHOOSE g : Good(g, Size(v) + 1)
           F == [v \in Ranges |-> H(v)[v]]
<1>4. ASSUME NEW v \in Ranges PROVE F[v] = Step(F, v)
  <2>1. \A w \in Ranges : Size(w) + 1 \in Nat /\ w \in Up(Size(w) + 1)
    BY <1>0
  <2>2. ASSUME NEW w \in Ranges PROVE Good(H(w), Size(w) + 1)
    <3> HIDE DEF Good
    <3> QED BY <1>2, <2>1
  <2>3. ASSUME NEW w \in Ranges, Size(w) < Size(v) PROVE H(v)[w] = F[w]
    <3>1. Size(w) + 1 <= Size(v) + 1
      BY <1>0, <2>3
    <3> HIDE DEF Good, Up, H
    <3> QED BY <1>3, <2>1, <2>2, <3>1
  <2>4. Step(H(v), v) = Step(F, v)
    <3> HIDE DEF F, H
    <3> QED BY <1>1, <2>3
  <2>5. H(v)[v] = Step(H(v), v)
    <3> HIDE DEF H
    <3> QED BY <2>1, <2>2
  <2> QED BY <2>4, <2>5
<1>5. F = [v \in Ranges |-> Step(F, v)]
  <2> HIDE DEF H
  <2>1. F = [v \in Ranges |-> F[v]]
    OBVIOUS
  <2> HIDE DEF F
  <2> QED BY <1>4, <2>1
<1> DEFINE W == CHOOSE f : f = [v \in Ranges |-> Step(f, v)]
<1>6. W = [v \in Ranges |-> Step(W, v)]
  <2> HIDE DEF F
  <2> QED BY <1>5
<1>7. Search(t, name) = W[<<1, Len(t)>>]
  BY DEF Search, Ranges, Halved, Middle, Step
<1> HIDE DEF W
<1>8. \A r \in Ranges : W[r] = Halved(t, name, W, r)
  BY <1>6 DEF Step
<1> QED BY <1>7, <1>8

\* In a sorted table it finds a name if and only if it is there.
LEMMA SearchIs ==
    ASSUME NEW t \in Seq(Function), NEW name \in ToSet(Order),
           \A i, j \in DOMAIN t : i < j => RankOf[t[i][1]] < RankOf[t[j][1]]
    PROVE  LET k == Search(t, name) IN
           /\ k # 0 => k \in DOMAIN t /\ t[k][1] = name
           /\ k = 0 => \A j \in DOMAIN t : t[j][1] # name
<1>1. PICK f : /\ Search(t, name) = f[<<1, Len(t)>>]
               /\ \A r \in Ranges : f[r] = Halved(t, name, f, r)
  BY SearchHalves
<1>2. Len(t) \in Nat /\ DOMAIN t = 1..Len(t) /\ \A i \in DOMAIN t : t[i][1] \in ToSet(Order)
  BY DEF Function
<1> DEFINE Rk(i) == RankOf[t[i][1]]
           Right(r) ==
               /\ f[r] # 0 => f[r] \in r[1]..r[2] /\ t[f[r]][1] = name
               /\ f[r] = 0 => \A j \in r[1]..r[2] : t[j][1] # name
           Inner == {r \in Ranges : r[2] <= Len(t)}
<1>3. /\ \A i \in DOMAIN t : Rk(i) \in Nat /\ (Rk(i) = RankOf[name] <=> t[i][1] = name)
      /\ RankOf[name] \in Nat
  BY <1>2, Ranks
<1>4. \A i, j \in DOMAIN t : i < j => Rk(i) < Rk(j)
  OBVIOUS
<1>5. \A r \in Inner : Right(r)
  <2> DEFINE Bad == {Size(r) : r \in {r \in Inner : ~Right(r)}}
  <2> SUFFICES ASSUME Bad # {} PROVE FALSE
    OBVIOUS
  <2>1. PICK n \in Bad : \A l \in Bad : n <= l
    <3>1. Bad \subseteq Nat
      BY DEF Size, Ranges
    <3> HIDE DEF Bad
    <3> QED BY <3>1, Least
  <2>2. PICK r \in Inner : ~Right(r) /\ n = Size(r)
    BY <2>1
  <2> DEFINE lo == r[1]
             hi == r[2]
             mid == Middle(r)
  <2>3. lo \in Nat \ {0} /\ hi \in Nat /\ hi <= Len(t) /\ r \in Ranges
    BY DEF Ranges
  <2>4. f[r] = Halved(t, name, f, r)
    BY <1>1, <2>3
  <2>5. lo <= hi
    <3> SUFFICES ASSUME lo > hi PROVE FALSE
      BY <2>3
    <3>1. f[r] = 0
      BY <2>4 DEF Halved
    <3>2. lo..hi = {}
      BY <2>3
    <3> QED BY <2>2, <3>1, <3>2
  <2>6. /\ mid \in lo..hi
        /\ <<mid + 1, hi>> \in Ranges /\ Size(<<mid + 1, hi>>) < Size(r)
        /\ <<lo, mid - 1>> \in Ranges /\ Size(<<lo, mid - 1>>) < Size(r)
        /\ Size(r) \in Nat
    BY <2>3, <2>5, Halves
  <2>7. f[r] = IF Rk(mid) = RankOf[name] THEN mid
               ELSE IF Rk(mid) < RankOf[name] THEN f[<<mid + 1, hi>>] ELSE f[<<lo, mid - 1>>]
    BY <2>3, <2>4, <2>5 DEF Halved
  <2>8. mid \in DOMAIN t /\ mid \in Nat
    BY <1>2, <2>3, <2>6
  <2>9. ASSUME NEW q \in Ranges, Size(q) < Size(r), q[2] <= Len(t)
        PROVE  Right(q)
    <3>1. Size(q) \in Nat
      BY DEF Size, Ranges
    <3>2. Size(q) \notin Bad
      <4> HIDE DEF Bad, Right, Inner
      <4> QED BY <2>1, <2>2, <2>6, <2>9, <3>1
    <3> QED BY <2>9, <3>2
  <2> HIDE DEF lo, hi, mid, Rk
  <2>10. CASE Rk(mid) = RankOf[name]
    BY <1>3, <2>2, <2>3, <2>6, <2>7, <2>8, <2>10 DEF lo, hi
  <2>11. CASE Rk(mid) < RankOf[name]
    <3> DEFINE q == <<mid + 1, hi>>
    <3>1. f[r] = f[q]
      BY <1>3, <2>7, <2>8, <2>11
    <3>2. q \in Ranges /\ q[1] = mid + 1 /\ q[2] = hi /\ Size(q) < Size(r)
      BY <2>6
    <3>3. Right(q)
      BY <2>3, <2>9, <3>2
    <3>4. /\ f[q] # 0 => f[q] \in (mid + 1)..hi /\ t[f[q]][1] = name
          /\ f[q] = 0 => \A j \in (mid + 1)..hi : t[j][1] # name
      BY <3>2, <3>3
    <3> HIDE DEF q
    <3>5. \A j \in lo..mid : t[j][1] # name
      <4> SUFFICES ASSUME NEW j \in lo..mid, t[j][1] = name PROVE FALSE
        OBVIOUS
      <4>1. j \in DOMAIN t /\ j <= mid
        BY <1>2, <2>3, <2>6, <2>8
      <4>2. Rk(j) = RankOf[name] /\ Rk(j) \in Nat /\ Rk(mid) \in Nat /\ RankOf[name] \in Nat
        BY <1>3, <2>8, <4>1
      <4>3. j < mid
        BY <2>8, <2>11, <4>1, <4>2, <1>2
      <4> QED BY <1>4, <2>8, <2>11, <4>1, <4>2, <4>3
    <3>6. \A j \in lo..hi : j \in lo..mid \/ j \in (mid + 1)..hi
      BY <2>3, <2>6, <2>8
    <3>7. f[r] # 0 => f[r] \in lo..hi /\ t[f[r]][1] = name
      BY <2>3, <2>6, <2>8, <3>1, <3>4
    <3>8. f[r] = 0 => \A j \in lo..hi : t[j][1] # name
      BY <3>1, <3>4, <3>5, <3>6
    <3> QED BY <2>2, <3>7, <3>8 DEF lo, hi
  <2>12. CASE Rk(mid) > RankOf[name]
    <3> DEFINE q == <<lo, mid - 1>>
    <3>1. f[r] = f[q]
      BY <1>3, <2>7, <2>8, <2>12
    <3>2. q \in Ranges /\ q[1] = lo /\ q[2] = mid - 1 /\ Size(q) < Size(r)
      BY <2>6
    <3>3. Right(q)
      BY <2>3, <2>6, <2>8, <2>9, <3>2
    <3>4. /\ f[q] # 0 => f[q] \in lo..(mid - 1) /\ t[f[q]][1] = name
          /\ f[q] = 0 => \A j \in lo..(mid - 1) : t[j][1] # name
      BY <3>2, <3>3
    <3> HIDE DEF q
    <3>5. \A j \in mid..hi : t[j][1] # name
      <4> SUFFICES ASSUME NEW j \in mid..hi, t[j][1] = name PROVE FALSE
        OBVIOUS
      <4>1. j \in DOMAIN t /\ mid <= j
        BY <1>2, <2>3, <2>6, <2>8
      <4>2. Rk(j) = RankOf[name] /\ Rk(j) \in Nat /\ Rk(mid) \in Nat /\ RankOf[name] \in Nat
        BY <1>3, <2>8, <4>1
      <4>3. mid < j
        BY <2>8, <2>12, <4>1, <4>2, <1>2
      <4> QED BY <1>4, <2>8, <2>12, <4>1, <4>2, <4>3
    <3>6. \A j \in lo..hi : j \in mid..hi \/ j \in lo..(mid - 1)
      BY <2>3, <2>6, <2>8
    <3>7. f[r] # 0 => f[r] \in lo..hi /\ t[f[r]][1] = name
      BY <2>3, <2>6, <2>8, <3>1, <3>4
    <3>8. f[r] = 0 => \A j \in lo..hi : t[j][1] # name
      BY <3>1, <3>4, <3>5, <3>6
    <3> QED BY <2>2, <3>7, <3>8 DEF lo, hi
  <2>13. Rk(mid) \in Nat
    BY <1>3, <2>8
  <2> QED BY <1>3, <2>10, <2>11, <2>12, <2>13
<1>6. <<1, Len(t)>> \in Inner
  BY <1>2 DEF Ranges
<1>7. Right(<<1, Len(t)>>)
  BY <1>5, <1>6
<1> QED BY <1>1, <1>2, <1>7

\* The plugin knows a function, with its number of parameters, if and only if it
\* is one of the version the plugin has been built for.
LEMMA KnownIs ==
    ASSUME file \in Versions, NEW name \in ToSet(Order), NEW n
    PROVE  <<name, n>> \in Api[file] <=> Known(name) /\ n = Arity(name)
<1> DEFINE t == Table[file]
           k == Search(t, name)
<1>1. /\ t \in Seq(Function)
      /\ \A i \in DOMAIN t : t[i] \in Api[file] /\ t[i] = <<t[i][1], t[i][2]>>
      /\ \A f \in Api[file] : \E i \in DOMAIN t : t[i] = f
      /\ \A i, j \in DOMAIN t : i < j => RankOf[t[i][1]] < RankOf[t[j][1]]
  BY TableIs, NamesOrder DEF Function
<1> HIDE DEF t
<1>2. /\ k # 0 => k \in DOMAIN t /\ t[k][1] = name
      /\ k = 0 => \A j \in DOMAIN t : t[j][1] # name
  BY <1>1, SearchIs
<1>3. \A f, g \in Api[file] : f[1] = g[1] => f = g
  BY MetadataAssumption
<1>4. (Known(name) <=> k # 0) /\ Arity(name) = t[k][2]
  BY DEF Known, Arity, t
<1> HIDE DEF k
<1>5. ASSUME <<name, n>> \in Api[file] PROVE k # 0 /\ n = t[k][2]
  <2>1. PICK j \in DOMAIN t : t[j] = <<name, n>>
    BY <1>1, <1>5
  <2>2. k # 0
    BY <1>2, <2>1
  <2>3. t[k] \in Api[file] /\ t[k][1] = name
    BY <1>1, <1>2, <2>2
  <2>4. t[k] = <<name, n>>
    BY <1>3, <1>5, <2>3
  <2> QED BY <2>2, <2>4
<1>6. ASSUME k # 0, n = t[k][2] PROVE <<name, n>> \in Api[file]
  BY <1>1, <1>2, <1>6
<1> QED BY <1>4, <1>5, <1>6

(***************************************************************************)
(* The inductive invariant.                                                *)
(***************************************************************************)

\* Nothing has been built, asked or answered.
LEMMA Start == Init => IInv
<1> SUFFICES ASSUME Init PROVE IInv
  OBVIOUS
<1> USE DEF Init, CodegenInit, Unchecked
<1>1. TypeOK
  <2>1. CodegenTypeOK
    BY DEF CodegenTypeOK
  <2>2. running \in [Servers -> Versions]
    OBVIOUS
  <2>3. held \in [value : Values, from : Servers \cup {"none"}, was : Packed]
    BY CallAssumption DEF NoResult
  <2>4. <<>> \in Seq(Values) /\ <<>> \in Seq(Packed)
    OBVIOUS
  <2>5. command \in [kind : {"none", "call", "lua", "typed"},
                     method : Methods \cup {f[1] : f \in Used} \cup {"none"},
                     server : Servers \cup {"none"}, args : Seq(Values), sent : Seq(Packed),
                     answer : Packed, phase : Phases]
    BY <2>4, CallAssumption DEF Idle, Phases
  <2> QED BY <2>1, <2>2, <2>3, <2>5 DEF TypeOK
<1>2. Built /\ CheckIsParity
  BY DEF Built, CheckIsParity
<1>3. /\ command.phase = "idle" /\ command.args = <<>> /\ command.sent = <<>>
      /\ held.from = "none" /\ held = NoResult
  BY DEF Idle, NoResult
<1>4. DOMAIN command.args = {}
  BY <1>3
<1>5. Issued
  BY <1>3 DEF Issued
<1>6. Holds /\ Carried
  BY <1>3, <1>4 DEF Holds, Carried
<1> QED BY <1>1, <1>2, <1>5, <1>6 DEF IInv

\* While a file can be generated and checked no command runs.
LEMMA CodegenKeeps ==
    ASSUME IInv, CodegenNext, UNCHANGED <<running, held, command>>
    PROVE  IInv'
<1> USE DEF IInv
<1>1. ~shipped /\ command.phase = "idle"
  BY DEF CodegenNext, Installs, Generates, Checks, Ships, Issued
<1>2. TypeOK'
  <2>1. CodegenTypeOK'
    <3>1. ASSUME NEW v \in Versions, Installs(v) PROVE CodegenTypeOK'
      BY <3>1 DEF TypeOK, CodegenTypeOK, Installs
    <3>2. ASSUME Generates PROVE CodegenTypeOK'
      BY <3>2 DEF TypeOK, CodegenTypeOK, Generates, Unchecked
    <3>3. ASSUME Checks PROVE CodegenTypeOK'
      <4> DEFINE fresh == /\ Parses(installed) /\ file \in Versions
                          /\ Rendered(file) = Rendered(installed)
      <4>1. verdict' = [against |-> installed, fresh |-> fresh]
        BY <3>3 DEF Checks
      <4>2. fresh \in BOOLEAN
        OBVIOUS
      <4> HIDE DEF fresh
      <4> QED BY <3>3, <4>1, <4>2 DEF TypeOK, CodegenTypeOK, Checks
    <3>4. ASSUME Ships PROVE CodegenTypeOK'
      BY <3>4 DEF TypeOK, CodegenTypeOK, Ships
    <3> QED BY <3>1, <3>2, <3>3, <3>4 DEF CodegenNext
  <2> QED BY <2>1 DEF TypeOK
<1>3. Built'
  <2>1. (shipped => file \in Versions /\ Used \subseteq Api[file])'
    BY <1>1 DEF CodegenNext, Installs, Generates, Checks, Ships
  <2>2. (verdict.against = "none" => ~verdict.fresh)'
    BY DEF Built, CodegenNext, Installs, Generates, Checks, Ships, Unchecked
  <2> QED BY <2>1, <2>2 DEF Built
<1>4. CheckIsParity'
  <2>1. ASSUME NEW v \in Versions, Installs(v) PROVE CheckIsParity'
    BY <2>1 DEF CheckIsParity, Installs, Parses
  <2>2. ASSUME Generates PROVE CheckIsParity'
    BY <2>2 DEF CheckIsParity, Generates, Unchecked
  <2>3. ASSUME Checks PROVE CheckIsParity'
    <3> DEFINE fresh == /\ Parses(installed) /\ file \in Versions
                        /\ Rendered(file) = Rendered(installed)
    <3>1. verdict' = [against |-> installed, fresh |-> fresh] /\ file' = file
      BY <2>3 DEF Checks
    <3>2. installed \in Versions
      BY <2>3 DEF Checks, TypeOK, CodegenTypeOK
    <3>3. fresh <=> /\ Parses(installed) /\ file \in Versions
                    /\ Api[file] = Api[installed]
                    /\ Metadata[file].release = Metadata[installed].release
      BY <3>2, RenderedTells
    <3> HIDE DEF fresh
    <3>4. verdict'.against = installed /\ (verdict'.fresh <=> fresh)
      BY <3>1
    <3> QED BY <3>1, <3>3, <3>4 DEF CheckIsParity, Parses
  <2>4. ASSUME Ships PROVE CheckIsParity'
    BY <2>4 DEF CheckIsParity, Ships, Parses
  <2> QED BY <2>1, <2>2, <2>3, <2>4 DEF CodegenNext
<1>5. Issued' /\ Holds' /\ Carried'
  BY <1>1 DEF Issued, Holds, Carried
<1> QED BY <1>2, <1>3, <1>4, <1>5

\* What the user gives are the words and what is held, or in it.
LEMMA GivenAre ==
    ASSUME IInv, NEW p \in Positional, NEW input \in {Nothing, held.value}
    PROVE  LET args == Appended(p, input) IN
           /\ args \in Seq(Values)
           /\ \A i \in DOMAIN args : args[i] \in Literals \cup {Nothing} \cup Inside[held.value]
<1> DEFINE Words == Literals \cup {Nothing} \cup Inside[held.value]
<1>1. held.value \in Values /\ Literals \cup {Nothing} \subseteq Values
  BY CallAssumption DEF IInv, TypeOK
<1>2. held.value \in Words /\ \A w \in Parts(held.value) : w \in Words
  <2>1. held.value \in All
    BY <1>1 DEF All
  <2>2. Inside[held.value] = {held.value} \cup UNION {Inside[w] : w \in Parts(held.value)}
    BY <2>1, InsideIs
  <2>3. \A w \in Parts(held.value) : w \in Inside[w]
    BY <2>1, InsideIs, PartsAre
  <2> QED BY <2>2, <2>3
<1> HIDE DEF Words
<1>3. Literals \subseteq Words
  BY DEF Words
<1>4. p \in Seq(Values) /\ \A i \in DOMAIN p : p[i] \in Words
  <2>1. CASE p = <<>>
    BY <2>1
  <2>2. ASSUME NEW a \in Given, p = <<a>>
        PROVE  p \in Seq(Values) /\ \A i \in DOMAIN p : p[i] \in Words
    BY <1>1, <1>2, <1>3, <2>2 DEF Given
  <2>3. ASSUME NEW a \in Literals, p = <<a, held.value>>
        PROVE  p \in Seq(Values) /\ \A i \in DOMAIN p : p[i] \in Words
    BY <1>1, <1>2, <1>3, <2>3
  <2> QED BY <2>1, <2>2, <2>3 DEF Positional
<1>5. CASE input = Nothing
  BY <1>4, <1>5 DEF Appended, Words
<1>6. CASE input # Nothing /\ p = <<>> /\ input[1] = "list"
  <2>1. input = held.value /\ Appended(p, input) = input[2]
    BY <1>6 DEF Appended
  <2>2. input[2] \in Seq(Values) /\ \A i \in DOMAIN input[2] : input[2][i] \in Parts(input)
    BY <1>1, <1>6, <2>1, ListsAre DEF Parts
  <2> QED BY <1>2, <2>1, <2>2 DEF Words
<1>7. CASE input # Nothing /\ ~(p = <<>> /\ input[1] = "list")
  <2>1. input = held.value /\ Appended(p, input) = Append(p, input)
    BY <1>7 DEF Appended
  <2>2. Append(p, input) \in Seq(Values)
    BY <1>1, <1>4, <2>1
  <2>3. ASSUME NEW i \in DOMAIN Append(p, input) PROVE Append(p, input)[i] \in Words
    <3>1. Len(p) \in Nat /\ DOMAIN Append(p, input) = 1..(Len(p) + 1) /\ DOMAIN p = 1..Len(p)
      BY <1>1, <1>4, <2>1
    <3>2. CASE i = Len(p) + 1
      BY <1>1, <1>2, <1>4, <2>1, <3>2
    <3>3. CASE i # Len(p) + 1
      <4>1. i \in DOMAIN p
        BY <3>1, <3>3
      <4>2. Append(p, input)[i] = p[i]
        BY <1>1, <1>4, <2>1, <3>1, <4>1
      <4> QED BY <1>4, <4>1, <4>2
    <3> QED BY <3>2, <3>3
  <2> QED BY <2>1, <2>2, <2>3 DEF Words
<1> QED BY <1>5, <1>6, <1>7

\* A command begins with what the table says of it.
LEMMA BeginKeeps ==
    ASSUME IInv, NEW kind \in {"call", "lua", "typed"}, NEW method, NEW server \in Servers, NEW args,
           NEW phase \in {"unknown", "arity", "checked"},
           method \in Methods \cup {f[1] : f \in Used}, args \in Seq(Values),
           \A i \in DOMAIN args : args[i] \in Literals \cup {Nothing} \cup Inside[held.value],
           phase = "checked" => <<method, IF kind = "lua" THEN 2 ELSE Len(args)>> \in Api[file],
           phase # "checked" => <<method, Len(args)>> \notin Api[file],
           Begins(kind, method, server, args, phase)
    PROVE  IInv'
<1> USE DEF IInv
<1>1. command' = [kind |-> kind, method |-> method, server |-> server, args |-> args,
                  sent |-> <<>>, answer |-> <<"nil", "">>, phase |-> phase]
  BY DEF Begins, Idle
<1>2. shipped /\ UNCHANGED <<installed, file, verdict, shipped, running, held>>
  BY DEF Begins, codegenVars
<1>3. TypeOK'
  <2>1. <<>> \in Seq(Packed) /\ <<"nil", "">> \in Packed
    <3>1. <<>> \in Seq(Packed)
      OBVIOUS
    <3> QED BY <3>1, CallAssumption
  <2>2. CodegenTypeOK'
    BY <1>2 DEF TypeOK, CodegenTypeOK
  <2> QED BY <1>1, <1>2, <2>1, <2>2 DEF TypeOK, Phases
<1>4. Built' /\ CheckIsParity'
  BY <1>2 DEF Built, CheckIsParity, Parses
<1>5. Issued' /\ Holds' /\ Carried'
  <2>1. Issued'
    BY <1>1, <1>2 DEF Issued
  <2>2. Holds'
    BY <1>2 DEF Holds
  <2>3. Carried'
    BY <1>1, <1>2 DEF Carried
  <2> QED BY <2>1, <2>2, <2>3
<1> QED BY <1>3, <1>4, <1>5

LEMMA CallKeeps ==
    ASSUME IInv, NEW server \in Servers, NEW p \in Positional, NEW input \in {Nothing, held.value},
           NEW method \in Methods, Calls(method, server, Appended(p, input))
    PROVE  IInv'
<1> DEFINE args == Appended(p, input)
           phase == IF ~Known(method) THEN "unknown"
                    ELSE IF Len(args) # Arity(method) THEN "arity" ELSE "checked"
<1>1. /\ args \in Seq(Values)
      /\ \A i \in DOMAIN args : args[i] \in Literals \cup {Nothing} \cup Inside[held.value]
  BY GivenAre
<1> HIDE DEF args
<1>2. Begins("call", method, server, args, phase)
  BY DEF Calls, args
<1>3. file \in Versions
  BY <1>2 DEF Begins, IInv, Built
<1>4. method \in ToSet(Order)
  BY CallAssumption
<1>5. <<method, Len(args)>> \in Api[file] <=> phase = "checked"
  BY <1>3, <1>4, KnownIs
<1>6. phase \in {"unknown", "arity", "checked"}
  OBVIOUS
<1> HIDE DEF phase
<1> QED BY <1>1, <1>2, <1>5, <1>6, BeginKeeps

LEMMA EvaluateKeeps ==
    ASSUME IInv, NEW server \in Servers, NEW p \in Positional, NEW input \in {Nothing, held.value},
           Evaluates(server, Appended(p, input))
    PROVE  IInv'
<1> DEFINE args == Appended(p, input)
<1>1. /\ args \in Seq(Values)
      /\ \A i \in DOMAIN args : args[i] \in Literals \cup {Nothing} \cup Inside[held.value]
  BY GivenAre
<1> HIDE DEF args
<1>2. Begins("lua", "nvim_exec_lua", server, args, "checked")
  BY DEF Evaluates, args
<1>3. <<"nvim_exec_lua", 2>> \in Api[file]
  BY <1>2, CallAssumption DEF Begins, IInv, Built
<1>4. "nvim_exec_lua" \in {f[1] : f \in Used}
  <2> DEFINE f == <<"nvim_exec_lua", 2>>
  <2>1. f \in Used /\ f[1] = "nvim_exec_lua"
    BY CallAssumption
  <2> HIDE DEF f
  <2> QED BY <2>1
<1> QED BY <1>1, <1>2, <1>3, <1>4, BeginKeeps

LEMMA MethodKeeps ==
    ASSUME IInv, NEW server \in Servers, NEW function \in Used, CallsMethod(function, server)
    PROVE  IInv'
<1> DEFINE args == [i \in 1..function[2] |-> Nothing]
<1>1. Begins("typed", function[1], server, args, "checked")
  BY DEF CallsMethod
<1>2. file \in Versions /\ function \in Api[file]
  BY <1>1 DEF Begins, IInv, Built
<1>3. function = <<function[1], function[2]>> /\ function[2] \in Nat
  BY <1>2, NamesOrder DEF Function
<1>4. args \in Seq(Values) /\ Len(args) = function[2] /\ \A i \in DOMAIN args : args[i] = Nothing
  <2>1. Nothing \in Values
    BY CallAssumption
  <2> HIDE DEF Nothing
  <2>2. args \in [1..function[2] -> Values]
    BY <2>1
  <2>3. args \in Seq(Values)
    BY <1>3, <2>2
  <2>4. Len(args) = function[2]
    BY <1>3
  <2> QED BY <2>3, <2>4
<1> HIDE DEF args
<1>5. function[1] \in {f[1] : f \in Used} /\ <<function[1], Len(args)>> \in Api[file]
  BY <1>2, <1>3, <1>4
<1> QED BY <1>1, <1>4, <1>5, BeginKeeps

\* What is sent has the places of the arguments.
LEMMA EachIs ==
    ASSUME NEW c, NEW args \in Seq(Values)
    PROVE  /\ DOMAIN Each(c, args) = DOMAIN args /\ DOMAIN args = 1..Len(args)
           /\ Len(args) \in Nat /\ Len(Each(c, args)) = Len(args)
           /\ \A i \in DOMAIN args : args[i] \in Values /\ Each(c, args)[i] = c[args[i]]
<1>1. Len(args) \in Nat /\ args \in [1..Len(args) -> Values]
  OBVIOUS
<1>2. Each(c, args) = [i \in 1..Len(args) |-> c[args[i]]]
  BY <1>1 DEF Each
<1> QED BY <1>1, <1>2

LEMMA FailureIs == Failure[1] = "error"
BY DEF Failure

LEMMA SendKeeps ==
    ASSUME IInv, Sends
    PROVE  IInv'
<1> USE DEF IInv
<1> DEFINE args == command.args
           server == command.server
           converted == Each(FromNu[server], args)
<1>1. /\ command.phase = "checked" /\ UNCHANGED <<installed, file, verdict, shipped, running, held>>
      /\ AnyFailed(converted) => command' = [command EXCEPT !.phase = "refused"]
      /\ ~AnyFailed(converted) => command' = [command EXCEPT !.phase = "sent", !.sent = converted]
  BY DEF Sends, codegenVars
<1>2. server \in Servers /\ args \in Seq(Values) /\ CodegenTypeOK'
  BY <1>1 DEF Issued, TypeOK, CodegenTypeOK
<1>3. command \in [kind : {"none", "call", "lua", "typed"},
                   method : Methods \cup {f[1] : f \in Used} \cup {"none"},
                   server : Servers \cup {"none"}, args : Seq(Values), sent : Seq(Packed),
                   answer : Packed, phase : Phases]
  BY DEF TypeOK
<1>4. Built' /\ CheckIsParity' /\ Holds'
  BY <1>1 DEF Built, CheckIsParity, Parses, Holds
<1> HIDE DEF converted
<1>5. CASE AnyFailed(converted)
  <2>1. command' = [command EXCEPT !.phase = "refused"]
    BY <1>1, <1>5
  <2>2. TypeOK'
    BY <1>1, <1>2, <1>3, <2>1 DEF TypeOK, Phases
  <2>3. Issued'
    BY <1>1, <1>3, <2>1 DEF Issued
  <2>4. Carried'
    BY <1>1, <1>3, <1>5, <2>1 DEF Carried, converted
  <2> QED BY <1>4, <2>2, <2>3, <2>4
<1>6. CASE ~AnyFailed(converted)
  <2>1. command' = [command EXCEPT !.phase = "sent", !.sent = converted]
    BY <1>1, <1>6
  <2>2. converted \in Seq(Packed)
    <3>1. /\ Len(args) \in Nat /\ DOMAIN args = 1..Len(args) /\ DOMAIN converted = 1..Len(args)
          /\ converted = [i \in DOMAIN args |-> FromNu[server][args[i]]]
          /\ \A i \in DOMAIN args : args[i] \in Values
      BY <1>2, EachIs DEF converted, Each
    <3>2. ASSUME NEW i \in 1..Len(args) PROVE converted[i] \in Packed
      <4>1. converted[i] \in Packed \cup {Failure}
        BY <1>2, <3>1, ConversionsAssumption
      <4>2. converted[i][1] # "error"
        BY <1>6, <3>1 DEF AnyFailed, Failed
      <4> QED BY <4>1, <4>2, FailureIs
    <3>3. converted \in [1..Len(args) -> Packed]
      BY <3>1, <3>2
    <3> QED BY <3>1, <3>3
  <2>3. TypeOK'
    BY <1>1, <1>2, <1>3, <2>1, <2>2 DEF TypeOK, Phases
  <2>4. Issued'
    BY <1>1, <1>3, <2>1 DEF Issued
  <2>5. Carried'
    BY <1>1, <1>3, <1>6, <2>1 DEF Carried, converted
  <2> QED BY <1>4, <2>3, <2>4, <2>5
<1> QED BY <1>5, <1>6

\* A command that goes on with nothing but its phase.
LEMMA PhaseKeeps ==
    ASSUME IInv, NEW from \in Phases, NEW to \in Phases, command.phase = from,
           command' = [command EXCEPT !.phase = to],
           UNCHANGED <<codegenVars, running, held>>,
           \/ from = "checked" /\ to = "unreachable"
           \/ from = "sent" /\ to = "rejected"
              /\ ~Accepts(running[command.server], command.method, Count(command))
           \/ from = "sent" /\ to = "errored"
           \/ from = "answered" /\ to = "unreadable" /\ Failed(ToNu[command.server][command.answer])
    PROVE  IInv'
<1> USE DEF IInv
<1>1. /\ UNCHANGED <<installed, file, verdict, shipped, running, held>>
  BY DEF codegenVars
<1>2. command \in [kind : {"none", "call", "lua", "typed"},
                   method : Methods \cup {f[1] : f \in Used} \cup {"none"},
                   server : Servers \cup {"none"}, args : Seq(Values), sent : Seq(Packed),
                   answer : Packed, phase : Phases]
  BY DEF TypeOK
<1>3. /\ command'.kind = command.kind /\ command'.method = command.method
      /\ command'.server = command.server /\ command'.args = command.args
      /\ command'.sent = command.sent /\ command'.answer = command.answer /\ command'.phase = to
      /\ Count(command') = Count(command)
  BY <1>2 DEF Count
<1>4. TypeOK'
  BY <1>1, <1>2 DEF TypeOK, CodegenTypeOK
<1>5. Built' /\ CheckIsParity' /\ Holds'
  BY <1>1 DEF Built, CheckIsParity, Parses, Holds
<1>6. Issued'
  BY <1>1, <1>3 DEF Issued
<1>7. Carried'
  BY <1>1, <1>3 DEF Carried
<1> QED BY <1>4, <1>5, <1>6, <1>7

LEMMA AnswerKeeps ==
    ASSUME IInv, command.phase = "sent", NEW v \in Samples[command.server], Answers(v)
    PROVE  IInv'
<1> USE DEF IInv
<1>1. /\ UNCHANGED <<installed, file, verdict, shipped, running, held>>
      /\ command' = [command EXCEPT !.phase = "answered", !.answer = v]
  BY DEF Answers, codegenVars
<1>2. command \in [kind : {"none", "call", "lua", "typed"},
                   method : Methods \cup {f[1] : f \in Used} \cup {"none"},
                   server : Servers \cup {"none"}, args : Seq(Values), sent : Seq(Packed),
                   answer : Packed, phase : Phases]
  BY DEF TypeOK
<1>3. command.server \in Servers /\ v \in Packed
  BY CallAssumption DEF Issued
<1>4. /\ command'.kind = command.kind /\ command'.method = command.method
      /\ command'.server = command.server /\ command'.args = command.args
      /\ command'.sent = command.sent /\ command'.answer = v /\ command'.phase = "answered"
  BY <1>1, <1>2
<1>5. TypeOK'
  BY <1>1, <1>2, <1>3 DEF TypeOK, CodegenTypeOK, Phases
<1>6. Built' /\ CheckIsParity' /\ Holds'
  BY <1>1 DEF Built, CheckIsParity, Parses, Holds
<1>7. Issued'
  BY <1>1, <1>4 DEF Issued
<1>8. Carried'
  BY <1>1, <1>4 DEF Carried
<1> QED BY <1>5, <1>6, <1>7, <1>8

\* The command is over.
LEMMA IdleKeeps ==
    ASSUME IInv, command' = Idle, UNCHANGED <<codegenVars, running>>,
           \/ held' = held
           \/ /\ held' = [value |-> ToNu[command.server][command.answer], from |-> command.server,
                          was |-> command.answer]
              /\ command.phase = "answered" /\ ~Failed(ToNu[command.server][command.answer])
    PROVE  IInv'
<1> USE DEF IInv
<1>1. UNCHANGED <<installed, file, verdict, shipped, running>>
  BY DEF codegenVars
<1>2. Built' /\ CheckIsParity' /\ CodegenTypeOK'
  BY <1>1 DEF Built, CheckIsParity, Parses, TypeOK, CodegenTypeOK
<1>3. held' \in [value : Values, from : Servers \cup {"none"}, was : Packed] /\ Holds'
  <2>1. CASE held' = held
    BY <2>1 DEF TypeOK, Holds
  <2>2. CASE held' # held
    <3> DEFINE value == ToNu[command.server][command.answer]
    <3>1. /\ held' = [value |-> value, from |-> command.server, was |-> command.answer]
          /\ command.phase = "answered" /\ value[1] # "error"
      BY <2>2 DEF Failed
    <3>2. /\ command.server \in Servers /\ command.server # "none"
          /\ command.answer \in Samples[command.server] /\ command.answer \in Packed
      BY <3>1, CallAssumption DEF Issued, Carried, TypeOK
    <3>3. value \in Values
      <4>1. value \in Values \cup {Failure}
        BY <3>2, ConversionsAssumption
      <4> QED BY <3>1, <4>1, FailureIs
    <3>4. Holds'
      BY <3>1, <3>2 DEF Holds
    <3> QED BY <3>1, <3>2, <3>3, <3>4
  <2> QED BY <2>1, <2>2
<1>4. command' \in [kind : {"none", "call", "lua", "typed"},
                    method : Methods \cup {f[1] : f \in Used} \cup {"none"},
                    server : Servers \cup {"none"}, args : Seq(Values), sent : Seq(Packed),
                    answer : Packed, phase : Phases]
  <2>1. <<>> \in Seq(Values) /\ <<>> \in Seq(Packed)
    OBVIOUS
  <2> QED BY <2>1, CallAssumption DEF Idle, Phases
<1>5. TypeOK'
  BY <1>1, <1>2, <1>3, <1>4 DEF TypeOK
<1>6. command'.phase = "idle" /\ command'.args = <<>> /\ command'.sent = <<>>
  BY DEF Idle
<1>7. DOMAIN command'.args = {}
  BY <1>6
<1>8. Issued' /\ Carried'
  BY <1>6, <1>7 DEF Issued, Carried
<1> QED BY <1>2, <1>3, <1>5, <1>8

\* The inductive invariant holds: what is installed, generated, built, asked,
\* sent and held is what main.rs, api_function, raw_call and value.rs make of it.
THEOREM Invariance == Spec => []IInv
<1>1. ASSUME IInv, [Next]_vars PROVE IInv'
  <2>1. ASSUME CodegenNext /\ UNCHANGED <<running, held, command>> PROVE IInv'
    BY <1>1, <2>1, CodegenKeeps
  <2>2. ASSUME NEW server \in Servers, NEW p \in Positional, NEW input \in {Nothing, held.value},
               \/ \E method \in Methods : Calls(method, server, Appended(p, input))
               \/ Evaluates(server, Appended(p, input))
        PROVE  IInv'
    BY <1>1, <2>2, CallKeeps, EvaluateKeeps
  <2>3. ASSUME NEW server \in Servers, NEW function \in Used, CallsMethod(function, server)
        PROVE  IInv'
    BY <1>1, <2>3, MethodKeeps
  <2>4. ASSUME Sends PROVE IInv'
    BY <1>1, <2>4, SendKeeps
  <2>5. ASSUME CannotConnect PROVE IInv'
    BY <1>1, <2>5, PhaseKeeps DEF CannotConnect, Phases
  <2>6. ASSUME Rejects PROVE IInv'
    BY <1>1, <2>6, PhaseKeeps DEF Rejects, Phases
  <2>7. ASSUME Returns PROVE IInv'
    <3> DEFINE value == ToNu[command.server][command.answer]
    <3>1. CASE Failed(value)
      BY <1>1, <2>7, <3>1, PhaseKeeps DEF Returns, Phases
    <3>2. CASE ~Failed(value)
      BY <1>1, <2>7, <3>2, IdleKeeps DEF Returns
    <3> QED BY <3>1, <3>2
  <2>8. ASSUME Fails PROVE IInv'
    BY <1>1, <2>8, IdleKeeps DEF Fails
  <2>9. ASSUME command.phase = "sent", NEW v \in Samples[command.server], Answers(v) PROVE IInv'
    BY <1>1, <2>9, AnswerKeeps
  <2>10. ASSUME Errors PROVE IInv'
    BY <1>1, <2>10, PhaseKeeps DEF Errors, Phases
  <2>11. ASSUME UNCHANGED vars PROVE IInv'
    BY <1>1, <2>11 DEF vars, codegenVars, IInv, TypeOK, CodegenTypeOK, Built, CheckIsParity, Parses,
                       Issued, Holds, Carried, Count
  <2> QED BY <1>1, <2>1, <2>2, <2>3, <2>4, <2>5, <2>6, <2>7, <2>8, <2>9, <2>10, <2>11
       DEF Next
<1> QED BY <1>1, Start, PTL DEF Spec

\* Every variable has its type.
THEOREM TypeCorrect == Spec => []TypeOK
<1>1. IInv => TypeOK
  BY DEF IInv
<1> QED BY <1>1, Invariance, PTL

\* The check passes if and only if the file has the functions of the installed
\* editor, with as many parameters, and its release, whatever order the editor
\* lists them in (main.rs, parse_api).
THEOREM ParityHolds == Spec => []CheckIsParity
<1>1. IInv => CheckIsParity
  BY DEF IInv
<1> QED BY <1>1, Invariance, PTL

\* With a checked file a call is refused before it is sent exactly when the editor
\* would refuse it (api_function, raw_call).
THEOREM TableFits == Spec => []CheckedTableFits
<1>1. IInv => CheckedTableFits
  <2> SUFFICES ASSUME IInv, command.phase # "idle", verdict.fresh,
                      Api[running[command.server]] = Api[verdict.against]
               PROVE  /\ command.phase # "rejected"
                      /\ command.phase \in {"unknown", "arity"} =>
                            ~Accepts(running[command.server], command.method, Len(command.args))
    BY DEF CheckedTableFits
  <2> USE DEF IInv
  <2>1. Api[file] = Api[running[command.server]]
    BY DEF Built, CheckIsParity
  <2>2. command.phase = "rejected" => FALSE
    <3> SUFFICES ASSUME command.phase = "rejected" PROVE FALSE
      OBVIOUS
    <3>1. command.args \in Seq(Values) /\ command.sent = Each(FromNu[command.server], command.args)
      BY DEF TypeOK, Carried
    <3>2. Len(command.sent) = Len(command.args)
      BY <3>1, EachIs
    <3>3. Count(command) = IF command.kind = "lua" THEN 2 ELSE Len(command.args)
      BY <3>2 DEF Count
    <3> QED BY <2>1, <3>3 DEF Issued, Accepts
  <2>3. command.phase \in {"unknown", "arity"} =>
            ~Accepts(running[command.server], command.method, Len(command.args))
    BY <2>1 DEF Issued, Accepts
  <2> QED BY <2>2, <2>3
<1> QED BY <1>1, Invariance, PTL

(***************************************************************************)
(* Handles.                                                                *)
(***************************************************************************)

\* What holds of a value when it holds of all smaller ones holds of every value.
LEMMA ByDepth ==
    ASSUME NEW T, \A v \in All : (\A w \in All : Depth(w) < Depth(v) => w \in T) => v \in T
    PROVE  \A v \in All : v \in T
<1> DEFINE Bad == {Depth(v) : v \in All \ T}
<1>1. \A v \in All : Depth(v) \in Nat
  BY PartsAre
<1> SUFFICES ASSUME Bad # {} PROVE FALSE
  OBVIOUS
<1>2. PICK n \in Bad : \A l \in Bad : n <= l
  <2>1. Bad \subseteq Nat
    BY <1>1
  <2> HIDE DEF Bad
  <2> QED BY <2>1, Least
<1>3. PICK v \in All \ T : n = Depth(v)
  BY <1>2
<1>4. PICK w \in All : Depth(w) < Depth(v) /\ w \notin T
  BY <1>3
<1> QED BY <1>1, <1>2, <1>3, <1>4

\* What is in a value that is in a value is in it.
LEMMA InsideClosed ==
    /\ \A v \in All : /\ v \in Inside[v]
                      /\ \A w \in Inside[v] : w \in All /\ Inside[w] \subseteq Inside[v]
    /\ \A v \in Packed : Inside[v] \subseteq Packed
    /\ \A x \in Values : Inside[x] \subseteq Values
<1> DEFINE Fine(v) == /\ v \in Inside[v]
                      /\ \A w \in Inside[v] : w \in All /\ Inside[w] \subseteq Inside[v]
                      /\ v \in Packed => Inside[v] \subseteq Packed
                      /\ v \in Values => Inside[v] \subseteq Values
           T == {v \in All : Fine(v)}
<1>1. ASSUME NEW v \in All, \A w \in All : Depth(w) < Depth(v) => w \in T
      PROVE  v \in T
  <2>1. Inside[v] = {v} \cup UNION {Inside[w] : w \in Parts(v)}
    BY InsideIs
  <2>2. \A w \in Parts(v) : /\ Fine(w) /\ w \in All
                            /\ v \in Packed => w \in Packed
                            /\ v \in Values => w \in Values
    BY <1>1, PartsAre
  <2> QED BY <2>1, <2>2
<1>2. \A v \in All : v \in T
  <2> HIDE DEF T
  <2> QED BY <1>1, ByDepth
<1> QED BY <1>2 DEF All

\* The first field of a name.
LEMMA FirstField ==
    ASSUME NEW fields, DOMAIN fields \subseteq Nat \ {0}, 1 \in DOMAIN fields
    PROVE  Field(fields, fields[1][1]) = fields[1][2]
<1> DEFINE named == {i \in DOMAIN fields : fields[i][1] = fields[1][1]}
<1>1. 1 \in named /\ named \subseteq Nat /\ \A m \in named : 1 <= m
  OBVIOUS
<1>2. Min(named) = CHOOSE k \in named : \A m \in named : k <= m
  BY DEF Min
<1>3. Min(named) = 1
  <2> HIDE DEF named
  <2>1. \A k \in named : (\A m \in named : k <= m) => k = 1
    BY <1>1
  <2> QED BY <1>1, <1>2, <2>1
<1>4. Field(fields, fields[1][1]) = fields[Min(named)][2]
  BY <1>1 DEF Field
<1> QED BY <1>3, <1>4

\* An extension in what has become of a value comes from the record of one in it.
LEMMA ExtensionsFrom ==
    ASSUME NEW t \in Servers
    PROVE  \A x \in Values : ~Failed(FromNu[t][x]) =>
               \A w \in Inside[FromNu[t][x]] : w[1] = "ext" =>
                   \E u \in Inside[x] : IsExtension(u) /\ w = FromNu[t][u]
<1> DEFINE Fine(x) == ~Failed(FromNu[t][x]) =>
                          \A w \in Inside[FromNu[t][x]] : w[1] = "ext" =>
                              \E u \in Inside[x] : IsExtension(u) /\ w = FromNu[t][u]
           T == {x \in All : x \in Values => Fine(x)}
<1>1. ASSUME NEW x \in All, \A w \in All : Depth(w) < Depth(x) => w \in T
      PROVE  x \in T
  <2> SUFFICES ASSUME x \in Values, ~Failed(FromNu[t][x])
               PROVE  \A w \in Inside[FromNu[t][x]] : w[1] = "ext" =>
                          \E u \in Inside[x] : IsExtension(u) /\ w = FromNu[t][u]
    OBVIOUS
  <2> DEFINE v == FromNu[t][x]
             c == FromNu[t]
  <2>1. v \in Packed /\ v \in All /\ v = ValueFromNu(x, t, c) /\ v # Failure /\ v[1] # "error"
    <3>1. v \in Packed \cup {Failure} /\ v[1] # "error"
      BY ConversionsAssumption DEF Failed
    <3> QED BY <3>1, FailureIs, FromNuIs DEF All
  <2>2. Inside[v] = {v} \cup UNION {Inside[p] : p \in Parts(v)}
    BY <2>1, InsideIs
  <2>3. x \in Inside[x]
    BY InsideClosed
  <2> HIDE DEF T
  <2>4. ASSUME v[1] # "ext",
               \A p \in Parts(v) : \/ p[1] = "str"
                                   \/ \E y \in Values : /\ y \in Inside[x] /\ Depth(y) < Depth(x)
                                                        /\ p = c[y]
        PROVE  \A w \in Inside[v] : w[1] = "ext" => \E u \in Inside[x] : IsExtension(u) /\ w = c[u]
    <3> SUFFICES ASSUME NEW w \in Inside[v], w[1] = "ext"
                 PROVE  \E u \in Inside[x] : IsExtension(u) /\ w = c[u]
      OBVIOUS
    <3>1. PICK p \in Parts(v) : w \in Inside[p]
      BY <2>2, <2>4
    <3>2. p \in Packed /\ p \in All
      BY <2>1, PartsAre DEF All
    <3>3. p[1] # "str"
      <4> SUFFICES ASSUME p[1] = "str" PROVE FALSE
        OBVIOUS
      <4>1. Parts(p) = {}
        BY DEF Parts
      <4>2. Inside[p] = {p}
        BY <3>2, <4>1, InsideIs
      <4> QED BY <3>1, <4>2
    <3>4. PICK y \in Values : y \in Inside[x] /\ Depth(y) < Depth(x) /\ p = c[y]
      BY <2>4, <3>1, <3>3
    <3>5. Fine(y) /\ ~Failed(c[y])
      <4>1. y \in T
        BY <1>1, <3>4 DEF All
      <4>2. p[1] # "error"
        BY <3>2, ValuesAssumption
      <4> QED BY <3>4, <4>1, <4>2 DEF T, Failed
    <3>6. Inside[y] \subseteq Inside[x]
      BY <3>4, InsideClosed
    <3> QED BY <3>1, <3>4, <3>5, <3>6
  <2>5. CASE x[1] \in {"nothing", "bool", "int", "float", "string", "glob", "binary"}
    <3>1. v[1] \in {"nil", "bool", "int", "f64", "str", "bin"}
      <4>1. CASE x[1] \in {"bool", "int"}
        <5>1. v = x
          BY <2>1, <4>1 DEF ValueFromNu
        <5> QED BY <4>1, <5>1
      <4>2. CASE x[1] \in {"nothing", "float", "string", "glob", "binary"}
        <5>1. CASE x[1] = "nothing"
          <6>1. v = <<"nil", "">>
            BY <2>1, <5>1 DEF ValueFromNu
          <6>2. <<"nil", "">>[1] = "nil"
            OBVIOUS
          <6> HIDE DEF v
          <6> QED BY ONLY <6>1, <6>2
        <5>2. CASE x[1] = "float"
          BY <2>1, <5>2 DEF ValueFromNu
        <5>3. CASE x[1] \in {"string", "glob"}
          BY <2>1, <5>3 DEF ValueFromNu
        <5>4. CASE x[1] = "binary"
          BY <2>1, <5>4 DEF ValueFromNu
        <5> QED BY <4>2, <5>1, <5>2, <5>3, <5>4
      <4> QED BY <2>5, <4>1, <4>2
    <3>2. Parts(v) = {}
      BY <3>1 DEF Parts
    <3> HIDE DEF v
    <3> QED BY <2>4, <3>1, <3>2 DEF v
  <2>6. CASE x[1] = "list"
    <3>1. v = <<"array", Each(c, x[2])>>
      BY <2>1, <2>6 DEF ValueFromNu
    <3>2. x[2] \in Seq(Values)
      BY <2>6, ValuesAssumption
    <3>3. /\ DOMAIN Each(c, x[2]) = DOMAIN x[2]
          /\ \A i \in DOMAIN x[2] : Each(c, x[2])[i] = c[x[2][i]] /\ x[2][i] \in Values
      BY <3>2 DEF Each
    <3>4. \A i \in DOMAIN x[2] : x[2][i] \in Parts(x)
      BY <2>6 DEF Parts
    <3>5. \A y \in Parts(x) : y \in Inside[x] /\ Depth(y) < Depth(x)
      BY PartsAre, InsideIs, InsideClosed
    <3>6. Parts(v) = {Each(c, x[2])[i] : i \in DOMAIN Each(c, x[2])} /\ v[1] = "array"
      BY <3>1 DEF Parts
    <3>7. \A p \in Parts(v) : \E y \in Values : /\ y \in Inside[x] /\ Depth(y) < Depth(x)
                                                /\ p = c[y]
      <4> HIDE DEF v, c
      <4> QED BY <3>3, <3>4, <3>5, <3>6
    <3> QED BY <2>4, <3>6, <3>7
  <2>7. CASE x[1] = "record"
    <3> DEFINE fields == x[2]
               tag == TagOf(fields)
    <3>0. v = RecordFromNu(fields, t, c)
      BY <2>1, <2>7 DEF ValueFromNu
    <3>1. CASE tag \in ExtensionTags
      <4>1. v = HandleFromNu(fields, t) \/ v = ExtFromNu(fields)
        BY <3>0, <3>1 DEF RecordFromNu, ExtensionTags
      <4>2. v[1] = "ext"
        BY <2>1, <4>1 DEF HandleFromNu, ExtFromNu
      <4>3. Parts(v) = {}
        BY <4>2 DEF Parts
      <4>4. Inside[v] = {v}
        BY <2>2, <4>3
      <4>5. IsExtension(x)
        BY <2>7, <3>1 DEF IsExtension
      <4> QED BY <2>3, <4>4, <4>5
    <3>2. CASE tag \in {"msgpack-uint", "msgpack-string"}
      <4>1. v = UnsignedFromNu(fields) \/ v = BytesFromNu(fields)
        BY <3>0, <3>2 DEF RecordFromNu
      <4>2. v[1] \in {"int", "bytes"}
        BY <2>1, <4>1 DEF UnsignedFromNu, BytesFromNu
      <4>3. Parts(v) = {}
        BY <4>2 DEF Parts
      <4> HIDE DEF v
      <4> QED BY <2>4, <4>2, <4>3 DEF v
    <3>3. CASE tag = "msgpack-map"
      <4> DEFINE list == Field(fields, "entries")
                 entries == Content(fields, "entries")
                 Part(name) == [i \in DOMAIN entries |->
                                   IF entries[i][1] = "record" /\ Field(entries[i][2], name) # Missing
                                   THEN c[Field(entries[i][2], name)] ELSE Failure]
                 keys == Part("key")
                 values == Part("value")
      <4>1. v = MapFromNu(fields, c)
        BY <3>0, <3>3 DEF RecordFromNu
      <4>2. Has(fields, "entries", "list")
        BY <2>1, <4>1 DEF MapFromNu
      <4>3. v = IF AnyFailed(keys) \/ AnyFailed(values) THEN Failure
                ELSE <<"map", [i \in DOMAIN entries |-> <<keys[i], values[i]>>]>>
        BY <4>1, <4>2 DEF MapFromNu
      <4>4. list[1] = "list" /\ entries = list[2]
        BY <4>2 DEF Has, Content
      <4>5. list # Missing
        <5>1. Missing[1] = "missing"
          BY DEF Missing
        <5> HIDE DEF list
        <5> QED BY <4>4, <5>1
      <4>6. list \in Values /\ list \in Parts(x)
        BY <2>7, <4>5, FieldIs
      <4>7. \A i \in DOMAIN entries : entries[i] \in Values /\ entries[i] \in Parts(list)
        <5>1. \A i \in DOMAIN entries : entries[i] \in Parts(list)
          BY <4>4 DEF Parts
        <5> QED BY <4>6, <5>1, PartsAre
      <4>8. ASSUME NEW i \in DOMAIN entries, NEW name,
                   entries[i][1] = "record", Field(entries[i][2], name) # Missing
            PROVE  LET y == Field(entries[i][2], name) IN
                   y \in Values /\ y \in Inside[x] /\ Depth(y) < Depth(x)
        <5> DEFINE y == Field(entries[i][2], name)
        <5>1. y \in Values /\ y \in Parts(entries[i])
          BY <4>7, <4>8, FieldIs
        <5>2. entries[i] \in Values /\ entries[i] \in Parts(list)
          BY <4>7
        <5> HIDE DEF y, entries, list
        <5>3. /\ Depth(y) \in Nat /\ Depth(entries[i]) \in Nat /\ Depth(list) \in Nat
              /\ Depth(x) \in Nat
              /\ Depth(y) < Depth(entries[i]) /\ Depth(entries[i]) < Depth(list)
              /\ Depth(list) < Depth(x)
          BY <4>6, <5>1, <5>2, PartsAre DEF All
        <5>4. \A a \in Values : \A b \in Parts(a) : Inside[b] \subseteq Inside[a]
          BY InsideIs DEF All
        <5>5. y \in Inside[y]
          BY <5>1, InsideClosed DEF All
        <5>6. y \in Inside[x]
          BY <4>6, <5>1, <5>2, <5>4, <5>5
        <5>7. Depth(y) < Depth(x)
          BY <5>3
        <5> QED BY <5>1, <5>6, <5>7 DEF y
      <4>9. ASSUME NEW name, ~AnyFailed(Part(name)), NEW i \in DOMAIN entries
            PROVE  \E y \in Values : y \in Inside[x] /\ Depth(y) < Depth(x) /\ Part(name)[i] = c[y]
        <5>1. ~Failed(Part(name)[i])
          <6>1. DOMAIN Part(name) = DOMAIN entries
            OBVIOUS
          <6> HIDE DEF Part, entries
          <6> QED BY <4>9, <6>1 DEF AnyFailed
        <5>2. Part(name)[i] = IF entries[i][1] = "record" /\ Field(entries[i][2], name) # Missing
                              THEN c[Field(entries[i][2], name)] ELSE Failure
          OBVIOUS
        <5> HIDE DEF Part, entries, c
        <5>3. entries[i][1] = "record" /\ Field(entries[i][2], name) # Missing
          BY <5>1, <5>2, FailureIs DEF Failed
        <5> QED BY <4>8, <5>2, <5>3
      <4>10. ~AnyFailed(keys) /\ ~AnyFailed(values)
             /\ v = <<"map", [i \in DOMAIN entries |-> <<keys[i], values[i]>>]>>
        <5> HIDE DEF v, keys, values, entries
        <5> QED BY <2>1, <4>3 DEF v
      <4> DEFINE pairs == [i \in DOMAIN entries |-> <<keys[i], values[i]>>]
      <4>11. /\ v[1] = "map" /\ v[2] = pairs /\ DOMAIN pairs = DOMAIN entries
             /\ \A i \in DOMAIN entries : pairs[i][1] = keys[i] /\ pairs[i][2] = values[i]
        <5> HIDE DEF v, keys, values, entries
        <5> QED BY <4>10
      <4>12. \A p \in Parts(v) : \E i \in DOMAIN entries : p = keys[i] \/ p = values[i]
        <5> HIDE DEF v, keys, values, entries, pairs
        <5>1. Parts(v) = {v[2][i][1] : i \in DOMAIN v[2]} \cup {v[2][i][2] : i \in DOMAIN v[2]}
          BY <4>11 DEF Parts
        <5> QED BY <4>11, <5>1
      <4>13. \A p \in Parts(v) : \E y \in Values : /\ y \in Inside[x] /\ Depth(y) < Depth(x)
                                                   /\ p = c[y]
        <5>1. \A i \in DOMAIN entries :
                 /\ \E y \in Values : y \in Inside[x] /\ Depth(y) < Depth(x) /\ keys[i] = c[y]
                 /\ \E y \in Values : y \in Inside[x] /\ Depth(y) < Depth(x) /\ values[i] = c[y]
          <6> HIDE DEF Part, entries, v, c
          <6> QED BY <4>9, <4>10
        <5> HIDE DEF keys, values, entries, v, c, Part
        <5> QED BY <4>12, <5>1
      <4> HIDE DEF keys, values, entries, Part, pairs
      <4> QED BY <2>4, <4>11, <4>13
    <3>4. CASE tag \notin Tags
      <4> DEFINE values == [i \in DOMAIN fields |-> c[fields[i][2]]]
                 pairs == [i \in DOMAIN fields |-> << <<"str", fields[i][1]>>, values[i]>>]
      <4>1. v = PlainFromNu(fields, c)
        BY <3>0, <3>4 DEF RecordFromNu, Tags
      <4>2. v = IF AnyFailed(values) THEN Failure ELSE <<"map", pairs>>
        BY <4>1 DEF PlainFromNu
      <4>3. v = <<"map", pairs>>
        <5> HIDE DEF v, values, pairs
        <5> QED BY <2>1, <4>2 DEF v
      <4>4. \A i \in DOMAIN fields : pairs[i][1][1] = "str" /\ pairs[i][2] = c[fields[i][2]]
        OBVIOUS
      <4>5. DOMAIN pairs = DOMAIN fields
        OBVIOUS
      <4>6. \A i \in DOMAIN fields : fields[i][2] \in Parts(x)
        BY <2>7 DEF Parts
      <4>7. \A y \in Parts(x) : y \in Values /\ y \in Inside[x] /\ Depth(y) < Depth(x)
        BY PartsAre, InsideIs, InsideClosed
      <4>8. \A p \in Parts(v) : \/ p[1] = "str"
                                \/ \E y \in Values : /\ y \in Inside[x] /\ Depth(y) < Depth(x)
                                                     /\ p = c[y]
        <5> HIDE DEF v, c, values, pairs
        <5>1. Parts(v) = {pairs[i][1] : i \in DOMAIN pairs} \cup {pairs[i][2] : i \in DOMAIN pairs}
          BY <4>3 DEF Parts
        <5> QED BY <4>4, <4>5, <4>6, <4>7, <5>1
      <4>9. v[1] # "ext"
        <5> HIDE DEF v, pairs
        <5> QED BY <4>3
      <4> HIDE DEF v
      <4> QED BY <2>4, <4>8, <4>9 DEF v
    <3> QED BY <3>1, <3>2, <3>3, <3>4 DEF Tags, ExtensionTags
  <2>8. x[1] # "other"
    <3> SUFFICES ASSUME x[1] = "other" PROVE FALSE
      OBVIOUS
    <3>1. v = Failure
      BY <2>1 DEF ValueFromNu
    <3> QED BY <2>1, <3>1
  <2> QED BY <2>5, <2>6, <2>7, <2>8, ValuesAssumption
<1>2. \A x \in All : x \in T
  <2> HIDE DEF T
  <2> QED BY <1>1, ByDepth
<1> QED BY <1>2 DEF All

\* A record whose first field is its tag.
LEMMA TagIs ==
    ASSUME NEW fields, DOMAIN fields \subseteq Nat \ {0}, 1 \in DOMAIN fields, NEW tag,
           fields[1][1] = "type", fields[1][2] = Text(tag)
    PROVE  TagOf(fields) = tag
<1>1. Field(fields, "type") = Text(tag)
  BY FirstField
<1>2. Text(tag)[1] = "string" /\ Text(tag)[2] = tag
  BY DEF Text
<1> HIDE DEF Text
<1> QED BY <1>1, <1>2 DEF TagOf, Has, Content

\* A record of two fields.
LEMMA TwoFields ==
    ASSUME NEW k, NEW a, NEW l, NEW b
    PROVE  LET x == Record(<< <<k, a>>, <<l, b>> >>) IN
           /\ x[1] = "record" /\ Parts(x) = {a, b}
           /\ DOMAIN x[2] = 1..2
           /\ x[2][1][1] = k /\ x[2][1][2] = a /\ x[2][2][1] = l /\ x[2][2][2] = b
<1> DEFINE q == << <<k, a>>, <<l, b>> >>
           x == Record(q)
<1>1. x[1] = "record" /\ x[2] = q
  BY DEF Record
<1>2. DOMAIN q = 1..2 /\ q[1][1] = k /\ q[1][2] = a /\ q[2][1] = l /\ q[2][2] = b
  OBVIOUS
<1>3. Parts(x) = {q[j][2] : j \in DOMAIN q}
  BY <1>1 DEF Parts
<1> HIDE DEF x, q
<1>4. 1 \in DOMAIN q /\ 2 \in DOMAIN q /\ \A j \in DOMAIN q : j = 1 \/ j = 2
  BY <1>2
<1>5. \A p : p \in Parts(x) <=> p = a \/ p = b
  BY <1>2, <1>3, <1>4
<1>6. Parts(x) = {a, b}
  BY <1>5
<1> QED BY <1>1, <1>2, <1>6 DEF x, q

\* A map that becomes a record with a tag looks like one.
LEMMA LooksIs ==
    ASSUME NEW s \in Servers, NEW v \in Packed, v[1] = "map", Direct(v[2]), NEW fields, NEW tags,
           fields = [i \in DOMAIN v[2] |-> <<v[2][i][1][2], ToNu[s][v[2][i][2]]>>],
           Record(fields) \in Values, "" \notin tags, TagOf(fields) \in tags
    PROVE  LooksTagged(v, tags)
<1> DEFINE type == Field(fields, "type")
           entries == v[2]
<1>1. type[1] = "string" /\ type[2] \in tags
  BY DEF TagOf, Has, Content
<1>2. type # Missing
  <2>1. Missing[1] = "missing"
    BY DEF Missing
  <2> HIDE DEF type
  <2> QED BY <1>1, <2>1
<1>3. PICK i \in DOMAIN entries : fields[i][1] = "type" /\ fields[i][2] = type
  <2>1. Record(fields)[1] = "record" /\ Record(fields)[2] = fields
    BY DEF Record
  <2>2. DOMAIN fields = DOMAIN entries
    OBVIOUS
  <2>3. \E i \in DOMAIN fields : fields[i][1] = "type" /\ fields[i][2] = Field(fields, "type")
    <3> DEFINE y == Record(fields)
    <3>1. y \in Values /\ y[1] = "record" /\ y[2] = fields /\ Field(y[2], "type") # Missing
      BY <1>2, <2>1
    <3> HIDE DEF y
    <3>2. \E i \in DOMAIN y[2] : y[2][i][1] = "type" /\ y[2][i][2] = Field(y[2], "type")
      BY <3>1, FieldIs
    <3> QED BY <3>1, <3>2
  <2> HIDE DEF type
  <2> QED BY <2>2, <2>3 DEF type
<1> DEFINE k == entries[i][1]
           x == entries[i][2]
<1>4. k[1] = "str" /\ k[2] = "type" /\ k \in Packed /\ x \in Packed /\ type = ToNu[s][x]
  <2>1. fields[i] = <<k[2], ToNu[s][x]>>
    OBVIOUS
  <2>2. k[1] = "str"
    BY DEF Direct
  <2>3. entries \in Seq(Packed \X Packed)
    BY ValuesAssumption
  <2>4. k \in Packed /\ x \in Packed
    <3>1. entries[i] \in Packed \X Packed
      <4> HIDE DEF entries
      <4>1. i \in DOMAIN entries
        BY <1>3
      <4> QED BY ONLY <2>3, <4>1
    <3> QED BY <3>1
  <2> HIDE DEF k, x, type
  <2> QED BY <1>3, <2>1, <2>2, <2>4
<1>5. IsPair(k) /\ IsPair(x)
  BY <1>4, ValuesAssumption
<1>6. type = ValueToNu(x, s, ToNu[s])
  BY <1>4, ToNuIs
<1> HIDE DEF type, k, x
<1>7. x[1] = "str" /\ x[2] = type[2]
  <2>1. CASE x[1] = "nil"
    <3>1. type = <<"nothing", "">>
      BY <1>6, <2>1 DEF ValueToNu
    <3>2. <<"nothing", "">>[1] = "nothing"
      OBVIOUS
    <3>3. type[1] = "nothing"
      BY ONLY <3>1, <3>2
    <3> QED BY <1>1, <3>3
  <2>2. CASE x[1] = "bool"
    BY <1>1, <1>6, <2>2 DEF ValueToNu
  <2>3. CASE x[1] = "int"
    BY <1>1, <1>6, <2>3 DEF ValueToNu, IntToNu, Record
  <2>4. CASE x[1] \in {"f32", "f64"}
    BY <1>1, <1>6, <2>4 DEF ValueToNu
  <2>5. CASE x[1] = "str"
    BY <1>6, <2>5 DEF ValueToNu, Text
  <2>6. CASE x[1] = "bytes"
    BY <1>1, <1>6, <2>6 DEF ValueToNu, Record
  <2>7. CASE x[1] = "bin"
    BY <1>1, <1>6, <2>7 DEF ValueToNu
  <2>8. CASE x[1] = "array"
    <3>1. type = Failure \/ type[1] = "list"
      BY <1>6, <2>8 DEF ValueToNu
    <3> QED BY <1>1, <3>1, FailureIs
  <2>9. CASE x[1] = "map"
    <3>1. type = Failure \/ type[1] = "record"
      BY <1>6, <2>9 DEF ValueToNu, MapToNu, Record
    <3> QED BY <1>1, <3>1, FailureIs
  <2>10. CASE x[1] = "ext"
    <3>1. type = Failure \/ type[1] = "record"
      BY <1>6, <2>10 DEF ValueToNu, ExtToNu, Record
    <3> QED BY <1>1, <3>1, FailureIs
  <2> QED BY <1>4, <2>1, <2>2, <2>3, <2>4, <2>5, <2>6, <2>7, <2>8, <2>9, <2>10,
             ValuesAssumption
<1>8. k = <<"str", "type">> /\ x \in {<<"str", t>> : t \in tags}
  BY <1>1, <1>4, <1>5, <1>7 DEF IsPair
<1> QED BY <1>8 DEF LooksTagged, k, x

\* The records of extensions in what has become of a value come from extensions in
\* it, if nothing in it looks like one.
LEMMA RecordsFrom ==
    ASSUME NEW s \in Servers
    PROVE  \A v \in Packed :
               ~Failed(ToNu[s][v]) /\ (\A w \in Inside[v] : ~LooksTagged(w, ExtensionTags)) =>
                   \A u \in Inside[ToNu[s][v]] : IsExtension(u) =>
                       \E w \in Inside[v] : w[1] = "ext" /\ u = ToNu[s][w]
<1> DEFINE Fine(v) ==
               ~Failed(ToNu[s][v]) /\ (\A w \in Inside[v] : ~LooksTagged(w, ExtensionTags)) =>
                   \A u \in Inside[ToNu[s][v]] : IsExtension(u) =>
                       \E w \in Inside[v] : w[1] = "ext" /\ u = ToNu[s][w]
           T == {v \in All : v \in Packed => Fine(v)}
<1>1. ASSUME NEW v \in All, \A w \in All : Depth(w) < Depth(v) => w \in T
      PROVE  v \in T
  <2> SUFFICES ASSUME v \in Packed, ~Failed(ToNu[s][v]),
                      \A w \in Inside[v] : ~LooksTagged(w, ExtensionTags)
               PROVE  \A u \in Inside[ToNu[s][v]] : IsExtension(u) =>
                          \E w \in Inside[v] : w[1] = "ext" /\ u = ToNu[s][w]
    OBVIOUS
  <2> DEFINE y == ToNu[s][v]
             c == ToNu[s]
             Good(p) == \A u \in Inside[p] : IsExtension(u) =>
                            \E w \in Inside[v] : w[1] = "ext" /\ u = c[w]
  <2>1. y \in Values /\ y \in All /\ y = ValueToNu(v, s, c) /\ y # Failure /\ y[1] # "error"
    <3>1. y \in Values \cup {Failure} /\ y[1] # "error"
      BY ConversionsAssumption DEF Failed
    <3> QED BY <3>1, FailureIs, ToNuIs DEF All
  <2>2. Inside[y] = {y} \cup UNION {Inside[p] : p \in Parts(y)}
    BY <2>1, InsideIs
  <2>3. v \in Inside[v] /\ ~LooksTagged(v, ExtensionTags)
    BY InsideClosed
  <2> SUFFICES Good(y)
    OBVIOUS
  <2> HIDE DEF T
  <2>4. ASSUME IsExtension(y) => v[1] = "ext", \A p \in Parts(y) : Good(p) PROVE Good(y)
    BY <2>2, <2>3, <2>4
  <2>5. ASSUME NEW p \in Values, p[1] \notin {"record", "list"} PROVE Good(p)
    <3>1. Parts(p) = {}
      BY <2>5, ValuesAssumption DEF Parts
    <3>2. Inside[p] = {p}
      BY <3>1, InsideIs DEF All
    <3> QED BY <2>5, <3>2 DEF IsExtension
  <2>6. ASSUME NEW w \in Parts(v), c[w] # Failure PROVE Good(c[w]) /\ c[w] \in Values
    <3>1. w \in Packed /\ w \in All /\ w \in T
      BY <1>1, PartsAre DEF All
    <3>2. Inside[w] \subseteq Inside[v]
      BY InsideIs
    <3>3. c[w] \in Values /\ ~Failed(c[w])
      <4>1. c[w] \in Values
        BY <2>6, <3>1, ConversionsAssumption
      <4> QED BY <4>1, ValuesAssumption DEF Failed
    <3>4. Fine(w)
      BY <3>1 DEF T
    <3> QED BY <3>2, <3>3, <3>4
  <2>7. ASSUME NEW p \in Parts(y) PROVE p \in Values
    BY <2>1, PartsAre
  <2>8. CASE v[1] \in {"nil", "bool", "f32", "f64", "str", "bin"}
    <3>1. y[1] \in {"nothing", "bool", "float", "string", "binary"}
      <4>1. CASE v[1] = "nil"
        <5>1. y = <<"nothing", "">>
          BY <2>1, <4>1 DEF ValueToNu
        <5>2. <<"nothing", "">>[1] = "nothing"
          OBVIOUS
        <5> HIDE DEF y
        <5> QED BY ONLY <5>1, <5>2
      <4>2. CASE v[1] = "bool"
        BY <2>1, <4>2 DEF ValueToNu
      <4>3. CASE v[1] \in {"f32", "f64"}
        BY <2>1, <4>3 DEF ValueToNu
      <4>4. CASE v[1] = "str"
        BY <2>1, <4>4 DEF ValueToNu, Text
      <4>5. CASE v[1] = "bin"
        BY <2>1, <4>5 DEF ValueToNu
      <4> QED BY <2>8, <4>1, <4>2, <4>3, <4>4, <4>5
    <3> HIDE DEF y
    <3> QED BY <2>1, <2>5, <3>1
  <2>9. CASE v[1] = "array"
    <3>1. /\ v[2] \in Seq(Packed) /\ DOMAIN Each(c, v[2]) = DOMAIN v[2]
          /\ \A i \in DOMAIN v[2] : Each(c, v[2])[i] = c[v[2][i]]
      BY <2>9, ValuesAssumption DEF Each
    <3>2. \A i \in DOMAIN v[2] : v[2][i] \in Parts(v)
      BY <2>9 DEF Parts
    <3>3. y = IF AnyFailed(Each(c, v[2])) THEN Failure ELSE <<"list", Each(c, v[2])>>
      BY <2>1, <2>9 DEF ValueToNu
    <3>4. y = <<"list", Each(c, v[2])>> /\ ~AnyFailed(Each(c, v[2]))
      <4> HIDE DEF y, c
      <4> QED BY <2>1, <3>3
    <3>5. \A i \in DOMAIN v[2] : c[v[2][i]] # Failure
      <4> HIDE DEF c
      <4> QED BY <3>1, <3>4, FailureIs DEF AnyFailed, Failed
    <3>6. y[1] = "list" /\ Parts(y) = {Each(c, v[2])[i] : i \in DOMAIN Each(c, v[2])}
      BY <3>4 DEF Parts
    <3>7. ~IsExtension(y)
      <4> HIDE DEF y
      <4> QED BY <3>6 DEF IsExtension
    <3>8. ASSUME NEW p \in Parts(y) PROVE Good(p)
      <4> HIDE DEF y
      <4>1. PICK i \in DOMAIN v[2] : p = c[v[2][i]]
        <5> HIDE DEF c
        <5> QED BY <3>1, <3>6
      <4> QED BY <2>6, <3>2, <3>5, <4>1
    <3> HIDE DEF y, Good
    <3> QED BY <2>4, <3>7, <3>8
  <2>10. CASE v[1] = "map"
    <3> DEFINE entries == v[2]
               keys == [i \in DOMAIN entries |-> c[entries[i][1]]]
               values == [i \in DOMAIN entries |-> c[entries[i][2]]]
               tagged == [i \in DOMAIN entries |->
                             Record(<< <<"key", keys[i]>>, <<"value", values[i]>> >>)]
               fields == [i \in DOMAIN entries |-> <<entries[i][1][2], values[i]>>]
    <3>1. \A i \in DOMAIN entries : entries[i][1] \in Parts(v) /\ entries[i][2] \in Parts(v)
      BY <2>10 DEF Parts
    <3>2. y = IF AnyFailed(values) \/ (~Direct(entries) /\ AnyFailed(keys)) THEN Failure
              ELSE IF Direct(entries) THEN Record(fields)
              ELSE Record(<< <<"type", Text("msgpack-map")>>, <<"entries", <<"list", tagged>> >> >>)
      BY <2>1, <2>10 DEF ValueToNu, MapToNu
    <3>3. entries \in Seq(Packed \X Packed)
      BY <2>10, ValuesAssumption
    <3>4. /\ DOMAIN keys = DOMAIN entries /\ DOMAIN values = DOMAIN entries
          /\ DOMAIN tagged = DOMAIN entries /\ DOMAIN fields = DOMAIN entries
          /\ DOMAIN entries = 1..Len(entries) /\ Len(entries) \in Nat
      BY <3>3
    <3>5. \A i \in DOMAIN entries :
             /\ keys[i] = c[entries[i][1]] /\ values[i] = c[entries[i][2]]
             /\ fields[i] = <<entries[i][1][2], values[i]>>
             /\ tagged[i] = Record(<< <<"key", keys[i]>>, <<"value", values[i]>> >>)
      OBVIOUS
    <3>6. /\ ~AnyFailed(values) /\ (~Direct(entries) => ~AnyFailed(keys))
          /\ Direct(entries) => y = Record(fields)
          /\ ~Direct(entries) =>
                y = Record(<< <<"type", Text("msgpack-map")>>, <<"entries", <<"list", tagged>> >> >>)
      <4> HIDE DEF y, keys, values, tagged, fields, entries
      <4> QED BY <2>1, <3>2
    <3>7. \A i \in DOMAIN entries : Good(values[i])
      <4> HIDE DEF y, Good, entries, keys, values, tagged, fields, c
      <4>1. \A i \in DOMAIN entries : values[i] # Failure
        BY <3>4, <3>6, FailureIs DEF AnyFailed, Failed
      <4> QED BY <2>6, <3>1, <3>5, <4>1
    <3>8. CASE Direct(entries)
      <4>1. y[1] = "record" /\ y[2] = fields /\ y = Record(fields)
        BY <3>6, <3>8 DEF Record
      <4>2. \A p \in Parts(y) : \E i \in DOMAIN entries : p = values[i]
        <5> HIDE DEF y, keys, values, tagged
        <5>1. Parts(y) = {fields[i][2] : i \in DOMAIN fields}
          BY <4>1 DEF Parts
        <5> QED BY <5>1
      <4>3. ~IsExtension(y)
        <5> SUFFICES ASSUME IsExtension(y) PROVE FALSE
          OBVIOUS
        <5>1. TagOf(fields) \in ExtensionTags /\ "" \notin ExtensionTags
          <6> HIDE DEF y, fields
          <6> QED BY <4>1 DEF IsExtension, ExtensionTags
        <5>2. fields = [i \in DOMAIN v[2] |-> <<v[2][i][1][2], ToNu[s][v[2][i][2]]>>]
          OBVIOUS
        <5> HIDE DEF fields, y
        <5> QED BY <2>1, <2>3, <2>10, <3>8, <4>1, <5>1, <5>2, LooksIs
      <4> HIDE DEF y, Good, entries, keys, values, tagged, fields, c
      <4> QED BY <2>4, <3>7, <4>2, <4>3
    <3>9. CASE ~Direct(entries)
      <4> DEFINE list == <<"list", tagged>>
                 whole == << <<"type", Text("msgpack-map")>>, <<"entries", list>> >>
      <4>1. y = Record(whole)
        BY <3>6, <3>9
      <4>2. y[1] = "record" /\ y[2] = whole /\ Parts(y) = {Text("msgpack-map"), list}
            /\ DOMAIN whole = 1..2 /\ whole[1][1] = "type" /\ whole[1][2] = Text("msgpack-map")
        <5>1. Record(whole)[2] = whole
          BY DEF Record
        <5> HIDE DEF y, list
        <5> QED BY <4>1, <5>1, TwoFields
      <4>3. ~IsExtension(y)
        <5>1. TagOf(whole) = "msgpack-map"
          <6> HIDE DEF whole, y
          <6> QED BY <4>2, TagIs
        <5> HIDE DEF whole, y
        <5> QED BY <4>2, <5>1 DEF IsExtension, ExtensionTags
      <4>4. Parts(y) = {Text("msgpack-map"), list}
        BY <4>2
      <4>5. Text("msgpack-map") \in Values /\ list \in Values
        BY <2>7, <4>4
      <4>6. Good(Text("msgpack-map"))
        <5>1. Text("msgpack-map")[1] = "string"
          BY DEF Text
        <5> HIDE DEF Good
        <5> QED BY <2>5, <4>5, <5>1
      <4>7. Inside[list] = {list} \cup UNION {Inside[tagged[i]] : i \in DOMAIN entries}
        <5>1. list[1] = "list" /\ list[2] = tagged
          OBVIOUS
        <5>2. Parts(list) = {tagged[i] : i \in DOMAIN entries}
          BY <3>4, <5>1 DEF Parts
        <5> HIDE DEF list, tagged, entries
        <5> QED BY <4>5, <5>2, InsideIs DEF All
      <4>8. ASSUME NEW i \in DOMAIN entries PROVE Good(tagged[i])
        <5> DEFINE both == << <<"key", keys[i]>>, <<"value", values[i]>> >>
                   e == tagged[i]
        <5>1. e = Record(both) /\ e \in Values
          <6>1. e \in Parts(list)
            BY <3>4 DEF Parts
          <6> QED BY <3>5, <4>5, <6>1, PartsAre
        <5>2. e[1] = "record" /\ e[2] = both
          BY <5>1 DEF Record
        <5>3. ~IsExtension(e)
          <6>1. {j \in DOMAIN both : both[j][1] = "type"} = {}
            OBVIOUS
          <6>2. Field(both, "type") = Missing
            <7> HIDE DEF both
            <7> QED BY <6>1 DEF Field
          <6>3. Missing[1] = "missing"
            BY DEF Missing
          <6>4. TagOf(both) = ""
            <7> HIDE DEF both
            <7> QED BY <6>2, <6>3 DEF TagOf, Has
          <6> HIDE DEF both
          <6> QED BY <5>2, <6>4 DEF IsExtension, ExtensionTags
        <5>4. Parts(e) = {keys[i], values[i]}
          <6> HIDE DEF e, keys, values
          <6> QED BY <5>1, TwoFields
        <5>5. Inside[e] = {e} \cup Inside[keys[i]] \cup Inside[values[i]]
          <6> HIDE DEF e, keys, values
          <6> QED BY <5>1, <5>4, InsideIs DEF All
        <5>6. Good(keys[i])
          <6> HIDE DEF Good, entries, keys, values, tagged, fields, c, e
          <6>1. keys[i] # Failure
            BY <3>4, <3>6, <3>9, FailureIs DEF AnyFailed, Failed
          <6> QED BY <2>6, <3>1, <3>5, <6>1
        <5>7. Good(values[i])
          BY <3>7
        <5> HIDE DEF keys, values, entries
        <5> QED BY <5>3, <5>5, <5>6, <5>7
      <4>9. Good(list)
        <5>1. ~IsExtension(list)
          <6>1. list[1] = "list"
            OBVIOUS
          <6> HIDE DEF list
          <6> QED BY <6>1 DEF IsExtension
        <5> HIDE DEF list, tagged, entries
        <5> QED BY <4>7, <4>8, <5>1
      <4> HIDE DEF y, Good, list
      <4> QED BY <2>4, <4>3, <4>4, <4>6, <4>9
    <3> QED BY <3>8, <3>9
  <2>11. ASSUME NEW fields, DOMAIN fields \subseteq Nat \ {0}, 1 \in DOMAIN fields, y = Record(fields),
                NEW tag,
                fields[1][1] = "type", fields[1][2] = Text(tag),
                tag \in ExtensionTags => v[1] = "ext",
                \A i \in DOMAIN fields : fields[i][2][1] \notin {"record", "list"}
         PROVE  Good(y)
    <3>1. y[1] = "record" /\ y[2] = fields
      BY <2>11 DEF Record
    <3>2. TagOf(fields) = tag
      BY <2>11, TagIs
    <3>3. Parts(y) = {fields[i][2] : i \in DOMAIN fields}
      BY <3>1 DEF Parts
    <3> HIDE DEF y, Good
    <3>4. ASSUME NEW p \in Parts(y) PROVE Good(p)
      BY <2>5, <2>7, <2>11, <3>3
    <3>5. IsExtension(y) => v[1] = "ext"
      BY <2>11, <3>1, <3>2 DEF IsExtension
    <3> QED BY <2>4, <3>4, <3>5
  <2>12. CASE v[1] = "int"
    <3>1. y = IntToNu(v[2])
      BY <2>1, <2>12 DEF ValueToNu
    <3>2. CASE v[2] <= MaxI64
      <4>1. y[1] = "int"
        BY <3>1, <3>2 DEF IntToNu
      <4> HIDE DEF y
      <4> QED BY <2>1, <2>5, <4>1
    <3>3. CASE ~(v[2] <= MaxI64)
      <4> DEFINE fields == << <<"type", Text("msgpack-uint")>>, <<"value", Text(Digits(v[2]))>> >>
      <4>1. y = Record(fields)
        BY <3>1, <3>3 DEF IntToNu
      <4>2. /\ DOMAIN fields = 1..2 /\ fields[1][1] = "type" /\ fields[1][2] = Text("msgpack-uint")
            /\ \A i \in DOMAIN fields : fields[i][2][1] = "string"
        BY DEF Text
      <4> HIDE DEF fields, y, Good
      <4> QED BY <2>11, <4>1, <4>2 DEF ExtensionTags
    <3> QED BY <3>2, <3>3
  <2>13. CASE v[1] = "bytes"
    <3> DEFINE fields == << <<"type", Text("msgpack-string")>>, <<"data", <<"binary", v[2]>> >> >>
    <3>1. y = Record(fields)
      BY <2>1, <2>13 DEF ValueToNu
    <3>2. /\ DOMAIN fields = 1..2 /\ fields[1][1] = "type" /\ fields[1][2] = Text("msgpack-string")
          /\ \A i \in DOMAIN fields : fields[i][2][1] \in {"string", "binary"}
      BY DEF Text
    <3> HIDE DEF fields, y, Good
    <3> QED BY <2>11, <3>1, <3>2 DEF ExtensionTags
  <2>14. CASE v[1] = "ext"
    <3> DEFINE tag == v[2][1]
               data == v[2][2]
               handle == << <<"type", Text("nvim-handle")>>, <<"kind", Text(HandleKinds[tag + 1])>>,
                            <<"id", <<"int", data[2]>> >>, <<"server", Text(s)>> >>
               other == << <<"type", Text("msgpack-ext")>>, <<"tag", <<"int", tag>> >>,
                           <<"data", <<"binary", data>> >> >>
    <3>1. y = ExtToNu(tag, data, s)
      BY <2>1, <2>14 DEF ValueToNu
    <3>2. y = Record(handle) \/ y = Record(other)
      BY <2>1, <3>1 DEF ExtToNu
    <3>3. /\ DOMAIN handle = 1..4 /\ handle[1][1] = "type" /\ handle[1][2] = Text("nvim-handle")
          /\ \A i \in DOMAIN handle : handle[i][2][1] \in {"string", "int"}
      BY DEF Text
    <3>4. /\ DOMAIN other = 1..3 /\ other[1][1] = "type" /\ other[1][2] = Text("msgpack-ext")
          /\ \A i \in DOMAIN other : other[i][2][1] \in {"string", "int", "binary"}
      BY DEF Text
    <3> HIDE DEF handle, other, y, Good
    <3>5. CASE y = Record(handle)
      BY <2>11, <2>14, <3>3, <3>5
    <3>6. CASE y = Record(other)
      BY <2>11, <2>14, <3>4, <3>6
    <3> QED BY <3>2, <3>5, <3>6
  <2> QED BY <2>8, <2>9, <2>10, <2>12, <2>13, <2>14, ValuesAssumption
<1>2. \A v \in All : v \in T
  <2> HIDE DEF T
  <2> QED BY <1>1, ByDepth
<1> QED BY <1>2 DEF All

\* A field of a name no other one has.
LEMMA OnlyField ==
    ASSUME NEW fields, NEW i \in DOMAIN fields, \A j \in DOMAIN fields : fields[j][1] = fields[i][1] => j = i
    PROVE  Field(fields, fields[i][1]) = fields[i][2]
<1> DEFINE named == {j \in DOMAIN fields : fields[j][1] = fields[i][1]}
<1>1. named = {i}
  OBVIOUS
<1>2. Min({i}) = i
  <2>1. Min({i}) = CHOOSE n \in {i} : \A m \in {i} : n <= m
    BY DEF Min
  <2>2. (CHOOSE n \in {i} : \A m \in {i} : n <= m) = i
    OBVIOUS
  <2> QED BY <2>1, <2>2
<1>3. Min(named) = i
  <2> HIDE DEF named
  <2> QED BY <1>1, <1>2
<1> QED BY <1>1, <1>3 DEF Field

\* What has become of an extension becomes it again; of a handle, in its own
\* editor only.
LEMMA ExtensionReturns ==
    ASSUME NEW s \in Servers, NEW t \in Servers, NEW w \in Packed, w[1] = "ext",
           ToNu[s][w] \in Values
    PROVE  /\ IsHandleTag(w[2][1]) => FromNu[t][ToNu[s][w]] = IF s = t THEN w ELSE Failure
           /\ ~IsHandleTag(w[2][1]) => FromNu[t][ToNu[s][w]] = w
<1> DEFINE x == ToNu[s][w]
           v == FromNu[t][x]
           tag == w[2][1]
           data == w[2][2]
           handle == << <<"type", Text("nvim-handle")>>, <<"kind", Text(HandleKinds[tag + 1])>>,
                        <<"id", <<"int", data[2]>> >>, <<"server", Text(s)>> >>
           other == << <<"type", Text("msgpack-ext")>>, <<"tag", <<"int", tag>> >>,
                       <<"data", <<"binary", data>> >> >>
           fields == x[2]
<1>1. x = ExtToNu(tag, data, s) /\ x # Failure
  <2>1. x = ExtToNu(tag, data, s)
    BY ToNuIs DEF ValueToNu
  <2>2. x[1] # "error"
    BY ValuesAssumption
  <2> HIDE DEF x
  <2> QED BY <2>1, <2>2, FailureIs
<1>2. v = ValueFromNu(x, t, FromNu[t])
  BY FromNuIs
<1>3. w = <<"ext", <<tag, data>> >> /\ data = <<data[1], data[2]>> /\ (data[1] = "id" => data[2] \in Nat)
  <2>1. IsPair(w) /\ IsPair(w[2]) /\ IsPair(w[2][2]) /\ (w[2][2][1] = "id" => w[2][2][2] \in Nat)
    BY ValuesAssumption
  <2>2. w = <<w[1], w[2]>> /\ w[2] = <<tag, data>> /\ data = <<data[1], data[2]>>
    BY <2>1 DEF IsPair
  <2> HIDE DEF tag, data
  <2> QED BY <2>1, <2>2 DEF tag, data
<1>4. \A c : Text(c)[1] = "string" /\ Text(c)[2] = c
  BY DEF Text
<1>5. CASE IsHandleTag(tag)
  <2>1. x = Record(handle) /\ data[1] = "id"
    BY <1>1, <1>5 DEF ExtToNu
  <2>2. x[1] = "record" /\ fields = handle
    <3>1. Record(handle)[1] = "record" /\ Record(handle)[2] = handle
      BY DEF Record
    <3> HIDE DEF x, handle
    <3> QED BY <2>1, <3>1
  <2>3. /\ DOMAIN handle = 1..4 /\ handle[1][1] = "type" /\ handle[2][1] = "kind"
        /\ handle[3][1] = "id" /\ handle[4][1] = "server"
        /\ handle[1][2] = Text("nvim-handle") /\ handle[2][2] = Text(HandleKinds[tag + 1])
        /\ handle[3][2] = <<"int", data[2]>> /\ handle[4][2] = Text(s)
    OBVIOUS
  <2> HIDE DEF x, handle, v, data, tag
  <2>4. \A i, j \in 1..4 : handle[j][1] = handle[i][1] => j = i
    BY <2>3
  <2>5. /\ Field(handle, "type") = Text("nvim-handle") /\ Field(handle, "server") = Text(s)
        /\ Field(handle, "kind") = Text(HandleKinds[tag + 1])
        /\ Field(handle, "id") = <<"int", data[2]>>
    <3>1. \A i \in 1..4 : Field(handle, handle[i][1]) = handle[i][2]
      BY <2>3, <2>4, OnlyField
    <3>2. 1 \in 1..4 /\ 2 \in 1..4 /\ 3 \in 1..4 /\ 4 \in 1..4
      OBVIOUS
    <3> QED BY <2>3, <3>1, <3>2
  <2>6. TagOf(fields) = "nvim-handle"
    <3> HIDE DEF fields, Text
    <3> QED BY <2>2, <2>5, <1>4 DEF TagOf, Has, Content
  <2>7. v = HandleFromNu(fields, t)
    <3> HIDE DEF fields
    <3>1. v = RecordFromNu(fields, t, FromNu[t])
      BY <1>2, <2>2 DEF ValueFromNu, fields
    <3> QED BY <2>6, <3>1 DEF RecordFromNu
  <2>8. /\ Has(fields, "server", "string") /\ Content(fields, "server") = s
        /\ Has(fields, "kind", "string") /\ Content(fields, "kind") = HandleKinds[tag + 1]
        /\ Has(fields, "id", "int") /\ Content(fields, "id") = data[2]
    <3>1. <<"int", data[2]>>[1] = "int" /\ <<"int", data[2]>>[2] = data[2]
      OBVIOUS
    <3> HIDE DEF fields, Text
    <3> QED BY <2>2, <2>5, <1>4, <3>1 DEF Content, Has
  <2>9. KindTags[HandleKinds[tag + 1]] = tag /\ HandleKinds[tag + 1] \in DOMAIN KindTags
    <3>1. tag \in {0, 1, 2}
      BY <1>5 DEF IsHandleTag
    <3> QED BY <3>1 DEF KindTags, HandleKinds
  <2>10. data[2] >= 0
    BY <1>3, <2>1
  <2>11. v = IF s = t THEN <<"ext", <<tag, <<"id", data[2]>> >> >> ELSE Failure
    <3> HIDE DEF fields
    <3> QED BY <2>7, <2>8, <2>9, <2>10 DEF HandleFromNu, Owned
  <2>12. v = IF s = t THEN w ELSE Failure
    BY <1>3, <2>1, <2>11
  <2> QED BY <1>5, <2>12 DEF v, x, tag
<1>6. CASE ~IsHandleTag(tag)
  <2>1. x = Record(other)
    BY <1>1, <1>6 DEF ExtToNu
  <2>2. x[1] = "record" /\ fields = other
    <3>1. Record(other)[1] = "record" /\ Record(other)[2] = other
      BY DEF Record
    <3> HIDE DEF x, other
    <3> QED BY <2>1, <3>1
  <2>3. /\ DOMAIN other = 1..3 /\ other[1][1] = "type" /\ other[2][1] = "tag"
        /\ other[3][1] = "data"
        /\ other[1][2] = Text("msgpack-ext") /\ other[2][2] = <<"int", tag>>
        /\ other[3][2] = <<"binary", data>>
    OBVIOUS
  <2> HIDE DEF x, other, v, data, tag
  <2>4. \A i, j \in 1..3 : other[j][1] = other[i][1] => j = i
    BY <2>3
  <2>5. /\ Field(other, "type") = Text("msgpack-ext") /\ Field(other, "tag") = <<"int", tag>>
        /\ Field(other, "data") = <<"binary", data>>
    <3>1. \A i \in 1..3 : Field(other, other[i][1]) = other[i][2]
      BY <2>3, <2>4, OnlyField
    <3>2. 1 \in 1..3 /\ 2 \in 1..3 /\ 3 \in 1..3
      OBVIOUS
    <3> QED BY <2>3, <3>1, <3>2
  <2>6. TagOf(fields) = "msgpack-ext"
    <3> HIDE DEF fields, Text
    <3> QED BY <2>2, <2>5, <1>4 DEF TagOf, Has, Content
  <2>7. v = ExtFromNu(fields)
    <3> HIDE DEF fields
    <3>1. v = RecordFromNu(fields, t, FromNu[t])
      BY <1>2, <2>2 DEF ValueFromNu, fields
    <3> QED BY <2>6, <3>1 DEF RecordFromNu
  <2>8. /\ Has(fields, "tag", "int") /\ Content(fields, "tag") = tag
        /\ Has(fields, "data", "binary") /\ Content(fields, "data") = data
    <3>1. <<"int", tag>>[1] = "int" /\ <<"int", tag>>[2] = tag
          /\ <<"binary", data>>[1] = "binary" /\ <<"binary", data>>[2] = data
      OBVIOUS
    <3> HIDE DEF fields
    <3> QED BY <2>2, <2>5, <3>1 DEF Content, Has
  <2>9. v = w
    <3> HIDE DEF fields
    <3> QED BY <1>3, <2>7, <2>8 DEF ExtFromNu
  <2> QED BY <1>6, <2>9 DEF v, x, tag
<1> QED BY <1>5, <1>6

\* No editor is sent a handle of another one, at whatever depth of lists, records,
\* tagged maps or pipeline arguments it is hidden (value.rs, nu_to_msgpack).
THEOREM HandlesStay == Spec => []HandlesStayHome
<1>1. IInv => HandlesStayHome
  <2> SUFFICES ASSUME IInv, NEW i \in DOMAIN command.sent, NEW h \in HandlesIn(command.sent[i])
               PROVE  h \in Own(command.server)
    BY DEF HandlesStayHome
  <2> DEFINE t == command.server
             x == command.args[i]
             v == command.sent[i]
  <2>1. command.phase \in {"sent", "rejected", "errored", "answered", "unreadable"}
    <3>1. command.phase \in Phases
      BY DEF IInv, TypeOK
    <3>2. command.sent # <<>>
      OBVIOUS
    <3> QED BY <3>1, <3>2 DEF IInv, Carried, Phases
  <2>2. /\ command.sent = Each(FromNu[t], command.args) /\ ~AnyFailed(command.sent)
        /\ t \in Servers /\ command.args \in Seq(Values)
    BY <2>1 DEF IInv, Carried, Issued, TypeOK
  <2>3. i \in DOMAIN command.args /\ x \in Values /\ v = FromNu[t][x] /\ ~Failed(FromNu[t][x])
    <3>1. i \in DOMAIN command.args
      BY <2>2, EachIs
    <3>2. x \in Values /\ v = FromNu[t][x]
      BY <2>2, <3>1, EachIs
    <3>3. ~Failed(v)
      BY <2>2 DEF AnyFailed
    <3> QED BY <3>1, <3>2, <3>3
  <2>4. PICK w \in Inside[v] : w[1] = "ext" /\ IsHandleTag(w[2][1]) /\ h = w[2]
    BY DEF HandlesIn
  <2> HIDE DEF t, x, v
  <2>5. PICK u \in Inside[x] : IsExtension(u) /\ w = FromNu[t][u]
    BY <2>2, <2>3, <2>4, ExtensionsFrom
  <2>6. u \in Values
    BY <2>3, <2>5, InsideClosed
  <2>7. x \notin Literals
    BY <2>5, NoLookAlikes
  <2>8. Inside[Nothing] = {Nothing} /\ ~IsExtension(Nothing)
    <3>1. Nothing[1] = "nothing"
      BY DEF Nothing
    <3>2. Parts(Nothing) = {}
      BY <3>1 DEF Parts
    <3>3. Nothing \in All
      BY CallAssumption DEF All
    <3> HIDE DEF Nothing
    <3> QED BY <3>1, <3>2, <3>3, InsideIs DEF IsExtension
  <2>9. x # Nothing
    BY <2>5, <2>8
  <2>10. held.value \in Values /\ held.value \in All
    BY DEF IInv, TypeOK, All
  <2>11. u \in Inside[held.value]
    <3>1. x \in Inside[held.value]
      BY <2>3, <2>7, <2>9 DEF IInv, Carried, x
    <3> QED BY <2>5, <2>10, <3>1, InsideClosed
  <2> DEFINE s == held.from
             r == held.was
  <2>12. s # "none" /\ r \in Samples[s] /\ held.value = ToNu[s][r]
    <3>1. s # "none"
      <4> SUFFICES ASSUME s = "none" PROVE FALSE
        OBVIOUS
      <4>1. held.value = Nothing
        <5>1. held = NoResult
          BY DEF IInv, Holds
        <5>2. NoResult.value = Nothing
          BY DEF NoResult
        <5> HIDE DEF Nothing
        <5> QED BY <5>1, <5>2
      <4> QED BY <2>5, <2>8, <2>11, <4>1
    <3> QED BY <3>1 DEF IInv, Holds
  <2>13. s \in Servers /\ r \in Packed
    BY <2>12 DEF IInv, TypeOK
  <2>14. ~Failed(ToNu[s][r]) /\ \A q \in Inside[r] : ~LooksTagged(q, ExtensionTags)
    <3>1. held.value[1] # "error"
      BY <2>10, ValuesAssumption
    <3> QED BY <2>12, <2>13, <3>1, NoLookAlikes DEF Failed
  <2> HIDE DEF s, r
  <2>15. PICK q \in Inside[r] : q[1] = "ext" /\ u = ToNu[s][q]
    BY <2>5, <2>11, <2>12, <2>13, <2>14, RecordsFrom
  <2>16. q \in Packed
    BY <2>13, <2>15, InsideClosed
  <2>17. s = t /\ w[2] = q[2] /\ IsHandleTag(q[2][1])
    <3>1. w = q /\ (s = t \/ ~IsHandleTag(q[2][1]))
      BY <2>2, <2>4, <2>5, <2>6, <2>13, <2>15, <2>16, ExtensionReturns, FailureIs
    <3> QED BY <2>4, <3>1
  <2>18. h \in HandlesIn(r)
    BY <2>4, <2>15, <2>17 DEF HandlesIn
  <2> QED BY <2>12, <2>17, <2>18 DEF Own, t
<1> QED BY <1>1, Invariance, PTL

(***************************************************************************)
(* There and back.                                                         *)
(***************************************************************************)
LEMMA WidenedIs == \A v \in Packed : Widened[v] = Wider(v, Widened)
<1> DEFINE Step(g, u) == Wider(u, g)
<1>0. \A u \in Packed : Depth(u) \in Nat
  BY PartsAre DEF All
<1>1. ASSUME NEW u \in Packed, NEW g, NEW h,
             \A w \in Packed : Depth(w) < Depth(u) => g[w] = h[w]
      PROVE  Step(g, u) = Step(h, u)
  <2>1. \A w \in Parts(u) : g[w] = h[w]
    BY <1>1, PartsAre DEF All
  <2>2. CASE u[1] = "array"
    <3>1. \A i \in DOMAIN u[2] : u[2][i] \in Parts(u)
      BY <2>2 DEF Parts
    <3>2. Each(g, u[2]) = Each(h, u[2])
      BY <2>1, <3>1 DEF Each
    <3> QED BY <2>2, <3>2 DEF Wider
  <2>3. CASE u[1] = "map"
    <3>1. \A i \in DOMAIN u[2] : u[2][i][1] \in Parts(u) /\ u[2][i][2] \in Parts(u)
      BY <2>3 DEF Parts
    <3>2. [i \in DOMAIN u[2] |-> <<g[u[2][i][1]], g[u[2][i][2]]>>]
              = [i \in DOMAIN u[2] |-> <<h[u[2][i][1]], h[u[2][i][2]]>>]
      BY <2>1, <3>1
    <3> QED BY <2>3, <3>2 DEF Wider
  <2>4. CASE u[1] \notin {"array", "map"}
    BY <2>4 DEF Wider
  <2> QED BY <2>2, <2>3, <2>4
<1> DEFINE Up(k) == {v \in Packed : Depth(v) < k}
           Good(g, k) == g = [v \in Up(k) |-> Step(g, v)]
<1> HIDE DEF Step
<1>2. ASSUME NEW k \in Nat
      PROVE  \E g : Good(g, k)
  <2> DEFINE Bad == {n \in Nat : ~\E g : Good(g, n)}
  <2> SUFFICES ASSUME Bad # {} PROVE FALSE
    OBVIOUS
  <2>1. PICK n \in Bad : \A m \in Bad : n <= m
    <3>1. Bad \subseteq Nat
      OBVIOUS
    <3> HIDE DEF Bad
    <3> QED BY <3>1, Least
  <2>2. n # 0
    <3> SUFFICES ASSUME n = 0 PROVE FALSE
      OBVIOUS
    <3>1. Up(n) = {}
      BY <1>0
    <3>2. Good(<<>>, n)
      BY <3>1
    <3> QED BY <2>1, <3>2
  <2>3. n - 1 \in Nat /\ n - 1 \notin Bad
    <3>1. n \in Nat
      BY <2>1
    <3> HIDE DEF Bad
    <3> QED BY <2>1, <2>2, <3>1
  <2>4. PICK g : Good(g, n - 1)
    BY <2>3
  <2> DEFINE h == [v \in Up(n) |-> Step(g, v)]
  <2>5. ASSUME NEW v \in Up(n) PROVE Step(g, v) = Step(h, v)
    <3>1. ASSUME NEW w \in Packed, Depth(w) < Depth(v) PROVE g[w] = h[w]
      <4>1. w \in Up(n - 1) /\ w \in Up(n)
        BY <1>0, <2>1, <3>1
      <4> QED BY <2>4, <4>1
    <3> QED BY <1>1, <3>1
  <2>6. Good(h, n)
    BY <2>5
  <2> QED BY <2>1, <2>6
<1>3. ASSUME NEW k \in Nat, NEW m \in Nat, k <= m, NEW g, NEW h, Good(g, k), Good(h, m),
             NEW u \in Up(k)
      PROVE  g[u] = h[u]
  <2> DEFINE Bad == {Depth(v) : v \in {v \in Up(k) : g[v] # h[v]}}
  <2> SUFFICES ASSUME Bad # {} PROVE FALSE
    OBVIOUS
  <2>1. PICK n \in Bad : \A l \in Bad : n <= l
    <3>1. Bad \subseteq Nat
      BY <1>0
    <3> HIDE DEF Bad
    <3> QED BY <3>1, Least
  <2>2. PICK v \in Up(k) : g[v] # h[v] /\ n = Depth(v)
    BY <2>1
  <2>3. ASSUME NEW w \in Packed, Depth(w) < Depth(v) PROVE g[w] = h[w]
    <3>1. w \in Up(k)
      BY <1>0, <2>2, <2>3
    <3> QED BY <1>0, <2>1, <2>2, <2>3, <3>1
  <2>4. Step(g, v) = Step(h, v)
    BY <1>1, <2>2, <2>3
  <2>5. v \in Up(m)
    BY <1>0, <1>3, <2>2
  <2> QED BY <1>3, <2>2, <2>4, <2>5
<1> DEFINE H(v) == CHOOSE g : Good(g, Depth(v) + 1)
           F == [v \in Packed |-> H(v)[v]]
<1>4. ASSUME NEW v \in Packed PROVE F[v] = Step(F, v)
  <2>1. \A w \in Packed : Depth(w) + 1 \in Nat /\ w \in Up(Depth(w) + 1)
    BY <1>0
  <2>2. ASSUME NEW w \in Packed PROVE Good(H(w), Depth(w) + 1)
    <3> HIDE DEF Good
    <3> QED BY <1>2, <2>1
  <2>3. ASSUME NEW w \in Packed, Depth(w) < Depth(v) PROVE H(v)[w] = F[w]
    <3>1. Depth(w) + 1 <= Depth(v) + 1
      BY <1>0, <2>3
    <3> HIDE DEF Good, Up, H
    <3> QED BY <1>3, <2>1, <2>2, <3>1
  <2>4. Step(H(v), v) = Step(F, v)
    <3> HIDE DEF F, H
    <3> QED BY <1>1, <2>3
  <2>5. H(v)[v] = Step(H(v), v)
    <3> HIDE DEF H
    <3> QED BY <2>1, <2>2
  <2> QED BY <2>4, <2>5
<1>5. F = [v \in Packed |-> Step(F, v)]
  <2> HIDE DEF H
  <2>1. F = [v \in Packed |-> F[v]]
    OBVIOUS
  <2> HIDE DEF F
  <2> QED BY <1>4, <2>1
<1>6. Widened = CHOOSE f : f = [u \in Packed |-> Step(f, u)]
  BY DEF Widened, Step
<1>7. Widened = [u \in Packed |-> Step(Widened, u)]
  BY <1>5, <1>6
<1> QED BY <1>7 DEF Step

\* Only a malformed handle, or one of too great a number, cannot be read.
LEMMA FailsUnreadable ==
    ASSUME NEW s \in Servers
    PROVE  \A v \in Packed : Failed(ToNu[s][v]) => ~Readable(v)
<1> DEFINE c == ToNu[s]
           Culprit(w) == w[1] = "ext" /\ IsHandleTag(w[2][1])
                         /\ ~(w[2][2][1] = "id" /\ w[2][2][2] <= MaxI64)
           Fine(v) == Failed(c[v]) => \E w \in Inside[v] : Culprit(w)
           T == {v \in All : v \in Packed => Fine(v)}
<1>1. ASSUME NEW v \in All, \A w \in All : Depth(w) < Depth(v) => w \in T
      PROVE  v \in T
  <2> SUFFICES ASSUME v \in Packed, Failed(c[v])
               PROVE  \E w \in Inside[v] : Culprit(w)
    OBVIOUS
  <2>1. c[v] = ValueToNu(v, s, c) /\ c[v][1] = "error"
    BY ToNuIs DEF Failed
  <2>2. v \in Inside[v]
    BY InsideClosed
  <2> HIDE DEF Culprit
  <2>3. ASSUME NEW w \in Parts(v), Failed(c[w]) PROVE \E u \in Inside[v] : Culprit(u)
    <3>1. w \in Packed /\ w \in All /\ w \in T
      BY <1>1, PartsAre DEF All
    <3>2. Inside[w] \subseteq Inside[v]
      BY InsideIs
    <3> QED BY <2>3, <3>1, <3>2
  <2>4. CASE v[1] = "array"
    <3>1. c[v] = IF AnyFailed(Each(c, v[2])) THEN Failure ELSE <<"list", Each(c, v[2])>>
      BY <2>1, <2>4 DEF ValueToNu
    <3>2. AnyFailed(Each(c, v[2]))
      <4> HIDE DEF c
      <4> QED BY <2>1, <3>1
    <3>3. PICK i \in DOMAIN v[2] : Failed(c[v[2][i]])
      BY <3>2 DEF AnyFailed, Each
    <3>4. v[2][i] \in Parts(v)
      BY <2>4 DEF Parts
    <3> QED BY <2>3, <3>3, <3>4
  <2>5. CASE v[1] = "map"
    <3> DEFINE entries == v[2]
               keys == [i \in DOMAIN entries |-> c[entries[i][1]]]
               values == [i \in DOMAIN entries |-> c[entries[i][2]]]
    <3>1. AnyFailed(values) \/ AnyFailed(keys)
      <4> SUFFICES ASSUME ~(AnyFailed(values) \/ (~Direct(entries) /\ AnyFailed(keys))) PROVE FALSE
        OBVIOUS
      <4>1. c[v][1] = "record"
        <5>1. \E fields : c[v] = Record(fields)
          BY <2>1, <2>5 DEF ValueToNu, MapToNu
        <5> HIDE DEF c
        <5> QED BY <5>1 DEF Record
      <4> HIDE DEF c
      <4> QED BY <2>1, <4>1
    <3>2. PICK i \in DOMAIN entries : Failed(c[entries[i][1]]) \/ Failed(c[entries[i][2]])
      BY <3>1 DEF AnyFailed
    <3>3. entries[i][1] \in Parts(v) /\ entries[i][2] \in Parts(v)
      BY <2>5 DEF Parts
    <3> HIDE DEF c
    <3> QED BY <2>3, <3>2, <3>3 DEF c
  <2>6. CASE v[1] = "ext"
    <3>1. c[v] = ExtToNu(v[2][1], v[2][2], s)
      BY <2>1, <2>6 DEF ValueToNu
    <3>2. IsHandleTag(v[2][1]) /\ ~(v[2][2][1] = "id" /\ v[2][2][2] <= MaxI64)
      BY <2>1, <3>1 DEF ExtToNu, Record
    <3> QED BY <2>2, <2>6, <3>2 DEF Culprit
  <2>7. CASE v[1] \in {"nil", "bool", "int", "f32", "f64", "str", "bytes", "bin"}
    <3>1. c[v][1] # "error"
      <4>1. CASE v[1] = "nil"
        <5>1. c[v] = <<"nothing", "">>
          BY <2>1, <4>1 DEF ValueToNu
        <5>2. <<"nothing", "">>[1] = "nothing"
          OBVIOUS
        <5>3. c[v][1] = "nothing"
          BY ONLY <5>1, <5>2
        <5> QED BY <5>3
      <4>2. CASE v[1] = "bool"
        BY <2>1, <4>2 DEF ValueToNu
      <4>3. CASE v[1] = "int"
        BY <2>1, <4>3 DEF ValueToNu, IntToNu, Record
      <4>4. CASE v[1] \in {"f32", "f64"}
        BY <2>1, <4>4 DEF ValueToNu
      <4>5. CASE v[1] = "str"
        BY <2>1, <4>5 DEF ValueToNu, Text
      <4>6. CASE v[1] = "bytes"
        BY <2>1, <4>6 DEF ValueToNu, Record
      <4>7. CASE v[1] = "bin"
        BY <2>1, <4>7 DEF ValueToNu
      <4> QED BY <2>7, <4>1, <4>2, <4>3, <4>4, <4>5, <4>6, <4>7
    <3> QED BY <2>1, <3>1
  <2> QED BY <2>4, <2>5, <2>6, <2>7, ValuesAssumption
<1>2. \A v \in All : v \in T
  <2> HIDE DEF T
  <2> QED BY <1>1, ByDepth
<1>3. ASSUME NEW v \in Packed, Failed(c[v]) PROVE ~Readable(v)
  <2>1. PICK w \in Inside[v] : Culprit(w)
    BY <1>2, <1>3 DEF All
  <2>2. w[2] \in HandlesIn(v)
    BY <2>1 DEF HandlesIn
  <2> QED BY <2>1, <2>2 DEF Readable
<1> QED BY <1>3

\* What can be read and does not look like a tagged record comes back as it was.
LEMMA RoundTrip ==
    ASSUME NEW s \in Servers
    PROVE  \A v \in Packed :
               ~Failed(ToNu[s][v]) /\ (\A w \in Inside[v] : ~LooksTagged(w, Tags)) =>
                   FromNu[s][ToNu[s][v]] = Widened[v] /\ Widened[v][1] # "error"
<1> DEFINE c == ToNu[s]
           d == FromNu[s]
           Fine(v) == ~Failed(c[v]) /\ (\A w \in Inside[v] : ~LooksTagged(w, Tags)) =>
                          d[c[v]] = Widened[v] /\ Widened[v][1] # "error"
           T == {v \in All : v \in Packed => Fine(v)}
<1>1. ASSUME NEW v \in All, \A w \in All : Depth(w) < Depth(v) => w \in T
      PROVE  v \in T
  <2> SUFFICES ASSUME v \in Packed, ~Failed(c[v]), \A w \in Inside[v] : ~LooksTagged(w, Tags)
               PROVE  d[c[v]] = Widened[v] /\ Widened[v][1] # "error"
    OBVIOUS
  <2> DEFINE y == c[v]
  <2> SUFFICES d[y] = Widened[v] /\ Widened[v][1] # "error"
    OBVIOUS
  <2>1. y \in Values /\ y = ValueToNu(v, s, c) /\ y # Failure
    <3>1. y \in Values \cup {Failure} /\ y[1] # "error"
      BY ConversionsAssumption DEF Failed
    <3> QED BY <3>1, FailureIs, ToNuIs
  <2>2. d[y] = ValueFromNu(y, s, d)
    BY <2>1, FromNuIs
  <2>3. Widened[v] = Wider(v, Widened)
    BY WidenedIs
  <2>4. v = <<v[1], v[2]>>
    BY ValuesAssumption DEF IsPair
  <2>5. ~LooksTagged(v, Tags)
    BY InsideClosed
  <2> HIDE DEF T
  <2>6. ASSUME NEW w \in Parts(v), c[w] # Failure
        PROVE  d[c[w]] = Widened[w] /\ Widened[w][1] # "error" /\ c[w] \in Values
    <3>1. w \in Packed /\ w \in All /\ w \in T
      BY <1>1, PartsAre DEF All
    <3>2. Inside[w] \subseteq Inside[v]
      BY InsideIs
    <3>3. c[w] \in Values
      BY <2>6, <3>1, ConversionsAssumption
    <3>4. ~Failed(c[w])
      BY <3>3, ValuesAssumption DEF Failed
    <3> QED BY <3>1, <3>2, <3>3, <3>4 DEF T
  <2>7. ASSUME v[1] \notin {"f32", "array", "map"}, d[y] = v
        PROVE  d[y] = Widened[v] /\ Widened[v][1] # "error"
    <3>1. Widened[v] = v
      BY <2>3, <2>7 DEF Wider
    <3>2. v[1] # "error"
      BY ValuesAssumption
    <3> HIDE DEF d, y
    <3> QED BY <2>7, <3>1, <3>2
  <2>8. CASE v[1] = "nil"
    <3>1. y = <<"nothing", "">>
      BY <2>1, <2>8 DEF ValueToNu
    <3>2. <<"nothing", "">>[1] = "nothing"
      OBVIOUS
    <3>3. y[1] = "nothing"
      BY ONLY <3>1, <3>2
    <3>4. d[y] = <<"nil", "">>
      BY <2>2, <3>3 DEF ValueFromNu
    <3>5. v[2] = ""
      BY <2>8, ValuesAssumption
    <3> HIDE DEF d, y
    <3> QED BY <2>4, <2>7, <2>8, <3>4, <3>5
  <2>9. CASE v[1] = "bool"
    <3>1. y = v
      BY <2>1, <2>9 DEF ValueToNu
    <3>2. d[y] = v
      BY <2>2, <2>9, <3>1 DEF ValueFromNu
    <3> QED BY <2>7, <2>9, <3>2
  <2>10. CASE v[1] \in {"f32", "f64"}
    <3>1. y = <<"float", v[2]>>
      BY <2>1, <2>10 DEF ValueToNu
    <3>2. d[y] = <<"f64", v[2]>>
      BY <2>2, <3>1 DEF ValueFromNu
    <3>3. CASE v[1] = "f64"
      <4> HIDE DEF d, y
      <4> QED BY <2>4, <2>7, <3>2, <3>3
    <3>4. CASE v[1] = "f32"
      BY <2>3, <3>2, <3>4 DEF Wider
    <3> QED BY <2>10, <3>3, <3>4
  <2>11. CASE v[1] = "str"
    <3>1. y = <<"string", v[2]>>
      BY <2>1, <2>11 DEF ValueToNu, Text
    <3>2. d[y] = <<"str", v[2]>>
      BY <2>2, <3>1 DEF ValueFromNu
    <3> HIDE DEF d, y
    <3> QED BY <2>4, <2>7, <2>11, <3>2
  <2>12. CASE v[1] = "bin"
    <3>1. y = <<"binary", v[2]>>
      BY <2>1, <2>12 DEF ValueToNu
    <3>2. d[y] = <<"bin", v[2]>>
      BY <2>2, <3>1 DEF ValueFromNu
    <3> HIDE DEF d, y
    <3> QED BY <2>4, <2>7, <2>12, <3>2
  <2>13. CASE v[1] = "ext"
    <3>1. d[y] = v
      BY <2>1, <2>13, ExtensionReturns
    <3> QED BY <2>7, <2>13, <3>1
  <2>14. CASE v[1] = "int"
    <3>1. y = IntToNu(v[2])
      BY <2>1, <2>14 DEF ValueToNu
    <3>2. v[2] \in (-MaxI64 - 1)..MaxU64
      BY <2>14, NumbersAssumption
    <3>3. CASE v[2] <= MaxI64
      <4>1. y = <<"int", v[2]>>
        BY <3>1, <3>3 DEF IntToNu
      <4>2. d[y] = y
        BY <2>2, <4>1 DEF ValueFromNu
      <4>3. d[y] = v
        BY <2>4, <2>14, <4>1, <4>2
      <4> QED BY <2>7, <2>14, <4>3
    <3>4. CASE ~(v[2] <= MaxI64)
      <4> DEFINE a == Text("msgpack-uint")
                 b == Text(Digits(v[2]))
                 fields == << <<"type", a>>, <<"value", b>> >>
      <4>0. a[1] = "string" /\ a[2] = "msgpack-uint" /\ b[1] = "string" /\ b[2] = Digits(v[2])
        BY DEF Text
      <4>1. y = Record(fields)
        BY <3>1, <3>4 DEF IntToNu
      <4>2. y[1] = "record" /\ y[2] = fields /\ DOMAIN fields = 1..2
            /\ fields[1][1] = "type" /\ fields[1][2] = a /\ fields[2][1] = "value" /\ fields[2][2] = b
        <5>1. Record(fields)[2] = fields
          BY DEF Record
        <5> HIDE DEF y, a, b
        <5> QED BY <4>1, <5>1, TwoFields
      <4> HIDE DEF y, a, b, fields, d
      <4>3. Field(fields, "type") = a /\ Field(fields, "value") = b
        <5>1. \A i, j \in 1..2 : fields[j][1] = fields[i][1] => j = i
          BY <4>2
        <5>2. \A i \in 1..2 : Field(fields, fields[i][1]) = fields[i][2]
          BY <4>2, <5>1, OnlyField
        <5>3. 1 \in 1..2 /\ 2 \in 1..2
          OBVIOUS
        <5> QED BY <4>2, <5>2, <5>3
      <4>4. d[y] = UnsignedFromNu(fields)
        <5>1. TagOf(fields) = "msgpack-uint"
          BY <4>0, <4>3 DEF TagOf, Has, Content
        <5>2. d[y] = RecordFromNu(fields, s, d)
          BY <2>2, <4>2 DEF ValueFromNu
        <5> QED BY <5>1, <5>2 DEF RecordFromNu
      <4> DEFINE numbers == {n \in 0..MaxU64 : Has(fields, "value", "string")
                                                 /\ Digits(n) = Content(fields, "value")}
      <4>5. v[2] \in 0..MaxU64
        BY <3>2, <3>4, IntegerWidths
      <4>6. Has(fields, "value", "string") /\ Content(fields, "value") = Digits(v[2])
        BY <4>0, <4>3 DEF Has, Content
      <4>7. numbers = {v[2]}
        <5>1. \A n \in 0..MaxU64 : Digits(n) = Digits(v[2]) => n = v[2]
          BY <4>5, NumbersAssumption
        <5> QED BY <4>5, <4>6, <5>1
      <4>8. d[y] = <<"int", v[2]>>
        <5>1. UnsignedFromNu(fields) =
                  IF numbers = {} THEN Failure ELSE <<"int", CHOOSE n \in numbers : TRUE>>
          BY DEF UnsignedFromNu
        <5>2. (CHOOSE n \in {v[2]} : TRUE) = v[2]
          OBVIOUS
        <5> HIDE DEF numbers
        <5> QED BY <4>4, <4>7, <5>1, <5>2
      <4>9. d[y] = v
        BY <2>4, <2>14, <4>8
      <4> QED BY <2>7, <2>14, <4>9
    <3> QED BY <3>3, <3>4
  <2>15. CASE v[1] = "bytes"
    <3> DEFINE a == Text("msgpack-string")
               b == <<"binary", v[2]>>
               fields == << <<"type", a>>, <<"data", b>> >>
    <3>0. a[1] = "string" /\ a[2] = "msgpack-string" /\ b[1] = "binary" /\ b[2] = v[2]
      BY DEF Text
    <3>1. y = Record(fields)
      BY <2>1, <2>15 DEF ValueToNu
    <3>2. y[1] = "record" /\ y[2] = fields /\ DOMAIN fields = 1..2
          /\ fields[1][1] = "type" /\ fields[1][2] = a /\ fields[2][1] = "data" /\ fields[2][2] = b
      <4>1. Record(fields)[2] = fields
        BY DEF Record
      <4> HIDE DEF y, a, b
      <4> QED BY <3>1, <4>1, TwoFields
    <3> HIDE DEF y, a, b, fields, d
    <3>3. Field(fields, "type") = a /\ Field(fields, "data") = b
      <4>1. \A i, j \in 1..2 : fields[j][1] = fields[i][1] => j = i
        BY <3>2
      <4>2. \A i \in 1..2 : Field(fields, fields[i][1]) = fields[i][2]
        BY <3>2, <4>1, OnlyField
      <4>3. 1 \in 1..2 /\ 2 \in 1..2
        OBVIOUS
      <4> QED BY <3>2, <4>2, <4>3
    <3>4. d[y] = BytesFromNu(fields)
      <4>1. TagOf(fields) = "msgpack-string"
        BY <3>0, <3>3 DEF TagOf, Has, Content
      <4>2. d[y] = RecordFromNu(fields, s, d)
        BY <2>2, <3>2 DEF ValueFromNu
      <4> QED BY <4>1, <4>2 DEF RecordFromNu
    <3>5. d[y] = <<"bytes", v[2]>>
      BY <3>0, <3>3, <3>4 DEF BytesFromNu, Has, Content
    <3>6. d[y] = v
      BY <2>4, <2>15, <3>5
    <3> QED BY <2>7, <2>15, <3>6
  <2>16. CASE v[1] = "array"
    <3> DEFINE items == v[2]
               there == Each(c, items)
               back == Each(d, there)
    <3>1. items \in Seq(Packed) /\ \A i \in DOMAIN items : items[i] \in Parts(v)
      BY <2>16, ValuesAssumption DEF Parts
    <3>2. /\ DOMAIN there = DOMAIN items /\ DOMAIN back = DOMAIN items
          /\ \A i \in DOMAIN items : there[i] = c[items[i]] /\ back[i] = d[there[i]]
      BY DEF Each
    <3>3. y = IF AnyFailed(there) THEN Failure ELSE <<"list", there>>
      BY <2>1, <2>16 DEF ValueToNu
    <3> HIDE DEF there, back
    <3>4. y = <<"list", there>> /\ ~AnyFailed(there)
      <4> HIDE DEF y, c
      <4> QED BY <2>1, <3>3
    <3>5. d[y] = IF AnyFailed(back) THEN Failure ELSE <<"array", back>>
      <4>1. y[1] = "list" /\ y[2] = there
        BY ONLY <3>4
      <4> QED BY <2>2, <4>1 DEF ValueFromNu, back
    <3>6. \A i \in DOMAIN items : back[i] = Widened[items[i]] /\ back[i][1] # "error"
      <4>1. \A i \in DOMAIN items : c[items[i]] # Failure
        <5> HIDE DEF c
        <5> QED BY <3>2, <3>4, FailureIs DEF AnyFailed, Failed
      <4>2. ASSUME NEW i \in DOMAIN items
            PROVE  back[i] = Widened[items[i]] /\ back[i][1] # "error"
        <5>1. d[c[items[i]]] = Widened[items[i]] /\ Widened[items[i]][1] # "error"
          BY <2>6, <3>1, <4>1
        <5>2. back[i] = d[c[items[i]]]
          BY <3>2
        <5> HIDE DEF c, d
        <5> QED BY <5>1, <5>2
      <4> QED BY <4>2
    <3>7. ~AnyFailed(back)
      BY <3>2, <3>6 DEF AnyFailed, Failed
    <3>8. back = Each(Widened, items)
      <4>1. back = [i \in DOMAIN items |-> back[i]]
        BY <3>2 DEF Each, back
      <4> QED BY <3>6, <4>1 DEF Each
    <3>9. Widened[v] = <<"array", Each(Widened, items)>>
      BY <2>3, <2>16 DEF Wider
    <3>10. d[y] = Widened[v] /\ Widened[v] = <<"array", back>>
      <4> HIDE DEF d, y, items
      <4> QED BY <3>5, <3>7, <3>8, <3>9
    <3> HIDE DEF d, y
    <3> QED BY <3>10
  <2>17. CASE v[1] = "map"
    <3> DEFINE entries == v[2]
               keys == [i \in DOMAIN entries |-> c[entries[i][1]]]
               values == [i \in DOMAIN entries |-> c[entries[i][2]]]
               tagged == [i \in DOMAIN entries |->
                             Record(<< <<"key", keys[i]>>, <<"value", values[i]>> >>)]
               fields == [i \in DOMAIN entries |-> <<entries[i][1][2], values[i]>>]
               wide == [i \in DOMAIN entries |-> <<Widened[entries[i][1]], Widened[entries[i][2]]>>]
    <3>1. \A i \in DOMAIN entries : entries[i][1] \in Parts(v) /\ entries[i][2] \in Parts(v)
      BY <2>17 DEF Parts
    <3>2. y = IF AnyFailed(values) \/ (~Direct(entries) /\ AnyFailed(keys)) THEN Failure
              ELSE IF Direct(entries) THEN Record(fields)
              ELSE Record(<< <<"type", Text("msgpack-map")>>, <<"entries", <<"list", tagged>> >> >>)
      BY <2>1, <2>17 DEF ValueToNu, MapToNu
    <3>3. \A i \in DOMAIN entries :
             /\ keys[i] = c[entries[i][1]] /\ values[i] = c[entries[i][2]]
             /\ fields[i] = <<entries[i][1][2], values[i]>>
             /\ tagged[i] = Record(<< <<"key", keys[i]>>, <<"value", values[i]>> >>)
             /\ wide[i] = <<Widened[entries[i][1]], Widened[entries[i][2]]>>
      OBVIOUS
    <3>4. /\ DOMAIN keys = DOMAIN entries /\ DOMAIN values = DOMAIN entries
          /\ DOMAIN tagged = DOMAIN entries /\ DOMAIN fields = DOMAIN entries
      OBVIOUS
    <3>5. /\ ~AnyFailed(values) /\ (~Direct(entries) => ~AnyFailed(keys))
          /\ Direct(entries) => y = Record(fields)
          /\ ~Direct(entries) =>
                y = Record(<< <<"type", Text("msgpack-map")>>, <<"entries", <<"list", tagged>> >> >>)
      <4> HIDE DEF y, keys, values, tagged, fields, entries
      <4> QED BY <2>1, <3>2
    <3>6. Widened[v] = <<"map", wide>>
      BY <2>3, <2>17 DEF Wider
    <3>7. \A i \in DOMAIN entries : /\ d[values[i]] = Widened[entries[i][2]]
                                    /\ Widened[entries[i][2]][1] # "error"
                                    /\ values[i] \in Values
      <4> HIDE DEF y, entries, keys, values, tagged, fields, wide, c, d
      <4>1. \A i \in DOMAIN entries : values[i] # Failure
        BY <3>4, <3>5, FailureIs DEF AnyFailed, Failed
      <4>2. ASSUME NEW i \in DOMAIN entries
            PROVE  /\ d[values[i]] = Widened[entries[i][2]] /\ Widened[entries[i][2]][1] # "error"
                   /\ values[i] \in Values
        <5> DEFINE w == entries[i][2]
        <5>1. w \in Parts(v) /\ values[i] = c[w] /\ c[w] # Failure
          BY <3>1, <3>3, <4>1
        <5> HIDE DEF w
        <5>2. d[c[w]] = Widened[w] /\ Widened[w][1] # "error" /\ c[w] \in Values
          BY <2>6, <5>1
        <5> QED BY <5>1, <5>2 DEF w
      <4> QED BY <4>2
    <3> SUFFICES d[y] = <<"map", wide>>
      <4>1. <<"map", wide>>[1] = "map"
        OBVIOUS
      <4> HIDE DEF wide, d, y
      <4> QED BY <3>6, <4>1
    <3>8. CASE Direct(entries)
      <4>1. y[1] = "record" /\ y[2] = fields /\ y = Record(fields)
        <5>1. Record(fields)[1] = "record" /\ Record(fields)[2] = fields
          BY DEF Record
        <5> HIDE DEF y, fields, entries
        <5> QED BY <3>5, <3>8, <5>1
      <4>2. TagOf(fields) \notin Tags
        <5> SUFFICES ASSUME TagOf(fields) \in Tags PROVE FALSE
          OBVIOUS
        <5>1. fields = [i \in DOMAIN v[2] |-> <<v[2][i][1][2], ToNu[s][v[2][i][2]]>>]
          OBVIOUS
        <5>2. "" \notin Tags
          BY DEF Tags
        <5> HIDE DEF fields, y
        <5> QED BY <2>1, <2>5, <2>17, <3>8, <4>1, <5>1, <5>2, LooksIs
      <4> DEFINE back == [i \in DOMAIN fields |-> d[fields[i][2]]]
                 pairs == [i \in DOMAIN fields |-> << <<"str", fields[i][1]>>, back[i]>>]
      <4>3. d[y] = IF AnyFailed(back) THEN Failure ELSE <<"map", pairs>>
        <5> HIDE DEF y, fields, d
        <5>1. d[y] = RecordFromNu(fields, s, d)
          BY <2>2, <4>1 DEF ValueFromNu
        <5>2. d[y] = PlainFromNu(fields, d)
          BY <4>2, <5>1 DEF RecordFromNu, Tags
        <5> QED BY <5>2 DEF PlainFromNu
      <4>4. \A i \in DOMAIN entries :
               /\ back[i] = Widened[entries[i][2]] /\ back[i][1] # "error"
               /\ pairs[i] = << <<"str", entries[i][1][2]>>, Widened[entries[i][2]]>>
        <5>1. \A i \in DOMAIN entries : /\ back[i] = d[values[i]]
                                        /\ pairs[i] = << <<"str", entries[i][1][2]>>, back[i]>>
          BY <3>3, <3>4
        <5> HIDE DEF back, pairs, entries, values, fields, d
        <5> QED BY <3>7, <5>1
      <4>5. DOMAIN back = DOMAIN entries /\ DOMAIN pairs = DOMAIN entries
            /\ pairs = [i \in DOMAIN entries |-> pairs[i]]
        OBVIOUS
      <4>6. ~AnyFailed(back)
        <5> HIDE DEF back, entries
        <5> QED BY <4>4, <4>5 DEF AnyFailed, Failed
      <4>7. ASSUME NEW i \in DOMAIN entries PROVE <<"str", entries[i][1][2]>> = Widened[entries[i][1]]
        <5> DEFINE k == entries[i][1]
        <5>1. k[1] = "str"
          BY <3>8 DEF Direct
        <5>2. k \in Packed
          BY <3>1, PartsAre
        <5>3. IsPair(k) /\ Widened[k] = Wider(k, Widened)
          BY <5>2, ValuesAssumption, WidenedIs
        <5> HIDE DEF k
        <5>4. Widened[k] = k
          BY <5>1, <5>3 DEF Wider
        <5> QED BY <5>1, <5>3, <5>4 DEF IsPair, k
      <4>8. pairs = wide
        <5>1. \A i \in DOMAIN entries : pairs[i] = wide[i]
          <6> SUFFICES ASSUME NEW i \in DOMAIN entries PROVE pairs[i] = wide[i]
            OBVIOUS
          <6>1. pairs[i] = << <<"str", entries[i][1][2]>>, Widened[entries[i][2]]>>
            BY <4>4
          <6>2. wide[i] = <<Widened[entries[i][1]], Widened[entries[i][2]]>>
            BY <3>3
          <6> HIDE DEF pairs, wide, entries
          <6> QED BY <4>7, <6>1, <6>2
        <5>2. wide = [i \in DOMAIN entries |-> wide[i]]
          OBVIOUS
        <5> HIDE DEF pairs, wide, entries, back
        <5> QED BY <4>5, <5>1, <5>2
      <4> HIDE DEF y, pairs, wide, back, d
      <4> QED BY <4>3, <4>6, <4>8
    <3>9. CASE ~Direct(entries)
      <4> DEFINE a == Text("msgpack-map")
                 list == <<"list", tagged>>
                 whole == << <<"type", a>>, <<"entries", list>> >>
      <4>0. a[1] = "string" /\ a[2] = "msgpack-map" /\ list[1] = "list" /\ list[2] = tagged
        BY DEF Text
      <4>1. y = Record(whole)
        BY <3>5, <3>9
      <4>2. y[1] = "record" /\ y[2] = whole /\ DOMAIN whole = 1..2
            /\ whole[1][1] = "type" /\ whole[1][2] = a /\ whole[2][1] = "entries" /\ whole[2][2] = list
        <5>1. Record(whole)[2] = whole
          BY DEF Record
        <5> HIDE DEF y, a, list
        <5> QED BY <4>1, <5>1, TwoFields
      <4>3. Field(whole, "type") = a /\ Field(whole, "entries") = list
        <5> HIDE DEF y, a, list, whole
        <5>1. \A i, j \in 1..2 : whole[j][1] = whole[i][1] => j = i
          BY <4>2
        <5>2. \A i \in 1..2 : Field(whole, whole[i][1]) = whole[i][2]
          BY <4>2, <5>1, OnlyField
        <5>3. 1 \in 1..2 /\ 2 \in 1..2
          OBVIOUS
        <5> QED BY <4>2, <5>2, <5>3
      <4>4. d[y] = MapFromNu(whole, d)
        <5> HIDE DEF y, a, list, whole, d
        <5>1. TagOf(whole) = "msgpack-map"
          BY <4>0, <4>3 DEF TagOf, Has, Content
        <5>2. d[y] = RecordFromNu(whole, s, d)
          BY <2>2, <4>2 DEF ValueFromNu
        <5> QED BY <5>1, <5>2 DEF RecordFromNu
      <4> DEFINE Part(name) == [i \in DOMAIN tagged |->
                                   IF tagged[i][1] = "record" /\ Field(tagged[i][2], name) # Missing
                                   THEN d[Field(tagged[i][2], name)] ELSE Failure]
                 k == Part("key")
                 u == Part("value")
                 pairs == [i \in DOMAIN tagged |-> <<k[i], u[i]>>]
      <4>5. d[y] = IF AnyFailed(k) \/ AnyFailed(u) THEN Failure ELSE <<"map", pairs>>
        <5>1. Has(whole, "entries", "list") /\ Content(whole, "entries") = tagged
          <6> HIDE DEF whole, list, tagged
          <6> QED BY <4>0, <4>3 DEF Has, Content
        <5> HIDE DEF y, whole, tagged, d
        <5> QED BY <4>4, <5>1 DEF MapFromNu
      <4>6. \A i \in DOMAIN entries : /\ d[keys[i]] = Widened[entries[i][1]]
                                      /\ Widened[entries[i][1]][1] # "error"
                                      /\ keys[i] \in Values
        <5> HIDE DEF y, entries, keys, values, tagged, fields, wide, c, d
        <5>1. \A i \in DOMAIN entries : keys[i] # Failure
          BY <3>4, <3>5, <3>9, FailureIs DEF AnyFailed, Failed
        <5>2. ASSUME NEW i \in DOMAIN entries
              PROVE  /\ d[keys[i]] = Widened[entries[i][1]] /\ Widened[entries[i][1]][1] # "error"
                     /\ keys[i] \in Values
          <6> DEFINE w == entries[i][1]
          <6>1. w \in Parts(v) /\ keys[i] = c[w] /\ c[w] # Failure
            BY <3>1, <3>3, <5>1
          <6> HIDE DEF w
          <6>2. d[c[w]] = Widened[w] /\ Widened[w][1] # "error" /\ c[w] \in Values
            BY <2>6, <6>1
          <6> QED BY <6>1, <6>2 DEF w
        <5> QED BY <5>2
      <4>7. ASSUME NEW i \in DOMAIN entries
            PROVE  k[i] = Widened[entries[i][1]] /\ u[i] = Widened[entries[i][2]]
        <5> DEFINE both == << <<"key", keys[i]>>, <<"value", values[i]>> >>
                   e == tagged[i]
        <5>1. e[1] = "record" /\ e[2] = both
          <6>1. Record(both)[1] = "record" /\ Record(both)[2] = both
            BY DEF Record
          <6>2. e = Record(both)
            BY <3>3
          <6> HIDE DEF e, both
          <6> QED BY <6>1, <6>2
        <5>2. Field(both, "key") = keys[i] /\ Field(both, "value") = values[i]
          <6>1. DOMAIN both = 1..2 /\ both[1][1] = "key" /\ both[1][2] = keys[i]
                /\ both[2][1] = "value" /\ both[2][2] = values[i]
            OBVIOUS
          <6> HIDE DEF both, keys, values
          <6>2. \A m, n \in 1..2 : both[n][1] = both[m][1] => n = m
            BY <6>1
          <6>3. \A m \in 1..2 : Field(both, both[m][1]) = both[m][2]
            BY <6>1, <6>2, OnlyField
          <6>4. 1 \in 1..2 /\ 2 \in 1..2
            OBVIOUS
          <6> QED BY <6>1, <6>3, <6>4
        <5>3. keys[i] # Missing /\ values[i] # Missing
          <6>1. Missing[1] = "missing"
            BY DEF Missing
          <6>2. keys[i][1] # "missing" /\ values[i][1] # "missing"
            <7> HIDE DEF keys, values, entries
            <7> QED BY <3>7, <4>6, ValuesAssumption
          <6> HIDE DEF keys, values
          <6> QED BY <6>1, <6>2
        <5>4. i \in DOMAIN tagged
          BY <3>4
        <5>5. /\ k[i] = IF e[1] = "record" /\ Field(e[2], "key") # Missing
                        THEN d[Field(e[2], "key")] ELSE Failure
              /\ u[i] = IF e[1] = "record" /\ Field(e[2], "value") # Missing
                        THEN d[Field(e[2], "value")] ELSE Failure
          <6> HIDE DEF tagged, d
          <6> QED BY <5>4
        <5> HIDE DEF k, u, e, both, keys, values, entries, d
        <5> QED BY <3>7, <4>6, <5>1, <5>2, <5>3, <5>5
      <4>8. DOMAIN k = DOMAIN entries /\ DOMAIN u = DOMAIN entries /\ DOMAIN tagged = DOMAIN entries
        BY <3>4
      <4>9. ~AnyFailed(k) /\ ~AnyFailed(u)
        <5> HIDE DEF k, u, entries, keys, values
        <5> QED BY <3>7, <4>6, <4>7, <4>8 DEF AnyFailed, Failed
      <4>10. pairs = wide
        <5>1. pairs = [i \in DOMAIN entries |-> <<k[i], u[i]>>]
          BY <4>8
        <5> HIDE DEF k, u, pairs, entries
        <5> QED BY <4>7, <5>1
      <4> HIDE DEF y, d, k, u, pairs, wide
      <4> QED BY <4>5, <4>9, <4>10
    <3> QED BY <3>8, <3>9
  <2> HIDE DEF y, d
  <2> QED BY <2>8, <2>9, <2>10, <2>11, <2>12, <2>13, <2>14, <2>15, <2>16, <2>17,
             ValuesAssumption
<1>2. \A v \in All : v \in T
  <2> HIDE DEF T
  <2> QED BY <1>1, ByDepth
<1> QED BY <1>2 DEF All

\* Only a malformed handle keeps an answer from being read, and an answer that is
\* given back to its editor arrives as it was, its floats widened, whatever is in
\* it and however deep (msgpack_to_nu, nu_to_msgpack).
THEOREM GivenBack == Spec => []GivenBackUnchanged
<1>1. IInv => GivenBackUnchanged
  <2> SUFFICES ASSUME IInv PROVE GivenBackUnchanged
    OBVIOUS
  <2>1. ASSUME command.phase = "unreadable" PROVE ~Readable(command.answer)
    <3>1. command.server \in Servers /\ command.answer \in Packed
      BY <2>1 DEF IInv, TypeOK, Issued
    <3>2. Failed(ToNu[command.server][command.answer])
      BY <2>1 DEF IInv, Carried
    <3> QED BY <3>1, <3>2, FailsUnreadable
  <2>2. ASSUME held.from = command.server, ~Ambiguous(held.was),
               command.phase \in {"refused", "sent", "answered"}
        PROVE  FromNu[command.server][held.value] = Widened[held.was]
               /\ ~Failed(FromNu[command.server][held.value])
    <3> DEFINE s == command.server
               r == held.was
    <3>1. s \in Servers /\ s # "none"
      <4>1. command.server \in Servers
        BY <2>2 DEF IInv, Issued
      <4>2. "none" \notin Servers
        BY CallAssumption, Zenon
      <4> QED BY <4>1, <4>2
    <3>2. held.value = ToNu[s][r] /\ held.value \in Values /\ r \in Packed
      <4>1. held.value \in Values /\ held.was \in Packed
        BY DEF IInv, TypeOK
      <4>2. held.value = ToNu[held.from][held.was]
        BY <2>2, <3>1 DEF IInv, Holds
      <4> QED BY <2>2, <4>1, <4>2
    <3>3. ~Failed(ToNu[s][r])
      <4>1. held.value[1] # "error"
        <5>1. \A x \in Values : x[1] # "error"
          <6> TAKE x \in Values
          <6>1. x[1] \in {"nothing", "bool", "int", "float", "string", "glob", "binary", "list",
                          "record", "other"}
            BY ValuesAssumption, Zenon
          <6> QED BY <6>1
        <5> HIDE DEF s, r
        <5> QED BY <3>2, <5>1
      <4> HIDE DEF s, r
      <4> QED BY <3>2, <4>1 DEF Failed
    <3>4. \A w \in Inside[r] : ~LooksTagged(w, Tags)
      BY <2>2 DEF Ambiguous
    <3> HIDE DEF s, r
    <3>5. FromNu[s][ToNu[s][r]] = Widened[r] /\ Widened[r][1] # "error"
      BY <3>1, <3>2, <3>3, <3>4, RoundTrip
    <3> QED BY <3>2, <3>5 DEF Failed, s, r
  <2>3. command.args \in Seq(Values)
    BY DEF IInv, TypeOK
  <2>4. ASSUME held.from = command.server, ~Ambiguous(held.was),
               command.args = <<held.value>>, command.phase = "refused"
        PROVE  FALSE
    <3>1. AnyFailed(Each(FromNu[command.server], command.args))
      BY <2>4 DEF IInv, Carried
    <3>2. PICK i \in DOMAIN command.args : Failed(FromNu[command.server][command.args[i]])
      BY <2>3, <3>1, EachIs DEF AnyFailed
    <3>3. command.args[i] = held.value
      BY <2>4, <3>2
    <3> QED BY <2>2, <2>4, <3>2, <3>3
  <2>5. ASSUME held.from = command.server, ~Ambiguous(held.was),
               command.phase \in {"sent", "answered"},
               NEW i \in DOMAIN command.args, command.args[i] = held.value
        PROVE  command.sent[i] = Widened[held.was]
    <3>1. command.sent = Each(FromNu[command.server], command.args)
      BY <2>5 DEF IInv, Carried
    <3>2. command.sent[i] = FromNu[command.server][held.value]
      BY <2>3, <2>5, <3>1, EachIs
    <3> QED BY <2>2, <2>5, <3>2
  <2> QED BY <2>1, <2>4, <2>5 DEF GivenBackUnchanged
<1> QED BY <1>1, Invariance, PTL

=============================================================================
