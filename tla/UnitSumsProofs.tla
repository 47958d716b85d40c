--------------------------- MODULE UnitSumsProofs ---------------------------
(***************************************************************************)
(* What UnitSum computes, for tables of any finite size.                   *)
(***************************************************************************)
EXTENDS UnitSums, FiniteSetTheorems, TLAPS

(* An entry has as many units as its amount (one item of the code's reduce). *)
LEMMA UnitsAtCount ==
  ASSUME NEW f, NEW x, f[x] \in Nat
  PROVE  IsFiniteSet(UnitsAt(f, x)) /\ Cardinality(UnitsAt(f, x)) = f[x]
<1> DEFINE n == f[x]
<1> DEFINE pair == [i \in 1..n |-> <<x, i>>]
<1>1. IsFiniteSet(1..n) /\ Cardinality(1..n) = n
  <2>1. (n \in Int /\ ~(1 > n)) \/ n = 0
    OBVIOUS
  <2> HIDE DEF n
  <2>2. CASE n \in Int /\ ~(1 > n)
    <3>1. Cardinality(1..n) = IF 1 > n THEN 0 ELSE n - 1 + 1
      BY <2>2, FS_Interval
    <3> QED BY <2>2, <3>1, FS_Interval
  <2>3. CASE n = 0
    <3>1. 1..n = {}
      BY <2>3
    <3> QED BY <2>3, <3>1, FS_EmptySet
  <2> QED BY <2>1, <2>2, <2>3
<1>2. pair \in Bijection(1..n, UnitsAt(f, x))
  <2>1. pair \in [1..n -> UnitsAt(f, x)]
    BY DEF UnitsAt
  <2>2. \A i, j \in 1..n : pair[i] = pair[j] => i = j
    OBVIOUS
  <2>3. \A u \in UnitsAt(f, x) : \E i \in 1..n : pair[i] = u
    BY DEF UnitsAt
  <2> QED BY <2>1, <2>2, <2>3 DEF Bijection, Injection, Surjection, IsInjective
<1>3. ExistsBijection(1..n, UnitsAt(f, x))
  BY <1>2 DEF ExistsBijection
<1> QED BY <1>1, <1>3, FS_Bijection

(* A sum over a finite table is a natural number. *)
LEMMA UnitSumType ==
  ASSUME NEW S, IsFiniteSet(S), NEW f \in [S -> Nat]
  PROVE  IsFiniteSet(Units(f)) /\ UnitSum(f) \in Nat
<1> DEFINE parts == {UnitsAt(f, x) : x \in S}
<1> DEFINE part == [x \in S |-> UnitsAt(f, x)]
<1>1. part \in Surjection(S, parts)
  BY DEF Surjection
<1>2. IsFiniteSet(parts)
  BY <1>1, FS_Surjection
<1>3. \A T \in parts : IsFiniteSet(T)
  BY UnitsAtCount
<1>4. IsFiniteSet(UNION parts)
  BY <1>2, <1>3, FS_UNION
<1>5. DOMAIN f = S
  OBVIOUS
<1>6. Units(f) = UNION parts
  BY <1>5 DEF Units
<1> QED BY <1>4, <1>6, FS_CardinalityType DEF UnitSum

(* Nothing adds up to zero (the code's initial value of a reduce). *)
LEMMA UnitSumZero ==
  ASSUME NEW S, NEW f \in [S -> Nat], \A x \in S : f[x] = 0
  PROVE  UnitSum(f) = 0
<1>1. \A x \in S : UnitsAt(f, x) = {}
  BY DEF UnitsAt
<1>2. Units(f) = {}
  BY <1>1 DEF Units
<1> QED BY <1>2, FS_EmptySet DEF UnitSum

(* Taking one entry out of the sum. *)
LEMMA UnitSumSplit ==
  ASSUME NEW S, IsFiniteSet(S), NEW f \in [S -> Nat], NEW x \in S
  PROVE  UnitSum(f) = UnitSum([f EXCEPT ![x] = 0]) + f[x]
<1> DEFINE g == [f EXCEPT ![x] = 0]
<1>1. g \in [S -> Nat] /\ DOMAIN f = S /\ DOMAIN g = S
  OBVIOUS
<1>2. IsFiniteSet(Units(g)) /\ UnitSum(g) \in Nat
  BY <1>1, UnitSumType
<1>3. IsFiniteSet(UnitsAt(f, x)) /\ Cardinality(UnitsAt(f, x)) = f[x]
  BY UnitsAtCount
<1>4. Units(f) = Units(g) \cup UnitsAt(f, x)
  <2>1. \A y \in S : y # x => UnitsAt(f, y) = UnitsAt(g, y)
    BY DEF UnitsAt
  <2>2. UnitsAt(g, x) = {}
    BY DEF UnitsAt
  <2> HIDE DEF g
  <2>3. ASSUME NEW u PROVE u \in Units(f) <=> u \in Units(g) \/ u \in UnitsAt(f, x)
    BY <1>1, <2>1, <2>2 DEF Units
  <2> QED BY <2>3
<1>5. Units(g) \cap UnitsAt(f, x) = {}
  <2>1. UnitsAt(g, x) = {}
    BY DEF UnitsAt
  <2>2. \A y \in S : y # x => UnitsAt(g, y) \cap UnitsAt(f, x) = {}
    BY DEF UnitsAt
  <2> QED BY <1>1, <2>1, <2>2 DEF Units
<1> HIDE DEF g
<1>6. Cardinality(Units(f)) = Cardinality(Units(g)) + f[x] - 0
  BY <1>2, <1>3, <1>4, <1>5, FS_Union, FS_EmptySet
<1> QED BY <1>1, <1>2, <1>6 DEF UnitSum, g

(* Changing one entry changes the sum by as much. *)
LEMMA UnitSumUpdate ==
  ASSUME NEW S, IsFiniteSet(S), NEW f \in [S -> Nat], NEW g \in [S -> Nat],
         NEW x \in S, \A y \in S : y # x => f[y] = g[y]
  PROVE  /\ UnitSum(f) \in Nat /\ UnitSum(g) \in Nat
         /\ UnitSum(g) = UnitSum(f) - f[x] + g[x]
<1>1. [f EXCEPT ![x] = 0] = [g EXCEPT ![x] = 0]
  OBVIOUS
<1>2. UnitSum(f) = UnitSum([f EXCEPT ![x] = 0]) + f[x]
  BY UnitSumSplit
<1>3. UnitSum(g) = UnitSum([g EXCEPT ![x] = 0]) + g[x]
  BY UnitSumSplit
<1>4. UnitSum([g EXCEPT ![x] = 0]) \in Nat
  BY UnitSumType, [g EXCEPT ![x] = 0] \in [S -> Nat]
<1>5. f[x] \in Nat /\ g[x] \in Nat
  OBVIOUS
<1>6. UnitSum(f) \in Nat /\ UnitSum(g) \in Nat
  BY UnitSumType
<1> QED BY <1>1, <1>2, <1>3, <1>4, <1>5, <1>6

(* No entry of a table is more than the table adds up to. *)
LEMMA UnitSumMember ==
  ASSUME NEW S, IsFiniteSet(S), NEW f \in [S -> Nat], NEW x \in S
  PROVE  f[x] <= UnitSum(f)
<1>1. UnitSum(f) = UnitSum([f EXCEPT ![x] = 0]) + f[x]
  BY UnitSumSplit
<1>2. UnitSum([f EXCEPT ![x] = 0]) \in Nat
  BY UnitSumType, [f EXCEPT ![x] = 0] \in [S -> Nat]
<1> QED BY <1>1, <1>2

(* A table with an entry that is not zero does not add up to zero. *)
LEMMA UnitSumPositive ==
  ASSUME NEW S, IsFiniteSet(S), NEW f \in [S -> Nat], NEW x \in S, f[x] > 0
  PROVE  UnitSum(f) > 0
<1>1. UnitSum(f) = UnitSum([f EXCEPT ![x] = 0]) + f[x]
  BY UnitSumSplit
<1>2. UnitSum([f EXCEPT ![x] = 0]) \in Nat
  BY UnitSumType, [f EXCEPT ![x] = 0] \in [S -> Nat]
<1> QED BY <1>1, <1>2

(* Entries that are no larger add up to no more. *)
LEMMA UnitSumMonotone ==
  ASSUME NEW S, IsFiniteSet(S), NEW f \in [S -> Nat], NEW g \in [S -> Nat],
         \A x \in S : f[x] <= g[x]
  PROVE  UnitSum(f) <= UnitSum(g)
<1>1. \A x \in S : UnitsAt(f, x) \subseteq UnitsAt(g, x)
  BY DEF UnitsAt
<1>2. DOMAIN f = S /\ DOMAIN g = S
  OBVIOUS
<1>3. Units(f) \subseteq Units(g)
  BY <1>1, <1>2 DEF Units
<1>4. IsFiniteSet(Units(g))
  BY UnitSumType
<1> QED BY <1>3, <1>4, FS_Subset DEF UnitSum

(* Adding two tables entry by entry adds their sums. *)
LEMMA UnitSumAdd ==
  ASSUME NEW S, IsFiniteSet(S), NEW f \in [S -> Nat], NEW g \in [S -> Nat],
         NEW h \in [S -> Nat], \A x \in S : h[x] = f[x] + g[x]
  PROVE  UnitSum(h) = UnitSum(f) + UnitSum(g)
<1> DEFINE above == [u \in Units(g) |-> <<u[1], f[u[1]] + u[2]>>]
<1> DEFINE rest == {above[u] : u \in Units(g)}
<1>1. \A u : u \in Units(g) <=> \E x \in S : \E i \in 1..g[x] : u = <<x, i>>
  BY DEF Units, UnitsAt
<1>2. \A u : u \in Units(f) <=> \E x \in S : \E i \in 1..f[x] : u = <<x, i>>
  BY DEF Units, UnitsAt
<1>3. \A u : u \in Units(h) <=> \E x \in S : \E i \in 1..h[x] : u = <<x, i>>
  BY DEF Units, UnitsAt
<1>4. \A u : u \in rest <=> \E x \in S : \E i \in 1..g[x] : u = <<x, f[x] + i>>
  <2>1. \A x \in S : \A i \in 1..g[x] : <<x, i>> \in Units(g) /\ above[<<x, i>>] = <<x, f[x] + i>>
    BY <1>1
  <2>2. \A u \in rest : \E v \in Units(g) : u = above[v]
    OBVIOUS
  <2>3. \A v \in Units(g) : above[v] \in rest
    OBVIOUS
  <2> HIDE DEF above, rest
  <2>4. ASSUME NEW u \in rest PROVE \E x \in S : \E i \in 1..g[x] : u = <<x, f[x] + i>>
    <3>1. PICK v \in Units(g) : u = above[v]
      BY <2>2
    <3>2. PICK x \in S : \E i \in 1..g[x] : v = <<x, i>>
      BY <1>1
    <3>3. PICK i \in 1..g[x] : v = <<x, i>>
      BY <3>2
    <3> QED BY <2>1, <3>1, <3>3
  <2>5. ASSUME NEW x \in S, NEW i \in 1..g[x] PROVE <<x, f[x] + i>> \in rest
    <3>1. above[<<x, i>>] \in rest
      BY <2>1, <2>3
    <3> QED BY <2>1, <3>1
  <2> QED BY <2>4, <2>5
<1>5. above \in Bijection(Units(g), rest)
  <2>1. \A u, v \in Units(g) : above[u] = above[v] => u = v
    <3>1. SUFFICES ASSUME NEW u \in Units(g), NEW v \in Units(g), above[u] = above[v]
                   PROVE  u = v
      OBVIOUS
    <3>2. PICK x \in S : \E i \in 1..g[x] : u = <<x, i>>
      BY <1>1
    <3>3. PICK i \in 1..g[x] : u = <<x, i>>
      BY <3>2
    <3>4. PICK y \in S : \E j \in 1..g[y] : v = <<y, j>>
      BY <1>1
    <3>5. PICK j \in 1..g[y] : v = <<y, j>>
      BY <3>4
    <3>6. above[u] = <<x, f[x] + i>> /\ above[v] = <<y, f[y] + j>>
      BY <3>3, <3>5
    <3>7. x = y /\ f[x] + i = f[y] + j
      BY <3>1, <3>6
    <3>8. f[x] \in Nat /\ i \in Int /\ j \in Int
      OBVIOUS
    <3> QED BY <3>3, <3>5, <3>7, <3>8
  <2>2. above \in [Units(g) -> rest]
    OBVIOUS
  <2>3. \A u \in rest : \E v \in Units(g) : above[v] = u
    OBVIOUS
  <2> HIDE DEF above, rest
  <2> QED BY <2>1, <2>2, <2>3 DEF Bijection, Injection, Surjection, IsInjective
<1>6. /\ IsFiniteSet(Units(f)) /\ IsFiniteSet(Units(g))
      /\ UnitSum(f) \in Nat /\ UnitSum(g) \in Nat
  BY UnitSumType
<1>7. IsFiniteSet(rest) /\ Cardinality(rest) = Cardinality(Units(g))
  <2>1. ExistsBijection(Units(g), rest)
    BY <1>5 DEF ExistsBijection
  <2> HIDE DEF rest
  <2> QED BY <1>6, <2>1, FS_Bijection
<1> HIDE DEF above, rest
<1>8. Units(h) = Units(f) \cup rest
  <2>1. ASSUME NEW x \in S, NEW i \in 1..h[x], i \notin 1..f[x]
        PROVE  i - f[x] \in 1..g[x] /\ i = f[x] + (i - f[x])
    BY <2>1
  <2>2. \A x \in S : \A i \in 1..h[x] : <<x, i>> \in Units(f) \/ <<x, i>> \in rest
    BY <1>2, <1>4, <2>1
  <2>3. \A x \in S : /\ \A i \in 1..f[x] : i \in 1..h[x]
                    /\ \A i \in 1..g[x] : f[x] + i \in 1..h[x]
    OBVIOUS
  <2>4. Units(h) \subseteq Units(f) \cup rest
    BY <1>3, <2>2
  <2>5. Units(f) \subseteq Units(h)
    BY <1>2, <1>3, <2>3
  <2>6. rest \subseteq Units(h)
    BY <1>3, <1>4, <2>3
  <2> QED BY <2>4, <2>5, <2>6
<1>9. Units(f) \cap rest = {}
  <2>1. \A x \in S : \A i \in 1..g[x] : f[x] + i \notin 1..f[x]
    OBVIOUS
  <2> QED BY <1>2, <1>4, <2>1
<1>10. Cardinality(Units(h)) = Cardinality(Units(f)) + Cardinality(rest) - 0
  BY <1>6, <1>7, <1>8, <1>9, FS_Union, FS_EmptySet
<1> QED BY <1>6, <1>7, <1>10 DEF UnitSum

=============================================================================
