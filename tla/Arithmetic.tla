----------------------------- MODULE Arithmetic -----------------------------
(***************************************************************************)
(* What the proofs need of least elements, of division and of sums over    *)
(* finite sets.                                                            *)
(***************************************************************************)
EXTENDS Integers, FiniteSets, FiniteSetsExt, Functions,
        FiniteSetTheorems, WellFoundedInduction, TLAPS

-----------------------------------------------------------------------------
(* Induction, as far as the provers can apply it.                          *)
LEMMA LeastNatural ==
  ASSUME NEW T \in SUBSET Nat, T # {}
  PROVE  \E m \in T : \A n \in T : m <= n
<1> DEFINE R == {p \in Nat \X Nat : p[1] < p[2]}
<1>1. IsWellFoundedOn(R, Nat)
  BY NatLessThanWellFounded DEF OpToRel
<1>2. PICK m \in T : \A n \in T : <<n, m>> \notin R
  BY <1>1, WFMin
<1>3. \A n \in T : ~(n < m)
  <2> SUFFICES ASSUME NEW n \in T, n < m PROVE <<n, m>> \in R
    BY <1>2
  <2> QED
    OBVIOUS
<1> HIDE DEF R
<1> QED
  BY <1>3

LEMMA SmallestSet ==
  ASSUME NEW T, T # {}, \A s \in T : IsFiniteSet(s)
  PROVE  \E m \in T : \A s \in T : Cardinality(s) >= Cardinality(m)
<1> DEFINE N == {Cardinality(s) : s \in T}
<1>1. N # {} /\ N \in SUBSET Nat
  BY FS_CardinalityType
<1>2. PICK n \in N : \A k \in N : n <= k
  BY <1>1, LeastNatural
<1>3. PICK m \in T : Cardinality(m) = n
  BY <1>2
<1>4. \A s \in T : Cardinality(s) \in N
  OBVIOUS
<1> HIDE DEF N
<1> QED
  BY <1>1, <1>2, <1>3, <1>4

LEMMA MinIsLeast ==
  ASSUME NEW T \in SUBSET Nat, T # {}
  PROVE  Min(T) \in T /\ \A n \in T : Min(T) <= n
BY LeastNatural DEF Min

LEMMA MaxIsGreatest ==
  ASSUME NEW n \in Nat, NEW T \in SUBSET 0 .. n, T # {}
  PROVE  Max(T) \in T
<1> DEFINE D == {n - i : i \in T}
<1>0. \A i \in T : i \in Nat /\ n - i \in Nat /\ n - i \in D
  <2> SUFFICES ASSUME NEW i \in T PROVE i \in Nat /\ n - i \in Nat
    OBVIOUS
  <2>1. i \in 0 .. n
    OBVIOUS
  <2> QED
    BY <2>1
<1>1. D \in SUBSET Nat /\ D # {}
  BY <1>0
<1>2. PICK d \in D : \A e \in D : d <= e
  BY <1>1, LeastNatural
<1>3. PICK m \in T : d = n - m
  BY <1>2
<1>4. \A i \in T : m >= i
  <2> HIDE DEF D
  <2> QED
    BY <1>0, <1>2, <1>3
<1> QED
  BY <1>4 DEF Max

-----------------------------------------------------------------------------
(* Division: quotient and remainder are the only ones.                     *)
LEMMA QuotientUnique ==
  ASSUME NEW n \in Nat \ {0}, NEW q \in Nat, NEW p \in Nat,
         NEW r \in 0 .. n - 1, NEW s \in 0 .. n - 1, n * q + r = n * p + s
  PROVE  q = p /\ r = s
<1>1. ASSUME NEW x \in Nat, NEW y \in Nat, x < y
      PROVE  n * x + n <= n * y
  <2>1. y - x - 1 \in Nat /\ n * (y - x - 1) \in Nat
    BY <1>1
  <2>2. n * y = n * x + n + n * (y - x - 1)
    BY <1>1
  <2> QED
    BY <2>1, <2>2
<1>2. n * q \in Nat /\ n * p \in Nat
  OBVIOUS
<1>3. ~(q < p)
  BY <1>1, <1>2
<1>4. ~(p < q)
  BY <1>1, <1>2
<1> QED
  BY <1>2, <1>3, <1>4

LEMMA Divided ==
  ASSUME NEW n \in Nat \ {0}, NEW a \in Nat
  PROVE  a \div n \in Nat /\ a % n \in 0 .. n - 1 /\ a = n * (a \div n) + (a % n)
OBVIOUS

LEMMA DividedBy ==
  ASSUME NEW n \in Nat \ {0}, NEW q \in Nat, NEW r \in 0 .. n - 1
  PROVE  (n * q + r) \div n = q /\ (n * q + r) % n = r
<1> DEFINE a == n * q + r
<1>1. a \in Nat
  OBVIOUS
<1>2. a = n * q + r
  OBVIOUS
<1> HIDE DEF a
<1>3. a \div n \in Nat /\ a % n \in 0 .. n - 1 /\ n * (a \div n) + (a % n) = n * q + r
  BY <1>1, <1>2, Divided
<1>4. a \div n = q /\ a % n = r
  BY <1>3, QuotientUnique
<1> QED
  BY <1>4 DEF a

-----------------------------------------------------------------------------
(* Finite sums: what SumFunctionOnSet adds up one element at a time.       *)
One(s) == CHOOSE x \in s : TRUE

Added(f, part, s) == IF s = {} THEN 0 ELSE f[One(s)] + part[s \ {One(s)}]

IsSum(f, S, part) == part = [s \in SUBSET S |-> Added(f, part, s)]

LEMMA SumExists ==
  ASSUME NEW f, NEW S, IsFiniteSet(S)
  PROVE  \E part : IsSum(f, S, part)
<1> DEFINE Upto(part, n) == /\ part = [s \in SUBSET S |-> part[s]]
                            /\ \A s \in SUBSET S : Cardinality(s) <= n => part[s] = Added(f, part, s)
           T == {n \in Nat : ~\E part : Upto(part, n)}
<1>0. \A s \in SUBSET S : IsFiniteSet(s) /\ Cardinality(s) \in Nat /\ Cardinality(s) <= Cardinality(S)
  BY FS_Subset, FS_CardinalityType
<1>1. \A s \in SUBSET S : s # {} => /\ One(s) \in s /\ s \ {One(s)} \in SUBSET S
                                    /\ Cardinality(s \ {One(s)}) = Cardinality(s) - 1
  BY <1>0, FS_RemoveElement DEF One
<1>2. T = {}
  <2> SUFFICES ASSUME T # {} PROVE FALSE
    OBVIOUS
  <2>1. PICK n \in T : \A k \in T : n <= k
    <3>1. T \in SUBSET Nat
      OBVIOUS
    <3> HIDE DEF T
    <3> QED
      BY <3>1, LeastNatural
  <2>2. PICK part : /\ part = [s \in SUBSET S |-> part[s]]
                    /\ \A s \in SUBSET S : Cardinality(s) < n => part[s] = Added(f, part, s)
    <3>1. CASE n = 0
      <4>1. \A s \in SUBSET S : ~(Cardinality(s) < n)
        BY <1>0, <3>1
      <4> DEFINE none == [s \in SUBSET S |-> 0]
      <4>2. none = [s \in SUBSET S |-> none[s]]
        OBVIOUS
      <4> QED
        BY <4>1, <4>2
    <3>2. CASE n # 0
      <4>0. n \in Nat /\ \A k \in T : n <= k
        BY <2>1
      <4>1. n - 1 \in Nat /\ n - 1 \notin T
        <5> HIDE DEF T
        <5> QED
          BY <3>2, <4>0
      <4>2. PICK part : Upto(part, n - 1)
        BY <4>1
      <4>3. \A s \in SUBSET S : Cardinality(s) < n => Cardinality(s) <= n - 1
        BY <1>0, <2>1
      <4> QED
        BY <4>2, <4>3
    <3> QED
      BY <3>1, <3>2
  <2> DEFINE next == [s \in SUBSET S |-> IF Cardinality(s) = n THEN Added(f, part, s) ELSE part[s]]
  <2>3. ASSUME NEW s \in SUBSET S, Cardinality(s) <= n PROVE next[s] = Added(f, next, s)
    <3>1. s # {} => next[s \ {One(s)}] = part[s \ {One(s)}]
      BY <1>0, <1>1, <2>1, <2>3
    <3>2. Added(f, next, s) = Added(f, part, s)
      BY <3>1 DEF Added
    <3>3. Cardinality(s) = n \/ Cardinality(s) < n
      BY <1>0, <2>1, <2>3
    <3> QED
      BY <2>2, <3>2, <3>3
  <2>4. next = [s \in SUBSET S |-> next[s]]
    OBVIOUS
  <2> HIDE DEF next
  <2> QED
    BY <2>1, <2>3, <2>4
<1>3. PICK part : Upto(part, Cardinality(S))
  BY <1>0, <1>2
<1>4. [s \in SUBSET S |-> part[s]] = [s \in SUBSET S |-> Added(f, part, s)]
  BY <1>0, <1>3
<1> QED
  BY <1>3, <1>4 DEF IsSum

LEMMA SumIs ==
  ASSUME NEW f, NEW S, IsFiniteSet(S)
  PROVE  \E part : IsSum(f, S, part) /\ SumFunctionOnSet(f, S) = part[S]
<1> DEFINE part == CHOOSE p : IsSum(f, S, p)
<1>1. SumFunctionOnSet(f, S) = part[S]
  BY DEF SumFunctionOnSet, FoldFunctionOnSet, MapThenFoldSet, IsSum, Added, One
<1>2. IsSum(f, S, part)
  BY SumExists
<1> QED
  BY <1>1, <1>2

(* Only the values in the set count, and one of its elements comes first.  *)
LEMMA SumsAgree ==
  ASSUME NEW f, NEW g, NEW S, NEW T, IsFiniteSet(S), IsFiniteSet(T),
         NEW p, NEW q, IsSum(f, S, p), IsSum(g, T, q),
         NEW U \in SUBSET (S \cap T), \A x \in U : f[x] = g[x]
  PROVE  p[U] = q[U]
<1> DEFINE Bad == {s \in SUBSET U : p[s] # q[s]}
<1> SUFFICES ASSUME Bad # {} PROVE FALSE
  OBVIOUS
<1>1. \A s \in SUBSET U : IsFiniteSet(s)
  BY FS_Subset
<1>2. PICK s \in Bad : \A t \in Bad : Cardinality(t) >= Cardinality(s)
  <2>1. \A t \in Bad : IsFiniteSet(t)
    BY <1>1
  <2> HIDE DEF Bad
  <2> QED
    BY <2>1, SmallestSet
<1>3. p[s] = Added(f, p, s) /\ q[s] = Added(g, q, s)
  <2>1. s \in SUBSET S /\ s \in SUBSET T
    BY <1>2
  <2> QED
    BY <2>1 DEF IsSum
<1>4. s # {}
  BY <1>2, <1>3 DEF Added
<1>5. One(s) \in s /\ f[One(s)] = g[One(s)]
  BY <1>2, <1>4 DEF One
<1>6. Cardinality(s \ {One(s)}) = Cardinality(s) - 1 /\ Cardinality(s) \in Nat
  BY <1>1, <1>2, <1>5, FS_RemoveElement, FS_CardinalityType
<1>7. p[s \ {One(s)}] = q[s \ {One(s)}]
  BY <1>2, <1>6
<1> QED
  BY <1>2, <1>3, <1>4, <1>5, <1>7 DEF Added

LEMMA SumSame ==
  ASSUME NEW f, NEW g, NEW S, IsFiniteSet(S), \A x \in S : f[x] = g[x]
  PROVE  SumFunctionOnSet(f, S) = SumFunctionOnSet(g, S)
<1>1. PICK p : IsSum(f, S, p) /\ SumFunctionOnSet(f, S) = p[S]
  BY SumIs
<1>2. PICK q : IsSum(g, S, q) /\ SumFunctionOnSet(g, S) = q[S]
  BY SumIs
<1> QED
  BY <1>1, <1>2, SumsAgree

LEMMA SumFirst ==
  ASSUME NEW f, NEW S, IsFiniteSet(S), S # {}
  PROVE  /\ One(S) \in S
         /\ SumFunctionOnSet(f, S) = f[One(S)] + SumFunctionOnSet(f, S \ {One(S)})
<1> DEFINE rest == S \ {One(S)}
<1>1. PICK p : IsSum(f, S, p) /\ SumFunctionOnSet(f, S) = p[S]
  BY SumIs
<1>2. IsFiniteSet(rest)
  BY FS_RemoveElement
<1>3. PICK q : IsSum(f, rest, q) /\ SumFunctionOnSet(f, rest) = q[rest]
  BY <1>2, SumIs
<1>4. p[rest] = q[rest]
  BY <1>1, <1>2, <1>3, SumsAgree
<1>5. p[S] = Added(f, p, S)
  BY <1>1 DEF IsSum
<1> QED
  BY <1>1, <1>3, <1>4, <1>5 DEF Added, One

LEMMA SumEmpty ==
  ASSUME NEW f
  PROVE  SumFunctionOnSet(f, {}) = 0
<1>1. PICK p : IsSum(f, {}, p) /\ SumFunctionOnSet(f, {}) = p[{}]
  BY FS_EmptySet, SumIs
<1> QED
  BY <1>1 DEF IsSum, Added

NatOn(f, S) == IsFiniteSet(S) /\ \A x \in S : f[x] \in Nat

LEMMA SumNat ==
  ASSUME NEW f, NEW S, NatOn(f, S)
  PROVE  SumFunctionOnSet(f, S) \in Nat
<1> DEFINE Bad == {s \in SUBSET S : SumFunctionOnSet(f, s) \notin Nat}
<1> SUFFICES ASSUME Bad # {} PROVE FALSE
  OBVIOUS
<1>1. \A s \in SUBSET S : IsFiniteSet(s) /\ Cardinality(s) \in Nat
  BY FS_Subset, FS_CardinalityType DEF NatOn
<1>2. PICK s \in Bad : \A t \in Bad : Cardinality(t) >= Cardinality(s)
  <2>1. \A t \in Bad : IsFiniteSet(t)
    BY <1>1
  <2> HIDE DEF Bad
  <2> QED
    BY <2>1, SmallestSet
<1>3. s # {}
  BY <1>2, SumEmpty
<1>4. One(s) \in s /\ SumFunctionOnSet(f, s) = f[One(s)] + SumFunctionOnSet(f, s \ {One(s)})
  BY <1>1, <1>3, SumFirst
<1>5. Cardinality(s \ {One(s)}) = Cardinality(s) - 1 /\ Cardinality(s) \in Nat
  BY <1>1, <1>4, FS_RemoveElement
<1>6. SumFunctionOnSet(f, s \ {One(s)}) \in Nat
  BY <1>2, <1>5
<1>7. f[One(s)] \in Nat
  BY <1>4 DEF NatOn
<1> QED
  BY <1>2, <1>4, <1>6, <1>7

LEMMA SumAny ==
  ASSUME NEW f, NEW S, NatOn(f, S), NEW x \in S
  PROVE  SumFunctionOnSet(f, S) = f[x] + SumFunctionOnSet(f, S \ {x})
<1> DEFINE Sum(s) == SumFunctionOnSet(f, s)
           Splits(s) == \A y \in s : Sum(s) = f[y] + Sum(s \ {y})
           Bad == {s \in SUBSET S : ~Splits(s)}
<1> SUFFICES ASSUME Bad # {} PROVE FALSE
  OBVIOUS
<1>1. \A s \in SUBSET S : IsFiniteSet(s) /\ Cardinality(s) \in Nat /\ NatOn(f, s)
  BY FS_Subset, FS_CardinalityType DEF NatOn
<1>2. PICK s \in Bad : \A t \in Bad : Cardinality(t) >= Cardinality(s)
  <2>1. \A t \in Bad : IsFiniteSet(t)
    BY <1>1
  <2> HIDE DEF Bad
  <2> QED
    BY <2>1, SmallestSet
<1>3. PICK y \in s : Sum(s) # f[y] + Sum(s \ {y})
  BY <1>2
<1> DEFINE z == One(s)
<1>4. z \in s /\ Sum(s) = f[z] + Sum(s \ {z})
  BY <1>1, <1>3, SumFirst
<1>5. y # z
  BY <1>3, <1>4
<1>6. ASSUME NEW w \in s PROVE Splits(s \ {w})
  <2>1. Cardinality(s \ {w}) = Cardinality(s) - 1 /\ Cardinality(s) \in Nat
    BY <1>1, FS_RemoveElement
  <2>2. s \ {w} \in SUBSET S /\ s \ {w} \notin Bad
    BY <1>2, <2>1
  <2> HIDE DEF Splits
  <2> QED
    BY <2>2
<1>7. Sum(s \ {z}) = f[y] + Sum((s \ {z}) \ {y}) /\ Sum(s \ {y}) = f[z] + Sum((s \ {y}) \ {z})
  BY <1>4, <1>5, <1>6
<1>8. (s \ {z}) \ {y} = (s \ {y}) \ {z}
  OBVIOUS
<1>9. f[y] \in Nat /\ f[z] \in Nat /\ Sum((s \ {y}) \ {z}) \in Nat
  <2>1. (s \ {y}) \ {z} \in SUBSET S
    OBVIOUS
  <2> QED
    BY <1>1, <1>4, <2>1, SumNat DEF NatOn
<1>10. Sum((s \ {z}) \ {y}) = Sum((s \ {y}) \ {z})
  BY <1>8, Zenon
<1> HIDE DEF z, Bad, Splits
<1> QED
  BY <1>3, <1>4, <1>7, <1>9, <1>10

LEMMA SumMonotone ==
  ASSUME NEW f, NEW g, NEW S, NatOn(f, S), NatOn(g, S), \A x \in S : f[x] <= g[x]
  PROVE  SumFunctionOnSet(f, S) <= SumFunctionOnSet(g, S)
<1> DEFINE Bad == {s \in SUBSET S : ~(SumFunctionOnSet(f, s) <= SumFunctionOnSet(g, s))}
<1> SUFFICES ASSUME Bad # {} PROVE FALSE
  OBVIOUS
<1>1. \A s \in SUBSET S : IsFiniteSet(s) /\ Cardinality(s) \in Nat /\ NatOn(f, s) /\ NatOn(g, s)
  BY FS_Subset, FS_CardinalityType DEF NatOn
<1>2. PICK s \in Bad : \A t \in Bad : Cardinality(t) >= Cardinality(s)
  <2>1. \A t \in Bad : IsFiniteSet(t)
    BY <1>1
  <2> HIDE DEF Bad
  <2> QED
    BY <2>1, SmallestSet
<1>3. s # {}
  BY <1>2, SumEmpty
<1>4. /\ One(s) \in s
      /\ SumFunctionOnSet(f, s) = f[One(s)] + SumFunctionOnSet(f, s \ {One(s)})
      /\ SumFunctionOnSet(g, s) = g[One(s)] + SumFunctionOnSet(g, s \ {One(s)})
  BY <1>1, <1>3, SumFirst
<1>5. Cardinality(s \ {One(s)}) = Cardinality(s) - 1 /\ Cardinality(s) \in Nat
  BY <1>1, <1>4, FS_RemoveElement
<1>6. s \ {One(s)} \in SUBSET S
  OBVIOUS
<1>7. SumFunctionOnSet(f, s \ {One(s)}) <= SumFunctionOnSet(g, s \ {One(s)})
  BY <1>2, <1>5, <1>6
<1>8. /\ SumFunctionOnSet(f, s \ {One(s)}) \in Nat /\ SumFunctionOnSet(g, s \ {One(s)}) \in Nat
      /\ f[One(s)] \in Nat /\ g[One(s)] \in Nat /\ f[One(s)] <= g[One(s)]
  BY <1>1, <1>4, <1>6, SumNat DEF NatOn
<1> QED
  BY <1>2, <1>4, <1>7, <1>8

LEMMA SumDisjoint ==
  ASSUME NEW f, NEW S, NEW T, NatOn(f, S \cup T), S \cap T = {}
  PROVE  SumFunctionOnSet(f, S \cup T) = SumFunctionOnSet(f, S) + SumFunctionOnSet(f, T)
<1> DEFINE Sum(s) == SumFunctionOnSet(f, s)
           Bad == {s \in SUBSET T : Sum(S \cup s) # Sum(S) + Sum(s)}
<1> SUFFICES ASSUME Bad # {} PROVE FALSE
  OBVIOUS
<1>1. \A s \in SUBSET (S \cup T) : IsFiniteSet(s) /\ Cardinality(s) \in Nat /\ NatOn(f, s) /\ Sum(s) \in Nat
  BY FS_Subset, FS_CardinalityType, SumNat DEF NatOn
<1>2. PICK s \in Bad : \A t \in Bad : Cardinality(t) >= Cardinality(s)
  <2>1. \A t \in Bad : IsFiniteSet(t)
    BY <1>1
  <2> HIDE DEF Bad
  <2> QED
    BY <2>1, SmallestSet
<1>3. s # {}
  <2> SUFFICES ASSUME s = {} PROVE FALSE
    OBVIOUS
  <2>1. S \cup s = S /\ Sum(s) = 0 /\ Sum(S) \in Nat
    BY <1>1, SumEmpty
  <2> QED
    BY <1>2, <2>1
<1>4. PICK x \in s : TRUE
  BY <1>3
<1> DEFINE r == s \ {x}
<1>5. Cardinality(r) = Cardinality(s) - 1 /\ Cardinality(s) \in Nat
  BY <1>1, <1>4, FS_RemoveElement
<1>6. Sum(S \cup r) = Sum(S) + Sum(r)
  BY <1>2, <1>5
<1>7. Sum(s) = f[x] + Sum(r) /\ Sum(S \cup s) = f[x] + Sum((S \cup s) \ {x})
  BY <1>1, SumAny
<1>8. (S \cup s) \ {x} = S \cup r
  BY <1>2, <1>4
<1>9. f[x] \in Nat /\ Sum(S) \in Nat /\ Sum(r) \in Nat
  BY <1>1, <1>4 DEF NatOn
<1>10. Sum(S \cup s) # Sum(S) + Sum(s)
  BY <1>2
<1>11. Sum((S \cup s) \ {x}) = Sum(S \cup r)
  BY <1>8, Zenon
<1> HIDE DEF r, Bad
<1> QED
  BY <1>6, <1>7, <1>9, <1>10, <1>11

LEMMA SumSubset ==
  ASSUME NEW f, NEW S, NEW T, NatOn(f, T), S \subseteq T
  PROVE  /\ SumFunctionOnSet(f, S) <= SumFunctionOnSet(f, T)
         /\ SumFunctionOnSet(f, T \ S) = SumFunctionOnSet(f, T) - SumFunctionOnSet(f, S)
<1>1. NatOn(f, S) /\ NatOn(f, T \ S)
  BY FS_Subset DEF NatOn
<1>2. S \cup (T \ S) = T /\ S \cap (T \ S) = {}
  OBVIOUS
<1>3. SumFunctionOnSet(f, T) = SumFunctionOnSet(f, S) + SumFunctionOnSet(f, T \ S)
  BY <1>2, SumDisjoint
<1> QED
  BY <1>1, <1>3, SumNat

LEMMA SumCover ==
  ASSUME NEW f, NEW S, NEW T, NatOn(f, S), NatOn(f, T)
  PROVE  SumFunctionOnSet(f, S \cup T) <= SumFunctionOnSet(f, S) + SumFunctionOnSet(f, T)
<1>1. S \cup (T \ S) = S \cup T /\ S \cap (T \ S) = {}
  OBVIOUS
<1>2. NatOn(f, S \cup T) /\ NatOn(f, T \ S)
  BY FS_Union, FS_Subset DEF NatOn
<1>3. SumFunctionOnSet(f, S \cup T) = SumFunctionOnSet(f, S) + SumFunctionOnSet(f, T \ S)
  BY <1>1, <1>2, SumDisjoint
<1>4. SumFunctionOnSet(f, T \ S) <= SumFunctionOnSet(f, T)
  BY SumSubset
<1> QED
  BY <1>2, <1>3, <1>4, SumNat
=============================================================================
