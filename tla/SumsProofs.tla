----------------------------- MODULE SumsProofs -----------------------------
(***************************************************************************)
(* What the sums of Sums satisfy, for every set and every function, and    *)
(* the least members that the proofs by least counterexample choose.       *)
(***************************************************************************)
EXTENDS Sums, FiniteSetTheorems, NaturalsInduction, WellFoundedInduction, TLAPS

\* A least member of a set of naturals that is not empty.
LEMMA LeastMember ==
  ASSUME NEW S \in SUBSET Nat, S # {}
  PROVE  \E n \in S : \A m \in S : n <= m
<1>1. PICK n \in S : \A m \in S : ~(<<m, n>> \in OpToRel(<, Nat))
  BY NatLessThanWellFounded, WFMin
<1>2. \A m \in S : m \in Nat /\ n \in Nat /\ ~(m < n)
  BY <1>1 DEF OpToRel
<1>3. \A m \in S : n <= m
  BY <1>2
<1> QED BY <1>3

\* The units of one member.
LEMMA UnitsOfOne ==
  ASSUME NEW x, NEW n \in Nat
  PROVE  IsFiniteSet({x} \X (1..n)) /\ Cardinality({x} \X (1..n)) = n
<1> DEFINE pair == [i \in 1..n |-> <<x, i>>]
<1>1. IsFiniteSet(1..n) /\ Cardinality(1..n) = n
  BY FS_Interval
<1>2. pair \in Bijection(1..n, {x} \X (1..n))
  BY DEF Bijection, Injection, Surjection, IsInjective
<1> QED BY <1>1, <1>2, FS_Bijection DEF ExistsBijection

\* A sum has one more summand for one more member.
LEMMA TotalAdd ==
  ASSUME NEW S, NEW f, NEW x, x \notin S, f[x] \in Nat,
         IsFiniteSet(UnitsOf(f, S))
  PROVE  /\ IsFiniteSet(UnitsOf(f, S \cup {x}))
         /\ Total(f, S \cup {x}) = Total(f, S) + f[x]
<1> DEFINE U(T) == UnitsOf(f, T)
           one == {x} \X (1..f[x])
<1>1. U(S \cup {x}) = U(S) \cup one
  BY DEF UnitsOf
<1>2. U(S) \cap one = {}
  <2>1. ASSUME NEW q \in U(S), q \in one
        PROVE  FALSE
    <3>1. PICK y \in S : q \in {y} \X (1..f[y])
      BY <2>1 DEF UnitsOf
    <3>2. q[1] = y /\ q[1] = x
      BY <2>1, <3>1
    <3> QED BY <3>2
  <2> QED BY <2>1
<1>3. IsFiniteSet(one) /\ Cardinality(one) = f[x]
  BY UnitsOfOne
<1> HIDE DEF one
<1>4. IsFiniteSet(U(S)) /\ Cardinality(U(S)) \in Nat
  BY FS_CardinalityType
<1>5. Total(f, S \cup {x}) = Cardinality(U(S \cup {x})) /\ Total(f, S) = Cardinality(U(S))
  BY DEF Total
<1> HIDE DEF U
<1>6. Cardinality(U(S) \cup one) = Cardinality(U(S)) + Cardinality(one) - Cardinality(U(S) \cap one)
      /\ IsFiniteSet(U(S) \cup one)
  BY <1>3, <1>4, FS_Union
<1>7. Cardinality({}) = 0
  BY FS_EmptySet
<1>8. Total(f, S \cup {x}) = Total(f, S) + f[x]
  <2>1. Cardinality(U(S) \cap one) = 0
    BY <1>2, <1>7
  <2>2. Cardinality(U(S) \cup one) = Cardinality(U(S)) + f[x]
    BY <1>3, <1>4, <1>6, <2>1
  <2> QED BY <1>1, <1>5, <2>2
<1> QED BY <1>1, <1>6, <1>8 DEF U

\* Nothing is worth nothing.
LEMMA TotalEmpty ==
  ASSUME NEW f
  PROVE  Total(f, {}) = 0 /\ IsFiniteSet(UnitsOf(f, {}))
<1>1. UnitsOf(f, {}) = {}
  BY DEF UnitsOf
<1> QED BY <1>1, FS_EmptySet DEF Total

\* A finite set has finitely many units: no set without them is minimal.
LEMMA TotalFinite ==
  ASSUME NEW S, IsFiniteSet(S), NEW f, \A x \in S : f[x] \in Nat
  PROVE  /\ IsFiniteSet(UnitsOf(f, S))
         /\ Total(f, S) \in Nat
<1> DEFINE Fin(T) == IsFiniteSet(UnitsOf(f, T))
           Bad == {T \in SUBSET S : ~Fin(T)}
           Sizes == {n \in Nat : \E T \in Bad : Cardinality(T) = n}
<1>1. Fin(S)
  <2> SUFFICES ASSUME ~Fin(S)
               PROVE  FALSE
    OBVIOUS
  <2> HIDE DEF Fin
  <2>1. \A T \in SUBSET S : IsFiniteSet(T) /\ Cardinality(T) \in Nat
    BY FS_Subset, FS_CardinalityType
  <2>2. Sizes # {} /\ Sizes \subseteq Nat
    BY <2>1
  <2>3. PICK n \in Sizes : \A m \in Sizes : ~(<<m, n>> \in OpToRel(<, Nat))
    BY <2>2, NatLessThanWellFounded, WFMin
  <2>4. PICK T \in Bad : Cardinality(T) = n
    BY <2>3
  <2>5. T # {}
    BY <2>4, TotalEmpty DEF Fin
  <2>6. PICK x \in T : TRUE
    BY <2>5
  <2>7. T \ {x} \in SUBSET S /\ Cardinality(T \ {x}) = n - 1 /\ n \in Nat
    BY <2>1, <2>4, <2>6, FS_RemoveElement
  <2>8. n - 1 \in Nat
    BY <2>1, <2>7
  <2>9. n - 1 \notin Sizes
    <3>1. \A m \in Sizes : m \in Nat /\ ~(m < n)
      BY <2>2, <2>3, <2>7 DEF OpToRel
    <3> HIDE DEF Sizes
    <3> QED BY <2>7, <2>8, <3>1
  <2>10. Fin(T \ {x})
    BY <2>7, <2>8, <2>9
  <2>11. (T \ {x}) \cup {x} = T /\ f[x] \in Nat
    BY <2>6
  <2>12. Fin(T)
    <3> DEFINE R == T \ {x}
    <3>1. x \notin R /\ R \cup {x} = T /\ Fin(R)
      BY <2>10, <2>11
    <3> HIDE DEF R
    <3> QED BY <2>11, <3>1, TotalAdd DEF Fin
  <2> QED BY <2>4, <2>12
<1> QED BY <1>1, FS_CardinalityType DEF Total

\* A sum depends on its summands only.
LEMMA TotalSame ==
  ASSUME NEW S, NEW f, NEW g, \A x \in S : f[x] = g[x]
  PROVE  Total(f, S) = Total(g, S)
<1>1. UnitsOf(f, S) = UnitsOf(g, S)
  BY DEF UnitsOf
<1> QED BY <1>1 DEF Total

\* More members with more units each make a larger sum.
LEMMA TotalMonotone ==
  ASSUME NEW T, IsFiniteSet(T), NEW S \in SUBSET T, NEW f, NEW g,
         \A x \in T : g[x] \in Nat,
         \A x \in S : f[x] \in Nat /\ f[x] <= g[x]
  PROVE  Total(f, S) <= Total(g, T) /\ Total(f, S) \in Nat /\ Total(g, T) \in Nat
<1>1. \A x \in S : 1..f[x] \subseteq 1..g[x]
  OBVIOUS
<1>2. UnitsOf(f, S) \in SUBSET UnitsOf(g, T)
  BY <1>1 DEF UnitsOf
<1>3. IsFiniteSet(UnitsOf(g, T)) /\ Total(g, T) \in Nat
  BY TotalFinite
<1>4. IsFiniteSet(S)
  BY FS_Subset
<1>5. Total(f, S) \in Nat
  BY <1>4, TotalFinite
<1> QED BY <1>2, <1>3, <1>5, FS_Subset DEF Total

\* Members without units do not count.
LEMMA TotalSkip ==
  ASSUME NEW T, NEW S \in SUBSET T, NEW f, NEW g,
         \A x \in S : f[x] = g[x],
         \A x \in T \ S : g[x] = 0
  PROVE  Total(g, T) = Total(f, S)
<1>1. \A x \in T \ S : {x} \X (1..g[x]) = {}
  OBVIOUS
<1>2. UnitsOf(g, T) = UnitsOf(f, S)
  <2>1. \A q : q \in UnitsOf(g, T) <=> \E x \in T : q \in {x} \X (1..g[x])
    BY DEF UnitsOf
  <2>2. \A q : q \in UnitsOf(f, S) <=> \E x \in S : q \in {x} \X (1..f[x])
    BY DEF UnitsOf
  <2>3. \A q : q \in UnitsOf(g, T) <=> q \in UnitsOf(f, S)
    BY <1>1, <2>1, <2>2
  <2> QED BY <2>3
<1> QED BY <1>2 DEF Total

\* A sum, without one of its members.
LEMMA TotalSplit ==
  ASSUME NEW S, IsFiniteSet(S), NEW f, \A x \in S : f[x] \in Nat, NEW x \in S
  PROVE  Total(f, S) = Total(f, S \ {x}) + f[x] /\ Total(f, S \ {x}) \in Nat
<1> DEFINE R == S \ {x}
<1>1. x \notin R /\ R \cup {x} = S /\ IsFiniteSet(R) /\ (\A y \in R : f[y] \in Nat) /\ f[x] \in Nat
  BY FS_Subset
<1> HIDE DEF R
<1>2. IsFiniteSet(UnitsOf(f, R)) /\ Total(f, R) \in Nat
  BY <1>1, TotalFinite
<1>3. Total(f, R \cup {x}) = Total(f, R) + f[x]
  BY ONLY <1>1, <1>2, TotalAdd
<1> QED BY <1>1, <1>2, <1>3 DEF R

\* The sum of sums: no set is a smallest one for which it fails.
LEMMA TotalPlus ==
  ASSUME NEW S, IsFiniteSet(S), NEW f, NEW g, NEW h,
         \A x \in S : f[x] \in Nat /\ g[x] \in Nat /\ h[x] = f[x] + g[x]
  PROVE  Total(h, S) = Total(f, S) + Total(g, S)
<1> DEFINE Adds(T) == Total(h, T) = Total(f, T) + Total(g, T)
           Bad == {T \in SUBSET S : ~Adds(T)}
           Sizes == {n \in Nat : \E T \in Bad : Cardinality(T) = n}
<1>1. Adds(S)
  <2> SUFFICES ASSUME ~Adds(S)
               PROVE  FALSE
    OBVIOUS
  <2>0. Adds({})
    BY TotalEmpty
  <2>00. ASSUME NEW T \in SUBSET S, NEW x \in T, Adds(T \ {x})
         PROVE  Adds(T)
    <3>1. /\ IsFiniteSet(T)
          /\ \A y \in T : f[y] \in Nat /\ g[y] \in Nat /\ h[y] \in Nat
      BY FS_Subset
    <3>2. Total(f, T) = Total(f, T \ {x}) + f[x] /\ Total(f, T \ {x}) \in Nat
      BY <3>1, TotalSplit
    <3>3. Total(g, T) = Total(g, T \ {x}) + g[x] /\ Total(g, T \ {x}) \in Nat
      BY <3>1, TotalSplit
    <3>4. Total(h, T) = Total(h, T \ {x}) + h[x]
      BY <3>1, TotalSplit
    <3>5. h[x] = f[x] + g[x] /\ f[x] \in Nat /\ g[x] \in Nat
      OBVIOUS
    <3> QED BY <2>00, <3>2, <3>3, <3>4, <3>5
  <2> HIDE DEF Adds
  <2>1. \A T \in SUBSET S : IsFiniteSet(T) /\ Cardinality(T) \in Nat
    BY FS_Subset, FS_CardinalityType
  <2>2. Sizes # {} /\ Sizes \subseteq Nat
    BY <2>1
  <2>3. PICK n \in Sizes : \A m \in Sizes : ~(<<m, n>> \in OpToRel(<, Nat))
    BY <2>2, NatLessThanWellFounded, WFMin
  <2>4. PICK T \in Bad : Cardinality(T) = n
    BY <2>3
  <2>5. T # {}
    BY <2>0, <2>4
  <2>6. PICK x \in T : TRUE
    BY <2>5
  <2>7. T \ {x} \in SUBSET S /\ Cardinality(T \ {x}) = n - 1 /\ n \in Nat
    BY <2>1, <2>4, <2>6, FS_RemoveElement
  <2>8. n - 1 \in Nat
    BY <2>1, <2>7
  <2>9. n - 1 \notin Sizes
    <3>1. \A m \in Sizes : m \in Nat /\ ~(m < n)
      BY <2>2, <2>3, <2>7 DEF OpToRel
    <3> HIDE DEF Sizes
    <3> QED BY <2>7, <2>8, <3>1
  <2>10. Adds(T \ {x})
    BY <2>7, <2>8, <2>9
  <2> QED BY <2>00, <2>4, <2>6, <2>10
<1> QED BY <1>1

\* One more member at the end.
LEMMA TotalNext ==
  ASSUME NEW n \in Nat, NEW f, NEW g, \A i \in 1..n : g[i] = f[i],
         \A i \in 1..(n + 1) : g[i] \in Nat
  PROVE  Total(g, 1..(n + 1)) = Total(f, 1..n) + g[n + 1]
<1> DEFINE T == 1..(n + 1)
<1>1. IsFiniteSet(T) /\ n + 1 \in T /\ T \ {n + 1} = 1..n /\ (\A i \in T : g[i] \in Nat)
  BY FS_Interval
<1> HIDE DEF T
<1>2. Total(g, T) = Total(g, T \ {n + 1}) + g[n + 1]
  BY <1>1, TotalSplit
<1>3. Total(g, 1..n) = Total(f, 1..n)
  BY TotalSame
<1> QED BY <1>1, <1>2, <1>3 DEF T

=============================================================================
