------------------------------ MODULE DataLemmas ------------------------------
(* Facts about data that the proofs of several components rest on: induction  *)
(* over finite sets (as sets of sets, not as an operator), sums of functions,  *)
(* division, and the order statistics of a sample.                             *)
EXTENDS OrderStatistics, FiniteSetTheorems, WellFoundedInduction, TLAPS

\* A set of naturals that is not empty has a least element.
LEMMA LeastNatural ==
    ASSUME NEW S \in SUBSET Nat, S # {}
    PROVE  \E k \in S : \A m \in S : k <= m
<1> DEFINE R == OpToRel(<, Nat)
<1>1. IsWellFoundedOn(R, Nat)
  BY NatLessThanWellFounded
<1>2. \E k \in S : \A m \in S : ~(<<m, k>> \in R)
  <2> HIDE DEF R
  <2> QED BY <1>1, WFMin
<1>3. \A m, k \in Nat : m < k => <<m, k>> \in R
  BY DEF OpToRel
<1> HIDE DEF R
<1>4. PICK k \in S : \A m \in S : ~(<<m, k>> \in R)
  BY <1>2
<1>5. \A m \in S : ~(m < k)
  BY <1>3, <1>4
<1> QED BY <1>5

\* Of some finite sets that are not none, one has no smaller one below it.
LEMMA SmallestSet ==
    ASSUME NEW S, IsFiniteSet(S), NEW M \in SUBSET SUBSET S, M # {}
    PROVE  \E T \in M : \A x \in T : T \ {x} \notin M
<1> DEFINE Sizes == {Cardinality(T) : T \in M}
<1>1. \A T \in SUBSET S : IsFiniteSet(T) /\ Cardinality(T) \in Nat
  BY FS_Subset, FS_CardinalityType
<1>2. Sizes \in SUBSET Nat /\ Sizes # {}
  BY <1>1
<1>3. PICK n \in Sizes : \A m \in Sizes : n <= m
  <2> HIDE DEF Sizes
  <2> QED BY <1>2, LeastNatural
<1>4. PICK T \in M : \A U \in M : Cardinality(T) <= Cardinality(U)
  BY <1>3
<1>5. ASSUME NEW x \in T, T \ {x} \in M PROVE FALSE
  <2>1. Cardinality(T \ {x}) = Cardinality(T) - 1 /\ Cardinality(T) \in Nat
    BY <1>1, <1>4, FS_RemoveElement
  <2>2. ~(Cardinality(T) <= Cardinality(T \ {x}))
    BY <2>1
  <2> QED BY <1>4, <1>5, <2>2
<1> QED BY <1>4, <1>5

\* What holds of the empty set, and of a set and one element more when it holds of
\* the set, holds of a finite set.
LEMMA SubsetInduction ==
    ASSUME NEW S, IsFiniteSet(S), NEW Q, {} \in Q,
           \A T \in SUBSET S : \A x \in S \ T : T \in Q => T \union {x} \in Q
    PROVE  S \in Q
<1> DEFINE Missed == {T \in SUBSET S : T \notin Q}
<1> SUFFICES ASSUME Missed # {} PROVE FALSE
  OBVIOUS
<1>1. PICK T \in Missed : \A x \in T : T \ {x} \notin Missed
  <2> HIDE DEF Missed
  <2>1. Missed \in SUBSET SUBSET S
    BY DEF Missed
  <2> QED BY <2>1, SmallestSet
<1>2. PICK x \in T : TRUE
  OBVIOUS
<1>3. T \ {x} \in SUBSET S /\ x \in S \ (T \ {x}) /\ (T \ {x}) \union {x} = T
  BY <1>2
<1> QED BY <1>1, <1>2, <1>3

-----------------------------------------------------------------------------
(* The fold of the community modules computes what it says it does.          *)

Picked(s) == CHOOSE x \in s : TRUE

\* What follows from the sums of the smaller sets.
NextSum(g, f, s) == IF s = {} THEN 0 ELSE f[Picked(s)] + g[s \ {Picked(s)}]

\* The rule the sums over the subsets of S are computed by.
SumsUp(g, f, S) ==
    g = [s \in SUBSET S |-> IF s = {} THEN 0 ELSE f[Picked(s)] + g[s \ {Picked(s)}]]

\* A sum over a set is what the fold's function gives for it.
LEMMA SumIsChosen ==
    ASSUME NEW f, NEW S
    PROVE  SumFunctionOnSet(f, S) = (CHOOSE g : SumsUp(g, f, S))[S]
BY DEF SumFunctionOnSet, FoldFunctionOnSet, MapThenFoldSet, SumsUp, Picked

\* The element the fold picks is one of the set's.
LEMMA AnyElement ==
    ASSUME NEW s, s # {}
    PROVE  Picked(s) \in s
BY DEF Picked

\* Two functions that sum the subsets of two sets agree where both do.
LEMMA SumsAgree ==
    ASSUME NEW f, NEW S, IsFiniteSet(S), NEW U \in SUBSET S, NEW g, NEW h,
           SumsUp(g, f, U), SumsUp(h, f, S)
    PROVE  \A s \in SUBSET U : g[s] = h[s]
<1> DEFINE Differ == {s \in SUBSET U : g[s] # h[s]}
<1>1. ASSUME Differ # {} PROVE FALSE
  <2>1. PICK s \in Differ : \A x \in s : s \ {x} \notin Differ
    <3> HIDE DEF Differ
    <3>1. Differ \in SUBSET SUBSET S
      BY DEF Differ
    <3> QED BY <3>1, <1>1, SmallestSet
  <2>2. g[s] = NextSum(g, f, s) /\ h[s] = NextSum(h, f, s)
    BY DEF SumsUp, NextSum
  <2>3. CASE s = {}
    BY <2>2, <2>3 DEF NextSum
  <2>4. CASE s # {}
    <3>1. g[s \ {Picked(s)}] = h[s \ {Picked(s)}]
      BY <2>1, <2>4, AnyElement
    <3> QED BY <2>2, <2>4, <3>1 DEF NextSum
  <2> QED BY <2>3, <2>4
<1> QED BY <1>1

\* There is a function that sums the subsets of a finite set.
LEMMA SumsExist ==
    ASSUME NEW f, NEW S, IsFiniteSet(S)
    PROVE  \E g : SumsUp(g, f, S)
<1> DEFINE Upto(n) == {s \in SUBSET S : Cardinality(s) <= n}
           Partial(g, n) == g = [s \in Upto(n) |-> NextSum(g, f, s)]
           Missed == {n \in Nat : ~ \E g : Partial(g, n)}
<1>0. \A s \in SUBSET S : /\ Cardinality(s) \in Nat /\ Cardinality(s) <= Cardinality(S)
                          /\ \A x \in s : Cardinality(s \ {x}) = Cardinality(s) - 1
  BY FS_Subset, FS_CardinalityType, FS_RemoveElement
<1>1. ASSUME Missed # {} PROVE FALSE
  <2>1. PICK n \in Missed : \A m \in Missed : n <= m
    <3> HIDE DEF Missed
    <3>1. Missed \in SUBSET Nat
      BY DEF Missed
    <3> QED BY <3>1, <1>1, LeastNatural
  <2>2. CASE n = 0
    <3> DEFINE g == [s \in Upto(0) |-> 0]
    <3>1. \A s \in Upto(0) : s = {}
      <4> SUFFICES ASSUME NEW s \in Upto(0), NEW x \in s PROVE FALSE
        OBVIOUS
      <4>1. s \in SUBSET S /\ s \ {x} \in SUBSET S /\ Cardinality(s) <= 0
        OBVIOUS
      <4>2. Cardinality(s \ {x}) \in Nat /\ Cardinality(s) \in Nat /\ Cardinality(s \ {x}) = Cardinality(s) - 1
        BY <1>0, <4>1
      <4> QED BY <4>1, <4>2
    <3>2. Partial(g, 0)
      BY <3>1 DEF NextSum
    <3> QED BY <2>2, <3>2
  <2>3. CASE n # 0
    <3>1. n - 1 \in Nat /\ n - 1 \notin Missed
      <4>1. n \in Nat
        OBVIOUS
      <4> HIDE DEF Missed
      <4> QED BY <4>1, <2>1, <2>3
    <3>2. PICK g : Partial(g, n - 1)
      BY <3>1
    <3> DEFINE h == [s \in Upto(n) |-> NextSum(g, f, s)]
    <3>3. Upto(n - 1) \subseteq Upto(n)
      BY <1>0
    <3>4. \A s \in Upto(n - 1) : g[s] = NextSum(g, f, s)
      BY <3>2
    <3>5. \A s \in Upto(n - 1) : h[s] = g[s]
      BY <3>3, <3>4
    <3>6. ASSUME NEW s \in Upto(n) PROVE NextSum(h, f, s) = NextSum(g, f, s)
      <4>1. CASE s = {}
        BY <4>1 DEF NextSum
      <4>2. CASE s # {}
        <5>1. Picked(s) \in s /\ s \in SUBSET S /\ Cardinality(s) <= n
          BY <4>2, AnyElement
        <5>2. Cardinality(s \ {Picked(s)}) = Cardinality(s) - 1 /\ Cardinality(s) \in Nat
          BY <1>0, <5>1
        <5>3. s \ {Picked(s)} \in Upto(n - 1)
          BY <5>1, <5>2
        <5> HIDE DEF h, Upto
        <5> QED BY <3>5, <5>3 DEF NextSum
      <4> QED BY <4>1, <4>2
    <3>7. Partial(h, n)
      <4>1. h = [s \in Upto(n) |-> NextSum(h, f, s)]
        <5>1. \A s \in Upto(n) : NextSum(g, f, s) = NextSum(h, f, s)
          BY <3>6
        <5>2. [s \in Upto(n) |-> NextSum(g, f, s)] = [s \in Upto(n) |-> NextSum(h, f, s)]
          <6> HIDE DEF h, Upto
          <6> QED BY <5>1
        <5> QED BY <5>2
      <4> QED BY <4>1
    <3> QED BY <2>1, <3>7
  <2> QED BY <2>2, <2>3
<1>2. Cardinality(S) \in Nat /\ Cardinality(S) \notin Missed
  BY <1>1, FS_CardinalityType
<1>3. PICK g : Partial(g, Cardinality(S))
  BY <1>2
<1>4. Upto(Cardinality(S)) = SUBSET S
  BY <1>0
<1> QED BY <1>3, <1>4 DEF SumsUp, NextSum

\* The fold's equation: the sum is 0, or a picked term and the sum of the rest.
LEMMA SumRule ==
    ASSUME NEW f, NEW S, IsFiniteSet(S)
    PROVE  /\ SumFunctionOnSet(f, {}) = 0
           /\ S # {} => SumFunctionOnSet(f, S) = f[Picked(S)] + SumFunctionOnSet(f, S \ {Picked(S)})
<1> DEFINE G(T) == CHOOSE g : SumsUp(g, f, T)
<1>1. ASSUME NEW T \in SUBSET S PROVE SumsUp(G(T), f, T) /\ SumFunctionOnSet(f, T) = G(T)[T]
  <2>1. \E g : SumsUp(g, f, T)
    BY SumsExist, FS_Subset
  <2> QED BY <2>1, SumIsChosen
<1> HIDE DEF G
<1>2. SumFunctionOnSet(f, {}) = 0
  BY <1>1 DEF SumsUp
<1>3. ASSUME S # {} PROVE SumFunctionOnSet(f, S) = f[Picked(S)] + SumFunctionOnSet(f, S \ {Picked(S)})
  <2> DEFINE T == S \ {Picked(S)}
  <2>1. SumsUp(G(S), f, S) /\ SumsUp(G(T), f, T) /\ T \in SUBSET S
    BY <1>1
  <2>2. G(T)[T] = G(S)[T]
    <3> DEFINE g == G(T)  h == G(S)
    <3>1. SumsUp(g, f, T) /\ SumsUp(h, f, S) /\ T \in SUBSET S
      BY <2>1
    <3> HIDE DEF T, g, h
    <3>2. \A s \in SUBSET T : g[s] = h[s]
      BY <3>1, SumsAgree
    <3> QED BY <3>2 DEF g, h
  <2>3. G(S)[S] = f[Picked(S)] + G(S)[T]
    BY <1>3, <2>1 DEF SumsUp
  <2> QED BY <1>1, <2>2, <2>3
<1> QED BY <1>2, <1>3

\* Nothing sums to 0.
LEMMA SumEmpty == \A f : SumFunctionOnSet(f, {}) = 0
BY SumRule, FS_EmptySet

\* Naturals sum to a natural, integers to an integer.
LEMMA SumType ==
    ASSUME NEW f, NEW S, IsFiniteSet(S), NEW N \in {Nat, Int}, \A x \in S : f[x] \in N
    PROVE  SumFunctionOnSet(f, S) \in N
<1> DEFINE Missed == {T \in SUBSET S : SumFunctionOnSet(f, T) \notin N}
<1>1. ASSUME Missed # {} PROVE FALSE
  <2>1. PICK T \in Missed : \A x \in T : T \ {x} \notin Missed
    <3>1. Missed \in SUBSET SUBSET S
      OBVIOUS
    <3> HIDE DEF Missed
    <3> QED BY <3>1, <1>1, SmallestSet
  <2>2. IsFiniteSet(T)
    BY FS_Subset
  <2>3. T # {}
    <3>1. 0 \in N
      OBVIOUS
    <3> QED BY <3>1, SumEmpty
  <2>4. Picked(T) \in T /\ SumFunctionOnSet(f, T \ {Picked(T)}) \in N
    BY <2>1, <2>3, AnyElement
  <2>5. SumFunctionOnSet(f, T) = f[Picked(T)] + SumFunctionOnSet(f, T \ {Picked(T)})
    BY <2>2, <2>3, SumRule
  <2> QED BY <2>4, <2>5
<1> QED BY <1>1

\* A sum may be taken apart at any element.
LEMMA SumRemove ==
    ASSUME NEW f, NEW S, IsFiniteSet(S), \A x \in S : f[x] \in Int, NEW x \in S
    PROVE  SumFunctionOnSet(f, S) = f[x] + SumFunctionOnSet(f, S \ {x})
<1> DEFINE Sum(T) == SumFunctionOnSet(f, T)
           Missed == {T \in SUBSET S : \E y \in T : Sum(T) # f[y] + Sum(T \ {y})}
<1>1. ASSUME Missed # {} PROVE FALSE
  <2>1. PICK T \in Missed : \A y \in T : T \ {y} \notin Missed
    <3>1. Missed \in SUBSET SUBSET S
      OBVIOUS
    <3> HIDE DEF Missed
    <3> QED BY <3>1, <1>1, SmallestSet
  <2>2. PICK y \in T : Sum(T) # f[y] + Sum(T \ {y})
    OBVIOUS
  <2> DEFINE z == Picked(T)
  <2>3. z \in T
    BY <2>2, AnyElement
  <2>4. IsFiniteSet(T)
    BY FS_Subset
  <2>5. Sum(T) = f[z] + Sum(T \ {z})
    BY <2>3, <2>4, SumRule
  <2>6. z # y
    BY <2>2, <2>5
  <2>7. /\ Sum(T \ {z}) = f[y] + Sum((T \ {z}) \ {y})
        /\ Sum(T \ {y}) = f[z] + Sum((T \ {y}) \ {z})
    <3>1. T \ {z} \notin Missed /\ T \ {y} \notin Missed
      BY <2>1, <2>3
    <3>2. T \ {z} \in SUBSET S /\ T \ {y} \in SUBSET S /\ y \in T \ {z} /\ z \in T \ {y}
      BY <2>3, <2>6
    <3> QED BY <3>1, <3>2
  <2>8. (T \ {z}) \ {y} = (T \ {y}) \ {z}
    OBVIOUS
  <2>9. /\ f[z] \in Int /\ f[y] \in Int /\ Sum((T \ {z}) \ {y}) \in Int
        /\ Sum(T \ {y}) \in Int /\ Sum(T \ {z}) \in Int
    <3>1. IsFiniteSet(T \ {y}) /\ IsFiniteSet(T \ {z}) /\ IsFiniteSet((T \ {z}) \ {y})
      BY <2>4, FS_Subset
    <3> HIDE DEF z
    <3> QED BY <2>3, <3>1, SumType
  <2> DEFINE rest == Sum((T \ {z}) \ {y})
  <2>10. Sum(T \ {z}) = f[y] + rest /\ Sum(T \ {y}) = f[z] + rest
    BY <2>7, <2>8
  <2> HIDE DEF Sum, z, rest
  <2>11. f[z] + (f[y] + rest) = f[y] + (f[z] + rest)
    BY <2>9 DEF rest
  <2> QED BY <2>2, <2>5, <2>10, <2>11
<1> QED BY <1>1

\* One more term is added.
LEMMA SumAdd ==
    ASSUME NEW f, NEW S, IsFiniteSet(S), NEW x, x \notin S, \A y \in S \union {x} : f[y] \in Int
    PROVE  SumFunctionOnSet(f, S \union {x}) = SumFunctionOnSet(f, S) + f[x]
<1>1. IsFiniteSet(S \union {x}) /\ (S \union {x}) \ {x} = S
  BY FS_AddElement
<1>2. SumFunctionOnSet(f, S \union {x}) = f[x] + SumFunctionOnSet(f, S)
  BY <1>1, SumRemove
<1>3. f[x] \in Int /\ SumFunctionOnSet(f, S) \in Int
  BY SumType
<1> QED BY <1>2, <1>3

\* Functions that are as large on a set have sums as large; of functions that agree
\* on it the sums agree.
LEMMA SumGrows ==
    ASSUME NEW f, NEW g, NEW S, IsFiniteSet(S),
           \A x \in S : f[x] \in Int /\ g[x] \in Int /\ f[x] <= g[x]
    PROVE  SumFunctionOnSet(f, S) <= SumFunctionOnSet(g, S)
<1> DEFINE Q == {T \in SUBSET S : SumFunctionOnSet(f, T) <= SumFunctionOnSet(g, T)}
<1>1. {} \in Q
  BY SumEmpty
<1>2. ASSUME NEW T \in SUBSET S, NEW x \in S \ T, T \in Q PROVE T \union {x} \in Q
  <2>1. IsFiniteSet(T)
    BY FS_Subset
  <2>2. /\ SumFunctionOnSet(f, T \union {x}) = SumFunctionOnSet(f, T) + f[x]
        /\ SumFunctionOnSet(g, T \union {x}) = SumFunctionOnSet(g, T) + g[x]
    BY <2>1, SumAdd
  <2>3. SumFunctionOnSet(f, T) \in Int /\ SumFunctionOnSet(g, T) \in Int
    BY <2>1, SumType
  <2>4. SumFunctionOnSet(f, T) <= SumFunctionOnSet(g, T) /\ f[x] <= g[x] /\ f[x] \in Int /\ g[x] \in Int
    BY <1>2
  <2>5. SumFunctionOnSet(f, T \union {x}) <= SumFunctionOnSet(g, T \union {x})
    BY <2>2, <2>3, <2>4
  <2> QED BY <2>5
<1>3. S \in Q
  <2> HIDE DEF Q
  <2> QED BY <1>1, <1>2, SubsetInduction
<1> QED BY <1>3

\* Equal terms have equal sums.
LEMMA SumSame ==
    ASSUME NEW f, NEW g, NEW S, IsFiniteSet(S), \A x \in S : f[x] \in Int /\ f[x] = g[x]
    PROVE  SumFunctionOnSet(f, S) = SumFunctionOnSet(g, S)
<1>1. /\ SumFunctionOnSet(f, S) \in Int /\ SumFunctionOnSet(g, S) \in Int
  BY SumType
<1>2. SumFunctionOnSet(f, S) <= SumFunctionOnSet(g, S)
  BY SumGrows
<1>3. SumFunctionOnSet(g, S) <= SumFunctionOnSet(f, S)
  BY SumGrows
<1> QED BY <1>1, <1>2, <1>3

\* Terms that are all zero sum to zero.
LEMMA SumZero ==
    ASSUME NEW f, NEW S, IsFiniteSet(S), \A x \in S : f[x] = 0
    PROVE  SumFunctionOnSet(f, S) = 0
<1> DEFINE Q == {T \in SUBSET S : SumFunctionOnSet(f, T) = 0}
<1>1. {} \in Q
  BY SumEmpty
<1>2. ASSUME NEW T \in SUBSET S, NEW x \in S \ T, T \in Q PROVE T \union {x} \in Q
  <2>1. IsFiniteSet(T)
    BY FS_Subset
  <2>2. \A y \in T \union {x} : f[y] \in Int
    OBVIOUS
  <2>3. SumFunctionOnSet(f, T \union {x}) = SumFunctionOnSet(f, T) + f[x]
    BY <2>1, <2>2, SumAdd
  <2> QED BY <1>2, <2>3
<1>3. S \in Q
  <2> HIDE DEF Q
  <2> QED BY <1>1, <1>2, SubsetInduction
<1> QED BY <1>3

\* The sum over two sets apart is the sum of their sums.
LEMMA SumUnion ==
    ASSUME NEW f, NEW S, IsFiniteSet(S), NEW T, IsFiniteSet(T), S \cap T = {},
           \A x \in S \union T : f[x] \in Int
    PROVE  SumFunctionOnSet(f, S \union T) = SumFunctionOnSet(f, S) + SumFunctionOnSet(f, T)
<1> DEFINE Q == {U \in SUBSET T :
                   SumFunctionOnSet(f, S \union U) = SumFunctionOnSet(f, S) + SumFunctionOnSet(f, U)}
<1>0. SumFunctionOnSet(f, S) \in Int
  BY SumType
<1>1. {} \in Q
  BY <1>0, SumEmpty
<1>2. ASSUME NEW U \in SUBSET T, NEW x \in T \ U, U \in Q PROVE U \union {x} \in Q
  <2>1. IsFiniteSet(U) /\ IsFiniteSet(S \union U) /\ x \notin S \union U
    BY FS_Subset, FS_Union
  <2>2. /\ SumFunctionOnSet(f, U \union {x}) = SumFunctionOnSet(f, U) + f[x]
        /\ SumFunctionOnSet(f, (S \union U) \union {x}) = SumFunctionOnSet(f, S \union U) + f[x]
    BY <2>1, SumAdd
  <2>3. SumFunctionOnSet(f, U) \in Int /\ f[x] \in Int
    BY <2>1, SumType
  <2>4. (S \union U) \union {x} = S \union (U \union {x})
    OBVIOUS
  <2>5. SumFunctionOnSet(f, S \union U) = SumFunctionOnSet(f, S) + SumFunctionOnSet(f, U)
    BY <1>2
  <2>6. SumFunctionOnSet(f, S \union (U \union {x})) = SumFunctionOnSet(f, S) + SumFunctionOnSet(f, U \union {x})
    <3> DEFINE a == SumFunctionOnSet(f, S)  b == SumFunctionOnSet(f, U)
    <3>1. SumFunctionOnSet(f, S \union (U \union {x})) = (a + b) + f[x]
      BY <2>2, <2>4, <2>5
    <3>2. SumFunctionOnSet(f, U \union {x}) = b + f[x]
      BY <2>2
    <3>3. (a + b) + f[x] = a + (b + f[x])
      <4> a \in Int /\ b \in Int /\ f[x] \in Int
        BY <1>0, <2>3
      <4> HIDE DEF a, b
      <4> QED OBVIOUS
    <3> QED BY <3>1, <3>2, <3>3
  <2> QED BY <2>6
<1>3. T \in Q
  <2> HIDE DEF Q
  <2> QED BY <1>1, <1>2, SubsetInduction
<1> QED BY <1>3

\* One value changed changes the sum by as much.
LEMMA SumExcept ==
    ASSUME NEW S, IsFiniteSet(S), NEW f \in [S -> Int], NEW x \in S, NEW v \in Int
    PROVE  SumFunction([f EXCEPT ![x] = v]) = SumFunction(f) - f[x] + v
<1> DEFINE g == [f EXCEPT ![x] = v]
<1>1. IsFiniteSet(S \ {x})
  BY FS_Subset
<1>2. SumFunctionOnSet(g, S) = g[x] + SumFunctionOnSet(g, S \ {x})
  BY SumRemove
<1>3. SumFunctionOnSet(f, S) = f[x] + SumFunctionOnSet(f, S \ {x})
  BY SumRemove
<1>4. SumFunctionOnSet(g, S \ {x}) = SumFunctionOnSet(f, S \ {x})
  BY <1>1, SumSame
<1>5. SumFunctionOnSet(f, S \ {x}) \in Int
  BY <1>1, SumType
<1> QED BY <1>2, <1>3, <1>4, <1>5 DEF SumFunction


\* Parts of a finite set are finite, no larger, and leave the rest.
LEMMA Counted ==
    ASSUME NEW S, IsFiniteSet(S), NEW T \in SUBSET S
    PROVE  /\ IsFiniteSet(T) /\ Cardinality(T) \in Nat /\ Cardinality(T) <= Cardinality(S)
           /\ Cardinality(S \ T) = Cardinality(S) - Cardinality(T)
           /\ T = {} <=> Cardinality(T) = 0
<1>1. IsFiniteSet(T) /\ Cardinality(T) \in Nat /\ Cardinality(T) <= Cardinality(S)
  BY FS_Subset, FS_CardinalityType
<1>2. T = {} <=> Cardinality(T) = 0
  BY <1>1, FS_EmptySet
<1>3. Cardinality(S \ T) = Cardinality(S) - Cardinality(T)
  <2>1. S \cap T = T
    OBVIOUS
  <2> QED BY <2>1, FS_Difference
<1> QED BY <1>1, <1>2, <1>3

\* A function to the integers has a largest value on a finite set.
LEMMA LargestValue ==
    ASSUME NEW S, IsFiniteSet(S), S # {}, NEW f, \A x \in S : f[x] \in Int
    PROVE  \E x \in S : \A y \in S : f[y] <= f[x]
<1> DEFINE Q == {T \in SUBSET S : T = {} \/ \E x \in T : \A y \in T : f[y] <= f[x]}
<1>1. {} \in Q
  OBVIOUS
<1>2. ASSUME NEW T \in SUBSET S, NEW x \in S \ T, T \in Q PROVE T \union {x} \in Q
  <2>1. CASE T = {}
    BY <2>1
  <2>2. CASE T # {}
    <3>1. PICK m \in T : \A y \in T : f[y] <= f[m]
      BY <1>2, <2>2
    <3>2. CASE f[m] <= f[x]
      <4>1. \A y \in T \union {x} : f[y] <= f[x]
        BY <3>1, <3>2
      <4> QED BY <4>1
    <3>3. CASE ~(f[m] <= f[x])
      <4>1. \A y \in T \union {x} : f[y] <= f[m]
        BY <3>1, <3>3
      <4> QED BY <4>1
    <3> QED BY <3>2, <3>3
  <2> QED BY <2>1, <2>2
<1>3. S \in Q
  <2> HIDE DEF Q
  <2> QED BY <1>1, <1>2, SubsetInduction
<1> QED BY <1>3

\* A function to the integers has a smallest value on a finite set.
LEMMA SmallestValue ==
    ASSUME NEW S, IsFiniteSet(S), S # {}, NEW f, \A x \in S : f[x] \in Int
    PROVE  \E x \in S : \A y \in S : f[x] <= f[y]
<1> DEFINE g == [x \in S |-> -f[x]]
<1>1. \A x \in S : g[x] \in Int
  OBVIOUS
<1>2. PICK x \in S : \A y \in S : g[y] <= g[x]
  <2> HIDE DEF g
  <2> QED BY <1>1, LargestValue
<1> QED BY <1>2

\* Terms of at most b sum to at most b each.
LEMMA SumBound ==
    ASSUME NEW f, NEW S, IsFiniteSet(S), NEW b \in Int, \A x \in S : f[x] \in Int /\ f[x] <= b
    PROVE  SumFunctionOnSet(f, S) <= Cardinality(S) * b
<1> DEFINE Q == {T \in SUBSET S : SumFunctionOnSet(f, T) <= Cardinality(T) * b}
<1>1. {} \in Q
  BY SumEmpty, FS_EmptySet
<1>2. ASSUME NEW T \in SUBSET S, NEW x \in S \ T, T \in Q PROVE T \union {x} \in Q
  <2>1. /\ IsFiniteSet(T) /\ Cardinality(T) \in Nat
        /\ Cardinality(T \union {x}) = Cardinality(T) + 1
    BY FS_Subset, FS_CardinalityType, FS_AddElement
  <2>2. SumFunctionOnSet(f, T \union {x}) = SumFunctionOnSet(f, T) + f[x]
    BY <2>1, SumAdd
  <2>3. SumFunctionOnSet(f, T) \in Int
    BY <2>1, SumType
  <2>4. f[x] \in Int /\ f[x] <= b
    OBVIOUS
  <2>5. (Cardinality(T) + 1) * b = Cardinality(T) * b + b
    BY <2>1
  <2>6. Cardinality(T) * b \in Int
    BY <2>1
  <2>7. SumFunctionOnSet(f, T \union {x}) <= Cardinality(T \union {x}) * b
    <3>1. SumFunctionOnSet(f, T) <= Cardinality(T) * b
      BY <1>2
    <3> HIDE DEF Q
    <3> QED BY <2>1, <2>2, <2>3, <2>4, <2>5, <2>6, <3>1
  <2> QED BY <2>7
<1>3. S \in Q
  <2> HIDE DEF Q
  <2> QED BY <1>1, <1>2, SubsetInduction
<1> QED BY <1>3

\* Leaving natural terms out makes a sum no larger.
LEMMA SumSubset ==
    ASSUME NEW f, NEW S, IsFiniteSet(S), \A x \in S : f[x] \in Nat, NEW T \in SUBSET S
    PROVE  SumFunctionOnSet(f, T) <= SumFunctionOnSet(f, S)
<1>1. IsFiniteSet(T) /\ IsFiniteSet(S \ T) /\ T \cap (S \ T) = {} /\ T \union (S \ T) = S
  BY FS_Subset
<1>2. SumFunctionOnSet(f, S) = SumFunctionOnSet(f, T) + SumFunctionOnSet(f, S \ T)
  <2>1. \A x \in T \union (S \ T) : f[x] \in Int
    OBVIOUS
  <2>2. SumFunctionOnSet(f, T \union (S \ T)) = SumFunctionOnSet(f, T) + SumFunctionOnSet(f, S \ T)
    BY <1>1, <2>1, SumUnion
  <2> QED BY <1>1, <2>2
<1>3. SumFunctionOnSet(f, T) \in Nat /\ SumFunctionOnSet(f, S \ T) \in Nat
  BY <1>1, SumType
<1> QED BY <1>2, <1>3

\* Terms that differ by at most l times as much sum to sums that do.
LEMMA SumCompares ==
    ASSUME NEW S, IsFiniteSet(S), NEW f, NEW g, NEW a, NEW b, NEW l \in Int,
           \A x \in S : /\ f[x] \in Int /\ g[x] \in Int /\ a[x] \in Int /\ b[x] \in Int
                        /\ f[x] - g[x] <= l * (a[x] - b[x])
    PROVE  /\ SumFunctionOnSet(f, S) \in Int /\ SumFunctionOnSet(g, S) \in Int
           /\ SumFunctionOnSet(a, S) \in Int /\ SumFunctionOnSet(b, S) \in Int
           /\ SumFunctionOnSet(f, S) - SumFunctionOnSet(g, S)
                 <= l * (SumFunctionOnSet(a, S) - SumFunctionOnSet(b, S))
<1> DEFINE Q == {T \in SUBSET S : SumFunctionOnSet(f, T) - SumFunctionOnSet(g, T)
                                     <= l * (SumFunctionOnSet(a, T) - SumFunctionOnSet(b, T))}
<1>1. {} \in Q
  <2>1. /\ SumFunctionOnSet(f, {}) = 0 /\ SumFunctionOnSet(g, {}) = 0
        /\ SumFunctionOnSet(a, {}) = 0 /\ SumFunctionOnSet(b, {}) = 0
    BY SumEmpty
  <2> QED BY <2>1
<1>2. ASSUME NEW T \in SUBSET S, NEW x \in S \ T, T \in Q PROVE T \union {x} \in Q
  <2>1. IsFiniteSet(T)
    BY FS_Subset
  <2>2. /\ SumFunctionOnSet(f, T \union {x}) = SumFunctionOnSet(f, T) + f[x]
        /\ SumFunctionOnSet(g, T \union {x}) = SumFunctionOnSet(g, T) + g[x]
        /\ SumFunctionOnSet(a, T \union {x}) = SumFunctionOnSet(a, T) + a[x]
        /\ SumFunctionOnSet(b, T \union {x}) = SumFunctionOnSet(b, T) + b[x]
    BY <2>1, SumAdd
  <2> DEFINE sf == SumFunctionOnSet(f, T)
             sg == SumFunctionOnSet(g, T)
             sa == SumFunctionOnSet(a, T)
             sb == SumFunctionOnSet(b, T)
  <2>3. sf \in Int /\ sg \in Int /\ sa \in Int /\ sb \in Int
    BY <2>1, SumType
  <2>4. /\ sf - sg <= l * (sa - sb) /\ f[x] - g[x] <= l * (a[x] - b[x])
        /\ f[x] \in Int /\ g[x] \in Int /\ a[x] \in Int /\ b[x] \in Int
    BY <1>2
  <2>5. T \union {x} \in SUBSET S
    OBVIOUS
  <2> HIDE DEF sf, sg, sa, sb
  <2>6. l * ((sa + a[x]) - (sb + b[x])) = l * (sa - sb) + l * (a[x] - b[x])
    BY <2>3, <2>4
  <2>7. l * (sa - sb) \in Int /\ l * (a[x] - b[x]) \in Int
    BY <2>3, <2>4
  <2>8. (sf + f[x]) - (sg + g[x]) <= l * (sa - sb) + l * (a[x] - b[x])
    BY <2>3, <2>4, <2>7
  <2>9. (sf + f[x]) - (sg + g[x]) <= l * ((sa + a[x]) - (sb + b[x]))
    BY <2>6, <2>8
  <2> QED BY <2>2, <2>5, <2>9 DEF sf, sg, sa, sb
<1>3. S \in Q
  <2> HIDE DEF Q
  <2> QED BY <1>1, <1>2, SubsetInduction
<1> QED BY <1>3, SumType

\* The first k terms sum to the first k - 1 and the k-th.
LEMMA SumFirst ==
    ASSUME NEW f, NEW k \in Nat \ {0}, \A m \in 1 .. k : f[m] \in Int
    PROVE  /\ SumFunctionOnSet(f, 1 .. k) = SumFunctionOnSet(f, 1 .. k - 1) + f[k]
           /\ SumFunctionOnSet(f, 1 .. k) \in Int /\ SumFunctionOnSet(f, 1 .. k - 1) \in Int
<1> DEFINE S == 1 .. k - 1
<1>1. 1 .. k = S \union {k} /\ k \notin S
  OBVIOUS
<1>2. IsFiniteSet(S)
  BY FS_Interval
<1>3. \A y \in S \union {k} : f[y] \in Int
  BY <1>1
<1> HIDE DEF S
<1>4. SumFunctionOnSet(f, S \union {k}) = SumFunctionOnSet(f, S) + f[k]
  BY <1>1, <1>2, <1>3, SumAdd
<1>5. SumFunctionOnSet(f, S) \in Int
  BY <1>2, <1>3, SumType
<1>6. f[k] \in Int
  OBVIOUS
<1>7. SumFunctionOnSet(f, 1 .. k) = SumFunctionOnSet(f, S) + f[k]
  BY <1>1, <1>4, Zenon
<1>8. SumFunctionOnSet(f, 1 .. k) \in Int
  BY <1>5, <1>6, <1>7
<1> QED BY <1>5, <1>7, <1>8 DEF S

\* Terms that are a difference sum to the difference.
LEMMA SumDifference ==
    ASSUME NEW S, IsFiniteSet(S), NEW f, NEW g, NEW h,
           \A x \in S : f[x] \in Int /\ g[x] \in Int /\ h[x] \in Int /\ h[x] = f[x] - g[x]
    PROVE  /\ SumFunctionOnSet(h, S) = SumFunctionOnSet(f, S) - SumFunctionOnSet(g, S)
           /\ SumFunctionOnSet(f, S) \in Int /\ SumFunctionOnSet(g, S) \in Int
<1> DEFINE z == [x \in S |-> 0]
<1>1. \A x \in S : z[x] = 0
  OBVIOUS
<1> HIDE DEF z
<1>2. SumFunctionOnSet(z, S) = 0
  BY <1>1, SumZero
<1>3. \A x \in S : /\ f[x] \in Int /\ g[x] \in Int /\ h[x] \in Int /\ z[x] \in Int
                   /\ f[x] - g[x] <= 1 * (h[x] - z[x])
                   /\ h[x] - z[x] <= 1 * (f[x] - g[x])
  <2> TAKE x \in S
  <2>1. f[x] \in Int /\ g[x] \in Int /\ h[x] = f[x] - g[x] /\ z[x] = 0
    BY <1>1
  <2> QED BY <2>1
<1>4. /\ SumFunctionOnSet(f, S) \in Int /\ SumFunctionOnSet(g, S) \in Int
      /\ SumFunctionOnSet(h, S) \in Int /\ SumFunctionOnSet(z, S) \in Int
      /\ SumFunctionOnSet(f, S) - SumFunctionOnSet(g, S)
            <= 1 * (SumFunctionOnSet(h, S) - SumFunctionOnSet(z, S))
  <2>1. 1 \in Int
    OBVIOUS
  <2> QED BY <1>3, <2>1, SumCompares
<1>5. SumFunctionOnSet(h, S) - SumFunctionOnSet(z, S)
            <= 1 * (SumFunctionOnSet(f, S) - SumFunctionOnSet(g, S))
  <2>1. 1 \in Int
    OBVIOUS
  <2> QED BY <1>3, <2>1, SumCompares
<1> QED BY <1>2, <1>4, <1>5

-----------------------------------------------------------------------------
(* Division, and order statistics.                                        *)

\* What the quotient and the remainder are.
LEMMA Division ==
    ASSUME NEW a \in Int, NEW b \in Nat \ {0}
    PROVE  /\ a \div b \in Int /\ a % b \in 0 .. b - 1
           /\ a = b * (a \div b) + (a % b)
OBVIOUS

\* Multiplying by a natural keeps the order.
LEMMA ProductGrows ==
    ASSUME NEW a \in Int, NEW b \in Int, NEW c \in Nat, a <= b
    PROVE  a * c <= b * c
<1>1. (b - a) * c >= 0 /\ (b - a) * c = b * c - a * c
  OBVIOUS
<1> QED BY <1>1

\* The quotient is the largest integer whose product does not exceed.
LEMMA Floor ==
    ASSUME NEW a \in Int, NEW b \in Nat \ {0}, NEW c \in Int
    PROVE  c <= a \div b <=> c * b <= a
<1> DEFINE q == a \div b
           r == a % b
<1>1. q \in Int /\ r \in 0 .. b - 1 /\ a = b * q + r
  BY Division
<1> HIDE DEF q, r
<1>2. ASSUME c <= q PROVE c * b <= a
  <2>1. c * b <= q * b
    BY <1>1, <1>2, ProductGrows
  <2> QED BY <1>1, <2>1
<1>3. ASSUME q < c PROVE a < c * b
  <2>1. (q + 1) * b <= c * b
    BY <1>1, <1>3, ProductGrows
  <2>2. (q + 1) * b = b * q + b
    BY <1>1
  <2> QED BY <1>1, <2>1, <2>2
<1>4. c <= q <=> c * b <= a
  BY <1>1, <1>2, <1>3
<1> QED BY <1>4 DEF q

\* The k-th order statistic is a value of the sample with fewer than k below it
\* and at least k up to it.
LEMMA KthSmallestIs ==
    ASSUME NEW S, IsFiniteSet(S), NEW f \in [S -> Int], NEW k \in 1 .. Cardinality(S)
    PROVE  /\ KthSmallest(f, k) \in Range(f) /\ KthSmallest(f, k) \in Int
           /\ Cardinality(Below(f, KthSmallest(f, k))) < k
           /\ k <= Cardinality(UpTo(f, KthSmallest(f, k)))
<1> DEFINE W == {x \in S : k <= Cardinality(UpTo(f, f[x]))}
<1>0. Cardinality(S) \in Nat /\ S # {}
  BY FS_CardinalityType, FS_EmptySet
<1>1. W # {}
  <2>1. PICK x \in S : \A y \in S : f[y] <= f[x]
    BY <1>0, LargestValue
  <2>2. UpTo(f, f[x]) = S
    BY <2>1 DEF UpTo
  <2> QED BY <2>2, <1>0
<1>2. PICK x \in W : \A y \in W : f[x] <= f[y]
  <2>1. IsFiniteSet(W)
    BY FS_Subset
  <2>2. \A y \in W : f[y] \in Int
    OBVIOUS
  <2> HIDE DEF W
  <2> QED BY <1>1, <2>1, <2>2, SmallestValue
<1>3. Cardinality(Below(f, f[x])) < k
  <2> SUFFICES ASSUME ~(Cardinality(Below(f, f[x])) < k) PROVE FALSE
    OBVIOUS
  <2>1. /\ IsFiniteSet(Below(f, f[x])) /\ Cardinality(Below(f, f[x])) \in Nat
        /\ Below(f, f[x]) = {} <=> Cardinality(Below(f, f[x])) = 0
    <3>1. Below(f, f[x]) \in SUBSET S
      BY DEF Below
    <3> QED BY <3>1, Counted
  <2>2. Below(f, f[x]) # {}
    BY <2>1
  <2>3. PICK y \in Below(f, f[x]) : \A z \in Below(f, f[x]) : f[z] <= f[y]
    <3>1. \A z \in Below(f, f[x]) : f[z] \in Int
      BY DEF Below
    <3> QED BY <2>1, <2>2, <3>1, LargestValue
  <2>4. y \in S /\ f[y] < f[x] /\ Below(f, f[x]) = UpTo(f, f[y])
    BY <2>3 DEF Below, UpTo
  <2>5. y \in W
    <3>1. k <= Cardinality(Below(f, f[x]))
      BY <2>1
    <3> QED BY <2>4, <3>1
  <2>6. f[x] <= f[y]
    BY <1>2, <2>5
  <2>7. f[x] \in Int /\ f[y] \in Int
    BY <2>4
  <2> QED BY <2>4, <2>6, <2>7
<1>4. f[x] \in Range(f) /\ Range(f) \subseteq Int
  BY DEF Range
<1>5. \E v \in Range(f) : Cardinality(Below(f, v)) < k /\ k <= Cardinality(UpTo(f, v))
  BY <1>2, <1>3, <1>4
<1> QED BY <1>4, <1>5 DEF KthSmallest

\* Order statistics rise with their rank.
LEMMA KthSmallestRises ==
    ASSUME NEW S, IsFiniteSet(S), NEW f \in [S -> Int],
           NEW k \in 1 .. Cardinality(S), NEW l \in 1 .. Cardinality(S), k <= l
    PROVE  KthSmallest(f, k) <= KthSmallest(f, l)
<1> DEFINE v == KthSmallest(f, k)
           w == KthSmallest(f, l)
<1>1. v \in Int /\ w \in Int /\ Cardinality(Below(f, v)) < k /\ l <= Cardinality(UpTo(f, w))
  BY KthSmallestIs
<1> HIDE DEF v, w
<1>2. ASSUME w < v PROVE FALSE
  <2>1. Below(f, v) \in SUBSET S /\ UpTo(f, w) \in SUBSET Below(f, v)
    BY <1>1, <1>2 DEF Below, UpTo
  <2>2. IsFiniteSet(Below(f, v)) /\ Cardinality(Below(f, v)) \in Nat
    BY <2>1, Counted
  <2>3. Cardinality(UpTo(f, w)) \in Nat /\ Cardinality(UpTo(f, w)) <= Cardinality(Below(f, v))
    BY <2>1, <2>2, Counted
  <2>4. k \in Nat /\ l \in Nat
    BY FS_CardinalityType
  <2> QED BY <1>1, <2>2, <2>3, <2>4
<1>3. v <= w
  BY <1>1, <1>2
<1> QED BY <1>3 DEF v, w

\* Taking an element out of a sample does not lower an order statistic of it.
LEMMA KthSmallestOfOthers ==
    ASSUME NEW S, IsFiniteSet(S), NEW f \in [S -> Int], NEW x \in S,
           NEW k \in 1 .. Cardinality(S) - 1
    PROVE  KthSmallest(f, k) <= KthSmallest(Restrict(f, S \ {x}), k)
<1> DEFINE g == Restrict(f, S \ {x})
           v == KthSmallest(f, k)
           w == KthSmallest(g, k)
<1>0. /\ IsFiniteSet(S \ {x}) /\ Cardinality(S \ {x}) = Cardinality(S) - 1 /\ Cardinality(S) \in Nat
  BY FS_RemoveElement, FS_CardinalityType
<1>1. g \in [S \ {x} -> Int] /\ \A y \in S \ {x} : g[y] = f[y]
  BY DEF Restrict
<1>2. k \in 1 .. Cardinality(S) /\ k \in 1 .. Cardinality(S \ {x})
  BY <1>0
<1>3. v \in Int /\ Cardinality(Below(f, v)) < k
  BY <1>2, KthSmallestIs
<1>4. w \in Int /\ k <= Cardinality(UpTo(g, w))
  <2> HIDE DEF g
  <2> QED BY <1>0, <1>1, <1>2, KthSmallestIs
<1> HIDE DEF g, v, w
<1>5. ASSUME w < v PROVE FALSE
  <2>1. Below(f, v) \in SUBSET S /\ UpTo(g, w) \in SUBSET Below(f, v)
    BY <1>1, <1>3, <1>4, <1>5 DEF Below, UpTo
  <2>2. IsFiniteSet(Below(f, v)) /\ Cardinality(Below(f, v)) \in Nat
    BY <2>1, Counted
  <2>3. Cardinality(UpTo(g, w)) \in Nat /\ Cardinality(UpTo(g, w)) <= Cardinality(Below(f, v))
    BY <2>1, <2>2, Counted
  <2> QED BY <1>2, <1>3, <1>4, <2>2, <2>3, <1>0
<1>6. v <= w
  BY <1>3, <1>4, <1>5
<1> QED BY <1>6 DEF v, w, g

\* Of the quantile of a sample, rounded down: what lies up to it is more than its
\* share, what lies below it less than its share and one.
LEMMA QuantileShares ==
    ASSUME NEW S, IsFiniteSet(S), S # {}, NEW f \in [S -> Int],
           NEW num \in Nat, NEW den \in Nat \ {0}, num <= den
    PROVE  LET q == Interpolated(f, num, den) \div den
               h == (Cardinality(S) - 1) * num
           IN  /\ q \in Int /\ Interpolated(f, num, den) \in Int
               /\ \A x \in S : den * f[x] <= Interpolated(f, num, den) <=> f[x] <= q
               /\ Cardinality(UpTo(f, q)) * den > h
               /\ (Cardinality(Below(f, q)) - 1) * den <= h
               /\ h = 0 => Below(f, q) = {}
<1> DEFINE n == Cardinality(S)
           h == (n - 1) * num
           j == (h \div den) + 1
           r == h % den
           l == Smaller(h \div den + 2, n)
           low == KthSmallest(f, j)
           high == KthSmallest(f, l)
           total == den * low + r * (high - low)
           q == total \div den
<1>1. n \in Nat \ {0} /\ DOMAIN f = S
  BY FS_CardinalityType, FS_EmptySet
<1>2. h \in Nat /\ h <= (n - 1) * den
  <2> HIDE DEF n
  <2>1. (den - num) * (n - 1) >= 0 /\ (den - num) * (n - 1) = (n - 1) * den - h
    BY <1>1
  <2> QED BY <1>1, <2>1
<1>3. r \in 0 .. den - 1 /\ h = den * (j - 1) + r /\ j \in Int
  <2> DEFINE d == h \div den
  <2>1. h \in Int
    BY <1>2
  <2>2. d \in Int /\ r \in 0 .. den - 1 /\ h = (den * d) + r
    <3> HIDE DEF h
    <3> QED BY <2>1, Division
  <2>3. j - 1 = d /\ j \in Int
    <3> HIDE DEF h, r
    <3> QED BY <2>2
  <2> HIDE DEF d, j, r, h
  <2> QED BY <2>2, <2>3
<1>4. j >= 1 /\ j <= n
  <2>1. j >= 1
    <3>1. 0 * den <= h
      BY <1>2
    <3>2. 0 <= h \div den
      <4> HIDE DEF h, n
      <4> QED BY <1>2, <3>1, Floor
    <3> QED BY <3>2, <1>3
  <2>2. ASSUME j > n PROVE FALSE
    <3>1. n * den <= h
      <4> HIDE DEF h, n
      <4> QED BY <1>1, <1>2, <1>3, <2>2, Floor
    <3>2. n * den = (n - 1) * den + den
      <4> HIDE DEF h, n
      <4> QED BY <1>1
    <3> HIDE DEF h, n
    <3> QED BY <3>1, <3>2, <1>1, <1>2
  <2> HIDE DEF h, n, j
  <2> QED BY <2>1, <2>2, <1>1, <1>3
<1>5. l \in 1 .. n /\ j <= l /\ l <= j + 1
  BY <1>1, <1>3, <1>4 DEF Smaller
<1>6. /\ low \in Int /\ high \in Int /\ low <= high
      /\ j <= Cardinality(UpTo(f, low)) /\ Cardinality(Below(f, low)) < j
      /\ Cardinality(Below(f, high)) < l
  <2>1. j \in 1 .. Cardinality(S) /\ l \in 1 .. Cardinality(S)
    BY <1>1, <1>3, <1>4, <1>5
  <2> HIDE DEF j, l
  <2> QED BY <2>1, <1>5, KthSmallestIs, KthSmallestRises
<1>7. total = Interpolated(f, num, den)
  BY <1>1 DEF Interpolated
<1>8. /\ total \in Int /\ den * low <= total /\ (r = 0 => total = den * low)
      /\ total <= den * high
  <2> HIDE DEF h, n, j, r, l, low, high
  <2>1. total \in Int /\ den * low \in Int
    BY <1>3, <1>6
  <2>2. r * (high - low) >= 0
    BY <1>3, <1>6
  <2>3. (den - r) * (high - low) >= 0 /\ (den - r) * (high - low) = den * high - total
    BY <1>3, <1>6
  <2> QED BY <2>1, <2>2, <2>3, <1>3, <1>6
<1>9. /\ q \in Int /\ \A v \in Int : v <= q <=> v * den <= total
  <2> HIDE DEF total
  <2>1. q \in Int
    BY <1>8
  <2> QED BY <2>1, <1>8, Floor
<1>10. low <= q /\ q <= high /\ (r = 0 => q = low)
  <2> HIDE DEF h, n, j, r, l, low, high, total, q
  <2>1. low <= q
    BY <1>6, <1>8, <1>9
  <2>2. ASSUME high < q PROVE FALSE
    <3>0. high + 1 \in Int /\ high + 1 <= q
      BY <2>2, <1>6, <1>9
    <3>1. (high + 1) * den <= total
      BY <3>0, <1>9
    <3>2. (high + 1) * den = den * high + den
      BY <1>6
    <3> QED BY <3>1, <3>2, <1>6, <1>8
  <2>3. ASSUME r = 0, low < q PROVE FALSE
    <3>0. low + 1 \in Int /\ low + 1 <= q
      BY <2>3, <1>6, <1>9
    <3>1. (low + 1) * den <= total
      BY <3>0, <1>9
    <3>2. (low + 1) * den = den * low + den
      BY <1>6
    <3> QED BY <3>1, <3>2, <1>6, <1>8, <2>3
  <2> QED BY <2>1, <2>2, <2>3, <1>6, <1>9
<1>11. /\ IsFiniteSet(Below(f, q)) /\ Cardinality(Below(f, q)) \in Nat
       /\ Below(f, q) = {} <=> Cardinality(Below(f, q)) = 0
       /\ Cardinality(Below(f, q)) <= Cardinality(Below(f, high))
       /\ r = 0 => Cardinality(Below(f, q)) < j
       /\ j <= Cardinality(UpTo(f, q)) /\ Cardinality(UpTo(f, q)) \in Nat
  <2> HIDE DEF h, n, j, r, l, low, high, total, q
  <2>1. /\ Below(f, q) \in SUBSET S /\ Below(f, high) \in SUBSET S /\ UpTo(f, q) \in SUBSET S
        /\ Below(f, q) \in SUBSET Below(f, high) /\ UpTo(f, low) \in SUBSET UpTo(f, q)
        /\ r = 0 => Below(f, q) = Below(f, low)
    BY <1>1, <1>6, <1>9, <1>10 DEF Below, UpTo
  <2>2. /\ IsFiniteSet(Below(f, q)) /\ Cardinality(Below(f, q)) \in Nat
        /\ Below(f, q) = {} <=> Cardinality(Below(f, q)) = 0
    BY <2>1, Counted
  <2>3. IsFiniteSet(Below(f, high)) /\ IsFiniteSet(UpTo(f, q)) /\ Cardinality(UpTo(f, q)) \in Nat
    BY <2>1, Counted
  <2>4. Cardinality(Below(f, q)) <= Cardinality(Below(f, high))
    BY <2>1, <2>3, Counted
  <2>5. Cardinality(UpTo(f, low)) <= Cardinality(UpTo(f, q)) /\ Cardinality(UpTo(f, low)) \in Nat
    BY <2>1, <2>3, Counted
  <2>6. r = 0 => Cardinality(Below(f, q)) < j
    BY <2>1, <1>6
  <2> QED BY <2>2, <2>3, <2>4, <2>5, <2>6, <1>3, <1>6
<1>12. Cardinality(UpTo(f, q)) * den > h
  <2> HIDE DEF h, n, j, r, l, low, high, total, q
  <2>1. j * den <= Cardinality(UpTo(f, q)) * den
    BY <1>3, <1>11, ProductGrows
  <2>2. j * den = den * (j - 1) + den
    BY <1>3
  <2>3. Cardinality(UpTo(f, q)) * den \in Int
    BY <1>11
  <2> QED BY <2>1, <2>2, <2>3, <1>2, <1>3
<1>13. (Cardinality(Below(f, q)) - 1) * den <= h
  <2>1. Cardinality(Below(f, high)) \in Nat
    <3>1. Below(f, high) \in SUBSET S
      BY DEF Below
    <3> QED BY <3>1, Counted
  <2> HIDE DEF h, n, j, r, l, low, high, total, q
  <2>2. Cardinality(Below(f, q)) - 1 <= j - 1
    BY <2>1, <1>3, <1>5, <1>6, <1>11
  <2>3. (Cardinality(Below(f, q)) - 1) * den <= (j - 1) * den
    BY <2>2, <1>3, <1>11, ProductGrows
  <2>4. (j - 1) * den = den * (j - 1) /\ (j - 1) * den \in Int /\ (Cardinality(Below(f, q)) - 1) * den \in Int
    BY <1>3, <1>11
  <2> QED BY <2>3, <2>4, <1>2, <1>3
<1>14. ASSUME h = 0 PROVE Below(f, q) = {}
  <2>1. r = 0 /\ j = 1
    <3> HIDE DEF h, n
    <3>1. den * (j - 1) = 0 - r /\ j - 1 >= 0
      BY <1>3, <1>4, <1>14
    <3>2. ASSUME j - 1 >= 1 PROVE FALSE
      <4>1. 1 * den <= (j - 1) * den
        BY <3>2, <1>3, ProductGrows
      <4>2. (j - 1) * den = den * (j - 1)
        BY <1>3
      <4> HIDE DEF j, r
      <4> QED BY <4>1, <4>2, <3>1, <1>3
    <3> HIDE DEF j, r
    <3>3. j = 1
      BY <3>1, <3>2, <1>3
    <3> QED BY <3>1, <3>3, <1>3
  <2> HIDE DEF h, n, j, r, l, low, high, total, q
  <2> QED BY <2>1, <1>11
<1>15. \A x \in S : den * f[x] <= total <=> f[x] <= q
  <2> TAKE x \in S
  <2> DEFINE v == f[x]
  <2>1. v \in Int
    OBVIOUS
  <2> HIDE DEF total, q, v
  <2>2. v * den <= total <=> v <= q
    BY <1>9, <2>1
  <2>3. v * den = den * v
    BY <2>1
  <2> QED BY <2>2, <2>3 DEF v
<1> HIDE DEF total, q
<1>16. q = Interpolated(f, num, den) \div den
  BY <1>7 DEF q
<1> QED BY <1>7, <1>8, <1>9, <1>12, <1>13, <1>14, <1>15, <1>16
=============================================================================
