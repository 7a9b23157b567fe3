------------------------------- MODULE Induction -------------------------------
(***************************************************************************)
(* Least and greatest elements, and induction, for the proofs of the other *)
(* modules.  Induction is stated over sets: what is to be shown of every   *)
(* number (of every finite set) is the membership in a set of numbers (of  *)
(* subsets), so that no lemma takes an operator as its parameter.          *)
(***************************************************************************)
EXTENDS Integers, SequencesExt, FiniteSetTheorems, WellFoundedInduction, TLAPS

\* A set of naturals that is not empty has a least element.
LEMMA LeastNatural ==
    ASSUME NEW T \in SUBSET Nat, T # {}
    PROVE  \E n \in T : \A m \in T : n <= m
<1> DEFINE Less == {p \in Nat \X Nat : p[1] < p[2]}
<1>1. IsWellFoundedOn(Less, Nat)
  BY NatLessThanWellFounded DEF OpToRel
<1>2. PICK n \in T : \A m \in T : ~(<<m, n>> \in Less)
  BY <1>1, WFMin
<1>3. \A m \in T : ~(m < n)
  BY <1>2
<1>4. QED
  BY <1>3

\* What is true of zero and passes from each number to the next is true of all.
LEMMA NaturalInduction ==
    ASSUME NEW T \in SUBSET Nat, 0 \in T, \A n \in T : n + 1 \in T
    PROVE  T = Nat
<1> SUFFICES ASSUME Nat \ T # {} PROVE FALSE
  OBVIOUS
<1>1. PICK n \in Nat \ T : \A m \in Nat \ T : n <= m
  BY LeastNatural
<1>2. n # 0 /\ n - 1 \in Nat
  BY <1>1
<1>3. n - 1 \in T
  BY <1>1, <1>2
<1>4. QED
  BY <1>1, <1>2, <1>3

\* A set of integers above a bound has a least element, and Min is it.
LEMMA MinOfIntegers ==
    ASSUME NEW T \in SUBSET Int, T # {}, NEW b \in Int, \A m \in T : b <= m
    PROVE  Min(T) \in T /\ \A m \in T : Min(T) <= m
<1> DEFINE Gaps == {m - b : m \in T}
<1>1. Gaps \in SUBSET Nat /\ Gaps # {}
  <2>1. \A m \in T : m - b \in Nat
    OBVIOUS
  <2>2. QED
    BY <2>1
<1>2. PICK g \in Gaps : \A h \in Gaps : g <= h
  BY <1>1, LeastNatural
<1>3. PICK n \in T : g = n - b
  BY <1>2
<1>4. ASSUME NEW m \in T
      PROVE  n =< m
  <2>1. n - b <= m - b
    BY <1>2, <1>3
  <2>2. QED
    BY <2>1
<1>5. QED
  BY <1>4 DEF Min

\* A set of integers below a bound has a greatest element, and Max is it.
LEMMA MaxOfIntegers ==
    ASSUME NEW T \in SUBSET Int, T # {}, NEW b \in Int, \A m \in T : m <= b
    PROVE  Max(T) \in T /\ \A m \in T : m <= Max(T)
<1> DEFINE Gaps == {b - m : m \in T}
<1>1. Gaps \in SUBSET Nat /\ Gaps # {}
  <2>1. \A m \in T : b - m \in Nat
    OBVIOUS
  <2>2. QED
    BY <2>1
<1>2. PICK g \in Gaps : \A h \in Gaps : g <= h
  BY <1>1, LeastNatural
<1>3. PICK n \in T : g = b - n
  BY <1>2
<1>4. ASSUME NEW m \in T
      PROVE  n >= m
  <2>1. b - n <= b - m
    BY <1>2, <1>3
  <2>2. QED
    BY <2>1
<1>5. QED
  BY <1>4 DEF Max

\* What is true of a subset of a finite set whenever it is true of the subset
\* without any one of its elements is true of every subset.
LEMMA FiniteInduction ==
    ASSUME NEW S, IsFiniteSet(S), NEW T \in SUBSET SUBSET S,
           \A A \in SUBSET S : (\A x \in A : A \ {x} \in T) => A \in T
    PROVE  T = SUBSET S
<1> DEFINE Sized == {n \in Nat : \A A \in SUBSET S : Cardinality(A) = n => A \in T}
<1>1. \A A \in SUBSET S : IsFiniteSet(A) /\ Cardinality(A) \in Nat
  BY FS_Subset, FS_CardinalityType
<1>2. 0 \in Sized
  <2>1. \A A \in SUBSET S : Cardinality(A) = 0 => A = {}
    BY <1>1, FS_EmptySet
  <2>2. QED
    BY <2>1
<1>3. ASSUME NEW n \in Sized
      PROVE  n + 1 \in Sized
  <2> SUFFICES ASSUME NEW A \in SUBSET S, Cardinality(A) = n + 1
               PROVE  A \in T
    OBVIOUS
  <2>1. ASSUME NEW x \in A
        PROVE  Cardinality(A \ {x}) = n
    <3>1. Cardinality(A \ {x}) = Cardinality(A) - 1
      BY <1>1, FS_RemoveElement
    <3>2. QED
      BY <3>1
  <2>2. QED
    BY <2>1
<1>4. Sized = Nat
  <2> HIDE DEF Sized
  <2>1. Sized \in SUBSET Nat
    BY DEF Sized
  <2>2. QED
    BY <1>2, <1>3, <2>1, NaturalInduction
<1>5. QED
  BY <1>1, <1>4

-----------------------------------------------------------------------------
(***************************************************************************)
(* Sums.                                                                   *)
(***************************************************************************)

\* One step of the sum of f over set A: the value of some element, and the sum
\* G of the others.
Added(f, G, A) ==
    IF A = {} THEN 0
    ELSE LET x == CHOOSE x \in A : TRUE IN f[x] + G[A \ {x}]

LEMMA AddedIs ==
    ASSUME NEW A, IsFiniteSet(A), A # {}, NEW f
    PROVE  \E x \in A : /\ \A G : Added(f, G, A) = f[x] + G[A \ {x}]
                        /\ Cardinality(A \ {x}) = Cardinality(A) - 1
<1> DEFINE x == CHOOSE x \in A : TRUE
<1>1. x \in A
  OBVIOUS
<1>2. \A G : Added(f, G, A) = f[x] + G[A \ {x}]
  BY DEF Added
<1> HIDE DEF x
<1>3. Cardinality(A \ {x}) = Cardinality(A) - 1
  BY <1>1, FS_RemoveElement
<1>4. QED
  BY <1>1, <1>2, <1>3

\* The recursion is defined on the parts of a finite set.
LEMMA SumsExist ==
    ASSUME NEW S, IsFiniteSet(S), NEW f \in [S -> Int]
    PROVE  \E G \in [SUBSET S -> Int] : \A A \in SUBSET S : G[A] = Added(f, G, A)
<1> DEFINE Below(n) == {A \in SUBSET S : Cardinality(A) < n}
           Defined == {n \in Nat :
               \E G \in [Below(n) -> Int] : \A A \in Below(n) : G[A] = Added(f, G, A)}
<1>1. \A A \in SUBSET S : /\ IsFiniteSet(A) /\ Cardinality(A) \in Nat
                          /\ Cardinality(A) <= Cardinality(S)
  BY FS_Subset, FS_CardinalityType
<1>2. 0 \in Defined
  <2>1. Below(0) = {}
    BY <1>1
  <2>2. [A \in {} |-> 0] \in [{} -> Int]
    OBVIOUS
  <2>3. QED
    BY <2>1, <2>2
<1>3. ASSUME NEW n \in Defined
      PROVE  n + 1 \in Defined
  <2>1. PICK G \in [Below(n) -> Int] : \A A \in Below(n) : G[A] = Added(f, G, A)
    OBVIOUS
  <2> DEFINE H == [A \in Below(n + 1) |-> Added(f, G, A)]
  <2>2. \A A \in Below(n) : A \in Below(n + 1) /\ H[A] = G[A]
    BY <1>1, <2>1
  <2>3. ASSUME NEW A \in Below(n + 1)
        PROVE  Added(f, G, A) \in Int /\ H[A] = Added(f, H, A)
    <3>1. CASE A = {}
      BY <3>1 DEF Added
    <3>2. CASE A # {}
      <4>1. PICK x \in A : /\ \A K : Added(f, K, A) = f[x] + K[A \ {x}]
                           /\ Cardinality(A \ {x}) = Cardinality(A) - 1
        BY <1>1, <3>2, AddedIs
      <4>2. A \ {x} \in Below(n) /\ f[x] \in Int
        BY <1>1, <4>1
      <4>3. H[A] = Added(f, G, A)
        OBVIOUS
      <4> HIDE DEF H
      <4>4. QED
        BY <2>1, <2>2, <4>1, <4>2, <4>3
    <3>3. QED
      BY <3>1, <3>2
  <2>4. H \in [Below(n + 1) -> Int]
    BY <2>3
  <2> HIDE DEF H
  <2>5. \A A \in Below(n + 1) : H[A] = Added(f, H, A)
    BY <2>3
  <2>6. n + 1 \in Nat
    OBVIOUS
  <2>7. QED
    BY <2>4, <2>5, <2>6
<1>4. Defined = Nat
  <2> HIDE DEF Defined
  <2>1. Defined \in SUBSET Nat
    BY DEF Defined
  <2>2. QED
    BY <1>2, <1>3, <2>1, NaturalInduction
<1>5. Cardinality(S) + 1 \in Defined
  <2>1. Cardinality(S) \in Nat
    BY FS_CardinalityType
  <2> HIDE DEF Defined
  <2>2. QED
    BY <1>4, <2>1
<1>6. Below(Cardinality(S) + 1) = SUBSET S
  BY <1>1
<1>7. QED
  BY <1>5, <1>6

\* SumFunction adds the values of a function of a finite set, in whatever
\* order: there are sums over all parts of the set, each of which is the value
\* of any of its elements and the sum over the others.
LEMMA SumFunctionAdds ==
    ASSUME NEW S, IsFiniteSet(S), NEW f \in [S -> Int]
    PROVE  \E F \in [SUBSET S -> Int] :
              /\ F[{}] = 0
              /\ \A A \in SUBSET S : \A x \in A : F[A] = f[x] + F[A \ {x}]
              /\ F[S] = SumFunction(f)
<1> DEFINE Sums(G) == [A \in SUBSET S |->
               IF A = {} THEN 0
               ELSE LET x == CHOOSE x \in A : TRUE IN f[x] + G[A \ {x}]]
           F == CHOOSE F : F = Sums(F)
           T == {A \in SUBSET S : \A x \in A : F[A] = f[x] + F[A \ {x}]}
<1>1. PICK G \in [SUBSET S -> Int] : \A A \in SUBSET S : G[A] = Added(f, G, A)
  BY SumsExist
<1>2. F = Sums(F)
  <2>1. G = Sums(G)
    BY <1>1 DEF Added
  <2>2. QED
    BY <2>1
<1>3. F[S] = SumFunction(f)
  <2>1. DOMAIN f = S
    OBVIOUS
  <2>2. QED
    BY <2>1 DEF SumFunction, SumFunctionOnSet, FoldFunctionOnSet, MapThenFoldSet
<1>4. DOMAIN F = SUBSET S /\ F = [A \in DOMAIN F |-> F[A]]
  BY <1>2
<1>5. \A A \in SUBSET S : F[A] = Added(f, F, A)
  BY <1>2 DEF Added
<1> HIDE DEF F, Sums, T
<1>6. ASSUME NEW A \in SUBSET S, A # {}
      PROVE  \E x \in A : Added(f, F, A) = f[x] + F[A \ {x}]
  <2>1. IsFiniteSet(A)
    BY FS_Subset
  <2>2. QED
    BY <1>6, <2>1, AddedIs
<1>7. F[{}] = 0
  BY <1>5 DEF Added
<1>8. F \in [SUBSET S -> Int]
  <2> DEFINE Z == {A \in SUBSET S : F[A] \in Int}
  <2>1. ASSUME NEW A \in SUBSET S, \A x \in A : A \ {x} \in Z
        PROVE  A \in Z
    <3>1. CASE A = {}
      BY <1>7, <3>1
    <3>2. CASE A # {}
      <4>1. PICK x \in A : Added(f, F, A) = f[x] + F[A \ {x}]
        BY <1>6, <3>2
      <4>2. F[A \ {x}] \in Int /\ f[x] \in Int
        BY <2>1
      <4>3. QED
        BY <1>5, <4>1, <4>2
    <3>3. QED
      BY <3>1, <3>2
  <2> HIDE DEF Z
  <2>2. Z \in SUBSET SUBSET S
    BY DEF Z
  <2>3. Z = SUBSET S
    BY <2>1, <2>2, FiniteInduction
  <2>4. QED
    BY <1>4, <2>3 DEF Z
<1>9. ASSUME NEW A \in SUBSET S, \A x \in A : A \ {x} \in T
      PROVE  A \in T
  <2> SUFFICES ASSUME NEW x \in A
               PROVE  F[A] = f[x] + F[A \ {x}]
    BY DEF T
  <2>1. PICK y \in A : Added(f, F, A) = f[y] + F[A \ {y}]
    <3>1. A # {}
      OBVIOUS
    <3>2. QED
      BY <1>6, <3>1
  <2>2. F[A] = f[y] + F[A \ {y}]
    BY <1>5, <2>1
  <2>3. CASE x = y
    BY <2>2, <2>3
  <2>4. CASE x # y
    <3>1. F[A \ {y}] = f[x] + F[(A \ {y}) \ {x}]
      BY <1>9, <2>4 DEF T
    <3>2. (A \ {x}) \ {y} = (A \ {y}) \ {x}
      OBVIOUS
    <3>3. F[A \ {x}] = f[y] + F[(A \ {y}) \ {x}]
      <4>1. F[A \ {x}] = f[y] + F[(A \ {x}) \ {y}]
        BY <1>9, <2>4 DEF T
      <4>2. QED
        BY <3>2, <4>1
    <3>4. F[(A \ {y}) \ {x}] \in Int /\ f[x] \in Int /\ f[y] \in Int
      BY <1>8
    <3>5. QED
      BY <2>2, <3>1, <3>3, <3>4
  <2>5. QED
    BY <2>3, <2>4
<1>10. T = SUBSET S
  <2>1. T \in SUBSET SUBSET S
    BY DEF T
  <2>2. QED
    BY <1>9, <2>1, FiniteInduction
<1>11. QED
  BY <1>3, <1>7, <1>8, <1>10 DEF T

\* A sum of more is more.
THEOREM SumsCompare ==
    ASSUME NEW S, IsFiniteSet(S), NEW f \in [S -> Int], NEW g \in [S -> Int], NEW m \in [S -> Int],
           \A x \in S : f[x] - g[x] <= m[x] /\ g[x] - f[x] <= m[x]
    PROVE  /\ SumFunction(f) \in Int /\ SumFunction(g) \in Int /\ SumFunction(m) \in Int
           /\ SumFunction(f) - SumFunction(g) <= SumFunction(m)
           /\ SumFunction(g) - SumFunction(f) <= SumFunction(m)
<1>1. PICK F \in [SUBSET S -> Int] :
          /\ F[{}] = 0 /\ \A A \in SUBSET S : \A x \in A : F[A] = f[x] + F[A \ {x}]
          /\ F[S] = SumFunction(f)
  BY SumFunctionAdds
<1>2. PICK G \in [SUBSET S -> Int] :
          /\ G[{}] = 0 /\ \A A \in SUBSET S : \A x \in A : G[A] = g[x] + G[A \ {x}]
          /\ G[S] = SumFunction(g)
  BY SumFunctionAdds
<1>3. PICK M \in [SUBSET S -> Int] :
          /\ M[{}] = 0 /\ \A A \in SUBSET S : \A x \in A : M[A] = m[x] + M[A \ {x}]
          /\ M[S] = SumFunction(m)
  BY SumFunctionAdds
<1> DEFINE T == {A \in SUBSET S : F[A] - G[A] <= M[A] /\ G[A] - F[A] <= M[A]}
<1>4. ASSUME NEW A \in SUBSET S, \A x \in A : A \ {x} \in T
      PROVE  A \in T
  <2>1. CASE A = {}
    BY <1>1, <1>2, <1>3, <2>1
  <2>2. CASE A # {}
    <3>1. PICK x \in A : TRUE
      BY <2>2
    <3> DEFINE B == A \ {x}
    <3>2. /\ F[A] = f[x] + F[B] /\ G[A] = g[x] + G[B] /\ M[A] = m[x] + M[B]
          /\ F[B] \in Int /\ G[B] \in Int /\ M[B] \in Int
          /\ f[x] \in Int /\ g[x] \in Int /\ m[x] \in Int
      BY <1>1, <1>2, <1>3
    <3>3. F[B] - G[B] <= M[B] /\ G[B] - F[B] <= M[B]
      BY <1>4
    <3>4. f[x] - g[x] <= m[x] /\ g[x] - f[x] <= m[x]
      OBVIOUS
    <3> HIDE DEF B
    <3>5. QED
      BY <3>2, <3>3, <3>4
  <2>3. QED
    BY <2>1, <2>2
<1> HIDE DEF T
<1>5. T \in SUBSET SUBSET S
  BY DEF T
<1>6. T = SUBSET S
  BY <1>4, <1>5, FiniteInduction
<1>7. QED
  BY <1>1, <1>2, <1>3, <1>6 DEF T

\* Any two of the values that are summed are at most the sum.
LEMMA TwoOfSum ==
    ASSUME NEW S, IsFiniteSet(S), NEW m \in [S -> Nat]
    PROVE  /\ SumFunction(m) \in Nat
           /\ \A x \in S : m[x] <= SumFunction(m)
           /\ \A x, y \in S : x # y => m[x] + m[y] <= SumFunction(m)
<1>0. m \in [S -> Int]
  OBVIOUS
<1>1. PICK M \in [SUBSET S -> Int] :
          /\ M[{}] = 0 /\ \A A \in SUBSET S : \A x \in A : M[A] = m[x] + M[A \ {x}]
          /\ M[S] = SumFunction(m)
  BY <1>0, SumFunctionAdds
<1> DEFINE T == {A \in SUBSET S : M[A] >= 0}
<1>2. ASSUME NEW A \in SUBSET S, \A x \in A : A \ {x} \in T
      PROVE  A \in T
  <2>1. CASE A = {}
    BY <1>1, <2>1
  <2>2. CASE A # {}
    <3>1. PICK x \in A : M[A] = m[x] + M[A \ {x}]
      BY <1>1, <2>2
    <3>2. M[A \ {x}] >= 0 /\ M[A \ {x}] \in Int /\ m[x] \in Nat
      BY <1>2
    <3>3. QED
      BY <3>1, <3>2
  <2>3. QED
    BY <2>1, <2>2
<1> HIDE DEF T
<1>3. T \in SUBSET SUBSET S
  BY DEF T
<1>4. T = SUBSET S
  BY <1>2, <1>3, FiniteInduction
<1>5. \A A \in SUBSET S : M[A] \in Nat
  BY <1>1, <1>4 DEF T
<1>6. ASSUME NEW x \in S
      PROVE  m[x] <= M[S]
  <2>1. M[S] = m[x] + M[S \ {x}] /\ M[S \ {x}] \in Nat /\ m[x] \in Nat
    BY <1>1, <1>5
  <2>2. QED
    BY <2>1
<1>7. ASSUME NEW x \in S, NEW y \in S, x # y
      PROVE  m[x] + m[y] <= M[S]
  <2>1. M[S] = m[x] + M[S \ {x}] /\ m[x] \in Nat
    BY <1>1
  <2>2. M[S \ {x}] = m[y] + M[(S \ {x}) \ {y}] /\ m[y] \in Nat /\ M[(S \ {x}) \ {y}] \in Nat
    BY <1>1, <1>5, <1>7
  <2>3. QED
    BY <2>1, <2>2
<1>8. QED
  BY <1>1, <1>5, <1>6, <1>7

\* The parts of a finite set add up to it.
LEMMA CountsAdd ==
    ASSUME NEW S, IsFiniteSet(S), NEW R, IsFiniteSet(R), NEW at \in [R -> S],
           NEW f \in [S -> Int],
           \A x \in S : f[x] = Cardinality({r \in R : at[r] = x})
    PROVE  SumFunction(f) = Cardinality(R)
<1>1. PICK F \in [SUBSET S -> Int] :
          /\ F[{}] = 0 /\ \A A \in SUBSET S : \A x \in A : F[A] = f[x] + F[A \ {x}]
          /\ F[S] = SumFunction(f)
  BY SumFunctionAdds
<1> DEFINE In(A) == {r \in R : at[r] \in A}
           T == {A \in SUBSET S : F[A] = Cardinality(In(A))}
<1>2. ASSUME NEW A \in SUBSET S, \A x \in A : A \ {x} \in T
      PROVE  A \in T
  <2>1. CASE A = {}
    <3>1. In({}) = {} /\ Cardinality({}) = 0
      BY FS_EmptySet
    <3>2. QED
      BY <1>1, <2>1, <3>1
  <2>2. CASE A # {}
    <3>1. PICK x \in A : F[A] = f[x] + F[A \ {x}]
      BY <1>1, <2>2
    <3> DEFINE P == {r \in R : at[r] = x}
               Q == In(A \ {x})
    <3>2. In(A) = P \cup Q /\ P \cap Q = {} /\ P \in SUBSET R /\ Q \in SUBSET R
      OBVIOUS
    <3>3. f[x] = Cardinality(P) /\ F[A \ {x}] = Cardinality(Q)
      BY <1>2
    <3> HIDE DEF P, Q
    <3>4. IsFiniteSet(P) /\ IsFiniteSet(Q) /\ Cardinality(P) \in Nat /\ Cardinality(Q) \in Nat
      BY <3>2, FS_Subset, FS_CardinalityType
    <3>5. Cardinality(P \cup Q) = Cardinality(P) + Cardinality(Q) - Cardinality(P \cap Q)
      BY <3>4, FS_Union
    <3>6. Cardinality(P \cap Q) = 0
      BY <3>2, FS_EmptySet
    <3>7. Cardinality(In(A)) = F[A]
      <4>1. Cardinality(In(A)) = Cardinality(P \cup Q)
        BY <3>2
      <4>2. Cardinality(P \cup Q) = Cardinality(P) + Cardinality(Q)
        BY <3>4, <3>5, <3>6
      <4> HIDE DEF In
      <4>3. QED
        BY <3>1, <3>3, <4>1, <4>2
    <3>8. QED
      BY <3>7
  <2>3. QED
    BY <2>1, <2>2
<1> HIDE DEF T
<1>3. T \in SUBSET SUBSET S
  BY DEF T
<1>4. T = SUBSET S
  BY <1>2, <1>3, FiniteInduction
<1>5. F[S] = Cardinality(In(S)) /\ In(S) = R
  BY <1>4 DEF T
<1>6. QED
  BY <1>1, <1>5

\* The values of a function on a finite set are finitely many.
LEMMA FiniteImage ==
    ASSUME NEW S, IsFiniteSet(S), NEW T, NEW f \in [S -> T], \A t \in T : \E x \in S : f[x] = t
    PROVE  IsFiniteSet(T) /\ Cardinality(T) \in Nat /\ Cardinality(T) <= Cardinality(S)
<1>1. f \in Surjection(S, T)
  BY DEF Surjection
<1>2. IsFiniteSet(T) /\ Cardinality(T) <= Cardinality(S)
  BY <1>1, FS_Surjection
<1>3. QED
  BY <1>2, FS_CardinalityType

-----------------------------------------------------------------------------
(***************************************************************************)
(* Sequences.                                                              *)
(***************************************************************************)

\* A finite set that is not empty has a last element in a transitive order of
\* all its elements.
LEMMA LastElement ==
    ASSUME NEW S, IsFiniteSet(S), S # {}, NEW R \in SUBSET (S \X S),
           \A x, y \in S : x # y => <<x, y>> \in R \/ <<y, x>> \in R,
           \A x, y, z \in S : <<x, y>> \in R /\ <<y, z>> \in R => <<x, z>> \in R
    PROVE  \E x \in S : \A y \in S \ {x} : <<y, x>> \in R
<1> DEFINE T == {A \in SUBSET S : A # {} => \E x \in A : \A y \in A \ {x} : <<y, x>> \in R}
<1>1. ASSUME NEW A \in SUBSET S, \A x \in A : A \ {x} \in T
      PROVE  A \in T
  <2> SUFFICES ASSUME NEW x \in A
               PROVE  \E z \in A : \A y \in A \ {z} : <<y, z>> \in R
    OBVIOUS
  <2>1. CASE A = {x}
    BY <2>1
  <2>2. CASE A # {x}
    <3>1. PICK z \in A \ {x} : \A y \in (A \ {x}) \ {z} : <<y, z>> \in R
      BY <1>1, <2>2
    <3>2. CASE <<x, z>> \in R
      BY <3>1, <3>2
    <3>3. CASE <<z, x>> \in R
      <4>1. \A y \in A \ {x} : <<y, x>> \in R
        BY <3>1, <3>3
      <4>2. QED
        BY <4>1
    <3>4. QED
      BY <3>1, <3>2, <3>3
  <2>3. QED
    BY <2>1, <2>2
<1> HIDE DEF T
<1>2. T \in SUBSET SUBSET S
  BY DEF T
<1>3. T = SUBSET S
  BY <1>1, <1>2, FiniteInduction
<1>4. QED
  BY <1>3 DEF T

\* A finite set has a sequence of its elements in such an order.
THEOREM SortedSequence ==
    ASSUME NEW S, IsFiniteSet(S), NEW R \in SUBSET (S \X S),
           \A x, y \in S : x # y => <<x, y>> \in R \/ <<y, x>> \in R,
           \A x, y, z \in S : <<x, y>> \in R /\ <<y, z>> \in R => <<x, z>> \in R
    PROVE  \E seq \in SetToSeqs(S) : \A j, k \in DOMAIN seq : j < k => <<seq[j], seq[k]>> \in R
<1> DEFINE T == {A \in SUBSET S :
               \E seq \in SetToSeqs(A) : \A j, k \in DOMAIN seq : j < k => <<seq[j], seq[k]>> \in R}
<1>1. ASSUME NEW A \in SUBSET S, \A x \in A : A \ {x} \in T
      PROVE  A \in T
  <2>0. IsFiniteSet(A) /\ Cardinality(A) \in Nat
    BY FS_Subset, FS_CardinalityType
  <2>1. CASE A = {}
    <3>1. Cardinality({}) = 0
      BY FS_EmptySet
    <3>2. << >> \in SetToSeqs(A)
      BY <2>1, <3>1 DEF SetToSeqs
    <3>3. QED
      BY <3>2
  <2>2. CASE A # {}
    <3>1. PICK x \in A : \A y \in A \ {x} : <<y, x>> \in R
      <4> DEFINE Q == R \cap (A \X A)
      <4>1. /\ Q \in SUBSET (A \X A)
            /\ \A y, z \in A : y # z => <<y, z>> \in Q \/ <<z, y>> \in Q
            /\ \A y, z, w \in A : <<y, z>> \in Q /\ <<z, w>> \in Q => <<y, w>> \in Q
        OBVIOUS
      <4> HIDE DEF Q
      <4>2. \E x \in A : \A y \in A \ {x} : <<y, x>> \in Q
        BY <2>0, <2>2, <4>1, LastElement
      <4>3. QED
        BY <4>2 DEF Q
    <3> DEFINE n == Cardinality(A)
    <3>2. PICK seq \in SetToSeqs(A \ {x}) :
              \A j, k \in DOMAIN seq : j < k => <<seq[j], seq[k]>> \in R
      BY <1>1
    <3>3. n \in Nat \ {0} /\ Cardinality(A \ {x}) = n - 1
      BY <2>0, <2>2, FS_RemoveElement, FS_EmptySet
    <3> DEFINE all == [k \in 1..n |-> IF k = n THEN x ELSE seq[k]]
    <3> HIDE DEF n
    <3>4. /\ seq \in [1..(n - 1) -> A \ {x}]
          /\ \A j, k \in 1..(n - 1) : j # k => seq[j] # seq[k]
      BY <3>2, <3>3 DEF SetToSeqs
    <3>5. all \in [1..n -> A]
      BY <3>3, <3>4
    <3>6. \A j, k \in 1..n : j # k => all[j] # all[k]
      BY <3>3, <3>4
    <3>7. all \in SetToSeqs(A)
      BY <3>5, <3>6 DEF SetToSeqs, n
    <3>8. \A j, k \in DOMAIN all : j < k => <<all[j], all[k]>> \in R
      BY <3>1, <3>2, <3>3, <3>4
    <3>9. QED
      BY <3>7, <3>8
  <2>3. QED
    BY <2>1, <2>2
<1> HIDE DEF T
<1>2. T \in SUBSET SUBSET S
  BY DEF T
<1>3. T = SUBSET S
  BY <1>1, <1>2, FiniteInduction
<1>4. QED
  BY <1>3 DEF T

\* What is appended comes last.
LEMMA AppendIs ==
    ASSUME NEW S, NEW s \in Seq(S), NEW x
    PROVE  \A k \in DOMAIN Append(s, x) : \/ k \in DOMAIN s /\ Append(s, x)[k] = s[k]
                                          \/ Append(s, x)[k] = x
<1>1. /\ Len(s) \in Nat /\ DOMAIN s = 1..Len(s) /\ DOMAIN Append(s, x) = 1..(Len(s) + 1)
      /\ Append(s, x)[Len(s) + 1] = x /\ \A k \in 1..Len(s) : Append(s, x)[k] = s[k]
  OBVIOUS
<1>2. \A k \in 1..(Len(s) + 1) : k \in 1..Len(s) \/ k = Len(s) + 1
  BY <1>1
<1>3. QED
  BY <1>1, <1>2

\* The first m values of f are those of a recursion from base by step.
Iterates(f, m, base, step) ==
    \A i \in 1..m : f[i] = IF i = 1 THEN base ELSE step[<<f[i - 1], i>>]

\* A sequence is defined by its first value and a step from each to the next.
THEOREM Recursion ==
    ASSUME NEW D, NEW n \in Nat, NEW base \in D, NEW step \in [D \X (1..n) -> D]
    PROVE  \E f \in [1..n -> D] : Iterates(f, n, base, step)
<1> DEFINE Defined == {m \in Nat : m <= n => \E f \in [1..m -> D] : Iterates(f, m, base, step)}
<1>1. 0 \in Defined
  <2> DEFINE f == [i \in 1..0 |-> base]
  <2>1. f \in [1..0 -> D]
    OBVIOUS
  <2> HIDE DEF f
  <2>2. Iterates(f, 0, base, step)
    BY DEF Iterates
  <2>3. QED
    BY <2>1, <2>2
<1>2. ASSUME NEW m \in Defined
      PROVE  m + 1 \in Defined
  <2> SUFFICES ASSUME m + 1 <= n
               PROVE  \E f \in [1..(m + 1) -> D] : Iterates(f, m + 1, base, step)
    OBVIOUS
  <2>1. PICK f \in [1..m -> D] : Iterates(f, m, base, step)
    OBVIOUS
  <2>0. m \in Nat
    OBVIOUS
  <2> HIDE DEF Defined
  <2> DEFINE last == IF m = 0 THEN base ELSE step[<<f[m], m + 1>>]
             g == [i \in 1..(m + 1) |-> IF i = m + 1 THEN last ELSE f[i]]
  <2>2. last \in D
    <3>1. m # 0 => f[m] \in D /\ m + 1 \in 1..n
      BY <2>0, <2>1
    <3>2. QED
      BY <3>1
  <2> HIDE DEF last
  <2>3. g \in [1..(m + 1) -> D] /\ \A i \in 1..m : g[i] = f[i]
    BY <2>0, <2>2
  <2>4. g[m + 1] = last
    BY <2>0
  <2> HIDE DEF g
  <2>5. g[m + 1] = IF m + 1 = 1 THEN base ELSE step[<<g[(m + 1) - 1], m + 1>>]
    <3>1. CASE m = 0
      BY <2>4, <3>1 DEF last
    <3>2. CASE m # 0
      <4>1. g[m] = f[m] /\ (m + 1) - 1 = m /\ m + 1 # 1
        BY <2>0, <2>3, <3>2
      <4>2. QED
        BY <2>4, <3>2, <4>1, Zenon DEF last
    <3>3. QED
      BY <3>1, <3>2
  <2>6. \A i \in 1..m : g[i] = IF i = 1 THEN base ELSE step[<<g[i - 1], i>>]
    <3>1. \A i \in 1..m : i # 1 => i - 1 \in 1..m
      BY <2>0
    <3>2. QED
      BY <2>1, <2>3, <3>1 DEF Iterates
  <2>7. \A i \in 1..(m + 1) : i \in 1..m \/ i = m + 1
    BY <2>0
  <2>8. Iterates(g, m + 1, base, step)
    BY <2>5, <2>6, <2>7 DEF Iterates
  <2>9. QED
    BY <2>3, <2>8
<1>3. Defined = Nat
  <2> HIDE DEF Defined
  <2>1. Defined \in SUBSET Nat
    BY DEF Defined
  <2>2. QED
    BY <1>1, <1>2, <2>1, NaturalInduction
<1>4. n <= n
  OBVIOUS
<1>5. QED
  BY <1>3, <1>4

\* FlattenSeq appends one sequence after the other.
LEMMA FlattenAppends ==
    ASSUME NEW S, NEW seqs \in Seq(Seq(S)), seqs # << >>
    PROVE  \E f : /\ \A i \in 1..Len(seqs) : f[i] = IF i = 1 THEN seqs[i] ELSE f[i - 1] \o seqs[i]
                  /\ FlattenSeq(seqs) = f[Len(seqs)]
<1> DEFINE n == Len(seqs)
           step == [p \in Seq(S) \X (1..n) |-> p[1] \o seqs[p[2]]]
           F == CHOOSE f : f = [i \in 1..n |-> IF i = 1 THEN seqs[i] ELSE f[i - 1] \o seqs[i]]
<1>1. n \in Nat /\ n # 0 /\ seqs[1] \in Seq(S) /\ \A i \in 1..n : seqs[i] \in Seq(S)
  OBVIOUS
<1>2. \E f : f = [i \in 1..n |-> IF i = 1 THEN seqs[i] ELSE f[i - 1] \o seqs[i]]
  <2> HIDE DEF n
  <2>1. \A p \in Seq(S) \X (1..n) : p[1] \o seqs[p[2]] \in Seq(S)
    BY <1>1
  <2>2. step \in [Seq(S) \X (1..n) -> Seq(S)]
    BY <2>1
  <2>3. \A s \in Seq(S), i \in 1..n : step[<<s, i>>] = s \o seqs[i]
    OBVIOUS
  <2> HIDE DEF step
  <2> DEFINE D == Seq(S)
             base == seqs[1]
  <2>4. PICK f \in [1..n -> Seq(S)] : Iterates(f, n, base, step)
    <3>1. n \in Nat /\ base \in D /\ step \in [D \X (1..n) -> D]
      BY <1>1, <2>2
    <3> HIDE DEF D, base
    <3>2. \E f \in [1..n -> D] : Iterates(f, n, base, step)
      BY <3>1, Recursion
    <3>3. QED
      BY <3>2 DEF D
  <2>5. \A i \in 1..n : i # 1 => i - 1 \in 1..n
    BY <1>1
  <2>6. \A i \in 1..n : f[i] = IF i = 1 THEN seqs[i] ELSE f[i - 1] \o seqs[i]
    BY <2>3, <2>4, <2>5 DEF Iterates
  <2>7. f = [i \in 1..n |-> IF i = 1 THEN seqs[i] ELSE f[i - 1] \o seqs[i]]
    BY <2>6
  <2>8. QED
    BY <2>7
<1>3. F = [i \in 1..n |-> IF i = 1 THEN seqs[i] ELSE F[i - 1] \o seqs[i]]
  BY <1>2, Zenon
<1>4. FlattenSeq(seqs) = F[n]
  BY <1>1, Zenon DEF FlattenSeq
<1> HIDE DEF F
<1>5. \A i \in 1..n : F[i] = IF i = 1 THEN seqs[i] ELSE F[i - 1] \o seqs[i]
  BY <1>3, Zenon
<1>6. QED
  BY <1>4, <1>5, Zenon

\* What is in two sequences together is in one of them.
LEMMA AppendedElements ==
    ASSUME NEW S, NEW s \in Seq(S), NEW t \in Seq(S)
    PROVE  /\ s \o t \in Seq(S)
           /\ \A k \in DOMAIN (s \o t) : \/ k \in DOMAIN s /\ (s \o t)[k] = s[k]
                                         \/ \E m \in DOMAIN t : (s \o t)[k] = t[m]
<1>1. s \o t \in Seq(S) /\ DOMAIN (s \o t) = 1..(Len(s) + Len(t)) /\ DOMAIN s = 1..Len(s)
      /\ DOMAIN t = 1..Len(t) /\ Len(s) \in Nat /\ Len(t) \in Nat
  OBVIOUS
<1>2. ASSUME NEW k \in 1..(Len(s) + Len(t)), k > Len(s)
      PROVE  (s \o t)[k] = t[k - Len(s)] /\ k - Len(s) \in 1..Len(t)
  BY <1>1, <1>2
<1>3. ASSUME NEW k \in 1..(Len(s) + Len(t)), k <= Len(s)
      PROVE  (s \o t)[k] = s[k] /\ k \in 1..Len(s)
  BY <1>1, <1>3
<1>4. \A k \in 1..(Len(s) + Len(t)) : k > Len(s) \/ k <= Len(s)
  BY <1>1
<1>5. QED
  BY <1>1, <1>2, <1>3, <1>4

\* A sequence of sequences is flattened to a sequence of their elements.
LEMMA FlattenElements ==
    ASSUME NEW S, NEW seqs \in Seq(Seq(S))
    PROVE  /\ FlattenSeq(seqs) \in Seq(S)
           /\ \A k \in DOMAIN FlattenSeq(seqs) : \E j \in DOMAIN seqs : \E m \in DOMAIN seqs[j] :
                  FlattenSeq(seqs)[k] = seqs[j][m]
<1> DEFINE n == Len(seqs)
           From(s) == \A k \in DOMAIN s : \E j \in 1..n : \E m \in DOMAIN seqs[j] : s[k] = seqs[j][m]
<1>1. n \in Nat /\ DOMAIN seqs = 1..n /\ \A i \in 1..n : seqs[i] \in Seq(S)
  OBVIOUS
<1>2. CASE seqs = << >>
  <2>1. Len(seqs) = 0
    BY <1>2
  <2>2. FlattenSeq(seqs) = << >>
    BY <1>2, <2>1 DEF FlattenSeq
  <2>3. QED
    BY <2>2
<1>3. CASE seqs # << >>
  <2>1. PICK f : /\ \A i \in 1..n : f[i] = IF i = 1 THEN seqs[i] ELSE f[i - 1] \o seqs[i]
                 /\ FlattenSeq(seqs) = f[n]
    BY <1>3, FlattenAppends
  <2>2. n \in 1..n
    BY <1>1, <1>3
  <2> HIDE DEF n, From
  <2> DEFINE Good == {m \in Nat : m + 1 \in 1..n => f[m + 1] \in Seq(S) /\ From(f[m + 1])}
  <2>3. 0 \in Good
    <3>1. 1 \in 1..n
      BY <1>1, <2>2
    <3>2. f[1] = seqs[1]
      BY <2>1, <3>1
    <3>3. From(seqs[1])
      BY <3>1 DEF From
    <3>4. QED
      BY <1>1, <3>1, <3>2, <3>3
  <2>4. ASSUME NEW m \in Good
        PROVE  m + 1 \in Good
    <3> DEFINE q == (m + 1) + 1
    <3> SUFFICES ASSUME q \in 1..n
                 PROVE  f[q] \in Seq(S) /\ From(f[q])
      OBVIOUS
    <3> DEFINE s == f[m + 1]
               t == seqs[q]
    <3>1. m + 1 \in 1..n /\ q # 1 /\ q - 1 = m + 1
      BY <1>1
    <3>2. s \in Seq(S) /\ From(s) /\ t \in Seq(S)
      BY <1>1, <3>1
    <3>3. f[q] = s \o t
      BY <2>1, <3>1, Zenon
    <3> HIDE DEF q, s
    <3>4. From(t)
      BY DEF From, t
    <3> HIDE DEF t
    <3>5. /\ s \o t \in Seq(S)
          /\ \A k \in DOMAIN (s \o t) : \/ k \in DOMAIN s /\ (s \o t)[k] = s[k]
                                        \/ \E p \in DOMAIN t : (s \o t)[k] = t[p]
      BY <3>2, AppendedElements
    <3> DEFINE u == s \o t
    <3> HIDE DEF u
    <3>7. From(u)
      <4>1. \A k \in DOMAIN u : \/ k \in DOMAIN s /\ u[k] = s[k]
                               \/ \E p \in DOMAIN t : u[k] = t[p]
        BY <3>5 DEF u
      <4>2. From(s)
        BY <3>2
      <4> HIDE <3>2, <3>3, <3>5, <2>1, <2>2, <2>3
      <4> QED
        BY <3>4, <4>1, <4>2 DEF From
    <3>6. QED
      BY <3>3, <3>5, <3>7 DEF u
  <2>5. Good = Nat
    <3> HIDE DEF Good
    <3>1. Good \in SUBSET Nat
      BY DEF Good
    <3>2. QED
      BY <2>3, <2>4, <3>1, NaturalInduction
  <2>6. n - 1 \in Good /\ (n - 1) + 1 = n
    <3> HIDE DEF Good
    <3>1. QED
      BY <1>1, <2>2, <2>5
  <2>7. f[n] \in Seq(S) /\ From(f[n])
    BY <2>2, <2>6, Zenon
  <2> DEFINE u == FlattenSeq(seqs)
  <2>8. u \in Seq(S) /\ From(u)
    BY <2>1, <2>7
  <2> HIDE DEF u
  <2>9. \A k \in DOMAIN u : \E j \in DOMAIN seqs : \E m \in DOMAIN seqs[j] : u[k] = seqs[j][m]
    BY <1>1, <2>8 DEF From
  <2>10. QED
    BY <2>8, <2>9 DEF u
<1>4. QED
  BY <1>2, <1>3
===============================================================================
