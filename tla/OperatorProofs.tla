---------------------------- MODULE OperatorProofs ----------------------------
(***************************************************************************)
(* Lemmas about the operators of Arithmetic and FlattenSeq.  A sum (a fold *)
(* of the community modules) is a recursive function, so that it is first  *)
(* shown to exist; everything else follows by taking a least               *)
(* counterexample.                                                         *)
(***************************************************************************)
EXTENDS Integers, Arithmetic, SequencesExt, FiniteSetTheorems, SequenceTheorems,
        WellFoundedInduction, TLAPS

-----------------------------------------------------------------------------
(* Induction.                                                              *)

(* A non-empty set of natural numbers has a least element.                 *)
LEMMA LeastNat ==
  ASSUME NEW T \in SUBSET Nat, T # {}
  PROVE  \E n \in T : \A m \in T : n <= m
<1>1. IsWellFoundedOn({p \in Nat \X Nat : p[1] < p[2]}, Nat)
  BY NatLessThanWellFounded DEF OpToRel
<1>2. PICK n \in T : \A m \in T : <<m, n>> \notin {p \in Nat \X Nat : p[1] < p[2]}
  BY <1>1, WFMin
<1>3. \A m \in T : m \in Nat /\ ~(m < n)
  BY <1>2
<1> QED  BY <1>3

(* A set that has 0 and all successors of its members has every number.    *)
LEMMA NatSetInduction ==
  ASSUME NEW T, 0 \in T, \A n \in Nat : n \in T => n + 1 \in T
  PROVE  Nat \subseteq T
<1> DEFINE B == Nat \ T
<1>1. SUFFICES ASSUME B # {} PROVE FALSE
  OBVIOUS
<1>2. PICK n \in B : \A m \in B : n <= m
  BY <1>1, LeastNat
<1>3. n # 0 /\ n \in Nat
  OBVIOUS
<1>4. n - 1 \in Nat /\ n - 1 \notin B
  BY <1>2, <1>3
<1> QED  BY <1>3, <1>4

(* A set of subsets of S that has the empty one, and a set whenever it has *)
(* that set without one of its elements, has all of them.                  *)
LEMMA SubsetInduction ==
  ASSUME NEW S, IsFiniteSet(S), NEW T, {} \in T,
         \A A \in SUBSET S, x \in S : x \in A /\ A \ {x} \in T => A \in T
  PROVE  SUBSET S \subseteq T
<1> DEFINE B == {A \in SUBSET S : A \notin T}
<1>1. SUFFICES ASSUME B # {} PROVE FALSE
  OBVIOUS
<1>2. B \subseteq FiniteSubsetsOf(S)
  BY FS_Subset DEF FiniteSubsetsOf
<1> HIDE DEF B
<1>8. IsWellFoundedOn(StrictSubsetOrdering(S), FiniteSubsetsOf(S))
  BY FS_StrictSubsetOrderingWellFounded
<1>3. PICK A \in B : \A C \in B : <<C, A>> \notin StrictSubsetOrdering(S)
  BY <1>1, <1>2, <1>8, WFMin
<1> USE DEF B
<1>4. PICK x \in S : x \in A
  OBVIOUS
<1>5. A \ {x} \in SUBSET S /\ A \ {x} \subseteq A /\ A \ {x} # A
  BY <1>4
<1>6. <<A \ {x}, A>> \in StrictSubsetOrdering(S)
  BY <1>5 DEF StrictSubsetOrdering
<1>7. A \ {x} \in T
  BY <1>3, <1>5, <1>6
<1> QED  BY <1>4, <1>7

(* Finitely many values have a largest and a smallest one.                 *)
LEMMA Extremes ==
  ASSUME NEW f, NEW S, IsFiniteSet(S), S # {}, \A x \in S : f[x] \in Int
  PROVE  /\ \A x \in S : Min({f[y] : y \in S}) <= f[x] /\ f[x] <= Max({f[y] : y \in S})
         /\ Min({f[y] : y \in S}) \in Int /\ Max({f[y] : y \in S}) \in Int
         /\ Max({f[y] : y \in S}) \in {f[y] : y \in S}
<1> DEFINE T == {A \in SUBSET S : A # {} =>
                   \E m, n \in A : \A x \in A : f[m] <= f[x] /\ f[x] <= f[n]}
<1>1. {} \in T
  OBVIOUS
<1>2. ASSUME NEW A \in SUBSET S, NEW y \in S, y \in A, A \ {y} \in T
      PROVE  A \in T
  <2>1. CASE A \ {y} = {}
    BY <1>2, <2>1
  <2>2. CASE A \ {y} # {}
    <3>1. PICK m \in A \ {y}, n \in A \ {y} : \A x \in A \ {y} : f[m] <= f[x] /\ f[x] <= f[n]
      BY <1>2, <2>2
    <3> DEFINE lower == IF f[y] <= f[m] THEN y ELSE m
               upper == IF f[n] <= f[y] THEN y ELSE n
    <3>2. lower \in A /\ upper \in A
      BY <1>2
    <3>3. \A x \in A : f[lower] <= f[x] /\ f[x] <= f[upper]
      BY <1>2, <3>1
    <3> HIDE DEF lower, upper
    <3> QED  BY <3>2, <3>3
  <2> QED  BY <2>1, <2>2
<1> HIDE DEF T
<1>3. S \in T
  BY <1>1, <1>2, SubsetInduction
<1>4. PICK m \in S, n \in S : \A x \in S : f[m] <= f[x] /\ f[x] <= f[n]
  BY <1>3 DEF T
<1> DEFINE V == {f[y] : y \in S}
<1>5. V \subseteq Int /\ f[m] \in V /\ f[n] \in V /\ \A v \in V : f[m] <= v /\ v <= f[n]
  BY <1>4
<1>6. /\ Min(V) \in V /\ \A v \in V : Min(V) <= v
      /\ Max(V) \in V /\ \A v \in V : v <= Max(V)
  <2> HIDE DEF V
  <2> QED  BY <1>5 DEF Min, Max
<1> QED  BY <1>5, <1>6

-----------------------------------------------------------------------------
(* The sum of the values of a function.                                    *)

(* The element that the sum takes out of a set first.                      *)
Element(s) == CHOOSE x \in s : TRUE
Rest(s) == s \ {Element(s)}

(* What the recursion asks of the function g of partial sums.              *)
PartialSums(g, f, S) ==
  g = [s \in SUBSET S |-> IF s = {} THEN 0 ELSE f[Element(s)] + g[Rest(s)]]

TheSums(f, S) == CHOOSE g : PartialSums(g, f, S)

(* A sum is the last of its partial sums.                                  *)
LEMMA SumIsPartialSum ==
  ASSUME NEW f, NEW S
  PROVE  SumOver(f, S) = TheSums(f, S)[S]
BY DEF SumOver, MapThenSumSet, MapThenFoldSet, TheSums, PartialSums, Element, Rest

(* The rest of a set has one element less.                                 *)
LEMMA RestSmaller ==
  ASSUME NEW s, IsFiniteSet(s), s # {}
  PROVE  /\ Element(s) \in s /\ Rest(s) \subseteq s
         /\ Cardinality(Rest(s)) = Cardinality(s) - 1 /\ Cardinality(s) \in Nat
<1>1. Element(s) \in s
  BY DEF Element
<1>2. Cardinality(s) \in Nat
  BY FS_CardinalityType
<1> QED  BY <1>1, <1>2, FS_RemoveElement DEF Rest

(* The partial sums exist: those of sets of up to n elements, for every n. *)
LEMMA PartialSumsExist ==
  ASSUME NEW f, NEW S, IsFiniteSet(S)
  PROVE  \E g : PartialSums(g, f, S)
<1> DEFINE Upto(n) == {s \in SUBSET S : Cardinality(s) <= n}
           Sums(g, n) == g = [s \in Upto(n) |-> IF s = {} THEN 0
                                               ELSE f[Element(s)] + g[Rest(s)]]
           T == {n \in Nat : \E g : Sums(g, n)}
<1>1. \A s \in SUBSET S : IsFiniteSet(s) /\ Cardinality(s) \in Nat
                            /\ Cardinality(s) <= Cardinality(S)
  BY FS_Subset, FS_CardinalityType
<1>2. 0 \in T
  <2>1. \A s \in Upto(0) : s = {}
    BY <1>1, FS_EmptySet
  <2>2. Sums([s \in Upto(0) |-> 0], 0)
    BY <2>1
  <2> QED  BY <2>2
<1>3. ASSUME NEW n \in Nat, n \in T
      PROVE  n + 1 \in T
  <2>1. PICK g : Sums(g, n)
    BY <1>3
  <2> DEFINE h == [s \in Upto(n + 1) |-> IF s = {} THEN 0
                                         ELSE f[Element(s)] + g[Rest(s)]]
  <2>2. \A s \in Upto(n) : s \in Upto(n + 1) /\ h[s] = g[s]
    BY <1>1, <2>1
  <2>3. ASSUME NEW s \in Upto(n + 1), s # {}
        PROVE  Rest(s) \in Upto(n)
    BY <1>1, <2>3, RestSmaller
  <2>4. \A s \in Upto(n + 1) : h[s] = IF s = {} THEN 0 ELSE f[Element(s)] + h[Rest(s)]
    BY <2>2, <2>3
  <2>5. Sums(h, n + 1)
    BY <2>4
  <2> HIDE DEF Sums, h
  <2>6. \E k : Sums(k, n + 1)
    BY <2>5
  <2> QED  BY <2>6
<1>4. Cardinality(S) \in T
  <2> HIDE DEF T
  <2>1. Nat \subseteq T
    BY <1>2, <1>3, NatSetInduction
  <2> QED  BY <1>1, <2>1
<1>5. Upto(Cardinality(S)) = SUBSET S
  BY <1>1
<1>6. PICK g : Sums(g, Cardinality(S))
  BY <1>4
<1>7. PartialSums(g, f, S)
  BY <1>5, <1>6 DEF PartialSums
<1> QED  BY <1>7

(* The partial sums satisfy their recursion.                               *)
LEMMA TheSumsRecursion ==
  ASSUME NEW f, NEW S, IsFiniteSet(S), NEW s \in SUBSET S
  PROVE  TheSums(f, S)[s] =
           IF s = {} THEN 0 ELSE f[Element(s)] + TheSums(f, S)[Rest(s)]
<1>1. PartialSums(TheSums(f, S), f, S)
  BY PartialSumsExist DEF TheSums
<1> QED  BY <1>1 DEF PartialSums

(* The partial sums do not depend on the set they are partial to.          *)
LEMMA TheSumsAgree ==
  ASSUME NEW f, NEW S, IsFiniteSet(S), NEW R \in SUBSET S
  PROVE  TheSums(f, S)[R] = SumOver(f, R)
<1> DEFINE T == {n \in Nat : \A A \in SUBSET R :
                   Cardinality(A) = n => TheSums(f, S)[A] = TheSums(f, R)[A]}
<1>1. IsFiniteSet(R) /\ \A A \in SUBSET R : IsFiniteSet(A) /\ Cardinality(A) \in Nat
  BY FS_Subset, FS_CardinalityType
<1>2. 0 \in T
  <2>1. \A A \in SUBSET R : Cardinality(A) = 0 => A = {}
    BY <1>1, FS_EmptySet
  <2> QED  BY <1>1, <2>1, TheSumsRecursion
<1>3. ASSUME NEW n \in Nat, n \in T
      PROVE  n + 1 \in T
  <2> SUFFICES ASSUME NEW A \in SUBSET R, Cardinality(A) = n + 1
               PROVE  TheSums(f, S)[A] = TheSums(f, R)[A]
    OBVIOUS
  <2>1. A # {} /\ A \in SUBSET S
    BY FS_EmptySet
  <2>2. Rest(A) \in SUBSET R /\ Cardinality(Rest(A)) = n
    BY <1>1, <2>1, RestSmaller
  <2>3. TheSums(f, S)[Rest(A)] = TheSums(f, R)[Rest(A)]
    BY <1>3, <2>2
  <2> QED  BY <1>1, <2>1, <2>3, TheSumsRecursion
<1>4. Cardinality(R) \in T
  <2> HIDE DEF T
  <2>1. Nat \subseteq T
    BY <1>2, <1>3, NatSetInduction
  <2> QED  BY <1>1, <2>1
<1> QED  BY <1>4, SumIsPartialSum

(* The sum, element by element, as it is computed ...                      *)
LEMMA SumRecursion ==
  ASSUME NEW f, NEW S, IsFiniteSet(S)
  PROVE  SumOver(f, S) = IF S = {} THEN 0 ELSE f[Element(S)] + SumOver(f, Rest(S))
<1>1. S # {} => Rest(S) \in SUBSET S
  BY DEF Rest
<1> QED  BY <1>1, SumIsPartialSum, TheSumsRecursion, TheSumsAgree

(* The sum over nothing is 0.                                              *)
LEMMA SumEmpty ==
  ASSUME NEW f
  PROVE  SumOver(f, {}) = 0
BY SumRecursion, FS_EmptySet

(* ... and independently of the order in which elements are taken out.     *)
LEMMA SumType ==
  ASSUME NEW f, NEW S, IsFiniteSet(S), \A x \in S : f[x] \in Int
  PROVE  SumOver(f, S) \in Int
<1> DEFINE T == {n \in Nat : \A A \in SUBSET S : Cardinality(A) = n => SumOver(f, A) \in Int}
<1>1. \A A \in SUBSET S : IsFiniteSet(A) /\ Cardinality(A) \in Nat
  BY FS_Subset, FS_CardinalityType
<1>2. 0 \in T
  BY <1>1, FS_EmptySet, SumEmpty
<1>3. ASSUME NEW n \in Nat, n \in T
      PROVE  n + 1 \in T
  <2> SUFFICES ASSUME NEW A \in SUBSET S, Cardinality(A) = n + 1
               PROVE  SumOver(f, A) \in Int
    OBVIOUS
  <2>1. A # {} /\ IsFiniteSet(A)
    BY <1>1, FS_EmptySet
  <2>2. Element(A) \in A /\ Rest(A) \in SUBSET S /\ Cardinality(Rest(A)) = n
    BY <2>1, RestSmaller
  <2> QED  BY <1>3, <2>1, <2>2, SumRecursion
<1> HIDE DEF T
<1>4. Nat \subseteq T
  BY <1>2, <1>3, NatSetInduction
<1>5. Cardinality(S) \in T
  BY <1>1, <1>4
<1> QED  BY <1>5 DEF T

(* Any element can be taken out of a sum.                                  *)
LEMMA SumRemove ==
  ASSUME NEW f, NEW S, IsFiniteSet(S), \A x \in S : f[x] \in Int, NEW y \in S
  PROVE  SumOver(f, S) = f[y] + SumOver(f, S \ {y})
<1> DEFINE T == {n \in Nat : \A A \in SUBSET S : \A x \in A :
                   Cardinality(A) = n => SumOver(f, A) = f[x] + SumOver(f, A \ {x})}
<1>1. \A A \in SUBSET S : IsFiniteSet(A) /\ Cardinality(A) \in Nat
  BY FS_Subset, FS_CardinalityType
<1>2. 0 \in T
  BY <1>1, FS_EmptySet
<1>3. ASSUME NEW n \in Nat, n \in T
      PROVE  n + 1 \in T
  <2> SUFFICES ASSUME NEW A \in SUBSET S, NEW x \in A, Cardinality(A) = n + 1
               PROVE  SumOver(f, A) = f[x] + SumOver(f, A \ {x})
    OBVIOUS
  <2> DEFINE e == Element(A)
  <2>1. IsFiniteSet(A) /\ e \in A /\ Rest(A) = A \ {e}
    BY <1>1, RestSmaller DEF Rest
  <2> HIDE DEF e
  <2>2. SumOver(f, A) = f[e] + SumOver(f, A \ {e})
    BY <2>1, SumRecursion DEF e
  <2>3. CASE x = e
    BY <2>2, <2>3
  <2>4. CASE x # e
    <3> HIDE DEF T
    <3>1. /\ Cardinality(A \ {e}) = n /\ A \ {e} \in SUBSET S
          /\ Cardinality(A \ {x}) = n /\ A \ {x} \in SUBSET S
      <4>1. \A z \in A : Cardinality(A \ {z}) = Cardinality(A) - 1
        BY <2>1, FS_RemoveElement
      <4> QED  BY <2>1, <4>1
    <3> USE DEF T
    <3>2. SumOver(f, A \ {e}) = f[x] + SumOver(f, (A \ {e}) \ {x})
      BY <1>3, <2>4, <3>1
    <3>3. SumOver(f, A \ {x}) = f[e] + SumOver(f, (A \ {x}) \ {e})
      BY <1>3, <2>1, <2>4, <3>1
    <3>4. (A \ {x}) \ {e} = (A \ {e}) \ {x}
      OBVIOUS
    <3>5. SumOver(f, (A \ {e}) \ {x}) \in Int
      BY <1>1, SumType
    <3>6. f[x] \in Int /\ f[e] \in Int
      BY <2>1
    <3> DEFINE rest == SumOver(f, (A \ {e}) \ {x})
    <3>7. SumOver(f, A) = f[e] + (f[x] + rest) /\ SumOver(f, A \ {x}) = f[e] + rest
      BY <2>2, <3>2, <3>3, <3>4
    <3> HIDE DEF T, rest
    <3>8. rest \in Int
      BY <3>5 DEF rest
    <3> QED  BY <3>6, <3>7, <3>8
  <2> QED  BY <2>3, <2>4
<1> HIDE DEF T
<1>4. Nat \subseteq T
  BY <1>2, <1>3, NatSetInduction
<1>5. Cardinality(S) \in T
  BY <1>1, <1>4
<1> QED  BY <1>5 DEF T

(* Functions that agree on a set have the same sum over it.                *)
LEMMA SumAgree ==
  ASSUME NEW f, NEW g, NEW S, IsFiniteSet(S),
         \A x \in S : f[x] \in Int /\ f[x] = g[x]
  PROVE  SumOver(f, S) = SumOver(g, S)
<1> DEFINE T == {A \in SUBSET S : SumOver(f, A) = SumOver(g, A)}
<1>1. {} \in T
  BY SumEmpty
<1>2. ASSUME NEW A \in SUBSET S, NEW x \in S, x \in A, A \ {x} \in T
      PROVE  A \in T
  <2>1. IsFiniteSet(A)
    BY FS_Subset
  <2>2. SumOver(f, A) = f[x] + SumOver(f, A \ {x}) /\ SumOver(g, A) = g[x] + SumOver(g, A \ {x})
    BY <1>2, <2>1, SumRemove
  <2> QED  BY <1>2, <2>2
<1> HIDE DEF T
<1>3. S \in T
  BY <1>1, <1>2, SubsetInduction
<1> QED  BY <1>3 DEF T

(* Changing one value changes the sum by as much.                          *)
LEMMA SumUpdate ==
  ASSUME NEW f, NEW g, NEW S, IsFiniteSet(S), NEW y \in S,
         \A x \in S : f[x] \in Int /\ g[x] \in Int,
         \A x \in S \ {y} : f[x] = g[x]
  PROVE  SumOver(g, S) = SumOver(f, S) + (g[y] - f[y])
<1>1. IsFiniteSet(S \ {y})
  BY FS_RemoveElement
<1>2. SumOver(f, S \ {y}) = SumOver(g, S \ {y}) /\ SumOver(f, S \ {y}) \in Int
  BY <1>1, SumAgree, SumType
<1>3. SumOver(f, S) = f[y] + SumOver(f, S \ {y}) /\ SumOver(g, S) = g[y] + SumOver(g, S \ {y})
  BY SumRemove
<1> QED  BY <1>2, <1>3

(* A sum grows with its terms.                                             *)
LEMMA SumMonotonic ==
  ASSUME NEW f, NEW g, NEW S, IsFiniteSet(S),
         \A x \in S : f[x] \in Int /\ g[x] \in Int /\ f[x] <= g[x]
  PROVE  SumOver(f, S) <= SumOver(g, S)
<1> DEFINE T == {A \in SUBSET S : SumOver(f, A) <= SumOver(g, A)}
<1>1. {} \in T
  BY SumEmpty
<1>2. ASSUME NEW A \in SUBSET S, NEW x \in S, x \in A, A \ {x} \in T
      PROVE  A \in T
  <2>1. IsFiniteSet(A) /\ IsFiniteSet(A \ {x})
    BY FS_Subset
  <2>2. SumOver(f, A) = f[x] + SumOver(f, A \ {x}) /\ SumOver(f, A \ {x}) \in Int
    BY <1>2, <2>1, SumRemove, SumType
  <2>3. SumOver(g, A) = g[x] + SumOver(g, A \ {x}) /\ SumOver(g, A \ {x}) \in Int
    BY <1>2, <2>1, SumRemove, SumType
  <2>4. SumOver(f, A \ {x}) <= SumOver(g, A \ {x}) /\ f[x] <= g[x] /\ f[x] \in Int /\ g[x] \in Int
    BY <1>2
  <2> QED  BY <2>2, <2>3, <2>4
<1> HIDE DEF T
<1>3. SUBSET S \subseteq T
  BY <1>1, <1>2, SubsetInduction
<1> QED  BY <1>3 DEF T

(* A common factor.                                                        *)
LEMMA SumScale ==
  ASSUME NEW f, NEW g, NEW c \in Int, NEW S, IsFiniteSet(S),
         \A x \in S : f[x] \in Int /\ g[x] = c * f[x]
  PROVE  SumOver(g, S) = c * SumOver(f, S)
<1> DEFINE T == {A \in SUBSET S : SumOver(g, A) = c * SumOver(f, A)}
<1>1. {} \in T
  BY SumEmpty
<1>2. ASSUME NEW A \in SUBSET S, NEW x \in S, x \in A, A \ {x} \in T
      PROVE  A \in T
  <2>1. IsFiniteSet(A) /\ IsFiniteSet(A \ {x})
    BY FS_Subset
  <2>2. \A y \in A : f[y] \in Int /\ g[y] \in Int /\ g[y] = c * f[y]
    OBVIOUS
  <2>3. SumOver(f, A) = f[x] + SumOver(f, A \ {x}) /\ SumOver(f, A \ {x}) \in Int
    BY <1>2, <2>1, <2>2, SumRemove, SumType
  <2>4. SumOver(g, A) = g[x] + SumOver(g, A \ {x})
    BY <1>2, <2>1, <2>2, SumRemove
  <2>5. c * (f[x] + SumOver(f, A \ {x})) = c * f[x] + c * SumOver(f, A \ {x})
    BY <2>2, <2>3
  <2> QED  BY <1>2, <2>2, <2>3, <2>4, <2>5
<1> HIDE DEF T
<1>3. S \in T
  BY <1>1, <1>2, SubsetInduction
<1> QED  BY <1>3 DEF T

(* A sum of zeros.                                                         *)
LEMMA SumZero ==
  ASSUME NEW f, NEW S, IsFiniteSet(S), \A x \in S : f[x] = 0
  PROVE  SumOver(f, S) = 0
<1>1. SumOver(f, S) = 0 * SumOver(f, S)
  BY SumScale
<1>2. SumOver(f, S) \in Int
  BY SumType
<1> QED  BY <1>1, <1>2

-----------------------------------------------------------------------------
(* The product of the values of a function, in the same way.               *)

(* What the recursion asks of the function g of partial products.              *)
PartialProducts(g, f, S) ==
  g = [s \in SUBSET S |-> IF s = {} THEN 1 ELSE f[Element(s)] * g[Rest(s)]]

TheProducts(f, S) == CHOOSE g : PartialProducts(g, f, S)

(* A product is the last of its partial products.                          *)
LEMMA ProductIsPartialProduct ==
  ASSUME NEW f, NEW S
  PROVE  Product(f, S) = TheProducts(f, S)[S]
BY DEF Product, MapThenFoldSet, TheProducts, PartialProducts, Element, Rest

(* The partial products exist: those of sets of up to n elements, for every n. *)
LEMMA PartialProductsExist ==
  ASSUME NEW f, NEW S, IsFiniteSet(S)
  PROVE  \E g : PartialProducts(g, f, S)
<1> DEFINE Upto(n) == {s \in SUBSET S : Cardinality(s) <= n}
           Products(g, n) == g = [s \in Upto(n) |-> IF s = {} THEN 1
                                               ELSE f[Element(s)] * g[Rest(s)]]
           T == {n \in Nat : \E g : Products(g, n)}
<1>1. \A s \in SUBSET S : IsFiniteSet(s) /\ Cardinality(s) \in Nat
                            /\ Cardinality(s) <= Cardinality(S)
  BY FS_Subset, FS_CardinalityType
<1>2. 0 \in T
  <2>1. \A s \in Upto(0) : s = {}
    BY <1>1, FS_EmptySet
  <2>2. Products([s \in Upto(0) |-> 1], 0)
    BY <2>1
  <2> QED  BY <2>2
<1>3. ASSUME NEW n \in Nat, n \in T
      PROVE  n + 1 \in T
  <2>1. PICK g : Products(g, n)
    BY <1>3
  <2> DEFINE h == [s \in Upto(n + 1) |-> IF s = {} THEN 1
                                         ELSE f[Element(s)] * g[Rest(s)]]
  <2>2. \A s \in Upto(n) : s \in Upto(n + 1) /\ h[s] = g[s]
    BY <1>1, <2>1
  <2>3. ASSUME NEW s \in Upto(n + 1), s # {}
        PROVE  Rest(s) \in Upto(n)
    BY <1>1, <2>3, RestSmaller
  <2>4. \A s \in Upto(n + 1) : h[s] = IF s = {} THEN 1 ELSE f[Element(s)] * h[Rest(s)]
    BY <2>2, <2>3
  <2>5. Products(h, n + 1)
    BY <2>4
  <2> HIDE DEF Products, h
  <2>6. \E k : Products(k, n + 1)
    BY <2>5
  <2> QED  BY <2>6
<1>4. Cardinality(S) \in T
  <2> HIDE DEF T
  <2>1. Nat \subseteq T
    BY <1>2, <1>3, NatSetInduction
  <2> QED  BY <1>1, <2>1
<1>5. Upto(Cardinality(S)) = SUBSET S
  BY <1>1
<1>6. PICK g : Products(g, Cardinality(S))
  BY <1>4
<1>7. PartialProducts(g, f, S)
  BY <1>5, <1>6 DEF PartialProducts
<1> QED  BY <1>7

(* The partial products satisfy their recursion.                           *)
LEMMA TheProductsRecursion ==
  ASSUME NEW f, NEW S, IsFiniteSet(S), NEW s \in SUBSET S
  PROVE  TheProducts(f, S)[s] =
           IF s = {} THEN 1 ELSE f[Element(s)] * TheProducts(f, S)[Rest(s)]
<1>1. PartialProducts(TheProducts(f, S), f, S)
  BY PartialProductsExist DEF TheProducts
<1> QED  BY <1>1 DEF PartialProducts

(* The partial products do not depend on the set they are partial to.          *)
LEMMA TheProductsAgree ==
  ASSUME NEW f, NEW S, IsFiniteSet(S), NEW R \in SUBSET S
  PROVE  TheProducts(f, S)[R] = Product(f, R)
<1> DEFINE T == {n \in Nat : \A A \in SUBSET R :
                   Cardinality(A) = n => TheProducts(f, S)[A] = TheProducts(f, R)[A]}
<1>1. IsFiniteSet(R) /\ \A A \in SUBSET R : IsFiniteSet(A) /\ Cardinality(A) \in Nat
  BY FS_Subset, FS_CardinalityType
<1>2. 0 \in T
  <2>1. \A A \in SUBSET R : Cardinality(A) = 0 => A = {}
    BY <1>1, FS_EmptySet
  <2> QED  BY <1>1, <2>1, TheProductsRecursion
<1>3. ASSUME NEW n \in Nat, n \in T
      PROVE  n + 1 \in T
  <2> SUFFICES ASSUME NEW A \in SUBSET R, Cardinality(A) = n + 1
               PROVE  TheProducts(f, S)[A] = TheProducts(f, R)[A]
    OBVIOUS
  <2>1. A # {} /\ A \in SUBSET S
    BY FS_EmptySet
  <2>2. Rest(A) \in SUBSET R /\ Cardinality(Rest(A)) = n
    BY <1>1, <2>1, RestSmaller
  <2>3. TheProducts(f, S)[Rest(A)] = TheProducts(f, R)[Rest(A)]
    BY <1>3, <2>2
  <2> QED  BY <1>1, <2>1, <2>3, TheProductsRecursion
<1>4. Cardinality(R) \in T
  <2> HIDE DEF T
  <2>1. Nat \subseteq T
    BY <1>2, <1>3, NatSetInduction
  <2> QED  BY <1>1, <2>1
<1> QED  BY <1>4, ProductIsPartialProduct

(* The product, element by element, as it is computed ...                      *)
LEMMA ProductRecursion ==
  ASSUME NEW f, NEW S, IsFiniteSet(S)
  PROVE  Product(f, S) = IF S = {} THEN 1 ELSE f[Element(S)] * Product(f, Rest(S))
<1>1. S # {} => Rest(S) \in SUBSET S
  BY DEF Rest
<1> QED  BY <1>1, ProductIsPartialProduct, TheProductsRecursion, TheProductsAgree

(* The product over nothing is 1.                                          *)
LEMMA ProductEmpty ==
  ASSUME NEW f
  PROVE  Product(f, {}) = 1
BY ProductRecursion, FS_EmptySet

(* ... and independently of the order in which elements are taken out.     *)
LEMMA ProductType ==
  ASSUME NEW f, NEW S, IsFiniteSet(S), \A x \in S : f[x] \in Nat \ {0}
  PROVE  Product(f, S) \in Nat \ {0}
<1> DEFINE T == {n \in Nat : \A A \in SUBSET S : Cardinality(A) = n => Product(f, A) \in Nat \ {0}}
<1>1. \A A \in SUBSET S : IsFiniteSet(A) /\ Cardinality(A) \in Nat
  BY FS_Subset, FS_CardinalityType
<1>2. 0 \in T
  BY <1>1, FS_EmptySet, ProductEmpty
<1>3. ASSUME NEW n \in Nat, n \in T
      PROVE  n + 1 \in T
  <2> SUFFICES ASSUME NEW A \in SUBSET S, Cardinality(A) = n + 1
               PROVE  Product(f, A) \in Nat \ {0}
    OBVIOUS
  <2>1. A # {} /\ IsFiniteSet(A)
    BY <1>1, FS_EmptySet
  <2>2. Element(A) \in A /\ Rest(A) \in SUBSET S /\ Cardinality(Rest(A)) = n
    BY <2>1, RestSmaller
  <2> QED  BY <1>3, <2>1, <2>2, ProductRecursion
<1> HIDE DEF T
<1>4. Nat \subseteq T
  BY <1>2, <1>3, NatSetInduction
<1>5. Cardinality(S) \in T
  BY <1>1, <1>4
<1> QED  BY <1>5 DEF T

(* Any element can be taken out of a product.                              *)
LEMMA ProductRemove ==
  ASSUME NEW f, NEW S, IsFiniteSet(S), \A x \in S : f[x] \in Nat \ {0}, NEW y \in S
  PROVE  Product(f, S) = f[y] * Product(f, S \ {y})
<1> DEFINE T == {n \in Nat : \A A \in SUBSET S : \A x \in A :
                   Cardinality(A) = n => Product(f, A) = f[x] * Product(f, A \ {x})}
<1>1. \A A \in SUBSET S : IsFiniteSet(A) /\ Cardinality(A) \in Nat
  BY FS_Subset, FS_CardinalityType
<1>2. 0 \in T
  BY <1>1, FS_EmptySet
<1>3. ASSUME NEW n \in Nat, n \in T
      PROVE  n + 1 \in T
  <2> SUFFICES ASSUME NEW A \in SUBSET S, NEW x \in A, Cardinality(A) = n + 1
               PROVE  Product(f, A) = f[x] * Product(f, A \ {x})
    OBVIOUS
  <2> DEFINE e == Element(A)
  <2>1. IsFiniteSet(A) /\ e \in A /\ Rest(A) = A \ {e}
    BY <1>1, RestSmaller DEF Rest
  <2> HIDE DEF e
  <2>2. Product(f, A) = f[e] * Product(f, A \ {e})
    BY <2>1, ProductRecursion DEF e
  <2>3. CASE x = e
    BY <2>2, <2>3
  <2>4. CASE x # e
    <3> HIDE DEF T
    <3>1. /\ Cardinality(A \ {e}) = n /\ A \ {e} \in SUBSET S
          /\ Cardinality(A \ {x}) = n /\ A \ {x} \in SUBSET S
      <4>1. \A z \in A : Cardinality(A \ {z}) = Cardinality(A) - 1
        BY <2>1, FS_RemoveElement
      <4> QED  BY <2>1, <4>1
    <3> USE DEF T
    <3>2. Product(f, A \ {e}) = f[x] * Product(f, (A \ {e}) \ {x})
      BY <1>3, <2>4, <3>1
    <3>3. Product(f, A \ {x}) = f[e] * Product(f, (A \ {x}) \ {e})
      BY <1>3, <2>1, <2>4, <3>1
    <3>4. (A \ {x}) \ {e} = (A \ {e}) \ {x}
      OBVIOUS
    <3>5. Product(f, (A \ {e}) \ {x}) \in Nat \ {0}
      BY <1>1, ProductType
    <3>6. f[x] \in Nat \ {0} /\ f[e] \in Nat \ {0}
      BY <2>1
    <3> DEFINE rest == Product(f, (A \ {e}) \ {x})
    <3>7. Product(f, A) = f[e] * (f[x] * rest) /\ Product(f, A \ {x}) = f[e] * rest
      BY <2>2, <3>2, <3>3, <3>4
    <3> HIDE DEF T, rest
    <3>8. rest \in Nat \ {0}
      BY <3>5 DEF rest
    <3> QED  BY <3>6, <3>7, <3>8
  <2> QED  BY <2>3, <2>4
<1> HIDE DEF T
<1>4. Nat \subseteq T
  BY <1>2, <1>3, NatSetInduction
<1>5. Cardinality(S) \in T
  BY <1>1, <1>4
<1> QED  BY <1>5 DEF T

-----------------------------------------------------------------------------
(* Division and products.                                                  *)

(* Division with remainder.                                                *)
LEMMA DivModNat ==
  ASSUME NEW a \in Nat, NEW n \in Nat \ {0}
  PROVE  /\ a \div n \in Nat /\ a % n \in 0 .. n - 1
         /\ a = n * (a \div n) + (a % n) /\ n * (a \div n) <= a
OBVIOUS

(* Products grow with their factors.                                       *)
LEMMA TimesMonotonic ==
  ASSUME NEW a \in Nat, NEW b \in Nat, NEW n \in Nat, a <= b
  PROVE  a * n <= b * n /\ n * a <= n * b /\ a * n \in Nat /\ b * n \in Nat
OBVIOUS

(* Less than n multiples of n fit below a multiple.                        *)
LEMMA TimesCancel ==
  ASSUME NEW a \in Nat, NEW b \in Nat, NEW n \in Nat \ {0}, NEW e \in 0 .. n - 1,
         n * a <= n * b + e
  PROVE  a <= b
<1> SUFFICES ASSUME b + 1 <= a PROVE FALSE
  OBVIOUS
<1>1. n * (b + 1) <= n * a /\ n * (b + 1) = n * b + n
  BY TimesMonotonic
<1> QED  BY <1>1

-----------------------------------------------------------------------------
(* Powers of two divide each other.                                        *)

IsPowerFunction(g, n) ==
  g = [k \in 0 .. n |-> IF k = 0 THEN 1 ELSE 2 * g[k - 1]]

(* The recursion of the powers has a solution.                             *)
LEMMA PowerFunctionExists ==
  ASSUME NEW n \in Nat
  PROVE  \E g : IsPowerFunction(g, n)
<1> DEFINE T == {k \in Nat : \E g : IsPowerFunction(g, k)}
<1>1. 0 \in T
  <2>1. IsPowerFunction([k \in 0 .. 0 |-> 1], 0)
    BY DEF IsPowerFunction
  <2> QED  BY <2>1
<1>2. ASSUME NEW k \in Nat, k \in T
      PROVE  k + 1 \in T
  <2>1. PICK g : IsPowerFunction(g, k)
    BY <1>2
  <2> DEFINE h == [j \in 0 .. k + 1 |-> IF j <= k THEN g[j] ELSE 2 * g[k]]
  <2>2. ASSUME NEW j \in 0 .. k + 1
        PROVE  h[j] = IF j = 0 THEN 1 ELSE 2 * h[j - 1]
    <3>1. \A m \in 0 .. k : h[m] = g[m] /\ g[m] = IF m = 0 THEN 1 ELSE 2 * g[m - 1]
      BY <2>1 DEF IsPowerFunction
    <3>2. CASE j <= k
      <4>1. j \in 0 .. k /\ (j # 0 => j - 1 \in 0 .. k)
        BY <3>2
      <4> HIDE DEF h
      <4> QED  BY <3>1, <4>1
    <3>3. CASE j = k + 1
      <4>1. h[j] = 2 * g[k] /\ j # 0 /\ j - 1 = k /\ k \in 0 .. k
        BY <3>3
      <4> HIDE DEF h
      <4> QED  BY <3>1, <4>1
    <3> QED  BY <3>2, <3>3
  <2>3. IsPowerFunction(h, k + 1)
    <3>1. h = [j \in 0 .. k + 1 |-> h[j]]
      OBVIOUS
    <3> HIDE DEF h
    <3> QED  BY <2>2, <3>1 DEF IsPowerFunction
  <2> HIDE DEF h
  <2> QED  BY <2>3
<1> HIDE DEF T
<1>3. Nat \subseteq T
  BY <1>1, <1>2, NatSetInduction
<1> QED  BY <1>3 DEF T

(* Each power is twice the one before.                                     *)
LEMMA PowerDoubles ==
  ASSUME NEW n \in 0 .. 30
  PROVE  PowerOfTwo[n] = IF n = 0 THEN 1 ELSE 2 * PowerOfTwo[n - 1]
<1>1. PowerOfTwo = CHOOSE g : IsPowerFunction(g, 30)
  BY DEF PowerOfTwo, IsPowerFunction
<1>2. IsPowerFunction(PowerOfTwo, 30)
  BY <1>1, PowerFunctionExists
<1> QED  BY <1>2 DEF IsPowerFunction

(* No power is 0.                                                          *)
LEMMA PowersPositive == PowersOfTwo \subseteq Nat \ {0}
<1> DEFINE T == {n \in Nat : n <= 30 => PowerOfTwo[n] \in Nat \ {0}}
<1>1. 0 \in T
  BY PowerDoubles
<1>2. ASSUME NEW n \in Nat, n \in T
      PROVE  n + 1 \in T
  <2> SUFFICES ASSUME n + 1 <= 30 PROVE PowerOfTwo[n + 1] \in Nat \ {0}
    OBVIOUS
  <2>1. PowerOfTwo[n + 1] = 2 * PowerOfTwo[(n + 1) - 1] /\ (n + 1) - 1 = n
    BY PowerDoubles
  <2> QED  BY <1>2, <2>1
<1> HIDE DEF T
<1>3. Nat \subseteq T
  BY <1>1, <1>2, NatSetInduction
<1>4. \A n \in 0 .. 30 : PowerOfTwo[n] \in Nat \ {0}
  BY <1>3 DEF T
<1> QED  BY <1>4 DEF PowersOfTwo

(* A power divides each larger one.                                        *)
LEMMA PowersDivide ==
  ASSUME NEW p \in PowersOfTwo, NEW q \in PowersOfTwo, p <= q
  PROVE  p \in Nat \ {0} /\ \E f \in Nat \ {0} : q = f * p
<1> DEFINE Multiples(m) == {n \in Nat : m + n \in 0 .. 30 =>
             \E f \in Nat \ {0} : PowerOfTwo[m + n] = f * PowerOfTwo[m]
                                 /\ (n > 0 => f > 1)}
<1>1. ASSUME NEW m \in 0 .. 30, PowerOfTwo[m] \in Nat \ {0}
      PROVE  Nat \subseteq Multiples(m)
  <2>1. 0 \in Multiples(m)
    <3>1. PowerOfTwo[m + 0] = 1 * PowerOfTwo[m]
      BY <1>1
    <3> QED  BY <3>1
  <2>2. ASSUME NEW n \in Nat, n \in Multiples(m)
        PROVE  n + 1 \in Multiples(m)
    <3> SUFFICES ASSUME m + (n + 1) \in 0 .. 30
                 PROVE  \E f \in Nat \ {0} : PowerOfTwo[m + (n + 1)] = f * PowerOfTwo[m]
                                            /\ (n + 1 > 0 => f > 1)
      OBVIOUS
    <3>1. m + n \in 0 .. 30
      OBVIOUS
    <3>2. PICK f \in Nat \ {0} : PowerOfTwo[m + n] = f * PowerOfTwo[m]
      BY <2>2, <3>1
    <3>3. m + (n + 1) # 0 /\ (m + (n + 1)) - 1 = m + n
      OBVIOUS
    <3>4. PowerOfTwo[m + (n + 1)] = 2 * PowerOfTwo[m + n]
      BY <3>3, PowerDoubles
    <3>5. PowerOfTwo[m + (n + 1)] = (2 * f) * PowerOfTwo[m] /\ 2 * f \in Nat \ {0} /\ 2 * f > 1
      BY <1>1, <3>2, <3>4
    <3> QED  BY <3>5
  <2> HIDE DEF Multiples
  <2> QED  BY <2>1, <2>2, NatSetInduction
<1>2. \A m \in 0 .. 30 : PowerOfTwo[m] \in Nat \ {0}
  BY PowersPositive DEF PowersOfTwo
<1>3. PICK m \in 0 .. 30, n \in 0 .. 30 : p = PowerOfTwo[m] /\ q = PowerOfTwo[n]
  BY DEF PowersOfTwo
<1>4. CASE m <= n
  <2>1. n - m \in Nat /\ m + (n - m) = n
    BY <1>4
  <2>2. Nat \subseteq Multiples(m)
    BY <1>1, <1>2
  <2>3. n - m \in Multiples(m)
    <3> HIDE DEF Multiples
    <3> QED  BY <2>1, <2>2
  <2> QED  BY <1>2, <1>3, <2>1, <2>3
<1>5. CASE n < m
  <2>1. m - n \in Nat /\ n + (m - n) = m /\ m - n > 0
    BY <1>5
  <2>2. Nat \subseteq Multiples(n)
    BY <1>1, <1>2
  <2>3. m - n \in Multiples(n)
    <3> HIDE DEF Multiples
    <3> QED  BY <2>1, <2>2
  <2>4. PICK f \in Nat \ {0} : p = f * q /\ f > 1
    BY <1>3, <2>1, <2>3
  <2>5. q \in Nat \ {0}
    BY <1>2, <1>3
  <2>6. 2 * q <= f * q
    BY <2>4, <2>5
  <2> QED  BY <2>4, <2>5, <2>6
<1> QED  BY <1>4, <1>5

-----------------------------------------------------------------------------
(* FlattenSeq, by induction over the number of sequences it joins.         *)

Flattening(g, ss, n) ==
  g = [k \in 1 .. n |-> IF k = 1 THEN ss[k] ELSE g[k - 1] \o ss[k]]

TheFlattening(ss) == CHOOSE g : Flattening(g, ss, Len(ss))

(* A sequence of sequences is joined when all of them are.                 *)
LEMMA FlattenSeqIsLast ==
  ASSUME NEW ss, Len(ss) # 0
  PROVE  FlattenSeq(ss) = TheFlattening(ss)[Len(ss)]
BY DEF FlattenSeq, TheFlattening, Flattening

(* The recursion of FlattenSeq has a solution.                             *)
LEMMA FlatteningExists ==
  ASSUME NEW ss, NEW n \in Nat
  PROVE  \E g : Flattening(g, ss, n)
<1> DEFINE T == {k \in Nat : \E g : Flattening(g, ss, k)}
<1>1. 0 \in T
  <2>1. Flattening([k \in 1 .. 0 |-> 0], ss, 0)
    BY DEF Flattening
  <2> QED  BY <2>1
<1>2. ASSUME NEW k \in Nat, k \in T
      PROVE  k + 1 \in T
  <2>1. PICK g : Flattening(g, ss, k)
    BY <1>2
  <2> DEFINE h == [j \in 1 .. k + 1 |->
                     IF j = 1 THEN ss[j]
                     ELSE (IF j - 1 = 1 THEN ss[j - 1] ELSE g[j - 2] \o ss[j - 1]) \o ss[j]]
  <2>2. ASSUME NEW j \in 2 .. k + 1
        PROVE  h[j - 1] = IF j - 1 = 1 THEN ss[j - 1] ELSE g[j - 2] \o ss[j - 1]
    <3>1. j - 1 \in 1 .. k /\ j - 1 \in 1 .. k + 1
      OBVIOUS
    <3>2. CASE j - 1 = 1
      BY <3>1, <3>2
    <3>3. CASE j - 1 # 1
      <4>1. j - 2 \in 1 .. k /\ (j - 1) - 1 = j - 2 /\ (j - 1) - 2 = j - 3
        BY <3>1, <3>3
      <4>2. h[j - 1] = (IF j - 2 = 1 THEN ss[j - 2] ELSE g[j - 3] \o ss[j - 2]) \o ss[j - 1]
        BY <3>1, <3>3, <4>1
      <4>3. g[j - 2] = IF j - 2 = 1 THEN ss[j - 2] ELSE g[j - 3] \o ss[j - 2]
        <5>1. \A m \in 1 .. k : g[m] = IF m = 1 THEN ss[m] ELSE g[m - 1] \o ss[m]
          BY <2>1 DEF Flattening
        <5>2. (j - 2) - 1 = j - 3
          OBVIOUS
        <5> QED  BY <4>1, <5>1, <5>2
      <4> QED  BY <3>3, <4>2, <4>3
    <3> QED  BY <3>2, <3>3
  <2>3. Flattening(h, ss, k + 1)
    <3>1. \A j \in 1 .. k + 1 : h[j] = IF j = 1 THEN ss[j] ELSE h[j - 1] \o ss[j]
      <4> SUFFICES ASSUME NEW j \in 1 .. k + 1
                   PROVE  h[j] = IF j = 1 THEN ss[j] ELSE h[j - 1] \o ss[j]
        OBVIOUS
      <4>1. CASE j = 1
        BY <4>1
      <4>2. CASE j # 1
        <5>1. j \in 2 .. k + 1
          BY <4>2
        <5> QED  BY <2>2, <4>2, <5>1
      <4> QED  BY <4>1, <4>2
    <3>2. h = [j \in 1 .. k + 1 |-> h[j]]
      OBVIOUS
    <3> HIDE DEF h
    <3>3. h = [j \in 1 .. k + 1 |-> IF j = 1 THEN ss[j] ELSE h[j - 1] \o ss[j]]
      BY <3>1, <3>2
    <3> QED  BY <3>3 DEF Flattening
  <2> HIDE DEF h
  <2> QED  BY <2>3
<1> HIDE DEF T
<1>3. Nat \subseteq T
  BY <1>1, <1>2, NatSetInduction
<1> QED  BY <1>3 DEF T

(* Each sequence is appended to those before it.                           *)
LEMMA FlatteningStep ==
  ASSUME NEW ss, Len(ss) \in Nat, NEW k \in 1 .. Len(ss)
  PROVE  TheFlattening(ss)[k] = IF k = 1 THEN ss[k] ELSE TheFlattening(ss)[k - 1] \o ss[k]
<1>1. Flattening(TheFlattening(ss), ss, Len(ss))
  BY FlatteningExists DEF TheFlattening
<1> QED  BY <1>1 DEF Flattening

(* Sequences that agree on a prefix have the same flattening of it.        *)
LEMMA FlatteningOfPrefix ==
  ASSUME NEW ss, NEW tt, Len(ss) \in Nat, Len(tt) \in Nat, Len(ss) <= Len(tt),
         \A k \in 1 .. Len(ss) : ss[k] = tt[k], NEW n \in 1 .. Len(ss)
  PROVE  TheFlattening(ss)[n] = TheFlattening(tt)[n]
<1> DEFINE T == {k \in Nat : k \in 1 .. Len(ss) => TheFlattening(ss)[k] = TheFlattening(tt)[k]}
<1>1. 0 \in T
  OBVIOUS
<1>2. ASSUME NEW k \in Nat, k \in T
      PROVE  k + 1 \in T
  <2> SUFFICES ASSUME k + 1 \in 1 .. Len(ss)
               PROVE  TheFlattening(ss)[k + 1] = TheFlattening(tt)[k + 1]
    OBVIOUS
  <2>1. k + 1 \in 1 .. Len(tt) /\ ss[k + 1] = tt[k + 1] /\ (k + 1) - 1 = k
    OBVIOUS
  <2>2. CASE k = 0
    BY <2>1, <2>2, FlatteningStep
  <2>3. CASE k # 0
    <3>1. TheFlattening(ss)[k] = TheFlattening(tt)[k]
      BY <1>2, <2>3
    <3> QED  BY <2>1, <2>3, <3>1, FlatteningStep
  <2> QED  BY <2>2, <2>3
<1> HIDE DEF T
<1>3. Nat \subseteq T
  BY <1>1, <1>2, NatSetInduction
<1> QED  BY <1>3 DEF T

(* Appending a sequence continues the joined one.                          *)
LEMMA FlattenSeqAppend ==
  ASSUME NEW S, NEW ss \in Seq(Seq(S)), NEW x \in Seq(S)
  PROVE  FlattenSeq(Append(ss, x)) = FlattenSeq(ss) \o x
<1> DEFINE tt == Append(ss, x)
<1>1. /\ tt \in Seq(Seq(S)) /\ Len(ss) \in Nat /\ Len(tt) = Len(ss) + 1
      /\ \A k \in 1 .. Len(ss) : ss[k] = tt[k]
      /\ tt[Len(ss) + 1] = x
  BY AppendProperties, LenProperties
<1> HIDE DEF tt
<1>2. FlattenSeq(tt) = TheFlattening(tt)[Len(ss) + 1]
  BY <1>1, FlattenSeqIsLast
<1>3. CASE Len(ss) = 0
  <2>1. FlattenSeq(ss) = <<>> /\ FlattenSeq(tt) = x
    <3>1. ss = <<>>
      BY <1>3, EmptySeq
    <3>2. FlattenSeq(tt) = x
      <4>1. Len(tt) = 1 /\ 1 \in 1 .. Len(tt) /\ tt[1] = x /\ Len(ss) + 1 = 1
        BY <1>1, <1>3
      <4>2. TheFlattening(tt)[1] = x
        BY <4>1, FlatteningStep
      <4> QED  BY <1>2, <4>1, <4>2
    <3> QED  BY <1>3, <3>1, <3>2 DEF FlattenSeq
  <2> QED  BY <2>1, ConcatEmptySeq DEF tt
<1>4. CASE Len(ss) # 0
  <2>1. FlattenSeq(ss) = TheFlattening(ss)[Len(ss)]
    BY <1>4, FlattenSeqIsLast
  <2>2. TheFlattening(ss)[Len(ss)] = TheFlattening(tt)[Len(ss)]
    <3>1. Len(ss) \in 1 .. Len(ss) /\ Len(tt) \in Nat /\ Len(ss) <= Len(tt)
      BY <1>1, <1>4
    <3> QED  BY <1>1, <3>1, FlatteningOfPrefix
  <2>3. /\ Len(ss) + 1 \in 1 .. Len(tt) /\ Len(ss) + 1 # 1 /\ (Len(ss) + 1) - 1 = Len(ss)
        /\ Len(tt) \in Nat
    BY <1>1, <1>4
  <2>4. TheFlattening(tt)[Len(ss) + 1] = TheFlattening(tt)[Len(ss)] \o x
    BY <1>1, <2>3, FlatteningStep
  <2> QED  BY <1>2, <2>1, <2>2, <2>4 DEF tt
<1> QED  BY <1>3, <1>4

(* at[b] says where the element b of the joined sequence f comes from:     *)
(* from which of the first n sequences, and from where in it.              *)
ComesFrom(at, f, ss, n) ==
  /\ \A b \in 1 .. Len(f) :
       /\ at[b][1] \in 1 .. n /\ at[b][2] \in 1 .. Len(ss[at[b][1]])
       /\ f[b] = ss[at[b][1]][at[b][2]]
  /\ \A b, c \in 1 .. Len(f) : at[b][1] = at[c][1] /\ at[b][2] = at[c][2] => b = c

(* If one more sequence is appended, its elements come from it.            *)
LEMMA ConcatComesFrom ==
  ASSUME NEW S, NEW ss \in Seq(Seq(S)), NEW n \in 0 .. Len(ss) - 1, NEW f \in Seq(S),
         NEW at, ComesFrom(at, f, ss, n)
  PROVE  \E new : ComesFrom(new, f \o ss[n + 1], ss, n + 1)
<1> DEFINE x == ss[n + 1]
           new == [b \in 1 .. Len(f) + Len(x) |->
                     IF b <= Len(f) THEN <<at[b][1], at[b][2]>> ELSE <<n + 1, b - Len(f)>>]
<1>1. x \in Seq(S) /\ Len(f) \in Nat /\ Len(x) \in Nat /\ n \in Nat
  BY ElementOfSeq, LenProperties
<1>2. /\ Len(f \o x) = Len(f) + Len(x)
      /\ \A b \in 1 .. Len(f) + Len(x) :
           (f \o x)[b] = IF b <= Len(f) THEN f[b] ELSE x[b - Len(f)]
  BY <1>1, ConcatProperties
<1>3. ASSUME NEW b \in 1 .. Len(f) + Len(x)
      PROVE  \/ /\ b \in 1 .. Len(f)
                /\ new[b][1] = at[b][1] /\ new[b][2] = at[b][2] /\ new[b][1] \in 1 .. n
             \/ /\ b \notin 1 .. Len(f) /\ b - Len(f) \in 1 .. Len(x)
                /\ new[b][1] = n + 1 /\ new[b][2] = b - Len(f)
  BY <1>1 DEF ComesFrom
<1> HIDE DEF new, x
<1>4. ASSUME NEW b \in 1 .. Len(f) + Len(x)
      PROVE  /\ new[b][1] \in 1 .. n + 1 /\ new[b][2] \in 1 .. Len(ss[new[b][1]])
             /\ (f \o x)[b] = ss[new[b][1]][new[b][2]]
  <2>1. CASE b \in 1 .. Len(f)
    <3>1. new[b][1] = at[b][1] /\ new[b][2] = at[b][2] /\ (f \o x)[b] = f[b]
      BY <1>1, <1>2, <1>3, <2>1
    <3> QED  BY <1>1, <2>1, <3>1 DEF ComesFrom
  <2>2. CASE b \notin 1 .. Len(f)
    <3>1. /\ new[b][1] = n + 1 /\ new[b][2] = b - Len(f) /\ b - Len(f) \in 1 .. Len(x)
          /\ (f \o x)[b] = x[b - Len(f)]
      BY <1>1, <1>2, <1>3, <2>2
    <3> QED  BY <1>1, <3>1 DEF x
  <2> QED  BY <2>1, <2>2
<1>5. ASSUME NEW b \in 1 .. Len(f) + Len(x), NEW c \in 1 .. Len(f) + Len(x),
             new[b][1] = new[c][1], new[b][2] = new[c][2]
      PROVE  b = c
  <2>1. CASE b \in 1 .. Len(f) /\ c \in 1 .. Len(f)
    BY <1>3, <1>5, <2>1 DEF ComesFrom
  <2>2. CASE b \notin 1 .. Len(f) /\ c \notin 1 .. Len(f)
    BY <1>1, <1>3, <1>5, <2>2
  <2>3. CASE (b \in 1 .. Len(f)) # (c \in 1 .. Len(f))
    BY <1>1, <1>3, <1>5, <2>3
  <2> QED  BY <2>1, <2>2, <2>3
<1>6. ComesFrom(new, f \o x, ss, n + 1)
  BY <1>2, <1>4, <1>5 DEF ComesFrom
<1> QED  BY <1>6 DEF x

(* Every element of a joined sequence comes from a place of its own.       *)
LEMMA FlattenSeqComesFrom ==
  ASSUME NEW S, NEW ss \in Seq(Seq(S))
  PROVE  /\ FlattenSeq(ss) \in Seq(S)
         /\ \E at : ComesFrom(at, FlattenSeq(ss), ss, Len(ss))
<1> DEFINE flat(n) == TheFlattening(ss)[n]
           T == {n \in Nat : n \in 1 .. Len(ss) =>
                   flat(n) \in Seq(S) /\ \E at : ComesFrom(at, flat(n), ss, n)}
<1>1. Len(ss) \in Nat
  BY LenProperties
<1>2. 0 \in T
  OBVIOUS
<1>3. ASSUME NEW n \in Nat, n \in T
      PROVE  n + 1 \in T
  <2> SUFFICES ASSUME n + 1 \in 1 .. Len(ss)
               PROVE  /\ flat(n + 1) \in Seq(S)
                      /\ \E at : ComesFrom(at, flat(n + 1), ss, n + 1)
    OBVIOUS
  <2>1. ss[n + 1] \in Seq(S)
    BY ElementOfSeq
  <2>2. CASE n = 0
    <3>1. flat(1) = ss[1] /\ ss[1] \in Seq(S)
      BY <1>1, <2>1, <2>2, FlatteningStep
    <3>2. ComesFrom([b \in 1 .. Len(ss[1]) |-> <<1, b>>], ss[1], ss, 1)
      BY <3>1, LenProperties DEF ComesFrom
    <3>3. \E at : ComesFrom(at, ss[1], ss, 1)
      BY <3>2
    <3> HIDE DEF flat
    <3> QED  BY <2>2, <3>1, <3>3
  <2>3. CASE n # 0
    <3>1. flat(n + 1) = flat(n) \o ss[n + 1] /\ n \in 1 .. Len(ss) /\ n \in 0 .. Len(ss) - 1
      <4>1. n + 1 \in 1 .. Len(ss) /\ n + 1 # 1 /\ (n + 1) - 1 = n
        BY <2>3
      <4>2. n \in 1 .. Len(ss) /\ n \in 0 .. Len(ss) - 1
        BY <1>1, <2>3
      <4> QED  BY <1>1, <4>1, <4>2, FlatteningStep
    <3>2. PICK at : ComesFrom(at, flat(n), ss, n) /\ flat(n) \in Seq(S)
      BY <1>3, <3>1
    <3> HIDE DEF flat
    <3>3. \E new : ComesFrom(new, flat(n) \o ss[n + 1], ss, n + 1)
      BY <3>1, <3>2, ConcatComesFrom
    <3> QED  BY <2>1, <3>1, <3>2, <3>3, ConcatProperties
  <2> QED  BY <2>2, <2>3
<1> HIDE DEF T
<1>4. Nat \subseteq T
  BY <1>2, <1>3, NatSetInduction
<1>5. CASE Len(ss) # 0
  BY <1>1, <1>4, <1>5, FlattenSeqIsLast DEF T
<1>6. CASE Len(ss) = 0
  <2>1. ss = <<>> /\ FlattenSeq(ss) = ss
    BY <1>6, EmptySeq DEF FlattenSeq
  <2>2. FlattenSeq(ss) = <<>> /\ Len(FlattenSeq(ss)) = 0
    BY <1>6, <2>1
  <2>3. FlattenSeq(ss) \in Seq(S)
    BY <2>2
  <2>4. ComesFrom(<<>>, FlattenSeq(ss), ss, Len(ss))
    BY <2>2 DEF ComesFrom
  <2> QED  BY <2>3, <2>4
<1> QED  BY <1>5, <1>6
================================================================================
