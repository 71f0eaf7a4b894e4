------------------------------- MODULE SumLemmas -------------------------------
(***************************************************************************)
(* What the proofs need of sums over finite sets: an element can be taken  *)
(* out of a sum, a value in it can be changed, and a sum of bounded values *)
(* is bounded. SumFunctionOnSet of the community modules is a recursive    *)
(* function that takes the elements in an order nobody knows; that it is   *)
(* defined at all, and that the order does not matter, is proved here.     *)
(* Induction is over the subsets of a finite set, with the set of those    *)
(* for which a claim holds in the place of a predicate.                    *)
(***************************************************************************)
EXTENDS Functions, Integers, FiniteSetTheorems, TLAPS

---------------------------------------------------------------------------
(* Induction *)

\* What holds of the empty set, and of a set if it holds of the set without
\* any one of its elements, holds of every subset of a finite set.
LEMMA SubsetInduction ==
  ASSUME NEW S, IsFiniteSet(S), NEW Q, {} \in Q,
         \A T \in SUBSET S : T # {} /\ (\A x \in T : T \ {x} \in Q) => T \in Q
  PROVE  SUBSET S \subseteq Q
<1> DEFINE Bad == {T \in SUBSET S : T \notin Q}
<1> SUFFICES ASSUME Bad # {} PROVE FALSE
  OBVIOUS
<1>1. IsWellFoundedOn(StrictSubsetOrdering(S), SUBSET S)
  BY FS_StrictSubsetOrderingWellFounded, FS_FiniteSubsetsOfFinite
<1>2. PICK T \in Bad : \A U \in Bad : ~(<<U, T>> \in StrictSubsetOrdering(S))
  <2>1. Bad \subseteq SUBSET S
    OBVIOUS
  <2> HIDE DEF Bad
  <2> QED
    BY <1>1, <2>1, WFMin
<1>3. \A x \in T : T \ {x} \in Q
  <2> SUFFICES ASSUME NEW x \in T, T \ {x} \notin Q PROVE FALSE
    OBVIOUS
  <2>1. T \ {x} \in Bad
    OBVIOUS
  <2>2. <<T \ {x}, T>> \in StrictSubsetOrdering(S)
    BY DEF StrictSubsetOrdering
  <2> QED
    BY <1>2, <2>1, <2>2
<1> QED
  BY <1>3

\* Induction on the natural numbers, from the same principle.
LEMMA UpTo ==
  ASSUME NEW Q, 0 \in Q, \A n \in Nat : n \in Q => n + 1 \in Q
  PROVE  Nat \subseteq Q
<1> DEFINE Bad == {n \in Nat : n \notin Q}
<1> SUFFICES ASSUME Bad # {} PROVE FALSE
  OBVIOUS
<1>1. PICK n \in Bad : \A m \in Bad : ~(<<m, n>> \in OpToRel(<, Nat))
  <2>1. Bad \subseteq Nat
    OBVIOUS
  <2> HIDE DEF Bad
  <2> QED
    BY <2>1, WFMin, NatLessThanWellFounded
<1>2. n # 0 /\ n - 1 \in Nat
  OBVIOUS
<1>3. n - 1 \in Bad
  BY <1>2
<1>4. <<n - 1, n>> \in OpToRel(<, Nat)
  BY <1>2 DEF OpToRel
<1> QED
  BY <1>1, <1>3, <1>4

---------------------------------------------------------------------------
(* The recursive function is defined *)

First(T) == CHOOSE x \in T : TRUE

\* The equation of the sum, for the sets in P and their subsets.
Sums(f, P, F) ==
  F = [T \in P |-> IF T = {} THEN 0 ELSE f[First(T)] + F[T \ {First(T)}]]

LEMMA FirstIs ==
  ASSUME NEW T, T # {}
  PROVE  First(T) \in T
  BY DEF First

\* By the number of elements: what is defined for sets of n elements defines
\* the sums of sets of n + 1.
LEMMA SumsExist ==
  ASSUME NEW S, IsFiniteSet(S), NEW f
  PROVE  \E F : Sums(f, SUBSET S, F)
<1> DEFINE Small(n) == {T \in SUBSET S : Cardinality(T) <= n}
           Q == {n \in Nat : \E F : Sums(f, Small(n), F)}
<1>1. ASSUME NEW T \in SUBSET S
      PROVE  /\ IsFiniteSet(T) /\ Cardinality(T) \in Nat
             /\ Cardinality(T) <= Cardinality(S)
             /\ Cardinality(T) = 0 <=> T = {}
             /\ \A x \in T : Cardinality(T \ {x}) = Cardinality(T) - 1
  <2>1. IsFiniteSet(T) /\ Cardinality(T) <= Cardinality(S)
    BY FS_Subset
  <2> QED
    BY <2>1, FS_CardinalityType, FS_EmptySet, FS_RemoveElement
<1>2. 0 \in Q
  <2>1. Small(0) = {{}}
    BY <1>1
  <2>2. Sums(f, {{}}, [T \in {{}} |-> 0])
    BY DEF Sums
  <2> QED
    BY <2>1, <2>2
<1>3. ASSUME NEW n \in Nat, n \in Q PROVE n + 1 \in Q
  <2>1. PICK F : Sums(f, Small(n), F)
    BY <1>3
  <2> DEFINE G == [T \in Small(n + 1) |->
                     IF T = {} THEN 0 ELSE f[First(T)] + F[T \ {First(T)}]]
  <2>2. ASSUME NEW T \in Small(n + 1), T # {}
        PROVE  T \ {First(T)} \in Small(n) /\ T \ {First(T)} \in Small(n + 1)
    BY <1>1, <2>2, FirstIs
  <2>3. ASSUME NEW T \in Small(n) PROVE T \in Small(n + 1) /\ G[T] = F[T]
    <3>1. T \in Small(n + 1)
      BY <1>1
    <3> QED
      BY <2>1, <3>1 DEF Sums
  <2>4. Sums(f, Small(n + 1), G)
    <3> SUFFICES ASSUME NEW T \in Small(n + 1), T # {}
                 PROVE  G[T \ {First(T)}] = F[T \ {First(T)}]
      BY DEF Sums
    <3> QED
      BY <2>2, <2>3
  <2> HIDE DEF G, Small
  <2> QED
    BY <2>4
<1>4. Cardinality(S) \in Q
  <2> HIDE DEF Q
  <2>1. Nat \subseteq Q
    BY <1>2, <1>3, UpTo
  <2> QED
    BY <2>1, FS_CardinalityType
<1>5. Small(Cardinality(S)) = SUBSET S
  BY <1>1
<1> QED
  BY <1>4, <1>5

LEMMA SumIs ==
  ASSUME NEW S, IsFiniteSet(S), NEW f
  PROVE  \E F : Sums(f, SUBSET S, F) /\ SumFunctionOnSet(f, S) = F[S]
<1> DEFINE F == CHOOSE F : Sums(f, SUBSET S, F)
<1>1. Sums(f, SUBSET S, F)
  BY SumsExist
<1>2. SumFunctionOnSet(f, S) = F[S]
  BY DEF SumFunctionOnSet, FoldFunctionOnSet, MapThenFoldSet, First, Sums
<1> QED
  BY <1>1, <1>2

\* It does not matter for which other sets the sums are defined.
LEMMA SumsAgree ==
  ASSUME NEW S, IsFiniteSet(S), NEW f, NEW U, NEW F, NEW G, S \subseteq U,
         Sums(f, SUBSET S, F), Sums(f, SUBSET U, G)
  PROVE  F[S] = G[S]
<1> DEFINE Q == {T \in SUBSET S : F[T] = G[T]}
<1>1. ASSUME NEW T \in SUBSET S, T # {}, \A x \in T : T \ {x} \in Q
      PROVE  T \in Q
  <2>1. F[T] = f[First(T)] + F[T \ {First(T)}]
    BY <1>1 DEF Sums
  <2>2. G[T] = f[First(T)] + G[T \ {First(T)}]
    BY <1>1 DEF Sums
  <2>3. F[T \ {First(T)}] = G[T \ {First(T)}]
    BY <1>1, FirstIs
  <2> QED
    BY <2>1, <2>2, <2>3
<1>2. {} \in Q
  BY DEF Sums
<1>3. S \in Q
  <2> HIDE DEF Q
  <2> QED
    BY <1>1, <1>2, SubsetInduction
<1> QED
  BY <1>3

---------------------------------------------------------------------------
(* Sums *)

LEMMA SumOfNone ==
  ASSUME NEW f
  PROVE  SumFunctionOnSet(f, {}) = 0
  BY SumIs, FS_EmptySet DEF Sums

LEMMA SumOfFirst ==
  ASSUME NEW S, IsFiniteSet(S), S # {}, NEW f
  PROVE  SumFunctionOnSet(f, S) = f[First(S)] + SumFunctionOnSet(f, S \ {First(S)})
<1> DEFINE R == S \ {First(S)}
<1>1. IsFiniteSet(R)
  BY FS_RemoveElement
<1>2. PICK F : Sums(f, SUBSET S, F) /\ SumFunctionOnSet(f, S) = F[S]
  BY SumIs
<1>3. PICK G : Sums(f, SUBSET R, G) /\ SumFunctionOnSet(f, R) = G[R]
  BY <1>1, SumIs
<1>4. F[R] = G[R]
  <2>1. R \subseteq S /\ Sums(f, SUBSET S, F) /\ Sums(f, SUBSET R, G)
    BY <1>2, <1>3
  <2> HIDE DEF R
  <2>2. G[R] = F[R]
    BY <1>1, <2>1, SumsAgree, ZenonT(30)
  <2> QED
    BY <2>2
<1>5. F[S] = f[First(S)] + F[R]
  BY <1>2 DEF Sums
<1> QED
  BY <1>2, <1>3, <1>4, <1>5

LEMMA SumIsInt ==
  ASSUME NEW S, IsFiniteSet(S), NEW f, \A x \in S : f[x] \in Int
  PROVE  SumFunctionOnSet(f, S) \in Int
<1> DEFINE Q == {T \in SUBSET S : SumFunctionOnSet(f, T) \in Int}
<1>1. ASSUME NEW T \in SUBSET S, T # {}, \A x \in T : T \ {x} \in Q
      PROVE  T \in Q
  <2>1. IsFiniteSet(T)
    BY FS_Subset
  <2>2. SumFunctionOnSet(f, T) = f[First(T)] + SumFunctionOnSet(f, T \ {First(T)})
    BY <1>1, <2>1, SumOfFirst
  <2> QED
    BY <1>1, <2>2, FirstIs
<1>2. {} \in Q
  BY SumOfNone
<1>3. S \in Q
  <2> HIDE DEF Q
  <2> QED
    BY <1>1, <1>2, SubsetInduction
<1> QED
  BY <1>3

\* Any element can be taken out of a sum.
LEMMA SumWithout ==
  ASSUME NEW S, IsFiniteSet(S), NEW f, \A x \in S : f[x] \in Int, NEW x \in S
  PROVE  SumFunctionOnSet(f, S) = f[x] + SumFunctionOnSet(f, S \ {x})
<1> DEFINE Sum(T) == SumFunctionOnSet(f, T)
           Q == {T \in SUBSET S : \A y \in T : Sum(T) = f[y] + Sum(T \ {y})}
<1>1. ASSUME NEW T \in SUBSET S PROVE IsFiniteSet(T) /\ Sum(T) \in Int
  BY FS_Subset, SumIsInt
<1>2. ASSUME NEW T \in SUBSET S, T # {}, \A y \in T : T \ {y} \in Q
      PROVE  T \in Q
  <2> DEFINE a == First(T)
  <2>1. a \in T
    BY <1>2, FirstIs
  <2>2. Sum(T) = f[a] + Sum(T \ {a})
    BY <1>1, <1>2, SumOfFirst
  <2> HIDE DEF a
  <2>3. ASSUME NEW y \in T, y # a PROVE Sum(T) = f[y] + Sum(T \ {y})
    <3>1. Sum(T \ {a}) = f[y] + Sum((T \ {a}) \ {y})
      BY <1>2, <2>1, <2>3
    <3>2. Sum(T \ {y}) = f[a] + Sum((T \ {y}) \ {a})
      BY <1>2, <2>1, <2>3
    <3>3. (T \ {a}) \ {y} = (T \ {y}) \ {a}
      OBVIOUS
    <3> DEFINE c == Sum((T \ {a}) \ {y})
    <3>4. f[a] \in Int /\ f[y] \in Int /\ c \in Int
      BY <1>1, <2>1
    <3>5. Sum(T) = f[a] + (f[y] + c)
      BY <2>2, <3>1
    <3>6. Sum(T \ {y}) = f[a] + c
      BY <3>2, <3>3
    <3> HIDE DEF Sum, c
    <3> QED
      BY <3>4, <3>5, <3>6
  <2> QED
    BY <2>2, <2>3
<1>3. {} \in Q
  OBVIOUS
<1>4. S \in Q
  <2> HIDE DEF Q
  <2> QED
    BY <1>2, <1>3, SubsetInduction
<1> QED
  BY <1>4

\* A sum depends on the values in its set, and on nothing else.
LEMMA SumOfSame ==
  ASSUME NEW S, IsFiniteSet(S), NEW f, NEW g, \A x \in S : f[x] = g[x]
  PROVE  SumFunctionOnSet(f, S) = SumFunctionOnSet(g, S)
<1> DEFINE Q == {T \in SUBSET S : SumFunctionOnSet(f, T) = SumFunctionOnSet(g, T)}
<1>1. ASSUME NEW T \in SUBSET S, T # {}, \A x \in T : T \ {x} \in Q
      PROVE  T \in Q
  <2>1. IsFiniteSet(T)
    BY FS_Subset
  <2>2. /\ SumFunctionOnSet(f, T) = f[First(T)] + SumFunctionOnSet(f, T \ {First(T)})
        /\ SumFunctionOnSet(g, T) = g[First(T)] + SumFunctionOnSet(g, T \ {First(T)})
    BY <1>1, <2>1, SumOfFirst
  <2> QED
    BY <1>1, <2>2, FirstIs
<1>2. {} \in Q
  BY SumOfNone
<1>3. S \in Q
  <2> HIDE DEF Q
  <2> QED
    BY <1>1, <1>2, SubsetInduction
<1> QED
  BY <1>3

LEMMA SumWith ==
  ASSUME NEW S, IsFiniteSet(S), NEW f, NEW x, x \notin S, \A y \in S \cup {x} : f[y] \in Int
  PROVE  SumFunctionOnSet(f, S \cup {x}) = f[x] + SumFunctionOnSet(f, S)
<1>1. IsFiniteSet(S \cup {x}) /\ (S \cup {x}) \ {x} = S
  BY FS_AddElement
<1> QED
  BY <1>1, SumWithout

\* One value of a sum is changed.
LEMMA SumOfChanged ==
  ASSUME NEW S, IsFiniteSet(S), NEW f, NEW g, NEW x \in S,
         \A y \in S : f[y] \in Int, g[x] \in Int, \A y \in S \ {x} : g[y] = f[y]
  PROVE  SumFunctionOnSet(g, S) = SumFunctionOnSet(f, S) - f[x] + g[x]
<1>1. IsFiniteSet(S \ {x})
  BY FS_RemoveElement
<1>2. SumFunctionOnSet(f, S) = f[x] + SumFunctionOnSet(f, S \ {x})
  BY SumWithout
<1>3. SumFunctionOnSet(g, S) = g[x] + SumFunctionOnSet(g, S \ {x})
  BY SumWithout
<1>4. SumFunctionOnSet(g, S \ {x}) = SumFunctionOnSet(f, S \ {x})
  BY <1>1, SumOfSame
<1>5. SumFunctionOnSet(f, S \ {x}) \in Int
  BY <1>1, SumIsInt
<1> QED
  BY <1>2, <1>3, <1>4, <1>5

\* Nothing is smaller than nothing, and values of at most k sum up to at most
\* k times the number of those that are not nothing.
LEMMA SumIsBounded ==
  ASSUME NEW S, IsFiniteSet(S), NEW f, NEW k \in Nat, \A x \in S : f[x] \in 0..k
  PROVE  /\ SumFunctionOnSet(f, S) \in Nat
         /\ SumFunctionOnSet(f, S) <= k * Cardinality({x \in S : f[x] > 0})
<1> DEFINE Sum(T) == SumFunctionOnSet(f, T)
           Some(T) == {x \in T : f[x] > 0}
           Q == {T \in SUBSET S : Sum(T) \in Nat /\ Sum(T) <= k * Cardinality(Some(T))}
<1>1. ASSUME NEW T \in SUBSET S
      PROVE  IsFiniteSet(T) /\ IsFiniteSet(Some(T)) /\ Cardinality(Some(T)) \in Nat
  <2>1. IsFiniteSet(T)
    BY FS_Subset
  <2>2. Some(T) \in SUBSET S
    OBVIOUS
  <2>3. IsFiniteSet(Some(T))
    BY <2>2, FS_Subset
  <2> QED
    BY <2>1, <2>3, FS_CardinalityType
<1>2. ASSUME NEW T \in SUBSET S, T # {}, \A x \in T : T \ {x} \in Q
      PROVE  T \in Q
  <2> DEFINE a == First(T)
             R == T \ {a}
             n == Cardinality(Some(R))
  <2>1. a \in T /\ f[a] \in 0..k
    BY <1>2, FirstIs
  <2>2. Sum(T) = f[a] + Sum(R)
    BY <1>1, <1>2, SumOfFirst
  <2>3. Sum(R) \in Nat /\ Sum(R) <= k * n /\ n \in Nat
    BY <1>1, <1>2, <2>1
  <2>4. CASE f[a] = 0
    <3>1. Some(T) = Some(R)
      BY <2>4
    <3> HIDE DEF Sum, Some, n, R, a
    <3>2. Sum(T) = Sum(R)
      BY <2>2, <2>3, <2>4
    <3>3. Cardinality(Some(T)) = n
      BY <3>1 DEF n
    <3> QED
      BY <2>3, <3>2, <3>3
  <2>5. CASE f[a] > 0
    <3>1. Some(T) = Some(R) \cup {a} /\ a \notin Some(R)
      BY <2>1, <2>5
    <3>2. Cardinality(Some(T)) = n + 1
      BY <1>1, <3>1, FS_AddElement
    <3>3. k * (n + 1) = k * n + k
      BY <2>3
    <3> HIDE DEF Sum, Some, n, R, a
    <3> QED
      BY <2>1, <2>2, <2>3, <3>2, <3>3
  <2> QED
    BY <2>1, <2>4, <2>5
<1>3. {} \in Q
  <2>1. Some({}) = {} /\ Cardinality({}) = 0 /\ Sum({}) = 0
    BY SumOfNone, FS_EmptySet
  <2> QED
    BY <2>1
<1>4. S \in Q
  <2> HIDE DEF Q
  <2> QED
    BY <1>2, <1>3, SubsetInduction
<1> QED
  BY <1>4
=============================================================================
