------------------------------ MODULE SumLemmas ------------------------------
(***************************************************************************)
(* Facts about SumFunctionOnSet, the sum of a function over a finite set,  *)
(* which org_config.outstanding_total is in the models: that its recursion *)
(* is well defined, does not depend on the order of the elements, and how  *)
(* a sum changes with its set and its function.                            *)
(*                                                                         *)
(* The induction theorems of the library take an operator; here induction  *)
(* is stated for sets (of the numbers or subsets for which a claim holds), *)
(* and rests on the least element that a set of naturals has.              *)
(***************************************************************************)
EXTENDS Integers, FiniteSets, Functions, FiniteSetTheorems, TLAPS

LEMMA LeastElement ==
    ASSUME NEW T \in SUBSET Nat, T # {}
    PROVE  \E n \in T : \A m \in T : n <= m
  <1> DEFINE less == {p \in Nat \X Nat : p[1] < p[2]}
  <1>1. IsWellFoundedOn(less, Nat)
    BY Zenon, NatLessThanWellFounded DEF OpToRel
  <1>2. \A m, n \in Nat : <<m, n>> \in less <=> m < n
    OBVIOUS
  <1> HIDE DEF less
  <1>3. PICK n \in T : \A m \in T : <<m, n>> \notin less
    BY <1>1, WFMin
  <1>4. ASSUME NEW m \in T PROVE n <= m
    <2>1. m \in Nat /\ n \in Nat /\ ~(m < n)
      BY <1>2, <1>3
    <2> QED
      BY <2>1
  <1> QED
    BY <1>4

LEMMA NaturalInduction ==
    ASSUME NEW T, 0 \in T, \A n \in Nat : n \in T => n + 1 \in T
    PROVE  \A n \in Nat : n \in T
  <1> DEFINE U == Nat \ T
  <1> SUFFICES ASSUME U # {} PROVE FALSE
    OBVIOUS
  <1>1. PICK n \in U : \A m \in U : n <= m
    BY LeastElement
  <1>2. n # 0 /\ n - 1 \in Nat /\ n - 1 \in T
    BY <1>1
  <1> QED
    BY <1>1, <1>2

(* What holds of the empty set, and with one element more, holds of S.     *)
LEMMA SubsetInduction ==
    ASSUME NEW S, IsFiniteSet(S), NEW P,
           {} \in P,
           \A s \in SUBSET S, x \in S : s \in P /\ x \notin s => s \union {x} \in P
    PROVE  S \in P
  <1> DEFINE T == {n \in Nat : \A s \in SUBSET S : Cardinality(s) = n => s \in P}
  <1>1. \A s \in SUBSET S : IsFiniteSet(s) /\ Cardinality(s) \in Nat
    BY FS_Subset, FS_CardinalityType
  <1>2. 0 \in T
    BY <1>1, FS_EmptySet
  <1>3. ASSUME NEW n \in Nat, n \in T PROVE n + 1 \in T
    <2> SUFFICES ASSUME NEW s \in SUBSET S, Cardinality(s) = n + 1 PROVE s \in P
      OBVIOUS
    <2>1. PICK x \in s : TRUE
      BY <1>1, FS_EmptySet
    <2>2. Cardinality(s \ {x}) = n
      <3>1. IsFiniteSet(s)
        BY <1>1
      <3>2. Cardinality(s \ {x}) = Cardinality(s) - 1
        BY <2>1, <3>1, FS_RemoveElement
      <3> QED
        BY <3>2
    <2>3. s \ {x} \in P
      BY <1>3, <2>2
    <2>4. s = (s \ {x}) \union {x}
      BY <2>1
    <2> QED
      BY <2>1, <2>3, <2>4
  <1> HIDE DEF T
  <1>4. \A n \in Nat : n \in T
    BY <1>2, <1>3, NaturalInduction
  <1> QED
    BY <1>1, <1>4 DEF T

(* Among finitely many things with a number each, one has the least.       *)
LEMMA LeastExists ==
    ASSUME NEW S, IsFiniteSet(S), S # {}, NEW key, \A x \in S : key[x] \in Int
    PROVE  \E x \in S : \A y \in S : key[x] <= key[y]
  <1> DEFINE P == {s \in SUBSET S : s # {} => \E x \in s : \A y \in s : key[x] <= key[y]}
  <1>1. {} \in P
    OBVIOUS
  <1>2. ASSUME NEW s \in SUBSET S, NEW x \in S, s \in P, x \notin s
        PROVE  s \union {x} \in P
    <2>1. CASE s = {}
      BY <2>1
    <2>2. CASE s # {}
      <3>1. PICK w \in s : \A y \in s : key[w] <= key[y]
        BY <1>2, <2>2
      <3> DEFINE least == IF key[w] <= key[x] THEN w ELSE x
      <3>2. least \in s \union {x} /\ \A y \in s \union {x} : key[least] <= key[y]
        BY <3>1
      <3> QED
        BY <3>2
    <2> QED
      BY <2>1, <2>2
  <1> HIDE DEF P
  <1>3. S \in P
    BY <1>1, <1>2, SubsetInduction
  <1> QED
    BY <1>3 DEF P

LEMMA GreatestExists ==
    ASSUME NEW S, IsFiniteSet(S), S # {}, NEW key, \A x \in S : key[x] \in Int
    PROVE  \E x \in S : \A y \in S : key[y] <= key[x]
  <1> DEFINE minus == [x \in S |-> -key[x]]
  <1>1. \A x \in S : minus[x] \in Int /\ minus[x] = -key[x]
    OBVIOUS
  <1> HIDE DEF minus
  <1>2. PICK x \in S : \A y \in S : minus[x] <= minus[y]
    BY <1>1, LeastExists
  <1>3. \A y \in S : key[y] <= key[x]
    BY <1>1, <1>2
  <1> QED
    BY <1>3

-----------------------------------------------------------------------------
(* The recursion behind the sum.                                           *)

Chosen(s) == CHOOSE x \in s : TRUE

Recursion(f, g, s) == IF s = {} THEN 0 ELSE f[Chosen(s)] + g[s \ {Chosen(s)}]

LEMMA SumIsChosen ==
    ASSUME NEW f, NEW S
    PROVE  SumFunctionOnSet(f, S) = (CHOOSE g : g = [s \in SUBSET S |-> Recursion(f, g, s)])[S]
  BY Zenon DEF SumFunctionOnSet, FoldFunctionOnSet, MapThenFoldSet, Recursion, Chosen

(* There is a function that satisfies the recursion.                       *)
LEMMA RecursionExists ==
    ASSUME NEW f, NEW S, IsFiniteSet(S)
    PROVE  \E g : g = [s \in SUBSET S |-> Recursion(f, g, s)]
  <1> DEFINE Small(n) == {s \in SUBSET S : Cardinality(s) <= n}
             T == {n \in Nat : \E g : g = [s \in Small(n) |-> Recursion(f, g, s)]}
  <1>1. \A s \in SUBSET S : IsFiniteSet(s) /\ Cardinality(s) \in Nat
    BY FS_Subset, FS_CardinalityType
  <1>2. 0 \in T
    <2>1. Small(0) = {{}}
      BY <1>1, FS_EmptySet
    <2> DEFINE g == [s \in Small(0) |-> 0]
    <2>2. g = [s \in Small(0) |-> Recursion(f, g, s)]
      BY <2>1 DEF Recursion
    <2> QED
      BY <2>2
  <1>3. ASSUME NEW n \in Nat, n \in T PROVE n + 1 \in T
    <2>1. PICK g : g = [s \in Small(n) |-> Recursion(f, g, s)]
      BY <1>3
    <2> DEFINE h == [s \in Small(n + 1) |-> Recursion(f, g, s)]
    <2>2. ASSUME NEW s \in Small(n + 1) PROVE Recursion(f, g, s) = Recursion(f, h, s)
      <3>1. CASE s = {}
        BY <3>1 DEF Recursion
      <3>2. CASE s # {}
        <4> DEFINE r == s \ {Chosen(s)}
        <4>1. Chosen(s) \in s
          BY <3>2 DEF Chosen
        <4>2. Cardinality(r) = Cardinality(s) - 1
          BY <1>1, <4>1, FS_RemoveElement
        <4>3. r \in Small(n) /\ r \in Small(n + 1)
          BY <1>1, <4>2
        <4> HIDE DEF r, Small
        <4>4. g[r] = h[r]
          BY <2>1, <4>3
        <4> QED
          BY <4>4 DEF Recursion, r
      <3> QED
        BY <3>1, <3>2
    <2>3. h = [s \in Small(n + 1) |-> Recursion(f, h, s)]
      BY <2>2
    <2>4. n + 1 \in Nat
      OBVIOUS
    <2> HIDE DEF h, Small
    <2> QED
      BY <2>3, <2>4
  <1> HIDE DEF T
  <1>4. Cardinality(S) \in T
    BY <1>1, <1>2, <1>3, NaturalInduction
  <1>5. Small(Cardinality(S)) = SUBSET S
    BY <1>1, FS_Subset
  <1> QED
    BY <1>4, <1>5 DEF T

Solves(f, g, S) == \A s \in SUBSET S : g[s] = Recursion(f, g, s)

(* All functions that do agree where both are defined.                     *)
LEMMA RecursionUnique ==
    ASSUME NEW f, NEW S, IsFiniteSet(S), NEW R \in SUBSET S,
           NEW g, Solves(f, g, S), NEW h, Solves(f, h, R)
    PROVE  \A s \in SUBSET R : g[s] = h[s]
  <1> DEFINE T == {n \in Nat : \A s \in SUBSET R : Cardinality(s) = n => g[s] = h[s]}
  <1>1. \A s \in SUBSET R : IsFiniteSet(s) /\ Cardinality(s) \in Nat
    BY FS_Subset, FS_CardinalityType
  <1>2. \A s \in SUBSET R : g[s] = Recursion(f, g, s) /\ h[s] = Recursion(f, h, s)
    BY DEF Solves
  <1>3. 0 \in T
    <2>1. \A s \in SUBSET R : Cardinality(s) = 0 => s = {}
      BY <1>1, FS_EmptySet
    <2> QED
      BY <1>2, <2>1 DEF Recursion
  <1>4. ASSUME NEW n \in Nat, n \in T PROVE n + 1 \in T
    <2> SUFFICES ASSUME NEW s \in SUBSET R, Cardinality(s) = n + 1 PROVE g[s] = h[s]
      OBVIOUS
    <2>1. s # {} /\ Chosen(s) \in s
      BY FS_EmptySet DEF Chosen
    <2>2. Cardinality(s \ {Chosen(s)}) = n
      <3>1. IsFiniteSet(s)
        BY <1>1
      <3>2. Cardinality(s \ {Chosen(s)}) = Cardinality(s) - 1
        BY <2>1, <3>1, FS_RemoveElement
      <3> QED
        BY <3>2
    <2>3. g[s \ {Chosen(s)}] = h[s \ {Chosen(s)}]
      BY <1>4, <2>2
    <2>4. s \in SUBSET S
      OBVIOUS
    <2> QED
      BY <1>2, <2>1, <2>3, <2>4 DEF Recursion
  <1> HIDE DEF T
  <1>5. \A n \in Nat : n \in T
    BY <1>3, <1>4, NaturalInduction
  <1> QED
    BY <1>1, <1>5 DEF T

(* The empty sum is zero, and a sum splits off the element it chooses.     *)
LEMMA SumUnfolds ==
    ASSUME NEW f, NEW S, IsFiniteSet(S)
    PROVE  SumFunctionOnSet(f, S) =
             IF S = {} THEN 0
             ELSE f[Chosen(S)] + SumFunctionOnSet(f, S \ {Chosen(S)})
  <1> DEFINE R == S \ {Chosen(S)}
             g == CHOOSE x : x = [s \in SUBSET S |-> Recursion(f, x, s)]
             h == CHOOSE x : x = [s \in SUBSET R |-> Recursion(f, x, s)]
  <1>1. IsFiniteSet(R)
    BY FS_Subset
  <1>2. g = [s \in SUBSET S |-> Recursion(f, g, s)]
    BY RecursionExists
  <1>3. h = [s \in SUBSET R |-> Recursion(f, h, s)]
    BY <1>1, RecursionExists
  <1>4. SumFunctionOnSet(f, S) = g[S] /\ SumFunctionOnSet(f, R) = h[R]
    BY SumIsChosen
  <1> HIDE DEF g, h
  <1>5. g[R] = h[R]
    <2>1. R \in SUBSET S /\ R \in SUBSET R
      OBVIOUS
    <2>2. Solves(f, g, S)
      BY <1>2 DEF Solves
    <2>3. Solves(f, h, R)
      BY <1>3 DEF Solves
    <2> HIDE DEF R
    <2>4. \A s \in SUBSET R : g[s] = h[s]
      BY <2>1, <2>2, <2>3, RecursionUnique
    <2> QED
      BY <2>1, <2>4
  <1>6. g[S] = Recursion(f, g, S)
    BY <1>2
  <1> QED
    BY <1>4, <1>5, <1>6 DEF Recursion

-----------------------------------------------------------------------------
(* Sums.                                                                   *)

LEMMA SumOfNothing ==
    ASSUME NEW f
    PROVE  SumFunctionOnSet(f, {}) = 0
  BY SumUnfolds, FS_EmptySet

LEMMA SumIsInteger ==
    ASSUME NEW S, IsFiniteSet(S), NEW f, \A x \in S : f[x] \in Int
    PROVE  \A s \in SUBSET S : SumFunctionOnSet(f, s) \in Int
  <1> DEFINE T == {n \in Nat : \A s \in SUBSET S :
                     Cardinality(s) = n => SumFunctionOnSet(f, s) \in Int}
  <1>1. \A s \in SUBSET S : IsFiniteSet(s) /\ Cardinality(s) \in Nat
    BY FS_Subset, FS_CardinalityType
  <1>2. 0 \in T
    BY <1>1, FS_EmptySet, SumOfNothing
  <1>3. ASSUME NEW n \in Nat, n \in T PROVE n + 1 \in T
    <2> SUFFICES ASSUME NEW s \in SUBSET S, Cardinality(s) = n + 1
                 PROVE  SumFunctionOnSet(f, s) \in Int
      OBVIOUS
    <2>1. IsFiniteSet(s) /\ s # {}
      BY <1>1, FS_EmptySet
    <2>2. Chosen(s) \in s
      BY <2>1 DEF Chosen
    <2>3. Cardinality(s \ {Chosen(s)}) = Cardinality(s) - 1
      BY <2>1, <2>2, FS_RemoveElement
    <2>4. SumFunctionOnSet(f, s \ {Chosen(s)}) \in Int
      BY <1>3, <2>3
    <2>5. SumFunctionOnSet(f, s) = f[Chosen(s)] + SumFunctionOnSet(f, s \ {Chosen(s)})
      BY <2>1, SumUnfolds
    <2> QED
      BY <2>2, <2>4, <2>5
  <1> HIDE DEF T
  <1>4. \A n \in Nat : n \in T
    BY <1>2, <1>3, NaturalInduction
  <1> QED
    BY <1>1, <1>4 DEF T

(* A sum splits off any of its elements, not only the one it chooses.      *)
LEMMA SumSplits ==
    ASSUME NEW S, IsFiniteSet(S), NEW f, \A x \in S : f[x] \in Int
    PROVE  \A s \in SUBSET S : \A x \in s :
             SumFunctionOnSet(f, s) = f[x] + SumFunctionOnSet(f, s \ {x})
  <1> DEFINE Sum(s) == SumFunctionOnSet(f, s)
             T == {n \in Nat : \A s \in SUBSET S : Cardinality(s) = n =>
                     \A x \in s : Sum(s) = f[x] + Sum(s \ {x})}
  <1>1. \A s \in SUBSET S : IsFiniteSet(s) /\ Cardinality(s) \in Nat
    BY FS_Subset, FS_CardinalityType
  <1>2. 0 \in T
    BY <1>1, FS_EmptySet
  <1>3. ASSUME NEW n \in Nat, n \in T PROVE n + 1 \in T
    <2> SUFFICES ASSUME NEW s \in SUBSET S, Cardinality(s) = n + 1, NEW x \in s
                 PROVE  Sum(s) = f[x] + Sum(s \ {x})
      OBVIOUS
    <2> DEFINE c == Chosen(s)
    <2>1. IsFiniteSet(s) /\ c \in s
      BY <1>1 DEF Chosen
    <2>2. Sum(s) = f[c] + Sum(s \ {c})
      BY <2>1, SumUnfolds
    <2>3. CASE x = c
      BY <2>2, <2>3
    <2>4. CASE x # c
      <3>1. Cardinality(s \ {c}) = n /\ Cardinality(s \ {x}) = n
        <4>1. /\ Cardinality(s \ {c}) = Cardinality(s) - 1
              /\ Cardinality(s \ {x}) = Cardinality(s) - 1
          BY <2>1, FS_RemoveElement
        <4> QED
          BY <4>1
      <3>2. Sum(s \ {c}) = f[x] + Sum((s \ {c}) \ {x})
        BY <1>3, <2>4, <3>1
      <3>3. Sum(s \ {x}) = f[c] + Sum((s \ {x}) \ {c})
        BY <1>3, <2>1, <2>4, <3>1
      <3>4. (s \ {x}) \ {c} = (s \ {c}) \ {x}
        OBVIOUS
      <3>5. Sum((s \ {c}) \ {x}) \in Int
        BY SumIsInteger
      <3>6. f[c] \in Int /\ f[x] \in Int
        BY <2>1
      <3>7. Sum(s) = f[c] + (f[x] + Sum((s \ {c}) \ {x}))
        BY <2>2, <3>2
      <3>8. Sum(s \ {x}) = f[c] + Sum((s \ {c}) \ {x})
        BY <3>3, <3>4
      <3> HIDE DEF c, Sum
      <3> QED
        BY <3>5, <3>6, <3>7, <3>8
    <2> QED
      BY <2>3, <2>4
  <1> HIDE DEF T
  <1>4. \A n \in Nat : n \in T
    BY <1>2, <1>3, NaturalInduction
  <1> QED
    BY <1>1, <1>4 DEF T

(* The sum with one element more.                                          *)
LEMMA SumGrows ==
    ASSUME NEW S, IsFiniteSet(S), NEW f, \A x \in S : f[x] \in Int
    PROVE  \A s \in SUBSET S : \A x \in S \ s :
             SumFunctionOnSet(f, s \union {x}) = f[x] + SumFunctionOnSet(f, s)
  <1> SUFFICES ASSUME NEW s \in SUBSET S, NEW x \in S \ s
               PROVE  SumFunctionOnSet(f, s \union {x}) = f[x] + SumFunctionOnSet(f, s)
    OBVIOUS
  <1>1. s \union {x} \in SUBSET S /\ x \in s \union {x} /\ (s \union {x}) \ {x} = s
    OBVIOUS
  <1> QED
    BY <1>1, SumSplits

(* Functions that agree on a set have the same sum over it.                *)
LEMMA SumsAlike ==
    ASSUME NEW S, IsFiniteSet(S), NEW f, NEW g,
           \A x \in S : f[x] \in Int /\ g[x] = f[x]
    PROVE  SumFunctionOnSet(g, S) = SumFunctionOnSet(f, S)
  <1> DEFINE P == {s \in SUBSET S : SumFunctionOnSet(g, s) = SumFunctionOnSet(f, s)}
  <1>1. {} \in P
    BY SumOfNothing
  <1>2. ASSUME NEW s \in SUBSET S, NEW x \in S, s \in P, x \notin s
        PROVE  s \union {x} \in P
    <2>1. SumFunctionOnSet(f, s \union {x}) = f[x] + SumFunctionOnSet(f, s)
      BY <1>2, SumGrows
    <2>2. SumFunctionOnSet(g, s \union {x}) = g[x] + SumFunctionOnSet(g, s)
      BY <1>2, SumGrows
    <2> QED
      BY <1>2, <2>1, <2>2
  <1> HIDE DEF P
  <1>3. S \in P
    BY <1>1, <1>2, SubsetInduction
  <1> QED
    BY <1>3 DEF P

(* Changing one balance changes the total by the difference.               *)
LEMMA SumUpdates ==
    ASSUME NEW S, IsFiniteSet(S), NEW a \in S, NEW f, NEW g,
           \A x \in S : f[x] \in Int /\ g[x] \in Int,
           \A x \in S \ {a} : g[x] = f[x]
    PROVE  SumFunctionOnSet(g, S) = SumFunctionOnSet(f, S) + (g[a] - f[a])
  <1>1. S \in SUBSET S /\ S \ {a} \in SUBSET S /\ IsFiniteSet(S \ {a})
    BY FS_Subset
  <1>2. SumFunctionOnSet(f, S) = f[a] + SumFunctionOnSet(f, S \ {a})
    BY <1>1, SumSplits
  <1>3. SumFunctionOnSet(g, S) = g[a] + SumFunctionOnSet(g, S \ {a})
    BY <1>1, SumSplits
  <1>4. SumFunctionOnSet(g, S \ {a}) = SumFunctionOnSet(f, S \ {a})
    BY <1>1, SumsAlike
  <1>5. SumFunctionOnSet(f, S \ {a}) \in Int
    BY <1>1, SumIsInteger
  <1> QED
    BY <1>2, <1>3, <1>4, <1>5

(* Leaving members out does not raise the total.                           *)
LEMMA SumShrinks ==
    ASSUME NEW S, IsFiniteSet(S), NEW T \in SUBSET S, NEW f, \A x \in S : f[x] \in Nat
    PROVE  SumFunctionOnSet(f, T) <= SumFunctionOnSet(f, S)
  <1> DEFINE P == {s \in SUBSET (S \ T) :
                     SumFunctionOnSet(f, T) <= SumFunctionOnSet(f, T \union s)}
  <1>1. \A x \in S : f[x] \in Int
    OBVIOUS
  <1>2. {} \in P
    <2>1. SumFunctionOnSet(f, T) \in Int /\ T \union {} = T
      BY <1>1, SumIsInteger
    <2> QED
      BY <2>1
  <1>3. ASSUME NEW s \in SUBSET (S \ T), NEW x \in S \ T, s \in P, x \notin s
        PROVE  s \union {x} \in P
    <2>1. T \union s \in SUBSET S /\ x \in S \ (T \union s)
      BY <1>3
    <2>2. SumFunctionOnSet(f, (T \union s) \union {x}) = f[x] + SumFunctionOnSet(f, T \union s)
      BY <1>1, <2>1, SumGrows
    <2>3. SumFunctionOnSet(f, T \union s) \in Int /\ SumFunctionOnSet(f, T) \in Int
      BY <1>1, <2>1, SumIsInteger
    <2>4. (T \union s) \union {x} = T \union (s \union {x})
      OBVIOUS
    <2>5. SumFunctionOnSet(f, T) <= SumFunctionOnSet(f, T \union (s \union {x}))
      <3>1. f[x] \in Nat /\ SumFunctionOnSet(f, T) <= SumFunctionOnSet(f, T \union s)
        BY <1>3
      <3>2. SumFunctionOnSet(f, T) <= f[x] + SumFunctionOnSet(f, T \union s)
        BY <2>3, <3>1
      <3> QED
        BY <2>2, <2>4, <3>2
    <2> QED
      BY <1>3, <2>5
  <1>4. IsFiniteSet(S \ T)
    BY FS_Subset
  <1> HIDE DEF P
  <1>5. S \ T \in P
    BY <1>2, <1>3, <1>4, SubsetInduction
  <1>6. T \union (S \ T) = S
    OBVIOUS
  <1> QED
    BY <1>5, <1>6 DEF P

(* Granting k for each entry of G raises the total by k for each entry of  *)
(* the members counted.                                                    *)
LEMMA SumGrants ==
    ASSUME NEW S, IsFiniteSet(S), NEW G, IsFiniteSet(G), NEW k \in Nat, NEW f, NEW g,
           \A x \in S : f[x] \in Nat /\ g[x] = f[x] + Cardinality({p \in G : p[1] = x}) * k
    PROVE  SumFunctionOnSet(g, S) =
             SumFunctionOnSet(f, S) + Cardinality({p \in G : p[1] \in S}) * k
  <1> DEFINE Of(x)   == {p \in G : p[1] = x}
             Among(s) == {p \in G : p[1] \in s}
             P == {s \in SUBSET S : SumFunctionOnSet(g, s) =
                     SumFunctionOnSet(f, s) + Cardinality(Among(s)) * k}
  <1>1. /\ \A x : IsFiniteSet(Of(x)) /\ Cardinality(Of(x)) \in Nat
        /\ \A s : IsFiniteSet(Among(s)) /\ Cardinality(Among(s)) \in Nat
    BY FS_Subset, FS_CardinalityType
  <1>2. \A x \in S : f[x] \in Int /\ g[x] \in Int
    <2> SUFFICES ASSUME NEW x \in S PROVE f[x] \in Int /\ g[x] \in Int
      OBVIOUS
    <2>1. f[x] \in Nat /\ g[x] = f[x] + Cardinality(Of(x)) * k /\ Cardinality(Of(x)) \in Nat
      BY <1>1
    <2> QED
      BY <2>1
  <1>3. {} \in P
    <2>1. Among({}) = {} /\ Cardinality({}) = 0
      BY FS_EmptySet
    <2> QED
      BY <2>1, SumOfNothing
  <1>4. ASSUME NEW s \in SUBSET S, NEW x \in S, s \in P, x \notin s
        PROVE  s \union {x} \in P
    <2> DEFINE F == SumFunctionOnSet(f, s)
               n == Cardinality(Among(s))
               m == Cardinality(Of(x))
    <2>1. SumFunctionOnSet(f, s \union {x}) = f[x] + F
      BY <1>2, <1>4, SumGrows
    <2>2. SumFunctionOnSet(g, s \union {x}) = g[x] + SumFunctionOnSet(g, s)
      BY <1>2, <1>4, SumGrows
    <2>3. Cardinality(Among(s \union {x})) = n + m
      <3>1. /\ Among(s \union {x}) = Among(s) \union Of(x)
            /\ Among(s) \intersect Of(x) = {}
        BY <1>4
      <3>2. IsFiniteSet(Among(s)) /\ IsFiniteSet(Of(x)) /\ n \in Nat /\ m \in Nat
        BY <1>1
      <3> HIDE DEF Among, Of
      <3>3. Cardinality(Among(s) \union Of(x)) = n + m - Cardinality(Among(s) \intersect Of(x))
        BY <3>2, FS_Union
      <3>4. Cardinality(Among(s) \intersect Of(x)) = 0
        BY <3>1, FS_EmptySet
      <3>5. Cardinality(Among(s \union {x})) = Cardinality(Among(s) \union Of(x))
        BY ONLY <3>1
      <3> HIDE DEF n, m
      <3> QED
        BY <3>2, <3>3, <3>4, <3>5
    <2>4. F \in Int /\ n \in Nat /\ m \in Nat /\ f[x] \in Nat
      BY <1>1, <1>2, SumIsInteger
    <2>5. SumFunctionOnSet(g, s) = F + n * k /\ g[x] = f[x] + m * k
      BY <1>4
    <2> HIDE DEF F, n, m
    <2>6. SumFunctionOnSet(g, s \union {x}) = SumFunctionOnSet(f, s \union {x}) + (n + m) * k
      BY <2>1, <2>2, <2>4, <2>5
    <2> QED
      BY <2>3, <2>6
  <1> HIDE DEF P
  <1>5. S \in P
    BY <1>3, <1>4, SubsetInduction
  <1> QED
    BY <1>5 DEF P

(* A sum over a set is that over a part of it and that over the rest.      *)
LEMMA SumOfParts ==
    ASSUME NEW S, IsFiniteSet(S), NEW T \in SUBSET S, NEW f, \A x \in S : f[x] \in Int
    PROVE  SumFunctionOnSet(f, S) = SumFunctionOnSet(f, T) + SumFunctionOnSet(f, S \ T)
  <1> DEFINE P == {s \in SUBSET (S \ T) : SumFunctionOnSet(f, T \union s) =
                     SumFunctionOnSet(f, T) + SumFunctionOnSet(f, s)}
  <1>1. {} \in P
    <2>1. SumFunctionOnSet(f, T) \in Int /\ T \union {} = T
      BY SumIsInteger
    <2> QED
      BY <2>1, SumOfNothing
  <1>2. ASSUME NEW s \in SUBSET (S \ T), NEW x \in S \ T, s \in P, x \notin s
        PROVE  s \union {x} \in P
    <2>1. T \union s \in SUBSET S /\ s \in SUBSET S /\ x \in S \ s /\ x \notin T
      BY <1>2
    <2>2. SumFunctionOnSet(f, (T \union s) \union {x}) = f[x] + SumFunctionOnSet(f, T \union s)
      <3> DEFINE U == T \union s
      <3>1. U \in SUBSET S /\ x \in S \ U
        BY <2>1
      <3> HIDE DEF U, P
      <3>2. SumFunctionOnSet(f, U \union {x}) = f[x] + SumFunctionOnSet(f, U)
        BY <3>1, SumGrows
      <3> QED
        BY <3>2 DEF U
    <2>3. SumFunctionOnSet(f, s \union {x}) = f[x] + SumFunctionOnSet(f, s)
      BY <2>1, SumGrows
    <2>4. SumFunctionOnSet(f, s) \in Int /\ SumFunctionOnSet(f, T) \in Int /\ f[x] \in Int
      BY <2>1, SumIsInteger
    <2>5. (T \union s) \union {x} = T \union (s \union {x})
      OBVIOUS
    <2>6. SumFunctionOnSet(f, T \union (s \union {x})) =
            SumFunctionOnSet(f, T) + SumFunctionOnSet(f, s \union {x})
      <3>1. SumFunctionOnSet(f, T \union s) =
              SumFunctionOnSet(f, T) + SumFunctionOnSet(f, s)
        BY <1>2
      <3>2. SumFunctionOnSet(f, T \union (s \union {x})) = f[x] + SumFunctionOnSet(f, T \union s)
        BY <2>2, <2>5
      <3> DEFINE all == SumFunctionOnSet(f, T \union (s \union {x}))
                 one == SumFunctionOnSet(f, s \union {x})
      <3>3. all = f[x] + SumFunctionOnSet(f, T \union s) /\ one = f[x] + SumFunctionOnSet(f, s)
        BY <2>3, <3>2
      <3> HIDE DEF P, all, one
      <3>4. all = SumFunctionOnSet(f, T) + one
        BY <2>4, <3>1, <3>3
      <3> QED
        BY <3>4 DEF all, one
    <2> QED
      BY <1>2, <2>6
  <1>3. IsFiniteSet(S \ T)
    BY FS_Subset
  <1> HIDE DEF P
  <1>4. S \ T \in P
    BY <1>1, <1>2, <1>3, SubsetInduction
  <1>5. T \union (S \ T) = S
    OBVIOUS
  <1> QED
    BY <1>4, <1>5 DEF P

(* A sum of naturals is one, and positive only if one of them is.          *)
LEMMA SumIsNatural ==
    ASSUME NEW S, IsFiniteSet(S), NEW f, \A x \in S : f[x] \in Nat
    PROVE  \A T \in SUBSET S :
             /\ SumFunctionOnSet(f, T) \in Nat
             /\ SumFunctionOnSet(f, T) > 0 => \E x \in T : f[x] > 0
  <1> DEFINE P == {T \in SUBSET S : SumFunctionOnSet(f, T) \in Nat}
  <1> SUFFICES ASSUME NEW T \in SUBSET S
               PROVE  /\ SumFunctionOnSet(f, T) \in Nat
                      /\ SumFunctionOnSet(f, T) > 0 => \E x \in T : f[x] > 0
    OBVIOUS
  <1>1. IsFiniteSet(T) /\ \A x \in T : f[x] \in Int /\ f[x] \in Nat
    BY FS_Subset
  <1>2. SumFunctionOnSet(f, T) \in Int
    BY <1>1, SumIsInteger
  <1>3. SumFunctionOnSet(f, {}) <= SumFunctionOnSet(f, T)
    <2>1. {} \in SUBSET T
      OBVIOUS
    <2> QED
      BY <1>1, <2>1, SumShrinks
  <1>4. ASSUME \A x \in T : f[x] = 0 PROVE SumFunctionOnSet(f, T) = 0
    <2> DEFINE Q == {s \in SUBSET T : SumFunctionOnSet(f, s) = 0}
    <2>1. {} \in Q
      BY SumOfNothing
    <2>2. ASSUME NEW s \in SUBSET T, NEW x \in T, s \in Q, x \notin s
          PROVE  s \union {x} \in Q
      <3>1. SumFunctionOnSet(f, s \union {x}) = f[x] + SumFunctionOnSet(f, s)
        BY <1>1, <2>2, SumGrows
      <3> QED
        BY <1>4, <2>2, <3>1
    <2> HIDE DEF Q
    <2>3. T \in Q
      BY <1>1, <2>1, <2>2, SubsetInduction
    <2> QED
      BY <2>3 DEF Q
  <1> QED
    BY <1>1, <1>2, <1>3, <1>4, SumOfNothing

(* A sum of ones counts.                                                   *)
LEMMA SumOfOnes ==
    ASSUME NEW S, IsFiniteSet(S), NEW f, \A x \in S : f[x] = 1
    PROVE  SumFunctionOnSet(f, S) = Cardinality(S)
  <1> DEFINE P == {s \in SUBSET S : SumFunctionOnSet(f, s) = Cardinality(s)}
  <1>1. {} \in P
    BY SumOfNothing, FS_EmptySet
  <1>2. ASSUME NEW s \in SUBSET S, NEW x \in S, s \in P, x \notin s
        PROVE  s \union {x} \in P
    <2>1. \A y \in S : f[y] \in Int
      OBVIOUS
    <2>2. SumFunctionOnSet(f, s \union {x}) = f[x] + SumFunctionOnSet(f, s)
      BY <1>2, <2>1, SumGrows
    <2>3. IsFiniteSet(s) /\ Cardinality(s) \in Nat
      BY FS_Subset, FS_CardinalityType
    <2>4. Cardinality(s \union {x}) = Cardinality(s) + 1
      BY <1>2, <2>3, FS_AddElement
    <2> QED
      BY <1>2, <2>2, <2>3, <2>4
  <1> HIDE DEF P
  <1>3. S \in P
    BY <1>1, <1>2, SubsetInduction
  <1> QED
    BY <1>3 DEF P
=============================================================================
