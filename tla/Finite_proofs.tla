----------------------------- MODULE Finite_proofs ---------------------------
(***************************************************************************)
(* What the sums and maxima of the models are, for every finite set.       *)
(* SumFunctionOnSet is a fold, that is, a recursive function on the        *)
(* subsets of its set; it is shown here to have the values it is meant to  *)
(* have, by a well-founded minimum in the place of induction.              *)
(***************************************************************************)
EXTENDS Integers, FiniteSets, Functions, FiniteSetTheorems, WellFoundedInduction, TLAPS

(* Induction over the subsets of a finite set. *)
LEMMA SetInduction ==
    ASSUME NEW S, IsFiniteSet(S), NEW G,
           \A T \in SUBSET S : (\A x \in T : T \ {x} \in G) => T \in G
    PROVE  S \in G
<1> DEFINE Bad == {T \in SUBSET S : T \notin G}
<1>1. SUFFICES ASSUME Bad # {} PROVE FALSE
  OBVIOUS
<1>2. IsWellFoundedOn(StrictSubsetOrdering(S), SUBSET S)
  BY FS_StrictSubsetOrderingWellFounded, FS_FiniteSubsetsOfFinite
<1>3. PICK T \in Bad : \A U \in Bad : ~(<<U, T>> \in StrictSubsetOrdering(S))
  <2> HIDE DEF Bad
  <2>1. Bad \subseteq SUBSET S
    BY DEF Bad
  <2> QED BY <1>1, <1>2, <2>1, WFMin
<1>4. PICK x \in T : T \ {x} \notin G
  OBVIOUS
<1>5. T \ {x} \in Bad
  BY <1>4
<1>6. <<T \ {x}, T>> \in StrictSubsetOrdering(S)
  BY <1>4 DEF StrictSubsetOrdering
<1> QED BY <1>3, <1>5, <1>6

(* Induction over the naturals. *)
LEMMA Counting ==
    ASSUME NEW G, 0 \in G, \A n \in Nat : n \in G => n + 1 \in G
    PROVE  \A n \in Nat : n \in G
<1> DEFINE Bad == {n \in Nat : n \notin G}
<1>1. SUFFICES ASSUME Bad # {} PROVE FALSE
  OBVIOUS
<1>2. PICK n \in Bad : \A m \in Bad : ~(<<m, n>> \in OpToRel(<, Nat))
  <2> HIDE DEF Bad
  <2>1. Bad \subseteq Nat
    BY DEF Bad
  <2> QED BY <1>1, <2>1, NatLessThanWellFounded, WFMin
<1>3. n # 0 /\ n - 1 \in Nat /\ (n - 1) + 1 = n
  OBVIOUS
<1>4. n - 1 \in Bad
  BY <1>3
<1>5. <<n - 1, n>> \in OpToRel(<, Nat)
  BY <1>3 DEF OpToRel
<1> QED BY <1>2, <1>4, <1>5

Pick(s) == CHOOSE x \in s : TRUE

(* g is the recursive function of the fold on the sets in D. *)
Sums(f, D, g) == g = [s \in D |-> IF s = {} THEN 0 ELSE f[Pick(s)] + g[s \ {Pick(s)}]]

LEMMA SumsAt ==
    ASSUME NEW f, NEW D, NEW k, Sums(f, D, k), NEW U \in D
    PROVE  k[U] = IF U = {} THEN 0 ELSE f[Pick(U)] + k[U \ {Pick(U)}]
<1> DEFINE e == [s \in D |-> IF s = {} THEN 0 ELSE f[Pick(s)] + k[s \ {Pick(s)}]]
<1>1. k = e
  BY DEF Sums
<1>2. e[U] = IF U = {} THEN 0 ELSE f[Pick(U)] + k[U \ {Pick(U)}]
  OBVIOUS
<1> HIDE DEF e
<1> QED BY <1>1, <1>2

(* The recursive function exists: it is built up by the size of the sets. *)
LEMMA SumsExist ==
    ASSUME NEW S, IsFiniteSet(S), NEW f
    PROVE  \E g : Sums(f, SUBSET S, g)
<1> DEFINE Upto(n) == {s \in SUBSET S : Cardinality(s) <= n}
           Good == {n \in Nat : \E g : Sums(f, Upto(n), g)}
<1>1. \A s \in SUBSET S : IsFiniteSet(s) /\ Cardinality(s) \in Nat
  BY FS_Subset, FS_CardinalityType
<1>2. 0 \in Good
  <2> DEFINE g == [s \in Upto(0) |-> 0]
  <2>1. \A s \in Upto(0) : s = {}
    BY <1>1, FS_EmptySet
  <2>2. Sums(f, Upto(0), g)
    BY <2>1 DEF Sums
  <2> QED BY <2>2
<1>3. ASSUME NEW n \in Nat, n \in Good PROVE n + 1 \in Good
  <2>1. PICK g : Sums(f, Upto(n), g)
    BY <1>3
  <2> DEFINE h == [s \in Upto(n + 1) |-> IF s = {} THEN 0 ELSE f[Pick(s)] + g[s \ {Pick(s)}]]
  <2>2. ASSUME NEW s \in Upto(n + 1), s # {} PROVE s \ {Pick(s)} \in Upto(n)
    <3>1. Pick(s) \in s
      BY <2>2 DEF Pick
    <3>2. Cardinality(s \ {Pick(s)}) = Cardinality(s) - 1
      BY <1>1, <3>1, FS_RemoveElement
    <3> QED BY <1>1, <3>2
  <2>3. Upto(n) \subseteq Upto(n + 1)
    BY <1>1
  <2>4. ASSUME NEW s \in Upto(n) PROVE h[s] = g[s]
    <3>1. g[s] = IF s = {} THEN 0 ELSE f[Pick(s)] + g[s \ {Pick(s)}]
      <4> HIDE DEF Upto, h
      <4> QED BY <2>1, SumsAt
    <3> QED BY <2>3, <3>1
  <2>5. Sums(f, Upto(n + 1), h)
    <3>1. \A s \in Upto(n + 1) : s # {} => h[s \ {Pick(s)}] = g[s \ {Pick(s)}]
      <4> HIDE DEF h, Upto
      <4> QED BY <2>2, <2>4
    <3> HIDE DEF Upto
    <3> QED BY <3>1 DEF Sums
  <2> HIDE DEF h, Upto
  <2> QED BY <2>5
<1>4. Cardinality(S) \in Good
  <2> HIDE DEF Good
  <2> QED BY <1>1, <1>2, <1>3, Counting
<1>5. Upto(Cardinality(S)) = SUBSET S
  BY FS_Subset
<1> QED BY <1>4, <1>5

(* So the sum is the one the fold describes. *)
LEMMA SumPicked ==
    ASSUME NEW S, IsFiniteSet(S), NEW f
    PROVE  \E g : /\ Sums(f, SUBSET S, g)
                  /\ SumFunctionOnSet(f, S) = g[S]
<1> DEFINE iter == CHOOSE g : Sums(f, SUBSET S, g)
<1>1. Sums(f, SUBSET S, iter)
  BY SumsExist, Zenon
<1>2. SumFunctionOnSet(f, S) = iter[S]
  BY DEF SumFunctionOnSet, FoldFunctionOnSet, MapThenFoldSet, Sums, Pick
<1> QED BY <1>1, <1>2

(* Two such functions agree where both are defined. *)
LEMMA SumsAgree ==
    ASSUME NEW S, IsFiniteSet(S), NEW T \in SUBSET S, NEW f, NEW g, NEW h,
           Sums(f, SUBSET S, g), Sums(f, SUBSET T, h)
    PROVE  g[T] = h[T]
<1> DEFINE Good == {U \in SUBSET T : g[U] = h[U]}
<1>2. ASSUME NEW U \in SUBSET T, \A x \in U : U \ {x} \in Good PROVE U \in Good
  <2>1. U # {} => Pick(U) \in U
    BY DEF Pick
  <2>2. U # {} => g[U \ {Pick(U)}] = h[U \ {Pick(U)}]
    BY <1>2, <2>1
  <2>3. g[U] = IF U = {} THEN 0 ELSE f[Pick(U)] + g[U \ {Pick(U)}]
    <3>1. U \in SUBSET S
      OBVIOUS
    <3> QED BY <3>1, SumsAt
  <2>4. h[U] = IF U = {} THEN 0 ELSE f[Pick(U)] + h[U \ {Pick(U)}]
    BY SumsAt
  <2> QED BY <2>2, <2>3, <2>4
<1>3. T \in Good
  <2> HIDE DEF Good
  <2>1. IsFiniteSet(T)
    BY FS_Subset
  <2> QED BY <1>2, <2>1, SetInduction
<1> QED BY <1>3

LEMMA SumEmpty == \A f : SumFunctionOnSet(f, {}) = 0
<1> TAKE f
<1>1. PICK g : Sums(f, SUBSET {}, g) /\ SumFunctionOnSet(f, {}) = g[{}]
  BY FS_EmptySet, SumPicked
<1>2. {} \in SUBSET {}
  OBVIOUS
<1>3. g[{}] = 0
  BY <1>1, <1>2, SumsAt
<1> QED BY <1>1, <1>3

LEMMA SumPick ==
    ASSUME NEW S, IsFiniteSet(S), S # {}, NEW f
    PROVE  /\ Pick(S) \in S
           /\ SumFunctionOnSet(f, S) = f[Pick(S)] + SumFunctionOnSet(f, S \ {Pick(S)})
<1> DEFINE T == S \ {Pick(S)}
<1>1. PICK g : Sums(f, SUBSET S, g) /\ SumFunctionOnSet(f, S) = g[S]
  BY SumPicked
<1>2. IsFiniteSet(T) /\ T \in SUBSET S
  BY FS_Subset
<1> HIDE DEF T
<1>3. PICK h : Sums(f, SUBSET T, h) /\ SumFunctionOnSet(f, T) = h[T]
  BY <1>2, SumPicked
<1>4. g[T] = h[T]
  BY <1>1, <1>2, <1>3, SumsAgree
<1>5. g[S] = f[Pick(S)] + g[T]
  BY <1>1, SumsAt DEF T
<1>6. Pick(S) \in S
  BY DEF Pick
<1> QED BY <1>1, <1>3, <1>4, <1>5, <1>6 DEF T

(* A sum of integers is an integer. *)
LEMMA SumType ==
    ASSUME NEW S, IsFiniteSet(S), NEW f, \A x \in S : f[x] \in Int
    PROVE  SumFunctionOnSet(f, S) \in Int
<1> DEFINE Good == {T \in SUBSET S : SumFunctionOnSet(f, T) \in Int}
<1>1. ASSUME NEW T \in SUBSET S, \A x \in T : T \ {x} \in Good PROVE T \in Good
  <2>1. CASE T = {}
    BY <2>1, SumEmpty
  <2>2. CASE T # {}
    <3>1. IsFiniteSet(T)
      BY FS_Subset
    <3>2. /\ Pick(T) \in T
          /\ SumFunctionOnSet(f, T) = f[Pick(T)] + SumFunctionOnSet(f, T \ {Pick(T)})
      BY <2>2, <3>1, SumPick
    <3> QED BY <1>1, <3>2
  <2> QED BY <2>1, <2>2
<1>2. S \in Good
  <2> HIDE DEF Good
  <2> QED BY <1>1, SetInduction
<1> QED BY <1>2

(* Any element may be taken out first. *)
LEMMA SumRemove ==
    ASSUME NEW S, IsFiniteSet(S), NEW f, \A x \in S : f[x] \in Int, NEW y \in S
    PROVE  SumFunctionOnSet(f, S) = f[y] + SumFunctionOnSet(f, S \ {y})
<1> DEFINE Sum(T) == SumFunctionOnSet(f, T)
           Good == {T \in SUBSET S : \A x \in T : Sum(T) = f[x] + Sum(T \ {x})}
<1>1. ASSUME NEW T \in SUBSET S, \A x \in T : T \ {x} \in Good PROVE T \in Good
  <2> SUFFICES ASSUME NEW x \in T PROVE Sum(T) = f[x] + Sum(T \ {x})
    OBVIOUS
  <2> DEFINE p == Pick(T)
             R == T \ {p, x}
  <2>1. IsFiniteSet(T)
    BY FS_Subset
  <2>2. p \in T /\ Sum(T) = f[p] + Sum(T \ {p})
    BY <2>1, SumPick
  <2>3. CASE p = x
    BY <2>2, <2>3
  <2>4. CASE p # x
    <3>1. Sum(T \ {p}) = f[x] + Sum(R)
      <4>1. (T \ {p}) \ {x} = R /\ x \in T \ {p} /\ T \ {p} \in Good
        BY <1>1, <2>2, <2>4
      <4> HIDE DEF p, R, Sum
      <4> QED BY <4>1
    <3>2. Sum(T \ {x}) = f[p] + Sum(R)
      <4>1. (T \ {x}) \ {p} = R /\ p \in T \ {x} /\ T \ {x} \in Good
        BY <1>1, <2>2, <2>4
      <4> HIDE DEF p, R, Sum
      <4> QED BY <4>1
    <3>3. f[p] \in Int /\ f[x] \in Int /\ Sum(R) \in Int
      <4>1. IsFiniteSet(R) /\ \A z \in R : f[z] \in Int
        BY <2>1, FS_Subset
      <4>2. Sum(R) \in Int
        <5> HIDE DEF R
        <5> QED BY <4>1, SumType
      <4> HIDE DEF p, R, Sum
      <4> QED BY <4>2, <2>2
    <3> HIDE DEF p, R, Sum
    <3> QED BY <2>2, <3>1, <3>2, <3>3
  <2> QED BY <2>3, <2>4
<1>2. S \in Good
  <2> HIDE DEF Good
  <2> QED BY <1>1, SetInduction
<1> QED BY <1>2

LEMMA SumAdd ==
    ASSUME NEW S, IsFiniteSet(S), NEW f, NEW y, y \notin S,
           \A x \in S \cup {y} : f[x] \in Int
    PROVE  SumFunctionOnSet(f, S \cup {y}) = f[y] + SumFunctionOnSet(f, S)
<1>1. IsFiniteSet(S \cup {y}) /\ (S \cup {y}) \ {y} = S
  BY FS_AddElement
<1> DEFINE T == S \cup {y}
<1>2. T \ {y} = S /\ y \in T /\ IsFiniteSet(T) /\ \A x \in T : f[x] \in Int
  BY <1>1
<1> HIDE DEF T
<1>3. SumFunctionOnSet(f, T) = f[y] + SumFunctionOnSet(f, T \ {y})
  BY <1>2, SumRemove
<1> QED BY <1>2, <1>3 DEF T

(* Only the values on the set count. *)
LEMMA SumSame ==
    ASSUME NEW S, IsFiniteSet(S), NEW f, NEW g, \A x \in S : f[x] = g[x]
    PROVE  SumFunctionOnSet(f, S) = SumFunctionOnSet(g, S)
<1> DEFINE Good == {T \in SUBSET S : SumFunctionOnSet(f, T) = SumFunctionOnSet(g, T)}
<1>1. ASSUME NEW T \in SUBSET S, \A x \in T : T \ {x} \in Good PROVE T \in Good
  <2>1. CASE T = {}
    BY <2>1, SumEmpty
  <2>2. CASE T # {}
    <3>1. IsFiniteSet(T)
      BY FS_Subset
    <3>2. /\ Pick(T) \in T
          /\ SumFunctionOnSet(f, T) = f[Pick(T)] + SumFunctionOnSet(f, T \ {Pick(T)})
          /\ SumFunctionOnSet(g, T) = g[Pick(T)] + SumFunctionOnSet(g, T \ {Pick(T)})
      BY <2>2, <3>1, SumPick
    <3> QED BY <1>1, <3>2
  <2> QED BY <2>1, <2>2
<1>2. S \in Good
  <2> HIDE DEF Good
  <2> QED BY <1>1, SetInduction
<1> QED BY <1>2

(* A function changed at one element. *)
LEMMA SumChange ==
    ASSUME NEW S, IsFiniteSet(S), NEW y \in S, NEW f, NEW g,
           \A x \in S : f[x] \in Int /\ g[x] \in Int,
           \A x \in S \ {y} : g[x] = f[x]
    PROVE  SumFunctionOnSet(g, S) = (SumFunctionOnSet(f, S) - f[y]) + g[y]
<1> DEFINE T == S \ {y}
<1>1. IsFiniteSet(T) /\ \A x \in T : g[x] = f[x] /\ f[x] \in Int
  BY FS_Subset
<1> HIDE DEF T
<1>2. SumFunctionOnSet(g, T) = SumFunctionOnSet(f, T) /\ SumFunctionOnSet(f, T) \in Int
  BY <1>1, SumSame, SumType
<1>3. SumFunctionOnSet(g, S) = g[y] + SumFunctionOnSet(g, T)
  BY SumRemove DEF T
<1>4. SumFunctionOnSet(f, S) = f[y] + SumFunctionOnSet(f, T)
  BY SumRemove DEF T
<1> QED BY <1>2, <1>3, <1>4

(* A sum of naturals is a natural number. *)
LEMMA SumNat ==
    ASSUME NEW S, IsFiniteSet(S), NEW f, \A x \in S : f[x] \in Nat
    PROVE  SumFunctionOnSet(f, S) \in Nat
<1> DEFINE Good == {T \in SUBSET S : SumFunctionOnSet(f, T) \in Nat}
<1>1. ASSUME NEW T \in SUBSET S, \A x \in T : T \ {x} \in Good PROVE T \in Good
  <2>1. CASE T = {}
    BY <2>1, SumEmpty
  <2>2. CASE T # {}
    <3>1. IsFiniteSet(T)
      BY FS_Subset
    <3>2. /\ Pick(T) \in T
          /\ SumFunctionOnSet(f, T) = f[Pick(T)] + SumFunctionOnSet(f, T \ {Pick(T)})
      BY <2>2, <3>1, SumPick
    <3> QED BY <1>1, <3>2
  <2> QED BY <2>1, <2>2
<1>2. S \in Good
  <2> HIDE DEF Good
  <2> QED BY <1>1, SetInduction
<1> QED BY <1>2

(* A sum of nothing but zeros is zero. *)
LEMMA SumZero ==
    ASSUME NEW S, IsFiniteSet(S), NEW f, \A x \in S : f[x] = 0
    PROVE  SumFunctionOnSet(f, S) = 0
<1> DEFINE Good == {T \in SUBSET S : SumFunctionOnSet(f, T) = 0}
<1>1. ASSUME NEW T \in SUBSET S, \A x \in T : T \ {x} \in Good PROVE T \in Good
  <2>1. CASE T = {}
    BY <2>1, SumEmpty
  <2>2. CASE T # {}
    <3>1. IsFiniteSet(T)
      BY FS_Subset
    <3>2. /\ Pick(T) \in T
          /\ SumFunctionOnSet(f, T) = f[Pick(T)] + SumFunctionOnSet(f, T \ {Pick(T)})
      BY <2>2, <3>1, SumPick
    <3> QED BY <1>1, <3>2
  <2> QED BY <2>1, <2>2
<1>2. S \in Good
  <2> HIDE DEF Good
  <2> QED BY <1>1, SetInduction
<1> QED BY <1>2

(* What moves from one entry to another leaves the sum alone. *)
LEMMA SumMoved ==
    ASSUME NEW S, IsFiniteSet(S), NEW f, NEW from \in S, NEW to \in S, NEW n \in Int,
           \A x \in S : f[x] \in Int,
           NEW g, \A x \in S : g[x] = f[x] - (IF x = from THEN n ELSE 0) + (IF x = to THEN n ELSE 0)
    PROVE  SumFunctionOnSet(g, S) = SumFunctionOnSet(f, S)
<1> DEFINE e == [x \in S |-> f[x] - (IF x = from THEN n ELSE 0)]
<1>1. /\ \A x \in S : e[x] \in Int /\ e[x] = f[x] - (IF x = from THEN n ELSE 0)
      /\ \A x \in S : g[x] \in Int /\ g[x] = e[x] + (IF x = to THEN n ELSE 0)
  OBVIOUS
<1> HIDE DEF e
<1>2. SumFunctionOnSet(e, S) = (SumFunctionOnSet(f, S) - f[from]) + e[from]
  <2>1. \A x \in S \ {from} : e[x] = f[x]
    BY <1>1
  <2> QED BY <1>1, <2>1, SumChange
<1>3. SumFunctionOnSet(g, S) = (SumFunctionOnSet(e, S) - e[to]) + g[to]
  <2>1. \A x \in S \ {to} : g[x] = e[x]
    BY <1>1
  <2> QED BY <1>1, <2>1, SumChange
<1>4. SumFunctionOnSet(f, S) \in Int
  BY SumType
<1> QED BY <1>1, <1>2, <1>3, <1>4
-----------------------------------------------------------------------------
(* The image of a finite set under a function is finite. *)
LEMMA ImageFinite ==
    ASSUME NEW S, IsFiniteSet(S), NEW f
    PROVE  IsFiniteSet({f[x] : x \in S})
<1> DEFINE T == {f[x] : x \in S}
           g == [x \in S |-> f[x]]
<1>1. g \in Surjection(S, T)
  BY DEF Surjection
<1> HIDE DEF g, T
<1>2. IsFiniteSet(T)
  BY <1>1, FS_Surjection
<1> QED BY <1>2 DEF T

(* A finite set of integers has a greatest element. *)
LEMMA GreatestExists ==
    ASSUME NEW S, IsFiniteSet(S), S \subseteq Int, S # {}
    PROVE  \E m \in S : \A y \in S : m >= y
<1> DEFINE Good == {T \in SUBSET S : T = {} \/ \E m \in T : \A y \in T : m >= y}
<1>1. ASSUME NEW T \in SUBSET S, \A x \in T : T \ {x} \in Good PROVE T \in Good
  <2>1. CASE T = {}
    BY <2>1
  <2>2. CASE T # {}
    <3>1. PICK x \in T : TRUE
      BY <2>2
    <3>2. T \ {x} \in Good
      BY <1>1
    <3>3. CASE T \ {x} = {}
      <4>1. \A y \in T : x >= y
        BY <3>3
      <4> QED BY <4>1
    <3>4. CASE T \ {x} # {}
      <4>1. PICK m \in T \ {x} : \A y \in T \ {x} : m >= y
        BY <3>2, <3>4
      <4>2. m \in Int /\ x \in Int
        OBVIOUS
      <4>3. CASE m >= x
        <5>1. \A y \in T : m >= y
          BY <4>1, <4>3
        <5> QED BY <5>1
      <4>4. CASE x > m
        <5>1. \A y \in T : x >= y
          BY <4>1, <4>2, <4>4
        <5> QED BY <5>1
      <4> QED BY <4>2, <4>3, <4>4
    <3> QED BY <3>3, <3>4
  <2> QED BY <2>1, <2>2
<1>2. S \in Good
  <2> HIDE DEF Good
  <2> QED BY <1>1, SetInduction
<1> QED BY <1>2

(* Renaming the elements of a set changes neither its size nor a sum over it. *)
LEMMA ImageSize ==
    ASSUME NEW S, IsFiniteSet(S), NEW m, \A x, y \in S : m[x] = m[y] => x = y
    PROVE  IsFiniteSet({m[x] : x \in S}) /\ Cardinality({m[x] : x \in S}) = Cardinality(S)
<1> DEFINE T == {m[x] : x \in S}
           f == [x \in S |-> m[x]]
<1>1. f \in Bijection(S, T)
  BY DEF Bijection, Injection, Surjection, IsInjective
<1> HIDE DEF f, T
<1>2. IsFiniteSet(T) /\ Cardinality(T) = Cardinality(S)
  BY <1>1, FS_Bijection DEF ExistsBijection
<1> QED BY <1>2 DEF T

LEMMA SumImage ==
    ASSUME NEW S, IsFiniteSet(S), NEW m, NEW f, NEW g,
           \A x, y \in S : m[x] = m[y] => x = y,
           \A x \in S : f[x] \in Int /\ g[m[x]] = f[x]
    PROVE  SumFunctionOnSet(g, {m[x] : x \in S}) = SumFunctionOnSet(f, S)
<1> DEFINE Im(T) == {m[x] : x \in T}
           Good == {T \in SUBSET S : SumFunctionOnSet(g, Im(T)) = SumFunctionOnSet(f, T)}
<1>1. ASSUME NEW T \in SUBSET S, \A x \in T : T \ {x} \in Good PROVE T \in Good
  <2>1. CASE T = {}
    BY <2>1, SumEmpty
  <2>2. ASSUME NEW y \in T PROVE T \in Good
    <3> DEFINE U == T \ {y}
    <3>1. /\ IsFiniteSet(U) /\ T = U \cup {y} /\ y \notin U /\ U \subseteq S
          /\ SumFunctionOnSet(g, Im(U)) = SumFunctionOnSet(f, U)
      BY <1>1, <2>2, FS_Subset
    <3> HIDE DEF U
    <3>2. IsFiniteSet(Im(U)) /\ Im(T) = Im(U) \cup {m[y]} /\ m[y] \notin Im(U)
      BY <2>2, <3>1, ImageFinite
    <3>3. \A z \in Im(U) \cup {m[y]} : g[z] \in Int
      BY <2>2, <3>1
    <3> HIDE DEF Im
    <3>4. SumFunctionOnSet(g, Im(T)) = g[m[y]] + SumFunctionOnSet(g, Im(U))
      BY <3>2, <3>3, SumAdd
    <3>5. SumFunctionOnSet(f, T) = f[y] + SumFunctionOnSet(f, U)
      <4>1. \A x \in U \cup {y} : f[x] \in Int
        BY <2>2, <3>1
      <4> QED BY <3>1, <4>1, SumAdd
    <3> QED BY <2>2, <3>1, <3>4, <3>5
  <2> QED BY <2>1, <2>2
<1>2. S \in Good
  <2> HIDE DEF Good
  <2> QED BY <1>1, SetInduction
<1> QED BY <1>2
(* Two sets without a common element add up. *)
LEMMA SumUnion ==
    ASSUME NEW S, IsFiniteSet(S), NEW T, IsFiniteSet(T), S \cap T = {},
           NEW f, \A x \in S \cup T : f[x] \in Int
    PROVE  SumFunctionOnSet(f, S \cup T) = SumFunctionOnSet(f, S) + SumFunctionOnSet(f, T)
<1> DEFINE Sum(U) == SumFunctionOnSet(f, U)
           Good == {U \in SUBSET T : Sum(S \cup U) = Sum(S) + Sum(U)}
<1>1. ASSUME NEW U \in SUBSET T, \A x \in U : U \ {x} \in Good PROVE U \in Good
  <2>1. CASE U = {}
    <3>1. Sum(S) \in Int /\ S \cup U = S
      BY <2>1, SumType
    <3> QED BY <2>1, <3>1, SumEmpty
  <2>2. CASE U # {}
    <3>1. PICK x \in U : TRUE
      BY <2>2
    <3>2. /\ IsFiniteSet(U) /\ IsFiniteSet(U \ {x}) /\ IsFiniteSet(S \cup (U \ {x}))
          /\ x \notin S \cup (U \ {x})
          /\ (S \cup (U \ {x})) \cup {x} = S \cup U /\ (U \ {x}) \cup {x} = U
      BY <3>1, FS_Subset, FS_Union
    <3>3. Sum(S \cup U) = f[x] + Sum(S \cup (U \ {x}))
      BY <3>2, SumAdd
    <3>4. Sum(U) = f[x] + Sum(U \ {x})
      BY <3>1, <3>2, SumRemove
    <3>5. Sum(S \cup (U \ {x})) = Sum(S) + Sum(U \ {x})
      BY <1>1, <3>1
    <3>6. f[x] \in Int /\ Sum(S) \in Int /\ Sum(U \ {x}) \in Int
      BY <3>1, <3>2, SumType
    <3> HIDE DEF Sum
    <3>7. Sum(S \cup U) = Sum(S) + Sum(U)
      BY <3>3, <3>4, <3>5, <3>6
    <3> QED BY <3>7
  <2> QED BY <2>1, <2>2
<1>2. T \in Good
  <2> HIDE DEF Good
  <2> QED BY <1>1, SetInduction
<1> QED BY <1>2

(* A sum is the sum of the parts of its set. *)
LEMMA SumParts ==
    ASSUME NEW S, IsFiniteSet(S), NEW K, IsFiniteSet(K),
           NEW part \in [K -> SUBSET S],
           \A x \in S : \E k \in K : x \in part[k],
           \A j, k \in K : j # k => part[j] \cap part[k] = {},
           NEW f, \A x \in S : f[x] \in Int,
           NEW g, \A k \in K : g[k] = SumFunctionOnSet(f, part[k])
    PROVE  SumFunctionOnSet(f, S) = SumFunctionOnSet(g, K)
<1> DEFINE Of(U) == {x \in S : \E k \in U : x \in part[k]}
           One(k) == part[k]
           Sum(T) == SumFunctionOnSet(f, T)
           Good == {U \in SUBSET K : Sum(Of(U)) = SumFunctionOnSet(g, U)}
<1>1. ASSUME NEW T \in SUBSET S PROVE IsFiniteSet(T) /\ Sum(T) \in Int
  <2>1. IsFiniteSet(T)
    BY FS_Subset
  <2> QED BY <2>1, SumType
<1>2. ASSUME NEW U \in SUBSET K, \A k \in U : U \ {k} \in Good PROVE U \in Good
  <2>1. CASE U = {}
    <3>1. Of(U) = {}
      BY <2>1
    <3> HIDE DEF Of
    <3> QED BY <2>1, <3>1, SumEmpty
  <2>2. CASE U # {}
    <3>1. PICK k \in U : TRUE
      BY <2>2
    <3>2. /\ Of(U) = Of(U \ {k}) \cup One(k) /\ Of(U \ {k}) \cap One(k) = {}
          /\ Of(U \ {k}) \in SUBSET S /\ One(k) \in SUBSET S
          /\ \A x \in Of(U \ {k}) \cup One(k) : f[x] \in Int
      BY <3>1
    <3>3. Sum(Of(U)) = Sum(Of(U \ {k})) + Sum(One(k))
      <4>1. PICK A, B : A = Of(U \ {k}) /\ B = One(k)
        OBVIOUS
      <4> HIDE DEF Of, One
      <4>2. /\ IsFiniteSet(A) /\ IsFiniteSet(B) /\ A \cap B = {} /\ Of(U) = A \cup B
            /\ \A x \in A \cup B : f[x] \in Int
        BY <1>1, <3>2, <4>1
      <4>3. SumFunctionOnSet(f, A \cup B) = SumFunctionOnSet(f, A) + SumFunctionOnSet(f, B)
        BY <4>2, SumUnion
      <4> QED BY <4>1, <4>2, <4>3
    <3>4. Sum(Of(U \ {k})) = SumFunctionOnSet(g, U \ {k})
      BY <1>2, <3>1
    <3>5. IsFiniteSet(U) /\ \A j \in U : g[j] = Sum(One(j)) /\ g[j] \in Int
      BY <1>1, FS_Subset
    <3>6. SumFunctionOnSet(g, U) = g[k] + SumFunctionOnSet(g, U \ {k})
      <4> HIDE DEF Sum, One
      <4> QED BY <3>1, <3>5, SumRemove
    <3>7. Sum(Of(U \ {k})) \in Int /\ Sum(One(k)) \in Int /\ g[k] = Sum(One(k))
      BY <1>1, <3>1, <3>2, <3>5
    <3> HIDE DEF Sum, Of, One
    <3> QED BY <3>3, <3>4, <3>6, <3>7
  <2> QED BY <2>1, <2>2
<1>3. K \in Good
  <2> HIDE DEF Good
  <2> QED BY <1>2, SetInduction
<1>4. Of(K) = S
  OBVIOUS
<1> HIDE DEF Of
<1> QED BY <1>3, <1>4

(* Two sums over one set add up. *)
LEMMA SumTwo ==
    ASSUME NEW S, IsFiniteSet(S), NEW f, NEW g, NEW h,
           \A x \in S : f[x] \in Int /\ g[x] \in Int /\ h[x] = f[x] + g[x]
    PROVE  SumFunctionOnSet(h, S) = SumFunctionOnSet(f, S) + SumFunctionOnSet(g, S)
<1> DEFINE F(T) == SumFunctionOnSet(f, T)
           G(T) == SumFunctionOnSet(g, T)
           H(T) == SumFunctionOnSet(h, T)
           Good == {T \in SUBSET S : H(T) = F(T) + G(T)}
<1>1. ASSUME NEW T \in SUBSET S, \A x \in T : T \ {x} \in Good PROVE T \in Good
  <2>1. CASE T = {}
    BY <2>1, SumEmpty
  <2>2. CASE T # {}
    <3>1. PICK x \in T : TRUE
      BY <2>2
    <3>2. IsFiniteSet(T) /\ IsFiniteSet(T \ {x}) /\ \A y \in T : h[y] \in Int
      BY FS_Subset
    <3>3. F(T) = f[x] + F(T \ {x}) /\ G(T) = g[x] + G(T \ {x}) /\ H(T) = h[x] + H(T \ {x})
      BY <3>1, <3>2, SumRemove
    <3>4. F(T \ {x}) \in Int /\ G(T \ {x}) \in Int
      BY <3>2, SumType
    <3>5. H(T \ {x}) = F(T \ {x}) + G(T \ {x})
      BY <1>1, <3>1
    <3> HIDE DEF F, G, H
    <3>6. H(T) = F(T) + G(T)
      BY <3>1, <3>3, <3>4, <3>5
    <3> QED BY <3>6
  <2> QED BY <2>1, <2>2
<1>2. S \in Good
  <2> HIDE DEF Good
  <2> QED BY <1>1, SetInduction
<1> QED BY <1>2

(* Sums of what is at most one apart are at most as far apart as there are summands. *)
LEMMA SumApart ==
    ASSUME NEW S, IsFiniteSet(S), NEW f, NEW g,
           \A x \in S : f[x] \in Int /\ g[x] \in Int /\ f[x] <= g[x] + 1 /\ g[x] <= f[x] + 1
    PROVE  /\ SumFunctionOnSet(f, S) <= SumFunctionOnSet(g, S) + Cardinality(S)
           /\ SumFunctionOnSet(g, S) <= SumFunctionOnSet(f, S) + Cardinality(S)
<1> DEFINE F(T) == SumFunctionOnSet(f, T)
           G(T) == SumFunctionOnSet(g, T)
           N(T) == Cardinality(T)
           Good == {T \in SUBSET S : F(T) <= G(T) + N(T) /\ G(T) <= F(T) + N(T)}
<1>1. ASSUME NEW T \in SUBSET S, \A x \in T : T \ {x} \in Good PROVE T \in Good
  <2>1. CASE T = {}
    <3>1. F(T) = 0 /\ G(T) = 0 /\ N(T) = 0
      BY <2>1, SumEmpty, FS_EmptySet
    <3> HIDE DEF F, G, N
    <3> QED BY <3>1
  <2>2. CASE T # {}
    <3>1. PICK x \in T : TRUE
      BY <2>2
    <3>2. IsFiniteSet(T) /\ IsFiniteSet(T \ {x})
      BY FS_Subset
    <3>3. F(T) = f[x] + F(T \ {x}) /\ G(T) = g[x] + G(T \ {x})
      BY <3>1, <3>2, SumRemove
    <3>4. F(T \ {x}) \in Int /\ G(T \ {x}) \in Int
      BY <3>2, SumType
    <3>5. N(T) \in Nat /\ N(T \ {x}) \in Nat /\ N(T \ {x}) = N(T) - 1
      BY <3>1, <3>2, FS_CardinalityType, FS_RemoveElement
    <3>6. F(T \ {x}) <= G(T \ {x}) + N(T \ {x}) /\ G(T \ {x}) <= F(T \ {x}) + N(T \ {x})
      BY <1>1, <3>1
    <3>7. f[x] \in Int /\ g[x] \in Int /\ f[x] <= g[x] + 1 /\ g[x] <= f[x] + 1
      BY <3>1
    <3> HIDE DEF F, G, N
    <3>8. F(T) <= G(T) + N(T) /\ G(T) <= F(T) + N(T)
      BY <3>3, <3>4, <3>5, <3>6, <3>7
    <3> QED BY <3>8
  <2> QED BY <2>1, <2>2
<1>2. S \in Good
  <2> HIDE DEF Good
  <2> QED BY <1>1, SetInduction
<1> QED BY <1>2

LEMMA PairsFinite ==
    ASSUME NEW S, IsFiniteSet(S), NEW I, \A s \in S : IsFiniteSet(I[s])
    PROVE  IsFiniteSet(UNION {{s} \X I[s] : s \in S})
<1> DEFINE rows == [s \in S |-> {s} \X I[s]]
<1>1. ASSUME NEW s \in S PROVE IsFiniteSet({s} \X I[s])
  BY FS_Singleton, FS_Product
<1>2. {rows[s] : s \in S} = {{s} \X I[s] : s \in S}
  OBVIOUS
<1>3. IsFiniteSet({rows[s] : s \in S})
  <2> HIDE DEF rows
  <2> QED BY ImageFinite
<1>4. \A X \in {{s} \X I[s] : s \in S} : IsFiniteSet(X)
  BY <1>1
<1> HIDE DEF rows
<1> QED BY <1>2, <1>3, <1>4, FS_UNION

(* f is h on the row of s. *)
OnRow(f, s, J, h) == \A x \in {s} \X J : f[x] = h[x[2]]

LEMMA SumRow ==
    ASSUME NEW s, NEW J, IsFiniteSet(J), NEW f, NEW h,
           \A i \in J : h[i] \in Int, OnRow(f, s, J, h)
    PROVE  SumFunctionOnSet(f, {s} \X J) = SumFunctionOnSet(h, J)
<1> DEFINE m == [i \in J |-> <<s, i>>]
<1>1. {m[i] : i \in J} = {s} \X J
  <2>1. {m[i] : i \in J} = {<<s, i>> : i \in J}
    OBVIOUS
  <2>2. {s} \X J = {<<s, i>> : i \in J}
    OBVIOUS
  <2> HIDE DEF m
  <2> QED BY <2>1, <2>2
<1>2. /\ \A i, j \in J : m[i] = m[j] => i = j
      /\ \A i \in J : h[i] \in Int /\ f[m[i]] = h[i]
  BY DEF OnRow
<1>3. SumFunctionOnSet(f, {m[i] : i \in J}) = SumFunctionOnSet(h, J)
  <2> HIDE DEF m
  <2> QED BY <1>2, SumImage
<1> HIDE DEF m
<1> QED BY <1>1, <1>3

(* A sum over pairs is one over their first elements. *)
LEMMA SumPairs ==
    ASSUME NEW S, IsFiniteSet(S), NEW I, \A s \in S : IsFiniteSet(I[s]),
           NEW e, \A s \in S : \A i \in I[s] : e[s][i] \in Int,
           NEW f, \A x \in UNION {{s} \X I[s] : s \in S} : f[x] = e[x[1]][x[2]],
           NEW g, \A s \in S : g[s] = SumFunctionOnSet(e[s], I[s])
    PROVE  SumFunctionOnSet(f, UNION {{s} \X I[s] : s \in S}) = SumFunctionOnSet(g, S)
<1> DEFINE Pairs == UNION {{s} \X I[s] : s \in S}
           rows == [s \in S |-> {s} \X I[s]]
<1>1. IsFiniteSet(Pairs)
  BY PairsFinite
<1>2. /\ rows \in [S -> SUBSET Pairs]
      /\ \A x \in Pairs : (\E s \in S : x \in rows[s]) /\ f[x] \in Int
  OBVIOUS
<1>3. \A s, t \in S : s # t => rows[s] \cap rows[t] = {}
  OBVIOUS
<1>4. ASSUME NEW s \in S PROVE g[s] = SumFunctionOnSet(f, rows[s])
  <2>1. PICK h, J : h = e[s] /\ J = I[s]
    OBVIOUS
  <2>2. IsFiniteSet(J) /\ (\A i \in J : h[i] \in Int) /\ OnRow(f, s, J, h)
    BY <2>1 DEF OnRow
  <2>3. SumFunctionOnSet(f, {s} \X J) = SumFunctionOnSet(h, J)
    BY <2>2, SumRow
  <2>4. rows[s] = {s} \X J
    BY <2>1
  <2> HIDE DEF rows
  <2> QED BY <2>1, <2>3, <2>4
<1> HIDE DEF rows
<1>5. SumFunctionOnSet(f, Pairs) = SumFunctionOnSet(g, S)
  <2> HIDE DEF Pairs
  <2> QED BY <1>1, <1>2, <1>3, <1>4, SumParts
<1> QED BY <1>5
=============================================================================
