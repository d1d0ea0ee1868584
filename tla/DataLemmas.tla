----------------------------- MODULE DataLemmas ------------------------------
(***************************************************************************)
(* Induction over finite sets and numbers, the facts about the sums of the *)
(* community modules that follow from it, and recursion over levels: that  *)
(* a function written in terms of itself, at lower levels only, exists.    *)
(*                                                                         *)
(* An induction principle takes a predicate, which the provers cannot      *)
(* instantiate.  Here it takes the set F of what has the property: the     *)
(* finite subsets of a set are well founded under inclusion, so that       *)
(* whatever is not in F has a least example.                               *)
(***************************************************************************)
EXTENDS Integers, FiniteSets, FiniteSetsExt, Functions, FiniteSetTheorems, WellFoundedInduction,
        TLAPS

\* Of some subsets of a finite set there is one that none of them is smaller than.
LEMMA LeastSubset ==
  ASSUME NEW S, IsFiniteSet(S), NEW G, G \subseteq SUBSET S, G # {}
  PROVE  \E T \in G : \A U \in G : U \subseteq T => U = T
<1> DEFINE R == StrictSubsetOrdering(S)
<1>1. IsWellFoundedOn(R, FiniteSubsetsOf(S))
  BY FS_StrictSubsetOrderingWellFounded
<1>2. FiniteSubsetsOf(S) = SUBSET S
  BY FS_FiniteSubsetsOfFinite
<1>3. \A U, T \in SUBSET S : U \subseteq T /\ U # T => <<U, T>> \in R
  BY DEF StrictSubsetOrdering
<1> HIDE DEF R
<1>4. IsWellFoundedOn(R, SUBSET S)
  BY <1>1, <1>2
<1>5. PICK T \in G : \A U \in G : ~(<<U, T>> \in R)
  BY <1>4, WFMin
<1> QED BY <1>3, <1>5

\* A set of subsets that has every subset all of whose smaller ones it has has
\* them all.
LEMMA SetInduction ==
  ASSUME NEW S, IsFiniteSet(S), NEW F,
         \A T \in SUBSET S : (\A U \in SUBSET T : U # T => U \in F) => T \in F
  PROVE  \A T \in SUBSET S : T \in F
<1> SUFFICES ASSUME (SUBSET S) \ F # {} PROVE FALSE
  OBVIOUS
<1> DEFINE G == (SUBSET S) \ F
<1>1. G \subseteq SUBSET S /\ G # {}
  OBVIOUS
<1> HIDE DEF G
<1>2. PICK T \in G : \A U \in G : U \subseteq T => U = T
  BY <1>1, LeastSubset
<1>3. \A U \in SUBSET T : U # T => U \in F
  BY <1>2 DEF G
<1> QED BY <1>3 DEF G

\* The least number of a set, which is how a target, a weapon, a wreck and an action are
\* taken.
LEMMA MinOf ==
  ASSUME NEW S \in SUBSET Nat, S # {}
  PROVE  Min(S) \in S /\ \A y \in S : Min(S) <= y
<1> DEFINE less == OpToRel(<, Nat)
<1>1. IsWellFoundedOn(less, Nat)
  BY NatLessThanWellFounded
<1>2. \A x, y \in Nat : <<y, x>> \in less <=> y < x
  BY DEF OpToRel
<1> HIDE DEF less
<1>3. PICK x \in S : \A y \in S : <<y, x>> \notin less
  BY <1>1, WFMin
<1>4. ASSUME NEW y \in S PROVE x <= y
  <2>1. x \in Nat /\ y \in Nat
    OBVIOUS
  <2>2. ~(y < x)
    BY <1>2, <1>3, <2>1
  <2> QED
    BY <2>1, <2>2
<1> QED
  BY <1>4 DEF Min

\* What zero has, and a number's successor has with the number, every number has.
LEMMA NumberInduction ==
  ASSUME NEW F, 0 \in F, \A n \in Nat : n \in F => n + 1 \in F
  PROVE  \A n \in Nat : n \in F
<1> TAKE n \in Nat
<1> DEFINE G == {T \in SUBSET (1..n) : Cardinality(T) \in F}
<1>1. IsFiniteSet(1..n) /\ Cardinality(1..n) = n
  BY FS_Interval
<1>2. ASSUME NEW T \in SUBSET (1..n), \A U \in SUBSET T : U # T => U \in G
      PROVE  T \in G
  <2>1. IsFiniteSet(T) /\ Cardinality(T) \in Nat
    BY <1>1, FS_Subset, FS_CardinalityType
  <2>2. CASE T = {}
    BY <2>2, FS_EmptySet
  <2>3. CASE T # {}
    <3>1. PICK x \in T : TRUE
      BY <2>3
    <3>2. Cardinality(T \ {x}) = Cardinality(T) - 1 /\ IsFiniteSet(T \ {x})
      BY <2>1, <3>1, FS_RemoveElement
    <3>3. Cardinality(T \ {x}) \in Nat
      BY <3>2, FS_CardinalityType
    <3>4. T \ {x} \in G
      BY <1>2, <3>1
    <3>5. Cardinality(T \ {x}) + 1 \in F
      BY <3>3, <3>4
    <3> QED BY <2>1, <3>2, <3>5
  <2> QED BY <2>2, <2>3
<1> HIDE DEF G
<1>3. \A T \in SUBSET (1..n) : (\A U \in SUBSET T : U # T => U \in G) => T \in G
  BY <1>2
<1>4. \A T \in SUBSET (1..n) : T \in G
  BY <1>1, <1>3, SetInduction
<1> QED BY <1>1, <1>4 DEF G

------------------------------------------------------------------------------
\* The fold of the community modules takes the elements of a set one by one, and
\* Picked is the one it takes first.
Picked(s) == CHOOSE x \in s : TRUE

\* g holds the sums of f over the sets of D.
Sums(f, D, g) ==
  g = [s \in D |-> IF s = {} THEN 0 ELSE f[Picked(s)] + g[s \ {Picked(s)}]]

LEMMA PickedIn == \A s : s # {} => Picked(s) \in s
BY DEF Picked

\* There are such sums.
LEMMA SumsExist ==
  ASSUME NEW S, IsFiniteSet(S), NEW f
  PROVE  \E g : Sums(f, SUBSET S, g)
<1> DEFINE D(n) == {s \in SUBSET S : Cardinality(s) <= n}
           F == {n \in Nat : \E g : Sums(f, D(n), g)}
<1>1. \A s \in SUBSET S : IsFiniteSet(s) /\ Cardinality(s) \in Nat /\ Cardinality(s) <= Cardinality(S)
  BY FS_Subset, FS_CardinalityType
<1>2. \A s \in SUBSET S : Cardinality(s) = 0 <=> s = {}
  BY <1>1, FS_EmptySet
<1>3. \A s \in SUBSET S : s # {} => s \ {Picked(s)} \in SUBSET S
                                    /\ Cardinality(s \ {Picked(s)}) = Cardinality(s) - 1
  BY <1>1, PickedIn, FS_RemoveElement
<1>4. 0 \in F
  <2>1. D(0) = {{}}
    BY <1>1, <1>2
  <2> DEFINE g == [s \in D(0) |-> 0]
  <2>2. Sums(f, D(0), g)
    BY <2>1 DEF Sums
  <2> QED BY <2>2
<1>5. ASSUME NEW n \in Nat, n \in F PROVE n + 1 \in F
  <2>1. PICK g : Sums(f, D(n), g)
    BY <1>5
  <2> DEFINE h == [s \in D(n + 1) |-> IF s = {} THEN 0 ELSE f[Picked(s)] + g[s \ {Picked(s)}]]
  <2>2. \A s \in D(n) : s \in D(n + 1) /\ h[s] = g[s]
    <3> TAKE s \in D(n)
    <3>1. s \in D(n + 1)
      BY <1>1
    <3>2. g[s] = IF s = {} THEN 0 ELSE f[Picked(s)] + g[s \ {Picked(s)}]
      BY <2>1 DEF Sums
    <3> QED BY <3>1, <3>2
  <2>3. \A s \in D(n + 1) : s # {} => s \ {Picked(s)} \in D(n)
    BY <1>1, <1>3
  <2>4. Sums(f, D(n + 1), h)
    BY <2>2, <2>3 DEF Sums
  <2> HIDE DEF h
  <2> QED BY <2>4
<1> HIDE DEF F
<1>6. \A n \in Nat : n \in F => n + 1 \in F
  BY <1>5
<1>7. Cardinality(S) \in F
  BY <1>1, <1>4, <1>6, NumberInduction
<1>8. D(Cardinality(S)) = SUBSET S
  BY <1>1
<1> QED BY <1>7, <1>8 DEF F

\* Only one number is the sum over a set.
LEMMA SumsAgree ==
  ASSUME NEW S, IsFiniteSet(S), NEW D, NEW E, NEW f, NEW g, NEW h,
         SUBSET S \subseteq D, SUBSET S \subseteq E, Sums(f, D, g), Sums(f, E, h)
  PROVE  g[S] = h[S]
<1> DEFINE F == {s \in SUBSET S : g[s] = h[s]}
<1>1. ASSUME NEW s \in SUBSET S, \A u \in SUBSET s : u # s => u \in F PROVE s \in F
  <2>1. s # {} => s \ {Picked(s)} \in SUBSET s /\ s \ {Picked(s)} # s
    BY PickedIn
  <2>2. s # {} => g[s \ {Picked(s)}] = h[s \ {Picked(s)}]
    BY <1>1, <2>1
  <2>3. /\ g[s] = IF s = {} THEN 0 ELSE f[Picked(s)] + g[s \ {Picked(s)}]
        /\ h[s] = IF s = {} THEN 0 ELSE f[Picked(s)] + h[s \ {Picked(s)}]
    BY DEF Sums
  <2> QED BY <2>2, <2>3
<1> HIDE DEF F
<1>2. \A s \in SUBSET S : s \in F
  BY <1>1, SetInduction
<1> QED BY <1>2 DEF F

LEMMA SumIsSum ==
  ASSUME NEW S, IsFiniteSet(S), NEW f
  PROVE  \E g : Sums(f, SUBSET S, g) /\ SumFunctionOnSet(f, S) = g[S]
<1> DEFINE g == CHOOSE g : Sums(f, SUBSET S, g)
<1>1. Sums(f, SUBSET S, g)
  BY SumsExist
<1>2. SumFunctionOnSet(f, S) = g[S]
  BY DEF SumFunctionOnSet, FoldFunctionOnSet, MapThenFoldSet, Sums, Picked
<1> QED BY <1>1, <1>2

\* The sum is the first element's value and the sum of the rest.
LEMMA SumFirst ==
  ASSUME NEW S, IsFiniteSet(S), NEW f
  PROVE  /\ S = {} => SumFunctionOnSet(f, S) = 0
         /\ S # {} => SumFunctionOnSet(f, S)
                       = f[Picked(S)] + SumFunctionOnSet(f, S \ {Picked(S)})
<1>1. PICK g : Sums(f, SUBSET S, g) /\ SumFunctionOnSet(f, S) = g[S]
  BY SumIsSum
<1>2. g[S] = IF S = {} THEN 0 ELSE f[Picked(S)] + g[S \ {Picked(S)}]
  BY <1>1 DEF Sums
<1> DEFINE T == S \ {Picked(S)}
<1>3. IsFiniteSet(T) /\ T \subseteq S
  BY FS_Subset
<1>4. PICK h : Sums(f, SUBSET T, h) /\ SumFunctionOnSet(f, T) = h[T]
  BY <1>3, SumIsSum
<1>5. g[T] = h[T]
  <2> HIDE DEF T
  <2>1. SUBSET T \subseteq SUBSET S /\ SUBSET T \subseteq SUBSET T
    BY <1>3
  <2> QED BY <2>1, <1>1, <1>3, <1>4, SumsAgree
<1> QED BY <1>1, <1>2, <1>4, <1>5

LEMMA SumType ==
  ASSUME NEW S, IsFiniteSet(S), NEW f, \A x \in S : f[x] \in Int
  PROVE  SumFunctionOnSet(f, S) \in Int
<1> DEFINE F == {s \in SUBSET S : SumFunctionOnSet(f, s) \in Int}
<1>1. ASSUME NEW s \in SUBSET S, \A u \in SUBSET s : u # s => u \in F PROVE s \in F
  <2>1. IsFiniteSet(s)
    BY FS_Subset
  <2>2. CASE s = {}
    BY <2>1, <2>2, SumFirst
  <2>3. CASE s # {}
    <3> DEFINE r == s \ {Picked(s)}
    <3>1. f[Picked(s)] \in Int /\ r \in F
      BY <1>1, <2>3, PickedIn
    <3>2. SumFunctionOnSet(f, s) = f[Picked(s)] + SumFunctionOnSet(f, r)
      BY <2>1, <2>3, SumFirst
    <3> HIDE DEF r
    <3> QED BY <3>1, <3>2
  <2> QED BY <2>2, <2>3
<1> HIDE DEF F
<1>2. \A s \in SUBSET S : s \in F
  BY <1>1, SetInduction
<1> QED BY <1>2 DEF F

\* Any element may be taken out first.
LEMMA SumTake ==
  ASSUME NEW S, IsFiniteSet(S), NEW f, \A x \in S : f[x] \in Int, NEW e \in S
  PROVE  SumFunctionOnSet(f, S) = f[e] + SumFunctionOnSet(f, S \ {e})
<1> DEFINE Sum(s) == SumFunctionOnSet(f, s)
           F == {s \in SUBSET S : \A x \in s : Sum(s) = f[x] + Sum(s \ {x})}
<1>1. ASSUME NEW s \in SUBSET S, \A u \in SUBSET s : u # s => u \in F PROVE s \in F
  <2> SUFFICES ASSUME NEW x \in s PROVE Sum(s) = f[x] + Sum(s \ {x})
    OBVIOUS
  <2> DEFINE c == Picked(s)
             r == s \ {c, x}
  <2>1. IsFiniteSet(s) /\ c \in s /\ IsFiniteSet(r)
    BY FS_Subset, PickedIn
  <2>2. Sum(s) = f[c] + Sum(s \ {c})
    BY <2>1, SumFirst
  <2>3. f[c] \in Int /\ f[x] \in Int
    BY <2>1
  <2>4. CASE c = x
    BY <2>2, <2>4
  <2>5. CASE c # x
    <3>1. x \in s \ {c} /\ c \in s \ {x} /\ s \ {c} \in F /\ s \ {x} \in F
      BY <1>1, <2>1, <2>5
    <3>2. (s \ {c}) \ {x} = r /\ (s \ {x}) \ {c} = r
      OBVIOUS
    <3>3. Sum(s \ {c}) = f[x] + Sum(r)
      BY <3>1, <3>2
    <3>4. Sum(s \ {x}) = f[c] + Sum(r)
      BY <3>1, <3>2
    <3>5. Sum(r) \in Int
      BY <2>1, SumType
    <3> HIDE DEF Sum, c, r
    <3> QED BY <2>2, <2>3, <3>3, <3>4, <3>5
  <2> QED BY <2>4, <2>5
<1>2. \A s \in SUBSET S : (\A u \in SUBSET s : u # s => u \in F) => s \in F
  BY <1>1
<1> HIDE DEF F
<1>3. \A s \in SUBSET S : s \in F
  BY <1>2, SetInduction
<1> QED BY <1>3 DEF F

LEMMA SumEmpty == \A f : SumFunctionOnSet(f, {}) = 0
BY SumFirst, FS_EmptySet

\* A sum of numbers is one.
LEMMA SumNat ==
  ASSUME NEW S, IsFiniteSet(S), NEW f, \A x \in S : f[x] \in Nat
  PROVE  SumFunctionOnSet(f, S) \in Nat
<1> DEFINE F == {s \in SUBSET S : SumFunctionOnSet(f, s) \in Nat}
<1>1. ASSUME NEW s \in SUBSET S, \A u \in SUBSET s : u # s => u \in F PROVE s \in F
  <2>1. IsFiniteSet(s)
    BY FS_Subset
  <2>2. CASE s = {}
    BY <2>2, SumEmpty
  <2>3. CASE s # {}
    <3> DEFINE r == s \ {Picked(s)}
    <3>1. f[Picked(s)] \in Nat /\ r \in F
      BY <1>1, <2>3, PickedIn
    <3>2. SumFunctionOnSet(f, s) = f[Picked(s)] + SumFunctionOnSet(f, r)
      BY <2>1, <2>3, SumFirst
    <3> HIDE DEF r
    <3> QED BY <3>1, <3>2
  <2> QED BY <2>2, <2>3
<1> HIDE DEF F
<1>2. \A s \in SUBSET S : s \in F
  BY <1>1, SetInduction
<1> QED BY <1>2 DEF F

LEMMA SumAdd ==
  ASSUME NEW S, IsFiniteSet(S), NEW e, e \notin S, NEW f, \A x \in S \cup {e} : f[x] \in Int
  PROVE  SumFunctionOnSet(f, S \cup {e}) = SumFunctionOnSet(f, S) + f[e]
<1>1. IsFiniteSet(S \cup {e}) /\ (S \cup {e}) \ {e} = S
  BY FS_AddElement
<1>2. SumFunctionOnSet(f, S) \in Int
  BY SumType
<1> QED BY <1>1, <1>2, SumTake

\* Only the values count, and each element of one set may stand for one of another.
LEMMA SumAcross ==
  ASSUME NEW S, IsFiniteSet(S), NEW f, \A x \in S : f[x] \in Int,
         NEW T, NEW g, NEW b \in Bijection(S, T), \A x \in S : g[b[x]] = f[x]
  PROVE  SumFunctionOnSet(g, T) = SumFunctionOnSet(f, S)
<1> DEFINE Img(s) == {b[x] : x \in s}
           F == {s \in SUBSET S : /\ IsFiniteSet(Img(s))
                                  /\ SumFunctionOnSet(g, Img(s)) = SumFunctionOnSet(f, s)}
<1>0. b \in [S -> T] /\ (\A x, y \in S : b[x] = b[y] => x = y) /\ \A y \in T : \E x \in S : b[x] = y
  BY DEF Bijection, Injection, Surjection, IsInjective
<1>1. ASSUME NEW s \in SUBSET S, \A u \in SUBSET s : u # s => u \in F PROVE s \in F
  <2>1. CASE s = {}
    <3>1. Img(s) = {}
      BY <2>1
    <3> QED BY <2>1, <3>1, SumEmpty, FS_EmptySet
  <2>2. CASE s # {}
    <3>1. PICK e \in s : TRUE
      BY <2>2
    <3> DEFINE r == s \ {e}
    <3>2. IsFiniteSet(s) /\ r \in F /\ IsFiniteSet(r)
      BY <1>1, <3>1, FS_Subset
    <3>3. Img(s) = Img(r) \cup {b[e]} /\ b[e] \notin Img(r)
      BY <1>0, <3>1
    <3>4. \A y \in Img(s) : g[y] \in Int
      BY <1>0
    <3>5. IsFiniteSet(Img(r)) /\ SumFunctionOnSet(g, Img(r)) = SumFunctionOnSet(f, r)
      BY <3>2
    <3> DEFINE I == Img(r)
               y == b[e]
    <3>6. /\ IsFiniteSet(I) /\ Img(s) = I \cup {y} /\ y \notin I
          /\ \A z \in I \cup {y} : g[z] \in Int
      BY <3>3, <3>4, <3>5
    <3> HIDE DEF Img, I, y
    <3>a. IsFiniteSet(Img(s))
      BY <3>6, FS_AddElement
    <3>b. SumFunctionOnSet(g, I \cup {y}) = SumFunctionOnSet(g, I) + g[y]
      BY <3>6, SumAdd
    <3>7. SumFunctionOnSet(g, Img(s)) = SumFunctionOnSet(g, Img(r)) + g[b[e]]
      BY <3>6, <3>b DEF I, y
    <3>8. SumFunctionOnSet(f, s) = f[e] + SumFunctionOnSet(f, r)
      BY <3>1, <3>2, SumTake
    <3>9. g[b[e]] = f[e] /\ f[e] \in Int /\ SumFunctionOnSet(f, r) \in Int
      BY <3>1, <3>2, SumType
    <3> QED BY <3>5, <3>a, <3>7, <3>8, <3>9
  <2> QED BY <2>1, <2>2
<1>2. Img(S) = T
  BY <1>0
<1>3. \A s \in SUBSET S : (\A u \in SUBSET s : u # s => u \in F) => s \in F
  BY <1>1
<1> HIDE DEF F, Img
<1>4. \A s \in SUBSET S : s \in F
  BY <1>3, SetInduction
<1> QED BY <1>2, <1>4 DEF F

LEMMA SumSame ==
  ASSUME NEW S, IsFiniteSet(S), NEW f, \A x \in S : f[x] \in Int, NEW g, \A x \in S : g[x] = f[x]
  PROVE  SumFunctionOnSet(g, S) = SumFunctionOnSet(f, S)
<1> DEFINE b == [x \in S |-> x]
<1>1. b \in Bijection(S, S) /\ \A x \in S : b[x] = x
  BY DEF Bijection, Injection, Surjection, IsInjective
<1> HIDE DEF b
<1> QED BY <1>1, SumAcross

\* One value changes.
LEMMA SumChange ==
  ASSUME NEW S, IsFiniteSet(S), NEW f, \A x \in S : f[x] \in Int, NEW e \in S,
         NEW g, g[e] \in Int, \A x \in S \ {e} : g[x] = f[x]
  PROVE  SumFunctionOnSet(g, S) = SumFunctionOnSet(f, S) - f[e] + g[e]
<1> DEFINE r == S \ {e}
<1>1. IsFiniteSet(r) /\ \A x \in S : g[x] \in Int
  BY FS_Subset
<1>2. SumFunctionOnSet(g, r) = SumFunctionOnSet(f, r)
  BY <1>1, SumSame
<1>3. SumFunctionOnSet(f, r) \in Int
  BY <1>1, SumType
<1>4. SumFunctionOnSet(f, S) = f[e] + SumFunctionOnSet(f, r)
  BY SumTake
<1>5. SumFunctionOnSet(g, S) = g[e] + SumFunctionOnSet(g, r)
  BY <1>1, SumTake
<1> QED BY <1>2, <1>3, <1>4, <1>5

------------------------------------------------------------------------------
\* Recursion over levels.  A place is a tuple, its first component the level; f and g
\* agree below it; what G makes of a function at a place, it makes of the function's
\* values below.
AgreeBelow(P, x, f, g) == \A y \in P : y[1] < x[1] => f[y] = g[y]

LooksBelow(P, V, G) ==
  /\ \A f \in [P -> V] : G[f] \in [P -> V]
  /\ \A f, g \in [P -> V] : \A x \in P : AgreeBelow(P, x, f, g) => G[f][x] = G[g][x]

Fixed(P, V, G) == \E f \in [P -> V] : f = G[f]

\* Then there is a function that G leaves as it is.
LEMMA LevelRecursion ==
  ASSUME NEW P, NEW V, V # {}, NEW top \in Nat, \A x \in P : x[1] \in 0..top,
         NEW G, LooksBelow(P, V, G)
  PROVE  Fixed(P, V, G)
<1> DEFINE Upto(n) == {f \in [P -> V] : \A x \in P : x[1] < n => f[x] = G[f][x]}
           F == {n \in Nat : Upto(n) # {}}
<1>1. 0 \in F
  <2>1. PICK a : a \in V
    OBVIOUS
  <2>2. [x \in P |-> a] \in [P -> V]
    BY <2>1
  <2>3. \A x \in P : ~(x[1] < 0)
    OBVIOUS
  <2> QED BY <2>2, <2>3
<1>2. ASSUME NEW n \in Nat, n \in F PROVE n + 1 \in F
  <2>1. PICK f \in [P -> V] : \A x \in P : x[1] < n => f[x] = G[f][x]
    BY <1>2
  <2>2. G[f] \in [P -> V]
    BY <2>1 DEF LooksBelow
  <2>3. ASSUME NEW x \in P, x[1] < n + 1 PROVE G[f][x] = G[G[f]][x]
    <3>1. \A y \in P : y[1] < x[1] => y[1] < n
      BY <2>3
    <3>2. AgreeBelow(P, x, f, G[f])
      BY <2>1, <3>1 DEF AgreeBelow
    <3> QED BY <2>1, <2>2, <3>2 DEF LooksBelow
  <2>4. G[f] \in Upto(n + 1)
    BY <2>2, <2>3
  <2> QED BY <2>4
<1> HIDE DEF F
<1>3. top + 1 \in F
  BY <1>1, <1>2, NumberInduction
<1>4. PICK f \in [P -> V] : \A x \in P : x[1] < top + 1 => f[x] = G[f][x]
  BY <1>3 DEF F
<1>5. \A x \in P : f[x] = G[f][x]
  BY <1>4
<1>6. f = G[f]
  BY <1>4, <1>5 DEF LooksBelow
<1> QED BY <1>4, <1>6 DEF Fixed
==============================================================================
