-------------------------------- MODULE Sums --------------------------------
(***************************************************************************)
(* What the proofs need to know of SumFunctionOnSet of the community module  *)
(* Functions. It is a fold, that is the solution of an equation between a    *)
(* set and the set without one element: Solution shows that there is one, by *)
(* induction on the size, and Same that there is only one, so that SumIs can *)
(* speak of the sums of all subsets at once. Induction is stated with sets   *)
(* (NatSteps, SubsetSteps, AddingSteps) and follows from the library's       *)
(* theorem that inclusion among finite sets is well founded.                 *)
(***************************************************************************)
EXTENDS Integers, Functions, FiniteSetTheorems, TLAPS

\* A set of naturals that is not empty has a least element.
LEMMA NatLeast ==
    ASSUME NEW T \in SUBSET Nat, T # {}
    PROVE  \E n \in T : \A m \in T : n <= m
  <1> DEFINE R == StrictSubsetOrdering(Nat)
             S == {1..n : n \in T}
  <1>1. S \subseteq FiniteSubsetsOf(Nat) /\ S # {}
    <2>1. \A n \in T : 1..n \in FiniteSubsetsOf(Nat)
      <3>1. \A n \in T : 1..n \subseteq Nat /\ IsFiniteSet(1..n)
        BY FS_Interval
      <3> QED
        BY <3>1 DEF FiniteSubsetsOf
    <2> QED
      BY <2>1
  <1>2. PICK s \in S : \A t \in S : ~ (<<t, s>> \in R)
    <2> HIDE DEF S
    <2> QED
      BY <1>1, FS_StrictSubsetOrderingWellFounded, WFMin
  <1>3. PICK n \in T : s = 1..n
    BY <1>2
  <1>4. ASSUME NEW m \in T, m < n
        PROVE  FALSE
    <2>1. 1..m \subseteq 1..n /\ n \in 1..n /\ n \notin 1..m
      BY <1>4
    <2>2. 1..m # 1..n /\ 1..n \in SUBSET Nat /\ 1..m \in SUBSET Nat
      BY <2>1
    <2>3. <<1..m, 1..n>> \in R
      BY <2>1, <2>2 DEF StrictSubsetOrdering
    <2> QED
      BY <1>2, <1>3, <2>3
  <1> QED
    BY <1>4

\* Induction on the naturals, for a set.
LEMMA NatSteps ==
    ASSUME NEW T, 0 \in T, \A n \in Nat : n \in T => n + 1 \in T
    PROVE  Nat \subseteq T
  <1>1. SUFFICES ASSUME Nat \ T # {} PROVE FALSE
    OBVIOUS
  <1>2. PICK n \in Nat \ T : \A m \in Nat \ T : n <= m
    BY <1>1, NatLeast
  <1>3. n - 1 \in Nat /\ n - 1 \in T
    BY <1>2
  <1> QED
    BY <1>2, <1>3

\* Induction on finite sets.
LEMMA SubsetSteps ==
    ASSUME NEW I, IsFiniteSet(I), NEW T,
           \A s \in SUBSET I : (\A t \in SUBSET s : t # s => t \in T) => s \in T
    PROVE  SUBSET I \subseteq T
  <1> DEFINE N == {n \in Nat : \A s \in SUBSET I : Cardinality(s) <= n => s \in T}
  <1>1. \A s \in SUBSET I : IsFiniteSet(s) /\ Cardinality(s) \in Nat
    BY FS_Subset, FS_CardinalityType
  <1>2. 0 \in N
    <2>1. \A s \in SUBSET I : Cardinality(s) <= 0 => s = {}
      BY <1>1, FS_EmptySet
    <2> QED
      BY <2>1
  <1>3. ASSUME NEW n \in Nat, n \in N
        PROVE  n + 1 \in N
    <2>1. ASSUME NEW s \in SUBSET I, Cardinality(s) <= n + 1
          PROVE  s \in T
      <3>1. ASSUME NEW t \in SUBSET s, t # s
            PROVE  t \in T
        <4>1. Cardinality(t) <= Cardinality(s) /\ Cardinality(t) # Cardinality(s)
          BY <1>1, <3>1, FS_Subset
        <4>2. Cardinality(t) <= n
          BY <1>1, <2>1, <4>1
        <4> QED
          BY <1>3, <4>2
      <3> QED
        BY <3>1
    <2> QED
      BY <2>1
  <1>4. Nat \subseteq N
    <2> HIDE DEF N
    <2> QED
      BY <1>2, <1>3, NatSteps
  <1> QED
    BY <1>1, <1>4

-----------------------------------------------------------------------------
\* The element a fold takes first.
Picked(s) == CHOOSE x \in s : TRUE

\* g gives every set of D the sum of f over it.
AddsUp(g, f, D) ==
    g = [s \in D |-> IF s = {} THEN 0 ELSE f[Picked(s)] + g[s \ {Picked(s)}]]

Small(I, n) == {s \in SUBSET I : Cardinality(s) <= n}

\* The sum is the value of a solution of AddsUp.
LEMMA SumDef ==
    ASSUME NEW f, NEW I
    PROVE  SumFunctionOnSet(f, I) = (CHOOSE g : AddsUp(g, f, SUBSET I))[I]
  BY DEF SumFunctionOnSet, FoldFunctionOnSet, MapThenFoldSet, AddsUp, Picked

\* What a solution gives one set.
LEMMA Values ==
    ASSUME NEW g, NEW f, NEW D, AddsUp(g, f, D), NEW s \in D
    PROVE  g[s] = IF s = {} THEN 0 ELSE f[Picked(s)] + g[s \ {Picked(s)}]
  BY DEF AddsUp

\* AddsUp has a solution on the subsets of a finite set.
LEMMA Solution ==
    ASSUME NEW I, IsFiniteSet(I), NEW f, \A x \in I : f[x] \in Int
    PROVE  \E g \in [SUBSET I -> Int] : AddsUp(g, f, SUBSET I)
  <1> DEFINE Solved(n) == \E g \in [Small(I, n) -> Int] : AddsUp(g, f, Small(I, n))
             N == {n \in Nat : Solved(n)}
  <1>1. \A s \in SUBSET I : IsFiniteSet(s) /\ Cardinality(s) \in Nat
    BY FS_Subset, FS_CardinalityType
  <1>2. Solved(0)
    <2>1. Small(I, 0) = {{}}
      <3>1. \A s \in SUBSET I : Cardinality(s) <= 0 <=> s = {}
        BY <1>1, FS_EmptySet
      <3> QED
        BY <3>1 DEF Small
    <2> DEFINE g == [s \in {{}} |-> 0]
    <2>2. g \in [{{}} -> Int] /\ AddsUp(g, f, {{}})
      BY DEF AddsUp
    <2> QED
      BY <2>1, <2>2
  <1>3. ASSUME NEW n \in Nat, Solved(n)
        PROVE  Solved(n + 1)
    <2>1. PICK g \in [Small(I, n) -> Int] : AddsUp(g, f, Small(I, n))
      BY <1>3
    <2> DEFINE h == [s \in Small(I, n + 1) |->
                        IF s = {} THEN 0 ELSE f[Picked(s)] + g[s \ {Picked(s)}]]
    <2>2. Small(I, n) \subseteq Small(I, n + 1)
      BY <1>1 DEF Small
    <2>3. ASSUME NEW s \in Small(I, n)
          PROVE  h[s] = g[s]
      BY <2>1, <2>2, <2>3, Values
    <2>4. ASSUME NEW s \in Small(I, n + 1), s # {}
          PROVE  Picked(s) \in I /\ s \ {Picked(s)} \in Small(I, n)
      <3>1. s \in SUBSET I /\ Picked(s) \in s /\ Cardinality(s) <= n + 1
        BY <2>4 DEF Small, Picked
      <3>2. Cardinality(s \ {Picked(s)}) = Cardinality(s) - 1
        BY <1>1, <3>1, FS_RemoveElement
      <3> QED
        BY <1>1, <3>1, <3>2 DEF Small
    <2>5. h \in [Small(I, n + 1) -> Int]
      <3>1. ASSUME NEW s \in Small(I, n + 1)
            PROVE  (IF s = {} THEN 0 ELSE f[Picked(s)] + g[s \ {Picked(s)}]) \in Int
        BY <2>1, <2>4
      <3> QED
        BY <3>1
    <2>6. AddsUp(h, f, Small(I, n + 1))
      <3>1. ASSUME NEW s \in Small(I, n + 1)
            PROVE  (IF s = {} THEN 0 ELSE f[Picked(s)] + g[s \ {Picked(s)}])
                     = (IF s = {} THEN 0 ELSE f[Picked(s)] + h[s \ {Picked(s)}])
        BY <2>3, <2>4
      <3> HIDE DEF h
      <3>2. h = [s \in Small(I, n + 1) |->
                     IF s = {} THEN 0 ELSE f[Picked(s)] + h[s \ {Picked(s)}]]
        BY <3>1 DEF h
      <3> QED
        BY <3>2 DEF AddsUp
    <2> QED
      BY <2>5, <2>6
  <1>4. Nat \subseteq N
    <2> HIDE DEF Solved
    <2>1. 0 \in N /\ \A n \in Nat : n \in N => n + 1 \in N
      BY <1>2, <1>3
    <2> HIDE DEF N
    <2> QED
      BY <2>1, NatSteps
  <1>5. Cardinality(I) \in N /\ Small(I, Cardinality(I)) = SUBSET I
    <2>1. \A s \in SUBSET I : Cardinality(s) <= Cardinality(I)
      BY FS_Subset
    <2> HIDE DEF N
    <2> QED
      BY <1>1, <1>4, <2>1 DEF Small
  <1> QED
    BY <1>5

\* Two solutions agree on the subsets both are defined on.
LEMMA Same ==
    ASSUME NEW D, NEW E, NEW K, IsFiniteSet(K), \A s \in SUBSET K : s \in D /\ s \in E,
           NEW f, NEW e, \A x \in K : f[x] = e[x],
           NEW g, AddsUp(g, f, D), NEW h, AddsUp(h, e, E)
    PROVE  \A s \in SUBSET K : g[s] = h[s]
  <1> DEFINE T == {s \in SUBSET K : g[s] = h[s]}
  <1>1. ASSUME NEW s \in SUBSET K, \A t \in SUBSET s : t # s => t \in T
        PROVE  s \in T
    <2> s \in D /\ s \in E
      OBVIOUS
    <2>0. /\ g[s] = IF s = {} THEN 0 ELSE f[Picked(s)] + g[s \ {Picked(s)}]
          /\ h[s] = IF s = {} THEN 0 ELSE e[Picked(s)] + h[s \ {Picked(s)}]
      <3>1. g[s] = IF s = {} THEN 0 ELSE f[Picked(s)] + g[s \ {Picked(s)}]
        BY Values
      <3>2. h[s] = IF s = {} THEN 0 ELSE e[Picked(s)] + h[s \ {Picked(s)}]
        BY Values
      <3> QED
        BY <3>1, <3>2
    <2>1. CASE s = {}
      BY <2>0, <2>1
    <2>2. CASE s # {}
      <3>1. Picked(s) \in s
        BY <2>2 DEF Picked
      <3>2. g[s \ {Picked(s)}] = h[s \ {Picked(s)}]
        BY <1>1, <3>1
      <3>3. g[s] = f[Picked(s)] + g[s \ {Picked(s)}] /\ h[s] = e[Picked(s)] + h[s \ {Picked(s)}]
        BY <2>0, <2>2
      <3> QED
        BY <3>1, <3>2, <3>3
    <2> QED
      BY <2>1, <2>2
  <1>2. SUBSET K \subseteq T
    <2> HIDE DEF T
    <2> QED
      BY <1>1, SubsetSteps
  <1> QED
    BY <1>2

\* One solution gives the sums of all subsets.
LEMMA SumIs ==
    ASSUME NEW I, IsFiniteSet(I), NEW f, \A x \in I : f[x] \in Int
    PROVE  \E D, g : /\ D = SUBSET I /\ g \in [D -> Int] /\ AddsUp(g, f, D)
                     /\ \A s \in D : SumFunctionOnSet(f, s) = g[s]
  <1>1. PICK g \in [SUBSET I -> Int] : AddsUp(g, f, SUBSET I)
    BY Solution
  <1>2. ASSUME NEW s \in SUBSET I
        PROVE  SumFunctionOnSet(f, s) = g[s]
    <2>1. IsFiniteSet(s)
      BY FS_Subset
    <2>2. \E h : AddsUp(h, f, SUBSET s)
      BY <2>1, Solution
    <2>3. PICK h : AddsUp(h, f, SUBSET s) /\ SumFunctionOnSet(f, s) = h[s]
      BY <2>2, SumDef
    <2>4. \A t \in SUBSET s : g[t] = h[t]
      <3> PICK D, E : D = SUBSET I /\ E = SUBSET s
        OBVIOUS
      <3>1. AddsUp(g, f, D) /\ AddsUp(h, f, E) /\ \A t \in SUBSET s : t \in D /\ t \in E
        BY <1>1, <2>3
      <3> QED
        BY <2>1, <3>1, Same
    <2> QED
      BY <2>3, <2>4
  <1> QED
    BY <1>1, <1>2

-----------------------------------------------------------------------------
\* Nothing to add.
LEMMA SumEmpty ==
    ASSUME NEW f
    PROVE  SumFunctionOnSet(f, {}) = 0
  <1> DEFINE h == [s \in {{}} |-> 0]
  <1>1. AddsUp(h, f, {{}}) /\ SUBSET {} = {{}}
    BY DEF AddsUp
  <1> HIDE DEF h
  <1>2. PICK g : AddsUp(g, f, {{}}) /\ SumFunctionOnSet(f, {}) = g[{}]
    BY <1>1, SumDef
  <1> QED
    BY <1>2 DEF AddsUp

\* Any element of the set may be taken off first.
LEMMA SumSplit ==
    ASSUME NEW I, IsFiniteSet(I), NEW f, \A y \in I : f[y] \in Int, NEW x \in I
    PROVE  /\ SumFunctionOnSet(f, I \ {x}) \in Int
           /\ SumFunctionOnSet(f, I) = f[x] + SumFunctionOnSet(f, I \ {x})
  <1>1. PICK D, g : /\ D = SUBSET I /\ g \in [D -> Int] /\ AddsUp(g, f, D)
                    /\ \A s \in D : SumFunctionOnSet(f, s) = g[s]
    BY SumIs
  <1>2. ASSUME NEW s \in SUBSET I, s # {}
        PROVE  Picked(s) \in s /\ g[s] = f[Picked(s)] + g[s \ {Picked(s)}]
    <2>1. s \in D /\ AddsUp(g, f, D)
      BY <1>1
    <2>2. g[s] = IF s = {} THEN 0 ELSE f[Picked(s)] + g[s \ {Picked(s)}]
      BY <2>1, Values
    <2> QED
      BY <1>2, <2>2 DEF Picked
  <1> DEFINE T == {s \in SUBSET I : \A y \in s : g[s] = f[y] + g[s \ {y}]}
  <1>3. ASSUME NEW s \in SUBSET I, \A t \in SUBSET s : t # s => t \in T
        PROVE  s \in T
    <2>1. ASSUME NEW y \in s
          PROVE  g[s] = f[y] + g[s \ {y}]
      <3> PICK p : p = Picked(s)
        OBVIOUS
      <3>1. p \in s /\ g[s] = f[p] + g[s \ {p}]
        BY <1>2, <2>1
      <3>2. CASE y = p
        BY <3>1, <3>2
      <3>3. CASE y # p
        <4>1. s \ {p} \in T /\ s \ {y} \in T
          BY <1>3, <2>1, <3>1
        <4> PICK r : r = s \ {p, y}
          OBVIOUS
        <4>2. r = (s \ {p}) \ {y} /\ r = (s \ {y}) \ {p} /\ r \in SUBSET I
          OBVIOUS
        <4>3. g[s \ {p}] = f[y] + g[r]
          BY <4>1, <4>2, <3>3
        <4>4. g[s \ {y}] = f[p] + g[r]
          BY <4>1, <4>2, <3>1, <3>3
        <4>5. g[r] \in Int /\ f[y] \in Int /\ f[p] \in Int
          BY <1>1, <3>1, <4>2
        <4> QED
          BY <3>1, <4>3, <4>4, <4>5
      <3> QED
        BY <3>2, <3>3
    <2> QED
      BY <2>1
  <1>4. SUBSET I \subseteq T
    <2> HIDE DEF T
    <2> QED
      BY <1>3, SubsetSteps
  <1>5. g[I] = f[x] + g[I \ {x}]
    BY <1>4
  <1> QED
    BY <1>1, <1>5

\* A sum of integers is one.
LEMMA SumType ==
    ASSUME NEW I, IsFiniteSet(I), NEW f, \A y \in I : f[y] \in Int
    PROVE  SumFunctionOnSet(f, I) \in Int
  BY SumIs

\* Induction over the subsets of a finite set, by the element added last.
LEMMA AddingSteps ==
    ASSUME NEW I, IsFiniteSet(I), NEW T, {} \in T,
           \A s \in SUBSET I : \A x \in I : x \notin s /\ s \in T => s \cup {x} \in T
    PROVE  I \in T
  <1>1. ASSUME NEW s \in SUBSET I, \A t \in SUBSET s : t # s => t \in T
        PROVE  s \in T
    <2>1. CASE s # {}
      <3>1. PICK x \in s : TRUE
        BY <2>1
      <3>2. s \ {x} \in T /\ s = (s \ {x}) \cup {x}
        BY <1>1, <3>1
      <3> QED
        BY <3>2
    <2> QED
      BY <2>1
  <1> QED
    BY <1>1, SubsetSteps

\* An element that was not in the set.
LEMMA SumAdd ==
    ASSUME NEW I, IsFiniteSet(I), NEW x, x \notin I, NEW f,
           \A y \in I : f[y] \in Int, f[x] \in Int
    PROVE  SumFunctionOnSet(f, I \cup {x}) = f[x] + SumFunctionOnSet(f, I)
  <1> PICK J : J = I \cup {x}
    OBVIOUS
  <1>1. IsFiniteSet(J) /\ (\A y \in J : f[y] \in Int) /\ x \in J
    BY FS_AddElement
  <1>2. SumFunctionOnSet(f, J) = f[x] + SumFunctionOnSet(f, J \ {x})
    BY <1>1, SumSplit
  <1>3. J \ {x} = I
    OBVIOUS
  <1> QED
    BY <1>2, <1>3

\* A larger function has a larger sum; equal functions have the same.
LEMMA SumMonotone ==
    ASSUME NEW I, IsFiniteSet(I), NEW f, NEW e,
           \A x \in I : f[x] \in Int /\ e[x] \in Int /\ f[x] <= e[x]
    PROVE  SumFunctionOnSet(f, I) <= SumFunctionOnSet(e, I)
  <1> DEFINE T == {s \in SUBSET I : SumFunctionOnSet(f, s) <= SumFunctionOnSet(e, s)}
  <1>1. {} \in T
    BY SumEmpty
  <1>2. ASSUME NEW s \in SUBSET I, NEW x \in I, x \notin s, s \in T
        PROVE  s \cup {x} \in T
    <2>1. IsFiniteSet(s) /\ \A y \in s : f[y] \in Int /\ e[y] \in Int
      BY FS_Subset
    <2>2. /\ SumFunctionOnSet(f, s \cup {x}) = f[x] + SumFunctionOnSet(f, s)
          /\ SumFunctionOnSet(e, s \cup {x}) = e[x] + SumFunctionOnSet(e, s)
      BY <1>2, <2>1, SumAdd
    <2>3. SumFunctionOnSet(f, s) \in Int /\ SumFunctionOnSet(e, s) \in Int
      BY <2>1, SumType
    <2>4. SumFunctionOnSet(f, s \cup {x}) <= SumFunctionOnSet(e, s \cup {x})
      BY <1>2, <2>2, <2>3
    <2> QED
      BY <1>2, <2>4
  <1>3. I \in T
    <2> HIDE DEF T
    <2> QED
      BY <1>1, <1>2, AddingSteps
  <1> QED
    BY <1>3

\* Functions that agree on the set have the same sum.
LEMMA SumSame ==
    ASSUME NEW I, IsFiniteSet(I), NEW f, NEW e, \A x \in I : f[x] \in Int /\ e[x] = f[x]
    PROVE  SumFunctionOnSet(e, I) = SumFunctionOnSet(f, I)
  <1>1. SumFunctionOnSet(f, I) \in Int /\ SumFunctionOnSet(e, I) \in Int
    BY SumType
  <1>2. SumFunctionOnSet(f, I) <= SumFunctionOnSet(e, I)
    BY SumMonotone
  <1>3. SumFunctionOnSet(e, I) <= SumFunctionOnSet(f, I)
    BY SumMonotone
  <1> QED
    BY <1>1, <1>2, <1>3

\* Functions that differ at one place.
LEMMA SumChange ==
    ASSUME NEW I, IsFiniteSet(I), NEW f, NEW e, NEW x \in I,
           \A y \in I : f[y] \in Int /\ e[y] \in Int,
           \A y \in I \ {x} : e[y] = f[y]
    PROVE  SumFunctionOnSet(e, I) = SumFunctionOnSet(f, I) - f[x] + e[x]
  <1> PICK J : J = I \ {x}
    OBVIOUS
  <1>1. IsFiniteSet(J) /\ \A y \in J : f[y] \in Int /\ e[y] = f[y]
    BY FS_Subset
  <1>2. SumFunctionOnSet(e, J) = SumFunctionOnSet(f, J)
    BY <1>1, SumSame
  <1>3. SumFunctionOnSet(f, J) \in Int /\ SumFunctionOnSet(f, I) = f[x] + SumFunctionOnSet(f, J)
    BY SumSplit
  <1>4. SumFunctionOnSet(e, I) = e[x] + SumFunctionOnSet(e, J)
    BY SumSplit
  <1> QED
    BY <1>2, <1>3, <1>4

\* Sums of naturals.
LEMMA SumNat ==
    ASSUME NEW I, IsFiniteSet(I), NEW f, \A x \in I : f[x] \in Nat
    PROVE  /\ SumFunctionOnSet(f, I) \in Nat
           /\ \A x \in I : f[x] <= SumFunctionOnSet(f, I)
  <1> DEFINE T == {s \in SUBSET I : SumFunctionOnSet(f, s) \in Nat}
  <1>1. {} \in T
    BY SumEmpty
  <1>2. ASSUME NEW s \in SUBSET I, NEW x \in I, x \notin s, s \in T
        PROVE  s \cup {x} \in T
    <2>1. IsFiniteSet(s) /\ f[x] \in Int /\ \A y \in s : f[y] \in Int
      BY FS_Subset
    <2>2. SumFunctionOnSet(f, s \cup {x}) = f[x] + SumFunctionOnSet(f, s)
      BY <1>2, <2>1, SumAdd
    <2> QED
      BY <1>2, <2>2
  <1> HIDE DEF T
  <1>3. \A s \in SUBSET I : s \in T
    <2>1. ASSUME NEW s \in SUBSET I
          PROVE  s \in T
      <3>1. IsFiniteSet(s)
        BY FS_Subset
      <3> QED
        BY <1>1, <1>2, <3>1, AddingSteps
    <2> QED
      BY <2>1
  <1>4. ASSUME NEW x \in I
        PROVE  f[x] <= SumFunctionOnSet(f, I)
    <2>1. SumFunctionOnSet(f, I \ {x}) \in Nat
      BY <1>3 DEF T
    <2>2. SumFunctionOnSet(f, I) = f[x] + SumFunctionOnSet(f, I \ {x})
      BY SumSplit
    <2> QED
      BY <2>1, <2>2
  <1> QED
    BY <1>3, <1>4 DEF T

\* A sum over some of the elements, as a sum over all.
LEMMA SumPadded ==
    ASSUME NEW I, IsFiniteSet(I), NEW J \in SUBSET I, NEW f, NEW e,
           \A x \in J : f[x] \in Int /\ e[x] = f[x],
           \A x \in I \ J : e[x] = 0
    PROVE  SumFunctionOnSet(e, I) = SumFunctionOnSet(f, J)
  <1> DEFINE T == {s \in SUBSET I : SumFunctionOnSet(e, s) = SumFunctionOnSet(f, s \cap J)}
  <1>1. {} \in T
    <2>1. {} \cap J = {}
      OBVIOUS
    <2> QED
      BY <2>1, SumEmpty
  <1>2. ASSUME NEW s \in SUBSET I, NEW x \in I, x \notin s, s \in T
        PROVE  s \cup {x} \in T
    <2>1. IsFiniteSet(s) /\ IsFiniteSet(s \cap J)
      BY FS_Subset
    <2>2. e[x] \in Int /\ \A y \in s : e[y] \in Int
      OBVIOUS
    <2>3. SumFunctionOnSet(e, s \cup {x}) = e[x] + SumFunctionOnSet(e, s)
      BY <1>2, <2>1, <2>2, SumAdd
    <2>4. CASE x \in J
      <3> PICK r : r = s \cap J
        OBVIOUS
      <3>1. (s \cup {x}) \cap J = r \cup {x} /\ x \notin r /\ IsFiniteSet(r)
        BY <1>2, <2>1, <2>4
      <3>2. f[x] \in Int /\ \A y \in r : f[y] \in Int
        BY <2>4
      <3>3. SumFunctionOnSet(f, r \cup {x}) = f[x] + SumFunctionOnSet(f, r)
        BY <3>1, <3>2, SumAdd
      <3> QED
        BY <1>2, <2>3, <2>4, <3>1, <3>3
    <2>5. CASE x \notin J
      <3>1. (s \cup {x}) \cap J = s \cap J /\ e[x] = 0
        BY <2>5
      <3>2. SumFunctionOnSet(e, s) \in Int
        BY <2>1, <2>2, SumType
      <3>3. SumFunctionOnSet(e, s \cup {x}) = SumFunctionOnSet(e, s)
        BY <2>3, <3>1, <3>2
      <3>4. SumFunctionOnSet(e, s) = SumFunctionOnSet(f, s \cap J)
        BY <1>2
      <3>5. SumFunctionOnSet(f, (s \cup {x}) \cap J) = SumFunctionOnSet(f, s \cap J)
        BY <3>1
      <3> QED
        BY <3>3, <3>4, <3>5
    <2> QED
      BY <2>4, <2>5
  <1>3. I \in T
    <2> HIDE DEF T
    <2> QED
      BY <1>1, <1>2, AddingSteps
  <1>4. I \cap J = J
    OBVIOUS
  <1> QED
    BY <1>3, <1>4

\* A sum of zeros.
LEMMA SumZero ==
    ASSUME NEW I, IsFiniteSet(I), NEW f, \A x \in I : f[x] = 0
    PROVE  SumFunctionOnSet(f, I) = 0
  <1> PICK J : J = {}
    OBVIOUS
  <1>1. J \in SUBSET I
    OBVIOUS
  <1>2. /\ \A x \in J : f[x] \in Int /\ f[x] = f[x]
        /\ \A x \in I \ J : f[x] = 0
    OBVIOUS
  <1>3. SumFunctionOnSet(f, I) = SumFunctionOnSet(f, J)
    BY <1>1, <1>2, SumPadded
  <1> QED
    BY <1>3, SumEmpty

LEMMA SumMinus ==
    ASSUME NEW I, IsFiniteSet(I), NEW f, NEW g, NEW e,
           \A x \in I : f[x] \in Int /\ g[x] \in Int /\ e[x] = f[x] - g[x]
    PROVE  SumFunctionOnSet(e, I) = SumFunctionOnSet(f, I) - SumFunctionOnSet(g, I)
  <1> DEFINE T == {s \in SUBSET I : SumFunctionOnSet(e, s)
                                      = SumFunctionOnSet(f, s) - SumFunctionOnSet(g, s)}
  <1>1. {} \in T
    BY SumEmpty
  <1>2. ASSUME NEW s \in SUBSET I, NEW x \in I, x \notin s, s \in T
        PROVE  s \cup {x} \in T
    <2>1. IsFiniteSet(s)
      BY FS_Subset
    <2>2. \A y \in I : f[y] \in Int /\ g[y] \in Int /\ e[y] \in Int /\ e[y] = f[y] - g[y]
      OBVIOUS
    <2>3. SumFunctionOnSet(f, s) \in Int /\ SumFunctionOnSet(g, s) \in Int
      BY <2>1, <2>2, SumType
    <2>4. SumFunctionOnSet(f, s \cup {x}) = f[x] + SumFunctionOnSet(f, s)
      BY <1>2, <2>1, <2>2, SumAdd
    <2>5. SumFunctionOnSet(g, s \cup {x}) = g[x] + SumFunctionOnSet(g, s)
      BY <1>2, <2>1, <2>2, SumAdd
    <2>6. SumFunctionOnSet(e, s \cup {x}) = e[x] + SumFunctionOnSet(e, s)
      BY <1>2, <2>1, <2>2, SumAdd
    <2> QED
      BY <1>2, <2>2, <2>3, <2>4, <2>5, <2>6
  <1>3. I \in T
    <2> HIDE DEF T
    <2> QED
      BY <1>1, <1>2, AddingSteps
  <1> QED
    BY <1>3

\* q is r, but for n more at c; c may be outside the set when n is 0.
Grown(J, c, n, r, q) ==
    /\ n \in Int /\ (n = 0 \/ c \in J)
    /\ \A p \in J : r[p] \in Int /\ q[p] \in Int
    /\ \A p \in J : p = c => q[p] = n + r[p]
    /\ \A p \in J : p # c => q[p] = r[p]

LEMMA SumGrows ==
    ASSUME NEW J, IsFiniteSet(J), NEW c, NEW n, NEW r, NEW q, Grown(J, c, n, r, q)
    PROVE  SumFunctionOnSet(q, J) = n + SumFunctionOnSet(r, J)
  <1> n \in Int /\ (n = 0 \/ c \in J)
    BY DEF Grown
  <1>1. \A p \in J : r[p] \in Int /\ q[p] \in Int
    BY DEF Grown
  <1>2. SumFunctionOnSet(r, J) \in Int
    BY <1>1, SumType
  <1>3. \A p \in J : c # p => q[p] = r[p]
    BY DEF Grown
  <1>4. CASE c \in J
    <2>1. \A p \in J \ {c} : q[p] = r[p]
      BY <1>3
    <2>2. q[c] = n + r[c] /\ r[c] \in Int
      BY <1>4 DEF Grown
    <2>3. SumFunctionOnSet(q, J) = SumFunctionOnSet(r, J) - r[c] + q[c]
      BY <1>1, <1>4, <2>1, SumChange
    <2> QED
      BY <1>2, <2>2, <2>3
  <1>5. CASE c \notin J
    <2>1. \A p \in J : q[p] = r[p]
      BY <1>3, <1>5
    <2>2. SumFunctionOnSet(q, J) = SumFunctionOnSet(r, J)
      BY <1>1, <2>1, SumSame
    <2> QED
      BY <1>2, <1>5, <2>2
  <1> QED
    BY <1>4, <1>5

\* A sum taken class by class: each x with a weight belongs to one class, in J.
LEMMA SumByClass ==
    ASSUME NEW I, IsFiniteSet(I), NEW J, IsFiniteSet(J), NEW w, NEW class, NEW part, NEW m,
           \A x \in I : w[x] \in Int /\ (w[x] = 0 \/ class[x] \in J),
           \A p \in J : \A x \in I : part[p][x] = IF class[x] = p THEN w[x] ELSE 0,
           \A p \in J : m[p] = SumFunctionOnSet(part[p], I)
    PROVE  SumFunctionOnSet(m, J) = SumFunctionOnSet(w, I)
  <1> DEFINE R(s) == [p \in J |-> SumFunctionOnSet(part[p], s)]
             T == {s \in SUBSET I : SumFunctionOnSet(R(s), J) = SumFunctionOnSet(w, s)}
  <1>1. \A p \in J : \A x \in I : part[p][x] \in Int
    OBVIOUS
  <1>2. {} \in T
    <2>1. \A p \in J : R({})[p] = 0
      BY SumEmpty
    <2> HIDE DEF R
    <2>2. SumFunctionOnSet(R({}), J) = 0
      BY <2>1, SumZero
    <2> QED
      BY <2>2, SumEmpty
  <1>3. ASSUME NEW s \in SUBSET I, NEW x \in I, x \notin s, s \in T
        PROVE  s \cup {x} \in T
    <2> PICK u : u = s \cup {x}
      OBVIOUS
    <2>1. IsFiniteSet(s) /\ u \in SUBSET I
      BY FS_Subset
    <2>2. SumFunctionOnSet(w, u) = w[x] + SumFunctionOnSet(w, s)
      BY <1>3, <2>1, SumAdd
    <2>3. ASSUME NEW p \in J
          PROVE  /\ R(s)[p] \in Int /\ R(u)[p] \in Int
                 /\ R(u)[p] = part[p][x] + R(s)[p]
      <3>1. \A y \in s : part[p][y] \in Int
        BY <1>1
      <3>2. SumFunctionOnSet(part[p], s) \in Int
        BY <2>1, <3>1, SumType
      <3>3. SumFunctionOnSet(part[p], u) = part[p][x] + SumFunctionOnSet(part[p], s)
        BY <1>1, <1>3, <2>1, <3>1, SumAdd
      <3> QED
        BY <1>1, <3>2, <3>3
    <2> PICK r, q : r = R(s) /\ q = R(u)
      OBVIOUS
    <2>4. SumFunctionOnSet(r, J) = SumFunctionOnSet(w, s)
      BY <1>3
    <2>5. ASSUME NEW p \in J
          PROVE  r[p] \in Int /\ q[p] \in Int /\ q[p] = (IF class[x] = p THEN w[x] ELSE 0) + r[p]
      <3>1. part[p][x] = IF class[x] = p THEN w[x] ELSE 0
        OBVIOUS
      <3> HIDE DEF R
      <3> QED
        BY <2>3, <3>1
    <2>6. w[x] \in Int /\ (w[x] = 0 \/ class[x] \in J)
      OBVIOUS
    <2> HIDE DEF R
    <2>7. SumFunctionOnSet(q, J) = w[x] + SumFunctionOnSet(r, J)
      <3> PICK c, n : c = class[x] /\ n = w[x]
        OBVIOUS
      <3>1. n \in Int /\ (n = 0 \/ c \in J)
        BY <2>6
      <3>2. \A p \in J : r[p] \in Int /\ q[p] \in Int
        BY <2>5
      <3>3. ASSUME NEW p \in J
            PROVE  (p = c => q[p] = n + r[p]) /\ (p # c => q[p] = r[p])
        <4>1. r[p] \in Int /\ q[p] = (IF c = p THEN n ELSE 0) + r[p]
          BY <2>5
        <4> QED
          BY <4>1
      <3>4. Grown(J, c, n, r, q)
        BY <3>1, <3>2, <3>3 DEF Grown
      <3>5. SumFunctionOnSet(q, J) = n + SumFunctionOnSet(r, J)
        BY <3>4, SumGrows
      <3> QED
        BY <3>5
    <2>8. SumFunctionOnSet(q, J) = SumFunctionOnSet(w, u)
      BY <2>2, <2>4, <2>7
    <2> QED
      BY <2>1, <2>8
  <1>4. I \in T
    <2> HIDE DEF T
    <2> QED
      BY <1>2, <1>3, AddingSteps
  <1>5. \A p \in J : m[p] = R(I)[p] /\ R(I)[p] \in Int
    BY <1>1, SumType
  <1> HIDE DEF R
  <1>6. SumFunctionOnSet(m, J) = SumFunctionOnSet(R(I), J)
    BY <1>5, SumSame
  <1> QED
    BY <1>4, <1>6

\* A sum over pairs of an element and its value.
LEMMA SumOfPairs ==
    ASSUME NEW I, IsFiniteSet(I), NEW f, \A x \in I : f[x] \in Int,
           NEW P, P = {<<x, f[x]>> : x \in I}, NEW g, \A z \in P : g[z] = z[2]
    PROVE  SumFunctionOnSet(g, P) = SumFunctionOnSet(f, I)
  <1> DEFINE Pairs(s) == {<<x, f[x]>> : x \in s}
             T == {s \in SUBSET I : /\ IsFiniteSet(Pairs(s))
                                    /\ SumFunctionOnSet(g, Pairs(s)) = SumFunctionOnSet(f, s)}
  <1>1. {} \in T
    <2>1. Pairs({}) = {} /\ IsFiniteSet({})
      BY FS_EmptySet
    <2> QED
      BY <2>1, SumEmpty
  <1>2. ASSUME NEW s \in SUBSET I, NEW x \in I, x \notin s, s \in T
        PROVE  s \cup {x} \in T
    <2> PICK z, Q, u : z = <<x, f[x]>> /\ Q = Pairs(s) /\ u = s \cup {x}
      OBVIOUS
    <2>1. /\ z \notin Q /\ z \in P /\ z[2] = f[x] /\ Q \subseteq P
          /\ Pairs(u) = Q \cup {z} /\ u \in SUBSET I /\ u = s \cup {x}
      BY <1>2
    <2>2. IsFiniteSet(s) /\ IsFiniteSet(Q)
      BY <1>2, FS_Subset
    <2>3. SumFunctionOnSet(g, Q) = SumFunctionOnSet(f, s)
      BY <1>2
    <2>4. (\A y \in Q : g[y] \in Int) /\ g[z] = f[x] /\ f[x] \in Int
      BY <2>1
    <2> HIDE DEF Pairs
    <2>5. SumFunctionOnSet(g, Q \cup {z}) = g[z] + SumFunctionOnSet(g, Q)
      BY <2>1, <2>2, <2>4, SumAdd
    <2>6. SumFunctionOnSet(f, s \cup {x}) = f[x] + SumFunctionOnSet(f, s)
      BY <1>2, <2>2, SumAdd
    <2>7. IsFiniteSet(Q \cup {z})
      BY <2>2, FS_AddElement
    <2> QED
      BY <2>1, <2>3, <2>4, <2>5, <2>6, <2>7
  <1>3. I \in T
    <2> HIDE DEF T
    <2> QED
      BY <1>1, <1>2, AddingSteps
  <1> QED
    BY <1>3
=============================================================================
