--------------------------- MODULE OperatorProofs ---------------------------
(***************************************************************************)
(* Facts about the operators the models share: the sums of module Sums,    *)
(* and what the operators of module Orderbook return.  The induction       *)
(* theorems of the library take an operator as a parameter, so every       *)
(* induction here is an argument about a least counterexample.             *)
(***************************************************************************)
EXTENDS Orderbook, FiniteSetTheorems, SequenceTheorems, WellFoundedInduction, TLAPS

-----------------------------------------------------------------------------
(* Sums *)

\* Every set of natural numbers with an element has a least one.
LEMMA LeastNumber ==
  ASSUME NEW T \in SUBSET Nat, T # {}
  PROVE  \E m \in T : \A k \in T : m <= k
<1>1. IsWellFoundedOn(OpToRel(<, Nat), Nat)
  BY NatLessThanWellFounded
<1>2. PICK m \in T : \A k \in T : <<k, m>> \notin OpToRel(<, Nat)
  BY <1>1, WFMin, Zenon
<1>3. \A k \in T : ~(k < m)
  BY <1>2 DEF OpToRel
<1>4. T \subseteq Nat /\ m \in Nat
  OBVIOUS
<1>5. \A k \in T : m <= k
  <2> TAKE k \in T
  <2>1. k \in Nat /\ ~(k < m)
    BY <1>3, <1>4
  <2> QED
    BY <1>4, <2>1
<1> QED
  BY <1>5

\* The recursion of RunningSum is well founded: it is the function its
\* equation describes.
LEMMA RunningSumEquation ==
  ASSUME NEW w \in Seq(Int)
  PROVE  RunningSum(w) = [i \in 0..Len(w) |->
                            IF i = 0 THEN 0 ELSE RunningSum(w)[i - 1] + w[i]]
<1> DEFINE Solves(g, n) == g = [i \in 0..n |-> IF i = 0 THEN 0 ELSE g[i - 1] + w[i]]
           Bad == {n \in 0..Len(w) : ~ \E g : Solves(g, n)}
<1>1. Bad = {}
  <2>1. SUFFICES ASSUME Bad # {} PROVE FALSE
    OBVIOUS
  <2>2. PICK m \in Bad : \A k \in Bad : m <= k
    <3>1. Bad \in SUBSET Nat
      OBVIOUS
    <3> HIDE DEF Bad
    <3> QED
      BY <2>1, <3>1, LeastNumber
  <2>3. m \in 0..Len(w) /\ ~ \E g : Solves(g, m)
    BY <2>2
  <2>4. CASE m = 0
    <3> DEFINE h == [i \in 0..0 |-> 0]
    <3>1. Solves(h, 0)
      OBVIOUS
    <3> QED
      BY <2>3, <2>4, <3>1
  <2>5. CASE m # 0
    <3>1. m - 1 \in 0..Len(w) /\ m - 1 \notin Bad
      <4>1. m \in Nat /\ ~(m <= m - 1)
        BY <2>3
      <4>2. m - 1 \in 0..Len(w)
        BY <2>3, <2>5
      <4> HIDE DEF Bad
      <4> QED
        BY <2>2, <4>1, <4>2
    <3>2. PICK g : Solves(g, m - 1)
      BY <3>1
    <3> DEFINE h == [i \in 0..m |-> IF i = m THEN g[m - 1] + w[m] ELSE g[i]]
    <3>3. \A i \in 0..(m - 1) : g[i] = IF i = 0 THEN 0 ELSE g[i - 1] + w[i]
      BY <3>2
    <3>4. \A i \in 0..m : h[i] = IF i = 0 THEN 0 ELSE h[i - 1] + w[i]
      BY <2>3, <2>5, <3>3
    <3>5. h = [i \in 0..m |-> IF i = 0 THEN 0 ELSE h[i - 1] + w[i]]
      BY <3>4
    <3> QED
      BY <2>3, <3>5
  <2> QED
    BY <2>4, <2>5
<1>2. \E g : Solves(g, Len(w))
  BY <1>1
<1>3. RunningSum(w) = CHOOSE g : Solves(g, Len(w))
  BY DEF RunningSum
<1> QED
  BY <1>2, <1>3

\* A running sum of integers is an integer at every position.
LEMMA RunningSumType ==
  ASSUME NEW w \in Seq(Int)
  PROVE  /\ RunningSum(w) \in [0..Len(w) -> Int]
         /\ RunningSum(w)[0] = 0
         /\ \A i \in 1..Len(w) : RunningSum(w)[i] = RunningSum(w)[i - 1] + w[i]
<1> DEFINE s == RunningSum(w)
           Bad == {n \in 0..Len(w) : s[n] \notin Int}
<1>1. s = [i \in 0..Len(w) |-> IF i = 0 THEN 0 ELSE s[i - 1] + w[i]]
  BY RunningSumEquation
<1>2. s[0] = 0 /\ \A i \in 1..Len(w) : s[i] = s[i - 1] + w[i]
  <2>1. Len(w) \in Nat
    OBVIOUS
  <2> HIDE DEF s
  <2>2. \A i \in 0..Len(w) : s[i] = IF i = 0 THEN 0 ELSE s[i - 1] + w[i]
    BY <1>1
  <2> QED
    BY <2>1, <2>2
<1>3. Bad = {}
  <2>1. SUFFICES ASSUME Bad # {} PROVE FALSE
    OBVIOUS
  <2>2. PICK m \in Bad : \A k \in Bad : m <= k
    <3>1. Bad \in SUBSET Nat
      OBVIOUS
    <3> HIDE DEF Bad
    <3> QED
      BY <2>1, <3>1, LeastNumber
  <2>3. m \in 1..Len(w) /\ m - 1 \in 0..Len(w) /\ m - 1 \notin Bad
    BY <1>2, <2>2
  <2> HIDE DEF s
  <2>4. s[m - 1] \in Int /\ w[m] \in Int
    BY <2>3
  <2> QED
    BY <1>2, <2>2, <2>3, <2>4
<1> QED
  <2> HIDE DEF s
  <2>1. s \in [0..Len(w) -> Int]
    BY <1>1, <1>3
  <2> QED
    BY <2>1, <1>2 DEF s

LEMMA TotalType ==
  ASSUME NEW w \in Seq(Int)
  PROVE  Total(w) \in Int
BY RunningSumType DEF Total

-----------------------------------------------------------------------------
(* Sums over finite sets *)

\* Induction over 0..n, for a set of numbers in place of a predicate.
LEMMA UpTo ==
  ASSUME NEW n \in Nat, NEW T, 0 \in T, \A k \in 1..n : k - 1 \in T => k \in T
  PROVE  \A k \in 0..n : k \in T
<1> DEFINE Bad == {k \in 0..n : k \notin T}
<1>1. SUFFICES ASSUME Bad # {} PROVE FALSE
  OBVIOUS
<1>2. PICK m \in Bad : \A k \in Bad : m <= k
  <2>1. Bad \in SUBSET Nat
    OBVIOUS
  <2> HIDE DEF Bad
  <2> QED
    BY <1>1, <2>1, LeastNumber
<1>3. m \in 1..n /\ m - 1 \in 0..n /\ ~(m <= m - 1)
  BY <1>2
<1> QED
  BY <1>2, <1>3

\* Induction over the subsets of a finite set: a family that has every subset
\* whose one-element removals it has, has them all.
LEMMA SubsetInduction ==
  ASSUME NEW U, IsFiniteSet(U), NEW T,
         \A s \in SUBSET U : (\A x \in s : s \ {x} \in T) => s \in T
  PROVE  \A s \in SUBSET U : s \in T
<1> DEFINE N == {k \in Nat : \A s \in SUBSET U : Cardinality(s) = k => s \in T}
<1>1. \A s \in SUBSET U : IsFiniteSet(s) /\ Cardinality(s) \in Nat
  BY FS_Subset, FS_CardinalityType
<1>2. 0 \in N
  <2> SUFFICES ASSUME NEW s \in SUBSET U, Cardinality(s) = 0 PROVE s \in T
    OBVIOUS
  <2>1. s = {}
    BY <1>1, FS_EmptySet
  <2> QED
    BY <2>1
<1>3. ASSUME NEW n \in Nat PROVE \A k \in 1..n : k - 1 \in N => k \in N
  <2> SUFFICES ASSUME NEW k \in 1..n, k - 1 \in N, NEW s \in SUBSET U, Cardinality(s) = k
               PROVE  s \in T
    OBVIOUS
  <2>1. \A x \in s : Cardinality(s \ {x}) = k - 1
    BY <1>1, FS_RemoveElement
  <2> QED
    BY <2>1
<1> SUFFICES ASSUME NEW s \in SUBSET U PROVE s \in T
  OBVIOUS
<1>4. Cardinality(s) \in 0..Cardinality(s) /\ Cardinality(s) \in Nat
  BY <1>1
<1> HIDE DEF N
<1>5. Cardinality(s) \in N
  BY <1>2, <1>3, <1>4, UpTo
<1> QED
  BY <1>5 DEF N

Picked(s) == CHOOSE x \in s : TRUE

\* The sums of all the subsets of U, by the equation of MapThenFoldSet.
SumsOf(U, f) ==
  CHOOSE g : g = [s \in SUBSET U |-> IF s = {} THEN 0
                                     ELSE f[Picked(s)] + g[s \ {Picked(s)}]]

LEMMA SumOverIsSumsOf ==
  ASSUME NEW U, NEW f
  PROVE  SumOver(U, f) = SumsOf(U, f)[U]
BY DEF SumOver, SumsOf, Picked, MapThenSumSet, MapThenFoldSet

\* The recursion is well founded: SumsOf is the function its equation describes.
LEMMA SumsOfEquation ==
  ASSUME NEW U, IsFiniteSet(U), NEW f
  PROVE  \A s \in SUBSET U :
           SumsOf(U, f)[s] = IF s = {} THEN 0
                             ELSE f[Picked(s)] + SumsOf(U, f)[s \ {Picked(s)}]
<1> DEFINE Upto(n) == {s \in SUBSET U : Cardinality(s) <= n}
           Solves(g, D) == g = [s \in D |-> IF s = {} THEN 0
                                            ELSE f[Picked(s)] + g[s \ {Picked(s)}]]
           N == {n \in Nat : \E g : Solves(g, Upto(n))}
<1>1. \A s \in SUBSET U : IsFiniteSet(s) /\ Cardinality(s) \in Nat
  BY FS_Subset, FS_CardinalityType
<1>2. \A s \in SUBSET U : s # {} =>
        /\ Picked(s) \in s /\ s \ {Picked(s)} \in SUBSET U
        /\ Cardinality(s \ {Picked(s)}) = Cardinality(s) - 1
  <2> TAKE s \in SUBSET U
  <2> SUFFICES ASSUME s # {} PROVE /\ Picked(s) \in s /\ s \ {Picked(s)} \in SUBSET U
                                   /\ Cardinality(s \ {Picked(s)}) = Cardinality(s) - 1
    OBVIOUS
  <2>1. Picked(s) \in s
    BY DEF Picked
  <2> QED
    BY <1>1, <2>1, FS_RemoveElement
<1>3. 0 \in N
  <2> DEFINE g == [s \in Upto(0) |-> 0]
  <2>1. \A s \in Upto(0) : s = {}
    BY <1>1, FS_EmptySet
  <2>2. Solves(g, Upto(0))
    <3> HIDE DEF Upto
    <3> QED
      BY <2>1
  <2> QED
    BY <2>2
<1>4. ASSUME NEW n \in Nat, n \in N PROVE n + 1 \in N
  <2>1. PICK g : Solves(g, Upto(n))
    BY <1>4
  <2> DEFINE h == [s \in Upto(n + 1) |-> IF s = {} THEN 0
                                         ELSE f[Picked(s)] + g[s \ {Picked(s)}]]
  <2>2. \A s \in Upto(n) : s \in Upto(n + 1)
    BY <1>1
  <2>3. \A s \in Upto(n + 1) : s # {} => s \ {Picked(s)} \in Upto(n)
    BY <1>1, <1>2
  <2> HIDE DEF Upto
  <2>4. \A s \in Upto(n) : g[s] = h[s]
    BY <2>1, <2>2
  <2>5. \A s \in Upto(n + 1) : h[s] = IF s = {} THEN 0
                                      ELSE f[Picked(s)] + h[s \ {Picked(s)}]
    BY <2>3, <2>4
  <2>6. \E k : Solves(k, Upto(n + 1))
    BY <2>5
  <2> HIDE DEF Solves
  <2> QED
    BY <2>6
<1>5. Cardinality(U) \in N
  <2>1. Cardinality(U) \in Nat /\ Cardinality(U) \in 0..Cardinality(U)
    BY <1>1
  <2>2. \A k \in 1..Cardinality(U) : k - 1 \in N => k \in N
    <3> TAKE k \in 1..Cardinality(U)
    <3> SUFFICES ASSUME k - 1 \in N PROVE k \in N
      OBVIOUS
    <3>1. k - 1 \in Nat /\ (k - 1) + 1 = k
      BY <2>1
    <3> HIDE DEF N
    <3> QED
      BY <1>4, <3>1
  <2> HIDE DEF N
  <2> QED
    BY <1>3, <2>1, <2>2, UpTo
<1>6. Upto(Cardinality(U)) = SUBSET U
  <2>1. \A s \in SUBSET U : Cardinality(s) <= Cardinality(U)
    BY FS_Subset
  <2> QED
    BY <2>1
<1>7. \E g : Solves(g, SUBSET U)
  <2> HIDE DEF Upto, Solves
  <2> QED
    BY <1>5, <1>6
<1>8. SumsOf(U, f) = CHOOSE g : Solves(g, SUBSET U)
  BY DEF SumsOf
<1>9. Solves(SumsOf(U, f), SUBSET U)
  <2> HIDE DEF Solves
  <2> QED
    BY <1>7, <1>8
<1> QED
  BY <1>9

\* A sum over s is the same in every family it belongs to.
LEMMA SumOverInFamily ==
  ASSUME NEW U, IsFiniteSet(U), NEW f, NEW t \in SUBSET U
  PROVE  SumOver(t, f) = SumsOf(U, f)[t]
<1>0. \A s \in SUBSET U : SumsOf(U, f)[s] = IF s = {} THEN 0
                         ELSE f[Picked(s)] + SumsOf(U, f)[s \ {Picked(s)}]
  BY SumsOfEquation
<1>1. IsFiniteSet(t)
  BY FS_Subset
<1> DEFINE T == {s \in SUBSET t : SumsOf(t, f)[s] = SumsOf(U, f)[s]}
<1>2. \A s \in SUBSET t : (\A x \in s : s \ {x} \in T) => s \in T
  <2> TAKE s \in SUBSET t
  <2> SUFFICES ASSUME \A x \in s : s \ {x} \in T
               PROVE  SumsOf(t, f)[s] = SumsOf(U, f)[s]
    OBVIOUS
  <2>1. s # {} => SumsOf(t, f)[s \ {Picked(s)}] = SumsOf(U, f)[s \ {Picked(s)}]
    <3>1. s # {} => Picked(s) \in s
      BY DEF Picked
    <3> QED
      BY <3>1
  <2>2. SumsOf(t, f)[s] = IF s = {} THEN 0
                          ELSE f[Picked(s)] + SumsOf(t, f)[s \ {Picked(s)}]
    BY <1>1, SumsOfEquation
  <2>3. SumsOf(U, f)[s] = IF s = {} THEN 0
                          ELSE f[Picked(s)] + SumsOf(U, f)[s \ {Picked(s)}]
    <3>1. s \in SUBSET U
      OBVIOUS
    <3> QED
      BY <1>0, <3>1, Zenon
  <2> QED
    BY <2>1, <2>2, <2>3, Zenon
<1>3. t \in T
  <2> HIDE DEF T
  <2>1. \A s \in SUBSET t : s \in T
    BY <1>1, <1>2, SubsetInduction
  <2> QED
    BY <2>1
<1> QED
  BY <1>3, SumOverIsSumsOf

LEMMA SumOverEmpty ==
  ASSUME NEW f
  PROVE  SumOver({}, f) = 0
BY FS_EmptySet, SumOverIsSumsOf, SumsOfEquation

LEMMA SumOverPicked ==
  ASSUME NEW S, IsFiniteSet(S), NEW f, S # {}
  PROVE  /\ Picked(S) \in S
         /\ SumOver(S, f) = f[Picked(S)] + SumOver(S \ {Picked(S)}, f)
<1>1. Picked(S) \in S
  BY DEF Picked
<1>2. SumsOf(S, f)[S] = f[Picked(S)] + SumsOf(S, f)[S \ {Picked(S)}]
  BY SumsOfEquation
<1>3. SumsOf(S, f)[S \ {Picked(S)}] = SumOver(S \ {Picked(S)}, f)
  BY SumOverInFamily
<1> QED
  BY <1>1, <1>2, <1>3, SumOverIsSumsOf

\* A sum of integers is one.
LEMMA SumOverType ==
  ASSUME NEW S, IsFiniteSet(S), NEW f, \A x \in S : f[x] \in Int
  PROVE  SumOver(S, f) \in Int
<1> DEFINE T == {s \in SUBSET S : SumOver(s, f) \in Int}
<1>1. \A s \in SUBSET S : (\A x \in s : s \ {x} \in T) => s \in T
  <2> TAKE s \in SUBSET S
  <2> SUFFICES ASSUME \A x \in s : s \ {x} \in T PROVE SumOver(s, f) \in Int
    OBVIOUS
  <2>1. CASE s = {}
    BY <2>1, SumOverEmpty
  <2>2. CASE s # {}
    <3>1. IsFiniteSet(s)
      BY FS_Subset
    <3>2. Picked(s) \in s /\ SumOver(s, f) = f[Picked(s)] + SumOver(s \ {Picked(s)}, f)
      BY <2>2, <3>1, SumOverPicked
    <3>3. f[Picked(s)] \in Int /\ SumOver(s \ {Picked(s)}, f) \in Int
      BY <3>2
    <3> QED
      BY <3>2, <3>3
  <2> QED
    BY <2>1, <2>2
<1>2. \A s \in SUBSET S : s \in T
  <2> HIDE DEF T
  <2> QED
    BY <1>1, SubsetInduction
<1> QED
  BY <1>2

\* It does not matter which element is added last.
LEMMA SumOverRemove ==
  ASSUME NEW S, IsFiniteSet(S), NEW f, \A x \in S : f[x] \in Int
  PROVE  \A x \in S : SumOver(S, f) = f[x] + SumOver(S \ {x}, f)
<1> DEFINE T == {s \in SUBSET S : \A x \in s : SumOver(s, f) = f[x] + SumOver(s \ {x}, f)}
<1>0. \A s \in SUBSET S : IsFiniteSet(s) /\ SumOver(s, f) \in Int
  BY FS_Subset, SumOverType
<1>1. \A s \in SUBSET S : (\A x \in s : s \ {x} \in T) => s \in T
  <2> SUFFICES ASSUME NEW s \in SUBSET S, \A x \in s : s \ {x} \in T, NEW x \in s
               PROVE  SumOver(s, f) = f[x] + SumOver(s \ {x}, f)
    OBVIOUS
  <2> DEFINE c == Picked(s)
  <2>1. c \in s /\ SumOver(s, f) = f[c] + SumOver(s \ {c}, f)
    BY <1>0, SumOverPicked
  <2> HIDE DEF c
  <2>2. CASE x = c
    BY <2>1, <2>2
  <2>3. CASE x # c
    <3>1. SumOver(s \ {c}, f) = f[x] + SumOver((s \ {c}) \ {x}, f)
      BY <2>1, <2>3
    <3>2. SumOver(s \ {x}, f) = f[c] + SumOver((s \ {x}) \ {c}, f)
      BY <2>1, <2>3
    <3>3. (s \ {c}) \ {x} = (s \ {x}) \ {c}
      OBVIOUS
    <3>4. f[x] \in Int /\ f[c] \in Int /\ SumOver((s \ {c}) \ {x}, f) \in Int
      BY <1>0, <2>1
    <3> QED
      BY <2>1, <3>1, <3>2, <3>3, <3>4, SMTT(30)
  <2> QED
    BY <2>2, <2>3
<1>2. S \in T
  <2> HIDE DEF T
  <2>1. \A s \in SUBSET S : s \in T
    BY <1>1, SubsetInduction
  <2> QED
    BY <2>1
<1> QED
  BY <1>2

LEMMA SumOverAdd ==
  ASSUME NEW S, IsFiniteSet(S), NEW x, x \notin S, NEW f, \A y \in S \cup {x} : f[y] \in Int
  PROVE  SumOver(S \cup {x}, f) = SumOver(S, f) + f[x]
<1>1. IsFiniteSet(S \cup {x}) /\ (S \cup {x}) \ {x} = S
  BY FS_AddElement
<1>2. SumOver(S \cup {x}, f) = f[x] + SumOver(S, f)
  BY <1>1, SumOverRemove
<1>3. f[x] \in Int /\ SumOver(S, f) \in Int
  BY SumOverType
<1> QED
  BY <1>2, <1>3

\* Only the values on the set count.
LEMMA SumOverSame ==
  ASSUME NEW S, IsFiniteSet(S), NEW f, NEW g, \A x \in S : f[x] \in Int /\ f[x] = g[x]
  PROVE  SumOver(S, f) = SumOver(S, g)
<1> DEFINE T == {s \in SUBSET S : SumOver(s, f) = SumOver(s, g)}
<1>1. \A s \in SUBSET S : (\A x \in s : s \ {x} \in T) => s \in T
  <2> SUFFICES ASSUME NEW s \in SUBSET S, \A x \in s : s \ {x} \in T
               PROVE  SumOver(s, f) = SumOver(s, g)
    OBVIOUS
  <2>1. CASE s = {}
    BY <2>1, SumOverEmpty
  <2>2. CASE s # {}
    <3>1. IsFiniteSet(s)
      BY FS_Subset
    <3>2. /\ Picked(s) \in s
          /\ SumOver(s, f) = f[Picked(s)] + SumOver(s \ {Picked(s)}, f)
          /\ SumOver(s, g) = g[Picked(s)] + SumOver(s \ {Picked(s)}, g)
      BY <2>2, <3>1, SumOverPicked
    <3> QED
      BY <3>2
  <2> QED
    BY <2>1, <2>2
<1>2. S \in T
  <2> HIDE DEF T
  <2>1. \A s \in SUBSET S : s \in T
    BY <1>1, SubsetInduction
  <2> QED
    BY <2>1
<1> QED
  BY <1>2

\* The sum of two functions is the sum of their sums.
LEMMA SumOverPlus ==
  ASSUME NEW S, IsFiniteSet(S), NEW f, NEW g, NEW h,
         \A x \in S : f[x] \in Int /\ g[x] \in Int /\ h[x] = f[x] + g[x]
  PROVE  SumOver(S, h) = SumOver(S, f) + SumOver(S, g)
<1> DEFINE T == {s \in SUBSET S : SumOver(s, h) = SumOver(s, f) + SumOver(s, g)}
<1>0. \A s \in SUBSET S : IsFiniteSet(s) /\ SumOver(s, f) \in Int /\ SumOver(s, g) \in Int
  BY FS_Subset, SumOverType
<1>1. \A s \in SUBSET S : (\A x \in s : s \ {x} \in T) => s \in T
  <2> SUFFICES ASSUME NEW s \in SUBSET S, \A x \in s : s \ {x} \in T
               PROVE  SumOver(s, h) = SumOver(s, f) + SumOver(s, g)
    OBVIOUS
  <2>1. CASE s = {}
    BY <2>1, SumOverEmpty
  <2>2. CASE s # {}
    <3> DEFINE c == Picked(s)
    <3>1. /\ c \in s
          /\ SumOver(s, f) = f[c] + SumOver(s \ {c}, f)
          /\ SumOver(s, g) = g[c] + SumOver(s \ {c}, g)
          /\ SumOver(s, h) = h[c] + SumOver(s \ {c}, h)
      BY <1>0, <2>2, SumOverPicked
    <3> HIDE DEF c
    <3>2. SumOver(s \ {c}, h) = SumOver(s \ {c}, f) + SumOver(s \ {c}, g)
      BY <3>1
    <3>3. /\ f[c] \in Int /\ g[c] \in Int /\ h[c] = f[c] + g[c]
          /\ SumOver(s \ {c}, f) \in Int /\ SumOver(s \ {c}, g) \in Int
      BY <1>0, <3>1
    <3> QED
      BY <3>1, <3>2, <3>3
  <2> QED
    BY <2>1, <2>2
<1>2. S \in T
  <2> HIDE DEF T
  <2>1. \A s \in SUBSET S : s \in T
    BY <1>1, SubsetInduction
  <2> QED
    BY <2>1
<1> QED
  BY <1>2

\* Sums over disjoint sets add up.
LEMMA SumOverUnion ==
  ASSUME NEW R, IsFiniteSet(R), NEW S, IsFiniteSet(S), R \cap S = {},
         NEW f, \A x \in R \cup S : f[x] \in Int
  PROVE  SumOver(R \cup S, f) = SumOver(R, f) + SumOver(S, f)
<1> DEFINE T == {s \in SUBSET S : SumOver(R \cup s, f) = SumOver(R, f) + SumOver(s, f)}
<1>0. \A s \in SUBSET S : IsFiniteSet(s) /\ IsFiniteSet(R \cup s)
                          /\ SumOver(s, f) \in Int /\ SumOver(R \cup s, f) \in Int
  <2> TAKE s \in SUBSET S
  <2>1. IsFiniteSet(s) /\ IsFiniteSet(R \cup s)
    BY FS_Subset, FS_Union
  <2> QED
    BY <2>1, SumOverType
<1>00. SumOver(R, f) \in Int
  BY SumOverType
<1>1. \A s \in SUBSET S : (\A x \in s : s \ {x} \in T) => s \in T
  <2> SUFFICES ASSUME NEW s \in SUBSET S, \A x \in s : s \ {x} \in T
               PROVE  SumOver(R \cup s, f) = SumOver(R, f) + SumOver(s, f)
    OBVIOUS
  <2>1. CASE s = {}
    <3>1. R \cup s = R
      BY <2>1
    <3> QED
      BY <1>00, <2>1, <3>1, SumOverEmpty
  <2>2. CASE s # {}
    <3>1. PICK c \in s : TRUE
      BY <2>2
    <3>2. SumOver(s, f) = f[c] + SumOver(s \ {c}, f)
      BY <1>0, SumOverRemove
    <3>3. SumOver(R \cup s, f) = f[c] + SumOver((R \cup s) \ {c}, f)
      <4>1. c \in R \cup s /\ \A x \in R \cup s : f[x] \in Int
        OBVIOUS
      <4> QED
        BY <1>0, <4>1, SumOverRemove
    <3>4. (R \cup s) \ {c} = R \cup (s \ {c})
      OBVIOUS
    <3>5. SumOver(R \cup (s \ {c}), f) = SumOver(R, f) + SumOver(s \ {c}, f)
      OBVIOUS
    <3>6. f[c] \in Int /\ SumOver(s \ {c}, f) \in Int
      BY <1>0
    <3> QED
      BY <1>00, <3>2, <3>3, <3>4, <3>5, <3>6
  <2> QED
    BY <2>1, <2>2
<1>2. S \in T
  <2> HIDE DEF T
  <2>1. \A s \in SUBSET S : s \in T
    BY <1>1, SubsetInduction
  <2> QED
    BY <2>1
<1> QED
  BY <1>2

\* Terms none of which is negative.
LEMMA SumOverNat ==
  ASSUME NEW S, IsFiniteSet(S), NEW f, \A x \in S : f[x] \in Nat
  PROVE  SumOver(S, f) \in Nat /\ \A x \in S : f[x] <= SumOver(S, f)
<1> DEFINE T == {s \in SUBSET S : SumOver(s, f) \in Nat}
<1>1. \A s \in SUBSET S : (\A x \in s : s \ {x} \in T) => s \in T
  <2> SUFFICES ASSUME NEW s \in SUBSET S, \A x \in s : s \ {x} \in T
               PROVE  SumOver(s, f) \in Nat
    OBVIOUS
  <2>1. CASE s = {}
    BY <2>1, SumOverEmpty
  <2>2. CASE s # {}
    <3>1. IsFiniteSet(s)
      BY FS_Subset
    <3>2. Picked(s) \in s /\ SumOver(s, f) = f[Picked(s)] + SumOver(s \ {Picked(s)}, f)
      BY <2>2, <3>1, SumOverPicked
    <3>3. f[Picked(s)] \in Nat /\ SumOver(s \ {Picked(s)}, f) \in Nat
      BY <3>2
    <3> QED
      BY <3>2, <3>3
  <2> QED
    BY <2>1, <2>2
<1>2. \A s \in SUBSET S : SumOver(s, f) \in Nat
  <2>1. \A s \in SUBSET S : s \in T
    <3> HIDE DEF T
    <3> QED
      BY <1>1, SubsetInduction
  <2> QED
    BY <2>1
<1>3. \A x \in S : f[x] <= SumOver(S, f)
  <2> TAKE x \in S
  <2>1. SumOver(S, f) = f[x] + SumOver(S \ {x}, f)
    BY SumOverRemove
  <2>2. SumOver(S \ {x}, f) \in Nat /\ f[x] \in Nat
    BY <1>2
  <2> QED
    BY <2>1, <2>2
<1> QED
  BY <1>2, <1>3

\* Nothing but zeros.
LEMMA SumOverZero ==
  ASSUME NEW S, IsFiniteSet(S), NEW f, \A x \in S : f[x] = 0
  PROVE  SumOver(S, f) = 0
<1> DEFINE T == {s \in SUBSET S : SumOver(s, f) = 0}
<1>1. \A s \in SUBSET S : (\A x \in s : s \ {x} \in T) => s \in T
  <2> SUFFICES ASSUME NEW s \in SUBSET S, \A x \in s : s \ {x} \in T
               PROVE  SumOver(s, f) = 0
    OBVIOUS
  <2>1. CASE s = {}
    BY <2>1, SumOverEmpty
  <2>2. CASE s # {}
    <3>1. IsFiniteSet(s)
      BY FS_Subset
    <3>2. Picked(s) \in s /\ SumOver(s, f) = f[Picked(s)] + SumOver(s \ {Picked(s)}, f)
      BY <2>2, <3>1, SumOverPicked
    <3>3. f[Picked(s)] = 0 /\ SumOver(s \ {Picked(s)}, f) = 0
      BY <3>2
    <3> QED
      BY <3>2, <3>3
  <2> QED
    BY <2>1, <2>2
<1>2. S \in T
  <2> HIDE DEF T
  <2>1. \A s \in SUBSET S : s \in T
    BY <1>1, SubsetInduction
  <2> QED
    BY <2>1
<1> QED
  BY <1>2

\* A single term that is not zero, or none.
LEMMA SumOverSingle ==
  ASSUME NEW S, IsFiniteSet(S), NEW f, NEW k, \A x \in S : f[x] \in Int /\ (x # k => f[x] = 0)
  PROVE  SumOver(S, f) = IF k \in S THEN f[k] ELSE 0
<1>1. IsFiniteSet(S \ {k}) /\ \A x \in S \ {k} : f[x] = 0
  BY FS_RemoveElement
<1>2. SumOver(S \ {k}, f) = 0
  BY <1>1, SumOverZero
<1>3. CASE k \in S
  <2>1. SumOver(S, f) = f[k] + SumOver(S \ {k}, f) /\ f[k] \in Int
    BY <1>3, SumOverRemove
  <2> QED
    BY <1>2, <1>3, <2>1
<1>4. CASE k \notin S
  <2>1. S \ {k} = S
    BY <1>4
  <2> QED
    BY <1>2, <1>4, <2>1
<1> QED
  BY <1>3, <1>4

\* Terms that are zero may be left out.
LEMMA SumOverSupport ==
  ASSUME NEW S, IsFiniteSet(S), NEW R \in SUBSET S, NEW f,
         \A x \in S : f[x] \in Int, \A x \in S \ R : f[x] = 0
  PROVE  SumOver(S, f) = SumOver(R, f)
<1>1. IsFiniteSet(R) /\ IsFiniteSet(S \ R) /\ R \cup (S \ R) = S
  BY FS_Subset
<1>2. SumOver(S, f) = SumOver(R, f) + SumOver(S \ R, f)
  <2>1. R \cap (S \ R) = {} /\ \A x \in R \cup (S \ R) : f[x] \in Int
    OBVIOUS
  <2>2. SumOver(R \cup (S \ R), f) = SumOver(R, f) + SumOver(S \ R, f)
    BY <1>1, <2>1, SumOverUnion
  <2> QED
    BY <1>1, <2>2
<1>3. SumOver(S \ R, f) = 0
  <2>1. \A x \in S \ R : f[x] = 0
    OBVIOUS
  <2> QED
    BY <1>1, <2>1, SumOverZero
<1>4. SumOver(R, f) \in Int
  BY <1>1, SumOverType
<1> QED
  BY <1>2, <1>3, <1>4

\* Renaming the terms.
LEMMA SumOverImage ==
  ASSUME NEW A, IsFiniteSet(A), NEW h, NEW f, NEW g,
         \A a \in A : f[h[a]] \in Int /\ g[a] = f[h[a]],
         \A a, b \in A : h[a] = h[b] => a = b
  PROVE  /\ IsFiniteSet({h[a] : a \in A})
         /\ SumOver({h[a] : a \in A}, f) = SumOver(A, g)
<1> DEFINE image(s) == {h[a] : a \in s}
           T == {s \in SUBSET A : IsFiniteSet(image(s)) /\ SumOver(image(s), f) = SumOver(s, g)}
<1>1. \A s \in SUBSET A : (\A x \in s : s \ {x} \in T) => s \in T
  <2> SUFFICES ASSUME NEW s \in SUBSET A, \A x \in s : s \ {x} \in T
               PROVE  IsFiniteSet(image(s)) /\ SumOver(image(s), f) = SumOver(s, g)
    OBVIOUS
  <2>1. CASE s = {}
    <3>1. image(s) = {}
      BY <2>1
    <3> QED
      BY <2>1, <3>1, SumOverEmpty, FS_EmptySet
  <2>2. CASE s # {}
    <3>1. PICK c \in s : TRUE
      BY <2>2
    <3>2. /\ IsFiniteSet(image(s \ {c}))
          /\ SumOver(image(s \ {c}), f) = SumOver(s \ {c}, g)
      BY <3>1
    <3>3. image(s) = image(s \ {c}) \cup {h[c]} /\ h[c] \notin image(s \ {c})
      OBVIOUS
    <3>4. \A y \in image(s \ {c}) \cup {h[c]} : f[y] \in Int
      OBVIOUS
    <3> DEFINE all == image(s)
               most == image(s \ {c})
    <3> HIDE DEF all, most
    <3>5. IsFiniteSet(all)
      <4>1. IsFiniteSet(most) /\ all = most \cup {h[c]}
        BY <3>2, <3>3 DEF all, most
      <4> QED
        BY <4>1, FS_AddElement
    <3>6. SumOver(all, f) = SumOver(most, f) + f[h[c]]
      <4> DEFINE new == h[c]
      <4> HIDE DEF new
      <4>1. IsFiniteSet(most) /\ all = most \cup {new} /\ new \notin most
        BY <3>2, <3>3 DEF all, most, new
      <4>2. \A y \in most \cup {new} : f[y] \in Int
        BY <3>4 DEF most, new
      <4>3. SumOver(most \cup {new}, f) = SumOver(most, f) + f[new]
        BY <4>1, <4>2, SumOverAdd, ZenonT(30)
      <4> QED
        BY <4>1, <4>3 DEF new
    <3>7. IsFiniteSet(s) /\ \A a \in s : g[a] \in Int
      BY FS_Subset
    <3>8. SumOver(s, g) = g[c] + SumOver(s \ {c}, g)
      BY <3>7, SumOverRemove
    <3>9. IsFiniteSet(s \ {c}) /\ \A a \in s \ {c} : g[a] \in Int
      BY <3>7, FS_RemoveElement
    <3>10. g[c] = f[h[c]] /\ g[c] \in Int /\ SumOver(s \ {c}, g) \in Int
      BY <3>9, SumOverType
    <3> QED
      BY <3>2, <3>5, <3>6, <3>8, <3>10 DEF all, most
  <2> QED
    BY <2>1, <2>2
<1>2. A \in T
  <2> HIDE DEF T
  <2>1. \A s \in SUBSET A : s \in T
    BY <1>1, SubsetInduction
  <2> QED
    BY <2>1
<1> QED
  BY <1>2

\* Sorting the terms by a key and adding up the groups gives the whole sum.
LEMMA SumOverGroups ==
  ASSUME NEW I, IsFiniteSet(I), NEW K, IsFiniteSet(K), NEW key, \A i \in I : key[i] \in K,
         NEW f, \A i \in I : f[i] \in Int,
         NEW group, \A k \in K, i \in I : group[k][i] = IF key[i] = k THEN f[i] ELSE 0,
         NEW total, \A k \in K : total[k] = SumOver(I, group[k])
  PROVE  SumOver(K, total) = SumOver(I, f)
<1> DEFINE part(s) == [k \in K |-> SumOver(s, group[k])]
           T == {s \in SUBSET I : SumOver(K, part(s)) = SumOver(s, f)}
<1>0. \A s \in SUBSET I : \A k \in K : SumOver(s, group[k]) \in Int
  <2> SUFFICES ASSUME NEW s \in SUBSET I, NEW k \in K PROVE SumOver(s, group[k]) \in Int
    OBVIOUS
  <2>1. IsFiniteSet(s) /\ \A i \in s : group[k][i] \in Int
    BY FS_Subset
  <2> QED
    BY <2>1, SumOverType
<1>1. \A s \in SUBSET I : (\A x \in s : s \ {x} \in T) => s \in T
  <2> SUFFICES ASSUME NEW s \in SUBSET I, \A x \in s : s \ {x} \in T
               PROVE  SumOver(K, part(s)) = SumOver(s, f)
    OBVIOUS
  <2>1. CASE s = {}
    <3>1. \A k \in K : part(s)[k] = 0
      BY <2>1, SumOverEmpty
    <3> DEFINE p == part(s)
    <3> HIDE DEF p
    <3>2. \A k \in K : p[k] = 0
      BY <3>1 DEF p
    <3>3. SumOver(K, p) = 0
      BY <3>2, SumOverZero
    <3> QED
      BY <2>1, <3>3, SumOverEmpty DEF p
  <2>2. CASE s # {}
    <3>1. PICK c \in s : TRUE
      BY <2>2
    <3>2. SumOver(K, part(s \ {c})) = SumOver(s \ {c}, f)
      BY <3>1
    <3> DEFINE one == [k \in K |-> group[k][c]]
    <3>3. \A k \in K : one[k] \in Int /\ (k # key[c] => one[k] = 0)
      OBVIOUS
    <3>4. key[c] \in K /\ one[key[c]] = f[c]
      OBVIOUS
    <3>5. \A k \in K : SumOver(s, group[k]) = group[k][c] + SumOver(s \ {c}, group[k])
      <4> TAKE k \in K
      <4>1. IsFiniteSet(s) /\ \A i \in s : group[k][i] \in Int
        BY FS_Subset
      <4> QED
        BY <4>1, SumOverRemove
    <3>6. \A k \in K : /\ one[k] \in Int /\ part(s \ {c})[k] \in Int
                       /\ part(s)[k] = one[k] + part(s \ {c})[k]
      BY <1>0, <3>3, <3>5
    <3> DEFINE p == part(s)
               q == part(s \ {c})
    <3> HIDE DEF one, p, q
    <3>7. SumOver(K, one) = f[c]
      BY <3>3, <3>4, SumOverSingle
    <3>8. SumOver(K, p) = SumOver(K, one) + SumOver(K, q)
      <4>1. \A k \in K : one[k] \in Int /\ q[k] \in Int /\ p[k] = one[k] + q[k]
        BY <3>6 DEF p, q
      <4> QED
        BY <4>1, SumOverPlus
    <3>9. SumOver(s, f) = f[c] + SumOver(s \ {c}, f)
      <4>1. IsFiniteSet(s)
        BY FS_Subset
      <4> QED
        BY <4>1, SumOverRemove
    <3> QED
      BY <3>2, <3>7, <3>8, <3>9 DEF p, q
  <2> QED
    BY <2>1, <2>2
<1>2. SumOver(K, part(I)) = SumOver(I, f)
  <2>1. \A s \in SUBSET I : s \in T
    <3> HIDE DEF T
    <3> QED
      BY <1>1, SubsetInduction
  <2> QED
    BY <2>1
<1>3. \A k \in K : part(I)[k] \in Int /\ part(I)[k] = total[k]
  BY <1>0
<1> HIDE DEF part
<1> QED
  BY <1>2, <1>3, SumOverSame

\* Terms that match one for one, and zeros besides.
Matches(h, A, g, B, f) ==
  /\ \A b \in B : f[b] \in Int
  /\ \A a \in A : h[a] \in B /\ g[a] = f[h[a]]
  /\ \A a, b \in A : h[a] = h[b] => a = b
  /\ \A b \in B : f[b] = 0 \/ \E a \in A : h[a] = b

LEMMA SumOverThrough ==
  ASSUME NEW A, IsFiniteSet(A), NEW B, IsFiniteSet(B), NEW h, NEW f, NEW g,
         Matches(h, A, g, B, f)
  PROVE  SumOver(A, g) = SumOver(B, f)
<1> USE DEF Matches
<1> DEFINE image == {h[a] : a \in A}
<1>1. image \in SUBSET B /\ \A b \in B \ image : f[b] = 0
  OBVIOUS
<1>2. SumOver(image, f) = SumOver(A, g)
  <2>1. \A a \in A : f[h[a]] \in Int /\ g[a] = f[h[a]]
    OBVIOUS
  <2> QED
    BY <2>1, SumOverImage
<1> HIDE DEF image
<1>3. SumOver(B, f) = SumOver(image, f)
  BY <1>1, SumOverSupport
<1> QED
  BY <1>2, <1>3

\* One term changed.
LEMMA SumOverSplit ==
  ASSUME NEW S, IsFiniteSet(S), NEW k \in S, NEW f, NEW g,
         \A x \in S : f[x] \in Int /\ g[x] \in Int /\ (x # k => f[x] = g[x])
  PROVE  SumOver(S, g) = SumOver(S, f) - f[k] + g[k]
<1>1. SumOver(S, f) = f[k] + SumOver(S \ {k}, f)
  BY SumOverRemove
<1>2. SumOver(S, g) = g[k] + SumOver(S \ {k}, g)
  BY SumOverRemove
<1>3. IsFiniteSet(S \ {k}) /\ \A x \in S \ {k} : f[x] \in Int /\ f[x] = g[x]
  BY FS_Subset
<1>4. SumOver(S \ {k}, f) = SumOver(S \ {k}, g)
  BY <1>3, SumOverSame
<1>5. SumOver(S \ {k}, f) \in Int
  BY <1>3, SumOverType
<1>6. f[k] \in Int /\ g[k] \in Int
  OBVIOUS
<1> QED
  BY <1>1, <1>2, <1>4, <1>5, <1>6

\* Larger terms, larger sum.
LEMMA SumOverLeq ==
  ASSUME NEW S, IsFiniteSet(S), NEW f, NEW g,
         \A x \in S : f[x] \in Int /\ g[x] \in Int /\ f[x] <= g[x]
  PROVE  SumOver(S, f) <= SumOver(S, g)
<1> DEFINE d == [x \in S |-> g[x] - f[x]]
<1>1. \A x \in S : d[x] \in Nat /\ d[x] \in Int /\ f[x] \in Int /\ g[x] = f[x] + d[x]
  OBVIOUS
<1> HIDE DEF d
<1>2. SumOver(S, g) = SumOver(S, f) + SumOver(S, d)
  BY <1>1, SumOverPlus
<1>3. SumOver(S, d) \in Nat
  BY <1>1, SumOverNat
<1>4. SumOver(S, f) \in Int
  BY SumOverType
<1> QED
  BY <1>2, <1>3, <1>4

\* A common factor.
LEMMA SumOverScale ==
  ASSUME NEW S, IsFiniteSet(S), NEW c \in Int, NEW f, NEW g,
         \A x \in S : f[x] \in Int /\ g[x] = f[x] * c
  PROVE  SumOver(S, g) = SumOver(S, f) * c
<1> DEFINE T == {s \in SUBSET S : SumOver(s, g) = SumOver(s, f) * c}
<1>1. \A s \in SUBSET S : (\A x \in s : s \ {x} \in T) => s \in T
  <2> SUFFICES ASSUME NEW s \in SUBSET S, \A x \in s : s \ {x} \in T
               PROVE  SumOver(s, g) = SumOver(s, f) * c
    OBVIOUS
  <2>1. CASE s = {}
    BY <2>1, SumOverEmpty
  <2>2. CASE s # {}
    <3>1. IsFiniteSet(s)
      BY FS_Subset
    <3> DEFINE x == Picked(s)
               r == s \ {x}
    <3>2. /\ x \in s
          /\ SumOver(s, f) = f[x] + SumOver(r, f)
          /\ SumOver(s, g) = g[x] + SumOver(r, g)
      BY <2>2, <3>1, SumOverPicked
    <3>3. IsFiniteSet(r) /\ \A y \in r : f[y] \in Int
      BY <3>1, FS_Subset
    <3>4. SumOver(r, g) = SumOver(r, f) * c /\ f[x] \in Int /\ g[x] = f[x] * c
      BY <3>2
    <3> HIDE DEF r, x
    <3>5. SumOver(r, f) \in Int
      BY <3>3, SumOverType
    <3> QED
      BY <3>2, <3>4, <3>5
  <2> QED
    BY <2>1, <2>2
<1>2. \A s \in SUBSET S : s \in T
  <2> HIDE DEF T
  <2> QED
    BY <1>1, SubsetInduction
<1> QED
  BY <1>2

\* Terms each of which is nothing or a least amount.
LEMMA SumOverLumps ==
  ASSUME NEW S, IsFiniteSet(S), NEW f, NEW least \in Nat,
         \A x \in S : f[x] \in Nat /\ (f[x] = 0 \/ f[x] >= least)
  PROVE  SumOver(S, f) \in Nat /\ (SumOver(S, f) = 0 \/ SumOver(S, f) >= least)
<1>1. SumOver(S, f) \in Nat /\ \A x \in S : f[x] <= SumOver(S, f)
  BY SumOverNat
<1>2. CASE \A x \in S : f[x] = 0
  BY <1>2, SumOverZero
<1>3. CASE \E x \in S : f[x] # 0
  <2> PICK x \in S : f[x] # 0
    BY <1>3
  <2>1. f[x] \in Nat /\ f[x] >= least /\ f[x] <= SumOver(S, f)
    BY <1>1
  <2> QED
    BY <1>1, <2>1
<1> QED
  BY <1>1, <1>2, <1>3

-----------------------------------------------------------------------------
(* Sums of sequences *)

\* Whatever grows by the elements of the sequence is its running sum.
LEMMA RunningSumFollows ==
  ASSUME NEW w \in Seq(Int), NEW g, g[0] = 0, \A i \in 1..Len(w) : g[i] = g[i - 1] + w[i]
  PROVE  \A k \in 0..Len(w) : g[k] = RunningSum(w)[k]
<1> DEFINE T == {k \in 0..Len(w) : g[k] = RunningSum(w)[k]}
<1>1. Len(w) \in Nat /\ 0 \in T
  BY RunningSumType
<1>2. \A k \in 1..Len(w) : k - 1 \in T => k \in T
  BY RunningSumType
<1>3. \A k \in 0..Len(w) : k \in T
  <2> HIDE DEF T
  <2> QED
    BY <1>1, <1>2, UpTo
<1> QED
  BY <1>3

\* A sequence's total is the sum over its positions.
LEMMA TotalIsSum ==
  ASSUME NEW w \in Seq(Int)
  PROVE  Total(w) = SumOver(1..Len(w), w)
<1>1. Len(w) \in Nat
  OBVIOUS
<1> DEFINE g == [k \in 0..Len(w) |-> SumOver(1..k, w)]
<1>2. g[0] = 0
  <2>1. 1..0 = {}
    OBVIOUS
  <2> QED
    BY <1>1, <2>1, SumOverEmpty
<1>3. \A i \in 1..Len(w) : g[i] = g[i - 1] + w[i]
  <2> TAKE i \in 1..Len(w)
  <2>1. 1..i = (1..(i - 1)) \cup {i} /\ i \notin 1..(i - 1)
    BY <1>1
  <2>2. IsFiniteSet(1..(i - 1))
    BY <1>1, FS_Interval
  <2>3. \A y \in (1..(i - 1)) \cup {i} : w[y] \in Int
    BY <1>1
  <2>4. SumOver(1..i, w) = SumOver(1..(i - 1), w) + w[i]
    BY <2>1, <2>2, <2>3, SumOverAdd
  <2> QED
    BY <1>1, <2>4
<1>4. Len(w) \in 0..Len(w)
  BY <1>1
<1>5. g[Len(w)] = SumOver(1..Len(w), w)
  BY <1>4
<1> HIDE DEF g
<1>6. g[Len(w)] = RunningSum(w)[Len(w)]
  BY <1>2, <1>3, <1>4, RunningSumFollows
<1> QED
  BY <1>5, <1>6 DEF Total

\* A running sum of terms none of which is negative never falls.
LEMMA RunningSumGrows ==
  ASSUME NEW w \in Seq(Int), \A i \in 1..Len(w) : w[i] >= 0
  PROVE  \A i \in 0..Len(w) : \A j \in i..Len(w) : RunningSum(w)[i] <= RunningSum(w)[j]
<1> SUFFICES ASSUME NEW i \in 0..Len(w)
             PROVE  \A j \in i..Len(w) : RunningSum(w)[i] <= RunningSum(w)[j]
  OBVIOUS
<1> DEFINE S == RunningSum(w)
           T == {k \in 0..Len(w) : i <= k => S[i] <= S[k]}
<1>1. /\ Len(w) \in Nat
      /\ \A k \in 0..Len(w) : S[k] \in Int
      /\ \A k \in 1..Len(w) : S[k] = S[k - 1] + w[k] /\ w[k] \in Int /\ w[k] >= 0
  <2>1. \A k \in 1..Len(w) : w[k] \in Int /\ w[k] >= 0
    OBVIOUS
  <2>2. S \in [0..Len(w) -> Int] /\ \A k \in 1..Len(w) : S[k] = S[k - 1] + w[k]
    BY RunningSumType
  <2>3. Len(w) \in Nat
    OBVIOUS
  <2> HIDE DEF S
  <2>4. \A k \in 0..Len(w) : S[k] \in Int
    BY <2>2
  <2> QED
    BY <2>1, <2>2, <2>3, <2>4
<1> HIDE DEF S
<1>2. 0 \in T
  BY <1>1
<1>3. \A k \in 1..Len(w) : k - 1 \in T => k \in T
  <2> TAKE k \in 1..Len(w)
  <2> SUFFICES ASSUME k - 1 \in T, i <= k PROVE S[i] <= S[k]
    BY <1>1
  <2>1. CASE i = k
    BY <1>1, <2>1
  <2>2. CASE i <= k - 1
    <3>1. S[i] <= S[k - 1] /\ k - 1 \in 0..Len(w)
      BY <1>1, <2>2
    <3>2. /\ S[i] \in Int /\ S[k - 1] \in Int /\ S[k] = S[k - 1] + w[k]
          /\ w[k] \in Int /\ w[k] >= 0
      BY <1>1, <3>1
    <3> QED
      BY <3>1, <3>2
  <2> QED
    BY <1>1, <2>1, <2>2
<1>4. \A k \in 0..Len(w) : k \in T
  <2> HIDE DEF T
  <2> QED
    BY <1>1, <1>2, <1>3, UpTo
<1> QED
  BY <1>1, <1>4 DEF S

\* What the terms share under addition the total shares.
LEMMA TotalWithin ==
  ASSUME NEW w \in Seq(Int), NEW W \in SUBSET Int, 0 \in W, \A a, b \in W : a + b \in W,
         \A i \in 1..Len(w) : w[i] \in W
  PROVE  /\ \A k \in 0..Len(w) : RunningSum(w)[k] \in W
         /\ Total(w) \in W
<1> DEFINE S == RunningSum(w)
           T == {k \in 0..Len(w) : S[k] \in W}
<1>1. Len(w) \in Nat /\ S[0] = 0 /\ \A k \in 1..Len(w) : S[k] = S[k - 1] + w[k]
  BY RunningSumType
<1> HIDE DEF S
<1>2. 0 \in T
  BY <1>1
<1>3. \A k \in 1..Len(w) : k - 1 \in T => k \in T
  <2> SUFFICES ASSUME NEW k \in 1..Len(w), S[k - 1] \in W PROVE S[k] \in W
    BY <1>1
  <2>1. S[k] = S[k - 1] + w[k] /\ w[k] \in W
    BY <1>1
  <2> QED
    BY <2>1
<1>4. \A k \in 0..Len(w) : k \in T
  <2> HIDE DEF T
  <2> QED
    BY <1>1, <1>2, <1>3, UpTo
<1>5. \A k \in 0..Len(w) : S[k] \in W
  BY <1>4
<1>6. Len(w) \in 0..Len(w)
  BY <1>1
<1> QED
  BY <1>5, <1>6 DEF S, Total

\* Differences of neighbours add up to the difference of the ends.
LEMMA TotalTelescopes ==
  ASSUME NEW w \in Seq(Int), NEW g, \A k \in 0..Len(w) : g[k] \in Int,
         \A i \in 1..Len(w) : w[i] = g[i] - g[i - 1]
  PROVE  Total(w) = g[Len(w)] - g[0]
<1> DEFINE d == [k \in 0..Len(w) |-> g[k] - g[0]]
<1>1. Len(w) \in Nat
  OBVIOUS
<1>2. d[0] = 0
  BY <1>1
<1>3. \A i \in 1..Len(w) : d[i] = d[i - 1] + w[i]
  BY <1>1, SMTT(30)
<1>4. d[Len(w)] = g[Len(w)] - g[0] /\ Len(w) \in 0..Len(w)
  BY <1>1
<1> HIDE DEF d
<1>5. d[Len(w)] = RunningSum(w)[Len(w)]
  BY <1>2, <1>3, <1>4, RunningSumFollows
<1> QED
  BY <1>4, <1>5 DEF Total

\* A sequence with at most one term that is not zero.
LEMMA TotalSingle ==
  ASSUME NEW w \in Seq(Int), NEW k, \A i \in 1..Len(w) : i # k => w[i] = 0
  PROVE  Total(w) = IF k \in 1..Len(w) THEN w[k] ELSE 0
<1>1. IsFiniteSet(1..Len(w)) /\ \A i \in 1..Len(w) : w[i] \in Int
  BY FS_Interval
<1> QED
  BY <1>1, TotalIsSum, SumOverSingle, SMTT(30)

\* One sequence after another.
LEMMA TotalConcat ==
  ASSUME NEW v \in Seq(Int), NEW w \in Seq(Int)
  PROVE  Total(v \o w) = Total(v) + Total(w)
<1> DEFINE n == Len(v)
           all == v \o w
           g == [k \in 0..Len(all) |-> IF k <= n THEN RunningSum(v)[k]
                                       ELSE RunningSum(v)[n] + RunningSum(w)[k - n]]
<1>1. /\ all \in Seq(Int) /\ Len(all) = n + Len(w) /\ n \in Nat /\ Len(w) \in Nat
      /\ \A i \in 1..Len(all) : all[i] = IF i <= n THEN v[i] ELSE w[i - n]
  OBVIOUS
<1>2. /\ \A k \in 0..n : RunningSum(v)[k] \in Int
      /\ \A k \in 0..Len(w) : RunningSum(w)[k] \in Int
      /\ RunningSum(v)[0] = 0 /\ RunningSum(w)[0] = 0
      /\ \A i \in 1..n : RunningSum(v)[i] = RunningSum(v)[i - 1] + v[i]
      /\ \A i \in 1..Len(w) : RunningSum(w)[i] = RunningSum(w)[i - 1] + w[i]
  BY RunningSumType
<1>3. \A k \in 0..Len(all) : g[k] = IF k <= n THEN RunningSum(v)[k]
                                    ELSE RunningSum(v)[n] + RunningSum(w)[k - n]
  OBVIOUS
<1> HIDE DEF all, g
<1>4. g[0] = 0
  BY <1>1, <1>2, <1>3
<1>5. \A i \in 1..Len(all) : g[i] = g[i - 1] + all[i]
  <2> TAKE i \in 1..Len(all)
  <2>1. i \in 0..Len(all) /\ i - 1 \in 0..Len(all)
    BY <1>1
  <2>2. CASE i <= n
    <3>1. i \in 1..n /\ i - 1 <= n
      BY <1>1, <2>2
    <3> QED
      BY <1>1, <1>2, <1>3, <2>1, <2>2, <3>1
  <2>3. CASE i = n + 1
    <3>1. /\ i - n \in 1..Len(w) /\ i - n = 1 /\ (i - n) - 1 = 0 /\ i - 1 = n /\ ~(i <= n)
          /\ n \in 0..n
      BY <1>1, <2>3
    <3>2. g[i] = RunningSum(v)[n] + RunningSum(w)[i - n] /\ g[i - 1] = RunningSum(v)[n]
      BY <1>3, <2>1, <3>1
    <3>3. RunningSum(w)[i - n] = 0 + w[i - n] /\ all[i] = w[i - n]
      BY <1>1, <1>2, <3>1
    <3>4. RunningSum(v)[n] \in Int /\ w[i - n] \in Int
      BY <1>2, <3>1
    <3> QED
      BY <3>2, <3>3, <3>4
  <2>4. CASE i > n + 1
    <3> DEFINE j == i - n
    <3>0. n \in Nat /\ Len(w) \in Nat /\ i \in Int /\ i <= n + Len(w) /\ i > n + 1
      BY <1>1, <2>4
    <3>1. /\ j \in 1..Len(w) /\ j - 1 \in 0..Len(w) /\ (i - 1) - n = j - 1
          /\ ~(i <= n) /\ ~(i - 1 <= n) /\ n \in 0..n
      <4> DEFINE m == Len(w)
      <4>1. n \in Nat /\ m \in Nat /\ i \in Int /\ i <= n + m /\ i > n + 1
        BY <3>0
      <4> HIDE DEF m, n
      <4>2. j \in 1..m /\ j - 1 \in 0..m
        BY <4>1
      <4>3. (i - 1) - n = j - 1 /\ ~(i <= n) /\ ~(i - 1 <= n) /\ n \in 0..n
        BY <4>1
      <4> QED
        BY <4>2, <4>3 DEF m
    <3>2. g[i] = RunningSum(v)[n] + RunningSum(w)[j] /\ g[i - 1] = RunningSum(v)[n] + RunningSum(w)[j - 1]
      BY <1>3, <2>1, <3>1
    <3>3. RunningSum(w)[j] = RunningSum(w)[j - 1] + w[j] /\ all[i] = w[j]
      BY <1>1, <1>2, <3>1
    <3>4. RunningSum(v)[n] \in Int /\ RunningSum(w)[j - 1] \in Int /\ w[j] \in Int
      BY <1>2, <3>1
    <3> HIDE DEF j
    <3> QED
      BY <3>2, <3>3, <3>4
  <2> QED
    BY <1>1, <2>2, <2>3, <2>4
<1>6. Len(all) \in 0..Len(all) /\ g[Len(all)] = RunningSum(all)[Len(all)]
  <2>1. Len(all) \in 0..Len(all)
    BY <1>1
  <2> QED
    BY <1>1, <1>4, <1>5, <2>1, RunningSumFollows
<1>7. g[Len(all)] = RunningSum(v)[n] + RunningSum(w)[Len(w)]
  <2>1. CASE Len(w) = 0
    <3>1. Len(all) = n /\ n \in 0..n
      BY <1>1, <2>1
    <3> QED
      BY <1>2, <1>3, <1>6, <2>1, <3>1
  <2>2. CASE Len(w) > 0
    <3>1. Len(all) - n = Len(w) /\ ~(Len(all) <= n)
      BY <1>1, <2>2
    <3> QED
      BY <1>3, <1>6, <3>1
  <2> QED
    BY <1>1, <2>1, <2>2
<1> QED
  BY <1>6, <1>7 DEF Total, all

-----------------------------------------------------------------------------
(* One side of a book *)

\* What the makers offer is a sequence of integers as long as the side.
LEMMA OffersType ==
  ASSUME NEW U, NEW makers \in Seq(OrderOf(U)), NEW taker \in OrderOf(U)
  PROVE  [i \in DOMAIN makers |-> Offer(taker, makers[i])] \in Seq(Int)
<1>1. \A i \in DOMAIN makers : Offer(taker, makers[i]) \in Int
  <2>1. \A i \in DOMAIN makers : makers[i] \in OrderOf(U)
    OBVIOUS
  <2> QED
    BY <2>1 DEF Offer, Remaining, OrderOf
<1>2. DOMAIN makers = 1..Len(makers) /\ Len(makers) \in Nat
  OBVIOUS
<1> QED
  BY <1>1, <1>2

\* A filled quantity for every maker.
LEMMA FilledQtyType ==
  ASSUME NEW U, NEW makers \in Seq(OrderOf(U)), NEW taker \in OrderOf(U)
  PROVE  /\ FilledQty(makers, taker) \in Seq(Int)
         /\ FilledQty(makers, taker) \in [DOMAIN makers -> Int]
<1> DEFINE offers == [i \in DOMAIN makers |-> Offer(taker, makers[i])]
           offered == RunningSum(offers)
<1>1. offers \in Seq(Int) /\ Len(offers) = Len(makers)
  BY OffersType
<1>2. offered \in [0..Len(makers) -> Int]
  <2> HIDE DEF offers
  <2> QED
    BY <1>1, RunningSumType
<1>3. taker.quantity \in Int
  BY DEF OrderOf
<1>4. DOMAIN makers = 1..Len(makers) /\ Len(makers) \in Nat
  OBVIOUS
<1>5. \A i \in DOMAIN makers : offered[i] \in Int /\ offered[i - 1] \in Int
  <2> HIDE DEF offered
  <2> QED
    BY <1>2, <1>4
<1>6. FilledQty(makers, taker) =
        [i \in DOMAIN makers |-> Lesser(taker.quantity, offered[i])
                                   - Lesser(taker.quantity, offered[i - 1])]
  BY DEF FilledQty
<1>7. FilledQty(makers, taker) \in [DOMAIN makers -> Int]
  <2> HIDE DEF offered
  <2> QED
    BY <1>3, <1>5, <1>6 DEF Lesser
<1> QED
  BY <1>4, <1>7

\* Filling orders leaves orders.
LEMMA WithFillsType ==
  ASSUME NEW U, NEW makers \in Seq(OrderOf(U)), NEW qty \in [DOMAIN makers -> Int]
  PROVE  /\ WithFills(makers, qty) \in Seq(OrderOf(U))
         /\ Len(WithFills(makers, qty)) = Len(makers)
<1>1. DOMAIN makers = 1..Len(makers) /\ Len(makers) \in Nat
  OBVIOUS
<1>2. \A i \in DOMAIN makers : [makers[i] EXCEPT !.filled = @ + qty[i]] \in OrderOf(U)
  <2> TAKE i \in DOMAIN makers
  <2>1. qty[i] \in Int /\ makers[i] \in OrderOf(U)
    BY <1>1
  <2>2. makers[i].filled + qty[i] \in Int
    BY <2>1 DEF OrderOf
  <2> QED
    BY <2>1, <2>2 DEF OrderOf
<1> QED
  BY <1>1, <1>2 DEF WithFills

-----------------------------------------------------------------------------
(* Filtering a side *)

\* The sequence of Kept's intermediate results, by its own equation.
KeptOf(list, wanted) ==
  CHOOSE g : g = [i \in 0..Len(list) |->
                    IF i = 0 THEN << >>
                    ELSE IF list[i] \in wanted THEN Append(g[i - 1], list[i])
                    ELSE g[i - 1]]

\* Filtering a side is well founded, and what it keeps are orders of the side.
LEMMA KeptEquation ==
  ASSUME NEW S, NEW list \in Seq(S), NEW wanted
  PROVE  /\ Kept(list, wanted) = KeptOf(list, wanted)[Len(list)]
         /\ KeptOf(list, wanted)[0] = << >>
         /\ \A i \in 1..Len(list) :
              KeptOf(list, wanted)[i] = IF list[i] \in wanted
                                      THEN Append(KeptOf(list, wanted)[i - 1], list[i])
                                      ELSE KeptOf(list, wanted)[i - 1]
<1> DEFINE Solves(g, n) ==
             g = [i \in 0..n |-> IF i = 0 THEN << >>
                                 ELSE IF list[i] \in wanted THEN Append(g[i - 1], list[i])
                                 ELSE g[i - 1]]
           Bad == {n \in 0..Len(list) : ~ \E g : Solves(g, n)}
<1>0. Len(list) \in Nat
  OBVIOUS
<1>1. Bad = {}
  <2>1. SUFFICES ASSUME Bad # {} PROVE FALSE
    OBVIOUS
  <2>2. PICK m \in Bad : \A k \in Bad : m <= k
    <3>1. Bad \in SUBSET Nat
      OBVIOUS
    <3> HIDE DEF Bad
    <3> QED
      BY <2>1, <3>1, LeastNumber
  <2>3. m \in 0..Len(list) /\ ~ \E g : Solves(g, m)
    BY <2>2
  <2>4. CASE m = 0
    <3> DEFINE h == [i \in 0..0 |-> << >>]
    <3>1. Solves(h, 0)
      OBVIOUS
    <3> QED
      BY <2>3, <2>4, <3>1
  <2>5. CASE m # 0
    <3>1. m - 1 \in 0..Len(list) /\ m - 1 \notin Bad
      <4>1. m \in Nat /\ ~(m <= m - 1)
        BY <2>3
      <4>2. m - 1 \in 0..Len(list)
        BY <2>3, <2>5
      <4> HIDE DEF Bad
      <4> QED
        BY <2>2, <4>1, <4>2
    <3>2. PICK g : Solves(g, m - 1)
      BY <3>1
    <3> DEFINE h == [i \in 0..m |->
                       IF i = m THEN IF list[m] \in wanted
                                     THEN Append(g[m - 1], list[m]) ELSE g[m - 1]
                       ELSE g[i]]
    <3>3. \A i \in 0..(m - 1) :
            g[i] = IF i = 0 THEN << >>
                   ELSE IF list[i] \in wanted THEN Append(g[i - 1], list[i])
                   ELSE g[i - 1]
      BY <3>2
    <3>4. \A i \in 0..m :
            h[i] = IF i = 0 THEN << >>
                   ELSE IF list[i] \in wanted THEN Append(h[i - 1], list[i])
                   ELSE h[i - 1]
      BY <2>3, <2>5, <3>3
    <3>5. Solves(h, m)
      BY <3>4
    <3> QED
      BY <2>3, <3>5
  <2> QED
    BY <2>4, <2>5
<1>2. \E g : Solves(g, Len(list))
  <2> HIDE DEF Solves
  <2>1. Len(list) \in 0..Len(list)
    BY <1>0
  <2> QED
    BY <1>1, <2>1
<1>3. KeptOf(list, wanted) = CHOOSE g : Solves(g, Len(list))
  BY DEF KeptOf
<1>4. Solves(KeptOf(list, wanted), Len(list))
  <2> HIDE DEF Solves
  <2> QED
    BY <1>2, <1>3
<1>5. Kept(list, wanted) = KeptOf(list, wanted)[Len(list)]
  BY DEF Kept, KeptOf
<1> HIDE DEF Bad
<1>6. \A i \in 0..Len(list) :
        KeptOf(list, wanted)[i] =
          IF i = 0 THEN << >>
          ELSE IF list[i] \in wanted THEN Append(KeptOf(list, wanted)[i - 1], list[i])
          ELSE KeptOf(list, wanted)[i - 1]
  BY <1>4
<1> HIDE DEF Solves
<1> QED
  BY <1>0, <1>5, <1>6

LEMMA KeptType ==
  ASSUME NEW S, NEW list \in Seq(S), NEW wanted
  PROVE  Kept(list, wanted) \in Seq(S)
<1> DEFINE kept == KeptOf(list, wanted)
           Bad == {n \in 0..Len(list) : kept[n] \notin Seq(S)}
<1>1. /\ Kept(list, wanted) = kept[Len(list)]
      /\ kept[0] = << >>
      /\ \A i \in 1..Len(list) :
           kept[i] = IF list[i] \in wanted
                     THEN Append(kept[i - 1], list[i]) ELSE kept[i - 1]
  BY KeptEquation
<1> HIDE DEF kept
<1>2. Bad = {}
  <2>1. SUFFICES ASSUME Bad # {} PROVE FALSE
    OBVIOUS
  <2>2. PICK m \in Bad : \A k \in Bad : m <= k
    <3>1. Bad \in SUBSET Nat
      OBVIOUS
    <3> HIDE DEF Bad
    <3> QED
      BY <2>1, <3>1, LeastNumber
  <2>3. m \in 0..Len(list) /\ kept[m] \notin Seq(S)
    BY <2>2
  <2>4. m # 0
    <3>1. << >> \in Seq(S)
      OBVIOUS
    <3> QED
      BY <1>1, <2>3, <3>1
  <2>5. m \in 1..Len(list) /\ m - 1 \in 0..Len(list) /\ ~(m <= m - 1)
    BY <2>3, <2>4
  <2>6. kept[m - 1] \in Seq(S)
    BY <2>2, <2>5
  <2>7. list[m] \in S
    BY <2>5
  <2>8. Append(kept[m - 1], list[m]) \in Seq(S)
    BY <2>6, <2>7
  <2>9. kept[m] \in {Append(kept[m - 1], list[m]), kept[m - 1]}
    BY <1>1, <2>5
  <2> QED
    BY <2>3, <2>6, <2>8, <2>9
<1>3. Len(list) \in 0..Len(list)
  OBVIOUS
<1> QED
  BY <1>1, <1>2, <1>3

LEMMA RemoveFullyFilledType ==
  ASSUME NEW S, NEW list \in Seq(S), NEW dust
  PROVE  RemoveFullyFilled(list, dust) \in Seq(S)
BY KeptType DEF RemoveFullyFilled

-----------------------------------------------------------------------------
(* Resting and leaving *)

\* There is a first position to insert at.
LEMMA InsertPositionExists ==
  ASSUME NEW U, NEW list \in Seq(OrderOf(U)), NEW o \in OrderOf(U)
  PROVE  /\ InsertPosition(list, o) \in 1..(Len(list) + 1)
         /\ InsertPosition(list, o) <= Len(list)
              => Better(o.side, o.price, list[InsertPosition(list, o)].price)
         /\ \A j \in 1..(InsertPosition(list, o) - 1) : ~Better(o.side, o.price, list[j].price)
<1> DEFINE Ahead(i) == i <= Len(list) => Better(o.side, o.price, list[i].price)
           Fits(i) == Ahead(i) /\ \A j \in 1..(i - 1) : ~Better(o.side, o.price, list[j].price)
           T == {i \in 1..(Len(list) + 1) : Ahead(i)}
<1>0. Len(list) \in Nat
  OBVIOUS
<1>1. T \in SUBSET Nat /\ Len(list) + 1 \in T
  BY <1>0
<1>2. PICK m \in T : \A k \in T : m <= k
  <2> HIDE DEF T
  <2> QED
    BY <1>1, LeastNumber
<1>3. \A j \in 1..(m - 1) : ~Better(o.side, o.price, list[j].price)
  <2> TAKE j \in 1..(m - 1)
  <2>1. j \in 1..(Len(list) + 1) /\ ~(m <= j) /\ j <= Len(list)
    BY <1>0, <1>2
  <2>2. j \notin T
    <3> HIDE DEF T
    <3> QED
      BY <1>2, <2>1
  <2> QED
    BY <2>1, <2>2
<1>4. \E i \in 1..(Len(list) + 1) : Fits(i)
  BY <1>2, <1>3
<1>5. InsertPosition(list, o) = CHOOSE i \in 1..(Len(list) + 1) : Fits(i)
  BY DEF InsertPosition
<1>6. InsertPosition(list, o) \in 1..(Len(list) + 1) /\ Fits(InsertPosition(list, o))
  <2> HIDE DEF Fits
  <2> QED
    BY <1>4, <1>5
<1> QED
  BY <1>6

LEMMA InsertInOrderType ==
  ASSUME NEW U, NEW list \in Seq(OrderOf(U)), NEW o \in OrderOf(U)
  PROVE  InsertInOrder(list, o) \in Seq(OrderOf(U))
<1> DEFINE p == InsertPosition(list, o)
<1>1. p \in 1..(Len(list) + 1) /\ Len(list) \in Nat
  BY InsertPositionExists
<1> HIDE DEF p
<1>2. SubSeq(list, 1, p - 1) \in Seq(OrderOf(U)) /\ SubSeq(list, p, Len(list)) \in Seq(OrderOf(U))
  BY <1>1
<1> QED
  BY <1>2 DEF InsertInOrder, InsertAt, p

LEMMA RemoveAtType ==
  ASSUME NEW S, NEW list \in Seq(S), NEW i \in DOMAIN list
  PROVE  RemoveAt(list, i) \in Seq(S)
BY DEF RemoveAt

-----------------------------------------------------------------------------
(* The matching loop *)

\* The loop takes from no order more than it offers and in all no more than
\* the taker wants.  It reaches an order only when those before it have given
\* all they offer, and stops short of the quantity only when all of them have.
LEMMA FillsInOrder ==
  ASSUME NEW U, NEW makers \in Seq(OrderOf(U)), NEW taker \in OrderOf(U),
         taker.quantity >= 0
  PROVE  LET qty == FilledQty(makers, taker)
         IN  /\ \A i \in DOMAIN makers : 0 <= qty[i] /\ qty[i] <= Offer(taker, makers[i])
             /\ \A i, j \in DOMAIN makers :
                  i < j /\ qty[j] > 0 => qty[i] = Offer(taker, makers[i])
             /\ 0 <= Total(qty) /\ Total(qty) <= taker.quantity
             /\ Total(qty) < taker.quantity =>
                  \A i \in DOMAIN makers : qty[i] = Offer(taker, makers[i])
<1> DEFINE n == Len(makers)
           q == taker.quantity
           offers == [i \in DOMAIN makers |-> Offer(taker, makers[i])]
           S == RunningSum(offers)
           g == [k \in 0..n |-> Lesser(q, S[k])]
           qty == FilledQty(makers, taker)
<1>1. /\ n \in Nat /\ DOMAIN makers = 1..n
      /\ q \in Nat
  <2>1. taker.quantity \in Int
    BY DEF OrderOf
  <2> QED
    BY <2>1
<1>2. offers \in Seq(Int) /\ Len(offers) = n
  BY OffersType
<1>3. \A i \in 1..n : offers[i] \in Int /\ offers[i] >= 0
  <2> TAKE i \in 1..n
  <2>1. makers[i] \in OrderOf(U)
    BY <1>1
  <2> QED
    BY <1>1, <2>1, SMTT(30) DEF Offer, Remaining, OrderOf
<1>4. qty \in Seq(Int) /\ qty \in [1..n -> Int] /\ Len(qty) = n
  <2>1. qty \in Seq(Int) /\ qty \in [DOMAIN makers -> Int]
    BY FilledQtyType
  <2> HIDE DEF qty
  <2> QED
    BY <1>1, <2>1
<1>5. \A i \in 1..n : qty[i] = Lesser(q, S[i]) - Lesser(q, S[i - 1])
  <2> HIDE DEF S
  <2> QED
    BY <1>1 DEF FilledQty, S
<1>6. \A i \in 1..n : offers[i] = Offer(taker, makers[i])
  BY <1>1
<1> HIDE DEF offers, n, q, qty
<1>7. /\ S \in [0..n -> Int] /\ S[0] = 0
      /\ \A i \in 1..n : S[i] = S[i - 1] + offers[i]
  BY <1>2, RunningSumType
<1>8. \A i \in 0..n : \A j \in i..n : S[i] <= S[j]
  BY <1>2, <1>3, RunningSumGrows
<1> HIDE DEF S
<1>9. \A i \in 1..n : /\ S[i] \in Int /\ S[i - 1] \in Int
                      /\ S[i] = S[i - 1] + offers[i]
                      /\ S[i - 1] >= 0
  <2> TAKE i \in 1..n
  <2>1. i \in 0..n /\ i - 1 \in 0..n /\ 0 \in 0..n /\ i - 1 \in 0..n
    BY <1>1
  <2>2. S[0] <= S[i - 1]
    BY <1>8, <2>1
  <2> QED
    BY <1>7, <2>1, <2>2
<1>10. \A i \in 1..n : /\ 0 <= qty[i] /\ qty[i] <= offers[i]
                       /\ qty[i] > 0 => S[i - 1] < q
                       /\ S[i] <= q => qty[i] = offers[i]
  <2> TAKE i \in 1..n
  <2> DEFINE a == S[i - 1]
             b == S[i]
             d == offers[i]
             x == qty[i]
  <2>1. /\ a \in Int /\ b \in Int /\ d \in Int /\ d >= 0 /\ b = a + d
        /\ x = Lesser(q, b) - Lesser(q, a) /\ x \in Int /\ q \in Int
    BY <1>1, <1>3, <1>4, <1>5, <1>9
  <2> HIDE DEF a, b, d, x
  <2>2. 0 <= x /\ x <= d /\ (x > 0 => a < q) /\ (b <= q => x = d)
    BY ONLY <2>1 DEF Lesser
  <2> QED
    BY <2>2 DEF a, b, d, x
<1>11. \A i, j \in 1..n : i < j /\ qty[j] > 0 => qty[i] = offers[i]
  <2> SUFFICES ASSUME NEW i \in 1..n, NEW j \in 1..n, i < j, qty[j] > 0
               PROVE  qty[i] = offers[i]
    OBVIOUS
  <2>1. S[j - 1] < q
    BY <1>10
  <2>2. S[i] <= S[j - 1]
    <3>1. i \in 0..n /\ j - 1 \in i..n
      BY <1>1
    <3> QED
      BY <1>8, <3>1
  <2>3. S[i] \in Int /\ S[j - 1] \in Int /\ q \in Int
    BY <1>1, <1>9
  <2>4. S[i] <= q
    BY <2>1, <2>2, <2>3
  <2> QED
    BY <1>10, <2>4
<1>12. Total(qty) = Lesser(q, S[n])
  <2>1. \A k \in 0..n : g[k] \in Int
    BY <1>1, <1>7 DEF Lesser
  <2>2. \A i \in 1..n : qty[i] = g[i] - g[i - 1]
    BY <1>1, <1>5
  <2>3. g[n] = Lesser(q, S[n]) /\ g[0] = 0
    BY <1>1, <1>7 DEF Lesser
  <2> HIDE DEF g
  <2>4. Total(qty) = g[n] - g[0]
    BY <1>4, <2>1, <2>2, TotalTelescopes
  <2>5. Lesser(q, S[n]) \in Int
    BY <1>1, <1>7 DEF Lesser
  <2> QED
    BY <2>3, <2>4, <2>5
<1>13. 0 <= Total(qty) /\ Total(qty) <= q
  <2>1. S[0] <= S[n] /\ S[n] \in Int
    <3>1. 0 \in 0..n /\ n \in 0..n
      BY <1>1
    <3> QED
      BY <1>7, <1>8, <3>1
  <2> QED
    BY <1>1, <1>7, <1>12, <2>1 DEF Lesser
<1>14. ASSUME Total(qty) < q, NEW i \in 1..n PROVE qty[i] = offers[i]
  <2>1. S[i] <= S[n] /\ S[n] \in Int /\ S[i] \in Int
    <3>1. i \in 0..n /\ n \in i..n /\ n \in 0..n
      BY <1>1
    <3> QED
      BY <1>7, <1>8, <3>1
  <2>2. S[n] <= q
    <3>1. Lesser(q, S[n]) < q /\ q \in Int
      BY <1>1, <1>12, <1>14
    <3> QED
      BY <2>1, <3>1 DEF Lesser
  <2>3. S[i] <= q
    BY <1>1, <2>1, <2>2
  <2> QED
    BY <1>10, <2>3
<1>15. \A i \in DOMAIN makers : 0 <= qty[i] /\ qty[i] <= Offer(taker, makers[i])
  BY <1>1, <1>6, <1>10
<1>16. \A i, j \in DOMAIN makers : i < j /\ qty[j] > 0 => qty[i] = Offer(taker, makers[i])
  BY <1>1, <1>6, <1>11
<1>17. Total(qty) < q => \A i \in DOMAIN makers : qty[i] = Offer(taker, makers[i])
  BY <1>1, <1>6, <1>14
<1> QED
  BY <1>13, <1>15, <1>16, <1>17 DEF q, qty

\* An order that gives all it offers to a taker it crosses has nothing left,
\* and only such an order is traded against.
LEMMA GivingAllLeavesNothing ==
  ASSUME NEW U, NEW maker \in OrderOf(U), NEW taker \in OrderOf(U), NEW qty \in Int
  PROVE  /\ Crosses(taker, maker) /\ qty = Offer(taker, maker)
              => Remaining([maker EXCEPT !.filled = @ + qty]) <= 0
         /\ 0 < qty /\ qty <= Offer(taker, maker) => Crosses(taker, maker)
<1>1. maker.quantity \in Int /\ maker.filled \in Int
  BY DEF OrderOf
<1>2. Remaining([maker EXCEPT !.filled = @ + qty]) = maker.quantity - (maker.filled + qty)
  BY DEF Remaining, OrderOf
<1> QED
  BY <1>1, <1>2 DEF Offer, Remaining

-----------------------------------------------------------------------------
(* Where an order goes *)

\* What is kept is in the order it was in: h tells where each one was.
LEMMA KeptWhere ==
  ASSUME NEW S, NEW list \in Seq(S), NEW wanted
  PROVE  LET far == Kept(list, wanted)
         IN  \E h \in [1..Len(far) -> 1..Len(list)] :
               /\ \A k \in 1..Len(far) : far[k] = list[h[k]] /\ list[h[k]] \in wanted
               /\ \A k, l \in 1..Len(far) : k < l => h[k] < h[l]
               /\ \A i \in 1..Len(list) :
                    list[i] \in wanted => \E k \in 1..Len(far) : h[k] = i
<1> DEFINE kept == KeptOf(list, wanted)
           Places(far, n, h) ==
             /\ far \in Seq(S)
             /\ h \in [1..Len(far) -> 1..n]
             /\ \A k \in 1..Len(far) : far[k] = list[h[k]] /\ list[h[k]] \in wanted
             /\ \A k, l \in 1..Len(far) : k < l => h[k] < h[l]
             /\ \A i \in 1..n : list[i] \in wanted => \E k \in 1..Len(far) : h[k] = i
           T == {n \in 0..Len(list) : \E h : Places(kept[n], n, h)}
<1>1. /\ Kept(list, wanted) = kept[Len(list)]
      /\ kept[0] = << >>
      /\ \A i \in 1..Len(list) :
           kept[i] = IF list[i] \in wanted
                     THEN Append(kept[i - 1], list[i]) ELSE kept[i - 1]
  BY KeptEquation
<1>0. Len(list) \in Nat
  OBVIOUS
<1> HIDE DEF kept
<1>2. 0 \in T
  <2> DEFINE h == [k \in 1..0 |-> 0]
  <2>1. Places(<< >>, 0, h)
    OBVIOUS
  <2>2. \E e : Places(<< >>, 0, e)
    BY <2>1
  <2> HIDE DEF Places
  <2> QED
    BY <1>0, <1>1, <2>2
<1>3. ASSUME NEW n \in 1..Len(list), n - 1 \in T PROVE n \in T
  <2> DEFINE old == kept[n - 1]
  <2>1. PICK h : Places(old, n - 1, h)
    BY <1>3
  <2> HIDE DEF old
  <2>2. /\ old \in Seq(S) /\ Len(old) \in Nat
        /\ h \in [1..Len(old) -> 1..(n - 1)]
        /\ \A k \in 1..Len(old) : old[k] = list[h[k]] /\ list[h[k]] \in wanted
        /\ \A k, l \in 1..Len(old) : k < l => h[k] < h[l]
        /\ \A i \in 1..(n - 1) : list[i] \in wanted => \E k \in 1..Len(old) : h[k] = i
    BY <2>1
  <2>3. list[n] \in S
    OBVIOUS
  <2>4. CASE list[n] \in wanted
    <3> DEFINE new == Append(old, list[n])
               e == [k \in 1..(Len(old) + 1) |-> IF k = Len(old) + 1 THEN n ELSE h[k]]
    <3>1. /\ new \in Seq(S) /\ Len(new) = Len(old) + 1
          /\ \A k \in 1..Len(old) : new[k] = old[k]
          /\ new[Len(old) + 1] = list[n]
      BY <2>2, <2>3
    <3> HIDE DEF new
    <3>2. e \in [1..Len(new) -> 1..n]
      BY <2>2, <3>1
    <3>3. \A k \in 1..Len(new) : new[k] = list[e[k]] /\ list[e[k]] \in wanted
      BY <2>2, <2>4, <3>1
    <3>4. \A k, l \in 1..Len(new) : k < l => e[k] < e[l]
      <4> TAKE k, l \in 1..Len(new)
      <4> SUFFICES ASSUME k < l PROVE e[k] < e[l]
        OBVIOUS
      <4>1. k \in 1..Len(old) /\ e[k] = h[k] /\ h[k] \in 1..(n - 1)
        BY <2>2, <3>1, SMTT(30)
      <4>2. CASE l = Len(old) + 1
        <5>1. e[l] = n
          BY <2>2, <4>2
        <5> HIDE DEF e
        <5> QED
          BY <4>1, <5>1
      <4>3. CASE l # Len(old) + 1
        <5>1. l \in 1..Len(old) /\ e[l] = h[l]
          BY <2>2, <3>1, <4>3
        <5> HIDE DEF e
        <5> QED
          BY <2>2, <4>1, <5>1
      <4> QED
        BY <4>2, <4>3
    <3>5. \A i \in 1..n : list[i] \in wanted => \E k \in 1..Len(new) : e[k] = i
      <4> TAKE i \in 1..n
      <4> SUFFICES ASSUME list[i] \in wanted PROVE \E k \in 1..Len(new) : e[k] = i
        OBVIOUS
      <4>1. CASE i = n
        <5>1. Len(old) + 1 \in 1..Len(new) /\ e[Len(old) + 1] = n
          BY <2>2, <3>1
        <5> QED
          BY <4>1, <5>1
      <4>2. CASE i # n
        <5>1. i \in 1..(n - 1)
          BY <4>2
        <5>2. PICK k \in 1..Len(old) : h[k] = i
          BY <2>2, <5>1
        <5>3. k \in 1..Len(new) /\ e[k] = i
          BY <2>2, <3>1, <5>2
        <5> QED
          BY <5>3
      <4> QED
        BY <4>1, <4>2
    <3> HIDE DEF e
    <3>6. Places(new, n, e)
      BY <3>1, <3>2, <3>3, <3>4, <3>5
    <3>7. kept[n] = new
      BY <1>1, <2>4 DEF new, old
    <3> HIDE DEF Places
    <3> QED
      BY <3>6, <3>7
  <2>5. CASE list[n] \notin wanted
    <3>1. Places(old, n, h)
      <4>1. h \in [1..Len(old) -> 1..n]
        BY <2>2
      <4>2. \A i \in 1..n : list[i] \in wanted => i \in 1..(n - 1)
        BY <2>5
      <4> QED
        BY <2>2, <4>1, <4>2
    <3>2. kept[n] = old
      BY <1>1, <2>5 DEF old
    <3> HIDE DEF Places
    <3> QED
      BY <3>1, <3>2
  <2> QED
    BY <2>4, <2>5
<1>4. Len(list) \in T
  <2>1. \A n \in 1..Len(list) : n - 1 \in T => n \in T
    BY <1>3
  <2>2. Len(list) \in 0..Len(list)
    BY <1>0
  <2> HIDE DEF T
  <2> QED
    BY <1>0, <1>2, <2>1, <2>2, UpTo
<1>5. PICK h : Places(kept[Len(list)], Len(list), h)
  BY <1>4
<1> QED
  BY <1>1, <1>5

\* removeFullyFilledOrders keeps the orders with more than dust left.
LEMMA RemoveFullyFilledKeeps ==
  ASSUME NEW S, NEW list \in Seq(S), NEW dust
  PROVE  LET far == RemoveFullyFilled(list, dust)
         IN  \E h \in [1..Len(far) -> 1..Len(list)] :
               /\ \A k \in 1..Len(far) : far[k] = list[h[k]] /\ Remaining(list[h[k]]) > dust
               /\ \A k, l \in 1..Len(far) : k < l => h[k] < h[l]
               /\ \A i \in 1..Len(list) :
                    Remaining(list[i]) > dust => \E k \in 1..Len(far) : h[k] = i
<1> DEFINE far == RemoveFullyFilled(list, dust)
           wanted == {o \in Range(list) : Remaining(o) > dust}
<1>1. far = Kept(list, wanted)
  BY DEF RemoveFullyFilled
<1>2. \A i \in 1..Len(list) : list[i] \in wanted <=> Remaining(list[i]) > dust
  BY DEF Range
<1> HIDE DEF far, wanted
<1>3. PICK h \in [1..Len(far) -> 1..Len(list)] :
        /\ \A k \in 1..Len(far) : far[k] = list[h[k]] /\ list[h[k]] \in wanted
        /\ \A k, l \in 1..Len(far) : k < l => h[k] < h[l]
        /\ \A i \in 1..Len(list) : list[i] \in wanted => \E k \in 1..Len(far) : h[k] = i
  BY <1>1, KeptWhere
<1> QED
  BY <1>2, <1>3 DEF far


\* insertBidInOrder and insertAskInOrder shift what comes after by one.
LEMMA InsertedWhere ==
  ASSUME NEW U, NEW list \in Seq(OrderOf(U)), NEW o \in OrderOf(U)
  PROVE  LET p == InsertPosition(list, o)
             new == InsertInOrder(list, o)
         IN  /\ Len(new) = Len(list) + 1
             /\ \A k \in 1..Len(new) :
                  new[k] = IF k < p THEN list[k] ELSE IF k = p THEN o ELSE list[k - 1]
<1> DEFINE p == InsertPosition(list, o)
           front == SubSeq(list, 1, p - 1)
           back == SubSeq(list, p, Len(list))
           S == OrderOf(U)
<1>1. p \in 1..(Len(list) + 1) /\ Len(list) \in Nat
  BY InsertPositionExists
<1> HIDE DEF p, S
<1>2. \A i \in 1..Len(list) : list[i] \in S
  BY DEF S
<1>3. /\ front \in Seq(S) /\ Len(front) = p - 1
      /\ \A i \in 1..(p - 1) : front[i] = list[i]
  BY <1>1, <1>2
<1>4. /\ back \in Seq(S) /\ Len(back) = Len(list) - p + 1
      /\ \A i \in 1..(Len(list) - p + 1) : back[i] = list[p + i - 1]
  BY <1>1, <1>2
<1> HIDE DEF front, back
<1>5. <<o>> \in Seq(S) /\ Len(<<o>>) = 1 /\ <<o>>[1] = o
  BY DEF S
<1> DEFINE most == front \o <<o>>
<1>6. /\ most \in Seq(S) /\ Len(most) = p
      /\ \A k \in 1..p : most[k] = IF k < p THEN list[k] ELSE o
  BY <1>1, <1>3, <1>5
<1> HIDE DEF most
<1>7. /\ Len(most \o back) = Len(list) + 1
      /\ \A k \in 1..(Len(list) + 1) :
           (most \o back)[k] = IF k <= p THEN most[k] ELSE back[k - p]
  <2>1. Len(most \o back) = Len(most) + Len(back)
    BY <1>4, <1>6
  <2>2. \A k \in 1..(Len(most) + Len(back)) :
          (most \o back)[k] = IF k <= Len(most) THEN most[k] ELSE back[k - Len(most)]
    BY <1>4, <1>6
  <2>3. Len(most) = p /\ Len(most) + Len(back) = Len(list) + 1
    BY <1>1, <1>4, <1>6
  <2> QED
    BY <2>1, <2>2, <2>3
<1>8. InsertInOrder(list, o) = most \o back
  BY DEF InsertInOrder, InsertAt, most, front, back, p
<1>9. \A k \in 1..(Len(list) + 1) : (most \o back)[k] =
        IF k < p THEN list[k] ELSE IF k = p THEN o ELSE list[k - 1]
  <2> TAKE k \in 1..(Len(list) + 1)
  <2>1. CASE k <= p
    BY <1>1, <1>6, <1>7, <2>1
  <2>2. CASE k > p
    <3>1. k - p \in 1..(Len(list) - p + 1) /\ p + (k - p) - 1 = k - 1
      BY <1>1, <2>2
    <3>2. back[k - p] = list[k - 1]
      BY <1>4, <3>1
    <3> QED
      BY <1>1, <1>7, <2>2, <3>2
  <2>3. k <= p \/ k > p
    BY <1>1
  <2> QED
    BY <2>1, <2>2, <2>3
<1> QED
  BY <1>7, <1>8, <1>9 DEF p

\* CancelBid and CancelAsk close the gap.
LEMMA RemovedWhere ==
  ASSUME NEW S, NEW list \in Seq(S), NEW p \in DOMAIN list
  PROVE  /\ Len(RemoveAt(list, p)) = Len(list) - 1
         /\ \A k \in 1..(Len(list) - 1) :
              RemoveAt(list, p)[k] = IF k < p THEN list[k] ELSE list[k + 1]
<1> DEFINE front == SubSeq(list, 1, p - 1)
           back == SubSeq(list, p + 1, Len(list))
<1>1. p \in 1..Len(list) /\ Len(list) \in Nat /\ \A i \in 1..Len(list) : list[i] \in S
  OBVIOUS
<1>2. /\ front \in Seq(S) /\ Len(front) = p - 1
      /\ \A i \in 1..(p - 1) : front[i] = list[i]
  BY <1>1
<1>3. /\ back \in Seq(S) /\ Len(back) = Len(list) - p
      /\ \A i \in 1..(Len(list) - p) : back[i] = list[p + i]
  BY <1>1
<1> HIDE DEF front, back
<1>4. /\ Len(front \o back) = Len(list) - 1
      /\ \A k \in 1..(Len(list) - 1) :
           (front \o back)[k] = IF k <= p - 1 THEN front[k] ELSE back[k - (p - 1)]
  <2>1. Len(front \o back) = Len(front) + Len(back)
    BY <1>2, <1>3, ConcatProperties
  <2>2. \A k \in 1..(Len(front) + Len(back)) :
          (front \o back)[k] = IF k <= Len(front) THEN front[k] ELSE back[k - Len(front)]
    BY <1>2, <1>3, ConcatProperties
  <2>3. Len(front) = p - 1 /\ Len(front) + Len(back) = Len(list) - 1
    BY <1>1, <1>2, <1>3
  <2> QED
    BY <2>1, <2>2, <2>3
<1>5. RemoveAt(list, p) = front \o back
  BY DEF RemoveAt, front, back
<1>6. \A k \in 1..(Len(list) - 1) :
        (front \o back)[k] = IF k < p THEN list[k] ELSE list[k + 1]
  <2> TAKE k \in 1..(Len(list) - 1)
  <2>1. CASE k < p
    BY <1>1, <1>2, <1>4, <2>1
  <2>2. CASE ~(k < p)
    <3>1. k - (p - 1) \in 1..(Len(list) - p) /\ p + (k - (p - 1)) = k + 1
      BY <1>1, <2>2
    <3>2. back[k - (p - 1)] = list[k + 1]
      BY <1>3, <3>1
    <3> QED
      BY <1>1, <1>4, <2>2, <3>2
  <2> QED
    BY <2>1, <2>2
<1> QED
  BY <1>4, <1>5, <1>6

-----------------------------------------------------------------------------
(* Price-time order *)

InOrder(side, list) ==
  \A i, j \in DOMAIN list :
    i < j => \/ Better(side, list[i].price, list[j].price)
             \/ list[i].price = list[j].price /\ list[i].id < list[j].id

\* A removal keeps the rest in order.
LEMMA RemovalInOrder ==
  ASSUME NEW U, NEW list \in Seq(OrderOf(U)), NEW side, InOrder(side, list),
         NEW p \in DOMAIN list
  PROVE  InOrder(side, RemoveAt(list, p))
<1> DEFINE sub == RemoveAt(list, p)
           h == [k \in 1..(Len(list) - 1) |-> IF k < p THEN k ELSE k + 1]
<1>1. sub \in Seq(OrderOf(U))
  BY RemoveAtType
<1>2. /\ Len(sub) = Len(list) - 1
      /\ \A k \in 1..(Len(list) - 1) : sub[k] = IF k < p THEN list[k] ELSE list[k + 1]
  BY RemovedWhere
<1> HIDE DEF sub
<1>3. Len(sub) \in Nat /\ DOMAIN sub = 1..Len(sub) /\ p \in 1..Len(list) /\ Len(list) \in Nat
  BY <1>1
<1>4. \A k \in 1..Len(sub) : h[k] \in DOMAIN list /\ sub[k] = list[h[k]]
  BY <1>2, <1>3
<1>5. \A k, l \in 1..Len(sub) : k < l => h[k] < h[l]
  BY <1>2, <1>3
<1> HIDE DEF h
<1>6. \A k \in 1..Len(sub) : sub[k].price = list[h[k]].price /\ sub[k].id = list[h[k]].id
  BY <1>4
<1> QED
  BY <1>3, <1>4, <1>5, <1>6 DEF InOrder, sub

\* A new order goes behind those of a better price and those of its own price,
\* which are older.
LEMMA InsertionInOrder ==
  ASSUME NEW U, NEW list \in Seq(OrderOf(U)), NEW o \in OrderOf(U), NEW side \in Sides,
         InOrder(side, list), o.side = side, \A i \in DOMAIN list : list[i].id < o.id
  PROVE  InOrder(side, InsertInOrder(list, o))
<1> DEFINE p == InsertPosition(list, o)
           new == InsertInOrder(list, o)
           n == Len(list)
<1>1. /\ p \in 1..(n + 1) /\ n \in Nat /\ DOMAIN list = 1..n
      /\ p <= n => Better(side, o.price, list[p].price)
      /\ \A j \in 1..(p - 1) : ~Better(side, o.price, list[j].price)
  BY InsertPositionExists
<1>2. /\ new \in Seq(OrderOf(U)) /\ Len(new) = n + 1
      /\ \A k \in 1..(n + 1) :
           new[k] = IF k < p THEN list[k] ELSE IF k = p THEN o ELSE list[k - 1]
  BY InsertInOrderType, InsertedWhere
<1>3. /\ \A i \in 1..n : list[i].price \in Int /\ list[i].id < o.id
      /\ o.price \in Int
  <2>1. \A i \in 1..n : list[i] \in OrderOf(U)
    OBVIOUS
  <2> QED
    BY <1>1, <2>1 DEF OrderOf
<1> HIDE DEF p, new, n
<1>4. DOMAIN new = 1..(n + 1)
  BY <1>2
<1> SUFFICES ASSUME NEW k \in 1..(n + 1), NEW l \in 1..(n + 1), k < l
             PROVE  \/ Better(side, new[k].price, new[l].price)
                    \/ new[k].price = new[l].price /\ new[k].id < new[l].id
  BY <1>4 DEF InOrder, new
<1>5. \A i, j \in 1..n : i < j => \/ Better(side, list[i].price, list[j].price)
                                  \/ list[i].price = list[j].price /\ list[i].id < list[j].id
  BY <1>1 DEF InOrder
<1>6. CASE l < p
  BY <1>1, <1>2, <1>5, <1>6
<1>7. CASE l = p
  <2>1. k \in 1..(p - 1) /\ k \in 1..n /\ new[k] = list[k] /\ new[l] = o
    BY <1>1, <1>2, <1>7
  <2>2. ~Better(side, o.price, list[k].price) /\ list[k].price \in Int /\ list[k].id < o.id
    BY <1>1, <1>3, <2>1
  <2> QED
    BY <1>3, <2>1, <2>2 DEF Better
<1>8. CASE k < p /\ p < l
  <2>1. l - 1 \in 1..n /\ k \in 1..n /\ k < l - 1 /\ new[k] = list[k] /\ new[l] = list[l - 1]
    BY <1>1, <1>2, <1>8
  <2> QED
    BY <1>5, <2>1
<1>9. CASE k = p /\ p < l
  <2>1. l - 1 \in 1..n /\ p \in 1..n /\ p <= l - 1 /\ new[k] = o /\ new[l] = list[l - 1]
    BY <1>1, <1>2, <1>9
  <2>2. Better(side, o.price, list[p].price)
    BY <1>1, <2>1
  <2>3. \/ p = l - 1
        \/ Better(side, list[p].price, list[l - 1].price)
        \/ list[p].price = list[l - 1].price
    BY <1>1, <1>5, <2>1
  <2>4. o.price \in Int /\ list[p].price \in Int /\ list[l - 1].price \in Int
    BY <1>3, <2>1
  <2>5. Better(side, o.price, list[l - 1].price)
    BY <2>2, <2>3, <2>4 DEF Better
  <2> QED
    BY <2>1, <2>5
<1>10. CASE p < k
  <2>1. /\ k - 1 \in 1..n /\ l - 1 \in 1..n /\ k - 1 < l - 1
        /\ new[k] = list[k - 1] /\ new[l] = list[l - 1]
    BY <1>1, <1>2, <1>10
  <2> QED
    BY <1>5, <2>1
<1> QED
  BY <1>1, <1>6, <1>7, <1>8, <1>9, <1>10

-----------------------------------------------------------------------------
(* Whole amounts *)

\* The amounts formatNum prints as they are.
WholeAt(tick) == {v \in Int : FormatNum(v, tick) = v}

LEMMA ProductNat ==
  ASSUME NEW a \in Nat, NEW b \in Nat
  PROVE  a * b \in Nat
<1>1. a * b \in Int
  OBVIOUS
<1>2. a * b >= 0
  BY Z3
<1> QED
  BY <1>1, <1>2

\* They are the multiples of the tick.
LEMMA WholeIsMultiple ==
  ASSUME NEW tick \in Nat \ {0}
  PROVE  /\ \A v \in WholeAt(tick) : \E k \in Int : v = tick * k
         /\ \A k \in Int : tick * k \in WholeAt(tick)
<1>1. \A v \in WholeAt(tick) : \E k \in Int : v = tick * k
  <2> TAKE v \in WholeAt(tick)
  <2>1. tick \div 2 \in Int
    OBVIOUS
  <2>2. v \in Int /\ v = tick * ((v + tick \div 2) \div tick)
    BY DEF WholeAt, FormatNum
  <2>3. (v + tick \div 2) \div tick \in Int
    BY <2>1, <2>2
  <2> QED
    BY <2>2, <2>3
<1>2. \A k \in Int : tick * k \in WholeAt(tick)
  <2> TAKE k \in Int
  <2> DEFINE half == tick \div 2
             l == (tick * k + half) \div tick
  <2>1. half \in Int /\ 0 <= half /\ half < tick
    OBVIOUS
  <2>2. tick * k \in Int
    OBVIOUS
  <2> HIDE DEF half
  <2>3. l \in Int /\ tick * l <= tick * k + half /\ tick * k + half < tick * l + tick
    BY <2>1, <2>2
  <2> HIDE DEF l
  <2>4. ASSUME l < k PROVE FALSE
    <3>1. k - l - 1 \in Nat /\ tick \in Nat
      BY <2>3, <2>4
    <3>2. tick * (k - l - 1) \in Nat
      BY <3>1, ProductNat
    <3>3. tick * (k - l - 1) = tick * k - tick * l - tick
      BY <2>3
    <3> QED
      BY <2>1, <2>2, <2>3, <3>2, <3>3
  <2>5. ASSUME l > k PROVE FALSE
    <3>1. l - k - 1 \in Nat /\ tick \in Nat
      BY <2>3, <2>5
    <3>2. tick * (l - k - 1) \in Nat
      BY <3>1, ProductNat
    <3>3. tick * (l - k - 1) = tick * l - tick * k - tick
      BY <2>3
    <3> QED
      BY <2>1, <2>2, <2>3, <3>2, <3>3
  <2>6. l = k
    BY <2>3, <2>4, <2>5
  <2>7. FormatNum(tick * k, tick) = tick * l
    BY DEF FormatNum, l, half
  <2> QED
    BY <2>2, <2>6, <2>7 DEF WholeAt
<1> QED
  BY <1>1, <1>2

\* Sums and differences of whole amounts are whole, and a whole amount is at
\* least the tick or at most zero.
LEMMA WholeFacts ==
  ASSUME NEW tick \in Nat \ {0}
  PROVE  /\ WholeAt(tick) \in SUBSET Int /\ 0 \in WholeAt(tick)
         /\ \A a, b \in WholeAt(tick) : a + b \in WholeAt(tick) /\ a - b \in WholeAt(tick)
         /\ \A v \in WholeAt(tick) : v > 0 => v >= tick
<1>1. WholeAt(tick) \in SUBSET Int
  BY DEF WholeAt
<1>2. 0 \in WholeAt(tick)
  <2>1. tick * 0 \in WholeAt(tick)
    BY WholeIsMultiple
  <2>2. tick * 0 = 0
    OBVIOUS
  <2> QED
    BY <2>1, <2>2
<1>3. \A a, b \in WholeAt(tick) : a + b \in WholeAt(tick) /\ a - b \in WholeAt(tick)
  <2> TAKE a, b \in WholeAt(tick)
  <2> PICK k \in Int : a = tick * k
    BY WholeIsMultiple
  <2> PICK l \in Int : b = tick * l
    BY WholeIsMultiple
  <2>1. k + l \in Int /\ k - l \in Int
    OBVIOUS
  <2>2. tick * (k + l) \in WholeAt(tick) /\ tick * (k - l) \in WholeAt(tick)
    BY <2>1, WholeIsMultiple
  <2>3. tick * (k + l) = tick * k + tick * l /\ tick * (k - l) = tick * k - tick * l
    OBVIOUS
  <2> QED
    BY <2>2, <2>3
<1>4. \A v \in WholeAt(tick) : v > 0 => v >= tick
  <2> SUFFICES ASSUME NEW v \in WholeAt(tick), v > 0 PROVE v >= tick
    OBVIOUS
  <2> PICK k \in Int : v = tick * k
    BY WholeIsMultiple
  <2>1. CASE k >= 1
    <3>1. k - 1 \in Nat /\ tick \in Nat
      BY <2>1
    <3>2. tick * (k - 1) \in Nat
      BY <3>1, ProductNat
    <3>3. tick * (k - 1) = tick * k - tick
      OBVIOUS
    <3> QED
      BY <3>2, <3>3
  <2>2. CASE k <= 0
    <3>1. - k \in Nat /\ tick \in Nat
      BY <2>2
    <3>2. tick * (- k) \in Nat
      BY <3>1, ProductNat
    <3>3. tick * (- k) = - (tick * k)
      OBVIOUS
    <3> QED
      BY <3>2, <3>3
  <2> QED
    BY <2>1, <2>2
<1> QED
  BY <1>1, <1>2, <1>3, <1>4

\* Whole orders fill each other in whole amounts.
LEMMA FillsWithin ==
  ASSUME NEW U, NEW makers \in Seq(OrderOf(U)), NEW taker \in OrderOf(U),
         NEW W \in SUBSET Int, 0 \in W, \A a, b \in W : a + b \in W, \A a, b \in W : a - b \in W,
         taker.quantity \in W, \A i \in DOMAIN makers : Remaining(makers[i]) \in W
  PROVE  /\ \A i \in DOMAIN makers : FilledQty(makers, taker)[i] \in W
         /\ Total(FilledQty(makers, taker)) \in W
<1> DEFINE offers == [i \in DOMAIN makers |-> Offer(taker, makers[i])]
           S == RunningSum(offers)
           qty == FilledQty(makers, taker)
<1>1. offers \in Seq(Int) /\ Len(offers) = Len(makers)
  BY OffersType
<1>2. DOMAIN makers = 1..Len(makers) /\ Len(makers) \in Nat
  OBVIOUS
<1>3. \A i \in 1..Len(offers) : offers[i] \in W
  BY <1>1, <1>2 DEF Offer
<1>4. \A k \in 0..Len(offers) : S[k] \in W
  <2> HIDE DEF offers
  <2> QED
    BY <1>1, <1>3, TotalWithin
<1>5. qty = [i \in DOMAIN makers |-> Lesser(taker.quantity, S[i]) - Lesser(taker.quantity, S[i - 1])]
  BY DEF FilledQty
<1> HIDE DEF S
<1>6. \A i \in DOMAIN makers : qty[i] \in W
  <2> TAKE i \in DOMAIN makers
  <2>1. S[i] \in W /\ S[i - 1] \in W
    BY <1>1, <1>2, <1>4
  <2>2. Lesser(taker.quantity, S[i]) \in W /\ Lesser(taker.quantity, S[i - 1]) \in W
    BY <2>1 DEF Lesser
  <2> QED
    BY <1>5, <2>2
<1>7. qty \in Seq(Int) /\ DOMAIN qty = DOMAIN makers
  <2>1. qty \in Seq(Int) /\ qty \in [DOMAIN makers -> Int]
    BY FilledQtyType
  <2> HIDE DEF qty
  <2> QED
    BY <2>1
<1> HIDE DEF qty
<1>8. \A i \in 1..Len(qty) : qty[i] \in W
  <2>1. DOMAIN qty = 1..Len(qty)
    BY <1>7
  <2> QED
    BY <1>6, <1>7, <2>1
<1>9. Total(qty) \in W
  BY <1>7, <1>8, TotalWithin
<1> QED
  BY <1>6, <1>9 DEF qty
=============================================================================
