------------------------------ MODULE FoldLemmas ------------------------------
(***************************************************************************)
(* Induction over numbers and finite sets, stated for a set of those that  *)
(* have a property, and what it gives about the folds the models use:      *)
(* sums and products over finite sets, and recursive functions.            *)
(***************************************************************************)
EXTENDS Functions, FiniteSetTheorems, SequenceTheorems, WellFoundedInduction, TLAPS

(***************************************************************************)
(* Induction.                                                              *)
(***************************************************************************)
\* Every non-empty set of naturals has a least element.
LEMMA LeastNatural ==
    ASSUME NEW A, A \subseteq Nat, A # {}
    PROVE  \E x \in A : \A y \in A : x <= y
<1>1. PICK x \in A : \A y \in A : ~ (<<y, x>> \in OpToRel(<, Nat))
  BY WFMin, NatLessThanWellFounded
<1>2. ASSUME NEW y \in A, y < x PROVE FALSE
  <2>1. <<y, x>> \in OpToRel(<, Nat)
    BY <1>2 DEF OpToRel
  <2> QED BY <2>1, <1>1
<1>3. \A y \in A : x <= y
  BY <1>2, SMT
<1> QED BY <1>3

\* Induction over the naturals.
LEMMA NatSetInduction ==
    ASSUME NEW A, 0 \in A, \A n \in Nat : n \in A => n + 1 \in A
    PROVE  Nat \subseteq A
<1> SUFFICES ASSUME Nat \ A # {} PROVE FALSE
  OBVIOUS
<1>1. PICK n \in Nat \ A : \A m \in Nat \ A : n <= m
  BY LeastNatural
<1>2. n # 0 /\ n - 1 \in Nat
  BY <1>1, SMT
<1>3. n - 1 \in A
  BY <1>1, <1>2, SMT
<1>4. (n - 1) + 1 \in A /\ (n - 1) + 1 = n
  BY <1>2, <1>3, SMT
<1> QED BY <1>1, <1>4

\* Of some subsets of a finite set, one has none of the others in it.
LEMMA MinimalSubset ==
    ASSUME NEW S, IsFiniteSet(S), NEW A, A \subseteq SUBSET S, A # {}
    PROVE  \E T \in A : \A U \in A : U \subseteq T => U = T
<1>1. A \subseteq FiniteSubsetsOf(S)
  BY FS_Subset DEF FiniteSubsetsOf
<1>2. PICK T \in A : \A U \in A : <<U, T>> \notin StrictSubsetOrdering(S)
  BY <1>1, FS_StrictSubsetOrderingWellFounded, WFMin
<1>3. ASSUME NEW U \in A, U \subseteq T, U # T PROVE FALSE
  <2>1. <<U, T>> \in StrictSubsetOrdering(S)
    BY <1>3, <1>1 DEF StrictSubsetOrdering, FiniteSubsetsOf
  <2> QED BY <2>1, <1>2
<1> QED BY <1>3

\* Induction over the subsets of a finite set.
LEMMA FiniteSetInduction ==
    ASSUME NEW S, IsFiniteSet(S), NEW A, {} \in A,
           \A T \in SUBSET S, x \in S : T \in A /\ x \notin T => T \cup {x} \in A
    PROVE  \A T \in SUBSET S : T \in A
<1> DEFINE B == (SUBSET S) \ A
<1> SUFFICES ASSUME B # {} PROVE FALSE
  OBVIOUS
<1>1. PICK T \in B : \A U \in B : U \subseteq T => U = T
  <2>1. B \subseteq SUBSET S
    OBVIOUS
  <2> HIDE DEF B
  <2> QED BY <2>1, MinimalSubset
<1>2. PICK x : x \in T
  BY <1>1
<1>3. T \ {x} \in A
  BY <1>1, <1>2
<1>4. (T \ {x}) \cup {x} = T /\ x \in S /\ T \ {x} \in SUBSET S
  BY <1>2, <1>1
<1> QED BY <1>1, <1>3, <1>4

\* Some element of a non-empty set has the least number.
LEMMA LeastValue ==
    ASSUME NEW S, S # {}, NEW f, \A x \in S : f[x] \in Nat
    PROVE  \E x \in S : \A y \in S : f[x] <= f[y]
<1> DEFINE A == {f[x] : x \in S}
<1>1. A \subseteq Nat /\ A # {}
  OBVIOUS
<1>2. PICK n \in A : \A m \in A : n <= m
  <2> HIDE DEF A
  <2> QED BY <1>1, LeastNatural
<1>3. PICK x \in S : f[x] = n
  BY <1>2
<1> QED BY <1>2, <1>3

\* Some element of a finite, non-empty set has the greatest number.
LEMMA GreatestValue ==
    ASSUME NEW S, IsFiniteSet(S), S # {}, NEW f, \A x \in S : f[x] \in Nat
    PROVE  \E x \in S : \A y \in S : f[y] <= f[x]
<1> DEFINE A == {T \in SUBSET S : T = {} \/ \E x \in T : \A y \in T : f[y] <= f[x]}
<1>1. {} \in A
  OBVIOUS
<1>2. ASSUME NEW T \in SUBSET S, NEW x \in S, T \in A
      PROVE  T \cup {x} \in A
  <2>0. f[x] \in Nat /\ \A y \in T : f[y] \in Nat
    OBVIOUS
  <2>1. CASE T = {}
    <3>1. \A y \in T \cup {x} : f[y] <= f[x]
      BY <2>0, <2>1
    <3> QED BY <3>1
  <2>2. CASE T # {}
    <3>1. PICK g \in T : \A y \in T : f[y] <= f[g]
      BY <1>2, <2>2
    <3>2. CASE f[x] <= f[g]
      <4>1. \A y \in T \cup {x} : f[y] <= f[g]
        BY <3>1, <3>2
      <4> QED BY <4>1
    <3>3. CASE ~(f[x] <= f[g])
      <4>1. \A y \in T \cup {x} : f[y] <= f[x]
        BY <2>0, <3>1, <3>3
      <4> QED BY <4>1
    <3> QED BY <3>2, <3>3
  <2> QED BY <2>1, <2>2
<1>3. S \in A
  <2> HIDE DEF A
  <2>1. \A T \in SUBSET S : T \in A
    BY <1>1, <1>2, FiniteSetInduction
  <2> QED BY <2>1
<1> QED BY <1>3

(***************************************************************************)
(* Recursion over positions.                                               *)
(***************************************************************************)
\* h is base, and then what e makes of every position.
Recurs(h, n, base, e) == \A i \in 0..n : h[i] = IF i = 0 THEN base ELSE e[<<i, h[i - 1]>>]

\* There is such a function.
LEMMA PositionsExist ==
    ASSUME NEW n \in Nat, NEW V, NEW base \in V, NEW e \in [(1..n) \X V -> V]
    PROVE  \E h \in [0..n -> V] : Recurs(h, n, base, e)
<1> DEFINE Is(h, m) == Recurs(h, m, base, e)
           A == {m \in Nat : m <= n => \E h \in [0..m -> V] : Is(h, m)}
<1>1. 0 \in A
  <2>1. \A i \in 0..0 : i = 0
    BY SMT
  <2>2. [i \in 0..0 |-> base] \in [0..0 -> V] /\ Is([i \in 0..0 |-> base], 0)
    BY <2>1 DEF Recurs
  <2>3. 0 \in Nat
    OBVIOUS
  <2> HIDE DEF Is
  <2> QED BY <2>2, <2>3
<1>2. ASSUME NEW m \in Nat, m \in A PROVE m + 1 \in A
  <2>1. m + 1 \in Nat
    OBVIOUS
  <2> SUFFICES ASSUME m + 1 <= n PROVE \E h \in [0..(m + 1) -> V] : Is(h, m + 1)
    <3> HIDE DEF Is
    <3> QED BY <2>1
  <2>2. PICK h \in [0..m -> V] : Is(h, m)
    BY <1>2
  <2>9. \A i \in 0..m : h[i] = IF i = 0 THEN base ELSE e[<<i, h[i - 1]>>]
    BY <2>2 DEF Recurs
  <2> DEFINE g == [i \in 0..(m + 1) |-> IF i = m + 1 THEN e[<<m + 1, h[m]>>] ELSE h[i]]
  <2>3. /\ \A i \in 0..(m + 1) : i = m + 1 \/ (i \in 0..m /\ i # m + 1)
        /\ \A i \in 0..m : i \in 0..(m + 1) /\ i # m + 1
        /\ \A i \in 0..m : i # 0 => i - 1 \in 0..m
        /\ m \in 0..m /\ m + 1 \in 0..(m + 1) /\ m + 1 # 0 /\ (m + 1) - 1 = m /\ m + 1 \in 1..n
    BY SMT
  <2>4. e[<<m + 1, h[m]>>] \in V
    <3>1. <<m + 1, h[m]>> \in (1..n) \X V
      BY <2>3
    <3> QED BY <3>1
  <2>5. g \in [0..(m + 1) -> V]
    BY <2>3, <2>4
  <2>6. g[m + 1] = e[<<m + 1, h[m]>>] /\ \A i \in 0..m : g[i] = h[i]
    BY <2>3
  <2> HIDE DEF g
  <2>7. ASSUME NEW i \in 0..(m + 1)
        PROVE  g[i] = IF i = 0 THEN base ELSE e[<<i, g[i - 1]>>]
    <3>1. CASE i = m + 1
      BY <2>3, <2>6, <3>1
    <3>2. CASE i \in 0..m /\ i = 0
      BY <2>9, <2>6, <3>2
    <3>3. CASE i \in 0..m /\ i # 0
      BY <2>9, <2>3, <2>6, <3>3
    <3> QED BY <2>3, <3>1, <3>2, <3>3
  <2>8. Is(g, m + 1)
    BY <2>7 DEF Recurs
  <2> HIDE DEF Is
  <2> QED BY <2>5, <2>8
<1>3. n \in A
  <2> HIDE DEF A
  <2> QED BY <1>1, <1>2, NatSetInduction
<1>4. n <= n
  OBVIOUS
<1> QED BY <1>3, <1>4

\* What holds of the first position and is kept holds of all of them.
LEMMA PositionsTyped ==
    ASSUME NEW n \in Nat, NEW V, NEW g, g[0] \in V, \A i \in 1..n : g[i - 1] \in V => g[i] \in V
    PROVE  \A i \in 0..n : g[i] \in V
<1> DEFINE A == {m \in Nat : m <= n => g[m] \in V}
<1>1. 0 \in A
  BY SMT
<1>2. ASSUME NEW m \in Nat, m \in A PROVE m + 1 \in A
  <2>1. m + 1 \in Nat /\ (m + 1) - 1 = m /\ (m + 1 <= n => m <= n /\ m + 1 \in 1..n)
    BY SMT
  <2> QED BY <1>2, <2>1
<1>3. Nat \subseteq A
  <2> HIDE DEF A
  <2> QED BY <1>1, <1>2, NatSetInduction
<1>4. \A i \in 0..n : i \in Nat /\ i <= n
  BY SMT
<1> QED BY <1>3, <1>4

(***************************************************************************)
(* Recursion over the subsets of a finite set: what the folds of the       *)
(* community modules are.                                                  *)
(***************************************************************************)
Chosen(s) == CHOOSE x \in s : TRUE

\* h folds e over the subsets of S, taking out an element at a time.
Folds(h, S, base, e) ==
    \A s \in SUBSET S : h[s] = IF s = {} THEN base ELSE e[<<Chosen(s), h[s \ {Chosen(s)}]>>]

\* It does not matter which of two elements comes first.
Commutes(e, S, V) == \A x, y \in S, v \in V : e[<<x, e[<<y, v>>]>>] = e[<<y, e[<<x, v>>]>>]

\* Any element may be taken out first.
InAnyOrder(h, S, e) == \A s \in SUBSET S : \A x \in s : h[s] = e[<<x, h[s \ {x}]>>]

\* There is such a function.
LEMMA FoldExists ==
    ASSUME NEW S, IsFiniteSet(S), NEW V, NEW base \in V, NEW e \in [S \X V -> V]
    PROVE  \E h \in [SUBSET S -> V] : Folds(h, S, base, e)
<1> DEFINE D(n) == {s \in SUBSET S : Cardinality(s) <= n}
           Is(h, n) == \A s \in D(n) :
               h[s] = IF s = {} THEN base ELSE e[<<Chosen(s), h[s \ {Chosen(s)}]>>]
           A == {n \in Nat : \E h \in [D(n) -> V] : Is(h, n)}
<1>0. \A s \in SUBSET S : /\ IsFiniteSet(s) /\ Cardinality(s) \in Nat
                          /\ s # {} => Chosen(s) \in s /\ Cardinality(s \ {Chosen(s)}) = Cardinality(s) - 1
  <2> TAKE s \in SUBSET S
  <2>1. IsFiniteSet(s) /\ Cardinality(s) \in Nat
    BY FS_Subset, FS_CardinalityType
  <2>2. s # {} => Chosen(s) \in s
    BY DEF Chosen
  <2> QED BY <2>1, <2>2, FS_RemoveElement
<1>1. 0 \in A
  <2>1. D(0) = {{}}
    <3>1. ASSUME NEW s \in SUBSET S, Cardinality(s) <= 0 PROVE s = {}
      <4>0. Cardinality(s) \in Nat
        BY <1>0
      <4>1. Cardinality(s) = 0
        BY <4>0, <3>1, SMT
      <4> QED BY <4>1, <1>0, FS_EmptySet
    <3>2. Cardinality({}) <= 0
      BY FS_EmptySet, SMT
    <3> QED BY <3>1, <3>2
  <2>2. [s \in D(0) |-> base] \in [D(0) -> V] /\ Is([s \in D(0) |-> base], 0)
    BY <2>1
  <2> QED BY <2>2
<1>2. ASSUME NEW n \in Nat, n \in A PROVE n + 1 \in A
  <2>1. PICK h \in [D(n) -> V] : Is(h, n)
    BY <1>2
  <2> DEFINE g == [s \in D(n + 1) |-> IF s \in D(n) THEN h[s]
                                      ELSE e[<<Chosen(s), h[s \ {Chosen(s)}]>>]]
  <2>2. ASSUME NEW s \in D(n + 1), s # {}
        PROVE  s \ {Chosen(s)} \in D(n) /\ Chosen(s) \in S /\ s \ {Chosen(s)} \in D(n + 1)
    BY <2>2, <1>0, SMT
  <2>3. \A s \in D(n) : s \in D(n + 1)
    <3> TAKE s \in D(n)
    <3>1. Cardinality(s) \in Nat /\ Cardinality(s) <= n
      BY <1>0
    <3>2. Cardinality(s) <= n + 1
      BY <3>1, SMT
    <3> QED BY <3>2
  <2>4. {} \in D(n)
    <3>1. Cardinality({}) <= n
      BY FS_EmptySet, SMT
    <3> QED BY <3>1
  <2>5. g \in [D(n + 1) -> V]
    <3>1. ASSUME NEW s \in D(n + 1) PROVE g[s] \in V
      <4>1. CASE s \in D(n)
        BY <4>1
      <4>2. CASE s \notin D(n)
        BY <4>2, <2>2, <2>4
      <4> QED BY <4>1, <4>2
    <3> QED BY <3>1
  <2>6. Is(g, n + 1)
    <3> SUFFICES ASSUME NEW s \in D(n + 1)
                 PROVE  g[s] = IF s = {} THEN base ELSE e[<<Chosen(s), g[s \ {Chosen(s)}]>>]
      OBVIOUS
    <3>1. s # {} => g[s \ {Chosen(s)}] = h[s \ {Chosen(s)}]
      BY <2>2
    <3>2. CASE s \in D(n)
      BY <3>1, <3>2, <2>1
    <3>3. CASE s \notin D(n)
      BY <3>1, <3>3, <2>4
    <3> QED BY <3>2, <3>3
  <2> HIDE DEF g, Is, D
  <2>7. n + 1 \in Nat
    OBVIOUS
  <2> QED BY <2>5, <2>6, <2>7
<1>3. Nat \subseteq A
  <2> HIDE DEF A
  <2> QED BY <1>1, <1>2, NatSetInduction
<1>4. Cardinality(S) \in A /\ Cardinality(S) \in Nat
  BY <1>3, FS_CardinalityType
<1>5. D(Cardinality(S)) = SUBSET S
  BY FS_Subset
<1>6. PICK h \in [D(Cardinality(S)) -> V] : Is(h, Cardinality(S))
  BY <1>4
<1> QED BY <1>5, <1>6 DEF Folds

\* There is only one.
LEMMA FoldUnique ==
    ASSUME NEW S, IsFiniteSet(S), NEW base, NEW e, NEW g, NEW h,
           Folds(g, S, base, e), Folds(h, S, base, e)
    PROVE  \A s \in SUBSET S : g[s] = h[s]
<1> DEFINE A == {s \in SUBSET S : g[s] # h[s]}
<1> SUFFICES ASSUME A # {} PROVE FALSE
  OBVIOUS
<1>1. PICK s \in A : \A t \in A : t \subseteq s => t = s
  <2>1. A \subseteq SUBSET S
    OBVIOUS
  <2> HIDE DEF A
  <2> QED BY <2>1, MinimalSubset
<1>2. s # {}
  BY <1>1 DEF Folds
<1>3. Chosen(s) \in s
  BY <1>2 DEF Chosen
<1>4. g[s \ {Chosen(s)}] = h[s \ {Chosen(s)}]
  BY <1>1, <1>3
<1>5. g[s] = h[s]
  BY <1>1, <1>2, <1>4 DEF Folds
<1> QED BY <1>1, <1>5

\* When it does not matter which of two elements comes first, no order matters.
LEMMA FoldInAnyOrder ==
    ASSUME NEW S, IsFiniteSet(S), NEW V, NEW base \in V, NEW e \in [S \X V -> V],
           Commutes(e, S, V),
           NEW h \in [SUBSET S -> V], Folds(h, S, base, e)
    PROVE  InAnyOrder(h, S, e)
<1> DEFINE A == {s \in SUBSET S : \E x \in s : h[s] # e[<<x, h[s \ {x}]>>]}
<1> SUFFICES ASSUME A # {} PROVE FALSE
  BY DEF InAnyOrder
<1>1. PICK s \in A : \A t \in A : t \subseteq s => t = s
  <2>1. A \subseteq SUBSET S
    OBVIOUS
  <2> HIDE DEF A
  <2> QED BY <2>1, MinimalSubset
<1>2. PICK x \in s : h[s] # e[<<x, h[s \ {x}]>>]
  BY <1>1
<1> DEFINE c == Chosen(s)
           t == (s \ {c}) \ {x}
<1>3. c \in s /\ s \in SUBSET S /\ c \in S /\ x \in S
  BY <1>1, <1>2 DEF Chosen
<1>4. h[s] = e[<<c, h[s \ {c}]>>]
  BY <1>3 DEF Folds
<1> HIDE DEF c
<1>5. c # x
  BY <1>2, <1>4
<1>6. s \ {c} \notin A /\ s \ {x} \notin A
  BY <1>1, <1>2, <1>3
<1>7. h[s \ {c}] = e[<<x, h[t]>>]
  <2>1. x \in s \ {c} /\ s \ {c} \in SUBSET S
    BY <1>5, <1>3
  <2> QED BY <2>1, <1>6
<1>8. h[s \ {x}] = e[<<c, h[t]>>]
  <2>1. c \in s \ {x} /\ s \ {x} \in SUBSET S /\ (s \ {x}) \ {c} = t
    BY <1>5, <1>3
  <2> QED BY <2>1, <1>6
<1>9. h[t] \in V
  BY <1>3
<1>10. e[<<c, e[<<x, h[t]>>]>>] = e[<<x, e[<<c, h[t]>>]>>]
  BY <1>3, <1>9 DEF Commutes
<1> QED BY <1>2, <1>4, <1>7, <1>8, <1>10

(***************************************************************************)
(* Sums.                                                                   *)
(***************************************************************************)
\* h sums f over the subsets of S, in any order.
Sums(h, f, S) ==
    /\ \A T \in SUBSET S : SumFunctionOnSet(f, T) = h[T]
    /\ h[{}] = 0
    /\ \A T \in SUBSET S : \A x \in T : h[T] = f[x] + h[T \ {x}]

\* Sums of integers over finite sets are integers and can be taken in any order.
LEMMA SumFolds ==
    ASSUME NEW f, NEW S, IsFiniteSet(S), \A x \in S : f[x] \in Int
    PROVE  \E h \in [SUBSET S -> Int] : Sums(h, f, S)
<1> DEFINE e == [p \in S \X Int |-> f[p[1]] + p[2]]
<1>1. e \in [S \X Int -> Int] /\ \A x \in S, v \in Int : e[<<x, v>>] = f[x] + v
  OBVIOUS
<1>2. Commutes(e, S, Int)
  <2> SUFFICES ASSUME NEW x \in S, NEW y \in S, NEW v \in Int
               PROVE  e[<<x, e[<<y, v>>]>>] = e[<<y, e[<<x, v>>]>>]
    BY DEF Commutes
  <2>1. f[x] \in Int /\ f[y] \in Int /\ f[x] + v \in Int /\ f[y] + v \in Int
    OBVIOUS
  <2>2. f[x] + (f[y] + v) = f[y] + (f[x] + v)
    BY <2>1, SMT
  <2> QED BY <2>1, <2>2, <1>1
<1> HIDE DEF e
<1>0. 0 \in Int
  OBVIOUS
<1>3. PICK h \in [SUBSET S -> Int] : Folds(h, S, 0, e)
  BY <1>0, <1>1, FoldExists
<1>4. InAnyOrder(h, S, e)
  BY <1>0, <1>1, <1>2, <1>3, FoldInAnyOrder
<1>5. \A T \in SUBSET S : \A x \in T : h[T] = f[x] + h[T \ {x}]
  BY <1>1, <1>4 DEF InAnyOrder
<1>6. h[{}] = 0
  BY <1>3 DEF Folds
<1>7. ASSUME NEW T \in SUBSET S PROVE SumFunctionOnSet(f, T) = h[T]
  <2> DEFINE E(g) == [s \in SUBSET T |-> IF s = {} THEN 0 ELSE f[Chosen(s)] + g[s \ {Chosen(s)}]]
             iter == CHOOSE g : g = E(g)
  <2>1. SumFunctionOnSet(f, T) = iter[T]
    BY DEF SumFunctionOnSet, FoldFunctionOnSet, MapThenFoldSet, Chosen
  <2>2. [s \in SUBSET T |-> h[s]] = E([s \in SUBSET T |-> h[s]])
    <3> DEFINE r == [s \in SUBSET T |-> h[s]]
    <3> SUFFICES ASSUME NEW s \in SUBSET T
                 PROVE  r[s] = IF s = {} THEN 0 ELSE f[Chosen(s)] + r[s \ {Chosen(s)}]
      OBVIOUS
    <3>1. CASE s = {}
      BY <3>1, <1>6
    <3>2. CASE s # {}
      <4>1. Chosen(s) \in s /\ s \ {Chosen(s)} \in SUBSET T
        BY <3>2 DEF Chosen
      <4> QED BY <4>1, <3>2, <1>5
    <3> QED BY <3>1, <3>2
  <2>3. iter = E(iter)
    <3> HIDE DEF E
    <3> QED BY <2>2
  <2> HIDE DEF iter
  <2>4. \A s \in SUBSET T : iter[s] = h[s]
    <3> DEFINE B == {s \in SUBSET T : iter[s] # h[s]}
    <3> SUFFICES ASSUME B # {} PROVE FALSE
      OBVIOUS
    <3>0. IsFiniteSet(T)
      BY FS_Subset
    <3>1. PICK s \in B : \A t \in B : t \subseteq s => t = s
      <4>1. B \subseteq SUBSET T
        OBVIOUS
      <4> HIDE DEF B
      <4> QED BY <3>0, <4>1, MinimalSubset
    <3>2. iter[s] = IF s = {} THEN 0 ELSE f[Chosen(s)] + iter[s \ {Chosen(s)}]
      BY <2>3, <3>1
    <3>3. CASE s = {}
      BY <3>1, <3>2, <3>3, <1>6
    <3>4. CASE s # {}
      <4>1. Chosen(s) \in s
        BY <3>4 DEF Chosen
      <4>2. iter[s \ {Chosen(s)}] = h[s \ {Chosen(s)}]
        BY <3>1, <4>1
      <4> QED BY <3>1, <3>2, <3>4, <4>1, <4>2, <1>5
    <3> QED BY <3>3, <3>4
  <2> QED BY <2>1, <2>4
<1> QED BY <1>5, <1>6, <1>7 DEF Sums

\* The empty sum.
LEMMA SumOfNone ==
    ASSUME NEW f
    PROVE  SumFunctionOnSet(f, {}) = 0
<1>1. IsFiniteSet({}) /\ \A x \in {} : f[x] \in Int
  BY FS_EmptySet
<1>2. PICK h \in [SUBSET {} -> Int] : Sums(h, f, {})
  BY <1>1, SumFolds
<1> QED BY <1>2 DEF Sums

\* A sum is an integer, and any element may be added last.
LEMMA SumAddsUp ==
    ASSUME NEW f, NEW S, IsFiniteSet(S), \A x \in S : f[x] \in Int
    PROVE  /\ SumFunctionOnSet(f, S) \in Int
           /\ \A x \in S : /\ SumFunctionOnSet(f, S \ {x}) \in Int
                           /\ SumFunctionOnSet(f, S) = f[x] + SumFunctionOnSet(f, S \ {x})
<1>1. PICK h \in [SUBSET S -> Int] : Sums(h, f, S)
  BY SumFolds
<1>2. S \in SUBSET S /\ \A x \in S : S \ {x} \in SUBSET S
  OBVIOUS
<1> QED BY <1>1, <1>2 DEF Sums

\* One more element.
LEMMA SumPlusOne ==
    ASSUME NEW f, NEW S, IsFiniteSet(S), NEW x, x \notin S, f[x] \in Int, \A y \in S : f[y] \in Int
    PROVE  SumFunctionOnSet(f, S \cup {x}) = f[x] + SumFunctionOnSet(f, S)
<1>1. IsFiniteSet(S \cup {x})
  BY FS_AddElement
<1>2. (S \cup {x}) \ {x} = S
  OBVIOUS
<1>3. \A y \in S \cup {x} : f[y] \in Int
  OBVIOUS
<1> QED BY <1>1, <1>2, <1>3, SumAddsUp

\* Sums only depend on the summands.
LEMMA SumOfSame ==
    ASSUME NEW f, NEW g, NEW S, IsFiniteSet(S), \A x \in S : f[x] \in Int /\ g[x] = f[x]
    PROVE  SumFunctionOnSet(f, S) = SumFunctionOnSet(g, S)
<1> DEFINE A == {T \in SUBSET S : SumFunctionOnSet(f, T) = SumFunctionOnSet(g, T)}
<1>1. {} \in A
  BY SumOfNone
<1>2. ASSUME NEW T \in SUBSET S, NEW x \in S, T \in A, x \notin T PROVE T \cup {x} \in A
  <2>1. IsFiniteSet(T) /\ \A y \in T : f[y] \in Int /\ g[y] \in Int
    BY FS_Subset
  <2>2. /\ SumFunctionOnSet(f, T \cup {x}) = f[x] + SumFunctionOnSet(f, T)
        /\ SumFunctionOnSet(g, T \cup {x}) = g[x] + SumFunctionOnSet(g, T)
    BY <2>1, <1>2, SumPlusOne
  <2> QED BY <1>2, <2>2
<1>3. \A T \in SUBSET S : T \in A
  <2> HIDE DEF A
  <2> QED BY <1>1, <1>2, FiniteSetInduction
<1> QED BY <1>3

\* Sums of naturals are natural, and none of their terms is larger.
LEMMA SumOfNaturals ==
    ASSUME NEW f, NEW S, IsFiniteSet(S), \A x \in S : f[x] \in Nat
    PROVE  /\ SumFunctionOnSet(f, S) \in Nat
           /\ \A x \in S : f[x] <= SumFunctionOnSet(f, S)
<1> DEFINE A == {T \in SUBSET S : SumFunctionOnSet(f, T) \in Nat}
<1>1. {} \in A
  BY SumOfNone
<1>2. ASSUME NEW T \in SUBSET S, NEW x \in S, T \in A, x \notin T PROVE T \cup {x} \in A
  <2>1. IsFiniteSet(T) /\ \A y \in T : f[y] \in Int
    BY FS_Subset
  <2>2. SumFunctionOnSet(f, T \cup {x}) = f[x] + SumFunctionOnSet(f, T)
    BY <2>1, <1>2, SumPlusOne
  <2>3. f[x] \in Nat /\ SumFunctionOnSet(f, T) \in Nat
    BY <1>2
  <2> QED BY <2>2, <2>3
<1>3. \A T \in SUBSET S : T \in A
  <2> HIDE DEF A
  <2> QED BY <1>1, <1>2, FiniteSetInduction
<1>4. ASSUME NEW x \in S PROVE f[x] <= SumFunctionOnSet(f, S)
  <2>1. SumFunctionOnSet(f, S) = f[x] + SumFunctionOnSet(f, S \ {x})
    <3>1. \A y \in S : f[y] \in Int
      OBVIOUS
    <3> QED BY <3>1, SumAddsUp
  <2>2. SumFunctionOnSet(f, S \ {x}) \in Nat /\ f[x] \in Nat
    BY <1>3
  <2> QED BY <2>1, <2>2, SMT
<1> QED BY <1>3, <1>4

\* Zeros add up to zero.
LEMMA SumOfZeros ==
    ASSUME NEW f, NEW S, IsFiniteSet(S), \A x \in S : f[x] = 0
    PROVE  SumFunctionOnSet(f, S) = 0
<1> DEFINE A == {T \in SUBSET S : SumFunctionOnSet(f, T) = 0}
<1>1. {} \in A
  BY SumOfNone
<1>2. ASSUME NEW T \in SUBSET S, NEW x \in S, T \in A, x \notin T PROVE T \cup {x} \in A
  <2>1. IsFiniteSet(T) /\ f[x] = 0 /\ f[x] \in Int /\ \A y \in T : f[y] \in Int
    BY FS_Subset
  <2>2. SumFunctionOnSet(f, T \cup {x}) = f[x] + SumFunctionOnSet(f, T)
    BY <2>1, <1>2, SumPlusOne
  <2> QED BY <1>2, <2>1, <2>2
<1>3. \A T \in SUBSET S : T \in A
  <2> HIDE DEF A
  <2> QED BY <1>1, <1>2, FiniteSetInduction
<1> QED BY <1>3

(***************************************************************************)
(* Products.                                                               *)
(***************************************************************************)
\* The product of f over S.
ProductOn(f, S) == FoldFunctionOnSet(LAMBDA m, n : m * n, 1, f, S)

\* h multiplies f over the subsets of S, in any order.
Products(h, f, S) ==
    /\ \A T \in SUBSET S : ProductOn(f, T) = h[T]
    /\ h[{}] = 1
    /\ \A T \in SUBSET S : \A x \in T : h[T] = f[x] * h[T \ {x}]

\* Products of integers over finite sets are integers and can be taken in any order.
LEMMA ProductFolds ==
    ASSUME NEW f, NEW S, IsFiniteSet(S), \A x \in S : f[x] \in Int
    PROVE  \E h \in [SUBSET S -> Int] : Products(h, f, S)
<1> DEFINE e == [p \in S \X Int |-> f[p[1]] * p[2]]
<1>1. e \in [S \X Int -> Int] /\ \A x \in S, v \in Int : e[<<x, v>>] = f[x] * v
  OBVIOUS
<1>2. Commutes(e, S, Int)
  <2> SUFFICES ASSUME NEW x \in S, NEW y \in S, NEW v \in Int
               PROVE  e[<<x, e[<<y, v>>]>>] = e[<<y, e[<<x, v>>]>>]
    BY DEF Commutes
  <2>1. f[x] \in Int /\ f[y] \in Int /\ f[x] * v \in Int /\ f[y] * v \in Int
    OBVIOUS
  <2>2. f[x] * (f[y] * v) = f[y] * (f[x] * v)
    BY <2>1, SMT
  <2> QED BY <2>1, <2>2, <1>1
<1> HIDE DEF e
<1>0. 1 \in Int
  OBVIOUS
<1>3. PICK h \in [SUBSET S -> Int] : Folds(h, S, 1, e)
  BY <1>0, <1>1, FoldExists
<1>4. InAnyOrder(h, S, e)
  BY <1>0, <1>1, <1>2, <1>3, FoldInAnyOrder
<1>5. \A T \in SUBSET S : \A x \in T : h[T] = f[x] * h[T \ {x}]
  BY <1>1, <1>4 DEF InAnyOrder
<1>6. h[{}] = 1
  BY <1>3 DEF Folds
<1>7. ASSUME NEW T \in SUBSET S PROVE ProductOn(f, T) = h[T]
  <2> DEFINE E(g) == [s \in SUBSET T |-> IF s = {} THEN 1 ELSE f[Chosen(s)] * g[s \ {Chosen(s)}]]
             iter == CHOOSE g : g = E(g)
  <2>1. ProductOn(f, T) = iter[T]
    BY DEF ProductOn, FoldFunctionOnSet, MapThenFoldSet, Chosen
  <2>2. [s \in SUBSET T |-> h[s]] = E([s \in SUBSET T |-> h[s]])
    <3> DEFINE r == [s \in SUBSET T |-> h[s]]
    <3> SUFFICES ASSUME NEW s \in SUBSET T
                 PROVE  r[s] = IF s = {} THEN 1 ELSE f[Chosen(s)] * r[s \ {Chosen(s)}]
      OBVIOUS
    <3>1. CASE s = {}
      BY <3>1, <1>6
    <3>2. CASE s # {}
      <4>1. Chosen(s) \in s /\ s \ {Chosen(s)} \in SUBSET T
        BY <3>2 DEF Chosen
      <4> QED BY <4>1, <3>2, <1>5
    <3> QED BY <3>1, <3>2
  <2>3. iter = E(iter)
    <3> HIDE DEF E
    <3> QED BY <2>2
  <2> HIDE DEF iter
  <2>4. \A s \in SUBSET T : iter[s] = h[s]
    <3> DEFINE B == {s \in SUBSET T : iter[s] # h[s]}
    <3> SUFFICES ASSUME B # {} PROVE FALSE
      OBVIOUS
    <3>0. IsFiniteSet(T)
      BY FS_Subset
    <3>1. PICK s \in B : \A t \in B : t \subseteq s => t = s
      <4>1. B \subseteq SUBSET T
        OBVIOUS
      <4> HIDE DEF B
      <4> QED BY <3>0, <4>1, MinimalSubset
    <3>2. iter[s] = IF s = {} THEN 1 ELSE f[Chosen(s)] * iter[s \ {Chosen(s)}]
      BY <2>3, <3>1
    <3>3. CASE s = {}
      BY <3>1, <3>2, <3>3, <1>6
    <3>4. CASE s # {}
      <4>1. Chosen(s) \in s
        BY <3>4 DEF Chosen
      <4>2. iter[s \ {Chosen(s)}] = h[s \ {Chosen(s)}]
        BY <3>1, <4>1
      <4> QED BY <3>1, <3>2, <3>4, <4>1, <4>2, <1>5
    <3> QED BY <3>3, <3>4
  <2> QED BY <2>1, <2>4
<1> QED BY <1>5, <1>6, <1>7 DEF Products

\* The empty product.
LEMMA ProductOfNone ==
    ASSUME NEW f
    PROVE  ProductOn(f, {}) = 1
<1>1. IsFiniteSet({}) /\ \A x \in {} : f[x] \in Int
  BY FS_EmptySet
<1>2. PICK h \in [SUBSET {} -> Int] : Products(h, f, {})
  BY <1>1, ProductFolds
<1> QED BY <1>2 DEF Products

\* A product is an integer, and any factor may be the last.
LEMMA ProductMultiplies ==
    ASSUME NEW f, NEW S, IsFiniteSet(S), \A x \in S : f[x] \in Int
    PROVE  /\ ProductOn(f, S) \in Int
           /\ \A x \in S : /\ ProductOn(f, S \ {x}) \in Int
                           /\ ProductOn(f, S) = f[x] * ProductOn(f, S \ {x})
<1>1. PICK h \in [SUBSET S -> Int] : Products(h, f, S)
  BY ProductFolds
<1>2. S \in SUBSET S /\ \A x \in S : S \ {x} \in SUBSET S
  OBVIOUS
<1> QED BY <1>1, <1>2 DEF Products

\* One more factor.
LEMMA ProductTimesOne ==
    ASSUME NEW f, NEW S, IsFiniteSet(S), NEW x, x \notin S, f[x] \in Int, \A y \in S : f[y] \in Int
    PROVE  ProductOn(f, S \cup {x}) = f[x] * ProductOn(f, S)
<1>1. IsFiniteSet(S \cup {x})
  BY FS_AddElement
<1>2. (S \cup {x}) \ {x} = S
  OBVIOUS
<1>3. \A y \in S \cup {x} : f[y] \in Int
  OBVIOUS
<1> QED BY <1>1, <1>2, <1>3, ProductMultiplies

\* Products only depend on the factors.
LEMMA ProductOfSame ==
    ASSUME NEW f, NEW g, NEW S, IsFiniteSet(S), \A x \in S : f[x] \in Int /\ g[x] = f[x]
    PROVE  ProductOn(f, S) = ProductOn(g, S)
<1> DEFINE A == {T \in SUBSET S : ProductOn(f, T) = ProductOn(g, T)}
<1>1. {} \in A
  BY ProductOfNone
<1>2. ASSUME NEW T \in SUBSET S, NEW x \in S, T \in A, x \notin T PROVE T \cup {x} \in A
  <2>1. IsFiniteSet(T) /\ \A y \in T : f[y] \in Int /\ g[y] \in Int
    BY FS_Subset
  <2>2. /\ ProductOn(f, T \cup {x}) = f[x] * ProductOn(f, T)
        /\ ProductOn(g, T \cup {x}) = g[x] * ProductOn(g, T)
    BY <2>1, <1>2, ProductTimesOne
  <2> QED BY <1>2, <2>2
<1>3. \A T \in SUBSET S : T \in A
  <2> HIDE DEF A
  <2> QED BY <1>1, <1>2, FiniteSetInduction
<1> QED BY <1>3

\* Products of naturals are natural.
LEMMA ProductOfNaturals ==
    ASSUME NEW f, NEW S, IsFiniteSet(S), \A x \in S : f[x] \in Nat
    PROVE  ProductOn(f, S) \in Nat
<1> DEFINE A == {T \in SUBSET S : ProductOn(f, T) \in Nat}
<1>1. {} \in A
  BY ProductOfNone
<1>2. ASSUME NEW T \in SUBSET S, NEW x \in S, T \in A, x \notin T PROVE T \cup {x} \in A
  <2>1. IsFiniteSet(T) /\ \A y \in T : f[y] \in Int
    BY FS_Subset
  <2>2. ProductOn(f, T \cup {x}) = f[x] * ProductOn(f, T)
    BY <2>1, <1>2, ProductTimesOne
  <2>3. f[x] \in Nat /\ ProductOn(f, T) \in Nat
    BY <1>2
  <2>4. f[x] * ProductOn(f, T) \in Nat
    BY <2>3, SMT
  <2> QED BY <2>2, <2>4
<1>3. \A T \in SUBSET S : T \in A
  <2> HIDE DEF A
  <2> QED BY <1>1, <1>2, FiniteSetInduction
<1> QED BY <1>3

(***************************************************************************)
(* Counting.                                                               *)
(***************************************************************************)
\* A sum in which one term has changed.
LEMMA SumChanged ==
    ASSUME NEW f, NEW g, NEW S, IsFiniteSet(S), \A y \in S : f[y] \in Int,
           NEW x \in S, g[x] \in Int, \A y \in S \ {x} : g[y] = f[y]
    PROVE  SumFunctionOnSet(g, S) = SumFunctionOnSet(f, S) + (g[x] - f[x])
<1>1. \A y \in S : g[y] \in Int
  OBVIOUS
<1>0. \A y \in S : f[y] \in Int
  OBVIOUS
<1>2. /\ SumFunctionOnSet(f, S \ {x}) \in Int
      /\ SumFunctionOnSet(f, S) = f[x] + SumFunctionOnSet(f, S \ {x})
  <2>1. \A y \in S : /\ SumFunctionOnSet(f, S \ {y}) \in Int
                     /\ SumFunctionOnSet(f, S) = f[y] + SumFunctionOnSet(f, S \ {y})
    BY <1>0, SumAddsUp, ZenonT(30)
  <2> QED BY <2>1
<1>3. SumFunctionOnSet(g, S) = g[x] + SumFunctionOnSet(g, S \ {x})
  BY <1>1, SumAddsUp
<1>4. SumFunctionOnSet(f, S \ {x}) = SumFunctionOnSet(g, S \ {x})
  <2>1. IsFiniteSet(S \ {x})
    BY FS_RemoveElement
  <2> QED BY <2>1, SumOfSame
<1>5. f[x] \in Int
  OBVIOUS
<1> QED BY <1>2, <1>3, <1>4, <1>5, SMT

\* Disjoint sets have together as many elements as each of them.
LEMMA UnionCount ==
    ASSUME NEW P, IsFiniteSet(P), NEW F, \A p \in P : IsFiniteSet(F[p]),
           \A p \in P : \A q \in P : p # q => F[p] \cap F[q] = {}
    PROVE  /\ IsFiniteSet(UNION {F[p] : p \in P})
           /\ Cardinality(UNION {F[p] : p \in P}) = SumFunctionOnSet([p \in P |-> Cardinality(F[p])], P)
<1> DEFINE U(T) == UNION {F[p] : p \in T}
           c == [p \in P |-> Cardinality(F[p])]
           A == {T \in SUBSET P : IsFiniteSet(U(T)) /\ Cardinality(U(T)) = SumFunctionOnSet(c, T)}
<1>0. \A p \in P : c[p] = Cardinality(F[p]) /\ c[p] \in Nat
  BY FS_CardinalityType
<1> HIDE DEF c
<1>1. {} \in A
  <2>1. U({}) = {}
    OBVIOUS
  <2> HIDE DEF U
  <2> QED BY <2>1, FS_EmptySet, SumOfNone
<1>2. ASSUME NEW T \in SUBSET P, NEW x \in P, T \in A, x \notin T PROVE T \cup {x} \in A
  <2>1. U(T \cup {x}) = U(T) \cup F[x]
    OBVIOUS
  <2>2. U(T) \cap F[x] = {}
    BY <1>2
  <2>3. IsFiniteSet(U(T)) /\ Cardinality(U(T)) = SumFunctionOnSet(c, T)
    BY <1>2
  <2> HIDE DEF U
  <2>4. /\ IsFiniteSet(U(T) \cup F[x])
        /\ Cardinality(U(T) \cup F[x]) = Cardinality(U(T)) + Cardinality(F[x]) - Cardinality(U(T) \cap F[x])
    BY <2>3, FS_Union
  <2>5. SumFunctionOnSet(c, T \cup {x}) = c[x] + SumFunctionOnSet(c, T)
    <3>1. IsFiniteSet(T) /\ c[x] \in Int /\ \A y \in T : c[y] \in Int
      BY <1>0, FS_Subset
    <3> QED BY <3>1, <1>2, SumPlusOne
  <2>6. Cardinality(U(T)) \in Nat /\ Cardinality(F[x]) \in Nat /\ Cardinality({}) = 0
    BY <2>3, FS_CardinalityType, FS_EmptySet
  <2>7. Cardinality(U(T) \cup F[x]) = c[x] + SumFunctionOnSet(c, T)
    <3>1. Cardinality(U(T) \cup F[x]) = Cardinality(U(T)) + Cardinality(F[x]) - 0
      BY <2>2, <2>4, <2>6
    <3>2. Cardinality(U(T)) + Cardinality(F[x]) - 0 = Cardinality(F[x]) + Cardinality(U(T))
      BY <2>6, SMT
    <3> QED BY <1>0, <2>3, <3>1, <3>2
  <2> QED BY <2>1, <2>4, <2>5, <2>7
<1>3. \A T \in SUBSET P : T \in A
  <2> HIDE DEF A
  <2> QED BY <1>1, <1>2, FiniteSetInduction
<1> QED BY <1>3 DEF c
=============================================================================
