---------------------------- MODULE DiscoveryProofs ----------------------------
(***************************************************************************)
(* Proofs about automatic discovery.                                       *)
(*                                                                         *)
(* The conditions of a strategy, for all conditions and candles: crosses   *)
(* read adjacent frames of one session, and the canonical form of an       *)
(* admissible condition says what the condition says, and never holds when *)
(* a contradiction is proved.  The argument is by induction over the       *)
(* places of a tree, and by what a flipped or merged leaf says.            *)
(*                                                                         *)
(* The candidates of a search space, for all spaces and policies: the      *)
(* analytic count of a space is the number of its combinations, and each   *)
(* is counted once; the candidates depend on the identity of the space     *)
(* only, are within its policy, and are the same for both sides of a       *)
(* trend.  The argument is that the choices of one value per parameter are *)
(* as many as the product of the lengths of the grids, that a combination  *)
(* of one way of writing a space has its like in every other, and that     *)
(* what an identity and a rejection depend on is the same of both.         *)
(*                                                                         *)
(* The publication of candidate plans, for all requests, profiles and      *)
(* processes, any assignment of checkpoint files and any number of         *)
(* interruptions, crashes and damaged directories: what is published is    *)
(* there, can be loaded and holds what was asked for, and plans are never  *)
(* overwritten.  The argument is that a plan found in the cache, whoever   *)
(* planned it, has the candidates of the request; a directory of the cache *)
(* appears once, so the plan a bundle was made of stays the plan of its    *)
(* space; and a checkpoint only speaks of bundles that were there.         *)
(***************************************************************************)
EXTENDS ConditionEngine, CandidateSpace, PlanPublication, FoldLemmas, FunctionTheorems

(***************************************************************************)
(* Condition trees.                                                        *)
(***************************************************************************)
\* A tree of conjunctions.
IsConjunction(c) == IsTree(c) /\ \A p \in DOMAIN c : IsLogical(c[p]) => c[p].operator = "AND"

\* q is at p or below it.
Below(q, p) == Len(p) <= Len(q) /\ \A i \in 1..Len(p) : q[i] = p[i]

\* Below a logical node is one of its children.
LEMMA BelowAChild ==
    ASSUME NEW c, IsTree(c), NEW p \in DOMAIN c, NEW q \in DOMAIN c, Below(q, p), q # p
    PROVE  IsLogical(c[p]) /\ q[Len(p) + 1] \in 1..c[p].arity /\ Len(p) < Len(q)
<1> DEFINE A == {r \in DOMAIN c : Below(r, p) /\ r # p /\ Below(q, r)}
           length == [r \in A |-> Len(r)]
<1>0. DOMAIN c \subseteq Seq(Nat)
  BY DEF IsTree
<1>1. q \in A /\ A \subseteq Seq(Nat)
  BY <1>0 DEF Below
<1>2. \A r \in A : length[r] \in Nat /\ length[r] = Len(r)
  BY <1>1, LenProperties
<1>4. PICK r \in A : \A s \in A : Len(r) <= Len(s)
  <2>1. A # {}
    BY <1>1
  <2> HIDE DEF A, length
  <2>2. PICK r \in A : \A s \in A : length[r] <= length[s]
    BY <2>1, <1>2, LeastValue
  <2> QED BY <2>2, <1>2
<1>5. /\ p \in Seq(Nat) /\ r \in Seq(Nat) /\ q \in Seq(Nat) /\ r # p
      /\ Len(p) \in Nat /\ Len(r) \in Nat /\ Len(q) \in Nat
      /\ Len(p) <= Len(r) /\ Len(r) <= Len(q)
      /\ \A i \in 1..Len(p) : r[i] = p[i]
      /\ \A i \in 1..Len(r) : q[i] = r[i]
  BY <1>0, <1>4, LenProperties DEF Below
<1>6. Len(p) < Len(r)
  <2>1. Len(p) # Len(r)
    BY <1>5, SeqEqual
  <2> QED BY <2>1, <1>5, SMT
<1>7. r # <<>>
  <2>1. Len(r) # 0
    BY <1>5, <1>6, SMT
  <2> QED BY <2>1, EmptySeq
<1>8. PICK t \in DOMAIN c : IsLogical(c[t]) /\ \E k \in 1..c[t].arity : r = Append(t, k)
  BY <1>4, <1>7 DEF IsTree
<1>9. PICK k \in 1..c[t].arity : r = Append(t, k)
  BY <1>8
<1>10. c[t].arity \in Nat
  BY <1>8 DEF IsTree
<1>11. k \in Nat /\ t \in Seq(Nat) /\ Len(t) \in Nat
  BY <1>0, <1>9, <1>10, LenProperties, SMT
<1>12. /\ Len(r) = Len(t) + 1 /\ r[Len(t) + 1] = k
       /\ \A i \in 1..Len(t) : r[i] = t[i]
  BY <1>9, <1>11, AppendProperties
<1>13. Below(t, p) /\ Below(q, t)
  <2>1. Len(p) <= Len(t) /\ Len(t) <= Len(q)
    BY <1>5, <1>6, <1>11, <1>12, SMT
  <2>2. \A i \in 1..Len(p) : i \in 1..Len(t) /\ r[i] = p[i]
    BY <2>1, <1>5, <1>11, SMT
  <2>3. \A i \in 1..Len(t) : i \in 1..Len(r) /\ q[i] = r[i]
    <3>1. Len(r) = Len(t) + 1 /\ Len(t) \in Nat
      BY <1>11, <1>12
    <3>2. \A i \in 1..Len(t) : i \in 1..Len(r)
      BY <3>1, SMT
    <3> QED BY <3>2, <1>5
  <2> QED BY <2>1, <2>2, <2>3, <1>12 DEF Below
<1>14. t = p
  <2> SUFFICES ASSUME t # p PROVE FALSE
    OBVIOUS
  <2>1. t \in A
    BY <1>13
  <2>2. Len(r) <= Len(t)
    BY <2>1, <1>4
  <2> QED BY <2>2, <1>12, <1>11, SMT
<1>15. Len(p) + 1 \in 1..Len(r)
  BY <1>5, <1>6, SMT
<1>16. q[Len(p) + 1] = k
  BY <1>5, <1>12, <1>14, <1>15
<1> QED BY <1>5, <1>6, <1>8, <1>9, <1>14, <1>16, SMT

\* The place of a child is below its parent; so is everything below the child.
LEMMA BelowTheChild ==
    ASSUME NEW p \in Seq(Nat), NEW q \in Seq(Nat), NEW k \in Nat
    PROVE  Below(q, Append(p, k)) <=> Below(q, p) /\ Len(p) < Len(q) /\ q[Len(p) + 1] = k
<1>1. /\ Append(p, k) \in Seq(Nat) /\ Len(Append(p, k)) = Len(p) + 1
      /\ \A i \in 1..Len(p) : Append(p, k)[i] = p[i]
      /\ Append(p, k)[Len(p) + 1] = k
      /\ Len(p) \in Nat /\ Len(q) \in Nat
  BY AppendProperties, LenProperties
<1>2. ASSUME Below(q, Append(p, k)) PROVE Below(q, p) /\ Len(p) < Len(q) /\ q[Len(p) + 1] = k
  <2>1. Len(p) + 1 <= Len(q) /\ \A i \in 1..(Len(p) + 1) : q[i] = Append(p, k)[i]
    BY <1>2, <1>1 DEF Below
  <2>2. Len(p) <= Len(q) /\ Len(p) < Len(q) /\ Len(p) + 1 \in 1..(Len(p) + 1)
    BY <2>1, <1>1, SMT
  <2>3. \A i \in 1..Len(p) : i \in 1..(Len(p) + 1)
    BY <1>1, SMT
  <2> QED BY <2>1, <2>2, <2>3, <1>1 DEF Below
<1>3. ASSUME Below(q, p), Len(p) < Len(q), q[Len(p) + 1] = k PROVE Below(q, Append(p, k))
  <2>1. Len(p) + 1 <= Len(q)
    BY <1>1, <1>3, SMT
  <2>2. ASSUME NEW i \in 1..(Len(p) + 1) PROVE q[i] = Append(p, k)[i]
    <3>1. i \in 1..Len(p) \/ i = Len(p) + 1
      BY <1>1, SMT
    <3> QED BY <3>1, <1>1, <1>3 DEF Below
  <2> QED BY <2>1, <2>2, <1>1 DEF Below
<1> QED BY <1>2, <1>3

\* A tree of conjunctions says what all its leaves say.
LEMMA ConjunctionTruth ==
    ASSUME NEW c, IsConjunction(c), NEW says, \A p \in LeafPlaces(c) : says[p] \in BOOLEAN
    PROVE  Truth(c, says) = (\A p \in LeafPlaces(c) : says[p])
<1> DEFINE E(t) == [p \in DOMAIN c |->
                        IF ~IsLogical(c[p]) THEN says[p]
                        ELSE CASE c[p].operator = "AND" -> \A k \in 1..c[p].arity : t[Append(p, k)]
                               [] c[p].operator = "OR" -> \E k \in 1..c[p].arity : t[Append(p, k)]
                               [] c[p].operator = "NOT" -> ~t[Append(p, 1)]]
           truth == CHOOSE t : t = E(t)
           w == [p \in DOMAIN c |-> \A q \in LeafPlaces(c) : Below(q, p) => says[q]]
<1>0. /\ IsTree(c) /\ IsFiniteSet(DOMAIN c) /\ DOMAIN c \subseteq Seq(Nat) /\ <<>> \in DOMAIN c
      /\ \A p \in DOMAIN c : IsLogical(c[p]) =>
             /\ c[p].operator = "AND" /\ c[p].arity \in Nat \ {0}
             /\ \A k \in 1..c[p].arity : Append(p, k) \in DOMAIN c
  BY DEF IsConjunction, IsTree
<1>1. Truth(c, says) = truth[<<>>]
  BY DEF Truth
<1>2. ASSUME NEW t PROVE E(t) = [p \in DOMAIN c |-> IF ~IsLogical(c[p]) THEN says[p]
                                                    ELSE \A k \in 1..c[p].arity : t[Append(p, k)]]
  <2>1. ASSUME NEW p \in DOMAIN c, IsLogical(c[p])
        PROVE  (CASE c[p].operator = "AND" -> \A k \in 1..c[p].arity : t[Append(p, k)]
                  [] c[p].operator = "OR" -> \E k \in 1..c[p].arity : t[Append(p, k)]
                  [] c[p].operator = "NOT" -> ~t[Append(p, 1)])
               = (\A k \in 1..c[p].arity : t[Append(p, k)])
    BY <2>1, <1>0
  <2> QED BY <2>1
<1>3. w = E(w)
  <2>1. ASSUME NEW p \in DOMAIN c, ~IsLogical(c[p]) PROVE w[p] = says[p]
    <3>1. p \in LeafPlaces(c)
      BY <2>1 DEF LeafPlaces
    <3>2. Below(p, p)
      BY <1>0, LenProperties DEF Below
    <3>3. \A q \in LeafPlaces(c) : Below(q, p) => q = p
      BY <2>1, <1>0, BelowAChild DEF LeafPlaces
    <3> QED BY <3>1, <3>2, <3>3
  <2>2. ASSUME NEW p \in DOMAIN c, IsLogical(c[p])
        PROVE  w[p] = (\A k \in 1..c[p].arity : w[Append(p, k)])
    <3>0. p \in Seq(Nat) /\ \A k \in 1..c[p].arity : k \in Nat /\ Append(p, k) \in DOMAIN c
      BY <2>2, <1>0, SMT
    <3>1. ASSUME w[p], NEW k \in 1..c[p].arity PROVE w[Append(p, k)]
      <4>1. \A q \in LeafPlaces(c) : Below(q, Append(p, k)) => Below(q, p)
        BY <3>0, <1>0, BelowTheChild DEF LeafPlaces
      <4> QED BY <4>1, <3>0, <3>1
    <3>2. ASSUME \A k \in 1..c[p].arity : w[Append(p, k)] PROVE w[p]
      <4> SUFFICES ASSUME NEW q \in LeafPlaces(c), Below(q, p) PROVE says[q]
        OBVIOUS
      <4>1. q \in DOMAIN c /\ q # p /\ q \in Seq(Nat)
        BY <2>2, <1>0 DEF LeafPlaces
      <4>2. q[Len(p) + 1] \in 1..c[p].arity /\ Len(p) < Len(q)
        BY <4>1, <1>0, BelowAChild
      <4>3. Below(q, Append(p, q[Len(p) + 1]))
        BY <4>1, <4>2, <3>0, BelowTheChild
      <4> QED BY <4>2, <4>3, <3>0, <3>2
    <3> QED BY <3>1, <3>2
  <2>3. w = [p \in DOMAIN c |-> IF ~IsLogical(c[p]) THEN says[p]
                                ELSE \A k \in 1..c[p].arity : w[Append(p, k)]]
    BY <2>1, <2>2
  <2> HIDE DEF E, w
  <2> QED BY <2>3, <1>2
<1>4. truth = E(truth)
  <2> HIDE DEF E, w
  <2> QED BY <1>3
<1> HIDE DEF truth, w
<1>5. truth = [p \in DOMAIN c |-> IF ~IsLogical(c[p]) THEN says[p]
                                  ELSE \A k \in 1..c[p].arity : truth[Append(p, k)]]
  <2> HIDE DEF E
  <2> QED BY <1>4, <1>2
<1> HIDE DEF E
<1>6. \A p \in DOMAIN c : truth[p] = IF ~IsLogical(c[p]) THEN says[p]
                                     ELSE \A k \in 1..c[p].arity : truth[Append(p, k)]
  BY <1>5
<1>7. \A p \in DOMAIN c : truth[p] \in BOOLEAN
  BY <1>6 DEF LeafPlaces
<1>8. ASSUME NEW q \in LeafPlaces(c), ~says[q] PROVE ~truth[<<>>]
  <2> DEFINE A == {p \in DOMAIN c : ~truth[p]}
             length == [p \in A |-> Len(p)]
  <2>1. q \in A
    BY <1>6, <1>8 DEF LeafPlaces
  <2>2. \A p \in A : length[p] \in Nat /\ length[p] = Len(p)
    BY <1>0, LenProperties
  <2>4. PICK p \in A : \A r \in A : Len(p) <= Len(r)
    <3> HIDE DEF A, length
    <3>1. PICK p \in A : \A r \in A : length[p] <= length[r]
      BY <2>1, <2>2, LeastValue
    <3> QED BY <3>1, <2>2
  <2>5. p = <<>>
    <3> SUFFICES ASSUME p # <<>> PROVE FALSE
      OBVIOUS
    <3>1. PICK t \in DOMAIN c : IsLogical(c[t]) /\ \E k \in 1..c[t].arity : p = Append(t, k)
      BY <2>4, <1>0 DEF IsTree
    <3>2. PICK k \in 1..c[t].arity : p = Append(t, k)
      BY <3>1
    <3>3. ~truth[t]
      BY <1>6, <2>4, <3>1, <3>2
    <3>4. t \in Seq(Nat) /\ k \in Nat
      BY <3>1, <3>2, <1>0, SMT
    <3>5. Len(p) = Len(t) + 1 /\ Len(t) \in Nat
      BY <3>2, <3>4, AppendProperties, LenProperties
    <3>6. Len(p) <= Len(t)
      BY <3>1, <3>3, <2>4
    <3> QED BY <3>5, <3>6, SMT
  <2> QED BY <2>4, <2>5
<1>9. ASSUME ~truth[<<>>] PROVE \E q \in LeafPlaces(c) : ~says[q]
  <2> DEFINE A == {p \in DOMAIN c : ~truth[p]}
             length == [p \in A |-> Len(p)]
  <2>1. <<>> \in A
    BY <1>0, <1>9
  <2>2. \A p \in A : length[p] \in Nat /\ length[p] = Len(p)
    BY <1>0, LenProperties
  <2>3. IsFiniteSet(A)
    BY <1>0, FS_Subset
  <2>5. PICK p \in A : \A r \in A : Len(r) <= Len(p)
    <3> HIDE DEF A, length
    <3>1. PICK p \in A : \A r \in A : length[r] <= length[p]
      BY <2>1, <2>2, <2>3, GreatestValue
    <3> QED BY <3>1, <2>2
  <2>6. ~IsLogical(c[p])
    <3> SUFFICES ASSUME IsLogical(c[p]) PROVE FALSE
      OBVIOUS
    <3>1. PICK k \in 1..c[p].arity : ~truth[Append(p, k)]
      BY <1>6, <2>5
    <3>2. Append(p, k) \in A /\ p \in Seq(Nat) /\ k \in Nat
      BY <3>1, <1>0, <2>5, SMT
    <3>3. Len(Append(p, k)) = Len(p) + 1 /\ Len(p) \in Nat
      BY <3>2, AppendProperties, LenProperties
    <3>4. Len(Append(p, k)) <= Len(p)
      BY <3>2, <2>5
    <3> QED BY <3>3, <3>4, SMT
  <2>7. p \in LeafPlaces(c) /\ ~says[p]
    BY <2>5, <2>6, <1>6 DEF LeafPlaces
  <2> QED BY <2>7
<1> QED BY <1>0, <1>1, <1>7, <1>8, <1>9

(***************************************************************************)
(* The leaves of a condition.                                              *)
(***************************************************************************)
\* An operand that strategy_v3.py accepts, as it is written in normal leaves.
IsNormal(o) == IsOperand(o) /\ (o.type = "constant" => o.zeros = 0)

\* Trailing zeros change neither what an operand is nor its value.
LEMMA DecimalOperand ==
    ASSUME NEW o, IsOperand(o)
    PROVE  /\ IsNormal(Decimal(o)) /\ Decimal(Decimal(o)) = Decimal(o)
           /\ Decimal(o).dim = o.dim /\ Decimal(o).type = o.type
           /\ \A frame : Resolved(Decimal(o), frame) = Resolved(o, frame)
<1>1. CASE o.type = "constant" /\ ~Textual(o.dim)
  <2>1. o = Const(o.dim, o.value, o.zeros) /\ o.value \in Int
    BY <1>1 DEF IsOperand
  <2>2. Decimal(o) = Const(o.dim, o.value, 0)
    BY <1>1, <2>1 DEF Decimal, Const
  <2> QED BY <1>1, <2>1, <2>2 DEF IsNormal, IsOperand, Decimal, Const, Resolved
<1>2. CASE ~(o.type = "constant" /\ ~Textual(o.dim))
  <2>1. Decimal(o) = o
    BY <1>2 DEF Decimal
  <2> QED BY <1>2, <2>1 DEF IsNormal, IsOperand
<1> QED BY <1>1, <1>2

\* What a comparison or a cross is.
LEMMA ComparisonOrCross ==
    ASSUME NEW leaf, IsLeaf(leaf), leaf.type # "range"
    PROVE  /\ leaf = Of(leaf.type, leaf.operator, leaf.left, leaf.right)
           /\ \/ leaf.type = "comparison" /\ leaf.operator \in {"GT", "GTE", "LT", "LTE", "EQ", "NE"}
              \/ leaf.type = "cross" /\ leaf.operator \in {"CROSS_ABOVE", "CROSS_BELOW"}
           /\ OperandsOf(leaf) = {leaf.left, leaf.right}
           /\ IsOperand(leaf.left) /\ IsOperand(leaf.right)
<1>1. \A o \in OperandsOf(leaf) : IsOperand(o)
  BY DEF IsLeaf
<1>2. OperandsOf(leaf) = {leaf.left, leaf.right}
  BY DEF OperandsOf
<1>3. CASE leaf.type = "comparison"
  <2>1. /\ leaf = Comparison(leaf.operator, leaf.left, leaf.right)
        /\ leaf.operator \in {"GT", "GTE", "LT", "LTE", "EQ", "NE"}
    BY <1>3 DEF IsLeaf
  <2> QED BY <2>1, <1>1, <1>2, <1>3 DEF Comparison, Of
<1>4. CASE leaf.type = "cross"
  <2>1. /\ leaf = Cross(leaf.operator, leaf.left, leaf.right)
        /\ leaf.operator \in {"CROSS_ABOVE", "CROSS_BELOW"}
    BY <1>4 DEF IsLeaf
  <2> QED BY <2>1, <1>1, <1>2, <1>4 DEF Cross, Of
<1>5. CASE leaf.type # "comparison" /\ leaf.type # "cross"
  <2>1. leaf = Within(leaf.operator, leaf.value, leaf.lower, leaf.upper, leaf.lowerIn, leaf.upperIn)
    BY <1>5 DEF IsLeaf
  <2> QED BY <2>1 DEF Within
<1> QED BY <1>3, <1>4, <1>5

LEMMA RangeLeaf ==
    ASSUME NEW leaf, IsLeaf(leaf), leaf.type = "range"
    PROVE  /\ leaf = Within(leaf.operator, leaf.value, leaf.lower, leaf.upper, leaf.lowerIn, leaf.upperIn)
           /\ leaf.operator \in {"BETWEEN", "NOT_BETWEEN"}
           /\ leaf.lowerIn \in BOOLEAN /\ leaf.upperIn \in BOOLEAN
           /\ OperandsOf(leaf) = {leaf.value, leaf.lower, leaf.upper}
           /\ IsOperand(leaf.value) /\ IsOperand(leaf.lower) /\ IsOperand(leaf.upper)
<1>1. \A o \in OperandsOf(leaf) : IsOperand(o)
  BY DEF IsLeaf
<1>2. OperandsOf(leaf) = {leaf.value, leaf.lower, leaf.upper}
  BY DEF OperandsOf
<1>3. /\ leaf = Within(leaf.operator, leaf.value, leaf.lower, leaf.upper, leaf.lowerIn, leaf.upperIn)
      /\ leaf.operator \in {"BETWEEN", "NOT_BETWEEN"}
      /\ {leaf.lowerIn, leaf.upperIn} \subseteq BOOLEAN
  BY DEF IsLeaf
<1> QED BY <1>1, <1>2, <1>3

\* The place of an operand in the order of bytes.
LEMMA BytesNat ==
    ASSUME NEW leaf, IsLeaf(leaf), NEW o \in OperandsOf(leaf)
    PROVE  Bytes(Decimal(o)) \in Nat /\ Operands[Bytes(Decimal(o))] = Decimal(o)
<1>1. PICK n \in DOMAIN Operands : Operands[n] = Decimal(o)
  BY DEF IsLeaf
<1>2. Bytes(Decimal(o)) \in DOMAIN Operands /\ Operands[Bytes(Decimal(o))] = Decimal(o)
  BY <1>1 DEF Bytes
<1>3. DOMAIN Operands \subseteq Nat
  BY ConditionsAssumption, LenProperties, SMT
<1> QED BY <1>2, <1>3

\* A normal comparison or cross is the leaf with its zeros dropped, as it is, turned
\* downwards up, or with the operands of an equality in order.
LEMMA NormalForm ==
    ASSUME NEW leaf, IsLeaf(leaf), leaf.type # "range"
    PROVE  LET l == Decimal(leaf.left)
               r == Decimal(leaf.right)
           IN  \/ /\ leaf.operator \in {"LT", "LTE", "CROSS_BELOW"}
                  /\ NormalLeaf(leaf) = Of(leaf.type, Flipped[leaf.operator], r, l)
               \/ /\ leaf.operator \in {"EQ", "NE"} /\ Bytes(l) > Bytes(r)
                  /\ NormalLeaf(leaf) = Of(leaf.type, leaf.operator, r, l)
               \/ /\ leaf.operator \notin {"LT", "LTE", "CROSS_BELOW"}
                  /\ leaf.operator \in {"EQ", "NE"} => ~(Bytes(l) > Bytes(r))
                  /\ NormalLeaf(leaf) = Of(leaf.type, leaf.operator, l, r)
<1> DEFINE l == Decimal(leaf.left)
           r == Decimal(leaf.right)
           d == Of(leaf.type, leaf.operator, l, r)
<1>3. NormalLeaf(leaf) = Upward(d)
  BY DEF NormalLeaf
<1>4. DOMAIN Flipped = {"LT", "LTE", "CROSS_BELOW"}
  BY DEF Flipped
<1>5. d.operator = leaf.operator /\ d.left = l /\ d.right = r
  BY DEF Of
<1>6. CASE leaf.operator \in {"LT", "LTE", "CROSS_BELOW"}
  <2>2. Upward(d) = Of(leaf.type, Flipped[leaf.operator], r, l)
    BY <1>4, <1>6 DEF Upward, Of
  <2> QED BY <1>3, <1>6, <2>2
<1>7. CASE leaf.operator \in {"EQ", "NE"} /\ Bytes(l) > Bytes(r)
  <2>2. Upward(d) = Of(leaf.type, leaf.operator, r, l)
    BY <1>4, <1>7 DEF Upward, Of
  <2> QED BY <1>3, <1>7, <2>2
<1>8. CASE /\ leaf.operator \notin {"LT", "LTE", "CROSS_BELOW"}
           /\ ~(leaf.operator \in {"EQ", "NE"} /\ Bytes(l) > Bytes(r))
  <2>1. Upward(d) = d
    BY <1>4, <1>5, <1>8 DEF Upward
  <2> QED BY <1>3, <1>8, <2>1
<1> QED BY <1>6, <1>7, <1>8

\* A normal leaf is a leaf of the same type, with the same operands without zeros.
LEMMA NormalIsLeaf ==
    ASSUME NEW leaf, IsLeaf(leaf)
    PROVE  /\ IsLeaf(NormalLeaf(leaf)) /\ NormalLeaf(leaf).type = leaf.type
           /\ OperandsOf(NormalLeaf(leaf)) = {Decimal(o) : o \in OperandsOf(leaf)}
           /\ \A o \in OperandsOf(NormalLeaf(leaf)) : IsNormal(o)
<1> DEFINE N == NormalLeaf(leaf)
<1>1. \A o \in OperandsOf(leaf) : IsOperand(o) /\ \E n \in DOMAIN Operands : Operands[n] = Decimal(o)
  BY DEF IsLeaf
<1>2. ASSUME OperandsOf(N) = {Decimal(o) : o \in OperandsOf(leaf)}
      PROVE  \A o \in OperandsOf(N) : /\ IsNormal(o) /\ IsOperand(o)
                                      /\ \E n \in DOMAIN Operands : Operands[n] = Decimal(o)
  <2> SUFFICES ASSUME NEW o \in OperandsOf(leaf)
               PROVE  /\ IsNormal(Decimal(o)) /\ IsOperand(Decimal(o))
                      /\ \E n \in DOMAIN Operands : Operands[n] = Decimal(Decimal(o))
    BY <1>2
  <2>1. IsNormal(Decimal(o)) /\ Decimal(Decimal(o)) = Decimal(o)
    BY <1>1, DecimalOperand
  <2> QED BY <2>1, <1>1 DEF IsNormal
<1>3. CASE leaf.type = "range"
  <2>1. /\ leaf = Within(leaf.operator, leaf.value, leaf.lower, leaf.upper, leaf.lowerIn, leaf.upperIn)
        /\ leaf.operator \in {"BETWEEN", "NOT_BETWEEN"}
        /\ leaf.lowerIn \in BOOLEAN /\ leaf.upperIn \in BOOLEAN
        /\ OperandsOf(leaf) = {leaf.value, leaf.lower, leaf.upper}
    BY <1>3, RangeLeaf
  <2>3. N = Within(leaf.operator, Decimal(leaf.value), Decimal(leaf.lower), Decimal(leaf.upper),
                   leaf.lowerIn, leaf.upperIn)
    BY <1>3 DEF NormalLeaf
  <2>4. /\ N.type = "range" /\ N.operator = leaf.operator
        /\ N.value = Decimal(leaf.value) /\ N.lower = Decimal(leaf.lower) /\ N.upper = Decimal(leaf.upper)
        /\ N.lowerIn = leaf.lowerIn /\ N.upperIn = leaf.upperIn
    BY <2>3 DEF Within
  <2>5. OperandsOf(N) = {Decimal(o) : o \in OperandsOf(leaf)}
    BY <2>1, <2>4 DEF OperandsOf
  <2>6. /\ N = Within(N.operator, N.value, N.lower, N.upper, N.lowerIn, N.upperIn)
        /\ N.operator \in {"BETWEEN", "NOT_BETWEEN"}
        /\ {N.lowerIn, N.upperIn} \subseteq BOOLEAN
    BY <2>1, <2>3, <2>4
  <2> HIDE DEF N
  <2>7. IsLeaf(N)
    BY <2>4, <2>5, <2>6, <1>2 DEF IsLeaf
  <2> QED BY <2>4, <2>5, <2>7, <1>2, <1>3 DEF N
<1>4. CASE leaf.type # "range"
  <2>1. /\ \/ leaf.type = "comparison" /\ leaf.operator \in {"GT", "GTE", "LT", "LTE", "EQ", "NE"}
           \/ leaf.type = "cross" /\ leaf.operator \in {"CROSS_ABOVE", "CROSS_BELOW"}
        /\ OperandsOf(leaf) = {leaf.left, leaf.right}
    BY <1>4, ComparisonOrCross
  <2>2. PICK op, a, b :
            /\ N = Of(leaf.type, op, a, b) /\ {a, b} = {Decimal(leaf.left), Decimal(leaf.right)}
            /\ op = leaf.operator \/ (leaf.operator \in {"LT", "LTE", "CROSS_BELOW"} /\
                                      op = Flipped[leaf.operator])
    <3>1. {Decimal(leaf.left), Decimal(leaf.right)} = {Decimal(leaf.right), Decimal(leaf.left)}
      OBVIOUS
    <3> HIDE DEF N
    <3> QED BY <3>1, <1>4, NormalForm DEF N
  <2>3. /\ N.type = leaf.type /\ N.operator = op /\ N.left = a /\ N.right = b
    BY <2>2 DEF Of
  <2>4. OperandsOf(N) = {Decimal(o) : o \in OperandsOf(leaf)}
    BY <2>1, <2>2, <2>3, <1>4 DEF OperandsOf
  <2>5. \/ leaf.type = "comparison" /\ op \in {"GT", "GTE", "LT", "LTE", "EQ", "NE"}
        \/ leaf.type = "cross" /\ op \in {"CROSS_ABOVE", "CROSS_BELOW"}
    BY <2>1, <2>2 DEF Flipped
  <2> HIDE DEF N
  <2>6. IsLeaf(N)
    BY <2>2, <2>3, <2>4, <2>5, <1>2 DEF IsLeaf, Comparison, Cross
  <2> QED BY <2>3, <2>4, <2>6, <1>2 DEF N
<1> QED BY <1>3, <1>4

\* Normalising a leaf again changes nothing.
LEMMA NormalTwice ==
    ASSUME NEW leaf, IsLeaf(leaf)
    PROVE  NormalLeaf(NormalLeaf(leaf)) = NormalLeaf(leaf)
<1> DEFINE N == NormalLeaf(leaf)
<1>1. IsLeaf(N) /\ N.type = leaf.type
  BY NormalIsLeaf
<1>2. \A o \in OperandsOf(N) : Decimal(o) = o
  <2>1. OperandsOf(N) = {Decimal(o) : o \in OperandsOf(leaf)} /\ \A o \in OperandsOf(leaf) : IsOperand(o)
    BY NormalIsLeaf DEF IsLeaf
  <2> HIDE DEF N
  <2> QED BY <2>1, DecimalOperand
<1>3. CASE leaf.type = "range"
  <2>1. /\ N = Within(N.operator, N.value, N.lower, N.upper, N.lowerIn, N.upperIn)
        /\ OperandsOf(N) = {N.value, N.lower, N.upper}
    BY <1>1, <1>3, RangeLeaf
  <2>2. NormalLeaf(N) = Within(N.operator, Decimal(N.value), Decimal(N.lower), Decimal(N.upper),
                               N.lowerIn, N.upperIn)
    BY <1>1, <1>3 DEF NormalLeaf
  <2> HIDE DEF N
  <2>3. NormalLeaf(N) = N
    BY <2>1, <2>2, <1>2 DEF Within
  <2> QED BY <2>3 DEF N
<1>4. CASE leaf.type # "range"
  <2>1. /\ N = Of(N.type, N.operator, N.left, N.right) /\ OperandsOf(N) = {N.left, N.right}
    BY <1>1, <1>4, ComparisonOrCross
  <2>2. Decimal(N.left) = N.left /\ Decimal(N.right) = N.right
    BY <2>1, <1>2
  <2>3. N.operator \notin {"LT", "LTE", "CROSS_BELOW"}
    BY <1>4, NormalForm DEF Of, Flipped
  <2>4. N.operator \in {"EQ", "NE"} => ~(Bytes(N.left) > Bytes(N.right))
    <3>1. Bytes(Decimal(leaf.left)) \in Nat /\ Bytes(Decimal(leaf.right)) \in Nat
      BY <1>4, BytesNat, ComparisonOrCross
    <3>2. CASE leaf.operator \in {"LT", "LTE", "CROSS_BELOW"}
      BY <1>4, <3>2, NormalForm DEF Of, Flipped
    <3>3. CASE leaf.operator \notin {"LT", "LTE", "CROSS_BELOW"}
      BY <1>4, <3>1, <3>3, NormalForm DEF Of
    <3> QED BY <3>2, <3>3
  <2> HIDE DEF N
  <2>5. NormalLeaf(N) = N
    BY <1>1, <1>4, <2>1, <2>2, <2>3, <2>4, NormalForm
  <2> QED BY <2>5 DEF N
<1> QED BY <1>3, <1>4

(***************************************************************************)
(* What a leaf says and what its normal form says.                         *)
(***************************************************************************)
\* A frame has a number, or nothing, for every operand of the leaf.
Reads(leaf, frame) == \A o \in OperandsOf(leaf) : Resolved(o, frame) \in Int \cup {Undefined}

\* The operators of a comparison are those of numbers.
LEMMA Comparing ==
    ASSUME NEW a \in Int, NEW b \in Int
    PROVE  /\ Compare(a, "GT", b) = (a > b) /\ Compare(a, "GTE", b) = (a >= b)
           /\ Compare(a, "LT", b) = (a < b) /\ Compare(a, "LTE", b) = (a <= b)
           /\ Compare(a, "EQ", b) = (a = b) /\ Compare(a, "NE", b) = (a # b)
<1>1. \/ a > b /\ SignOf(a - b) = 1
      \/ a < b /\ SignOf(a - b) = -1
      \/ a = b /\ SignOf(a - b) = 0
  BY SMT DEF SignOf
<1>2. /\ Signs["GT"] = {1} /\ Signs["GTE"] = {0, 1} /\ Signs["LT"] = {-1}
      /\ Signs["LTE"] = {-1, 0} /\ Signs["EQ"] = {0} /\ Signs["NE"] = {-1, 1}
  BY DEF Signs
<1>3. CASE a > b /\ SignOf(a - b) = 1
  BY <1>2, <1>3, SMT DEF Compare
<1>4. CASE a < b /\ SignOf(a - b) = -1
  BY <1>2, <1>4, SMT DEF Compare
<1>5. CASE a = b /\ SignOf(a - b) = 0
  BY <1>2, <1>5, SMT DEF Compare
<1> QED BY <1>1, <1>3, <1>4, <1>5

\* The operands of an admissible leaf have one dimension.
LEMMA OneDimension ==
    ASSUME NEW leaf, LeafAdmissible(leaf), NEW o \in OperandsOf(leaf), NEW p \in OperandsOf(leaf)
    PROVE  o.dim = p.dim
<1> DEFINE dims == {x.dim : x \in OperandsOf(leaf)}
<1>1. Cardinality(dims) = 1
  BY DEF LeafAdmissible
<1>2. IsFiniteSet(dims)
  <2>1. PICK a, b, c : dims = {a} \cup {b} \cup {c}
    <3>1. CASE leaf.type = "range"
      <4>1. dims = {leaf.value.dim} \cup {leaf.lower.dim} \cup {leaf.upper.dim}
        BY <3>1 DEF OperandsOf
      <4> QED BY <4>1
    <3>2. CASE leaf.type # "range"
      <4>1. dims = {leaf.left.dim} \cup {leaf.right.dim} \cup {leaf.right.dim}
        BY <3>2 DEF OperandsOf
      <4> QED BY <4>1
    <3> QED BY <3>1, <3>2
  <2> HIDE DEF dims
  <2>2. IsFiniteSet({a}) /\ IsFiniteSet({b}) /\ IsFiniteSet({c})
    BY FS_Singleton
  <2>3. IsFiniteSet({a} \cup {b})
    BY <2>2, FS_Union
  <2>4. IsFiniteSet({a} \cup {b} \cup {c})
    BY <2>2, <2>3, FS_Union
  <2> QED BY <2>1, <2>4
<1>3. PICK d : dims = {d}
  <2> HIDE DEF dims
  <2> QED BY <1>1, <1>2, FS_Singleton
<1>4. o.dim \in dims /\ p.dim \in dims
  OBVIOUS
<1> QED BY <1>3, <1>4

\* What two crosses remember of the same frame, or that neither remembers one.
Remembered(leaf, before, normal) ==
    \/ before = Undefined /\ normal = Undefined
    \/ \E frame : /\ Reads(leaf, frame)
                  /\ before = Pair(leaf, frame) /\ normal = Pair(NormalLeaf(leaf), frame)

\* What a leaf and its normal form know of a frame.
LEMMA NormalResolves ==
    ASSUME NEW leaf, IsLeaf(leaf), NEW o \in OperandsOf(leaf), NEW frame, Reads(leaf, frame)
    PROVE  /\ Resolved(Decimal(o), frame) = Resolved(o, frame)
           /\ IsDefined(Decimal(o), frame) = IsDefined(o, frame)
           /\ IsDefined(o, frame) = (Resolved(o, frame) \in Int)
           /\ Decimal(o).dim = o.dim
<1>1. IsOperand(o)
  BY DEF IsLeaf
<1>2. Resolved(o, frame) \in Int \cup {Undefined} /\ Undefined \notin Int
  BY ConditionsAssumption DEF Reads
<1>3. Resolved(Decimal(o), frame) = Resolved(o, frame) /\ Decimal(o).dim = o.dim
  BY <1>1, DecimalOperand
<1> QED BY <1>2, <1>3 DEF IsDefined

\* The pair of a cross and of its normal form: the same, or turned.
LEMMA NormalPair ==
    ASSUME NEW leaf, IsLeaf(leaf), leaf.type = "cross", LeafAdmissible(leaf),
           NEW frame, Reads(leaf, frame)
    PROVE  \/ Pair(leaf, frame) = Undefined /\ Pair(NormalLeaf(leaf), frame) = Undefined
           \/ \E a, b \in Int :
                  /\ Pair(leaf, frame) = <<a, b>>
                  /\ leaf.operator = "CROSS_BELOW" => Pair(NormalLeaf(leaf), frame) = <<b, a>>
                  /\ leaf.operator = "CROSS_ABOVE" => Pair(NormalLeaf(leaf), frame) = <<a, b>>
<1> DEFINE N == NormalLeaf(leaf)
           l == Decimal(leaf.left)
           r == Decimal(leaf.right)
<1>1. /\ leaf.operator \in {"CROSS_ABOVE", "CROSS_BELOW"}
      /\ leaf.left \in OperandsOf(leaf) /\ leaf.right \in OperandsOf(leaf)
  BY ComparisonOrCross
<1>2. \/ leaf.operator = "CROSS_BELOW" /\ N.left = r /\ N.right = l
      \/ leaf.operator = "CROSS_ABOVE" /\ N.left = l /\ N.right = r
  BY <1>1, NormalForm DEF Of
<1>3. /\ Resolved(l, frame) = Resolved(leaf.left, frame) /\ Resolved(r, frame) = Resolved(leaf.right, frame)
      /\ IsDefined(l, frame) = IsDefined(leaf.left, frame)
      /\ IsDefined(r, frame) = IsDefined(leaf.right, frame)
      /\ IsDefined(leaf.left, frame) = (Resolved(leaf.left, frame) \in Int)
      /\ IsDefined(leaf.right, frame) = (Resolved(leaf.right, frame) \in Int)
      /\ l.dim = leaf.left.dim /\ r.dim = leaf.right.dim
  BY <1>1, NormalResolves
<1>4. leaf.left.dim = leaf.right.dim
  BY <1>1, OneDimension
<1> HIDE DEF N, l, r
<1>5. CASE IsDefined(leaf.left, frame) /\ IsDefined(leaf.right, frame) /\ ~Textual(leaf.left.dim)
  <2>1. Pair(leaf, frame) = <<Resolved(leaf.left, frame), Resolved(leaf.right, frame)>>
    BY <1>5 DEF Pair
  <2>2. CASE leaf.operator = "CROSS_BELOW"
    <3>1. Pair(N, frame) = <<Resolved(leaf.right, frame), Resolved(leaf.left, frame)>>
      BY <1>2, <1>3, <1>4, <1>5, <2>2 DEF Pair
    <3> QED BY <2>1, <2>2, <3>1, <1>3, <1>5 DEF N
  <2>3. CASE leaf.operator = "CROSS_ABOVE"
    <3>1. Pair(N, frame) = <<Resolved(leaf.left, frame), Resolved(leaf.right, frame)>>
      BY <1>2, <1>3, <1>4, <1>5, <2>3 DEF Pair
    <3> QED BY <2>1, <2>3, <3>1, <1>3, <1>5 DEF N
  <2> QED BY <1>1, <2>2, <2>3
<1>6. CASE ~(IsDefined(leaf.left, frame) /\ IsDefined(leaf.right, frame) /\ ~Textual(leaf.left.dim))
  <2>1. Pair(leaf, frame) = Undefined
    BY <1>6 DEF Pair
  <2>2. Pair(N, frame) = Undefined
    BY <1>2, <1>3, <1>4, <1>6 DEF Pair
  <2> QED BY <2>1, <2>2 DEF N
<1> QED BY <1>5, <1>6

\* A cross and its normal form say the same.
LEMMA NormalCross ==
    ASSUME NEW leaf, IsLeaf(leaf), leaf.type = "cross", LeafAdmissible(leaf),
           NEW frame, Reads(leaf, frame),
           NEW before, NEW normal, Remembered(leaf, before, normal)
    PROVE  Says(NormalLeaf(leaf), frame, normal) = Says(leaf, frame, before)
<1> DEFINE N == NormalLeaf(leaf)
           now == Pair(leaf, frame)
           nowN == Pair(N, frame)
<1>1. /\ N.type = "cross" /\ leaf.operator \in {"CROSS_ABOVE", "CROSS_BELOW"}
      /\ N.operator = "CROSS_ABOVE"
  BY NormalIsLeaf, ComparisonOrCross, NormalForm DEF Of, Flipped
<1>2. /\ Says(leaf, frame, before) = Crossed(leaf.operator, before, now)
      /\ Says(N, frame, normal) = Crossed("CROSS_ABOVE", normal, nowN)
  <2> HIDE DEF N
  <2> QED BY <1>1 DEF Says
<1>3. \/ now = Undefined /\ nowN = Undefined
      \/ \E a, b \in Int : /\ now = <<a, b>>
                           /\ leaf.operator = "CROSS_BELOW" => nowN = <<b, a>>
                           /\ leaf.operator = "CROSS_ABOVE" => nowN = <<a, b>>
  BY NormalPair
<1>4. \/ before = Undefined /\ normal = Undefined
      \/ \E a, b \in Int : /\ before = <<a, b>>
                           /\ leaf.operator = "CROSS_BELOW" => normal = <<b, a>>
                           /\ leaf.operator = "CROSS_ABOVE" => normal = <<a, b>>
  BY NormalPair DEF Remembered
<1>5. \A a, b \in Int : <<a, b>> # Undefined
  BY ConditionsAssumption
<1> HIDE DEF N, now, nowN
<1>6. CASE now = Undefined \/ before = Undefined
  BY <1>1, <1>2, <1>3, <1>4, <1>5, <1>6 DEF Crossed, N
<1>7. CASE now # Undefined /\ before # Undefined
  <2>1. PICK a, b \in Int : /\ now = <<a, b>>
                            /\ leaf.operator = "CROSS_BELOW" => nowN = <<b, a>>
                            /\ leaf.operator = "CROSS_ABOVE" => nowN = <<a, b>>
    BY <1>3, <1>7
  <2>2. PICK c, d \in Int : /\ before = <<c, d>>
                            /\ leaf.operator = "CROSS_BELOW" => normal = <<d, c>>
                            /\ leaf.operator = "CROSS_ABOVE" => normal = <<c, d>>
    BY <1>4, <1>7
  <2>3. CASE leaf.operator = "CROSS_ABOVE"
    BY <1>2, <2>1, <2>2, <2>3 DEF N
  <2>4. CASE leaf.operator = "CROSS_BELOW"
    <3>1. Crossed("CROSS_ABOVE", <<d, c>>, <<b, a>>) = (d <= c /\ b > a)
      BY <1>5 DEF Crossed
    <3>2. Crossed("CROSS_BELOW", <<c, d>>, <<a, b>>) = (c >= d /\ a < b)
      BY <1>5 DEF Crossed
    <3>3. (d <= c /\ b > a) = (c >= d /\ a < b)
      BY SMT
    <3> QED BY <1>2, <2>1, <2>2, <2>4, <3>1, <3>2, <3>3 DEF N
  <2> QED BY <1>1, <2>3, <2>4
<1> QED BY <1>6, <1>7

\* A leaf and its normal form say the same.
LEMMA NormalSays ==
    ASSUME NEW leaf, IsLeaf(leaf), LeafAdmissible(leaf), NEW frame, Reads(leaf, frame),
           NEW before, NEW normal, leaf.type = "cross" => Remembered(leaf, before, normal)
    PROVE  Says(NormalLeaf(leaf), frame, normal) = Says(leaf, frame, before)
<1> DEFINE N == NormalLeaf(leaf)
<1>1. N.type = leaf.type
  BY NormalIsLeaf
<1>2. CASE leaf.type = "range"
  <2>1. /\ OperandsOf(leaf) = {leaf.value, leaf.lower, leaf.upper}
        /\ leaf.value \in OperandsOf(leaf) /\ leaf.lower \in OperandsOf(leaf)
        /\ leaf.upper \in OperandsOf(leaf)
    BY <1>2, RangeLeaf
  <2>2. N = Within(leaf.operator, Decimal(leaf.value), Decimal(leaf.lower), Decimal(leaf.upper),
                   leaf.lowerIn, leaf.upperIn)
    BY <1>2 DEF NormalLeaf
  <2>3. /\ N.operator = leaf.operator /\ N.value = Decimal(leaf.value)
        /\ N.lower = Decimal(leaf.lower) /\ N.upper = Decimal(leaf.upper)
        /\ N.lowerIn = leaf.lowerIn /\ N.upperIn = leaf.upperIn
    BY <2>2 DEF Within
  <2>4. OperandsOf(N) = {Decimal(o) : o \in OperandsOf(leaf)}
    BY NormalIsLeaf
  <2>5. \A o \in OperandsOf(leaf) : /\ Resolved(Decimal(o), frame) = Resolved(o, frame)
                                    /\ IsDefined(Decimal(o), frame) = IsDefined(o, frame)
    BY NormalResolves
  <2> HIDE DEF N
  <2>6. (\A o \in OperandsOf(N) : IsDefined(o, frame)) = (\A o \in OperandsOf(leaf) : IsDefined(o, frame))
    BY <2>4, <2>5
  <2>7. /\ Resolved(N.value, frame) = Resolved(leaf.value, frame)
        /\ Resolved(N.lower, frame) = Resolved(leaf.lower, frame)
        /\ Resolved(N.upper, frame) = Resolved(leaf.upper, frame)
    BY <2>1, <2>3, <2>5
  <2> QED BY <1>1, <1>2, <2>3, <2>6, <2>7 DEF Says, N
<1>3. CASE leaf.type = "comparison"
  <2> DEFINE a == Resolved(leaf.left, frame)
             b == Resolved(leaf.right, frame)
  <2>1. /\ leaf.operator \in {"GT", "GTE", "LT", "LTE", "EQ", "NE"}
        /\ leaf.left \in OperandsOf(leaf) /\ leaf.right \in OperandsOf(leaf)
    BY <1>3, ComparisonOrCross
  <2>2. /\ Resolved(Decimal(leaf.left), frame) = a /\ Resolved(Decimal(leaf.right), frame) = b
        /\ IsDefined(Decimal(leaf.left), frame) = IsDefined(leaf.left, frame)
        /\ IsDefined(Decimal(leaf.right), frame) = IsDefined(leaf.right, frame)
        /\ IsDefined(leaf.left, frame) = (a \in Int) /\ IsDefined(leaf.right, frame) = (b \in Int)
    BY <2>1, NormalResolves
  <2>3. Says(leaf, frame, before) = (a \in Int /\ b \in Int /\ Compare(a, leaf.operator, b))
    BY <1>3, <2>2 DEF Says
  <2>4. \/ /\ leaf.operator \in {"LT", "LTE"} /\ N.operator = Flipped[leaf.operator]
           /\ N.left = Decimal(leaf.right) /\ N.right = Decimal(leaf.left)
        \/ /\ leaf.operator \in {"EQ", "NE"} /\ N.operator = leaf.operator
           /\ N.left = Decimal(leaf.right) /\ N.right = Decimal(leaf.left)
        \/ /\ N.operator = leaf.operator
           /\ N.left = Decimal(leaf.left) /\ N.right = Decimal(leaf.right)
    BY <1>3, <2>1, NormalForm DEF Of
  <2> HIDE DEF N, a, b
  <2> DEFINE compared == Compare(Resolved(N.left, frame), N.operator, Resolved(N.right, frame))
  <2>0. compared \in BOOLEAN
    BY DEF Compare
  <2> HIDE DEF compared
  <2>5. Says(N, frame, normal) = (IsDefined(N.left, frame) /\ IsDefined(N.right, frame) /\ compared)
    BY <1>1, <1>3 DEF Says, compared
  <2>6. CASE ~(a \in Int /\ b \in Int)
    BY <2>2, <2>3, <2>4, <2>5, <2>6 DEF N
  <2>7. CASE a \in Int /\ b \in Int
    <3>1. Says(N, frame, normal) = compared
      <4>1. IsDefined(leaf.left, frame) /\ IsDefined(leaf.right, frame)
        BY <2>2, <2>7
      <4>2. IsDefined(N.left, frame) /\ IsDefined(N.right, frame)
        BY <4>1, <2>2, <2>4
      <4> QED BY <4>2, <2>0, <2>5
    <3>2. Says(leaf, frame, before) = Compare(a, leaf.operator, b)
      BY <2>3, <2>7 DEF Compare
    <3>3. CASE leaf.operator = "LT" /\ N.operator = "GT"
               /\ N.left = Decimal(leaf.right) /\ N.right = Decimal(leaf.left)
      <4>1. Compare(b, "GT", a) = (b > a) /\ Compare(a, "LT", b) = (a < b)
        BY <2>7, Comparing
      <4>2. (b > a) = (a < b)
        BY <2>7, SMT
      <4> QED BY <3>1, <3>2, <3>3, <2>2, <4>1, <4>2 DEF N, compared
    <3>4. CASE leaf.operator = "LTE" /\ N.operator = "GTE"
               /\ N.left = Decimal(leaf.right) /\ N.right = Decimal(leaf.left)
      <4>1. Compare(b, "GTE", a) = (b >= a) /\ Compare(a, "LTE", b) = (a <= b)
        BY <2>7, Comparing
      <4>2. (b >= a) = (a <= b)
        BY <2>7, SMT
      <4> QED BY <3>1, <3>2, <3>4, <2>2, <4>1, <4>2 DEF N, compared
    <3>5. CASE leaf.operator \in {"EQ", "NE"} /\ N.operator = leaf.operator
               /\ N.left = Decimal(leaf.right) /\ N.right = Decimal(leaf.left)
      <4>1. /\ Compare(b, "EQ", a) = (b = a) /\ Compare(a, "EQ", b) = (a = b)
            /\ Compare(b, "NE", a) = (b # a) /\ Compare(a, "NE", b) = (a # b)
        BY <2>7, Comparing
      <4> QED BY <3>1, <3>2, <3>5, <2>2, <4>1 DEF N, compared
    <3>6. CASE N.operator = leaf.operator
               /\ N.left = Decimal(leaf.left) /\ N.right = Decimal(leaf.right)
      BY <3>1, <3>2, <3>6, <2>2 DEF N, compared
    <3>7. Flipped["LT"] = "GT" /\ Flipped["LTE"] = "GTE"
      BY DEF Flipped
    <3> QED BY <2>4, <3>3, <3>4, <3>5, <3>6, <3>7
  <2> QED BY <2>6, <2>7
<1>4. CASE leaf.type = "cross"
  BY <1>4, NormalCross
<1> QED BY <1>2, <1>3, <1>4, ComparisonOrCross

(***************************************************************************)
(* Contradictory conditions.                                               *)
(***************************************************************************)
\* Normal leaves that all hold on a frame.
AllHold(atoms, frame) ==
    \A a \in atoms : /\ IsLeaf(a) /\ LeafAdmissible(a) /\ Reads(a, frame)
                     /\ \A o \in OperandsOf(a) : IsNormal(o)
                     /\ \E before : Says(a, frame, before)

\* The operands of a comparison that holds are numbers in its relation.
LEMMA ComparisonHolds ==
    ASSUME NEW atoms, NEW frame, AllHold(atoms, frame), NEW a \in Comparisons(atoms)
    PROVE  /\ a.operator \in {"GT", "GTE", "LT", "LTE", "EQ", "NE"}
           /\ a.left \in OperandsOf(a) /\ a.right \in OperandsOf(a)
           /\ IsNormal(a.left) /\ IsNormal(a.right) /\ a.left.dim = a.right.dim
           /\ Resolved(a.left, frame) \in Int /\ Resolved(a.right, frame) \in Int
           /\ Compare(Resolved(a.left, frame), a.operator, Resolved(a.right, frame))
<1>1. a \in atoms /\ a.type = "comparison"
  BY DEF Comparisons
<1>2. /\ IsLeaf(a) /\ LeafAdmissible(a) /\ Reads(a, frame)
      /\ \A o \in OperandsOf(a) : IsNormal(o)
      /\ \E before : Says(a, frame, before)
  BY <1>1 DEF AllHold
<1>3. /\ a.operator \in {"GT", "GTE", "LT", "LTE", "EQ", "NE"}
      /\ a.left \in OperandsOf(a) /\ a.right \in OperandsOf(a)
  BY <1>1, <1>2, ComparisonOrCross
<1>4. a.left.dim = a.right.dim
  BY <1>2, <1>3, OneDimension
<1>5. /\ IsDefined(a.left, frame) /\ IsDefined(a.right, frame)
      /\ Compare(Resolved(a.left, frame), a.operator, Resolved(a.right, frame))
  BY <1>1, <1>2 DEF Says
<1>6. Resolved(a.left, frame) \in Int /\ Resolved(a.right, frame) \in Int
  BY <1>2, <1>3, <1>5, NormalResolves
<1> QED BY <1>2, <1>3, <1>4, <1>5, <1>6

\* A normal constant is its dimension and its value.
LEMMA NormalConstant ==
    ASSUME NEW o, IsNormal(o), o.type = "constant"
    PROVE  /\ o = Const(o.dim, o.value, 0) /\ o.value \in Int
           /\ \A frame : Resolved(o, frame) = o.value
<1>1. o = Const(o.dim, o.value, o.zeros) /\ o.value \in Int /\ o.zeros = 0
  BY DEF IsNormal, IsOperand
<1> QED BY <1>1 DEF Resolved

\* Signs of differences.
LEMMA SignMirror ==
    ASSUME NEW a \in Int, NEW b \in Int
    PROVE  /\ SignOf(a - b) \in {-1, 0, 1} /\ SignOf(b - a) = -SignOf(a - b) /\ SignOf(a - a) = 0
BY SMT DEF SignOf

\* Whatever holds leaves a sign to each pair that it compares.
LEMMA RelationsHold ==
    ASSUME NEW atoms, NEW frame, AllHold(atoms, frame)
    PROVE  ~IncompatibleRelations(atoms) /\ ~FalseConstants(atoms)
<1>1. ASSUME NEW a \in Comparisons(atoms) PROVE Relation(atoms, a.left, a.right) # {}
  <2> DEFINE x == Resolved(a.left, frame)
             y == Resolved(a.right, frame)
             s == SignOf(x - y)
  <2>1. x \in Int /\ y \in Int
    BY ComparisonHolds
  <2>2. s \in {-1, 0, 1} /\ SignOf(y - x) = -s
    BY <2>1, SignMirror
  <2>3. ASSUME NEW b \in Comparisons(atoms), b.left = a.left, b.right = a.right
        PROVE  s \in Signs[b.operator]
    BY <2>3, ComparisonHolds DEF Compare
  <2>4. ASSUME NEW b \in Comparisons(atoms), b.left = a.right, b.right = a.left
        PROVE  -s \in Signs[b.operator]
    <3>1. SignOf(y - x) \in Signs[b.operator]
      BY <2>4, ComparisonHolds DEF Compare
    <3> QED BY <3>1, <2>2
  <2> HIDE DEF s
  <2>5. s \in Relation(atoms, a.left, a.right)
    BY <2>2, <2>3, <2>4 DEF Relation
  <2> QED BY <2>5
<1>2. ASSUME NEW a \in Comparisons(atoms), a.left = a.right PROVE 0 \in Signs[a.operator]
  <2>1. /\ Resolved(a.left, frame) \in Int
        /\ SignOf(Resolved(a.left, frame) - Resolved(a.left, frame)) \in Signs[a.operator]
    BY <1>2, ComparisonHolds DEF Compare
  <2> QED BY <2>1, SignMirror
<1>3. ASSUME NEW a \in Comparisons(atoms), a.left.type = "constant", a.right.type = "constant"
      PROVE  SignOf(a.left.value - a.right.value) \in Signs[a.operator]
  <2>1. /\ IsNormal(a.left) /\ IsNormal(a.right)
        /\ SignOf(Resolved(a.left, frame) - Resolved(a.right, frame)) \in Signs[a.operator]
    BY ComparisonHolds DEF Compare
  <2> QED BY <2>1, <1>3, NormalConstant
<1> QED BY <1>1, <1>2, <1>3 DEF IncompatibleRelations, FalseConstants

\* What a comparison with a constant says of the other operand.
LEMMA FactsHold ==
    ASSUME NEW atoms, NEW frame, AllHold(atoms, frame), NEW f \in ConstantFacts(atoms)
    PROVE  /\ Resolved(f.expr, frame) \in Int /\ f.const.value \in Int
           /\ f.op \in {"GT", "GTE", "LT", "LTE", "EQ", "NE"}
           /\ Compare(Resolved(f.expr, frame), f.op, f.const.value)
           /\ f.const = Const(f.expr.dim, f.const.value, 0)
<1>1. CASE \E a \in Comparisons(atoms) : /\ a.right.type = "constant"
                                         /\ f = [expr |-> a.left, op |-> a.operator, const |-> a.right]
  <2>1. PICK a \in Comparisons(atoms) : /\ a.right.type = "constant"
                                        /\ f = [expr |-> a.left, op |-> a.operator, const |-> a.right]
    BY <1>1
  <2>2. f.expr = a.left /\ f.op = a.operator /\ f.const = a.right
    BY <2>1
  <2>3. /\ a.operator \in {"GT", "GTE", "LT", "LTE", "EQ", "NE"}
        /\ IsNormal(a.right) /\ a.left.dim = a.right.dim /\ Resolved(a.left, frame) \in Int
        /\ Compare(Resolved(a.left, frame), a.operator, Resolved(a.right, frame))
    BY ComparisonHolds
  <2>4. a.right = Const(a.right.dim, a.right.value, 0) /\ a.right.value \in Int
        /\ Resolved(a.right, frame) = a.right.value
    BY <2>1, <2>3, NormalConstant
  <2> QED BY <2>2, <2>3, <2>4
<1>2. CASE \E a \in Comparisons(atoms) :
               /\ a.left.type = "constant"
               /\ f = [expr |-> a.right, op |-> Reversed[a.operator], const |-> a.left]
  <2>1. PICK a \in Comparisons(atoms) :
               /\ a.left.type = "constant"
               /\ f = [expr |-> a.right, op |-> Reversed[a.operator], const |-> a.left]
    BY <1>2
  <2>2. f.expr = a.right /\ f.op = Reversed[a.operator] /\ f.const = a.left
    BY <2>1
  <2>3. /\ a.operator \in {"GT", "GTE", "LT", "LTE", "EQ", "NE"}
        /\ IsNormal(a.left) /\ a.left.dim = a.right.dim /\ Resolved(a.right, frame) \in Int
        /\ Compare(Resolved(a.left, frame), a.operator, Resolved(a.right, frame))
    BY ComparisonHolds
  <2>4. a.left = Const(a.left.dim, a.left.value, 0) /\ a.left.value \in Int
        /\ Resolved(a.left, frame) = a.left.value
    BY <2>1, <2>3, NormalConstant
  <2> DEFINE x == Resolved(a.right, frame)
             v == a.left.value
             op == a.operator
  <2>5. Compare(v, op, x) /\ x \in Int /\ v \in Int
    BY <2>3, <2>4
  <2>6. /\ Compare(v, "GT", x) = (v > x) /\ Compare(v, "GTE", x) = (v >= x)
        /\ Compare(v, "LT", x) = (v < x) /\ Compare(v, "LTE", x) = (v <= x)
        /\ Compare(v, "EQ", x) = (v = x) /\ Compare(v, "NE", x) = (v # x)
    BY <2>5, Comparing
  <2>7. /\ Compare(x, "GT", v) = (x > v) /\ Compare(x, "GTE", v) = (x >= v)
        /\ Compare(x, "LT", v) = (x < v) /\ Compare(x, "LTE", v) = (x <= v)
        /\ Compare(x, "EQ", v) = (x = v) /\ Compare(x, "NE", v) = (x # v)
    BY <2>5, Comparing
  <2>8. /\ Reversed["GT"] = "LT" /\ Reversed["GTE"] = "LTE" /\ Reversed["LT"] = "GT"
        /\ Reversed["LTE"] = "GTE" /\ Reversed["EQ"] = "EQ" /\ Reversed["NE"] = "NE"
    BY DEF Reversed
  <2>9. op \in {"GT", "GTE", "LT", "LTE", "EQ", "NE"}
    BY <2>3
  <2> HIDE DEF x, v, op
  <2>10. Compare(x, Reversed[op], v) /\ Reversed[op] \in {"GT", "GTE", "LT", "LTE", "EQ", "NE"}
    <3>1. /\ (v > x) = (x < v) /\ (v >= x) = (x <= v) /\ (v < x) = (x > v) /\ (v <= x) = (x >= v)
      BY <2>5, SMT
    <3>2. CASE op = "GT"
      BY <3>1, <3>2, <2>5, <2>6, <2>7, <2>8
    <3>3. CASE op = "GTE"
      BY <3>1, <3>3, <2>5, <2>6, <2>7, <2>8
    <3>4. CASE op = "LT"
      BY <3>1, <3>4, <2>5, <2>6, <2>7, <2>8
    <3>5. CASE op = "LTE"
      BY <3>1, <3>5, <2>5, <2>6, <2>7, <2>8
    <3>6. CASE op = "EQ" \/ op = "NE"
      BY <3>6, <2>5, <2>6, <2>7, <2>8
    <3> QED BY <2>9, <3>2, <3>3, <3>4, <3>5, <3>6
  <2> QED BY <2>2, <2>3, <2>4, <2>10 DEF x, v, op
<1> QED BY <1>1, <1>2 DEF ConstantFacts

\* An expression that equals a constant equals no other, and is not said to differ from it.
LEMMA EqualitiesHold ==
    ASSUME NEW atoms, NEW frame, AllHold(atoms, frame)
    PROVE  ~ExclusiveEqualities(atoms) /\ ~EqualityExcluded(atoms)
<1> SUFFICES ASSUME NEW f \in ConstantFacts(atoms), NEW g \in ConstantFacts(atoms),
                    f.op = "EQ", f.expr = g.expr
             PROVE  ~(g.op = "EQ" /\ f.const # g.const) /\ ~(g.op = "NE" /\ f.const = g.const)
  BY DEF ExclusiveEqualities, EqualityExcluded
<1> DEFINE x == Resolved(f.expr, frame)
           v == f.const.value
           w == g.const.value
<1>1. /\ x \in Int /\ v \in Int /\ w \in Int
      /\ Compare(x, f.op, v) /\ Compare(x, g.op, w)
      /\ f.const = Const(f.expr.dim, v, 0) /\ g.const = Const(f.expr.dim, w, 0)
  BY FactsHold
<1> HIDE DEF x, v, w
<1>2. Compare(x, "EQ", v) = (x = v) /\ Compare(x, "EQ", w) = (x = w) /\ Compare(x, "NE", w) = (x # w)
  BY <1>1, Comparing
<1>3. x = v
  BY <1>1, <1>2
<1>4. CASE g.op = "EQ"
  BY <1>1, <1>2, <1>3, <1>4
<1>5. CASE g.op = "NE"
  BY <1>1, <1>2, <1>3, <1>5 DEF v, w
<1> QED BY <1>4, <1>5

\* A value is on its side of a bound.
Respects(v, b) ==
    IF b.lower THEN IF b.closed THEN v >= b.at ELSE v > b.at
    ELSE IF b.closed THEN v <= b.at ELSE v < b.at

\* The bounds of conditions that hold are respected.
LEMMA BoundsHold ==
    ASSUME NEW atoms, NEW frame, AllHold(atoms, frame), NEW b \in Bounds(atoms)
    PROVE  /\ Resolved(b.expr, frame) \in Int /\ b.at \in Int
           /\ b.lower \in BOOLEAN /\ b.closed \in BOOLEAN
           /\ Respects(Resolved(b.expr, frame), b)
<1>1. CASE \E f \in ConstantFacts(atoms), lower \in BOOLEAN :
               /\ b = [expr |-> f.expr, at |-> f.const.value, lower |-> lower,
                       closed |-> f.op \in {"GTE", "LTE", "EQ"}]
               /\ lower => f.op \in {"GT", "GTE", "EQ"}
               /\ ~lower => f.op \in {"LT", "LTE", "EQ"}
  <2>1. PICK f \in ConstantFacts(atoms), lower \in BOOLEAN :
               /\ b = [expr |-> f.expr, at |-> f.const.value, lower |-> lower,
                       closed |-> f.op \in {"GTE", "LTE", "EQ"}]
               /\ lower => f.op \in {"GT", "GTE", "EQ"}
               /\ ~lower => f.op \in {"LT", "LTE", "EQ"}
    BY <1>1
  <2> DEFINE x == Resolved(f.expr, frame)
             v == f.const.value
  <2>2. /\ b.expr = f.expr /\ b.at = v /\ b.lower = lower
        /\ b.closed = (f.op \in {"GTE", "LTE", "EQ"})
    BY <2>1
  <2>3. x \in Int /\ v \in Int /\ Compare(x, f.op, v)
    BY FactsHold
  <2>4. /\ Compare(x, "GT", v) = (x > v) /\ Compare(x, "GTE", v) = (x >= v)
        /\ Compare(x, "LT", v) = (x < v) /\ Compare(x, "LTE", v) = (x <= v)
        /\ Compare(x, "EQ", v) = (x = v)
    BY <2>3, Comparing
  <2> HIDE DEF x, v
  <2>5. Respects(x, b)
    <3>1. x = v => x >= v /\ x <= v
      BY <2>3, SMT
    <3>2. CASE lower
      <4>1. CASE f.op = "GT"
        BY <2>2, <2>3, <2>4, <3>2, <4>1 DEF Respects
      <4>2. CASE f.op = "GTE"
        BY <2>2, <2>3, <2>4, <3>2, <4>2 DEF Respects
      <4>3. CASE f.op = "EQ"
        BY <2>2, <2>3, <2>4, <3>1, <3>2, <4>3 DEF Respects
      <4> QED BY <2>1, <3>2, <4>1, <4>2, <4>3
    <3>3. CASE ~lower
      <4>1. CASE f.op = "LT"
        BY <2>2, <2>3, <2>4, <3>3, <4>1 DEF Respects
      <4>2. CASE f.op = "LTE"
        BY <2>2, <2>3, <2>4, <3>3, <4>2 DEF Respects
      <4>3. CASE f.op = "EQ"
        BY <2>2, <2>3, <2>4, <3>1, <3>3, <4>3 DEF Respects
      <4> QED BY <2>1, <3>3, <4>1, <4>2, <4>3
    <3> QED BY <3>2, <3>3
  <2> QED BY <2>2, <2>3, <2>5 DEF x, v
<1>2. CASE \E a \in atoms : /\ a.type = "range" /\ a.operator = "BETWEEN"
                            /\ a.lower.type = "constant" /\ a.upper.type = "constant"
                            /\ \/ b = [expr |-> a.value, at |-> a.lower.value, lower |-> TRUE,
                                       closed |-> a.lowerIn]
                               \/ b = [expr |-> a.value, at |-> a.upper.value, lower |-> FALSE,
                                       closed |-> a.upperIn]
  <2>1. PICK a \in atoms : /\ a.type = "range" /\ a.operator = "BETWEEN"
                           /\ a.lower.type = "constant" /\ a.upper.type = "constant"
                           /\ \/ b = [expr |-> a.value, at |-> a.lower.value, lower |-> TRUE,
                                      closed |-> a.lowerIn]
                              \/ b = [expr |-> a.value, at |-> a.upper.value, lower |-> FALSE,
                                      closed |-> a.upperIn]
    BY <1>2
  <2>2. /\ IsLeaf(a) /\ Reads(a, frame)
        /\ \A o \in OperandsOf(a) : IsNormal(o)
    BY DEF AllHold
  <2>3. PICK before : Says(a, frame, before)
    BY DEF AllHold
  <2>4. /\ OperandsOf(a) = {a.value, a.lower, a.upper}
        /\ a.lowerIn \in BOOLEAN /\ a.upperIn \in BOOLEAN
    BY <2>1, <2>2, RangeLeaf
  <2> DEFINE x == Resolved(a.value, frame)
             lo == Resolved(a.lower, frame)
             hi == Resolved(a.upper, frame)
  <2>5. /\ IsDefined(a.value, frame) /\ IsDefined(a.lower, frame) /\ IsDefined(a.upper, frame)
        /\ Compare(x, IF a.lowerIn THEN "GTE" ELSE "GT", lo)
        /\ Compare(x, IF a.upperIn THEN "LTE" ELSE "LT", hi)
    BY <2>1, <2>3, <2>4 DEF Says
  <2>6. x \in Int /\ lo \in Int /\ hi \in Int
    <3>1. a.value \in OperandsOf(a) /\ a.lower \in OperandsOf(a) /\ a.upper \in OperandsOf(a)
      BY <2>4
    <3>2. \A o \in OperandsOf(a) : IsDefined(o, frame) => Resolved(o, frame) \in Int
      BY <2>2, NormalResolves
    <3> QED BY <2>5, <3>1, <3>2
  <2>7. lo = a.lower.value /\ hi = a.upper.value
    BY <2>1, <2>2, <2>4, NormalConstant
  <2>8. /\ Compare(x, "GTE", lo) = (x >= lo) /\ Compare(x, "GT", lo) = (x > lo)
        /\ Compare(x, "LTE", hi) = (x <= hi) /\ Compare(x, "LT", hi) = (x < hi)
    BY <2>6, Comparing
  <2> HIDE DEF x, lo, hi
  <2>9. CASE b = [expr |-> a.value, at |-> a.lower.value, lower |-> TRUE, closed |-> a.lowerIn]
    <3>1. b.expr = a.value /\ b.at = lo /\ b.lower = TRUE /\ b.closed = a.lowerIn
      BY <2>7, <2>9
    <3>2. Respects(x, b)
      BY <3>1, <2>4, <2>5, <2>8 DEF Respects
    <3> QED BY <3>1, <3>2, <2>4, <2>6 DEF x
  <2>10. CASE b = [expr |-> a.value, at |-> a.upper.value, lower |-> FALSE, closed |-> a.upperIn]
    <3>1. b.expr = a.value /\ b.at = hi /\ b.lower = FALSE /\ b.closed = a.upperIn
      BY <2>7, <2>10
    <3>2. Respects(x, b)
      BY <3>1, <2>4, <2>5, <2>8 DEF Respects
    <3> QED BY <3>1, <3>2, <2>4, <2>6 DEF x
  <2> QED BY <2>1, <2>9, <2>10
<1> QED BY <1>1, <1>2 DEF Bounds

\* Bounds that a value respects leave something between them.
LEMMA IntervalsHold ==
    ASSUME NEW atoms, NEW frame, AllHold(atoms, frame)
    PROVE  ~EmptyInterval(atoms)
<1> SUFFICES ASSUME NEW lo \in Bounds(atoms), NEW hi \in Bounds(atoms),
                    lo.lower, ~hi.lower, lo.expr = hi.expr
             PROVE  ~(lo.at > hi.at) /\ ~(lo.at = hi.at /\ ~(lo.closed /\ hi.closed))
  BY DEF EmptyInterval
<1> DEFINE x == Resolved(lo.expr, frame)
           low == lo.at
           high == hi.at
<1>1. /\ x \in Int /\ low \in Int /\ high \in Int
      /\ Respects(x, lo) /\ Respects(x, hi) /\ lo.closed \in BOOLEAN /\ hi.closed \in BOOLEAN
  BY BoundsHold
<1> HIDE DEF x
<1>2. IF lo.closed THEN x >= low ELSE x > low
  BY <1>1 DEF Respects
<1>3. IF hi.closed THEN x <= high ELSE x < high
  BY <1>1 DEF Respects
<1> HIDE DEF low, high
<1>4. low <= high /\ (low = high => lo.closed /\ hi.closed)
  BY <1>1, <1>2, <1>3, SMT
<1>5. ~(low > high)
  BY <1>1, <1>4, SMT
<1> QED BY <1>4, <1>5 DEF low, high

\* What is proved contradictory never holds.
LEMMA ContradictionsNeverHold ==
    ASSUME NEW atoms, NEW frame, AllHold(atoms, frame)
    PROVE  ~Contradiction(atoms)
BY RelationsHold, EqualitiesHold, IntervalsHold DEF Contradiction

(***************************************************************************)
(* The canonical form.                                                     *)
(***************************************************************************)
\* A finite set as a sequence.
LEMMA SetToSeqIs ==
    ASSUME NEW S, IsFiniteSet(S)
    PROVE  /\ SetToSeq(S) \in [1..Cardinality(S) -> S] /\ SetToSeq(S) \in Seq(S)
           /\ Cardinality(S) \in Nat /\ DOMAIN SetToSeq(S) = 1..Cardinality(S)
           /\ {SetToSeq(S)[n] : n \in 1..Cardinality(S)} = S
<1> DEFINE n == Cardinality(S)
<1>1. n \in Nat /\ ExistsBijection(1..n, S)
  BY FS_CardinalityType
<1>2. PICK f \in Bijection(1..n, S) : TRUE
  BY <1>1 DEF ExistsBijection
<1>3. f \in [1..n -> S] /\ IsInjective(f)
  BY <1>2 DEF Bijection, Injection
<1>4. SetToSeq(S) \in [1..n -> S] /\ IsInjective(SetToSeq(S))
  BY <1>3 DEF SetToSeq
<1> DEFINE g == SetToSeq(S)
<1>5. g \in Injection(1..n, S)
  BY <1>4 DEF Injection
<1>6. g \in Surjection(1..n, S)
  <2>1. IsFiniteSet(1..n) /\ Cardinality(1..n) = n
    <3>1. 1 \in Int /\ n \in Int
      BY <1>1
    <3>2. IsFiniteSet(1..n) /\ Cardinality(1..n) = IF 1 > n THEN 0 ELSE n - 1 + 1
      BY <3>1, FS_Interval
    <3>3. (IF 1 > n THEN 0 ELSE n - 1 + 1) = n
      BY <1>1, SMT
    <3> QED BY <3>2, <3>3
  <2> HIDE DEF g
  <2>2. Cardinality(1..n) = Cardinality(S) <=> g \in Surjection(1..n, S)
    BY <1>5, FS_Injection
  <2> QED BY <2>1, <2>2
<1>7. {g[i] : i \in 1..n} = S
  <2> HIDE DEF g, n
  <2> QED BY <1>6 DEF Surjection
<1>8. g \in Seq(S)
  <2> HIDE DEF g, n
  <2> QED BY <1>1, <1>4, SeqDef DEF g, n
<1> QED BY <1>1, <1>4, <1>7, <1>8

\* The leaf itself as a tree.
LEMMA LeafTree ==
    ASSUME NEW leaf, ~IsLogical(leaf)
    PROVE  /\ IsConjunction(Leaf(leaf)) /\ LeafNodes(Leaf(leaf)) = {leaf}
           /\ LeafPlaces(Leaf(leaf)) = {<<>>}
<1>1. DOMAIN Leaf(leaf) = {<<>>} /\ Leaf(leaf)[<<>>] = leaf
  BY DEF Leaf
<1>2. LeafPlaces(Leaf(leaf)) = {<<>>}
  BY <1>1 DEF LeafPlaces
<1>3. LeafNodes(Leaf(leaf)) = {leaf}
  BY <1>1, <1>2 DEF LeafNodes
<1>4. IsFiniteSet({<<>>}) /\ <<>> \in Seq(Nat)
  BY FS_Singleton, EmptySeq
<1>5. IsTree(Leaf(leaf))
  BY <1>1, <1>4 DEF IsTree
<1> QED BY <1>1, <1>2, <1>3, <1>5 DEF IsConjunction

\* A conjunction of leaves.
LEMMA LeavesTree ==
    ASSUME NEW S, NEW n \in Nat \ {0}, NEW s \in [1..n -> S], \A leaf \in S : ~IsLogical(leaf)
    PROVE  IsConjunction(AllOf(s)) /\ LeafNodes(AllOf(s)) = {s[i] : i \in 1..n}
<1> DEFINE children == [i \in DOMAIN s |-> Leaf(s[i])]
           T == AllOf(s)
           below == UNION {{<<k>> \o q : q \in DOMAIN children[k]} : k \in DOMAIN children}
<1>1. /\ DOMAIN children = 1..n
      /\ \A k \in 1..n : DOMAIN children[k] = {<<>>} /\ children[k][<<>>] = s[k] /\ s[k] \in S
  BY DEF Leaf
<1>2. Len(children) = n
  BY <1>1, SMT
<1>3. \A k \in 1..n : /\ <<k>> \o <<>> = <<k>> /\ <<k>> # <<>> /\ Head(<<k>>) = k /\ Tail(<<k>>) = <<>>
                      /\ <<k>> \in Seq(Nat) /\ <<k>> = Append(<<>>, k)
  BY SMT
<1> HIDE DEF children
<1>4. below = {<<k>> : k \in 1..n}
  <2>1. ASSUME NEW k \in 1..n PROVE {<<k>> \o q : q \in DOMAIN children[k]} = {<<k>>}
    <3>1. DOMAIN children[k] = {<<>>} /\ <<k>> \o <<>> = <<k>>
      BY <1>1, <1>3
    <3> QED BY <3>1
  <2> DEFINE at(k) == {<<k>> \o q : q \in DOMAIN children[k]}
  <2>2. below = UNION {at(k) : k \in 1..n}
    BY <1>1
  <2>3. \A k \in 1..n : at(k) = {<<k>>}
    BY <2>1
  <2> HIDE DEF at, below
  <2> QED BY <2>2, <2>3
<1> HIDE DEF below
<1>5. T = [p \in {<<>>} \cup below |->
              IF p = <<>> THEN [type |-> "logical", operator |-> "AND", arity |-> n]
              ELSE children[Head(p)][Tail(p)]]
  BY <1>2 DEF AllOf, Logical, below, children
<1>6. /\ DOMAIN T = {<<>>} \cup {<<k>> : k \in 1..n}
      /\ T[<<>>] = [type |-> "logical", operator |-> "AND", arity |-> n]
  BY <1>4, <1>5
<1>7. \A k \in 1..n : T[<<k>>] = s[k]
  BY <1>1, <1>3, <1>4, <1>5
<1> HIDE DEF T
<1>8. IsLogical(T[<<>>]) /\ \A k \in 1..n : ~IsLogical(T[<<k>>])
  BY <1>1, <1>6, <1>7 DEF IsLogical
<1>9. LeafPlaces(T) = {<<k>> : k \in 1..n}
  BY <1>6, <1>8 DEF LeafPlaces
<1>10. LeafNodes(T) = {s[i] : i \in 1..n}
  BY <1>7, <1>9 DEF LeafNodes
<1>11. IsFiniteSet(DOMAIN T)
  <2> DEFINE places == {<<k>> : k \in 1..n}
             f == [k \in 1..n |-> <<k>>]
  <2>1. f \in Surjection(1..n, places)
    BY DEF Surjection
  <2>2. IsFiniteSet(1..n)
    BY FS_Interval
  <2> HIDE DEF f, places
  <2>3. IsFiniteSet(places)
    BY <2>1, <2>2, FS_Surjection
  <2>4. IsFiniteSet({<<>>})
    BY FS_Singleton
  <2>5. IsFiniteSet({<<>>} \cup places)
    BY <2>3, <2>4, FS_Union
  <2> QED BY <2>5, <1>6 DEF places
<1>12. DOMAIN T \subseteq Seq(Nat)
  BY <1>3, <1>6, EmptySeq
<1>13. IsTree(T)
  <2>1. \A p \in DOMAIN T \ {<<>>} : \E q \in DOMAIN T :
            IsLogical(T[q]) /\ \E k \in 1..T[q].arity : p = Append(q, k)
    <3> TAKE p \in DOMAIN T \ {<<>>}
    <3>1. PICK k \in 1..n : p = <<k>>
      BY <1>6
    <3>2. p = Append(<<>>, k) /\ T[<<>>].arity = n /\ <<>> \in DOMAIN T /\ IsLogical(T[<<>>])
      BY <3>1, <1>3, <1>6, <1>8
    <3> QED BY <3>2
  <2>2. \A p \in DOMAIN T : IsLogical(T[p]) =>
           /\ T[p].operator = "AND" /\ T[p].arity = n
           /\ \A k \in 1..n : Append(p, k) \in DOMAIN T
    <3> SUFFICES ASSUME NEW p \in DOMAIN T, IsLogical(T[p])
                 PROVE  /\ T[p].operator = "AND" /\ T[p].arity = n
                        /\ \A k \in 1..n : Append(p, k) \in DOMAIN T
      OBVIOUS
    <3>1. p = <<>>
      BY <1>6, <1>8
    <3>2. \A k \in 1..n : Append(<<>>, k) \in DOMAIN T
      BY <1>3, <1>6
    <3> QED BY <3>1, <3>2, <1>6
  <2> QED BY <1>6, <1>11, <1>12, <2>1, <2>2 DEF IsTree
<1>14. IsConjunction(T)
  BY <1>6, <1>8, <1>13 DEF IsConjunction
<1> QED BY <1>10, <1>14 DEF T

\* A tree has leaves, finitely many.
LEMMA TreeHasLeaves ==
    ASSUME NEW c, IsTree(c)
    PROVE  LeafPlaces(c) # {} /\ IsFiniteSet(LeafPlaces(c))
<1> DEFINE A == DOMAIN c
           length == [p \in A |-> Len(p)]
<1>0. /\ IsFiniteSet(A) /\ A \subseteq Seq(Nat) /\ <<>> \in A
      /\ \A p \in A : IsLogical(c[p]) =>
             /\ c[p].arity \in Nat \ {0} /\ \A k \in 1..c[p].arity : Append(p, k) \in A
  BY DEF IsTree
<1>1. \A p \in A : length[p] \in Nat /\ length[p] = Len(p)
  BY <1>0, LenProperties
<1>2. PICK p \in A : \A r \in A : Len(r) <= Len(p)
  <2> HIDE DEF A, length
  <2>1. PICK p \in A : \A r \in A : length[r] <= length[p]
    BY <1>0, <1>1, GreatestValue
  <2> QED BY <2>1, <1>1
<1>3. ~IsLogical(c[p])
  <2> SUFFICES ASSUME IsLogical(c[p]) PROVE FALSE
    OBVIOUS
  <2>1. 1 \in 1..c[p].arity
    BY <1>0, SMT
  <2>2. Append(p, 1) \in A /\ p \in Seq(Nat) /\ 1 \in Nat
    BY <2>1, <1>0
  <2>3. Len(Append(p, 1)) = Len(p) + 1 /\ Len(p) \in Nat
    BY <2>2, AppendProperties, LenProperties
  <2>4. Len(Append(p, 1)) <= Len(p)
    BY <2>2, <1>2
  <2> QED BY <2>3, <2>4, SMT
<1>4. LeafPlaces(c) \subseteq A /\ p \in LeafPlaces(c)
  BY <1>3 DEF LeafPlaces
<1> QED BY <1>0, <1>4, FS_Subset

\* The leaves of a condition: normal, some, and finitely many.
LEMMA LeavesOf ==
    ASSUME NEW c, IsTree(c), \A leaf \in LeafNodes(c) : IsLeaf(leaf)
    PROVE  /\ IsFiniteSet(Leaves(c)) /\ Leaves(c) # {}
           /\ \A leaf \in Leaves(c) : IsLeaf(leaf) /\ ~IsLogical(leaf) /\ NormalLeaf(leaf) = leaf
<1>1. LeafPlaces(c) # {} /\ IsFiniteSet(LeafPlaces(c))
  BY TreeHasLeaves
<1>2. Leaves(c) = {NormalLeaf(c[p]) : p \in LeafPlaces(c)}
  BY DEF Leaves, LeafNodes
<1>3. IsFiniteSet(Leaves(c))
  <2> DEFINE f == [p \in LeafPlaces(c) |-> NormalLeaf(c[p])]
  <2>1. f \in Surjection(LeafPlaces(c), Leaves(c))
    BY <1>2 DEF Surjection
  <2> HIDE DEF f
  <2> QED BY <1>1, <2>1, FS_Surjection
<1>4. ASSUME NEW leaf \in LeafNodes(c)
      PROVE  /\ IsLeaf(NormalLeaf(leaf)) /\ ~IsLogical(NormalLeaf(leaf))
             /\ NormalLeaf(NormalLeaf(leaf)) = NormalLeaf(leaf)
  <2>1. IsLeaf(leaf)
    OBVIOUS
  <2>2. IsLeaf(NormalLeaf(leaf)) /\ NormalLeaf(NormalLeaf(leaf)) = NormalLeaf(leaf)
    BY <2>1, NormalIsLeaf, NormalTwice
  <2>3. NormalLeaf(leaf).type \in {"range", "comparison", "cross"}
    BY <2>2, ComparisonOrCross
  <2> QED BY <2>2, <2>3 DEF IsLogical
<1> QED BY <1>1, <1>2, <1>3, <1>4 DEF Leaves

\* The canonical form is a conjunction of the leaves.
LEMMA NormalizeIs ==
    ASSUME NEW c, IsTree(c), \A leaf \in LeafNodes(c) : IsLeaf(leaf)
    PROVE  IsConjunction(Normalize(c)) /\ LeafNodes(Normalize(c)) = Leaves(c)
<1> DEFINE L == Leaves(c)
           n == Cardinality(L)
           s == SetToSeq(L)
<1>1. /\ IsFiniteSet(L) /\ L # {} /\ \A leaf \in L : ~IsLogical(leaf)
  BY LeavesOf
<1>2. CASE n = 1
  <2> DEFINE x == CHOOSE leaf \in L : TRUE
  <2>1. x \in L
    BY <1>1
  <2>2. \E y : L = {y}
    BY <1>1, <1>2, FS_Singleton
  <2>3. L = {x}
    BY <2>1, <2>2
  <2>4. Normalize(c) = Leaf(x)
    BY <1>2 DEF Normalize
  <2> QED BY <1>1, <2>1, <2>3, <2>4, LeafTree
<1>3. CASE n # 1
  <2>1. /\ s \in [1..n -> L] /\ n \in Nat /\ {s[i] : i \in 1..n} = L /\ DOMAIN s = 1..n
    BY <1>1, SetToSeqIs
  <2>2. n # 0
    BY <1>1, FS_EmptySet
  <2>3. Normalize(c) = AllOf(s)
    BY <1>3 DEF Normalize
  <2> HIDE DEF L, n, s
  <2>4. n \in Nat \ {0}
    BY <2>1, <2>2
  <2>5. IsConjunction(AllOf(s)) /\ LeafNodes(AllOf(s)) = {s[i] : i \in 1..n}
    BY <2>1, <2>4, <1>1, LeavesTree
  <2> QED BY <2>1, <2>3, <2>5 DEF L
<1> QED BY <1>2, <1>3

(***************************************************************************)
(* A condition and its canonical form on one frame.                        *)
(***************************************************************************)
Frames(c) == [Names(c) -> Values \cup {Undefined}]

\* What the crosses of a condition remember of the frame before, if there was one.
BeforeOf(c, started, before) ==
    [p \in CrossPlaces(c) |-> IF started THEN Pair(c[p], before) ELSE Undefined]

\* A frame has a number, or nothing, for each operand of a condition.
LEMMA FramesRead ==
    ASSUME NEW c \in Conditions, NEW leaf \in LeafNodes(c), NEW frame \in Frames(c)
    PROVE  Reads(leaf, frame)
<1> SUFFICES ASSUME NEW o \in OperandsOf(leaf) PROVE Resolved(o, frame) \in Int \cup {Undefined}
  BY DEF Reads
<1>1. IsOperand(o)
  BY ConditionsAssumption DEF IsLeaf
<1>2. CASE o.type = "constant"
  BY <1>1, <1>2 DEF IsOperand, Resolved
<1>3. CASE o.type # "constant"
  <2>1. o = Named(o.dim, o.name)
    BY <1>1, <1>3 DEF IsOperand
  <2>2. o.type = "named"
    BY <2>1 DEF Named
  <2>3. o.name \in Names(c)
    BY <2>2 DEF Names
  <2>4. frame[o.name] \in Values \cup {Undefined} /\ Values \subseteq Int
    BY <2>3, ConditionsAssumption DEF Frames
  <2> QED BY <1>3, <2>4 DEF Resolved
<1> QED BY <1>2, <1>3

\* The normal form of an admissible leaf is admissible.
LEMMA NormalAdmissible ==
    ASSUME NEW leaf, IsLeaf(leaf), LeafAdmissible(leaf)
    PROVE  LeafAdmissible(NormalLeaf(leaf))
<1> DEFINE N == NormalLeaf(leaf)
           dims == {o.dim : o \in OperandsOf(leaf)}
           dimsN == {o.dim : o \in OperandsOf(N)}
<1>1. N.type = leaf.type /\ OperandsOf(N) = {Decimal(o) : o \in OperandsOf(leaf)}
  BY NormalIsLeaf
<1>2. \A o \in OperandsOf(leaf) : Decimal(o).dim = o.dim
  BY DecimalOperand DEF IsLeaf
<1>3. dimsN = dims
  <2> HIDE DEF N
  <2> QED BY <1>1, <1>2
<1>4. leaf.type = "comparison" /\ leaf.operator \in {"EQ", "NE"} => N.operator \in {"EQ", "NE"}
  BY NormalForm DEF Of
<1>5. /\ Cardinality(dims) = 1
      /\ (\E d \in dims : Textual(d)) => leaf.type = "comparison" /\ leaf.operator \in {"EQ", "NE"}
  BY DEF LeafAdmissible
<1>6. /\ Cardinality(dimsN) = 1
      /\ (\E d \in dimsN : Textual(d)) => N.type = "comparison" /\ N.operator \in {"EQ", "NE"}
  <2> HIDE DEF N, dims, dimsN
  <2> QED BY <1>1, <1>3, <1>4, <1>5
<1> QED BY <1>6 DEF LeafAdmissible

\* An admissible condition is a conjunction of admissible leaves.
LEMMA AdmissibleIs ==
    ASSUME NEW c \in Conditions, Admissible(c)
    PROVE  /\ IsConjunction(c) /\ IsTree(c)
           /\ \A leaf \in LeafNodes(c) : IsLeaf(leaf) /\ LeafAdmissible(leaf)
           /\ IsConjunction(Normalize(c)) /\ LeafNodes(Normalize(c)) = Leaves(c)
<1>1. IsTree(c) /\ \A leaf \in LeafNodes(c) : IsLeaf(leaf)
  BY ConditionsAssumption
<1>2. IsConjunction(c)
  BY <1>1 DEF IsConjunction, Admissible
<1>3. \A leaf \in LeafNodes(c) : LeafAdmissible(leaf)
  BY DEF Admissible, LeafNodes, LeafPlaces
<1> QED BY <1>1, <1>2, <1>3, NormalizeIs

\* Says gives an answer.
LEMMA SaysBoolean ==
    ASSUME NEW leaf, IsLeaf(leaf), NEW frame, NEW before
    PROVE  Says(leaf, frame, before) \in BOOLEAN
<1>1. leaf.type \in {"range", "comparison", "cross"}
  BY ComparisonOrCross
<1>2. CASE leaf.type = "range"
  BY <1>2 DEF Says, Compare, IsDefined
<1>3. CASE leaf.type = "comparison"
  BY <1>3 DEF Says, Compare, IsDefined
<1>4. CASE leaf.type = "cross"
  BY <1>4 DEF Says, Crossed
<1> QED BY <1>1, <1>2, <1>3, <1>4

\* A conjunction holds when all its leaves do.
LEMMA ConjunctionVisit ==
    ASSUME NEW c, IsConjunction(c), \A leaf \in LeafNodes(c) : IsLeaf(leaf), NEW frame, NEW before
    PROVE  Visit(c, frame, before) =
               (\A p \in LeafPlaces(c) : Says(c[p], frame, Recalled(before, p)))
<1> DEFINE says == [p \in LeafPlaces(c) |-> Says(c[p], frame, Recalled(before, p))]
<1>1. \A p \in LeafPlaces(c) : says[p] \in BOOLEAN
  BY SaysBoolean DEF LeafNodes
<1>2. Visit(c, frame, before) = Truth(c, says)
  BY DEF Visit
<1>3. Truth(c, says) = (\A p \in LeafPlaces(c) : says[p])
  <2> HIDE DEF says
  <2> QED BY <1>1, ConjunctionTruth
<1> QED BY <1>2, <1>3

\* On every frame, after every frame, the canonical form says what the condition says;
\* and when it is contradictory, that is no.
LEMMA CanonicalVisit ==
    ASSUME NEW c \in Conditions, Admissible(c), NEW frame \in Frames(c),
           NEW started \in BOOLEAN, NEW before, started => before \in Frames(c)
    PROVE  LET memoryC == BeforeOf(c, started, before)
               memoryN == BeforeOf(Normalize(c), started, before)
           IN  /\ Visit(Normalize(c), frame, memoryN) = Visit(c, frame, memoryC)
               /\ Contradiction(Leaves(c)) => ~Visit(c, frame, memoryC)
<1> DEFINE N == Normalize(c)
           mc == BeforeOf(c, started, before)
           mn == BeforeOf(N, started, before)
           sc(p) == Says(c[p], frame, Recalled(mc, p))
           sn(q) == Says(N[q], frame, Recalled(mn, q))
<1>1. /\ IsConjunction(c) /\ IsConjunction(N) /\ LeafNodes(N) = Leaves(c)
      /\ \A leaf \in LeafNodes(c) : IsLeaf(leaf) /\ LeafAdmissible(leaf)
  BY AdmissibleIs
<1>2. \A leaf \in LeafNodes(N) : IsLeaf(leaf)
  BY <1>1, NormalIsLeaf DEF Leaves
<1>3. ASSUME NEW p \in LeafPlaces(c), NEW q \in LeafPlaces(N), N[q] = NormalLeaf(c[p])
      PROVE  sn(q) = sc(p)
  <2>1. c[p] \in LeafNodes(c) /\ IsLeaf(c[p]) /\ LeafAdmissible(c[p])
    BY <1>1 DEF LeafNodes
  <2>2. N[q].type = c[p].type
    BY <1>3, <2>1, NormalIsLeaf
  <2>3. Reads(c[p], frame) /\ (started => Reads(c[p], before))
    BY <2>1, FramesRead
  <2>4. ASSUME c[p].type = "cross" PROVE Remembered(c[p], Recalled(mc, p), Recalled(mn, q))
    <3>1. p \in CrossPlaces(c) /\ q \in CrossPlaces(N)
      BY <2>2, <2>4 DEF CrossPlaces
    <3>2. /\ Recalled(mc, p) = IF started THEN Pair(c[p], before) ELSE Undefined
          /\ Recalled(mn, q) = IF started THEN Pair(N[q], before) ELSE Undefined
      BY <3>1 DEF Recalled, BeforeOf
    <3> QED BY <3>2, <1>3, <2>3 DEF Remembered
  <2> HIDE DEF mc, mn, N
  <2>5. Says(NormalLeaf(c[p]), frame, Recalled(mn, q)) = Says(c[p], frame, Recalled(mc, p))
    BY <2>1, <2>3, <2>4, NormalSays
  <2> QED BY <2>5, <1>3
<1>4. \A p \in LeafPlaces(c) : \E q \in LeafPlaces(N) : N[q] = NormalLeaf(c[p])
  <2> HIDE DEF N
  <2> QED BY <1>1 DEF Leaves, LeafNodes
<1>5. \A q \in LeafPlaces(N) : \E p \in LeafPlaces(c) : N[q] = NormalLeaf(c[p])
  <2> HIDE DEF N
  <2> QED BY <1>1 DEF Leaves, LeafNodes
<1>6. Visit(c, frame, mc) = (\A p \in LeafPlaces(c) : sc(p))
  BY <1>1, ConjunctionVisit
<1>7. Visit(N, frame, mn) = (\A q \in LeafPlaces(N) : sn(q))
  <2> HIDE DEF N, mn
  <2> QED BY <1>1, <1>2, ConjunctionVisit
<1>8. Visit(N, frame, mn) = Visit(c, frame, mc)
  <2> HIDE DEF N, mn, mc, sc, sn
  <2> QED BY <1>3, <1>4, <1>5, <1>6, <1>7
<1>9. ASSUME Visit(N, frame, mn) PROVE AllHold(Leaves(c), frame)
  <2> SUFFICES ASSUME NEW a \in Leaves(c)
               PROVE  /\ IsLeaf(a) /\ LeafAdmissible(a) /\ Reads(a, frame)
                      /\ \A o \in OperandsOf(a) : IsNormal(o)
                      /\ \E b : Says(a, frame, b)
    BY DEF AllHold
  <2>1. PICK leaf \in LeafNodes(c) : a = NormalLeaf(leaf)
    BY DEF Leaves
  <2>2. IsLeaf(leaf) /\ LeafAdmissible(leaf) /\ Reads(leaf, frame)
    BY <1>1, FramesRead
  <2>3. IsLeaf(a) /\ LeafAdmissible(a) /\ \A o \in OperandsOf(a) : IsNormal(o)
    BY <2>1, <2>2, NormalIsLeaf, NormalAdmissible
  <2>4. Reads(a, frame)
    <3>1. OperandsOf(a) = {Decimal(o) : o \in OperandsOf(leaf)}
      BY <2>1, <2>2, NormalIsLeaf
    <3>2. \A o \in OperandsOf(leaf) : Resolved(Decimal(o), frame) = Resolved(o, frame)
      BY <2>2, NormalResolves
    <3> QED BY <3>1, <3>2, <2>2 DEF Reads
  <2>5. PICK q \in LeafPlaces(N) : N[q] = a
    <3> HIDE DEF N
    <3> QED BY <1>1 DEF LeafNodes
  <2>6. sn(q)
    BY <1>7, <1>9
  <2> QED BY <2>3, <2>4, <2>5, <2>6
<1>10. Contradiction(Leaves(c)) => ~Visit(N, frame, mn)
  BY <1>9, ContradictionsNeverHold
<1> QED BY <1>8, <1>10

(***************************************************************************)
(* The evaluator.                                                          *)
(***************************************************************************)
\* What the memories of an evaluator are between two frames.
Memory(c) == BeforeOf(c, history # <<>>, history[Len(history)])

\* The inductive invariant: a memory is of the last frame, until a frame raises.
EvaluatorInv ==
    /\ MemoriesTyped
    /\ history \in Seq(Frames(condition))
    /\ ~result.raised => memory = Memory(condition) /\ canonical = Memory(Canonical)
    /\ CrossesReadAdjacentFrames /\ CanonicalFormAgrees /\ RejectedNeverEnters

\* What a cross remembers is two numbers, or nothing.
LEMMA PairTyped ==
    ASSUME NEW c \in Conditions, NEW p \in CrossPlaces(c), NEW frame \in Frames(c)
    PROVE  Pair(c[p], frame) = Undefined \/ Pair(c[p], frame) \in Int \X Int
<1>1. c[p] \in LeafNodes(c) /\ c[p].type = "cross"
  BY DEF CrossPlaces, LeafNodes
<1>2. IsLeaf(c[p]) /\ Reads(c[p], frame)
  BY <1>1, FramesRead, ConditionsAssumption
<1>3. c[p].left \in OperandsOf(c[p]) /\ c[p].right \in OperandsOf(c[p])
  BY <1>1, <1>2, ComparisonOrCross
<1>4. /\ IsDefined(c[p].left, frame) => Resolved(c[p].left, frame) \in Int
      /\ IsDefined(c[p].right, frame) => Resolved(c[p].right, frame) \in Int
  BY <1>2, <1>3, NormalResolves
<1> QED BY <1>4 DEF Pair

\* Before the first frame.
LEMMA FreshKnowsNothing ==
    ASSUME EvaluatorInit
    PROVE  EvaluatorInv
<1>1. /\ condition \in Conditions /\ memory = Forgotten(condition) /\ canonical = Forgotten(Canonical)
      /\ result = [raised |-> FALSE, strategy |-> FALSE, canonical |-> FALSE] /\ history = <<>>
  BY DEF EvaluatorInit, Fresh
<1>2. ASSUME NEW c PROVE Forgotten(c) = Memory(c)
  BY <1>1 DEF Forgotten, Memory, BeforeOf
<1>3. MemoriesTyped
  <2>1. Len(history) <= MaxFrames
    BY <1>1, EmptySeq, ConditionsAssumption, SMT
  <2> QED BY <1>1, <2>1 DEF MemoriesTyped, Forgotten
<1>4. history \in Seq(Frames(condition))
  BY <1>1, EmptySeq
<1> QED BY <1>1, <1>2, <1>3, <1>4
        DEF EvaluatorInv, CrossesReadAdjacentFrames, CanonicalFormAgrees, RejectedNeverEnters

\* A frame that raises ends the session.
LEMMA RaisingStep ==
    ASSUME EvaluatorInv, NEW frame \in Frames(condition), Evaluate(frame), Raises(condition, frame)
    PROVE  EvaluatorInv'
<1>1. /\ result' = [raised |-> TRUE, strategy |-> FALSE, canonical |-> FALSE]
      /\ history' = Append(history, frame) /\ Len(history) < MaxFrames
      /\ UNCHANGED <<memory, canonical, condition>>
  BY DEF Evaluate
<1>2. history' \in Seq(Frames(condition)) /\ Len(history') = Len(history) + 1 /\ Len(history) \in Nat
  BY <1>1, AppendProperties, LenProperties DEF EvaluatorInv
<1>3. MemoriesTyped'
  <2>1. Len(history') <= MaxFrames
    BY <1>1, <1>2, ConditionsAssumption, SMT
  <2> QED BY <1>1, <2>1 DEF EvaluatorInv, MemoriesTyped
<1> QED BY <1>1, <1>2, <1>3
        DEF EvaluatorInv, CrossesReadAdjacentFrames, CanonicalFormAgrees, RejectedNeverEnters

\* A frame that both evaluate.
LEMMA EvaluatingStep ==
    ASSUME EvaluatorInv, NEW frame \in Frames(condition), Evaluate(frame), ~Raises(condition, frame)
    PROVE  EvaluatorInv'
<1> DEFINE last == history[Len(history)]
           started == history # <<>>
<1>1. /\ result' = [raised |-> FALSE, strategy |-> Visit(condition, frame, memory),
                    canonical |-> Visit(Canonical, frame, canonical)]
      /\ memory' = Remember(condition, frame, memory)
      /\ canonical' = Remember(Canonical, frame, canonical)
      /\ history' = Append(history, frame) /\ Len(history) < MaxFrames
      /\ condition' = condition /\ ~result.raised
  BY DEF Evaluate
<1>2. /\ condition \in Conditions /\ history \in Seq(Frames(condition))
      /\ memory = Memory(condition) /\ canonical = Memory(Canonical)
  BY <1>1 DEF EvaluatorInv, MemoriesTyped
<1>3. /\ history' \in Seq(Frames(condition)) /\ Len(history') = Len(history) + 1 /\ Len(history) \in Nat
      /\ history' # <<>> /\ history'[Len(history')] = frame
      /\ \A i \in 1..Len(history) : history'[i] = history[i]
  BY <1>1, <1>2, AppendProperties, LenProperties
<1>4. started => last \in Frames(condition) /\ Len(history) > 0 /\ Len(history) \in 1..Len(history)
  <2>1. started => Len(history) \in Nat \ {0}
    BY <1>2, EmptySeq
  <2>2. started => Len(history) > 0 /\ Len(history) \in 1..Len(history)
    BY <2>1, SMT
  <2> QED BY <2>2, <1>2, ElementOfSeq
<1>5. ASSUME NEW c PROVE Remember(c, frame, Memory(c)) = Memory(c)'
  <2>1. Memory(c)' = [p \in CrossPlaces(c) |-> Pair(c[p], frame)]
    BY <1>3 DEF Memory, BeforeOf
  <2>2. DOMAIN Memory(c) = CrossPlaces(c)
    BY DEF Memory, BeforeOf
  <2> QED BY <2>1, <2>2 DEF Remember
<1>6. Canonical' = Canonical
  BY <1>1 DEF Canonical
<1>7. memory' = Memory(condition)' /\ canonical' = Memory(Canonical)'
  BY <1>1, <1>2, <1>5, <1>6
<1>8. MemoriesTyped'
  <2>1. Len(history') <= MaxFrames
    BY <1>1, <1>3, ConditionsAssumption, SMT
  <2>2. ASSUME NEW p \in CrossPlaces(condition)
        PROVE  memory'[p] = Undefined \/ memory'[p] \in Int \X Int
    <3>1. memory' = Remember(condition, frame, Memory(condition))
      BY <1>1, <1>2
    <3>2. DOMAIN Memory(condition) = CrossPlaces(condition)
      BY DEF Memory, BeforeOf
    <3>3. memory'[p] = Pair(condition[p], frame)
      BY <3>1, <3>2 DEF Remember
    <3> QED BY <3>3, <1>2, PairTyped
  <2> QED BY <1>1, <1>2, <2>1, <2>2 DEF MemoriesTyped
<1>9. result'.strategy = Means(condition, Len(history))'
  <2> DEFINE n == Len(history')
             meant == [p \in LeafPlaces(condition) |->
                          Says(condition[p], history'[n],
                               IF condition[p].type = "cross" /\ n > 1
                               THEN Pair(condition[p], history'[n - 1]) ELSE Undefined)]
             said == [p \in LeafPlaces(condition) |->
                          Says(condition[p], frame, Recalled(memory, p))]
  <2>1. Means(condition, Len(history))' = Truth(condition, meant)
    BY <1>1 DEF Means
  <2>2. result'.strategy = Truth(condition, said)
    BY <1>1 DEF Visit
  <2>3. /\ n = Len(history) + 1 /\ n - 1 = Len(history) /\ history'[n] = frame
        /\ started => n > 1 /\ history'[n - 1] = last
        /\ ~started => ~(n > 1)
    <3>1. n = Len(history) + 1 /\ n - 1 = Len(history) /\ history'[n] = frame
      BY <1>3, SMT
    <3>2. started => n > 1 /\ history'[n - 1] = last
      BY <1>3, <1>4, <3>1, SMT
    <3>3. ~started => Len(history) = 0
      BY EmptySeq
    <3> QED BY <3>1, <3>2, <3>3, SMT
  <2>4. ASSUME NEW p \in LeafPlaces(condition)
        PROVE  Recalled(memory, p) = IF condition[p].type = "cross" /\ n > 1
                                     THEN Pair(condition[p], history'[n - 1]) ELSE Undefined
    <3> HIDE DEF n
    <3>1. p \in CrossPlaces(condition) <=> condition[p].type = "cross"
      BY DEF CrossPlaces
    <3>2. Recalled(memory, p) = IF p \in CrossPlaces(condition)
                                THEN IF started THEN Pair(condition[p], last) ELSE Undefined
                                ELSE Undefined
      BY <1>2 DEF Recalled, Memory, BeforeOf
    <3> QED BY <3>1, <3>2, <2>3
  <2>5. meant = said
    <3> HIDE DEF n
    <3> QED BY <2>3, <2>4
  <2> QED BY <2>1, <2>2, <2>5
<1>10. /\ result'.strategy = result'.canonical
       /\ Admissible(condition) /\ Contradiction(Leaves(condition)) => ~result'.strategy
  <2>1. CASE ~Admissible(condition)
    BY <1>1, <1>2, <2>1 DEF Canonical
  <2>2. CASE Admissible(condition)
    <3> DEFINE N == Normalize(condition)
    <3>1. Canonical = N
      BY <2>2 DEF Canonical
    <3>2. /\ Visit(N, frame, BeforeOf(N, started, last))
                 = Visit(condition, frame, BeforeOf(condition, started, last))
          /\ Contradiction(Leaves(condition)) =>
                 ~Visit(condition, frame, BeforeOf(condition, started, last))
      BY <1>2, <1>4, <2>2, CanonicalVisit
    <3>3. memory = BeforeOf(condition, started, last) /\ canonical = BeforeOf(N, started, last)
      BY <1>2, <3>1 DEF Memory
    <3> HIDE DEF N, last, started
    <3> QED BY <1>1, <3>1, <3>2, <3>3
  <2> QED BY <2>1, <2>2
<1> QED BY <1>1, <1>3, <1>6, <1>7, <1>8, <1>9, <1>10
        DEF EvaluatorInv, CrossesReadAdjacentFrames, CanonicalFormAgrees, RejectedNeverEnters

\* The inductive invariant holds.
THEOREM EvaluatorInvariant == EvaluatorSpec => []EvaluatorInv
<1>1. EvaluatorInit => EvaluatorInv
  BY FreshKnowsNothing
<1>2. EvaluatorInv /\ [EvaluatorNext]_evaluatorVars => EvaluatorInv'
  <2>1. ASSUME EvaluatorInv, EvaluatorNext PROVE EvaluatorInv'
    <3>1. PICK frame \in Frames(condition) : Evaluate(frame)
      BY <2>1 DEF EvaluatorNext, Frames
    <3> QED BY <2>1, <3>1, RaisingStep, EvaluatingStep
  <2>2. ASSUME EvaluatorInv, UNCHANGED evaluatorVars PROVE EvaluatorInv'
    BY <2>2 DEF EvaluatorInv, evaluatorVars, MemoriesTyped, CrossesReadAdjacentFrames, Means,
                CanonicalFormAgrees, RejectedNeverEnters, Memory, Canonical
  <2> QED BY <2>1, <2>2
<1> QED BY <1>1, <1>2, PTL DEF EvaluatorSpec

\* A cross compares adjacent frames of the session, for every condition and every session:
\* it neither skips a frame that another branch decided nor bridges one that lacked an
\* operand (condition_engine_v2.py, _visit).
THEOREM CrossesReadAdjacent == EvaluatorSpec => []CrossesReadAdjacentFrames
<1>1. EvaluatorInv => CrossesReadAdjacentFrames
  BY DEF EvaluatorInv
<1> QED BY <1>1, EvaluatorInvariant, PTL

\* The canonical form of a condition enters on the same frames, canonicalising it again
\* changes nothing, and a condition proved contradictory enters on none
\* (canonicalization.py, contradictions.py).
THEOREM CanonicalFormStandsForTheStrategy == EvaluatorSpec => []CanonicalFormIsTheStrategy
<1>1. ASSUME EvaluatorInv PROVE CanonicalFormIsTheStrategy
  <2>1. condition \in Conditions
    BY <1>1 DEF EvaluatorInv, MemoriesTyped
  <2>2. ASSUME Admissible(condition) PROVE Leaves(Canonical) = Leaves(condition)
    <3>1. /\ IsTree(condition) /\ \A leaf \in LeafNodes(condition) : IsLeaf(leaf)
          /\ LeafNodes(Canonical) = Leaves(condition)
      BY <2>1, <2>2, AdmissibleIs DEF Canonical
    <3>2. \A leaf \in Leaves(condition) : NormalLeaf(leaf) = leaf
      BY <3>1, LeavesOf
    <3>3. Leaves(Canonical) = {NormalLeaf(leaf) : leaf \in LeafNodes(Canonical)}
      BY DEF Leaves
    <3> QED BY <3>1, <3>2, <3>3
  <2> QED BY <1>1, <2>2 DEF EvaluatorInv, CanonicalFormIsTheStrategy, CanonicalFormIsStable
<1> QED BY <1>1, EvaluatorInvariant, PTL

(***************************************************************************)
(* The size of a search space.                                             *)
(***************************************************************************)
\* The choices from each of T.
SelectionsOn(sets, T) == {f \in [T -> UNION {sets[x] : x \in T}] : \A x \in T : f[x] \in sets[x]}

\* Choices from one more set are choices from the others and one of it.
LEMMA OneMoreSelection ==
    ASSUME NEW sets, NEW T, NEW x, x \notin T,
           IsFiniteSet(SelectionsOn(sets, T)), IsFiniteSet(sets[x])
    PROVE  /\ IsFiniteSet(SelectionsOn(sets, T \cup {x}))
           /\ Cardinality(SelectionsOn(sets, T \cup {x})) =
                  Cardinality(sets[x]) * Cardinality(SelectionsOn(sets, T))
<1> DEFINE A == sets[x] \X SelectionsOn(sets, T)
           B == SelectionsOn(sets, T \cup {x})
           join(p) == [y \in T \cup {x} |-> IF y = x THEN p[1] ELSE p[2][y]]
           f == [p \in A |-> join(p)]
<1>1. \A p \in A : join(p) \in B
  <2> TAKE p \in A
  <2>1. p[1] \in sets[x] /\ p[2] \in [T -> UNION {sets[y] : y \in T}] /\ \A y \in T : p[2][y] \in sets[y]
    BY DEF SelectionsOn
  <2>2. \A y \in T \cup {x} : join(p)[y] \in sets[y]
    BY <2>1
  <2> QED BY <2>2 DEF SelectionsOn
<1>2. \A p, q \in A : join(p) = join(q) => p = q
  <2> SUFFICES ASSUME NEW p \in A, NEW q \in A, join(p) = join(q) PROVE p = q
    OBVIOUS
  <2>1. /\ p = <<p[1], p[2]>> /\ q = <<q[1], q[2]>>
        /\ p[2] \in [T -> UNION {sets[y] : y \in T}] /\ q[2] \in [T -> UNION {sets[y] : y \in T}]
    BY DEF SelectionsOn
  <2>2. join(p)[x] = p[1] /\ join(q)[x] = q[1]
    OBVIOUS
  <2>3. \A y \in T : join(p)[y] = p[2][y] /\ join(q)[y] = q[2][y]
    OBVIOUS
  <2> HIDE DEF A, join
  <2>4. p[1] = q[1] /\ \A y \in T : p[2][y] = q[2][y]
    BY <2>2, <2>3
  <2>5. p[2] = q[2]
    BY <2>1, <2>4
  <2> QED BY <2>1, <2>4, <2>5
<1>3. \A g \in B : \E p \in A : join(p) = g
  <2> TAKE g \in B
  <2>1. g \in [T \cup {x} -> UNION {sets[y] : y \in T \cup {x}}] /\ \A y \in T \cup {x} : g[y] \in sets[y]
    BY DEF SelectionsOn
  <2> DEFINE h == [y \in T |-> g[y]]
  <2>2. h \in SelectionsOn(sets, T)
    BY <2>1 DEF SelectionsOn
  <2>3. <<g[x], h>> \in A
    BY <2>1, <2>2
  <2>4. join(<<g[x], h>>) = g
    BY <2>1
  <2> QED BY <2>3, <2>4
<1> HIDE DEF join
<1>4. f \in Bijection(A, B)
  <2>1. f \in [A -> B]
    BY <1>1
  <2>2. IsInjective(f)
    BY <1>2 DEF IsInjective
  <2>3. \A g \in B : \E p \in A : f[p] = g
    BY <1>3
  <2> HIDE DEF f, A, B
  <2> QED BY <2>1, <2>2, <2>3 DEF Bijection, Injection, Surjection
<1>5. /\ IsFiniteSet(A) /\ Cardinality(A) = Cardinality(sets[x]) * Cardinality(SelectionsOn(sets, T))
  BY FS_Product
<1> HIDE DEF A, B, f
<1>6. IsFiniteSet(B) /\ Cardinality(B) = Cardinality(A)
  BY <1>4, <1>5, FS_Bijection DEF ExistsBijection
<1> QED BY <1>5, <1>6 DEF B

\* There are as many choices as the product of the sets' sizes.
LEMMA SelectionsCount ==
    ASSUME NEW sets, IsFiniteSet(DOMAIN sets), \A x \in DOMAIN sets : IsFiniteSet(sets[x]),
           NEW c, \A x \in DOMAIN sets : c[x] = Cardinality(sets[x])
    PROVE  /\ IsFiniteSet(Selections(sets))
           /\ Cardinality(Selections(sets)) = ProductOn(c, DOMAIN sets)
<1> DEFINE S == DOMAIN sets
           A == {T \in SUBSET S : /\ IsFiniteSet(SelectionsOn(sets, T))
                                  /\ Cardinality(SelectionsOn(sets, T)) = ProductOn(c, T)}
<1>0. \A x \in S : c[x] = Cardinality(sets[x]) /\ c[x] \in Int
  BY FS_CardinalityType
<1>1. {} \in A
  <2> DEFINE none == [x \in {} |-> x]
  <2>1. SelectionsOn(sets, {}) = {none}
    BY DEF SelectionsOn
  <2> HIDE DEF none
  <2>2. IsFiniteSet({none}) /\ Cardinality({none}) = 1
    BY FS_Singleton
  <2> QED BY <2>1, <2>2, ProductOfNone
<1>2. ASSUME NEW T \in SUBSET S, NEW x \in S, T \in A, x \notin T PROVE T \cup {x} \in A
  <2>1. IsFiniteSet(T) /\ \A y \in T : c[y] \in Int
    BY <1>0, FS_Subset
  <2>2. ProductOn(c, T \cup {x}) = c[x] * ProductOn(c, T)
    BY <2>1, <1>0, <1>2, ProductTimesOne
  <2>3. IsFiniteSet(SelectionsOn(sets, T)) /\ Cardinality(SelectionsOn(sets, T)) = ProductOn(c, T)
    BY <1>2
  <2>4. /\ IsFiniteSet(SelectionsOn(sets, T \cup {x}))
        /\ Cardinality(SelectionsOn(sets, T \cup {x})) =
               Cardinality(sets[x]) * Cardinality(SelectionsOn(sets, T))
    BY <2>3, <1>2, OneMoreSelection
  <2> QED BY <2>2, <2>3, <2>4, <1>0
<1>3. \A T \in SUBSET S : T \in A
  <2> HIDE DEF A, S
  <2>1. IsFiniteSet(S)
    BY DEF S
  <2> QED BY <1>1, <1>2, <2>1, FiniteSetInduction
<1>4. S \in SUBSET S
  OBVIOUS
<1>5. S \in A
  BY <1>3, <1>4
<1>6. Selections(sets) = SelectionsOn(sets, S)
  BY DEF Selections, SelectionsOn
<1> QED BY <1>5, <1>6

\* A tuple has its places.
LEMMA AxisPlaces ==
    ASSUME NEW values, IsAxis(values)
    PROVE  /\ Len(values) \in Nat /\ DOMAIN values = 1..Len(values)
           /\ IsFiniteSet(DOMAIN values) /\ Cardinality(DOMAIN values) = Len(values)
           /\ \A n \in DOMAIN values : values[n] \in ToSet(values)
<1>1. Len(values) \in Nat /\ DOMAIN values = 1..Len(values)
  BY LenProperties DEF IsAxis
<1>2. IsFiniteSet(1..Len(values)) /\ Cardinality(1..Len(values)) = Len(values)
  <2>1. 1 \in Int /\ Len(values) \in Int
    BY <1>1
  <2>2. /\ IsFiniteSet(1..Len(values))
        /\ Cardinality(1..Len(values)) = IF 1 > Len(values) THEN 0 ELSE Len(values) - 1 + 1
    BY <2>1, FS_Interval
  <2>3. (IF 1 > Len(values) THEN 0 ELSE Len(values) - 1 + 1) = Len(values)
    BY <1>1, SMT
  <2> QED BY <2>2, <2>3
<1> QED BY <1>1, <1>2 DEF ToSet

\* The grids of an atom for a direction.
LEMMA EffectiveGrids ==
    ASSUME NEW atom, IsAtom(atom), NEW d \in {"BUY", "SELL"}
    PROVE  /\ IsGrids(Effective(atom, d))
           /\ DOMAIN Effective(atom, d) = DOMAIN atom.grids \cup DOMAIN atom.sides[d]
           /\ \A key \in DOMAIN Effective(atom, d) :
                  Effective(atom, d)[key] = IF key \in DOMAIN atom.grids THEN atom.grids[key]
                                            ELSE atom.sides[d][key]
<1> DEFINE g == atom.grids
           h == atom.sides[d]
           e == Effective(atom, d)
<1>1. IsGrids(g) /\ IsGrids(h)
  BY DEF IsAtom
<1>2. e = [key \in DOMAIN g \cup DOMAIN h |-> IF key \in DOMAIN g THEN g[key] ELSE h[key]]
  BY DEF Effective
<1> HIDE DEF g, h, e
<1>3. /\ DOMAIN e = DOMAIN g \cup DOMAIN h
      /\ \A key \in DOMAIN e : e[key] = IF key \in DOMAIN g THEN g[key] ELSE h[key]
  BY <1>2
<1>4. IsFiniteSet(DOMAIN e)
  BY <1>1, <1>3, FS_Union DEF IsGrids
<1>5. ASSUME NEW key \in DOMAIN e
      PROVE  /\ IsAxis(e[key])
             /\ key \in Decimals => \A v \in ToSet(e[key]) : IsDecimal(v)
  <2>1. CASE key \in DOMAIN g
    BY <1>1, <1>3, <2>1 DEF IsGrids
  <2>2. CASE key \notin DOMAIN g
    BY <1>1, <1>3, <2>2 DEF IsGrids
  <2> QED BY <2>1, <2>2
<1>6. IsGrids(e)
  BY <1>4, <1>5 DEF IsGrids
<1> QED BY <1>3, <1>6 DEF g, h, e

\* The atoms of a template.
LEMMA AtomsOfEntry ==
    ASSUME NEW entry, IsEntry(entry)
    PROVE  /\ Len(entry.confirmations) \in Nat
           /\ DOMAIN AtomsOf(entry) = 1..(1 + Len(entry.confirmations))
           /\ AtomsOf(entry)[1] = entry.base
           /\ \A n \in DOMAIN entry.confirmations : AtomsOf(entry)[1 + n] = entry.confirmations[n]
           /\ DOMAIN entry.confirmations = 1..Len(entry.confirmations)
           /\ \A n \in DOMAIN AtomsOf(entry) :
                  IsAtom(AtomsOf(entry)[n]) /\
                  (n # 1 => n - 1 \in DOMAIN entry.confirmations /\
                            AtomsOf(entry)[n] = entry.confirmations[n - 1])
<1> DEFINE b == entry.base
           c == entry.confirmations
           S == {b} \cup ToSet(c)
           k == Len(c)
           a == <<b>> \o c
<1>1. IsAtom(b) /\ IsAxis(c) /\ \A x \in ToSet(c) : IsAtom(x)
  BY DEF IsEntry
<1>2. k \in Nat /\ DOMAIN c = 1..k /\ \A n \in DOMAIN c : c[n] \in ToSet(c)
  BY <1>1, AxisPlaces
<1>3. <<b>> \in Seq(S) /\ Len(<<b>>) = 1 /\ <<b>>[1] = b
  <2>1. b \in S
    OBVIOUS
  <2> HIDE DEF S
  <2> QED BY <2>1
<1>4. c \in Seq(S)
  <2>1. ToSet(c) \subseteq S /\ c \in Seq(ToSet(c))
    BY <1>1 DEF IsAxis
  <2> HIDE DEF S
  <2> QED BY <2>1, SeqMonotonic
<1>5. /\ a \in Seq(S) /\ Len(a) = 1 + k
      /\ \A i \in 1..(1 + k) : a[i] = IF i <= 1 THEN <<b>>[i] ELSE c[i - 1]
  <2> HIDE DEF S
  <2>1. /\ a \in Seq(S) /\ Len(a) = Len(<<b>>) + Len(c)
        /\ \A i \in 1..(Len(<<b>>) + Len(c)) :
               a[i] = IF i <= Len(<<b>>) THEN <<b>>[i] ELSE c[i - Len(<<b>>)]
    BY <1>3, <1>4, ConcatProperties
  <2> QED BY <2>1, <1>3
<1> HIDE DEF a
<1>6. DOMAIN a = 1..(1 + k)
  BY <1>5, LenProperties
<1>7. a[1] = b
  <2>1. 1 \in 1..(1 + k) /\ 1 <= 1
    BY <1>2, SMT
  <2> QED BY <2>1, <1>3, <1>5
<1>8. \A n \in 1..(1 + k) : n # 1 => n - 1 \in 1..k /\ ~(n <= 1)
  BY <1>2, SMT
<1>9. \A n \in 1..k : 1 + n \in 1..(1 + k) /\ ~(1 + n <= 1) /\ (1 + n) - 1 = n
  BY <1>2, SMT
<1>10. \A n \in 1..k : a[1 + n] = c[n]
  BY <1>5, <1>9
<1>11. ASSUME NEW n \in 1..(1 + k), n # 1 PROVE n - 1 \in 1..k /\ a[n] = c[n - 1]
  BY <1>5, <1>8, <1>11
<1>12. ASSUME NEW n \in 1..(1 + k) PROVE IsAtom(a[n])
  <2>1. CASE n = 1
    BY <2>1, <1>7, <1>1
  <2>2. CASE n # 1
    BY <2>2, <1>11, <1>2, <1>1
  <2> QED BY <2>1, <2>2
<1>13. a = AtomsOf(entry)
  BY DEF a, AtomsOf
<1> QED BY <1>2, <1>6, <1>7, <1>10, <1>11, <1>12, <1>13

\* Every parameter of an atom takes a place of its grid.
LEMMA BindingsCount ==
    ASSUME NEW atom, IsAtom(atom), NEW d \in {"BUY", "SELL"}
    PROVE  /\ IsFiniteSet(Bindings(atom, d))
           /\ Cardinality(Bindings(atom, d)) = Product(Lengths(Effective(atom, d)))
<1> DEFINE e == Effective(atom, d)
           places == [key \in DOMAIN e |-> DOMAIN e[key]]
           c == Lengths(e)
<1>1. IsGrids(e)
  BY EffectiveGrids
<1> HIDE DEF e
<1>2. IsFiniteSet(DOMAIN e) /\ \A key \in DOMAIN e : /\ IsFiniteSet(DOMAIN e[key])
                                                    /\ Cardinality(DOMAIN e[key]) = Len(e[key])
  BY <1>1, AxisPlaces DEF IsGrids
<1>3. /\ DOMAIN places = DOMAIN e /\ DOMAIN c = DOMAIN e
      /\ \A key \in DOMAIN e : places[key] = DOMAIN e[key] /\ c[key] = Len(e[key])
  BY DEF Lengths
<1>4. Bindings(atom, d) = Selections(places)
  BY DEF Bindings, e
<1>5. Product(c) = ProductOn(c, DOMAIN e)
  BY <1>3 DEF Product, ProductOn, FoldFunction
<1> HIDE DEF places, c
<1>7. \A key \in DOMAIN places : IsFiniteSet(places[key]) /\ c[key] = Cardinality(places[key])
  BY <1>2, <1>3
<1>6. /\ IsFiniteSet(Selections(places))
      /\ Cardinality(Selections(places)) = ProductOn(c, DOMAIN places)
  BY <1>2, <1>3, <1>7, SelectionsCount
<1> QED BY <1>3, <1>4, <1>5, <1>6 DEF c, e

\* So does every atom of a template.
Axes(atoms, d) == [n \in DOMAIN atoms |-> Product(Lengths(Effective(atoms[n], d)))]

LEMMA AtomBindingsCount ==
    ASSUME NEW entry, IsEntry(entry), NEW d \in {"BUY", "SELL"}
    PROVE  /\ IsFiniteSet(AtomBindings(AtomsOf(entry), d))
           /\ Cardinality(AtomBindings(AtomsOf(entry), d)) = Product(Axes(AtomsOf(entry), d))
<1> DEFINE atoms == AtomsOf(entry)
           sets == [n \in DOMAIN atoms |-> Bindings(atoms[n], d)]
           c == Axes(atoms, d)
<1>1. \A n \in DOMAIN atoms : IsAtom(atoms[n])
  BY AtomsOfEntry
<1>2. IsFiniteSet(DOMAIN atoms)
  <2>1. Len(entry.confirmations) \in Nat /\ DOMAIN atoms = 1..(1 + Len(entry.confirmations))
    BY AtomsOfEntry
  <2>2. 1 \in Int /\ 1 + Len(entry.confirmations) \in Int
    BY <2>1
  <2> QED BY <2>1, <2>2, FS_Interval
<1> HIDE DEF atoms
<1>3. \A n \in DOMAIN atoms : /\ IsFiniteSet(Bindings(atoms[n], d))
                              /\ Cardinality(Bindings(atoms[n], d)) = c[n]
  BY <1>1, BindingsCount DEF Axes
<1>4. /\ DOMAIN sets = DOMAIN atoms /\ DOMAIN c = DOMAIN atoms
      /\ \A n \in DOMAIN atoms : sets[n] = Bindings(atoms[n], d)
  BY DEF Axes
<1>5. AtomBindings(atoms, d) = Selections(sets)
  BY DEF AtomBindings
<1>6. Product(c) = ProductOn(c, DOMAIN atoms)
  BY <1>4 DEF Product, ProductOn, FoldFunction
<1> HIDE DEF sets, c
<1>7. /\ IsFiniteSet(Selections(sets))
      /\ Cardinality(Selections(sets)) = ProductOn(c, DOMAIN sets)
  BY <1>2, <1>3, <1>4, SelectionsCount
<1> QED BY <1>4, <1>5, <1>6, <1>7 DEF c, atoms

\* How often each binding of a template is taken.
Multiplicity(s) == Len(s.timeframes) * Len(s.stops) * Len(s.targets) * Len(s.windows)

LEMMA GlobalsProduct ==
    ASSUME NEW s, IsSpace(s)
    PROVE  Product(Lengths(Globals(s))) = Multiplicity(s) /\ Multiplicity(s) \in Nat
<1> DEFINE f == Lengths(Globals(s))
           a == Len(s.timeframes)
           b == Len(s.stops)
           c == Len(s.targets)
           e == Len(s.windows)
<1>1. a \in Nat /\ b \in Nat /\ c \in Nat /\ e \in Nat
  BY AxisPlaces DEF IsSpace
<1>2. DOMAIN f = {1, 2, 3, 4} /\ f[1] = a /\ f[2] = b /\ f[3] = c /\ f[4] = e
  <2>1. /\ DOMAIN Globals(s) = 1..4
        /\ Globals(s)[1] = s.timeframes /\ Globals(s)[2] = s.stops
        /\ Globals(s)[3] = s.targets /\ Globals(s)[4] = s.windows
    BY DEF Globals
  <2>2. 1..4 = {1, 2, 3, 4}
    BY SMT
  <2> QED BY <2>1, <2>2 DEF Lengths
<1> HIDE DEF f, a, b, c, e
<1>3. f[1] \in Int /\ f[2] \in Int /\ f[3] \in Int /\ f[4] \in Int
  BY <1>1, <1>2
<1>4. ProductOn(f, {}) = 1
  BY ProductOfNone
<1>5. ProductOn(f, {1}) = a
  <2>1. ProductOn(f, {} \cup {1}) = f[1] * ProductOn(f, {})
    BY <1>3, FS_EmptySet, ProductTimesOne
  <2>2. {} \cup {1} = {1} /\ a * 1 = a
    BY <1>1
  <2> QED BY <2>1, <2>2, <1>2, <1>4
<1>6. ProductOn(f, {1, 2}) = b * a
  <2>1. IsFiniteSet({1})
    BY FS_Singleton
  <2>2. 2 \notin {1} /\ {1} \cup {2} = {1, 2}
    BY SMT
  <2>3. ProductOn(f, {1} \cup {2}) = f[2] * ProductOn(f, {1})
    BY <2>1, <2>2, <1>3, ProductTimesOne
  <2> QED BY <2>2, <2>3, <1>2, <1>5
<1>7. ProductOn(f, {1, 2, 3}) = c * (b * a)
  <2>1. IsFiniteSet({1}) /\ {1} \cup {2} = {1, 2} /\ 3 \notin {1, 2} /\ {1, 2} \cup {3} = {1, 2, 3}
    <3>1. IsFiniteSet({1})
      BY FS_Singleton
    <3>2. {1} \cup {2} = {1, 2} /\ 3 \notin {1, 2} /\ {1, 2} \cup {3} = {1, 2, 3}
      BY SMT
    <3> QED BY <3>1, <3>2
  <2>2. IsFiniteSet({1, 2})
    BY <2>1, FS_AddElement
  <2>3. ProductOn(f, {1, 2} \cup {3}) = f[3] * ProductOn(f, {1, 2})
    BY <2>1, <2>2, <1>3, ProductTimesOne
  <2> QED BY <2>1, <2>3, <1>2, <1>6
<1>8. ProductOn(f, {1, 2, 3, 4}) = e * (c * (b * a))
  <2>1. /\ IsFiniteSet({1}) /\ {1} \cup {2} = {1, 2} /\ {1, 2} \cup {3} = {1, 2, 3}
        /\ 4 \notin {1, 2, 3} /\ {1, 2, 3} \cup {4} = {1, 2, 3, 4}
    <3>1. IsFiniteSet({1})
      BY FS_Singleton
    <3>2. {1} \cup {2} = {1, 2}
      BY SMT
    <3>3. {1, 2} \cup {3} = {1, 2, 3}
      BY SMT
    <3>4. 4 \notin {1, 2, 3}
      BY SMT
    <3>5. {1, 2, 3} \cup {4} = {1, 2, 3, 4}
      BY SMT
    <3> QED BY <3>1, <3>2, <3>3, <3>4, <3>5
  <2>2. IsFiniteSet({1, 2}) /\ ({1, 2} \cup {3} = {1, 2, 3})
    BY <2>1, FS_AddElement
  <2>3. IsFiniteSet({1, 2, 3})
    BY <2>2, FS_AddElement
  <2>4. ProductOn(f, {1, 2, 3} \cup {4}) = f[4] * ProductOn(f, {1, 2, 3})
    BY <2>1, <2>3, <1>3, ProductTimesOne
  <2> QED BY <2>1, <2>4, <1>2, <1>7
<1>9. e * (c * (b * a)) = a * b * c * e /\ a * b * c * e \in Nat
  <2>1. a * b \in Nat /\ b * a = a * b
    BY <1>1, SMT
  <2>2. (a * b) * c \in Nat /\ c * (a * b) = (a * b) * c
    BY <1>1, <2>1, SMT
  <2>3. ((a * b) * c) * e \in Nat /\ e * ((a * b) * c) = ((a * b) * c) * e
    BY <1>1, <2>2, SMT
  <2> QED BY <2>1, <2>2, <2>3
<1>10. Product(f) = ProductOn(f, {1, 2, 3, 4})
  BY <1>2 DEF Product, ProductOn, FoldFunction
<1> QED BY <1>8, <1>9, <1>10 DEF Multiplicity, a, b, c, e, f

\* The combinations of five axes.
OfAxes(t, d, A, T, S, G, W) ==
    [template : {t}, direction : {d}, parameters : A, timeframe : T, stop : S, target : G, window : W]

LEMMA FiveAxes ==
    ASSUME NEW t, NEW d, NEW A, NEW T, NEW S, NEW G, NEW W,
           IsFiniteSet(A), IsFiniteSet(T), IsFiniteSet(S), IsFiniteSet(G), IsFiniteSet(W)
    PROVE  /\ IsFiniteSet(OfAxes(t, d, A, T, S, G, W))
           /\ Cardinality(OfAxes(t, d, A, T, S, G, W)) =
                  Cardinality(A) * Cardinality(T) * Cardinality(S) * Cardinality(G) * Cardinality(W)
<1> DEFINE R == [template : {t}, direction : {d}, parameters : A, timeframe : T, stop : S,
                 target : G, window : W]
           P == (((A \X T) \X S) \X G) \X W
           f == [r \in R |-> <<<<<<<<r.parameters, r.timeframe>>, r.stop>>, r.target>>, r.window>>]
           record(p) == [template |-> t, direction |-> d, parameters |-> p[1][1][1][1],
                         timeframe |-> p[1][1][1][2], stop |-> p[1][1][2], target |-> p[1][2],
                         window |-> p[2]]
<1>1. IsFiniteSet(A \X T) /\ Cardinality(A \X T) = Cardinality(A) * Cardinality(T)
  BY FS_Product
<1>2. /\ IsFiniteSet((A \X T) \X S)
      /\ Cardinality((A \X T) \X S) = Cardinality(A) * Cardinality(T) * Cardinality(S)
  BY <1>1, FS_Product
<1>3. /\ IsFiniteSet(((A \X T) \X S) \X G)
      /\ Cardinality(((A \X T) \X S) \X G) = Cardinality(A) * Cardinality(T) * Cardinality(S)
                                                 * Cardinality(G)
  BY <1>2, FS_Product
<1>4. /\ IsFiniteSet(P)
      /\ Cardinality(P) = Cardinality(A) * Cardinality(T) * Cardinality(S) * Cardinality(G)
                              * Cardinality(W)
  BY <1>3, FS_Product
<1>5. f \in [R -> P]
  OBVIOUS
<1>6. ASSUME NEW p \in P PROVE record(p) \in R /\ f[record(p)] = p
  <2>1. /\ p = <<p[1], p[2]>> /\ p[1] = <<p[1][1], p[1][2]>> /\ p[1][1] = <<p[1][1][1], p[1][1][2]>>
        /\ p[1][1][1] = <<p[1][1][1][1], p[1][1][1][2]>>
        /\ p[2] \in W /\ p[1][2] \in G /\ p[1][1][2] \in S /\ p[1][1][1][2] \in T
        /\ p[1][1][1][1] \in A
    OBVIOUS
  <2>2. record(p) \in R
    BY <2>1
  <2>3. f[record(p)] = <<<<<<<<p[1][1][1][1], p[1][1][1][2]>>, p[1][1][2]>>, p[1][2]>>, p[2]>>
    BY <2>2
  <2> QED BY <2>1, <2>2, <2>3
<1>7. ASSUME NEW r \in R PROVE r = record(f[r])
  OBVIOUS
<1>8. f \in Bijection(R, P)
  <2>1. IsInjective(f)
    <3> SUFFICES ASSUME NEW x \in R, NEW y \in R, f[x] = f[y] PROVE x = y
      BY DEF IsInjective
    <3>1. x = record(f[x]) /\ y = record(f[y])
      BY <1>7
    <3> HIDE DEF record, f
    <3> QED BY <3>1
  <2>2. \A p \in P : \E r \in R : f[r] = p
    BY <1>6
  <2> HIDE DEF f, R, P
  <2> QED BY <1>5, <2>1, <2>2 DEF Bijection, Injection, Surjection
<1> HIDE DEF f, P, R
<1>9. ExistsBijection(R, P) /\ ExistsBijection(P, R)
  BY <1>8, Fun_ExistsBijSymmetric DEF ExistsBijection
<1>10. IsFiniteSet(R) /\ Cardinality(R) = Cardinality(P)
  BY <1>4, <1>9, FS_Bijection
<1> QED BY <1>4, <1>10 DEF R, OfAxes

\* A pair of a template and a direction has as many combinations as it has
\* bindings, each as often as the grids of the space repeat it.
LEMMA CombinationsOfCount ==
    ASSUME NEW s, IsSpace(s), NEW p \in Pairs(s)
    PROVE  /\ IsEntry(s.templates[p[1]]) /\ s.directions[p[2]] \in {"BUY", "SELL"}
           /\ IsFiniteSet(CombinationsOf(s, p[1], p[2]))
           /\ Cardinality(CombinationsOf(s, p[1], p[2])) =
                  Multiplicity(s) * Product(Axes(AtomsOf(s.templates[p[1]]), s.directions[p[2]]))
<1> DEFINE t == p[1]
           d == p[2]
           entry == s.templates[t]
           direction == s.directions[d]
           A == AtomBindings(AtomsOf(entry), direction)
           T == DOMAIN s.timeframes
           S == DOMAIN s.stops
           G == DOMAIN s.targets
           W == DOMAIN s.windows
<1>1. t \in DOMAIN s.templates /\ d \in DOMAIN s.directions
  BY DEF Pairs
<1>2. IsEntry(entry) /\ direction \in {"BUY", "SELL"}
  <2>1. entry \in ToSet(s.templates) /\ direction \in ToSet(s.directions)
    BY <1>1 DEF ToSet
  <2> QED BY <2>1 DEF IsSpace
<1>3. IsFiniteSet(A) /\ Cardinality(A) = Product(Axes(AtomsOf(entry), direction))
  BY <1>2, AtomBindingsCount
<1>4. /\ IsFiniteSet(T) /\ Cardinality(T) = Len(s.timeframes) /\ Len(s.timeframes) \in Nat
      /\ IsFiniteSet(S) /\ Cardinality(S) = Len(s.stops) /\ Len(s.stops) \in Nat
      /\ IsFiniteSet(G) /\ Cardinality(G) = Len(s.targets) /\ Len(s.targets) \in Nat
      /\ IsFiniteSet(W) /\ Cardinality(W) = Len(s.windows) /\ Len(s.windows) \in Nat
  BY AxisPlaces DEF IsSpace
<1>5. CombinationsOf(s, t, d) = OfAxes(t, d, A, T, S, G, W)
  BY DEF CombinationsOf, OfAxes
<1>6. Cardinality(A) \in Nat
  BY <1>3, FS_CardinalityType
<1> HIDE DEF A, T, S, G, W
<1>7. /\ IsFiniteSet(CombinationsOf(s, t, d))
      /\ Cardinality(CombinationsOf(s, t, d)) =
             Cardinality(A) * Cardinality(T) * Cardinality(S) * Cardinality(G) * Cardinality(W)
  BY <1>3, <1>4, <1>5, FiveAxes
<1> DEFINE m == Cardinality(A)
           x == Len(s.timeframes)
           y == Len(s.stops)
           z == Len(s.targets)
           w == Len(s.windows)
<1>8. m * x * y * z * w = (x * y * z * w) * m
  <2>1. m \in Nat /\ x \in Nat /\ y \in Nat /\ z \in Nat /\ w \in Nat
    BY <1>4, <1>6
  <2> HIDE DEF m, x, y, z, w
  <2>2. x * y \in Nat /\ m * x \in Nat /\ (m * x) * y = m * (x * y)
    BY <2>1, SMT
  <2>3. (x * y) * z \in Nat /\ (m * (x * y)) * z = m * ((x * y) * z)
    BY <2>1, <2>2, SMT
  <2>4. (m * ((x * y) * z)) * w = m * (((x * y) * z) * w) /\ ((x * y) * z) * w \in Nat
    BY <2>1, <2>3, SMT
  <2>5. m * (((x * y) * z) * w) = (((x * y) * z) * w) * m
    BY <2>1, <2>4, SMT
  <2> QED BY <2>2, <2>3, <2>4, <2>5
<1> QED BY <1>2, <1>3, <1>4, <1>7, <1>8 DEF Multiplicity

LEMMA PairsFinite ==
    ASSUME NEW s, IsSpace(s)
    PROVE  IsFiniteSet(Pairs(s))
<1>1. IsFiniteSet(DOMAIN s.templates) /\ IsFiniteSet(DOMAIN s.directions)
  BY AxisPlaces DEF IsSpace
<1> QED BY <1>1, FS_Product DEF Pairs

\* The analytic count is the number of combinations.
LEMMA CombinationsCount ==
    ASSUME NEW s, IsSpace(s)
    PROVE  /\ IsFiniteSet(Combinations(s))
           /\ Cardinality(Combinations(s)) = Theoretical(s)
<1> DEFINE f == [p \in Pairs(s) |-> CombinationsOf(s, p[1], p[2])]
           c == [p \in Pairs(s) |-> Product(Lengths(Globals(s))) *
                        Product(Axes(AtomsOf(s.templates[p[1]]), s.directions[p[2]]))]
<1>1. \A p \in Pairs(s) : IsFiniteSet(f[p]) /\ c[p] = Cardinality(f[p])
  BY CombinationsOfCount, GlobalsProduct
<1>2. \A p, q \in Pairs(s) : p # q => f[p] \cap f[q] = {}
  <2> SUFFICES ASSUME NEW p \in Pairs(s), NEW q \in Pairs(s), NEW x \in f[p], x \in f[q]
               PROVE  p = q
    OBVIOUS
  <2>1. x.template = p[1] /\ x.direction = p[2] /\ x.template = q[1] /\ x.direction = q[2]
    BY DEF CombinationsOf
  <2>2. p = <<p[1], p[2]>> /\ q = <<q[1], q[2]>>
    BY DEF Pairs
  <2> QED BY <2>1, <2>2
<1>3. DOMAIN f = Pairs(s) /\ DOMAIN c = Pairs(s)
  OBVIOUS
<1>4. Combinations(s) = UNION {f[p] : p \in Pairs(s)}
  BY DEF Combinations
<1>5. Theoretical(s) = SumFunction(c)
  BY DEF Theoretical, Axes
<1>6. c = [p \in Pairs(s) |-> Cardinality(f[p])]
  BY <1>1
<1> HIDE DEF f, c
<1>7. /\ IsFiniteSet(UNION {f[p] : p \in Pairs(s)})
      /\ Cardinality(UNION {f[p] : p \in Pairs(s)}) =
             SumFunctionOnSet([p \in Pairs(s) |-> Cardinality(f[p])], Pairs(s))
  BY <1>1, <1>2, PairsFinite, UnionCount
<1>8. SumFunction(c) = SumFunctionOnSet(c, Pairs(s))
  BY <1>3 DEF SumFunction, SumFunctionOnSet, FoldFunction
<1> QED BY <1>4, <1>5, <1>6, <1>7, <1>8

(***************************************************************************)
(* The counts of an expansion.                                             *)
(***************************************************************************)
\* The candidates of some combinations of a space.
Kept(s, C) == {Identity(Built(s, c)) : c \in {d \in C : Rejection(Built(s, d)) = "NONE"}}

\* Periods in the wrong order.
ShortPair(s, c) == Rejection(Built(s, c)) = "SHORT_PERIOD_NOT_LESS_THAN_LONG"

\* The tables, and what has been counted in them.
TablesCounted ==
    /\ space \in Spaces
    /\ total \in Nat /\ duplicates \in Nat /\ unique \in Nat /\ rejected \in [Reasons -> Nat]
    /\ IsFiniteSet(candidates) /\ unique = Cardinality(candidates)
    /\ IsFiniteSet(DOMAIN provenance) /\ \A key \in DOMAIN provenance : provenance[key] \in Nat
    /\ {key[1] : key \in DOMAIN provenance} = candidates
    /\ SumFunction(provenance) = duplicates + unique

\* What is pending, and what the combinations that are not have become.
ExpansionCounted ==
    /\ Valid(space)
    /\ pending \subseteq Combinations(space)
    /\ \A c \in pending : ShortPair(space, c) => SamePair(c) \subseteq pending
    /\ total = Cardinality(pending) + AllRejected + duplicates + unique
    /\ candidates = Kept(space, Combinations(space) \ pending)

Expanded == {"expand", "done", "over budget"}

\* The inductive invariant of an expansion.
SpaceInv ==
    /\ TablesCounted
    /\ phase \in {"validate", "invalid", "expansion limit"} \cup Expanded
    /\ phase = "validate" => Tables
    /\ phase \in Expanded => ExpansionCounted
    /\ phase \notin Expanded => candidates = {}
    /\ phase \in {"done", "over budget"} => pending = {}

LEMMA SpaceIs ==
    ASSUME space \in Spaces
    PROVE  IsSpace(space)
  BY SpacesAssumption

LEMMA RejectionIs ==
    ASSUME NEW b
    PROVE  Rejection(b) \in Reasons \cup {"NONE"}
  BY DEF Rejection, Reasons

\* Combinations that differ in the values of the space only are one pair of periods.
LEMMA SamePairCount ==
    ASSUME IsSpace(space), NEW c \in Combinations(space)
    PROVE  /\ c \in SamePair(c) /\ SamePair(c) \subseteq Combinations(space)
           /\ IsFiniteSet(SamePair(c)) /\ Cardinality(SamePair(c)) = Multiplicity(space)
<1> DEFINE T == DOMAIN space.timeframes
           S == DOMAIN space.stops
           G == DOMAIN space.targets
           W == DOMAIN space.windows
           R == OfAxes(c.template, c.direction, {c.parameters}, T, S, G, W)
<1>1. PICK p \in Pairs(space) : c \in CombinationsOf(space, p[1], p[2])
  BY DEF Combinations
<1> DEFINE A == AtomBindings(AtomsOf(space.templates[p[1]]), space.directions[p[2]])
<1>2. /\ c.template = p[1] /\ c.direction = p[2] /\ c.parameters \in A
  BY <1>1 DEF CombinationsOf
<1> HIDE DEF A
<1>3. SamePair(c) \subseteq R
  <2> SUFFICES ASSUME NEW e \in SamePair(c) PROVE e \in R
    OBVIOUS
  <2>1. e \in Combinations(space) /\ e.template = c.template /\ e.direction = c.direction
        /\ e.parameters = c.parameters
    BY DEF SamePair
  <2>2. PICK q \in Pairs(space) : e \in CombinationsOf(space, q[1], q[2])
    BY <2>1 DEF Combinations
  <2> DEFINE B == AtomBindings(AtomsOf(space.templates[q[1]]), space.directions[q[2]])
  <2>3. e \in [template : {q[1]}, direction : {q[2]}, parameters : B, timeframe : T, stop : S,
               target : G, window : W]
    BY <2>2 DEF CombinationsOf
  <2> HIDE DEF B, T, S, G, W
  <2>4. e \in [template : {c.template}, direction : {c.direction}, parameters : {c.parameters},
               timeframe : T, stop : S, target : G, window : W]
    BY <2>1, <2>3
  <2> QED BY <2>4 DEF OfAxes
<1>4. R \subseteq SamePair(c)
  <2> SUFFICES ASSUME NEW e \in R PROVE e \in SamePair(c)
    OBVIOUS
  <2>1. e \in [template : {p[1]}, direction : {p[2]}, parameters : A, timeframe : T, stop : S,
               target : G, window : W]
    <3> HIDE DEF T, S, G, W
    <3> QED BY <1>2 DEF OfAxes, R
  <2>2. e.template = c.template /\ e.direction = c.direction /\ e.parameters = c.parameters
    <3> HIDE DEF T, S, G, W
    <3> QED BY DEF OfAxes
  <2>3. e \in CombinationsOf(space, p[1], p[2])
    BY <2>1 DEF CombinationsOf, A
  <2> QED BY <2>2, <2>3 DEF SamePair, Combinations
<1>5. SamePair(c) = R
  BY <1>3, <1>4
<1>6. /\ IsFiniteSet(T) /\ Cardinality(T) = Len(space.timeframes) /\ Len(space.timeframes) \in Nat
      /\ IsFiniteSet(S) /\ Cardinality(S) = Len(space.stops) /\ Len(space.stops) \in Nat
      /\ IsFiniteSet(G) /\ Cardinality(G) = Len(space.targets) /\ Len(space.targets) \in Nat
      /\ IsFiniteSet(W) /\ Cardinality(W) = Len(space.windows) /\ Len(space.windows) \in Nat
  BY AxisPlaces DEF IsSpace
<1>7. IsFiniteSet({c.parameters}) /\ Cardinality({c.parameters}) = 1
  BY FS_Singleton
<1>8. /\ IsFiniteSet(R)
      /\ Cardinality(R) = Cardinality({c.parameters}) * Cardinality(T) * Cardinality(S)
                              * Cardinality(G) * Cardinality(W)
  <2> DEFINE Q == {c.parameters}
             t == c.template
             d == c.direction
  <2>1. IsFiniteSet(Q) /\ IsFiniteSet(T) /\ IsFiniteSet(S) /\ IsFiniteSet(G) /\ IsFiniteSet(W)
    BY <1>6, <1>7
  <2> HIDE DEF T, S, G, W, Q, t, d
  <2>2. /\ IsFiniteSet(OfAxes(t, d, Q, T, S, G, W))
        /\ Cardinality(OfAxes(t, d, Q, T, S, G, W)) =
               Cardinality(Q) * Cardinality(T) * Cardinality(S) * Cardinality(G) * Cardinality(W)
    BY <2>1, FiveAxes
  <2> QED BY <2>2 DEF Q, t, d
<1>9. 1 * Len(space.timeframes) = Len(space.timeframes)
  BY <1>6
<1>10. c \in SamePair(c)
  BY DEF SamePair
<1> HIDE DEF R
<1> QED BY <1>5, <1>6, <1>7, <1>8, <1>9, <1>10 DEF Multiplicity, SamePair

\* Whether the periods are in order is the same for all of a pair.
LEMMA SamePairSameRejection ==
    ASSUME NEW c \in Combinations(space), NEW e \in SamePair(c), ShortPair(space, c)
    PROVE  ShortPair(space, e)
<1> DEFINE b == Built(space, c)
           d == Built(space, e)
<1>1. e.template = c.template /\ e.direction = c.direction /\ e.parameters = c.parameters
  BY DEF SamePair
<1>2. b.entry = d.entry /\ b.parameters = d.parameters
  BY <1>1 DEF Built
<1> HIDE DEF b, d
<1>3. /\ b.entry.base.kind = "trend_pair"
      /\ b.parameters[1].short_period >= b.parameters[1].long_period
  <2>1. Rejection(b) = "SHORT_PERIOD_NOT_LESS_THAN_LONG"
    BY DEF ShortPair, b
  <2> QED BY <2>1 DEF Rejection
<1>4. Rejection(d) = "SHORT_PERIOD_NOT_LESS_THAN_LONG"
  BY <1>2, <1>3 DEF Rejection
<1> QED BY <1>4 DEF ShortPair, d

LEMMA ReasonsFinite == IsFiniteSet(Reasons)
<1>1. IsFiniteSet({"SHORT_PERIOD_NOT_LESS_THAN_LONG"})
  BY FS_Singleton
<1>2. IsFiniteSet({"SHORT_PERIOD_NOT_LESS_THAN_LONG"} \cup {"MAX_FEATURES"})
  BY <1>1, FS_AddElement
<1>3. IsFiniteSet({"SHORT_PERIOD_NOT_LESS_THAN_LONG"} \cup {"MAX_FEATURES"} \cup {"CONTRADICTION"})
  BY <1>2, FS_AddElement
<1>4. Reasons = {"SHORT_PERIOD_NOT_LESS_THAN_LONG"} \cup {"MAX_FEATURES"} \cup {"CONTRADICTION"}
  BY DEF Reasons
<1> QED BY <1>3, <1>4

\* One more combination rejected is one more in the sum.
LEMMA RejectionsAddUp ==
    ASSUME NEW f, NEW g, DOMAIN f = Reasons, DOMAIN g = Reasons, \A r \in Reasons : f[r] \in Nat,
           NEW reason \in Reasons, NEW k \in Nat, g[reason] = f[reason] + k,
           \A r \in Reasons \ {reason} : g[r] = f[r]
    PROVE  SumFunction(g) = SumFunction(f) + k /\ SumFunction(f) \in Nat
<1>1. /\ SumFunction(f) = SumFunctionOnSet(f, Reasons) /\ SumFunction(g) = SumFunctionOnSet(g, Reasons)
  BY DEF SumFunction
<1>2. (\A r \in Reasons : f[r] \in Int) /\ g[reason] \in Int /\ f[reason] \in Nat
  OBVIOUS
<1>3. SumFunctionOnSet(g, Reasons) = SumFunctionOnSet(f, Reasons) + (g[reason] - f[reason])
  BY <1>2, ReasonsFinite, SumChanged
<1>4. SumFunctionOnSet(f, Reasons) \in Nat
  BY ReasonsFinite, SumOfNaturals
<1> QED BY <1>1, <1>2, <1>3, <1>4

\* The first state, before anything is counted.
LEMMA SpaceInvInit ==
    ASSUME SpaceInit
    PROVE  SpaceInv
<1>1. /\ space \in Spaces /\ phase = "validate" /\ total = 0 /\ pending = {} /\ duplicates = 0
      /\ unique = 0 /\ candidates = {}
  BY DEF SpaceInit, Tables
<1>2. rejected \in [Reasons -> Nat]
  BY DEF SpaceInit, Tables
<1>3. provenance = [x \in {} |-> 0]
  BY DEF SpaceInit, Tables
<1>4. DOMAIN provenance = {} /\ {key[1] : key \in DOMAIN provenance} = {}
  BY <1>3
<1>5. SumFunction(provenance) = 0
  BY <1>4, SumOfNone DEF SumFunction
<1>6. IsFiniteSet(candidates) /\ Cardinality(candidates) = 0 /\ IsFiniteSet(DOMAIN provenance)
  BY <1>1, <1>4, FS_EmptySet
<1>7. TablesCounted
  BY <1>1, <1>2, <1>4, <1>5, <1>6 DEF TablesCounted
<1>8. Tables
  BY DEF SpaceInit
<1> QED BY <1>1, <1>7, <1>8 DEF SpaceInv, Expanded

\* The tables stay counted when nothing is added to them.
LEMMA TablesKept ==
    ASSUME TablesCounted, total' \in Nat, rejected' \in [Reasons -> Nat],
           UNCHANGED <<space, duplicates, unique, candidates, provenance>>
    PROVE  TablesCounted'
  BY DEF TablesCounted

LEMMA ValidateKeepsSpaceInv ==
    ASSUME SpaceInv, Validate
    PROVE  SpaceInv'
<1>1. /\ phase = "validate" /\ Tables /\ TablesCounted /\ candidates = {}
      /\ UNCHANGED <<space, rejected, duplicates, unique, candidates, provenance>>
  BY DEF SpaceInv, Validate, Tables
<1>2. space \in Spaces /\ IsSpace(space)
  BY <1>1, SpaceIs DEF TablesCounted
<1>3. IsFiniteSet(Combinations(space)) /\ Cardinality(Combinations(space)) = Theoretical(space)
  BY <1>2, CombinationsCount
<1>4. Theoretical(space) \in Nat
  BY <1>3, FS_CardinalityType
<1>5. rejected \in [Reasons -> Nat] /\ total \in Nat
  BY <1>1 DEF TablesCounted
<1>6. CASE Valid(space)
  <2>1. total' = Theoretical(space)
    BY <1>6 DEF Validate
  <2>2. TablesCounted'
    BY <1>1, <1>4, <1>5, <2>1, TablesKept
  <2>3. CASE total' > Policy.expansion_limit
    <3>1. phase' = "expansion limit"
      BY <1>6, <2>3 DEF Validate
    <3> QED BY <1>1, <2>2, <3>1 DEF SpaceInv, Expanded
  <2>4. CASE ~(total' > Policy.expansion_limit)
    <3>1. phase' = "expand" /\ pending' = Combinations(space)
      BY <1>6, <2>4 DEF Validate
    <3>2. rejected' = [r \in Reasons |-> 0] /\ duplicates' = 0 /\ unique' = 0
      BY <1>1 DEF Tables
    <3>3. SumFunction(rejected') = 0
      <4>1. DOMAIN rejected' = Reasons /\ \A r \in Reasons : rejected'[r] = 0
        BY <3>2
      <4>2. SumFunctionOnSet(rejected', Reasons) = 0
        <5> DEFINE f == rejected'
        <5> HIDE DEF f
        <5>1. \A r \in Reasons : f[r] = 0
          BY <4>1 DEF f
        <5>2. SumFunctionOnSet(f, Reasons) = 0
          BY <5>1, ReasonsFinite, SumOfZeros
        <5> QED BY <5>2 DEF f
      <4> QED BY <4>1, <4>2 DEF SumFunction
    <3>4. total' = Cardinality(pending') + AllRejected' + duplicates' + unique'
      BY <1>3, <1>4, <2>1, <3>1, <3>2, <3>3 DEF AllRejected
    <3>5. \A c \in pending' : SamePair(c)' \subseteq pending'
      BY <1>1, <3>1 DEF SamePair
    <3>6. candidates' = Kept(space', Combinations(space') \ pending')
      BY <1>1, <3>1 DEF Kept
    <3>7. ExpansionCounted'
      BY <1>1, <1>6, <3>1, <3>4, <3>5, <3>6 DEF ExpansionCounted
    <3> QED BY <2>2, <3>1, <3>7 DEF SpaceInv, Expanded
  <2> QED BY <2>3, <2>4
<1>7. CASE ~Valid(space)
  <2>1. phase' = "invalid" /\ UNCHANGED <<total, pending>>
    BY <1>7 DEF Validate
  <2>2. TablesCounted'
    BY <1>1, <1>5, <2>1, TablesKept
  <2> QED BY <1>1, <2>1, <2>2 DEF SpaceInv, Expanded
<1> QED BY <1>6, <1>7

LEMMA CloseKeepsSpaceInv ==
    ASSUME SpaceInv, Close
    PROVE  SpaceInv'
<1>1. /\ phase = "expand" /\ pending = {} /\ TablesCounted /\ ExpansionCounted
      /\ UNCHANGED <<space, total, pending, rejected, duplicates, unique, candidates, provenance>>
  BY DEF SpaceInv, Close, Expanded
<1>2. total = Cardinality(pending) + AllRejected + duplicates + unique /\ Cardinality(pending) = 0
  BY <1>1, FS_EmptySet DEF ExpansionCounted
<1>3. AllRejected \in Nat /\ duplicates \in Nat /\ unique \in Nat
  <2>1. rejected \in [Reasons -> Nat]
    BY <1>1 DEF TablesCounted
  <2>2. SumFunctionOnSet(rejected, Reasons) \in Nat
    BY <2>1, ReasonsFinite, SumOfNaturals
  <2> QED BY <1>1, <2>1, <2>2 DEF AllRejected, SumFunction, TablesCounted
<1>4. total = AllRejected + duplicates + unique
  BY <1>2, <1>3
<1>5. phase' \in {"over budget", "done"}
  BY <1>4 DEF Close
<1>6. TablesCounted'
  BY <1>1 DEF TablesCounted
<1>7. ExpansionCounted'
  BY <1>1 DEF ExpansionCounted, AllRejected, SamePair
<1> QED BY <1>1, <1>5, <1>6, <1>7 DEF SpaceInv, Expanded

\* Removing combinations that are rejected loses no candidate.
LEMMA KeptWithoutRejected ==
    ASSUME NEW s, NEW D, NEW E, D \subseteq E, \A e \in E \ D : Rejection(Built(s, e)) # "NONE"
    PROVE  Kept(s, E) = Kept(s, D)
<1> DEFINE ok(F) == {d \in F : Rejection(Built(s, d)) = "NONE"}
<1>1. ok(E) = ok(D)
  OBVIOUS
<1> QED BY <1>1 DEF Kept

\* Keeping a combination adds its identity.
LEMMA KeptWithOneMore ==
    ASSUME NEW s, NEW D, NEW c, Rejection(Built(s, c)) = "NONE", NEW E, E = D \cup {c}
    PROVE  Kept(s, E) = Kept(s, D) \cup {Identity(Built(s, c))}
<1> DEFINE ok(F) == {d \in F : Rejection(Built(s, d)) = "NONE"}
           at(d) == Identity(Built(s, d))
<1>1. ok(E) = ok(D) \cup {c}
  OBVIOUS
<1>2. /\ Kept(s, E) = {at(d) : d \in ok(E)}
      /\ Kept(s, D) = {at(d) : d \in ok(D)}
  BY DEF Kept
<1> HIDE DEF ok, at
<1> QED BY <1>1, <1>2 DEF at

\* Rejected combinations leave the pending ones.
LEMMA RejectKeepsSpaceInv ==
    ASSUME SpaceInv, phase = "expand", NEW c \in pending, Reject(c, Rejection(Built(space, c))),
           UNCHANGED <<space, phase, total>>
    PROVE  SpaceInv'
<1> DEFINE b == Built(space, c)
           reason == Rejection(b)
           X == IF reason = "SHORT_PERIOD_NOT_LESS_THAN_LONG" THEN SamePair(c) ELSE {c}
           k == RejectedBy(c, reason)
<1>1. TablesCounted /\ ExpansionCounted
  BY DEF SpaceInv, Expanded
<1>2. /\ pending \subseteq Combinations(space) /\ c \in Combinations(space)
      /\ \A e \in pending : ShortPair(space, e) => SamePair(e) \subseteq pending
      /\ total = Cardinality(pending) + AllRejected + duplicates + unique
      /\ candidates = Kept(space, Combinations(space) \ pending)
      /\ rejected \in [Reasons -> Nat] /\ total \in Nat /\ duplicates \in Nat /\ unique \in Nat
  BY <1>1 DEF TablesCounted, ExpansionCounted
<1>3. IsSpace(space)
  BY <1>1, SpaceIs DEF TablesCounted
<1>4. IsFiniteSet(pending)
  BY <1>2, <1>3, CombinationsCount, FS_Subset
<1>5. /\ reason \in Reasons
      /\ rejected' = [rejected EXCEPT ![reason] = @ + k] /\ pending' = pending \ X
      /\ UNCHANGED <<duplicates, unique, candidates, provenance>>
  <2>1. reason # "NONE"
    BY DEF Reject
  <2>2. reason \in Reasons \cup {"NONE"}
    BY RejectionIs
  <2> QED BY <2>1, <2>2 DEF Reject
<1>6. /\ X \subseteq pending /\ IsFiniteSet(X) /\ Cardinality(X) = k /\ k \in Nat
      /\ \A e \in X : Rejection(Built(space, e)) # "NONE"
      /\ \A e \in pending \ X : ShortPair(space, e) => SamePair(e) \cap X = {}
  <2>1. CASE reason = "SHORT_PERIOD_NOT_LESS_THAN_LONG"
    <3>1. ShortPair(space, c)
      BY <2>1 DEF ShortPair
    <3>2. X = SamePair(c) /\ k = Multiplicity(space)
      BY <2>1 DEF RejectedBy, Multiplicity
    <3>3. IsFiniteSet(X) /\ Cardinality(X) = k /\ X \subseteq pending /\ c \in SamePair(c)
      BY <1>2, <1>3, <3>1, <3>2, SamePairCount
    <3>4. \A e \in X : Rejection(Built(space, e)) # "NONE"
      <4> TAKE e \in X
      <4>1. ShortPair(space, e)
        BY <1>2, <3>1, <3>2, SamePairSameRejection
      <4> QED BY <4>1 DEF ShortPair
    <3>5. \A e \in pending \ X : SamePair(e) \cap X = {}
      <4> SUFFICES ASSUME NEW e \in pending \ X, NEW x \in SamePair(e), x \in X PROVE FALSE
        OBVIOUS
      <4>1. /\ x \in SamePair(c) /\ e \in Combinations(space)
        BY <1>2, <3>2
      <4>2. /\ x.template = c.template /\ x.direction = c.direction /\ x.parameters = c.parameters
            /\ x.template = e.template /\ x.direction = e.direction /\ x.parameters = e.parameters
        BY <4>1 DEF SamePair
      <4>3. e \in SamePair(c)
        BY <4>1, <4>2 DEF SamePair
      <4> QED BY <4>3, <3>2
    <3>6. k \in Nat
      BY <1>3, <3>2, GlobalsProduct
    <3> QED BY <3>3, <3>4, <3>5, <3>6
  <2>2. CASE reason # "SHORT_PERIOD_NOT_LESS_THAN_LONG"
    <3>1. X = {c} /\ k = 1
      BY <2>2 DEF RejectedBy
    <3>2. IsFiniteSet(X) /\ Cardinality(X) = 1
      BY <3>1, FS_Singleton
    <3>3. \A e \in X : Rejection(Built(space, e)) # "NONE"
      BY <3>1 DEF Reject
    <3>4. \A e \in pending : ShortPair(space, e) => c \notin SamePair(e)
      <4> SUFFICES ASSUME NEW e \in pending, ShortPair(space, e), c \in SamePair(e) PROVE FALSE
        OBVIOUS
      <4>1. e \in Combinations(space)
        BY <1>2
      <4>2. ShortPair(space, c)
        BY <4>1, SamePairSameRejection
      <4> QED BY <2>2, <4>2 DEF ShortPair
    <3>5. \A e \in pending \ X : ShortPair(space, e) => SamePair(e) \cap X = {}
      BY <3>1, <3>4
    <3> QED BY <3>1, <3>2, <3>3, <3>5
  <2> QED BY <2>1, <2>2
<1> HIDE DEF X, k, reason
<1>7. pending' \subseteq pending /\ Cardinality(pending') + k = Cardinality(pending)
      /\ Cardinality(pending') \in Nat
  <2>1. IsFiniteSet(pending') /\ pending' = pending \ X
    BY <1>4, <1>5, FS_Subset
  <2>2. Cardinality(pending \ X) = Cardinality(pending) - Cardinality(pending \cap X)
    BY <1>4, FS_Difference
  <2>3. pending \cap X = X
    BY <1>6
  <2>4. Cardinality(pending) \in Nat /\ Cardinality(pending') \in Nat
    BY <1>4, <2>1, FS_CardinalityType
  <2> QED BY <1>6, <2>1, <2>2, <2>3, <2>4
<1>8. rejected' \in [Reasons -> Nat] /\ AllRejected' = AllRejected + k /\ AllRejected \in Nat
  <2> DEFINE f == rejected
             g == rejected'
  <2>1. /\ DOMAIN f = Reasons /\ DOMAIN g = Reasons /\ \A r \in Reasons : f[r] \in Nat
        /\ reason \in Reasons /\ k \in Nat /\ g[reason] = f[reason] + k
        /\ \A r \in Reasons \ {reason} : g[r] = f[r]
    BY <1>2, <1>5, <1>6
  <2>2. rejected' \in [Reasons -> Nat]
    BY <1>2, <1>5, <1>6
  <2> HIDE DEF f, g
  <2>3. SumFunction(g) = SumFunction(f) + k /\ SumFunction(f) \in Nat
    BY <2>1, RejectionsAddUp
  <2> QED BY <2>2, <2>3 DEF f, g, AllRejected
<1>9. TablesCounted'
  BY <1>1, <1>2, <1>5, <1>8, TablesKept
<1>10. ExpansionCounted'
  <2>1. Valid(space') /\ pending' \subseteq Combinations(space')
    BY <1>1, <1>2, <1>7 DEF ExpansionCounted
  <2>2. total' = Cardinality(pending') + AllRejected' + duplicates' + unique'
    <3> DEFINE u == Cardinality(pending)
               v == Cardinality(pending')
               a == AllRejected
               z == AllRejected'
    <3>1. /\ total = u + a + duplicates + unique /\ v + k = u /\ z = a + k
          /\ UNCHANGED <<total, duplicates, unique>>
      BY <1>2, <1>5, <1>7, <1>8
    <3>2. v \in Nat /\ a \in Nat /\ k \in Nat /\ duplicates \in Nat /\ unique \in Nat
      BY <1>2, <1>6, <1>7, <1>8
    <3> HIDE DEF u, v, a, z
    <3>3. total = v + z + duplicates + unique
      BY <3>1, <3>2
    <3> QED BY <3>1, <3>3 DEF v, z
  <2>3. candidates' = Kept(space', Combinations(space') \ pending')
    <3> DEFINE D == Combinations(space) \ pending
               E == Combinations(space) \ pending'
    <3>1. D \subseteq E /\ \A e \in E \ D : Rejection(Built(space, e)) # "NONE"
      BY <1>5, <1>6
    <3>2. candidates = Kept(space, D) /\ candidates' = candidates
          /\ Combinations(space') \ pending' = E /\ space' = space
      BY <1>2, <1>5
    <3> HIDE DEF D, E
    <3>3. Kept(space, E) = Kept(space, D)
      BY <3>1, KeptWithoutRejected
    <3> QED BY <3>2, <3>3
  <2>4. \A e \in pending' : ShortPair(space', e) => SamePair(e)' \subseteq pending'
    <3>1. \A e \in pending' : ShortPair(space, e) => SamePair(e) \subseteq pending'
      BY <1>2, <1>5, <1>6
    <3>2. \A e : SamePair(e)' = SamePair(e)
      BY DEF SamePair
    <3> QED BY <3>1, <3>2
  <2> QED BY <2>1, <2>2, <2>3, <2>4 DEF ExpansionCounted
<1> QED BY <1>9, <1>10 DEF SpaceInv, Expanded

\* One more origin of a candidate is one more in the provenance.
LEMMA OriginAdded ==
    ASSUME TablesCounted, NEW key,
           provenance' = [k \in DOMAIN provenance \cup {key} |-> Times(k) + IF k = key THEN 1 ELSE 0]
    PROVE  /\ DOMAIN provenance' = DOMAIN provenance \cup {key} /\ IsFiniteSet(DOMAIN provenance')
           /\ \A k \in DOMAIN provenance' : provenance'[k] \in Nat
           /\ SumFunction(provenance') = SumFunction(provenance) + 1
<1> DEFINE f == provenance
           g == provenance'
           D == DOMAIN provenance
           h == [k \in D \cup {key} |-> IF k \in D THEN f[k] ELSE 0]
<1>1. IsFiniteSet(D) /\ \A k \in D : f[k] \in Nat
  BY DEF TablesCounted
<1>2. DOMAIN g = D \cup {key}
  OBVIOUS
<1>3. /\ \A k \in D \cup {key} : h[k] = IF k \in D THEN f[k] ELSE 0
      /\ \A k \in D \cup {key} : g[k] = h[k] + IF k = key THEN 1 ELSE 0
  BY DEF Times
<1>4. SumFunction(f) = SumFunctionOnSet(f, D) /\ SumFunction(g) = SumFunctionOnSet(g, D \cup {key})
  BY <1>2 DEF SumFunction
<1> HIDE DEF f, g, D, h
<1>5. IsFiniteSet(D \cup {key}) /\ \A k \in D \cup {key} : h[k] \in Nat /\ g[k] \in Nat
  <2>1. \A k \in D \cup {key} : h[k] \in Nat
    BY <1>1, <1>3
  <2>2. \A k \in D \cup {key} : g[k] \in Nat
    BY <1>3, <2>1
  <2> QED BY <1>1, <2>1, <2>2, FS_AddElement
<1>6. SumFunctionOnSet(h, D \cup {key}) = SumFunctionOnSet(f, D)
  <2>1. \A k \in D : f[k] \in Int /\ h[k] = f[k] /\ h[k] \in Int
    BY <1>1, <1>3
  <2>2. SumFunctionOnSet(f, D) = SumFunctionOnSet(h, D)
    BY <1>1, <2>1, SumOfSame
  <2>3. CASE key \in D
    <3>1. D \cup {key} = D
      BY <2>3
    <3> QED BY <2>2, <3>1
  <2>4. CASE key \notin D
    <3>1. h[key] = 0 /\ h[key] \in Int
      BY <1>3, <2>4
    <3>2. SumFunctionOnSet(h, D \cup {key}) = h[key] + SumFunctionOnSet(h, D)
      BY <1>1, <2>1, <2>4, <3>1, SumPlusOne
    <3>3. SumFunctionOnSet(h, D) \in Int
      BY <1>1, <2>1, SumAddsUp
    <3> QED BY <2>2, <3>1, <3>2, <3>3
  <2> QED BY <2>3, <2>4
<1>7. SumFunctionOnSet(g, D \cup {key}) = SumFunctionOnSet(h, D \cup {key}) + (g[key] - h[key])
  <2>1. /\ (\A k \in D \cup {key} : h[k] \in Int) /\ key \in D \cup {key} /\ g[key] \in Int
        /\ \A k \in (D \cup {key}) \ {key} : g[k] = h[k]
    BY <1>3, <1>5
  <2> QED BY <1>5, <2>1, SumChanged
<1>8. g[key] - h[key] = 1
  BY <1>3, <1>5
<1>9. SumFunction(g) = SumFunction(f) + 1
  BY <1>4, <1>6, <1>7, <1>8
<1> QED BY <1>2, <1>5, <1>9 DEF f, g, D

\* A combination that is kept becomes a candidate, or one more origin of one.
LEMMA KeepKeepsSpaceInv ==
    ASSUME SpaceInv, phase = "expand", NEW c \in pending, Rejection(Built(space, c)) = "NONE",
           Keep(c, Built(space, c)), UNCHANGED <<space, phase, total>>
    PROVE  SpaceInv'
<1> DEFINE id == Identity(Built(space, c))
           key == <<id, Origin(Built(space, c))>>
<1>1. TablesCounted /\ ExpansionCounted
  BY DEF SpaceInv, Expanded
<1>2. /\ pending \subseteq Combinations(space) /\ c \in Combinations(space)
      /\ \A e \in pending : ShortPair(space, e) => SamePair(e) \subseteq pending
      /\ total = Cardinality(pending) + AllRejected + duplicates + unique
      /\ candidates = Kept(space, Combinations(space) \ pending)
      /\ rejected \in [Reasons -> Nat] /\ total \in Nat /\ duplicates \in Nat /\ unique \in Nat
      /\ IsFiniteSet(candidates) /\ unique = Cardinality(candidates)
      /\ {k[1] : k \in DOMAIN provenance} = candidates
      /\ SumFunction(provenance) = duplicates + unique
  BY <1>1 DEF TablesCounted, ExpansionCounted
<1>3. IsSpace(space)
  BY <1>1, SpaceIs DEF TablesCounted
<1>4. IsFiniteSet(pending)
  BY <1>2, <1>3, CombinationsCount, FS_Subset
<1>5. /\ pending' = pending \ {c} /\ rejected' = rejected
      /\ candidates' = candidates \cup {id}
      /\ provenance' = [k \in DOMAIN provenance \cup {key} |->
                            Times(k) + IF k = key THEN 1 ELSE 0]
      /\ IF id \in candidates THEN duplicates' = duplicates + 1 /\ unique' = unique
         ELSE unique' = unique + 1 /\ duplicates' = duplicates
  BY DEF Keep
<1>6. key[1] = id
  OBVIOUS
<1> HIDE DEF id, key
<1>7. /\ DOMAIN provenance' = DOMAIN provenance \cup {key} /\ IsFiniteSet(DOMAIN provenance')
      /\ \A k \in DOMAIN provenance' : provenance'[k] \in Nat
      /\ SumFunction(provenance') = SumFunction(provenance) + 1
  BY <1>1, <1>5, OriginAdded
<1>8. /\ IsFiniteSet(candidates') /\ unique' = Cardinality(candidates') /\ unique' \in Nat
      /\ duplicates' \in Nat /\ duplicates' + unique' = duplicates + unique + 1
  <2>1. CASE id \in candidates
    <3>1. candidates \cup {id} = candidates
      BY <2>1
    <3>2. duplicates' = duplicates + 1 /\ unique' = unique /\ candidates' = candidates
      BY <1>5, <2>1, <3>1
    <3>3. duplicates \in Nat /\ unique \in Nat /\ IsFiniteSet(candidates) /\ unique = Cardinality(candidates)
      BY <1>2
    <3> QED BY <3>2, <3>3
  <2>2. CASE id \notin candidates
    <3>1. /\ IsFiniteSet(candidates \cup {id})
          /\ Cardinality(candidates \cup {id}) = Cardinality(candidates) + 1
      BY <1>2, <2>2, FS_AddElement
    <3>2. unique' = unique + 1 /\ duplicates' = duplicates /\ candidates' = candidates \cup {id}
      BY <1>5, <2>2
    <3>3. duplicates \in Nat /\ unique \in Nat /\ unique = Cardinality(candidates)
      BY <1>2
    <3> QED BY <3>1, <3>2, <3>3
  <2> QED BY <2>1, <2>2
<1>9. {k[1] : k \in DOMAIN provenance'} = candidates'
  <2>1. \A k \in DOMAIN provenance' : k[1] \in candidates'
    <3> TAKE k \in DOMAIN provenance'
    <3>1. CASE k = key
      BY <1>5, <1>6, <3>1
    <3>2. CASE k \in DOMAIN provenance
      BY <1>2, <1>5, <3>2
    <3> QED BY <1>7, <3>1, <3>2
  <2>2. \A i \in candidates' : \E k \in DOMAIN provenance' : k[1] = i
    <3> TAKE i \in candidates'
    <3>1. CASE i = id
      BY <1>6, <1>7, <3>1
    <3>2. CASE i \in candidates
      <4>1. \E k \in DOMAIN provenance : k[1] = i
        BY <1>2, <3>2
      <4> QED BY <1>7, <4>1
    <3> QED BY <1>5, <3>1, <3>2
  <2> QED BY <2>1, <2>2
<1>10. SumFunction(provenance') = duplicates' + unique'
  BY <1>2, <1>7, <1>8
<1>11. Cardinality(pending') + 1 = Cardinality(pending) /\ pending' \subseteq pending
       /\ Cardinality(pending') \in Nat
  <2>1. /\ IsFiniteSet(pending \ {c}) /\ Cardinality(pending \ {c}) = Cardinality(pending) - 1
    BY <1>4, FS_RemoveElement
  <2>2. Cardinality(pending) \in Nat /\ Cardinality(pending \ {c}) \in Nat
    BY <1>4, <2>1, FS_CardinalityType
  <2> QED BY <1>5, <2>1, <2>2
<1>12. AllRejected' = AllRejected /\ AllRejected \in Nat
  <2>1. SumFunctionOnSet(rejected, Reasons) \in Nat /\ DOMAIN rejected = Reasons
    BY <1>2, ReasonsFinite, SumOfNaturals
  <2> QED BY <1>5, <2>1 DEF AllRejected, SumFunction
<1>13. TablesCounted'
  BY <1>1, <1>2, <1>5, <1>7, <1>8, <1>9, <1>10 DEF TablesCounted
<1>14. ExpansionCounted'
  <2>1. Valid(space') /\ pending' \subseteq Combinations(space')
    BY <1>1, <1>2, <1>11 DEF ExpansionCounted
  <2>2. total' = Cardinality(pending') + AllRejected' + duplicates' + unique'
    BY <1>2, <1>8, <1>11, <1>12
  <2>3. candidates' = Kept(space', Combinations(space') \ pending')
    <3>1. Kept(space, Combinations(space) \ pending') =
              Kept(space, Combinations(space) \ pending) \cup {Identity(Built(space, c))}
      <4> DEFINE D == Combinations(space) \ pending
                 E == Combinations(space) \ pending'
      <4>1. E = D \cup {c}
        BY <1>2, <1>5
      <4> HIDE DEF D, E
      <4>2. Kept(space, E) = Kept(space, D) \cup {Identity(Built(space, c))}
        BY <4>1, KeptWithOneMore
      <4> QED BY <4>2 DEF D, E
    <3> QED BY <1>2, <1>5, <3>1 DEF id
  <2>4. \A e \in pending' : ShortPair(space', e) => SamePair(e)' \subseteq pending'
    <3>1. \A e \in pending : ShortPair(space, e) => c \notin SamePair(e)
      <4> SUFFICES ASSUME NEW e \in pending, ShortPair(space, e), c \in SamePair(e) PROVE FALSE
        OBVIOUS
      <4>1. e \in Combinations(space)
        BY <1>2
      <4>2. ShortPair(space, c)
        BY <4>1, SamePairSameRejection
      <4> QED BY <4>2 DEF ShortPair
    <3>2. \A e \in pending' : ShortPair(space, e) => SamePair(e) \subseteq pending'
      BY <1>2, <1>5, <3>1
    <3>3. \A e : SamePair(e)' = SamePair(e)
      BY DEF SamePair
    <3> QED BY <3>2, <3>3
  <2> QED BY <2>1, <2>2, <2>3, <2>4 DEF ExpansionCounted
<1> QED BY <1>13, <1>14 DEF SpaceInv, Expanded

\* Every step of the generator keeps the counts.
LEMMA SpaceInvStep ==
    ASSUME SpaceInv, [SpaceNext]_spaceVars
    PROVE  SpaceInv'
<1>1. CASE Validate
  BY <1>1, ValidateKeepsSpaceInv
<1>2. CASE Expand
  <2> DEFINE c == CHOOSE c \in pending : TRUE
  <2>1. phase = "expand" /\ pending # {} /\ UNCHANGED <<space, phase, total>>
    BY <1>2 DEF Expand
  <2>2. c \in pending
    BY <2>1
  <2>3. \/ Reject(c, Rejection(Built(space, c)))
        \/ Rejection(Built(space, c)) = "NONE" /\ Keep(c, Built(space, c))
    BY <1>2 DEF Expand
  <2> HIDE DEF c
  <2>4. CASE Reject(c, Rejection(Built(space, c)))
    BY <2>1, <2>2, <2>4, RejectKeepsSpaceInv
  <2>5. CASE Rejection(Built(space, c)) = "NONE" /\ Keep(c, Built(space, c))
    BY <2>1, <2>2, <2>5, KeepKeepsSpaceInv
  <2> QED BY <2>3, <2>4, <2>5
<1>3. CASE Close
  BY <1>3, CloseKeepsSpaceInv
<1>4. CASE UNCHANGED spaceVars
  <2>1. UNCHANGED <<space, phase, total, pending, rejected, duplicates, unique, candidates, provenance>>
    BY <1>4 DEF spaceVars
  <2> QED BY <2>1 DEF SpaceInv, TablesCounted, ExpansionCounted, Tables, AllRejected, SamePair
<1> QED BY <1>1, <1>2, <1>3, <1>4 DEF SpaceNext

\* The inductive invariant of the generator (generator.py, preflight).
THEOREM SpaceInvariant == SpaceSpec => []SpaceInv
<1>1. SpaceInit => SpaceInv
  BY SpaceInvInit
<1>2. SpaceInv /\ [SpaceNext]_spaceVars => SpaceInv'
  BY SpaceInvStep
<1> QED BY <1>1, <1>2, PTL DEF SpaceSpec

\* Every combination of a space is counted once, T = R + D + U, and is the
\* origin of its candidate (generator.py, preflight and its last assertion).
THEOREM CandidatesAddUp == SpaceSpec => []CandidatesAreCounted
<1>1. SpaceInv => CandidatesAreCounted
  BY DEF SpaceInv, TablesCounted, ExpansionCounted, Expanded, CandidatesAreCounted, SpaceTyped,
         CountsAddUp, ProvenanceIsComplete
<1> QED BY <1>1, SpaceInvariant, PTL

(***************************************************************************)
(* The conditions of atoms.                                                *)
(***************************************************************************)
Kinds == {"trend_close", "trend_pair", "breakout_previous", "vwap_context", "momentum",
          "candle_context", "volume", "volatility"}

ModeOf(p) == IF "mode" \in DOMAIN p THEN p.mode ELSE "NONE"

\* Parameters of an atom that templates.py lets through.
Fits(kind, p) ==
    /\ kind \in Kinds
    /\ DOMAIN p = Requirements(kind, ModeOf(p))
    /\ kind = "volatility" => p.mode \in {"ROLLING_RANGE", "ATR_THRESHOLD", "ATR_RANGE"}
    /\ \A key \in DOMAIN p : key \in Decimals => IsDecimal(p[key])

\* Parameters without trailing zeros.
Norm(p) == [key \in DOMAIN p |-> IF key \in Decimals THEN Decimal(p[key]) ELSE p[key]]

\* An operand that is a field, a feature or a direction.
IsFixed(o) == \/ \E dim, name : o = Named(dim, name)
              \/ \E value : o = Const("ENUM", value, 0)

Dims == {"PRICE", "RATIO", "QUANTITY"}

LEMMA FixedOperand ==
    ASSUME NEW o, IsFixed(o)
    PROVE  Decimal(o) = o /\ (o.type = "constant" => o.dim = "ENUM")
<1>1. CASE \E dim, name : o = Named(dim, name)
  BY <1>1 DEF Named, Decimal
<1>2. CASE \E value : o = Const("ENUM", value, 0)
  BY <1>2 DEF Const, Decimal, Textual
<1> QED BY <1>1, <1>2 DEF IsFixed

\* A decimal of a grid, as it is written and without zeros.
LEMMA DecimalIn ==
    ASSUME NEW v, IsDecimal(v), NEW dim \in Dims
    PROVE  /\ In(dim, v) = Const(dim, v.value, v.zeros)
           /\ Decimal(v) = Const("NUMBER", v.value, 0)
           /\ Decimal(In(dim, v)) = Const(dim, v.value, 0)
           /\ Decimal(In(dim, Decimal(v))) = Const(dim, v.value, 0)
<1>1. v = Const("NUMBER", v.value, v.zeros)
  BY DEF IsDecimal, IsOperand
<1>2. In(dim, v) = Const(dim, v.value, v.zeros)
  BY <1>1 DEF In, Const
<1>3. Decimal(v) = Const("NUMBER", v.value, 0)
  BY <1>1 DEF Decimal, Const, Textual
<1>4. In(dim, Decimal(v)) = Const(dim, v.value, 0)
  BY <1>3 DEF In, Const
<1>5. ~Textual(dim)
  BY DEF Textual, Dims
<1>6. \A z : Decimal(Const(dim, v.value, z)) = Const(dim, v.value, 0)
  BY <1>5 DEF Decimal, Const
<1> QED BY <1>2, <1>3, <1>4, <1>6

\* Parameters keep what they are without their zeros.
LEMMA NormIs ==
    ASSUME NEW p
    PROVE  /\ DOMAIN Norm(p) = DOMAIN p
           /\ \A key \in DOMAIN p : Norm(p)[key] = IF key \in Decimals THEN Decimal(p[key]) ELSE p[key]
  BY DEF Norm

\* The three forms of a condition: without numbers, over a threshold, in a range.
Plain(kind, p, d) ==
    \E type, op, l, r :
        /\ type \in {"comparison", "cross"} /\ (type = "cross" => "operator" \in DOMAIN p /\ p.operator = "CROSS")
        /\ IsFixed(l) /\ IsFixed(r)
        /\ Condition(kind, p, d) = Of(type, op, l, r) /\ Condition(kind, Norm(p), d) = Of(type, op, l, r)

OverThreshold(kind, p, d) ==
    \E op, l : \E dim \in Dims :
        /\ "threshold" \in DOMAIN p /\ IsFixed(l)
        /\ Condition(kind, p, d) = Of("comparison", op, l, In(dim, p.threshold))
        /\ Condition(kind, Norm(p), d) = Of("comparison", op, l, In(dim, Norm(p).threshold))

InRange(kind, p, d) ==
    \E o : \E dim \in Dims :
        /\ Limits \subseteq DOMAIN p /\ IsFixed(o)
        /\ Condition(kind, p, d) = RangeOf(dim, o, p)
        /\ Condition(kind, Norm(p), d) = RangeOf(dim, o, Norm(p))

Crosses(p) == "operator" \in DOMAIN p /\ p.operator = "CROSS"

\* Looking at two fixed operands.
LEMMA LookingIs ==
    ASSUME NEW d, NEW directional \in BOOLEAN, NEW cross \in BOOLEAN, NEW l, NEW r
    PROVE  \E op : Looking(d, directional, cross, l, r) =
                       Of(IF cross THEN "cross" ELSE "comparison", op, l, r)
  BY DEF Looking, Cross, Comparison

LEMMA FieldsAreFixed ==
    /\ \A name : IsFixed(Field(name))
    /\ \A dim, name, q : IsFixed(Feature(dim, name, q))
    /\ \A value : IsFixed(Const("ENUM", value, 0))
<1>1. \A dim, name : IsFixed(Named(dim, name))
  BY DEF IsFixed
<1>2. \A value : IsFixed(Const("ENUM", value, 0))
  BY DEF IsFixed
<1> QED BY <1>1, <1>2 DEF Field, Feature

\* Two looks at fixed operands are a plain condition.
LEMMA PlainLook ==
    ASSUME NEW kind, NEW p, NEW d, NEW directional \in BOOLEAN, NEW l, NEW r, IsFixed(l), IsFixed(r),
           NEW cross \in BOOLEAN, cross => Crosses(p),
           Condition(kind, p, d) = Looking(d, directional, cross, l, r),
           Condition(kind, Norm(p), d) = Looking(d, directional, cross, l, r)
    PROVE  Plain(kind, p, d)
<1>1. PICK op : Looking(d, directional, cross, l, r) =
                    Of(IF cross THEN "cross" ELSE "comparison", op, l, r)
  BY LookingIs
<1> QED BY <1>1 DEF Plain, Crosses

\* A look at a threshold.
LEMMA ThresholdLook ==
    ASSUME NEW kind, NEW p, NEW d, NEW directional \in BOOLEAN, NEW l, IsFixed(l), NEW dim \in Dims,
           "threshold" \in DOMAIN p,
           Condition(kind, p, d) = Looking(d, directional, FALSE, l, In(dim, p.threshold)),
           Condition(kind, Norm(p), d) = Looking(d, directional, FALSE, l, In(dim, Norm(p).threshold))
    PROVE  OverThreshold(kind, p, d)
<1>1. \E op : /\ Condition(kind, p, d) = Of("comparison", op, l, In(dim, p.threshold))
              /\ Condition(kind, Norm(p), d) = Of("comparison", op, l, In(dim, Norm(p).threshold))
  BY DEF Looking, Comparison
<1> QED BY <1>1 DEF OverThreshold

\* What the parameters say that are not decimals is said without zeros too.
LEMMA NormSays ==
    ASSUME NEW p
    PROVE  /\ \A key \in DOMAIN p \ Decimals : Norm(p)[key] = p[key]
           /\ Crosses(Norm(p)) = Crosses(p) /\ ModeOf(Norm(p)) = ModeOf(p)
<1>1. \A key \in DOMAIN p \ Decimals : Norm(p)[key] = p[key]
  BY NormIs
<1>2. "operator" \notin Decimals /\ "mode" \notin Decimals
  BY DEF Decimals
<1> QED BY <1>1, <1>2, NormIs DEF Crosses, ModeOf

LEMMA TrendConditions ==
    ASSUME NEW kind \in {"trend_close", "trend_pair"}, NEW p, Fits(kind, p), NEW d
    PROVE  Plain(kind, p, d)
<1> DEFINE N == Norm(p)
           c == Crosses(p)
<1>1. DOMAIN p = Requirements(kind, ModeOf(p)) /\ DOMAIN N = DOMAIN p
  BY NormIs DEF Fits
<1>2. \A key \in DOMAIN p \ Decimals : N[key] = p[key]
  BY NormSays
<1>3. c \in BOOLEAN /\ Crosses(N) = c
  BY NormSays DEF Crosses
<1>4. CASE kind = "trend_close"
  <2> DEFINE l == Field("close")
             r == Feature("PRICE", p.average, <<p.period>>)
  <2>1. N.average = p.average /\ N.period = p.period
    BY <1>1, <1>2, <1>4 DEF Requirements, Decimals
  <2>2. Condition(kind, p, d) = Looking(d, TRUE, c, l, r)
    BY <1>4 DEF Condition, Crosses
  <2>3. Condition(kind, N, d) = Looking(d, TRUE, Crosses(N), l, Feature("PRICE", N.average, <<N.period>>))
    BY <1>4 DEF Condition, Crosses
  <2>4. IsFixed(l) /\ IsFixed(r)
    BY FieldsAreFixed
  <2>5. Condition(kind, N, d) = Looking(d, TRUE, c, l, r)
    BY <2>1, <2>3, <1>3
  <2> HIDE DEF l, r, c
  <2> QED BY <1>3, <2>2, <2>4, <2>5, PlainLook DEF c
<1>5. CASE kind = "trend_pair"
  <2> DEFINE l == Feature("PRICE", p.average, <<p.short_period>>)
             r == Feature("PRICE", p.average, <<p.long_period>>)
  <2>1. N.average = p.average /\ N.short_period = p.short_period /\ N.long_period = p.long_period
    BY <1>1, <1>2, <1>5 DEF Requirements, Decimals
  <2>2. Condition(kind, p, d) = Looking(d, TRUE, c, l, r)
    BY <1>5 DEF Condition, Crosses
  <2>3. Condition(kind, N, d) = Looking(d, TRUE, Crosses(N), Feature("PRICE", N.average, <<N.short_period>>),
                                        Feature("PRICE", N.average, <<N.long_period>>))
    BY <1>5 DEF Condition, Crosses
  <2>4. IsFixed(l) /\ IsFixed(r)
    BY FieldsAreFixed
  <2>5. Condition(kind, N, d) = Looking(d, TRUE, c, l, r)
    BY <2>1, <2>3, <1>3
  <2> HIDE DEF l, r, c
  <2> QED BY <1>3, <2>2, <2>4, <2>5, PlainLook DEF c
<1> QED BY <1>4, <1>5

LEMMA VwapConditions ==
    ASSUME NEW p, Fits("vwap_context", p), NEW d
    PROVE  Plain("vwap_context", p, d) \/ InRange("vwap_context", p, d)
<1> DEFINE N == Norm(p)
           c == Crosses(p)
           kind == "vwap_context"
<1>1. DOMAIN p = Requirements(kind, ModeOf(p)) /\ DOMAIN N = DOMAIN p
  BY NormIs DEF Fits
<1>2. \A key \in DOMAIN p \ Decimals : N[key] = p[key]
  BY NormSays
<1>3. c \in BOOLEAN /\ Crosses(N) = c
  BY NormSays DEF Crosses
<1>4. "mode" \in DOMAIN p /\ ModeOf(p) = p.mode /\ N.mode = p.mode
  BY <1>1, <1>2 DEF Requirements, Decimals, ModeOf
<1>5. CASE p.mode = "CLOSE"
  <2> DEFINE l == Field("close")
             r == Feature("PRICE", "session_trade_vwap", <<>>)
  <2>1. Condition(kind, p, d) = Looking(d, TRUE, c, l, r)
    BY <1>5 DEF Condition, Crosses
  <2>2. Condition(kind, N, d) = Looking(d, TRUE, Crosses(N), l, r)
    BY <1>4, <1>5 DEF Condition, Crosses
  <2>3. IsFixed(l) /\ IsFixed(r)
    BY FieldsAreFixed
  <2>4. Condition(kind, N, d) = Looking(d, TRUE, c, l, r)
    BY <2>2, <1>3
  <2> HIDE DEF l, r, c
  <2> QED BY <1>3, <2>1, <2>3, <2>4, PlainLook DEF c
<1>6. CASE p.mode # "CLOSE"
  <2> DEFINE o == Feature("PRICE", "distance_to_vwap", <<>>)
  <2>1. Limits \subseteq DOMAIN p
    BY <1>1, <1>4, <1>6 DEF Requirements
  <2>2. Condition(kind, p, d) = RangeOf("PRICE", o, p)
    BY <1>6 DEF Condition
  <2>3. Condition(kind, N, d) = RangeOf("PRICE", o, N)
    BY <1>4, <1>6 DEF Condition
  <2>4. IsFixed(o)
    BY FieldsAreFixed
  <2> HIDE DEF o
  <2> QED BY <2>1, <2>2, <2>3, <2>4 DEF InRange, Dims
<1> QED BY <1>5, <1>6

LEMMA BreakoutConditions ==
    ASSUME NEW p, Fits("breakout_previous", p), NEW d
    PROVE  Plain("breakout_previous", p, d)
<1> DEFINE N == Norm(p)
           kind == "breakout_previous"
           l == Field("close")
           r == Feature("PRICE", IF d = "BUY" THEN "rolling_high" ELSE "rolling_low",
                        <<p.period, p.include_current>>)
<1>1. DOMAIN p = {"period", "include_current"} /\ DOMAIN N = DOMAIN p
  BY NormIs DEF Fits, Requirements
<1>2. N.period = p.period /\ N.include_current = p.include_current
  BY <1>1, NormSays DEF Decimals
<1>3. Crosses(p) = FALSE /\ Crosses(N) = FALSE
  BY <1>1 DEF Crosses
<1>4. Condition(kind, p, d) = Looking(d, TRUE, Crosses(p), l, r)
  BY <1>1 DEF Condition, Crosses
<1>5. Condition(kind, N, d) = Looking(d, TRUE, Crosses(N), l,
          Feature("PRICE", IF d = "BUY" THEN "rolling_high" ELSE "rolling_low",
                  <<N.period, N.include_current>>))
  BY <1>1 DEF Condition, Crosses
<1>6. IsFixed(l) /\ IsFixed(r)
  BY FieldsAreFixed
<1>7. /\ Condition(kind, p, d) = Looking(d, TRUE, FALSE, l, r)
      /\ Condition(kind, N, d) = Looking(d, TRUE, FALSE, l, r)
  BY <1>2, <1>3, <1>4, <1>5
<1> HIDE DEF l, r
<1> QED BY <1>6, <1>7, PlainLook

LEMMA MomentumConditions ==
    ASSUME NEW p, Fits("momentum", p), NEW d
    PROVE  OverThreshold("momentum", p, d)
<1> DEFINE N == Norm(p)
           kind == "momentum"
           dim == IF p.feature = "point_change" THEN "PRICE" ELSE "RATIO"
           l == Feature(dim, p.feature, <<p.period>>)
<1>1. DOMAIN p = {"feature", "period", "threshold"} /\ DOMAIN N = DOMAIN p
  BY NormIs DEF Fits, Requirements
<1>2. N.period = p.period /\ N.feature = p.feature
  BY <1>1, NormSays DEF Decimals
<1>3. Crosses(p) = FALSE /\ Crosses(N) = FALSE
  BY <1>1 DEF Crosses
<1>4. Condition(kind, p, d) = Looking(d, TRUE, Crosses(p), l, In(dim, p.threshold))
  BY DEF Condition, Crosses
<1>5. Condition(kind, N, d) = Looking(d, TRUE, Crosses(N), l, In(dim, N.threshold))
  BY <1>2 DEF Condition, Crosses
<1>6. IsFixed(l) /\ dim \in Dims
  BY FieldsAreFixed DEF Dims
<1>7. /\ Condition(kind, p, d) = Looking(d, TRUE, FALSE, l, In(dim, p.threshold))
      /\ Condition(kind, N, d) = Looking(d, TRUE, FALSE, l, In(dim, N.threshold))
  BY <1>3, <1>4, <1>5
<1> HIDE DEF l, dim
<1> QED BY <1>1, <1>6, <1>7, ThresholdLook

LEMMA CandleConditions ==
    ASSUME NEW p, Fits("candle_context", p), NEW d
    PROVE  LET kind == "candle_context"
           IN  Plain(kind, p, d) \/ OverThreshold(kind, p, d) \/ InRange(kind, p, d)
<1> DEFINE N == Norm(p)
           kind == "candle_context"
<1>1. DOMAIN p = Requirements(kind, ModeOf(p)) /\ DOMAIN N = DOMAIN p
  BY NormIs DEF Fits
<1>2. \A key \in DOMAIN p \ Decimals : N[key] = p[key]
  BY NormSays
<1>3. "mode" \in DOMAIN p /\ ModeOf(p) = p.mode /\ N.mode = p.mode
  BY <1>1, <1>2 DEF Requirements, Decimals, ModeOf
<1>4. CASE p.mode = "DIRECTION"
  <2> DEFINE l == Feature("ENUM", "candle_direction", <<>>)
             r == Const("ENUM", IF d = "BUY" THEN 1 ELSE -1, 0)
  <2>1. Condition(kind, p, d) = Comparison("EQ", l, r) /\ Condition(kind, N, d) = Comparison("EQ", l, r)
    BY <1>3, <1>4 DEF Condition
  <2>2. IsFixed(l) /\ IsFixed(r)
    BY FieldsAreFixed
  <2> HIDE DEF l, r
  <2> QED BY <2>1, <2>2 DEF Plain, Comparison
<1>5. CASE p.mode = "GEOMETRY"
  <2> DEFINE l == Feature("PRICE", p.feature, <<>>)
  <2>1. "threshold" \in DOMAIN p /\ N.feature = p.feature
    BY <1>1, <1>2, <1>3, <1>5 DEF Requirements, Decimals
  <2>2. Condition(kind, p, d) = Looking(d, FALSE, FALSE, l, In("PRICE", p.threshold))
    BY <1>5 DEF Condition
  <2>3. Condition(kind, N, d) = Looking(d, FALSE, FALSE, l, In("PRICE", N.threshold))
    BY <1>3, <1>5, <2>1 DEF Condition
  <2>4. IsFixed(l) /\ "PRICE" \in Dims
    BY FieldsAreFixed DEF Dims
  <2> HIDE DEF l
  <2> QED BY <2>1, <2>2, <2>3, <2>4, ThresholdLook
<1>6. CASE p.mode # "DIRECTION" /\ p.mode # "GEOMETRY"
  <2> DEFINE o == Feature("RATIO", "close_range_position", <<>>)
  <2>1. Limits \subseteq DOMAIN p
    BY <1>1, <1>3, <1>6 DEF Requirements
  <2>2. Condition(kind, p, d) = RangeOf("RATIO", o, p)
    BY <1>6 DEF Condition
  <2>3. Condition(kind, N, d) = RangeOf("RATIO", o, N)
    BY <1>3, <1>6 DEF Condition
  <2>4. IsFixed(o)
    BY FieldsAreFixed
  <2> HIDE DEF o
  <2> QED BY <2>1, <2>2, <2>3, <2>4 DEF InRange, Dims
<1> QED BY <1>4, <1>5, <1>6

LEMMA VolumeConditions ==
    ASSUME NEW p, Fits("volume", p), NEW d
    PROVE  Plain("volume", p, d) \/ OverThreshold("volume", p, d)
<1> DEFINE N == Norm(p)
           kind == "volume"
<1>1. DOMAIN p = Requirements(kind, ModeOf(p)) /\ DOMAIN N = DOMAIN p
  BY NormIs DEF Fits
<1>2. \A key \in DOMAIN p \ Decimals : N[key] = p[key]
  BY NormSays
<1>3. "mode" \in DOMAIN p /\ ModeOf(p) = p.mode /\ N.mode = p.mode
  BY <1>1, <1>2 DEF Requirements, Decimals, ModeOf
<1>4. CASE p.mode = "ROLLING"
  <2> DEFINE l == Field("volume")
             r == Feature("QUANTITY", "rolling_mean_volume", <<p.period, p.include_current>>)
  <2>1. /\ "include_current" \in DOMAIN p /\ N.period = p.period
        /\ N.include_current = p.include_current
    BY <1>1, <1>2, <1>3, <1>4 DEF Requirements, Decimals
  <2>2. Condition(kind, p, d) = Looking(d, FALSE, FALSE, l, r)
    BY <1>4, <2>1 DEF Condition
  <2>3. Condition(kind, N, d) = Looking(d, FALSE, FALSE, l, r)
    BY <1>1, <1>3, <1>4, <2>1 DEF Condition
  <2>4. IsFixed(l) /\ IsFixed(r)
    BY FieldsAreFixed
  <2> HIDE DEF l, r
  <2> QED BY <2>2, <2>3, <2>4, PlainLook
<1>5. CASE p.mode = "RELATIVE"
  <2> DEFINE l == Feature("RATIO", "relative_volume", <<p.period, p.include_current>>)
  <2>1. /\ "include_current" \in DOMAIN p /\ "threshold" \in DOMAIN p /\ N.period = p.period
        /\ N.include_current = p.include_current
    BY <1>1, <1>2, <1>3, <1>5 DEF Requirements, Decimals
  <2>2. Condition(kind, p, d) = Looking(d, FALSE, FALSE, l, In("RATIO", p.threshold))
    BY <1>5, <2>1 DEF Condition
  <2>3. Condition(kind, N, d) = Looking(d, FALSE, FALSE, l, In("RATIO", N.threshold))
    BY <1>1, <1>3, <1>5, <2>1 DEF Condition
  <2>4. IsFixed(l) /\ "RATIO" \in Dims
    BY FieldsAreFixed DEF Dims
  <2> HIDE DEF l
  <2> QED BY <2>1, <2>2, <2>3, <2>4, ThresholdLook
<1>6. CASE p.mode # "ROLLING" /\ p.mode # "RELATIVE"
  <2> DEFINE l == Field("volume")
  <2>1. "threshold" \in DOMAIN p
    BY <1>1, <1>3, <1>6 DEF Requirements
  <2>2. Condition(kind, p, d) = Looking(d, FALSE, FALSE, l, In("QUANTITY", p.threshold))
    BY <1>6 DEF Condition
  <2>3. Condition(kind, N, d) = Looking(d, FALSE, FALSE, l, In("QUANTITY", N.threshold))
    BY <1>3, <1>6 DEF Condition
  <2>4. IsFixed(l) /\ "QUANTITY" \in Dims
    BY FieldsAreFixed DEF Dims
  <2> HIDE DEF l
  <2> QED BY <2>1, <2>2, <2>3, <2>4, ThresholdLook
<1> QED BY <1>4, <1>5, <1>6

LEMMA VolatilityConditions ==
    ASSUME NEW p, Fits("volatility", p), NEW d
    PROVE  LET kind == "volatility"
           IN  Plain(kind, p, d) \/ OverThreshold(kind, p, d) \/ InRange(kind, p, d)
<1> DEFINE N == Norm(p)
           kind == "volatility"
<1>1. DOMAIN p = Requirements(kind, ModeOf(p)) /\ DOMAIN N = DOMAIN p
  BY NormIs DEF Fits
<1>2. \A key \in DOMAIN p \ Decimals : N[key] = p[key]
  BY NormSays
<1>3. /\ "mode" \in DOMAIN p /\ ModeOf(p) = p.mode /\ N.mode = p.mode /\ N.period = p.period
      /\ p.mode \in {"ROLLING_RANGE", "ATR_THRESHOLD", "ATR_RANGE"}
  BY <1>1, <1>2 DEF Requirements, Decimals, ModeOf, Fits
<1>4. CASE p.mode = "ROLLING_RANGE"
  <2> DEFINE l == Feature("PRICE", "candle_range", <<>>)
             r == Feature("PRICE", "rolling_mean_range", <<p.period, p.include_current>>)
  <2>1. /\ "include_current" \in DOMAIN p /\ N.include_current = p.include_current
    BY <1>1, <1>2, <1>3, <1>4 DEF Requirements, Decimals
  <2>2. Condition(kind, p, d) = Looking(d, FALSE, FALSE, l, r)
    BY <1>4, <2>1 DEF Condition
  <2>3. Condition(kind, N, d) = Looking(d, FALSE, FALSE, l, r)
    BY <1>1, <1>3, <1>4, <2>1 DEF Condition
  <2>4. IsFixed(l) /\ IsFixed(r)
    BY FieldsAreFixed
  <2> HIDE DEF l, r
  <2> QED BY <2>2, <2>3, <2>4, PlainLook
<1>5. CASE p.mode = "ATR_RANGE"
  <2> DEFINE o == Feature("PRICE", "atr_wilder", <<p.period>>)
  <2>1. Limits \subseteq DOMAIN p
    BY <1>1, <1>3, <1>5 DEF Requirements
  <2>2. Condition(kind, p, d) = RangeOf("PRICE", o, p)
    BY <1>5 DEF Condition
  <2>3. Condition(kind, N, d) = RangeOf("PRICE", o, N)
    BY <1>3, <1>5 DEF Condition
  <2>4. IsFixed(o)
    BY FieldsAreFixed
  <2> HIDE DEF o
  <2> QED BY <2>1, <2>2, <2>3, <2>4 DEF InRange, Dims
<1>6. CASE p.mode = "ATR_THRESHOLD"
  <2> DEFINE l == Feature("PRICE", "atr_wilder", <<p.period>>)
  <2>1. "threshold" \in DOMAIN p
    BY <1>1, <1>3, <1>6 DEF Requirements
  <2>2. Condition(kind, p, d) = Looking(d, FALSE, FALSE, l, In("PRICE", p.threshold))
    BY <1>6 DEF Condition
  <2>3. Condition(kind, N, d) = Looking(d, FALSE, FALSE, l, In("PRICE", N.threshold))
    BY <1>3, <1>6 DEF Condition
  <2>4. IsFixed(l) /\ "PRICE" \in Dims
    BY FieldsAreFixed DEF Dims
  <2> HIDE DEF l
  <2> QED BY <2>1, <2>2, <2>3, <2>4, ThresholdLook
<1> QED BY <1>3, <1>4, <1>5, <1>6

\* Every condition has one of the three forms.
LEMMA ConditionForm ==
    ASSUME NEW kind, NEW p, Fits(kind, p), NEW d
    PROVE  Plain(kind, p, d) \/ OverThreshold(kind, p, d) \/ InRange(kind, p, d)
<1>1. kind \in Kinds
  BY DEF Fits
<1>2. CASE kind \in {"trend_close", "trend_pair"}
  BY <1>2, TrendConditions
<1>3. CASE kind = "vwap_context"
  BY <1>3, VwapConditions
<1>4. CASE kind = "breakout_previous"
  BY <1>4, BreakoutConditions
<1>5. CASE kind = "momentum"
  BY <1>5, MomentumConditions
<1>6. CASE kind = "candle_context"
  BY <1>6, CandleConditions
<1>7. CASE kind = "volume"
  BY <1>7, VolumeConditions
<1>8. CASE kind = "volatility"
  BY <1>8, VolatilityConditions
<1> QED BY <1>1, <1>2, <1>3, <1>4, <1>5, <1>6, <1>7, <1>8 DEF Kinds

\* A condition as its normal leaf and its features see it: the decimals of its
\* parameters are as good without their zeros.
LEMMA NormalOf ==
    ASSUME NEW type, type # "range", NEW op, NEW l, NEW r
    PROVE  LET c == Of(type, op, l, r)
               N == NormalLeaf(c)
           IN  /\ N = Upward(Of(type, op, Decimal(l), Decimal(r))) /\ N.type = type
               /\ OperandsOf(c) = {l, r} /\ OperandsOf(N) = {Decimal(l), Decimal(r)}
<1> DEFINE c == Of(type, op, l, r)
           d == Of(type, op, Decimal(l), Decimal(r))
<1>1. NormalLeaf(c) = Upward(d)
  BY DEF NormalLeaf, Of
<1>2. \E o, x, y : Upward(d) = Of(type, o, x, y) /\ {x, y} = {Decimal(l), Decimal(r)}
  <2>1. d.type = type /\ d.left = Decimal(l) /\ d.right = Decimal(r) /\ d = Of(type, d.operator, Decimal(l), Decimal(r))
    BY DEF Of
  <2>2. {Decimal(l), Decimal(r)} = {Decimal(r), Decimal(l)}
    OBVIOUS
  <2> HIDE DEF d
  <2>3. CASE d.operator \in DOMAIN Flipped
    BY <2>1, <2>2, <2>3 DEF Upward
  <2>4. CASE d.operator \notin DOMAIN Flipped /\ d.operator \in {"EQ", "NE"} /\ Bytes(d.left) > Bytes(d.right)
    BY <2>1, <2>2, <2>4 DEF Upward
  <2>5. CASE d.operator \notin DOMAIN Flipped /\ ~(d.operator \in {"EQ", "NE"} /\ Bytes(d.left) > Bytes(d.right))
    BY <2>1, <2>5 DEF Upward
  <2> QED BY <2>3, <2>4, <2>5
<1>3. OperandsOf(c) = {l, r}
  BY DEF OperandsOf, Of
<1>4. Upward(d).type = type /\ OperandsOf(Upward(d)) = {Decimal(l), Decimal(r)}
  <2>1. PICK o, x, y : Upward(d) = Of(type, o, x, y) /\ {x, y} = {Decimal(l), Decimal(r)}
    BY <1>2
  <2> HIDE DEF d
  <2>2. Of(type, o, x, y).type = type /\ OperandsOf(Of(type, o, x, y)) = {x, y}
    BY DEF Of, OperandsOf
  <2> QED BY <2>1, <2>2
<1> QED BY <1>1, <1>3, <1>4

\* A comparison in normal form, _canonicalize_comparison.
LEMMA NormalComparison ==
    ASSUME NEW op, NEW l, NEW r
    PROVE  LET c == Of("comparison", op, l, r)
               N == NormalLeaf(c)
           IN  /\ N = Upward(Of("comparison", op, Decimal(l), Decimal(r))) /\ N.type = "comparison"
               /\ OperandsOf(c) = {l, r} /\ OperandsOf(N) = {Decimal(l), Decimal(r)}
<1> DEFINE type == "comparison"
<1>1. type # "range"
  OBVIOUS
<1> HIDE DEF type
<1>2. LET c == Of(type, op, l, r)
          N == NormalLeaf(c)
      IN  /\ N = Upward(Of(type, op, Decimal(l), Decimal(r))) /\ N.type = type
          /\ OperandsOf(c) = {l, r} /\ OperandsOf(N) = {Decimal(l), Decimal(r)}
  BY <1>1, NormalOf
<1> QED BY <1>2 DEF type

\* The named operands of a condition are its features.
NamedOf(S) == {o \in S : o.type = "named" /\ ~IsField(o)}

LEMMA FeaturesAre ==
    ASSUME NEW x, NEW y, NamedOf(OperandsOf(x)) = NamedOf(OperandsOf(y))
    PROVE  FeaturesOf(x) = FeaturesOf(y)
  BY DEF FeaturesOf, NamedOf

\* What a condition says of its candidate, by its parameters without zeros.
SeenAs(kind, p, d) ==
    LET c == Condition(kind, p, d)
        n == Condition(kind, Norm(p), d)
    IN  /\ NormalLeaf(c) = NormalLeaf(n)
        /\ FeaturesOf(c) = FeaturesOf(n) /\ FeaturesOf(NormalLeaf(c)) = FeaturesOf(c)
        /\ NormalLeaf(c).type = "cross" => Crosses(p)

LEMMA PlainSeen ==
    ASSUME NEW kind, NEW p, NEW d, Plain(kind, p, d)
    PROVE  SeenAs(kind, p, d)
<1>1. PICK type, op, l, r :
        /\ type \in {"comparison", "cross"} /\ (type = "cross" => Crosses(p))
        /\ IsFixed(l) /\ IsFixed(r)
        /\ Condition(kind, p, d) = Of(type, op, l, r) /\ Condition(kind, Norm(p), d) = Of(type, op, l, r)
  BY DEF Plain, Crosses
<1> DEFINE c == Of(type, op, l, r)
<1>2. type # "range" /\ Decimal(l) = l /\ Decimal(r) = r
  BY <1>1, FixedOperand
<1>3. NormalLeaf(c).type = type /\ OperandsOf(NormalLeaf(c)) = {Decimal(l), Decimal(r)} /\ OperandsOf(c) = {l, r}
  BY <1>2, NormalOf
<1> HIDE DEF c
<1>4. OperandsOf(NormalLeaf(c)) = OperandsOf(c)
  BY <1>2, <1>3
<1>5. FeaturesOf(NormalLeaf(c)) = FeaturesOf(c)
  BY <1>4, FeaturesAre
<1> QED BY <1>1, <1>3, <1>5 DEF SeenAs, c

LEMMA ThresholdSeen ==
    ASSUME NEW kind, NEW p, NEW d, OverThreshold(kind, p, d), Fits(kind, p)
    PROVE  SeenAs(kind, p, d)
<1>1. PICK op, l : \E dim \in Dims :
        /\ "threshold" \in DOMAIN p /\ IsFixed(l)
        /\ Condition(kind, p, d) = Of("comparison", op, l, In(dim, p.threshold))
        /\ Condition(kind, Norm(p), d) = Of("comparison", op, l, In(dim, Norm(p).threshold))
  BY DEF OverThreshold
<1>2. PICK dim \in Dims :
        /\ "threshold" \in DOMAIN p /\ IsFixed(l)
        /\ Condition(kind, p, d) = Of("comparison", op, l, In(dim, p.threshold))
        /\ Condition(kind, Norm(p), d) = Of("comparison", op, l, In(dim, Norm(p).threshold))
  BY <1>1
<1> DEFINE v == p.threshold
           w == Decimal(v)
           x == Const(dim, v.value, 0)
           r == In(dim, v)
           s == In(dim, w)
           a == Of("comparison", op, l, r)
           b == Of("comparison", op, l, s)
<1>3. IsDecimal(v) /\ Norm(p).threshold = w
  BY <1>2, NormIs DEF Fits, Decimals
<1>4. r = Const(dim, v.value, v.zeros) /\ Decimal(r) = x /\ Decimal(s) = x /\ w = Const("NUMBER", v.value, 0)
  BY <1>3, DecimalIn
<1>5. s = Const(dim, v.value, 0)
  BY <1>4 DEF In, Const
<1>6. Decimal(l) = l
  BY <1>2, FixedOperand
<1>7. r.type = "constant" /\ s.type = "constant" /\ x.type = "constant"
  BY <1>4, <1>5 DEF Const
<1> HIDE DEF v, w, x, r, s
<1>8. /\ NormalLeaf(a) = Upward(Of("comparison", op, Decimal(l), Decimal(r)))
      /\ NormalLeaf(a).type = "comparison"
      /\ OperandsOf(a) = {l, r} /\ OperandsOf(NormalLeaf(a)) = {Decimal(l), Decimal(r)}
      /\ NormalLeaf(b) = Upward(Of("comparison", op, Decimal(l), Decimal(s)))
      /\ OperandsOf(b) = {l, s}
  <2>1. /\ NormalLeaf(a) = Upward(Of("comparison", op, Decimal(l), Decimal(r)))
        /\ NormalLeaf(a).type = "comparison"
        /\ OperandsOf(a) = {l, r} /\ OperandsOf(NormalLeaf(a)) = {Decimal(l), Decimal(r)}
    BY NormalComparison
  <2>2. /\ NormalLeaf(b) = Upward(Of("comparison", op, Decimal(l), Decimal(s)))
        /\ NormalLeaf(b).type = "comparison"
        /\ OperandsOf(b) = {l, s} /\ OperandsOf(NormalLeaf(b)) = {Decimal(l), Decimal(s)}
    BY NormalComparison
  <2> QED BY <2>1, <2>2
<1> HIDE DEF a, b
<1>9. /\ NamedOf(OperandsOf(a)) = NamedOf(OperandsOf(b))
      /\ NamedOf(OperandsOf(NormalLeaf(a))) = NamedOf(OperandsOf(a))
  BY <1>4, <1>6, <1>7, <1>8 DEF NamedOf
<1>10. FeaturesOf(a) = FeaturesOf(b) /\ FeaturesOf(NormalLeaf(a)) = FeaturesOf(a)
  BY <1>9, FeaturesAre
<1>11. Condition(kind, p, d) = a /\ Condition(kind, Norm(p), d) = b
  BY <1>2, <1>3 DEF a, b, v, w, r, s
<1>12. NormalLeaf(a) = NormalLeaf(b)
  BY <1>4, <1>8
<1> QED BY <1>8, <1>10, <1>11, <1>12 DEF SeenAs

LEMMA RangeSeen ==
    ASSUME NEW kind, NEW p, NEW d, InRange(kind, p, d), Fits(kind, p)
    PROVE  SeenAs(kind, p, d)
<1>1. PICK o : \E dim \in Dims :
        /\ Limits \subseteq DOMAIN p /\ IsFixed(o)
        /\ Condition(kind, p, d) = RangeOf(dim, o, p)
        /\ Condition(kind, Norm(p), d) = RangeOf(dim, o, Norm(p))
  BY DEF InRange
<1>2. PICK dim \in Dims :
        /\ Limits \subseteq DOMAIN p /\ IsFixed(o)
        /\ Condition(kind, p, d) = RangeOf(dim, o, p)
        /\ Condition(kind, Norm(p), d) = RangeOf(dim, o, Norm(p))
  BY <1>1
<1> DEFINE lo == p.lower
           hi == p.upper
           li == p.lower_inclusive
           ui == p.upper_inclusive
           x == Const(dim, lo.value, 0)
           y == Const(dim, hi.value, 0)
           l == In(dim, lo)
           u == In(dim, hi)
           a == Within("BETWEEN", o, l, u, li, ui)
           b == Within("BETWEEN", o, x, y, li, ui)
<1>3. /\ {"lower", "upper", "lower_inclusive", "upper_inclusive"} \subseteq DOMAIN p
      /\ "lower" \in Decimals /\ "upper" \in Decimals
      /\ "lower_inclusive" \notin Decimals /\ "upper_inclusive" \notin Decimals
  BY <1>2 DEF Limits, Decimals
<1>4. /\ IsDecimal(lo) /\ IsDecimal(hi) /\ Norm(p).lower = Decimal(lo) /\ Norm(p).upper = Decimal(hi)
      /\ Norm(p).lower_inclusive = li /\ Norm(p).upper_inclusive = ui
  BY <1>3, NormIs DEF Fits
<1>5. /\ l = Const(dim, lo.value, lo.zeros) /\ Decimal(l) = x /\ Decimal(In(dim, Decimal(lo))) = x
      /\ u = Const(dim, hi.value, hi.zeros) /\ Decimal(u) = y /\ Decimal(In(dim, Decimal(hi))) = y
      /\ Decimal(lo) = Const("NUMBER", lo.value, 0) /\ Decimal(hi) = Const("NUMBER", hi.value, 0)
  BY <1>4, DecimalIn
<1>6. In(dim, Decimal(lo)) = x /\ In(dim, Decimal(hi)) = y
  BY <1>5 DEF In, Const
<1>7. Decimal(o) = o
  BY <1>2, FixedOperand
<1>8. l.type = "constant" /\ u.type = "constant" /\ x.type = "constant" /\ y.type = "constant"
  BY <1>5 DEF Const
<1>9. Condition(kind, p, d) = a /\ Condition(kind, Norm(p), d) = b
  BY <1>2, <1>4, <1>6 DEF RangeOf
<1>10. Decimal(x) = x /\ Decimal(y) = y
  BY <1>5, <1>6
<1> HIDE DEF lo, hi, li, ui, x, y, l, u
<1>11. /\ a.type = "range" /\ OperandsOf(a) = {o, l, u} /\ NormalLeaf(a) = b
       /\ b.type = "range" /\ OperandsOf(b) = {o, x, y} /\ NormalLeaf(b) = b
  BY <1>5, <1>7, <1>10 DEF Within, OperandsOf, NormalLeaf
<1> HIDE DEF a, b
<1>12. NamedOf(OperandsOf(a)) = NamedOf(OperandsOf(b))
  BY <1>8, <1>11 DEF NamedOf
<1>13. FeaturesOf(a) = FeaturesOf(b)
  BY <1>12, FeaturesAre
<1> QED BY <1>9, <1>11, <1>13 DEF SeenAs

LEMMA ConditionSeen ==
    ASSUME NEW kind, NEW p, Fits(kind, p), NEW d
    PROVE  SeenAs(kind, p, d)
  BY ConditionForm, PlainSeen, ThresholdSeen, RangeSeen

(***************************************************************************)
(* What is built from a combination.                                       *)
(***************************************************************************)
\* The template, the direction and the places of a combination.
LEMMA CombinationIs ==
    ASSUME NEW s, IsSpace(s), NEW c \in Combinations(s)
    PROVE  LET entry == s.templates[c.template]
               d == s.directions[c.direction]
               atoms == AtomsOf(entry)
           IN  /\ c.template \in DOMAIN s.templates /\ c.direction \in DOMAIN s.directions
               /\ entry \in Entries(s) /\ IsEntry(entry)
               /\ d \in DirectionsOf(s) /\ d \in {"BUY", "SELL"}
               /\ c.timeframe \in DOMAIN s.timeframes /\ c.stop \in DOMAIN s.stops
               /\ c.target \in DOMAIN s.targets /\ c.window \in DOMAIN s.windows
               /\ c.parameters \in AtomBindings(atoms, d)
<1>1. PICK p \in Pairs(s) : c \in CombinationsOf(s, p[1], p[2])
  BY DEF Combinations
<1> DEFINE A == AtomBindings(AtomsOf(s.templates[p[1]]), s.directions[p[2]])
<1>2. c \in [template : {p[1]}, direction : {p[2]}, parameters : A, timeframe : DOMAIN s.timeframes,
             stop : DOMAIN s.stops, target : DOMAIN s.targets, window : DOMAIN s.windows]
  BY <1>1 DEF CombinationsOf
<1>3. /\ p[1] \in DOMAIN s.templates /\ p[2] \in DOMAIN s.directions
      /\ IsEntry(s.templates[p[1]]) /\ s.directions[p[2]] \in {"BUY", "SELL"}
  BY CombinationsOfCount DEF Pairs
<1> HIDE DEF A
<1>4. /\ c.template = p[1] /\ c.direction = p[2] /\ c.parameters \in A
      /\ c.timeframe \in DOMAIN s.timeframes /\ c.stop \in DOMAIN s.stops
      /\ c.target \in DOMAIN s.targets /\ c.window \in DOMAIN s.windows
  BY <1>2
<1>5. s.templates[p[1]] \in Entries(s) /\ s.directions[p[2]] \in DirectionsOf(s)
  BY <1>3 DEF Entries, DirectionsOf
<1> QED BY <1>3, <1>4, <1>5 DEF A

\* The combinations are all choices of places.
LEMMA IsCombination ==
    ASSUME NEW s, NEW t \in DOMAIN s.templates, NEW d \in DOMAIN s.directions,
           NEW q \in AtomBindings(AtomsOf(s.templates[t]), s.directions[d]),
           NEW w \in DOMAIN s.timeframes, NEW x \in DOMAIN s.stops, NEW y \in DOMAIN s.targets,
           NEW z \in DOMAIN s.windows
    PROVE  [template |-> t, direction |-> d, parameters |-> q, timeframe |-> w, stop |-> x,
            target |-> y, window |-> z] \in Combinations(s)
<1> DEFINE p == <<t, d>>
           c == [template |-> t, direction |-> d, parameters |-> q, timeframe |-> w, stop |-> x,
                 target |-> y, window |-> z]
<1>1. p \in Pairs(s) /\ p[1] = t /\ p[2] = d
  BY DEF Pairs
<1>2. c \in CombinationsOf(s, t, d)
  BY DEF CombinationsOf
<1> QED BY <1>1, <1>2 DEF Combinations

\* The choices of places for the atoms of a template, one by one.
LEMMA AtomBindingsAre ==
    ASSUME NEW atoms, NEW d, NEW q
    PROVE  q \in AtomBindings(atoms, d) <=>
               /\ q = [n \in DOMAIN atoms |-> q[n]]
               /\ \A n \in DOMAIN atoms :
                     LET grids == Effective(atoms[n], d)
                     IN  /\ q[n] = [key \in DOMAIN grids |-> q[n][key]]
                         /\ \A key \in DOMAIN grids : q[n][key] \in DOMAIN grids[key]
<1> DEFINE sets == [n \in DOMAIN atoms |-> Bindings(atoms[n], d)]
<1>1. AtomBindings(atoms, d) = Selections(sets)
  BY DEF AtomBindings
<1>2. \A n \in DOMAIN atoms : \A b : b \in Bindings(atoms[n], d) <=>
          LET grids == Effective(atoms[n], d)
          IN  /\ b = [key \in DOMAIN grids |-> b[key]]
              /\ \A key \in DOMAIN grids : b[key] \in DOMAIN grids[key]
  <2> TAKE n \in DOMAIN atoms
  <2> TAKE b
  <2> DEFINE grids == Effective(atoms[n], d)
             places == [key \in DOMAIN grids |-> DOMAIN grids[key]]
  <2>1. Bindings(atoms[n], d) = Selections(places)
    BY DEF Bindings
  <2>2. b \in Selections(places) <=>
            /\ b = [key \in DOMAIN grids |-> b[key]]
            /\ \A key \in DOMAIN grids : b[key] \in places[key]
    BY DEF Selections
  <2> QED BY <2>1, <2>2
<1>3. q \in Selections(sets) <=>
          /\ q = [n \in DOMAIN atoms |-> q[n]]
          /\ \A n \in DOMAIN atoms : q[n] \in sets[n]
  <2>1. DOMAIN sets = DOMAIN atoms
    OBVIOUS
  <2> HIDE DEF sets
  <2> QED BY <2>1 DEF Selections
<1> QED BY <1>1, <1>2, <1>3

\* What is built from a combination: a value for every parameter, from its grid.
LEMMA BuiltIs ==
    ASSUME NEW s, IsSpace(s), NEW c \in Combinations(s)
    PROVE  LET b == Built(s, c)
               entry == s.templates[c.template]
               d == s.directions[c.direction]
               atoms == AtomsOf(entry)
           IN  /\ b.entry = entry /\ b.direction = d
               /\ b.timeframe = s.timeframes[c.timeframe] /\ b.window = s.windows[c.window]
               /\ b.stop = s.stops[c.stop] /\ b.target = s.targets[c.target]
               /\ DOMAIN b.parameters = DOMAIN atoms /\ DOMAIN b.conditions = DOMAIN atoms
               /\ \A n \in DOMAIN atoms :
                     LET grids == Effective(atoms[n], d)
                     IN  /\ DOMAIN b.parameters[n] = DOMAIN grids
                         /\ \A key \in DOMAIN grids :
                               /\ c.parameters[n][key] \in DOMAIN grids[key]
                               /\ b.parameters[n][key] = grids[key][c.parameters[n][key]]
                         /\ b.conditions[n] = Condition(atoms[n].kind, b.parameters[n], d)
<1> DEFINE entry == s.templates[c.template]
           d == s.directions[c.direction]
           atoms == AtomsOf(entry)
           b == Built(s, c)
           value(n) == [key \in DOMAIN Effective(atoms[n], d) |->
                            Effective(atoms[n], d)[key][c.parameters[n][key]]]
           p == [n \in DOMAIN atoms |-> value(n)]
           k == [n \in DOMAIN atoms |-> Condition(atoms[n].kind, p[n], d)]
<1>1. c.parameters \in AtomBindings(atoms, d)
  BY CombinationIs
<1>2. \A n \in DOMAIN atoms : \A key \in DOMAIN Effective(atoms[n], d) :
          c.parameters[n][key] \in DOMAIN Effective(atoms[n], d)[key]
  BY <1>1, AtomBindingsAre
<1>3. b = [entry |-> entry, direction |-> d, parameters |-> p, conditions |-> k,
           timeframe |-> s.timeframes[c.timeframe], stop |-> s.stops[c.stop],
           target |-> s.targets[c.target], window |-> s.windows[c.window]]
  BY DEF Built
<1>4. /\ DOMAIN p = DOMAIN atoms /\ \A n \in DOMAIN atoms : p[n] = value(n)
      /\ DOMAIN k = DOMAIN atoms /\ \A n \in DOMAIN atoms : k[n] = Condition(atoms[n].kind, p[n], d)
  OBVIOUS
<1>5. \A n \in DOMAIN atoms :
          /\ DOMAIN value(n) = DOMAIN Effective(atoms[n], d)
          /\ \A key \in DOMAIN Effective(atoms[n], d) :
                 value(n)[key] = Effective(atoms[n], d)[key][c.parameters[n][key]]
  OBVIOUS
<1>6. /\ b.parameters = p /\ b.conditions = k /\ b.entry = entry /\ b.direction = d
      /\ b.timeframe = s.timeframes[c.timeframe] /\ b.window = s.windows[c.window]
      /\ b.stop = s.stops[c.stop] /\ b.target = s.targets[c.target]
  <2> HIDE DEF p, k, entry, d
  <2> QED BY <1>3
<1> HIDE DEF p, k, value, b
<1>7. \A n \in DOMAIN atoms :
          /\ DOMAIN b.parameters[n] = DOMAIN Effective(atoms[n], d)
          /\ \A key \in DOMAIN Effective(atoms[n], d) :
                b.parameters[n][key] = Effective(atoms[n], d)[key][c.parameters[n][key]]
          /\ b.conditions[n] = Condition(atoms[n].kind, b.parameters[n], d)
  BY <1>4, <1>5, <1>6
<1> QED BY <1>2, <1>4, <1>6, <1>7 DEF b

\* The kinds of the atoms of a valid template.
LEMMA ValidKinds ==
    ASSUME NEW s, IsSpace(s), NEW entry \in Entries(s), IsEntry(entry), EntryValid(s, entry)
    PROVE  \A n \in DOMAIN AtomsOf(entry) : AtomsOf(entry)[n].kind \in Kinds
<1> DEFINE kinds == {entry.confirmations[n].kind : n \in DOMAIN entry.confirmations}
<1>1. /\ Profiles(entry.base.kind) # {}
      /\ entry.confirmations # <<>> => kinds \in Profiles(entry.base.kind)
  BY DEF EntryValid
<1>2. entry.base.kind \in Kinds
  BY <1>1 DEF Profiles, Kinds
<1>3. \A f \in Profiles(entry.base.kind) : f \subseteq Kinds
  BY DEF Profiles, Kinds
<1>4. \A n \in DOMAIN entry.confirmations : entry.confirmations[n].kind \in Kinds
  <2> TAKE n \in DOMAIN entry.confirmations
  <2>1. entry.confirmations # <<>>
    OBVIOUS
  <2>2. entry.confirmations[n].kind \in kinds
    OBVIOUS
  <2> HIDE DEF kinds
  <2> QED BY <1>1, <1>3, <2>1, <2>2
<1>5. ASSUME NEW n \in DOMAIN AtomsOf(entry) PROVE AtomsOf(entry)[n].kind \in Kinds
  <2>1. CASE n = 1
    BY <2>1, <1>2, AtomsOfEntry
  <2>2. CASE n # 1
    BY <2>2, <1>4, AtomsOfEntry
  <2> QED BY <2>1, <2>2
<1> QED BY <1>5

LEMMA ModesOfKinds ==
    ASSUME NEW kind \in Kinds, NEW mode, "mode" \in Requirements(kind, mode)
    PROVE  kind \in WithMode
<1> SUFFICES ASSUME kind \notin WithMode PROVE FALSE
  OBVIOUS
<1>1. kind \in {"trend_close", "trend_pair", "breakout_previous", "momentum"}
  BY DEF Kinds, WithMode
<1>2. CASE kind = "trend_close"
  BY <1>2 DEF Requirements
<1>3. CASE kind = "trend_pair"
  BY <1>3 DEF Requirements
<1>4. CASE kind = "breakout_previous"
  BY <1>4 DEF Requirements
<1>5. CASE kind = "momentum"
  BY <1>5 DEF Requirements
<1> QED BY <1>1, <1>2, <1>3, <1>4, <1>5

\* The parameters that are built are those their condition needs.
LEMMA BuiltFits ==
    ASSUME NEW s, IsSpace(s), Valid(s), NEW c \in Combinations(s),
           NEW n \in DOMAIN AtomsOf(s.templates[c.template])
    PROVE  Fits(AtomsOf(s.templates[c.template])[n].kind, Built(s, c).parameters[n])
<1> DEFINE entry == s.templates[c.template]
           d == s.directions[c.direction]
           atom == AtomsOf(entry)[n]
           grids == Effective(atom, d)
           k == c.parameters[n]
           p == Built(s, c).parameters[n]
           mode == Mode(grids)
<1>1. /\ entry \in Entries(s) /\ IsEntry(entry) /\ d \in DirectionsOf(s) /\ d \in {"BUY", "SELL"}
  BY CombinationIs
<1>2. /\ DOMAIN p = DOMAIN grids
      /\ \A key \in DOMAIN grids : k[key] \in DOMAIN grids[key] /\ p[key] = grids[key][k[key]]
  BY BuiltIs
<1>3. EntryValid(s, entry)
  BY <1>1 DEF Valid
<1>4. atom.kind \in Kinds
  BY <1>1, <1>3, ValidKinds
<1>5. AtomValid(atom, d)
  BY <1>1, <1>3 DEF EntryValid
<1>6. /\ atom.kind \in WithMode => OneMode(grids)
      /\ DOMAIN grids = Requirements(atom.kind, mode)
      /\ \A key \in DOMAIN grids : \A i \in DOMAIN grids[key] : Allowed(atom.kind, mode, key, grids[key][i])
  BY <1>5 DEF AtomValid
<1>7. IsAtom(atom)
  BY <1>1, AtomsOfEntry
<1>8. IsGrids(grids)
  BY <1>1, <1>7, EffectiveGrids
<1> DEFINE kind == atom.kind
<1> HIDE DEF p, grids, k, kind
<1>9. "mode" \in DOMAIN grids => kind \in WithMode
  BY <1>4, <1>6, ModesOfKinds DEF kind
<1>10. ModeOf(p) = mode
  <2>1. CASE "mode" \in DOMAIN grids
    <3>1. Len(grids.mode) = 1 /\ IsAxis(grids.mode)
      BY <2>1, <1>6, <1>8, <1>9 DEF OneMode, IsGrids, kind
    <3>2. DOMAIN grids.mode = 1..1
      BY <3>1, AxisPlaces
    <3>3. k["mode"] = 1
      BY <2>1, <1>2, <3>2, SMT
    <3>4. p.mode = grids.mode[1]
      BY <2>1, <1>2, <3>3
    <3> QED BY <2>1, <1>2, <3>4 DEF ModeOf, Mode
  <2>2. CASE "mode" \notin DOMAIN grids
    BY <2>2, <1>2 DEF ModeOf, Mode
  <2> QED BY <2>1, <2>2
<1>11. \A key \in DOMAIN p : key \in Decimals => IsDecimal(p[key])
  <2> TAKE key \in DOMAIN p
  <2> HAVE key \in Decimals
  <2>1. grids[key][k[key]] \in ToSet(grids[key])
    BY <1>2 DEF ToSet
  <2> QED BY <2>1, <1>2, <1>8 DEF IsGrids
<1>12. kind = "volatility" => p.mode \in {"ROLLING_RANGE", "ATR_THRESHOLD", "ATR_RANGE"}
  <2> HAVE kind = "volatility"
  <2>1. "mode" \in DOMAIN grids
    BY <1>6 DEF Requirements, kind
  <2>2. Allowed(kind, mode, "mode", p.mode)
    BY <2>1, <1>2, <1>6 DEF kind
  <2>3. ChoicesOf(kind, mode) = [mode |-> {"ROLLING_RANGE", "ATR_THRESHOLD", "ATR_RANGE"}]
    BY DEF ChoicesOf
  <2>4. "mode" \in DOMAIN ChoicesOf(kind, mode)
    BY <2>3
  <2>5. p.mode \in ChoicesOf(kind, mode).mode
    BY <2>2, <2>4 DEF Allowed
  <2> QED BY <2>3, <2>5
<1>13. DOMAIN p = Requirements(kind, ModeOf(p))
  BY <1>2, <1>6, <1>10 DEF kind
<1>14. Fits(kind, p)
  BY <1>4, <1>11, <1>12, <1>13 DEF Fits, kind
<1> QED BY <1>14 DEF kind, p

(***************************************************************************)
(* What the policy limits.                                                 *)
(***************************************************************************)
\* The image of a finite set is finite and no larger.
LEMMA ImageCount ==
    ASSUME NEW f, NEW S, IsFiniteSet(S)
    PROVE  LET T == {f[x] : x \in S}
           IN  /\ IsFiniteSet(T) /\ Cardinality(T) <= Cardinality(S)
               /\ Cardinality(T) = Cardinality(S) => \A x, y \in S : f[x] = f[y] => x = y
<1> DEFINE T == {f[x] : x \in S}
           g == [x \in S |-> f[x]]
<1>1. g \in Surjection(S, T)
  BY DEF Surjection
<1> HIDE DEF T, g
<1>2. /\ IsFiniteSet(T) /\ Cardinality(T) <= Cardinality(S)
      /\ Cardinality(T) = Cardinality(S) <=> g \in Injection(S, T)
  BY <1>1, FS_Surjection
<1>3. g \in Injection(S, T) => \A x, y \in S : f[x] = f[y] => x = y
  <2>1. g \in Injection(S, T) => \A x, y \in S : g[x] = g[y] => x = y
    BY DEF Injection, IsInjective
  <2>2. \A x \in S : g[x] = f[x]
    BY DEF g
  <2> QED BY <2>1, <2>2
<1> QED BY <1>2, <1>3 DEF T

LEMMA FeaturesFinite ==
    ASSUME NEW kind, NEW p, Fits(kind, p), NEW d
    PROVE  IsFiniteSet(FeaturesOf(Condition(kind, p, d)))
<1> DEFINE c == Condition(kind, p, d)
           X == NamedOf(OperandsOf(c))
<1>1. IsFiniteSet(OperandsOf(c))
  <2>1. \A x, y : IsFiniteSet({x, y})
    <3> TAKE x, y
    <3>1. IsFiniteSet({x} \cup {y}) /\ {x} \cup {y} = {x, y}
      BY FS_Singleton, FS_AddElement
    <3> QED BY <3>1
  <2>2. \A x, y, z : IsFiniteSet({x, y, z})
    <3> TAKE x, y, z
    <3>1. IsFiniteSet({x, y} \cup {z}) /\ {x, y} \cup {z} = {x, y, z}
      BY <2>1, FS_AddElement
    <3> QED BY <3>1
  <2> HIDE DEF c
  <2> QED BY <2>1, <2>2 DEF OperandsOf
<1>2. IsFiniteSet(X)
  BY <1>1, FS_Subset DEF NamedOf
<1>3. FeaturesOf(c) \subseteq X \cup {Feature("PRICE", "session_trade_vwap", <<>>)}
  <2> HIDE DEF c
  <2> QED BY DEF FeaturesOf, NamedOf
<1>4. IsFiniteSet(X \cup {Feature("PRICE", "session_trade_vwap", <<>>)})
  BY <1>2, FS_AddElement
<1> QED BY <1>3, <1>4, FS_Subset

\* The places of the atoms of a template.
LEMMA AtomPlaces ==
    ASSUME NEW entry, IsEntry(entry)
    PROVE  /\ IsFiniteSet(DOMAIN AtomsOf(entry))
           /\ Cardinality(DOMAIN AtomsOf(entry)) = 1 + Len(entry.confirmations)
<1> DEFINE k == Len(entry.confirmations)
<1>1. k \in Nat /\ DOMAIN AtomsOf(entry) = 1..(1 + k)
  BY AtomsOfEntry
<1> HIDE DEF k
<1>2. 1 \in Int /\ 1 + k \in Int
  BY <1>1
<1>3. IsFiniteSet(1..(1 + k)) /\ Cardinality(1..(1 + k)) = IF 1 > 1 + k THEN 0 ELSE (1 + k) - 1 + 1
  BY <1>2, FS_Interval
<1>4. (IF 1 > 1 + k THEN 0 ELSE (1 + k) - 1 + 1) = 1 + k
  BY <1>1
<1> QED BY <1>1, <1>3, <1>4 DEF k

\* What holds of a candidate.
Within3(id) ==
    /\ Cardinality(id.conditions) <= Policy.max_conditions
    /\ Cardinality({c \in id.conditions : c.type = "cross"}) <= Policy.max_cross_conditions
    /\ Cardinality(UNION {FeaturesOf(c) : c \in id.conditions}) <= Policy.max_features

\* What the policy limits in the grids holds of what is built from them.
LEMMA BuiltWithinPolicy ==
    ASSUME NEW s, IsSpace(s), Valid(s), NEW c \in Combinations(s), Rejection(Built(s, c)) = "NONE"
    PROVE  Within3(Identity(Built(s, c)))
<1> DEFINE b == Built(s, c)
           entry == s.templates[c.template]
           d == s.directions[c.direction]
           atoms == AtomsOf(entry)
           D == DOMAIN atoms
           id == Identity(b)
           f == [n \in D |-> NormalLeaf(b.conditions[n])]
           g == [n \in D |-> FeaturesOf(b.conditions[n])]
<1>1. /\ entry \in Entries(s) /\ IsEntry(entry) /\ d \in DirectionsOf(s) /\ d \in {"BUY", "SELL"}
  BY CombinationIs
<1>2. /\ DOMAIN b.conditions = D /\ DOMAIN b.parameters = D
      /\ \A n \in D : b.conditions[n] = Condition(atoms[n].kind, b.parameters[n], d)
  BY BuiltIs
<1>3. \A n \in D : Fits(atoms[n].kind, b.parameters[n])
  BY BuiltFits
<1>4. EntryValid(s, entry)
  BY <1>1 DEF Valid
<1>5. /\ 1 + Len(entry.confirmations) <= Policy.max_conditions
      /\ Cardinality(CrossesOf(entry, d)) <= Policy.max_cross_conditions
  BY <1>1, <1>4 DEF EntryValid
<1>6. /\ Policy.max_conditions \in Nat /\ Policy.max_cross_conditions \in Nat
      /\ Policy.max_features \in Nat
  BY SpacesAssumption
<1>7. IsFiniteSet(D) /\ Cardinality(D) = 1 + Len(entry.confirmations)
  BY <1>1, AtomPlaces
<1>8. id.conditions = {f[n] : n \in D}
  BY <1>2 DEF Identity
<1>9. \A n \in D : SeenAs(atoms[n].kind, b.parameters[n], d)
  BY <1>3, ConditionSeen
<1>10. \A n \in D : \A key \in DOMAIN Effective(atoms[n], d) :
          /\ c.parameters[n][key] \in DOMAIN Effective(atoms[n], d)[key]
          /\ b.parameters[n][key] = Effective(atoms[n], d)[key][c.parameters[n][key]]
          /\ DOMAIN b.parameters[n] = DOMAIN Effective(atoms[n], d)
  BY BuiltIs
<1>18. DOMAIN f = D /\ DOMAIN g = D /\ \A n \in D : f[n] = NormalLeaf(b.conditions[n]) /\ g[n] = FeaturesOf(b.conditions[n])
  OBVIOUS
<1>19. ~(Cardinality(UNION {FeaturesOf(b.conditions[n]) : n \in D}) > Policy.max_features)
  BY <1>2 DEF Rejection
<1>20. D = DOMAIN AtomsOf(entry)
  OBVIOUS
<1> HIDE DEF D, f, g, b, id
<1>11. Cardinality(id.conditions) <= Policy.max_conditions
  <2>1. IsFiniteSet({f[n] : n \in D}) /\ Cardinality({f[n] : n \in D}) <= Cardinality(D)
    BY <1>7, ImageCount
  <2>2. Cardinality({f[n] : n \in D}) \in Nat /\ Cardinality(D) \in Nat
    BY <1>7, <2>1, FS_CardinalityType
  <2> QED BY <1>5, <1>6, <1>7, <1>8, <2>1, <2>2
<1>12. Cardinality({x \in id.conditions : x.type = "cross"}) <= Policy.max_cross_conditions
  <2> DEFINE C == CrossesOf(entry, d)
             X == {x \in id.conditions : x.type = "cross"}
  <2>1. C \subseteq D
    BY <1>20 DEF CrossesOf
  <2>2. ASSUME NEW n \in D, f[n].type = "cross" PROVE n \in C
    <3>1. Crosses(b.parameters[n])
      BY <2>2, <1>2, <1>9, <1>18 DEF SeenAs
    <3>2. "operator" \in DOMAIN b.parameters[n] /\ b.parameters[n]["operator"] = "CROSS"
      BY <3>1 DEF Crosses
    <3> DEFINE grids == Effective(atoms[n], d)
               k == c.parameters[n]["operator"]
    <3>3. "operator" \in DOMAIN grids
      BY <3>2, BuiltIs, <1>20 DEF b
    <3>4. k \in DOMAIN grids["operator"] /\ grids["operator"][k] = "CROSS"
      BY <3>2, <3>3, <1>10
    <3> QED BY <3>3, <3>4, <1>20 DEF CrossesOf
  <2>3. X \subseteq {f[n] : n \in C}
    BY <1>8, <2>2
  <2>4. IsFiniteSet(C)
    BY <1>7, <2>1, FS_Subset
  <2> HIDE DEF C, X
  <2>5. IsFiniteSet({f[n] : n \in C}) /\ Cardinality({f[n] : n \in C}) <= Cardinality(C)
    BY <2>4, ImageCount
  <2>6. IsFiniteSet(X) /\ Cardinality(X) <= Cardinality({f[n] : n \in C})
    BY <2>3, <2>5, FS_Subset
  <2>7. Cardinality(X) \in Nat /\ Cardinality({f[n] : n \in C}) \in Nat /\ Cardinality(C) \in Nat
    BY <2>4, <2>5, <2>6, FS_CardinalityType
  <2>8. Cardinality(X) <= Policy.max_cross_conditions
    BY <1>5, <1>6, <2>5, <2>6, <2>7 DEF C
  <2> QED BY <2>8 DEF X
<1>13. Cardinality(UNION {FeaturesOf(x) : x \in id.conditions}) <= Policy.max_features
  <2> DEFINE U == UNION {g[n] : n \in D}
  <2>1. \A n \in D : FeaturesOf(f[n]) = g[n] /\ IsFiniteSet(g[n])
    <3> TAKE n \in D
    <3>1. FeaturesOf(NormalLeaf(b.conditions[n])) = FeaturesOf(b.conditions[n])
      BY <1>2, <1>9 DEF SeenAs
    <3>2. IsFiniteSet(FeaturesOf(b.conditions[n]))
      BY <1>2, <1>3, FeaturesFinite
    <3> QED BY <1>18, <3>1, <3>2
  <2>2. UNION {FeaturesOf(x) : x \in id.conditions} = U
    BY <1>8, <2>1
  <2>3. UNION {FeaturesOf(b.conditions[n]) : n \in D} = U
    BY <1>18
  <2>4. IsFiniteSet(U)
    <3>1. IsFiniteSet({g[n] : n \in D})
      BY <1>7, ImageCount
    <3>2. \A G \in {g[n] : n \in D} : IsFiniteSet(G)
      BY <2>1
    <3> QED BY <3>1, <3>2, FS_UNION
  <2>5. Cardinality(U) \in Nat
    BY <2>4, FS_CardinalityType
  <2>6. ~(Cardinality(U) > Policy.max_features)
    BY <1>19, <2>3
  <2> HIDE DEF U
  <2>7. Cardinality(U) <= Policy.max_features
    BY <1>6, <2>5, <2>6
  <2> QED BY <2>2, <2>7
<1> QED BY <1>11, <1>12, <1>13 DEF Within3, id, b

(***************************************************************************)
(* Two ways of writing one space.                                          *)
(***************************************************************************)
\* An atom of what is built, as a canonical form sees it.
At(b, n) == <<AtomsOf(b.entry)[n].kind, Norm(b.parameters[n])>>

\* What an identity and a rejection depend on.
ContentOf(b) ==
    [direction |-> b.direction, timeframe |-> b.timeframe, window |-> b.window,
     stop |-> Decimal(b.stop), target |-> Decimal(b.target),
     base |-> At(b, 1), atoms |-> {At(b, n) : n \in DOMAIN b.parameters}]

\* The leaf and the features of an atom that is seen this way.
LeafOf(a, d) == NormalLeaf(Condition(a[1], a[2], d))
FeaturesAt(a, d) == FeaturesOf(Condition(a[1], a[2], d))

LEMMA ContentOfBuilt ==
    ASSUME NEW s, IsSpace(s), Valid(s), NEW c \in Combinations(s)
    PROVE  LET b == Built(s, c)
               x == ContentOf(b)
           IN  /\ Identity(b).conditions = {LeafOf(a, b.direction) : a \in x.atoms}
               /\ UNION {FeaturesOf(b.conditions[n]) : n \in DOMAIN b.conditions} =
                      UNION {FeaturesAt(a, b.direction) : a \in x.atoms}
               /\ b.entry.base.kind = x.base[1]
               /\ x.base[1] = "trend_pair" =>
                      /\ b.parameters[1].short_period = x.base[2].short_period
                      /\ b.parameters[1].long_period = x.base[2].long_period
<1> DEFINE b == Built(s, c)
           entry == s.templates[c.template]
           atoms == AtomsOf(entry)
           d == s.directions[c.direction]
           D == DOMAIN atoms
           x == ContentOf(b)
<1>1. /\ b.entry = entry /\ b.direction = d /\ DOMAIN b.conditions = D /\ DOMAIN b.parameters = D
      /\ \A n \in D : b.conditions[n] = Condition(atoms[n].kind, b.parameters[n], d)
  BY BuiltIs
<1>2. \A n \in D : Fits(atoms[n].kind, b.parameters[n])
  BY BuiltFits
<1>3. \A n \in D : SeenAs(atoms[n].kind, b.parameters[n], d)
  BY <1>2, ConditionSeen
<1>4. \A n \in D : At(b, n)[1] = atoms[n].kind /\ At(b, n)[2] = Norm(b.parameters[n])
  BY <1>1 DEF At
<1>5. x.atoms = {At(b, n) : n \in D} /\ x.base = At(b, 1)
  BY <1>1 DEF ContentOf
<1>6. IsEntry(entry)
  BY CombinationIs
<1>7. 1 \in D /\ atoms[1] = entry.base
  <2>1. Len(entry.confirmations) \in Nat /\ D = 1..(1 + Len(entry.confirmations)) /\ atoms[1] = entry.base
    BY <1>6, AtomsOfEntry
  <2> QED BY <2>1, SMT
<1> HIDE DEF b, D, x, atoms, entry, d
<1>8. \A n \in D : /\ NormalLeaf(b.conditions[n]) = LeafOf(At(b, n), d)
                   /\ FeaturesOf(b.conditions[n]) = FeaturesAt(At(b, n), d)
  BY <1>1, <1>3, <1>4 DEF SeenAs, LeafOf, FeaturesAt
<1>9. Identity(b).conditions = {NormalLeaf(b.conditions[n]) : n \in D}
  BY <1>1 DEF Identity
<1>10. Identity(b).conditions = {LeafOf(a, b.direction) : a \in x.atoms}
  BY <1>1, <1>5, <1>8, <1>9
<1>11. UNION {FeaturesOf(b.conditions[n]) : n \in DOMAIN b.conditions} =
           UNION {FeaturesAt(a, b.direction) : a \in x.atoms}
  <2>1. {FeaturesOf(b.conditions[n]) : n \in DOMAIN b.conditions} =
            {FeaturesAt(a, b.direction) : a \in x.atoms}
    BY <1>1, <1>5, <1>8
  <2> QED BY <2>1
<1>12. b.entry.base.kind = x.base[1]
  BY <1>1, <1>4, <1>5, <1>7
<1>13. ASSUME x.base[1] = "trend_pair"
       PROVE  /\ b.parameters[1].short_period = x.base[2].short_period
              /\ b.parameters[1].long_period = x.base[2].long_period
  <2> DEFINE p == b.parameters[1]
  <2>1. Fits("trend_pair", p) /\ x.base[2] = Norm(p)
    BY <1>2, <1>4, <1>5, <1>7, <1>13
  <2> HIDE DEF p
  <2>2. {"short_period", "long_period"} \subseteq DOMAIN p
    BY <2>1 DEF Fits, Requirements
  <2>3. Norm(p).short_period = p.short_period /\ Norm(p).long_period = p.long_period
    BY <2>2, NormIs DEF Decimals
  <2> QED BY <2>1, <2>3 DEF p
<1> QED BY <1>10, <1>11, <1>12, <1>13 DEF b, x

\* Combinations of one content are one candidate, or rejected for one reason.
LEMMA ContentDecides ==
    ASSUME NEW s, IsSpace(s), Valid(s), NEW c \in Combinations(s),
           NEW r, IsSpace(r), Valid(r), NEW e \in Combinations(r),
           ContentOf(Built(s, c)) = ContentOf(Built(r, e))
    PROVE  /\ Identity(Built(s, c)) = Identity(Built(r, e))
           /\ Rejection(Built(s, c)) = Rejection(Built(r, e))
<1> DEFINE b == Built(s, c)
           a == Built(r, e)
<1>1. /\ Identity(b).conditions = {LeafOf(x, b.direction) : x \in ContentOf(b).atoms}
      /\ UNION {FeaturesOf(b.conditions[n]) : n \in DOMAIN b.conditions} =
             UNION {FeaturesAt(x, b.direction) : x \in ContentOf(b).atoms}
      /\ b.entry.base.kind = ContentOf(b).base[1]
      /\ ContentOf(b).base[1] = "trend_pair" =>
             /\ b.parameters[1].short_period = ContentOf(b).base[2].short_period
             /\ b.parameters[1].long_period = ContentOf(b).base[2].long_period
  BY ContentOfBuilt
<1>2. /\ Identity(a).conditions = {LeafOf(x, a.direction) : x \in ContentOf(a).atoms}
      /\ UNION {FeaturesOf(a.conditions[n]) : n \in DOMAIN a.conditions} =
             UNION {FeaturesAt(x, a.direction) : x \in ContentOf(a).atoms}
      /\ a.entry.base.kind = ContentOf(a).base[1]
      /\ ContentOf(a).base[1] = "trend_pair" =>
             /\ a.parameters[1].short_period = ContentOf(a).base[2].short_period
             /\ a.parameters[1].long_period = ContentOf(a).base[2].long_period
  BY ContentOfBuilt
<1> HIDE DEF a, b
<1>3. ContentOf(a) = ContentOf(b)
  BY DEF a, b
<1>4. /\ a.direction = b.direction /\ a.timeframe = b.timeframe /\ a.window = b.window
      /\ Decimal(a.stop) = Decimal(b.stop) /\ Decimal(a.target) = Decimal(b.target)
  BY <1>3 DEF ContentOf
<1>5. Identity(a).conditions = Identity(b).conditions
  BY <1>1, <1>2, <1>3, <1>4
<1>6. Identity(a) = Identity(b)
  <2>1. \A z : Identity(z) = [direction |-> z.direction, timeframe |-> z.timeframe,
                              window |-> z.window, stop |-> Decimal(z.stop),
                              target |-> Decimal(z.target), conditions |-> Identity(z).conditions]
    BY DEF Identity
  <2> QED BY <2>1, <1>4, <1>5
<1>7. Rejection(a) = Rejection(b)
  <2>1. UNION {FeaturesOf(a.conditions[n]) : n \in DOMAIN a.conditions} =
            UNION {FeaturesOf(b.conditions[n]) : n \in DOMAIN b.conditions}
    BY <1>1, <1>2, <1>3, <1>4
  <2>2. a.entry.base.kind = b.entry.base.kind
    BY <1>1, <1>2, <1>3
  <2>3. a.entry.base.kind = "trend_pair" =>
            /\ a.parameters[1].short_period = b.parameters[1].short_period
            /\ a.parameters[1].long_period = b.parameters[1].long_period
    BY <1>1, <1>2, <1>3
  <2> QED BY <1>6, <2>1, <2>2, <2>3 DEF Rejection
<1> QED BY <1>6, <1>7 DEF a, b

\* A value as search_space_id sees it.
Clean(key, v) == IF key \in Decimals THEN Decimal(v) ELSE v

\* Grids of one meaning have the same keys and the same values, up to zeros.
LEMMA SameGrids ==
    ASSUME NEW g, NEW h, SemanticGrids(g) = SemanticGrids(h)
    PROVE  /\ DOMAIN g = DOMAIN h
           /\ \A key \in DOMAIN g : \A i \in DOMAIN g[key] : \E j \in DOMAIN h[key] :
                  Clean(key, g[key][i]) = Clean(key, h[key][j])
<1> DEFINE G == SemanticGrids(g)
           H == SemanticGrids(h)
<1>1. DOMAIN G = DOMAIN g /\ \A key \in DOMAIN g : G[key] = {Clean(key, g[key][n]) : n \in DOMAIN g[key]}
  BY DEF SemanticGrids, Clean
<1>2. DOMAIN H = DOMAIN h /\ \A key \in DOMAIN h : H[key] = {Clean(key, h[key][n]) : n \in DOMAIN h[key]}
  BY DEF SemanticGrids, Clean
<1> HIDE DEF G, H
<1>3. G = H
  BY DEF G, H
<1>4. DOMAIN g = DOMAIN h
  BY <1>1, <1>2, <1>3
<1>5. ASSUME NEW key \in DOMAIN g, NEW i \in DOMAIN g[key]
      PROVE  \E j \in DOMAIN h[key] : Clean(key, g[key][i]) = Clean(key, h[key][j])
  <2>1. Clean(key, g[key][i]) \in G[key]
    BY <1>1
  <2>2. H[key] = {Clean(key, h[key][n]) : n \in DOMAIN h[key]}
    BY <1>2, <1>4
  <2>3. Clean(key, g[key][i]) \in {Clean(key, h[key][n]) : n \in DOMAIN h[key]}
    BY <2>1, <2>2, <1>3
  <2> QED BY <2>3
<1> QED BY <1>4, <1>5

\* Atoms of one meaning, for a direction of their spaces.
LEMMA SameAtoms ==
    ASSUME NEW s, NEW r, DirectionsOf(s) = DirectionsOf(r), NEW d \in DirectionsOf(s), d \in {"BUY", "SELL"},
           NEW a, IsAtom(a), NEW b, IsAtom(b), SemanticAtom(s, a) = SemanticAtom(r, b)
    PROVE  /\ a.kind = b.kind
           /\ DOMAIN Effective(a, d) = DOMAIN Effective(b, d)
           /\ \A key \in DOMAIN Effective(a, d) : \A i \in DOMAIN Effective(a, d)[key] :
                 \E j \in DOMAIN Effective(b, d)[key] :
                     Clean(key, Effective(a, d)[key][i]) = Clean(key, Effective(b, d)[key][j])
<1>1. /\ a.kind = b.kind /\ SemanticGrids(a.grids) = SemanticGrids(b.grids)
      /\ SemanticGrids(a.sides[d]) = SemanticGrids(b.sides[d])
  <2> DEFINE X == [e \in DirectionsOf(s) |-> SemanticGrids(a.sides[e])]
             Y == [e \in DirectionsOf(s) |-> SemanticGrids(b.sides[e])]
  <2>1. SemanticAtom(s, a) = [kind |-> a.kind, grids |-> SemanticGrids(a.grids), sides |-> X]
    BY DEF SemanticAtom
  <2>2. SemanticAtom(r, b) = [kind |-> b.kind, grids |-> SemanticGrids(b.grids), sides |-> Y]
    BY DEF SemanticAtom
  <2>3. X[d] = SemanticGrids(a.sides[d]) /\ Y[d] = SemanticGrids(b.sides[d])
    OBVIOUS
  <2> HIDE DEF X, Y
  <2> DEFINE M == SemanticAtom(s, a)
             N == SemanticAtom(r, b)
  <2>5. M.kind = a.kind /\ M.grids = SemanticGrids(a.grids) /\ M.sides = X
    BY <2>1
  <2>6. N.kind = b.kind /\ N.grids = SemanticGrids(b.grids) /\ N.sides = Y
    BY <2>2
  <2>7. M = N
    OBVIOUS
  <2> HIDE DEF M, N
  <2>4. a.kind = b.kind /\ SemanticGrids(a.grids) = SemanticGrids(b.grids) /\ X = Y
    BY <2>5, <2>6, <2>7
  <2> QED BY <2>3, <2>4
<1>2. /\ DOMAIN a.grids = DOMAIN b.grids /\ DOMAIN a.sides[d] = DOMAIN b.sides[d]
      /\ \A key \in DOMAIN a.grids : \A i \in DOMAIN a.grids[key] : \E j \in DOMAIN b.grids[key] :
             Clean(key, a.grids[key][i]) = Clean(key, b.grids[key][j])
      /\ \A key \in DOMAIN a.sides[d] : \A i \in DOMAIN a.sides[d][key] : \E j \in DOMAIN b.sides[d][key] :
             Clean(key, a.sides[d][key][i]) = Clean(key, b.sides[d][key][j])
  BY <1>1, SameGrids
<1> DEFINE E == Effective(a, d)
           F == Effective(b, d)
<1>3. /\ DOMAIN E = DOMAIN a.grids \cup DOMAIN a.sides[d]
      /\ \A key \in DOMAIN E : E[key] = IF key \in DOMAIN a.grids THEN a.grids[key] ELSE a.sides[d][key]
      /\ DOMAIN F = DOMAIN b.grids \cup DOMAIN b.sides[d]
      /\ \A key \in DOMAIN F : F[key] = IF key \in DOMAIN b.grids THEN b.grids[key] ELSE b.sides[d][key]
  BY EffectiveGrids
<1> HIDE DEF E, F
<1>4. DOMAIN E = DOMAIN F
  BY <1>2, <1>3
<1>5. ASSUME NEW key \in DOMAIN E, NEW i \in DOMAIN E[key]
      PROVE  \E j \in DOMAIN F[key] : Clean(key, E[key][i]) = Clean(key, F[key][j])
  <2>1. CASE key \in DOMAIN a.grids
    BY <2>1, <1>2, <1>3, <1>4
  <2>2. CASE key \notin DOMAIN a.grids
    BY <2>2, <1>2, <1>3, <1>4
  <2> QED BY <2>1, <2>2
<1> QED BY <1>1, <1>4, <1>5 DEF E, F

\* The confirmations of a valid template are of different kinds.
LEMMA ConfirmationsDiffer ==
    ASSUME NEW s, NEW entry, IsEntry(entry), EntryValid(s, entry)
    PROVE  \A n, m \in DOMAIN entry.confirmations :
               entry.confirmations[n].kind = entry.confirmations[m].kind => n = m
<1> DEFINE c == entry.confirmations
           D == DOMAIN c
           f == [n \in D |-> c[n].kind]
<1>1. IsAxis(c)
  BY DEF IsEntry
<1>2. IsFiniteSet(D) /\ Cardinality(D) = Len(c)
  BY <1>1, AxisPlaces
<1>3. Cardinality({c[n].kind : n \in D}) = Len(c)
  BY DEF EntryValid
<1>4. {f[n] : n \in D} = {c[n].kind : n \in D}
  OBVIOUS
<1>5. \A n \in D : f[n] = c[n].kind
  OBVIOUS
<1> HIDE DEF D, f, c
<1>6. Cardinality({f[n] : n \in D}) = Cardinality(D)
  BY <1>2, <1>3, <1>4
<1>7. \A n, m \in D : f[n] = f[m] => n = m
  BY <1>2, <1>6, ImageCount
<1> QED BY <1>5, <1>7 DEF D, c

\* Templates of one meaning: the atoms of one are those of the other, in some order.
Matches(s, a, r, b, m, n) ==
    /\ SemanticAtom(s, AtomsOf(a)[n]) = SemanticAtom(r, AtomsOf(b)[m])
    /\ n = 1 <=> m = 1

SemanticEntry(s, e) ==
    [base |-> SemanticAtom(s, e.base),
     confirmations |-> {SemanticAtom(s, e.confirmations[n]) : n \in DOMAIN e.confirmations}]

LEMMA SameEntries ==
    ASSUME NEW s, NEW a, IsEntry(a), EntryValid(s, a), NEW r, NEW b, IsEntry(b), EntryValid(r, b),
           SemanticEntry(s, a) = SemanticEntry(r, b)
    PROVE  /\ \A m \in DOMAIN AtomsOf(b) : \E n \in DOMAIN AtomsOf(a) : Matches(s, a, r, b, m, n)
           /\ \A n \in DOMAIN AtomsOf(a) : \E m \in DOMAIN AtomsOf(b) : Matches(s, a, r, b, m, n)
           /\ \A m \in DOMAIN AtomsOf(b) : \A n, k \in DOMAIN AtomsOf(a) :
                  Matches(s, a, r, b, m, n) /\ Matches(s, a, r, b, m, k) => n = k
<1> DEFINE x(n) == SemanticAtom(s, a.confirmations[n])
           y(m) == SemanticAtom(r, b.confirmations[m])
           C == DOMAIN a.confirmations
           D == DOMAIN b.confirmations
<1>1. SemanticAtom(s, a.base) = SemanticAtom(r, b.base) /\ {x(n) : n \in C} = {y(m) : m \in D}
  <2> DEFINE M == SemanticEntry(s, a)
             N == SemanticEntry(r, b)
  <2>1. M.base = SemanticAtom(s, a.base) /\ M.confirmations = {x(n) : n \in C}
    BY DEF SemanticEntry
  <2>2. N.base = SemanticAtom(r, b.base) /\ N.confirmations = {y(m) : m \in D}
    BY DEF SemanticEntry
  <2>3. M = N
    OBVIOUS
  <2> HIDE DEF M, N
  <2> QED BY <2>1, <2>2, <2>3
<1>2. /\ \A n \in C : \E m \in D : x(n) = y(m)
      /\ \A m \in D : \E n \in C : x(n) = y(m)
  BY <1>1
<1>3. /\ AtomsOf(a)[1] = a.base /\ Len(a.confirmations) \in Nat
      /\ DOMAIN AtomsOf(a) = 1..(1 + Len(a.confirmations)) /\ C = 1..Len(a.confirmations)
      /\ \A n \in C : AtomsOf(a)[1 + n] = a.confirmations[n]
      /\ \A n \in DOMAIN AtomsOf(a) : n # 1 => n - 1 \in C /\ AtomsOf(a)[n] = a.confirmations[n - 1]
  BY AtomsOfEntry
<1>4. /\ AtomsOf(b)[1] = b.base /\ Len(b.confirmations) \in Nat
      /\ DOMAIN AtomsOf(b) = 1..(1 + Len(b.confirmations)) /\ D = 1..Len(b.confirmations)
      /\ \A n \in D : AtomsOf(b)[1 + n] = b.confirmations[n]
      /\ \A n \in DOMAIN AtomsOf(b) : n # 1 => n - 1 \in D /\ AtomsOf(b)[n] = b.confirmations[n - 1]
  BY AtomsOfEntry
<1>5. /\ 1 \in DOMAIN AtomsOf(a) /\ 1 \in DOMAIN AtomsOf(b)
      /\ \A n \in C : 1 + n \in DOMAIN AtomsOf(a) /\ 1 + n # 1
      /\ \A m \in D : 1 + m \in DOMAIN AtomsOf(b) /\ 1 + m # 1
  BY <1>3, <1>4, SMT
<1>6. \A n, m \in C : a.confirmations[n].kind = a.confirmations[m].kind => n = m
  BY ConfirmationsDiffer
<1>13. \A n, m \in C : x(n) = x(m) => n = m
  <2> TAKE n, m \in C
  <2> HAVE x(n) = x(m)
  <2>1. \A u : SemanticAtom(s, u).kind = u.kind
    BY DEF SemanticAtom
  <2> HIDE DEF C
  <2> QED BY <2>1, <1>6
<1>7. \A n \in C : SemanticAtom(s, AtomsOf(a)[1 + n]) = x(n)
  BY <1>3
<1>8. \A m \in D : SemanticAtom(r, AtomsOf(b)[1 + m]) = y(m)
  BY <1>4
<1> DEFINE A == DOMAIN AtomsOf(a)
           B == DOMAIN AtomsOf(b)
           X(n) == SemanticAtom(s, AtomsOf(a)[n])
           Y(m) == SemanticAtom(r, AtomsOf(b)[m])
<1>9. X(1) = Y(1) /\ 1 \in A /\ 1 \in B
  BY <1>1, <1>3, <1>4, <1>5
<1>10. /\ \A n \in A : n # 1 => n - 1 \in C /\ X(n) = x(n - 1) /\ n = 1 + (n - 1)
       /\ \A m \in B : m # 1 => m - 1 \in D /\ Y(m) = y(m - 1) /\ m = 1 + (m - 1)
  <2>1. \A n \in A : n # 1 => n = 1 + (n - 1)
    BY <1>3, SMT
  <2>2. \A m \in B : m # 1 => m = 1 + (m - 1)
    BY <1>4, SMT
  <2> QED BY <2>1, <2>2, <1>3, <1>4
<1>11. /\ \A n \in C : 1 + n \in A /\ 1 + n # 1 /\ X(1 + n) = x(n)
       /\ \A m \in D : 1 + m \in B /\ 1 + m # 1 /\ Y(1 + m) = y(m)
  BY <1>5, <1>7, <1>8
<1>12. \A m, n : Matches(s, a, r, b, m, n) <=> X(n) = Y(m) /\ (n = 1 <=> m = 1)
  BY DEF Matches
<1> HIDE DEF A, B, C, D, X, Y, x, y
<1>14. \A m \in B : \E n \in A : Matches(s, a, r, b, m, n)
  <2> TAKE m \in B
  <2>1. CASE m = 1
    BY <2>1, <1>9, <1>12
  <2>2. CASE m # 1
    <3>1. PICK n \in C : x(n) = y(m - 1)
      BY <2>2, <1>2, <1>10
    <3>2. 1 + n \in A /\ 1 + n # 1 /\ X(1 + n) = Y(m)
      BY <2>2, <3>1, <1>10, <1>11
    <3> QED BY <2>2, <3>2, <1>12
  <2> QED BY <2>1, <2>2
<1>15. \A n \in A : \E m \in B : Matches(s, a, r, b, m, n)
  <2> TAKE n \in A
  <2>1. CASE n = 1
    BY <2>1, <1>9, <1>12
  <2>2. CASE n # 1
    <3>1. PICK m \in D : x(n - 1) = y(m)
      BY <2>2, <1>2, <1>10
    <3>2. 1 + m \in B /\ 1 + m # 1 /\ X(n) = Y(1 + m)
      BY <2>2, <3>1, <1>10, <1>11
    <3> QED BY <2>2, <3>2, <1>12
  <2> QED BY <2>1, <2>2
<1>16. ASSUME NEW m \in B, NEW n \in A, NEW k \in A,
              Matches(s, a, r, b, m, n), Matches(s, a, r, b, m, k)
       PROVE  n = k
  <2>1. X(n) = X(k) /\ (n = 1 <=> k = 1)
    BY <1>16, <1>12
  <2>2. CASE n = 1
    BY <2>1, <2>2
  <2>3. CASE n # 1
    <3>1. x(n - 1) = x(k - 1) /\ n - 1 \in C /\ k - 1 \in C /\ n = 1 + (n - 1) /\ k = 1 + (k - 1)
      BY <2>1, <2>3, <1>10
    <3>2. n - 1 = k - 1
      BY <3>1, <1>13
    <3> QED BY <3>1, <3>2
  <2> QED BY <2>2, <2>3
<1> QED BY <1>14, <1>15, <1>16 DEF A, B

\* The decimals of a tuple.
DecimalsOf(x) == {Decimal(v) : v \in ToSet(x)}

\* Spaces of one meaning agree on their axes and templates.
LEMMA SameRecord ==
    ASSUME NEW s, NEW r, SemanticRecord(s) = SemanticRecord(r)
    PROVE  /\ DirectionsOf(s) = DirectionsOf(r)
           /\ ToSet(s.timeframes) = ToSet(r.timeframes) /\ ToSet(s.windows) = ToSet(r.windows)
           /\ DecimalsOf(s.stops) = DecimalsOf(r.stops)
           /\ DecimalsOf(s.targets) = DecimalsOf(r.targets)
           /\ \A a \in Entries(s) : \E b \in Entries(r) : SemanticEntry(s, a) = SemanticEntry(r, b)
<1> DEFINE M == SemanticRecord(s)
           N == SemanticRecord(r)
<1>1. /\ M.directions = DirectionsOf(s) /\ M.timeframes = ToSet(s.timeframes)
      /\ M.windows = ToSet(s.windows) /\ M.stops = DecimalsOf(s.stops)
      /\ M.targets = DecimalsOf(s.targets)
      /\ M.templates = {SemanticEntry(s, a) : a \in Entries(s)}
  BY DEF SemanticRecord, SemanticEntry, DecimalsOf
<1>2. /\ N.directions = DirectionsOf(r) /\ N.timeframes = ToSet(r.timeframes)
      /\ N.windows = ToSet(r.windows) /\ N.stops = DecimalsOf(r.stops)
      /\ N.targets = DecimalsOf(r.targets)
      /\ N.templates = {SemanticEntry(r, b) : b \in Entries(r)}
  BY DEF SemanticRecord, SemanticEntry, DecimalsOf
<1>3. M = N
  OBVIOUS
<1> HIDE DEF M, N
<1>4. {SemanticEntry(s, a) : a \in Entries(s)} = {SemanticEntry(r, b) : b \in Entries(r)}
  BY <1>1, <1>2, <1>3
<1> QED BY <1>1, <1>2, <1>3, <1>4

\* A place of the other tuple with this value, and one with this value up to zeros.
LEMMA SameValue ==
    ASSUME NEW x, NEW y, ToSet(x) = ToSet(y), NEW i \in DOMAIN x
    PROVE  \E j \in DOMAIN y : y[j] = x[i]
  BY DEF ToSet

LEMMA SameDecimal ==
    ASSUME NEW x, NEW y, DecimalsOf(x) = DecimalsOf(y), NEW i \in DOMAIN x
    PROVE  \E j \in DOMAIN y : Decimal(y[j]) = Decimal(x[i])
<1>1. ToSet(x) = {x[k] : k \in DOMAIN x} /\ ToSet(y) = {y[k] : k \in DOMAIN y}
  BY DEF ToSet
<1>2. Decimal(x[i]) \in DecimalsOf(x)
  BY <1>1 DEF DecimalsOf
<1>3. \E v \in ToSet(y) : Decimal(v) = Decimal(x[i])
  BY <1>2 DEF DecimalsOf
<1> QED BY <1>1, <1>3

\* The value at each place of the grids of an atom.
ValuesAt(atom, d, q) == LET grids == Effective(atom, d) IN [key \in DOMAIN grids |-> grids[key][q[key]]]

\* The values of a combination, in the grids of the other writing.
LEMMA SameParameters ==
    ASSUME NEW s, IsSpace(s), Valid(s), NEW c \in Combinations(s),
           NEW r, IsSpace(r), Valid(r), DirectionsOf(s) = DirectionsOf(r),
           NEW b \in Entries(r), SemanticEntry(s, s.templates[c.template]) = SemanticEntry(r, b)
    PROVE  LET a == s.templates[c.template]
               d == s.directions[c.direction]
               p == Built(s, c).parameters
           IN  \E q \in AtomBindings(AtomsOf(b), d) :
                   LET v(m) == ValuesAt(AtomsOf(b)[m], d, q[m])
                   IN  /\ AtomsOf(b)[1].kind = AtomsOf(a)[1].kind /\ Norm(v(1)) = Norm(p[1])
                       /\ \A m \in DOMAIN AtomsOf(b) : \E n \in DOMAIN AtomsOf(a) :
                             AtomsOf(b)[m].kind = AtomsOf(a)[n].kind /\ Norm(v(m)) = Norm(p[n])
                       /\ \A n \in DOMAIN AtomsOf(a) : \E m \in DOMAIN AtomsOf(b) :
                             AtomsOf(b)[m].kind = AtomsOf(a)[n].kind /\ Norm(v(m)) = Norm(p[n])
<1> DEFINE a == s.templates[c.template]
           d == s.directions[c.direction]
           p == Built(s, c).parameters
           A == DOMAIN AtomsOf(a)
           B == DOMAIN AtomsOf(b)
           x(n) == AtomsOf(a)[n]
           y(m) == AtomsOf(b)[m]
           E(n) == Effective(x(n), d)
           F(m) == Effective(y(m), d)
           k(n, key) == c.parameters[n][key]
           of == [m \in B |-> CHOOSE n \in A : Matches(s, a, r, b, m, n)]
           fits(m, key, j) == Clean(key, p[of[m]][key]) = Clean(key, F(m)[key][j])
           q == [m \in B |-> [key \in DOMAIN F(m) |-> CHOOSE j \in DOMAIN F(m)[key] : fits(m, key, j)]]
           v(m) == ValuesAt(y(m), d, q[m])
<1>1. /\ a \in Entries(s) /\ IsEntry(a) /\ d \in DirectionsOf(s) /\ d \in {"BUY", "SELL"}
  BY CombinationIs
<1>2. IsEntry(b)
  <2>1. b \in ToSet(r.templates)
    BY DEF Entries, ToSet
  <2> QED BY <2>1 DEF IsSpace
<1>3. EntryValid(s, a) /\ EntryValid(r, b)
  BY <1>1 DEF Valid
<1>4. /\ \A m \in B : \E n \in A : Matches(s, a, r, b, m, n)
      /\ \A n \in A : \E m \in B : Matches(s, a, r, b, m, n)
      /\ \A m \in B : \A n, i \in A : Matches(s, a, r, b, m, n) /\ Matches(s, a, r, b, m, i) => n = i
  BY <1>1, <1>2, <1>3, SameEntries
<1>5. /\ \A n \in A : IsAtom(x(n))
      /\ \A m \in B : IsAtom(y(m))
  BY <1>1, <1>2, AtomsOfEntry
<1>17. 1 \in A /\ 1 \in B
  <2>1. /\ Len(a.confirmations) \in Nat /\ A = 1..(1 + Len(a.confirmations))
    BY <1>1, AtomsOfEntry
  <2>2. /\ Len(b.confirmations) \in Nat /\ B = 1..(1 + Len(b.confirmations))
    BY <1>2, AtomsOfEntry
  <2> QED BY <2>1, <2>2, SMT
<1>6. \A n \in A : /\ DOMAIN p[n] = DOMAIN E(n)
                   /\ \A key \in DOMAIN E(n) : k(n, key) \in DOMAIN E(n)[key] /\ p[n][key] = E(n)[key][k(n, key)]
  BY BuiltIs
<1>7. \A m \in B, n \in A : Matches(s, a, r, b, m, n) =>
          /\ x(n).kind = y(m).kind /\ DOMAIN E(n) = DOMAIN F(m)
          /\ \A key \in DOMAIN E(n) : \A i \in DOMAIN E(n)[key] : \E j \in DOMAIN F(m)[key] :
                 Clean(key, E(n)[key][i]) = Clean(key, F(m)[key][j])
  <2> TAKE m \in B, n \in A
  <2> HAVE Matches(s, a, r, b, m, n)
  <2>1. SemanticAtom(s, x(n)) = SemanticAtom(r, y(m))
    BY DEF Matches
  <2> HIDE DEF x, y, a, d
  <2> QED BY <2>1, <1>1, <1>5, SameAtoms
<1>8. \A m \in B : of[m] \in A /\ Matches(s, a, r, b, m, of[m])
  BY <1>4
<1>9. of[1] = 1
  <2>1. Matches(s, a, r, b, 1, of[1])
    BY <1>8, <1>17
  <2> QED BY <2>1 DEF Matches
<1>10. \A n \in A : \E m \in B : of[m] = n
  BY <1>4, <1>8
<1>19. \A m \in B : /\ DOMAIN v(m) = DOMAIN F(m)
                    /\ \A key \in DOMAIN F(m) : v(m)[key] = F(m)[key][q[m][key]]
  BY DEF ValuesAt
<1> HIDE DEF of, x, y, E, F, a, d, p, k, v
<1>11. \A m \in B : \A key \in DOMAIN F(m) : \E j \in DOMAIN F(m)[key] : fits(m, key, j)
  <2> TAKE m \in B
  <2> TAKE key \in DOMAIN F(m)
  <2> DEFINE n == of[m]
  <2>1. n \in A /\ DOMAIN E(n) = DOMAIN F(m)
    BY <1>7, <1>8
  <2>2. k(n, key) \in DOMAIN E(n)[key] /\ p[n][key] = E(n)[key][k(n, key)]
    BY <2>1, <1>6
  <2>3. \E j \in DOMAIN F(m)[key] : Clean(key, E(n)[key][k(n, key)]) = Clean(key, F(m)[key][j])
    BY <2>1, <2>2, <1>7, <1>8
  <2> QED BY <2>2, <2>3
<1>12. /\ DOMAIN q = B
       /\ \A m \in B : /\ DOMAIN q[m] = DOMAIN F(m)
                       /\ \A key \in DOMAIN F(m) : q[m][key] \in DOMAIN F(m)[key] /\ fits(m, key, q[m][key])
  <2>1. \A m \in B : \A key \in DOMAIN F(m) : q[m][key] = CHOOSE j \in DOMAIN F(m)[key] : fits(m, key, j)
    OBVIOUS
  <2>2. DOMAIN q = B /\ \A m \in B : DOMAIN q[m] = DOMAIN F(m)
    OBVIOUS
  <2> HIDE DEF q, fits
  <2> QED BY <2>1, <2>2, <1>11
<1>18. q = [m \in B |-> q[m]] /\ \A m \in B : q[m] = [key \in DOMAIN F(m) |-> q[m][key]]
  OBVIOUS
<1> HIDE DEF q
<1>13. q \in AtomBindings(AtomsOf(b), d)
  BY <1>12, <1>18, AtomBindingsAre DEF F, y
<1>14. \A m \in B : Norm(v(m)) = Norm(p[of[m]])
  <2> TAKE m \in B
  <2> DEFINE u == v(m)
             t == p[of[m]]
  <2>1. DOMAIN u = DOMAIN F(m) /\ DOMAIN t = DOMAIN F(m)
    BY <1>6, <1>7, <1>8, <1>19
  <2>2. \A key \in DOMAIN F(m) : Clean(key, t[key]) = Clean(key, u[key])
    BY <1>12, <1>19
  <2> HIDE DEF u, t
  <2>3. /\ Norm(u) = [key \in DOMAIN u |-> Clean(key, u[key])]
        /\ Norm(t) = [key \in DOMAIN t |-> Clean(key, t[key])]
    BY DEF Norm, Clean
  <2>4. Norm(u) = Norm(t)
    BY <2>1, <2>2, <2>3
  <2> QED BY <2>4 DEF u, t
<1>15. \A m \in B : y(m).kind = x(of[m]).kind
  BY <1>7, <1>8
<1> HIDE DEF v
<1>16. /\ y(1).kind = x(1).kind /\ Norm(v(1)) = Norm(p[1])
       /\ \A m \in B : \E n \in A : y(m).kind = x(n).kind /\ Norm(v(m)) = Norm(p[n])
       /\ \A n \in A : \E m \in B : y(m).kind = x(n).kind /\ Norm(v(m)) = Norm(p[n])
  BY <1>8, <1>9, <1>10, <1>14, <1>15, <1>17
<1> QED BY <1>13, <1>16 DEF x, y, a, d, p, v, F

\* A combination of one writing of a space has its like in every other writing.
LEMMA OtherWriting ==
    ASSUME NEW s, IsSpace(s), Valid(s), NEW c \in Combinations(s),
           NEW r, IsSpace(r), Valid(r), SemanticRecord(s) = SemanticRecord(r)
    PROVE  \E e \in Combinations(r) : ContentOf(Built(r, e)) = ContentOf(Built(s, c))
<1> DEFINE a == s.templates[c.template]
           d == s.directions[c.direction]
           g == Built(s, c)
           p == g.parameters
           A == DOMAIN AtomsOf(a)
<1>1. /\ a \in Entries(s) /\ IsEntry(a) /\ d \in DirectionsOf(s)
      /\ c.timeframe \in DOMAIN s.timeframes /\ c.stop \in DOMAIN s.stops
      /\ c.target \in DOMAIN s.targets /\ c.window \in DOMAIN s.windows
  BY CombinationIs
<1>2. /\ DirectionsOf(s) = DirectionsOf(r)
      /\ ToSet(s.timeframes) = ToSet(r.timeframes) /\ ToSet(s.windows) = ToSet(r.windows)
      /\ DecimalsOf(s.stops) = DecimalsOf(r.stops)
      /\ DecimalsOf(s.targets) = DecimalsOf(r.targets)
      /\ \E b \in Entries(r) : SemanticEntry(s, a) = SemanticEntry(r, b)
  BY <1>1, SameRecord
<1>3. PICK b \in Entries(r) : SemanticEntry(s, a) = SemanticEntry(r, b)
  BY <1>2
<1>4. PICK t \in DOMAIN r.templates : r.templates[t] = b
  BY DEF Entries
<1>5. PICK k \in DOMAIN r.directions : r.directions[k] = d
  BY <1>1, <1>2 DEF DirectionsOf
<1>7. PICK w \in DOMAIN r.timeframes : r.timeframes[w] = s.timeframes[c.timeframe]
  <2> DEFINE X == s.timeframes
             Y == r.timeframes
  <2>1. c.timeframe \in DOMAIN X
    BY <1>1
  <2>2. ToSet(X) = ToSet(Y)
    BY <1>2
  <2> HIDE DEF X, Y
  <2>3. \E j \in DOMAIN Y : Y[j] = X[c.timeframe]
    BY <2>1, <2>2, SameValue
  <2> QED BY <2>3 DEF X, Y
<1>8. PICK z \in DOMAIN r.windows : r.windows[z] = s.windows[c.window]
  <2> DEFINE X == s.windows
             Y == r.windows
  <2>1. c.window \in DOMAIN X
    BY <1>1
  <2>2. ToSet(X) = ToSet(Y)
    BY <1>2
  <2> HIDE DEF X, Y
  <2>3. \E j \in DOMAIN Y : Y[j] = X[c.window]
    BY <2>1, <2>2, SameValue
  <2> QED BY <2>3 DEF X, Y
<1>9. PICK x \in DOMAIN r.stops : Decimal(r.stops[x]) = Decimal(s.stops[c.stop])
  <2> DEFINE X == s.stops
             Y == r.stops
  <2>1. c.stop \in DOMAIN X
    BY <1>1
  <2>2. DecimalsOf(X) = DecimalsOf(Y)
    BY <1>2
  <2> HIDE DEF X, Y
  <2>3. \E j \in DOMAIN Y : Decimal(Y[j]) = Decimal(X[c.stop])
    BY <2>1, <2>2, SameDecimal
  <2> QED BY <2>3 DEF X, Y
<1>10. PICK y \in DOMAIN r.targets : Decimal(r.targets[y]) = Decimal(s.targets[c.target])
  <2> DEFINE X == s.targets
             Y == r.targets
  <2>1. c.target \in DOMAIN X
    BY <1>1
  <2>2. DecimalsOf(X) = DecimalsOf(Y)
    BY <1>2
  <2> HIDE DEF X, Y
  <2>3. \E j \in DOMAIN Y : Decimal(Y[j]) = Decimal(X[c.target])
    BY <2>1, <2>2, SameDecimal
  <2> QED BY <2>3 DEF X, Y
<1> DEFINE B == DOMAIN AtomsOf(b)
           F(m) == Effective(AtomsOf(b)[m], d)
           v(q, m) == ValuesAt(AtomsOf(b)[m], d, q[m])
<1>11. PICK q \in AtomBindings(AtomsOf(b), d) :
          /\ AtomsOf(b)[1].kind = AtomsOf(a)[1].kind /\ Norm(v(q, 1)) = Norm(p[1])
          /\ \A m \in B : \E n \in A : AtomsOf(b)[m].kind = AtomsOf(a)[n].kind /\ Norm(v(q, m)) = Norm(p[n])
          /\ \A n \in A : \E m \in B : AtomsOf(b)[m].kind = AtomsOf(a)[n].kind /\ Norm(v(q, m)) = Norm(p[n])
  BY <1>2, <1>3, SameParameters
<1> DEFINE e == [template |-> t, direction |-> k, parameters |-> q, timeframe |-> w, stop |-> x,
                 target |-> y, window |-> z]
           h == Built(r, e)
<1>12. e \in Combinations(r)
  BY <1>4, <1>5, <1>7, <1>8, <1>9, <1>10, <1>11, IsCombination
<1>13. /\ e.template = t /\ e.direction = k /\ e.parameters = q /\ e.timeframe = w /\ e.stop = x
       /\ e.target = y /\ e.window = z
  OBVIOUS
<1> HIDE DEF e
<1>14. /\ h.entry = b /\ h.direction = d
       /\ h.timeframe = s.timeframes[c.timeframe] /\ h.window = s.windows[c.window]
       /\ h.stop = r.stops[x] /\ h.target = r.targets[y]
       /\ DOMAIN h.parameters = B
       /\ \A m \in B : /\ DOMAIN h.parameters[m] = DOMAIN F(m)
                       /\ \A key \in DOMAIN F(m) : h.parameters[m][key] = F(m)[key][q[m][key]]
  BY <1>4, <1>5, <1>7, <1>8, <1>12, <1>13, BuiltIs
<1>15. /\ g.entry = a /\ g.direction = d
       /\ g.timeframe = s.timeframes[c.timeframe] /\ g.window = s.windows[c.window]
       /\ g.stop = s.stops[c.stop] /\ g.target = s.targets[c.target]
       /\ DOMAIN p = A
  BY BuiltIs
<1>16. \A m \in B : Norm(h.parameters[m]) = Norm(v(q, m))
  <2> TAKE m \in B
  <2> DEFINE f == h.parameters[m]
             u == v(q, m)
  <2>1. DOMAIN f = DOMAIN F(m) /\ \A key \in DOMAIN F(m) : f[key] = F(m)[key][q[m][key]]
    BY <1>14
  <2>2. DOMAIN u = DOMAIN F(m) /\ \A key \in DOMAIN F(m) : u[key] = F(m)[key][q[m][key]]
    BY DEF ValuesAt
  <2> HIDE DEF f, u
  <2>3. Norm(f) = Norm(u)
    BY <2>1, <2>2 DEF Norm
  <2> QED BY <2>3 DEF f, u
<1>17. 1 \in B
  <2>1. b \in ToSet(r.templates)
    BY DEF Entries, ToSet
  <2>2. IsEntry(b)
    BY <2>1 DEF IsSpace
  <2>3. Len(b.confirmations) \in Nat /\ B = 1..(1 + Len(b.confirmations))
    BY <2>2, AtomsOfEntry
  <2> QED BY <2>3, SMT
<1> HIDE DEF g, h, a, d, A, B, v, F, p
<1>18. /\ \A m \in B : At(h, m) = <<AtomsOf(b)[m].kind, Norm(v(q, m))>>
       /\ \A n \in A : At(g, n) = <<AtomsOf(a)[n].kind, Norm(p[n])>>
  BY <1>14, <1>15, <1>16 DEF At, p
<1>21. 1 \in A
  <2>1. Len(a.confirmations) \in Nat /\ A = 1..(1 + Len(a.confirmations))
    BY <1>1, AtomsOfEntry DEF A
  <2> QED BY <2>1, SMT
<1>19. /\ At(h, 1) = At(g, 1)
       /\ \A m \in B : \E n \in A : At(h, m) = At(g, n)
       /\ \A n \in A : \E m \in B : At(h, m) = At(g, n)
  BY <1>11, <1>17, <1>18, <1>21
<1>20. {At(h, m) : m \in DOMAIN h.parameters} = {At(g, n) : n \in DOMAIN g.parameters}
  BY <1>14, <1>15, <1>19 DEF p
<1>22. \A f : ContentOf(f) =
          [direction |-> f.direction, timeframe |-> f.timeframe, window |-> f.window,
           stop |-> Decimal(f.stop), target |-> Decimal(f.target),
           base |-> At(f, 1), atoms |-> {At(f, n) : n \in DOMAIN f.parameters}]
  BY DEF ContentOf
<1>23. ContentOf(h) = ContentOf(g)
  BY <1>9, <1>10, <1>14, <1>15, <1>19, <1>20, <1>22
<1> QED BY <1>12, <1>23 DEF h, g

\* The candidates of a space are those of its combinations that are not rejected.
LEMMA GeneratedIs ==
    ASSUME NEW s
    PROVE  /\ Generated(s) = Kept(s, Combinations(s))
           /\ \A id : id \in Generated(s) <=> \E c \in Combinations(s) :
                 Rejection(Built(s, c)) = "NONE" /\ id = Identity(Built(s, c))
<1>1. \A id : id \in Generated(s) <=> \E c \in Combinations(s) :
                 Rejection(Built(s, c)) = "NONE" /\ id = Identity(Built(s, c))
  BY DEF Generated
<1>2. \A id : id \in Kept(s, Combinations(s)) <=> \E c \in Combinations(s) :
                 Rejection(Built(s, c)) = "NONE" /\ id = Identity(Built(s, c))
  BY DEF Kept
<1> QED BY <1>1, <1>2

\* Spaces of one meaning generate the same candidates.
LEMMA SameMeaning ==
    ASSUME NEW s, IsSpace(s), Valid(s), NEW r, IsSpace(r), Valid(r),
           SemanticRecord(s) = SemanticRecord(r)
    PROVE  Generated(s) \subseteq Generated(r)
<1> SUFFICES ASSUME NEW id \in Generated(s) PROVE id \in Generated(r)
  OBVIOUS
<1>1. PICK c \in Combinations(s) : Rejection(Built(s, c)) = "NONE" /\ id = Identity(Built(s, c))
  BY GeneratedIs
<1>2. PICK e \in Combinations(r) : ContentOf(Built(r, e)) = ContentOf(Built(s, c))
  BY OtherWriting
<1>3. /\ Identity(Built(s, c)) = Identity(Built(r, e))
      /\ Rejection(Built(s, c)) = Rejection(Built(r, e))
  BY <1>2, ContentDecides
<1> QED BY <1>1, <1>3, GeneratedIs

(***************************************************************************)
(* The two sides of a trend template.                                      *)
(***************************************************************************)
Up(type) == IF type = "cross" THEN "CROSS_ABOVE" ELSE "GT"
Down(type) == IF type = "cross" THEN "CROSS_BELOW" ELSE "LT"

\* Buyers look at the averages one way, sellers the other.
LEMMA TrendLook ==
    ASSUME NEW kind \in {"trend_close", "trend_pair"}, NEW p
    PROVE  \E l, r : \E type \in {"comparison", "cross"} :
               /\ l.type = "named" /\ r.type = "named" /\ Decimal(l) = l /\ Decimal(r) = r
               /\ Condition(kind, p, "BUY") = Of(type, Up(type), l, r)
               /\ Condition(kind, p, "SELL") = Of(type, Down(type), l, r)
<1> DEFINE c == Crosses(p)
           type == IF c THEN "cross" ELSE "comparison"
<1>1. \A l, r : /\ Looking("BUY", TRUE, c, l, r) = Of(type, Up(type), l, r)
                /\ Looking("SELL", TRUE, c, l, r) = Of(type, Down(type), l, r)
  <2>1. c \in BOOLEAN
    BY DEF Crosses
  <2> HIDE DEF c
  <2> QED BY <2>1 DEF Looking, Up, Down, Cross, Comparison
<1>2. \A dim, name : Named(dim, name).type = "named" /\ Decimal(Named(dim, name)) = Named(dim, name)
  BY DEF Named, Decimal
<1>3. \E l, r : /\ l.type = "named" /\ r.type = "named" /\ Decimal(l) = l /\ Decimal(r) = r
                /\ Condition(kind, p, "BUY") = Looking("BUY", TRUE, c, l, r)
                /\ Condition(kind, p, "SELL") = Looking("SELL", TRUE, c, l, r)
  <2>1. CASE kind = "trend_close"
    <3> DEFINE l == Field("close")
               r == Feature("PRICE", p.average, <<p.period>>)
    <3>1. \A d : Condition(kind, p, d) = Looking(d, TRUE, c, l, r)
      BY <2>1 DEF Condition, Crosses
    <3>2. l.type = "named" /\ r.type = "named" /\ Decimal(l) = l /\ Decimal(r) = r
      BY <1>2 DEF Field, Feature
    <3> HIDE DEF l, r, c
    <3> QED BY <3>1, <3>2
  <2>2. CASE kind = "trend_pair"
    <3> DEFINE l == Feature("PRICE", p.average, <<p.short_period>>)
               r == Feature("PRICE", p.average, <<p.long_period>>)
    <3>1. \A d : Condition(kind, p, d) = Looking(d, TRUE, c, l, r)
      BY <2>2 DEF Condition, Crosses
    <3>2. l.type = "named" /\ r.type = "named" /\ Decimal(l) = l /\ Decimal(r) = r
      BY <1>2 DEF Feature
    <3> HIDE DEF l, r, c
    <3> QED BY <3>1, <3>2
  <2> QED BY <2>1, <2>2
<1>4. type \in {"comparison", "cross"}
  OBVIOUS
<1> HIDE DEF type, c
<1>5. PICK l, r : /\ l.type = "named" /\ r.type = "named" /\ Decimal(l) = l /\ Decimal(r) = r
                  /\ Condition(kind, p, "BUY") = Looking("BUY", TRUE, c, l, r)
                  /\ Condition(kind, p, "SELL") = Looking("SELL", TRUE, c, l, r)
  BY <1>3
<1>6. /\ Condition(kind, p, "BUY") = Of(type, Up(type), l, r)
      /\ Condition(kind, p, "SELL") = Of(type, Down(type), l, r)
  BY <1>1, <1>5
<1>7. \E t \in {"comparison", "cross"} :
          /\ l.type = "named" /\ r.type = "named" /\ Decimal(l) = l /\ Decimal(r) = r
          /\ Condition(kind, p, "BUY") = Of(t, Up(t), l, r)
          /\ Condition(kind, p, "SELL") = Of(t, Down(t), l, r)
  BY <1>4, <1>5, <1>6
<1> QED BY <1>7

\* A single look at two features is impossible from neither side or from both.
LEMMA OneLook ==
    ASSUME NEW l, NEW r, l.type = "named", r.type = "named", NEW type \in {"comparison", "cross"}
    PROVE  Contradiction({Of(type, Up(type), l, r)}) <=> Contradiction({Of(type, Up(type), r, l)})
<1> DEFINE a == Of(type, Up(type), l, r)
           b == Of(type, Up(type), r, l)
<1>1. /\ a.type = type /\ a.operator = Up(type) /\ a.left = l /\ a.right = r
      /\ b.type = type /\ b.operator = Up(type) /\ b.left = r /\ b.right = l
  BY DEF Of
<1> HIDE DEF a, b
<1>2. ASSUME NEW x, x \in {a, b}
      PROVE  /\ ~FalseConstants({x}) /\ ~ExclusiveEqualities({x}) /\ ~EqualityExcluded({x})
             /\ ~EmptyInterval({x})
             /\ type = "cross" => ~IncompatibleRelations({x})
  <2>1. /\ x.left.type = "named" /\ x.right.type = "named" /\ x.type = type
        /\ x.operator = Up(type)
    BY <1>1, <1>2
  <2>2. ConstantFacts({x}) = {}
    BY <2>1 DEF ConstantFacts, Comparisons
  <2>3. Bounds({x}) = {}
    BY <2>1, <2>2 DEF Bounds
  <2>4. ~FalseConstants({x})
    BY <2>1 DEF FalseConstants, Comparisons
  <2>5. type = "cross" => ~IncompatibleRelations({x})
    BY <2>1 DEF IncompatibleRelations, Comparisons
  <2> QED BY <2>2, <2>3, <2>4, <2>5 DEF ExclusiveEqualities, EqualityExcluded, EmptyInterval
<1>3. ASSUME type = "comparison"
      PROVE  IncompatibleRelations({a}) <=> IncompatibleRelations({b})
  <2>1. Comparisons({a}) = {a} /\ Comparisons({b}) = {b}
    BY <1>1, <1>3 DEF Comparisons
  <2>2. a.operator = "GT" /\ b.operator = "GT" /\ Signs["GT"] = {1}
    BY <1>1, <1>3 DEF Up, Signs
  <2>3. IncompatibleRelations({a}) <=> l = r
    <3>1. CASE l = r
      BY <3>1, <1>1, <2>1, <2>2 DEF IncompatibleRelations
    <3>2. CASE l # r
      <4>1. 1 \in Relation({a}, l, r)
        BY <3>2, <1>1, <2>1, <2>2 DEF Relation
      <4> QED BY <3>2, <4>1, <1>1, <2>1 DEF IncompatibleRelations
    <3> QED BY <3>1, <3>2
  <2>4. IncompatibleRelations({b}) <=> l = r
    <3>1. CASE l = r
      BY <3>1, <1>1, <2>1, <2>2 DEF IncompatibleRelations
    <3>2. CASE l # r
      <4>1. 1 \in Relation({b}, r, l)
        BY <3>2, <1>1, <2>1, <2>2 DEF Relation
      <4> QED BY <3>2, <4>1, <1>1, <2>1 DEF IncompatibleRelations
    <3> QED BY <3>1, <3>2
  <2> QED BY <2>3, <2>4
<1>4. Contradiction({a}) <=> IncompatibleRelations({a})
  BY <1>2 DEF Contradiction
<1>5. Contradiction({b}) <=> IncompatibleRelations({b})
  BY <1>2 DEF Contradiction
<1> QED BY <1>2, <1>3, <1>4, <1>5 DEF a, b

\* The condition of a trend atom for buyers, turned around, is that for sellers.
LEMMA TrendMirror ==
    ASSUME NEW kind \in {"trend_close", "trend_pair"}, NEW p
    PROVE  LET buy == Condition(kind, p, "BUY")
               sell == Condition(kind, p, "SELL")
           IN  /\ Mirrored(NormalLeaf(buy)) = NormalLeaf(sell)
               /\ FeaturesOf(buy) = FeaturesOf(sell)
               /\ Contradiction({NormalLeaf(buy)}) <=> Contradiction({NormalLeaf(sell)})
<1> DEFINE buy == Condition(kind, p, "BUY")
           sell == Condition(kind, p, "SELL")
<1>1. PICK l, r : \E type \in {"comparison", "cross"} :
               /\ l.type = "named" /\ r.type = "named" /\ Decimal(l) = l /\ Decimal(r) = r
               /\ buy = Of(type, Up(type), l, r) /\ sell = Of(type, Down(type), l, r)
  BY TrendLook
<1>2. PICK type \in {"comparison", "cross"} :
               /\ l.type = "named" /\ r.type = "named" /\ Decimal(l) = l /\ Decimal(r) = r
               /\ buy = Of(type, Up(type), l, r) /\ sell = Of(type, Down(type), l, r)
  BY <1>1
<1> HIDE DEF buy, sell
<1>3. \A t, op, x, y : LET a == Of(t, op, x, y)
                       IN  a.type = t /\ a.operator = op /\ a.left = x /\ a.right = y
  BY DEF Of
<1>4. /\ NormalLeaf(buy) = Upward(Of(type, Up(type), l, r))
      /\ NormalLeaf(sell) = Upward(Of(type, Down(type), l, r))
  BY <1>2, <1>3 DEF NormalLeaf
<1>5. Upward(Of(type, Up(type), l, r)) = Of(type, Up(type), l, r)
  BY <1>3 DEF Upward, Up, Flipped
<1>6. Upward(Of(type, Down(type), l, r)) = Of(type, Up(type), r, l)
  BY <1>3 DEF Upward, Up, Down, Flipped
<1>7. Mirrored(Of(type, Up(type), l, r)) = Of(type, Up(type), r, l)
  BY <1>3 DEF Mirrored, Up
<1>8. OperandsOf(buy) = OperandsOf(sell)
  <2>1. /\ buy.type # "range" /\ buy.left = l /\ buy.right = r
        /\ sell.type # "range" /\ sell.left = l /\ sell.right = r
    BY <1>2, <1>3
  <2> QED BY <2>1 DEF OperandsOf
<1>9. FeaturesOf(buy) = FeaturesOf(sell)
  BY <1>8 DEF FeaturesOf
<1>10. Contradiction({Of(type, Up(type), l, r)}) <=> Contradiction({Of(type, Up(type), r, l)})
  BY <1>2, OneLook
<1> QED BY <1>4, <1>5, <1>6, <1>7, <1>9, <1>10 DEF buy, sell

\* What SidesMirror supposes of a space.
TrendsBothWays(s) ==
    /\ DirectionsOf(s) = {"BUY", "SELL"}
    /\ \A e \in Entries(s) :
          /\ e.base.kind \in {"trend_close", "trend_pair"} /\ e.confirmations = <<>>
          /\ Effective(e.base, "BUY") = Effective(e.base, "SELL")

\* What is built is one template with one choice of values, for buyers and for sellers.
Alike(b, h) ==
    /\ h.entry = b.entry /\ h.parameters = b.parameters
    /\ h.timeframe = b.timeframe /\ h.window = b.window /\ h.stop = b.stop /\ h.target = b.target

BothSides(b, h) == b.direction = "BUY" /\ h.direction = "SELL" /\ Alike(b, h)

\* The only atom of a template without confirmations.
LEMMA OneAtom ==
    ASSUME NEW entry, IsEntry(entry), entry.confirmations = <<>>
    PROVE  DOMAIN AtomsOf(entry) = {1} /\ AtomsOf(entry)[1] = entry.base
<1>1. Len(entry.confirmations) = 0
  OBVIOUS
<1>2. DOMAIN AtomsOf(entry) = 1..(1 + 0) /\ AtomsOf(entry)[1] = entry.base
  BY <1>1, AtomsOfEntry
<1>3. 1..(1 + 0) = {1}
  BY SMT
<1> QED BY <1>2, <1>3

\* Every combination has its like for the other side.
LEMMA OtherSide ==
    ASSUME NEW s, IsSpace(s), TrendsBothWays(s), NEW c \in Combinations(s),
           NEW f \in {"BUY", "SELL"}
    PROVE  \E e \in Combinations(s) :
               Built(s, e).direction = f /\ Alike(Built(s, c), Built(s, e))
<1> DEFINE a == s.templates[c.template]
           d == s.directions[c.direction]
           atoms == AtomsOf(a)
           D == DOMAIN atoms
           q == c.parameters
<1>1. /\ c.template \in DOMAIN s.templates /\ a \in Entries(s) /\ IsEntry(a) /\ d \in {"BUY", "SELL"}
      /\ c.timeframe \in DOMAIN s.timeframes /\ c.stop \in DOMAIN s.stops
      /\ c.target \in DOMAIN s.targets /\ c.window \in DOMAIN s.windows
      /\ q \in AtomBindings(atoms, d)
  BY CombinationIs
<1>2. /\ a.confirmations = <<>> /\ Effective(a.base, "BUY") = Effective(a.base, "SELL")
  BY <1>1 DEF TrendsBothWays
<1>3. D = {1} /\ atoms[1] = a.base
  BY <1>1, <1>2, OneAtom
<1>4. \A n \in D : Effective(atoms[n], f) = Effective(atoms[n], d)
  BY <1>1, <1>2, <1>3
<1>5. PICK k \in DOMAIN s.directions : s.directions[k] = f
  BY DEF TrendsBothWays, DirectionsOf
<1>6. AtomBindings(atoms, f) = AtomBindings(atoms, d)
  BY <1>4 DEF AtomBindings, Bindings
<1> DEFINE e == [template |-> c.template, direction |-> k, parameters |-> q,
                 timeframe |-> c.timeframe, stop |-> c.stop, target |-> c.target,
                 window |-> c.window]
<1>7. e \in Combinations(s)
  BY <1>1, <1>5, <1>6, IsCombination
<1>8. /\ e.template = c.template /\ e.direction = k /\ e.parameters = q /\ e.timeframe = c.timeframe
      /\ e.stop = c.stop /\ e.target = c.target /\ e.window = c.window
  OBVIOUS
<1> HIDE DEF e
<1> DEFINE b == Built(s, c)
           h == Built(s, e)
           x == [n \in D |-> ValuesAt(atoms[n], d, q[n])]
           y == [n \in D |-> ValuesAt(atoms[n], f, q[n])]
<1>9. b.parameters = x
  BY DEF Built, ValuesAt
<1>10. h.parameters = y
  BY <1>5, <1>8 DEF Built, ValuesAt
<1>11. x = y
  BY <1>4 DEF ValuesAt
<1>12. /\ b.entry = a /\ b.timeframe = s.timeframes[c.timeframe] /\ b.window = s.windows[c.window]
       /\ b.stop = s.stops[c.stop] /\ b.target = s.targets[c.target]
  BY BuiltIs
<1>13. /\ h.entry = a /\ h.direction = f /\ h.timeframe = s.timeframes[c.timeframe]
       /\ h.window = s.windows[c.window] /\ h.stop = s.stops[c.stop] /\ h.target = s.targets[c.target]
  BY <1>5, <1>7, <1>8, BuiltIs
<1> HIDE DEF x, y, b, h
<1>14. h.direction = f /\ Alike(b, h)
  BY <1>9, <1>10, <1>11, <1>12, <1>13 DEF Alike
<1> QED BY <1>7, <1>14 DEF b, h

\* The sellers' candidate is the buyers' turned around, and rejected when it is.
LEMMA SideTurned ==
    ASSUME NEW s, IsSpace(s), TrendsBothWays(s), NEW c \in Combinations(s),
           NEW e \in Combinations(s), BothSides(Built(s, c), Built(s, e))
    PROVE  /\ Identity(Built(s, e)) = Turned(Identity(Built(s, c)))
           /\ Rejection(Built(s, e)) = Rejection(Built(s, c))
<1> DEFINE b == Built(s, c)
           h == Built(s, e)
           a == s.templates[c.template]
           p == b.parameters[1]
           kind == a.base.kind
           buy == Condition(kind, p, "BUY")
           sell == Condition(kind, p, "SELL")
<1>1. a \in Entries(s) /\ IsEntry(a)
  BY CombinationIs
<1>2. kind \in {"trend_close", "trend_pair"} /\ a.confirmations = <<>>
  BY <1>1 DEF TrendsBothWays
<1>3. DOMAIN AtomsOf(a) = {1} /\ AtomsOf(a)[1] = a.base
  BY <1>1, <1>2, OneAtom
<1>4. b.entry = a /\ DOMAIN b.conditions = {1} /\ b.conditions[1] = Condition(kind, p, b.direction)
  BY <1>3, BuiltIs
<1>5. h.entry = s.templates[e.template] /\ h.entry = b.entry /\ h.parameters = b.parameters
  BY BuiltIs DEF BothSides, Alike
<1>6. DOMAIN h.conditions = {1} /\ h.conditions[1] = Condition(kind, p, h.direction)
  <2>1. /\ DOMAIN h.conditions = DOMAIN AtomsOf(h.entry)
        /\ \A n \in DOMAIN AtomsOf(h.entry) :
               h.conditions[n] = Condition(AtomsOf(h.entry)[n].kind, h.parameters[n], h.direction)
    BY BuiltIs
  <2> HIDE DEF b, h, a
  <2> QED BY <2>1, <1>3, <1>4, <1>5
<1>7. /\ b.direction = "BUY" /\ h.direction = "SELL" /\ h.timeframe = b.timeframe
      /\ h.window = b.window /\ h.stop = b.stop /\ h.target = b.target
  BY DEF BothSides, Alike
<1>8. /\ Mirrored(NormalLeaf(buy)) = NormalLeaf(sell)
      /\ FeaturesOf(buy) = FeaturesOf(sell)
      /\ Contradiction({NormalLeaf(buy)}) <=> Contradiction({NormalLeaf(sell)})
  BY <1>2, TrendMirror
<1> HIDE DEF b, h, a, p, kind, buy, sell
<1>9. b.conditions[1] = buy /\ h.conditions[1] = sell
  BY <1>4, <1>6, <1>7 DEF buy, sell
<1>10. \A g : Identity(g) =
          [direction |-> g.direction, timeframe |-> g.timeframe, window |-> g.window,
           stop |-> Decimal(g.stop), target |-> Decimal(g.target),
           conditions |-> {NormalLeaf(g.conditions[n]) : n \in DOMAIN g.conditions}]
  BY DEF Identity
<1>11. /\ {NormalLeaf(b.conditions[n]) : n \in DOMAIN b.conditions} = {NormalLeaf(buy)}
       /\ {NormalLeaf(h.conditions[n]) : n \in DOMAIN h.conditions} = {NormalLeaf(sell)}
  BY <1>4, <1>6, <1>9
<1> DEFINE M == Identity(b)
<1>12. M = [direction |-> "BUY", timeframe |-> b.timeframe, window |-> b.window,
            stop |-> Decimal(b.stop), target |-> Decimal(b.target),
            conditions |-> {NormalLeaf(buy)}]
  BY <1>7, <1>10, <1>11
<1>13. Identity(h) = [direction |-> "SELL", timeframe |-> b.timeframe, window |-> b.window,
            stop |-> Decimal(b.stop), target |-> Decimal(b.target),
            conditions |-> {NormalLeaf(sell)}]
  BY <1>7, <1>10, <1>11
<1> HIDE DEF M
<1>14. /\ M.timeframe = b.timeframe /\ M.window = b.window /\ M.stop = Decimal(b.stop)
       /\ M.target = Decimal(b.target) /\ M.conditions = {NormalLeaf(buy)}
  BY <1>12
<1>15. {Mirrored(x) : x \in M.conditions} = {NormalLeaf(sell)}
  BY <1>8, <1>14
<1>16. Turned(M) = Identity(h)
  BY <1>13, <1>14, <1>15 DEF Turned
<1>17. Rejection(h) = Rejection(b)
  <2>1. Identity(b).conditions = {NormalLeaf(buy)} /\ Identity(h).conditions = {NormalLeaf(sell)}
    BY <1>12, <1>13 DEF M
  <2>2. Contradiction(Identity(b).conditions) <=> Contradiction(Identity(h).conditions)
    BY <2>1, <1>8
  <2>3. /\ UNION {FeaturesOf(b.conditions[n]) : n \in DOMAIN b.conditions} = FeaturesOf(buy)
        /\ UNION {FeaturesOf(h.conditions[n]) : n \in DOMAIN h.conditions} = FeaturesOf(sell)
    BY <1>4, <1>6, <1>9
  <2>4. UNION {FeaturesOf(b.conditions[n]) : n \in DOMAIN b.conditions} =
            UNION {FeaturesOf(h.conditions[n]) : n \in DOMAIN h.conditions}
    BY <2>3, <1>8
  <2> QED BY <2>2, <2>4, <1>5 DEF Rejection
<1> QED BY <1>16, <1>17 DEF M, b, h

(***************************************************************************)
(* The candidates of a space.                                              *)
(***************************************************************************)
\* When nothing is pending, the table holds what the space generates.
LEMMA ExpandedToTheEnd ==
    ASSUME SpaceInv, phase \in {"done", "over budget"}
    PROVE  Valid(space) /\ candidates = Generated(space)
<1>1. ExpansionCounted /\ pending = {}
  BY DEF SpaceInv, Expanded
<1>2. Combinations(space) \ pending = Combinations(space)
  BY <1>1
<1> QED BY <1>1, <1>2, GeneratedIs DEF ExpansionCounted

\* Spaces with one search_space_id have one set of candidates.
LEMMA IdentityDecides ==
    ASSUME SpaceInv
    PROVE  SameIdentitySameCandidates
<1> SUFFICES ASSUME phase = "done", NEW s \in Spaces, Valid(s),
                    SemanticRecord(s) = SemanticRecord(space)
             PROVE  Generated(s) = candidates
  BY DEF SameIdentitySameCandidates
<1>1. Valid(space) /\ candidates = Generated(space)
  BY ExpandedToTheEnd
<1>2. IsSpace(s) /\ IsSpace(space)
  BY SpacesAssumption DEF SpaceInv, TablesCounted
<1>3. Generated(s) \subseteq Generated(space) /\ Generated(space) \subseteq Generated(s)
  BY <1>1, <1>2, SameMeaning
<1> QED BY <1>1, <1>3

\* Every candidate is of a combination that is within the policy.
LEMMA PolicyDecides ==
    ASSUME SpaceInv
    PROVE  PolicyIsKept
<1> SUFFICES ASSUME NEW id \in candidates PROVE Within3(id)
  BY DEF PolicyIsKept, Within3
<1>1. ExpansionCounted /\ space \in Spaces
  BY DEF SpaceInv, TablesCounted
<1>2. IsSpace(space) /\ Valid(space)
  BY <1>1, SpaceIs DEF ExpansionCounted
<1>3. id \in Kept(space, Combinations(space) \ pending)
  BY <1>1 DEF ExpansionCounted
<1>4. PICK c \in Combinations(space) : Rejection(Built(space, c)) = "NONE" /\ id = Identity(Built(space, c))
  BY <1>3 DEF Kept
<1> QED BY <1>2, <1>4, BuiltWithinPolicy

\* Buyers' candidates turned around are the sellers', all of them.
LEMMA SidesDecide ==
    ASSUME SpaceInv
    PROVE  SidesMirror
<1> DEFINE of(direction) == {id \in candidates : id.direction = direction}
<1> SUFFICES ASSUME phase \in {"done", "over budget"}, TrendsBothWays(space)
             PROVE  {Turned(id) : id \in of("BUY")} = of("SELL")
  BY DEF SidesMirror, Finished, TrendsBothWays
<1>1. Valid(space) /\ candidates = Generated(space)
  BY ExpandedToTheEnd
<1>2. IsSpace(space)
  BY SpacesAssumption DEF SpaceInv, TablesCounted
<1>3. \A c : Identity(c).direction = c.direction
  BY DEF Identity
<1>4. \A id : id \in candidates <=> \E c \in Combinations(space) :
          Rejection(Built(space, c)) = "NONE" /\ id = Identity(Built(space, c))
  BY <1>1, GeneratedIs
<1>5. ASSUME NEW id \in of("BUY") PROVE Turned(id) \in of("SELL")
  <2>1. PICK c \in Combinations(space) :
            Rejection(Built(space, c)) = "NONE" /\ id = Identity(Built(space, c))
    BY <1>4
  <2>2. PICK e \in Combinations(space) :
            Built(space, e).direction = "SELL" /\ Alike(Built(space, c), Built(space, e))
    BY <1>2, OtherSide
  <2>3. Built(space, c).direction = "BUY"
    BY <1>3, <2>1
  <2>4. BothSides(Built(space, c), Built(space, e))
    BY <2>2, <2>3 DEF BothSides
  <2>5. /\ Identity(Built(space, e)) = Turned(id)
        /\ Rejection(Built(space, e)) = "NONE"
    BY <1>2, <2>1, <2>4, SideTurned
  <2>6. Turned(id).direction = "SELL"
    BY DEF Turned
  <2> QED BY <1>4, <2>5, <2>6
<1>6. ASSUME NEW id \in of("SELL") PROVE \E x \in of("BUY") : Turned(x) = id
  <2>1. PICK e \in Combinations(space) :
            Rejection(Built(space, e)) = "NONE" /\ id = Identity(Built(space, e))
    BY <1>4
  <2>2. PICK c \in Combinations(space) :
            Built(space, c).direction = "BUY" /\ Alike(Built(space, e), Built(space, c))
    BY <1>2, OtherSide
  <2>3. Built(space, e).direction = "SELL"
    BY <1>3, <2>1
  <2>4. BothSides(Built(space, c), Built(space, e))
    BY <2>2, <2>3 DEF BothSides, Alike
  <2> DEFINE x == Identity(Built(space, c))
  <2>5. id = Turned(x) /\ Rejection(Built(space, c)) = "NONE"
    BY <1>2, <2>1, <2>4, SideTurned
  <2>6. x.direction = "BUY"
    BY <1>3, <2>2
  <2> HIDE DEF x
  <2>7. x \in of("BUY")
    BY <1>4, <2>5, <2>6 DEF x
  <2> QED BY <2>5, <2>7
<1> QED BY <1>5, <1>6

\* The candidates depend on a space's identity only, are within its policy, and are
\* the same for buyers and sellers of trends (generator.py and canonicalization.py).
THEOREM CandidatesAreTheSpaces == SpaceSpec => []CandidatesAreOfTheSpace
<1>1. SpaceInv => CandidatesAreOfTheSpace
  BY IdentityDecides, PolicyDecides, SidesDecide DEF CandidatesAreOfTheSpace
<1> QED BY <1>1, SpaceInvariant, PTL

(***************************************************************************)
(* The publication of plans.                                               *)
(***************************************************************************)
\* Spaces that have a directory in the cache, and where a call may be.
Keys == {Context[r] : r \in Requests}
Planned == {"bundle", "stagedBundle", "finish"}
Places == {"idle", "resolved", "plan", "staged"} \cup Planned

\* A plan of the space k is the plan of a request for it.
PlanFor(k, m) == \E r \in Requests : Context[r] = k /\ m = PlanOf[r]

\* The cache holds plans of its spaces, damaged or not.
CacheInv ==
    /\ DOMAIN cache = Keys
    /\ \A k \in Keys : cache[k] # None =>
          \E r \in Requests, d \in BOOLEAN :
              Context[r] = k /\ cache[k] = [manifest |-> PlanOf[r], damaged |-> d]

\* In the cache dirs, the plan of the space k is there, and it is m.
Holds(dirs, k, m) == k \in Keys /\ dirs[k] # None /\ dirs[k].manifest = m

\* What a checkpoint remembers is the universe of its context, or none.
Remembers(found) ==
    /\ found.phase = "none" => found.universe = None
    /\ found.universe # None =>
          \A r \in Requests : Context[r] = found.context => found.universe = PlanOf[r].candidates

CheckpointInv ==
    /\ DOMAIN checkpoint = {Path(r) : r \in Requests}
    /\ \A path \in DOMAIN checkpoint : Remembers(checkpoint[path])
    /\ PublishedMeansThere

\* A bundle holds an accepted request with the plan that dirs has for its space.
SoundBundle(b, dirs) ==
    \E r \in Accepted, d \in BOOLEAN : \E m :
        /\ b = [payloads |-> Payloads(r, m), damaged |-> d]
        /\ Frozen(r, m) /\ PlanFor(Context[r], m) /\ Holds(dirs, Context[r], m)

BundleInv == \A b \in bundles : SoundBundle(b, cache)

\* A call has resolved an accepted request and may resume its checkpoint; it plans
\* the space of the request, and what it has planned or found is in the cache.
SoundCall(label, r, found, m, dirs, published) ==
    /\ label = "idle" <=> r = None
    /\ label # "idle" => r \in Accepted /\ Remembers(found) /\ Resumable(found, Context[r])
    /\ label \in Planned \cup {"staged"} => PlanFor(Context[r], m)
    /\ label \in Planned => Holds(dirs, Context[r], m)
    /\ label \in {"stagedBundle", "finish"} => Frozen(r, m)
    /\ label = "finish" => \E b \in published : b.payloads = Payloads(r, m)

CallInv ==
    /\ pc \in [Processes -> Places]
    /\ DOMAIN request = Processes /\ DOMAIN seen = Processes /\ DOMAIN plan = Processes
    /\ \A p \in Processes : SoundCall(pc[p], request[p], seen[p], plan[p], cache, bundles)

\* The inductive invariant.
IInv == CacheInv /\ CheckpointInv /\ BundleInv /\ CallInv

(***************************************************************************)
(* Lemmas.                                                                 *)
(***************************************************************************)
LEMMA ManifestHolds ==
    ASSUME NEW r \in Requests
    PROVE  /\ PlanOf[r].candidates = UnionOf(r) /\ PlanOf[r].resolved = ResolvedId(r)
           /\ Context[r] = ResolvedId(r) /\ Context[r] \in Keys
<1>1. PlanOf[r] = Manifest(r) /\ Context[r] = ResolvedId(r) /\ Context[r] \in Keys
  BY DEF PlanOf, Context, Keys
<1>2. Manifest(r).candidates = UnionOf(r) /\ Manifest(r).resolved = ResolvedId(r)
  BY DEF Manifest
<1> QED BY <1>1, <1>2

\* What one side keeps depends on the families, candidates and rejections that are
\* written, not on how or how often they are.
LEMMA SideIsOfTheSpace ==
    ASSUME NEW r \in Requests, NEW s \in Requests, NEW d \in Directions,
           r.timeframes = s.timeframes,
           SpaceId(ConstraintsOf(r).sides[d].entries) = SpaceId(ConstraintsOf(s).sides[d].entries)
    PROVE  Subplan(r, d).candidates \subseteq Subplan(s, d).candidates
<1> DEFINE E(t) == ConstraintsOf(t).sides[d].entries
           kept(t) == {n \in DOMAIN E(t) : ~E(t)[n].rejected}
<1>1. \A t : Subplan(t, d).candidates =
                 {[direction |-> d, timeframe |-> f, candidate |-> E(t)[n].candidate] :
                     f \in t.timeframes, n \in kept(t)}
  BY DEF Subplan
<1>2. ASSUME NEW n \in kept(r)
      PROVE  \E k \in kept(s) : E(s)[k].candidate = E(r)[n].candidate
  <2>1. PICK k \in DOMAIN E(s) :
            E(s)[k].family = E(r)[n].family /\ E(s)[k].candidate = E(r)[n].candidate
    <3>1. [family |-> E(r)[n].family, candidate |-> E(r)[n].candidate] \in SpaceId(E(s))
      BY DEF SpaceId
    <3> QED BY <3>1 DEF SpaceId
  <2>2. E(r)[n] \in EntriesOf(r, d) /\ E(s)[k] \in EntriesOf(s, d)
    BY DEF EntriesOf
  <2>3. E(r)[n].rejected = E(s)[k].rejected
    BY <2>1, <2>2, RejectionAssumption
  <2> QED BY <2>1, <2>3
<1> QED BY <1>1, <1>2

\* The identity of a search space determines its candidates.
LEMMA SpaceDeterminesCandidates ==
    ASSUME NEW r \in Requests, NEW s \in Requests, Context[r] = Context[s]
    PROVE  PlanOf[r].candidates = PlanOf[s].candidates
<1>1. ResolvedId(r) = ResolvedId(s)
  BY ManifestHolds
<1>2. RequestId(r) = RequestId(s)
  BY <1>1 DEF ResolvedId
<1>3. r.timeframes = s.timeframes /\ r.sides = s.sides
  BY <1>2 DEF RequestId
<1>4. Wanted(r) = Wanted(s) /\ Wanted(r) \subseteq Directions
  BY <1>3 DEF Wanted
<1>5. [d \in Wanted(r) |-> SpaceId(ConstraintsOf(r).sides[d].entries)]
        = [d \in Wanted(s) |-> SpaceId(ConstraintsOf(s).sides[d].entries)]
  BY <1>1 DEF ResolvedId
<1>6. \A d \in Wanted(r) :
          SpaceId(ConstraintsOf(r).sides[d].entries) = SpaceId(ConstraintsOf(s).sides[d].entries)
  <2> TAKE d \in Wanted(r)
  <2>1. [x \in Wanted(r) |-> SpaceId(ConstraintsOf(r).sides[x].entries)][d]
          = [x \in Wanted(s) |-> SpaceId(ConstraintsOf(s).sides[x].entries)][d]
    BY <1>5
  <2> QED BY <1>4, <2>1
<1>7. \A d \in Wanted(r) : Subplan(r, d).candidates = Subplan(s, d).candidates
  <2> TAKE d \in Wanted(r)
  <2>1. d \in Directions
    BY <1>4
  <2>2. SpaceId(ConstraintsOf(r).sides[d].entries) = SpaceId(ConstraintsOf(s).sides[d].entries)
    BY <1>6
  <2>3. Subplan(r, d).candidates \subseteq Subplan(s, d).candidates
    BY <1>3, <2>1, <2>2, SideIsOfTheSpace
  <2>4. Subplan(s, d).candidates \subseteq Subplan(r, d).candidates
    BY <1>3, <2>1, <2>2, SideIsOfTheSpace
  <2> QED BY <2>3, <2>4
<1>8. UnionOf(r) = UnionOf(s)
  BY <1>4, <1>7 DEF UnionOf
<1> QED BY <1>8, ManifestHolds

\* So all plans of one space have the candidates of each request for it.
LEMMA PlansAgree ==
    ASSUME NEW r \in Requests, NEW m, PlanFor(Context[r], m)
    PROVE  m.candidates = PlanOf[r].candidates
BY SpaceDeterminesCandidates DEF PlanFor

(***************************************************************************)
(* What others do leaves a call sound: the cache and the published bundles *)
(* only grow, but for damage, which keeps plans and payloads.              *)
(***************************************************************************)
Grows(dirs, later) ==
    \A k \in Keys : dirs[k] # None => later[k] # None /\ later[k].manifest = dirs[k].manifest
Stay(published, later) ==
    \A b \in published : \E c \in later : c.payloads = b.payloads

LEMMA CallStaysSound ==
    ASSUME NEW label, NEW r, NEW found, NEW m, NEW dirs, NEW later, NEW B, NEW C,
           SoundCall(label, r, found, m, dirs, B), Grows(dirs, later), Stay(B, C)
    PROVE  SoundCall(label, r, found, m, later, C)
BY DEF SoundCall, Holds, Grows, Stay

LEMMA BundleStaysSound ==
    ASSUME NEW b, NEW dirs, NEW later, SoundBundle(b, dirs), Grows(dirs, later)
    PROVE  SoundBundle(b, later)
BY DEF SoundBundle, Holds, Grows

\* One call moves, the others are where they were.
LEMMA CallMoves ==
    ASSUME IInv, NEW p \in Processes, NEW label \in Places, NEW r, NEW found, NEW m,
           pc' = [pc EXCEPT ![p] = label],
           request' = [request EXCEPT ![p] = r] \/ (request' = request /\ r = request[p]),
           seen' = [seen EXCEPT ![p] = found] \/ (seen' = seen /\ found = seen[p]),
           plan' = [plan EXCEPT ![p] = m] \/ (plan' = plan /\ m = plan[p]),
           Grows(cache, cache'), Stay(bundles, bundles'),
           SoundCall(label, r, found, m, cache', bundles')
    PROVE  CallInv'
<1>1. pc \in [Processes -> Places] /\ DOMAIN request = Processes
      /\ DOMAIN seen = Processes /\ DOMAIN plan = Processes
  BY DEF IInv, CallInv
<1>2. pc' \in [Processes -> Places] /\ DOMAIN request' = Processes
      /\ DOMAIN seen' = Processes /\ DOMAIN plan' = Processes
  BY <1>1
<1>3. ASSUME NEW q \in Processes
      PROVE  SoundCall(pc'[q], request'[q], seen'[q], plan'[q], cache', bundles')
  <2>1. CASE q = p
    <3>1. pc'[p] = label /\ request'[p] = r /\ seen'[p] = found /\ plan'[p] = m
      BY <1>1
    <3> QED BY <2>1, <3>1
  <2>2. CASE q # p
    <3>1. pc'[q] = pc[q] /\ request'[q] = request[q] /\ seen'[q] = seen[q] /\ plan'[q] = plan[q]
      BY <1>1, <2>2
    <3>2. SoundCall(pc[q], request[q], seen[q], plan[q], cache, bundles)
      BY DEF IInv, CallInv
    <3>3. SoundCall(pc[q], request[q], seen[q], plan[q], cache', bundles')
      BY <3>2, CallStaysSound
    <3> QED BY <3>1, <3>3
  <2> QED BY <2>1, <2>2
<1> QED BY <1>2, <1>3 DEF CallInv

LEMMA CallEnds ==
    ASSUME IInv, NEW p \in Processes, End(p), Grows(cache, cache'), Stay(bundles, bundles')
    PROVE  CallInv'
<1>1. SoundCall("idle", None, NoCheckpoint, None, cache', bundles')
  BY DEF SoundCall, Planned
<1>2. "idle" \in Places
  BY DEF Places
<1> QED BY <1>1, <1>2, CallMoves DEF End

LEMMA CallGoesOn ==
    ASSUME IInv, NEW p \in Processes, NEW label \in Places, Goto(p, label), NEW m,
           plan' = [plan EXCEPT ![p] = m] \/ (plan' = plan /\ m = plan[p]),
           Grows(cache, cache'), Stay(bundles, bundles'),
           SoundCall(label, request[p], seen[p], m, cache', bundles')
    PROVE  CallInv'
BY CallMoves DEF Goto

\* Where nothing is written to the cache or published, both stay as they are.
LEMMA NothingWritten ==
    /\ cache' = cache => Grows(cache, cache')
    /\ bundles' = bundles => Stay(bundles, bundles')
BY DEF Grows, Stay

LEMMA CacheKept ==
    ASSUME IInv, cache' = cache PROVE CacheInv'
BY DEF IInv, CacheInv

LEMMA BundlesKept ==
    ASSUME IInv, bundles' = bundles, Grows(cache, cache') PROVE BundleInv'
BY BundleStaysSound DEF IInv, BundleInv

LEMMA CheckpointKept ==
    ASSUME IInv, checkpoint' = checkpoint, Stay(bundles, bundles') PROVE CheckpointInv'
<1>1. PublishedMeansThere'
  <2> SUFFICES ASSUME NEW path \in DOMAIN checkpoint, checkpoint[path].phase = "PUBLISHED"
               PROVE  \E b \in bundles' : b.payloads = checkpoint[path].bundle
    BY DEF PublishedMeansThere, Published
  <2>1. \E b \in bundles : b.payloads = checkpoint[path].bundle
    BY DEF IInv, CheckpointInv, PublishedMeansThere, Published
  <2> QED BY <2>1 DEF Stay
<1> QED BY <1>1 DEF IInv, CheckpointInv

\* The state of one call.
LEMMA CallIs ==
    ASSUME IInv, NEW p \in Processes
    PROVE  /\ SoundCall(pc[p], request[p], seen[p], plan[p], cache, bundles)
           /\ pc[p] # "idle" => request[p] \in Accepted /\ request[p] \in Requests
                                /\ Context[request[p]] \in Keys
BY DEF IInv, CallInv, SoundCall, Accepted, Keys

(***************************************************************************)
(* The actions.                                                            *)
(***************************************************************************)
LEMMA BeginStep ==
    ASSUME IInv, NEW p \in Processes, NEW r \in Requests, Begin(p, r)
    PROVE  IInv'
<1>1. UNCHANGED <<cache, bundles, checkpoint>> /\ r \in Accepted /\ r # None
  BY NoneAssumption DEF Begin
<1>2. Remembers(checkpoint[Path(r)]) /\ Resumable(checkpoint[Path(r)], Context[r])
  BY DEF Begin, IInv, CheckpointInv
<1>3. SoundCall("resolved", r, checkpoint[Path(r)], plan[p], cache', bundles')
  BY <1>1, <1>2 DEF SoundCall, Planned
<1>4. "resolved" \in Places
  BY DEF Places
<1>5. CallInv'
  BY <1>1, <1>3, <1>4, CallMoves, NothingWritten DEF Begin
<1> QED BY <1>1, <1>5, CacheKept, BundlesKept, CheckpointKept, NothingWritten DEF IInv

LEMMA MarkResolvedStep ==
    ASSUME IInv, NEW p \in Processes, MarkResolved(p)
    PROVE  IInv'
<1>1. UNCHANGED <<cache, bundles>> /\ pc[p] = "resolved"
  BY DEF MarkResolved
<1>2. CallInv'
  <2>1. SoundCall("plan", request[p], seen[p], plan[p], cache', bundles')
    BY <1>1, CallIs DEF SoundCall, Planned
  <2>2. "plan" \in Places
    BY DEF Places
  <2>3. CASE Goto(p, "plan") /\ UNCHANGED plan
    BY <1>1, <2>1, <2>2, <2>3, CallGoesOn, NothingWritten
  <2>4. CASE End(p)
    BY <1>1, <2>4, CallEnds, NothingWritten
  <2> QED BY <2>3, <2>4 DEF MarkResolved
<1>3. CheckpointInv'
  <2>1. CASE checkpoint' = checkpoint
    BY <1>1, <2>1, CheckpointKept, NothingWritten
  <2>2. CASE seen[p].phase = "none"
    <3> DEFINE found == [NoCheckpoint EXCEPT !.phase = "RESOLVED", !.context = Context[request[p]]]
    <3>1. checkpoint' = [checkpoint EXCEPT ![Path(request[p])] = found]
      BY <2>2 DEF MarkResolved
    <3>2. found.phase = "RESOLVED" /\ found.universe = None
      BY DEF NoCheckpoint
    <3> HIDE DEF found
    <3>3. Remembers(found)
      BY <3>2 DEF Remembers
    <3>4. \A path \in DOMAIN checkpoint : checkpoint'[path] \in {checkpoint[path], found}
      BY <3>1
    <3>5. DOMAIN checkpoint' = DOMAIN checkpoint
      BY <3>1
    <3>6. PublishedMeansThere'
      BY <1>1, <3>2, <3>4, <3>5 DEF IInv, CheckpointInv, PublishedMeansThere, Published
    <3> QED BY <3>3, <3>4, <3>5, <3>6 DEF IInv, CheckpointInv
  <2> QED BY <2>1, <2>2 DEF MarkResolved
<1> QED BY <1>1, <1>2, <1>3, CacheKept, BundlesKept, NothingWritten DEF IInv

\* A plan that is found is taken if it is not damaged.
LEMMA PlanFound ==
    ASSUME IInv, NEW p \in Processes, pc[p] \in {"plan", "staged"},
           cache[Context[request[p]]] # None, Reuse(p, cache[Context[request[p]]]),
           UNCHANGED <<cache, bundles>>
    PROVE  CallInv'
<1> DEFINE k == Context[request[p]]
           m == cache[k].manifest
<1>1. k \in Keys /\ SoundCall(pc[p], request[p], seen[p], plan[p], cache, bundles)
  BY CallIs
<1>2. PlanFor(k, m) /\ Holds(cache, k, m)
  BY <1>1 DEF IInv, CacheInv, PlanFor, Holds
<1>3. SoundCall("bundle", request[p], seen[p], m, cache', bundles')
  BY <1>1, <1>2 DEF SoundCall, Planned
<1>4. CASE End(p)
  BY <1>4, CallEnds, NothingWritten
<1>5. CASE plan' = [plan EXCEPT ![p] = m] /\ Goto(p, "bundle")
  BY <1>3, <1>5, CallGoesOn, NothingWritten DEF Places, Planned
<1> QED BY <1>4, <1>5 DEF Reuse

LEMMA LookUpStep ==
    ASSUME IInv, NEW p \in Processes, LookUp(p)
    PROVE  IInv'
<1>1. UNCHANGED <<cache, bundles, checkpoint>> /\ pc[p] = "plan"
  BY DEF LookUp
<1>2. CallInv'
  <2>1. CASE cache[Context[request[p]]] # None
    BY <1>1, <2>1, PlanFound DEF LookUp
  <2>2. CASE End(p)
    BY <1>1, <2>2, CallEnds, NothingWritten
  <2>3. CASE plan' = [plan EXCEPT ![p] = PlanOf[request[p]]] /\ Goto(p, "staged")
    <3>1. PlanFor(Context[request[p]], PlanOf[request[p]])
      BY <1>1, CallIs DEF PlanFor
    <3>2. SoundCall("staged", request[p], seen[p], PlanOf[request[p]], cache', bundles')
      BY <1>1, <3>1, CallIs DEF SoundCall, Planned
    <3> QED BY <1>1, <2>3, <3>2, CallGoesOn, NothingWritten DEF Places
  <2> QED BY <2>1, <2>2, <2>3 DEF LookUp
<1> QED BY <1>1, <1>2, CacheKept, BundlesKept, CheckpointKept, NothingWritten DEF IInv

LEMMA RenameStep ==
    ASSUME IInv, NEW p \in Processes, Rename(p)
    PROVE  IInv'
<1> DEFINE k == Context[request[p]]
<1>1. UNCHANGED <<bundles, checkpoint>> /\ pc[p] = "staged"
  BY DEF Rename
<1>2. SoundCall("staged", request[p], seen[p], plan[p], cache, bundles) /\ k \in Keys
  BY <1>1, CallIs
<1>3. CASE cache[k] # None
  <2>1. Reuse(p, cache[k]) /\ UNCHANGED cache
    BY <1>3 DEF Rename
  <2>2. CallInv'
    BY <1>1, <1>3, <2>1, PlanFound
  <2> QED BY <1>1, <2>1, <2>2, CacheKept, BundlesKept, CheckpointKept, NothingWritten DEF IInv
<1>4. CASE cache[k] = None
  <2>1. PICK r \in Requests : Context[r] = k /\ plan[p] = PlanOf[r]
    BY <1>2 DEF SoundCall, PlanFor
  <2> DEFINE fresh == [manifest |-> plan[p], damaged |-> FALSE]
  <2>2. cache' = [cache EXCEPT ![k] = fresh] /\ Goto(p, "bundle") /\ UNCHANGED plan
    BY <1>4 DEF Rename
  <2>3. fresh # None /\ fresh.manifest = plan[p]
    BY <2>1, NoneAssumption
  <2>4. fresh = [manifest |-> PlanOf[r], damaged |-> FALSE]
    BY <2>1
  <2> HIDE DEF fresh, k
  <2>5. DOMAIN cache = Keys
    BY DEF IInv, CacheInv
  <2>6. cache'[k] = fresh /\ \A x \in Keys : x # k => cache'[x] = cache[x]
    BY <1>2, <2>2, <2>5
  <2>7. Grows(cache, cache')
    BY <1>4, <2>6 DEF Grows
  <2>8. CacheInv'
    <3>1. DOMAIN cache' = Keys
      BY <2>2, <2>5
    <3>2. ASSUME NEW x \in Keys, cache'[x] # None
          PROVE  \E s \in Requests, d \in BOOLEAN :
                     Context[s] = x /\ cache'[x] = [manifest |-> PlanOf[s], damaged |-> d]
      <4>1. CASE x = k
        BY <2>1, <2>4, <2>6, <4>1
      <4>2. CASE x # k
        BY <2>6, <3>2, <4>2 DEF IInv, CacheInv
      <4> QED BY <4>1, <4>2
    <3> QED BY <3>1, <3>2 DEF CacheInv
  <2>9. CallInv'
    <3>1. Holds(cache', k, plan[p])
      BY <1>2, <2>3, <2>6 DEF Holds
    <3>2. SoundCall("bundle", request[p], seen[p], plan[p], cache', bundles')
      BY <1>2, <3>1 DEF SoundCall, Planned, k
    <3> QED BY <1>1, <2>2, <2>7, <3>2, CallGoesOn, NothingWritten DEF Places, Planned
  <2> QED BY <1>1, <2>7, <2>8, <2>9, BundlesKept, CheckpointKept, NothingWritten DEF IInv
<1> QED BY <1>3, <1>4

\* A bundle that is there is taken if it is not damaged.
LEMMA BundleFound ==
    ASSUME IInv, NEW p \in Processes, pc[p] \in {"bundle", "stagedBundle"},
           Frozen(request[p], plan[p]), NEW b \in Published(BundleOf(p)), Mismatch(p, b),
           UNCHANGED <<cache, bundles>>
    PROVE  CallInv'
<1>1. SoundCall(pc[p], request[p], seen[p], plan[p], cache, bundles)
  BY CallIs
<1>2. b \in bundles /\ b.payloads = Payloads(request[p], plan[p])
  BY DEF Published, BundleOf
<1>3. SoundCall("finish", request[p], seen[p], plan[p], cache', bundles')
  BY <1>1, <1>2 DEF SoundCall, Planned
<1>4. CASE End(p)
  BY <1>4, CallEnds, NothingWritten
<1>5. CASE Goto(p, "finish") /\ UNCHANGED plan
  BY <1>3, <1>5, CallGoesOn, NothingWritten DEF Places, Planned
<1> QED BY <1>4, <1>5 DEF Mismatch

LEMMA BundleStep ==
    ASSUME IInv, NEW p \in Processes, Bundle(p)
    PROVE  IInv'
<1>1. UNCHANGED <<cache, bundles, checkpoint>> /\ pc[p] = "bundle"
  BY DEF Bundle
<1>2. CallInv'
  <2>1. CASE End(p)
    BY <1>1, <2>1, CallEnds, NothingWritten
  <2>2. CASE Frozen(request[p], plan[p]) /\ \E b \in Published(BundleOf(p)) : Mismatch(p, b)
    BY <1>1, <2>2, BundleFound
  <2>3. CASE Frozen(request[p], plan[p]) /\ Goto(p, "stagedBundle") /\ UNCHANGED plan
    <3>1. SoundCall("stagedBundle", request[p], seen[p], plan[p], cache', bundles')
      BY <1>1, <2>3, CallIs DEF SoundCall, Planned
    <3> QED BY <1>1, <2>3, <3>1, CallGoesOn, NothingWritten DEF Places, Planned
  <2> QED BY <2>1, <2>2, <2>3 DEF Bundle
<1> QED BY <1>1, <1>2, CacheKept, BundlesKept, CheckpointKept, NothingWritten DEF IInv

LEMMA RenameBundleStep ==
    ASSUME IInv, NEW p \in Processes, RenameBundle(p)
    PROVE  IInv'
<1>1. UNCHANGED <<cache, checkpoint>> /\ pc[p] = "stagedBundle"
  BY DEF RenameBundle
<1>2. SoundCall("stagedBundle", request[p], seen[p], plan[p], cache, bundles)
  BY <1>1, CallIs
<1>3. Frozen(request[p], plan[p])
  BY <1>2 DEF SoundCall
<1>4. CASE Published(BundleOf(p)) # {}
  <2>1. (\E b \in Published(BundleOf(p)) : Mismatch(p, b)) /\ UNCHANGED bundles
    BY <1>4 DEF RenameBundle
  <2>2. CallInv'
    BY <1>1, <1>3, <2>1, BundleFound
  <2> QED BY <1>1, <2>1, <2>2, CacheKept, BundlesKept, CheckpointKept, NothingWritten DEF IInv
<1>5. CASE Published(BundleOf(p)) = {}
  <2> DEFINE fresh == [payloads |-> Payloads(request[p], plan[p]), damaged |-> FALSE]
  <2>1. bundles' = bundles \cup {fresh} /\ Goto(p, "finish") /\ UNCHANGED plan
    BY <1>5 DEF RenameBundle, BundleOf
  <2>2. fresh.payloads = Payloads(request[p], plan[p])
    OBVIOUS
  <2>3. SoundBundle(fresh, cache)
    BY <1>2 DEF SoundBundle, SoundCall, Planned
  <2> HIDE DEF fresh
  <2>4. Stay(bundles, bundles')
    BY <2>1 DEF Stay
  <2>5. BundleInv'
    BY <1>1, <2>1, <2>3 DEF IInv, BundleInv
  <2>6. SoundCall("finish", request[p], seen[p], plan[p], cache', bundles')
    BY <1>1, <1>2, <2>1, <2>2 DEF SoundCall, Planned
  <2>7. CallInv'
    BY <1>1, <2>1, <2>4, <2>6, CallGoesOn, NothingWritten DEF Places, Planned
  <2> QED BY <1>1, <2>4, <2>5, <2>7, CacheKept, CheckpointKept DEF IInv
<1> QED BY <1>4, <1>5

LEMMA MarkPublishedStep ==
    ASSUME IInv, NEW p \in Processes, MarkPublished(p)
    PROVE  IInv'
<1> DEFINE found == [phase |-> "PUBLISHED", context |-> Context[request[p]],
                     universe |-> plan[p].candidates, bundle |-> BundleOf(p)]
<1>1. /\ UNCHANGED <<cache, bundles>> /\ pc[p] = "finish" /\ End(p)
      /\ checkpoint' = [checkpoint EXCEPT ![Path(request[p])] = found]
  BY DEF MarkPublished
<1>2. SoundCall("finish", request[p], seen[p], plan[p], cache, bundles)
  BY <1>1, CallIs
<1>3. Remembers(found)
  <2>1. PlanFor(Context[request[p]], plan[p])
    BY <1>2 DEF SoundCall, Planned
  <2>2. \A r \in Requests : Context[r] = Context[request[p]] =>
            plan[p].candidates = PlanOf[r].candidates
    BY <2>1, PlansAgree
  <2> QED BY <2>2 DEF Remembers
<1>4. \E b \in bundles : b.payloads = found.bundle
  BY <1>2 DEF SoundCall, BundleOf
<1> HIDE DEF found
<1>5. DOMAIN checkpoint' = DOMAIN checkpoint
      /\ \A path \in DOMAIN checkpoint : checkpoint'[path] \in {checkpoint[path], found}
  BY <1>1
<1>6. PublishedMeansThere'
  BY <1>1, <1>4, <1>5 DEF IInv, CheckpointInv, PublishedMeansThere, Published
<1>7. CheckpointInv'
  BY <1>3, <1>5, <1>6 DEF IInv, CheckpointInv
<1>8. CallInv'
  BY <1>1, CallEnds, NothingWritten
<1> QED BY <1>1, <1>7, <1>8, CacheKept, BundlesKept, NothingWritten DEF IInv

LEMMA CrashStep ==
    ASSUME IInv, NEW p \in Processes, Crash(p)
    PROVE  IInv'
<1>1. UNCHANGED <<cache, bundles, checkpoint>> /\ End(p)
  BY DEF Crash
<1> QED BY <1>1, CallEnds, CacheKept, BundlesKept, CheckpointKept, NothingWritten DEF IInv

\* Nobody moves when files are damaged.
LEMMA CallsKept ==
    ASSUME IInv, UNCHANGED <<pc, request, seen, plan>>,
           Grows(cache, cache'), Stay(bundles, bundles')
    PROVE  CallInv'
BY CallStaysSound DEF IInv, CallInv

\* Damage spares the other fields.
LEMMA Damaged ==
    ASSUME NEW x, NEW d, NEW y, y = [x EXCEPT !.damaged = d]
    PROVE  /\ \A m, e : x = [manifest |-> m, damaged |-> e] => y = [manifest |-> m, damaged |-> d]
           /\ \A m, e : x = [payloads |-> m, damaged |-> e] => y = [payloads |-> m, damaged |-> d]
OBVIOUS

LEMMA DamagePlanStep ==
    ASSUME IInv, DamagePlan
    PROVE  IInv'
<1> DEFINE true == TRUE
<1>1. UNCHANGED <<bundles, checkpoint, pc, request, seen, plan>>
  BY DEF DamagePlan
<1>2. PICK k \in DOMAIN cache : cache[k] # None /\ cache' = [cache EXCEPT ![k].damaged = true]
  BY DEF DamagePlan
<1>3. true \in BOOLEAN
  OBVIOUS
<1> HIDE DEF true
<1>4. DOMAIN cache = Keys /\ DOMAIN cache' = Keys
  BY <1>2 DEF IInv, CacheInv
<1>5. cache'[k] = [cache[k] EXCEPT !.damaged = true] /\ \A x \in Keys : x # k => cache'[x] = cache[x]
  BY <1>2, <1>4
<1>6. PICK r \in Requests, d \in BOOLEAN :
          Context[r] = k /\ cache[k] = [manifest |-> PlanOf[r], damaged |-> d]
  BY <1>2, <1>4 DEF IInv, CacheInv
<1>7. cache'[k] = [manifest |-> PlanOf[r], damaged |-> true]
  BY <1>5, <1>6, Damaged
<1>8. cache'[k] # None /\ cache'[k].manifest = cache[k].manifest
  BY <1>3, <1>6, <1>7, NoneAssumption
<1>9. Grows(cache, cache')
  BY <1>5, <1>8 DEF Grows
<1>10. CacheInv'
  <2> SUFFICES ASSUME NEW x \in Keys, cache'[x] # None
               PROVE  \E s \in Requests, e \in BOOLEAN :
                          Context[s] = x /\ cache'[x] = [manifest |-> PlanOf[s], damaged |-> e]
    BY <1>4 DEF CacheInv
  <2>1. CASE x = k
    BY <1>3, <1>6, <1>7, <2>1
  <2>2. CASE x # k
    BY <1>5, <2>2 DEF IInv, CacheInv
  <2> QED BY <2>1, <2>2
<1> QED BY <1>1, <1>9, <1>10, CallsKept, BundlesKept, CheckpointKept, NothingWritten DEF IInv

LEMMA DamageBundleStep ==
    ASSUME IInv, DamageBundle
    PROVE  IInv'
<1> DEFINE true == TRUE
<1>1. UNCHANGED <<cache, checkpoint, pc, request, seen, plan>>
  BY DEF DamageBundle
<1>2. PICK b \in bundles : bundles' = (bundles \ {b}) \cup {[b EXCEPT !.damaged = true]}
  BY DEF DamageBundle
<1>3. true \in BOOLEAN
  OBVIOUS
<1> HIDE DEF true
<1>4. PICK r \in Accepted, d \in BOOLEAN : \E m :
          /\ b = [payloads |-> Payloads(r, m), damaged |-> d]
          /\ Frozen(r, m) /\ PlanFor(Context[r], m) /\ Holds(cache, Context[r], m)
  BY DEF IInv, BundleInv, SoundBundle
<1>5. PICK m : /\ b = [payloads |-> Payloads(r, m), damaged |-> d]
               /\ Frozen(r, m) /\ PlanFor(Context[r], m) /\ Holds(cache, Context[r], m)
  BY <1>4
<1> DEFINE c == [b EXCEPT !.damaged = true]
<1>6. c = [payloads |-> Payloads(r, m), damaged |-> true]
  BY <1>5, Damaged
<1> HIDE DEF c
<1>7. c.payloads = b.payloads /\ SoundBundle(c, cache)
  BY <1>3, <1>5, <1>6 DEF SoundBundle
<1>8. bundles' = (bundles \ {b}) \cup {c}
  BY <1>2 DEF c
<1>9. Stay(bundles, bundles')
  BY <1>7, <1>8 DEF Stay
<1>10. BundleInv'
  BY <1>1, <1>7, <1>8 DEF IInv, BundleInv
<1> QED BY <1>1, <1>9, <1>10, CacheKept, CallsKept, CheckpointKept, NothingWritten DEF IInv

(***************************************************************************)
(* The theorems.                                                           *)
(***************************************************************************)
LEMMA InitInv == Init => IInv
<1> SUFFICES ASSUME Init PROVE IInv
  OBVIOUS
<1>1. CacheInv
  BY DEF Init, CacheInv, Keys
<1>2. CheckpointInv
  BY DEF Init, CheckpointInv, NoCheckpoint, Remembers, PublishedMeansThere
<1>3. BundleInv
  BY DEF Init, BundleInv
<1>4. CallInv
  <2>1. SoundCall("idle", None, NoCheckpoint, None, cache, bundles)
    BY DEF SoundCall, Planned
  <2> QED BY <2>1 DEF Init, CallInv, Places
<1> QED BY <1>1, <1>2, <1>3, <1>4 DEF IInv

LEMMA StepInv == IInv /\ [Next]_vars => IInv'
<1> SUFFICES ASSUME IInv, [Next]_vars PROVE IInv'
  OBVIOUS
<1>1. ASSUME NEW p \in Processes, Step(p) PROVE IInv'
  BY <1>1, MarkResolvedStep, LookUpStep, RenameStep, BundleStep, RenameBundleStep,
     MarkPublishedStep DEF Step
<1>2. ASSUME NEW p \in Processes, NEW r \in Requests, Begin(p, r) PROVE IInv'
  BY <1>2, BeginStep
<1>3. CASE Fault
  BY <1>3, CrashStep, DamagePlanStep, DamageBundleStep DEF Fault
<1>4. CASE UNCHANGED vars
  <2>1. UNCHANGED <<cache, bundles, checkpoint, pc, request, seen, plan>>
    BY <1>4 DEF vars
  <2> QED BY <2>1, CacheKept, BundlesKept, CheckpointKept, CallsKept, NothingWritten DEF IInv
<1> QED BY <1>1, <1>2, <1>3, <1>4 DEF Next

\* The inductive invariant holds in every reachable state.
THEOREM Invariant == Spec => []IInv
BY InitInv, StepInv, PTL DEF Spec

\* Whatever is published (auto_discovery.py, publish_candidate_plan_bundle) is
\* there, can be loaded until files are damaged, holds the candidates its request
\* asks for, and nothing that is remembered of a request is held against it.
THEOREM BundlesSound == Spec => []BundlesAreSound
<1>1. IInv => BundlesAreSound
  <2> SUFFICES ASSUME IInv PROVE BundlesAreSound
    OBVIOUS
  <2>1. ASSUME NEW b \in bundles
        PROVE  LET r == b.payloads.request
                   m == b.payloads.manifest
               IN  /\ r \in Accepted /\ r \in Requests /\ Frozen(r, m)
                   /\ PlanFor(Context[r], m) /\ Holds(cache, Context[r], m)
    <3>1. PICK r \in Accepted, d \in BOOLEAN : \E m :
              /\ b = [payloads |-> Payloads(r, m), damaged |-> d]
              /\ Frozen(r, m) /\ PlanFor(Context[r], m) /\ Holds(cache, Context[r], m)
      BY DEF IInv, BundleInv, SoundBundle
    <3>2. PICK m : /\ b = [payloads |-> Payloads(r, m), damaged |-> d]
                   /\ Frozen(r, m) /\ PlanFor(Context[r], m) /\ Holds(cache, Context[r], m)
      BY <3>1
    <3>3. b.payloads.request = r /\ b.payloads.manifest = m
      BY <3>2 DEF Payloads
    <3> QED BY <3>2, <3>3 DEF Accepted
  <2>2. TypeOK
    <3>1. \A k \in DOMAIN cache : cache[k] = None \/ cache[k].manifest.resolved = k
      BY ManifestHolds DEF IInv, CacheInv
    <3>2. \A p \in Processes : pc[p] = "idle" <=> request[p] = None
      BY CallIs DEF SoundCall
    <3> QED BY <2>1, <3>1, <3>2 DEF TypeOK
  <2>3. PublishedBundlesLoad
    BY <2>1 DEF PublishedBundlesLoad, Loading, Holds
  <2>4. PublishedMeansThere
    BY DEF IInv, CheckpointInv
  <2>5. BundlesHoldTheirCandidates
    BY <2>1, PlansAgree DEF BundlesHoldTheirCandidates
  <2>6. ResumesAgree
    <3> SUFFICES ASSUME NEW p \in Processes, pc[p] = "bundle"
                 PROVE  seen[p].universe \in {None, plan[p].candidates}
      BY DEF ResumesAgree
    <3>1. /\ request[p] \in Requests /\ Remembers(seen[p])
          /\ Resumable(seen[p], Context[request[p]])
          /\ PlanFor(Context[request[p]], plan[p])
      BY CallIs DEF SoundCall, Planned
    <3>2. plan[p].candidates = PlanOf[request[p]].candidates
      BY <3>1, PlansAgree
    <3> QED BY <3>1, <3>2 DEF Remembers, Resumable
  <2> QED BY <2>2, <2>3, <2>4, <2>5, <2>6 DEF BundlesAreSound
<1> QED BY <1>1, Invariant, PTL

\* A plan directory (auto_discovery.py, build_composite_candidate_plan) is written
\* once: no call replaces it, and only damage from outside changes it.
THEOREM PlansStay == Spec => PlansAreImmutable
<1> DEFINE A == \A k \in DOMAIN cache : cache[k] # None =>
                    cache'[k] \in {cache[k], [cache[k] EXCEPT !.damaged = TRUE]}
<1>1. ASSUME [Next]_vars PROVE A
  <2>1. CASE cache' = cache
    BY <2>1
  <2>2. ASSUME NEW p \in Processes, Rename(p), cache' # cache PROVE A
    BY <2>2 DEF Rename
  <2>3. CASE DamagePlan
    BY <2>3 DEF DamagePlan
  <2> QED BY <1>1, <2>1, <2>2, <2>3
          DEF Next, Step, Begin, MarkResolved, LookUp, Bundle, RenameBundle, MarkPublished,
              Fault, Crash, DamageBundle, vars
<1> QED BY <1>1, PTL DEF Spec, PlansAreImmutable
==============================================================================
