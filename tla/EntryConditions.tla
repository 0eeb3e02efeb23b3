---------------------------- MODULE EntryConditions ----------------------------
(***************************************************************************)
(* Entry conditions of a strategy (packages/core/src/quantlab_core/        *)
(* strategy_v3.py): their canonical form (packages/mining/src/             *)
(* quantlab_mining/canonicalization.py) and the proofs that one can never  *)
(* hold (contradictions.py).                                               *)
(*                                                                         *)
(* A leaf of a condition is a comparison, a cross or a range.  An operand  *)
(* is a candle field or feature, known by its name, or a constant: an      *)
(* integer written with some trailing zeros.  The byte order of            *)
(* serialised operands is their place in Operands; children are serialised *)
(* in some order, which only decides which of several proofs is reported.  *)
(***************************************************************************)
EXTENDS ConditionTrees, SequencesExt

CONSTANT Operands    \* the operands explored, in the order of their bytes

Const(dim, value, zeros) == [type |-> "constant", dim |-> dim, value |-> value, zeros |-> zeros]
Named(dim, name) == [type |-> "named", dim |-> dim, name |-> name]

Bytes(operand) == CHOOSE n \in DOMAIN Operands : Operands[n] = operand
Textual(dim) == dim \in {"ENUM", "BOOLEAN"}

Of(type, op, l, r) == [type |-> type, operator |-> op, left |-> l, right |-> r]
Comparison(op, l, r) == Of("comparison", op, l, r)
Cross(op, l, r) == Of("cross", op, l, r)
Within(op, v, lo, hi, loIn, hiIn) ==
    [type |-> "range", operator |-> op, value |-> v, lower |-> lo, upper |-> hi,
     lowerIn |-> loIn, upperIn |-> hiIn]

OperandsOf(c) == IF c.type = "range" THEN {c.value, c.lower, c.upper} ELSE {c.left, c.right}

\* decimal_text: a number has no trailing zeros.
Decimal(o) == IF o.type = "constant" /\ ~Textual(o.dim) THEN [o EXCEPT !.zeros = 0] ELSE o

\* What strategy_v3.py accepts as an operand and as a leaf; text has no zeros.
IsOperand(o) ==
    IF o.type = "constant"
    THEN /\ o = Const(o.dim, o.value, o.zeros) /\ o.value \in Int /\ o.zeros \in Nat
         /\ Textual(o.dim) => o.zeros = 0
    ELSE o = Named(o.dim, o.name)

IsLeaf(leaf) ==
    /\ CASE leaf.type = "comparison" -> /\ leaf = Comparison(leaf.operator, leaf.left, leaf.right)
                                        /\ leaf.operator \in {"GT", "GTE", "LT", "LTE", "EQ", "NE"}
         [] leaf.type = "cross" -> /\ leaf = Cross(leaf.operator, leaf.left, leaf.right)
                                   /\ leaf.operator \in {"CROSS_ABOVE", "CROSS_BELOW"}
         [] OTHER -> /\ leaf = Within(leaf.operator, leaf.value, leaf.lower, leaf.upper,
                                      leaf.lowerIn, leaf.upperIn)
                     /\ leaf.operator \in {"BETWEEN", "NOT_BETWEEN"}
                     /\ {leaf.lowerIn, leaf.upperIn} \subseteq BOOLEAN
    /\ \A o \in OperandsOf(leaf) : IsOperand(o) /\ \E n \in DOMAIN Operands : Operands[n] = Decimal(o)

(***************************************************************************)
(* normalize_condition.                                                    *)
(***************************************************************************)
\* A condition that automatic candidates may have: no logic but AND, leaves of one
\* dimension, and text only under EQ and NE.
LeafAdmissible(leaf) ==
    LET dims == {o.dim : o \in OperandsOf(leaf)}
    IN  /\ Cardinality(dims) = 1
        /\ (\E d \in dims : Textual(d)) => leaf.type = "comparison" /\ leaf.operator \in {"EQ", "NE"}

Admissible(c) ==
    \A p \in DOMAIN c : IF IsLogical(c[p]) THEN c[p].operator = "AND" ELSE LeafAdmissible(c[p])

Flipped == [LT |-> "GT", LTE |-> "GTE", CROSS_BELOW |-> "CROSS_ABOVE"]

\* Comparisons look upwards; those without a direction order their operands.
Upward(c) ==
    IF c.operator \in DOMAIN Flipped
    THEN Of(c.type, Flipped[c.operator], c.right, c.left)
    ELSE IF c.operator \in {"EQ", "NE"} /\ Bytes(c.left) > Bytes(c.right)
    THEN Of(c.type, c.operator, c.right, c.left)
    ELSE c

NormalLeaf(c) ==
    IF c.type = "range"
    THEN Within(c.operator, Decimal(c.value), Decimal(c.lower), Decimal(c.upper), c.lowerIn, c.upperIn)
    ELSE Upward(Of(c.type, c.operator, Decimal(c.left), Decimal(c.right)))

\* The normal leaves of an admissible condition: nested conjunctions are
\* flattened and equal children merged.
Leaves(c) == {NormalLeaf(leaf) : leaf \in LeafNodes(c)}

AllOf(leaves) == Logical("AND", [n \in DOMAIN leaves |-> Leaf(leaves[n])])

Normalize(c) ==
    LET leaves == Leaves(c)
    IN  IF Cardinality(leaves) = 1 THEN Leaf(CHOOSE leaf \in leaves : TRUE)
        ELSE AllOf(SetToSeq(leaves))

(***************************************************************************)
(* contradiction: local proofs over the atoms of a normal condition.       *)
(***************************************************************************)
Signs == [GT |-> {1}, GTE |-> {0, 1}, LT |-> {-1}, LTE |-> {-1, 0}, EQ |-> {0}, NE |-> {-1, 1}]

Comparisons(atoms) == {a \in atoms : a.type = "comparison"}

\* The signs of l - r that the comparisons of this pair leave.
Relation(atoms, l, r) ==
    {s \in {-1, 0, 1} : \A a \in Comparisons(atoms) :
        /\ a.left = l /\ a.right = r => s \in Signs[a.operator]
        /\ a.left = r /\ a.right = l => -s \in Signs[a.operator]}

IncompatibleRelations(atoms) ==
    \E a \in Comparisons(atoms) :
        \/ Relation(atoms, a.left, a.right) = {}
        \/ a.left = a.right /\ 0 \notin Signs[a.operator]

SignOf(n) == IF n > 0 THEN 1 ELSE IF n < 0 THEN -1 ELSE 0
FalseConstants(atoms) ==
    \E a \in Comparisons(atoms) :
        /\ a.left.type = "constant" /\ a.right.type = "constant"
        /\ SignOf(a.left.value - a.right.value) \notin Signs[a.operator]

\* Comparisons of an expression with a constant, as seen from the expression.
Reversed == [GT |-> "LT", GTE |-> "LTE", LT |-> "GT", LTE |-> "GTE", EQ |-> "EQ", NE |-> "NE"]
ConstantFacts(atoms) ==
    {[expr |-> a.left, op |-> a.operator, const |-> a.right] :
        a \in {b \in Comparisons(atoms) : b.right.type = "constant"}} \cup
    {[expr |-> a.right, op |-> Reversed[a.operator], const |-> a.left] :
        a \in {b \in Comparisons(atoms) : b.right.type # "constant" /\ b.left.type = "constant"}}

ExclusiveEqualities(atoms) ==
    \E f, g \in ConstantFacts(atoms) :
        f.op = "EQ" /\ g.op = "EQ" /\ f.expr = g.expr /\ f.const # g.const

EqualityExcluded(atoms) ==
    \E f, g \in ConstantFacts(atoms) :
        f.op = "EQ" /\ g.op = "NE" /\ f.expr = g.expr /\ f.const = g.const

\* The numeric bounds that the atoms put on an expression.
Bounds(atoms) ==
    LET ranges  == {a \in atoms : a.type = "range" /\ a.operator = "BETWEEN" /\
                                  a.lower.type = "constant" /\ a.upper.type = "constant"}
        numeric == {f \in ConstantFacts(atoms) : ~Textual(f.const.dim)}
        of(ops, lower) ==
            {[expr |-> f.expr, at |-> f.const.value, lower |-> lower,
              closed |-> f.op \in {"GTE", "LTE", "EQ"}] : f \in {g \in numeric : g.op \in ops}}
    IN  of({"GT", "GTE", "EQ"}, TRUE) \cup of({"LT", "LTE", "EQ"}, FALSE) \cup
        {[expr |-> a.value, at |-> a.lower.value, lower |-> TRUE, closed |-> a.lowerIn] :
            a \in ranges} \cup
        {[expr |-> a.value, at |-> a.upper.value, lower |-> FALSE, closed |-> a.upperIn] :
            a \in ranges}

\* Variant: bounds that meet are taken to leave nothing.
EmptyIfBoundsMeet(atoms) ==
    \E lo, hi \in Bounds(atoms) : lo.lower /\ ~hi.lower /\ lo.expr = hi.expr /\ lo.at >= hi.at

EmptyInterval(atoms) ==
    \E lo, hi \in Bounds(atoms) :
        /\ lo.lower /\ ~hi.lower /\ lo.expr = hi.expr
        /\ lo.at > hi.at \/ (lo.at = hi.at /\ ~(lo.closed /\ hi.closed))

\* Some proof shows that a conjunction of normal atoms never holds.
Contradiction(atoms) ==
    \/ IncompatibleRelations(atoms) \/ FalseConstants(atoms)
    \/ ExclusiveEqualities(atoms) \/ EqualityExcluded(atoms) \/ EmptyInterval(atoms)
=============================================================================
