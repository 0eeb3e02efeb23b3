---------------------------- MODULE ConditionTrees ----------------------------
(***************************************************************************)
(* Condition trees of a strategy (packages/core/src/quantlab_core/         *)
(* strategy_v3.py) as functions from places to nodes: the root is at <<>>, *)
(* and child k of the node at p at Append(p, k).  The place of a node is   *)
(* the path the evaluator knows it by (condition_engine_v2.py, _visit).    *)
(***************************************************************************)
EXTENDS Integers, Sequences, FiniteSets

Leaf(node) == [p \in {<<>>} |-> node]

Logical(op, children) ==
    [p \in {<<>>} \cup UNION {{<<k>> \o q : q \in DOMAIN children[k]} : k \in DOMAIN children} |->
        IF p = <<>> THEN [type |-> "logical", operator |-> op, arity |-> Len(children)]
        ELSE children[Head(p)][Tail(p)]]

IsLogical(node) == node.type = "logical"
LeafPlaces(c) == {p \in DOMAIN c : ~IsLogical(c[p])}
LeafNodes(c) == {c[p] : p \in LeafPlaces(c)}

\* What the models of strategy_v3.py accept: a logical node has its children, and at
\* least one, NOT exactly one; every other node is a child of some logical node.
IsTree(c) ==
    /\ IsFiniteSet(DOMAIN c) /\ DOMAIN c \subseteq Seq(Nat) /\ <<>> \in DOMAIN c
    /\ \A p \in DOMAIN c \ {<<>>} : \E q \in DOMAIN c :
           IsLogical(c[q]) /\ \E k \in 1..c[q].arity : p = Append(q, k)
    /\ \A p \in DOMAIN c : IsLogical(c[p]) =>
           /\ c[p].operator \in {"AND", "OR", "NOT"} /\ c[p].arity \in Nat \ {0}
           /\ c[p].operator = "NOT" => c[p].arity = 1
           /\ \A k \in 1..c[p].arity : Append(p, k) \in DOMAIN c

\* What a tree says when its leaves say this.
Truth(c, says) ==
    LET truth[p \in DOMAIN c] ==
            IF ~IsLogical(c[p]) THEN says[p]
            ELSE CASE c[p].operator = "AND" -> \A k \in 1..c[p].arity : truth[Append(p, k)]
                   [] c[p].operator = "OR" -> \E k \in 1..c[p].arity : truth[Append(p, k)]
                   [] c[p].operator = "NOT" -> ~truth[Append(p, 1)]
    IN  truth[<<>>]
=============================================================================
