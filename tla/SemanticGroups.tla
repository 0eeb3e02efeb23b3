---------------------------- MODULE SemanticGroups ----------------------------
(***************************************************************************)
(* The structure of a strategy without its numbers                         *)
(* (packages/scoring/src/quantlab_scoring/semantic.py).                    *)
(*                                                                         *)
(* A strategy declares features in an order in which each only reads       *)
(* earlier ones, and is judged on a condition over them.  A parameter or a *)
(* constant is a number or a word.                                         *)
(***************************************************************************)
EXTENDS ConditionTrees

Number(n) == [type |-> "number", n |-> n]
Word(w) == [type |-> "word", w |-> w]
Some == [type |-> "placeholder"]

\* _parameter_shape; constants and times lose their numbers in the same way.
Blank(value) == IF value.type = "number" THEN Some ELSE value

\* Features by position: the names a strategy gives them are left out.
FeatureShapes(features) ==
    LET shape[n \in DOMAIN features] ==
            [name |-> features[n].name,
             parameters |-> [p \in DOMAIN features[n].parameters |->
                                Blank(features[n].parameters[p])],
             inputs |-> [i \in DOMAIN features[n].inputs |-> shape[features[n].inputs[i]]]]
    IN  shape

OperandShape(operand, shapes) ==
    CASE operand.type = "feature" -> [operand EXCEPT !.of = shapes[@]]
      [] operand.type = "constant" -> [operand EXCEPT !.of = Blank(@)]
      [] OTHER -> operand

\* _condition_shape: the same tree, with the shapes of its operands.
ConditionShape(condition, shapes) ==
    [p \in DOMAIN condition |->
        IF IsLogical(condition[p]) THEN condition[p]
        ELSE [condition[p] EXCEPT !.operands = [k \in DOMAIN @ |-> OperandShape(@[k], shapes)]]]

\* semantic_group_record.  The features are sorted: a multiset.  Stop and target are
\* numbers and left out.
Group(s) ==
    LET shapes == FeatureShapes(s.features)
        often(shape) == Cardinality({n \in DOMAIN shapes : shapes[n] = shape})
    IN  [timeframe |-> s.timeframe, direction |-> s.direction,
         features |-> {<<shapes[n], often(shapes[n])>> : n \in DOMAIN shapes},
         condition |-> ConditionShape(s.condition, shapes),
         hours |-> [bound \in DOMAIN s.hours |-> Blank(s.hours[bound])]]
=============================================================================
