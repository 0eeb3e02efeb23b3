--------------------------- MODULE MCConditionEngine ---------------------------
(***************************************************************************)
(* Conditions of two atoms out of a small set: two features, a constant    *)
(* written in two ways, a text feature and one of another dimension.       *)
(* Constants are even, so that an open interval between two of them has a  *)
(* value in it.                                                            *)
(***************************************************************************)
EXTENDS ConditionEngine

A == Named("PRICE", <<"a">>)
B == Named("PRICE", <<"b">>)
D == Named("ENUM", <<"d">>)
V == Named("QUANTITY", <<"v">>)
Two == Const("PRICE", 2, 0)
TwoZero == Const("PRICE", 2, 1)
Four == Const("PRICE", 4, 0)
Up == Const("ENUM", 1, 0)
Down == Const("ENUM", 3, 0)

SomeOperands == <<Up, Four, TwoZero, D, A, Two, B, V, Down>>
SomeValues == {1, 2, 3}

SomeAtoms ==
    {Comparison(op, A, B) : op \in {"GT", "LT", "EQ", "NE"}} \cup
    {Comparison("GTE", B, A), Comparison("GT", A, A), Comparison("LT", A, Two),
     Comparison("LTE", A, TwoZero), Comparison("EQ", Two, A), Comparison("NE", A, TwoZero),
     Comparison("GTE", A, Two), Comparison("GT", Two, Four), Comparison("GT", Four, A),
     Comparison("EQ", D, Up), Comparison("EQ", Down, D), Comparison("NE", D, Up),
     Within("BETWEEN", A, TwoZero, Four, FALSE, TRUE), Within("BETWEEN", A, Two, Four, TRUE, TRUE),
     Within("NOT_BETWEEN", A, Two, Four, TRUE, FALSE)}
SomeCrosses == {Cross("CROSS_ABOVE", A, B), Cross("CROSS_BELOW", A, B), Cross("CROSS_BELOW", A, Two)}
Foreign == {Comparison("GT", A, V), Cross("CROSS_ABOVE", A, V)}

And(a, b) == Logical("AND", <<a, b>>)
Singles(S) == {Leaf(s) : s \in S}
Conjunctions == Singles(SomeAtoms) \cup {And(Leaf(s), Leaf(t)) : s, t \in SomeAtoms}
Beside(cross) ==
    LET c == Leaf(cross)
    IN  {c, Logical("NOT", <<c>>), Logical("OR", <<Leaf(Comparison("EQ", A, Two)), c>>),
         And(c, And(Leaf(Comparison("NE", B, A)), c)), And(Leaf(Comparison("GT", A, Two)), c)}
        \cup {And(c, Leaf(t)) : t \in {Comparison("GT", A, Two), Comparison("LT", A, TwoZero)}}
CrossConditions == UNION {Beside(cross) : cross \in SomeCrosses} \cup Singles(Foreign)
=============================================================================
