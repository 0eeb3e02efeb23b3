---------------------------- MODULE ConditionEngine ----------------------------
(***************************************************************************)
(* The evaluator of entry conditions, ConditionEvaluatorV2 of              *)
(* packages/core/src/quantlab_core/condition_engine_v2.py.  A cross        *)
(* remembers the operands of the frame before, by the place of its node in *)
(* the tree; a frame without one of them forgets.                          *)
(*                                                                         *)
(* A strategy and its canonical form are evaluated on the same frames by   *)
(* one evaluator each, as the engine does for each session.                *)
(***************************************************************************)
EXTENDS EntryConditions

CONSTANTS
    Conditions,   \* condition trees of strategies
    Values,       \* values an operand may take
    MaxFrames,    \* bound on the frames of a session
    Undefined     \* an undefined value; an empty memory

ASSUME ConditionsAssumption ==
    /\ MaxFrames \in Nat /\ Operands \in Seq(ToSet(Operands))
    /\ Values \subseteq Int /\ Undefined \notin Int /\ Undefined \notin Int \X Int
    /\ \A c \in Conditions : IsTree(c) /\ \A leaf \in LeafNodes(c) : IsLeaf(leaf)

VARIABLES
    condition,    \* entry_conditions of the strategy
    memory,       \* _cross_previous of its evaluator
    canonical,    \* _cross_previous of the evaluator of the canonical form
    result,       \* what both say of the last frame, or that it raised
    history       \* the frames of the session

evaluatorVars == <<condition, memory, canonical, result, history>>

\* The fields and features a condition reads.
Names(c) ==
    {o.name : o \in {x \in UNION {OperandsOf(leaf) : leaf \in LeafNodes(c)} : x.type = "named"}}

\* _resolve_operand.
Resolved(operand, frame) ==
    IF operand.type = "constant" THEN operand.value ELSE frame[operand.name]
IsDefined(operand, frame) == Resolved(operand, frame) # Undefined

Compare(l, op, r) == SignOf(l - r) \in Signs[op]

\* A pair of defined operands of different dimensions cannot be compared.
Clash(a, b, frame) == IsDefined(a, frame) /\ IsDefined(b, frame) /\ a.dim # b.dim

LeafRaises(leaf, frame) ==
    IF leaf.type = "range"
    THEN /\ IsDefined(leaf.lower, frame) /\ IsDefined(leaf.upper, frame)
         /\ Clash(leaf.value, leaf.lower, frame) \/ Clash(leaf.value, leaf.upper, frame)
    ELSE Clash(leaf.left, leaf.right, frame)

\* Every node is visited, whatever its siblings say.
Raises(c, frame) == \E leaf \in LeafNodes(c) : LeafRaises(leaf, frame)

\* What a cross says, of the pair before and the pair now.
Crossed(op, before, now) ==
    IF before = Undefined \/ now = Undefined THEN FALSE
    ELSE IF op = "CROSS_ABOVE"
    THEN before[1] <= before[2] /\ now[1] > now[2]
    ELSE before[1] >= before[2] /\ now[1] < now[2]

\* The operands a cross may remember: both defined, and numbers.
Pair(c, frame) ==
    IF ~IsDefined(c.left, frame) \/ ~IsDefined(c.right, frame) \/ Textual(c.left.dim) THEN Undefined
    ELSE <<Resolved(c.left, frame), Resolved(c.right, frame)>>

\* What a leaf says of a frame; before is what a cross remembers.
Says(leaf, frame, before) ==
    CASE leaf.type = "range" ->
            LET v == Resolved(leaf.value, frame)
                inside == /\ Compare(v, IF leaf.lowerIn THEN "GTE" ELSE "GT", Resolved(leaf.lower, frame))
                          /\ Compare(v, IF leaf.upperIn THEN "LTE" ELSE "LT", Resolved(leaf.upper, frame))
            IN  /\ \A o \in OperandsOf(leaf) : IsDefined(o, frame)
                /\ IF leaf.operator = "BETWEEN" THEN inside ELSE ~inside
      [] leaf.type = "comparison" ->
            /\ IsDefined(leaf.left, frame) /\ IsDefined(leaf.right, frame)
            /\ Compare(Resolved(leaf.left, frame), leaf.operator, Resolved(leaf.right, frame))
      [] leaf.type = "cross" -> Crossed(leaf.operator, before, Pair(leaf, frame))

CrossPlaces(c) == {p \in LeafPlaces(c) : c[p].type = "cross"}
Recalled(before, p) == IF p \in DOMAIN before THEN before[p] ELSE Undefined

\* _visit, with what the crosses remember.
Visit(c, frame, before) ==
    Truth(c, [p \in LeafPlaces(c) |-> Says(c[p], frame, Recalled(before, p))])

\* Variant: a conjunction stops at its first false child.
RememberVisited(c, frame, before) ==
    LET reached(p) == p = <<>> \/ c[<<>>].operator # "AND" \/
                      \A q \in LeafPlaces(c) : q[1] < p[1] => Says(c[q], frame, Recalled(before, q))
    IN  [p \in DOMAIN before |-> IF reached(p) THEN Pair(c[p], frame) ELSE before[p]]

\* Each cross remembers the frame just seen.
Remember(c, frame, before) == [p \in DOMAIN before |-> Pair(c[p], frame)]

Forgotten(c) == [p \in CrossPlaces(c) |-> Undefined]

\* A condition that has no canonical form is evaluated alone.
Canonical == IF Admissible(condition) THEN Normalize(condition) ELSE condition

\* An evaluator before its first frame.
Fresh ==
    /\ memory = Forgotten(condition)
    /\ canonical = Forgotten(Canonical)
    /\ result = [raised |-> FALSE, strategy |-> FALSE, canonical |-> FALSE]
    /\ history = <<>>

EvaluatorInit == condition \in Conditions /\ Fresh

\* evaluate: the next frame of the session; an exception ends it.
Evaluate(frame) ==
    /\ Len(history) < MaxFrames
    /\ ~result.raised
    /\ history' = Append(history, frame)
    /\ IF Raises(condition, frame)
       THEN /\ result' = [raised |-> TRUE, strategy |-> FALSE, canonical |-> FALSE]
            /\ UNCHANGED <<memory, canonical>>
       ELSE /\ result' = [raised |-> FALSE,
                          strategy |-> Visit(condition, frame, memory),
                          canonical |-> Visit(Canonical, frame, canonical)]
            /\ memory' = Remember(condition, frame, memory)
            /\ canonical' = Remember(Canonical, frame, canonical)
    /\ UNCHANGED condition

EvaluatorNext == \E frame \in [Names(condition) -> Values \cup {Undefined}] : Evaluate(frame)

EvaluatorSpec == EvaluatorInit /\ [][EvaluatorNext]_evaluatorVars

(***************************************************************************)
(* Properties.                                                             *)
(***************************************************************************)
\* A condition over the history: a cross compares the last two frames.
Means(c, n) ==
    Truth(c, [p \in LeafPlaces(c) |->
                 Says(c[p], history[n], IF c[p].type = "cross" /\ n > 1 THEN Pair(c[p], history[n - 1])
                                        ELSE Undefined)])

\* The state has its type: a memory holds a pair of numbers or nothing.
MemoriesTyped ==
    /\ condition \in Conditions
    /\ \A p \in CrossPlaces(condition) : memory[p] = Undefined \/ memory[p] \in Int \X Int
    /\ Len(history) <= MaxFrames

\* A cross compares two adjacent frames of the session: one that another branch
\* decided, or that lacked an operand, is neither skipped nor bridged.
CrossesReadAdjacentFrames ==
    ~result.raised /\ history # <<>> => result.strategy = Means(condition, Len(history))

\* The canonical form enters where the strategy does: reordering, merging and
\* turning its conditions changes no frame, and candidates with one canonical
\* form are one strategy.
CanonicalFormAgrees == result.strategy = result.canonical

\* A condition that is rejected as contradictory enters on no frame.
RejectedNeverEnters ==
    Admissible(condition) /\ Contradiction(Leaves(condition)) => ~result.strategy

\* Normalising again changes nothing, so that the identity of a candidate does
\* not depend on how often it was canonicalised.
CanonicalFormIsStable ==
    Admissible(condition) => Leaves(Canonical) = Leaves(condition)

\* The canonical form of a condition is the condition, whenever it is evaluated and
\* however often it is formed, and what is rejected as contradictory enters nowhere.
CanonicalFormIsTheStrategy ==
    /\ MemoriesTyped /\ CanonicalFormAgrees /\ RejectedNeverEnters /\ CanonicalFormIsStable
=============================================================================
