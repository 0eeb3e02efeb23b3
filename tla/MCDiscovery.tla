------------------------------ MODULE MCDiscovery ------------------------------
(***************************************************************************)
(* The two users of EntryConditions side by side: what a strategy enters   *)
(* on (MCConditionEngine), with crosses over three frames and conjunctions *)
(* over one, and the strategies a search space makes (MCCandidateSpace).   *)
(***************************************************************************)
EXTENDS MCConditionEngine, CandidateSpace

VARIABLE part

SpaceInputs == INSTANCE MCCandidateSpace WITH Spaces <- {}, Policy <- Undefined, Operands <- << >>

\* The operands of both, in the order of their bytes.
AllOperands == <<Const("ENUM", -1, 0)>> \o SomeOperands \o <<SpaceInputs!Direction>>
AllConditions == CrossConditions \cup Conjunctions
AllSpaces == SpaceInputs!SomeSpaces
OnePolicy == SpaceInputs!SomePolicy

MCInit ==
    \/ /\ \/ part = "crosses" /\ condition \in CrossConditions
          \/ part = "conjunctions" /\ condition \in Conjunctions
       /\ Fresh
       /\ space = << >> /\ phase = "none" /\ Tables
    \/ /\ part = "space" /\ condition = Leaf(Comparison("GT", A, B)) /\ Fresh
       /\ SpaceInit

MCNext ==
    /\ UNCHANGED part
    /\ \/ /\ part = "crosses" \/ (part = "conjunctions" /\ history = << >>)
          /\ EvaluatorNext /\ UNCHANGED spaceVars
       \/ part = "space" /\ SpaceNext /\ UNCHANGED evaluatorVars
MCSpec == MCInit /\ [][MCNext]_<<evaluatorVars, part, spaceVars>>
=============================================================================
