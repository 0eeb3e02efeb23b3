---------------------------- MODULE EvaluationStore ----------------------------
(***************************************************************************)
(* What the session-evaluation cache promises its clients: an evaluation   *)
(* is committed once, becomes published once, and neither is ever undone,  *)
(* whatever crashes or restarts happen in between.                         *)
(***************************************************************************)
EXTENDS FiniteSets

CONSTANT Evals       \* identities of candidate/session evaluations

VARIABLES
    built,       \* evaluations with a committed result
    published    \* those held by an immutable pack

vars == <<built, published>>

Init == built = {} /\ published = {}

\* A new result is committed, alone.
Build(e) ==
    /\ e \notin built
    /\ built' = built \cup {e}
    /\ UNCHANGED published

\* Committed results are published together, as one pack.
Publish(B) ==
    /\ B # {}
    /\ B \subseteq built \ published
    /\ published' = published \cup B
    /\ UNCHANGED built

Next ==
    \/ \E e \in Evals : Build(e)
    \/ \E B \in SUBSET (built \ published) : Publish(B)

Spec == Init /\ [][Next]_vars
=============================================================================
