------------------------------ MODULE MCEvaluation ------------------------------
(***************************************************************************)
(* What becomes of evaluated candidates: their folds (WalkForward), what   *)
(* the other robustness families find (MCFamilies) and their scores        *)
(* (MCScoring).                                                            *)
(***************************************************************************)
EXTENDS MCScoring, WalkForward

CONSTANTS Asks, Gross(_, _, _), Bits, MaxRetries, MaxScale, MaxPeriod

VARIABLES part,
          step, ask, paths, retry, families, verdicts

Robust == INSTANCE MCFamilies
robustVars == <<step, ask, paths, retry, families, verdicts>>
NoGross(strategy, slippage, session) == <<>>
RobustInputs == INSTANCE MCFamilies WITH Asks <- {}, Gross <- NoGross
RobustAsks == RobustInputs!SomeAsks
RobustGross(strategy, slippage, session) == RobustInputs!SomeGross(strategy, slippage, session)

ASSUME EvaluationAssumption == Robust!FamiliesAssumption

\* Up to six sessions and folds that overlap, touch or leave sessions between them.  A
\* session has no trades, a winner, or a loser and a winner, so that ratios and medians
\* differ from fold to fold and some are undefined.  Two of the universes are not
\* chronological.
Days(n) == [k \in 1..n |-> [id |-> k, date |-> 2 * k]]
SomeUniverses ==
    {Days(n) : n \in {0, 3, 5, 6}} \cup
    {<<[id |-> 1, date |-> 2], [id |-> 2, date |-> 2], [id |-> 3, date |-> 4]>>,
     <<[id |-> 1, date |-> 2], [id |-> 1, date |-> 3], [id |-> 3, date |-> 4]>>}

Trade(net) == [gross |-> net, impact |-> 0, cost |-> 0]
SomeLedgers == {<<>>, <<Trade(2)>>, <<Trade(-1), Trade(3)>>, <<Trade(1), Trade(-3)>>}

Criterion(of, metric, operator, num) ==
    [of |-> of, metric |-> metric, operator |-> operator, threshold |-> Whole(num)]
Profitable == {Criterion("partition", "net_pnl", "GT", 0)}
Steady == {Criterion("delta", "average_trade", "GTE", -1),
           Criterion("ratio", "trades_per_session", "LTE", 1),
           Criterion("partition", "max_drawdown", "LTE", 1)}

Policy(discovery, gap, validation, stride, min, dgate, vgate) ==
    [discovery |-> discovery, gap |-> gap, validation |-> validation, step |-> stride,
     min_folds |-> min, discovery_gate |-> dgate, validation_gate |-> vgate]
SomePolicies ==
    {Policy(1, 1, 1, 1, 2, Profitable, Steady), Policy(2, 0, 2, 1, 1, NoGate, Steady),
     Policy(1, 0, 1, 3, 1, Profitable, {}), Policy(2, 1, 1, 2, 2, NoGate, NoGate)}

NoFolds ==
    /\ stage = "done" /\ policy = None /\ sessions = <<>> /\ ledgers = <<>>
    /\ start = 0 /\ folds = <<>> /\ plan = NoPlan /\ results = <<>>
    /\ record = NoRecord
NoFamilies ==
    step = "done" /\ ask = None /\ paths = <<>> /\ retry = 0 /\ families = <<>> /\ verdicts = <<>>
NoScores == ScoringInit /\ menu = {}

EvaluationInit ==
    \/ part = "folds" /\ FoldsInit /\ NoFamilies /\ NoScores
    \/ part = "families" /\ Robust!FamiliesInit /\ NoFolds /\ NoScores
    \/ part = "scores" /\ MCInit /\ NoFolds /\ NoFamilies

EvaluationNext ==
    /\ UNCHANGED part
    /\ \/ part = "folds" /\ FoldsNext /\ UNCHANGED <<robustVars, scoringVars, menu>>
       \/ part = "families" /\ Robust!FamiliesNext /\ UNCHANGED <<foldVars, scoringVars, menu>>
       \/ part = "scores" /\ MCNext /\ UNCHANGED <<foldVars, robustVars>>
EvaluationSpec == EvaluationInit /\ [][EvaluationNext]_<<part, foldVars, robustVars, scoringVars, menu>>

\* A verdict is earned: the samples are fair and counted, the variants neighbours, the
\* stress no relief, and who passes or is emitted has all of the evidence for it.
VerdictsAreEarned ==
    part = "families" =>
        /\ Robust!SamplingIsFair
        /\ Robust!QuantilesCountPaths
        /\ Robust!PathsFallWithTheirSessions
        /\ Robust!VariantsAreNeighbours
        /\ Robust!StressDoesNotFlatter
        /\ Robust!VerdictsNeedAllEvidence
        /\ Robust!RankingIsDerived

\* Only who was confirmed is scored, and never below one he is as good as.
ScoresAreEarned == ScoresAreMonotone /\ OnlyConfirmedAreScored

\* Groups are structures, and the selection takes from them in turn.
SelectionIsDiverse == SelectionIsFair /\ GroupsAreStructures
=============================================================================
