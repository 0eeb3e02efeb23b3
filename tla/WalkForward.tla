------------------------------ MODULE WalkForward ------------------------------
(***************************************************************************)
(* Rolling fixed folds over the authorised sessions                        *)
(* (packages/robustness/src/quantlab_robustness/walk_forward.py and        *)
(* run_walk_forward_candidate in engines.py): the plan, the evaluation of  *)
(* each fold and the summary over them.                                    *)
(*                                                                         *)
(* sessions is the authorised universe, each with an id and a date;        *)
(* ledgers holds the trades of the frozen candidate in each session.  The  *)
(* plan reads no ledger, and a fold reads only those of its own sessions.  *)
(***************************************************************************)
EXTENDS ResearchGates

CONSTANTS
    Universes,   \* sequences of sessions [id, date] that may be authorised
    Policies,    \* discovery, gap, validation, step, min_folds and the two gates
    Ledgers,     \* what the candidate may trade in one session
    NoGate       \* a stage without a gate

ASSUME WalkForwardAssumption ==
    /\ \A p \in Policies : /\ {p.discovery, p.validation, p.step, p.min_folds} \subseteq Nat \ {0}
                           /\ p.gap \in Nat
    /\ \A u \in Universes : u \in Seq({u[n] : n \in DOMAIN u})
    /\ Ledgers \subseteq Seq([gross : Int, impact : Nat, cost : Nat])

VARIABLES
    stage,     \* "plan", "folds", "summary", "done" or "failed"
    policy, sessions, ledgers,
    start,     \* the session the next fold would start at, less one
    folds,     \* the folds of the plan: positions of their sessions
    plan,      \* the plan record, once the last fold is placed
    results,   \* one per evaluated fold
    record     \* the candidate's result

foldVars == <<stage, policy, sessions, ledgers, start, folds, plan, results, record>>

NoPlan == [status |-> "NONE"]
NoRecord == [status |-> "NONE"]

FoldsInit ==
    /\ stage = "plan"
    /\ policy \in Policies
    /\ sessions \in Universes
    /\ ledgers \in [{sessions[n].id : n \in DOMAIN sessions} -> Ledgers]
    /\ start = 0 /\ folds = <<>> /\ plan = NoPlan
    /\ results = <<>> /\ record = NoRecord

Inputs == <<policy, sessions, ledgers>>
Width == policy.discovery + policy.gap + policy.validation

\* Unique ids and strictly increasing dates.
Chronological ==
    \A a, b \in DOMAIN sessions :
        a < b => sessions[a].id # sessions[b].id /\ sessions[a].date < sessions[b].date

Refuse ==
    /\ stage = "plan" /\ ~Chronological
    /\ stage' = "failed"
    /\ UNCHANGED <<Inputs, start, folds, plan, results, record>>

\* Variant: the gap is not left out.
FoldWithoutGap(from) ==
    LET last == from + policy.discovery
    IN  [discovery |-> (from + 1)..last, gap |-> {},
         validation |-> (last + 1)..(last + policy.validation)]

\* The fold whose first session follows position from.
Fold(from) ==
    LET last == from + policy.discovery
        held == last + policy.gap
    IN  [discovery |-> (from + 1)..last, gap |-> (last + 1)..held,
         validation |-> (held + 1)..(held + policy.validation)]

Fits == start + Width <= Len(sessions)

PlaceFold ==
    /\ stage = "plan" /\ Chronological /\ Fits
    /\ folds' = Append(folds, Fold(start))
    /\ start' = start + policy.step
    /\ UNCHANGED <<stage, Inputs, plan, results, record>>

\* The sessions behind the last fold.
UnusedTail ==
    LET last_end == IF folds = <<>> THEN 0 ELSE (Len(folds) - 1) * policy.step + Width
    IN  (last_end + 1)..Len(sessions)

\* The sessions that are validated, as often as they are.
ValidationSlots ==
    {slot \in (DOMAIN folds) \X (DOMAIN sessions) : slot[2] \in folds[slot[1]].validation}
Slots == Cardinality(ValidationSlots)

\* No further fold fits: the plan is complete.
ClosePlan ==
    /\ stage = "plan" /\ Chronological /\ ~Fits
    /\ LET unique == UNION {folds[f].validation : f \in DOMAIN folds}
       IN  plan' = [status |-> IF Len(folds) >= policy.min_folds THEN "READY"
                               ELSE "INSUFFICIENT_WALK_FORWARD_HISTORY",
                    tail |-> UnusedTail, unique |-> unique, slots |-> Slots,
                    overlap |-> Slots - Cardinality(unique),
                    fraction |-> IF Slots = 0 THEN Undefined("NO_FOLDS")
                                 ELSE Defined(Rational(Cardinality(unique), Slots))]
    /\ stage' = IF plan'.status = "READY" THEN "folds" ELSE "done"
    /\ record' = IF plan'.status = "READY" THEN NoRecord
                 ELSE [status |-> "INSUFFICIENT_EVIDENCE", metrics |-> <<>>]
    /\ UNCHANGED <<Inputs, start, folds, results>>

\* aggregate: the metrics of the candidate over some sessions, in order.
Partition(positions) ==
    LET first == CHOOSE n \in positions : \A m \in positions : n <= m
    IN  Aggregate([n \in 1..Cardinality(positions) |-> ledgers[sessions[first + n - 1].id]])

Gate(criteria, metrics, comparison) ==
    IF criteria = NoGate THEN "NOT_APPLICABLE"
    ELSE ApplyGate(criteria, metrics, comparison).result

\* One fold of the frozen candidate.  Validation does not wait for the gate of
\* discovery.
EvaluateFold ==
    /\ stage = "folds" /\ Len(results) < Len(folds)
    /\ LET fold       == folds[Len(results) + 1]
           discovery  == Partition(fold.discovery)
           validation == Partition(fold.validation)
           comparison == Compare(discovery, validation)
       IN  results' = Append(results,
               [validation |-> validation,
                dgate |-> Gate(policy.discovery_gate, discovery, comparison),
                vgate |-> Gate(policy.validation_gate, validation, comparison)])
    /\ UNCHANGED <<stage, Inputs, start, folds, plan, record>>

Passing(gate) == {f \in DOMAIN results : results[f][gate] = "PASS"}
Gated(gate) == {f \in DOMAIN results : results[f][gate] # "NOT_APPLICABLE"}
Gaining == {f \in DOMAIN results : results[f].validation.net_pnl.value.num > 0}

FoldCount(passing) == Defined(Whole(Cardinality(passing)))
Rate(passing) == Defined(Rational(Cardinality(passing), Len(results)))
\* A value about gates that every fold has.
Configured(gates, value) ==
    IF \A gate \in gates : Gated(gate) = DOMAIN results
    THEN value ELSE NotApplicable("GATE_NOT_CONFIGURED")

Series(metric) == [f \in DOMAIN results |-> results[f].validation[metric]]
SummarisedMetrics == {"average_trade", "net_pnl_per_session", "max_drawdown", "win_rate"}

\* The worst value: the largest drawdown, the least of the others.
Worst(metric, values) ==
    IF metric = "max_drawdown" THEN AtRank(values, Len(values)) ELSE AtRank(values, 1)

\* The median or the worst of the folds' values, defined when every fold has one.
Statistic(kind, metric) ==
    LET series == Series(metric)
        values == [f \in DOMAIN series |-> series[f].value]
    IN  IF \A f \in DOMAIN series : IsDefined(series[f])
        THEN Defined(IF kind = "median" THEN Median(values) ELSE Worst(metric, values))
        ELSE SourceUndefined

\* summarize_walk_forward.
Summarize ==
    /\ stage = "folds" /\ Len(results) = Len(folds)
    /\ record' =
         [status |-> "COMPLETED",
          median |-> [m \in SummarisedMetrics |-> Statistic("median", m)],
          worst |-> [m \in SummarisedMetrics |-> Statistic("worst", m)],
          total_folds |-> Len(results),
          discovery_pass_folds |-> Configured({"dgate"}, FoldCount(Passing("dgate"))),
          validation_pass_folds |-> Configured({"vgate"}, FoldCount(Passing("vgate"))),
          both_pass_folds |-> Configured({"dgate", "vgate"},
                                        FoldCount(Passing("dgate") \cap Passing("vgate"))),
          validation_pass_rate |-> Configured({"vgate"}, Rate(Passing("vgate"))),
          positive_validation_fold_rate |-> Rate(Gaining)]
    /\ stage' = "done"
    /\ UNCHANGED <<Inputs, start, folds, plan, results>>

FoldsNext == Refuse \/ PlaceFold \/ ClosePlan \/ EvaluateFold \/ Summarize

FoldsSpec == FoldsInit /\ [][FoldsNext]_foldVars

(***************************************************************************)
(* Properties.                                                             *)
(***************************************************************************)
\* The state has its type.
FoldsTyped ==
    /\ stage \in {"plan", "folds", "done", "failed"}
    /\ start \in Nat
    /\ \A f \in DOMAIN folds : \A part \in {"discovery", "gap", "validation"} :
           folds[f][part] \subseteq DOMAIN sessions
    /\ Len(results) <= Len(folds)

\* No fold is validated on what it was tuned on or on what came before: the
\* dates of a fold's discovery all precede those of its validation, and at
\* least gap sessions lie between.
NoLookAhead ==
    \A f \in DOMAIN folds : \A a \in folds[f].discovery, b \in folds[f].validation :
        /\ sessions[a].date < sessions[b].date
        /\ Cardinality({n \in DOMAIN sessions : sessions[a].date < sessions[n].date /\
                                                 sessions[n].date < sessions[b].date}) >= policy.gap

\* Every fold has its full size, and the plan has every fold that fits: the
\* tail it leaves is shorter than one step, or than one fold when none fits.
PlanIsMaximal ==
    plan # NoPlan =>
        /\ \A f \in DOMAIN folds : /\ Cardinality(folds[f].discovery) = policy.discovery
                                   /\ Cardinality(folds[f].validation) = policy.validation
        /\ plan.tail \cap UNION {folds[f].validation \cup folds[f].discovery :
                                    f \in DOMAIN folds} = {}
        /\ Cardinality(plan.tail) < (IF folds = <<>> THEN Width ELSE policy.step)
        /\ plan.tail = {} \/ Len(sessions) \in plan.tail

\* Overlapping validations are declared: the folds count every session as
\* often as it is validated, and none overlap when the step is wide enough.
OverlapIsDeclared ==
    plan # NoPlan =>
        /\ plan.slots = Len(folds) * policy.validation
        /\ plan.overlap = 0 <=> \A f, g \in DOMAIN folds :
                                    f # g => folds[f].validation \cap folds[g].validation = {}
        /\ policy.step >= policy.validation => plan.overlap = 0
        /\ plan.unique \subseteq DOMAIN sessions \ plan.tail

\* The plan of the folds: no fold looks ahead, none that fits is missing, and what
\* overlaps is declared.
PlanIsSound == FoldsTyped /\ NoLookAhead /\ PlanIsMaximal /\ OverlapIsDeclared

Completed == record.status = "COMPLETED"

\* The reported values bound the folds: no fold is worse than the worst, and
\* the median has at most half of them on either side and is the same seen
\* from above and from below.  They are defined exactly when every fold has
\* the metric.
SummaryBoundsFolds ==
    Completed => \A m \in SummarisedMetrics :
        LET series == Series(m)
            bad(a, b) == IF m = "max_drawdown" THEN Less(b, a) ELSE Less(a, b)
        IN  IF \E f \in DOMAIN series : ~IsDefined(series[f])
            THEN ~IsDefined(record.worst[m]) /\ ~IsDefined(record.median[m])
            ELSE /\ \A f \in DOMAIN series : ~bad(series[f].value, record.worst[m].value)
                 /\ \E f \in DOMAIN series : series[f].value = record.worst[m].value
                 /\ LET median == record.median[m].value
                        above == {f \in DOMAIN series : Less(median, series[f].value)}
                        below == {f \in DOMAIN series : Less(series[f].value, median)}
                    IN  /\ 2 * Cardinality(above) <= Len(series)
                        /\ 2 * Cardinality(below) <= Len(series)
                        /\ Minus(Whole(0), median) =
                              Median([f \in DOMAIN series |-> Minus(Whole(0), series[f].value)])

\* Gates only describe a fold: every planned fold is evaluated and counts in
\* the rates, whatever its gates say; a stage without a gate reports no count.
GatesDoNotSelectFolds ==
    Completed =>
        /\ record.total_folds = Len(folds)
        /\ IsDefined(record.validation_pass_folds) <=> policy.validation_gate # NoGate
        /\ IsDefined(record.both_pass_folds) <=>
              policy.validation_gate # NoGate /\ policy.discovery_gate # NoGate
        /\ IsDefined(record.validation_pass_folds) =>
              record.validation_pass_folds.value.num =
                  Cardinality({f \in DOMAIN folds :
                      LET validation == Partition(folds[f].validation)
                      IN  \A c \in policy.validation_gate :
                              LET observed == Observed(c, validation,
                                      Compare(Partition(folds[f].discovery), validation))
                              IN  IsDefined(observed) /\
                                  Holds(observed.value, c.operator, c.threshold)})

\* The summary is of all folds, whatever their gates say.
SummaryIsOfAllFolds == SummaryBoundsFolds /\ GatesDoNotSelectFolds
=============================================================================
