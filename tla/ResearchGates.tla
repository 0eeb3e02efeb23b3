----------------------------- MODULE ResearchGates -----------------------------
(***************************************************************************)
(* What a partition of sessions is judged on: its metrics, the comparison  *)
(* of two partitions (packages/research/src/quantlab_research/             *)
(* comparison.py) and the gates over both (gates.py).                      *)
(*                                                                         *)
(* A ledger is the sequence of its trades; a session is a ledger.          *)
(***************************************************************************)
EXTENDS ExactValues, MetricsV3, SequencesExt

\* The accumulator after these trades.
Accumulated(trades) ==
    LET after[n \in 0..Len(trades)] ==
            IF n = 0 THEN NoMetrics ELSE AddTrade(after[n - 1], trades[n])
    IN  after[Len(trades)]

\* aggregate_partition of the sessions' ledgers, for the metrics gates use.
Aggregate(ledgers) ==
    LET m      == Accumulated(FlattenSeq(ledgers))
        active == Cardinality({n \in DOMAIN ledgers : ledgers[n] # <<>>})
        value(ratio) == IF ratio.status = "DEFINED" THEN Defined(Rational(ratio.num, ratio.den))
                        ELSE Undefined(ratio.status)
        count(n) == Defined(Whole(n))
        share(n) == Defined(Rational(n, Len(ledgers)))
    IN  [trades |-> count(m.trades), net_pnl |-> count(m.net_pnl),
         max_drawdown |-> count(m.max_drawdown),
         max_consecutive_losses |-> count(m.max_consecutive_losses),
         active_sessions |-> count(active), active_session_rate |-> share(active),
         trades_per_session |-> share(m.trades), net_pnl_per_session |-> share(m.net_pnl),
         win_rate |-> value(Ratios(m).win_rate),
         average_trade |-> value(Ratios(m).average_trade),
         profit_factor |-> value(Ratios(m).profit_factor)]

ComparisonBases ==
    {"trades", "trades_per_session", "active_sessions", "active_session_rate", "win_rate",
     "average_trade", "profit_factor", "net_pnl_per_session", "max_drawdown",
     "max_consecutive_losses"}
ComparisonRatios == {"trades_per_session", "profit_factor"}

BothDefined(d, v) == IsDefined(d) /\ IsDefined(v)
SourceUndefined == Undefined("SOURCE_METRIC_UNDEFINED")

Delta(d, v) == IF BothDefined(d, v) THEN Defined(Minus(v.value, d.value)) ELSE SourceUndefined

Ratio(d, v) ==
    IF ~BothDefined(d, v) THEN SourceUndefined
    ELSE IF d.value.num <= 0 THEN Undefined("DISCOVERY_DENOMINATOR_NOT_POSITIVE")
    ELSE Defined(Over(v.value, d.value))

\* compare: the deltas and ratios of validation against discovery, by base.
Compare(discovery, validation) ==
    [delta |-> [base \in ComparisonBases |-> Delta(discovery[base], validation[base])],
     ratio |-> [base \in ComparisonRatios |-> Ratio(discovery[base], validation[base])]]

\* The metrics a validation gate may name: those of the partition and of the
\* comparison.  A criterion names its source besides its metric.
Observed(criterion, metrics, comparison) ==
    CASE criterion.of = "partition" -> metrics[criterion.metric]
      [] criterion.of = "delta" -> comparison.delta[criterion.metric]
      [] criterion.of = "ratio" -> comparison.ratio[criterion.metric]

\* _failure: the reason a criterion that does not hold is recorded with.
Failure(criterion) ==
    CASE criterion.of # "partition" -> "VALIDATION_DEGRADATION_EXCEEDED"
      [] criterion.of = "partition" /\ criterion.operator \in {"GT", "GTE"} ->
            (CASE criterion.metric = "trades" -> "MIN_TRADES_NOT_MET"
               [] criterion.metric = "active_sessions" -> "MIN_ACTIVE_SESSIONS_NOT_MET"
               [] criterion.metric = "net_pnl" -> "NET_PNL_NOT_MET"
               [] criterion.metric = "profit_factor" -> "PROFIT_FACTOR_NOT_MET"
               [] OTHER -> "THRESHOLD_NOT_MET")
      [] criterion.of = "partition" /\ criterion.operator \in {"LT", "LTE"} /\
         criterion.metric = "max_drawdown" -> "MAX_DRAWDOWN_EXCEEDED"
      [] OTHER -> "THRESHOLD_NOT_MET"

\* Variant: a metric without a value is not held against the candidate.
UndefinedPasses(criterion, observed) ==
    IF ~IsDefined(observed) \/ Holds(observed.value, criterion.operator, criterion.threshold)
    THEN "PASS" ELSE Failure(criterion)

\* PASS, or why the criterion fails.
Verdict(criterion, observed) ==
    IF ~IsDefined(observed) THEN "UNDEFINED_METRIC"
    ELSE IF Holds(observed.value, criterion.operator, criterion.threshold) THEN "PASS"
    ELSE Failure(criterion)

\* apply_gate: the policy's criteria over the metrics; a policy without
\* criteria passes and says so.
ApplyGate(criteria, metrics, comparison) ==
    LET verdict == [c \in criteria |-> Verdict(c, Observed(c, metrics, comparison))]
    IN  [result |-> IF \A c \in criteria : verdict[c] = "PASS" THEN "PASS" ELSE "FAIL",
         information |-> IF criteria = {} THEN {"NO_CRITERIA_CONFIGURED"} ELSE {},
         failures |-> {<<c, verdict[c]>> : c \in {c \in criteria : verdict[c] # "PASS"}}]
=============================================================================
