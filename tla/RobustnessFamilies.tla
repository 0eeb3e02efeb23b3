--------------------------- MODULE RobustnessFamilies ---------------------------
(***************************************************************************)
(* What the robustness engines find about one candidate, and what becomes  *)
(* of it (packages/robustness/src/quantlab_robustness/: sampling.py,       *)
(* monte_carlo.py, sensitivity.py, stress.py, engines.py, assessment.py,   *)
(* quantitative.py, ranking.py).  The Walk-Forward results are those of    *)
(* WalkForward; here they are given.                                       *)
(*                                                                         *)
(* Parameters of a strategy are exact numbers; amounts of a ledger are     *)
(* counted in units of the least decimal.                                  *)
(***************************************************************************)
EXTENDS ResearchGates
LOCAL M == INSTANCE MetricsV3

CONSTANTS
    Asks,               \* policies, pools and results run_robustness may be given
    Gross(_, _, _),     \* gross points of the trades of a strategy, with a slippage
                        \* per side, in a session: the backtest
    Bits,               \* width of the sampler's integers, 256 in the code
    MaxRetries,         \* bound on the rejected attempts of one draw
    MaxScale,           \* decimals of a price
    MaxPeriod,          \* largest period of a feature
    None

FamiliesAssumption ==
    /\ Bits \in Nat \ {0} /\ MaxRetries \in Nat /\ MaxScale \in Nat /\ MaxPeriod \in Nat

VARIABLES
    step,      \* "pool", "draw", then the families, the verdicts and the ranking
    ask,       \* the arguments
    paths,     \* positions of the pool drawn so far, path by path
    retry,     \* rejected attempts of the draw
    families,  \* the family results
    verdicts   \* what was concluded from them

familyVars == <<step, ask, paths, retry, families, verdicts>>

FamiliesInit ==
    /\ step = "pool" /\ ask \in Asks
    /\ paths = <<>> /\ retry = 0 /\ families = <<>> /\ verdicts = <<>>

(***************************************************************************)
(* sampling.py.                                                            *)
(***************************************************************************)
Pool == ask.pool.monte
Permutes == ask.monte.method = "SESSION_PERMUTATION_WITHOUT_REPLACEMENT"

\* A pool that is too small is no error, a permutation that cannot be is one.
OpenPool ==
    /\ step = "pool"
    /\ IF Len(Pool) < ask.monte.min THEN step' = "monte" /\ UNCHANGED paths
       ELSE IF Permutes /\ ask.monte.length > Len(Pool) THEN step' = "failed" /\ UNCHANGED paths
       ELSE step' = "draw" /\ paths' = <<<<>>>>
    /\ UNCHANGED <<ask, retry, families, verdicts>>

\* The positions that may be drawn next.
Available(path) ==
    SelectSeq([n \in DOMAIN Pool |-> n], LAMBDA n : ~Permutes \/ n \notin ToSet(path))

\* Integers from the limit on would favour the first positions.
Limit(upper) == (2^Bits \div upper) * upper

\* One attempt of draw_trace; the digest is any integer.
Draw ==
    /\ step = "draw"
    /\ LET path  == Last(paths)
           upper == Len(Available(path))
       IN  \E integer \in 0..(2^Bits - 1) :
             IF integer >= Limit(upper)
             THEN /\ retry < MaxRetries /\ retry' = retry + 1
                  /\ UNCHANGED <<step, paths>>
             ELSE LET longer == Append(path, Available(path)[(integer % upper) + 1])
                      drawn  == Append(Front(paths), longer)
                  IN  /\ retry' = 0
                      /\ IF Len(longer) < ask.monte.length THEN paths' = drawn /\ UNCHANGED step
                         ELSE IF Len(paths) < ask.monte.number
                         THEN paths' = Append(drawn, <<>>) /\ UNCHANGED step
                         ELSE paths' = drawn /\ step' = "monte"
    /\ UNCHANGED <<ask, families, verdicts>>

(***************************************************************************)
(* Evaluations.                                                            *)
(***************************************************************************)
Units(value) == (value.num * 10^MaxScale) \div value.den

Ledger(strategy, friction, session) ==
    LET gross == Gross(strategy, friction.slippage, session)
    IN  [n \in DOMAIN gross |->
            [gross |-> gross[n] * 10^MaxScale, impact |-> 2 * Units(friction.slippage),
             cost |-> 2 * Units(friction.cost)]]

\* The evaluator's aggregate over a pool.
Metrics(strategy, friction, pool) ==
    LET ledgers == [n \in DOMAIN pool |-> Ledger(strategy, friction, pool[n])]
        m       == FoldLeft(M!AddTrade, M!NoMetrics, FlattenSeq(ledgers))
        wins    == Cardinality({n \in DOMAIN pool :
                       FoldLeft(M!AddTrade, M!NoMetrics, ledgers[n]).net_pnl > 0})
    IN  Aggregate(ledgers) @@
        [gross_pnl |-> Defined(Whole(m.gross_pnl)), costs |-> Defined(Whole(m.costs)),
         slippage_impact |-> Defined(Whole(m.slippage_impact)),
         profitable_sessions |-> Defined(Whole(wins)),
         positive_session_rate |-> Defined(Rational(wins, Len(pool)))]

Deltas(names, baseline, other) == [name \in names |-> Delta(baseline[name], other[name])]

NoComparison == <<>>
GateOf(criteria, metrics) ==
    IF criteria = None THEN "NOT_APPLICABLE" ELSE ApplyGate(criteria, metrics, NoComparison).result

(***************************************************************************)
(* monte_carlo.py: the paths are ledgers laid end to end.                  *)
(***************************************************************************)
PathResult(path) ==
    LET blocks == [k \in DOMAIN path |-> Ledger(ask.strategy, ask.friction, Pool[path[k]])]
        nets   == [k \in DOMAIN path |-> FoldLeft(M!AddTrade, M!NoMetrics, blocks[k]).net_pnl]
        m      == FoldLeft(M!AddTrade, M!NoMetrics, FlattenSeq(blocks))
        sign(P(_)) == Cardinality({k \in DOMAIN path : P(nets[k])})
    IN  [total_net |-> m.net_pnl, max_drawdown |-> m.max_drawdown, trades |-> m.trades,
         max_consecutive_losses |-> m.max_consecutive_losses,
         profitable |-> sign(LAMBDA n : n > 0), losing |-> sign(LAMBDA n : n < 0),
         flat |-> sign(LAMBDA n : n = 0)]

\* worst_first; paths that tie are told apart by their hashes.
IsWorst(results, p) ==
    \A q \in DOMAIN results :
        \/ results[p].max_drawdown > results[q].max_drawdown
        \/ /\ results[p].max_drawdown = results[q].max_drawdown
           /\ results[p].total_net <= results[q].total_net

PathSummary(results) ==
    LET series(field) == [p \in DOMAIN results |-> Whole(results[p][field])]
        rank(field, percent) == Defined(NearestRank(series(field), Rational(percent, 100)))
        share(P(_)) == Defined(Rational(Cardinality({p \in DOMAIN results : P(results[p])}),
                                        Len(results)))
    IN  [path_count |-> Defined(Whole(Len(results))),
         median_total_net |-> rank("total_net", 50), p05_total_net |-> rank("total_net", 5),
         p95_max_drawdown |-> rank("max_drawdown", 95),
         p99_max_drawdown |-> rank("max_drawdown", 99),
         probability_net_le_zero |-> share(LAMBDA r : r.total_net <= 0),
         probability_drawdown_above_threshold |->
             share(LAMBDA r : r.max_drawdown > ask.monte.threshold),
         median_max_consecutive_losses |-> rank("max_consecutive_losses", 50)]

NoFamilyMetrics == [name \in {} |-> 0]

MonteCarlo ==
    /\ step = "monte"
    /\ LET results == [p \in DOMAIN paths |-> PathResult(paths[p])]
       IN  families' =
             [MONTE_CARLO |->
                IF paths = <<>>
                THEN [status |-> "INSUFFICIENT_EVIDENCE", paths |-> <<>>, metrics |-> NoFamilyMetrics]
                ELSE [status |-> "COMPLETED", paths |-> results, metrics |-> PathSummary(results),
                      worst |-> CHOOSE p \in DOMAIN results : IsWorst(results, p)]]
    /\ step' = "sensitivity"
    /\ UNCHANGED <<ask, paths, retry, verdicts>>

(***************************************************************************)
(* sensitivity.py: one parameter at a time.                                *)
(***************************************************************************)
KindOf == [period |-> "FEATURE_PARAMETER", absent |-> "FEATURE_PARAMETER",
           constant |-> "CONDITION_CONSTANT", stop |-> "STOP_LOSS", target |-> "TAKE_PROFIT"]

WithoutTwosAndFives[n \in Nat \ {0}] ==
    IF n % 2 = 0 THEN WithoutTwosAndFives[n \div 2]
    ELSE IF n % 5 = 0 THEN WithoutTwosAndFives[n \div 5] ELSE n

\* finite_decimal: NONE, or why the value is not written as a decimal.
NotDecimal(value) ==
    IF WithoutTwosAndFives[value.den] # 1 THEN "NON_TERMINATING_DECIMAL_RESULT"
    ELSE IF (10^MaxScale) % value.den # 0 THEN "DECIMAL_SCALE_EXCEEDED" ELSE "NONE"

Perturbed(strategy, spec) ==
    LET current == strategy[spec.field]
    IN  [strategy EXCEPT ![spec.field] =
            IF spec.method = "DECIMAL_RELATIVE_DELTA" THEN Times(current, Plus(Whole(1), spec.delta))
            ELSE Plus(current, spec.delta)]

Unresolved(strategy, spec) ==
    IF KindOf[spec.field] # spec.kind THEN "TARGET_KIND_PATH_MISMATCH"
    ELSE IF spec.field \notin DOMAIN strategy THEN "TARGET_NOT_RESOLVED"
    ELSE IF (spec.method = "INTEGER_ABSOLUTE_DELTA") # (spec.field = "period")
    THEN "TARGET_TYPE_MISMATCH" ELSE "NONE"

\* The strategy contract, then the identity: a variant must be another strategy.
Improper(strategy, variant) ==
    IF ~(variant.period.num \in 1..MaxPeriod) THEN "PERIOD_NOT_POSITIVE"
    ELSE IF variant.stop.num <= 0 \/ variant.target.num <= 0 THEN "STOP_OR_TARGET_NOT_POSITIVE"
    ELSE IF variant = strategy THEN "NO_OP_PERTURBATION" ELSE "NONE"

Invalid(reason) == [status |-> "INVALID", reason |-> reason, variant |-> None]

PerturbStrategy(strategy, spec) ==
    IF Unresolved(strategy, spec) # "NONE" THEN Invalid(Unresolved(strategy, spec))
    ELSE LET variant == Perturbed(strategy, spec)
             reason  == IF NotDecimal(variant[spec.field]) # "NONE"
                        THEN NotDecimal(variant[spec.field]) ELSE Improper(strategy, variant)
         IN  IF reason # "NONE" THEN Invalid(reason)
             ELSE [status |-> "VALID", reason |-> "NONE", variant |-> variant]

SensitivityScenarios ==
    [n \in DOMAIN ask.perturbations |-> PerturbStrategy(ask.strategy, ask.perturbations[n])]

IsValid(scenario) == scenario.status = "VALID"

SensitivityNames == {"trades", "average_trade", "net_pnl_per_session", "win_rate",
                     "max_drawdown", "positive_session_rate"}
MedianOf ==
    [median_trades_delta |-> "trades", median_average_trade_delta |-> "average_trade",
     median_net_pnl_per_session_delta |-> "net_pnl_per_session",
     median_win_rate_delta |-> "win_rate", median_max_drawdown_delta |-> "max_drawdown",
     median_positive_session_rate_delta |-> "positive_session_rate"]

Within(deltas, tolerance) ==
    \A c \in tolerance : /\ IsDefined(deltas[c.metric])
                         /\ Holds(deltas[c.metric].value, c.operator, c.threshold)

MedianDelta(results, metric) ==
    IF results # <<>> /\ \A n \in DOMAIN results : IsDefined(results[n].deltas[metric])
    THEN Defined(Median([n \in DOMAIN results |-> results[n].deltas[metric].value]))
    ELSE SourceUndefined

\* summarize_sensitivity; every valid scenario has a result.
SensitivitySummary(scenarios, results) ==
    LET number(n) == Defined(Whole(n))
        within == Cardinality({n \in DOMAIN results : Within(results[n].deltas, ask.tolerance)})
    IN  [requested_scenarios |-> number(Len(scenarios)), valid_scenarios |-> number(Len(results)),
         invalid_scenarios |-> number(Len(scenarios) - Len(results)),
         unique_variant_candidates |->
             number(Cardinality({results[n].variant : n \in DOMAIN results})),
         fraction_within_tolerance |->
             IF ask.tolerance = {} THEN NotApplicable("NO_TOLERANCE_CRITERIA")
             ELSE IF results = <<>> THEN Undefined("NO_VALID_SCENARIOS")
             ELSE Defined(Rational(within, Len(results)))]
        @@ [name \in DOMAIN MedianOf |-> MedianDelta(results, MedianOf[name])]

Sensitivity ==
    /\ step = "sensitivity"
    /\ LET pool      == ask.pool.sensitivity
           scenarios == SensitivityScenarios
           baseline  == Metrics(ask.strategy, ask.friction, pool)
           result(s) == LET metrics == Metrics(s.variant, ask.friction, pool)
                        IN  [variant |-> s.variant, metrics |-> metrics,
                             deltas |-> Deltas(SensitivityNames, baseline, metrics),
                             gate |-> GateOf(ask.sensitivity_gate, metrics)]
           valid     == SelectSeq(scenarios, IsValid)
           results   == [n \in DOMAIN valid |-> result(valid[n])]
       IN  families' = families @@
             [SENSITIVITY |-> [status |-> "COMPLETED", scenarios |-> scenarios, baseline |-> baseline,
                               results |-> results,
                               metrics |-> SensitivitySummary(scenarios, results)]]
    /\ step' = "stress"
    /\ UNCHANGED <<ask, paths, retry, verdicts>>

(***************************************************************************)
(* stress.py: more friction, the same candidate.                           *)
(***************************************************************************)
Resolve(baseline, change) ==
    IF change = None THEN baseline
    ELSE IF change.method = "ABSOLUTE_POINTS" THEN change.value ELSE Times(baseline, change.value)

\* A scenario that lowers a friction, or changes none, is no stress.
IsNoStress(friction) ==
    \/ Less(friction.cost, ask.friction.cost) \/ Less(friction.slippage, ask.friction.slippage)
    \/ friction = ask.friction

StressScenario(requested) ==
    LET friction == [cost |-> Resolve(ask.friction.cost, requested.cost),
                     slippage |-> Resolve(ask.friction.slippage, requested.slippage)]
        reason   == IF IsNoStress(friction) THEN "NON_STRESS_SCENARIO"
                    ELSE IF NotDecimal(friction.cost) # "NONE" THEN NotDecimal(friction.cost)
                    ELSE NotDecimal(friction.slippage)
    IN  [status |-> IF reason = "NONE" THEN "VALID" ELSE "INVALID", reason |-> reason,
         friction |-> IF reason = "NONE" THEN friction ELSE None]

StressScenarios == [n \in DOMAIN ask.stresses |-> StressScenario(ask.stresses[n])]

StressNames == {"trades", "gross_pnl", "costs", "slippage_impact", "net_pnl", "average_trade",
                "net_pnl_per_session", "max_drawdown", "win_rate", "profitable_sessions"}

TransitionOf ==
    [pass_to_pass |-> <<"PASS", "PASS">>, pass_to_fail |-> <<"PASS", "FAIL">>,
     fail_to_fail |-> <<"FAIL", "FAIL">>, fail_to_pass |-> <<"FAIL", "PASS">>,
     not_applicable |-> <<"NOT_APPLICABLE", "NOT_APPLICABLE">>]

\* summarize_stress; every valid scenario has a result.
StressSummary(scenarios, results) ==
    LET number(n) == Defined(Whole(n))
    IN  [requested_scenarios |-> number(Len(scenarios)), valid_scenarios |-> number(Len(results)),
         invalid_scenarios |-> number(Len(scenarios) - Len(results))]
        @@ [name \in DOMAIN TransitionOf |->
               number(Cardinality({n \in DOMAIN results :
                                      results[n].transition = TransitionOf[name]}))]

Stress ==
    /\ step = "stress"
    /\ LET pool      == ask.pool.stress
           scenarios == StressScenarios
           baseline  == Metrics(ask.strategy, ask.friction, pool)
           before    == GateOf(ask.stress_gate, baseline)
           result(s) == LET metrics == Metrics(ask.strategy, s.friction, pool)
                        IN  [friction |-> s.friction, metrics |-> metrics,
                             deltas |-> Deltas(StressNames, baseline, metrics),
                             transition |-> <<before, GateOf(ask.stress_gate, metrics)>>]
           valid     == SelectSeq(scenarios, IsValid)
           results   == [n \in DOMAIN valid |-> result(valid[n])]
       IN  families' = families @@
             [STRESS |-> [status |-> "COMPLETED", scenarios |-> scenarios, baseline |-> baseline,
                          results |-> results, metrics |-> StressSummary(scenarios, results)]]
    /\ step' = "assess"
    /\ UNCHANGED <<ask, paths, retry, verdicts>>

(***************************************************************************)
(* assessment.py: the facts, and a gate over all families.                 *)
(***************************************************************************)
Families == {"WALK_FORWARD", "MONTE_CARLO", "SENSITIVITY", "STRESS"}

Facts(walk) == families @@ [WALK_FORWARD |-> walk]

\* A metric that a completed family does not have.
Unregistered(policy, facts) ==
    \E c \in policy.criteria :
        /\ c.metric \notin DOMAIN facts[c.family].metrics
        /\ facts[c.family].status # "INSUFFICIENT_EVIDENCE"

Meets(c, facts) ==
    /\ c.metric \in DOMAIN facts[c.family].metrics
    /\ LET observed == facts[c.family].metrics[c.metric]
       IN  IsDefined(observed) /\ Holds(observed.value, c.operator, c.threshold)

\* apply_robustness_gate: a family without evidence weighs more than a failure.
RobustnessGate(policy, facts) ==
    IF \E f \in policy.required : facts[f].status = "INSUFFICIENT_EVIDENCE"
    THEN "INSUFFICIENT_EVIDENCE"
    ELSE IF \A c \in policy.criteria : Meets(c, facts) THEN "PASS" ELSE "FAIL"

\* assess_candidate and, with the Walk-Forward of the Ninth Increment in place
\* of the other, assess_technical_completeness.
Assess ==
    /\ step = "assess"
    /\ LET facts == Facts(ask.walk)
           ninth == Facts(ask.ninth)
       IN  IF \/ ask.gate # None /\ Unregistered(ask.gate, facts)
              \/ ask.completeness # None /\ Unregistered(ask.completeness, ninth)
           THEN step' = "failed" /\ UNCHANGED verdicts
           ELSE /\ verdicts' =
                     [technical |-> IF ask.gate = None THEN "FACTS_ONLY"
                                    ELSE RobustnessGate(ask.gate, facts),
                      complete |-> IF ask.completeness = None THEN None
                                   ELSE RobustnessGate(ask.completeness, ninth)]
                /\ step' = "quantify"
    /\ UNCHANGED <<ask, paths, retry, families>>

(***************************************************************************)
(* quantitative.py: a second verdict, from every single result.            *)
(***************************************************************************)
Criterion(observed, rule) ==
    IF ~IsDefined(observed) THEN "INSUFFICIENT_EVIDENCE"
    ELSE IF Holds(observed.value, rule.operator, rule.threshold) THEN "PASSED" ELSE "FAILED"

Reported(metrics, name) == IF name \in DOMAIN metrics THEN metrics[name] ELSE Undefined("MISSING")

\* The legacy gate, or the completeness of the Ninth Increment.
Technical ==
    LET status == IF ask.policy.requires = "ROBUSTNESS_PASSED" THEN verdicts.technical
                  ELSE verdicts.complete
    IN  CASE status = "PASS" -> "PASSED" [] status = "FAIL" -> "FAILED"
          [] OTHER -> "INSUFFICIENT_EVIDENCE"

\* The nets of the variants as shares of the baseline's.
NetRatio(scenarios, results, baseline) ==
    IF baseline.value.num = 0 THEN Undefined("ZERO_BASELINE_NET")
    ELSE IF Len(results) # Len(scenarios) THEN Undefined("MISSING_VALID_VARIANT_NET")
    ELSE IF results = <<>> THEN Undefined("NO_REQUIRED_SENSITIVITY_VARIANTS")
    ELSE Defined(Median([n \in DOMAIN results |->
                            Over(results[n].metrics.net_pnl.value, baseline.value)]))

\* build_quantitative_evidence: what the families evaluated is evaluated again, to
\* the same records.
Evidence ==
    [walk |-> IF ask.ninth = None THEN ask.walk.metrics ELSE ask.ninth.metrics,
     monte |-> families.MONTE_CARLO.metrics,
     sensitivity |-> families.SENSITIVITY, stress |-> families.STRESS]

\* Variant: a scenario that could not be run is passed over.
ResultsOnly(found, rules) ==
    {Criterion(found.results[n].metrics[name], rules[name]) :
        n \in DOMAIN found.results, name \in DOMAIN rules}

\* Of each result, each metric a criterion; an invalid scenario is one that has
\* no evidence.
OfScenarios(found, rules) ==
    {Criterion(found.results[n].metrics[name], rules[name]) :
        n \in DOMAIN found.results, name \in DOMAIN rules}
    \cup IF Len(found.results) = Len(found.scenarios) THEN {} ELSE {"INSUFFICIENT_EVIDENCE"}

Criteria(policy, evidence) ==
    LET tested   == evidence.sensitivity
        baseline == tested.baseline.net_pnl
        of(metrics, rules) ==
            {Criterion(Reported(metrics, name), rules[name]) : name \in DOMAIN rules}
    IN  {Technical,
         Criterion(baseline, policy.baseline_net),
         Criterion(NetRatio(tested.scenarios, tested.results, baseline), policy.ratio)}
        \cup of(evidence.walk, policy.walk) \cup of(evidence.monte, policy.monte)
        \cup OfScenarios(tested, policy.variants) \cup OfScenarios(evidence.stress, policy.stresses)

\* assess_quantitative_candidate: evidence that is missing weighs more than a failure.
AssessQuantities ==
    /\ step = "quantify"
    /\ LET criteria == Criteria(ask.policy, Evidence)
       IN  verdicts' = verdicts @@
             [quantitative |-> IF ask.policy = None THEN None
                               ELSE IF "INSUFFICIENT_EVIDENCE" \in criteria
                               THEN "INSUFFICIENT_EVIDENCE"
                               ELSE IF "FAILED" \in criteria THEN "FAILED" ELSE "PASSED"]
    /\ step' = "rank"
    /\ UNCHANGED <<ask, paths, retry, families>>

(***************************************************************************)
(* ranking.py: the raw ranking, of those who qualified.                    *)
(***************************************************************************)
\* The groups take turns, in the order of their first members.
Diversify(ranking, most) ==
    LET mates(row) == {n \in DOMAIN ranking : ranking[n].group = row.group}
        turn(row)  == Cardinality({n \in mates(row) : ranking[n].rank < row.rank})
        lead(row)  == CHOOSE k \in {ranking[n].rank : n \in mates(row)} :
                          \A n \in mates(row) : k <= ranking[n].rank
    IN  SortSeq(SelectSeq(ranking, LAMBDA row : turn(row) < most),
                LAMBDA a, b : turn(a) < turn(b) \/ (turn(a) = turn(b) /\ lead(a) < lead(b)))

TopN(diversified, top) ==
    SubSeq(diversified, 1, IF top < Len(diversified) THEN top ELSE Len(diversified))

\* The rival candidates bring their verdicts along.
Rank ==
    /\ step = "rank"
    /\ LET qualified(of) == SelectSeq(ask.raw, LAMBDA row :
                               IF row.rival THEN row.passed ELSE verdicts[of] \in {"PASS", "PASSED"})
           ranked(of) == LET wide == Diversify(qualified(of), ask.most)
                         IN  [ranking |-> qualified(of), diversified |-> wide,
                              emitted |-> TopN(wide, ask.top)]
       IN  verdicts' = verdicts @@
             [selected |-> IF ask.gate = None THEN None ELSE ranked("technical"),
              emitted |-> IF ask.policy = None THEN None ELSE ranked("quantitative")]
    /\ step' = "done"
    /\ UNCHANGED <<ask, paths, retry, families>>

FamiliesNext ==
    OpenPool \/ Draw \/ MonteCarlo \/ Sensitivity \/ Stress \/ Assess \/ AssessQuantities \/ Rank

FamiliesSpec == FamiliesInit /\ [][FamiliesNext]_familyVars

(***************************************************************************)
(* Properties.                                                             *)
(***************************************************************************)
Found(family) == family \in DOMAIN families

\* Whatever the digests are, every position is as likely as any other, a permutation
\* visits no session twice, and one of the whole pool changes the order of its trades
\* only (sampling.py, 35-64, 108-130).
SamplingIsFair ==
    /\ \A upper \in 1..Len(Pool), i, j \in 0..(Len(Pool) - 1) :
          i < upper /\ j < upper =>
              Cardinality({n \in 0..(Limit(upper) - 1) : n % upper = i}) =
              Cardinality({n \in 0..(Limit(upper) - 1) : n % upper = j})
    /\ \A p \in DOMAIN paths :
          /\ ToSet(paths[p]) \subseteq DOMAIN Pool
          /\ Permutes => IsInjective(paths[p])
    /\ Found("MONTE_CARLO") /\ Permutes /\ ask.monte.length = Len(Pool) =>
          LET pool == Metrics(ask.strategy, ask.friction, Pool)
              results == families.MONTE_CARLO.paths
          IN  \A p \in DOMAIN results : /\ Whole(results[p].total_net) = pool.net_pnl.value
                                        /\ Whole(results[p].trades) = pool.trades.value

\* The quantiles of the paths and the shares of the paths tell the same: the median is
\* a loss when half of the paths lose, and the tail exceeds the threshold when the
\* share of paths that do is larger than the tail (monte_carlo.py, 112-166).
QuantilesCountPaths ==
    Found("MONTE_CARLO") /\ families.MONTE_CARLO.status = "COMPLETED" =>
        LET m       == families.MONTE_CARLO.metrics
            results == families.MONTE_CARLO.paths
            worst   == results[families.MONTE_CARLO.worst]
            losing  == m.probability_net_le_zero.value
            above   == m.probability_drawdown_above_threshold.value
            limit   == Whole(ask.monte.threshold)
        IN  /\ m.p05_total_net.value.num <= 0 <=> ~Less(losing, Rational(1, 20))
            /\ m.median_total_net.value.num <= 0 <=> ~Less(losing, Rational(1, 2))
            /\ Less(limit, m.p99_max_drawdown.value) <=> Less(Rational(1, 100), above)
            /\ Less(limit, m.p95_max_drawdown.value) <=> Less(Rational(1, 20), above)
            /\ \A p \in DOMAIN results : results[p].max_drawdown <= worst.max_drawdown

\* A path is no better than what it is made of: it falls at least as deep and as long
\* as each of its sessions (monte_carlo.py, 56-110).
PathsFallWithTheirSessions ==
    Found("MONTE_CARLO") => \A p \in DOMAIN families.MONTE_CARLO.paths :
        \A k \in DOMAIN paths[p] :
            LET session == Metrics(ask.strategy, ask.friction, <<Pool[paths[p][k]]>>)
                path    == families.MONTE_CARLO.paths[p]
            IN  /\ session.max_drawdown.value.num <= path.max_drawdown
                /\ session.max_consecutive_losses.value.num <= path.max_consecutive_losses

\* Where friction rises but the slippage stays, so that no fill moves, no number gets
\* better, and a gate that failed passes only if it could not be judged before; and no
\* scenario takes less for a trade than the baseline (stress.py, 1, 60-66).
StressDoesNotFlatter ==
    Found("STRESS") => \A n \in DOMAIN families.STRESS.results :
        LET result   == families.STRESS.results[n]
            baseline == families.STRESS.baseline
            value(name) == result.metrics[name].value
            undefined(c) == ~IsDefined(baseline[c.metric])
        IN  /\ ~Less(result.friction.cost, ask.friction.cost)
            /\ ~Less(result.friction.slippage, ask.friction.slippage)
            /\ result.friction.slippage = ask.friction.slippage =>
                 /\ value("trades") = baseline.trades.value
                 /\ ~Less(baseline.net_pnl.value, value("net_pnl"))
                 /\ ~Less(value("max_drawdown"), baseline.max_drawdown.value)
                 /\ ~Less(baseline.profitable_sessions.value, value("profitable_sessions"))
                 /\ result.transition = <<"FAIL", "PASS">> => \E c \in ask.stress_gate : undefined(c)

\* A variant is a strategy of the contract that differs from the candidate in the one
\* parameter its scenario names, and scenarios that lead to one variant count as one
\* (sensitivity.py, 60-140, 143-155).
VariantsAreNeighbours ==
    Found("SENSITIVITY") =>
        LET found == families.SENSITIVITY
            valid == {n \in DOMAIN found.scenarios : IsValid(found.scenarios[n])}
        IN  /\ \A n \in valid :
                 LET variant == found.scenarios[n].variant
                 IN  /\ {f \in DOMAIN variant : variant[f] # ask.strategy[f]} =
                            {ask.perturbations[n].field}
                     /\ \A f \in DOMAIN variant \ {"constant"} : variant[f].num > 0
                     /\ variant.period.den = 1
            /\ Cardinality(valid) = Len(found.results)
            /\ Cardinality({found.scenarios[n].variant : n \in valid}) =
                   found.metrics.unique_variant_candidates.value.num

\* A verdict in favour rests on all of the evidence: no family without a result, no
\* scenario that could not be run, no variant below the rule, as many winning folds as
\* the least number, and variants that keep the share of a profit that the policy asks
\* for (quantitative.py, 340-512).
VerdictsNeedAllEvidence ==
    step = "done" /\ ask.policy # None =>
        LET tested  == families.SENSITIVITY
            walk    == IF ask.ninth = None THEN ask.walk ELSE ask.ninth
            passed  == verdicts.quantitative = "PASSED"
            nets    == [n \in DOMAIN tested.results |-> tested.results[n].metrics.net_pnl.value]
            profit  == tested.baseline.net_pnl.value
            share   == ask.policy.walk.positive_validation_fold_rate.threshold
        IN  /\ verdicts.quantitative # "INSUFFICIENT_EVIDENCE" =>
                 /\ walk.status = "COMPLETED" /\ families.MONTE_CARLO.status = "COMPLETED"
                 /\ Len(tested.results) = Len(tested.scenarios)
                 /\ Len(families.STRESS.results) = Len(families.STRESS.scenarios)
                 /\ profit.num # 0
            /\ passed => walk.positive * share.den >= share.num * walk.folds
            /\ passed /\ profit.num > 0 /\ ask.policy.ratio.operator = "GTE" =>
                 ~Less(Median(nets), Times(profit, ask.policy.ratio.threshold))
            /\ passed /\ ask.policy.requires = "ROBUSTNESS_PASSED" => verdicts.technical = "PASS"

\* What is emitted qualified: no group has a further turn while another waits for its
\* own, each sends its best first, and who is left out had enough better mates
\* (ranking.py, 53-86).
RankingIsDerived ==
    step = "done" => \A of \in {"selected", "emitted"} : verdicts[of] # None =>
        LET wide == verdicts[of].diversified
            turns(n, k) == Cardinality({m \in 1..(n - 1) : wide[m].group = wide[k].group})
            better(row, rows) == {n \in DOMAIN rows : rows[n].group = row.group /\ rows[n].rank < row.rank}
        IN  /\ \A a, b \in DOMAIN wide :
                 a < b => /\ turns(a, a) <= turns(b, b)
                          /\ wide[a].group = wide[b].group => wide[a].rank < wide[b].rank
            /\ \A row \in ToSet(verdicts[of].ranking) \ ToSet(wide) :
                  Cardinality(better(row, wide)) = ask.most
            /\ IsPrefix(verdicts[of].emitted, wide)
            /\ ToSet(wide) \subseteq ToSet(verdicts[of].ranking)
=============================================================================
