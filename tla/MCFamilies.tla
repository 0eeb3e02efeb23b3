------------------------------- MODULE MCFamilies -------------------------------
(***************************************************************************)
(* Three sessions.  A trade is the strength of its signal and the moves of *)
(* the market since its entry, in points; it ends with the first move that *)
(* touches a level.  Every argument varies around one base.                *)
(***************************************************************************)
EXTENDS RobustnessFamilies

Move(strength, moves) == [strength |-> strength, moves |-> moves]
Market == <<<<Move(1, <<1, 3, -2>>), Move(2, <<-1, -4>>)>>,
            <<Move(2, <<2, 5>>)>>,
            <<Move(1, <<-1, 1>>), Move(2, <<1, 1>>), Move(3, <<0, 0>>)>>>>

Leaves(strategy, slip, move) ==
    \/ ~Less(Whole(move), Plus(strategy.target, slip))
    \/ ~Less(Minus(slip, strategy.stop), Whole(move))
Exit(strategy, slip, moves) ==
    LET touching == {n \in DOMAIN moves : Leaves(strategy, slip, moves[n])}
    IN  moves[IF touching = {} THEN Len(moves)
              ELSE CHOOSE n \in touching : \A m \in touching : n <= m]
SomeGross(strategy, slip, session) ==
    LET trades == SelectSeq(Market[session], LAMBDA t : Less(strategy.constant, Whole(t.strength)))
        taken  == {n \in DOMAIN trades : n % strategy.period.num = 0}
    IN  [k \in 1..Cardinality(taken) |->
            Exit(strategy, slip, trades[k * strategy.period.num].moves)]

Half == Rational(1, 2)
Free == [cost |-> Whole(0), slippage |-> Whole(0)]
Strategy == [period |-> Whole(1), constant |-> Whole(0), stop |-> Whole(2), target |-> Whole(3)]

Spec(kind, field, method, delta) == [kind |-> kind, field |-> field, method |-> method, delta |-> delta]
Perturbations ==
    <<Spec("FEATURE_PARAMETER", "period", "INTEGER_ABSOLUTE_DELTA", Whole(1)),
      Spec("STOP_LOSS", "stop", "DECIMAL_ABSOLUTE_DELTA", Whole(1)),
      Spec("STOP_LOSS", "stop", "DECIMAL_RELATIVE_DELTA", Half)>>
Bad == {Spec("FEATURE_PARAMETER", "period", "INTEGER_ABSOLUTE_DELTA", Whole(-1)),
        Spec("FEATURE_PARAMETER", "period", "DECIMAL_RELATIVE_DELTA", Half),
        Spec("FEATURE_PARAMETER", "absent", "INTEGER_ABSOLUTE_DELTA", Whole(1)),
        Spec("TAKE_PROFIT", "stop", "DECIMAL_ABSOLUTE_DELTA", Whole(1)),
        Spec("CONDITION_CONSTANT", "constant", "DECIMAL_RELATIVE_DELTA", Half),
        Spec("TAKE_PROFIT", "target", "DECIMAL_RELATIVE_DELTA", Rational(1, 9)),
        Spec("TAKE_PROFIT", "target", "DECIMAL_RELATIVE_DELTA", Rational(1, 4)),
        Spec("STOP_LOSS", "stop", "DECIMAL_ABSOLUTE_DELTA", Whole(-2))}

Change(method, value) == [method |-> method, value |-> value]
To(value) == Change("ABSOLUTE_POINTS", value)
By(value) == Change("MULTIPLIER", value)
Friction(cost, slippage) == [cost |-> cost, slippage |-> slippage]
Stresses == <<Friction(To(Whole(1)), None), Friction(None, To(Half)), Friction(By(Whole(2)), To(Whole(1)))>>

Rule(operator, value) == [operator |-> operator, threshold |-> value]
On(metric, operator, value) == [of |-> "partition", metric |-> metric, operator |-> operator,
                                threshold |-> value]
Of(family, metric, operator, value) ==
    [family |-> family, metric |-> metric, operator |-> operator, threshold |-> value]

Walk(positive) ==
    [status |-> "COMPLETED", positive |-> positive, folds |-> 3,
     metrics |-> [positive_validation_fold_rate |-> Defined(Rational(positive, 3)),
                  median_validation_net_pnl_per_session |-> Defined(Whole(1)),
                  median_validation_average_trade |->
                      IF positive = 3 THEN Undefined("SOURCE_METRIC_UNDEFINED") ELSE Defined(Half)]]
NoWalk == [status |-> "INSUFFICIENT_EVIDENCE", positive |-> 0, folds |-> 0, metrics |-> NoFamilyMetrics]

Gate == [required |-> {"WALK_FORWARD", "MONTE_CARLO"},
         criteria |-> {Of("MONTE_CARLO", "probability_net_le_zero", "LTE", Half),
                       Of("SENSITIVITY", "valid_scenarios", "GTE", Whole(1))}]
Whole4 == [required |-> Families, criteria |-> {Of("STRESS", "valid_scenarios", "GTE", Whole(1))}]
Policy ==
    [requires |-> "ROBUSTNESS_PASSED",
     walk |-> [positive_validation_fold_rate |-> Rule("GTE", Half),
               median_validation_net_pnl_per_session |-> Rule("GT", Whole(0)),
               median_validation_average_trade |-> Rule("GT", Whole(0))],
     monte |-> [median_total_net |-> Rule("GTE", Whole(0)),
                probability_net_le_zero |-> Rule("LTE", Half)],
     variants |-> [net_pnl |-> Rule("GTE", Whole(-40))], baseline_net |-> Rule("GT", Whole(0)),
     ratio |-> Rule("GTE", Rational(1, 5)),
     stresses |-> [net_pnl |-> Rule("GTE", Whole(-130)), average_trade |-> Rule("GTE", Whole(-26))]]

Row(rank, group, rival, passed) ==
    [rank |-> rank, group |-> group, rival |-> rival, passed |-> passed]
Raw == <<Row(1, "a", TRUE, TRUE), Row(2, "a", TRUE, TRUE), Row(3, "b", TRUE, FALSE),
         Row(4, "b", FALSE, FALSE), Row(5, "b", TRUE, TRUE), Row(6, "c", TRUE, TRUE)>>

Monte(method, number, length, min, threshold) ==
    [method |-> method, number |-> number, length |-> length, min |-> min, threshold |-> threshold]
Permutation(number, length) == Monte("SESSION_PERMUTATION_WITHOUT_REPLACEMENT", number, length, 1, 20)
Bootstrap(number, length) == Monte("SESSION_BOOTSTRAP_WITH_REPLACEMENT", number, length, 1, 20)

Of3(sessions) == [monte |-> sessions, sensitivity |-> <<1, 2, 3>>, stress |-> <<1, 3>>]
Base ==
    [pool |-> Of3(<<1, 2, 3>>), monte |-> Permutation(1, 2), strategy |-> Strategy, friction |-> Free,
     perturbations |-> Perturbations, sensitivity_gate |-> None,
     tolerance |-> {[metric |-> "trades", operator |-> "LTE", threshold |-> Whole(0)]},
     stresses |-> Stresses, stress_gate |-> {On("profit_factor", "GTE", Whole(1))},
     walk |-> Walk(2), ninth |-> None, gate |-> Gate, completeness |-> None, policy |-> Policy,
     raw |-> Raw, most |-> 2, top |-> 4]

Ninth(walk) == [Base EXCEPT !.walk = NoWalk, !.ninth = walk, !.completeness = Whole4,
                            !.policy.requires = "NINTH_INCREMENT_TECHNICAL_COMPLETE"]
\* Trades without a loss, which a cost turns into one; and trades that only a
\* slippage stops early.
Losing == [Base EXCEPT !.pool.stress = <<2, 3>>,
               !.stresses = <<Friction(To(Half), None), Friction(To(Half), To(Half))>>]
Stopped == [Base EXCEPT !.pool.stress = <<1>>, !.strategy.constant = Whole(1),
                !.stresses = <<Friction(None, To(Whole(1)))>>]

SomeAsks ==
    {[Base EXCEPT !.monte = m] : m \in {Permutation(2, 3), Bootstrap(3, 1), Permutation(1, 4),
         [Permutation(2, 2) EXCEPT !.min = 4], [Bootstrap(1, 3) EXCEPT !.threshold = 50]}}
    \cup {[Base EXCEPT !.perturbations = @ \o <<spec>>] : spec \in Bad}
    \cup {[Base EXCEPT !.perturbations = <<spec>>, !.tolerance = {}] : spec \in Bad}
    \cup {[Base EXCEPT !.friction = Friction(Half, Half), !.stresses = s] :
             s \in {Stresses, <<Friction(To(Whole(0)), To(Whole(1)))>>, <<Friction(By(Whole(1)), None)>>,
                    <<Friction(By(Rational(10, 9)), None)>>, <<Friction(To(Whole(0)), None)>>}}
    \cup {[Base EXCEPT !.stress_gate = g] : g \in {None, {On("net_pnl", "GT", Whole(0)),
              On("max_drawdown", "LTE", Whole(20)), On("win_rate", "GTE", Half)}}}
    \cup {[Base EXCEPT !.walk = w] : w \in {Walk(1), Walk(3), NoWalk}}
    \cup {[Base EXCEPT !.pool.monte = <<2>>, !.pool.stress = <<2>>, !.monte = Bootstrap(1, 2)],
          [Base EXCEPT !.pool.sensitivity = <<3>>], [Base EXCEPT !.pool.sensitivity = <<1>>],
          [Base EXCEPT !.pool.sensitivity = <<2>>, !.friction.cost = Rational(5, 2)],
          [Base EXCEPT !.gate = None], [Base EXCEPT !.gate.criteria = {Of("STRESS", "x", "GT", Half)}],
          [Base EXCEPT !.gate.required = @ \cup {"STRESS"}, !.policy = None, !.most = 1],
          Ninth(Walk(2)), Ninth(NoWalk), [Ninth(Walk(2)) EXCEPT !.gate = None, !.top = 1],
          Losing, Stopped}
=============================================================================
