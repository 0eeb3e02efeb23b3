----------------------------- MODULE MCScoring -----------------------------
EXTENDS StrategyScoring

CONSTANTS k1, k2

Q(n, d) == Rational(n, d)
Term(component, source, metric, normalization, transform, points) ==
    [component |-> component, source |-> source, metric |-> metric,
     normalization |-> normalization, transform |-> transform, points |-> Whole(points)]
LinearT(a, b) == [kind |-> "LINEAR_CLAMP", minimum |-> a, maximum |-> b]
InverseT(a, b) == [kind |-> "INVERSE_LINEAR_CLAMP", best |-> a, worst |-> b]
DegradationT(a, b) == [kind |-> "DEGRADATION", tolerance |-> a, failure |-> b]
PlateauT(a, b, c, d) == [kind |-> "PLATEAU", minimum |-> a, start |-> b, end |-> c, maximum |-> d]

\* Seven of the fourteen official terms, one for every source and transform.
OfRisk(worst) ==
    [terms |->
        {Term("PERFORMANCE", "VALIDATION", "average_trade", "DIVIDE_BY_RISK_UNIT", LinearT(Q(-1, 10), Q(1, 5)), 24),
         Term("PERFORMANCE", "VALIDATION", "win_rate", "NONE", LinearT(Q(2, 5), Q(3, 5)), 6),
         Term("RISK", "VALIDATION", "max_drawdown", "DIVIDE_BY_RISK_UNIT", InverseT(Whole(2), worst), 20),
         Term("CONSISTENCY", "VALIDATION", "positive_session_rate", "NONE", LinearT(Q(1, 3), Q(2, 3)), 14),
         Term("CONSISTENCY", "DERIVED_VALIDATION", "non_losing_session_rate", "NONE", LinearT(Q(1, 2), Whole(1)), 6),
         Term("STABILITY", "COMPARISON", "average_trade_delta", "DIVIDE_BY_RISK_UNIT", DegradationT(Q(1, 20), Q(1, 2)), 20),
         Term("ACTIVITY", "VALIDATION", "trades_per_session", "NONE", PlateauT(Q(1, 2), Whole(1), Whole(10), Whole(30)), 10)},
     penalties |->
        {Term("CONCENTRATION", "VALIDATION", "largest_profitable_session_share", "NONE", LinearT(Q(1, 2), Whole(1)), 7),
         Term("CONCENTRATION", "VALIDATION", "largest_trade_count_session_share", "NONE", LinearT(Q(1, 2), Whole(1)), 3)}]
Official == OfRisk(Whole(10))
Strict == OfRisk(Whole(4))
Degenerate == OfRisk(Whole(2))

Row5(trades, average, win, drawdown, positive, losing, perSession, profitShare, delta) ==
    [validation |->
        [trades |-> Defined(Whole(trades)), average_trade |-> average, win_rate |-> Defined(win),
         max_drawdown |-> Defined(Whole(drawdown)), positive_session_rate |-> Defined(positive),
         total_sessions |-> Defined(Whole(6)), losing_sessions |-> Defined(Whole(losing)),
         trades_per_session |-> Defined(perSession), net_pnl_per_session |-> Defined(Whole(drawdown)),
         largest_profitable_session_share |-> profitShare,
         largest_trade_count_session_share |-> Defined(Q(1, 2))],
     comparison |-> [average_trade_delta |-> delta]]
Good == Row5(12, Defined(Whole(2)), Q(3, 5), 30, Q(2, 3), 0, Whole(2), Defined(Q(1, 2)), Defined(Whole(-1)))
Fair == Row5(12, Defined(Whole(1)), Q(1, 2), 40, Q(1, 2), 1, Whole(12), Defined(Q(3, 4)), Defined(Whole(-2)))
Slipping == Row5(12, Defined(Whole(1)), Q(1, 2), 40, Q(1, 2), 1, Whole(12), Defined(Q(3, 4)), Defined(Whole(-3)))
Losing == Row5(3, Defined(Whole(-1)), Q(1, 3), 60, Whole(0), 6, Q(1, 2), Undefined("NO_PROFITABLE_SESSIONS"), Defined(Whole(-9)))
Silent == Row5(0, Undefined("NO_TRADES"), Whole(0), 0, Whole(0), 0, Whole(0), Undefined("NO_PROFITABLE_SESSIONS"), Undefined("SOURCE_METRIC_UNDEFINED"))
Rows == {Good, Fair, Slipping, Losing, Silent}

\* Strategies of two structures, with other numbers in them.
Strategy(stop, period, reads, limit) ==
    [stop |-> Whole(stop), timeframe |-> "1m", direction |-> "BUY", hours |-> [start |-> Number(limit), end |-> Number(9)],
     features |-> << [name |-> "range", parameters |-> [period |-> Number(period)], inputs |-> << >>],
                     [name |-> "spread", parameters |-> [period |-> Number(limit)], inputs |-> << >>],
                     [name |-> "sma", parameters |-> [period |-> Number(period), kind |-> Word("close")], inputs |-> <<reads>>] >>,
     condition |-> Logical("AND",
        << Leaf([type |-> "comparison", operator |-> "GT",
                 operands |-> << [type |-> "feature", of |-> 1], [type |-> "constant", of |-> Number(limit)] >>]) >>)]

Passed == [discovery |-> "DISCOVERY_PASSED", validation |-> "VALIDATION_PASSED"]
Rejected == [discovery |-> "DISCOVERY_REJECTED", validation |-> "VALIDATION_NOT_RUN"]
Refuted == [discovery |-> "DISCOVERY_PASSED", validation |-> "VALIDATION_REJECTED"]

Evidence(strategies, rows, status) ==
    LET all == DOMAIN strategies
        validated == {c \in all : status[c].discovery = "DISCOVERY_PASSED"}
    IN  [intact |-> TRUE, final |-> "COMPLETE", strategies |-> strategies, statuses |-> status,
         discovery |-> [c \in all |-> "metrics"],
         dgates |-> [c \in all |-> IF c \in validated THEN "PASS" ELSE "FAIL"],
         validation |-> [c \in validated |-> rows[c].validation],
         comparisons |-> [c \in validated |-> rows[c].comparison],
         vgates |-> [c \in validated |-> IF status[c] = Passed THEN "PASS" ELSE "FAIL"]]

Same == <<Strategy(10, 5, 1, 3), Strategy(10, 9, 1, 4), Strategy(10, 9, 1, 3), Strategy(10, 5, 2, 3)>>
Apart == <<Strategy(10, 5, 1, 3), Strategy(5, 5, 2, 3), Strategy(10, 7, 2, 1)>>
AllPassed(n) == [c \in 1..n |-> Passed]

Ties == << [field |-> "units", direction |-> "DESC"], [field |-> "max_drawdown", direction |-> "ASC"],
           [field |-> "net_pnl_per_session", direction |-> "DESC"],
           [field |-> "positive_session_rate", direction |-> "DESC"], [field |-> "candidate", direction |-> "ASC"] >>
Call(e, policy, most, top, output) ==
    [evidence |-> e, policy |-> policy, most |-> most, top |-> top, output |-> output, ties |-> Ties]

ByRows == {Call(Evidence(Same, rows, AllPassed(4)), Official, 2, 2, 1) :
              rows \in {two \o <<third, fourth>> : two \in {pair \in Rows \X Rows : pair[1] # pair[2]},
                                                  third \in {Good, Fair}, fourth \in {Fair, Losing}}}
ByStatus == {Call(Evidence(Apart, <<Good, Fair, Losing>>, status), Official, 1, 3, 1) :
                status \in [1..3 -> {Passed, Rejected, Refuted}]}
Whole3 == Evidence(Apart, <<Good, Fair, Losing>>, <<Passed, Refuted, Rejected>>)
Broken ==
    {Call(e, Official, 2, 1, 1) : e \in
        {[Whole3 EXCEPT !.intact = FALSE], [Whole3 EXCEPT !.final = "RUNNING"],
         [Whole3 EXCEPT !.vgates[2] = "PASS"], [Whole3 EXCEPT !.dgates[1] = "FAIL"],
         [Whole3 EXCEPT !.statuses[2] = Passed], [Whole3 EXCEPT !.statuses[3].validation = "VALIDATION_PASSED"],
         [Whole3 EXCEPT !.validation = [c \in {1} |-> @[1]], !.statuses[2] = Passed],
         [Whole3 EXCEPT !.discovery = [c \in {1, 2} |-> "metrics"]]}}
    \cup {Call(Whole3, Degenerate, 2, 1, 1), Call(Whole3, Official, 2, 0, 1)}
Mixed == Evidence(SubSeq(Apart, 1, 2), <<Fair, Slipping>>, AllPassed(2))
Rivals == {Call(Mixed, Official, 1, 2, 1), Call(Mixed, Strict, 1, 2, 1)}
AllCalls == ByRows \cup ByStatus \cup Broken \cup Rivals

VARIABLE menu
MCInit == ScoringInit /\ menu \in {{call} : call \in AllCalls} \cup {Rivals}
MCNext ==
    \/ \E k \in (IF menu = Rivals THEN Callers ELSE {k1}) :
           (ScoringStep(k) \/ \E call \in menu : Start(k, call)) /\ UNCHANGED menu
    \/ menu = Rivals /\ Trouble /\ UNCHANGED menu
MCSpec == MCInit /\ [][MCNext]_<<scoringVars, menu>>

GroupsAreStructures ==
    \A s, t \in {Same[n] : n \in DOMAIN Same} \cup {Apart[n] : n \in DOMAIN Apart} :
        Group(s) = Group(t) <=> s.features[3].inputs = t.features[3].inputs
=============================================================================
