--------------------------- MODULE MCCandidateSpace ---------------------------
(***************************************************************************)
(* Search spaces of every family and confirmation, valid and not, some of  *)
(* them written in two ways.                                               *)
(***************************************************************************)
EXTENDS CandidateSpace

D(value, zeros) == Const("NUMBER", value, zeros)
Direction == Feature("ENUM", "candle_direction", <<>>)
SomeOperands == <<Const("ENUM", 1, 0), Const("ENUM", -1, 0), Direction>>

SomePolicy ==
    [max_templates |-> 2, max_grid_values |-> 3, min_period |-> 2, max_period |-> 4,
     max_conditions |-> 3, max_cross_conditions |-> 1, max_ast_depth |-> 2, max_features |-> 2,
     max_variable_dimensions |-> 6, expansion_limit |-> 48, candidate_budget |-> 24]

Both == <<"BUY", "SELL">>
Atom(kind, grids) == [kind |-> kind, grids |-> grids, sides |-> [d \in {"BUY", "SELL"} |-> [k \in {} |-> 0]]]
Sided(kind, grids, buy, sell) ==
    [kind |-> kind, grids |-> grids, sides |-> [BUY |-> buy, SELL |-> sell]]
Entry(id, base, confirmations) == [id |-> id, base |-> base, confirmations |-> confirmations]
Space(directions, templates, stops, windows) ==
    [timeframes |-> <<"1m">>, directions |-> directions, templates |-> templates, stops |-> stops,
     targets |-> <<D(5, 0)>>, windows |-> windows]
One(directions, template) == Space(directions, <<template>>, <<D(3, 0)>>, <<"all">>)

Trend(averages, periods, operators) ==
    Atom("trend_close", [average |-> averages, period |-> periods, operator |-> operators])
Pair(short, long, operators) ==
    Atom("trend_pair", [average |-> <<"sma_close">>, short_period |-> short, long_period |-> long,
                        operator |-> operators])
Distance(lower, upper) ==
    Sided("vwap_context", [mode |-> <<"DISTANCE">>, lower_inclusive |-> <<FALSE, TRUE>>,
                           upper_inclusive |-> <<FALSE>>],
          [lower |-> lower, upper |-> upper], [lower |-> lower, upper |-> <<D(4, 0)>>])
Momentum(buy, sell) ==
    Sided("momentum", [feature |-> <<"point_change", "n_candle_return">>, period |-> <<2>>],
          [threshold |-> buy], [threshold |-> sell])
Volume(mode, grids) == Atom("volume", [mode |-> <<mode>>] @@ grids)
Volatility(mode, grids) == Atom("volatility", [mode |-> <<mode>>] @@ grids)
Raw(thresholds) == Volume("RAW", [threshold |-> thresholds])
Candle(mode, grids) == Atom("candle_context", [mode |-> <<mode>>] @@ grids)
Breakout(periods, current) ==
    Atom("breakout_previous", [period |-> periods, include_current |-> <<current>>])
Rolling(period) == [period |-> <<period>>, include_current |-> <<FALSE, TRUE>>]
Closed == [lower_inclusive |-> <<TRUE>>, upper_inclusive |-> <<FALSE>>]

BothAverages == Trend(<<"sma_close", "ema_close">>, <<2, 3>>, <<"COMPARE", "CROSS">>)
\* The same trend twice: repeated values and zeros, other names.
Written == One(Both, Entry("a", BothAverages, << >>))
Rewritten ==
    Space(Both, <<Entry("b", BothAverages, << >>),
                  Entry("c", Trend(<<"ema_close", "sma_close">>, <<3, 2, 3>>, <<"CROSS", "COMPARE">>), << >>)>>,
          <<D(3, 1)>>, <<"all">>)

MomentumRaw(sell) ==
    One(<<"BUY">>, Entry("a", Momentum(<<D(1, 0), D(1, 1)>>, sell), <<Raw(<<D(2, 0), D(2, 2)>>)>>))

ValidSpaces == {
    Written, Rewritten, MomentumRaw(<<D(-1, 0)>>), MomentumRaw(<<D(-2, 0)>>),
    One(<<"BUY">>, Entry("a", Momentum(<<D(2, 0)>>, <<D(-2, 0)>>), <<Raw(<<D(2, 0)>>)>>)),
    One(Both, Entry("a", Momentum(<<D(2, 0)>>, <<D(-2, 0)>>), <<Candle("GEOMETRY",
            [feature |-> <<"absolute_body">>, threshold |-> <<D(0, 0), D(1, 0)>>])>>)),
    Space(Both, <<Entry("a", Pair(<<2, 3, 4>>, <<3, 2>>, <<"COMPARE">>), << >>)>>,
          <<D(3, 0), D(3, 1)>>, <<"all", "morning">>),
    One(Both, Entry("a", Pair(<<2>>, <<3>>, <<"CROSS">>), <<Raw(<<D(2, 0), D(2, 1)>>)>>)),
    One(Both, Entry("a", Pair(<<2, 3>>, <<3>>, <<"CROSS">>),
                    <<Volatility("ATR_THRESHOLD", [period |-> <<2>>, threshold |-> <<D(1, 0)>>])>>)),
    One(Both, Entry("a", Distance(<<D(0, 0), D(4, 0)>>, <<D(4, 0), D(4, 1)>>), << >>)),
    One(Both, Entry("a", Atom("vwap_context", [mode |-> <<"CLOSE">>, operator |-> <<"CROSS">>]),
                    <<Volatility("ROLLING_RANGE", Rolling(2))>>)),
    One(Both, Entry("a", Breakout(<<2, 3>>, FALSE),
                    <<Volume("ROLLING", Rolling(3)), Volatility("ATR_RANGE", Closed @@
                        [period |-> <<2>>, lower |-> <<D(1, 0)>>, upper |-> <<D(2, 0)>>])>>)),
    One(Both, Entry("a", Breakout(<<2>>, FALSE),
                    <<Volume("RELATIVE", Rolling(3) @@ [threshold |-> <<D(1, 0)>>])>>)),
    One(Both, Entry("a", Candle("DIRECTION", [k \in {} |-> 0]), <<Raw(<<D(1, 0)>>)>>)),
    One(<<"SELL">>, Entry("a", Sided("candle_context", [mode |-> <<"CLOSE_POSITION">>] @@ Closed,
            [k \in {} |-> 0], [lower |-> <<D(0, 0), D(1, 0)>>, upper |-> <<D(1, 0)>>]), << >>)),
    \* Too many candidates, and too many combinations.
    Space(Both, <<Entry("a", BothAverages, << >>)>>, <<D(3, 0)>>, <<"all", "morning">>),
    Space(Both, <<Entry("a", BothAverages, << >>)>>, <<D(3, 0), D(4, 0)>>, <<"all", "morning">>)}

InvalidSpaces == {
    One(Both, Entry("a", Raw(<<D(1, 0)>>), << >>)),
    One(Both, Entry("a", Breakout(<<2>>, TRUE), << >>)),
    One(Both, Entry("a", Breakout(<<5>>, FALSE), << >>)),
    One(Both, Entry("a", Breakout(<<2>>, FALSE), <<Momentum(<<D(1, 0)>>, <<D(1, 0)>>)>>)),
    One(Both, Entry("a", Trend(<<"sma_close">>, <<2>>, <<"COMPARE">>), <<Raw(<<D(1, 0)>>), Raw(<<D(1, 0)>>)>>)),
    One(Both, Entry("a", Trend(<<"sma_close">>, <<2>>, <<"CROSS">>),
                    <<Atom("vwap_context", [mode |-> <<"CLOSE">>, operator |-> <<"CROSS">>])>>)),
    One(Both, Entry("a", Trend(<<"sma_close">>, <<2>>, <<"COMPARE">>), <<Raw(<<D(-1, 0)>>)>>)),
    One(Both, Entry("a", Atom("momentum", [feature |-> <<"point_change">>, period |-> <<2>>,
                                           threshold |-> <<D(1, 0)>>]), << >>))}

SomeSpaces == ValidSpaces \cup InvalidSpaces
=============================================================================
