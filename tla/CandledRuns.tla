----------------------------- MODULE CandledRuns -----------------------------
(***************************************************************************)
(* The inputs that the v3 backtest is given by a prepared session          *)
(* (packages/data/src/quantlab_data/historical.py): the frames are those   *)
(* of the candles that the timeframe engine builds from the ticks of the   *)
(* same session, and the last event of the session is its last tick.       *)
(***************************************************************************)
EXTENDS BacktestV3, CandleBuilder

CONSTANT Durations      \* the lengths of the timeframes

ASSUME DurationsAssumption == Durations \subseteq Nat \ {0}

\* The ticks as the timeframe engine reads them; the engine's ticks have no quantity.
TradesOf(ticks) ==
    [j \in DOMAIN ticks |-> [ts |-> ticks[j].ts, price |-> ticks[j].price, quantity |-> 1]]

\* When the candles of these ticks close.
Closes(ticks, duration) ==
    LET candles == Candles(TradesOf(ticks), duration)
    IN  [k \in DOMAIN candles |-> candles[k].close_time]

\* The session is made of its own ticks.
Candled(S0) ==
    /\ S0.ticks # <<>> /\ S0.last = S0.ticks[Len(S0.ticks)].ts
    /\ \A a, b \in DOMAIN S0.ticks : a < b => S0.ticks[a].ts <= S0.ticks[b].ts
    /\ \E duration \in Durations :
           [k \in DOMAIN S0.frames |-> S0.frames[k].close] = Closes(S0.ticks, duration)

\* With frames built from the session's own ticks every executable signal has
\* a fill event of its own: a candle that closes holds a tick later than the
\* availability of the candle before it, so nothing is superseded and nothing
\* waits for a fill that never comes.
DerivedSignalsMeetTheirFill ==
    \A e \in Journaled :
        e.reason \in {"SIGNAL_SUPERSEDED_SAME_FILL_EVENT", "SIGNAL_WITHOUT_FILL_POSTERIOR"}
            => ~Candled(run.sessions[e.session])
=============================================================================
