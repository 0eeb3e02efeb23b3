----------------------------- MODULE MCBacktestV3 -----------------------------
(***************************************************************************)
(* Inputs for model checking BacktestV3.  Time and prices are small        *)
(* integers; the distances are small enough that every level is both       *)
(* touched and missed by some price path.                                  *)
(***************************************************************************)
EXTENDS CandledRuns

\* Ticks with the given instants and prices; ties are ordered by seq.
TicksOf(times, prices) ==
    [j \in DOMAIN times |-> [ts |-> times[j], seq |-> j, price |-> prices[j], ok |-> TRUE]]

\* Frames closing at 1, 2, ..., of which those in hits satisfy the conditions.
FramesOf(closes, hits) ==
    [k \in DOMAIN closes |->
        [close |-> closes[k], kind |-> IF k \in hits THEN "hit" ELSE "miss"]]

SessionOf(date, last, ticks, frames) ==
    [date |-> date, asset |-> "A", last |-> last, ticks |-> ticks, frames |-> frames,
     trailing |-> FALSE]

\* Strategies: direction, distances and frictions.
Strategy(dir, tp, sl, slip, cost, window) ==
    [dir |-> dir, asset |-> "A", tp |-> tp, sl |-> sl, slip |-> slip, cost |-> cost,
     window |-> window]

RunOf(st, sessions) ==
    [sessions |-> sessions, dir |-> st.dir, asset |-> st.asset, tp |-> st.tp, sl |-> st.sl,
     slip |-> st.slip, cost |-> st.cost, window |-> st.window]

AnyTime == 0..9
Frictionless == {Strategy(d, 1, 1, 0, 0, AnyTime) : d \in {"BUY", "SELL"}}
Frictional == {Strategy(d, 2, 1, 1, 1, AnyTime) : d \in {"BUY", "SELL"}}
Windowed == {Strategy(d, 1, 2, 0, 1, {1, 3, 4}) : d \in {"BUY", "SELL"}}

\* One session of three ticks whose frames and last event need not agree with
\* them, so that every rejection reason occurs.
GeneralRuns ==
    {RunOf(st, <<SessionOf(1, last, TicksOf(times, prices),
                           FramesOf(<<1, 2, 3, 4>>, hits))>>) :
        st \in Frictionless \cup Frictional \cup Windowed,
        last \in {2, 4},
        times \in {<<1, 2, 3>>, <<1, 1, 2>>, <<2, 3, 3>>, <<0, 3, 4>>},
        prices \in [1..3 -> {2, 3, 5}],
        hits \in SUBSET (1..4)}

\* Two sessions of the same four ticks; the frames are the candles that the timeframe
\* engine builds from these ticks, and last is the last tick.
DerivedRun(st, times, prices, duration, hits) ==
    LET ticks   == TicksOf(times, prices)
        Day(d)  == SessionOf(d, times[Len(times)], ticks, FramesOf(Closes(ticks, duration), hits))
    IN  RunOf(st, <<Day(1), Day(2)>>)

DerivedRuns ==
    {DerivedRun(st, times, prices, duration, hits) :
        st \in Frictionless \cup Frictional,
        times \in {<<0, 1, 2, 3>>, <<0, 0, 1, 2>>, <<0, 2, 2, 3>>, <<1, 2, 4, 5>>},
        prices \in [1..4 -> {2, 3, 5}],
        duration \in {1, 2},
        hits \in {{1}, {1, 2}, {1, 3}, {2, 3}, {1, 2, 3, 4}}}

\* Two sessions, the second with every kind of defect the loop looks for.
Prices2 == {<<3, 3>>, <<3, 1>>, <<5, 2>>}
CleanSession(date) ==
    SessionOf(date, 3, TicksOf(<<1, 3>>, <<3, 5>>), FramesOf(<<1, 2>>, {1, 2}))
SecondSessions ==
    {[date |-> date, asset |-> asset, last |-> 3, trailing |-> trailing, frames |-> frames,
      ticks |-> [TicksOf(times, prices) EXCEPT ![2].ok = ok, ![2].seq = seq]] :
        date \in {1, 2}, asset \in {"A", "B"}, trailing \in BOOLEAN,
        frames \in {<<>>, FramesOf(<<1, 2>>, {1, 2}), FramesOf(<<2, 2>>, {1}),
                    FramesOf(<<1, 4>>, {2}),
                    <<[close |-> 1, kind |-> "hit"], [close |-> 4, kind |-> "bad"]>>},
        times \in {<<1, 2>>, <<2, 2>>, <<2, 1>>}, prices \in Prices2,
        ok \in BOOLEAN, seq \in {1, 2}}
FaultRuns ==
    {RunOf(st, <<CleanSession(1), second>>) : st \in Frictionless \cup Frictional,
                                              second \in SecondSessions}
    \cup {RunOf(st, <<>>) : st \in Frictionless}
    \cup {RunOf(st, <<SessionOf(1, 1, <<>>, FramesOf(<<1>>, {1}))>>) : st \in Frictionless}

\* The three families in one instance; TypeOK says of each input what the assumption
\* says of Runs.
MCInit ==
    /\ \/ run \in GeneralRuns
       \/ run \in DerivedRuns
       \/ run \in FaultRuns
    /\ Ready
MCSpec == MCInit /\ [][Next]_vars /\ WF_vars(Next)
=============================================================================
