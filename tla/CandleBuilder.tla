---------------------------- MODULE CandleBuilder ----------------------------
(***************************************************************************)
(* Sparse intraday candles                                                 *)
(* (packages/core/src/quantlab_core/timeframes.py, build_timeframe_candles)*)
(*                                                                         *)
(* The generator keeps one candle under construction and hands it over     *)
(* only when a trade of another bucket arrives, or when the trades end.    *)
(* Absorb is the body of its loop, Flush the code after the loop.          *)
(***************************************************************************)
EXTENDS Integers, Sequences

Bucket(ts, duration) == ts - (ts % duration)

\* The candle that a trade opens.
Opened(trade, duration) ==
    [open_time |-> Bucket(trade.ts, duration),
     close_time |-> Bucket(trade.ts, duration) + duration,
     open |-> trade.price, high |-> trade.price, low |-> trade.price,
     close |-> trade.price, volume |-> trade.quantity, trade_count |-> 1]

\* The candle c after a further trade of its bucket.
Extended(c, trade) ==
    [c EXCEPT !.high = IF trade.price > @ THEN trade.price ELSE @,
              !.low = IF trade.price < @ THEN trade.price ELSE @,
              !.close = trade.price,
              !.volume = @ + trade.quantity,
              !.trade_count = @ + 1]

\* building is empty or holds the candle under construction.
Nothing == [building |-> <<>>, emitted |-> <<>>]

Absorb(st, trade, duration) ==
    IF st.building = <<>>
    THEN [st EXCEPT !.building = <<Opened(trade, duration)>>]
    ELSE IF st.building[1].open_time # Bucket(trade.ts, duration)
    THEN [building |-> <<Opened(trade, duration)>>,
          emitted |-> Append(st.emitted, st.building[1])]
    ELSE [st EXCEPT !.building = <<Extended(@[1], trade)>>]

Flush(st) == [building |-> <<>>, emitted |-> st.emitted \o st.building]

\* The candles of a complete sequence of trades.
Candles(trades, duration) ==
    LET after[n \in 0..Len(trades)] ==
            IF n = 0 THEN Nothing ELSE Absorb(after[n - 1], trades[n], duration)
    IN  Flush(after[Len(trades)]).emitted
=============================================================================
