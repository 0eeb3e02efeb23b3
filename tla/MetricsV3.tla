------------------------------- MODULE MetricsV3 -------------------------------
(***************************************************************************)
(* The streaming metrics accumulator                                       *)
(* (packages/backtest/src/quantlab_backtest/metrics_v3.py).                *)
(* Amounts are scaled integers.  A ratio of the record is a numerator and  *)
(* a denominator, or UNDEFINED.                                            *)
(***************************************************************************)
EXTENDS Integers

Larger(a, b) == IF a >= b THEN a ELSE b

\* MetricsAccumulatorV3 before any trade.
NoMetrics ==
    [trades |-> 0, wins |-> 0, losses |-> 0, breakeven |-> 0,
     gross_profit |-> 0, gross_loss |-> 0, gross_pnl |-> 0,
     costs |-> 0, slippage_impact |-> 0,
     net_profit |-> 0, net_loss |-> 0, net_pnl |-> 0,
     max_drawdown |-> 0, max_consecutive_losses |-> 0,
     equity |-> 0, peak_equity |-> 0, consecutive_losses |-> 0]

\* Variant: costs are not deducted.
NetPnlBeforeCosts(t) == t.gross - t.impact

NetPnl(t) == t.gross - t.impact - t.cost

\* The losing streak after a trade: only a loss prolongs it.
Streak(m, net) == IF net < 0 THEN m.consecutive_losses + 1 ELSE 0

\* add: the accumulator after the closed trade t.
AddTrade(m, t) ==
    LET net    == NetPnl(t)
        equity == m.equity + net
        peak   == Larger(m.peak_equity, equity)
        streak == Streak(m, net)
    IN  [trades |-> m.trades + 1,
         wins |-> m.wins + (IF net > 0 THEN 1 ELSE 0),
         losses |-> m.losses + (IF net < 0 THEN 1 ELSE 0),
         breakeven |-> m.breakeven + (IF net = 0 THEN 1 ELSE 0),
         gross_profit |-> m.gross_profit + (IF t.gross > 0 THEN t.gross ELSE 0),
         gross_loss |-> m.gross_loss + (IF t.gross < 0 THEN -t.gross ELSE 0),
         gross_pnl |-> m.gross_pnl + t.gross,
         costs |-> m.costs + t.cost,
         slippage_impact |-> m.slippage_impact + t.impact,
         net_profit |-> m.net_profit + (IF net > 0 THEN net ELSE 0),
         net_loss |-> m.net_loss + (IF net < 0 THEN -net ELSE 0),
         net_pnl |-> m.net_pnl + net,
         max_drawdown |-> Larger(m.max_drawdown, peak - equity),
         max_consecutive_losses |-> Larger(m.max_consecutive_losses, streak),
         equity |-> equity, peak_equity |-> peak, consecutive_losses |-> streak]

DefinedRatio(numerator, denominator) ==
    [status |-> "DEFINED", num |-> numerator, den |-> denominator]
UndefinedRatio(reason) == [status |-> reason, num |-> 0, den |-> 1]

\* Average winner over average loser, as one fraction.
PayoffRatio(m) ==
    IF m.wins # 0 /\ m.losses # 0 /\ m.net_loss # 0
    THEN DefinedRatio(m.net_profit * m.losses, m.net_loss * m.wins)
    ELSE UndefinedRatio(IF m.wins = 0 THEN "NO_WINS" ELSE "NO_LOSSES")

\* The ratios of to_record.
Ratios(m) ==
    [win_rate |-> IF m.trades # 0 THEN DefinedRatio(m.wins, m.trades) ELSE UndefinedRatio("NO_TRADES"),
     average_trade |-> IF m.trades # 0 THEN DefinedRatio(m.net_pnl, m.trades)
                       ELSE UndefinedRatio("NO_TRADES"),
     average_win |-> IF m.wins # 0 THEN DefinedRatio(m.net_profit, m.wins)
                     ELSE UndefinedRatio("NO_WINS"),
     average_loss |-> IF m.losses # 0 THEN DefinedRatio(-m.net_loss, m.losses)
                      ELSE UndefinedRatio("NO_LOSSES"),
     payoff_ratio |-> PayoffRatio(m),
     profit_factor |-> IF m.net_loss # 0 THEN DefinedRatio(m.net_profit, m.net_loss)
                       ELSE UndefinedRatio("NO_LOSSES")]
=============================================================================
