--------------------------- MODULE PartitionMetrics ---------------------------
(***************************************************************************)
(* Aggregation of session ledgers into a partition                         *)
(* (packages/backtest/src/quantlab_backtest/partition_metrics.py,          *)
(* aggregate_partition): one accumulator for the partition and one for the *)
(* session being read, fed by the same trades.                             *)
(*                                                                         *)
(* The sessions and their ledgers are read from iterators, so any sequence *)
(* of trades may arrive; history is the ledger itself, kept to state what  *)
(* the accumulators mean.                                                  *)
(***************************************************************************)
EXTENDS MetricsV3, Sequences, FiniteSetsExt, Functions

CONSTANTS
    Dates,         \* trading dates of the sessions
    Results,       \* what a trade may yield: gross, impact and cost
    MaxTrades      \* bound on the trades explored

ResultType == [gross : Int, impact : Nat, cost : Nat]

ASSUME PartitionAssumption ==
    /\ Dates \subseteq Nat \ {0}
    /\ Results \subseteq ResultType
    /\ MaxTrades \in Nat

VARIABLES
    pc,        \* "sessions", "ledger", "done" or "failed"
    date,      \* previous_date, 0 for None
    global,    \* global_metrics
    local,     \* the accumulator of the session being read
    rows,      \* per closed session: net P&L and number of trades
    summary,   \* the session-level values of the record, once it is built
    history    \* the trades read, each with the number of its session

partitionVars == <<pc, date, global, local, rows, summary, history>>

NoSummary == [total |-> 0, active |-> 0, profitable |-> 0, losing |-> 0, flat |-> 0,
              share |-> UndefinedRatio("NONE"), trade_share |-> UndefinedRatio("NONE")]

PartitionInit ==
    /\ pc = "sessions"
    /\ date = 0
    /\ global = NoMetrics /\ local = NoMetrics
    /\ rows = <<>>
    /\ summary = NoSummary
    /\ history = <<>>

Fail == pc' = "failed" /\ UNCHANGED <<date, global, local, rows, summary, history>>

\* Variant: the accumulator of the session is not renewed.
OpenSessionKeepsLocal(d) ==
    /\ pc = "sessions"
    /\ IF date # 0 /\ d <= date THEN Fail
       ELSE /\ date' = d
            /\ pc' = "ledger"
            /\ UNCHANGED <<global, local, rows, summary, history>>

\* The next session: its date must follow the previous one.
OpenSession(d) ==
    /\ pc = "sessions"
    /\ IF date # 0 /\ d <= date THEN Fail
       ELSE /\ date' = d
            /\ local' = NoMetrics
            /\ pc' = "ledger"
            /\ UNCHANGED <<global, rows, summary, history>>

\* One ledger record; matches is FALSE when its session or ordinal is wrong.
ReadTrade(t, matches) ==
    /\ pc = "ledger"
    /\ Len(history) < MaxTrades
    /\ IF ~matches THEN Fail
       ELSE /\ local' = AddTrade(local, t)
            /\ global' = AddTrade(global, t)
            /\ history' = Append(history, [session |-> Len(rows) + 1, trade |-> t])
            /\ UNCHANGED <<pc, date, rows, summary>>

\* The ledger of the session ends; matches is FALSE when the counts of the
\* session record disagree with the records read.
CloseSession(matches) ==
    /\ pc = "ledger"
    /\ IF ~matches THEN Fail
       ELSE /\ rows' = Append(rows, [net |-> local.net_pnl, trades |-> local.trades])
            /\ pc' = "sessions"
            /\ UNCHANGED <<date, global, local, summary, history>>

\* What the sessions earned, net of those that lost, and traded.
Nets == [n \in DOMAIN rows |-> rows[n].net]
Profits == [n \in DOMAIN rows |-> Larger(rows[n].net, 0)]
Trades == [n \in DOMAIN rows |-> rows[n].trades]

Active == {n \in DOMAIN rows : rows[n].trades > 0}
Profitable == {n \in DOMAIN rows : rows[n].net > 0}
Losing == {n \in DOMAIN rows : rows[n].net < 0}
Flat == {n \in DOMAIN rows : rows[n].net = 0}

\* The session-level values derived once all sessions have been read.
Finish ==
    /\ pc = "sessions"
    /\ IF rows = <<>> THEN Fail
       ELSE /\ summary' =
                 [total |-> Len(rows), active |-> Cardinality(Active),
                  profitable |-> Cardinality(Profitable), losing |-> Cardinality(Losing),
                  flat |-> Cardinality(Flat),
                  share |-> IF SumFunction(Profits) # 0
                            THEN DefinedRatio(Max(Range(Profits)), SumFunction(Profits))
                            ELSE UndefinedRatio("NO_PROFITABLE_SESSIONS"),
                  trade_share |-> IF history # <<>>
                                  THEN DefinedRatio(Max(Range(Trades)), Len(history))
                                  ELSE UndefinedRatio("NO_TRADES")]
            /\ pc' = "done"
            /\ UNCHANGED <<date, global, local, rows, history>>

PartitionNext ==
    \/ \E d \in Dates : OpenSession(d)
    \/ \E t \in Results, matches \in BOOLEAN : ReadTrade(t, matches)
    \/ \E matches \in BOOLEAN : CloseSession(matches)
    \/ Finish

PartitionSpec == PartitionInit /\ [][PartitionNext]_partitionVars

(***************************************************************************)
(* Types.                                                                  *)
(***************************************************************************)
MetricsType ==
    [trades : Nat, wins : Nat, losses : Nat, breakeven : Nat,
     gross_profit : Nat, gross_loss : Nat, gross_pnl : Int,
     costs : Nat, slippage_impact : Nat,
     net_profit : Nat, net_loss : Nat, net_pnl : Int,
     max_drawdown : Nat, max_consecutive_losses : Nat,
     equity : Int, peak_equity : Nat, consecutive_losses : Nat]

\* The state has its type.
PartitionTyped ==
    /\ pc \in {"sessions", "ledger", "done", "failed"}
    /\ date \in Nat
    /\ global \in MetricsType
    /\ local \in MetricsType
    /\ rows \in Seq([net : Int, trades : Nat])
    /\ history \in Seq([session : Nat, trade : ResultType])

(***************************************************************************)
(* What the numbers mean.  The reference reads the whole ledger.           *)
(***************************************************************************)
NetsOf(seq) == [n \in DOMAIN seq |-> NetPnl(seq[n])]
GrossOf(seq) == [n \in DOMAIN seq |-> seq[n].gross]
LossesOf(seq) == [n \in DOMAIN seq |-> Larger(-NetPnl(seq[n]), 0)]

\* Realised equity after the first n trades of seq.
EquityAfter(seq, n) == SumFunctionOnSet(NetsOf(seq), 1..n)

\* The deepest fall of the equity from an earlier point, the start included.
Falls(seq) == UNION {{EquityAfter(seq, a) - EquityAfter(seq, b) : b \in a..Len(seq)} :
                        a \in 0..Len(seq)}
Drawdown(seq) == Max(Falls(seq))

\* The longest run of consecutive losing trades.
LosingRuns(seq) == {n \in DOMAIN seq : \E a \in 0..(Len(seq) - n) :
                        \A j \in (a + 1)..(a + n) : NetPnl(seq[j]) < 0}
LosingRun(seq) == Max({0} \cup LosingRuns(seq))

MeansLedger(m, seq) ==
    /\ m.trades = Len(seq)
    /\ m.wins = Cardinality({n \in DOMAIN seq : NetPnl(seq[n]) > 0})
    /\ m.losses = Cardinality({n \in DOMAIN seq : NetPnl(seq[n]) < 0})
    /\ m.net_pnl = SumFunction(NetsOf(seq))
    /\ m.gross_profit - m.gross_loss = SumFunction(GrossOf(seq))
    /\ m.net_loss = SumFunction(LossesOf(seq))
    /\ m.max_drawdown = Drawdown(seq)
    /\ m.max_consecutive_losses = LosingRun(seq)

Ledger == [n \in DOMAIN history |-> history[n].trade]
\* The trades of the sessions before session n come before those of session n.
Before(n) == Cardinality({i \in DOMAIN history : history[i].session < n})
LedgerOf(n) == SubSeq(Ledger, Before(n) + 1, Before(n + 1))

\* The one-pass accumulators say what a reader of the whole ledger would: the
\* drawdown is the deepest fall from any earlier equity (also from the start),
\* and a breakeven trade ends a losing run.
AccumulatorsMeanTheLedger ==
    /\ MeansLedger(global, Ledger)
    /\ pc = "ledger" => MeansLedger(local, LedgerOf(Len(rows) + 1))

\* The amounts of an accumulator balance.
Balanced(m) ==
    /\ m.trades = m.wins + m.losses + m.breakeven
    /\ m.gross_pnl = m.gross_profit - m.gross_loss
    /\ m.net_pnl = m.net_profit - m.net_loss
    /\ m.net_pnl = m.gross_pnl - m.slippage_impact - m.costs
    /\ m.net_pnl = m.equity
    /\ m.wins > 0 <=> m.net_profit > 0
    /\ m.losses > 0 <=> m.net_loss > 0
    /\ m.peak_equity >= m.equity
    /\ m.max_drawdown >= m.peak_equity - m.equity
    /\ m.net_loss >= m.max_drawdown
    /\ m.consecutive_losses <= m.max_consecutive_losses
    /\ m.max_consecutive_losses <= m.losses

\* Both accumulators balance after every trade: net is gross less frictions,
\* profits and losses are non-zero exactly when there are winners and losers,
\* and no drawdown exceeds what was lost.
AccumulatorsBalance == Balanced(global) /\ Balanced(local)

\* No ratio of the record divides by zero, and a ratio is undefined only
\* when its own population is empty.
RatiosAreDefinedRationals ==
    LET r == Ratios(global)
    IN  /\ \A name \in DOMAIN r : r[name].den > 0
        /\ r.payoff_ratio.status = "DEFINED" <=> global.wins > 0 /\ global.losses > 0
        /\ r.profit_factor.status = "DEFINED" <=> global.losses > 0
        /\ r.payoff_ratio.status = "NO_LOSSES" => global.losses = 0

\* The partition is the sum of its sessions in what adds up, and its drawdown
\* lies between the deepest session and all the sessions together.
PartitionIsItsSessions ==
    LET deepest == [n \in DOMAIN rows |-> Drawdown(LedgerOf(n))]
    IN  pc \in {"sessions", "done"} /\ rows # <<>> =>
          /\ \A i \in DOMAIN history : \E n \in DOMAIN rows :
                 history[i].session = n /\ i \in (Before(n) + 1)..Before(n + 1)
          /\ global.net_pnl = SumFunction(Nets)
          /\ global.trades = SumFunction(Trades)
          /\ \A n \in DOMAIN rows : deepest[n] <= global.max_drawdown
          /\ global.max_drawdown <= SumFunction(deepest)

\* The session counts partition the sessions and the shares are fractions of
\* one whole: defined exactly when there is a whole, and at most one.
SharesAreFractions ==
    pc = "done" =>
        /\ summary.total = summary.profitable + summary.losing + summary.flat
        /\ summary.active >= summary.profitable + summary.losing
        /\ summary.share.status = "DEFINED" <=> summary.profitable > 0
        /\ summary.trade_share.status = "DEFINED" <=> summary.active > 0
        /\ \A share \in {summary.share, summary.trade_share} :
              share.num <= share.den /\ share.den > 0
        /\ summary.share.status = "DEFINED" =>
              summary.share.num * summary.profitable >= summary.share.den

\* The record of a partition, read trade by trade, is what a reader of all its
\* ledgers would report, for the whole and session by session, and every fraction
\* of it is defined when there is something to take it of.
RecordMeansTheLedgers ==
    /\ PartitionTyped /\ AccumulatorsMeanTheLedger /\ PartitionIsItsSessions
    /\ RatiosAreDefinedRationals /\ SharesAreFractions
=============================================================================
