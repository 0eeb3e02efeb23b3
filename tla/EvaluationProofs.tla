--------------------------- MODULE EvaluationProofs ---------------------------
(***************************************************************************)
(* What a candidate is evaluated by, for every ledger, every universe of   *)
(* sessions and any number of processes.                                   *)
(*                                                                         *)
(* A partition: its accumulators balance, and the record they make is what *)
(* a reader of all its ledgers would report.  The accumulators are related *)
(* to the whole ledger through the equity, its peak and the current losing *)
(* streak; the sessions are slices of the ledger, so what adds up adds up, *)
(* and a fall of the whole is no deeper than the falls of its slices       *)
(* together.                                                               *)
(*                                                                         *)
(* The folds: the plan looks at nothing ahead, leaves out no fold that     *)
(* fits and declares every overlap, and the summary counts every fold and  *)
(* reports values bounded by those of the folds.                           *)
(*                                                                         *)
(* The scores: an export is what its call computes, since a row of the     *)
(* score cache is found under the score it holds.                          *)
(*                                                                         *)
(* The cache of evaluated sessions: one writer, an index that agrees with  *)
(* the packs, results that are never lost or moved, and the abstract store *)
(* implemented.  The lock makes the process inside the cache unique, so    *)
(* whatever it selected as pending stays without a pack until it indexes   *)
(* it itself; hence giving the rows of a batch their pack never takes one  *)
(* from another row, wherever earlier processes died.                      *)
(***************************************************************************)
EXTENDS PartitionMetrics, WalkForward, StrategyScoring, SessionCache, FoldLemmas,
        SequenceTheorems

\* Larger returns one of its arguments, and neither exceeds it.
LEMMA LargerIs ==
    ASSUME NEW a \in Int, NEW b \in Int
    PROVE  Larger(a, b) \in {a, b} /\ Larger(a, b) >= a /\ Larger(a, b) >= b
BY SMT DEF Larger

\* The empty accumulator has its type and balances.
LEMMA NoMetricsBalanced == NoMetrics \in MetricsType /\ Balanced(NoMetrics)
<1>1. NoMetrics \in MetricsType
  BY SMT DEF NoMetrics, MetricsType
<1>2. Balanced(NoMetrics)
  BY SMT DEF NoMetrics, Balanced
<1> QED BY <1>1, <1>2

\* Adding a trade keeps an accumulator typed and balanced.
LEMMA AddTradeBalanced ==
    ASSUME NEW m \in MetricsType, Balanced(m), NEW t \in ResultType
    PROVE  AddTrade(m, t) \in MetricsType /\ Balanced(AddTrade(m, t))
<1> DEFINE net == NetPnl(t)
           equity == m.equity + net
           peak == Larger(m.peak_equity, equity)
           streak == IF net < 0 THEN m.consecutive_losses + 1 ELSE 0
           n == AddTrade(m, t)
<1>1. /\ t.gross \in Int /\ t.impact \in Nat /\ t.cost \in Nat
      /\ net = t.gross - t.impact - t.cost
  BY DEF ResultType, NetPnl
<1>2. /\ m.trades \in Nat /\ m.wins \in Nat /\ m.losses \in Nat /\ m.breakeven \in Nat
      /\ m.gross_profit \in Nat /\ m.gross_loss \in Nat /\ m.gross_pnl \in Int
      /\ m.costs \in Nat /\ m.slippage_impact \in Nat
      /\ m.net_profit \in Nat /\ m.net_loss \in Nat /\ m.net_pnl \in Int
      /\ m.max_drawdown \in Nat /\ m.max_consecutive_losses \in Nat
      /\ m.equity \in Int /\ m.peak_equity \in Nat /\ m.consecutive_losses \in Nat
  BY DEF MetricsType
<1>3. /\ n.trades = m.trades + 1
      /\ n.wins = m.wins + (IF net > 0 THEN 1 ELSE 0)
      /\ n.losses = m.losses + (IF net < 0 THEN 1 ELSE 0)
      /\ n.breakeven = m.breakeven + (IF net = 0 THEN 1 ELSE 0)
      /\ n.gross_profit = m.gross_profit + (IF t.gross > 0 THEN t.gross ELSE 0)
      /\ n.gross_loss = m.gross_loss + (IF t.gross < 0 THEN -t.gross ELSE 0)
      /\ n.gross_pnl = m.gross_pnl + t.gross
      /\ n.costs = m.costs + t.cost
      /\ n.slippage_impact = m.slippage_impact + t.impact
      /\ n.net_profit = m.net_profit + (IF net > 0 THEN net ELSE 0)
      /\ n.net_loss = m.net_loss + (IF net < 0 THEN -net ELSE 0)
      /\ n.net_pnl = m.net_pnl + net
      /\ n.max_drawdown = Larger(m.max_drawdown, peak - equity)
      /\ n.max_consecutive_losses = Larger(m.max_consecutive_losses, streak)
      /\ n.equity = equity /\ n.peak_equity = peak /\ n.consecutive_losses = streak
  BY DEF AddTrade, Streak
<1>4. n = [trades |-> n.trades, wins |-> n.wins, losses |-> n.losses,
           breakeven |-> n.breakeven, gross_profit |-> n.gross_profit,
           gross_loss |-> n.gross_loss, gross_pnl |-> n.gross_pnl, costs |-> n.costs,
           slippage_impact |-> n.slippage_impact, net_profit |-> n.net_profit,
           net_loss |-> n.net_loss, net_pnl |-> n.net_pnl,
           max_drawdown |-> n.max_drawdown,
           max_consecutive_losses |-> n.max_consecutive_losses, equity |-> n.equity,
           peak_equity |-> n.peak_equity, consecutive_losses |-> n.consecutive_losses]
  BY DEF AddTrade
<1> HIDE DEF n, net
<1>5. net \in Int /\ equity \in Int
  BY <1>1, <1>2, SMT
<1>6. peak \in Nat /\ peak >= equity /\ peak >= m.peak_equity /\ peak \in {m.peak_equity, equity}
  BY <1>2, <1>5, LargerIs, SMT
<1>7. streak \in Nat /\ streak <= m.consecutive_losses + 1
      /\ (net >= 0 => streak = 0)
  BY <1>2, <1>5, SMT
<1> HIDE DEF peak, streak
<1>8. /\ n.max_drawdown \in {m.max_drawdown, peak - equity}
      /\ n.max_drawdown >= m.max_drawdown /\ n.max_drawdown >= peak - equity
  BY <1>2, <1>3, <1>5, <1>6, LargerIs, SMT
<1>9. /\ n.max_consecutive_losses \in {m.max_consecutive_losses, streak}
      /\ n.max_consecutive_losses >= m.max_consecutive_losses
      /\ n.max_consecutive_losses >= streak
  BY <1>2, <1>3, <1>7, LargerIs, SMT
<1>10. n \in MetricsType
  <2>1. /\ n.trades \in Nat /\ n.wins \in Nat /\ n.losses \in Nat /\ n.breakeven \in Nat
        /\ n.gross_profit \in Nat /\ n.gross_loss \in Nat /\ n.gross_pnl \in Int
        /\ n.costs \in Nat /\ n.slippage_impact \in Nat
        /\ n.net_profit \in Nat /\ n.net_loss \in Nat /\ n.net_pnl \in Int
    BY <1>1, <1>2, <1>3, <1>5, SMT
  <2>2. /\ n.max_drawdown \in Nat /\ n.max_consecutive_losses \in Nat
        /\ n.equity \in Int /\ n.peak_equity \in Nat /\ n.consecutive_losses \in Nat
    BY <1>2, <1>3, <1>5, <1>6, <1>7, <1>8, <1>9, SMT
  <2> QED BY <2>1, <2>2, <1>4 DEF MetricsType
<1>11. Balanced(n)
  <2>0. /\ m.trades = m.wins + m.losses + m.breakeven
        /\ m.gross_pnl = m.gross_profit - m.gross_loss
        /\ m.net_pnl = m.net_profit - m.net_loss
        /\ m.net_pnl = m.gross_pnl - m.slippage_impact - m.costs
        /\ m.net_pnl = m.equity
        /\ m.wins > 0 <=> m.net_profit > 0
        /\ m.losses > 0 <=> m.net_loss > 0
        /\ m.peak_equity >= m.equity
        /\ m.max_drawdown >= m.peak_equity - m.equity
        /\ m.net_loss >= m.max_drawdown
        /\ m.consecutive_losses <= m.max_consecutive_losses
        /\ m.max_consecutive_losses <= m.losses
    BY DEF Balanced
  <2>1. n.trades = n.wins + n.losses + n.breakeven
    <3>1. CASE net > 0
      <4>1. n.wins = m.wins + 1 /\ n.losses = m.losses /\ n.breakeven = m.breakeven
        BY <3>1, <1>2, <1>3, <1>5, SMT
      <4> QED BY <4>1, <2>0, <1>2, <1>3, SMT
    <3>2. CASE net < 0
      <4>1. n.wins = m.wins /\ n.losses = m.losses + 1 /\ n.breakeven = m.breakeven
        BY <3>2, <1>2, <1>3, <1>5, SMT
      <4> QED BY <4>1, <2>0, <1>2, <1>3, SMT
    <3>3. CASE net = 0
      <4>1. n.wins = m.wins /\ n.losses = m.losses /\ n.breakeven = m.breakeven + 1
        BY <3>3, <1>2, <1>3, <1>5, SMT
      <4> QED BY <4>1, <2>0, <1>2, <1>3, SMT
    <3> QED BY <3>1, <3>2, <3>3, <1>5, SMT
  <2>a. n.gross_pnl = n.gross_profit - n.gross_loss
    <3>1. (IF t.gross > 0 THEN t.gross ELSE 0) - (IF t.gross < 0 THEN -t.gross ELSE 0) = t.gross
      BY <1>1, SMT
    <3> QED BY <3>1, <2>0, <1>1, <1>2, <1>3, SMT
  <2>b. n.net_pnl = n.net_profit - n.net_loss
    <3>1. (IF net > 0 THEN net ELSE 0) - (IF net < 0 THEN -net ELSE 0) = net
      BY <1>5, SMT
    <3> DEFINE profit == IF net > 0 THEN net ELSE 0
               loss == IF net < 0 THEN -net ELSE 0
    <3>2. profit \in Int /\ loss \in Int /\ profit - loss = net
      BY <3>1, <1>5, SMT
    <3>3. /\ n.net_profit = m.net_profit + profit
          /\ n.net_loss = m.net_loss + loss
          /\ n.net_pnl = m.net_pnl + net
      BY <1>3
    <3>4. m.net_pnl = m.net_profit - m.net_loss
      BY <2>0
    <3>5. m.net_pnl \in Int /\ m.net_profit \in Int /\ m.net_loss \in Int
      BY <1>2, SMT
    <3> HIDE DEF profit, loss
    <3> QED BY <3>2, <3>3, <3>4, <3>5, <1>5, SMT
  <2>c. n.net_pnl = n.gross_pnl - n.slippage_impact - n.costs /\ n.net_pnl = n.equity
    <3>1. /\ n.net_pnl = m.net_pnl + net /\ n.equity = m.equity + net
          /\ n.gross_pnl = m.gross_pnl + t.gross /\ n.costs = m.costs + t.cost
          /\ n.slippage_impact = m.slippage_impact + t.impact
      BY <1>3
    <3>2. m.net_pnl = m.gross_pnl - m.slippage_impact - m.costs /\ m.net_pnl = m.equity
      BY <2>0
    <3>3. /\ m.net_pnl \in Int /\ m.gross_pnl \in Int /\ m.slippage_impact \in Int
          /\ m.costs \in Int /\ m.equity \in Int
      BY <1>2, SMT
    <3> QED BY <3>1, <3>2, <3>3, <1>1, SMT
  <2>2. /\ n.wins > 0 <=> n.net_profit > 0
        /\ n.losses > 0 <=> n.net_loss > 0
    BY <2>0, <1>2, <1>3, <1>5, SMT
  <2>3. n.peak_equity >= n.equity /\ n.max_drawdown >= n.peak_equity - n.equity
    BY <1>3, <1>5, <1>6, <1>8, SMT
  <2>4. n.net_loss >= n.max_drawdown
    <3>1. n.net_loss >= m.net_loss /\ n.net_loss >= m.net_loss - net
      BY <1>2, <1>3, <1>5, SMT
    <3>2. peak - equity <= n.net_loss
      BY <3>1, <2>0, <1>2, <1>3, <1>5, <1>6, SMT
    <3> QED BY <3>1, <3>2, <2>0, <1>2, <1>3, <1>5, <1>8, SMT
  <2>5. /\ n.consecutive_losses <= n.max_consecutive_losses
        /\ n.max_consecutive_losses <= n.losses
    BY <2>0, <1>2, <1>3, <1>5, <1>7, <1>9, SMT
  <2> QED BY <2>1, <2>a, <2>b, <2>c, <2>2, <2>3, <2>4, <2>5 DEF Balanced
<1> QED BY <1>10, <1>11 DEF n

\* The part of the type invariant that the balance rests on.
MetricsTyped == global \in MetricsType /\ local \in MetricsType

\* After any sequence of sessions and trades both accumulators balance: net is
\* gross less frictions, profits and losses are non-zero exactly when there
\* are winners and losers, and no drawdown exceeds what was lost (add).
THEOREM MetricsBalance == PartitionSpec => [](MetricsTyped /\ AccumulatorsBalance)
<1> DEFINE Inv == MetricsTyped /\ AccumulatorsBalance
<1>1. PartitionInit => Inv
  BY NoMetricsBalanced DEF PartitionInit, MetricsTyped, AccumulatorsBalance
<1>2. Inv /\ [PartitionNext]_partitionVars => Inv'
  <2> SUFFICES ASSUME Inv, [PartitionNext]_partitionVars PROVE Inv'
    OBVIOUS
  <2>1. ASSUME NEW d \in Dates, OpenSession(d) PROVE Inv'
    BY <2>1, NoMetricsBalanced DEF OpenSession, Fail, MetricsTyped, AccumulatorsBalance
  <2>2. ASSUME NEW t \in Results, NEW matches \in BOOLEAN, ReadTrade(t, matches) PROVE Inv'
    <3>1. t \in ResultType
      BY PartitionAssumption
    <3>2. CASE ~matches
      BY <3>2, <2>2 DEF ReadTrade, Fail, MetricsTyped, AccumulatorsBalance
    <3>3. CASE matches
      <4>1. local' = AddTrade(local, t) /\ global' = AddTrade(global, t)
        BY <3>3, <2>2 DEF ReadTrade
      <4> QED BY <4>1, <3>1, AddTradeBalanced DEF MetricsTyped, AccumulatorsBalance
    <3> QED BY <3>2, <3>3
  <2>3. ASSUME NEW matches \in BOOLEAN, CloseSession(matches) PROVE Inv'
    BY <2>3 DEF CloseSession, Fail, MetricsTyped, AccumulatorsBalance
  <2>4. CASE Finish
    BY <2>4 DEF Finish, Fail, MetricsTyped, AccumulatorsBalance
  <2>5. CASE UNCHANGED partitionVars
    BY <2>5 DEF partitionVars, MetricsTyped, AccumulatorsBalance
  <2> QED BY <2>1, <2>2, <2>3, <2>4, <2>5 DEF PartitionNext
<1> QED BY <1>1, <1>2, PTL DEF PartitionSpec

(***************************************************************************)
(* The ledger of a partition.                                              *)
(***************************************************************************)
\* A finite set of integers has a largest member.
LEMMA MaxOfFinite ==
    ASSUME NEW S, S \subseteq Int, IsFiniteSet(S), S # {}
    PROVE  Max(S) \in S /\ \A y \in S : Max(S) >= y
<1> DEFINE A == {T \in SUBSET S : T = {} \/ \E x \in T : \A y \in T : x >= y}
<1>1. {} \in A
  OBVIOUS
<1>2. ASSUME NEW T \in SUBSET S, NEW x \in S, T \in A /\ x \notin T
      PROVE  T \cup {x} \in A
  <2>1. CASE T = {}
    <3>1. \A y \in T \cup {x} : x >= y
      BY <2>1
    <3> QED BY <3>1
  <2>2. CASE T # {}
    <3>1. PICK z \in T : \A y \in T : z >= y
      BY <1>2, <2>2
    <3>2. CASE x >= z
      <4>1. \A y \in T \cup {x} : x >= y
        BY <3>1, <3>2
      <4> QED BY <4>1
    <3>3. CASE ~(x >= z)
      <4>1. \A y \in T \cup {x} : z >= y
        BY <3>1, <3>3
      <4> QED BY <4>1
    <3> QED BY <3>2, <3>3
  <2> QED BY <2>1, <2>2
<1>3. S \in A
  <2> HIDE DEF A
  <2>1. \A T \in SUBSET S : T \in A
    BY <1>1, <1>2, FiniteSetInduction
  <2> QED BY <2>1
<1>4. PICK x \in S : \A y \in S : x >= y
  BY <1>3
<1> QED BY <1>4 DEF Max

\* What is in the set and above all of it is its maximum.
LEMMA MaxIs ==
    ASSUME NEW S, S \subseteq Int, NEW x \in S, \A y \in S : x >= y
    PROVE  Max(S) = x
<1>1. Max(S) \in S /\ \A y \in S : Max(S) >= y
  BY DEF Max
<1>2. Max(S) >= x /\ x >= Max(S) /\ Max(S) \in Int /\ x \in Int
  BY <1>1
<1> QED BY <1>2

\* The amounts of a trade.
LEMMA AmountsOfTrades ==
    ASSUME NEW seq \in Seq(ResultType)
    PROVE  /\ Len(seq) \in Nat /\ DOMAIN seq = 1..Len(seq) /\ IsFiniteSet(DOMAIN seq)
           /\ DOMAIN NetsOf(seq) = DOMAIN seq /\ \A n \in DOMAIN seq : NetsOf(seq)[n] = NetPnl(seq[n])
           /\ DOMAIN GrossOf(seq) = DOMAIN seq /\ \A n \in DOMAIN seq : GrossOf(seq)[n] = seq[n].gross
           /\ DOMAIN LossesOf(seq) = DOMAIN seq
           /\ \A n \in DOMAIN seq : LossesOf(seq)[n] = Larger(-NetPnl(seq[n]), 0)
           /\ \A n \in DOMAIN seq : /\ NetPnl(seq[n]) \in Int /\ seq[n].gross \in Int
                                    /\ Larger(-NetPnl(seq[n]), 0) \in Nat
<1>1. Len(seq) \in Nat /\ DOMAIN seq = 1..Len(seq)
  OBVIOUS
<1>2. IsFiniteSet(1..Len(seq))
  BY <1>1, FS_Interval
<1>3. ASSUME NEW n \in DOMAIN seq
      PROVE  NetPnl(seq[n]) \in Int /\ seq[n].gross \in Int /\ Larger(-NetPnl(seq[n]), 0) \in Nat
  <2>1. seq[n] \in ResultType
    OBVIOUS
  <2>2. seq[n].gross \in Int /\ seq[n].impact \in Nat /\ seq[n].cost \in Nat
    BY <2>1 DEF ResultType
  <2>3. NetPnl(seq[n]) \in Int
    BY <2>2 DEF NetPnl
  <2> QED BY <2>2, <2>3 DEF Larger
<1> QED BY <1>1, <1>2, <1>3 DEF NetsOf, GrossOf, LossesOf

\* A sum over 1..n takes one value after the other.
LEMMA SumOfFirst ==
    ASSUME NEW L \in Nat, NEW f, \A i \in 1..L : f[i] \in Int
    PROVE  /\ SumFunctionOnSet(f, 1..0) = 0
           /\ \A n \in 0..L : SumFunctionOnSet(f, 1..n) \in Int
           /\ \A n \in 0..(L - 1) :
                 SumFunctionOnSet(f, 1..(n + 1)) = SumFunctionOnSet(f, 1..n) + f[n + 1]
<1>1. 1..0 = {}
  OBVIOUS
<1>2. ASSUME NEW n \in 0..L PROVE SumFunctionOnSet(f, 1..n) \in Int
  <2>1. IsFiniteSet(1..n) /\ \A i \in 1..n : f[i] \in Int
    BY FS_Interval
  <2> QED BY <2>1, SumAddsUp
<1>3. ASSUME NEW n \in 0..(L - 1)
      PROVE  SumFunctionOnSet(f, 1..(n + 1)) = SumFunctionOnSet(f, 1..n) + f[n + 1]
  <2>1. IsFiniteSet(1..n) /\ \A i \in 1..n : f[i] \in Int
    BY FS_Interval
  <2>2. f[n + 1] \in Int /\ n + 1 \notin 1..n /\ (1..n) \cup {n + 1} = 1..(n + 1)
    OBVIOUS
  <2>3. SumFunctionOnSet(f, (1..n) \cup {n + 1}) = f[n + 1] + SumFunctionOnSet(f, 1..n)
    BY <2>1, <2>2, SumPlusOne
  <2>4. SumFunctionOnSet(f, 1..n) \in Int
    BY <2>1, SumAddsUp
  <2>5. SumFunctionOnSet(f, (1..n) \cup {n + 1}) = SumFunctionOnSet(f, 1..(n + 1))
    BY <2>2
  <2> DEFINE a == SumFunctionOnSet(f, 1..n)
             b == SumFunctionOnSet(f, 1..(n + 1))
             v == f[n + 1]
  <2>6. b = v + a /\ a \in Int /\ v \in Int
    BY <2>2, <2>3, <2>4, <2>5
  <2> HIDE DEF a, b, v
  <2>7. b = a + v
    BY <2>6
  <2> QED BY <2>7 DEF a, b, v
<1> QED BY <1>1, <1>2, <1>3, SumOfNone

\* The sum of the first n values of a function.
FirstOf(f, n) == SumFunctionOnSet(f, 1..n)

\* The first n values of f are integers; g is the stretch of f after its first a values.
Integral(f, n) == \A i \in 1..n : f[i] \in Int
Stretch(g, f, a, k) == \A i \in 1..k : g[i] = f[a + i]

\* Summing a stretch of a function is the difference of two sums.
LEMMA SumOfStretch ==
    ASSUME NEW f, NEW a \in Nat, NEW k \in Nat, Integral(f, a + k),
           NEW g, Stretch(g, f, a, k)
    PROVE  \A n \in 0..k : FirstOf(g, n) = FirstOf(f, a + n) - FirstOf(f, a)
<1> DEFINE G(n) == SumFunctionOnSet(g, 1..n)
           F(n) == SumFunctionOnSet(f, 1..n)
           A == {n \in Nat : n <= k => G(n) = F(a + n) - F(a)}
<1> USE DEF Integral, Stretch
<1>1. G(0) = 0 /\ (\A n \in 0..k : G(n) \in Int) /\ \A n \in 0..(k - 1) : G(n + 1) = G(n) + g[n + 1]
  <2>1. \A i \in 1..k : g[i] \in Int
    OBVIOUS
  <2> QED BY <2>1, SumOfFirst
<1>2. (\A n \in 0..(a + k) : F(n) \in Int) /\ \A n \in 0..(a + k - 1) : F(n + 1) = F(n) + f[n + 1]
  <2> DEFINE L == a + k
  <2>1. L \in Nat /\ \A i \in 1..L : f[i] \in Int
    OBVIOUS
  <2> HIDE DEF L
  <2>2. (\A n \in 0..L : F(n) \in Int) /\ \A n \in 0..(L - 1) : F(n + 1) = F(n) + f[n + 1]
    BY <2>1, SumOfFirst
  <2> QED BY <2>2 DEF L
<1> HIDE DEF G, F
<1>3. 0 \in A
  <2>1. F(a) \in Int /\ a + 0 = a
    BY <1>2
  <2> QED BY <2>1, <1>1
<1>4. ASSUME NEW n \in Nat, n \in A PROVE n + 1 \in A
  <2>1. CASE n + 1 <= k
    <3>1. G(n) = F(a + n) - F(a)
      BY <1>4, <2>1
    <3>2. G(n + 1) = G(n) + g[n + 1] /\ g[n + 1] = f[a + (n + 1)]
      BY <1>1, <2>1
    <3>3. F((a + n) + 1) = F(a + n) + f[(a + n) + 1] /\ F(a + n) \in Int /\ F(a) \in Int
      BY <1>2, <2>1
    <3>4. (a + n) + 1 = a + (n + 1) /\ f[(a + n) + 1] \in Int
      BY <2>1
    <3>5. G(n + 1) = F(a + (n + 1)) - F(a)
      BY <3>1, <3>2, <3>3, <3>4
    <3> QED BY <3>5
  <2>2. CASE ~(n + 1 <= k)
    BY <2>2
  <2> QED BY <2>1, <2>2
<1>5. Nat \subseteq A
  <2> HIDE DEF A
  <2> QED BY <1>3, <1>4, NatSetInduction
<1> QED BY <1>5 DEF G, F, FirstOf

\* The equity starts at nothing and moves by the net of every trade.
LEMMA EquityMoves ==
    ASSUME NEW seq \in Seq(ResultType)
    PROVE  /\ EquityAfter(seq, 0) = 0
           /\ \A n \in 0..Len(seq) : EquityAfter(seq, n) \in Int
           /\ \A n \in 0..(Len(seq) - 1) :
                 EquityAfter(seq, n + 1) = EquityAfter(seq, n) + NetPnl(seq[n + 1])
<1>1. Len(seq) \in Nat /\ \A i \in 1..Len(seq) : NetsOf(seq)[i] = NetPnl(seq[i]) /\ NetsOf(seq)[i] \in Int
  BY AmountsOfTrades
<1> DEFINE f == NetsOf(seq)
<1>2. /\ SumFunctionOnSet(f, 1..0) = 0
      /\ \A n \in 0..Len(seq) : SumFunctionOnSet(f, 1..n) \in Int
      /\ \A n \in 0..(Len(seq) - 1) :
            SumFunctionOnSet(f, 1..(n + 1)) = SumFunctionOnSet(f, 1..n) + f[n + 1]
  <2> HIDE DEF f
  <2> QED BY <1>1, SumOfFirst DEF f
<1>3. \A n \in 0..(Len(seq) - 1) : f[n + 1] = NetPnl(seq[n + 1])
  BY <1>1
<1> HIDE DEF f
<1> QED BY <1>2, <1>3 DEF EquityAfter, f

\* d is a fall of the equity, and none is deeper.
IsDrawdown(seq, d) ==
    /\ d \in Int
    /\ \E a \in 0..Len(seq) : \E b \in a..Len(seq) : d = EquityAfter(seq, a) - EquityAfter(seq, b)
    /\ \A a \in 0..Len(seq) : \A b \in a..Len(seq) : EquityAfter(seq, a) - EquityAfter(seq, b) <= d

\* The falls are finitely many integers, one of them nothing at all.
LEMMA FallsAreFinite ==
    ASSUME NEW seq \in Seq(ResultType)
    PROVE  Falls(seq) \subseteq Int /\ IsFiniteSet(Falls(seq)) /\ 0 \in Falls(seq)
<1>0. Len(seq) \in Nat
  OBVIOUS
<1> DEFINE S == 0..Len(seq)
           e(a, b) == EquityAfter(seq, a) - EquityAfter(seq, b)
           Later(a) == {e(a, b) : b \in a..Len(seq)}
<1>1. \A n \in S : EquityAfter(seq, n) \in Int
  BY EquityMoves
<1>2. Falls(seq) = UNION {Later(a) : a \in S}
  BY DEF Falls
<1>3. ASSUME NEW a \in S PROVE IsFiniteSet(Later(a)) /\ Later(a) \subseteq Int
  <2>1. IsFiniteSet(a..Len(seq))
    BY <1>0, FS_Interval
  <2>2. IsFiniteSet(Later(a))
    <3> DEFINE f == [b \in a..Len(seq) |-> e(a, b)]
    <3>1. f \in Surjection(a..Len(seq), Later(a))
      BY DEF Surjection
    <3> HIDE DEF f, Later
    <3> QED BY <2>1, <3>1, FS_Surjection
  <2>3. \A b \in a..Len(seq) : b \in S
    BY <1>0
  <2> QED BY <2>2, <2>3, <1>1
<1>4. IsFiniteSet({Later(a) : a \in S})
  <2>1. IsFiniteSet(S)
    BY <1>0, FS_Interval
  <2> DEFINE f == [a \in S |-> Later(a)]
  <2>2. f \in Surjection(S, {Later(a) : a \in S})
    BY DEF Surjection
  <2> HIDE DEF f, Later, S
  <2> QED BY <2>1, <2>2, FS_Surjection
<1>5. 0 \in Later(0)
  <2>1. e(0, 0) = 0
    BY <1>0, <1>1
  <2> QED BY <2>1, <1>0
<1>6. IsFiniteSet(UNION {Later(a) : a \in S})
  <2> DEFINE U == {Later(a) : a \in S}
  <2>1. \A T \in U : IsFiniteSet(T)
    BY <1>3
  <2> HIDE DEF U
  <2> QED BY <1>4, <2>1, FS_UNION DEF U
<1>7. 0 \in S
  BY <1>0
<1> HIDE DEF Later, S
<1> QED BY <1>2, <1>3, <1>5, <1>6, <1>7

\* The maximum of the falls is the deepest of them.
LEMMA DrawdownIsOne ==
    ASSUME NEW seq \in Seq(ResultType)
    PROVE  IsDrawdown(seq, Drawdown(seq)) /\ Drawdown(seq) >= 0
<1>1. Drawdown(seq) \in Falls(seq) /\ \A y \in Falls(seq) : Drawdown(seq) >= y
  BY FallsAreFinite, MaxOfFinite DEF Drawdown
<1>2. Drawdown(seq) \in Int /\ Drawdown(seq) >= 0
  BY <1>1, FallsAreFinite
<1>3. \E a \in 0..Len(seq) : \E b \in a..Len(seq) : Drawdown(seq) = EquityAfter(seq, a) - EquityAfter(seq, b)
  BY <1>1 DEF Falls
<1>4. ASSUME NEW a \in 0..Len(seq), NEW b \in a..Len(seq)
      PROVE  EquityAfter(seq, a) - EquityAfter(seq, b) <= Drawdown(seq)
  <2>1. EquityAfter(seq, a) - EquityAfter(seq, b) \in Falls(seq)
    BY DEF Falls
  <2>2. Drawdown(seq) >= EquityAfter(seq, a) - EquityAfter(seq, b)
    BY <1>1, <2>1
  <2>3. EquityAfter(seq, a) - EquityAfter(seq, b) \in Int
    BY <2>1, FallsAreFinite
  <2> QED BY <1>2, <2>2, <2>3
<1> QED BY <1>2, <1>3, <1>4 DEF IsDrawdown

\* There is one deepest fall.
LEMMA DrawdownIsUnique ==
    ASSUME NEW seq \in Seq(ResultType), NEW d, IsDrawdown(seq, d)
    PROVE  Drawdown(seq) = d
<1>1. Falls(seq) \subseteq Int
  BY FallsAreFinite
<1>2. d \in Falls(seq)
  BY DEF IsDrawdown, Falls
<1>3. ASSUME NEW y \in Falls(seq) PROVE d >= y
  <2>1. PICK a \in 0..Len(seq) : \E b \in a..Len(seq) : y = EquityAfter(seq, a) - EquityAfter(seq, b)
    BY DEF Falls
  <2>2. y <= d /\ y \in Int /\ d \in Int
    BY <2>1, <1>1 DEF IsDrawdown
  <2> QED BY <2>2
<1> QED BY <1>1, <1>2, <1>3, MaxIs DEF Drawdown

\* The equity of a stretch of a ledger moves as that of the ledger.
LEMMA EquityOfStretch ==
    ASSUME NEW seq \in Seq(ResultType), NEW a \in Nat, NEW b \in Nat, a <= b, b <= Len(seq)
    PROVE  /\ SubSeq(seq, a + 1, b) \in Seq(ResultType) /\ Len(SubSeq(seq, a + 1, b)) = b - a
           /\ \A n \in 0..(b - a) : EquityAfter(SubSeq(seq, a + 1, b), n)
                                       = EquityAfter(seq, a + n) - EquityAfter(seq, a)
<1> DEFINE sub == SubSeq(seq, a + 1, b)
<1>1. sub \in Seq(ResultType) /\ Len(sub) = b - a /\ \A i \in 1..(b - a) : sub[i] = seq[a + i]
  <2>1. \A i \in (a + 1)..b : seq[i] \in ResultType
    OBVIOUS
  <2>2. /\ sub \in Seq(ResultType)
        /\ Len(sub) = (IF a + 1 <= b THEN b - (a + 1) + 1 ELSE 0)
        /\ \A i \in 1..(b - (a + 1) + 1) : sub[i] = seq[a + 1 + i - 1]
    BY <2>1, SubSeqProperties
  <2>3. \A i \in 1..(b - a) : a + 1 + i - 1 = a + i
    OBVIOUS
  <2> QED BY <2>2, <2>3
<1> HIDE DEF sub
<1>2. \A i \in 1..(b - a) : NetsOf(sub)[i] = NetsOf(seq)[a + i]
  <2>1. \A i \in 1..(b - a) : NetsOf(sub)[i] = NetPnl(sub[i])
    BY <1>1, AmountsOfTrades
  <2>2. \A i \in 1..(b - a) : NetsOf(seq)[a + i] = NetPnl(seq[a + i])
    <3>1. \A i \in 1..(b - a) : a + i \in 1..Len(seq)
      OBVIOUS
    <3> QED BY <3>1, AmountsOfTrades
  <2> QED BY <2>1, <2>2, <1>1
<1>3. \A i \in 1..Len(seq) : NetsOf(seq)[i] \in Int
  BY AmountsOfTrades
<1>4. Len(seq) \in Nat /\ b - a \in Nat /\ a + (b - a) <= Len(seq)
  OBVIOUS
<1> DEFINE f == NetsOf(seq)  g == NetsOf(sub)  k == b - a
<1>5. \A n \in 0..k : FirstOf(g, n) = FirstOf(f, a + n) - FirstOf(f, a)
  <2>1. k \in Nat /\ a + k <= Len(seq) /\ \A i \in 1..k : g[i] = f[a + i]
    BY <1>2, <1>4
  <2>2. \A i \in 1..(a + k) : f[i] \in Int
    BY <1>3, <1>4
  <2>3. Integral(f, a + k) /\ Stretch(g, f, a, k)
    BY <2>1, <2>2 DEF Integral, Stretch
  <2> HIDE DEF f, g, k
  <2> QED BY <2>1, <2>3, SumOfStretch
<1> HIDE DEF f, g, k
<1>6. \A n \in 0..k : EquityAfter(sub, n) = EquityAfter(seq, a + n) - EquityAfter(seq, a)
  BY <1>5 DEF EquityAfter, FirstOf, f, g
<1> QED BY <1>1, <1>6 DEF k, sub

(***************************************************************************)
(* A ledger and one trade more.                                            *)
(***************************************************************************)
LEMMA LedgerAndTrade ==
    ASSUME NEW seq \in Seq(ResultType), NEW t \in ResultType
    PROVE  /\ Append(seq, t) \in Seq(ResultType) /\ Len(Append(seq, t)) = Len(seq) + 1
           /\ Len(seq) \in Nat
           /\ \A i \in 1..Len(seq) : Append(seq, t)[i] = seq[i]
           /\ Append(seq, t)[Len(seq) + 1] = t
           /\ DOMAIN Append(seq, t) = 1..(Len(seq) + 1)
OBVIOUS

\* A function with one value more sums to that value more.
LEMMA SumOfAppend ==
    ASSUME NEW L \in Nat, NEW f, DOMAIN f = 1..L, Integral(f, L),
           NEW g, DOMAIN g = 1..(L + 1), Stretch(g, f, 0, L), g[L + 1] \in Int
    PROVE  SumFunction(g) = SumFunction(f) + g[L + 1]
<1>1. /\ \A i \in 1..L : f[i] \in Int /\ g[i] = f[i]
      /\ \A i \in 1..(L + 1) : g[i] \in Int
  BY DEF Integral, Stretch
<1>2. IsFiniteSet(1..L) /\ L + 1 \notin 1..L /\ (1..L) \cup {L + 1} = 1..(L + 1)
  <2>1. IsFiniteSet(1..L)
    BY FS_Interval
  <2>2. L + 1 \notin 1..L /\ (1..L) \cup {L + 1} = 1..(L + 1)
    OBVIOUS
  <2> QED BY <2>1, <2>2
<1>3. SumFunctionOnSet(f, 1..L) = SumFunctionOnSet(g, 1..L)
  BY <1>1, <1>2, SumOfSame
<1> DEFINE M == L + 1
<1>4. SumFunctionOnSet(g, (1..L) \cup {M}) = g[M] + SumFunctionOnSet(g, 1..L)
  <2>1. M \notin 1..L /\ g[M] \in Int /\ \A i \in 1..L : g[i] \in Int
    BY <1>1, <1>2
  <2> HIDE DEF M
  <2> QED BY <2>1, <1>2, SumPlusOne
<1>5. SumFunctionOnSet(g, 1..L) \in Int
  BY <1>1, <1>2, SumAddsUp
<1> DEFINE a == SumFunctionOnSet(g, 1..L)
           b == SumFunctionOnSet(g, (1..L) \cup {M})
           v == g[M]
<1>6. b = v + a /\ v \in Int /\ a \in Int
  BY <1>1, <1>4, <1>5
<1>7. SumFunction(g) = b /\ SumFunction(f) = a
  BY <1>2, <1>3 DEF SumFunction
<1> HIDE DEF a, b, v
<1>8. SumFunction(g) = SumFunction(f) + v
  BY <1>6, <1>7
<1> QED BY <1>8 DEF v

\* The sums over a ledger follow its trades.
LEMMA SumsOfLedgerAndTrade ==
    ASSUME NEW seq \in Seq(ResultType), NEW t \in ResultType
    PROVE  /\ SumFunction(NetsOf(Append(seq, t))) = SumFunction(NetsOf(seq)) + NetPnl(t)
           /\ SumFunction(GrossOf(Append(seq, t))) = SumFunction(GrossOf(seq)) + t.gross
           /\ SumFunction(LossesOf(Append(seq, t))) = SumFunction(LossesOf(seq)) + Larger(-NetPnl(t), 0)
<1> DEFINE new == Append(seq, t)
           L == Len(seq)
<1>1. /\ new \in Seq(ResultType) /\ Len(new) = L + 1 /\ L \in Nat
      /\ \A i \in 1..L : new[i] = seq[i]
      /\ new[L + 1] = t /\ L + 1 \in 1..(L + 1)
  BY LedgerAndTrade
<1> HIDE DEF new
<1>2. DOMAIN seq = 1..L /\ DOMAIN new = 1..(L + 1)
  BY <1>1
<1> HIDE DEF L
<1>3. SumFunction(NetsOf(new)) = SumFunction(NetsOf(seq)) + NetPnl(t)
  <2> DEFINE f == NetsOf(seq)  g == NetsOf(new)
  <2>1. DOMAIN f = 1..L /\ Integral(f, L) /\ \A i \in 1..L : f[i] = NetPnl(seq[i])
    <3>1. DOMAIN f = DOMAIN seq /\ \A i \in DOMAIN seq : f[i] = NetPnl(seq[i]) /\ f[i] \in Int
      BY AmountsOfTrades
    <3> HIDE DEF f
    <3> QED BY <3>1, <1>2 DEF Integral
  <2>2. DOMAIN g = 1..(L + 1) /\ \A i \in 1..(L + 1) : g[i] = NetPnl(new[i]) /\ g[i] \in Int
    BY <1>1, <1>2, AmountsOfTrades
  <2>3. Stretch(g, f, 0, L)
    <3>1. ASSUME NEW i \in 1..L PROVE g[i] = f[0 + i]
      <4>1. i \in 1..(L + 1) /\ 0 + i = i
        BY <1>1
      <4>2. g[i] = NetPnl(new[i]) /\ f[i] = NetPnl(seq[i]) /\ new[i] = seq[i]
        BY <4>1, <2>1, <2>2, <1>1
      <4> HIDE DEF f, g
      <4> QED BY <4>1, <4>2
    <3> QED BY <3>1 DEF Stretch
  <2>4. g[L + 1] = NetPnl(t) /\ g[L + 1] \in Int
    BY <1>1, <2>2
  <2> HIDE DEF f, g
  <2>5. SumFunction(g) = SumFunction(f) + g[L + 1]
    BY <1>1, <2>1, <2>2, <2>3, <2>4, SumOfAppend
  <2> QED BY <2>4, <2>5 DEF f, g
<1>4. SumFunction(GrossOf(new)) = SumFunction(GrossOf(seq)) + t.gross
  <2> DEFINE f == GrossOf(seq)  g == GrossOf(new)
  <2>1. DOMAIN f = 1..L /\ Integral(f, L) /\ \A i \in 1..L : f[i] = seq[i].gross
    <3>1. \A i \in 1..L : f[i] = seq[i].gross /\ f[i] \in Int
      BY <1>2, AmountsOfTrades
    <3>2. DOMAIN f = 1..L
      BY <1>2, AmountsOfTrades
    <3> HIDE DEF f
    <3> QED BY <3>1, <3>2 DEF Integral
  <2>2. DOMAIN g = 1..(L + 1) /\ \A i \in 1..(L + 1) : g[i] = new[i].gross /\ g[i] \in Int
    BY <1>1, <1>2, AmountsOfTrades
  <2>3. Stretch(g, f, 0, L)
    <3>1. ASSUME NEW i \in 1..L PROVE g[i] = f[0 + i]
      <4>1. i \in 1..(L + 1) /\ 0 + i = i
        BY <1>1
      <4>2. g[i] = new[i].gross /\ f[i] = seq[i].gross /\ new[i] = seq[i]
        BY <4>1, <2>1, <2>2, <1>1
      <4> HIDE DEF f, g
      <4> QED BY <4>1, <4>2
    <3> QED BY <3>1 DEF Stretch
  <2>4. g[L + 1] = t.gross /\ g[L + 1] \in Int
    BY <1>1, <2>2
  <2> HIDE DEF f, g
  <2>5. SumFunction(g) = SumFunction(f) + g[L + 1]
    BY <1>1, <2>1, <2>2, <2>3, <2>4, SumOfAppend
  <2> QED BY <2>4, <2>5 DEF f, g
<1>5. SumFunction(LossesOf(new)) = SumFunction(LossesOf(seq)) + Larger(-NetPnl(t), 0)
  <2> DEFINE f == LossesOf(seq)  g == LossesOf(new)
  <2>1. DOMAIN f = 1..L /\ Integral(f, L) /\ \A i \in 1..L : f[i] = Larger(-NetPnl(seq[i]), 0)
    <3>1. ASSUME NEW i \in 1..L
          PROVE  f[i] = Larger(-NetPnl(seq[i]), 0) /\ f[i] \in Int
      <4>1. i \in DOMAIN seq
        BY <1>2
      <4>2. f[i] = Larger(-NetPnl(seq[i]), 0) /\ Larger(-NetPnl(seq[i]), 0) \in Nat
        BY <4>1, AmountsOfTrades
      <4> HIDE DEF f
      <4> QED BY <4>2
    <3>2. DOMAIN f = 1..L
      BY <1>2, AmountsOfTrades
    <3> HIDE DEF f
    <3> QED BY <3>1, <3>2 DEF Integral
  <2>2. DOMAIN g = 1..(L + 1) /\ \A i \in 1..(L + 1) : g[i] = Larger(-NetPnl(new[i]), 0) /\ g[i] \in Int
    BY <1>1, <1>2, AmountsOfTrades
  <2>3. Stretch(g, f, 0, L)
    <3>1. ASSUME NEW i \in 1..L PROVE g[i] = f[0 + i]
      <4>1. i \in 1..(L + 1) /\ 0 + i = i
        BY <1>1
      <4>2. g[i] = Larger(-NetPnl(new[i]), 0) /\ f[i] = Larger(-NetPnl(seq[i]), 0) /\ new[i] = seq[i]
        BY <4>1, <2>1, <2>2, <1>1
      <4> HIDE DEF f, g
      <4> QED BY <4>1, <4>2
    <3> QED BY <3>1 DEF Stretch
  <2>4. g[L + 1] = Larger(-NetPnl(t), 0) /\ g[L + 1] \in Int
    BY <1>1, <2>2
  <2> HIDE DEF f, g
  <2>5. SumFunction(g) = SumFunction(f) + g[L + 1]
    BY <1>1, <2>1, <2>2, <2>3, <2>4, SumOfAppend
  <2> QED BY <2>4, <2>5 DEF f, g
<1> QED BY <1>3, <1>4, <1>5 DEF new

\* The equity before the new trade is what it was.
LEMMA EquityOfLedgerAndTrade ==
    ASSUME NEW seq \in Seq(ResultType), NEW t \in ResultType
    PROVE  /\ \A n \in 0..Len(seq) : EquityAfter(Append(seq, t), n) = EquityAfter(seq, n)
           /\ EquityAfter(Append(seq, t), Len(seq) + 1) = EquityAfter(seq, Len(seq)) + NetPnl(t)
<1> DEFINE new == Append(seq, t)
           L == Len(seq)
<1>1. /\ new \in Seq(ResultType) /\ Len(new) = L + 1 /\ L \in Nat
      /\ \A i \in 1..L : new[i] = seq[i]
      /\ new[L + 1] = t
  BY LedgerAndTrade
<1> HIDE DEF new
<1>2. DOMAIN seq = 1..L /\ DOMAIN new = 1..(L + 1)
  BY <1>1
<1>3. ASSUME NEW n \in 0..L PROVE EquityAfter(new, n) = EquityAfter(seq, n)
  <2> DEFINE f == NetsOf(seq)  g == NetsOf(new)
  <2>1. IsFiniteSet(1..n)
    BY <1>1, FS_Interval
  <2>2. ASSUME NEW i \in 1..n PROVE f[i] \in Int /\ g[i] = f[i]
    <3>1. i \in DOMAIN seq /\ i \in DOMAIN new /\ new[i] = seq[i]
      BY <1>1, <1>2
    <3>2. f[i] = NetPnl(seq[i]) /\ f[i] \in Int /\ g[i] = NetPnl(new[i])
      BY <3>1, <1>1, AmountsOfTrades
    <3> QED BY <3>1, <3>2
  <2> HIDE DEF f, g
  <2>3. SumFunctionOnSet(f, 1..n) = SumFunctionOnSet(g, 1..n)
    BY <2>1, <2>2, SumOfSame
  <2> QED BY <2>3 DEF EquityAfter, f, g
<1>4. EquityAfter(new, L + 1) = EquityAfter(new, L) + NetPnl(t)
  <2>1. L \in 0..(Len(new) - 1)
    BY <1>1
  <2> QED BY <1>1, <2>1, EquityMoves
<1>5. L \in 0..L
  BY <1>1
<1> QED BY <1>3, <1>4, <1>5 DEF new

\* p is the highest equity so far.
IsPeak(seq, p) ==
    /\ p \in Int
    /\ \E a \in 0..Len(seq) : p = EquityAfter(seq, a)
    /\ \A a \in 0..Len(seq) : EquityAfter(seq, a) <= p

\* The peak and the deepest fall after one trade more.
LEMMA PeakOfLedgerAndTrade ==
    ASSUME NEW seq \in Seq(ResultType), NEW t \in ResultType, NEW p, IsPeak(seq, p)
    PROVE  IsPeak(Append(seq, t), Larger(p, EquityAfter(seq, Len(seq)) + NetPnl(t)))
<1> DEFINE new == Append(seq, t)
           L == Len(seq)
           e == EquityAfter(seq, L) + NetPnl(t)
           q == Larger(p, e)
<1>1. /\ new \in Seq(ResultType) /\ Len(new) = L + 1 /\ L \in Nat
  BY LedgerAndTrade
<1>2. /\ \A n \in 0..L : EquityAfter(new, n) = EquityAfter(seq, n) /\ EquityAfter(seq, n) \in Int
      /\ EquityAfter(new, L + 1) = e
  BY EquityOfLedgerAndTrade, EquityMoves
<1>3. \A n \in 0..(L + 1) : EquityAfter(new, n) \in Int
  BY <1>1, EquityMoves
<1> HIDE DEF new
<1>4. p \in Int /\ (\E a \in 0..L : p = EquityAfter(seq, a)) /\ \A a \in 0..L : EquityAfter(seq, a) <= p
  BY DEF IsPeak
<1>5. e \in Int
  <2>1. L + 1 \in 0..(L + 1)
    BY <1>1
  <2> QED BY <1>2, <1>3, <2>1
<1> HIDE DEF e, L
<1>6. q \in Int /\ q >= p /\ q >= e /\ q \in {p, e}
  BY <1>4, <1>5 DEF Larger
<1> HIDE DEF q
<1>7. \E a \in 0..(L + 1) : q = EquityAfter(new, a)
  <2>1. CASE q = p
    <3>1. PICK a \in 0..L : p = EquityAfter(seq, a)
      BY <1>4
    <3>2. a \in 0..(L + 1) /\ q = EquityAfter(new, a)
      BY <2>1, <3>1, <1>1, <1>2
    <3> QED BY <3>2
  <2>2. CASE q = e
    <3>1. L + 1 \in 0..(L + 1)
      BY <1>1
    <3> QED BY <2>2, <3>1, <1>2
  <2> QED BY <2>1, <2>2, <1>6
<1>8. ASSUME NEW a \in 0..(L + 1) PROVE EquityAfter(new, a) <= q
  <2>1. CASE a \in 0..L
    <3>1. EquityAfter(new, a) = EquityAfter(seq, a) /\ EquityAfter(seq, a) <= p /\ EquityAfter(seq, a) \in Int
      BY <2>1, <1>2, <1>4
    <3> QED BY <3>1, <1>4, <1>6
  <2>2. CASE a = L + 1
    BY <2>2, <1>2, <1>5, <1>6
  <2> QED BY <2>1, <2>2, <1>1
<1>9. IsPeak(new, q)
  BY <1>1, <1>6, <1>7, <1>8 DEF IsPeak
<1> QED BY <1>9 DEF new, q, e, L

LEMMA DrawdownOfLedgerAndTrade ==
    ASSUME NEW seq \in Seq(ResultType), NEW t \in ResultType, NEW p, IsPeak(seq, p),
           NEW d, IsDrawdown(seq, d)
    PROVE  LET e == EquityAfter(seq, Len(seq)) + NetPnl(t)
           IN  IsDrawdown(Append(seq, t), Larger(d, Larger(p, e) - e))
<1> DEFINE new == Append(seq, t)
           L == Len(seq)
           e == EquityAfter(seq, L) + NetPnl(t)
           q == Larger(p, e)
           m == Larger(d, q - e)
<1>1. /\ new \in Seq(ResultType) /\ Len(new) = L + 1 /\ L \in Nat
  BY LedgerAndTrade
<1>2. /\ \A n \in 0..L : EquityAfter(new, n) = EquityAfter(seq, n) /\ EquityAfter(seq, n) \in Int
      /\ EquityAfter(new, L + 1) = e
  BY EquityOfLedgerAndTrade, EquityMoves
<1>3. \A n \in 0..(L + 1) : EquityAfter(new, n) \in Int
  BY <1>1, EquityMoves
<1>4. IsPeak(new, q)
  BY PeakOfLedgerAndTrade
<1> HIDE DEF new, q
<1>5. e \in Int
  <2>1. L + 1 \in 0..(L + 1)
    BY <1>1
  <2> QED BY <1>2, <1>3, <2>1
<1> HIDE DEF e, L
<1>6. q \in Int /\ (\E a \in 0..(L + 1) : q = EquityAfter(new, a)) /\ \A a \in 0..(L + 1) : EquityAfter(new, a) <= q
  BY <1>1, <1>4 DEF IsPeak
<1>7. /\ d \in Int
      /\ \E a \in 0..L : \E b \in a..L : d = EquityAfter(seq, a) - EquityAfter(seq, b)
      /\ \A a \in 0..L : \A b \in a..L : EquityAfter(seq, a) - EquityAfter(seq, b) <= d
  BY DEF IsDrawdown, L
<1>8. m \in Int /\ m >= d /\ m >= q - e /\ m \in {d, q - e}
  BY <1>5, <1>6, <1>7 DEF Larger
<1> HIDE DEF m
<1>9. \E a \in 0..(L + 1) : \E b \in a..(L + 1) : m = EquityAfter(new, a) - EquityAfter(new, b)
  <2>1. CASE m = d
    <3>1. PICK a \in 0..L : \E b \in a..L : d = EquityAfter(seq, a) - EquityAfter(seq, b)
      BY <1>7
    <3>2. PICK b \in a..L : d = EquityAfter(seq, a) - EquityAfter(seq, b)
      BY <3>1
    <3>3. b \in 0..L /\ a \in 0..(L + 1) /\ b \in a..(L + 1)
      BY <1>1
    <3>4. m = EquityAfter(new, a) - EquityAfter(new, b)
      BY <2>1, <3>2, <3>3, <1>2
    <3> QED BY <3>3, <3>4
  <2>2. CASE m = q - e
    <3>1. PICK a \in 0..(L + 1) : q = EquityAfter(new, a)
      BY <1>6
    <3>2. L + 1 \in a..(L + 1)
      BY <1>1
    <3> QED BY <2>2, <3>1, <3>2, <1>2
  <2> QED BY <2>1, <2>2, <1>8
<1>10. ASSUME NEW a \in 0..(L + 1), NEW b \in a..(L + 1)
       PROVE  EquityAfter(new, a) - EquityAfter(new, b) <= m
  <2>1. CASE b = L + 1
    <3>1. EquityAfter(new, a) <= q /\ EquityAfter(new, a) \in Int /\ EquityAfter(new, b) = e
      BY <2>1, <1>2, <1>3, <1>6
    <3> QED BY <3>1, <1>5, <1>6, <1>8
  <2>2. CASE b # L + 1
    <3>1. a \in 0..L /\ b \in a..L /\ b \in 0..L
      BY <2>2, <1>1
    <3>2. EquityAfter(seq, a) - EquityAfter(seq, b) <= d
      BY <3>1, <1>7
    <3>3. /\ EquityAfter(new, a) = EquityAfter(seq, a) /\ EquityAfter(new, b) = EquityAfter(seq, b)
          /\ EquityAfter(seq, a) \in Int /\ EquityAfter(seq, b) \in Int
      BY <3>1, <1>2
    <3> QED BY <3>2, <3>3, <1>7, <1>8
  <2> QED BY <2>1, <2>2
<1>11. IsDrawdown(new, m)
  BY <1>1, <1>8, <1>9, <1>10 DEF IsDrawdown
<1> QED BY <1>11 DEF new, m, q, e, L

\* n losing trades in a row after the first a.
LosesFrom(seq, a, n) == \A j \in (a + 1)..(a + n) : NetPnl(seq[j]) < 0

\* r trades lose in a row somewhere, and never more; the last k lose, and no more.
IsLongest(seq, r) ==
    /\ r \in Nat
    /\ r = 0 \/ (r \in 1..Len(seq) /\ \E a \in 0..(Len(seq) - r) : LosesFrom(seq, a, r))
    /\ \A n \in 1..Len(seq) : \A a \in 0..(Len(seq) - n) : LosesFrom(seq, a, n) => n <= r
IsCurrent(seq, k) ==
    /\ k \in 0..Len(seq)
    /\ LosesFrom(seq, Len(seq) - k, k)
    /\ k < Len(seq) => ~(NetPnl(seq[Len(seq) - k]) < 0)

\* The longest run is the one the reference takes.
LEMMA LosingRunIs ==
    ASSUME NEW seq \in Seq(ResultType), NEW r, IsLongest(seq, r)
    PROVE  LosingRun(seq) = r
<1> DEFINE S == {0} \cup LosingRuns(seq)
<1>0. Len(seq) \in Nat /\ DOMAIN seq = 1..Len(seq)
  OBVIOUS
<1>1. \A n : n \in LosingRuns(seq) <=> n \in 1..Len(seq) /\ \E a \in 0..(Len(seq) - n) : LosesFrom(seq, a, n)
  BY <1>0 DEF LosingRuns, LosesFrom
<1>2. S \subseteq Int
  BY <1>0, <1>1
<1>3. r \in S
  BY <1>1 DEF IsLongest
<1>4. ASSUME NEW n \in S PROVE r >= n
  <2>1. CASE n = 0
    BY <2>1 DEF IsLongest
  <2>2. CASE n \in LosingRuns(seq)
    <3>1. n \in 1..Len(seq) /\ n <= r /\ r \in Nat
      BY <2>2, <1>1 DEF IsLongest
    <3> QED BY <3>1
  <2> QED BY <2>1, <2>2
<1> HIDE DEF S
<1>5. Max(S) = r
  BY <1>2, <1>3, <1>4, MaxIs
<1> QED BY <1>5 DEF LosingRun, S

\* The current run ends with a trade that does not lose, or grows by one.
LEMMA RunsOfLedgerAndTrade ==
    ASSUME NEW seq \in Seq(ResultType), NEW t \in ResultType,
           NEW r, IsLongest(seq, r), NEW k, IsCurrent(seq, k)
    PROVE  LET streak == IF NetPnl(t) < 0 THEN k + 1 ELSE 0
           IN  IsCurrent(Append(seq, t), streak) /\ IsLongest(Append(seq, t), Larger(r, streak))
<1> DEFINE new == Append(seq, t)
           L == Len(seq)
           streak == IF NetPnl(t) < 0 THEN k + 1 ELSE 0
           m == Larger(r, streak)
<1>1. /\ new \in Seq(ResultType) /\ Len(new) = L + 1 /\ L \in Nat
      /\ (\A i \in 1..L : new[i] = seq[i]) /\ new[L + 1] = t
  BY LedgerAndTrade
<1> HIDE DEF new
<1>2. /\ k \in 0..L /\ LosesFrom(seq, L - k, k)
      /\ k < L => ~(NetPnl(seq[L - k]) < 0)
  BY DEF IsCurrent
<1>3. /\ r \in Nat /\ (r = 0 \/ (r \in 1..L /\ \E a \in 0..(L - r) : LosesFrom(seq, a, r)))
      /\ \A n \in 1..L : \A a \in 0..(L - n) : LosesFrom(seq, a, n) => n <= r
  BY DEF IsLongest
<1> HIDE DEF L
<1>4. ASSUME NEW a \in Nat, NEW n \in Nat, a + n <= L
      PROVE  LosesFrom(new, a, n) <=> LosesFrom(seq, a, n)
  <2>1. \A j \in (a + 1)..(a + n) : new[j] = seq[j]
    BY <1>1, <1>4
  <2> QED BY <2>1 DEF LosesFrom
<1>5. IsCurrent(new, streak)
  <2>1. CASE NetPnl(t) < 0
    <3>1. streak = k + 1 /\ k + 1 \in 0..(L + 1) /\ (L + 1) - (k + 1) = L - k
      BY <2>1, <1>1, <1>2
    <3>2. LosesFrom(new, L - k, k + 1)
      <4>1. LosesFrom(new, L - k, k)
        <5>1. L - k \in Nat /\ k \in Nat /\ (L - k) + k <= L
          BY <1>1, <1>2
        <5> QED BY <5>1, <1>2, <1>4
      <4>2. ASSUME NEW j \in ((L - k) + 1)..((L - k) + (k + 1)) PROVE NetPnl(new[j]) < 0
        <5>1. j \in ((L - k) + 1)..((L - k) + k) \/ j = L + 1
          BY <1>1, <1>2
        <5> QED BY <5>1, <4>1, <2>1, <1>1 DEF LosesFrom
      <4> QED BY <4>2 DEF LosesFrom
    <3>3. k + 1 < L + 1 => ~(NetPnl(new[L - k]) < 0)
      <4>1. CASE k < L
        <5>1. L - k \in 1..L
          BY <4>1, <1>1, <1>2
        <5> QED BY <5>1, <4>1, <1>1, <1>2
      <4>2. CASE ~(k < L)
        BY <4>2, <1>1, <1>2
      <4> QED BY <4>1, <4>2
    <3> HIDE DEF streak
    <3> QED BY <3>1, <3>2, <3>3, <1>1 DEF IsCurrent
  <2>2. CASE ~(NetPnl(t) < 0)
    <3>1. streak = 0 /\ 0 \in 0..(L + 1) /\ (L + 1) - 0 = L + 1
      BY <2>2, <1>1
    <3>2. LosesFrom(new, L + 1, 0)
      BY <1>1 DEF LosesFrom
    <3> HIDE DEF streak
    <3> QED BY <3>1, <3>2, <2>2, <1>1 DEF IsCurrent
  <2> QED BY <2>1, <2>2
<1>6. streak \in Nat /\ streak <= L + 1
  BY <1>1, <1>2
<1>7. m \in Nat /\ m >= r /\ m >= streak /\ m \in {r, streak}
  BY <1>3, <1>6 DEF Larger
<1> HIDE DEF m, streak
<1>8. m = 0 \/ (m \in 1..(L + 1) /\ \E a \in 0..((L + 1) - m) : LosesFrom(new, a, m))
  <2>1. CASE m = r /\ m # 0
    <3>1. r \in 1..L
      BY <2>1, <1>3
    <3>2. PICK a \in 0..(L - r) : LosesFrom(seq, a, r)
      BY <2>1, <1>3
    <3>3. a \in Nat /\ r \in Nat /\ a + r <= L /\ a \in 0..((L + 1) - r) /\ r \in 1..(L + 1)
      BY <3>1, <1>1
    <3>4. LosesFrom(new, a, r)
      BY <3>2, <3>3, <1>4
    <3> QED BY <2>1, <3>3, <3>4
  <2>2. CASE m = streak /\ m # 0
    <3>1. LosesFrom(new, (L + 1) - m, m)
      BY <2>2, <1>1, <1>5 DEF IsCurrent
    <3>2. m \in 1..(L + 1) /\ (L + 1) - m \in 0..((L + 1) - m)
      BY <2>2, <1>1, <1>6
    <3> QED BY <3>1, <3>2
  <2> QED BY <2>1, <2>2, <1>7
<1>9. ASSUME NEW n \in 1..(L + 1), NEW a \in 0..((L + 1) - n), LosesFrom(new, a, n)
      PROVE  n <= m
  <2>1. CASE a + n <= L
    <3>1. n \in 1..L /\ a \in 0..(L - n) /\ a \in Nat /\ n \in Nat
      BY <2>1, <1>1
    <3>2. LosesFrom(seq, a, n)
      BY <3>1, <2>1, <1>4, <1>9
    <3>3. n <= r
      BY <3>1, <3>2, <1>3
    <3> QED BY <3>3, <1>3, <1>7
  <2>2. CASE ~(a + n <= L)
    <3>1. a + n = L + 1
      BY <2>2, <1>1
    <3>2. NetPnl(new[L + 1]) < 0
      <4>1. L + 1 \in (a + 1)..(a + n)
        BY <3>1, <1>1
      <4> QED BY <4>1, <1>9 DEF LosesFrom
    <3>3. streak = k + 1
      BY <3>2, <1>1 DEF streak
    <3>4. n <= k + 1
      <4>1. CASE k < L
        <5>1. ~(NetPnl(seq[L - k]) < 0) /\ L - k \in 1..L
          BY <4>1, <1>1, <1>2
        <5>2. ~(NetPnl(new[L - k]) < 0)
          BY <5>1, <1>1
        <5>3. ~(L - k \in (a + 1)..(a + n))
          BY <5>2, <1>9 DEF LosesFrom
        <5> QED BY <5>1, <5>3, <3>1, <1>1, <1>2
      <4>2. CASE ~(k < L)
        BY <4>2, <1>1, <1>2
      <4> QED BY <4>1, <4>2
    <3> QED BY <3>3, <3>4, <1>6, <1>7
  <2> QED BY <2>1, <2>2
<1>10. IsLongest(new, m)
  BY <1>1, <1>7, <1>8, <1>9 DEF IsLongest
<1> QED BY <1>5, <1>10 DEF new, m, streak

\* Wins and losses of a ledger and one trade more.
LEMMA CountsOfLedgerAndTrade ==
    ASSUME NEW seq \in Seq(ResultType), NEW t \in ResultType
    PROVE  LET new == Append(seq, t)
           IN  /\ Cardinality({n \in DOMAIN new : NetPnl(new[n]) > 0})
                    = Cardinality({n \in DOMAIN seq : NetPnl(seq[n]) > 0}) + (IF NetPnl(t) > 0 THEN 1 ELSE 0)
               /\ Cardinality({n \in DOMAIN new : NetPnl(new[n]) < 0})
                    = Cardinality({n \in DOMAIN seq : NetPnl(seq[n]) < 0}) + (IF NetPnl(t) < 0 THEN 1 ELSE 0)
<1> DEFINE new == Append(seq, t)
           L == Len(seq)
           W(s) == {n \in DOMAIN s : NetPnl(s[n]) > 0}
           U(s) == {n \in DOMAIN s : NetPnl(s[n]) < 0}
<1>1. /\ new \in Seq(ResultType) /\ Len(new) = L + 1 /\ L \in Nat
      /\ (\A i \in 1..L : new[i] = seq[i]) /\ new[L + 1] = t
      /\ DOMAIN new = 1..(L + 1) /\ DOMAIN seq = 1..L
  BY LedgerAndTrade
<1> HIDE DEF new, L
<1>2. /\ IsFiniteSet(W(seq)) /\ L + 1 \notin W(seq) /\ Cardinality(W(seq)) \in Nat
      /\ IsFiniteSet(U(seq)) /\ L + 1 \notin U(seq) /\ Cardinality(U(seq)) \in Nat
  <2>1. IsFiniteSet(1..L) /\ W(seq) \subseteq 1..L /\ U(seq) \subseteq 1..L
    <3>1. IsFiniteSet(1..L)
      BY <1>1, FS_Interval
    <3>2. W(seq) \subseteq DOMAIN seq /\ U(seq) \subseteq DOMAIN seq
      OBVIOUS
    <3> QED BY <3>1, <3>2, <1>1
  <2>2. L + 1 \notin 1..L
    BY <1>1
  <2>3. IsFiniteSet(W(seq)) /\ IsFiniteSet(U(seq))
    BY <2>1, FS_Subset
  <2> QED BY <2>1, <2>2, <2>3, FS_CardinalityType
<1>3. /\ W(new) = IF NetPnl(t) > 0 THEN W(seq) \cup {L + 1} ELSE W(seq)
      /\ U(new) = IF NetPnl(t) < 0 THEN U(seq) \cup {L + 1} ELSE U(seq)
  <2>1. \A n \in 1..(L + 1) : (n \in 1..L /\ new[n] = seq[n]) \/ (n = L + 1 /\ new[n] = t /\ n \notin 1..L)
    BY <1>1
  <2>2. \A n \in 1..L : n \in 1..(L + 1)
    BY <1>1
  <2>3. L + 1 \in 1..(L + 1)
    BY <1>1
  <2> QED BY <2>1, <2>2, <2>3, <1>1
<1> HIDE DEF W, U
<1>4. Cardinality(W(seq) \cup {L + 1}) = Cardinality(W(seq)) + 1
  BY <1>2, FS_AddElement
<1>5. Cardinality(U(seq) \cup {L + 1}) = Cardinality(U(seq)) + 1
  BY <1>2, FS_AddElement
<1>6. /\ Cardinality(W(new)) = Cardinality(W(seq)) + (IF NetPnl(t) > 0 THEN 1 ELSE 0)
      /\ Cardinality(U(new)) = Cardinality(U(seq)) + (IF NetPnl(t) < 0 THEN 1 ELSE 0)
  BY <1>2, <1>3, <1>4, <1>5
<1> QED BY <1>6 DEF W, U, new

(***************************************************************************)
(* An accumulator that has read a ledger: what it says, and what it keeps  *)
(* to go on - the equity, its peak and the current losing run.             *)
(***************************************************************************)
HasRead(m, seq) ==
    /\ MeansLedger(m, seq)
    /\ m.equity = EquityAfter(seq, Len(seq))
    /\ IsPeak(seq, m.peak_equity)
    /\ IsDrawdown(seq, m.max_drawdown)
    /\ IsLongest(seq, m.max_consecutive_losses)
    /\ IsCurrent(seq, m.consecutive_losses)

\* An empty accumulator has read nothing.
LEMMA NothingRead == HasRead(NoMetrics, <<>>)
<1> DEFINE none == <<>>
<1>1. none \in Seq(ResultType) /\ Len(none) = 0 /\ DOMAIN none = {}
  OBVIOUS
<1> HIDE DEF none
<1>2. /\ NoMetrics.trades = 0 /\ NoMetrics.wins = 0 /\ NoMetrics.losses = 0 /\ NoMetrics.net_pnl = 0
      /\ NoMetrics.gross_profit = 0 /\ NoMetrics.gross_loss = 0 /\ NoMetrics.net_loss = 0
      /\ NoMetrics.max_drawdown = 0 /\ NoMetrics.max_consecutive_losses = 0
      /\ NoMetrics.equity = 0 /\ NoMetrics.peak_equity = 0 /\ NoMetrics.consecutive_losses = 0
  BY DEF NoMetrics
<1>3. EquityAfter(none, 0) = 0
  BY <1>1, EquityMoves
<1>4. IsPeak(none, 0) /\ IsDrawdown(none, 0)
  <2>1. \A a \in 0..0 : a = 0
    OBVIOUS
  <2>2. 0 \in 0..0
    OBVIOUS
  <2> QED BY <1>1, <1>3, <2>1, <2>2 DEF IsPeak, IsDrawdown
<1>5. IsLongest(none, 0) /\ IsCurrent(none, 0)
  BY <1>1 DEF IsLongest, IsCurrent, LosesFrom
<1>6. Drawdown(none) = 0 /\ LosingRun(none) = 0
  BY <1>1, <1>4, <1>5, DrawdownIsUnique, LosingRunIs
<1>7. /\ SumFunction(NetsOf(none)) = 0 /\ SumFunction(GrossOf(none)) = 0 /\ SumFunction(LossesOf(none)) = 0
  <2>1. DOMAIN NetsOf(none) = {} /\ DOMAIN GrossOf(none) = {} /\ DOMAIN LossesOf(none) = {}
    BY <1>1 DEF NetsOf, GrossOf, LossesOf
  <2> QED BY <2>1, SumOfNone DEF SumFunction
<1>8. {n \in DOMAIN none : NetPnl(none[n]) > 0} = {} /\ {n \in DOMAIN none : NetPnl(none[n]) < 0} = {}
  BY <1>1
<1>9. MeansLedger(NoMetrics, none)
  BY <1>1, <1>2, <1>6, <1>7, <1>8, FS_EmptySet DEF MeansLedger
<1> QED BY <1>1, <1>2, <1>3, <1>4, <1>5, <1>9 DEF HasRead, none

\* Reading one trade more: add keeps what the accumulator means.
LEMMA TradeRead ==
    ASSUME NEW m \in MetricsType, NEW seq \in Seq(ResultType), HasRead(m, seq), NEW t \in ResultType
    PROVE  HasRead(AddTrade(m, t), Append(seq, t))
<1> DEFINE n == AddTrade(m, t)
           new == Append(seq, t)
           net == NetPnl(t)
           e == EquityAfter(seq, Len(seq)) + net
           streak == IF net < 0 THEN m.consecutive_losses + 1 ELSE 0
<1>1. /\ m.trades \in Nat /\ m.wins \in Nat /\ m.losses \in Nat
      /\ m.gross_profit \in Nat /\ m.gross_loss \in Nat
      /\ m.net_loss \in Nat /\ m.net_pnl \in Int
  BY DEF MetricsType
<1>2. net \in Int /\ t.gross \in Int
  BY DEF ResultType, NetPnl
<1>3. /\ n.trades = m.trades + 1
      /\ n.wins = m.wins + (IF net > 0 THEN 1 ELSE 0)
      /\ n.losses = m.losses + (IF net < 0 THEN 1 ELSE 0)
      /\ n.gross_profit = m.gross_profit + (IF t.gross > 0 THEN t.gross ELSE 0)
      /\ n.gross_loss = m.gross_loss + (IF t.gross < 0 THEN -t.gross ELSE 0)
      /\ n.net_loss = m.net_loss + (IF net < 0 THEN -net ELSE 0)
      /\ n.net_pnl = m.net_pnl + net
      /\ n.equity = m.equity + net
      /\ n.peak_equity = Larger(m.peak_equity, m.equity + net)
      /\ n.max_drawdown = Larger(m.max_drawdown, Larger(m.peak_equity, m.equity + net) - (m.equity + net))
      /\ n.max_consecutive_losses = Larger(m.max_consecutive_losses, streak)
      /\ n.consecutive_losses = streak
  BY DEF AddTrade, Streak
<1>4. m.equity + net = e
  BY DEF HasRead
<1>5. /\ new \in Seq(ResultType) /\ Len(new) = Len(seq) + 1 /\ Len(seq) \in Nat
  BY LedgerAndTrade
<1>6. IsPeak(new, n.peak_equity)
  BY <1>3, <1>4, PeakOfLedgerAndTrade DEF HasRead
<1>7. IsDrawdown(new, n.max_drawdown)
  BY <1>3, <1>4, DrawdownOfLedgerAndTrade DEF HasRead
<1>8. IsCurrent(new, n.consecutive_losses) /\ IsLongest(new, n.max_consecutive_losses)
  BY <1>3, RunsOfLedgerAndTrade DEF HasRead
<1>9. n.equity = EquityAfter(new, Len(new))
  <2>1. EquityAfter(new, Len(seq) + 1) = e
    BY EquityOfLedgerAndTrade
  <2> QED BY <2>1, <1>3, <1>4, <1>5
<1>10. Drawdown(new) = n.max_drawdown /\ LosingRun(new) = n.max_consecutive_losses
  BY <1>5, <1>7, <1>8, DrawdownIsUnique, LosingRunIs
<1>11. /\ Cardinality({i \in DOMAIN new : NetPnl(new[i]) > 0}) = n.wins
       /\ Cardinality({i \in DOMAIN new : NetPnl(new[i]) < 0}) = n.losses
  <2>1. /\ Cardinality({i \in DOMAIN seq : NetPnl(seq[i]) > 0}) = m.wins
        /\ Cardinality({i \in DOMAIN seq : NetPnl(seq[i]) < 0}) = m.losses
    BY DEF HasRead, MeansLedger
  <2> HIDE DEF n, net
  <2> QED BY <2>1, <1>3, CountsOfLedgerAndTrade DEF net
<1>12. /\ SumFunction(NetsOf(new)) = SumFunction(NetsOf(seq)) + net
       /\ SumFunction(GrossOf(new)) = SumFunction(GrossOf(seq)) + t.gross
       /\ SumFunction(LossesOf(new)) = SumFunction(LossesOf(seq)) + Larger(-net, 0)
  BY SumsOfLedgerAndTrade
<1>13. /\ m.trades = Len(seq) /\ m.net_pnl = SumFunction(NetsOf(seq))
       /\ m.gross_profit - m.gross_loss = SumFunction(GrossOf(seq))
       /\ m.net_loss = SumFunction(LossesOf(seq))
  BY DEF HasRead, MeansLedger
<1>14. Larger(-net, 0) = IF net < 0 THEN -net ELSE 0
  BY <1>2 DEF Larger
<1> HIDE DEF n, new, net
<1>15. n.trades = Len(new) /\ n.net_pnl = SumFunction(NetsOf(new)) /\ n.net_loss = SumFunction(LossesOf(new))
  BY <1>1, <1>2, <1>3, <1>5, <1>12, <1>13, <1>14
<1>16. n.gross_profit - n.gross_loss = SumFunction(GrossOf(new))
  <2> DEFINE g == t.gross
             s == SumFunction(GrossOf(seq))
             profit == IF g > 0 THEN g ELSE 0
             loss == IF g < 0 THEN -g ELSE 0
  <2>1. profit \in Int /\ loss \in Int /\ profit - loss = g
    BY <1>2
  <2>2. n.gross_profit = m.gross_profit + profit /\ n.gross_loss = m.gross_loss + loss
    BY <1>3
  <2>3. m.gross_profit - m.gross_loss = s /\ SumFunction(GrossOf(new)) = s + g
    BY <1>12, <1>13
  <2> HIDE DEF profit, loss, g, s
  <2> QED BY <2>1, <2>2, <2>3, <1>1
<1>17. MeansLedger(n, new)
  BY <1>10, <1>11, <1>15, <1>16 DEF MeansLedger
<1>18. HasRead(n, new)
  BY <1>6, <1>7, <1>8, <1>9, <1>17 DEF HasRead
<1> QED BY <1>18 DEF n, new

(***************************************************************************)
(* Stretches of a ledger.                                                  *)
(***************************************************************************)
\* No stretch of a ledger falls deeper than the ledger.
LEMMA DrawdownOfStretch ==
    ASSUME NEW seq \in Seq(ResultType), NEW a \in Nat, NEW b \in Nat, a <= b, b <= Len(seq)
    PROVE  Drawdown(SubSeq(seq, a + 1, b)) <= Drawdown(seq)
<1> DEFINE sub == SubSeq(seq, a + 1, b)
           k == b - a
<1>1. /\ sub \in Seq(ResultType) /\ Len(sub) = k /\ k \in Nat /\ Len(seq) \in Nat
      /\ \A n \in 0..k : EquityAfter(sub, n) = EquityAfter(seq, a + n) - EquityAfter(seq, a)
  BY EquityOfStretch
<1> HIDE DEF sub
<1>2. IsDrawdown(sub, Drawdown(sub)) /\ IsDrawdown(seq, Drawdown(seq))
  BY <1>1, DrawdownIsOne
<1>3. PICK x \in 0..k : \E y \in x..k : Drawdown(sub) = EquityAfter(sub, x) - EquityAfter(sub, y)
  BY <1>1, <1>2 DEF IsDrawdown
<1>4. PICK y \in x..k : Drawdown(sub) = EquityAfter(sub, x) - EquityAfter(sub, y)
  BY <1>3
<1>5. y \in 0..k /\ a + x \in 0..Len(seq) /\ a + y \in (a + x)..Len(seq) /\ a \in 0..Len(seq)
      /\ a + y \in 0..Len(seq)
  BY <1>1
<1>6. /\ EquityAfter(sub, x) = EquityAfter(seq, a + x) - EquityAfter(seq, a)
      /\ EquityAfter(sub, y) = EquityAfter(seq, a + y) - EquityAfter(seq, a)
  BY <1>1, <1>5
<1>7. EquityAfter(seq, a + x) \in Int /\ EquityAfter(seq, a + y) \in Int /\ EquityAfter(seq, a) \in Int
  BY <1>5, EquityMoves
<1>8. EquityAfter(seq, a + x) - EquityAfter(seq, a + y) <= Drawdown(seq)
  BY <1>2, <1>5 DEF IsDrawdown
<1>9. Drawdown(sub) = EquityAfter(seq, a + x) - EquityAfter(seq, a + y)
  BY <1>4, <1>6, <1>7
<1> QED BY <1>8, <1>9 DEF sub

\* A ledger falls no deeper than its two parts together.
LEMMA DrawdownOfParts ==
    ASSUME NEW seq \in Seq(ResultType), NEW a \in Nat, a <= Len(seq)
    PROVE  Drawdown(seq) <= Drawdown(SubSeq(seq, 1, a)) + Drawdown(SubSeq(seq, a + 1, Len(seq)))
<1> DEFINE L == Len(seq)
           one == SubSeq(seq, 1, a)
           two == SubSeq(seq, a + 1, L)
           E(n) == EquityAfter(seq, n)
<1>0. L \in Nat
  OBVIOUS
<1>1. /\ one \in Seq(ResultType) /\ Len(one) = a
      /\ \A n \in 0..a : EquityAfter(one, n) = E(n)
  <2>1. /\ SubSeq(seq, 0 + 1, a) \in Seq(ResultType) /\ Len(SubSeq(seq, 0 + 1, a)) = a - 0
        /\ \A n \in 0..(a - 0) : EquityAfter(SubSeq(seq, 0 + 1, a), n) = E(0 + n) - E(0)
    BY EquityOfStretch
  <2>2. E(0) = 0 /\ \A n \in 0..a : E(n) \in Int
    BY EquityMoves
  <2>3. 0 + 1 = 1 /\ a - 0 = a /\ \A n \in 0..a : 0 + n = n
    OBVIOUS
  <2>4. SubSeq(seq, 0 + 1, a) = one
    BY <2>3
  <2> HIDE DEF one, E
  <2>5. ASSUME NEW n \in 0..a PROVE EquityAfter(one, n) = E(n)
    <3>1. EquityAfter(one, n) = E(0 + n) - E(0)
      BY <2>1, <2>3, <2>4
    <3>2. E(n) \in Int /\ 0 + n = n
      BY <2>2, <2>3
    <3> QED BY <3>1, <3>2, <2>2
  <2> QED BY <2>1, <2>3, <2>4, <2>5
<1>2. /\ two \in Seq(ResultType) /\ Len(two) = L - a
      /\ \A n \in 0..(L - a) : EquityAfter(two, n) = E(a + n) - E(a)
  BY <1>0, EquityOfStretch
<1>3. \A n \in 0..L : E(n) \in Int
  BY EquityMoves
<1> HIDE DEF one, two
<1>4. /\ IsDrawdown(one, Drawdown(one)) /\ Drawdown(one) >= 0 /\ Drawdown(one) \in Int
      /\ IsDrawdown(two, Drawdown(two)) /\ Drawdown(two) >= 0 /\ Drawdown(two) \in Int
  BY <1>1, <1>2, DrawdownIsOne DEF IsDrawdown
<1>5. IsDrawdown(seq, Drawdown(seq))
  BY DrawdownIsOne
<1>6. PICK x \in 0..L : \E y \in x..L : Drawdown(seq) = E(x) - E(y)
  BY <1>5 DEF IsDrawdown
<1>7. PICK y \in x..L : Drawdown(seq) = E(x) - E(y)
  BY <1>6
<1> HIDE DEF E, L
<1>8. ASSUME NEW p \in 0..a, NEW q \in p..a PROVE E(p) - E(q) <= Drawdown(one)
  <2>1. q \in 0..a
    OBVIOUS
  <2> QED BY <2>1, <1>1, <1>4 DEF IsDrawdown
<1>9. ASSUME NEW p \in a..L, NEW q \in p..L PROVE E(p) - E(q) <= Drawdown(two)
  <2>1. p - a \in 0..(L - a) /\ q - a \in (p - a)..(L - a) /\ q - a \in 0..(L - a) /\ a + (p - a) = p /\ a + (q - a) = q
    BY <1>0
  <2>2. EquityAfter(two, p - a) - EquityAfter(two, q - a) <= Drawdown(two)
    BY <2>1, <1>2, <1>4 DEF IsDrawdown
  <2>3. EquityAfter(two, p - a) = E(p) - E(a) /\ EquityAfter(two, q - a) = E(q) - E(a)
    <3>1. /\ EquityAfter(two, p - a) = E(a + (p - a)) - E(a)
          /\ EquityAfter(two, q - a) = E(a + (q - a)) - E(a)
      BY <2>1, <1>2
    <3> QED BY <2>1, <3>1
  <2>4. p \in 0..L /\ q \in 0..L /\ a \in 0..L
    BY <1>0 DEF L
  <2>5. E(p) \in Int /\ E(q) \in Int /\ E(a) \in Int
    BY <2>4, <1>3
  <2> QED BY <2>2, <2>3, <2>5
<1>10. a \in 0..L /\ y \in 0..L
  BY <1>0 DEF L
<1>11. E(x) \in Int /\ E(y) \in Int /\ E(a) \in Int
  BY <1>3, <1>10
<1>12. E(x) - E(y) <= Drawdown(one) + Drawdown(two)
  <2>1. CASE y <= a
    <3>1. E(x) - E(y) <= Drawdown(one)
      <4>1. x \in 0..a /\ y \in x..a
        BY <2>1, <1>10
      <4> QED BY <4>1, <1>8
    <3> QED BY <3>1, <1>4, <1>11
  <2>2. CASE a <= x
    <3>1. E(x) - E(y) <= Drawdown(two)
      <4>1. x \in a..L /\ y \in x..L
        BY <2>2, <1>10
      <4> QED BY <4>1, <1>9
    <3> QED BY <3>1, <1>4, <1>11
  <2>3. CASE x <= a /\ a <= y
    <3>1. E(x) - E(a) <= Drawdown(one)
      <4>1. x \in 0..a /\ a \in x..a
        BY <2>3, <1>10
      <4> QED BY <4>1, <1>8
    <3>2. E(a) - E(y) <= Drawdown(two)
      <4>1. a \in a..L /\ y \in a..L
        BY <2>3, <1>10
      <4> QED BY <4>1, <1>9
    <3> QED BY <3>1, <3>2, <1>4, <1>11
  <2> QED BY <2>1, <2>2, <2>3, <1>10
<1>13. Drawdown(seq) <= Drawdown(one) + Drawdown(two)
  BY <1>7, <1>12
<1> QED BY <1>13 DEF one, two, L

(***************************************************************************)
(* A history and the sessions its trades are of.                           *)
(***************************************************************************)
Entry == [session : Nat, trade : ResultType]
TradesIn(h) == [n \in DOMAIN h |-> h[n].trade]
BeforeIn(h, n) == Cardinality({i \in DOMAIN h : h[i].session < n})
Slice(h, n) == SubSeq(TradesIn(h), BeforeIn(h, n) + 1, BeforeIn(h, n + 1))

LEMMA HistoryIs ==
    ASSUME NEW h \in Seq(Entry)
    PROVE  /\ DOMAIN h = 1..Len(h) /\ Len(h) \in Nat
           /\ \A i \in 1..Len(h) : h[i].session \in Nat /\ h[i].trade \in ResultType
<1>1. DOMAIN h = 1..Len(h) /\ Len(h) \in Nat /\ \A i \in 1..Len(h) : h[i] \in Entry
  OBVIOUS
<1>2. \A e \in Entry : e.session \in Nat /\ e.trade \in ResultType
  BY DEF Entry
<1> QED BY <1>1, <1>2

LEMMA CountUpTo ==
    ASSUME NEW n \in Nat
    PROVE  IsFiniteSet(1..n) /\ Cardinality(1..n) = n
<1>1. IsFiniteSet(1..n) /\ Cardinality(1..n) = IF 1 > n THEN 0 ELSE n - 1 + 1
  BY FS_Interval
<1> QED BY <1>1

\* The trades of a history are a ledger.
LEMMA TradesOfHistory ==
    ASSUME NEW h \in Seq(Entry)
    PROVE  /\ TradesIn(h) \in Seq(ResultType) /\ Len(TradesIn(h)) = Len(h) /\ Len(h) \in Nat
           /\ \A i \in 1..Len(h) : TradesIn(h)[i] = h[i].trade
           /\ DOMAIN h = 1..Len(h)
<1>1. DOMAIN h = 1..Len(h) /\ Len(h) \in Nat /\ \A i \in 1..Len(h) : h[i].trade \in ResultType
  BY HistoryIs
<1>2. TradesIn(h) \in [1..Len(h) -> ResultType] /\ \A i \in 1..Len(h) : TradesIn(h)[i] = h[i].trade
  BY <1>1 DEF TradesIn
<1> QED BY <1>1, <1>2

\* How many trades come before session n.
LEMMA BeforeSession ==
    ASSUME NEW h \in Seq(Entry), NEW n \in Nat
    PROVE  /\ BeforeIn(h, n) \in Nat /\ BeforeIn(h, n) <= Len(h)
           /\ BeforeIn(h, n) <= BeforeIn(h, n + 1)
           /\ (\A i \in 1..Len(h) : h[i].session < n) => BeforeIn(h, n) = Len(h)
<1> DEFINE S(k) == {i \in DOMAIN h : h[i].session < k}
<1>1. DOMAIN h = 1..Len(h) /\ Len(h) \in Nat /\ \A i \in 1..Len(h) : h[i].session \in Nat
  BY HistoryIs
<1>2. IsFiniteSet(1..Len(h)) /\ Cardinality(1..Len(h)) = Len(h)
  BY <1>1, CountUpTo
<1>3. S(n) \subseteq 1..Len(h) /\ S(n + 1) \subseteq 1..Len(h) /\ S(n) \subseteq S(n + 1)
  BY <1>1
<1>4. (\A i \in 1..Len(h) : h[i].session < n) => S(n) = 1..Len(h)
  BY <1>1
<1>5. BeforeIn(h, n) = Cardinality(S(n)) /\ BeforeIn(h, n + 1) = Cardinality(S(n + 1))
  BY DEF BeforeIn
<1> HIDE DEF S
<1>6. IsFiniteSet(S(n)) /\ IsFiniteSet(S(n + 1))
  BY <1>2, <1>3, FS_Subset
<1>7. Cardinality(S(n)) <= Len(h) /\ Cardinality(S(n)) <= Cardinality(S(n + 1)) /\ Cardinality(S(n)) \in Nat
  BY <1>2, <1>3, <1>6, FS_Subset, FS_CardinalityType
<1> QED BY <1>1, <1>2, <1>4, <1>5, <1>7

\* Sessions follow one another.
InOrder(h) == \A i, j \in 1..Len(h) : i < j => h[i].session <= h[j].session

\* In an ordered history a trade of session n lies in the slice of session n.
LEMMA TradeLiesInItsSlice ==
    ASSUME NEW h \in Seq(Entry), InOrder(h), NEW i \in 1..Len(h)
    PROVE  i \in (BeforeIn(h, h[i].session) + 1)..BeforeIn(h, h[i].session + 1)
<1> DEFINE n == h[i].session
           S(k) == {j \in DOMAIN h : h[j].session < k}
<1>1. DOMAIN h = 1..Len(h) /\ Len(h) \in Nat /\ \A j \in 1..Len(h) : h[j].session \in Nat
  BY HistoryIs
<1>2. n \in Nat /\ BeforeIn(h, n) \in Nat /\ BeforeIn(h, n + 1) \in Nat
  <2>1. n \in Nat
    BY <1>1
  <2> HIDE DEF n
  <2>2. n + 1 \in Nat
    BY <2>1
  <2>3. BeforeIn(h, n) \in Nat
    BY <2>1, BeforeSession
  <2>4. BeforeIn(h, n + 1) \in Nat
    BY <2>2, BeforeSession
  <2> QED BY <2>1, <2>3, <2>4
<1>3. S(n) \subseteq 1..(i - 1)
  <2>1. ASSUME NEW j \in S(n), ~(j < i) PROVE FALSE
    <3>1. CASE j = i
      BY <2>1, <3>1, <1>1
    <3>2. CASE i < j
      BY <2>1, <3>2, <1>1 DEF InOrder
    <3> QED BY <2>1, <3>1, <3>2, <1>1
  <2> QED BY <2>1, <1>1
<1>4. 1..i \subseteq S(n + 1)
  <2>1. ASSUME NEW j \in 1..i PROVE h[j].session < n + 1
    <3>1. j = i \/ j < i
      BY <1>1
    <3> QED BY <3>1, <1>1, <1>2 DEF InOrder
  <2> QED BY <2>1, <1>1
<1>5. BeforeIn(h, n) = Cardinality(S(n)) /\ BeforeIn(h, n + 1) = Cardinality(S(n + 1))
  BY DEF BeforeIn
<1>6. IsFiniteSet(S(n + 1))
  <2>1. S(n + 1) \subseteq 1..Len(h) /\ IsFiniteSet(1..Len(h))
    BY <1>1, FS_Interval
  <2> HIDE DEF S
  <2> QED BY <2>1, FS_Subset
<1> HIDE DEF S, n
<1>7. Cardinality(S(n)) <= i - 1
  <2>1. IsFiniteSet(1..(i - 1)) /\ Cardinality(1..(i - 1)) = i - 1
    BY FS_Interval
  <2> QED BY <2>1, <1>3, FS_Subset
<1>8. i <= Cardinality(S(n + 1))
  <2>1. IsFiniteSet(1..i) /\ Cardinality(1..i) = i
    BY FS_Interval
  <2> QED BY <2>1, <1>4, <1>6, FS_Subset
<1>9. i \in (BeforeIn(h, n) + 1)..BeforeIn(h, n + 1)
  BY <1>2, <1>5, <1>7, <1>8
<1> QED BY <1>9 DEF n

\* A trade more, of session k: what came before k came before it.
LEMMA BeforeOneMore ==
    ASSUME NEW h \in Seq(Entry), NEW e \in Entry, NEW n \in Nat, n <= e.session
    PROVE  BeforeIn(Append(h, e), n) = BeforeIn(h, n)
<1>1. /\ DOMAIN h = 1..Len(h) /\ DOMAIN Append(h, e) = 1..(Len(h) + 1) /\ Len(h) \in Nat
      /\ \A i \in 1..Len(h) : Append(h, e)[i] = h[i]
      /\ Append(h, e)[Len(h) + 1] = e
  OBVIOUS
<1>2. ~(e.session < n)
  BY DEF Entry
<1>3. {i \in DOMAIN Append(h, e) : Append(h, e)[i].session < n} = {i \in DOMAIN h : h[i].session < n}
  <2>1. \A i : i \in 1..(Len(h) + 1) <=> i \in 1..Len(h) \/ i = Len(h) + 1
    BY <1>1
  <2> QED BY <1>1, <1>2, <2>1
<1> QED BY <1>3 DEF BeforeIn

\* The slices of earlier sessions stay, and the slice of session k gets the trade.
LEMMA SlicesOneMore ==
    ASSUME NEW h \in Seq(Entry), NEW e \in Entry, \A i \in 1..Len(h) : h[i].session <= e.session,
           NEW n \in Nat
    PROVE  /\ n < e.session => Slice(Append(h, e), n) = Slice(h, n)
           /\ n = e.session => /\ Slice(h, n) \in Seq(ResultType)
                               /\ Slice(Append(h, e), n) = Append(Slice(h, n), e.trade)
<1> DEFINE g == Append(h, e)
           L == Len(h)
           s == TradesIn(h)
           t == TradesIn(g)
<1>1. /\ g \in Seq(Entry) /\ Len(g) = L + 1 /\ L \in Nat
      /\ \A i \in 1..L : g[i] = h[i]
      /\ g[L + 1] = e
  OBVIOUS
<1>2. /\ s \in Seq(ResultType) /\ Len(s) = L /\ \A i \in 1..L : s[i] = h[i].trade
      /\ t \in Seq(ResultType) /\ Len(t) = L + 1 /\ \A i \in 1..(L + 1) : t[i] = g[i].trade
  BY <1>1, TradesOfHistory
<1>3. (\A i \in 1..L : t[i] = s[i]) /\ t[L + 1] = e.trade
  <2>1. \A i \in 1..L : i \in 1..(L + 1)
    BY <1>1
  <2>2. L + 1 \in 1..(L + 1)
    BY <1>1
  <2> HIDE DEF s, t, g
  <2> QED BY <2>1, <2>2, <1>1, <1>2
<1>4. e.session \in Nat /\ e.trade \in ResultType /\ \A i \in 1..L : h[i].session \in Nat
  <2>1. e.session \in Nat /\ e.trade \in ResultType
    BY DEF Entry
  <2> QED BY <2>1, HistoryIs
<1> HIDE DEF g, L, s, t
<1>5. ASSUME n < e.session PROVE Slice(g, n) = Slice(h, n)
  <2>1. BeforeIn(g, n) = BeforeIn(h, n) /\ BeforeIn(g, n + 1) = BeforeIn(h, n + 1)
    BY <1>4, <1>5, BeforeOneMore DEF g
  <2> DEFINE a == BeforeIn(h, n)  b == BeforeIn(h, n + 1)
  <2>2. a \in Nat /\ b \in Nat /\ a <= b /\ b <= L
    <3>1. n \in Nat /\ n + 1 \in Nat
      OBVIOUS
    <3> QED BY <3>1, BeforeSession DEF L
  <2> HIDE DEF a, b
  <2>3. SubSeq(t, a + 1, b) = SubSeq(s, a + 1, b)
    <3>1. \A i \in (a + 1)..b : t[i] = s[i] /\ s[i] \in ResultType /\ t[i] \in ResultType
      BY <2>2, <1>1, <1>2, <1>3
    <3>2. /\ SubSeq(t, a + 1, b) \in Seq(ResultType)
          /\ Len(SubSeq(t, a + 1, b)) = (IF a + 1 <= b THEN b - (a + 1) + 1 ELSE 0)
          /\ \A i \in 1..(b - (a + 1) + 1) : SubSeq(t, a + 1, b)[i] = t[a + 1 + i - 1]
      BY <2>2, <3>1, SubSeqProperties
    <3>3. /\ SubSeq(s, a + 1, b) \in Seq(ResultType)
          /\ Len(SubSeq(s, a + 1, b)) = (IF a + 1 <= b THEN b - (a + 1) + 1 ELSE 0)
          /\ \A i \in 1..(b - (a + 1) + 1) : SubSeq(s, a + 1, b)[i] = s[a + 1 + i - 1]
      BY <2>2, <3>1, SubSeqProperties
    <3>4. \A i \in 1..(b - (a + 1) + 1) : a + 1 + i - 1 \in (a + 1)..b
      BY <2>2
    <3>5. Len(SubSeq(t, a + 1, b)) = b - (a + 1) + 1 /\ Len(SubSeq(s, a + 1, b)) = b - (a + 1) + 1
      BY <2>2, <3>2, <3>3
    <3>6. \A i \in 1..(b - (a + 1) + 1) : SubSeq(t, a + 1, b)[i] = SubSeq(s, a + 1, b)[i]
      BY <3>1, <3>2, <3>3, <3>4
    <3> DEFINE x == SubSeq(t, a + 1, b)  y == SubSeq(s, a + 1, b)  k == b - (a + 1) + 1
    <3>7. x \in Seq(ResultType) /\ y \in Seq(ResultType) /\ Len(x) = k /\ Len(y) = k /\ \A i \in 1..k : x[i] = y[i]
      BY <3>2, <3>3, <3>5, <3>6
    <3> HIDE DEF x, y, k
    <3>8. x = y
      BY <3>7, SeqEqual
    <3> QED BY <3>8 DEF x, y
  <2> QED BY <2>1, <2>3 DEF Slice, a, b, s, t
<1>6. ASSUME n = e.session
      PROVE  Slice(h, n) \in Seq(ResultType) /\ Slice(g, n) = Append(Slice(h, n), e.trade)
  <2> DEFINE a == BeforeIn(h, n)
  <2>1. BeforeIn(g, n) = a
    BY <1>4, <1>6, BeforeOneMore DEF g
  <2>2. a \in Nat /\ a <= L
    BY <1>1, BeforeSession DEF L
  <2>3. BeforeIn(h, n + 1) = L
    <3>1. \A i \in 1..L : h[i].session < n + 1
      BY <1>4, <1>6 DEF L
    <3>2. n + 1 \in Nat
      OBVIOUS
    <3> QED BY <3>1, <3>2, BeforeSession DEF L
  <2>4. BeforeIn(g, n + 1) = L + 1
    <3>1. \A i \in 1..(L + 1) : g[i].session < n + 1
      <4>1. \A i \in 1..(L + 1) : i \in 1..L \/ i = L + 1
        BY <1>1
      <4>2. \A i \in 1..L : h[i].session <= e.session
        BY DEF L
      <4> QED BY <4>1, <4>2, <1>1, <1>4, <1>6
    <3>2. n + 1 \in Nat
      OBVIOUS
    <3> QED BY <3>1, <3>2, <1>1, BeforeSession
  <2> HIDE DEF a
  <2> DEFINE x == SubSeq(t, a + 1, L + 1)  y == SubSeq(s, a + 1, L)  k == L - a
  <2>5. /\ x \in Seq(ResultType) /\ Len(x) = k + 1 /\ \A i \in 1..(k + 1) : x[i] = t[a + i]
    <3>1. \A i \in (a + 1)..(L + 1) : t[i] \in ResultType
      BY <2>2, <1>1, <1>2
    <3>2. /\ x \in Seq(ResultType)
          /\ Len(x) = (IF a + 1 <= L + 1 THEN (L + 1) - (a + 1) + 1 ELSE 0)
          /\ \A i \in 1..((L + 1) - (a + 1) + 1) : x[i] = t[a + 1 + i - 1]
      BY <2>2, <3>1, <1>1, SubSeqProperties
    <3>3. \A i \in 1..(k + 1) : a + 1 + i - 1 = a + i
      BY <2>2, <1>1
    <3>4. (L + 1) - (a + 1) + 1 = k + 1 /\ a + 1 <= L + 1
      BY <2>2, <1>1
    <3> HIDE DEF x, k
    <3> QED BY <3>2, <3>3, <3>4
  <2>6. /\ y \in Seq(ResultType) /\ Len(y) = k /\ \A i \in 1..k : y[i] = s[a + i]
    <3>1. \A i \in (a + 1)..L : s[i] \in ResultType
      BY <2>2, <1>1, <1>2
    <3>2. /\ y \in Seq(ResultType)
          /\ Len(y) = (IF a + 1 <= L THEN L - (a + 1) + 1 ELSE 0)
          /\ \A i \in 1..(L - (a + 1) + 1) : y[i] = s[a + 1 + i - 1]
      BY <2>2, <3>1, <1>1, SubSeqProperties
    <3>3. \A i \in 1..k : a + 1 + i - 1 = a + i
      BY <2>2, <1>1
    <3>4. L - (a + 1) + 1 = k /\ (IF a + 1 <= L THEN L - (a + 1) + 1 ELSE 0) = k
      BY <2>2, <1>1
    <3> HIDE DEF y, k
    <3> QED BY <3>2, <3>3, <3>4
  <2>7. k \in Nat /\ a + (k + 1) = L + 1 /\ \A i \in 1..k : a + i \in 1..L
    BY <2>2, <1>1
  <2> HIDE DEF x, y, k
  <2>8. x = Append(y, e.trade)
    <3> DEFINE z == Append(y, e.trade)
    <3>1. /\ z \in Seq(ResultType) /\ Len(z) = k + 1 /\ (\A i \in 1..k : z[i] = y[i]) /\ z[k + 1] = e.trade
      BY <1>4, <2>6, <2>7, LedgerAndTrade
    <3> HIDE DEF z
    <3>2. ASSUME NEW i \in 1..(k + 1) PROVE x[i] = z[i]
      <4>1. CASE i \in 1..k
        <5>1. x[i] = t[a + i] /\ y[i] = s[a + i] /\ t[a + i] = s[a + i] /\ z[i] = y[i]
          BY <4>1, <2>5, <2>6, <2>7, <1>3, <3>1
        <5> QED BY <5>1
      <4>2. CASE i = k + 1
        <5>1. x[k + 1] = t[a + (k + 1)]
          BY <2>5, <4>2
        <5> QED BY <5>1, <4>2, <2>7, <1>3, <3>1
      <4> QED BY <4>1, <4>2, <2>7
    <3>3. x = z
      BY <2>5, <2>7, <3>1, <3>2, SeqEqual
    <3> QED BY <3>3 DEF z
  <2>9. Slice(h, n) = y /\ Slice(g, n) = x
    BY <2>1, <2>3, <2>4 DEF Slice, x, y, a, s, t
  <2> QED BY <2>6, <2>8, <2>9
<1> QED BY <1>5, <1>6 DEF g

(***************************************************************************)
(* Shares of a whole.                                                      *)
(***************************************************************************)
Positive(f, S) == {i \in S : f[i] > 0}

\* A sum of naturals is at most their bound for each of those that count.
LEMMA SumIsBounded ==
    ASSUME NEW S, IsFiniteSet(S), NEW f, \A i \in S : f[i] \in Nat,
           NEW c \in Nat, \A i \in S : f[i] <= c
    PROVE  SumFunctionOnSet(f, S) <= c * Cardinality(Positive(f, S))
<1> DEFINE A == {T \in SUBSET S : SumFunctionOnSet(f, T) <= c * Cardinality(Positive(f, T))}
<1>1. {} \in A
  <2>1. SumFunctionOnSet(f, {}) = 0
    BY SumOfNone
  <2>2. Positive(f, {}) = {} /\ Cardinality({}) = 0
    BY FS_EmptySet DEF Positive
  <2>3. c * 0 = 0
    OBVIOUS
  <2> QED BY <2>1, <2>2, <2>3
<1>2. ASSUME NEW T \in SUBSET S, NEW x \in S, T \in A /\ x \notin T
      PROVE  T \cup {x} \in A
  <2>1. IsFiniteSet(T) /\ f[x] \in Int /\ \A y \in T : f[y] \in Int
    BY FS_Subset
  <2>2. SumFunctionOnSet(f, T \cup {x}) = f[x] + SumFunctionOnSet(f, T) /\ SumFunctionOnSet(f, T) \in Int
    BY <1>2, <2>1, SumPlusOne, SumAddsUp
  <2>3. IsFiniteSet(Positive(f, T)) /\ Cardinality(Positive(f, T)) \in Nat /\ x \notin Positive(f, T)
    <3>1. Positive(f, T) \subseteq T
      BY DEF Positive
    <3>2. IsFiniteSet(Positive(f, T))
      BY <2>1, <3>1, FS_Subset
    <3> QED BY <1>2, <3>1, <3>2, FS_CardinalityType
  <2>4. SumFunctionOnSet(f, T) <= c * Cardinality(Positive(f, T))
    BY <1>2
  <2>5. CASE f[x] > 0
    <3>1. Positive(f, T \cup {x}) = Positive(f, T) \cup {x}
      BY <2>5 DEF Positive
    <3>2. Cardinality(Positive(f, T \cup {x})) = Cardinality(Positive(f, T)) + 1
      BY <2>3, <3>1, FS_AddElement
    <3> DEFINE k == Cardinality(Positive(f, T))
               u == SumFunctionOnSet(f, T)
    <3>3. f[x] <= c /\ f[x] \in Nat
      OBVIOUS
    <3>4. u \in Int /\ k \in Nat /\ u <= c * k
      BY <2>2, <2>3, <2>4
    <3> HIDE DEF k, u
    <3>5. c * (k + 1) = c * k + c /\ c * k \in Int
      BY <3>4
    <3>6. f[x] + u <= c * (k + 1)
      BY <3>3, <3>4, <3>5
    <3>7. SumFunctionOnSet(f, T \cup {x}) <= c * Cardinality(Positive(f, T \cup {x}))
      BY <2>2, <3>2, <3>6 DEF k, u
    <3> QED BY <3>7
  <2>6. CASE ~(f[x] > 0)
    <3>1. Positive(f, T \cup {x}) = Positive(f, T)
      BY <2>6 DEF Positive
    <3>2. f[x] = 0
      BY <2>6
    <3>3. SumFunctionOnSet(f, T \cup {x}) = SumFunctionOnSet(f, T)
      BY <2>2, <3>2
    <3> QED BY <2>4, <3>1, <3>3
  <2> QED BY <2>5, <2>6
<1>3. S \in A
  <2> HIDE DEF A
  <2>1. \A T \in SUBSET S : T \in A
    BY <1>1, <1>2, FiniteSetInduction
  <2> QED BY <2>1
<1> QED BY <1>3

\* The largest of some naturals is a fraction of their sum.
LEMMA LargestOfSum ==
    ASSUME NEW n \in Nat \ {0}, NEW f, DOMAIN f = 1..n, \A i \in 1..n : f[i] \in Nat
    PROVE  /\ SumFunction(f) \in Nat
           /\ SumFunction(f) # 0 <=> Positive(f, 1..n) # {}
           /\ Max(Range(f)) \in Nat /\ Max(Range(f)) <= SumFunction(f)
           /\ Max(Range(f)) * Cardinality(Positive(f, 1..n)) >= SumFunction(f)
<1>1. IsFiniteSet(1..n) /\ 1 \in 1..n
  BY FS_Interval
<1>2. SumFunction(f) = SumFunctionOnSet(f, 1..n)
  BY DEF SumFunction
<1>3. SumFunction(f) \in Nat /\ \A i \in 1..n : f[i] <= SumFunction(f)
  BY <1>1, <1>2, SumOfNaturals
<1>4. SumFunction(f) # 0 <=> Positive(f, 1..n) # {}
  <2>1. ASSUME Positive(f, 1..n) # {} PROVE SumFunction(f) # 0
    <3>1. PICK i \in 1..n : f[i] > 0
      BY <2>1 DEF Positive
    <3> QED BY <3>1, <1>3
  <2>2. ASSUME Positive(f, 1..n) = {} PROVE SumFunction(f) = 0
    <3>1. \A i \in 1..n : f[i] = 0
      BY <2>2 DEF Positive
    <3> QED BY <3>1, <1>1, <1>2, SumOfZeros
  <2> QED BY <2>1, <2>2
<1> DEFINE R == Range(f)
<1>5. R \subseteq Int /\ IsFiniteSet(R) /\ R # {} /\ (\A i \in 1..n : f[i] \in R) /\ \A v \in R : \E i \in 1..n : v = f[i]
  <2>1. R = {f[i] : i \in 1..n}
    BY DEF Range
  <2>2. IsFiniteSet(R)
    <3> DEFINE g == [i \in 1..n |-> f[i]]
    <3>1. g \in Surjection(1..n, R)
      BY <2>1 DEF Surjection
    <3> HIDE DEF g, R
    <3> QED BY <1>1, <3>1, FS_Surjection
  <2> QED BY <1>1, <2>1, <2>2
<1> HIDE DEF R
<1>6. Max(R) \in R /\ \A y \in R : Max(R) >= y
  BY <1>5, MaxOfFinite
<1>7. Max(R) \in Nat /\ Max(R) <= SumFunction(f) /\ \A i \in 1..n : f[i] <= Max(R)
  <2>1. PICK i \in 1..n : Max(R) = f[i]
    BY <1>5, <1>6
  <2>2. Max(R) \in Nat /\ Max(R) <= SumFunction(f)
    BY <2>1, <1>3
  <2>3. ASSUME NEW j \in 1..n PROVE f[j] <= Max(R)
    <3>1. Max(R) >= f[j] /\ f[j] \in Nat
      BY <1>5, <1>6
    <3> QED BY <3>1, <2>2
  <2> QED BY <2>2, <2>3
<1> DEFINE c == Max(R)
<1>8. SumFunctionOnSet(f, 1..n) <= c * Cardinality(Positive(f, 1..n))
  <2> HIDE DEF c
  <2> QED BY <1>1, <1>7, SumIsBounded DEF c
<1>9. Cardinality(Positive(f, 1..n)) \in Nat
  <2>1. Positive(f, 1..n) \subseteq 1..n
    BY DEF Positive
  <2> QED BY <2>1, <1>1, FS_Subset, FS_CardinalityType
<1>10. c * Cardinality(Positive(f, 1..n)) >= SumFunction(f)
  <2> DEFINE k == Cardinality(Positive(f, 1..n))
  <2>1. c \in Nat /\ k \in Nat /\ SumFunction(f) \in Nat /\ SumFunction(f) <= c * k
    BY <1>2, <1>3, <1>7, <1>8, <1>9
  <2> HIDE DEF c, k
  <2>2. c * k \in Int
    BY <2>1
  <2>3. c * k >= SumFunction(f)
    BY <2>1, <2>2
  <2> QED BY <2>3 DEF k
<1> QED BY <1>3, <1>4, <1>7, <1>10 DEF R

\* Two sets without a common member count together what each of them counts.
LEMMA DisjointCount ==
    ASSUME NEW S, IsFiniteSet(S), NEW T, IsFiniteSet(T), S \cap T = {}
    PROVE  IsFiniteSet(S \cup T) /\ Cardinality(S \cup T) = Cardinality(S) + Cardinality(T)
<1>1. IsFiniteSet(S \cup T) /\ Cardinality(S \cup T) = Cardinality(S) + Cardinality(T) - Cardinality(S \cap T)
  BY FS_Union
<1>2. Cardinality(S \cap T) = 0 /\ Cardinality(S) \in Nat /\ Cardinality(T) \in Nat
  BY FS_EmptySet, FS_CardinalityType
<1> QED BY <1>1, <1>2

\* A session that traded nothing earned nothing.
RowsTraded == \A n \in DOMAIN rows : rows[n].trades = 0 => rows[n].net = 0
RowType == [net : Int, trades : Nat]

LEMMA RowsAre ==
    ASSUME rows \in Seq(RowType)
    PROVE  /\ DOMAIN rows = 1..Len(rows) /\ Len(rows) \in Nat
           /\ \A n \in 1..Len(rows) : rows[n].net \in Int /\ rows[n].trades \in Nat
<1>1. DOMAIN rows = 1..Len(rows) /\ Len(rows) \in Nat /\ \A n \in 1..Len(rows) : rows[n] \in RowType
  OBVIOUS
<1>2. \A r \in RowType : r.net \in Int /\ r.trades \in Nat
  BY DEF RowType
<1> QED BY <1>1, <1>2

\* The sessions that gain, lose and stay flat are all of them.
LEMMA SessionsPartition ==
    ASSUME rows \in Seq(RowType), RowsTraded
    PROVE  /\ Cardinality(Profitable) \in Nat /\ Cardinality(Losing) \in Nat /\ Cardinality(Active) \in Nat
           /\ Len(rows) = Cardinality(Profitable) + Cardinality(Losing) + Cardinality(Flat)
           /\ Cardinality(Active) >= Cardinality(Profitable) + Cardinality(Losing)
           /\ (Cardinality(Profitable) > 0 <=> Profitable # {})
           /\ (Cardinality(Active) > 0 <=> Active # {})
<1>1. /\ DOMAIN rows = 1..Len(rows) /\ Len(rows) \in Nat
      /\ \A n \in 1..Len(rows) : rows[n].net \in Int /\ rows[n].trades \in Nat
  BY RowsAre
<1>2. IsFiniteSet(1..Len(rows)) /\ Cardinality(1..Len(rows)) = Len(rows)
  BY <1>1, CountUpTo
<1>3. /\ Profitable \subseteq 1..Len(rows) /\ Losing \subseteq 1..Len(rows)
      /\ Flat \subseteq 1..Len(rows) /\ Active \subseteq 1..Len(rows)
  BY <1>1 DEF Profitable, Losing, Flat, Active
<1>4. /\ Profitable \cap Losing = {} /\ (Profitable \cup Losing) \cap Flat = {}
      /\ (Profitable \cup Losing) \cup Flat = 1..Len(rows)
      /\ Profitable \cup Losing \subseteq Active
  BY <1>1 DEF Profitable, Losing, Flat, Active, RowsTraded
<1>5. IsFiniteSet(Profitable) /\ IsFiniteSet(Losing) /\ IsFiniteSet(Flat) /\ IsFiniteSet(Active)
  BY <1>2, <1>3, FS_Subset
<1>6. Cardinality(Profitable \cup Losing) = Cardinality(Profitable) + Cardinality(Losing) /\ IsFiniteSet(Profitable \cup Losing)
  BY <1>4, <1>5, DisjointCount
<1>7. Cardinality((Profitable \cup Losing) \cup Flat) = Cardinality(Profitable \cup Losing) + Cardinality(Flat)
  BY <1>4, <1>5, <1>6, DisjointCount
<1>8. Cardinality(Profitable \cup Losing) <= Cardinality(Active)
  BY <1>4, <1>5, FS_Subset
<1>9. /\ Cardinality(Profitable) \in Nat /\ Cardinality(Losing) \in Nat
      /\ Cardinality(Flat) \in Nat /\ Cardinality(Active) \in Nat
  BY <1>5, FS_CardinalityType
<1>10. /\ Cardinality(Profitable) = 0 <=> Profitable = {}
       /\ Cardinality(Active) = 0 <=> Active = {}
  BY <1>5, FS_EmptySet
<1>11. Len(rows) = Cardinality(Profitable) + Cardinality(Losing) + Cardinality(Flat)
  BY <1>2, <1>4, <1>6, <1>7
<1>12. Cardinality(Active) >= Cardinality(Profitable) + Cardinality(Losing)
  <2>1. Cardinality(Profitable) + Cardinality(Losing) <= Cardinality(Active)
    BY <1>6, <1>8
  <2> QED BY <2>1, <1>9, SMT
<1>13. (Cardinality(Profitable) > 0 <=> Profitable # {}) /\ (Cardinality(Active) > 0 <=> Active # {})
  BY <1>9, <1>10
<1> QED BY <1>9, <1>11, <1>12, <1>13

(***************************************************************************)
(* The record of a partition: the inductive invariant.                     *)
(***************************************************************************)
Deepest == [n \in DOMAIN rows |-> Drawdown(Slice(history, n))]

LedgersRead ==
    /\ HasRead(global, TradesIn(history))
    /\ pc = "ledger" => HasRead(local, Slice(history, Len(rows) + 1))
SessionsInOrder ==
    /\ InOrder(history)
    /\ \A i \in 1..Len(history) : /\ history[i].session \in 1..(Len(rows) + 1)
                                  /\ pc \in {"sessions", "done"} => history[i].session <= Len(rows)
\* The closed sessions, and the open one, add up to the whole.
RowsAddUp ==
    /\ pc \in {"sessions", "done"} =>
          global.net_pnl = SumFunction(Nets) /\ global.trades = SumFunction(Trades)
    /\ pc = "ledger" => /\ global.net_pnl = SumFunction(Nets) + local.net_pnl
                        /\ global.trades = SumFunction(Trades) + local.trades
DrawdownsAddUp ==
    /\ pc \in {"sessions", "done"} => Drawdown(TradesIn(history)) <= SumFunction(Deepest)
    /\ pc = "ledger" =>
          Drawdown(SubSeq(TradesIn(history), 1, BeforeIn(history, Len(rows) + 1))) <= SumFunction(Deepest)

PartitionInv ==
    /\ PartitionTyped /\ LedgersRead /\ SessionsInOrder /\ RowsAddUp /\ DrawdownsAddUp /\ RowsTraded
    /\ SharesAreFractions

\* What the type says of the parts of the state.
LEMMA TypedParts ==
    ASSUME PartitionTyped
    PROVE  /\ history \in Seq(Entry) /\ TradesIn(history) \in Seq(ResultType)
           /\ rows \in Seq(RowType)
           /\ global \in MetricsType /\ local \in MetricsType
           /\ DOMAIN rows = 1..Len(rows) /\ Len(rows) \in Nat
           /\ \A n \in 1..Len(rows) : rows[n].net \in Int /\ rows[n].trades \in Nat
           /\ DOMAIN history = 1..Len(history) /\ Len(history) \in Nat
<1>1. history \in Seq(Entry) /\ rows \in Seq(RowType) /\ global \in MetricsType /\ local \in MetricsType
  BY DEF PartitionTyped, Entry, RowType
<1> QED BY <1>1, TradesOfHistory, RowsAre

\* The slice of a session is a stretch of the ledger.
LEMMA SliceIs ==
    ASSUME PartitionTyped, NEW n \in Nat
    PROVE  /\ Slice(history, n) \in Seq(ResultType)
           /\ Drawdown(Slice(history, n)) <= Drawdown(TradesIn(history))
           /\ Drawdown(Slice(history, n)) \in Nat
<1> DEFINE s == TradesIn(history)
           a == BeforeIn(history, n)
           b == BeforeIn(history, n + 1)
<1>1. s \in Seq(ResultType) /\ history \in Seq(Entry) /\ Len(s) = Len(history)
  BY TypedParts, TradesOfHistory
<1>2. a \in Nat /\ b \in Nat /\ a <= b /\ b <= Len(s)
  <2>1. n \in Nat /\ n + 1 \in Nat
    OBVIOUS
  <2> HIDE DEF s
  <2> QED BY <1>1, <2>1, BeforeSession
<1> HIDE DEF s, a, b
<1>3. SubSeq(s, a + 1, b) \in Seq(ResultType) /\ Drawdown(SubSeq(s, a + 1, b)) <= Drawdown(s)
  BY <1>1, <1>2, EquityOfStretch, DrawdownOfStretch
<1>4. Slice(history, n) = SubSeq(s, a + 1, b)
  BY DEF Slice, s, a, b
<1>5. Drawdown(Slice(history, n)) >= 0 /\ Drawdown(Slice(history, n)) \in Int
  BY <1>3, <1>4, DrawdownIsOne DEF IsDrawdown
<1> QED BY <1>3, <1>4, <1>5 DEF s

\* The sums over the sessions.
LEMMA SessionSums ==
    ASSUME PartitionTyped
    PROVE  /\ DOMAIN Nets = 1..Len(rows) /\ \A n \in 1..Len(rows) : Nets[n] = rows[n].net
           /\ DOMAIN Trades = 1..Len(rows) /\ \A n \in 1..Len(rows) : Trades[n] = rows[n].trades
           /\ DOMAIN Deepest = 1..Len(rows)
           /\ \A n \in 1..Len(rows) : Deepest[n] = Drawdown(Slice(history, n)) /\ Deepest[n] \in Nat
           /\ Integral(Nets, Len(rows)) /\ Integral(Trades, Len(rows)) /\ Integral(Deepest, Len(rows))
           /\ SumFunction(Nets) \in Int /\ SumFunction(Trades) \in Nat /\ SumFunction(Deepest) \in Nat
<1>1. /\ DOMAIN rows = 1..Len(rows) /\ Len(rows) \in Nat
      /\ \A n \in 1..Len(rows) : rows[n].net \in Int /\ rows[n].trades \in Nat
  BY TypedParts
<1>2. /\ DOMAIN Nets = 1..Len(rows) /\ \A n \in 1..Len(rows) : Nets[n] = rows[n].net /\ Nets[n] \in Int
      /\ DOMAIN Trades = 1..Len(rows) /\ \A n \in 1..Len(rows) : Trades[n] = rows[n].trades /\ Trades[n] \in Nat
  BY <1>1 DEF Nets, Trades
<1>3. /\ DOMAIN Deepest = 1..Len(rows)
      /\ \A n \in 1..Len(rows) : Deepest[n] = Drawdown(Slice(history, n)) /\ Deepest[n] \in Nat
  <2>1. \A n \in 1..Len(rows) : n \in Nat
    BY <1>1
  <2> QED BY <1>1, <2>1, SliceIs DEF Deepest
<1>4. IsFiniteSet(1..Len(rows))
  BY <1>1, CountUpTo
<1>5. SumFunctionOnSet(Nets, 1..Len(rows)) \in Int
  BY <1>2, <1>4, SumAddsUp
<1>6. SumFunctionOnSet(Trades, 1..Len(rows)) \in Nat /\ SumFunctionOnSet(Deepest, 1..Len(rows)) \in Nat
  BY <1>2, <1>3, <1>4, SumOfNaturals
<1>7. Integral(Nets, Len(rows)) /\ Integral(Trades, Len(rows)) /\ Integral(Deepest, Len(rows))
  BY <1>2, <1>3 DEF Integral
<1> QED BY <1>2, <1>3, <1>5, <1>6, <1>7 DEF SumFunction

\* Nothing has been read yet.
LEMMA RecordInit == PartitionInit => PartitionInv
<1> SUFFICES ASSUME PartitionInit PROVE PartitionInv
  OBVIOUS
<1>1. pc = "sessions" /\ date = 0 /\ global = NoMetrics /\ local = NoMetrics /\ rows = <<>> /\ history = <<>>
  BY DEF PartitionInit
<1>2. PartitionTyped
  BY <1>1, NoMetricsBalanced DEF PartitionTyped
<1>3. Len(rows) = 0 /\ Len(history) = 0 /\ TradesIn(history) = <<>> /\ DOMAIN rows = {}
  BY <1>1 DEF TradesIn
<1>4. LedgersRead
  BY <1>1, <1>3, NothingRead DEF LedgersRead
<1>5. SessionsInOrder
  BY <1>3 DEF SessionsInOrder, InOrder
<1>6. DOMAIN Nets = {} /\ DOMAIN Trades = {} /\ DOMAIN Deepest = {}
  BY <1>3 DEF Nets, Trades, Deepest
<1>7. SumFunction(Nets) = 0 /\ SumFunction(Trades) = 0 /\ SumFunction(Deepest) = 0
  BY <1>6, SumOfNone DEF SumFunction
<1>8. global.net_pnl = 0 /\ global.trades = 0 /\ global.max_drawdown = 0
  BY <1>1 DEF NoMetrics
<1>9. RowsAddUp
  BY <1>1, <1>7, <1>8 DEF RowsAddUp
<1>10. DrawdownsAddUp
  <2>1. Drawdown(TradesIn(history)) = 0
    BY <1>4, <1>8 DEF LedgersRead, HasRead, MeansLedger
  <2> QED BY <1>1, <1>7, <2>1 DEF DrawdownsAddUp
<1>11. RowsTraded
  BY <1>3 DEF RowsTraded
<1>12. SharesAreFractions
  BY <1>1 DEF SharesAreFractions
<1> QED BY <1>2, <1>4, <1>5, <1>9, <1>10, <1>11, <1>12 DEF PartitionInv

\* A refusal leaves what was read as it is.
LEMMA RecordKept ==
    ASSUME PartitionInv, UNCHANGED <<date, global, local, rows, history>>, pc' = "failed"
    PROVE  PartitionInv'
<1>1. TradesIn(history)' = TradesIn(history)
  BY DEF TradesIn
<1>2. PartitionTyped'
  BY DEF PartitionInv, PartitionTyped
<1>3. LedgersRead'
  BY <1>1 DEF PartitionInv, LedgersRead, HasRead
<1>4. SessionsInOrder'
  BY DEF PartitionInv, SessionsInOrder, InOrder
<1>5. RowsTraded'
  BY DEF PartitionInv, RowsTraded
<1> QED BY <1>2, <1>3, <1>4, <1>5 DEF PartitionInv, RowsAddUp, DrawdownsAddUp, SharesAreFractions

\* A session is opened: its ledger is empty, what came before is the whole.
LEMMA RecordOpened ==
    ASSUME PartitionInv, NEW d \in Dates, OpenSession(d)
    PROVE  PartitionInv'
<1>1. CASE date # 0 /\ d <= date
  BY <1>1, RecordKept DEF OpenSession, Fail
<1>2. CASE ~(date # 0 /\ d <= date)
  <2>1. /\ pc = "sessions" /\ pc' = "ledger" /\ date' = d /\ local' = NoMetrics
        /\ UNCHANGED <<global, rows, summary, history>>
    BY <1>2 DEF OpenSession
  <2>2. PartitionTyped
    BY DEF PartitionInv
  <2>3. /\ history \in Seq(Entry) /\ Len(rows) \in Nat /\ Len(history) \in Nat
        /\ TradesIn(history) \in Seq(ResultType) /\ Len(TradesIn(history)) = Len(history)
    BY <2>2, TypedParts, TradesOfHistory
  <2>4. PartitionTyped'
    <3>1. d \in Nat
      BY PartitionAssumption
    <3> QED BY <2>1, <2>2, <3>1, NoMetricsBalanced DEF PartitionTyped
  <2> DEFINE k == Len(rows) + 1
  <2>5. BeforeIn(history, k) = Len(history) /\ BeforeIn(history, k + 1) = Len(history)
    <3>1. \A i \in 1..Len(history) : history[i].session < k /\ history[i].session < k + 1
      <4>1. \A i \in 1..Len(history) : history[i].session <= Len(rows) /\ history[i].session \in Nat
        BY <2>1, <2>3, HistoryIs DEF PartitionInv, SessionsInOrder
      <4> QED BY <2>3, <4>1
    <3>2. k \in Nat /\ k + 1 \in Nat
      BY <2>3
    <3> HIDE DEF k
    <3> QED BY <2>3, <3>1, <3>2, BeforeSession
  <2>6. Slice(history, k) = <<>>
    <3>1. SubSeq(TradesIn(history), Len(history) + 1, Len(history)) = <<>>
      BY <2>3, SubSeqEmpty
    <3> QED BY <2>5, <3>1 DEF Slice
  <2>7. LedgersRead'
    <3>1. HasRead(global, TradesIn(history)) /\ HasRead(NoMetrics, Slice(history, k))
      BY <2>6, NothingRead DEF PartitionInv, LedgersRead
    <3>2. HasRead(global', TradesIn(history')) /\ HasRead(local', Slice(history', Len(rows') + 1))
      BY <3>1, <2>1
    <3> HIDE DEF k
    <3> QED BY <3>2 DEF LedgersRead
  <2>8. SessionsInOrder'
    BY <2>1 DEF PartitionInv, SessionsInOrder
  <2>9. RowsAddUp'
    <3>1. NoMetrics.net_pnl = 0 /\ NoMetrics.trades = 0
      BY DEF NoMetrics
    <3>2. /\ global.net_pnl = SumFunction(Nets) /\ global.trades = SumFunction(Trades)
      BY <2>1 DEF PartitionInv, RowsAddUp
    <3>3. Nets' = Nets /\ Trades' = Trades
      BY <2>1 DEF Nets, Trades
    <3>4. SumFunction(Nets) \in Int /\ SumFunction(Trades) \in Int
      BY <2>2, SessionSums
    <3> HIDE DEF k
    <3> QED BY <2>1, <3>1, <3>2, <3>3, <3>4 DEF RowsAddUp
  <2>10. DrawdownsAddUp'
    <3>1. Drawdown(TradesIn(history)) <= SumFunction(Deepest)
      BY <2>1 DEF PartitionInv, DrawdownsAddUp
    <3>2. SubSeq(TradesIn(history), 1, Len(history)) = TradesIn(history)
      BY <2>3, SubSeqFull
    <3>3. Deepest' = Deepest
      BY <2>1 DEF Deepest
    <3>4. Drawdown(SubSeq(TradesIn(history), 1, BeforeIn(history, k))) <= SumFunction(Deepest)
      BY <3>1, <3>2, <2>5
    <3>5. Drawdown(SubSeq(TradesIn(history'), 1, BeforeIn(history', Len(rows') + 1))) <= SumFunction(Deepest')
      BY <3>3, <3>4, <2>1
    <3> HIDE DEF k
    <3> QED BY <2>1, <3>5 DEF DrawdownsAddUp
  <2>11. RowsTraded' /\ SharesAreFractions'
    BY <2>1 DEF PartitionInv, RowsTraded, SharesAreFractions
  <2> QED BY <2>4, <2>7, <2>8, <2>9, <2>10, <2>11 DEF PartitionInv
<1> QED BY <1>1, <1>2

\* Adding a trade keeps the type of an accumulator.
LEMMA AddTradeTyped ==
    ASSUME NEW m \in MetricsType, NEW t \in ResultType
    PROVE  AddTrade(m, t) \in MetricsType
<1> DEFINE net == NetPnl(t)
           equity == m.equity + net
           peak == Larger(m.peak_equity, equity)
           fall == Larger(m.max_drawdown, peak - equity)
           streak == Streak(m, net)
           longest == Larger(m.max_consecutive_losses, streak)
<1>1. /\ t.gross \in Int /\ t.impact \in Nat /\ t.cost \in Nat
      /\ net = t.gross - t.impact - t.cost
  BY DEF ResultType, NetPnl
<1>2. /\ m.trades \in Nat /\ m.wins \in Nat /\ m.losses \in Nat /\ m.breakeven \in Nat
      /\ m.gross_profit \in Nat /\ m.gross_loss \in Nat /\ m.gross_pnl \in Int
      /\ m.costs \in Nat /\ m.slippage_impact \in Nat
      /\ m.net_profit \in Nat /\ m.net_loss \in Nat /\ m.net_pnl \in Int
      /\ m.max_drawdown \in Nat /\ m.max_consecutive_losses \in Nat
      /\ m.equity \in Int /\ m.peak_equity \in Nat /\ m.consecutive_losses \in Nat
  BY DEF MetricsType
<1>3. net \in Int /\ equity \in Int /\ peak \in Nat /\ streak \in Nat
  BY <1>1, <1>2 DEF Larger, Streak
<1> HIDE DEF net, equity, peak, streak
<1>4. fall \in Nat /\ longest \in Nat
  BY <1>2, <1>3 DEF Larger
<1> HIDE DEF fall, longest
<1>5. /\ m.trades + 1 \in Nat /\ m.wins + (IF net > 0 THEN 1 ELSE 0) \in Nat
      /\ m.losses + (IF net < 0 THEN 1 ELSE 0) \in Nat
      /\ m.breakeven + (IF net = 0 THEN 1 ELSE 0) \in Nat
      /\ m.gross_profit + (IF t.gross > 0 THEN t.gross ELSE 0) \in Nat
      /\ m.gross_loss + (IF t.gross < 0 THEN -t.gross ELSE 0) \in Nat
      /\ m.gross_pnl + t.gross \in Int /\ m.costs + t.cost \in Nat
      /\ m.slippage_impact + t.impact \in Nat
      /\ m.net_profit + (IF net > 0 THEN net ELSE 0) \in Nat
      /\ m.net_loss + (IF net < 0 THEN -net ELSE 0) \in Nat
      /\ m.net_pnl + net \in Int
  BY <1>1, <1>2, <1>3
<1> QED BY <1>3, <1>4, <1>5 DEF AddTrade, MetricsType, net, equity, peak, fall, streak, longest

\* A trade more leaves every prefix of a ledger.
LEMMA PrefixOfAppend ==
    ASSUME NEW s \in Seq(ResultType), NEW t \in ResultType, NEW a \in Nat, a <= Len(s)
    PROVE  SubSeq(Append(s, t), 1, a) = SubSeq(s, 1, a)
<1> DEFINE n == Append(s, t)  x == SubSeq(n, 1, a)  y == SubSeq(s, 1, a)
<1>1. \A i \in 1..a : n[i] = s[i] /\ s[i] \in ResultType /\ n[i] \in ResultType
  BY LedgerAndTrade
<1> HIDE DEF n
<1>2. /\ x \in Seq(ResultType) /\ Len(x) = (IF 1 <= a THEN a - 1 + 1 ELSE 0)
      /\ \A i \in 1..(a - 1 + 1) : x[i] = n[1 + i - 1]
  BY <1>1, SubSeqProperties
<1>3. /\ y \in Seq(ResultType) /\ Len(y) = (IF 1 <= a THEN a - 1 + 1 ELSE 0)
      /\ \A i \in 1..(a - 1 + 1) : y[i] = s[1 + i - 1]
  BY <1>1, SubSeqProperties
<1> HIDE DEF x, y
<1>4. Len(x) = a /\ Len(y) = a /\ \A i \in 1..a : i \in 1..(a - 1 + 1) /\ 1 + i - 1 = i
  BY <1>2, <1>3
<1>5. \A i \in 1..a : x[i] = y[i]
  BY <1>1, <1>2, <1>3, <1>4
<1>6. x = y
  BY <1>2, <1>3, <1>4, <1>5, SeqEqual
<1> QED BY <1>6 DEF x, y, n

\* A trade is read: the partition and the open session both take it.
LEMMA RecordRead ==
    ASSUME PartitionInv, NEW t \in Results, NEW matches \in BOOLEAN, ReadTrade(t, matches)
    PROVE  PartitionInv'
<1>1. CASE ~matches
  BY <1>1, RecordKept DEF ReadTrade, Fail
<1>2. CASE matches
  <2> DEFINE k == Len(rows) + 1
             e == [session |-> k, trade |-> t]
  <2>1. /\ pc = "ledger" /\ pc' = pc /\ date' = date /\ rows' = rows
        /\ local' = AddTrade(local, t) /\ global' = AddTrade(global, t)
        /\ history' = Append(history, e)
    BY <1>2 DEF ReadTrade
  <2>2. PartitionTyped
    BY DEF PartitionInv
  <2>3. /\ history \in Seq(Entry) /\ Len(rows) \in Nat /\ Len(history) \in Nat
        /\ TradesIn(history) \in Seq(ResultType) /\ Len(TradesIn(history)) = Len(history)
        /\ global \in MetricsType /\ local \in MetricsType
        /\ DOMAIN rows = 1..Len(rows)
    BY <2>2, TypedParts, TradesOfHistory
  <2>4. t \in ResultType /\ k \in Nat
    BY <2>3, PartitionAssumption
  <2>5. e \in Entry /\ e.session = k /\ e.trade = t
    BY <2>4 DEF Entry
  <2> HIDE DEF e, k
  <2>6. /\ history' \in Seq(Entry) /\ Len(history') = Len(history) + 1
        /\ \A i \in 1..Len(history) : history'[i] = history[i]
        /\ history'[Len(history) + 1] = e
    BY <2>1, <2>3, <2>5
  <2>7. HasRead(global, TradesIn(history)) /\ HasRead(local, Slice(history, k))
    BY <2>1 DEF PartitionInv, LedgersRead, k
  <2>8. \A i \in 1..Len(history) : history[i].session <= k /\ history[i].session \in 1..k
    BY <2>3, <2>4 DEF PartitionInv, SessionsInOrder, k
  <2>9. TradesIn(history') = Append(TradesIn(history), t)
    <3> DEFINE x == TradesIn(history')  y == Append(TradesIn(history), t)  L == Len(history)
    <3>1. x \in Seq(ResultType) /\ Len(x) = L + 1 /\ \A i \in 1..(L + 1) : x[i] = history'[i].trade
      BY <2>6, TradesOfHistory
    <3>2. /\ y \in Seq(ResultType) /\ Len(y) = L + 1 /\ (\A i \in 1..L : y[i] = TradesIn(history)[i])
          /\ y[L + 1] = t
      BY <2>3, <2>4, LedgerAndTrade
    <3>3. \A i \in 1..L : TradesIn(history)[i] = history[i].trade
      BY <2>3, TradesOfHistory
    <3> HIDE DEF x, y
    <3>4. ASSUME NEW i \in 1..(L + 1) PROVE x[i] = y[i]
      <4>1. CASE i \in 1..L
        BY <4>1, <3>1, <3>2, <3>3, <2>6
      <4>2. CASE i = L + 1
        BY <4>2, <3>1, <3>2, <2>5, <2>6
      <4> QED BY <4>1, <4>2, <2>3
    <3>5. x = y
      BY <3>1, <3>2, <3>4, SeqEqual
    <3> QED BY <3>5 DEF x, y
  <2>10. /\ Slice(history', k) = Append(Slice(history, k), t) /\ Slice(history, k) \in Seq(ResultType)
         /\ \A n \in 1..Len(rows) : Slice(history', n) = Slice(history, n)
    <3>1. \A i \in 1..Len(history) : history[i].session <= e.session
      BY <2>5, <2>8
    <3>2. Slice(history', k) = Append(Slice(history, k), t) /\ Slice(history, k) \in Seq(ResultType)
      BY <3>1, <2>1, <2>3, <2>4, <2>5, SlicesOneMore
    <3>3. ASSUME NEW n \in 1..Len(rows) PROVE Slice(history', n) = Slice(history, n)
      <4>1. n \in Nat /\ n < e.session
        BY <2>3, <2>5 DEF k
      <4> QED BY <4>1, <3>1, <2>1, <2>3, <2>5, SlicesOneMore
    <3> QED BY <3>2, <3>3
  <2>11. PartitionTyped'
    <3>1. global' \in MetricsType /\ local' \in MetricsType
      BY <2>1, <2>3, <2>4, AddTradeTyped
    <3>2. history' \in Seq([session : Nat, trade : ResultType])
      BY <2>6 DEF Entry
    <3> QED BY <3>1, <3>2, <2>1, <2>2 DEF PartitionTyped
  <2>12. LedgersRead'
    <3>1. HasRead(global', TradesIn(history'))
      BY <2>1, <2>3, <2>4, <2>7, <2>9, TradeRead
    <3>2. HasRead(local', Slice(history', k))
      BY <2>1, <2>3, <2>4, <2>7, <2>10, TradeRead
    <3>3. HasRead(local', Slice(history', Len(rows') + 1))
      BY <3>2, <2>1 DEF k
    <3> QED BY <3>1, <3>3 DEF LedgersRead
  <2>13. SessionsInOrder'
    <3> DEFINE g == history'  L == Len(history)
    <3>1. ASSUME NEW i \in 1..(L + 1), NEW j \in 1..(L + 1), i < j
          PROVE  g[i].session <= g[j].session
      <4>1. i \in 1..L
        BY <3>1, <2>3
      <4>2. CASE j \in 1..L
        <5>1. history[i].session <= history[j].session
          BY <4>1, <4>2, <3>1 DEF PartitionInv, SessionsInOrder, InOrder
        <5> QED BY <5>1, <4>1, <4>2, <2>6
      <4>3. CASE j = L + 1
        BY <4>1, <4>3, <2>5, <2>6, <2>8
      <4> QED BY <4>2, <4>3, <2>3
    <3>2. ASSUME NEW i \in 1..(L + 1) PROVE g[i].session \in 1..k
      <4>1. CASE i \in 1..L
        BY <4>1, <2>6, <2>8
      <4>2. CASE i = L + 1
        BY <4>2, <2>3, <2>5, <2>6 DEF k
      <4> QED BY <4>1, <4>2, <2>3
    <3> QED BY <3>1, <3>2, <2>1, <2>6 DEF SessionsInOrder, InOrder, k
  <2>14. RowsAddUp'
    <3>1. /\ global.net_pnl = SumFunction(Nets) + local.net_pnl
          /\ global.trades = SumFunction(Trades) + local.trades
      BY <2>1 DEF PartitionInv, RowsAddUp
    <3>2. Nets' = Nets /\ Trades' = Trades
      BY <2>1 DEF Nets, Trades
    <3>3. SumFunction(Nets) \in Int /\ SumFunction(Trades) \in Int
      BY <2>2, SessionSums
    <3>4. /\ global'.net_pnl = global.net_pnl + NetPnl(t) /\ global'.trades = global.trades + 1
          /\ local'.net_pnl = local.net_pnl + NetPnl(t) /\ local'.trades = local.trades + 1
      BY <2>1 DEF AddTrade
    <3>5. /\ local.net_pnl \in Int /\ local.trades \in Int /\ NetPnl(t) \in Int
      <4>1. local.net_pnl \in Int /\ local.trades \in Nat
        BY <2>3 DEF MetricsType
      <4>2. NetPnl(t) \in Int
        BY <2>4 DEF ResultType, NetPnl
      <4> QED BY <4>1, <4>2
    <3> QED BY <2>1, <3>1, <3>2, <3>3, <3>4, <3>5 DEF RowsAddUp
  <2>15. DrawdownsAddUp'
    <3>1. Deepest' = Deepest
      BY <2>1, <2>3, <2>10 DEF Deepest
    <3> DEFINE a == BeforeIn(history, k)
    <3>2. BeforeIn(history', k) = a
      BY <2>1, <2>3, <2>4, <2>5, BeforeOneMore
    <3>3. a \in Nat /\ a <= Len(history)
      BY <2>3, <2>4, BeforeSession
    <3>4. SubSeq(TradesIn(history'), 1, a) = SubSeq(TradesIn(history), 1, a)
      <4> HIDE DEF a
      <4> QED BY <2>3, <2>4, <2>9, <3>3, PrefixOfAppend
    <3>5. Drawdown(SubSeq(TradesIn(history), 1, a)) <= SumFunction(Deepest)
      BY <2>1 DEF PartitionInv, DrawdownsAddUp, k
    <3>6. Drawdown(SubSeq(TradesIn(history'), 1, BeforeIn(history', Len(rows') + 1))) <= SumFunction(Deepest')
      BY <3>1, <3>2, <3>4, <3>5, <2>1 DEF k
    <3> QED BY <2>1, <3>6 DEF DrawdownsAddUp
  <2>16. RowsTraded' /\ SharesAreFractions'
    BY <2>1 DEF PartitionInv, RowsTraded, SharesAreFractions
  <2> QED BY <2>11, <2>12, <2>13, <2>14, <2>15, <2>16 DEF PartitionInv
<1> QED BY <1>1, <1>2

\* A session is closed: its row and its deepest fall join those before it.
LEMMA RecordClosed ==
    ASSUME PartitionInv, Balanced(local), NEW matches \in BOOLEAN, CloseSession(matches)
    PROVE  PartitionInv'
<1>1. CASE ~matches
  BY <1>1, RecordKept DEF CloseSession, Fail
<1>2. CASE matches
  <2> DEFINE L == Len(rows)
             k == L + 1
             r == [net |-> local.net_pnl, trades |-> local.trades]
             s == TradesIn(history)
  <2>1. /\ pc = "ledger" /\ pc' = "sessions" /\ rows' = Append(rows, r)
        /\ UNCHANGED <<date, global, local, summary, history>>
    BY <1>2 DEF CloseSession
  <2>2. PartitionTyped
    BY DEF PartitionInv
  <2>3. /\ history \in Seq(Entry) /\ L \in Nat /\ Len(history) \in Nat
        /\ s \in Seq(ResultType) /\ Len(s) = Len(history)
        /\ rows \in Seq(RowType) /\ DOMAIN rows = 1..L
        /\ \A n \in 1..L : rows[n].net \in Int /\ rows[n].trades \in Nat
    BY <2>2, TypedParts, TradesOfHistory
  <2>4. local.net_pnl \in Int /\ local.trades \in Nat
    BY <2>2, TypedParts DEF MetricsType
  <2>5. r \in RowType /\ r.net = local.net_pnl /\ r.trades = local.trades
    BY <2>4 DEF RowType
  <2> HIDE DEF r
  <2>6. /\ rows' \in Seq(RowType) /\ Len(rows') = k /\ DOMAIN rows' = 1..k
        /\ (\A n \in 1..L : rows'[n] = rows[n]) /\ rows'[k] = r
    BY <2>1, <2>3, <2>5
  <2> HIDE DEF L, k
  <2>7. k \in Nat /\ k = L + 1
    BY <2>3 DEF k
  <2>8. PartitionTyped'
    <3>1. rows' \in Seq([net : Int, trades : Nat])
      BY <2>6 DEF RowType
    <3> QED BY <2>1, <2>2, <3>1 DEF PartitionTyped
  <2>9. LedgersRead'
    <3>1. HasRead(global, TradesIn(history)) /\ history' = history /\ global' = global
      BY <2>1 DEF PartitionInv, LedgersRead
    <3>2. HasRead(global', TradesIn(history'))
      BY <3>1
    <3> QED BY <2>1, <3>2 DEF LedgersRead
  <2>10. SessionsInOrder'
    <3>1. InOrder(history) /\ \A i \in 1..Len(history) : history[i].session \in 1..(L + 1)
      BY DEF PartitionInv, SessionsInOrder, L
    <3>2. \A i \in 1..Len(history) : history[i].session \in 1..(k + 1) /\ history[i].session <= k
      BY <2>3, <2>7, <3>1
    <3> QED BY <2>1, <2>6, <3>1, <3>2 DEF SessionsInOrder
  <2>11. /\ DOMAIN Nets = 1..L /\ Integral(Nets, L) /\ SumFunction(Nets) \in Int
         /\ DOMAIN Trades = 1..L /\ Integral(Trades, L) /\ SumFunction(Trades) \in Int
         /\ DOMAIN Deepest = 1..L /\ Integral(Deepest, L) /\ SumFunction(Deepest) \in Int
         /\ \A n \in 1..L : Nets[n] = rows[n].net /\ Trades[n] = rows[n].trades
         /\ \A n \in 1..L : Deepest[n] = Drawdown(Slice(history, n))
    BY <2>2, SessionSums DEF L
  <2>12. /\ DOMAIN Nets' = 1..k /\ \A n \in 1..k : Nets'[n] = rows'[n].net
         /\ DOMAIN Trades' = 1..k /\ \A n \in 1..k : Trades'[n] = rows'[n].trades
    BY <2>6 DEF Nets, Trades
  <2>13. DOMAIN Deepest' = 1..k /\ \A n \in 1..k : Deepest'[n] = Drawdown(Slice(history, n))
    BY <2>1, <2>6 DEF Deepest
  <2>14. \A n \in 1..L : n \in 1..k /\ 0 + n = n
    BY <2>3, <2>7
  <2>15. k \in 1..k /\ k = L + 1
    BY <2>3, <2>7
  <2>16. SumFunction(Nets') = SumFunction(Nets) + local.net_pnl
    <3> DEFINE f == Nets  g == Nets'
    <3>1. Stretch(g, f, 0, L)
      <4>1. \A n \in 1..L : g[n] = f[0 + n]
        BY <2>6, <2>11, <2>12, <2>14
      <4> HIDE DEF f, g
      <4> QED BY <4>1 DEF Stretch
    <3>2. g[L + 1] = local.net_pnl
      BY <2>5, <2>6, <2>12, <2>15
    <3>3. DOMAIN f = 1..L /\ Integral(f, L) /\ DOMAIN g = 1..(L + 1)
      BY <2>11, <2>12, <2>15
    <3> HIDE DEF f, g
    <3>4. SumFunction(g) = SumFunction(f) + g[L + 1]
      BY <2>3, <2>4, <3>1, <3>2, <3>3, SumOfAppend
    <3> QED BY <3>2, <3>4 DEF f, g
  <2>17. SumFunction(Trades') = SumFunction(Trades) + local.trades
    <3> DEFINE f == Trades  g == Trades'
    <3>1. Stretch(g, f, 0, L)
      <4>1. \A n \in 1..L : g[n] = f[0 + n]
        BY <2>6, <2>11, <2>12, <2>14
      <4> HIDE DEF f, g
      <4> QED BY <4>1 DEF Stretch
    <3>2. g[L + 1] = local.trades
      BY <2>5, <2>6, <2>12, <2>15
    <3>3. DOMAIN f = 1..L /\ Integral(f, L) /\ DOMAIN g = 1..(L + 1)
      BY <2>11, <2>12, <2>15
    <3> HIDE DEF f, g
    <3>4. SumFunction(g) = SumFunction(f) + g[L + 1]
      BY <2>3, <2>4, <3>1, <3>2, <3>3, SumOfAppend
    <3> QED BY <3>2, <3>4 DEF f, g
  <2>18. RowsAddUp'
    <3>1. /\ global.net_pnl = SumFunction(Nets) + local.net_pnl
          /\ global.trades = SumFunction(Trades) + local.trades
      BY <2>1 DEF PartitionInv, RowsAddUp
    <3> QED BY <2>1, <2>16, <2>17, <3>1 DEF RowsAddUp
  <2>19. Drawdown(Slice(history, k)) \in Nat
    BY <2>2, <2>7, SliceIs
  <2>20. SumFunction(Deepest') = SumFunction(Deepest) + Drawdown(Slice(history, k))
    <3> DEFINE f == Deepest  g == Deepest'
    <3>1. Stretch(g, f, 0, L)
      <4>1. \A n \in 1..L : g[n] = f[0 + n]
        BY <2>11, <2>13, <2>14
      <4> HIDE DEF f, g
      <4> QED BY <4>1 DEF Stretch
    <3>2. g[L + 1] = Drawdown(Slice(history, k))
      BY <2>13, <2>15
    <3>3. DOMAIN f = 1..L /\ Integral(f, L) /\ DOMAIN g = 1..(L + 1)
      BY <2>11, <2>13, <2>15
    <3> HIDE DEF f, g
    <3>4. SumFunction(g) = SumFunction(f) + g[L + 1]
      BY <2>3, <2>19, <3>1, <3>2, <3>3, SumOfAppend
    <3> QED BY <3>2, <3>4 DEF f, g
  <2>21. DrawdownsAddUp'
    <3> DEFINE a == BeforeIn(history, k)
    <3>1. Drawdown(SubSeq(s, 1, a)) <= SumFunction(Deepest)
      BY <2>1 DEF PartitionInv, DrawdownsAddUp, k, L
    <3>2. a \in Nat /\ a <= Len(s)
      BY <2>3, <2>7, BeforeSession
    <3>3. BeforeIn(history, k + 1) = Len(history)
      <4>1. \A i \in 1..Len(history) : history[i].session \in 1..k
        BY DEF PartitionInv, SessionsInOrder, k, L
      <4>2. \A i \in 1..Len(history) : history[i].session < k + 1
        BY <2>7, <4>1
      <4>3. k + 1 \in Nat
        BY <2>7
      <4> QED BY <2>3, <4>2, <4>3, BeforeSession
    <3>4. SubSeq(s, a + 1, Len(s)) = Slice(history, k)
      BY <2>3, <3>3 DEF Slice
    <3> HIDE DEF a, s
    <3>5. Drawdown(s) <= Drawdown(SubSeq(s, 1, a)) + Drawdown(SubSeq(s, a + 1, Len(s)))
      BY <2>3, <3>2, DrawdownOfParts
    <3>6. Drawdown(s) \in Int /\ Drawdown(SubSeq(s, 1, a)) \in Int
      <4>1. SubSeq(s, 0 + 1, a) \in Seq(ResultType)
        BY <2>3, <3>2, EquityOfStretch
      <4>2. SubSeq(s, 1, a) \in Seq(ResultType)
        BY <4>1
      <4> QED BY <2>3, <4>2, DrawdownIsOne DEF IsDrawdown
    <3>7. Drawdown(s) <= SumFunction(Deepest')
      <4> DEFINE w == Drawdown(s)  x == Drawdown(SubSeq(s, 1, a))
                 y == Drawdown(Slice(history, k))
                 S == SumFunction(Deepest)  T == SumFunction(Deepest')
      <4>1. w <= x + y /\ x <= S
        BY <3>1, <3>4, <3>5
      <4>2. w \in Int /\ x \in Int /\ y \in Int /\ S \in Int
        BY <2>11, <2>19, <3>6
      <4>3. T = S + y
        BY <2>20
      <4> HIDE DEF w, x, y, S, T
      <4>4. w <= T
        BY <4>1, <4>2, <4>3
      <4> QED BY <4>4 DEF w, T
    <3>8. Drawdown(TradesIn(history')) <= SumFunction(Deepest')
      BY <3>7, <2>1 DEF s
    <3> QED BY <2>1, <3>8 DEF DrawdownsAddUp
  <2>22. RowsTraded'
    <3>1. local.trades = 0 => local.net_pnl = 0
      <4>1. /\ local.wins \in Nat /\ local.losses \in Nat /\ local.breakeven \in Nat
            /\ local.net_profit \in Nat /\ local.net_loss \in Nat
        BY <2>2, TypedParts DEF MetricsType
      <4>2. /\ local.trades = local.wins + local.losses + local.breakeven
            /\ local.net_pnl = local.net_profit - local.net_loss
            /\ local.wins > 0 <=> local.net_profit > 0
            /\ local.losses > 0 <=> local.net_loss > 0
        BY DEF Balanced
      <4>3. ASSUME local.trades = 0 PROVE local.net_pnl = 0
        <5>1. local.wins = 0 /\ local.losses = 0
          <6> DEFINE w == local.wins  l == local.losses  b == local.breakeven
          <6>1. w \in Nat /\ l \in Nat /\ b \in Nat /\ w + l + b = 0
            BY <4>1, <4>2, <4>3
          <6> HIDE DEF w, l, b
          <6>2. w = 0 /\ l = 0
            BY <6>1
          <6> QED BY <6>2 DEF w, l
        <5>2. ~(local.net_profit > 0) /\ ~(local.net_loss > 0)
          <6>1. ~(local.wins > 0) /\ ~(local.losses > 0)
            BY <5>1
          <6> QED BY <6>1, <4>2
        <5>3. local.net_profit = 0 /\ local.net_loss = 0
          BY <5>2, <4>1
        <5> QED BY <5>3, <4>2
      <4> QED BY <4>3
    <3>2. ASSUME NEW n \in 1..k PROVE rows'[n].trades = 0 => rows'[n].net = 0
      <4>1. CASE n \in 1..L
        <5>1. rows[n].trades = 0 => rows[n].net = 0
          BY <4>1, <2>3 DEF PartitionInv, RowsTraded
        <5> QED BY <4>1, <5>1, <2>6
      <4>2. CASE n = k
        BY <4>2, <3>1, <2>5, <2>6
      <4> QED BY <4>1, <4>2, <2>3, <2>7
    <3> QED BY <3>2, <2>6 DEF RowsTraded
  <2>23. SharesAreFractions'
    BY <2>1 DEF SharesAreFractions
  <2> QED BY <2>8, <2>9, <2>10, <2>18, <2>21, <2>22, <2>23 DEF PartitionInv
<1> QED BY <1>1, <1>2

\* The shares of a partition that has been read.
LEMMA SharesRead ==
    ASSUME PartitionInv, pc = "sessions", rows # <<>>
    PROVE  /\ SumFunction(Profits) \in Nat /\ Len(history) \in Nat
           /\ (SumFunction(Profits) # 0) <=> (Cardinality(Profitable) > 0)
           /\ Max(Range(Profits)) \in Nat /\ Max(Range(Profits)) <= SumFunction(Profits)
           /\ Max(Range(Profits)) * Cardinality(Profitable) >= SumFunction(Profits)
           /\ (history # <<>>) <=> (Cardinality(Active) > 0)
           /\ history # <<>> <=> Len(history) # 0
           /\ Max(Range(Trades)) \in Nat /\ Max(Range(Trades)) <= Len(history)
<1> DEFINE L == Len(rows)
<1>1. PartitionTyped /\ RowsTraded
  BY DEF PartitionInv
<1>2. /\ L \in Nat /\ DOMAIN rows = 1..L /\ rows \in Seq(RowType) /\ history \in Seq(Entry)
      /\ \A n \in 1..L : rows[n].net \in Int /\ rows[n].trades \in Nat
      /\ Len(history) \in Nat
  BY <1>1, TypedParts
<1>3. L \in Nat \ {0}
  BY <1>2
<1> HIDE DEF L
<1>4. /\ DOMAIN Profits = 1..L /\ \A n \in 1..L : Profits[n] = Larger(rows[n].net, 0)
      /\ DOMAIN Trades = 1..L /\ \A n \in 1..L : Trades[n] = rows[n].trades
  BY <1>2 DEF Profits, Trades
<1>5. \A n \in 1..L : Profits[n] \in Nat /\ Trades[n] \in Nat /\ (Profits[n] > 0 <=> rows[n].net > 0)
  BY <1>2, <1>4 DEF Larger
<1>6. Positive(Profits, 1..L) = Profitable /\ Positive(Trades, 1..L) = Active
  BY <1>2, <1>4, <1>5 DEF Positive, Profitable, Active
<1>7. /\ SumFunction(Profits) \in Nat
      /\ SumFunction(Profits) # 0 <=> Positive(Profits, 1..L) # {}
      /\ Max(Range(Profits)) \in Nat /\ Max(Range(Profits)) <= SumFunction(Profits)
      /\ Max(Range(Profits)) * Cardinality(Positive(Profits, 1..L)) >= SumFunction(Profits)
  BY <1>3, <1>4, <1>5, LargestOfSum
<1>8. /\ SumFunction(Trades) \in Nat
      /\ SumFunction(Trades) # 0 <=> Positive(Trades, 1..L) # {}
      /\ Max(Range(Trades)) \in Nat /\ Max(Range(Trades)) <= SumFunction(Trades)
  BY <1>3, <1>4, <1>5, LargestOfSum
<1>9. Len(history) = SumFunction(Trades)
  <2>1. global.trades = SumFunction(Trades)
    BY DEF PartitionInv, RowsAddUp
  <2>2. global.trades = Len(TradesIn(history))
    BY DEF PartitionInv, LedgersRead, HasRead, MeansLedger
  <2> QED BY <2>1, <2>2, <1>2, TradesOfHistory
<1>10. /\ Cardinality(Profitable) > 0 <=> Profitable # {}
       /\ Cardinality(Active) > 0 <=> Active # {}
  BY <1>1, <1>2, SessionsPartition
<1>11. history # <<>> <=> Len(history) # 0
  BY <1>2
<1> QED BY <1>2, <1>6, <1>7, <1>8, <1>9, <1>10, <1>11

\* The record is built: its shares are fractions of what was read.
LEMMA RecordFinished ==
    ASSUME PartitionInv, Finish
    PROVE  PartitionInv'
<1>1. CASE rows = <<>>
  BY <1>1, RecordKept DEF Finish, Fail
<1>2. CASE rows # <<>>
  <2>1. /\ pc = "sessions" /\ pc' = "done" /\ UNCHANGED <<date, global, local, rows, history>>
    BY <1>2 DEF Finish
  <2>2. /\ summary'.total = Len(rows) /\ summary'.active = Cardinality(Active)
        /\ summary'.profitable = Cardinality(Profitable) /\ summary'.losing = Cardinality(Losing)
        /\ summary'.flat = Cardinality(Flat)
        /\ summary'.share = IF SumFunction(Profits) # 0
                            THEN DefinedRatio(Max(Range(Profits)), SumFunction(Profits))
                            ELSE UndefinedRatio("NO_PROFITABLE_SESSIONS")
        /\ summary'.trade_share = IF history # <<>>
                                  THEN DefinedRatio(Max(Range(Trades)), Len(history))
                                  ELSE UndefinedRatio("NO_TRADES")
    BY <1>2 DEF Finish
  <2>3. PartitionTyped' /\ SessionsInOrder' /\ RowsTraded'
    BY <2>1 DEF PartitionInv, PartitionTyped, SessionsInOrder, RowsTraded
  <2>4. LedgersRead'
    <3>1. HasRead(global, TradesIn(history)) /\ history' = history /\ global' = global
      BY <2>1 DEF PartitionInv, LedgersRead
    <3>2. HasRead(global', TradesIn(history'))
      BY <3>1
    <3> QED BY <2>1, <3>2 DEF LedgersRead
  <2>5. RowsAddUp' /\ DrawdownsAddUp'
    <3>1. Nets' = Nets /\ Trades' = Trades /\ Deepest' = Deepest /\ TradesIn(history') = TradesIn(history)
      BY <2>1 DEF Nets, Trades, Deepest
    <3>2. /\ global.net_pnl = SumFunction(Nets) /\ global.trades = SumFunction(Trades)
          /\ Drawdown(TradesIn(history)) <= SumFunction(Deepest)
      BY <2>1 DEF PartitionInv, RowsAddUp, DrawdownsAddUp
    <3> QED BY <2>1, <3>1, <3>2 DEF RowsAddUp, DrawdownsAddUp
  <2>6. SharesAreFractions'
    <3> DEFINE sum == SumFunction(Profits)  most == Max(Range(Profits))  busiest == Max(Range(Trades))
               wins == Cardinality(Profitable)  active == Cardinality(Active)
    <3>1. /\ sum \in Nat /\ Len(history) \in Nat /\ (sum # 0 <=> wins > 0)
          /\ most \in Nat /\ most <= sum /\ most * wins >= sum
          /\ (history # <<>> <=> active > 0) /\ (history # <<>> <=> Len(history) # 0)
          /\ busiest \in Nat /\ busiest <= Len(history)
      BY <1>2, <2>1, SharesRead
    <3>2. /\ wins \in Nat /\ Cardinality(Losing) \in Nat /\ active \in Nat
          /\ Len(rows) = wins + Cardinality(Losing) + Cardinality(Flat)
          /\ active >= wins + Cardinality(Losing)
      <4>1. rows \in Seq(RowType) /\ RowsTraded
        BY TypedParts DEF PartitionInv
      <4> QED BY <4>1, SessionsPartition
    <3> HIDE DEF sum, most, busiest, wins, active
    <3>3. /\ summary'.total = summary'.profitable + summary'.losing + summary'.flat
          /\ summary'.active >= summary'.profitable + summary'.losing
      BY <2>2, <3>2 DEF wins, active
    <3>4. /\ summary'.share.status = "DEFINED" <=> sum # 0
          /\ sum # 0 => summary'.share.num = most /\ summary'.share.den = sum
          /\ sum = 0 => summary'.share.num = 0 /\ summary'.share.den = 1
      BY <2>2 DEF DefinedRatio, UndefinedRatio, sum, most
    <3>5. /\ summary'.trade_share.status = "DEFINED" <=> history # <<>>
          /\ history # <<>> => summary'.trade_share.num = busiest /\ summary'.trade_share.den = Len(history)
          /\ history = <<>> => summary'.trade_share.num = 0 /\ summary'.trade_share.den = 1
      BY <2>2 DEF DefinedRatio, UndefinedRatio, busiest
    <3>6. summary'.profitable = wins /\ summary'.active = active
      BY <2>2 DEF wins, active
    <3>7. summary'.share.num <= summary'.share.den /\ summary'.share.den > 0
      BY <3>1, <3>4
    <3>8. summary'.trade_share.num <= summary'.trade_share.den /\ summary'.trade_share.den > 0
      BY <3>1, <3>5
    <3>9. summary'.share.status = "DEFINED" => summary'.share.num * summary'.profitable >= summary'.share.den
      BY <3>1, <3>4, <3>6
    <3>10. (summary'.share.status = "DEFINED" <=> summary'.profitable > 0)
           /\ (summary'.trade_share.status = "DEFINED" <=> summary'.active > 0)
      BY <3>1, <3>4, <3>5, <3>6
    <3> QED BY <3>3, <3>7, <3>8, <3>9, <3>10 DEF SharesAreFractions
  <2> QED BY <2>3, <2>4, <2>5, <2>6 DEF PartitionInv
<1> QED BY <1>1, <1>2

\* No ratio divides by zero.
LEMMA RatiosDefined ==
    ASSUME global \in MetricsType, Balanced(global)
    PROVE  RatiosAreDefinedRationals
<1> DEFINE r == Ratios(global)
<1>1. /\ global.trades \in Nat /\ global.wins \in Nat /\ global.losses \in Nat
      /\ global.net_profit \in Nat /\ global.net_loss \in Nat
  BY DEF MetricsType
<1>2. (global.wins > 0 <=> global.net_profit > 0) /\ (global.losses > 0 <=> global.net_loss > 0)
  BY DEF Balanced
<1>3. DOMAIN r = {"win_rate", "average_trade", "average_win", "average_loss", "payoff_ratio", "profit_factor"}
  BY DEF Ratios
<1>4. /\ r.win_rate = IF global.trades # 0 THEN DefinedRatio(global.wins, global.trades) ELSE UndefinedRatio("NO_TRADES")
      /\ r.average_trade = IF global.trades # 0 THEN DefinedRatio(global.net_pnl, global.trades)
                           ELSE UndefinedRatio("NO_TRADES")
      /\ r.average_win = IF global.wins # 0 THEN DefinedRatio(global.net_profit, global.wins)
                         ELSE UndefinedRatio("NO_WINS")
      /\ r.average_loss = IF global.losses # 0 THEN DefinedRatio(-global.net_loss, global.losses)
                          ELSE UndefinedRatio("NO_LOSSES")
      /\ r.payoff_ratio = PayoffRatio(global)
      /\ r.profit_factor = IF global.net_loss # 0 THEN DefinedRatio(global.net_profit, global.net_loss)
                           ELSE UndefinedRatio("NO_LOSSES")
  BY DEF Ratios
<1> HIDE DEF r
<1>5. /\ r.win_rate.den > 0 /\ r.average_trade.den > 0 /\ r.average_win.den > 0
      /\ r.average_loss.den > 0 /\ r.profit_factor.den > 0
      /\ r.profit_factor.status = "DEFINED" <=> global.losses > 0
  BY <1>1, <1>2, <1>4 DEF DefinedRatio, UndefinedRatio
<1>6. /\ r.payoff_ratio.den > 0
      /\ r.payoff_ratio.status = "DEFINED" <=> global.wins > 0 /\ global.losses > 0
      /\ r.payoff_ratio.status = "NO_LOSSES" => global.losses = 0
  <2>1. CASE global.wins # 0 /\ global.losses # 0
    <3>1. global.net_loss # 0 /\ global.net_loss > 0 /\ global.wins > 0
      BY <2>1, <1>1, <1>2
    <3>2. r.payoff_ratio = DefinedRatio(global.net_profit * global.losses, global.net_loss * global.wins)
      BY <2>1, <3>1, <1>4 DEF PayoffRatio
    <3>3. global.net_loss * global.wins > 0
      BY <3>1, <1>1
    <3> QED BY <3>2, <3>3, <2>1, <1>1 DEF DefinedRatio
  <2>2. CASE ~(global.wins # 0 /\ global.losses # 0)
    <3>1. r.payoff_ratio = UndefinedRatio(IF global.wins = 0 THEN "NO_WINS" ELSE "NO_LOSSES")
      BY <2>2, <1>4 DEF PayoffRatio
    <3> QED BY <3>1, <2>2, <1>1 DEF UndefinedRatio
  <2> QED BY <2>1, <2>2
<1>7. \A name \in DOMAIN r : r[name].den > 0
  BY <1>3, <1>5, <1>6
<1> QED BY <1>5, <1>6, <1>7 DEF RatiosAreDefinedRationals, r

\* The invariant says of the record what its property says.
LEMMA RecordMeans ==
    ASSUME PartitionInv, AccumulatorsBalance
    PROVE  RecordMeansTheLedgers
<1>1. PartitionTyped /\ SharesAreFractions
  BY DEF PartitionInv
<1>2. /\ Ledger = TradesIn(history) /\ \A n : LedgerOf(n) = Slice(history, n) /\ Before(n) = BeforeIn(history, n)
  BY DEF Ledger, TradesIn, LedgerOf, Slice, Before, BeforeIn
<1>3. AccumulatorsMeanTheLedger
  BY <1>2 DEF PartitionInv, LedgersRead, HasRead, AccumulatorsMeanTheLedger
<1>4. RatiosAreDefinedRationals
  BY <1>1, TypedParts, RatiosDefined DEF AccumulatorsBalance
<1>5. PartitionIsItsSessions
  <2> SUFFICES ASSUME pc \in {"sessions", "done"}
               PROVE  /\ \A i \in DOMAIN history : \E n \in DOMAIN rows :
                            history[i].session = n /\ i \in (Before(n) + 1)..Before(n + 1)
                      /\ global.net_pnl = SumFunction(Nets)
                      /\ global.trades = SumFunction(Trades)
                      /\ \A n \in DOMAIN rows : Deepest[n] <= global.max_drawdown
                      /\ global.max_drawdown <= SumFunction(Deepest)
    <3>1. Deepest = [n \in DOMAIN rows |-> Drawdown(LedgerOf(n))]
      BY <1>2 DEF Deepest
    <3> QED BY <3>1 DEF PartitionIsItsSessions
  <2>1. global.net_pnl = SumFunction(Nets) /\ global.trades = SumFunction(Trades)
    BY DEF PartitionInv, RowsAddUp
  <2>2. global.max_drawdown = Drawdown(TradesIn(history))
    BY DEF PartitionInv, LedgersRead, HasRead, MeansLedger
  <2>3. global.max_drawdown <= SumFunction(Deepest)
    BY <2>2 DEF PartitionInv, DrawdownsAddUp
  <2>4. ASSUME NEW n \in DOMAIN rows PROVE Deepest[n] <= global.max_drawdown
    <3>1. n \in Nat /\ Deepest[n] = Drawdown(Slice(history, n))
      BY <1>1, TypedParts DEF Deepest
    <3> QED BY <3>1, <2>2, <1>1, SliceIs
  <2>5. ASSUME NEW i \in DOMAIN history
        PROVE  \E n \in DOMAIN rows : history[i].session = n /\ i \in (Before(n) + 1)..Before(n + 1)
    <3>1. /\ i \in 1..Len(history) /\ history \in Seq(Entry) /\ InOrder(history)
          /\ DOMAIN rows = 1..Len(rows) /\ Len(rows) \in Nat
      BY <1>1, TypedParts DEF PartitionInv, SessionsInOrder
    <3>2. history[i].session \in 1..(Len(rows) + 1) /\ history[i].session <= Len(rows)
      BY <3>1 DEF PartitionInv, SessionsInOrder
    <3>3. history[i].session \in DOMAIN rows
      BY <3>1, <3>2
    <3>4. i \in (BeforeIn(history, history[i].session) + 1)..BeforeIn(history, history[i].session + 1)
      BY <3>1, TradeLiesInItsSlice
    <3>5. i \in (Before(history[i].session) + 1)..Before(history[i].session + 1)
      BY <3>4, <1>2
    <3> QED BY <3>3, <3>5
  <2> QED BY <2>1, <2>3, <2>4, <2>5
<1> QED BY <1>1, <1>3, <1>4, <1>5 DEF RecordMeansTheLedgers

\* The record is read as the ledgers are.
LEMMA RecordStays ==
    ASSUME PartitionInv, UNCHANGED partitionVars
    PROVE  PartitionInv'
<1>1. UNCHANGED <<pc, date, global, local, rows, summary, history>>
  BY DEF partitionVars
<1>2. /\ TradesIn(history') = TradesIn(history) /\ Nets' = Nets /\ Trades' = Trades
      /\ Deepest' = Deepest
  BY <1>1 DEF Nets, Trades, Deepest
<1>3. PartitionTyped' /\ SharesAreFractions' /\ SessionsInOrder' /\ RowsTraded'
  BY <1>1 DEF PartitionInv, PartitionTyped, SharesAreFractions, SessionsInOrder, RowsTraded
<1>4. LedgersRead' /\ RowsAddUp' /\ DrawdownsAddUp'
  BY <1>1, <1>2 DEF PartitionInv, LedgersRead, RowsAddUp, DrawdownsAddUp
<1> QED BY <1>3, <1>4 DEF PartitionInv

\* What is read so far is what a reader of those ledgers would say, and the closed
\* sessions add up to it (aggregate_partition).
THEOREM RecordInvariant == PartitionSpec => []PartitionInv
<1>1. PartitionInit => PartitionInv
  BY RecordInit
<1>2. PartitionInv /\ (MetricsTyped /\ AccumulatorsBalance) /\ [PartitionNext]_partitionVars => PartitionInv'
  <2> SUFFICES ASSUME PartitionInv, AccumulatorsBalance, [PartitionNext]_partitionVars
               PROVE  PartitionInv'
    OBVIOUS
  <2>1. ASSUME NEW d \in Dates, OpenSession(d) PROVE PartitionInv'
    BY <2>1, RecordOpened
  <2>2. ASSUME NEW t \in Results, NEW matches \in BOOLEAN, ReadTrade(t, matches) PROVE PartitionInv'
    BY <2>2, RecordRead
  <2>3. ASSUME NEW matches \in BOOLEAN, CloseSession(matches) PROVE PartitionInv'
    BY <2>3, RecordClosed DEF AccumulatorsBalance
  <2>4. CASE Finish
    BY <2>4, RecordFinished
  <2>5. CASE UNCHANGED partitionVars
    BY <2>5, RecordStays
  <2> QED BY <2>1, <2>2, <2>3, <2>4, <2>5 DEF PartitionNext
<1> QED BY <1>1, <1>2, MetricsBalance, PTL DEF PartitionSpec

\* The record of a partition, read trade by trade, is what a reader of all its
\* ledgers would report, for the whole and session by session, and every fraction
\* of it is defined when there is something to take it of (aggregate_partition).
THEOREM RecordIsOfTheLedgers == PartitionSpec => []RecordMeansTheLedgers
<1>1. PartitionInv /\ (MetricsTyped /\ AccumulatorsBalance) => RecordMeansTheLedgers
  BY RecordMeans
<1> QED BY <1>1, RecordInvariant, MetricsBalance, PTL

(***************************************************************************)
(* The plan of the folds.                                                  *)
(***************************************************************************)
\* Positions base[f] + 1 .. base[f] + v, one interval for every f.
Interval(base, v, f) == (base[f] + 1)..(base[f] + v)
Places(base, v, L, m) == {slot \in (1..L) \X (1..m) : slot[2] \in Interval(base, v, slot[1])}

\* Intervals of one width hold as many places as there are intervals, times the width.
LEMMA PlacesCounted ==
    ASSUME NEW L \in Nat, NEW m \in Nat, NEW v \in Nat, NEW base \in [1..L -> Nat],
           \A f \in 1..L : base[f] + v <= m
    PROVE  IsFiniteSet(Places(base, v, L, m)) /\ Cardinality(Places(base, v, L, m)) = L * v
<1> DEFINE S == Places(base, v, L, m)
           P == (1..L) \X (1..v)
           b == [p \in P |-> <<p[1], base[p[1]] + p[2]>>]
<1>1. ASSUME NEW p \in P PROVE b[p] \in S
  <2>1. p[1] \in 1..L /\ p[2] \in 1..v
    OBVIOUS
  <2>2. base[p[1]] \in Nat /\ base[p[1]] + v <= m
    BY <2>1
  <2>3. base[p[1]] + p[2] \in (1..m) /\ base[p[1]] + p[2] \in Interval(base, v, p[1])
    BY <2>1, <2>2 DEF Interval
  <2> QED BY <2>1, <2>3 DEF Places
<1>2. ASSUME NEW p \in P, NEW q \in P, b[p] = b[q] PROVE p = q
  <2>1. p[1] = q[1] /\ base[p[1]] + p[2] = base[q[1]] + q[2]
    BY <1>2
  <2>2. p[1] \in 1..L /\ p[2] \in 1..v /\ q[2] \in 1..v /\ base[p[1]] \in Nat
    OBVIOUS
  <2>3. p[2] = q[2]
    BY <2>1, <2>2
  <2>4. p = <<p[1], p[2]>> /\ q = <<q[1], q[2]>>
    OBVIOUS
  <2> QED BY <2>1, <2>3, <2>4
<1>3. ASSUME NEW s \in S PROVE \E p \in P : b[p] = s
  <2>1. s \in (1..L) \X (1..m) /\ s[2] \in Interval(base, v, s[1])
    BY DEF Places
  <2>2. s[1] \in 1..L /\ base[s[1]] \in Nat /\ s[2] \in Nat
    BY <2>1
  <2>3. s[2] - base[s[1]] \in 1..v
    BY <2>1, <2>2 DEF Interval
  <2> DEFINE p == <<s[1], s[2] - base[s[1]]>>
  <2>4. p \in P
    BY <2>2, <2>3
  <2>5. b[p] = <<s[1], base[s[1]] + (s[2] - base[s[1]])>>
    BY <2>4
  <2>6. base[s[1]] + (s[2] - base[s[1]]) = s[2]
    BY <2>2
  <2> QED BY <2>1, <2>4, <2>5, <2>6
<1>4. b \in Bijection(P, S)
  <2> HIDE DEF b
  <2>1. b \in [P -> S]
    <3>1. b = [p \in P |-> <<p[1], base[p[1]] + p[2]>>]
      BY DEF b
    <3> HIDE DEF S, P
    <3>2. b = [p \in P |-> b[p]]
      BY <3>1
    <3> QED BY <3>2, <1>1
  <2>2. b \in Injection(P, S)
    BY <2>1, <1>2 DEF Injection, IsInjective
  <2>3. b \in Surjection(P, S)
    BY <2>1, <1>3 DEF Surjection
  <2> QED BY <2>2, <2>3 DEF Bijection
<1>5. IsFiniteSet(P) /\ Cardinality(P) = L * v
  <2>1. IsFiniteSet(1..L) /\ Cardinality(1..L) = L /\ IsFiniteSet(1..v) /\ Cardinality(1..v) = v
    BY FS_Interval
  <2> DEFINE A == 1..L
             B == 1..v
  <2>2. IsFiniteSet(A) /\ IsFiniteSet(B) /\ Cardinality(A) = L /\ Cardinality(B) = v
    BY <2>1
  <2>3. IsFiniteSet(A \X B) /\ Cardinality(A \X B) = Cardinality(A) * Cardinality(B)
    <3> HIDE DEF A, B
    <3> QED BY <2>2, FS_Product
  <2>4. Cardinality(A) * Cardinality(B) = L * v
    BY <2>2
  <2> QED BY <2>3, <2>4
<1>6. ExistsBijection(P, S)
  BY <1>4 DEF ExistsBijection
<1> QED BY <1>5, <1>6, FS_Bijection

\* The intervals cover as many positions as they hold places exactly when no two
\* of them meet.
LEMMA PlacesCovered ==
    ASSUME NEW L \in Nat, NEW m \in Nat, NEW v \in Nat, NEW base \in [1..L -> Nat],
           \A f \in 1..L : base[f] + v <= m
    PROVE  LET S == Places(base, v, L, m)
               T == UNION {Interval(base, v, f) : f \in 1..L}
           IN  /\ IsFiniteSet(T) /\ Cardinality(T) <= Cardinality(S)
               /\ Cardinality(T) = Cardinality(S) <=>
                     \A f, g \in 1..L : f # g => Interval(base, v, f) \cap Interval(base, v, g) = {}
<1> DEFINE S == Places(base, v, L, m)
           T == UNION {Interval(base, v, f) : f \in 1..L}
           b == [s \in S |-> s[2]]
<1>1. ASSUME NEW f \in 1..L, NEW n \in Interval(base, v, f) PROVE n \in 1..m /\ <<f, n>> \in S
  <2>1. base[f] \in Nat /\ base[f] + v <= m
    OBVIOUS
  <2>2. n \in 1..m
    BY <2>1 DEF Interval
  <2> QED BY <2>2 DEF Places
<1>2. ASSUME NEW s \in S PROVE s[1] \in 1..L /\ s[2] \in Interval(base, v, s[1]) /\ s = <<s[1], s[2]>>
  BY DEF Places
<1>3. b \in Surjection(S, T)
  <2>1. \A s \in S : b[s] \in T
    BY <1>2
  <2>2. \A n \in T : \E s \in S : b[s] = n
    <3> TAKE n \in T
    <3>1. PICK f \in 1..L : n \in Interval(base, v, f)
      OBVIOUS
    <3>2. <<f, n>> \in S
      BY <3>1, <1>1
    <3> QED BY <3>2
  <2> HIDE DEF S, T
  <2>3. b \in [S -> T]
    BY <2>1
  <2> QED BY <2>2, <2>3 DEF Surjection
<1>4. IsFiniteSet(S)
  BY PlacesCounted
<1>5. /\ IsFiniteSet(T) /\ Cardinality(T) <= Cardinality(S)
      /\ Cardinality(T) = Cardinality(S) <=> b \in Injection(S, T)
  <2> HIDE DEF S, T, b
  <2> QED BY <1>3, <1>4, FS_Surjection
<1>6. b \in Injection(S, T) <=> \A s, t \in S : s[2] = t[2] => s = t
  <2>1. b \in [S -> T]
    BY <1>3 DEF Surjection
  <2>2. \A s \in S : b[s] = s[2]
    OBVIOUS
  <2> HIDE DEF S, T, b
  <2> QED BY <2>1, <2>2, SMTT(30) DEF Injection, IsInjective
<1>7. (\A s, t \in S : s[2] = t[2] => s = t) <=>
          \A f, g \in 1..L : f # g => Interval(base, v, f) \cap Interval(base, v, g) = {}
  <2>1. ASSUME \A s, t \in S : s[2] = t[2] => s = t, NEW f \in 1..L, NEW g \in 1..L, f # g,
               NEW n \in Interval(base, v, f), n \in Interval(base, v, g)
        PROVE  FALSE
    <3>1. <<f, n>> \in S /\ <<g, n>> \in S
      BY <2>1, <1>1
    <3>2. <<f, n>>[2] = <<g, n>>[2]
      OBVIOUS
    <3>3. <<f, n>> = <<g, n>>
      BY <3>1, <3>2, <2>1
    <3> QED BY <3>3, <2>1
  <2>2. ASSUME \A f, g \in 1..L : f # g => Interval(base, v, f) \cap Interval(base, v, g) = {},
               NEW s \in S, NEW t \in S, s[2] = t[2]
        PROVE  s = t
    <3>1. s[2] \in Interval(base, v, s[1]) \cap Interval(base, v, t[1])
      BY <1>2, <2>2
    <3>2. s[1] = t[1]
      BY <3>1, <1>2, <2>2
    <3> QED BY <3>2, <1>2, <2>2
  <2> QED BY <2>1, <2>2
<1> QED BY <1>5, <1>6, <1>7

\* A later start lies at least one step further.
LEMMA StepsGrow ==
    ASSUME NEW s \in Nat, NEW f \in Nat, NEW g \in Nat, f < g
    PROVE  f * s + s <= g * s
<1> DEFINE d == g - f - 1
<1>1. d \in Nat /\ g = f + 1 + d
  OBVIOUS
<1>2. g * s = f * s + s + d * s /\ d * s >= 0
  BY <1>1
<1>3. f * s \in Nat /\ g * s \in Nat /\ d * s \in Nat
  BY <1>1
<1> QED BY <1>2, <1>3

(***************************************************************************)
(* The folds.  They share no state with the partition above; the invariant *)
(* says where every fold of the plan lies, and what a closed plan reports. *)
(***************************************************************************)
IsSequence(s) == s \in Seq({s[n] : n \in DOMAIN s})

From(f) == (f - 1) * policy.step

FoldsInv ==
    /\ IsSequence(folds) /\ start = Len(folds) * policy.step
    /\ \A f \in DOMAIN folds : /\ folds[f] = Fold(From(f))
                               /\ From(f) + Width <= Len(sessions)
    /\ folds # << >> => Chronological

ResultsInv ==
    /\ IsSequence(results) /\ Len(results) <= Len(folds)
    /\ stage = "plan" => results = << >> /\ plan = NoPlan

ClosedPlan ==
    /\ ~Fits
    /\ plan.tail = UnusedTail /\ plan.slots = Slots
    /\ plan.unique = UNION {folds[f].validation : f \in DOMAIN folds}
    /\ plan.overlap = plan.slots - Cardinality(plan.unique)

PlanInv ==
    /\ stage \in {"plan", "folds", "done", "failed"}
    /\ policy \in Policies /\ sessions \in Universes
    /\ FoldsInv /\ ResultsInv
    /\ plan # NoPlan => ClosedPlan

LEMMA SequenceFacts ==
    ASSUME NEW s, IsSequence(s)
    PROVE  Len(s) \in Nat /\ DOMAIN s = 1..Len(s)
<1>1. s \in Seq({s[n] : n \in DOMAIN s})
  BY DEF IsSequence
<1> QED BY <1>1, SMT

LEMMA AppendedSequence ==
    ASSUME NEW s, IsSequence(s), NEW e
    PROVE  /\ IsSequence(Append(s, e)) /\ Len(Append(s, e)) = Len(s) + 1
           /\ Append(s, e) # << >>
           /\ DOMAIN Append(s, e) = 1..(Len(s) + 1)
           /\ \A n \in 1..Len(s) : Append(s, e)[n] = s[n]
           /\ Append(s, e)[Len(s) + 1] = e
<1> DEFINE V == {s[n] : n \in DOMAIN s} \cup {e}
           t == Append(s, e)
<1>1. s \in Seq(V) /\ e \in V
  BY DEF IsSequence
<1>2. /\ t \in Seq(V) /\ Len(t) = Len(s) + 1 /\ t # << >>
      /\ \A n \in 1..Len(s) : t[n] = s[n]
      /\ t[Len(s) + 1] = e
  <2> HIDE DEF V
  <2> QED BY <1>1, AppendProperties
<1>3. Len(s) \in Nat /\ DOMAIN s = 1..Len(s) /\ DOMAIN t = 1..Len(t)
  <2> HIDE DEF V
  <2> QED BY <1>1, <1>2, LenProperties
<1>4. V = {t[n] : n \in DOMAIN t}
  <2>1. \A x \in V : \E n \in DOMAIN t : t[n] = x
    BY <1>2, <1>3, SMT
  <2>2. \A n \in DOMAIN t : t[n] \in V
    <3> HIDE DEF V
    <3> QED BY <1>2, <1>3, ElementOfSeq
  <2> QED BY <2>1, <2>2
<1>5. IsSequence(t)
  <2> HIDE DEF V
  <2> QED BY <1>2, <1>4 DEF IsSequence
<1> HIDE DEF V, t
<1>6. DOMAIN t = 1..(Len(s) + 1)
  BY <1>2, <1>3
<1> QED BY <1>2, <1>5, <1>6 DEF t

\* The numbers of a policy.
LEMMA PolicyNumbers ==
    ASSUME PlanInv
    PROVE  /\ policy.discovery \in Nat \ {0} /\ policy.validation \in Nat \ {0}
           /\ policy.step \in Nat \ {0} /\ policy.gap \in Nat
           /\ Width = policy.discovery + policy.gap + policy.validation
           /\ Len(sessions) \in Nat /\ DOMAIN sessions = 1..Len(sessions)
           /\ Len(folds) \in Nat /\ DOMAIN folds = 1..Len(folds)
<1>1. policy \in Policies /\ sessions \in Universes /\ IsSequence(folds)
  BY DEF PlanInv, FoldsInv
<1>2. IsSequence(sessions)
  BY <1>1, WalkForwardAssumption DEF IsSequence
<1>3. /\ {policy.discovery, policy.validation, policy.step, policy.min_folds} \subseteq Nat \ {0}
      /\ policy.gap \in Nat
  BY <1>1, WalkForwardAssumption
<1> QED BY <1>1, <1>2, <1>3, SequenceFacts DEF Width

LEMMA IntervalSize ==
    ASSUME NEW x \in Nat, NEW w \in Nat
    PROVE  Cardinality((x + 1)..(x + w)) = w
<1>1. x + 1 \in Int /\ x + w \in Int
  OBVIOUS
<1>2. Cardinality((x + 1)..(x + w)) = IF x + 1 > x + w THEN 0 ELSE x + w - (x + 1) + 1
  BY <1>1, FS_Interval
<1> QED BY <1>2

\* Where a fold of the plan lies.
LEMMA FoldLies ==
    ASSUME PlanInv, NEW f \in DOMAIN folds
    PROVE  LET fold  == folds[f]
               first == From(f) + policy.discovery + policy.gap
               end   == first + policy.validation
           IN  /\ From(f) \in Nat /\ From(f) + Width = end /\ end <= Len(sessions)
               /\ fold.validation = (first + 1)..end
               /\ fold.discovery \cup fold.gap \cup fold.validation \subseteq DOMAIN sessions
               /\ \A n \in fold.discovery \cup fold.validation : n \in Int /\ n <= end
               /\ \A a \in fold.discovery, b \in fold.validation :
                      a < b /\ \A n \in fold.gap : a < n /\ n < b
               /\ Cardinality(fold.discovery) = policy.discovery
               /\ Cardinality(fold.gap) = policy.gap
               /\ Cardinality(fold.validation) = policy.validation
<1>1. /\ folds[f] = Fold(From(f)) /\ From(f) + Width <= Len(sessions)
  BY DEF PlanInv, FoldsInv
<1>2. f - 1 \in Nat /\ policy.step \in Nat
  BY PolicyNumbers
<1>3. From(f) \in Nat
  BY <1>2 DEF From
<1>4. PICK from \in Nat, d \in Nat, g \in Nat, v \in Nat, m \in Nat :
        /\ From(f) = from
        /\ policy.discovery = d /\ policy.gap = g /\ policy.validation = v
        /\ m = Len(sessions) /\ DOMAIN sessions = 1..m /\ Width = d + g + v
  BY <1>3, PolicyNumbers
<1>5. From(f) + Width = from + d + g + v /\ from + d + g + v <= m
  BY <1>1, <1>4
<1> DEFINE one   == (from + 1)..(from + d)
           two   == (from + d + 1)..(from + d + g)
           three == (from + d + g + 1)..(from + d + g + v)
<1>6. folds[f].discovery = one /\ folds[f].gap = two /\ folds[f].validation = three
  BY <1>1, <1>4 DEF Fold
<1>7. /\ one \cup two \cup three \subseteq 1..m
      /\ \A n \in one \cup three : n \in Int /\ n <= from + d + g + v
      /\ \A a \in one, b \in three : a < b /\ \A n \in two : a < n /\ n < b
  BY <1>5
<1>8. Cardinality(one) = d /\ Cardinality(two) = g /\ Cardinality(three) = v
  <2>1. from + d \in Nat /\ from + d + g \in Nat
    OBVIOUS
  <2> QED BY <2>1, IntervalSize
<1>9. three = (From(f) + policy.discovery + policy.gap + 1)
                 ..(From(f) + policy.discovery + policy.gap + policy.validation)
  BY <1>4
<1> HIDE DEF one, two, three
<1>10. /\ folds[f].discovery \cup folds[f].gap \cup folds[f].validation \subseteq DOMAIN sessions
       /\ \A n \in folds[f].discovery \cup folds[f].validation :
              n \in Int /\ n <= From(f) + policy.discovery + policy.gap + policy.validation
       /\ \A a \in folds[f].discovery, b \in folds[f].validation :
              a < b /\ \A n \in folds[f].gap : a < n /\ n < b
  BY <1>4, <1>6, <1>7
<1> QED BY <1>4, <1>5, <1>6, <1>8, <1>9, <1>10

LEMMA PlanInit == FoldsInit => PlanInv
<1> SUFFICES ASSUME FoldsInit PROVE PlanInv
  OBVIOUS
<1>1. /\ stage = "plan" /\ policy \in Policies /\ sessions \in Universes
      /\ start = 0 /\ folds = << >> /\ plan = NoPlan /\ results = << >>
  BY DEF FoldsInit
<1>2. IsSequence(<< >>) /\ Len(<< >>) = 0 /\ DOMAIN << >> = {}
  BY SMT DEF IsSequence
<1>3. policy.step \in Nat
  BY <1>1, WalkForwardAssumption
<1>4. FoldsInv
  BY <1>1, <1>2, <1>3 DEF FoldsInv
<1> QED BY <1>1, <1>2, <1>4 DEF PlanInv, ResultsInv

LEMMA PlaceFoldKeeps ==
    ASSUME PlanInv, PlaceFold
    PROVE  PlanInv'
<1> DEFINE L == Len(folds)
<1>1. /\ stage = "plan" /\ Chronological /\ Fits
      /\ folds' = Append(folds, Fold(start)) /\ start' = start + policy.step
      /\ stage' = stage /\ policy' = policy /\ sessions' = sessions
      /\ plan' = plan /\ results' = results
  BY DEF PlaceFold, Inputs
<1>2. /\ IsSequence(folds) /\ start = L * policy.step
      /\ \A f \in DOMAIN folds : /\ folds[f] = Fold(From(f))
                                 /\ From(f) + Width <= Len(sessions)
  BY DEF PlanInv, FoldsInv
<1>3. L \in Nat /\ DOMAIN folds = 1..L /\ policy.step \in Nat
  BY PolicyNumbers
<1>4. /\ IsSequence(folds') /\ Len(folds') = L + 1 /\ folds' # << >>
      /\ DOMAIN folds' = 1..(L + 1)
      /\ \A n \in 1..L : folds'[n] = folds[n]
      /\ folds'[L + 1] = Fold(start)
  BY <1>1, <1>2, AppendedSequence
<1>5. start' = Len(folds') * policy'.step
  <2>1. (L + 1) * policy.step = L * policy.step + policy.step
    BY <1>3
  <2> QED BY <2>1, <1>1, <1>2, <1>4
<1>6. \A f : From(f)' = From(f)
  BY <1>1 DEF From
<1>7. \A x : (Fold(x))' = Fold(x)
  BY <1>1 DEF Fold
<1>8. (Width)' = Width /\ (Chronological)' /\ Len(sessions)' = Len(sessions)
  BY <1>1 DEF Width, Chronological
<1>9. From(L + 1) = start
  BY <1>2, <1>3 DEF From
<1>10. ASSUME NEW f \in DOMAIN folds'
       PROVE  folds'[f] = Fold(From(f)) /\ From(f) + Width <= Len(sessions)
  <2>1. CASE f \in 1..L
    BY <2>1, <1>2, <1>3, <1>4
  <2>2. CASE f = L + 1
    BY <2>2, <1>1, <1>4, <1>9 DEF Fits
  <2> QED BY <2>1, <2>2, <1>3, <1>4
<1>11. FoldsInv'
  BY <1>4, <1>5, <1>6, <1>7, <1>8, <1>10 DEF FoldsInv
<1>12. ResultsInv'
  <2>1. results = << >> /\ plan = NoPlan /\ IsSequence(results) /\ Len(results) <= L
    BY <1>1 DEF PlanInv, ResultsInv
  <2>2. (NoPlan)' = NoPlan
    BY DEF NoPlan
  <2>3. Len(results) = 0
    BY <2>1
  <2> QED BY <2>1, <2>2, <2>3, <1>1, <1>3, <1>4 DEF ResultsInv
<1>13. plan' = (NoPlan)'
  BY <1>1 DEF PlanInv, ResultsInv, NoPlan
<1> QED BY <1>1, <1>11, <1>12, <1>13 DEF PlanInv

\* What is said of the folds and of a closed plan is said of state that later steps keep.
LEMMA ClosedPlanKept ==
    ASSUME UNCHANGED <<policy, sessions, start, folds, plan>>
    PROVE  (FoldsInv <=> FoldsInv') /\ (ClosedPlan <=> ClosedPlan')
<1>1. /\ policy' = policy /\ sessions' = sessions /\ start' = start /\ folds' = folds /\ plan' = plan
  OBVIOUS
<1>2. /\ \A x : (Fold(x))' = Fold(x)
      /\ \A f : From(f)' = From(f)
      /\ (Width)' = Width
      /\ (Chronological)' = Chronological
      /\ (Fits)' = Fits
      /\ (UnusedTail)' = UnusedTail
      /\ (Slots)' = Slots
  BY <1>1 DEF Fold, From, Width, Chronological, Fits, UnusedTail,
              Slots, ValidationSlots
<1>3. FoldsInv <=> FoldsInv'
  BY <1>1, <1>2 DEF FoldsInv
<1>4. ClosedPlan <=> ClosedPlan'
  BY <1>1, <1>2 DEF ClosedPlan
<1> QED BY <1>3, <1>4

LEMMA ClosePlanKeeps ==
    ASSUME PlanInv, ClosePlan
    PROVE  PlanInv'
<1>1. /\ stage = "plan" /\ Chronological /\ ~Fits
      /\ stage' \in {"folds", "done"}
      /\ policy' = policy /\ sessions' = sessions /\ start' = start
      /\ folds' = folds /\ results' = results
  BY DEF ClosePlan, Inputs
<1>2. /\ plan'.tail = UnusedTail /\ plan'.slots = Slots
      /\ plan'.unique = UNION {folds[f].validation : f \in DOMAIN folds}
      /\ plan'.overlap = plan'.slots - Cardinality(plan'.unique)
  <2> DEFINE unique == UNION {folds[f].validation : f \in DOMAIN folds}
             s == IF Len(folds) >= policy.min_folds THEN "READY" ELSE "INSUFFICIENT_WALK_FORWARD_HISTORY"
             r == IF Slots = 0 THEN Undefined("NO_FOLDS")
                  ELSE Defined(Rational(Cardinality(unique), Slots))
  <2>1. plan' = [status |-> s, tail |-> UnusedTail, unique |-> unique, slots |-> Slots,
                 overlap |-> Slots - Cardinality(unique), fraction |-> r]
    BY DEF ClosePlan
  <2> HIDE DEF unique, s, r
  <2>2. /\ plan'.tail = UnusedTail /\ plan'.slots = Slots /\ plan'.unique = unique
        /\ plan'.overlap = Slots - Cardinality(unique)
    BY <2>1
  <2> QED BY <2>2 DEF unique
<1>3. FoldsInv' /\ ClosedPlan'
  <2>1. /\ \A x : (Fold(x))' = Fold(x)
        /\ \A f : From(f)' = From(f)
        /\ (Width)' = Width
        /\ (Chronological)' = Chronological
        /\ (Fits)' = Fits
        /\ (UnusedTail)' = UnusedTail
        /\ (Slots)' = Slots
    BY <1>1 DEF Fold, From, Width, Chronological, Fits, UnusedTail,
                Slots, ValidationSlots
  <2>2. FoldsInv'
    BY <2>1, <1>1 DEF PlanInv, FoldsInv
  <2>3. ClosedPlan'
    BY <2>1, <1>1, <1>2 DEF ClosedPlan
  <2> QED BY <2>2, <2>3
<1>4. ResultsInv'
  BY <1>1 DEF PlanInv, ResultsInv
<1> QED BY <1>1, <1>3, <1>4 DEF PlanInv

\* The plan, once it is closed, is only read.
LEMMA EvaluationKeeps ==
    ASSUME PlanInv,
           Refuse \/ EvaluateFold \/ Summarize \/ UNCHANGED foldVars
    PROVE  PlanInv'
<1>1. /\ policy' = policy /\ sessions' = sessions /\ start' = start
      /\ folds' = folds /\ plan' = plan
  BY DEF Refuse, EvaluateFold, Summarize, foldVars, Inputs
<1>2. FoldsInv' /\ (plan' # (NoPlan)' => ClosedPlan')
  BY <1>1, ClosedPlanKept DEF PlanInv, NoPlan
<1>3. /\ stage' \in {"plan", "folds", "done", "failed"}
      /\ stage' = "plan" => stage = "plan" /\ results' = results
  BY DEF Refuse, EvaluateFold, Summarize, foldVars, PlanInv
<1>4. IsSequence(results') /\ Len(results') <= Len(folds')
  <2>1. IsSequence(results) /\ Len(results) <= Len(folds)
    BY DEF PlanInv, ResultsInv
  <2>2. CASE results' = results
    BY <2>1, <2>2, <1>1
  <2>3. CASE EvaluateFold
    <3>1. PICK e : results' = Append(results, e)
      BY <2>3 DEF EvaluateFold
    <3>2. Len(results) < Len(folds)
      BY <2>3 DEF EvaluateFold
    <3>3. IsSequence(results') /\ Len(results') = Len(results) + 1
      BY <3>1, <2>1, AppendedSequence
    <3>4. Len(results) \in Nat /\ Len(folds) \in Nat
      BY <2>1, SequenceFacts, PolicyNumbers
    <3> QED BY <3>2, <3>3, <3>4, <1>1
  <2> QED BY <2>2, <2>3 DEF Refuse, Summarize, foldVars
<1>5. ResultsInv'
  BY <1>1, <1>3, <1>4 DEF PlanInv, ResultsInv, NoPlan
<1> QED BY <1>1, <1>2, <1>3, <1>5 DEF PlanInv

LEMMA PlanSteps ==
    ASSUME PlanInv, [FoldsNext]_foldVars
    PROVE  PlanInv'
<1>1. CASE PlaceFold
  BY <1>1, PlaceFoldKeeps
<1>2. CASE ClosePlan
  BY <1>2, ClosePlanKeeps
<1>3. CASE Refuse \/ EvaluateFold \/ Summarize \/ UNCHANGED foldVars
  BY <1>3, EvaluationKeeps
<1> QED BY <1>1, <1>2, <1>3 DEF FoldsNext

\* The invariant is typed.
LEMMA PlanTyped ==
    ASSUME PlanInv
    PROVE  FoldsTyped
<1>1. start \in Nat
  <2>1. start = Len(folds) * policy.step /\ Len(folds) \in Nat /\ policy.step \in Nat
    BY PolicyNumbers DEF PlanInv, FoldsInv
  <2> QED BY <2>1
<1>2. ASSUME NEW f \in DOMAIN folds, NEW part \in {"discovery", "gap", "validation"}
      PROVE  folds[f][part] \subseteq DOMAIN sessions
  BY FoldLies
<1>3. stage \in {"plan", "folds", "done", "failed"} /\ Len(results) <= Len(folds)
  BY DEF PlanInv, ResultsInv
<1> QED BY <1>1, <1>2, <1>3 DEF FoldsTyped

\* The sessions of the gap lie between those of discovery and those of validation,
\* and so do their dates.
LEMMA NothingAhead ==
    ASSUME PlanInv
    PROVE  NoLookAhead
<1> SUFFICES ASSUME NEW f \in DOMAIN folds,
                    NEW a \in folds[f].discovery, NEW b \in folds[f].validation
             PROVE  /\ sessions[a].date < sessions[b].date
                    /\ Cardinality({n \in DOMAIN sessions : sessions[a].date < sessions[n].date /\
                                        sessions[n].date < sessions[b].date}) >= policy.gap
  BY DEF NoLookAhead
<1> DEFINE gap == folds[f].gap
           between == {n \in DOMAIN sessions : sessions[a].date < sessions[n].date /\
                                        sessions[n].date < sessions[b].date}
<1>1. /\ gap \subseteq DOMAIN sessions /\ Cardinality(gap) = policy.gap
      /\ a \in DOMAIN sessions /\ b \in DOMAIN sessions
      /\ a < b /\ \A n \in gap : a < n /\ n < b
  BY FoldLies
<1>2. \A x, y \in DOMAIN sessions : x < y => sessions[x].date < sessions[y].date
  <2>1. Chronological
    BY DEF PlanInv, FoldsInv
  <2> QED BY <2>1, PolicyNumbers DEF Chronological
<1>3. gap \subseteq between
  BY <1>1, <1>2
<1>4. /\ IsFiniteSet(between) /\ Cardinality(gap) <= Cardinality(between)
      /\ Cardinality(between) \in Nat
  <2>1. IsFiniteSet(DOMAIN sessions)
    BY PolicyNumbers, FS_Interval
  <2>2. between \in SUBSET DOMAIN sessions /\ gap \in SUBSET between
    BY <1>3
  <2> HIDE DEF between, gap
  <2>3. IsFiniteSet(between)
    BY <2>1, <2>2, FS_Subset
  <2> QED BY <2>2, <2>3, FS_Subset, FS_CardinalityType
<1>5. policy.gap \in Nat
  BY PolicyNumbers
<1> HIDE DEF gap, between
<1>6. sessions[a].date < sessions[b].date /\ Cardinality(between) >= policy.gap
  BY <1>1, <1>2, <1>4, <1>5
<1> QED BY <1>6 DEF between

\* Where a fold ends, and where the folds end.
LEMMA FoldsEnd ==
    ASSUME PlanInv, ClosedPlan, NEW last_end,
           last_end = IF folds = << >> THEN 0 ELSE (Len(folds) - 1) * policy.step + Width
    PROVE  /\ last_end \in Nat /\ last_end <= Len(sessions)
           /\ plan.tail = (last_end + 1)..Len(sessions)
           /\ Len(sessions) - last_end < (IF folds = << >> THEN Width ELSE policy.step)
           /\ \A f \in DOMAIN folds : From(f) + Width <= last_end
<1> DEFINE L == Len(folds)
           width == Width
           s == policy.step
<1>1. /\ L \in Nat /\ DOMAIN folds = 1..L /\ s \in Nat \ {0} /\ width \in Nat
      /\ Len(sessions) \in Nat
  <2>1. Width = policy.discovery + policy.gap + policy.validation
    BY PolicyNumbers
  <2> QED BY <2>1, PolicyNumbers
<1>2. plan.tail = (last_end + 1)..Len(sessions)
  BY DEF ClosedPlan, UnusedTail
<1>3. start = L * s /\ ~(start + width <= Len(sessions))
  BY DEF ClosedPlan, Fits, PlanInv, FoldsInv
<1>4. folds = << >> <=> L = 0
  <2>1. IsSequence(folds)
    BY DEF PlanInv, FoldsInv
  <2> QED BY <2>1, EmptySeq DEF IsSequence
<1>5. CASE folds = << >>
  <2>1. last_end = 0 /\ start = 0
    BY <1>1, <1>3, <1>4, <1>5
  <2>2. DOMAIN folds = {}
    BY <1>1, <1>4, <1>5
  <2> QED BY <2>1, <2>2, <1>1, <1>2, <1>3, <1>5
<1>6. CASE folds # << >>
  <2>1. L - 1 \in Nat /\ L \in DOMAIN folds
    BY <1>1, <1>4, <1>6
  <2>2. last_end = From(L) + width /\ last_end <= Len(sessions)
    BY <2>1, <1>6 DEF From, PlanInv, FoldsInv
  <2>3. (L - 1) * s \in Nat /\ L * s = (L - 1) * s + s
    BY <2>1, <1>1
  <2>4. From(L) \in Nat /\ last_end \in Nat
    BY <2>2, <2>3, <1>1 DEF From
  <2>5. Len(sessions) - last_end < s
    <3>1. From(L) = (L - 1) * s
      BY DEF From
    <3> HIDE DEF L, width, s
    <3> QED BY <3>1, <2>2, <2>3, <2>4, <1>1, <1>3
  <2>6. ASSUME NEW f \in DOMAIN folds PROVE From(f) + width <= last_end
    <3>1. CASE f = L
      BY <3>1, <2>2, <2>4
    <3>2. CASE f # L
      <4>1. f - 1 \in Nat /\ f - 1 < L - 1 /\ s \in Nat
        BY <3>2, <1>1, <2>1
      <4>2. (f - 1) * s + s <= (L - 1) * s /\ (f - 1) * s \in Nat
        BY <4>1, <2>1, StepsGrow
      <4> QED BY <4>2, <2>2, <2>4, <1>1 DEF From
    <3> QED BY <3>1, <3>2
  <2> QED BY <2>2, <2>4, <2>5, <2>6, <1>2, <1>6
<1> QED BY <1>5, <1>6

LEMMA PlanMaximal ==
    ASSUME PlanInv
    PROVE  PlanIsMaximal
<1> SUFFICES ASSUME plan # NoPlan
             PROVE  /\ \A f \in DOMAIN folds :
                           /\ Cardinality(folds[f].discovery) = policy.discovery
                           /\ Cardinality(folds[f].validation) = policy.validation
                    /\ plan.tail \cap UNION {folds[f].validation \cup folds[f].discovery :
                                                f \in DOMAIN folds} = {}
                    /\ Cardinality(plan.tail) <
                           (IF folds = << >> THEN Width ELSE policy.step)
                    /\ plan.tail = {} \/ Len(sessions) \in plan.tail
  BY DEF PlanIsMaximal
<1>1. ClosedPlan
  BY DEF PlanInv
<1> DEFINE last_end == IF folds = << >> THEN 0 ELSE (Len(folds) - 1) * policy.step + Width
<1>2. /\ last_end \in Nat /\ last_end <= Len(sessions)
      /\ plan.tail = (last_end + 1)..Len(sessions)
      /\ Len(sessions) - last_end < (IF folds = << >> THEN Width ELSE policy.step)
      /\ \A f \in DOMAIN folds : From(f) + Width <= last_end
  BY <1>1, FoldsEnd
<1> HIDE DEF last_end
<1>3. /\ policy.discovery \in Nat \ {0} /\ policy.validation \in Nat \ {0} /\ policy.gap \in Nat
      /\ Width = policy.discovery + policy.gap + policy.validation
      /\ Len(sessions) \in Nat
  BY PolicyNumbers
<1>4. ASSUME NEW f \in DOMAIN folds
      PROVE  /\ Cardinality(folds[f].discovery) = policy.discovery
             /\ Cardinality(folds[f].validation) = policy.validation
             /\ plan.tail \cap (folds[f].validation \cup folds[f].discovery) = {}
  <2>1. \A n \in folds[f].validation \cup folds[f].discovery : n \in Int /\ n <= From(f) + Width
    BY FoldLies
  <2>2. From(f) + Width <= last_end /\ From(f) + Width \in Nat
    <3>1. From(f) \in Nat
      BY FoldLies
    <3>2. Width \in Nat
      BY <1>3
    <3> QED BY <3>1, <3>2, <1>2
  <2>3. \A n \in plan.tail : n \in Int /\ n > last_end
    BY <1>2, <1>3
  <2>4. plan.tail \cap (folds[f].validation \cup folds[f].discovery) = {}
    BY <2>1, <2>2, <2>3, <1>2
  <2> QED BY <2>4, FoldLies
<1>5. Cardinality(plan.tail) = Len(sessions) - last_end
  <2>1. PICK e \in Int, m \in Int : e = last_end + 1 /\ m = Len(sessions)
    BY <1>2, <1>3
  <2>2. Cardinality(e..m) = IF e > m THEN 0 ELSE m - e + 1
    BY FS_Interval
  <2> QED BY <2>1, <2>2, <1>2, <1>3
<1>6. plan.tail = {} \/ Len(sessions) \in plan.tail
  BY <1>2, <1>3
<1> QED BY <1>2, <1>4, <1>5, <1>6

LEMMA OverlapDeclared ==
    ASSUME PlanInv
    PROVE  OverlapIsDeclared
<1> SUFFICES ASSUME plan # NoPlan
             PROVE  /\ plan.slots = Len(folds) * policy.validation
                    /\ plan.overlap = 0 <=> \A f, g \in DOMAIN folds :
                           f # g => folds[f].validation \cap folds[g].validation = {}
                    /\ policy.step >= policy.validation => plan.overlap = 0
                    /\ plan.unique \subseteq DOMAIN sessions \ plan.tail
  BY DEF OverlapIsDeclared
<1>1. ClosedPlan
  BY DEF PlanInv
<1> DEFINE L == Len(folds)
           m == Len(sessions)
           v == policy.validation
           base == [f \in 1..L |-> From(f) + policy.discovery + policy.gap]
           S == Places(base, v, L, m)
           T == UNION {Interval(base, v, f) : f \in 1..L}
           apart == \A f, g \in 1..L : f # g => Interval(base, v, f) \cap Interval(base, v, g) = {}
<1>2. /\ L \in Nat /\ DOMAIN folds = 1..L /\ m \in Nat /\ DOMAIN sessions = 1..m
      /\ v \in Nat \ {0} /\ policy.discovery \in Nat /\ policy.gap \in Nat /\ policy.step \in Nat
  BY PolicyNumbers
<1>3. \A f \in 1..L : /\ base[f] \in Nat /\ base[f] + v <= m
                      /\ folds[f].validation = Interval(base, v, f)
  <2> TAKE f \in 1..L
  <2>1. /\ From(f) \in Nat /\ From(f) + policy.discovery + policy.gap + policy.validation <= m
        /\ folds[f].validation = (From(f) + policy.discovery + policy.gap + 1)
                                    ..(From(f) + policy.discovery + policy.gap + policy.validation)
    BY <1>2, FoldLies
  <2>2. base[f] = From(f) + policy.discovery + policy.gap
    OBVIOUS
  <2> QED BY <2>1, <2>2, <1>2 DEF Interval
<1>4. base \in [1..L -> Nat]
  BY <1>3
<1>5. plan.slots = Cardinality(S)
  <2>1. ValidationSlots = S
    BY <1>2, <1>3 DEF ValidationSlots, Places
  <2> QED BY <2>1, <1>1 DEF ClosedPlan, Slots
<1>6. plan.unique = T
  BY <1>1, <1>2, <1>3 DEF ClosedPlan
<1>7. IsFiniteSet(S) /\ Cardinality(S) = L * v
  <2> HIDE DEF base, L, m, v
  <2> QED BY <1>2, <1>3, <1>4, PlacesCounted
<1>8. IsFiniteSet(T) /\ Cardinality(T) <= Cardinality(S) /\ (Cardinality(T) = Cardinality(S) <=> apart)
  <2>1. L \in Nat /\ m \in Nat /\ v \in Nat
    BY <1>2
  <2>2. base \in [1..L -> Nat] /\ \A f \in 1..L : base[f] + v <= m
    BY <1>3, <1>4
  <2> HIDE DEF base, L, m, v
  <2>3. /\ IsFiniteSet(T) /\ Cardinality(T) <= Cardinality(S)
        /\ Cardinality(T) = Cardinality(S) <=> apart
    BY <2>1, <2>2, PlacesCovered
  <2> QED BY <2>3
<1>9. Cardinality(S) \in Nat /\ Cardinality(T) \in Nat
  <2> HIDE DEF S, T
  <2> QED BY <1>7, <1>8, FS_CardinalityType
<1>10. plan.overlap = 0 <=> apart
  <2>1. plan.overlap = Cardinality(S) - Cardinality(T)
    BY <1>1, <1>5, <1>6 DEF ClosedPlan
  <2> HIDE DEF S, T, apart
  <2> QED BY <2>1, <1>8, <1>9
<1>11. apart <=> \A f, g \in DOMAIN folds :
                     f # g => folds[f].validation \cap folds[g].validation = {}
  <2> HIDE DEF base
  <2> QED BY <1>2, <1>3
<1>12. policy.step >= v => apart
  <2> SUFFICES ASSUME policy.step >= v, NEW f \in 1..L, NEW g \in 1..L, f < g
               PROVE  Interval(base, v, f) \cap Interval(base, v, g) = {}
    <3> HIDE DEF base
    <3> QED BY <1>2
  <2>1. f - 1 \in Nat /\ g - 1 \in Nat /\ f - 1 < g - 1
    BY <1>2
  <2>2. From(f) + policy.step <= From(g) /\ From(f) \in Nat /\ From(g) \in Nat
    <3>1. (f - 1) * policy.step \in Nat /\ (g - 1) * policy.step \in Nat
      <4> DEFINE a == f - 1  b == g - 1
      <4>1. a \in Nat /\ b \in Nat /\ policy.step \in Nat
        BY <2>1, <1>2
      <4> HIDE DEF a, b, base
      <4>2. a * policy.step \in Nat /\ b * policy.step \in Nat
        BY <4>1
      <4> QED BY <4>2 DEF a, b
    <3>2. (f - 1) * policy.step + policy.step <= (g - 1) * policy.step
      BY <2>1, <1>2, StepsGrow
    <3> QED BY <3>1, <3>2 DEF From
  <2>3. base[f] + v <= base[g]
    <3>1. /\ base[f] = From(f) + policy.discovery + policy.gap
          /\ base[g] = From(g) + policy.discovery + policy.gap
      OBVIOUS
    <3>2. PICK x \in Nat, y \in Nat, t \in Nat, d \in Nat, e \in Nat, w \in Nat :
            /\ From(f) = x /\ From(g) = y /\ policy.step = t
            /\ policy.discovery = d /\ policy.gap = e /\ v = w
      BY <2>2, <1>2
    <3>3. x + t <= y /\ t >= w
      BY <3>2, <2>2
    <3>4. x + d + e + w <= y + d + e
      BY <3>3
    <3> HIDE DEF base, v
    <3> QED BY <3>1, <3>2, <3>4
  <2>4. base[f] \in Nat /\ base[g] \in Nat
    BY <1>3
  <2> HIDE DEF base, v, apart, S, T, m
  <2>5. \A n \in Interval(base, v, f) : n \in Int /\ n <= base[f] + v
    BY <2>4, <1>2 DEF Interval
  <2>6. \A n \in Interval(base, v, g) : n \in Int /\ n > base[g]
    BY <2>4, <1>2 DEF Interval
  <2>7. \A n \in Int : ~(n <= base[f] + v /\ n > base[g])
    BY <2>3, <2>4, <1>2
  <2> QED BY <2>5, <2>6, <2>7
<1>13. plan.unique \subseteq DOMAIN sessions \ plan.tail
  <2> SUFFICES ASSUME NEW f \in DOMAIN folds, NEW n \in folds[f].validation
               PROVE  n \in DOMAIN sessions /\ n \notin plan.tail
    BY <1>1 DEF ClosedPlan
  <2>1. n \in DOMAIN sessions
    BY PlanTyped DEF FoldsTyped
  <2>2. n \notin plan.tail
    BY PlanMaximal DEF PlanIsMaximal
  <2> QED BY <2>1, <2>2
<1> HIDE DEF apart, S
<1> QED BY <1>5, <1>7, <1>10, <1>11, <1>12, <1>13

\* Whatever the universe, the policy and the ledgers are: no fold is validated on
\* sessions it was tuned on or that precede them, the gap lies between, no fold that
\* fits is missing, and overlapping validations are declared
\* (build_walk_forward_plan).
THEOREM PlansAreSound == FoldsSpec => []PlanIsSound
<1>1. FoldsInit => PlanInv
  BY PlanInit
<1>2. PlanInv /\ [FoldsNext]_foldVars => PlanInv'
  BY PlanSteps
<1>3. PlanInv => PlanIsSound
  BY PlanTyped, NothingAhead, PlanMaximal, OverlapDeclared DEF PlanIsSound
<1> QED BY <1>1, <1>2, <1>3, PTL DEF FoldsSpec

(***************************************************************************)
(* What is evaluated of the folds.                                         *)
(***************************************************************************)
Validation(f) == Partition(folds[f].validation)
Comparison(f) == Compare(Partition(folds[f].discovery), Validation(f))
Gates(f) ==
    [dgate |-> Gate(policy.discovery_gate, Partition(folds[f].discovery), Comparison(f)),
     vgate |-> Gate(policy.validation_gate, Validation(f), Comparison(f))]

EvaluatedInv ==
    \A f \in DOMAIN results : /\ results[f].dgate = Gates(f).dgate
                              /\ results[f].vgate = Gates(f).vgate

RecordInv ==
    /\ stage \in {"plan", "folds"} => record = NoRecord
    /\ stage = "folds" => Len(folds) >= policy.min_folds
    /\ Completed =>
          /\ Len(folds) >= policy.min_folds /\ Len(results) = Len(folds)
          /\ record.total_folds = Len(results)
          /\ record.validation_pass_folds =
                Configured({"vgate"}, FoldCount(Passing("vgate")))
          /\ record.both_pass_folds =
                Configured({"dgate", "vgate"},
                                 FoldCount(Passing("dgate") \cap Passing("vgate")))

SummaryInv == PlanInv /\ EvaluatedInv /\ RecordInv

\* A criterion passes exactly when its metric is defined and within the threshold.
LEMMA VerdictPasses ==
    ASSUME NEW c, NEW observed
    PROVE  Verdict(c, observed) = "PASS" <=>
               IsDefined(observed) /\ Holds(observed.value, c.operator, c.threshold)
<1>1. Failure(c) # "PASS"
  BY DEF Failure
<1> QED BY <1>1 DEF Verdict

LEMMA GatePasses ==
    ASSUME NEW criteria, NEW metrics, NEW comparison, criteria # NoGate
    PROVE  /\ Gate(criteria, metrics, comparison) \in {"PASS", "FAIL"}
           /\ Gate(criteria, metrics, comparison) = "PASS" <=>
                 \A c \in criteria :
                     LET observed == Observed(c, metrics, comparison)
                     IN  IsDefined(observed) /\
                         Holds(observed.value, c.operator, c.threshold)
<1> DEFINE verdict == [c \in criteria |-> Verdict(c, Observed(c, metrics, comparison))]
           passes == \A c \in criteria : verdict[c] = "PASS"
<1>1. Gate(criteria, metrics, comparison) = IF passes THEN "PASS" ELSE "FAIL"
  BY DEF Gate, ApplyGate
<1>2. passes <=> \A c \in criteria :
                     LET observed == Observed(c, metrics, comparison)
                     IN  IsDefined(observed) /\
                         Holds(observed.value, c.operator, c.threshold)
  BY VerdictPasses
<1> HIDE DEF passes
<1> QED BY <1>1, <1>2

LEMMA SummaryInit == FoldsInit => SummaryInv
<1> SUFFICES ASSUME FoldsInit PROVE SummaryInv
  OBVIOUS
<1>1. stage = "plan" /\ results = << >> /\ record = NoRecord
  BY DEF FoldsInit
<1>2. EvaluatedInv
  BY <1>1 DEF EvaluatedInv
<1>3. RecordInv
  BY <1>1 DEF RecordInv, Completed, NoRecord
<1> QED BY <1>2, <1>3, PlanInit DEF SummaryInv

\* No step changes what a fold of the plan is judged by.
LEMMA GatesKept ==
    ASSUME policy' = policy, sessions' = sessions, ledgers' = ledgers, folds' = folds
    PROVE  \A f : Gates(f)' = Gates(f)
BY DEF Gates, Validation, Comparison, Partition

LEMMA PlanStepsKeepRecord ==
    ASSUME SummaryInv,
           Refuse \/ PlaceFold \/ ClosePlan
    PROVE  EvaluatedInv' /\ RecordInv'
<1>1. stage = "plan" /\ results = << >> /\ results' = results /\ record = NoRecord
  BY DEF Refuse, PlaceFold, ClosePlan, SummaryInv, PlanInv, ResultsInv, RecordInv
<1>2. EvaluatedInv'
  BY <1>1 DEF EvaluatedInv
<1>3. CASE Refuse \/ PlaceFold
  <2>1. record' = record /\ stage' \in {"plan", "failed"}
    BY <1>1, <1>3 DEF Refuse, PlaceFold
  <2> QED BY <2>1, <1>1, <1>2 DEF RecordInv, Completed, NoRecord
<1>4. CASE ClosePlan
  <2> DEFINE status == IF Len(folds) >= policy.min_folds THEN "READY"
                       ELSE "INSUFFICIENT_WALK_FORWARD_HISTORY"
  <2>1. /\ plan'.status = status
        /\ folds' = folds /\ policy' = policy
        /\ stage' = IF plan'.status = "READY" THEN "folds" ELSE "done"
        /\ record' = IF plan'.status = "READY" THEN NoRecord
                     ELSE [status |-> "INSUFFICIENT_EVIDENCE", metrics |-> << >>]
    BY <1>4 DEF ClosePlan, Inputs
  <2>2. CASE status = "READY"
    <3>1. Len(folds) >= policy.min_folds
      BY <2>2
    <3>2. stage' = "folds" /\ record' = NoRecord
      BY <2>1, <2>2
    <3> QED BY <3>1, <3>2, <2>1, <1>2 DEF RecordInv, Completed, NoRecord
  <2>3. CASE status # "READY"
    <3>1. stage' = "done" /\ record' = [status |-> "INSUFFICIENT_EVIDENCE", metrics |-> << >>]
      BY <2>1, <2>3
    <3> QED BY <3>1, <1>2 DEF RecordInv, Completed
  <2> QED BY <2>2, <2>3
<1> QED BY <1>2, <1>3, <1>4

LEMMA EvaluateFoldKeepsRecord ==
    ASSUME SummaryInv, EvaluateFold
    PROVE  EvaluatedInv' /\ RecordInv'
<1> DEFINE n == Len(results) + 1
<1>1. /\ stage = "folds" /\ stage' = stage /\ record' = record
      /\ policy' = policy /\ sessions' = sessions /\ ledgers' = ledgers /\ folds' = folds
  BY DEF EvaluateFold, Inputs
<1>2. PICK e : results' = Append(results, e) /\ e.dgate = Gates(n).dgate /\ e.vgate = Gates(n).vgate
  <2> DEFINE validation == Partition(folds[n].validation)
             discovery  == Partition(folds[n].discovery)
             comparison == Compare(discovery, validation)
             e == [validation |-> validation,
                   dgate |-> Gate(policy.discovery_gate, discovery, comparison),
                   vgate |-> Gate(policy.validation_gate, validation, comparison)]
  <2>1. results' = Append(results, e)
    BY DEF EvaluateFold
  <2>2. e.dgate = Gates(n).dgate /\ e.vgate = Gates(n).vgate
    BY DEF Gates, Validation, Comparison
  <2> QED BY <2>1, <2>2
<1>3. /\ DOMAIN results' = 1..n /\ \A f \in 1..Len(results) : results'[f] = results[f]
      /\ results'[n] = e /\ Len(results) \in Nat /\ DOMAIN results = 1..Len(results)
  BY <1>2, AppendedSequence, SequenceFacts DEF SummaryInv, PlanInv, ResultsInv
<1>4. ASSUME NEW f \in DOMAIN results'
      PROVE  results'[f].dgate = Gates(f)'.dgate /\ results'[f].vgate = Gates(f)'.vgate
  <2>1. Gates(f)' = Gates(f)
    BY <1>1, GatesKept
  <2>2. CASE f = n
    BY <2>1, <2>2, <1>2, <1>3
  <2>3. CASE f \in 1..Len(results)
    BY <2>1, <2>3, <1>3 DEF SummaryInv, EvaluatedInv
  <2> QED BY <2>2, <2>3, <1>3
<1>5. EvaluatedInv'
  BY <1>4 DEF EvaluatedInv
<1>6. RecordInv'
  BY <1>1 DEF SummaryInv, RecordInv, Completed, NoRecord
<1> QED BY <1>5, <1>6

LEMMA SummarizeKeepsRecord ==
    ASSUME SummaryInv, Summarize \/ UNCHANGED foldVars
    PROVE  EvaluatedInv' /\ RecordInv'
<1>1. /\ policy' = policy /\ sessions' = sessions /\ ledgers' = ledgers /\ folds' = folds
      /\ results' = results
  BY DEF Summarize, foldVars, Inputs
<1>2. EvaluatedInv'
  BY <1>1, GatesKept DEF SummaryInv, EvaluatedInv
<1>3. /\ \A x, y : (Configured(x, y))' = Configured(x, y)
      /\ \A x : (Passing(x))' = Passing(x)
  BY <1>1 DEF Configured, Gated, Passing
<1>4. \A x : (FoldCount(x))' = FoldCount(x)
  BY DEF FoldCount
<1>5. CASE Summarize
  <2>1. /\ stage = "folds" /\ stage' = "done" /\ Len(results) = Len(folds)
    BY <1>5 DEF Summarize
  <2>2. /\ record'.total_folds = Len(results)
        /\ record'.validation_pass_folds =
              Configured({"vgate"}, FoldCount(Passing("vgate")))
        /\ record'.both_pass_folds =
              Configured({"dgate", "vgate"},
                               FoldCount(Passing("dgate") \cap Passing("vgate")))
    BY <1>5 DEF Summarize
  <2>3. Len(folds) >= policy.min_folds
    BY <2>1 DEF SummaryInv, RecordInv
  <2> QED BY <2>1, <2>2, <2>3, <1>1, <1>2, <1>3, <1>4 DEF RecordInv
<1>6. CASE UNCHANGED foldVars
  <2>1. stage' = stage /\ record' = record
    BY <1>6 DEF foldVars
  <2>2. (Completed)' <=> Completed
    BY <2>1 DEF Completed
  <2> QED BY <2>1, <2>2, <1>1, <1>2, <1>3, <1>4
          DEF SummaryInv, RecordInv, NoRecord
<1> QED BY <1>5, <1>6

LEMMA SummaryCountsAllFolds ==
    ASSUME SummaryInv
    PROVE  GatesDoNotSelectFolds
<1> SUFFICES ASSUME Completed
             PROVE  GatesDoNotSelectFolds
  BY DEF GatesDoNotSelectFolds
<1>1. /\ Len(folds) >= policy.min_folds /\ Len(results) = Len(folds)
      /\ record.total_folds = Len(results)
      /\ record.validation_pass_folds =
            Configured({"vgate"}, FoldCount(Passing("vgate")))
      /\ record.both_pass_folds =
            Configured({"dgate", "vgate"},
                             FoldCount(Passing("dgate") \cap Passing("vgate")))
  BY DEF SummaryInv, RecordInv
<1>2. /\ DOMAIN results = 1..Len(folds) /\ DOMAIN folds = 1..Len(folds) /\ Len(folds) \in Nat
      /\ 1 \in DOMAIN results
  <2>1. policy.min_folds \in Nat \ {0}
    BY WalkForwardAssumption DEF SummaryInv, PlanInv
  <2>2. Len(folds) \in Nat /\ DOMAIN folds = 1..Len(folds)
    BY PolicyNumbers DEF SummaryInv
  <2>3. DOMAIN results = 1..Len(results)
    BY SequenceFacts DEF SummaryInv, PlanInv, ResultsInv
  <2> QED BY <2>1, <2>2, <2>3, <1>1
<1>3. \A f \in DOMAIN results : results[f]["dgate"] = Gates(f).dgate /\ results[f]["vgate"] = Gates(f).vgate
  BY DEF SummaryInv, EvaluatedInv
<1>4. /\ Gated("vgate") = DOMAIN results <=> policy.validation_gate # NoGate
      /\ Gated("dgate") = DOMAIN results <=> policy.discovery_gate # NoGate
  <2>1. \A f \in DOMAIN results :
          /\ results[f]["vgate"] = "NOT_APPLICABLE" <=> policy.validation_gate = NoGate
          /\ results[f]["dgate"] = "NOT_APPLICABLE" <=> policy.discovery_gate = NoGate
    <3> TAKE f \in DOMAIN results
    <3>1. results[f]["vgate"] = "NOT_APPLICABLE" <=> policy.validation_gate = NoGate
      <4>1. policy.validation_gate = NoGate => results[f]["vgate"] = "NOT_APPLICABLE"
        BY <1>3 DEF Gates, Gate
      <4>2. policy.validation_gate # NoGate => results[f]["vgate"] \in {"PASS", "FAIL"}
        BY <1>3, GatePasses DEF Gates
      <4> QED BY <4>1, <4>2
    <3>2. results[f]["dgate"] = "NOT_APPLICABLE" <=> policy.discovery_gate = NoGate
      <4>1. policy.discovery_gate = NoGate => results[f]["dgate"] = "NOT_APPLICABLE"
        BY <1>3 DEF Gates, Gate
      <4>2. policy.discovery_gate # NoGate => results[f]["dgate"] \in {"PASS", "FAIL"}
        BY <1>3, GatePasses DEF Gates
      <4> QED BY <4>1, <4>2
    <3> QED BY <3>1, <3>2
  <2> QED BY <2>1, <1>2 DEF Gated
<1>5. \A gates, value : IsDefined(Configured(gates, Defined(value))) <=>
                            \A gate \in gates : Gated(gate) = DOMAIN results
  BY DEF Configured, IsDefined, Defined, NotApplicable
<1>6. IsDefined(record.validation_pass_folds) <=> policy.validation_gate # NoGate
  BY <1>1, <1>4, <1>5 DEF FoldCount
<1>7. IsDefined(record.both_pass_folds) <=>
          policy.validation_gate # NoGate /\ policy.discovery_gate # NoGate
  BY <1>1, <1>4, <1>5 DEF FoldCount
<1> DEFINE Good(f) == LET validation == Partition(folds[f].validation)
                      IN  \A c \in policy.validation_gate :
                              LET observed == Observed(c, validation,
                                      Compare(Partition(folds[f].discovery), validation))
                              IN  IsDefined(observed) /\
                                  Holds(observed.value, c.operator, c.threshold)
<1>8. ASSUME policy.validation_gate # NoGate
      PROVE  record.validation_pass_folds.value.num = Cardinality({f \in DOMAIN folds : Good(f)})
  <2>1. \A f \in DOMAIN results : results[f]["vgate"] = "PASS" <=> Good(f)
    BY <1>3, <1>8, GatePasses DEF Gates, Validation, Comparison
  <2>2. Passing("vgate") = {f \in DOMAIN folds : Good(f)}
    <3> HIDE DEF Good
    <3> QED BY <2>1, <1>2 DEF Passing
  <2> HIDE DEF Good
  <2>3. record.validation_pass_folds = Defined(Whole(Cardinality(Passing("vgate"))))
    BY <1>1, <1>4, <1>8 DEF Configured, FoldCount
  <2> QED BY <2>2, <2>3 DEF Defined, Whole
<1> QED BY <1>1, <1>6, <1>7, <1>8 DEF GatesDoNotSelectFolds

\* No step disturbs what is evaluated and counted.
LEMMA SummaryStep ==
    ASSUME SummaryInv, [FoldsNext]_foldVars
    PROVE  SummaryInv'
<1>1. PlanInv'
  BY PlanSteps DEF SummaryInv
<1>2. CASE Refuse \/ PlaceFold \/ ClosePlan
  BY <1>1, <1>2, PlanStepsKeepRecord DEF SummaryInv
<1>3. CASE EvaluateFold
  BY <1>1, <1>3, EvaluateFoldKeepsRecord DEF SummaryInv
<1>4. CASE Summarize \/ UNCHANGED foldVars
  BY <1>1, <1>4, SummarizeKeepsRecord DEF SummaryInv
<1> QED BY <1>2, <1>3, <1>4 DEF FoldsNext

\* Every fold of the plan is evaluated and counts in the summary, whatever its gates say,
\* and the folds reported as passing are those whose metrics pass
\* (summarize_walk_forward).
THEOREM EveryFoldCounts == FoldsSpec => []GatesDoNotSelectFolds
<1>1. FoldsInit => SummaryInv
  BY SummaryInit
<1>2. SummaryInv /\ [FoldsNext]_foldVars => SummaryInv'
  BY SummaryStep
<1>3. SummaryInv => GatesDoNotSelectFolds
  BY SummaryCountsAllFolds
<1> QED BY <1>1, <1>2, <1>3, PTL DEF FoldsSpec

(***************************************************************************)
(* Exact values.                                                           *)
(***************************************************************************)
Divides(n, a) == \E x \in Nat : a = n * x

\* What Euclid's algorithm gives: a common divisor that is a combination of both.
IsGcd(g, a, b) ==
    /\ g \in Nat /\ Divides(g, a) /\ Divides(g, b)
    /\ \E x, y \in Int : g = a * x + b * y

CommonDivisors(a, b) == {n \in Nat : Divides(n, a) /\ Divides(n, b)}

\* A remainder leaves the common divisors as they are.
LEMMA DividesRemainder ==
    ASSUME NEW a \in Nat, NEW b \in Nat \ {0}, NEW n \in Nat
    PROVE  Divides(n, a) /\ Divides(n, b) <=> Divides(n, b) /\ Divides(n, a % b)
<1> DEFINE q == a \div b
           r == a % b
<1>1. q \in Nat /\ r \in Nat /\ a = (b * q) + r
  BY SMT
<1> HIDE DEF q, r
<1>2. ASSUME NEW x \in Nat, a = n * x, NEW y \in Nat, b = n * y PROVE Divides(n, r)
  <2>1. r = n * x - (n * y) * q
    BY <1>1, <1>2, SMT
  <2>2. r = n * (x - y * q)
    BY <2>1, <1>1, SMT
  <2>3. CASE n = 0
    <3>1. r = n * 0
      BY <2>1, <2>3, <1>1, SMT
    <3> QED BY <3>1 DEF Divides
  <2>4. CASE n # 0
    <3>1. x - y * q \in Int /\ n \in Nat \ {0}
      BY <1>1, <2>4, SMT
    <3>2. \A z \in Int : z < 0 => n * z < 0
      BY <3>1, SMT
    <3>3. x - y * q \in Nat
      BY <1>1, <2>2, <3>1, <3>2, SMT
    <3> QED BY <2>2, <3>3 DEF Divides
  <2> QED BY <2>3, <2>4
<1>3. ASSUME NEW x \in Nat, r = n * x, NEW y \in Nat, b = n * y PROVE Divides(n, a)
  <2>1. a = (n * y) * q + n * x
    BY <1>1, <1>3
  <2>2. a = n * (y * q + x) /\ y * q + x \in Nat
    BY <2>1, <1>1, SMT
  <2> QED BY <2>2 DEF Divides
<1> QED BY <1>2, <1>3 DEF Divides, r

\* Numbers with the same divisors are the same.
LEMMA SameDivisors ==
    ASSUME NEW a \in Nat, NEW b \in Nat, \A n \in Nat : Divides(n, a) <=> Divides(n, b)
    PROVE  a = b
<1>1. Divides(a, b) /\ Divides(b, a)
  <2>1. a = a * 1 /\ b = b * 1
    BY SMT
  <2>2. Divides(a, a) /\ Divides(b, b)
    BY <2>1 DEF Divides
  <2> QED BY <2>2
<1>2. PICK x \in Nat, y \in Nat : b = a * x /\ a = b * y
  BY <1>1 DEF Divides
<1>3. CASE a = 0
  BY <1>2, <1>3, SMT
<1>4. CASE a # 0
  <2>1. a = a * (x * y)
    BY <1>2, SMT
  <2>2. x # 0 /\ y # 0
    BY <1>2, <1>4, SMT
  <2>3. x * y >= x
    BY <2>2, SMT
  <2>4. \A m \in Nat : m >= 2 => a * m > a
    BY <1>4, SMT
  <2>5. x * y \in Nat /\ ~(x * y >= 2)
    BY <2>1, <2>4, SMT
  <2>6. x = 1
    BY <2>2, <2>3, <2>5, SMT
  <2> QED BY <1>2, <2>6, SMT
<1> QED BY <1>3, <1>4

\* Euclid's algorithm ends.
LEMMA GcdRecurs ==
    \A a, b \in Nat : Gcd[<<a, b>>] = IF b = 0 THEN a ELSE Gcd[<<b, a % b>>]
<1> DEFINE Greatest(a, b) == CHOOSE g \in Nat : \A n \in Nat : Divides(n, g) <=> n \in CommonDivisors(a, b)
           G == [p \in Nat \X Nat |-> Greatest(p[1], p[2])]
<1>1. \A a, b \in Nat : G[<<a, b>>] = Greatest(a, b)
  OBVIOUS
<1>2. ASSUME NEW a \in Nat, NEW b \in Nat
      PROVE  Greatest(a, b) = IF b = 0 THEN a ELSE Greatest(b, a % b)
  <2>1. CASE b = 0
    <3>1. \A n \in Nat : 0 = n * 0
      BY SMT
    <3>2. \A n \in Nat : Divides(n, 0)
      BY <3>1 DEF Divides
    <3>3. \A n \in Nat : Divides(n, a) <=> n \in CommonDivisors(a, b)
      BY <2>1, <3>2 DEF CommonDivisors
    <3>4. \A g \in Nat : (\A n \in Nat : Divides(n, g) <=> n \in CommonDivisors(a, b)) => g = a
      BY <3>3, SameDivisors
    <3>5. Greatest(a, b) = a
      BY <3>3, <3>4
    <3> QED BY <2>1, <3>5
  <2>2. CASE b # 0
    <3>1. CommonDivisors(a, b) = CommonDivisors(b, a % b)
      BY <2>2, DividesRemainder DEF CommonDivisors
    <3> QED BY <2>2, <3>1
  <2> QED BY <2>1, <2>2
<1>3. \A a, b \in Nat : b # 0 => a % b \in Nat
  BY SMT
<1> HIDE DEF Greatest
<1>4. ASSUME NEW p \in Nat \X Nat
      PROVE  G[p] = IF p[2] = 0 THEN p[1] ELSE G[<<p[2], p[1] % p[2]>>]
  <2>1. PICK a \in Nat, b \in Nat : p = <<a, b>>
    OBVIOUS
  <2>2. p[1] = a /\ p[2] = b
    BY <2>1
  <2>3. G[<<a, b>>] = IF b = 0 THEN a ELSE G[<<b, a % b>>]
    <3> HIDE DEF G
    <3>1. G[<<a, b>>] = Greatest(a, b)
      BY <1>1
    <3>2. CASE b = 0
      BY <1>2, <3>1, <3>2
    <3>3. CASE b # 0
      <4>1. a % b \in Nat
        BY <1>3, <3>3
      <4>2. G[<<b, a % b>>] = Greatest(b, a % b)
        BY <1>1, <4>1
      <4> QED BY <1>2, <3>1, <3>3, <4>2
    <3> QED BY <3>2, <3>3
  <2> HIDE DEF G
  <2> QED BY <2>1, <2>2, <2>3
<1>5. G = [p \in Nat \X Nat |-> IF p[2] = 0 THEN p[1] ELSE G[<<p[2], p[1] % p[2]>>]]
  <2>1. G = [p \in Nat \X Nat |-> G[p]]
    OBVIOUS
  <2> HIDE DEF G
  <2> QED BY <1>4, <2>1
<1> HIDE DEF G
<1>6. Gcd = [p \in Nat \X Nat |-> IF p[2] = 0 THEN p[1] ELSE Gcd[<<p[2], p[1] % p[2]>>]]
  BY <1>5 DEF Gcd
<1> QED BY <1>6

\* A step of Euclid's algorithm back.
LEMMA GcdStep ==
    ASSUME NEW a \in Nat, NEW b \in Nat \ {0}, NEW g, IsGcd(g, b, a % b)
    PROVE  IsGcd(g, a, b)
<1> DEFINE q == a \div b
           r == a % b
<1>1. q \in Nat /\ r \in Nat /\ a = (b * q) + r
  BY SMT
<1> HIDE DEF q, r
<1>2. g \in Nat /\ Divides(g, b) /\ Divides(g, r)
  BY DEF IsGcd, r
<1>3. Divides(g, a)
  BY <1>2, DividesRemainder DEF r
<1>4. PICK x \in Int, y \in Int : g = b * x + r * y
  BY DEF IsGcd, r
<1>5. g = b * x + (a - b * q) * y
  BY <1>1, <1>4
<1>6. g = a * y + b * (x - q * y) /\ x - q * y \in Int
  BY <1>1, <1>5, SMT
<1> QED BY <1>2, <1>3, <1>6 DEF IsGcd

\* Euclid's algorithm gives a common divisor that combines both.
LEMMA GcdIs ==
    \A b \in Nat : \A a \in Nat : IsGcd(Gcd[<<a, b>>], a, b)
<1> DEFINE A == {b \in Nat : ~\A a \in Nat : IsGcd(Gcd[<<a, b>>], a, b)}
<1> SUFFICES ASSUME A # {} PROVE FALSE
  OBVIOUS
<1>1. PICK b \in A : \A c \in A : b <= c
  <2>1. A \subseteq Nat
    OBVIOUS
  <2> HIDE DEF A
  <2> QED BY <2>1, LeastNatural
<1>2. PICK a \in Nat : ~IsGcd(Gcd[<<a, b>>], a, b)
  BY <1>1
<1>3. CASE b = 0
  <2>1. Gcd[<<a, 0>>] = a
    BY GcdRecurs
  <2>2. a = a * 1 /\ 0 = a * 0 /\ a = a * 1 + 0 * 0
    BY SMT
  <2>3. IsGcd(a, a, 0)
    <3>1. Divides(a, a) /\ Divides(a, 0)
      BY <2>2 DEF Divides
    <3>2. \E x, y \in Int : a = a * x + 0 * y
      BY <2>2, SMT
    <3> QED BY <3>1, <3>2 DEF IsGcd
  <2> QED BY <1>2, <1>3, <2>1, <2>3
<1>4. CASE b # 0
  <2>1. b \in Nat \ {0} /\ a % b \in Nat /\ a % b < b
    BY <1>1, <1>4, SMT
  <2>2. ~(b <= a % b)
    BY <2>1, SMT
  <2>3. IsGcd(Gcd[<<b, a % b>>], b, a % b)
    BY <1>1, <2>1, <2>2
  <2>4. Gcd[<<a, b>>] = Gcd[<<b, a % b>>]
    BY <2>1, GcdRecurs
  <2> QED BY <1>2, <2>1, <2>3, <2>4, GcdStep
<1> QED BY <1>3, <1>4

(***************************************************************************)
(* Fractions in lowest terms.                                              *)
(***************************************************************************)
Fraction == [num : Int, den : Nat \ {0}]

\* In lowest terms: a combination of the two parts is one.
Lowest(v) == v \in Fraction /\ \E x, y \in Int : v.num * x + v.den * y = 1

Negative(v) == [num |-> -v.num, den |-> v.den]

\* n over d, reduced, is r.
Reduces(n, d, r) == \E g \in Nat \ {0} : n = g * r.num /\ d = g * r.den

\* Division undoes multiplication.
LEMMA ExactDivision ==
    ASSUME NEW g \in Nat \ {0}, NEW u \in Int
    PROVE  (g * u) \div g = u
BY SMT

\* A rational is in lowest terms, and stands for the fraction it was made of.
LEMMA ReducedIs ==
    ASSUME NEW n \in Int, NEW d \in Nat \ {0}, NEW r, r = Rational(n, d)
    PROVE  /\ Lowest(r)
           /\ Reduces(n, d, r)
           /\ Rational(-n, d) = Negative(r)
<1> DEFINE m == Magnitude(n)
           g == Gcd[<<m, d>>]
<1>1. m \in Nat /\ Magnitude(n) = m /\ Magnitude(d) = d /\ Magnitude(-n) = m /\ ~(d < 0) /\ (n = m \/ n = -m)
  BY SMT DEF Magnitude
<1> HIDE DEF m
<1>2. IsGcd(g, m, d)
  BY <1>1, GcdIs
<1>3. r = [num |-> 1 * (n \div g), den |-> d \div g]
      /\ Rational(-n, d) = [num |-> 1 * ((-n) \div g), den |-> d \div g]
  BY <1>1 DEF Rational
<1> HIDE DEF g
<1>4. PICK u \in Nat, w \in Nat : g \in Nat /\ m = g * u /\ d = g * w
  BY <1>2 DEF IsGcd, Divides
<1>5. g \in Nat \ {0} /\ w \in Nat \ {0}
  BY <1>4, SMT
<1>6. PICK c \in Int : n = g * c /\ -n = g * (-c) /\ (c = u \/ c = -u)
  <2>1. CASE n = m
    <3>1. n = g * u /\ -n = g * (-u)
      BY <1>4, <2>1, SMT
    <3> QED BY <3>1
  <2>2. CASE n = -m
    <3>1. n = g * (-u) /\ -n = g * (-(-u)) /\ -u \in Int
      BY <1>4, <2>2, SMT
    <3> QED BY <3>1
  <2> QED BY <1>1, <2>1, <2>2
<1>7. n \div g = c /\ (-n) \div g = -c /\ d \div g = w
  BY <1>4, <1>5, <1>6, ExactDivision
<1>8. r = [num |-> c, den |-> w] /\ Rational(-n, d) = [num |-> -c, den |-> w]
  BY <1>3, <1>7
<1>9. Rational(-n, d) = Negative(r)
  BY <1>8 DEF Negative
<1>10. \E x, y \in Int : c * x + w * y = 1
  <2>1. PICK x \in Int, y \in Int : g = m * x + d * y
    BY <1>2 DEF IsGcd
  <2>2. g = (g * u) * x + (g * w) * y
    BY <1>4, <2>1
  <2>3. g * (u * x + w * y) = g * 1
    BY <1>5, <2>2, SMT
  <2>4. \A z \in Int : g * z = g * 1 => z = 1
    BY <1>5, SMT
  <2>5. u * x + w * y = 1
    BY <1>4, <2>3, <2>4, SMT
  <2>6. CASE c = u
    BY <2>5, <2>6
  <2>7. CASE c = -u
    <3>1. c * (-x) = u * x /\ -x \in Int
      BY <1>4, <2>7, SMT
    <3>2. c * (-x) + w * y = 1
      BY <2>5, <3>1
    <3> QED BY <3>1, <3>2
  <2> QED BY <1>6, <2>6, <2>7
<1>11. Lowest(r)
  BY <1>5, <1>8, <1>10 DEF Lowest, Fraction
<1>12. n = g * r.num /\ d = g * r.den
  BY <1>4, <1>6, <1>8
<1>13. Reduces(n, d, r)
  BY <1>5, <1>12 DEF Reduces
<1> QED BY <1>9, <1>11, <1>13

\* Equal multiples are of equal numbers.
LEMMA CancelPositive ==
    ASSUME NEW d \in Nat \ {0}, NEW p \in Int, NEW q \in Int, d * p = d * q
    PROVE  p = q
BY SMT

\* One fraction in lowest terms stands for all of the same value.
LEMMA LowestIsOne ==
    ASSUME NEW a, NEW b, Lowest(a), Lowest(b), a.num * b.den = b.num * a.den
    PROVE  a = b
<1>1. /\ a.num \in Int /\ a.den \in Nat \ {0} /\ b.num \in Int /\ b.den \in Nat \ {0}
      /\ a = [num |-> a.num, den |-> a.den] /\ b = [num |-> b.num, den |-> b.den]
  BY DEF Lowest, Fraction
<1>2. PICK x \in Int, y \in Int : a.num * x + a.den * y = 1
  BY DEF Lowest
<1>3. PICK z \in Int, w \in Int : b.num * z + b.den * w = 1
  BY DEF Lowest
<1> DEFINE n == a.num
           d == a.den
           k == b.num
           e == b.den
<1>4. n \in Int /\ d \in Nat \ {0} /\ k \in Int /\ e \in Nat \ {0} /\ n * e = k * d
  BY <1>1
<1>5. n * x + d * y = 1 /\ k * z + e * w = 1
  BY <1>2, <1>3
<1> HIDE DEF n, d, k, e
<1>6. e = d * (k * x + e * y)
  <2>1. e = e * (n * x + d * y)
    BY <1>4, <1>5, SMT
  <2>2. e = (n * e) * x + (d * e) * y
    BY <1>4, <2>1, SMT
  <2>3. e = (k * d) * x + (d * e) * y
    BY <1>4, <2>2
  <2> QED BY <1>4, <2>3, SMT
<1>7. d = e * (n * z + d * w)
  <2>1. d = d * (k * z + e * w)
    BY <1>4, <1>5, SMT
  <2>2. d = (k * d) * z + (d * e) * w
    BY <1>4, <2>1, SMT
  <2>3. d = (n * e) * z + (d * e) * w
    BY <1>4, <2>2
  <2> QED BY <1>4, <2>3, SMT
<1>8. \A p \in Nat \ {0}, q \in Nat \ {0}, t \in Int : p = q * t => q <= p
  BY SMT
<1>9. k * x + e * y \in Int /\ n * z + d * w \in Int
  BY <1>4, SMT
<1>10. d <= e /\ e <= d
  BY <1>4, <1>6, <1>7, <1>8, <1>9
<1>11. d = e
  BY <1>4, <1>10, SMT
<1>12. d * n = d * k
  BY <1>4, <1>11, SMT
<1>13. n = k
  BY <1>4, <1>12, CancelPositive
<1> QED BY <1>1, <1>11, <1>13 DEF n, d, k, e

\* A fraction in lowest terms is not reduced further.
LEMMA ReducedStays ==
    ASSUME NEW v, Lowest(v)
    PROVE  Rational(v.num, v.den) = v
<1> DEFINE r == Rational(v.num, v.den)
<1>1. v.num \in Int /\ v.den \in Nat \ {0}
  BY DEF Lowest, Fraction
<1>2. Lowest(r) /\ Reduces(v.num, v.den, r)
  BY <1>1, ReducedIs
<1>3. PICK g \in Nat \ {0} : v.num = g * r.num /\ v.den = g * r.den
  BY <1>2 DEF Reduces
<1> HIDE DEF r
<1>4. r.num \in Int /\ r.den \in Nat \ {0}
  BY <1>2 DEF Lowest, Fraction
<1>5. (g * r.num) * r.den = r.num * (g * r.den)
  BY <1>4, SMT
<1>6. v.num * r.den = r.num * v.den
  BY <1>3, <1>5
<1> QED BY <1>2, <1>6, LowestIsOne DEF r

\* Subtracting from zero turns a fraction round.
LEMMA NegativeIs ==
    ASSUME NEW v, Lowest(v)
    PROVE  /\ Lowest(Negative(v))
           /\ Minus(Whole(0), v) = Negative(v)
           /\ Negative(Negative(v)) = v
<1>1. v.num \in Int /\ v.den \in Nat \ {0} /\ v = [num |-> v.num, den |-> v.den]
  BY DEF Lowest, Fraction
<1>2. Rational(v.num, v.den) = v
  BY ReducedStays
<1>3. Rational(-v.num, v.den) = Negative(v)
  BY <1>1, <1>2, ReducedIs
<1>4. -v.num \in Int
  BY <1>1
<1>5. Lowest(Negative(v))
  BY <1>1, <1>3, <1>4, ReducedIs
<1>6. 0 * v.den - v.num * 1 = -v.num /\ 1 * v.den = v.den
  BY <1>1, SMT
<1>7. Minus(Whole(0), v) = Negative(v)
  BY <1>3, <1>6 DEF Minus, Whole
<1>8. -(-v.num) = v.num
  BY <1>1, SMT
<1> QED BY <1>1, <1>5, <1>7, <1>8 DEF Negative

(***************************************************************************)
(* The order of fractions.                                                 *)
(***************************************************************************)
\* The order of multiples is that of the numbers.
LEMMA CancelLess ==
    ASSUME NEW d \in Nat \ {0}, NEW p \in Int, NEW q \in Int
    PROVE  /\ d * p < d * q => p < q
           /\ d * p <= d * q => p <= q
           /\ p < q => d * p < d * q
           /\ p <= q => d * p <= d * q
BY SMT

\* The order is transitive.
LEMMA LessChain ==
    ASSUME NEW a \in Fraction, NEW b \in Fraction, NEW c \in Fraction,
           ~Less(b, a), ~Less(c, b)
    PROVE  /\ ~Less(c, a)
           /\ Less(a, b) \/ Less(b, c) => Less(a, c)
<1> DEFINE an == a.num  ad == a.den  bn == b.num  bd == b.den  cn == c.num  cd == c.den
<1>1. /\ an \in Int /\ bn \in Int /\ cn \in Int
      /\ ad \in Nat \ {0} /\ bd \in Nat \ {0} /\ cd \in Nat \ {0}
  BY DEF Fraction
<1>2. /\ Less(b, a) <=> bn * ad < an * bd
      /\ Less(c, b) <=> cn * bd < bn * cd
      /\ Less(c, a) <=> cn * ad < an * cd
      /\ Less(a, b) <=> an * bd < bn * ad
      /\ Less(b, c) <=> bn * cd < cn * bd
      /\ Less(a, c) <=> an * cd < cn * ad
  BY DEF Less
<1> HIDE DEF an, ad, bn, bd, cn, cd
<1> DEFINE p == an * bd
           q == bn * ad
           u == bn * cd
           w == cn * bd
           x == an * cd
           y == cn * ad
<1>3. p \in Int /\ q \in Int /\ u \in Int /\ w \in Int /\ x \in Int /\ y \in Int
  BY <1>1, SMT
<1>4. cd * p = bd * x /\ cd * q = ad * u /\ ad * w = bd * y
  BY <1>1, SMT
<1>5. p <= q /\ u <= w
  BY <1>2, <1>3, SMT
<1> HIDE DEF p, q, u, w, x, y
<1>6. cd * p <= cd * q /\ ad * u <= ad * w /\ (p < q => cd * p < cd * q) /\ (u < w => ad * u < ad * w)
  BY <1>1, <1>3, <1>5, CancelLess
<1>7. cd * p \in Int /\ cd * q \in Int /\ ad * w \in Int /\ bd * x \in Int /\ bd * y \in Int /\ ad * u \in Int
  BY <1>1, <1>3, SMT
<1>8. bd * x <= bd * y /\ (p < q \/ u < w => bd * x < bd * y)
  BY <1>4, <1>6, <1>7, SMT
<1>9. x <= y /\ (p < q \/ u < w => x < y)
  BY <1>1, <1>3, <1>8, CancelLess
<1>10. ~(y < x)
  BY <1>3, <1>9, SMT
<1> QED BY <1>2, <1>9, <1>10 DEF p, q, u, w, x, y

\* The order is strict.
LEMMA LessIsStrict ==
    ASSUME NEW a \in Fraction, NEW b \in Fraction
    PROVE  ~Less(a, a) /\ ~(Less(a, b) /\ Less(b, a))
<1>1. /\ a.num \in Int /\ a.den \in Int /\ b.num \in Int /\ b.den \in Int
      /\ a.num * a.den \in Int /\ a.num * b.den \in Int /\ b.num * a.den \in Int
  BY SMT DEF Fraction
<1> QED BY <1>1, SMT DEF Less

\* Values that are neither above nor below each other are the same.
LEMMA LessOrSame ==
    ASSUME NEW a, NEW b, Lowest(a), Lowest(b), ~Less(a, b), ~Less(b, a)
    PROVE  a = b
<1>1. a.num * b.den \in Int /\ b.num * a.den \in Int
  BY SMT DEF Lowest, Fraction
<1>2. a.num * b.den = b.num * a.den
  BY <1>1, SMT DEF Less
<1> QED BY <1>2, LowestIsOne

\* Turning round turns the order.
LEMMA NegativeTurns ==
    ASSUME NEW a \in Fraction, NEW b \in Fraction
    PROVE  Less(Negative(a), Negative(b)) <=> Less(b, a)
<1>1. a.num \in Int /\ a.den \in Int /\ b.num \in Int /\ b.den \in Int
  BY DEF Fraction
<1>2. (-a.num) * b.den = -(a.num * b.den) /\ (-b.num) * a.den = -(b.num * a.den)
      /\ a.num * b.den \in Int /\ b.num * a.den \in Int
  BY <1>1, SMT
<1>3. Less(Negative(a), Negative(b)) <=> -(a.num * b.den) < -(b.num * a.den)
  BY <1>2 DEF Less, Negative
<1> QED BY <1>2, <1>3, SMT DEF Less

(***************************************************************************)
(* Ranks.                                                                  *)
(***************************************************************************)
LowestSet == {v \in Fraction : Lowest(v)}

Under(values, v) == {n \in DOMAIN values : Less(values[n], v)}
UpTo(values, v) == {n \in DOMAIN values : ~Less(v, values[n])}

HasRank(values, rank, v) ==
    /\ v \in {values[n] : n \in DOMAIN values}
    /\ Cardinality(Under(values, v)) < rank /\ rank <= Cardinality(UpTo(values, v))

\* What lies under or up to a value is finitely many.
LEMMA UnderFinite ==
    ASSUME NEW L \in Nat, NEW values \in [1..L -> LowestSet], NEW v
    PROVE  /\ IsFiniteSet(1..L) /\ Cardinality(1..L) = L
           /\ IsFiniteSet(Under(values, v)) /\ IsFiniteSet(UpTo(values, v))
           /\ Cardinality(Under(values, v)) \in Nat /\ Cardinality(UpTo(values, v)) \in Nat
           /\ Under(values, v) \subseteq 1..L /\ UpTo(values, v) \subseteq 1..L
           /\ Cardinality(UpTo(values, v)) <= L
<1>1. IsFiniteSet(1..L) /\ Cardinality(1..L) = L
  <2>1. /\ IsFiniteSet(1..L)
        /\ Cardinality(1..L) = IF 1 > L THEN 0 ELSE L - 1 + 1
    BY FS_Interval
  <2> QED BY <2>1, SMT
<1>2. Under(values, v) \subseteq 1..L /\ UpTo(values, v) \subseteq 1..L
  BY DEF Under, UpTo
<1> QED BY <1>1, <1>2, FS_Subset, FS_CardinalityType

\* Whoever is above another has more up to it.
LEMMA UpToGrows ==
    ASSUME NEW L \in Nat, NEW values \in [1..L -> LowestSet], NEW f \in 1..L, NEW n \in 1..L,
           Less(values[f], values[n])
    PROVE  Cardinality(UpTo(values, values[f])) < Cardinality(UpTo(values, values[n]))
<1>1. \A m \in 1..L : values[m] \in Fraction /\ Lowest(values[m])
  BY DEF LowestSet
<1>2. UpTo(values, values[f]) \subseteq UpTo(values, values[n])
  <2> SUFFICES ASSUME NEW m \in 1..L, ~Less(values[f], values[m]) PROVE ~Less(values[n], values[m])
    BY DEF UpTo
  <2>1. values[m] \in Fraction /\ values[f] \in Fraction /\ values[n] \in Fraction
    BY <1>1
  <2>2. ~Less(values[n], values[f])
    BY <2>1, LessIsStrict
  <2> QED BY <2>1, <2>2, LessChain
<1>3. n \in UpTo(values, values[n]) /\ n \notin UpTo(values, values[f])
  BY <1>1, LessIsStrict DEF UpTo
<1>4. IsFiniteSet(UpTo(values, values[n]))
  BY UnderFinite
<1>5. /\ Cardinality(UpTo(values, values[f])) <= Cardinality(UpTo(values, values[n]))
      /\ Cardinality(UpTo(values, values[f])) # Cardinality(UpTo(values, values[n]))
  BY <1>2, <1>3, <1>4, FS_Subset
<1>6. /\ Cardinality(UpTo(values, values[f])) \in Nat
      /\ Cardinality(UpTo(values, values[n])) \in Nat
  BY UnderFinite
<1> QED BY <1>5, <1>6, SMT

\* There is a value at every rank.
LEMMA RankExists ==
    ASSUME NEW L \in Nat, NEW values \in [1..L -> LowestSet], NEW rank \in 1..L
    PROVE  \E v \in LowestSet : HasRank(values, rank, v)
<1> DEFINE le == [f \in 1..L |-> Cardinality(UpTo(values, values[f]))]
           T == {f \in 1..L : le[f] >= rank}
<1>1. /\ \A f \in 1..L : le[f] \in Nat /\ values[f] \in LowestSet /\ values[f] \in Fraction
      /\ IsFiniteSet(1..L) /\ Cardinality(1..L) = L /\ 1..L # {} /\ rank \in Nat \ {0} /\ rank <= L
  <2>1. \A f \in 1..L : le[f] \in Nat /\ values[f] \in LowestSet
    BY UnderFinite
  <2>2. IsFiniteSet(1..L) /\ Cardinality(1..L) = L
    BY UnderFinite
  <2>3. 1..L # {} /\ rank \in Nat \ {0} /\ rank <= L
    <3>1. rank \in Nat /\ rank >= 1 /\ rank <= L
      OBVIOUS
    <3> QED BY <3>1, SMT
  <2> QED BY <2>1, <2>2, <2>3 DEF LowestSet
<1>2. \A f, n \in 1..L : Less(values[f], values[n]) => le[f] < le[n]
  BY UpToGrows
<1>3. \A f \in 1..L : le[f] = Cardinality(UpTo(values, values[f]))
  OBVIOUS
<1> HIDE DEF le
<1>4. T # {}
  <2>1. PICK f \in 1..L : \A n \in 1..L : le[n] <= le[f]
    BY <1>1, GreatestValue
  <2>2. UpTo(values, values[f]) = 1..L
    <3>1. ASSUME NEW n \in 1..L, Less(values[f], values[n]) PROVE FALSE
      <4>1. le[f] < le[n] /\ le[n] <= le[f]
        BY <1>2, <2>1, <3>1
      <4> QED BY <4>1, <1>1, SMT
    <3> QED BY <3>1 DEF UpTo
  <2>3. le[f] >= rank
    BY <1>1, <1>3, <2>2, SMT
  <2> QED BY <2>3
<1>5. PICK f \in T : \A n \in T : le[f] <= le[n]
  <2>1. \A x \in T : le[x] \in Nat
    BY <1>1
  <2> HIDE DEF T
  <2> QED BY <1>4, <2>1, LeastValue
<1> DEFINE B == Under(values, values[f])
<1>6. IsFiniteSet(B) /\ Cardinality(B) \in Nat /\ B \subseteq 1..L
  BY UnderFinite
<1>7. ASSUME Cardinality(B) >= rank PROVE FALSE
  <2>1. B # {}
    <3>1. Cardinality(B) # 0
      BY <1>1, <1>6, <1>7, SMT
    <3> QED BY <3>1, FS_EmptySet
  <2>2. PICK g \in B : \A n \in B : le[n] <= le[g]
    <3>1. \A x \in B : le[x] \in Nat
      BY <1>1, <1>6
    <3> HIDE DEF B
    <3> QED BY <1>6, <2>1, <3>1, GreatestValue
  <2>3. g \in 1..L /\ Less(values[g], values[f])
    BY <2>2 DEF Under
  <2>4. B \subseteq UpTo(values, values[g])
    <3> SUFFICES ASSUME NEW n \in B, Less(values[g], values[n]) PROVE FALSE
      BY <1>6 DEF UpTo
    <3>1. n \in 1..L /\ le[n] <= le[g] /\ le[g] < le[n]
      BY <1>2, <1>6, <2>2, <2>3
    <3> QED BY <3>1, <2>3, <1>1, SMT
  <2>5. Cardinality(B) <= le[g]
    <3>1. IsFiniteSet(UpTo(values, values[g]))
      BY UnderFinite
    <3> HIDE DEF B
    <3> QED BY <2>4, <3>1, FS_Subset, <1>3, <2>3
  <2>6. g \in T
    BY <1>1, <1>6, <1>7, <2>3, <2>5, SMT
  <2>7. le[f] <= le[g] /\ le[g] < le[f]
    BY <1>2, <1>5, <2>3, <2>6
  <2> QED BY <2>7, <2>3, <1>1, SMT
<1>8. HasRank(values, rank, values[f])
  <2>1. Cardinality(B) < rank /\ rank <= le[f]
    BY <1>1, <1>5, <1>6, <1>7, SMT
  <2> QED BY <2>1, <1>3, <1>5 DEF HasRank
<1> QED BY <1>1, <1>5, <1>8

\* A higher rank has no lesser value.
LEMMA RanksGrow ==
    ASSUME NEW L \in Nat, NEW values \in [1..L -> LowestSet], NEW r \in Nat, NEW s \in Nat, r <= s,
           NEW x \in LowestSet, NEW y \in LowestSet, HasRank(values, r, x), HasRank(values, s, y)
    PROVE  ~Less(y, x)
<1> SUFFICES ASSUME Less(y, x) PROVE FALSE
  OBVIOUS
<1>1. UpTo(values, y) \subseteq Under(values, x)
  <2> SUFFICES ASSUME NEW n \in 1..L, ~Less(y, values[n]) PROVE Less(values[n], x)
    BY DEF UpTo, Under
  <2>1. values[n] \in Fraction /\ x \in Fraction /\ y \in Fraction
    BY DEF LowestSet
  <2>2. ~Less(x, y)
    BY <2>1, LessIsStrict
  <2> QED BY <2>1, <2>2, LessChain
<1>2. Cardinality(UpTo(values, y)) <= Cardinality(Under(values, x))
  BY <1>1, UnderFinite, FS_Subset
<1>3. Cardinality(UpTo(values, y)) \in Nat /\ Cardinality(Under(values, x)) \in Nat
  BY UnderFinite
<1>4. s <= Cardinality(UpTo(values, y)) /\ Cardinality(Under(values, x)) < r
  BY DEF HasRank
<1> QED BY <1>2, <1>3, <1>4, SMT

\* A rank has one value.
LEMMA RankUnique ==
    ASSUME NEW L \in Nat, NEW values \in [1..L -> LowestSet], NEW rank \in Nat,
           NEW v \in LowestSet, NEW w \in LowestSet,
           HasRank(values, rank, v), HasRank(values, rank, w)
    PROVE  v = w
<1>1. ~Less(v, w) /\ ~Less(w, v)
  BY RanksGrow
<1>2. Lowest(v) /\ Lowest(w)
  BY DEF LowestSet
<1> QED BY <1>1, <1>2, LessOrSame

\* The value at a rank.
LEMMA AtRankIs ==
    ASSUME NEW L \in Nat, NEW values \in [1..L -> LowestSet], NEW rank \in 1..L
    PROVE  /\ AtRank(values, rank) \in LowestSet
           /\ HasRank(values, rank, AtRank(values, rank))
           /\ \A v \in LowestSet : HasRank(values, rank, v) => v = AtRank(values, rank)
<1> DEFINE V == {values[n] : n \in DOMAIN values}
           P(v) == Cardinality(Under(values, v)) < rank /\ rank <= Cardinality(UpTo(values, v))
<1>1. AtRank(values, rank) = CHOOSE v \in V : P(v)
  BY DEF AtRank, Under, UpTo
<1>2. \A v : HasRank(values, rank, v) <=> v \in V /\ P(v)
  BY DEF HasRank
<1>3. V \subseteq LowestSet
  OBVIOUS
<1> HIDE DEF V, P
<1>4. \E v \in V : P(v)
  BY <1>2, RankExists
<1>5. AtRank(values, rank) \in V /\ P(AtRank(values, rank))
  BY <1>1, <1>4
<1>6. rank \in Nat
  BY SMT
<1> QED BY <1>2, <1>3, <1>5, <1>6, RankUnique

\* Turning the values round turns the ranks round.
LEMMA RankTurned ==
    ASSUME NEW L \in Nat, NEW values \in [1..L -> LowestSet], NEW rank \in 1..L,
           NEW turned, turned = [n \in 1..L |-> Negative(values[n])]
    PROVE  /\ turned \in [1..L -> LowestSet]
           /\ (L + 1) - rank \in 1..L
           /\ AtRank(turned, rank) = Negative(AtRank(values, (L + 1) - rank))
<1> DEFINE other == (L + 1) - rank
           v == AtRank(values, other)
<1>1. other \in 1..L /\ rank \in Nat
  BY SMT
<1>2. \A x \in LowestSet : Negative(x) \in LowestSet /\ Negative(x) \in Fraction /\ x \in Fraction
  BY NegativeIs DEF LowestSet, Lowest
<1>3. turned \in [1..L -> LowestSet]
  BY <1>2
<1> HIDE DEF other
<1>4. v \in LowestSet /\ HasRank(values, other, v)
  BY <1>1, AtRankIs
<1> HIDE DEF v
<1>5. Under(turned, Negative(v)) = (1..L) \ UpTo(values, v)
  <2>1. \A n \in 1..L : Less(turned[n], Negative(v)) <=> Less(v, values[n])
    BY <1>2, <1>4, NegativeTurns
  <2> QED BY <2>1 DEF Under, UpTo
<1>6. UpTo(turned, Negative(v)) = (1..L) \ Under(values, v)
  <2>1. \A n \in 1..L : Less(Negative(v), turned[n]) <=> Less(values[n], v)
    BY <1>2, <1>4, NegativeTurns
  <2> QED BY <2>1 DEF Under, UpTo
<1>7. \A S \in SUBSET (1..L) : Cardinality((1..L) \ S) = L - Cardinality(S)
  <2> TAKE S \in SUBSET (1..L)
  <2>1. (1..L) \cap S = S
    OBVIOUS
  <2>2. IsFiniteSet(1..L) /\ Cardinality(1..L) = L
    BY UnderFinite
  <2>3. Cardinality((1..L) \ S) = Cardinality(1..L) - Cardinality((1..L) \cap S)
    BY <2>2, FS_Difference
  <2> QED BY <2>1, <2>2, <2>3
<1>8. /\ Cardinality(Under(turned, Negative(v))) = L - Cardinality(UpTo(values, v))
      /\ Cardinality(UpTo(turned, Negative(v))) = L - Cardinality(Under(values, v))
      /\ Cardinality(Under(values, v)) \in Nat /\ Cardinality(UpTo(values, v)) \in Nat
  BY <1>5, <1>6, <1>7, UnderFinite
<1>9. Cardinality(Under(values, v)) < other /\ other <= Cardinality(UpTo(values, v))
  BY <1>4 DEF HasRank
<1>10. /\ Cardinality(Under(turned, Negative(v))) < rank
       /\ rank <= Cardinality(UpTo(turned, Negative(v)))
  BY <1>1, <1>8, <1>9, SMT DEF other
<1>11. PICK n \in 1..L : v = values[n]
  BY <1>4 DEF HasRank
<1>12. Negative(v) = turned[n] /\ n \in DOMAIN turned
  BY <1>11
<1>13. HasRank(turned, rank, Negative(v))
  BY <1>10, <1>12 DEF HasRank
<1>14. Negative(v) = AtRank(turned, rank)
  BY <1>2, <1>3, <1>4, <1>13, AtRankIs
<1> QED BY <1>1, <1>3, <1>14 DEF other, v

(***************************************************************************)
(* The mean of two fractions.                                              *)
(***************************************************************************)
Mean(a, b) == Over(Plus(a, b), Whole(2))

\* A sum in lowest terms, and the sum of the values turned round.
LEMMA PlusIs ==
    ASSUME NEW a \in LowestSet, NEW b \in LowestSet
    PROVE  /\ Plus(a, b) \in LowestSet
           /\ Plus(Negative(b), Negative(a)) = Negative(Plus(a, b))
           /\ Reduces(a.num * b.den + b.num * a.den, a.den * b.den, Plus(a, b))
<1>1. a.num \in Int /\ a.den \in Nat \ {0} /\ b.num \in Int /\ b.den \in Nat \ {0}
  BY DEF LowestSet, Fraction
<1> DEFINE n == a.num * b.den + b.num * a.den
           d == a.den * b.den
<1>2. n \in Int /\ d \in Nat \ {0}
  BY <1>1, SMT
<1>3. (-b.num) * a.den + (-a.num) * b.den = -n /\ b.den * a.den = d
  BY <1>1, SMT
<1>4. Plus(a, b) = Rational(n, d) /\ Plus(Negative(b), Negative(a)) = Rational(-n, d)
  BY <1>3 DEF Plus, Negative
<1> DEFINE p == Plus(a, b)
<1> HIDE DEF n, d, p
<1>5. p = Rational(n, d)
  BY <1>4 DEF p
<1>6. Lowest(p)
  BY <1>2, <1>5, ReducedIs
<1>7. Reduces(n, d, p)
  BY <1>2, <1>5, ReducedIs
<1>8. Rational(-n, d) = Negative(p)
  BY <1>2, <1>5, ReducedIs
<1> QED BY <1>4, <1>6, <1>7, <1>8 DEF n, d, p, LowestSet, Lowest

\* Half of a value in lowest terms, and half of the value turned round.
LEMMA HalfIs ==
    ASSUME NEW a \in LowestSet
    PROVE  /\ Over(a, Whole(2)) \in LowestSet
           /\ Over(Negative(a), Whole(2)) = Negative(Over(a, Whole(2)))
           /\ Reduces(a.num, 2 * a.den, Over(a, Whole(2)))
<1>1. a.num \in Int /\ a.den \in Nat \ {0}
  BY DEF LowestSet, Fraction
<1>2. a.num * 1 = a.num /\ (-a.num) * 1 = -a.num /\ a.den * 2 = 2 * a.den /\ 2 * a.den \in Nat \ {0}
  BY <1>1, SMT
<1>3. /\ Over(a, Whole(2)) = Rational(a.num, 2 * a.den)
      /\ Over(Negative(a), Whole(2)) = Rational(-a.num, 2 * a.den)
  BY <1>2 DEF Over, Whole, Negative
<1> DEFINE h == Over(a, Whole(2))
           n == a.num
           d == 2 * a.den
<1>4. h = Rational(n, d) /\ n \in Int /\ d \in Nat \ {0}
  BY <1>1, <1>2, <1>3
<1> HIDE DEF h, n, d
<1>5. Lowest(h)
  BY <1>4, ReducedIs
<1>6. Reduces(n, d, h)
  BY <1>4, ReducedIs
<1>7. Rational(-n, d) = Negative(h)
  BY <1>4, ReducedIs
<1> QED BY <1>3, <1>5, <1>6, <1>7 DEF h, n, d, LowestSet, Lowest

\* The mean of the values turned round.
LEMMA MeanTurned ==
    ASSUME NEW a \in LowestSet, NEW b \in LowestSet
    PROVE  /\ Mean(a, b) \in LowestSet
           /\ Mean(Negative(b), Negative(a)) = Negative(Mean(a, b))
BY PlusIs, HalfIs DEF Mean

\* The mean lies between.
LEMMA MeanBetween ==
    ASSUME NEW a \in LowestSet, NEW b \in LowestSet, ~Less(b, a)
    PROVE  ~Less(Mean(a, b), a) /\ ~Less(b, Mean(a, b))
<1> DEFINE p == Plus(a, b)
           m == Mean(a, b)
<1>1. p \in LowestSet /\ m \in LowestSet /\ m = Over(p, Whole(2))
  BY PlusIs, HalfIs DEF Mean
<1>2. PICK g \in Nat \ {0} : /\ a.num * b.den + b.num * a.den = g * p.num
                             /\ a.den * b.den = g * p.den
  BY PlusIs DEF Reduces
<1>3. PICK h \in Nat \ {0} : p.num = h * m.num /\ 2 * p.den = h * m.den
  BY <1>1, HalfIs DEF Reduces
<1>4. /\ a.num \in Int /\ b.num \in Int /\ p.num \in Int /\ m.num \in Int
      /\ a.den \in Nat \ {0} /\ b.den \in Nat \ {0} /\ p.den \in Nat \ {0} /\ m.den \in Nat \ {0}
  BY <1>1 DEF LowestSet, Fraction
<1>5. ~(b.num * a.den < a.num * b.den)
  BY DEF Less
<1> DEFINE an == a.num  ad == a.den  bn == b.num  bd == b.den  mn == m.num  md == m.den
           k == g * h
<1>6. /\ an \in Int /\ ad \in Nat \ {0} /\ bn \in Int /\ bd \in Nat \ {0} /\ mn \in Int /\ md \in Nat \ {0}
      /\ ~(bn * ad < an * bd)
  BY <1>4, <1>5
<1>7. k \in Nat \ {0} /\ an * bd + bn * ad = k * mn /\ 2 * (ad * bd) = k * md
  <2>1. an * bd + bn * ad = g * (h * m.num)
    BY <1>2, <1>3
  <2>2. 2 * (ad * bd) = g * (2 * p.den)
    BY <1>2, <1>4, SMT
  <2>3. 2 * (ad * bd) = g * (h * m.den)
    BY <1>3, <2>2
  <2>4. k \in Nat \ {0} /\ g * (h * m.num) = k * mn /\ g * (h * m.den) = k * md
    BY <1>4, SMT
  <2> QED BY <2>1, <2>3, <2>4
<1>8. (Less(m, a) <=> mn * ad < an * md) /\ (Less(b, m) <=> bn * md < mn * bd)
  BY DEF Less
<1> HIDE DEF p, m, an, ad, bn, bd, mn, md, k
<1> DEFINE u == an * bd
           w == bn * ad
<1>9. u \in Int /\ w \in Int /\ u <= w
  BY <1>6, SMT
<1>10. /\ k * (an * md) = (2 * ad) * u /\ k * (mn * ad) = ad * (u + w)
       /\ k * (bn * md) = (2 * bd) * w /\ k * (mn * bd) = bd * (u + w)
  <2>1. k * (an * md) = an * (k * md) /\ k * (bn * md) = bn * (k * md)
        /\ k * (mn * ad) = ad * (k * mn) /\ k * (mn * bd) = bd * (k * mn)
    BY <1>6, <1>7, SMT
  <2>2. k * (an * md) = an * (2 * (ad * bd)) /\ k * (bn * md) = bn * (2 * (ad * bd))
        /\ k * (mn * ad) = ad * (u + w) /\ k * (mn * bd) = bd * (u + w)
    BY <1>7, <2>1
  <2>3. an * (2 * (ad * bd)) = (2 * ad) * u /\ bn * (2 * (ad * bd)) = (2 * bd) * w
    BY <1>6, SMT
  <2> QED BY <2>2, <2>3
<1> HIDE DEF u, w
<1>11. ad * (2 * u) <= ad * (u + w) /\ bd * (u + w) <= bd * (2 * w)
  BY <1>6, <1>9, CancelLess
<1>12. (2 * ad) * u = ad * (2 * u) /\ (2 * bd) * w = bd * (2 * w)
  BY <1>6, <1>9, SMT
<1>13. k * (an * md) <= k * (mn * ad) /\ k * (mn * bd) <= k * (bn * md)
  BY <1>10, <1>11, <1>12
<1>14. an * md \in Int /\ mn * ad \in Int /\ mn * bd \in Int /\ bn * md \in Int
  BY <1>6, SMT
<1>15. an * md <= mn * ad /\ mn * bd <= bn * md
  BY <1>7, <1>13, <1>14, CancelLess
<1>16. ~(mn * ad < an * md) /\ ~(bn * md < mn * bd)
  BY <1>14, <1>15, SMT
<1> QED BY <1>8, <1>16 DEF m

(***************************************************************************)
(* Medians and extremes.                                                   *)
(***************************************************************************)
\* So many values, each of which can be turned round.
LEMMA TurnedAre ==
    ASSUME NEW L \in Nat, NEW values \in [1..L -> LowestSet]
    PROVE  /\ Len(values) = L /\ DOMAIN values = 1..L
           /\ \A n \in 1..L : Minus(Whole(0), values[n]) = Negative(values[n])
<1>1. values \in Seq(LowestSet)
  OBVIOUS
<1>2. Len(values) = L /\ DOMAIN values = 1..L
  BY <1>1, LenProperties
<1> QED BY <1>2, NegativeIs DEF LowestSet

\* The middle ranks of so many values.
LEMMA MiddleRanks ==
    ASSUME NEW L \in Nat \ {0}, NEW h, h = L \div 2
    PROVE  /\ h \in Nat /\ h + 1 \in Nat
           /\ L % 2 = 1 => L = 2 * h + 1 /\ h + 1 \in 1..L /\ (L + 1) - (h + 1) = h + 1
           /\ L % 2 # 1 => /\ L = 2 * h /\ h \in 1..L /\ h + 1 \in 1..L
                           /\ (L + 1) - h = h + 1 /\ (L + 1) - (h + 1) = h
<1>1. h \in Nat /\ ((L = 2 * h + 1 /\ L % 2 = 1) \/ (L = 2 * h /\ L % 2 = 0))
  BY SMT
<1> QED BY <1>1, SMT

\* Turning the values round turns their median.
LEMMA MedianTurned ==
    ASSUME NEW L \in Nat \ {0}, NEW values \in [1..L -> LowestSet],
           NEW turned, turned = [n \in 1..L |-> Minus(Whole(0), values[n])]
    PROVE  /\ Median(values) \in LowestSet
           /\ Median(turned) = Minus(Whole(0), Median(values))
<1> DEFINE h == L \div 2
           t == [n \in 1..L |-> Negative(values[n])]
<1>1. Len(values) = L /\ turned = t
  BY TurnedAre
<1>2. t \in [1..L -> LowestSet] /\ L \in Nat
  <2>1. \A n \in 1..L : values[n] \in LowestSet
    OBVIOUS
  <2>2. \A n \in 1..L : Negative(values[n]) \in LowestSet
    BY <2>1, NegativeIs DEF LowestSet, Lowest
  <2> QED BY <2>2
<1>3. Len(t) = L
  BY <1>2, TurnedAre
<1>4. \A r \in 1..L : AtRank(values, r) \in LowestSet
                      /\ AtRank(t, r) = Negative(AtRank(values, (L + 1) - r))
  <2> TAKE r \in 1..L
  <2>1. AtRank(values, r) \in LowestSet
    BY <1>2, AtRankIs
  <2>2. AtRank(t, r) = Negative(AtRank(values, (L + 1) - r))
    BY <1>2, RankTurned
  <2> QED BY <2>1, <2>2
<1>5. \A v \in LowestSet : Minus(Whole(0), v) = Negative(v)
  BY NegativeIs DEF LowestSet
<1> HIDE DEF t
<1>6. CASE L % 2 = 1
  <2>1. h + 1 \in 1..L /\ (L + 1) - (h + 1) = h + 1
    <3>1. h = L \div 2
      OBVIOUS
    <3> HIDE DEF h
    <3> QED BY <1>6, <3>1, MiddleRanks
  <2>2. Median(values) = AtRank(values, h + 1) /\ Median(t) = AtRank(t, h + 1)
    BY <1>1, <1>3, <1>6 DEF Median
  <2> HIDE DEF h
  <2>3. AtRank(t, h + 1) = Negative(AtRank(values, h + 1))
    BY <1>4, <2>1
  <2> QED BY <1>1, <1>4, <1>5, <2>1, <2>2, <2>3
<1>7. CASE L % 2 # 1
  <2>1. h \in 1..L /\ h + 1 \in 1..L /\ (L + 1) - h = h + 1 /\ (L + 1) - (h + 1) = h
    <3>1. h = L \div 2
      OBVIOUS
    <3> HIDE DEF h
    <3> QED BY <1>7, <3>1, MiddleRanks
  <2>2. /\ Median(values) = Mean(AtRank(values, h), AtRank(values, h + 1))
        /\ Median(t) = Mean(AtRank(t, h), AtRank(t, h + 1))
    BY <1>1, <1>3, <1>7 DEF Median, Mean
  <2> HIDE DEF h
  <2> DEFINE a == AtRank(values, h)
             b == AtRank(values, h + 1)
  <2>3. a \in LowestSet /\ b \in LowestSet
    BY <1>4, <2>1
  <2>4. AtRank(t, h) = Negative(b) /\ AtRank(t, h + 1) = Negative(a)
    BY <1>4, <2>1
  <2> HIDE DEF a, b
  <2>5. Mean(a, b) \in LowestSet /\ Mean(Negative(b), Negative(a)) = Negative(Mean(a, b))
    BY <2>3, MeanTurned
  <2>6. Median(values) = Mean(a, b) /\ Median(t) = Mean(Negative(b), Negative(a))
    BY <2>2, <2>4 DEF a, b
  <2> QED BY <1>1, <1>5, <2>5, <2>6
<1> QED BY <1>6, <1>7

\* At most half of the values lie on either side of the median.
LEMMA MedianHalves ==
    ASSUME NEW L \in Nat \ {0}, NEW values \in [1..L -> LowestSet]
    PROVE  /\ 2 * Cardinality({n \in 1..L : Less(Median(values), values[n])}) <= L
           /\ 2 * Cardinality({n \in 1..L : Less(values[n], Median(values))}) <= L
<1> DEFINE h == L \div 2
           m == Median(values)
           under == Cardinality(Under(values, m))
           upto == Cardinality(UpTo(values, m))
<1>1. /\ L \in Nat /\ Len(values) = L /\ DOMAIN values = 1..L
      /\ m \in LowestSet
  BY TurnedAre, MedianTurned
<1>2. \A r \in 1..L : AtRank(values, r) \in LowestSet /\ HasRank(values, r, AtRank(values, r))
  BY <1>1, AtRankIs
<1>3. /\ {n \in 1..L : Less(m, values[n])} = (1..L) \ UpTo(values, m)
      /\ {n \in 1..L : Less(values[n], m)} = Under(values, m)
  BY <1>1 DEF UpTo, Under
<1>4. /\ IsFiniteSet(1..L) /\ Cardinality(1..L) = L /\ UpTo(values, m) \subseteq 1..L
      /\ under \in Nat /\ upto \in Nat
  BY <1>1, UnderFinite
<1>5. Cardinality((1..L) \ UpTo(values, m)) = L - upto
  <2>1. (1..L) \cap UpTo(values, m) = UpTo(values, m)
    BY <1>4
  <2>2. Cardinality((1..L) \ UpTo(values, m))
            = Cardinality(1..L) - Cardinality((1..L) \cap UpTo(values, m))
    BY <1>4, FS_Difference
  <2> QED BY <1>4, <2>1, <2>2
<1>6. CASE L % 2 = 1
  <2>1. h + 1 \in 1..L /\ L = 2 * h + 1 /\ h \in Nat
    <3>1. h = L \div 2
      OBVIOUS
    <3> HIDE DEF h
    <3> QED BY <1>6, <3>1, MiddleRanks
  <2>2. m = AtRank(values, h + 1)
    BY <1>1, <1>6 DEF Median
  <2> HIDE DEF h, m
  <2>3. HasRank(values, h + 1, m)
    BY <1>2, <2>1, <2>2
  <2>4. under < h + 1 /\ h + 1 <= upto
    BY <2>3 DEF HasRank
  <2> HIDE DEF under, upto
  <2>5. 2 * under <= L /\ 2 * (L - upto) <= L
    BY <1>4, <2>1, <2>4, SMT
  <2> QED BY <1>3, <1>5, <2>5 DEF under, m
<1>7. CASE L % 2 # 1
  <2>1. h \in 1..L /\ h + 1 \in 1..L /\ L = 2 * h /\ h \in Nat /\ h + 1 \in Nat /\ h <= h + 1
    <3>1. h = L \div 2
      OBVIOUS
    <3> HIDE DEF h
    <3> QED BY <1>7, <3>1, MiddleRanks
  <2>2. m = Mean(AtRank(values, h), AtRank(values, h + 1))
    BY <1>1, <1>7 DEF Median, Mean
  <2> HIDE DEF h, m
  <2> DEFINE a == AtRank(values, h)
             b == AtRank(values, h + 1)
  <2>3. /\ a \in LowestSet /\ b \in LowestSet /\ HasRank(values, h, a) /\ HasRank(values, h + 1, b)
        /\ m = Mean(a, b)
    BY <1>2, <2>1, <2>2
  <2> HIDE DEF a, b
  <2>4. ~Less(b, a)
    BY <1>1, <2>1, <2>3, RanksGrow
  <2>5. ~Less(m, a) /\ ~Less(b, m)
    BY <2>3, <2>4, MeanBetween
  <2>6. /\ a \in Fraction /\ b \in Fraction /\ m \in Fraction
        /\ \A n \in 1..L : values[n] \in Fraction
    BY <1>1, <2>3 DEF LowestSet
  <2>7. Under(values, m) \subseteq Under(values, b)
    <3> SUFFICES ASSUME NEW n \in 1..L, Less(values[n], m) PROVE Less(values[n], b)
      BY <1>1 DEF Under
    <3>1. values[n] \in Fraction /\ ~Less(m, values[n])
      BY <2>6, LessIsStrict
    <3> QED BY <2>5, <2>6, <3>1, LessChain
  <2>8. UpTo(values, a) \subseteq UpTo(values, m)
    <3> SUFFICES ASSUME NEW n \in 1..L, ~Less(a, values[n]) PROVE ~Less(m, values[n])
      BY <1>1 DEF UpTo
    <3> QED BY <2>5, <2>6, LessChain
  <2>9. under <= Cardinality(Under(values, b)) /\ Cardinality(UpTo(values, a)) <= upto
    BY <1>1, <2>7, <2>8, UnderFinite, FS_Subset
  <2>10. Cardinality(Under(values, b)) < h + 1 /\ h <= Cardinality(UpTo(values, a))
    BY <2>3 DEF HasRank
  <2>11. Cardinality(Under(values, b)) \in Nat /\ Cardinality(UpTo(values, a)) \in Nat
    BY <1>1, UnderFinite
  <2> HIDE DEF under, upto
  <2>12. 2 * under <= L /\ 2 * (L - upto) <= L
    BY <1>4, <2>1, <2>9, <2>10, <2>11, SMT
  <2> QED BY <1>3, <1>5, <2>12 DEF under, m
<1> QED BY <1>6, <1>7

\* Nothing lies beyond the first and the last rank, and both are values.
LEMMA OutermostRanks ==
    ASSUME NEW L \in Nat \ {0}, NEW values \in [1..L -> LowestSet]
    PROVE  /\ \A n \in 1..L : ~Less(values[n], AtRank(values, 1)) /\ ~Less(AtRank(values, L), values[n])
           /\ \E n \in 1..L : values[n] = AtRank(values, 1)
           /\ \E n \in 1..L : values[n] = AtRank(values, L)
<1> DEFINE a == AtRank(values, 1)
           b == AtRank(values, L)
<1>1. L \in Nat /\ 1 \in 1..L /\ L \in 1..L /\ DOMAIN values = 1..L
  BY SMT
<1>2. HasRank(values, 1, a) /\ HasRank(values, L, b)
  BY <1>1, AtRankIs
<1> HIDE DEF a, b
<1>3. /\ IsFiniteSet(1..L) /\ Cardinality(1..L) = L /\ UpTo(values, b) \subseteq 1..L
      /\ Cardinality(UpTo(values, b)) \in Nat /\ Cardinality(UpTo(values, b)) <= L
      /\ IsFiniteSet(Under(values, a)) /\ Cardinality(Under(values, a)) \in Nat
  BY <1>1, UnderFinite
<1>4. Cardinality(Under(values, a)) < 1 /\ L <= Cardinality(UpTo(values, b))
  BY <1>2 DEF HasRank
<1>5. Under(values, a) = {}
  <2>1. Cardinality(Under(values, a)) = 0
    BY <1>3, <1>4, SMT
  <2> QED BY <1>3, <2>1, FS_EmptySet
<1>6. UpTo(values, b) = 1..L
  <2>1. Cardinality(UpTo(values, b)) = Cardinality(1..L)
    BY <1>1, <1>3, <1>4, SMT
  <2> QED BY <1>3, <2>1, FS_Subset
<1>7. \A n \in 1..L : ~Less(values[n], a) /\ ~Less(b, values[n])
  BY <1>1, <1>5, <1>6 DEF Under, UpTo
<1>8. \E n \in 1..L : values[n] = a
  BY <1>1, <1>2 DEF HasRank
<1>9. \E n \in 1..L : values[n] = b
  BY <1>1, <1>2 DEF HasRank
<1> QED BY <1>7, <1>8, <1>9 DEF a, b

(***************************************************************************)
(* The metrics of a partition.                                             *)
(***************************************************************************)
\* Ledgers one after the other are a ledger.
LEMMA FlattenedTyped ==
    ASSUME NEW T, NEW seqs \in Seq(Seq(T)), Len(seqs) # 0
    PROVE  FlattenSeq(seqs) \in Seq(T)
<1> DEFINE n == Len(seqs)
           V == Seq(T)
           e == [p \in (1..n) \X V |-> p[2] \o seqs[p[1]]]
           Is(f) == f = [i \in 1..n |-> IF i = 1 THEN seqs[i] ELSE f[i - 1] \o seqs[i]]
           f == CHOOSE g : Is(g)
<1>1. n \in Nat \ {0} /\ \A i \in 1..n : seqs[i] \in V
  OBVIOUS
<1>2. FlattenSeq(seqs) = f[n]
  BY DEF FlattenSeq
<1>3. e \in [(1..n) \X V -> V]
  <2>1. ASSUME NEW i \in 1..n, NEW v \in V PROVE v \o seqs[i] \in V
    <3>1. seqs[i] \in Seq(T)
      BY <1>1
    <3> QED BY <3>1, ConcatProperties
  <2> HIDE DEF V
  <2> QED BY <2>1
<1>4. << >> \in V
  OBVIOUS
<1>5. PICK h \in [0..n -> V] : Recurs(h, n, << >>, e)
  <2>1. n \in Nat
    BY <1>1
  <2> HIDE DEF e, V, n
  <2> QED BY <2>1, <1>3, <1>4, PositionsExist
<1>6. ASSUME NEW i \in 1..n PROVE h[i] = IF i = 1 THEN seqs[i] ELSE h[i - 1] \o seqs[i]
  <2>1. i \in 0..n /\ i # 0 /\ i - 1 \in 0..n /\ (i = 1 => i - 1 = 0) /\ 0 \in 0..n
    BY SMT
  <2>2. h[i] = e[<<i, h[i - 1]>>] /\ h[i - 1] \in V
    BY <1>5, <2>1 DEF Recurs
  <2>3. h[i] = h[i - 1] \o seqs[i]
    BY <2>2
  <2>4. i = 1 => h[i - 1] = << >>
    BY <1>5, <2>1 DEF Recurs
  <2>5. seqs[i] \in Seq(T)
    BY <1>1
  <2>6. << >> \o seqs[i] = seqs[i]
    BY <2>5, ConcatEmptySeq
  <2> QED BY <2>3, <2>4, <2>6
<1>7. Is([i \in 1..n |-> h[i]])
  <2> DEFINE g == [i \in 1..n |-> h[i]]
  <2>1. \A i \in 1..n : i # 1 => i - 1 \in 1..n
    BY SMT
  <2>2. \A i \in 1..n : g[i] = IF i = 1 THEN seqs[i] ELSE g[i - 1] \o seqs[i]
    BY <1>6, <2>1
  <2>3. g = [i \in 1..n |-> g[i]]
    OBVIOUS
  <2> HIDE DEF g
  <2>4. g = [i \in 1..n |-> IF i = 1 THEN seqs[i] ELSE g[i - 1] \o seqs[i]]
    BY <2>2, <2>3
  <2> QED BY <2>4 DEF g
<1>8. f = [i \in 1..n |-> IF i = 1 THEN seqs[i] ELSE f[i - 1] \o seqs[i]]
  <2>1. \E g : Is(g)
    <3> HIDE DEF Is
    <3> QED BY <1>7
  <2>2. Is(f)
    <3> HIDE DEF Is
    <3> QED BY <2>1
  <2> QED BY <2>2
<1> HIDE DEF f
<1> DEFINE b == [i \in 0..n |-> IF i = 0 THEN << >> ELSE f[i]]
<1>9. b[0] \in V /\ \A i \in 1..n : b[i - 1] \in V => b[i] \in V
  <2>1. b[0] = << >>
    BY <1>1
  <2>2. ASSUME NEW i \in 1..n, b[i - 1] \in V PROVE b[i] \in V
    <3>1. i \in 0..n /\ i # 0 /\ i - 1 \in 0..n /\ (i # 1 => i - 1 # 0)
      BY SMT
    <3>2. b[i] = f[i] /\ (i # 1 => b[i - 1] = f[i - 1])
      BY <3>1
    <3>3. f[i] = IF i = 1 THEN seqs[i] ELSE f[i - 1] \o seqs[i]
      BY <1>8
    <3>4. seqs[i] \in Seq(T) /\ (i # 1 => f[i - 1] \in Seq(T))
      BY <1>1, <2>2, <3>2
    <3> HIDE DEF b
    <3>5. CASE i = 1
      BY <3>2, <3>3, <3>4, <3>5
    <3>6. CASE i # 1
      BY <3>2, <3>3, <3>4, <3>6, ConcatProperties
    <3> QED BY <3>5, <3>6
  <2> HIDE DEF b
  <2> QED BY <1>4, <2>1, <2>2
<1>10. b[n] \in V
  <2>1. n \in 0..n /\ n \in Nat
    BY <1>1, SMT
  <2> HIDE DEF b, V
  <2> QED BY <1>9, <2>1, PositionsTyped
<1>11. b[n] = f[n]
  BY <1>1, SMT
<1> QED BY <1>2, <1>10, <1>11

\* The accumulator over a ledger has its type.
LEMMA AccumulatedTyped ==
    ASSUME NEW trades \in Seq(ResultType)
    PROVE  Accumulated(trades) \in MetricsType
<1> DEFINE n == Len(trades)
           V == MetricsType
           e == [p \in (1..n) \X V |-> AddTrade(p[2], trades[p[1]])]
           Is(f) == f = [i \in 0..n |-> IF i = 0 THEN NoMetrics ELSE AddTrade(f[i - 1], trades[i])]
           f == CHOOSE g : Is(g)
<1>1. n \in Nat /\ \A i \in 1..n : trades[i] \in ResultType
  OBVIOUS
<1>2. Accumulated(trades) = f[n]
  BY DEF Accumulated
<1>3. \A v \in V : \A i \in 1..n : AddTrade(v, trades[i]) \in V
  BY <1>1, AddTradeTyped
<1>4. NoMetrics \in V
  BY NoMetricsBalanced
<1> HIDE DEF V
<1>5. e \in [(1..n) \X V -> V]
  BY <1>3
<1>6. PICK h \in [0..n -> V] : Recurs(h, n, NoMetrics, e)
  <2>1. n \in Nat
    BY <1>1
  <2> HIDE DEF e, n
  <2> QED BY <2>1, <1>4, <1>5, PositionsExist
<1>7. Is(h)
  <2>1. ASSUME NEW i \in 0..n PROVE h[i] = IF i = 0 THEN NoMetrics ELSE AddTrade(h[i - 1], trades[i])
    <3>1. i # 0 => i \in 1..n /\ i - 1 \in 0..n
      BY <1>1, SMT
    <3>2. i # 0 => h[i - 1] \in V /\ e[<<i, h[i - 1]>>] = AddTrade(h[i - 1], trades[i])
      BY <3>1
    <3> HIDE DEF e
    <3> QED BY <1>6, <3>2 DEF Recurs
  <2>2. h = [i \in 0..n |-> h[i]]
    OBVIOUS
  <2> QED BY <2>1, <2>2
<1>8. f = [i \in 0..n |-> IF i = 0 THEN NoMetrics ELSE AddTrade(f[i - 1], trades[i])]
  <2>1. \E g : Is(g)
    <3> HIDE DEF Is
    <3> QED BY <1>7
  <2>2. Is(f)
    <3> HIDE DEF Is
    <3> QED BY <2>1
  <2> QED BY <2>2
<1> HIDE DEF f
<1>9. f[0] \in V /\ \A i \in 1..n : f[i - 1] \in V => f[i] \in V
  <2>1. 0 \in 0..n /\ \A i \in 1..n : i \in 0..n /\ i # 0
    BY <1>1, SMT
  <2>2. f[0] = NoMetrics /\ \A i \in 1..n : f[i] = AddTrade(f[i - 1], trades[i])
    BY <1>8, <2>1
  <2> QED BY <1>3, <1>4, <2>2
<1>10. f[n] \in V
  <2>1. n \in 0..n
    BY <1>1, SMT
  <2> HIDE DEF n
  <2> QED BY <1>1, <1>9, <2>1, PositionsTyped
<1> QED BY <1>2, <1>10 DEF V

\* A metric of the summary is exact when it is defined.
LEMMA AggregateExact ==
    ASSUME NEW sheets \in Seq(Seq(ResultType)), Len(sheets) # 0, NEW m \in SummarisedMetrics
    PROVE  IsDefined(Aggregate(sheets)[m]) => Aggregate(sheets)[m].value \in LowestSet
<1> DEFINE acc == Accumulated(FlattenSeq(sheets))
           sessions_ == Len(sheets)
<1>1. FlattenSeq(sheets) \in Seq(ResultType)
  BY FlattenedTyped
<1>2. acc \in MetricsType
  BY <1>1, AccumulatedTyped
<1> HIDE DEF acc
<1>3. /\ acc.trades \in Nat /\ acc.wins \in Nat /\ acc.net_pnl \in Int /\ acc.max_drawdown \in Int
      /\ sessions_ \in Nat \ {0}
  BY <1>2 DEF MetricsType
<1> HIDE DEF sessions_
<1>4. \A n \in Int, d \in Nat \ {0} : Rational(n, d) \in LowestSet
  <2> TAKE n \in Int, d \in Nat \ {0}
  <2>1. PICK r : r = Rational(n, d)
    OBVIOUS
  <2>2. Lowest(r)
    BY <2>1, ReducedIs
  <2> QED BY <2>1, <2>2 DEF LowestSet, Lowest
<1>5. \A n \in Int : Whole(n) \in LowestSet
  <2> TAKE n \in Int
  <2>1. n * 0 + 1 * 1 = 1 /\ Whole(n).num = n /\ Whole(n).den = 1
    BY SMT DEF Whole
  <2>2. Whole(n) \in Fraction
    BY DEF Whole, Fraction
  <2>3. 0 \in Int /\ 1 \in Int
    OBVIOUS
  <2> QED BY <2>1, <2>2, <2>3 DEF Lowest, LowestSet
<1> DEFINE value(ratio) == IF ratio.status = "DEFINED" THEN Defined(Rational(ratio.num, ratio.den))
                           ELSE Undefined(ratio.status)
<1>6. /\ Aggregate(sheets).average_trade = value(Ratios(acc).average_trade)
      /\ Aggregate(sheets).win_rate = value(Ratios(acc).win_rate)
      /\ Aggregate(sheets).net_pnl_per_session = Defined(Rational(acc.net_pnl, sessions_))
      /\ Aggregate(sheets).max_drawdown = Defined(Whole(acc.max_drawdown))
  BY DEF Aggregate, acc, sessions_
<1>7. ASSUME NEW ratio, ratio.status = "DEFINED" => ratio.num \in Int /\ ratio.den \in Nat \ {0},
             IsDefined(value(ratio))
      PROVE  value(ratio).value \in LowestSet
  <2>1. ratio.status = "DEFINED"
    BY <1>7 DEF IsDefined, Undefined
  <2> QED BY <2>1, <1>4, <1>7 DEF Defined
<1> HIDE DEF value
<1>8. /\ Ratios(acc).average_trade.status = "DEFINED" =>
             Ratios(acc).average_trade.num \in Int /\ Ratios(acc).average_trade.den \in Nat \ {0}
      /\ Ratios(acc).win_rate.status = "DEFINED" =>
             Ratios(acc).win_rate.num \in Int /\ Ratios(acc).win_rate.den \in Nat \ {0}
  <2>1. acc.trades # 0 => acc.trades \in Nat \ {0}
    BY <1>3
  <2>2. CASE acc.trades # 0
    <3>1. /\ Ratios(acc).average_trade = DefinedRatio(acc.net_pnl, acc.trades)
          /\ Ratios(acc).win_rate = DefinedRatio(acc.wins, acc.trades)
      BY <2>2 DEF Ratios
    <3> QED BY <1>3, <2>1, <2>2, <3>1 DEF DefinedRatio
  <2>3. CASE acc.trades = 0
    <3>1. /\ Ratios(acc).average_trade = UndefinedRatio("NO_TRADES")
          /\ Ratios(acc).win_rate = UndefinedRatio("NO_TRADES")
      BY <2>3 DEF Ratios
    <3> QED BY <3>1 DEF UndefinedRatio
  <2> QED BY <2>2, <2>3
<1>9. CASE m = "average_trade"
  BY <1>6, <1>7, <1>8, <1>9
<1>10. CASE m = "win_rate"
  BY <1>6, <1>7, <1>8, <1>10
<1>11. CASE m = "net_pnl_per_session"
  BY <1>3, <1>4, <1>6, <1>11 DEF Defined
<1>12. CASE m = "max_drawdown"
  BY <1>3, <1>5, <1>6, <1>12 DEF Defined
<1> QED BY <1>9, <1>10, <1>11, <1>12 DEF SummarisedMetrics

(***************************************************************************)
(* What is summarised of the folds.                                        *)
(***************************************************************************)
\* Every session has a ledger, the results hold what the folds were validated on, and
\* the record the statistics of all of them.
ValuesInv ==
    /\ \A n \in DOMAIN sessions : ledgers[sessions[n].id] \in Ledgers
    /\ \A f \in DOMAIN results : results[f].validation = Validation(f)
    /\ Completed => \A m \in SummarisedMetrics : /\ record.median[m] = Statistic("median", m)
                                                 /\ record.worst[m] = Statistic("worst", m)

\* Nothing is evaluated or reported yet.
LEMMA ValuesInit == FoldsInit => ValuesInv
<1> SUFFICES ASSUME FoldsInit PROVE ValuesInv
  OBVIOUS
<1>1. /\ results = << >> /\ record = NoRecord
      /\ ledgers \in [{sessions[n].id : n \in DOMAIN sessions} -> Ledgers]
  BY DEF FoldsInit
<1>2. \A n \in DOMAIN sessions : ledgers[sessions[n].id] \in Ledgers
  BY <1>1
<1>3. ~Completed
  BY <1>1 DEF Completed, NoRecord
<1> QED BY <1>1, <1>2, <1>3 DEF ValuesInv

\* A fold is evaluated and reported once.
LEMMA ValuesKept ==
    ASSUME SummaryInv, ValuesInv, [FoldsNext]_foldVars
    PROVE  ValuesInv'
<1>1. sessions' = sessions /\ ledgers' = ledgers /\ policy' = policy
  BY DEF FoldsNext, Refuse, PlaceFold, ClosePlan, EvaluateFold, Summarize, foldVars, Inputs
<1>2. \A n \in DOMAIN sessions' : ledgers'[sessions'[n].id] \in Ledgers
  BY <1>1 DEF ValuesInv
<1>3. folds' = folds => \A f : Validation(f)' = Validation(f)
  BY <1>1 DEF Validation, Partition
<1>4. CASE Refuse \/ PlaceFold \/ ClosePlan
  <2>1. stage = "plan" /\ results = << >> /\ results' = results /\ record = NoRecord
    BY <1>4 DEF Refuse, PlaceFold, ClosePlan, SummaryInv, PlanInv, ResultsInv, RecordInv
  <2>2. record'.status # "COMPLETED"
    <3>1. CASE Refuse \/ PlaceFold
      BY <2>1, <3>1 DEF Refuse, PlaceFold, NoRecord
    <3>2. CASE ClosePlan
      <4>1. \/ record' = NoRecord
            \/ record' = [status |-> "INSUFFICIENT_EVIDENCE", metrics |-> << >>]
        BY <3>2 DEF ClosePlan
      <4> QED BY <4>1 DEF NoRecord
    <3> QED BY <1>4, <3>1, <3>2
  <2> QED BY <1>2, <2>1, <2>2 DEF ValuesInv, Completed
<1>5. CASE EvaluateFold
  <2> DEFINE n == Len(results) + 1
  <2>1. stage = "folds" /\ record' = record /\ folds' = folds
    BY <1>5 DEF EvaluateFold, Inputs
  <2>2. PICK e : results' = Append(results, e) /\ e.validation = Validation(n)
    <3> DEFINE validation == Partition(folds[n].validation)
               discovery  == Partition(folds[n].discovery)
               comparison == Compare(discovery, validation)
               e == [validation |-> validation,
                     dgate |-> Gate(policy.discovery_gate, discovery, comparison),
                     vgate |-> Gate(policy.validation_gate, validation, comparison)]
    <3>1. results' = Append(results, e)
      BY <1>5 DEF EvaluateFold
    <3>2. e.validation = Validation(n)
      BY DEF Validation
    <3> QED BY <3>1, <3>2
  <2>3. /\ DOMAIN results' = 1..n /\ \A f \in 1..Len(results) : results'[f] = results[f]
        /\ results'[n] = e /\ Len(results) \in Nat /\ DOMAIN results = 1..Len(results)
    BY <2>2, AppendedSequence, SequenceFacts DEF SummaryInv, PlanInv, ResultsInv
  <2>4. ASSUME NEW f \in DOMAIN results' PROVE results'[f].validation = Validation(f)'
    <3>1. Validation(f)' = Validation(f)
      BY <1>3, <2>1
    <3>2. CASE f = n
      BY <2>2, <2>3, <3>1, <3>2
    <3>3. CASE f \in 1..Len(results)
      BY <2>3, <3>1, <3>3 DEF ValuesInv
    <3> QED BY <2>3, <3>2, <3>3
  <2>5. ~(Completed)'
    BY <2>1 DEF Completed, NoRecord, SummaryInv, RecordInv
  <2> QED BY <1>2, <2>4, <2>5 DEF ValuesInv
<1>6. CASE Summarize \/ UNCHANGED foldVars
  <2>1. folds' = folds /\ results' = results
    BY <1>6 DEF Summarize, foldVars, Inputs
  <2>2. \A f \in DOMAIN results' : results'[f].validation = Validation(f)'
    BY <1>3, <2>1 DEF ValuesInv
  <2>3. \A kind, m : Statistic(kind, m)' = Statistic(kind, m)
    BY <2>1 DEF Statistic, Series, Worst
  <2>4. CASE Summarize
    <3>1. \A m \in SummarisedMetrics : /\ record'.median[m] = Statistic("median", m)
                                       /\ record'.worst[m] = Statistic("worst", m)
      BY <2>4 DEF Summarize
    <3> QED BY <1>2, <2>2, <2>3, <3>1 DEF ValuesInv
  <2>5. CASE UNCHANGED foldVars
    <3>1. record' = record
      BY <2>5 DEF foldVars
    <3> QED BY <1>2, <2>2, <2>3, <3>1 DEF ValuesInv, Completed
  <2> QED BY <1>6, <2>4, <2>5
<1> QED BY <1>4, <1>5, <1>6 DEF FoldsNext

\* The ledgers of a fold's validation.
Sheets(f) ==
    LET first == CHOOSE n \in folds[f].validation : \A m \in folds[f].validation : n <= m
    IN  [n \in 1..Cardinality(folds[f].validation) |-> ledgers[sessions[first + n - 1].id]]

\* They are as many as the sessions of a validation, and the fold is validated on them.
LEMMA SheetsAre ==
    ASSUME SummaryInv, ValuesInv, NEW f \in DOMAIN folds
    PROVE  /\ Validation(f) = Aggregate(Sheets(f))
           /\ Sheets(f) \in Seq(Seq(ResultType)) /\ Len(Sheets(f)) # 0
<1> DEFINE P == folds[f].validation
           least == CHOOSE n \in P : \A m \in P : n <= m
           w == policy.validation
<1>1. PlanInv
  BY DEF SummaryInv
<1>2. PICK first \in Nat : /\ P = (first + 1)..(first + w) /\ first + w <= Len(sessions)
  <2> DEFINE x == From(f) + policy.discovery + policy.gap
  <2>1. /\ From(f) \in Nat /\ P = (x + 1)..(x + w) /\ From(f) + Width = x + w
        /\ x + w <= Len(sessions)
    BY <1>1, FoldLies
  <2>2. x \in Nat
    <3>1. From(f) \in Nat /\ policy.discovery \in Nat /\ policy.gap \in Nat
      BY <1>1, <2>1, PolicyNumbers
    <3> QED BY <3>1
  <2> HIDE DEF x
  <2> QED BY <2>1, <2>2
<1>3. w \in Nat \ {0} /\ DOMAIN sessions = 1..Len(sessions) /\ Len(sessions) \in Nat
  BY <1>1, PolicyNumbers
<1>4. Cardinality(P) = w
  BY <1>1, FoldLies
<1> HIDE DEF P, w
<1>5. least = first + 1
  <2>1. first + 1 \in P /\ \A m \in P : first + 1 <= m
    BY <1>2, <1>3, SMT
  <2>2. \A n \in P : (\A m \in P : n <= m) => n = first + 1
    BY <1>2, <2>1, SMT
  <2> QED BY <2>1, <2>2
<1> HIDE DEF least
<1> DEFINE sheet == [n \in 1..w |-> ledgers[sessions[least + n - 1].id]]
<1>6. Sheets(f) = sheet /\ Validation(f) = Aggregate(sheet)
  BY <1>4 DEF Sheets, Validation, Partition, P, least
<1>7. ASSUME NEW n \in 1..w PROVE ledgers[sessions[least + n - 1].id] \in Seq(ResultType)
  <2>1. least + n - 1 \in DOMAIN sessions
    BY <1>2, <1>3, <1>5, SMT
  <2>2. ledgers[sessions[least + n - 1].id] \in Ledgers
    BY <2>1 DEF ValuesInv
  <2> QED BY <2>2, WalkForwardAssumption DEF ResultType
<1>8. sheet \in [1..w -> Seq(ResultType)]
  BY <1>7
<1>9. sheet \in Seq(Seq(ResultType)) /\ Len(sheet) = w
  <2> HIDE DEF sheet
  <2> QED BY <1>3, <1>8, SMT
<1> QED BY <1>3, <1>6, <1>9

\* The reported values bound those of the folds.
LEMMA SummaryBounds ==
    ASSUME SummaryInv, ValuesInv
    PROVE  SummaryBoundsFolds
<1> SUFFICES ASSUME Completed, NEW m \in SummarisedMetrics
             PROVE  LET series == Series(m)
                        bad(a, b) == IF m = "max_drawdown" THEN Less(b, a) ELSE Less(a, b)
                    IN  IF \E f \in DOMAIN series : ~IsDefined(series[f])
                        THEN ~IsDefined(record.worst[m]) /\ ~IsDefined(record.median[m])
                        ELSE /\ \A f \in DOMAIN series : ~bad(series[f].value, record.worst[m].value)
                             /\ \E f \in DOMAIN series : series[f].value = record.worst[m].value
                             /\ LET median == record.median[m].value
                                    above == {f \in DOMAIN series : Less(median, series[f].value)}
                                    below == {f \in DOMAIN series : Less(series[f].value, median)}
                                IN  /\ 2 * Cardinality(above) <= Len(series)
                                    /\ 2 * Cardinality(below) <= Len(series)
                                    /\ Minus(Whole(0), median) =
                                          Median([f \in DOMAIN series |-> Minus(Whole(0), series[f].value)])
  BY DEF SummaryBoundsFolds
<1> DEFINE L == Len(results)
           series == Series(m)
           values == [f \in DOMAIN series |-> series[f].value]
<1>1. L \in Nat \ {0} /\ DOMAIN results = 1..L /\ DOMAIN folds = 1..L
  <2>1. policy.min_folds \in Nat \ {0}
    BY WalkForwardAssumption DEF SummaryInv, PlanInv
  <2>2. Len(folds) \in Nat /\ DOMAIN folds = 1..Len(folds)
    BY PolicyNumbers DEF SummaryInv
  <2>3. DOMAIN results = 1..Len(results)
    BY SequenceFacts DEF SummaryInv, PlanInv, ResultsInv
  <2>4. Len(folds) >= policy.min_folds /\ Len(results) = Len(folds)
    BY DEF SummaryInv, RecordInv
  <2> QED BY <2>1, <2>2, <2>3, <2>4
<1>2. series = [f \in 1..L |-> results[f].validation[m]]
  BY <1>1 DEF Series
<1> HIDE DEF L
<1>3. DOMAIN series = 1..L /\ \A f \in 1..L : series[f] = results[f].validation[m]
  BY <1>2
<1>4. Len(series) = L
  <2>1. \A f \in 1..L : series[f] \in {series[n] : n \in 1..L}
    OBVIOUS
  <2>2. series \in [1..L -> {series[n] : n \in 1..L}]
    BY <1>2, <2>1
  <2> HIDE DEF series
  <2> QED BY <1>1, <2>2, SMT
<1>5. /\ record.median[m] = Statistic("median", m)
      /\ record.worst[m] = Statistic("worst", m)
  BY DEF ValuesInv
<1>6. /\ Statistic("median", m) = IF \A f \in DOMAIN series : IsDefined(series[f])
                                  THEN Defined(Median(values)) ELSE SourceUndefined
      /\ Statistic("worst", m) = IF \A f \in DOMAIN series : IsDefined(series[f])
                                 THEN Defined(Worst(m, values)) ELSE SourceUndefined
  BY DEF Statistic
<1>7. values = [f \in 1..L |-> series[f].value]
  BY <1>3
<1>8. \A f \in 1..L : IsDefined(series[f]) => series[f].value \in LowestSet
  <2> TAKE f \in 1..L
  <2>1. series[f] = Aggregate(Sheets(f))[m]
    BY <1>1, <1>3, SheetsAre DEF ValuesInv
  <2>2. Sheets(f) \in Seq(Seq(ResultType)) /\ Len(Sheets(f)) # 0
    BY <1>1, SheetsAre
  <2> QED BY <2>1, <2>2, AggregateExact
<1> HIDE DEF series
<1>9. CASE \E f \in DOMAIN series : ~IsDefined(series[f])
  <2>1. record.median[m] = SourceUndefined /\ record.worst[m] = SourceUndefined
    BY <1>5, <1>6, <1>9
  <2>2. ~IsDefined(SourceUndefined)
    BY DEF IsDefined, SourceUndefined, Undefined
  <2> QED BY <1>9, <2>1, <2>2 DEF series
<1>10. CASE \A f \in DOMAIN series : IsDefined(series[f])
  <2>1. values \in [1..L -> LowestSet]
    BY <1>3, <1>7, <1>8, <1>10
  <2>2. \A f \in 1..L : values[f] = series[f].value
    BY <1>7
  <2> HIDE DEF values
  <2>3. record.median[m].value = Median(values) /\ record.worst[m].value = Worst(m, values)
    BY <1>5, <1>6, <1>10 DEF Defined
  <2> DEFINE median == Median(values)
             worst == Worst(m, values)
             turned == [f \in 1..L |-> Minus(Whole(0), values[f])]
  <2>4. /\ 2 * Cardinality({n \in 1..L : Less(median, values[n])}) <= L
        /\ 2 * Cardinality({n \in 1..L : Less(values[n], median)}) <= L
    BY <1>1, <2>1, MedianHalves
  <2>5. Median(turned) = Minus(Whole(0), median)
    BY <1>1, <2>1, MedianTurned
  <2>6. worst = IF m = "max_drawdown" THEN AtRank(values, L) ELSE AtRank(values, 1)
    BY <1>1, <2>1, TurnedAre DEF Worst
  <2>7. /\ \A n \in 1..L : ~Less(values[n], AtRank(values, 1)) /\ ~Less(AtRank(values, L), values[n])
        /\ \E n \in 1..L : values[n] = AtRank(values, 1)
        /\ \E n \in 1..L : values[n] = AtRank(values, L)
    BY <1>1, <2>1, OutermostRanks
  <2>8. \A n \in 1..L : IF m = "max_drawdown" THEN ~Less(worst, values[n]) ELSE ~Less(values[n], worst)
    BY <2>6, <2>7
  <2>9. \E n \in 1..L : values[n] = worst
    BY <2>6, <2>7
  <2> HIDE DEF median, worst
  <2>10. /\ \A f \in DOMAIN series :
                IF m = "max_drawdown" THEN ~Less(worst, series[f].value) ELSE ~Less(series[f].value, worst)
         /\ \E f \in DOMAIN series : series[f].value = worst
    BY <1>3, <2>2, <2>8, <2>9
  <2>11. /\ {f \in DOMAIN series : Less(median, series[f].value)} = {n \in 1..L : Less(median, values[n])}
         /\ {f \in DOMAIN series : Less(series[f].value, median)} = {n \in 1..L : Less(values[n], median)}
         /\ [f \in DOMAIN series |-> Minus(Whole(0), series[f].value)] = turned
    BY <1>3, <2>2
  <2> HIDE DEF turned
  <2>12. /\ 2 * Cardinality({f \in DOMAIN series : Less(median, series[f].value)}) <= Len(series)
         /\ 2 * Cardinality({f \in DOMAIN series : Less(series[f].value, median)}) <= Len(series)
         /\ Minus(Whole(0), median) = Median([f \in DOMAIN series |-> Minus(Whole(0), series[f].value)])
    BY <1>4, <2>4, <2>5, <2>11
  <2>13. record.median[m].value = median /\ record.worst[m].value = worst
    BY <2>3 DEF median, worst
  <2> QED BY <1>10, <2>10, <2>12, <2>13 DEF series
<1> QED BY <1>9, <1>10

\* Every fold counts in the summary whatever its gates say, and the reported values bound
\* those of the folds: none is worse than the worst, and the median has at most half of
\* them on either side and is the same seen from above and from below
\* (summarize_walk_forward, exact_median).
THEOREM FoldsSummarised == FoldsSpec => []SummaryIsOfAllFolds
<1>1. FoldsInit => SummaryInv /\ ValuesInv
  BY SummaryInit, ValuesInit
<1>2. SummaryInv /\ ValuesInv /\ [FoldsNext]_foldVars => (SummaryInv /\ ValuesInv)'
  BY SummaryStep, ValuesKept
<1>3. SummaryInv /\ ValuesInv => SummaryIsOfAllFolds
  BY SummaryBounds, SummaryCountsAllFolds DEF SummaryIsOfAllFolds
<1> QED BY <1>1, <1>2, <1>3, PTL DEF FoldsSpec

(***************************************************************************)
(* The cache of evaluated sessions.                                        *)
(***************************************************************************)

\* Whoever is inside holds the lock.
LockInv == \A p \in Procs : at[p] # "closed" => lock = p

\* A call that loads or builds names the evaluation it is about.
CallInv ==
    \A p \in Procs :
        /\ at[p] \in {"load", "build"} => call[p].kind # "publish"
        /\ at[p] \notin {"closed", "idle"} /\ call[p].kind # "publish"
              => call[p].eval \in Evals

\* What a process has selected and batched is stored and without a pack, and
\* belongs to a call of publish_pending that is under way.
WorkInv ==
    \A p \in Procs :
        /\ at[p] \notin {"write", "index"} => pending[p] = {}
        /\ at[p] # "index" => batch[p] = {}
        /\ at[p] = "index" => batch[p] # {} /\ batch[p] \in packs
        /\ batch[p] \subseteq pending[p]
        /\ \A e \in pending[p] : e \in stored /\ pack[e] = {}

\* Packs hold committed rows, and not too many.
PacksInv ==
    \A B \in packs : B # {} /\ B \subseteq stored /\ Cardinality(B) <= PackCandidates

\* What was spoiled when a process opened the cache is spoiled, and it has
\* not verified it; outside it has verified nothing.
VerifiedInv ==
    \A p \in Procs :
        /\ known[p] \subseteq spoiled
        /\ known[p] \cap verified[p] = {}
        /\ at[p] = "closed" => verified[p] = {}

\* The inductive invariant.
CacheInv ==
    /\ TypeOK /\ LockInv /\ CallInv /\ WorkInv
    /\ LocatedRowsArePublished /\ PacksInv /\ VerifiedInv

(***************************************************************************)
(* Type correctness.                                                       *)
(***************************************************************************)
\* The empty call is a call.
LEMMA NoCallTyped == NoCall \in CallType
BY SMT DEF NoCall, CallType, AnySession

\* The calls of the clients are calls.
LEMMA CallsTyped ==
    /\ \A e \in Evals : LoadCall(e) \in CallType /\ EvaluateCall(e) \in CallType
    /\ \A n \in Sessions \cup {AnySession} : PublishCall(n) \in CallType
<1>1. \A e \in Evals : SessionOf[e] \in Sessions
  BY CacheAssumption
<1> QED BY <1>1 DEF LoadCall, EvaluateCall, PublishCall, CallType

\* A process that leaves releases the lock, and the state keeps its type.
LEMMA LeaveTyped ==
    ASSUME TypeOK, LockInv, NEW p \in Procs, at[p] # "closed", Leave(p)
    PROVE  TypeOK' /\ LockInv'
<1>1. \A q \in Procs : at[q] # "closed" => q = p
  BY DEF LockInv
<1>2. \A q \in Procs : at'[q] = "closed"
  BY <1>1 DEF Leave, TypeOK
<1> QED BY <1>2, NoCallTyped, CacheAssumption DEF TypeOK, LockInv, Leave

\* A process that goes on, or returns to its client, stays inside.
LEMMA MoveTyped ==
    ASSUME TypeOK, LockInv, NEW p \in Procs, at[p] # "closed", lock' = lock,
           NEW there \in {"idle", "load", "build", "select", "write", "index"},
           at' = [at EXCEPT ![p] = there]
    PROVE  /\ lock' \in Procs \cup {NoProc}
           /\ lock' # NoProc => at'[lock'] # "closed"
           /\ at' \in [Procs -> {"closed", "idle", "load", "build", "select", "write", "index"}]
           /\ LockInv'
BY DEF TypeOK, LockInv

\* A step keeps the types, and the lock with its holder.
LEMMA TypeStep ==
    ASSUME TypeOK, LockInv, CallInv, [Next]_vars
    PROVE  TypeOK' /\ LockInv'
<1>1. ASSUME NEW p \in Procs, Open(p) PROVE TypeOK' /\ LockInv'
  <2>1. \A q \in Procs : at[q] = "closed"
    BY <1>1, CacheAssumption DEF Open, LockInv
  <2>2. \A q \in Procs : at'[q] # "closed" => q = p
    BY <1>1, <2>1 DEF Open, TypeOK
  <2> QED BY <1>1, <2>2 DEF Open, TypeOK, LockInv
<1>2. ASSUME NEW p \in Procs, at[p] # "closed", Leave(p) PROVE TypeOK' /\ LockInv'
  BY <1>2, LeaveTyped
<1>3. ASSUME NEW p \in Procs, NEW c \in CallType, Call(p, c) PROVE TypeOK' /\ LockInv'
  <2>1. call' \in [Procs -> CallType] /\ lock' = lock /\ at[p] # "closed"
    BY <1>3 DEF Call, TypeOK
  <2>2. PICK there \in {"select", "load"} : at' = [at EXCEPT ![p] = there]
    BY <1>3 DEF Call
  <2> QED BY <1>3, <2>1, <2>2, MoveTyped DEF Call, TypeOK
<1>4. ASSUME NEW p \in Procs, Load(p) PROVE TypeOK' /\ LockInv'
  <2>1. CASE Leave(p)
    BY <1>2, <1>4, <2>1 DEF Load
  <2>2. CASE ~Leave(p)
    <3>1. /\ UNCHANGED <<lock, stored, pack, packs, spoiled, pending, batch, known>>
          /\ at[p] # "closed"
      BY <1>4, <2>2 DEF Load, disk
    <3>2. call' \in [Procs -> CallType]
      BY <1>4, <2>2, NoCallTyped DEF Load, Return, TypeOK
    <3>3. PICK there \in {"idle", "build", "select"} : at' = [at EXCEPT ![p] = there]
      BY <1>4, <2>2 DEF Load, Return
    <3>4. verified' \in [Procs -> SUBSET SUBSET Evals]
      <4>1. CASE UNCHANGED verified
        BY <4>1 DEF TypeOK
      <4>2. CASE verified' = [verified EXCEPT ![p] = @ \cup {pack[call[p].eval]}]
                 /\ pack[call[p].eval] \in packs
        BY <4>2 DEF TypeOK
      <4> QED BY <1>4, <2>2, <4>1, <4>2 DEF Load
    <3> QED BY <3>1, <3>2, <3>3, <3>4, MoveTyped DEF TypeOK
  <2> QED BY <2>1, <2>2
<1>5. ASSUME NEW p \in Procs, Build(p) PROVE TypeOK' /\ LockInv'
  <2>1. CASE Leave(p)
    BY <1>2, <1>5, <2>1 DEF Build
  <2>2. CASE ~Leave(p)
    <3>1. /\ UNCHANGED <<lock, pack, packs, spoiled, pending, batch, verified, known>>
          /\ at[p] # "closed" /\ at' = [at EXCEPT ![p] = "idle"]
      BY <1>5, <2>2 DEF Build, Return
    <3>2. call' \in [Procs -> CallType]
      BY <1>5, <2>2, NoCallTyped DEF Build, Return, TypeOK
    <3>3. stored' \subseteq Evals
      <4>1. at[p] = "build" /\ stored' = stored \cup {call[p].eval}
        BY <1>5, <2>2 DEF Build
      <4> QED BY <4>1 DEF CallInv, TypeOK
    <3> QED BY <3>1, <3>2, <3>3, MoveTyped DEF TypeOK
  <2> QED BY <2>1, <2>2
<1>6. ASSUME NEW p \in Procs, Select(p) PROVE TypeOK' /\ LockInv'
  <2>1. /\ UNCHANGED <<lock, stored, pack, packs, spoiled, call, batch, verified, known>>
        /\ at[p] # "closed" /\ at' = [at EXCEPT ![p] = "write"]
    BY <1>6 DEF Select, disk
  <2>2. pending' \in [Procs -> SUBSET Evals]
    BY <1>6 DEF Select, TypeOK
  <2> QED BY <2>1, <2>2, MoveTyped DEF TypeOK
<1>7. ASSUME NEW p \in Procs, WritePack(p) PROVE TypeOK' /\ LockInv'
  <2>1. CASE Leave(p)
    BY <1>2, <1>7, <2>1 DEF WritePack
  <2>2. CASE ~Leave(p)
    <3>1. /\ UNCHANGED <<lock, stored, pack, spoiled, call, pending, verified, known>>
          /\ at[p] # "closed" /\ at' = [at EXCEPT ![p] = "index"]
      BY <1>7, <2>2 DEF WritePack
    <3>2. PICK B \in SUBSET pending[p] :
             packs' = packs \cup {B} /\ batch' = [batch EXCEPT ![p] = B]
      BY <1>7, <2>2 DEF WritePack
    <3>3. packs' \subseteq SUBSET Evals /\ batch' \in [Procs -> SUBSET Evals] /\ spoiled \subseteq packs'
      BY <3>2 DEF TypeOK
    <3> QED BY <3>1, <3>3, MoveTyped DEF TypeOK
  <2> QED BY <2>1, <2>2
<1>8. ASSUME NEW p \in Procs, Index(p) PROVE TypeOK' /\ LockInv'
  <2>1. /\ UNCHANGED <<lock, stored, packs, spoiled, call, verified, known>>
        /\ at[p] # "closed" /\ at' = [at EXCEPT ![p] = "write"]
    BY <1>8 DEF Index
  <2>2. pack' \in [Evals -> SUBSET Evals]
    BY <1>8 DEF Index, TypeOK
  <2>3. pending' \in [Procs -> SUBSET Evals] /\ batch' \in [Procs -> SUBSET Evals]
    BY <1>8 DEF Index, TypeOK
  <2> QED BY <2>1, <2>2, <2>3, MoveTyped DEF TypeOK
<1>9. ASSUME NEW p \in Procs, Published(p) PROVE TypeOK' /\ LockInv'
  <2>1. /\ UNCHANGED <<lock, stored, pack, packs, spoiled, pending, batch, verified, known>>
        /\ at[p] # "closed"
    BY <1>9 DEF Published, disk
  <2>2. call' \in [Procs -> CallType]
    BY <1>9, NoCallTyped DEF Published, Return, TypeOK
  <2>3. PICK there \in {"idle", "load"} : at' = [at EXCEPT ![p] = there]
    BY <1>9 DEF Published, Return
  <2> QED BY <2>1, <2>2, <2>3, MoveTyped DEF TypeOK
<1>10. ASSUME NEW B \in packs, Spoil(B) PROVE TypeOK' /\ LockInv'
  BY <1>10 DEF Spoil, process, TypeOK, LockInv
<1>11. CASE UNCHANGED vars
  BY <1>11 DEF vars, TypeOK, LockInv
<1>12. ASSUME NEW p \in Procs, Serve(p) PROVE TypeOK' /\ LockInv'
  BY <1>12, <1>4, <1>5, <1>6, <1>7, <1>8, <1>9 DEF Serve
<1>13. ASSUME NEW p \in Procs, Close(p) \/ Crash(p) PROVE TypeOK' /\ LockInv'
  BY <1>13, <1>2 DEF Close, Crash
<1> QED BY <1>1, <1>3, <1>10, <1>11, <1>12, <1>13, CallsTyped DEF Next

(***************************************************************************)
(* The invariant.                                                          *)
(***************************************************************************)
\* Only a process that serves a call, or the one that opens the cache, moves.
LEMMA LeaveKeepsInv ==
    ASSUME CacheInv, NEW p \in Procs, at[p] # "closed", Leave(p)
    PROVE  CacheInv'
<1>1. TypeOK' /\ LockInv'
  BY LeaveTyped DEF CacheInv
<1>2. /\ at' = [at EXCEPT ![p] = "closed"] /\ call' = [call EXCEPT ![p] = NoCall]
      /\ pending' = [pending EXCEPT ![p] = {}] /\ batch' = [batch EXCEPT ![p] = {}]
      /\ verified' = [verified EXCEPT ![p] = {}] /\ known' = [known EXCEPT ![p] = {}]
      /\ UNCHANGED <<stored, pack, packs, spoiled>>
  BY DEF Leave
<1>3. CallInv'
  BY <1>2 DEF CacheInv, CallInv, TypeOK
<1>4. WorkInv'
  BY <1>2 DEF CacheInv, WorkInv, TypeOK
<1>5. VerifiedInv'
  BY <1>2 DEF CacheInv, VerifiedInv, TypeOK
<1>6. LocatedRowsArePublished' /\ PacksInv'
  BY <1>2 DEF CacheInv, LocatedRowsArePublished, PacksInv
<1> QED BY <1>1, <1>3, <1>4, <1>5, <1>6 DEF CacheInv

\* The invariant holds at the start and is kept by every step.
LEMMA InvInit == Init => CacheInv
<1> SUFFICES ASSUME Init PROVE CacheInv
  OBVIOUS
<1>1. TypeOK
  BY NoCallTyped DEF Init, TypeOK
<1> QED BY <1>1 DEF Init, CacheInv, LockInv, CallInv, WorkInv, PacksInv, VerifiedInv,
           LocatedRowsArePublished

LEMMA InvStep ==
    ASSUME CacheInv, [Next]_vars
    PROVE  CacheInv'
<1>0. TypeOK' /\ LockInv'
  BY TypeStep DEF CacheInv
<1>1. ASSUME NEW p \in Procs, Open(p) PROVE CacheInv'
  <2>1. CallInv'
    BY <1>1 DEF Open, CacheInv, CallInv, TypeOK
  <2>2. WorkInv'
    BY <1>1 DEF Open, CacheInv, WorkInv, TypeOK
  <2>3. VerifiedInv'
    BY <1>1 DEF Open, CacheInv, VerifiedInv, TypeOK
  <2>4. LocatedRowsArePublished' /\ PacksInv'
    BY <1>1 DEF Open, CacheInv, LocatedRowsArePublished, PacksInv
  <2> QED BY <1>0, <2>1, <2>2, <2>3, <2>4 DEF CacheInv
<1>2. ASSUME NEW p \in Procs, Close(p) \/ Crash(p) PROVE CacheInv'
  BY <1>2, LeaveKeepsInv DEF Close, Crash
<1>3. ASSUME NEW p \in Procs, NEW c \in CallType, Call(p, c),
             c.kind # "publish" => c.eval \in Evals
      PROVE  CacheInv'
  <2>1. CallInv'
    BY <1>3 DEF Call, CacheInv, CallInv, TypeOK
  <2>2. WorkInv'
    BY <1>3 DEF Call, CacheInv, WorkInv, TypeOK
  <2>3. VerifiedInv'
    BY <1>3 DEF Call, CacheInv, VerifiedInv, TypeOK
  <2>4. LocatedRowsArePublished' /\ PacksInv'
    BY <1>3 DEF Call, CacheInv, LocatedRowsArePublished, PacksInv
  <2> QED BY <1>0, <2>1, <2>2, <2>3, <2>4 DEF CacheInv
<1>4. ASSUME NEW p \in Procs, Load(p) PROVE CacheInv'
  <2>1. CASE Leave(p)
    BY <1>4, <2>1, LeaveKeepsInv DEF Load
  <2>2. CASE ~Leave(p)
    <3>1. /\ UNCHANGED <<lock, stored, pack, packs, spoiled, pending, batch, known>>
          /\ at[p] = "load"
      BY <1>4, <2>2 DEF Load, disk
    <3>2. \/ at' = [at EXCEPT ![p] = "idle"]
          \/ /\ at' \in {[at EXCEPT ![p] = "build"], [at EXCEPT ![p] = "select"]}
             /\ UNCHANGED call
      BY <1>4, <2>2 DEF Load, Return
    <3>3. CallInv'
      <4>1. \A q \in Procs \ {p} : at'[q] = at[q] /\ call'[q] = call[q]
        BY <1>4, <2>2 DEF Load, Return, CacheInv, TypeOK
      <4>2. at'[p] = "idle" \/ (call'[p] = call[p] /\ at'[p] \in {"build", "select"})
        BY <3>2 DEF CacheInv, TypeOK
      <4> QED BY <3>1, <4>1, <4>2 DEF CacheInv, CallInv
    <3>4. WorkInv'
      <4>1. \A q \in Procs : at'[q] \notin {"write", "index"} \/ at'[q] = at[q]
        BY <3>2 DEF CacheInv, TypeOK
      <4>2. pending[p] = {} /\ batch[p] = {}
        BY <3>1 DEF CacheInv, WorkInv
      <4>3. \A q \in Procs \ {p} : at'[q] = at[q]
        BY <3>2 DEF CacheInv, TypeOK
      <4> QED BY <3>1, <4>1, <4>2, <4>3 DEF CacheInv, WorkInv
    <3>5. VerifiedInv'
      <4>1. at'[p] # "closed" /\ \A q \in Procs \ {p} : at'[q] = at[q]
        BY <3>2 DEF CacheInv, TypeOK
      <4>2. \A q \in Procs \ {p} : verified'[q] = verified[q]
        BY <1>4, <2>2 DEF Load, CacheInv, TypeOK
      <4>3. \/ verified'[p] = verified[p]
            \/ \E B \in packs \ spoiled : verified'[p] = verified[p] \cup {B}
        BY <1>4, <2>2 DEF Load, CacheInv, TypeOK
      <4> QED BY <3>1, <4>1, <4>2, <4>3 DEF CacheInv, VerifiedInv
    <3>6. LocatedRowsArePublished' /\ PacksInv'
      BY <3>1 DEF CacheInv, LocatedRowsArePublished, PacksInv
    <3> QED BY <1>0, <3>3, <3>4, <3>5, <3>6 DEF CacheInv
  <2> QED BY <2>1, <2>2
<1>5. ASSUME NEW p \in Procs, Build(p) PROVE CacheInv'
  <2>1. CASE Leave(p)
    BY <1>5, <2>1, LeaveKeepsInv DEF Build
  <2>2. CASE ~Leave(p)
    <3>1. /\ UNCHANGED <<lock, pack, packs, spoiled, pending, batch, verified, known>>
          /\ at[p] = "build" /\ stored' = stored \cup {call[p].eval}
          /\ at' = [at EXCEPT ![p] = "idle"]
          /\ call' = [call EXCEPT ![p] = NoCall]
      BY <1>5, <2>2 DEF Build, Return
    <3>2. CallInv'
      BY <3>1 DEF CacheInv, CallInv, TypeOK
    <3>3. WorkInv'
      BY <3>1 DEF CacheInv, WorkInv, TypeOK
    <3>4. VerifiedInv'
      BY <3>1 DEF CacheInv, VerifiedInv, TypeOK
    <3>5. LocatedRowsArePublished' /\ PacksInv'
      BY <3>1 DEF CacheInv, LocatedRowsArePublished, PacksInv
    <3> QED BY <1>0, <3>2, <3>3, <3>4, <3>5 DEF CacheInv
  <2> QED BY <2>1, <2>2
<1>6. ASSUME NEW p \in Procs, Select(p) PROVE CacheInv'
  <2>1. CallInv'
    BY <1>6 DEF Select, disk, CacheInv, CallInv, TypeOK
  <2>2. WorkInv'
    BY <1>6 DEF Select, disk, CacheInv, WorkInv, TypeOK
  <2>3. VerifiedInv'
    BY <1>6 DEF Select, disk, CacheInv, VerifiedInv, TypeOK
  <2>4. LocatedRowsArePublished' /\ PacksInv'
    BY <1>6 DEF Select, disk, CacheInv, LocatedRowsArePublished, PacksInv
  <2> QED BY <1>0, <2>1, <2>2, <2>3, <2>4 DEF CacheInv
<1>7. ASSUME NEW p \in Procs, WritePack(p) PROVE CacheInv'
  <2>1. CASE Leave(p)
    BY <1>7, <2>1, LeaveKeepsInv DEF WritePack
  <2>2. CASE ~Leave(p)
    <3>1. /\ UNCHANGED <<lock, stored, pack, spoiled, call, pending, verified, known>>
          /\ at[p] = "write" /\ at' = [at EXCEPT ![p] = "index"]
      BY <1>7, <2>2 DEF WritePack
    <3>2. PICK B \in SUBSET pending[p] :
             /\ NextBatch(pending[p], B)
             /\ packs' = packs \cup {B}
             /\ batch' = [batch EXCEPT ![p] = B]
      BY <1>7, <2>2 DEF WritePack
    <3>3. B # {} /\ B \subseteq stored
      BY <3>2 DEF NextBatch, CacheInv, WorkInv
    <3>4. Cardinality(B) <= PackCandidates
      <4>1. CASE Cardinality(pending[p]) <= PackCandidates
        BY <3>2, <4>1 DEF NextBatch
      <4>2. CASE ~(Cardinality(pending[p]) <= PackCandidates)
        BY <3>2, <4>2, CacheAssumption DEF NextBatch
      <4> QED BY <4>1, <4>2
    <3>5. CallInv'
      BY <3>1 DEF CacheInv, CallInv, TypeOK
    <3>6. WorkInv'
      <4>1. at'[p] = "index" /\ batch'[p] = B
        BY <3>1, <3>2 DEF CacheInv, TypeOK
      <4>2. \A q \in Procs \ {p} : at'[q] = at[q] /\ batch'[q] = batch[q]
        BY <3>1, <3>2 DEF CacheInv, TypeOK
      <4> QED BY <3>1, <3>2, <3>3, <4>1, <4>2 DEF CacheInv, WorkInv
    <3>7. VerifiedInv'
      BY <3>1 DEF CacheInv, VerifiedInv, TypeOK
    <3>8. LocatedRowsArePublished'
      BY <3>1, <3>2 DEF CacheInv, LocatedRowsArePublished
    <3>9. PacksInv'
      BY <3>1, <3>2, <3>3, <3>4 DEF CacheInv, PacksInv
    <3> QED BY <1>0, <3>5, <3>6, <3>7, <3>8, <3>9 DEF CacheInv
  <2> QED BY <2>1, <2>2
<1>8. ASSUME NEW p \in Procs, Index(p) PROVE CacheInv'
  <2>1. /\ UNCHANGED <<lock, stored, packs, spoiled, call, verified, known>>
        /\ at[p] = "index" /\ at' = [at EXCEPT ![p] = "write"]
        /\ pending' = [pending EXCEPT ![p] = @ \ batch[p]]
        /\ batch' = [batch EXCEPT ![p] = {}]
    BY <1>8 DEF Index
  <2>2. \A e \in Evals : pack'[e] = IF e \in batch[p] THEN batch[p] ELSE pack[e]
    BY <1>8 DEF Index
  <2>3. /\ batch[p] # {} /\ batch[p] \in packs /\ batch[p] \subseteq Evals
        /\ \A e \in batch[p] : pack[e] = {}
    BY <2>1 DEF CacheInv, WorkInv, TypeOK
  <2>4. CallInv'
    BY <2>1 DEF CacheInv, CallInv, TypeOK
  <2>5. WorkInv'
    <3>1. at'[p] = "write" /\ batch'[p] = {} /\ pending'[p] = pending[p] \ batch[p]
      BY <2>1 DEF CacheInv, TypeOK
    <3>2. \A q \in Procs \ {p} :
             /\ at'[q] = "closed" /\ at[q] = "closed"
             /\ batch'[q] = batch[q] /\ pending'[q] = pending[q]
      BY <2>1 DEF CacheInv, TypeOK, LockInv
    <3>3. \A e \in pending'[p] : e \in stored /\ pack'[e] = {}
      BY <2>2, <3>1 DEF CacheInv, WorkInv, TypeOK
    <3> QED BY <2>1, <3>1, <3>2, <3>3 DEF CacheInv, WorkInv
  <2>6. VerifiedInv'
    BY <2>1 DEF CacheInv, VerifiedInv, TypeOK
  <2>7. LocatedRowsArePublished'
    <3> SUFFICES ASSUME NEW e \in Evals, pack'[e] # {}
                 PROVE  /\ e \in pack'[e] /\ pack'[e] \in packs
                        /\ \A f \in pack'[e] : pack'[f] = pack'[e]
      BY <2>1 DEF LocatedRowsArePublished
    <3>1. CASE e \in batch[p]
      BY <2>2, <2>3, <3>1
    <3>2. CASE e \notin batch[p]
      <4>1. pack'[e] = pack[e] /\ pack[e] # {}
        BY <2>2, <3>2
      <4>2. /\ e \in pack[e] /\ pack[e] \in packs /\ pack[e] \subseteq Evals
            /\ \A f \in pack[e] : pack[f] = pack[e]
        BY <4>1 DEF CacheInv, LocatedRowsArePublished, TypeOK
      <4>3. \A f \in pack[e] : f \notin batch[p]
        BY <4>1, <4>2, <2>3
      <4> QED BY <4>1, <4>2, <4>3, <2>2
    <3> QED BY <3>1, <3>2
  <2>8. PacksInv'
    BY <2>1 DEF CacheInv, PacksInv
  <2> QED BY <1>0, <2>4, <2>5, <2>6, <2>7, <2>8 DEF CacheInv
<1>9. ASSUME NEW p \in Procs, Published(p) PROVE CacheInv'
  <2>1. /\ UNCHANGED <<lock, stored, pack, packs, spoiled, pending, batch, verified, known>>
        /\ at[p] = "write" /\ pending[p] = {}
    BY <1>9 DEF Published, disk
  <2>2. \/ at' = [at EXCEPT ![p] = "idle"]
        \/ call[p].kind # "publish" /\ at' = [at EXCEPT ![p] = "load"] /\ call' = call
    BY <1>9 DEF Published, Return
  <2>3. \A q \in Procs \ {p} : at'[q] = at[q] /\ call'[q] = call[q]
    BY <1>9 DEF Published, Return, CacheInv, TypeOK
  <2>4. \/ at'[p] = "idle"
        \/ at'[p] = "load" /\ call'[p] = call[p] /\ call[p].kind # "publish"
    BY <2>2 DEF CacheInv, TypeOK
  <2>5. CallInv'
    BY <2>1, <2>3, <2>4 DEF CacheInv, CallInv
  <2>6. WorkInv'
    BY <2>1, <2>3, <2>4 DEF CacheInv, WorkInv
  <2>7. VerifiedInv'
    BY <2>1, <2>3, <2>4 DEF CacheInv, VerifiedInv
  <2>8. LocatedRowsArePublished' /\ PacksInv'
    BY <2>1 DEF CacheInv, LocatedRowsArePublished, PacksInv
  <2> QED BY <1>0, <2>5, <2>6, <2>7, <2>8 DEF CacheInv
<1>10. ASSUME NEW B \in packs, Spoil(B) PROVE CacheInv'
  <2>1. /\ UNCHANGED <<stored, pack, packs, at, call, pending, batch, verified, known>>
        /\ spoiled \subseteq spoiled'
    BY <1>10 DEF Spoil, process
  <2> QED BY <1>0, <2>1 DEF CacheInv, CallInv, WorkInv, VerifiedInv, LocatedRowsArePublished, PacksInv
<1>11. CASE UNCHANGED vars
  BY <1>0, <1>11 DEF vars, CacheInv, CallInv, WorkInv, VerifiedInv, LocatedRowsArePublished, PacksInv
<1>12. ASSUME NEW p \in Procs, Serve(p) PROVE CacheInv'
  BY <1>12, <1>4, <1>5, <1>6, <1>7, <1>8, <1>9 DEF Serve
<1>13. ASSUME NEW p \in Procs, NEW e \in Evals,
              Call(p, LoadCall(e)) \/ Call(p, EvaluateCall(e))
       PROVE  CacheInv'
  BY <1>3, <1>13, CallsTyped DEF LoadCall, EvaluateCall
<1>14. ASSUME NEW p \in Procs, NEW n \in Sessions \cup {AnySession}, Call(p, PublishCall(n))
       PROVE  CacheInv'
  BY <1>3, <1>14, CallsTyped DEF PublishCall
<1> QED BY <1>1, <1>2, <1>10, <1>11, <1>12, <1>13, <1>14 DEF Next

\* Every reachable state satisfies the invariant.
LEMMA InvAlways == Spec => []CacheInv
<1>1. Init => CacheInv
  BY InvInit
<1>2. CacheInv /\ [Next]_vars => CacheInv'
  BY InvStep
<1> QED BY <1>1, <1>2, PTL DEF Spec

(***************************************************************************)
(* The theorems.                                                           *)
(***************************************************************************)
\* The state keeps its type, and the holder of the lock is inside.
THEOREM TypeCorrect == Spec => []TypeOK
<1>1. CacheInv => TypeOK
  BY DEF CacheInv
<1> QED BY <1>1, InvAlways, PTL

\* The index and the packs agree in every reachable state.
THEOREM IndexAgreesWithPacks == Spec => []LocatedRowsArePublished
<1>1. CacheInv => LocatedRowsArePublished
  BY DEF CacheInv
<1> QED BY <1>1, InvAlways, PTL

\* Packs hold committed rows, and a pack about to be indexed takes no row
\* from another.
THEOREM PacksAreCommitted == Spec => []PacksHoldCommittedRows
<1>1. CacheInv => PacksHoldCommittedRows
  <2> SUFFICES ASSUME CacheInv PROVE PacksHoldCommittedRows
    OBVIOUS
  <2>1. \A B \in packs : B # {} /\ B \subseteq stored /\ Cardinality(B) <= PackCandidates
    BY DEF CacheInv, PacksInv
  <2>2. \A p \in Procs : \A e \in batch[p] : pack[e] = {}
    BY DEF CacheInv, WorkInv
  <2> QED BY <2>1, <2>2 DEF PacksHoldCommittedRows
<1> QED BY <1>1, InvAlways, PTL

\* Index and packs agree, in both directions, for every number of processes.
THEOREM IndexAndPacksAgree == Spec => []PacksAgree
<1>1. LocatedRowsArePublished /\ PacksHoldCommittedRows => PacksAgree
  BY DEF PacksAgree
<1> QED BY <1>1, IndexAgreesWithPacks, PacksAreCommitted, PTL

\* The lock admits one process at a time, whoever died holding it.
THEOREM OneWriterAlways == Spec => []OneWriter
<1>1. CacheInv => OneWriter
  BY DEF CacheInv, LockInv, OneWriter
<1> QED BY <1>1, InvAlways, PTL

\* How a step moves the index: not at all, by a result, or by a pack whose
\* rows had none.
LEMMA IndexStep ==
    ASSUME CacheInv, [Next]_vars
    PROVE  /\ packs \subseteq packs'
           /\ \/ UNCHANGED <<stored, pack>>
              \/ /\ UNCHANGED pack
                 /\ \E e \in Evals : e \notin stored /\ stored' = stored \cup {e}
              \/ /\ UNCHANGED stored
                 /\ \E B \in SUBSET stored :
                       /\ B # {}
                       /\ \A e \in B : pack[e] = {}
                       /\ pack' = [e \in Evals |-> IF e \in B THEN B ELSE pack[e]]
<1> DEFINE Still == UNCHANGED <<stored, pack, packs>>
<1>1. ASSUME NEW p \in Procs, Leave(p) PROVE Still
  BY <1>1 DEF Leave
<1>2. ASSUME NEW p \in Procs, Load(p) \/ Select(p) \/ Published(p) PROVE Still
  BY <1>1, <1>2 DEF Load, Select, Published, disk
<1>3. ASSUME NEW p \in Procs, Open(p) \/ Close(p) \/ Crash(p) PROVE Still
  BY <1>1, <1>3 DEF Open, Close, Crash
<1>4. ASSUME NEW p \in Procs, NEW c, Call(p, c) PROVE Still
  BY <1>4 DEF Call
<1>5. ASSUME NEW p \in Procs, Build(p), ~Leave(p)
      PROVE  /\ UNCHANGED <<pack, packs>>
             /\ \E e \in Evals : e \notin stored /\ stored' = stored \cup {e}
  <2>1. call[p].eval \in Evals
    BY <1>5 DEF Build, CacheInv, CallInv
  <2> QED BY <1>5, <2>1 DEF Build
<1>6. ASSUME NEW p \in Procs, WritePack(p), ~Leave(p)
      PROVE  packs \subseteq packs' /\ UNCHANGED <<stored, pack>>
  BY <1>6 DEF WritePack
<1>7. ASSUME NEW p \in Procs, Index(p)
      PROVE  /\ UNCHANGED <<stored, packs>>
             /\ \E B \in SUBSET stored :
                   /\ B # {}
                   /\ \A e \in B : pack[e] = {}
                   /\ pack' = [e \in Evals |-> IF e \in B THEN B ELSE pack[e]]
  <2>1. batch[p] \in SUBSET stored /\ batch[p] # {} /\ \A e \in batch[p] : pack[e] = {}
    BY <1>7 DEF Index, CacheInv, WorkInv
  <2> QED BY <1>7, <2>1 DEF Index
<1>8. ASSUME NEW B \in packs, Spoil(B) PROVE Still
  BY <1>8 DEF Spoil
<1>9. CASE UNCHANGED vars
  BY <1>9 DEF vars
<1> HIDE DEF Still
<1>10. Still => packs \subseteq packs' /\ UNCHANGED <<stored, pack>>
  BY DEF Still
<1>11. ASSUME NEW p \in Procs, Serve(p)
       PROVE \/ Still
             \/ Build(p) /\ ~Leave(p)
             \/ WritePack(p) /\ ~Leave(p)
             \/ Index(p)
  BY <1>1, <1>2, <1>11 DEF Serve
<1> QED BY <1>3, <1>4, <1>5, <1>6, <1>7, <1>8, <1>9, <1>10, <1>11 DEF Next, Still

\* No step removes a result or a pack, or moves a row to another pack.
THEOREM ResultsAreForEver == Spec => EvaluationsAreImmutable
<1>1. CacheInv /\ [Next]_vars =>
        [/\ stored \subseteq stored'
         /\ packs \subseteq packs'
         /\ \A e \in Evals : pack[e] # {} => pack'[e] = pack[e]]_vars
  BY IndexStep
<1> QED BY <1>1, InvAlways, PTL DEF Spec, EvaluationsAreImmutable

\* A process serves a result from a pack on disk, and never from one that was
\* damaged before it opened the cache.
THEOREM DamageIsNotServed == Spec => ServesOnlyIntactPacks
<1>1. CacheInv /\ [Next]_vars =>
        [\A p \in Procs, e \in Evals :
            Serves(p, e) => pack[e] \in packs /\ pack[e] \notin known[p]]_vars
  <2> SUFFICES ASSUME CacheInv, Next, NEW p \in Procs, NEW e \in Evals, Serves(p, e)
               PROVE  pack[e] \in packs /\ pack[e] \notin known[p]
    BY DEF vars, Serves
  <2>1. Load(p) /\ ~Leave(p)
    <3>1. at[p] = "load" /\ at'[p] = "idle" /\ at[p] # at'[p]
      BY DEF Serves
    <3>2. ASSUME NEW q \in Procs, Leave(q) PROVE FALSE
      <4>1. at' = [at EXCEPT ![q] = "closed"]
        BY <3>2 DEF Leave
      <4> QED BY <4>1, <3>1 DEF CacheInv, TypeOK
    <3>3. ASSUME NEW q \in Procs \ {p}, NEW there, at' = [at EXCEPT ![q] = there]
          PROVE  FALSE
      BY <3>1, <3>3 DEF CacheInv, TypeOK
    <3>4. ASSUME NEW q \in Procs, Serve(q) PROVE q = p
      BY <3>2, <3>3, <3>4 DEF Serve, Load, Build, Select, WritePack, Index, Published, Return
    <3>5. ASSUME NEW q \in Procs, Open(q) PROVE FALSE
      BY <3>1, <3>5 DEF Open, CacheInv, LockInv, CacheAssumption
    <3>6. ASSUME NEW q \in Procs, NEW c, Call(q, c) PROVE FALSE
      BY <3>1, <3>6 DEF Call, CacheInv, TypeOK
    <3>7. ASSUME NEW B \in packs, Spoil(B) PROVE FALSE
      BY <3>1, <3>7 DEF Spoil, process
    <3>8. Serve(p)
      BY <3>2, <3>4, <3>5, <3>6, <3>7 DEF Next, Close, Crash
    <3> QED BY <3>1, <3>2, <3>8 DEF Serve, Build, Select, WritePack, Index, Published
  <2>2. call[p].eval = e /\ e \in stored /\ at'[p] = "idle"
    BY DEF Serves
  <2>3. pack[e] # {}
    <3>1. CASE pack[e] = {}
      <4>1. at' = [at EXCEPT ![p] = "select"]
        BY <2>1, <2>2, <3>1 DEF Load
      <4> QED BY <4>1, <2>2 DEF CacheInv, TypeOK
    <3> QED BY <3>1
  <2>4. pack[e] \in packs
    BY <2>3 DEF CacheInv, LocatedRowsArePublished
  <2>5. pack[e] \in verified[p] \/ pack[e] \notin spoiled
    BY <2>1, <2>2, <2>3 DEF Load
  <2> QED BY <2>4, <2>5 DEF CacheInv, VerifiedInv
<1> QED BY <1>1, InvAlways, PTL DEF Spec, ServesOnlyIntactPacks

\* The index is an evaluation store: a row is built once and published once,
\* and no crash undoes either.
THEOREM CacheImplementsStore == Spec => ImplementsStore
<1> DEFINE published == {e \in Evals : pack[e] # {}}
<1>1. Init => Store!Init
  BY DEF Init, Store!Init
<1>2. CacheInv /\ [Next]_vars => [Store!Next]_(Store!vars)
  <2> SUFFICES ASSUME CacheInv, [Next]_vars PROVE Store!Next \/ UNCHANGED Store!vars
    OBVIOUS
  <2>1. CASE UNCHANGED <<stored, pack>>
    BY <2>1 DEF Store!vars
  <2>2. ASSUME NEW e \in Evals, e \notin stored, stored' = stored \cup {e}, UNCHANGED pack
        PROVE  Store!Next
    BY <2>2 DEF Store!Next, Store!Build
  <2>3. ASSUME NEW B \in SUBSET stored, B # {}, \A e \in B : pack[e] = {},
               pack' = [e \in Evals |-> IF e \in B THEN B ELSE pack[e]],
               UNCHANGED stored
        PROVE  Store!Next
    <3>1. B \in SUBSET Evals
      BY DEF CacheInv, TypeOK
    <3>2. published' = published \cup B
      BY <2>3, <3>1
    <3>3. B \subseteq stored \ published
      BY <2>3
    <3>4. Store!Publish(B)
      BY <2>3, <3>2, <3>3 DEF Store!Publish
    <3> QED BY <3>3, <3>4 DEF Store!Next
  <2> QED BY <2>1, <2>2, <2>3, IndexStep
<1> QED BY <1>1, <1>2, InvAlways, PTL DEF Spec, ImplementsStore, Store!Spec

(***************************************************************************)
(* Scoring: the inductive invariant.                                       *)
(***************************************************************************)
\* A row of the cache was put under the score it holds, damaged or not.
RowIsOfItsScore(row) ==
    /\ row = [id |-> row.id, score |-> row.score, damaged |-> row.damaged]
    /\ row.score = row.id.score

\* The scores a caller has so far are those of the first candidates of its call.
ScoresSoFar(asked, scores) ==
    /\ Len(scores) \in 0..Len(asked.evidence.strategies)
    /\ scores = [c \in 1..Len(scores) |-> Score(asked.evidence, c, asked.policy)]

\* What a caller is doing is of one call, and what it stages is complete.
IsScoring(s) ==
    /\ s = [call |-> s.call, scores |-> s.scores, missed |-> s.missed, staged |-> s.staged]
    /\ s.call \in Calls
    /\ ScoresSoFar(s.call, s.scores)
    /\ s.staged => Len(s.scores) = Len(s.call.evidence.strategies)

ScoringInv ==
    /\ \A row \in scored : RowIsOfItsScore(row)
    /\ scoring = [k \in Callers |-> scoring[k]]
    /\ \A k \in Callers : scoring[k] = None \/ IsScoring(scoring[k])
    /\ exported = [o \in Outputs |-> exported[o]]
    /\ ExportsIgnoreTheCache

\* The candidates of a call.
LEMMA CandidatesAre ==
    ASSUME NEW asked \in Calls
    PROVE  /\ Len(asked.evidence.strategies) \in Nat
           /\ Candidates(asked.evidence) = 1..Len(asked.evidence.strategies)
<1> DEFINE S == ToSet(asked.evidence.strategies)
<1>1. asked.evidence.strategies \in Seq(S)
  BY ScoringAssumption
<1> HIDE DEF S
<1> QED BY <1>1 DEF Candidates

\* What an assignment to a field does to the state of a caller.
LEMMA RecordChanged ==
    ASSUME NEW s, NEW x, NEW y, NEW z, NEW w, NEW v,
           s = [call |-> x, scores |-> y, missed |-> z, staged |-> w]
    PROVE  /\ [s EXCEPT !.scores = v] = [call |-> x, scores |-> v, missed |-> z, staged |-> w]
           /\ [s EXCEPT !.missed = v] = [call |-> x, scores |-> y, missed |-> v, staged |-> w]
  OBVIOUS

\* One more candidate.
LEMMA OneMoreScore ==
    ASSUME NEW asked \in Calls, NEW scores, ScoresSoFar(asked, scores),
           Len(scores) + 1 \in Candidates(asked.evidence)
    PROVE  ScoresSoFar(asked, Append(scores, Score(asked.evidence, Len(scores) + 1, asked.policy)))
<1> DEFINE n == Len(asked.evidence.strategies)
           m == Len(scores)
           of(c) == Score(asked.evidence, c, asked.policy)
           S == {of(c) : c \in 1..n}
           more == Append(scores, of(m + 1))
<1>1. n \in Nat /\ m \in 0..n /\ m + 1 \in 1..n
  BY CandidatesAre DEF ScoresSoFar
<1>2. scores = [c \in 1..m |-> of(c)]
  BY DEF ScoresSoFar
<1> HIDE DEF m, n, of
<1>3. scores \in Seq(S) /\ Len(scores) = m
  <2>1. [c \in 1..m |-> of(c)] \in [1..m -> S]
    BY <1>1
  <2> HIDE DEF S
  <2> QED BY <1>1, <1>2, <2>1 DEF m
<1>4. of(m + 1) \in S
  BY <1>1
<1>5. /\ more \in Seq(S) /\ Len(more) = m + 1
      /\ more = [c \in 1..(m + 1) |-> IF c = m + 1 THEN of(m + 1) ELSE scores[c]]
  <2> HIDE DEF S
  <2> QED BY <1>1, <1>3, <1>4
<1>6. more = [c \in 1..(m + 1) |-> of(c)]
  <2> HIDE DEF more, S
  <2>1. \A c \in 1..(m + 1) : c # m + 1 => scores[c] = of(c)
    BY <1>1, <1>2
  <2> QED BY <1>5, <2>1
<1> HIDE DEF more
<1>7. Len(more) \in 0..n /\ more = [c \in 1..Len(more) |-> of(c)]
  BY <1>1, <1>5, <1>6
<1> QED BY <1>7 DEF ScoresSoFar, n, of, more, m

\* All candidates.
LEMMA AllScores ==
    ASSUME NEW asked \in Calls, NEW scores, ScoresSoFar(asked, scores),
           Len(scores) = Len(asked.evidence.strategies)
    PROVE  Manifest(asked, scores) = ManifestOf(asked)
<1>1. scores = ScoresOf(asked)
  BY CandidatesAre DEF ScoresSoFar, ScoresOf
<1> QED BY <1>1 DEF ManifestOf

\* A caller that has stopped, or another one, is as it was.
LEMMA CallersAre ==
    ASSUME ScoringInv, NEW k \in Callers, NEW s, s = None \/ IsScoring(s),
           scoring' = [scoring EXCEPT ![k] = s]
    PROVE  /\ scoring' = [j \in Callers |-> scoring'[j]]
           /\ \A j \in Callers : scoring'[j] = None \/ IsScoring(scoring'[j])
<1>1. scoring' = [j \in Callers |-> IF j = k THEN s ELSE scoring[j]]
  BY DEF ScoringInv
<1>2. \A j \in Callers : scoring[j] = None \/ IsScoring(scoring[j])
  BY DEF ScoringInv
<1> QED BY <1>1, <1>2

LEMMA StopKeeps ==
    ASSUME ScoringInv, NEW k \in Callers, Stop(k)
    PROVE  /\ scoring' = [j \in Callers |-> scoring'[j]]
           /\ \A j \in Callers : scoring'[j] = None \/ IsScoring(scoring'[j])
  BY CallersAre DEF Stop

\* A caller keeps the score of its next candidate.
LEMMA KeepKeeps ==
    ASSUME ScoringInv, NEW k \in Callers, HasCandidate(k), Keep(k, Computed(k))
    PROVE  /\ scoring' = [j \in Callers |-> scoring'[j]]
           /\ \A j \in Callers : scoring'[j] = None \/ IsScoring(scoring'[j])
<1> DEFINE s == scoring[k]
           more == Append(s.scores, Computed(k))
           t == [call |-> s.call, scores |-> more, missed |-> FALSE, staged |-> s.staged]
<1>1. IsScoring(s) /\ Len(s.scores) + 1 \in Candidates(s.call.evidence)
  BY DEF ScoringInv, HasCandidate, Scoring, Candidate
<1>2. s = [call |-> s.call, scores |-> s.scores, missed |-> s.missed, staged |-> s.staged]
  BY <1>1 DEF IsScoring
<1>3. ScoresSoFar(s.call, more)
  <2>1. Computed(k) = Score(s.call.evidence, Len(s.scores) + 1, s.call.policy)
    BY DEF Computed, Candidate
  <2> QED BY <2>1, <1>1, OneMoreScore DEF IsScoring
<1>4. IsScoring(t)
  <2>1. t.call = s.call /\ t.scores = more /\ t.staged = s.staged
    OBVIOUS
  <2>2. ~s.staged
    BY <1>1, CandidatesAre DEF IsScoring
  <2> QED BY <2>1, <2>2, <1>1, <1>3 DEF IsScoring
<1>5. scoring' = [scoring EXCEPT ![k] = t]
  <2> DEFINE c == Computed(k)
  <2>1. scoring = [j \in Callers |-> scoring[j]]
    BY DEF ScoringInv
  <2>2. scoring' = [scoring EXCEPT ![k].scores = Append(@, c), ![k].missed = FALSE]
    BY DEF Keep
  <2> HIDE DEF c
  <2>3. scoring' = [scoring EXCEPT ![k] = [[s EXCEPT !.scores = Append(@, c)] EXCEPT !.missed = FALSE]]
    BY <2>1, <2>2
  <2>4. [[s EXCEPT !.scores = Append(@, c)] EXCEPT !.missed = FALSE]
           = [call |-> s.call, scores |-> Append(s.scores, c), missed |-> FALSE, staged |-> s.staged]
    <3> DEFINE b == Append(s.scores, c)
               no == FALSE
    <3> HIDE DEF b, no
    <3>1. [s EXCEPT !.scores = b]
             = [call |-> s.call, scores |-> b, missed |-> s.missed, staged |-> s.staged]
      BY <1>2, RecordChanged
    <3> DEFINE m == [s EXCEPT !.scores = b]
    <3>2. m = [call |-> s.call, scores |-> b, missed |-> s.missed, staged |-> s.staged]
      BY <3>1
    <3> HIDE DEF m
    <3>3. [m EXCEPT !.missed = no] = [call |-> s.call, scores |-> b, missed |-> no, staged |-> s.staged]
      BY <3>2, RecordChanged
    <3> QED BY <3>3 DEF m, b, no
  <2> QED BY <2>3, <2>4 DEF c
<1> HIDE DEF t
<1> QED BY <1>4, <1>5, CallersAre

(***************************************************************************)
(* The steps.                                                              *)
(***************************************************************************)
CacheOfScores == \A row \in scored : RowIsOfItsScore(row)
CallersScore ==
    /\ scoring = [k \in Callers |-> scoring[k]]
    /\ \A k \in Callers : scoring[k] = None \/ IsScoring(scoring[k])
ExportsOfCalls == exported = [o \in Outputs |-> exported[o]] /\ ExportsIgnoreTheCache

LEMMA ScoringParts == ScoringInv <=> CacheOfScores /\ CallersScore /\ ExportsOfCalls
  BY DEF ScoringInv, CacheOfScores, CallersScore, ExportsOfCalls

LEMMA SameExports ==
    ASSUME ExportsOfCalls, exported' = exported
    PROVE  ExportsOfCalls'
  BY DEF ExportsOfCalls, ExportsIgnoreTheCache, Exports

LEMMA StartStep ==
    ASSUME ScoringInv, NEW k \in Callers, NEW asked \in Calls, Start(k, asked)
    PROVE  CallersScore'
<1> DEFINE s == [call |-> asked, scores |-> << >>, missed |-> FALSE, staged |-> FALSE]
<1>1. ScoresSoFar(asked, << >>)
  BY CandidatesAre DEF ScoresSoFar
<1>2. IsScoring(s)
  BY <1>1 DEF IsScoring
<1>3. scoring' = [scoring EXCEPT ![k] = s]
  BY DEF Start
<1> HIDE DEF s
<1> QED BY <1>2, <1>3, CallersAre DEF CallersScore

LEMMA GetStep ==
    ASSUME ScoringInv, NEW k \in Callers, Get(k)
    PROVE  CallersScore'
<1>1. CASE Found(Row(k)) = {}
  <2> DEFINE s == scoring[k]
             t == [call |-> s.call, scores |-> s.scores, missed |-> TRUE, staged |-> s.staged]
  <2>1. IsScoring(s)
    BY DEF ScoringInv, Get, HasCandidate, Scoring
  <2>2. s = [call |-> s.call, scores |-> s.scores, missed |-> s.missed, staged |-> s.staged]
    BY <2>1 DEF IsScoring
  <2>3. scoring' = [scoring EXCEPT ![k] = t]
    BY <1>1, <2>2 DEF Get, ScoringInv
  <2>4. IsScoring(t)
    BY <2>1 DEF IsScoring
  <2> HIDE DEF t
  <2> QED BY <2>3, <2>4, CallersAre DEF CallersScore
<1>2. CASE Found(Row(k)) # {}
  <2>1. PICK row \in Found(Row(k)) : IF row.damaged THEN Stop(k) ELSE Keep(k, row.score)
    BY <1>2 DEF Get
  <2>2. row \in scored /\ row.id = Row(k)
    BY DEF Found
  <2>3. row.score = Computed(k)
    BY <2>2 DEF ScoringInv, RowIsOfItsScore, Row, ScoreId
  <2>4. Stop(k) \/ Keep(k, Computed(k))
    BY <2>1, <2>3
  <2> QED BY <2>4, StopKeeps, KeepKeeps DEF CallersScore, Get
<1> QED BY <1>1, <1>2

LEMMA PutStep ==
    ASSUME ScoringInv, NEW k \in Callers, Put(k)
    PROVE  CallersScore' /\ CacheOfScores'
<1>1. CASE \E row \in Found(Row(k)) : row.damaged \/ row.score # Computed(k)
  <2>1. Stop(k) /\ scored' = scored
    BY <1>1 DEF Put
  <2> QED BY <2>1, StopKeeps DEF CallersScore, CacheOfScores, ScoringInv
<1>2. CASE ~ \E row \in Found(Row(k)) : row.damaged \/ row.score # Computed(k)
  <2> DEFINE new == [id |-> Row(k), score |-> Computed(k), damaged |-> FALSE]
  <2>1. HasCandidate(k) /\ Keep(k, Computed(k)) /\ scored' = scored \cup {new}
    BY <1>2 DEF Put
  <2>2. RowIsOfItsScore(new)
    BY DEF RowIsOfItsScore, Row, ScoreId
  <2> HIDE DEF new
  <2>3. CacheOfScores'
    BY <2>1, <2>2 DEF CacheOfScores, ScoringInv
  <2> QED BY <2>1, <2>3, KeepKeeps DEF CallersScore
<1> QED BY <1>1, <1>2

LEMMA StageExportStep ==
    ASSUME ScoringInv, NEW k \in Callers, StageExport(k)
    PROVE  CallersScore'
<1>1. CASE exported[scoring[k].call.output] # None
  <2>1. Stop(k)
    BY <1>1 DEF StageExport
  <2> QED BY <2>1, StopKeeps DEF CallersScore
<1>2. CASE ~ (exported[scoring[k].call.output] # None)
  <2> DEFINE s == scoring[k]
             t == [call |-> s.call, scores |-> s.scores, missed |-> s.missed, staged |-> TRUE]
  <2>1. IsScoring(s) /\ ~HasCandidate(k) /\ Scoring(k)
    BY DEF ScoringInv, StageExport, Scoring
  <2>2. s = [call |-> s.call, scores |-> s.scores, missed |-> s.missed, staged |-> s.staged]
    BY <2>1 DEF IsScoring
  <2>3. scoring' = [scoring EXCEPT ![k] = t]
    BY <1>2, <2>2 DEF StageExport, ScoringInv
  <2>4. Len(s.scores) = Len(s.call.evidence.strategies)
    BY <2>1, CandidatesAre DEF IsScoring, ScoresSoFar, HasCandidate, Candidate
  <2>5. IsScoring(t)
    BY <2>1, <2>4 DEF IsScoring
  <2> HIDE DEF t
  <2> QED BY <2>3, <2>5, CallersAre DEF CallersScore
<1> QED BY <1>1, <1>2

LEMMA ExportStep ==
    ASSUME ScoringInv, NEW k \in Callers, Export(k)
    PROVE  /\ CallersScore' /\ ExportsOfCalls'
           /\ \A o \in Outputs : exported[o] # None => exported'[o] = exported[o]
<1> DEFINE s == scoring[k]
           x == [call |-> s.call, manifest |-> Manifest(s.call, s.scores)]
<1>1. IsScoring(s) /\ s.staged /\ Stop(k)
  BY DEF ScoringInv, Export, Scoring
<1>2. x.manifest = ManifestOf(x.call)
  BY <1>1, AllScores DEF IsScoring
<1>3. CASE exported[s.call.output] # None
  <2>1. exported' = exported
    BY <1>3 DEF Export
  <2> QED BY <2>1, <1>1, StopKeeps, ScoringParts, SameExports DEF CallersScore
<1>4. CASE ~ (exported[s.call.output] # None)
  <2>1. exported' = [exported EXCEPT ![s.call.output] = x]
    BY <1>4 DEF Export
  <2> HIDE DEF x, s
  <2>2. exported' = [o \in Outputs |-> IF o = s.call.output THEN x ELSE exported[o]]
    BY <2>1 DEF ScoringInv
  <2>3. ExportsOfCalls'
    BY <2>2, <1>2 DEF ScoringInv, ExportsOfCalls, ExportsIgnoreTheCache, Exports
  <2>4. \A o \in Outputs : exported[o] # None => exported'[o] = exported[o]
    BY <2>2, <1>4
  <2> QED BY <2>3, <2>4, <1>1, StopKeeps DEF CallersScore
<1> QED BY <1>3, <1>4

LEMMA TroubleStep ==
    ASSUME ScoringInv, Trouble
    PROVE  CallersScore' /\ CacheOfScores'
<1>1. CASE \E k \in Callers : Interrupt(k)
  <2>1. PICK k \in Callers : Stop(k) /\ scored' = scored
    BY <1>1 DEF Interrupt
  <2> QED BY <2>1, StopKeeps DEF CallersScore, CacheOfScores, ScoringInv
<1>2. CASE Corrupt
  <2>1. PICK row \in scored : scored' = (scored \ {row}) \cup {[row EXCEPT !.damaged = TRUE]}
    BY <1>2 DEF Corrupt
  <2>2. RowIsOfItsScore(row)
    BY DEF ScoringInv
  <2>3. [row EXCEPT !.damaged = TRUE] = [id |-> row.id, score |-> row.score, damaged |-> TRUE]
    <3> DEFINE yes == TRUE
    <3>1. row = [id |-> row.id, score |-> row.score, damaged |-> row.damaged]
      BY <2>2 DEF RowIsOfItsScore
    <3> HIDE DEF yes
    <3>2. [row EXCEPT !.damaged = yes] = [id |-> row.id, score |-> row.score, damaged |-> yes]
      BY <3>1
    <3> QED BY <3>2 DEF yes
  <2>4. RowIsOfItsScore([row EXCEPT !.damaged = TRUE])
    BY <2>2, <2>3 DEF RowIsOfItsScore
  <2>5. CacheOfScores'
    BY <2>1, <2>4 DEF CacheOfScores, ScoringInv
  <2>6. CallersScore'
    BY <1>2 DEF Corrupt, CallersScore, ScoringInv
  <2> QED BY <2>5, <2>6
<1> QED BY <1>1, <1>2 DEF Trouble

\* What a step keeps, and that it takes no export back.
LEMMA ScoringInvStep ==
    ASSUME ScoringInv, ScoringNext
    PROVE  /\ ScoringInv'
           /\ \A o \in Outputs : exported[o] # None => exported'[o] = exported[o]
<1>1. CacheOfScores /\ CallersScore /\ ExportsOfCalls
  BY ScoringParts
<1> DEFINE Kept == /\ CacheOfScores' /\ CallersScore' /\ ExportsOfCalls'
                   /\ \A o \in Outputs : exported[o] # None => exported'[o] = exported[o]
<1>2. SUFFICES Kept
  BY DEF ScoringInv, CacheOfScores, CallersScore, ExportsOfCalls
<1>3. ASSUME NEW k \in Callers, NEW asked \in Calls, Start(k, asked)
      PROVE  Kept
  <2>1. scored' = scored /\ exported' = exported
    BY <1>3 DEF Start
  <2> QED BY <2>1, <1>1, <1>3, StartStep, SameExports DEF CacheOfScores
<1>4. ASSUME NEW k \in Callers, Get(k)
      PROVE  Kept
  <2>1. scored' = scored /\ exported' = exported
    BY <1>4 DEF Get
  <2> QED BY <2>1, <1>1, <1>4, GetStep, SameExports DEF CacheOfScores
<1>5. ASSUME NEW k \in Callers, Put(k)
      PROVE  Kept
  <2>1. exported' = exported
    BY <1>5 DEF Put
  <2> QED BY <2>1, <1>1, <1>5, PutStep, SameExports
<1>6. ASSUME NEW k \in Callers, StageExport(k)
      PROVE  Kept
  <2>1. scored' = scored /\ exported' = exported
    BY <1>6 DEF StageExport
  <2> QED BY <2>1, <1>1, <1>6, StageExportStep, SameExports DEF CacheOfScores
<1>7. ASSUME NEW k \in Callers, Export(k)
      PROVE  Kept
  <2>1. scored' = scored
    BY <1>7 DEF Export
  <2> QED BY <2>1, <1>1, <1>7, ExportStep DEF CacheOfScores
<1>8. ASSUME Trouble
      PROVE  Kept
  <2>1. exported' = exported
    BY <1>8 DEF Trouble, Interrupt, Corrupt
  <2> QED BY <2>1, <1>1, <1>8, TroubleStep, SameExports
<1> HIDE DEF Kept
<1> QED BY <1>3, <1>4, <1>5, <1>6, <1>7, <1>8 DEF ScoringNext, ScoringStep

LEMMA ScoringInvInit ==
    ASSUME ScoringInit
    PROVE  ScoringInv
<1>1. scored = {} /\ exported = [o \in Outputs |-> None] /\ scoring = [k \in Callers |-> None]
  BY DEF ScoringInit
<1> QED BY <1>1 DEF ScoringInv, ExportsIgnoreTheCache, Exports

\* For every evidence, policy and number of callers, an export is what its call computes
\* alone, whoever filled the cache and however often a call died, and it stays.
THEOREM ExportsOfTheirCall == ScoringSpec => ExportsAreOfTheirCall
<1>1. ScoringInit => ScoringInv
  BY ScoringInvInit
<1>2. ASSUME ScoringInv, [ScoringNext]_scoringVars
      PROVE  ScoringInv' /\ [\A o \in Outputs : exported[o] # None => exported'[o] = exported[o]]_scoringVars
  <2>1. CASE ScoringNext
    BY <1>2, <2>1, ScoringInvStep
  <2>2. CASE UNCHANGED scoringVars
    <3>1. scored' = scored /\ exported' = exported /\ scoring' = scoring
      BY <2>2 DEF scoringVars
    <3> QED BY <2>2, <3>1, <1>2 DEF ScoringInv, ExportsIgnoreTheCache, Exports
  <2> QED BY <1>2, <2>1, <2>2
<1>3. ScoringInv => ExportsIgnoreTheCache
  BY DEF ScoringInv
<1> QED BY <1>1, <1>2, <1>3, PTL DEF ScoringSpec, ExportsAreOfTheirCall, ExportsStay
===============================================================================
