--------------------------- MODULE BacktestV3Proofs ---------------------------
(***************************************************************************)
(* Proofs about the v3 backtest loop, for every set of inputs: its type    *)
(* invariant, the bounds that the exit reason puts on the result of a      *)
(* trade, that the position slot implements the abstract SinglePosition,   *)
(* that journal, ledger and errors are those that the input declares, and  *)
(* that signals on candles of the session's own ticks have their own fill. *)
(***************************************************************************)
EXTENDS CandledRuns, SequenceTheorems, WellFoundedInduction, TLAPS

(***************************************************************************)
(* The signal generator.                                                   *)
(***************************************************************************)
\* Every non-empty set of naturals has a least element.
LEMMA LeastElement ==
    ASSUME NEW A, A \subseteq Nat, A # {}
    PROVE  \E x \in A : \A y \in A : x <= y
<1>1. PICK x \in A : \A y \in A : ~ (<<y, x>> \in OpToRel(<, Nat))
  BY WFMin, NatLessThanWellFounded
<1>2. ASSUME NEW y \in A, y < x PROVE FALSE
  <2>1. <<y, x>> \in OpToRel(<, Nat)
    BY <1>2 DEF OpToRel
  <2> QED BY <2>1, <1>1
<1>3. \A y \in A : x <= y
  BY <1>2, SMT
<1> QED BY <1>3

\* Resuming the generator never goes back and never leaves the frames.
LEMMA NextSignalForward ==
    ASSUME NEW S0 \in SessionType, NEW k \in Nat, NextSignal(S0, k) # 0
    PROVE  NextSignal(S0, k) \in DOMAIN S0.frames /\ NextSignal(S0, k) > k
<1>1. Stops(S0, k) \subseteq Nat /\ Stops(S0, k) # {}
  BY SMT DEF Stops, NextSignal, SessionType
<1>2. NextSignal(S0, k) \in Stops(S0, k)
  BY <1>1, LeastElement DEF NextSignal
<1> QED BY <1>2 DEF Stops

\* The lookahead of the generator is a frame number, or 0.
LEMMA NextSignalNat ==
    ASSUME NEW S0 \in SessionType, NEW k \in Nat
    PROVE  NextSignal(S0, k) \in Nat
<1>1. CASE NextSignal(S0, k) = 0
  BY <1>1
<1>2. CASE NextSignal(S0, k) # 0
  <2>1. DOMAIN S0.frames \subseteq Nat
    BY SMT DEF SessionType
  <2> QED BY <1>2, <2>1, NextSignalForward
<1> QED BY <1>1, <1>2

(***************************************************************************)
(* Type correctness.                                                       *)
(***************************************************************************)
\* A session of a typed run has its type.
LEMMA SessionTyped ==
    ASSUME NEW r \in RunType, NEW n \in 1..Len(r.sessions)
    PROVE  /\ r.sessions[n] \in SessionType
           /\ r.sessions[n].ticks \in Seq(TickType)
           /\ r.sessions[n].frames \in Seq(FrameType)
           /\ \A j \in DOMAIN r.sessions[n].ticks : r.sessions[n].ticks[j] \in TickType
<1>1. r.sessions \in Seq(SessionType)
  BY DEF RunType
<1>2. r.sessions[n] \in SessionType
  BY <1>1, SMT
<1> QED BY <1>2, SMT DEF SessionType

\* Prices and gains are integers.
LEMMA PricesTyped ==
    ASSUME NEW r \in RunType, NEW a \in Int, NEW b \in Int
    PROVE  EntryPrice(r, a) \in Int /\ ExitPrice(r, a) \in Int /\ Gain(r, a, b) \in Int
<1>1. r.slip \in Nat
  BY DEF RunType
<1>2. /\ a + r.slip \in Int /\ a - r.slip \in Int
      /\ a - b \in Int /\ b - a \in Int
  BY <1>1, SMT
<1> QED BY <1>2 DEF EntryPrice, ExitPrice, Gain

\* The record of a closed trade has its type.
LEMMA ClosedTradeTyped ==
    ASSUME NEW r \in RunType, NEW n \in 1..Len(r.sessions),
           NEW p \in [sig : Nat, entry : Nat], p.entry \in DOMAIN r.sessions[n].ticks,
           NEW x \in DOMAIN r.sessions[n].ticks,
           NEW reason \in {"TAKE_PROFIT", "STOP_LOSS", "SESSION_END"}
    PROVE  ClosedTrade(r, n, p, x, reason) \in LedgerType
<1>0. /\ r.sessions[n].ticks \in Seq(TickType)
      /\ r.sessions[n].ticks[p.entry] \in TickType
      /\ r.sessions[n].ticks[x] \in TickType
  BY SessionTyped
<1>1. /\ r.sessions[n].ticks[p.entry].price \in Int
      /\ r.sessions[n].ticks[x].price \in Int
      /\ r.sessions[n].ticks \in Seq(TickType)
  BY <1>0 DEF TickType
<1>2. x \in Nat
  BY <1>1, SMT
<1>3. r.slip \in Nat /\ r.cost \in Nat
  BY DEF RunType
<1> DEFINE m(t) == r.sessions[n].ticks[t].price
           g == Gain(r, m(p.entry), m(x))
           e == Gain(r, EntryPrice(r, m(p.entry)), ExitPrice(r, m(x)))
<1>5. g \in Int /\ e \in Int
  BY <1>1, PricesTyped
<1>6. /\ 2 * r.cost \in Int
      /\ g - e \in Int
      /\ g - (g - e) - 2 * r.cost \in Int
  <2> HIDE DEF g, e
  <2> QED BY <1>3, <1>5, SMT
<1>7. ClosedTrade(r, n, p, x, reason) =
        [session |-> n, sig |-> p.sig, entry |-> p.entry, exit |-> x, reason |-> reason,
         gross |-> g, impact |-> g - e, cost |-> 2 * r.cost,
         net |-> g - (g - e) - 2 * r.cost]
  BY DEF ClosedTrade
<1>8. n \in Nat /\ p.sig \in Nat /\ p.entry \in Nat
  BY SMT
<1> HIDE DEF g, e
<1> QED BY <1>2, <1>5, <1>6, <1>7, <1>8 DEF LedgerType

\* In particular the current session has its type.
LEMMA TypedSession ==
    ASSUME TypeOK
    PROVE  /\ run.sessions \in Seq(SessionType)
           /\ s > 0 => /\ s \in 1..Len(run.sessions)
                       /\ S \in SessionType
                       /\ S.ticks \in Seq(TickType)
                       /\ S.frames \in Seq(FrameType)
<1>1. run \in RunType /\ s \in 0..Len(run.sessions)
  BY DEF TypeOK
<1>2. run.sessions \in Seq(SessionType)
  BY <1>1 DEF RunType
<1>3. s > 0 => s \in 1..Len(run.sessions)
  BY <1>1, <1>2, SMT
<1> QED BY <1>1, <1>2, <1>3, SessionTyped DEF S

\* The engine's state is well typed and its indices stay in the streams.
THEOREM TypeCorrect == Spec => []TypeOK
<1>1. Init => TypeOK
  <2> SUFFICES ASSUME Init PROVE TypeOK
    OBVIOUS
  <2>1. /\ run \in RunType
        /\ Len(run.sessions) <= MaxSessions
        /\ \A n \in DOMAIN run.sessions : Len(run.sessions[n].ticks) <= MaxTicks
    BY RunsAssumption DEF Init, Ready
  <2>2. 0 \in 0..Len(run.sessions)
    <3>1. run.sessions \in Seq(SessionType)
      BY <2>1 DEF RunType
    <3> QED BY <3>1, SMT
  <2>3. NoPosition \in [sig : Nat, entry : Nat]
    BY SMT DEF NoPosition
  <2>4. <<>> \in Seq(JournalType) /\ <<>> \in Seq(LedgerType)
    BY SMT
  <2>5. pc = "session" /\ s = 0 /\ i = 0 /\ sig = 0 /\ wasOpen = FALSE /\ selected = 0
        /\ position = NoPosition /\ journal = <<>> /\ ledger = <<>>
    BY DEF Init, Ready
  <2> QED BY <2>1, <2>2, <2>3, <2>4, <2>5 DEF TypeOK, IsOpen
<1>2. TypeOK /\ [Next]_vars => TypeOK'
  <2> SUFFICES ASSUME TypeOK, [Next]_vars PROVE TypeOK'
    OBVIOUS
  <2>0. /\ run.sessions \in Seq(SessionType)
        /\ s > 0 => /\ S \in SessionType
                    /\ S.ticks \in Seq(TickType)
                    /\ S.frames \in Seq(FrameType)
    BY TypedSession
  <2>a. ASSUME Raise PROVE TypeOK'
    BY <2>a DEF Raise, TypeOK, S, IsOpen, NoPosition
  <2>b. ASSUME NEW k \in Nat, NEW o \in {"FILLED", "FILL_REJECTED", "DISCARDED"},
               NEW why \in Reasons, Deliver(k, o, why)
        PROVE  journal' \in Seq(JournalType)
    <3>1. Record(s, k, o, why) \in JournalType
      BY SMT DEF TypeOK, Record, JournalType
    <3> QED BY <3>1, <2>b, SMT DEF Deliver, TypeOK
  <2>c. ASSUME NEW reason \in {"TAKE_PROFIT", "STOP_LOSS", "SESSION_END"},
               NEW there \in {"fill", "drain"}, ClosePosition(reason, there), IsOpen,
               s > 0, i \in DOMAIN S.ticks
        PROVE  TypeOK'
    <3>1. CASE Raise
      BY <2>a, <3>1
    <3>2. CASE ~Raise
      <4>1. ClosedTrade(run, s, position, i, reason) \in LedgerType
        BY <2>c, ClosedTradeTyped, SMTT(30) DEF TypeOK, S
      <4>2. ledger' \in Seq(LedgerType)
        BY <4>1, <3>2, <2>c, SMTT(30) DEF ClosePosition, TypeOK
      <4>3. /\ position' = NoPosition /\ pc' = there
            /\ UNCHANGED <<run, s, i, sig, wasOpen, selected, journal>>
        BY <3>2, <2>c DEF ClosePosition
      <4>4. position' \in [sig : Nat, entry : Nat] /\ ~IsOpen'
        BY <4>3, SMT DEF NoPosition, IsOpen
      <4>5. pc' \in {"fill", "drain"} /\ S' = S
        BY <4>3, <2>c DEF S
      <4> QED BY <4>2, <4>3, <4>4, <4>5, <2>c DEF TypeOK
    <3> QED BY <3>1, <3>2
  <2>1. CASE StartSession
    <3>1. CASE Raise
      BY <2>a, <3>1
    <3>2. CASE ~Raise
      <4>1. s + 1 \in 1..Len(run.sessions) /\ s \in Nat
        BY <2>1, SMT DEF StartSession, TypeOK
      <4>2. /\ run.sessions[s + 1] \in SessionType
            /\ run.sessions[s + 1].ticks \in Seq(TickType)
        BY <4>1, SessionTyped DEF TypeOK
      <4>3. /\ NextSignal(run.sessions[s + 1], 0) \in Nat
            /\ NextSignal(run.sessions[s + 1], 0) # 0 =>
                 NextSignal(run.sessions[s + 1], 0) \in DOMAIN run.sessions[s + 1].frames
        BY <4>2, NextSignalForward, NextSignalNat
      <4>4. /\ s' = s + 1 /\ i' = 1
            /\ sig' = NextSignal(run.sessions[s + 1], 0)
            /\ position' = NoPosition
            /\ pc' = IF run.sessions[s + 1].ticks = <<>> THEN "drain" ELSE "tick"
            /\ UNCHANGED <<run, wasOpen, selected, journal, ledger>>
        BY <3>2, <2>1 DEF StartSession
      <4>5. s' \in 0..Len(run.sessions) /\ s' > 0
        BY <4>1, <4>4, SMT
      <4>6. run.sessions[s + 1].ticks # <<>> => 1 \in DOMAIN run.sessions[s + 1].ticks
        BY <4>2, SMT
      <4>7. position' \in [sig : Nat, entry : Nat] /\ ~IsOpen'
        BY <4>4, SMT DEF NoPosition, IsOpen
      <4> QED BY <4>3, <4>4, <4>5, <4>6, <4>7 DEF TypeOK, S
    <3> QED BY <3>1, <3>2
  <2>2. CASE OpenTick
    <3>1. CASE Raise
      BY <2>a, <3>1
    <3>2. CASE ~Raise
      <4>1. /\ wasOpen' = IsOpen /\ selected' = 0 /\ pc' = "signals"
            /\ UNCHANGED <<run, s, i, sig, position, journal, ledger>>
        BY <3>2, <2>2 DEF OpenTick
      <4>2. wasOpen' \in BOOLEAN
        BY <4>1 DEF IsOpen
      <4>3. selected' \in Nat
        BY <4>1, SMT
      <4> QED BY <4>1, <4>2, <4>3, <2>2 DEF OpenTick, TypeOK, S, IsOpen
    <3> QED BY <3>1, <3>2
  <2>3. CASE TakeSignal
    <3>1. CASE Raise
      BY <2>a, <3>1
    <3>2. CASE ~Raise
      <4>1. s > 0 /\ S \in SessionType /\ sig \in Nat
        BY <2>0, <2>3 DEF TakeSignal, TypeOK
      <4>2. /\ NextSignal(S, sig) \in Nat
            /\ NextSignal(S, sig) # 0 => NextSignal(S, sig) \in DOMAIN S.frames
        BY <4>1, NextSignalForward, NextSignalNat
      <4>3. journal' \in Seq(JournalType)
        <5>1. journal \in Seq(JournalType)
          BY DEF TypeOK
        <5> QED BY <5>1, <4>1, <3>2, <2>3, <2>b DEF TakeSignal, Reasons
      <4>4. selected' \in Nat
        BY <4>1, <3>2, <2>3 DEF TakeSignal, TypeOK
      <4>5. sig' = NextSignal(S, sig) /\ UNCHANGED <<run, pc, s, i, wasOpen, position, ledger>>
        BY <3>2, <2>3 DEF TakeSignal
      <4> QED BY <4>1, <4>2, <4>3, <4>4, <4>5, SMT DEF TypeOK, S, IsOpen
    <3> QED BY <3>1, <3>2
  <2>4. CASE CheckExit
    <3>1. CASE UNCHANGED <<run, s, i, sig, wasOpen, selected, position, journal, ledger>>
               /\ pc' = "fill"
      BY <3>1, <2>4, SMT DEF CheckExit, TypeOK, S, IsOpen
    <3>2. CASE \E reason \in {"TAKE_PROFIT", "STOP_LOSS"} :
                 IsOpen /\ ClosePosition(reason, "fill")
      BY <3>2, <2>4, <2>c DEF CheckExit, TypeOK
    <3> QED BY <3>1, <3>2, <2>4, SMT DEF CheckExit, Touched
  <2>5. CASE Fill
    <3>1. CASE Raise
      BY <2>a, <3>1
    <3>2. CASE ~Raise
      <4>1. s > 0 /\ i \in DOMAIN S.ticks /\ selected \in Nat /\ i \in Nat
        BY <2>5 DEF Fill, TypeOK
      <4>2. journal' \in Seq(JournalType)
        <5>1. journal \in Seq(JournalType)
          BY DEF TypeOK
        <5> QED BY <5>1, <4>1, <3>2, <2>5, <2>b DEF Fill, Reasons
      <4>3. /\ position' = position \/ position' = [sig |-> selected, entry |-> i]
            /\ pc' = "close"
            /\ UNCHANGED <<run, s, i, sig, wasOpen, selected, ledger>>
        BY <3>2, <2>5 DEF Fill
      <4> QED BY <4>1, <4>2, <4>3, SMTT(30) DEF TypeOK, S, IsOpen
    <3> QED BY <3>1, <3>2
  <2>6. CASE SessionEnd
    <3>1. CASE IsOpen
      BY <3>1, <2>6, <2>c DEF SessionEnd, TypeOK
    <3>2. CASE ~IsOpen
      BY <3>2, <2>6 DEF SessionEnd, TypeOK, S, IsOpen
    <3> QED BY <3>1, <3>2
  <2>7. CASE Advance
    <3>1. i + 1 \in DOMAIN S.ticks
      BY <2>0, <2>7, SMT DEF Advance, TypeOK, LastTick
    <3> QED BY <3>1, <2>7, SMT DEF Advance, TypeOK, S, IsOpen
  <2>8. CASE Drain
    <3>1. s > 0 /\ S \in SessionType /\ sig \in Nat
      BY <2>0, <2>8 DEF Drain, TypeOK
    <3>2. /\ NextSignal(S, sig) \in Nat
          /\ NextSignal(S, sig) # 0 => NextSignal(S, sig) \in DOMAIN S.frames
      BY <3>1, NextSignalForward, NextSignalNat
    <3>3. journal' \in Seq(JournalType)
      BY <3>1, <2>8, <2>b DEF Drain, DrainReason, Reasons
    <3>4. /\ sig' \in {sig, NextSignal(S, sig)}
          /\ pc' \in {"drain", "failed"}
          /\ UNCHANGED <<run, s, i, wasOpen, selected, position, ledger>>
      BY <2>8 DEF Drain
    <3> QED BY <3>1, <3>2, <3>3, <3>4, SMT DEF TypeOK, S, IsOpen
  <2>9. CASE EndSession
    BY <2>9 DEF EndSession, TypeOK, S, IsOpen
  <2>10. CASE Finish
    BY <2>10 DEF Finish, TypeOK, S, IsOpen
  <2>11. CASE UNCHANGED vars
    BY <2>11 DEF vars, TypeOK, S, IsOpen
  <2> QED BY <2>1, <2>2, <2>3, <2>4, <2>5, <2>6, <2>7, <2>8, <2>9, <2>10, <2>11 DEF Next
<1> QED BY <1>1, <1>2, PTL DEF Spec

(***************************************************************************)
(* The reason of an exit bounds the result of the trade.                   *)
(***************************************************************************)
\* Slippage is paid once on each side, whatever the direction.
LEMMA SlippageImpact ==
    ASSUME NEW r \in RunType, NEW a \in Int, NEW b \in Int
    PROVE  Gain(r, a, b) - Gain(r, EntryPrice(r, a), ExitPrice(r, b)) = 2 * r.slip
<1>1. r.slip \in Nat
  BY DEF RunType
<1>2. CASE r.dir = "BUY"
  <2>1. (b - a) - ((b - r.slip) - (a + r.slip)) = 2 * r.slip
    BY <1>1, SMT
  <2> QED BY <2>1, <1>2 DEF Gain, EntryPrice, ExitPrice
<1>3. CASE r.dir # "BUY"
  <2>1. (a - b) - ((a - r.slip) - (b + r.slip)) = 2 * r.slip
    BY <1>1, SMT
  <2> QED BY <2>1, <1>3 DEF Gain, EntryPrice, ExitPrice
<1> QED BY <1>2, <1>3

\* A touched level bounds the market gain from the entry to the tick.
LEMMA TouchBounds ==
    ASSUME NEW r \in RunType, NEW a \in Int, NEW b \in Int
    PROVE  /\ Touched(r, a, b) = "STOP_LOSS" => Gain(r, a, b) <= r.slip - r.sl
           /\ Touched(r, a, b) = "TAKE_PROFIT" => Gain(r, a, b) >= r.slip + r.tp
<1>1. r.slip \in Nat /\ r.tp \in Nat /\ r.sl \in Nat
  BY DEF RunType
<1>2. CASE r.dir = "BUY"
  <2>1. /\ Touched(r, a, b) = "STOP_LOSS" => b <= (a + r.slip) - r.sl
        /\ Touched(r, a, b) = "TAKE_PROFIT" => b >= (a + r.slip) + r.tp
    BY <1>2 DEF Touched, Target, Stop, EntryPrice
  <2>2. Gain(r, a, b) = b - a
    BY <1>2 DEF Gain
  <2> QED BY <1>1, <2>1, <2>2, SMT
<1>3. CASE r.dir # "BUY"
  <2>1. /\ Touched(r, a, b) = "STOP_LOSS" => b >= (a - r.slip) + r.sl
        /\ Touched(r, a, b) = "TAKE_PROFIT" => b <= (a - r.slip) - r.tp
    BY <1>3 DEF Touched, Target, Stop, EntryPrice
  <2>2. Gain(r, a, b) = a - b
    BY <1>3 DEF Gain
  <2> QED BY <1>1, <2>1, <2>2, SMT
<1> QED BY <1>2, <1>3

\* What ReasonBoundsResult says of one trade t of run r.
ResultBounded(r, t) ==
    /\ t.impact = 2 * r.slip
    /\ t.net = t.gross - t.impact - t.cost
    /\ t.reason = "STOP_LOSS" => t.net <= -(r.sl + r.slip + 2 * r.cost)
    /\ t.reason = "TAKE_PROFIT" => t.net >= r.tp - r.slip - 2 * r.cost

\* A closed trade meets the bounds of its reason, given the level it touched.
LEMMA ClosedTradeBounded ==
    ASSUME NEW r \in RunType, NEW n, NEW p, NEW x, NEW reason,
           NEW a \in Int, a = r.sessions[n].ticks[p.entry].price,
           NEW b \in Int, b = r.sessions[n].ticks[x].price,
           reason \in {"TAKE_PROFIT", "STOP_LOSS"} => reason = Touched(r, a, b)
    PROVE  ResultBounded(r, ClosedTrade(r, n, p, x, reason))
<1> DEFINE t == ClosedTrade(r, n, p, x, reason)
<1>1. /\ r.slip \in Nat /\ r.tp \in Nat /\ r.sl \in Nat /\ r.cost \in Nat
      /\ Gain(r, a, b) \in Int
  BY PricesTyped DEF RunType
<1>2. /\ t.reason = reason
      /\ t.gross = Gain(r, a, b)
      /\ t.impact = Gain(r, a, b) - Gain(r, EntryPrice(r, a), ExitPrice(r, b))
      /\ t.cost = 2 * r.cost
      /\ t.net = t.gross - t.impact - t.cost
  BY DEF ClosedTrade
<1>3. t.impact = 2 * r.slip
  BY <1>2, SlippageImpact
<1> HIDE DEF t
<1>4. t.net = Gain(r, a, b) - 2 * r.slip - 2 * r.cost
  BY <1>2, <1>3
<1>5. /\ t.reason = "STOP_LOSS" => Gain(r, a, b) <= r.slip - r.sl
      /\ t.reason = "TAKE_PROFIT" => Gain(r, a, b) >= r.slip + r.tp
  BY <1>2, TouchBounds
<1>6. /\ t.reason = "STOP_LOSS" => t.net <= -(r.sl + r.slip + 2 * r.cost)
      /\ t.reason = "TAKE_PROFIT" => t.net >= r.tp - r.slip - 2 * r.cost
  BY <1>1, <1>4, <1>5, SMT
<1> QED BY <1>2, <1>3, <1>6 DEF ResultBounded, t

\* A step adds at most one trade to the ledger: the open position, closed at
\* the current tick for the level it touches there or at the session end.
LEMMA LedgerStep ==
    ASSUME TypeOK, Next
    PROVE  /\ run' = run
           /\ \/ ledger' = ledger
              \/ /\ IsOpen /\ s > 0 /\ i \in DOMAIN S.ticks
                 /\ \E reason \in {"TAKE_PROFIT", "STOP_LOSS", "SESSION_END"} :
                      /\ ledger' = Append(ledger, ClosedTrade(run, s, position, i, reason))
                      /\ reason \in {"TAKE_PROFIT", "STOP_LOSS"} =>
                           reason = Touched(run, S.ticks[position.entry].price, Tick.price)
<1>1. CASE StartSession
  BY <1>1 DEF StartSession, Raise
<1>2. CASE OpenTick
  BY <1>2 DEF OpenTick, Raise
<1>3. CASE TakeSignal
  BY <1>3 DEF TakeSignal, Raise
<1>4. CASE CheckExit
  <2>1. s > 0 /\ i \in DOMAIN S.ticks
    BY <1>4 DEF CheckExit, TypeOK
  <2>2. CASE ~IsOpen
    BY <2>2, <1>4 DEF CheckExit
  <2>3. CASE IsOpen
    <3> DEFINE touched == Touched(run, S.ticks[position.entry].price, Tick.price)
    <3>1. touched \in {"TAKE_PROFIT", "STOP_LOSS", "NONE"}
      BY DEF Touched
    <3>2. CASE touched = "NONE"
      BY <3>2, <2>3, <1>4 DEF CheckExit
    <3>3. CASE touched # "NONE"
      <4>1. ClosePosition(touched, "fill")
        BY <3>3, <2>3, <1>4 DEF CheckExit
      <4> HIDE DEF touched
      <4>2. CASE Raise
        BY <4>2 DEF Raise
      <4>3. CASE ~Raise
        <5>1. ledger' = Append(ledger, ClosedTrade(run, s, position, i, touched)) /\ run' = run
          BY <4>1, <4>3 DEF ClosePosition
        <5> QED BY <5>1, <3>1, <3>3, <2>1, <2>3 DEF touched
      <4> QED BY <4>2, <4>3
    <3> QED BY <3>2, <3>3
  <2> QED BY <2>2, <2>3
<1>5. CASE Fill
  BY <1>5 DEF Fill, Raise
<1>6. CASE SessionEnd
  <2>1. s > 0 /\ i \in DOMAIN S.ticks
    BY <1>6 DEF SessionEnd, TypeOK
  <2> QED BY <2>1, <1>6 DEF SessionEnd, ClosePosition, Raise
<1>7. CASE Advance
  BY <1>7 DEF Advance
<1>8. CASE Drain
  BY <1>8 DEF Drain
<1>9. CASE EndSession
  BY <1>9 DEF EndSession
<1>10. CASE Finish
  BY <1>10 DEF Finish
<1> QED BY <1>1, <1>2, <1>3, <1>4, <1>5, <1>6, <1>7, <1>8, <1>9, <1>10 DEF Next

\* In every behaviour a stopped trade loses at least the stop distance and all
\* frictions, a target pays at least its distance less the exit frictions, and
\* the slippage impact is two slips (_closed_trade and the exit check).
THEOREM ResultsBounded == Spec => []ReasonBoundsResult
<1>1. Init => ReasonBoundsResult
  BY SMT DEF Init, Ready, ReasonBoundsResult, Trades
<1>2. TypeOK /\ ReasonBoundsResult /\ [Next]_vars => ReasonBoundsResult'
  <2> SUFFICES ASSUME TypeOK, ReasonBoundsResult, [Next]_vars PROVE ReasonBoundsResult'
    OBVIOUS
  <2>1. CASE run' = run /\ ledger' = ledger
    BY <2>1 DEF ReasonBoundsResult, Trades
  <2>2. ASSUME Next, ledger' # ledger PROVE ReasonBoundsResult'
    <3>1. PICK reason \in {"TAKE_PROFIT", "STOP_LOSS", "SESSION_END"} :
            /\ ledger' = Append(ledger, ClosedTrade(run, s, position, i, reason))
            /\ reason \in {"TAKE_PROFIT", "STOP_LOSS"} =>
                 reason = Touched(run, S.ticks[position.entry].price, Tick.price)
      BY <2>2, LedgerStep
    <3>2. run' = run /\ IsOpen /\ s > 0 /\ i \in DOMAIN S.ticks
      BY <2>2, LedgerStep
    <3>3. /\ run \in RunType
          /\ S.ticks[position.entry].price \in Int /\ Tick.price \in Int
      <4>1. s \in 1..Len(run.sessions)
        BY <3>2, TypedSession
      <4>2. position.entry \in DOMAIN S.ticks /\ run \in RunType
        BY <3>2 DEF TypeOK
      <4>3. S.ticks[position.entry] \in TickType /\ Tick \in TickType
        BY <4>1, <4>2, <3>2, SessionTyped DEF S, Tick
      <4> QED BY <4>2, <4>3 DEF TickType
    <3> DEFINE new == ClosedTrade(run, s, position, i, reason)
    <3>4. ResultBounded(run, new)
      BY <3>1, <3>3, ClosedTradeBounded DEF S, Tick
    <3> HIDE DEF new
    <3>5. ledger \in Seq(LedgerType) /\ ledger' = Append(ledger, new)
      BY <3>1 DEF TypeOK, new
    <3>6. \A t \in DOMAIN ledger' : ledger'[t] = new \/ (t \in DOMAIN ledger /\ ledger'[t] = ledger[t])
      BY <3>5, SMT
    <3>7. \A t \in Trades' : ResultBounded(run, t)
      BY <3>4, <3>6 DEF ReasonBoundsResult, Trades, ResultBounded
    <3> QED BY <3>7, <3>2 DEF ReasonBoundsResult, ResultBounded
  <2> QED BY <2>1, <2>2, LedgerStep DEF vars
<1> QED BY <1>1, <1>2, TypeCorrect, PTL DEF Spec

(***************************************************************************)
(* The position slot implements the single position.                       *)
(***************************************************************************)
LastTrade == ledger[Len(ledger)]

\* The snapshot wasOpen agrees with the slot until the exit check, and after it
\* still covers a slot that is open; between sessions the slot is empty.
SlotInv ==
    /\ pc = "signals" => (wasOpen <=> IsOpen)
    /\ pc = "fill" => (IsOpen => wasOpen)
    /\ pc \in {"session", "drain", "done"} => ~IsOpen

\* The open position was entered before the current tick, unless this very
\* tick filled it, and never on the last tick.
EntryInv ==
    IsOpen => /\ position.entry < Len(S.ticks)
              /\ position.entry <= i
              /\ position.entry = i => pc \in {"close", "failed"}

\* The last trade lies before the open position and before the current tick;
\* when it was closed by the current tick, that tick can fill no signal.
OrderInv ==
    ledger # <<>> =>
        /\ LastTrade.session > 0 /\ LastTrade.session <= s /\ LastTrade.exit > 0
        /\ LastTrade.session = s =>
              /\ IsOpen => LastTrade.exit < position.entry
              /\ LastTrade.exit <= i
              /\ LastTrade.exit = i =>
                    \/ pc \in {"close", "drain", "session", "done", "failed"}
                    \/ pc = "fill" /\ wasOpen

PositionInv == SlotInv /\ EntryInv /\ OrderInv

\* Appending a trade appends to the sequence and becomes its last element.
LEMMA AppendTrade ==
    ASSUME ledger \in Seq(LedgerType), NEW new \in LedgerType, ledger' = Append(ledger, new)
    PROVE  /\ ledger' # <<>>
           /\ ledger' \in Seq(LedgerType)
           /\ LastTrade' = new
<1>1. /\ Len(ledger') = Len(ledger) + 1
      /\ ledger'[Len(ledger) + 1] = new
      /\ ledger' \in Seq(LedgerType)
  BY SMT
<1>2. ledger' # <<>>
  BY <1>1, SMT
<1> QED BY <1>1, <1>2 DEF LastTrade

\* An append never leaves a sequence as it was.
LEMMA AppendDiffers ==
    ASSUME NEW T, NEW q \in Seq(T), NEW x
    PROVE  Append(q, x) # q
<1>1. q \in Seq(T \cup {x})
  BY SeqMonotonic
<1>2. Len(Append(q, x)) = Len(q) + 1 /\ Len(q) \in Nat
  BY <1>1, SMT
<1> QED BY <1>2, SMT

\* The last trade of a typed ledger has the type of a trade.
LEMMA LastTradeTyped ==
    ASSUME ledger \in Seq(LedgerType), ledger # <<>>
    PROVE  /\ LastTrade \in LedgerType
           /\ LastTrade.session \in Nat /\ LastTrade.exit \in Nat
<1>1. LastTrade \in LedgerType
  BY SMT DEF LastTrade
<1> QED BY <1>1 DEF LedgerType

\* No position is held before the first session.
LEMMA PositionInvInit == Init => PositionInv
  BY DEF Init, Ready, PositionInv, SlotInv, EntryInv, OrderInv, IsOpen

\* Closing the open position at the current tick keeps the invariant.
LEMMA CloseKeepsOrder ==
    ASSUME TypeOK, TypeOK', PositionInv, IsOpen, s > 0, i \in DOMAIN S.ticks,
           NEW reason \in {"TAKE_PROFIT", "STOP_LOSS", "SESSION_END"},
           ClosePosition(reason, pc'),
           pc' = "drain" \/ (pc' = "fill" /\ wasOpen), ~Raise
    PROVE  PositionInv'
<1>1. /\ ledger' = Append(ledger, ClosedTrade(run, s, position, i, reason))
      /\ position' = NoPosition
      /\ UNCHANGED <<run, s, i, sig, wasOpen, selected, journal>>
  BY DEF ClosePosition
<1>2. ClosedTrade(run, s, position, i, reason) \in LedgerType
  <2>1. s \in 1..Len(run.sessions)
    BY TypedSession
  <2> QED BY <2>1, ClosedTradeTyped DEF TypeOK, S
<1>3. LastTrade' = ClosedTrade(run, s, position, i, reason)
  BY <1>1, <1>2, AppendTrade DEF TypeOK
<1>4. LastTrade'.session = s /\ LastTrade'.exit = i
  BY <1>3 DEF ClosedTrade
<1>5. s > 0 /\ i > 0 /\ s \in Nat /\ i \in Nat
  <2>1. s \in 1..Len(run.sessions) /\ S.ticks \in Seq(TickType)
    BY TypedSession
  <2> QED BY <2>1, SMT
<1>6. ~IsOpen'
  BY <1>1 DEF IsOpen
<1>7. SlotInv' /\ EntryInv'
  BY <1>6, <1>1 DEF SlotInv, EntryInv
<1>8. OrderInv'
  BY <1>1, <1>4, <1>5, <1>6, SMT DEF OrderInv
<1> QED BY <1>7, <1>8 DEF PositionInv

\* Every step keeps the position slot in order.
LEMMA PositionInvStep ==
    ASSUME TypeOK, TypeOK', PositionInv, [Next]_vars
    PROVE  PositionInv'
<1>0. /\ ledger \in Seq(LedgerType) /\ s \in Nat /\ i \in Nat
      /\ ledger # <<>> => LastTrade.session \in Nat /\ LastTrade.exit \in Nat
  <2>1. ledger \in Seq(LedgerType) /\ s \in 0..Len(run.sessions) /\ i \in Nat
    BY DEF TypeOK
  <2>2. s \in Nat
    BY <2>1, SMT
  <2> QED BY <2>1, <2>2, LastTradeTyped
<1>a. ASSUME Raise PROVE PositionInv'
  BY <1>a DEF Raise, PositionInv, SlotInv, EntryInv, OrderInv, IsOpen, LastTrade, S
<1>1. CASE StartSession
  <2>1. CASE Raise
    BY <2>1, <1>a
  <2>2. CASE ~Raise
    <3>1. /\ s' = s + 1 /\ i' = 1 /\ ledger' = ledger /\ ~IsOpen'
          /\ pc' \in {"drain", "tick"}
      BY <2>2, <1>1 DEF StartSession, IsOpen
    <3>2. SlotInv' /\ EntryInv'
      BY <3>1 DEF SlotInv, EntryInv
    <3>3. OrderInv'
      <4>1. LastTrade' = LastTrade
        BY <3>1 DEF LastTrade
      <4> QED BY <4>1, <3>1, <1>0, SMT DEF PositionInv, OrderInv
    <3> QED BY <3>2, <3>3 DEF PositionInv
  <2> QED BY <2>1, <2>2
<1>2. CASE OpenTick
  <2>1. CASE Raise
    BY <2>1, <1>a
  <2>2. CASE ~Raise
    BY <2>2, <1>2 DEF OpenTick, PositionInv, SlotInv, EntryInv, OrderInv, IsOpen, LastTrade, S
  <2> QED BY <2>1, <2>2
<1>3. CASE TakeSignal
  <2>1. CASE Raise
    BY <2>1, <1>a
  <2>2. CASE ~Raise
    <3>1. UNCHANGED <<run, pc, s, i, wasOpen, position, ledger>>
      BY <2>2, <1>3 DEF TakeSignal
    <3> QED BY <3>1 DEF PositionInv, SlotInv, EntryInv, OrderInv, IsOpen, LastTrade, S
  <2> QED BY <2>1, <2>2
<1>4. CASE CheckExit
  <2>0. s > 0 /\ i \in DOMAIN S.ticks /\ pc = "signals"
    BY <1>4 DEF CheckExit, TypeOK
  <2>1. CASE Raise
    BY <2>1, <1>a
  <2>2. CASE ~Raise /\ ledger' = ledger
    <3>1. /\ pc' = "fill"
          /\ UNCHANGED <<run, s, i, sig, wasOpen, selected, position, journal, ledger>>
      <4>1. SUFFICES ASSUME IsOpen,
                            Touched(run, S.ticks[position.entry].price, Tick.price) # "NONE"
                     PROVE  FALSE
        BY <2>2, <1>4 DEF CheckExit
      <4>2. ledger' = Append(ledger, ClosedTrade(run, s, position, i,
                        Touched(run, S.ticks[position.entry].price, Tick.price)))
        BY <4>1, <2>2, <1>4 DEF CheckExit, ClosePosition
      <4> QED BY <4>2, <2>2, <1>0, AppendDiffers
    <3> QED BY <3>1, <2>0 DEF PositionInv, SlotInv, EntryInv, OrderInv, IsOpen, LastTrade, S
  <2>3. CASE ~Raise /\ ledger' # ledger
    <3>1. PICK reason \in {"TAKE_PROFIT", "STOP_LOSS"} :
            IsOpen /\ ClosePosition(reason, "fill")
      BY <2>3, <1>4 DEF CheckExit, Touched
    <3>2. pc' = "fill" /\ wasOpen
      BY <3>1, <2>3, <2>0 DEF ClosePosition, PositionInv, SlotInv
    <3> QED BY <3>1, <3>2, <2>0, <2>3, CloseKeepsOrder
  <2> QED BY <2>1, <2>2, <2>3
<1>5. CASE Fill
  <2>0. s > 0 /\ i \in DOMAIN S.ticks /\ pc = "fill" /\ S.ticks \in Seq(TickType)
    BY <1>5, TypedSession DEF Fill, TypeOK
  <2>1. CASE Raise
    BY <2>1, <1>a
  <2>2. CASE ~Raise /\ position' = position
    <3>1. pc' = "close" /\ UNCHANGED <<run, s, i, wasOpen, position, ledger>>
      BY <2>2, <1>5 DEF Fill
    <3> QED BY <3>1, <2>0 DEF PositionInv, SlotInv, EntryInv, OrderInv, IsOpen, LastTrade, S
  <2>3. CASE ~Raise /\ position' # position
    <3>1. /\ pc' = "close" /\ position' = [sig |-> selected, entry |-> i] /\ ~wasOpen
          /\ ~LastTick /\ UNCHANGED <<run, s, i, wasOpen, ledger>>
      BY <2>3, <1>5 DEF Fill
    <3>2. SlotInv'
      BY <3>1 DEF SlotInv
    <3>3. position'.entry = i /\ i < Len(S.ticks)
      BY <3>1, <2>0, SMT DEF LastTick
    <3>4. EntryInv'
      BY <3>1, <3>3, <1>0, SMT DEF EntryInv, S
    <3>5. LastTrade' = LastTrade
      BY <3>1 DEF LastTrade
    <3>6. OrderInv'
      BY <3>1, <3>3, <3>5, <2>0, <1>0, SMT DEF OrderInv, PositionInv
    <3> QED BY <3>2, <3>4, <3>6 DEF PositionInv
  <2> QED BY <2>1, <2>2, <2>3
<1>6. CASE SessionEnd
  <2>0. s > 0 /\ i \in DOMAIN S.ticks /\ pc = "close"
    BY <1>6 DEF SessionEnd, TypeOK
  <2>1. CASE Raise
    BY <2>1, <1>a
  <2>2. CASE ~IsOpen
    <3>1. pc' = "drain" /\ UNCHANGED <<run, s, i, wasOpen, position, ledger>>
      BY <2>2, <1>6 DEF SessionEnd
    <3> QED BY <3>1, <2>0, <2>2 DEF PositionInv, SlotInv, EntryInv, OrderInv, IsOpen, LastTrade, S
  <2>3. CASE ~Raise /\ IsOpen
    <3>1. ClosePosition("SESSION_END", "drain") /\ pc' = "drain"
      BY <2>3, <1>6 DEF SessionEnd, ClosePosition
    <3> QED BY <3>1, <2>0, <2>3, CloseKeepsOrder
  <2> QED BY <2>1, <2>2, <2>3
<1>7. CASE Advance
  <2>1. /\ pc' = "tick" /\ i' = i + 1
        /\ UNCHANGED <<run, s, wasOpen, position, ledger>>
    BY <1>7 DEF Advance
  <2>2. IsOpen' = IsOpen /\ S' = S /\ LastTrade' = LastTrade
    BY <2>1 DEF IsOpen, S, LastTrade
  <2>3. SlotInv'
    BY <2>1 DEF SlotInv
  <2>4. EntryInv'
    <3>1. position.entry \in Nat
      BY DEF TypeOK
    <3> QED BY <3>1, <2>1, <2>2, <1>0, SMT DEF EntryInv, PositionInv
  <2>5. OrderInv'
    BY <2>1, <2>2, <1>0, SMT DEF OrderInv, PositionInv
  <2> QED BY <2>3, <2>4, <2>5 DEF PositionInv
<1>8. CASE Drain
  <2>1. pc = "drain" /\ pc' \in {"drain", "failed"}
        /\ UNCHANGED <<run, s, i, wasOpen, position, ledger>>
    BY <1>8 DEF Drain
  <2> QED BY <2>1 DEF PositionInv, SlotInv, EntryInv, OrderInv, IsOpen, LastTrade, S
<1>9. CASE EndSession
  BY <1>9 DEF EndSession, PositionInv, SlotInv, EntryInv, OrderInv, IsOpen, LastTrade, S
<1>10. CASE Finish
  BY <1>10 DEF Finish, PositionInv, SlotInv, EntryInv, OrderInv, IsOpen, LastTrade, S
<1>11. CASE UNCHANGED vars
  BY <1>11 DEF vars, PositionInv, SlotInv, EntryInv, OrderInv, IsOpen, LastTrade, S
<1> QED BY <1>1, <1>2, <1>3, <1>4, <1>5, <1>6, <1>7, <1>8, <1>9, <1>10, <1>11 DEF Next

\* The moments of a typed ledger, and what an append adds to them.
MomentsOf(t) == [entry |-> Moment(t.session, t.entry), exit |-> Moment(t.session, t.exit)]

\* The moments of a typed ledger are a sequence as long as the ledger.
LEMMA ClosedMomentsSeq ==
    ASSUME ledger \in Seq(LedgerType)
    PROVE  /\ ClosedMoments \in Seq({MomentsOf(t) : t \in LedgerType})
           /\ Len(ClosedMoments) = Len(ledger)
           /\ \A t \in 1..Len(ledger) : ClosedMoments[t] = MomentsOf(ledger[t])
<1>1. /\ Len(ledger) \in Nat /\ DOMAIN ledger = 1..Len(ledger)
      /\ \A t \in 1..Len(ledger) : ledger[t] \in LedgerType
  BY SMT
<1>2. ClosedMoments = [t \in 1..Len(ledger) |-> MomentsOf(ledger[t])]
  BY <1>1 DEF ClosedMoments, MomentsOf
<1>3. \A t \in 1..Len(ledger) : MomentsOf(ledger[t]) \in {MomentsOf(u) : u \in LedgerType}
  BY <1>1
<1>4. ClosedMoments \in Seq({MomentsOf(t) : t \in LedgerType})
  BY <1>1, <1>2, <1>3, IsASeq
<1>5. Len(ClosedMoments) = Len(ledger)
  BY <1>1, <1>2, <1>4, LenProperties, SMT
<1> QED BY <1>2, <1>4, <1>5

\* A trade appended to the ledger appends its moments.
LEMMA ClosedMomentsAppend ==
    ASSUME ledger \in Seq(LedgerType), NEW new \in LedgerType, ledger' = Append(ledger, new)
    PROVE  ClosedMoments' = Append(ClosedMoments, MomentsOf(new))
<1> DEFINE M == {MomentsOf(t) : t \in LedgerType}
           longer == Append(ClosedMoments, MomentsOf(new))
<1>1. /\ ledger' \in Seq(LedgerType) /\ Len(ledger) \in Nat
      /\ Len(ledger') = Len(ledger) + 1
      /\ ledger'[Len(ledger) + 1] = new
      /\ \A t \in 1..Len(ledger) : ledger'[t] = ledger[t]
  BY SMT
<1>2. /\ ClosedMoments \in Seq(M) /\ Len(ClosedMoments) = Len(ledger)
      /\ \A t \in 1..Len(ledger) : ClosedMoments[t] = MomentsOf(ledger[t])
  BY ClosedMomentsSeq
<1>3. /\ ClosedMoments' \in Seq(M) /\ Len(ClosedMoments') = Len(ledger')
      /\ \A t \in 1..Len(ledger') : ClosedMoments'[t] = MomentsOf(ledger'[t])
  <2>1. DOMAIN ledger' = 1..Len(ledger')
    BY <1>1, SMT
  <2>2. ClosedMoments' = [t \in 1..Len(ledger') |-> MomentsOf(ledger'[t])]
    BY <2>1 DEF ClosedMoments, MomentsOf
  <2>3. Len(ledger') \in Nat /\ \A t \in 1..Len(ledger') : MomentsOf(ledger'[t]) \in M
    <3>1. \A t \in 1..Len(ledger') : ledger'[t] \in LedgerType
      BY <1>1, SMT
    <3> QED BY <3>1, <1>1, SMT
  <2>4. ClosedMoments' \in Seq(M)
    BY <2>2, <2>3, IsASeq
  <2>5. Len(ClosedMoments') = Len(ledger')
    BY <2>2, <2>3, <2>4, LenProperties, SMT
  <2> QED BY <2>2, <2>4, <2>5
<1>4. MomentsOf(new) \in M
  OBVIOUS
<1> HIDE DEF M
<1>5. /\ longer \in Seq(M) /\ Len(longer) = Len(ledger) + 1
      /\ longer[Len(ledger) + 1] = MomentsOf(new)
      /\ \A t \in 1..Len(ledger) : longer[t] = ClosedMoments[t]
  BY <1>1, <1>2, <1>4, AppendProperties, SMT
<1> HIDE DEF longer
<1>6. \A t \in 1..Len(ledger') : ClosedMoments'[t] = longer[t]
  <2> SUFFICES ASSUME NEW t \in 1..Len(ledger') PROVE ClosedMoments'[t] = longer[t]
    OBVIOUS
  <2>1. t \in 1..Len(ledger) \/ t = Len(ledger) + 1
    BY <1>1, SMT
  <2> QED BY <2>1, <1>1, <1>2, <1>3, <1>5
<1>7. Len(ClosedMoments') = Len(longer)
  BY <1>1, <1>3, <1>5
<1>8. ClosedMoments' = longer
  BY <1>3, <1>5, <1>6, <1>7, SeqEqual
<1> QED BY <1>8 DEF longer

\* A position is entered only by Fill, from an empty slot, at the current tick,
\* after the last trade.
LEMMA OpenStep ==
    ASSUME TypeOK, PositionInv, Next, position' # position, ledger' = ledger
    PROVE  /\ ~IsOpen /\ UNCHANGED <<run, s, i, ledger>> /\ position'.entry = i
           /\ s \in 1..MaxSessions /\ i \in 1..MaxTicks
           /\ ledger # <<>> => LastTrade.session < s \/ (LastTrade.session = s /\ LastTrade.exit < i)
<1>a. ASSUME NEW reason, NEW there, ClosePosition(reason, there) PROVE FALSE
  <2>1. ledger' = Append(ledger, ClosedTrade(run, s, position, i, reason))
    BY <1>a DEF ClosePosition, Raise
  <2> QED BY <2>1, AppendDiffers DEF TypeOK
<1>b. ~StartSession
  <2> SUFFICES ASSUME StartSession PROVE FALSE
    OBVIOUS
  <2>1. position' = NoPosition /\ pc = "session"
    BY DEF StartSession, Raise
  <2> QED BY <2>1 DEF PositionInv, SlotInv, IsOpen
<1>c. ~CheckExit
  BY <1>a DEF CheckExit
<1>d. ~SessionEnd
  BY <1>a DEF SessionEnd
<1>e. Fill
  BY <1>b, <1>c, <1>d DEF Next, OpenTick, TakeSignal, Advance, Drain, EndSession, Finish, Raise
<1>1. Fill /\ ~Raise /\ ~wasOpen /\ position' = [sig |-> selected, entry |-> i]
  BY <1>e DEF Fill, Raise
<1>2. /\ pc = "fill" /\ ~IsOpen /\ UNCHANGED <<run, s, i, ledger>>
      /\ s > 0 /\ i \in DOMAIN S.ticks
  BY <1>1 DEF Fill, Raise, PositionInv, SlotInv, TypeOK
<1>3. s \in 1..MaxSessions /\ i \in 1..MaxTicks
  <2>1. s \in 1..Len(run.sessions) /\ S.ticks \in Seq(TickType) /\ run.sessions \in Seq(SessionType)
    BY <1>2, TypedSession
  <2>2. Len(run.sessions) <= MaxSessions /\ Len(S.ticks) <= MaxTicks
    BY <2>1, SMT DEF TypeOK, S
  <2> QED BY <1>2, <2>1, <2>2, RunsAssumption, SMT
<1>4. ledger # <<>> => LastTrade.session < s \/ (LastTrade.session = s /\ LastTrade.exit < i)
  <2>1. ledger # <<>> => LastTrade.session \in Nat /\ LastTrade.exit \in Nat
    BY LastTradeTyped DEF TypeOK
  <2> QED BY <1>1, <1>2, <1>3, <2>1, SMT DEF PositionInv, OrderInv
<1> QED BY <1>1, <1>2, <1>3, <1>4

\* A step of the engine is a step of the single position, or leaves it alone.
LEMMA SinglePositionStep ==
    ASSUME TypeOK, TypeOK', PositionInv, [Next]_vars
    PROVE  [SP!Next]_SP!vars
<1>0. /\ ledger \in Seq(LedgerType) /\ s \in Nat /\ i \in Nat
      /\ position.entry \in Nat
      /\ ~IsOpen => position.entry = 0
      /\ IsOpen => position.entry # 0 /\ s > 0
  <2>0. IsOpen => s > 0 /\ position.entry \in DOMAIN S.ticks
    BY DEF TypeOK
  <2>1. IsOpen => s > 0 /\ position.entry \in 1..Len(S.ticks)
    BY <2>0, TypedSession, SMT
  <2>2. s \in Nat /\ position.entry \in Nat /\ i \in Nat /\ ledger \in Seq(LedgerType)
    BY SMT DEF TypeOK
  <2> QED BY <2>1, <2>2, SMT DEF IsOpen, NoPosition
<1>1. CASE ledger' = ledger /\ position' = position /\ s' = s
  BY <1>1 DEF SP!vars, ClosedMoments, Moment
<1>2. CASE ledger' = ledger /\ position' = position /\ s' # s
  <2>1. StartSession /\ position' = NoPosition
    BY <1>2, Zenon DEF Next, vars, StartSession, OpenTick, TakeSignal, CheckExit, Fill, SessionEnd,
                  Advance, Drain, EndSession, Finish, Raise, ClosePosition
  <2>2. Moment(s, position.entry)' = Moment(s, position.entry)
    BY <2>1, <1>2 DEF Moment, NoPosition
  <2> QED BY <2>2, <1>2 DEF SP!vars, ClosedMoments
<1>3. CASE ledger' # ledger
  <2>1. PICK reason \in {"TAKE_PROFIT", "STOP_LOSS", "SESSION_END"} :
          ledger' = Append(ledger, ClosedTrade(run, s, position, i, reason))
    BY <1>3, LedgerStep DEF vars
  <2>2. IsOpen /\ s > 0 /\ i \in DOMAIN S.ticks /\ run' = run
    BY <1>3, LedgerStep DEF vars
  <2>3. position' = NoPosition /\ s' = s /\ pc \in {"signals", "close"}
        /\ (pc = "close" => LastTick)
    BY <1>3, Zenon DEF Next, vars, StartSession, OpenTick, TakeSignal, CheckExit, Fill, SessionEnd,
                  Advance, Drain, EndSession, Finish, Raise, ClosePosition
  <2>4. /\ s \in 1..MaxSessions /\ i \in 1..MaxTicks
        /\ position.entry < i
    <3>1. s \in 1..Len(run.sessions) /\ S.ticks \in Seq(TickType) /\ run.sessions \in Seq(SessionType)
      BY <2>2, TypedSession
    <3>2. Len(run.sessions) <= MaxSessions /\ Len(S.ticks) <= MaxTicks
      BY <3>1, SMT DEF TypeOK, S
    <3>3. position.entry < i
      BY <2>2, <2>3, <1>0, SMT DEF PositionInv, EntryInv, LastTick
    <3> QED BY <2>2, <3>1, <3>2, <3>3, RunsAssumption, SMT
  <2> DEFINE new == ClosedTrade(run, s, position, i, reason)
             m == [session |-> s, tick |-> i]
             from == [session |-> s, tick |-> position.entry]
  <2>5. new \in LedgerType
    <3>1. s \in 1..Len(run.sessions)
      BY <2>2, TypedSession
    <3> QED BY <3>1, <2>2, ClosedTradeTyped DEF TypeOK, S
  <2>6. MomentsOf(new) = [entry |-> from, exit |-> m]
    <3>1. new.session = s /\ new.entry = position.entry /\ new.exit = i
      BY DEF ClosedTrade
    <3>2. i # 0 /\ position.entry # 0
      BY <1>0, <2>2, <2>4, SMT
    <3> QED BY <3>1, <3>2 DEF MomentsOf, Moment
  <2>7. ClosedMoments' = Append(ClosedMoments, [entry |-> from, exit |-> m])
    <3> HIDE DEF new
    <3> QED BY <1>0, <2>1, <2>5, <2>6, ClosedMomentsAppend DEF new
  <2>8. Moment(s, position.entry) = from /\ Moment(s, position.entry)' = SP!Flat
    BY <1>0, <2>2, <2>3 DEF Moment, NoPosition, SP!Flat
  <2>9. from # SP!Flat /\ SP!Before(from, m) /\ m.session = from.session
    BY <1>0, <2>2, <2>4 DEF SP!Flat, SP!Before
  <2>10. m \in [session : 1..MaxSessions, tick : 1..MaxTicks]
    BY <2>4
  <2>11. SP!Close(m)
    BY <2>7, <2>8, <2>9 DEF SP!Close
  <2> QED BY <2>10, <2>11 DEF SP!Next
<1>4. CASE ledger' = ledger /\ position' # position
  <2>1. /\ ~IsOpen /\ UNCHANGED <<run, s, i, ledger>> /\ position'.entry = i
        /\ s \in 1..MaxSessions /\ i \in 1..MaxTicks
        /\ ledger # <<>> =>
             LastTrade.session < s \/ (LastTrade.session = s /\ LastTrade.exit < i)
    BY <1>4, OpenStep DEF vars
  <2> DEFINE m == [session |-> s, tick |-> i]
  <2>2. m \in [session : 1..MaxSessions, tick : 1..MaxTicks]
    BY <2>1
  <2>3. Moment(s, position.entry) = SP!Flat /\ Moment(s, position.entry)' = m
    BY <1>0, <2>1, RunsAssumption, SMT DEF Moment, SP!Flat
  <2>4. ClosedMoments' = ClosedMoments
    BY <2>1 DEF ClosedMoments
  <2>5. SP!Before(SP!LastExit, m)
    <3>1. CASE ledger = <<>>
      <4>1. ClosedMoments = <<>>
        BY <3>1, <1>0, ClosedMomentsSeq, SMT
      <4> QED BY <4>1, <2>1, RunsAssumption, SMT DEF SP!LastExit, SP!Before, SP!Flat
    <3>2. CASE ledger # <<>>
      <4>1. /\ Len(ClosedMoments) = Len(ledger) /\ ClosedMoments # <<>>
            /\ ClosedMoments[Len(ledger)] = MomentsOf(LastTrade)
        <5>1. Len(ledger) \in 1..Len(ledger)
          BY <3>2, <1>0, SMT
        <5> QED BY <5>1, <1>0, ClosedMomentsSeq, SMT DEF LastTrade
      <4>2. SP!LastExit = Moment(LastTrade.session, LastTrade.exit)
        BY <4>1 DEF SP!LastExit, MomentsOf
      <4>3. LastTrade.exit > 0 /\ LastTrade.exit \in Nat
        BY <3>2, <1>0, LastTradeTyped DEF PositionInv, OrderInv
      <4>4. SP!LastExit = [session |-> LastTrade.session, tick |-> LastTrade.exit]
        BY <4>2, <4>3, SMT DEF Moment
      <4> QED BY <4>4, <2>1, <3>2 DEF SP!Before
    <3> QED BY <3>1, <3>2
  <2>6. SP!Open(m)
    BY <2>3, <2>4, <2>5 DEF SP!Open
  <2> QED BY <2>2, <2>6 DEF SP!Next
<1> QED BY <1>1, <1>2, <1>3, <1>4

\* The position slot and the ledger of the engine implement the single
\* position: trades never overlap, the tick that closes one never opens the
\* next, and no trade spans two sessions.
THEOREM EngineImplementsSinglePosition == Spec => ImplementsSinglePosition
<1>1. Init => SP!Init
  <2> SUFFICES ASSUME Init PROVE SP!Init
    OBVIOUS
  <2>1. Moment(s, position.entry) = SP!Flat
    BY DEF Init, Ready, Moment, NoPosition, SP!Flat
  <2>2. ClosedMoments = <<>>
    <3>1. ledger = <<>> /\ ledger \in Seq(LedgerType)
      BY EmptySeq DEF Init, Ready
    <3> QED BY <3>1, ClosedMomentsSeq, SMT
  <2> QED BY <2>1, <2>2 DEF SP!Init
<1>2. Spec => []PositionInv
  <2>1. TypeOK /\ TypeOK' /\ PositionInv /\ [Next]_vars => PositionInv'
    BY PositionInvStep
  <2> QED BY <2>1, PositionInvInit, TypeCorrect, PTL DEF Spec
<1>3. TypeOK /\ TypeOK' /\ PositionInv /\ [Next]_vars => [SP!Next]_SP!vars
  BY SinglePositionStep
<1> QED BY <1>1, <1>2, <1>3, TypeCorrect, PTL DEF Spec, ImplementsSinglePosition, SP!Spec

(***************************************************************************)
(* What becomes of signals and positions.                                  *)
(*                                                                         *)
(* The invariant says how far each stream has been consumed at each place  *)
(* of the loop, and what the loop remembers of it.                         *)
(***************************************************************************)
\* Tick a lies before tick b in the order of the stream.
TickBefore(a, b) == a.ts < b.ts \/ (a.ts = b.ts /\ a.seq < b.seq)

\* The first n ticks are accepted: metadata and order.
Accepted(S0, n) ==
    \A m \in 1..n :
        S0.ticks[m].ok /\ \A j \in 1..(m - 1) : TickBefore(S0.ticks[j], S0.ticks[m])

\* The frames up to the lookahead k are accepted, all of them when k is 0.
Screened(S0, k) ==
    /\ \A m \in DOMAIN S0.frames : (k = 0 \/ m <= k) => ~Refused(S0, m)
    /\ k = 0 => ~S0.trailing
    /\ k # 0 => S0.frames[k].kind = "hit"

\* The signals that the loop has taken from the generator when its lookahead is k.
Taken(S0, k) ==
    {m \in DOMAIN S0.frames : S0.frames[m].kind = "hit" /\ (k = 0 \/ m < k)}

\* The lookahead is not available yet at any of the first n ticks.
Ahead(S0, k, n) == k # 0 => \A j \in 1..n : S0.ticks[j].ts < S0.frames[k].close

\* No level is touched from tick a to tick b by a position entered at tick e.
Untouched(r, S0, e, a, b) ==
    \A j \in a..b : Touched(r, S0.ticks[e].price, S0.ticks[j].price) = "NONE"

\* A signal of frame k of session n is in the journal J.
Logged(J, n, k) == \E j \in DOMAIN J : J[j].session = n /\ J[j].sig = k

\* A trade of that signal is in the ledger L.
Traded(L, n, k) == \E t \in DOMAIN L : L[t].session = n /\ L[t].sig = k

\* How many ticks of the session are accepted, and at how many of them all due
\* signals have been taken, by the place in the loop.
Read ==
    IF pc = "tick" THEN i - 1
    ELSE IF pc \in {"signals", "fill", "close"} THEN i ELSE Len(S.ticks)
Settled ==
    IF pc \in {"tick", "signals"} THEN i - 1
    ELSE IF pc \in {"fill", "close"} THEN i ELSE Len(S.ticks)

\* What was consumed of the input has no defect.
InputInv ==
    /\ \A n \in 1..s : n < s => ~Malformed(n)
    /\ s > 0 =>
         /\ s > 1 => run.sessions[s - 1].date < S.date
         /\ S.asset = run.asset
         /\ Screened(S, sig)
         /\ Accepted(S, Read)
    /\ pc \in {"session", "done"} => sig = 0
    /\ pc = "done" => s = Len(run.sessions)

\* The signal in the lookahead is due at no settled tick, and every signal taken has its
\* fill event among the ticks that were reached.
QueueInv ==
    s > 0 =>
        /\ Ahead(S, sig, Settled)
        /\ \A k \in Taken(S, sig) : FillTick(S, k) <= IF pc = "tick" THEN i - 1 ELSE i

\* selected is the first eligible signal whose fill event is the current tick, when
\* the slot was free.
SelectInv ==
    pc \in {"signals", "fill"} =>
        /\ selected # 0 =>
             /\ ~wasOpen
             /\ selected \in Taken(S, sig)
             /\ Eligible(S, selected)
             /\ FillTick(S, selected) = i
             /\ \A j \in 1..(selected - 1) : Eligible(S, j) => FillTick(S, j) # i
        /\ selected = 0 /\ ~wasOpen =>
             \A j \in Taken(S, sig) : Eligible(S, j) => FillTick(S, j) # i

\* The signal that waits for its fill.
Waiting == IF pc \in {"signals", "fill"} THEN {selected} ELSE {}

\* The journal has the signals taken, but for the one that waits, and all signals of
\* the sessions before.
JournalInv ==
    /\ \A j \in DOMAIN journal : journal[j].session \in 1..s
    /\ \A n \in 1..s, k \in Nat :
          Logged(journal, n, k) <=>
              k \in IF n < s THEN Taken(run.sessions[n], 0) ELSE Taken(S, sig) \ Waiting

\* The snapshot says whether a position was held when the tick arrived.
HeldInv == pc \in {"signals", "fill"} => (wasOpen <=> HeldAt(s, i))

\* No trade leaves after the current tick, nor at it before its exit check.
TradesInv ==
    \A t \in DOMAIN ledger :
        /\ ledger[t].session \in 1..s
        /\ ledger[t].session = s =>
             ledger[t].exit <= IF pc \in {"tick", "signals"} THEN i - 1 ELSE i

\* The open position is that of a signal not traded yet, entered at its fill event,
\* and no settled tick has touched a level of it.
OpenInv ==
    IsOpen =>
        /\ position.entry = FillTick(S, position.sig)
        /\ Untouched(run, S, position.entry, position.entry + 1, Settled)
        /\ ~Traded(ledger, s, position.sig)

LoopInv ==
    pc # "failed" =>
        /\ InputInv /\ QueueInv /\ SelectInv /\ JournalInv
        /\ HeldInv /\ TradesInv /\ OpenInv

\* A filled signal of the journal J.
Filled(J, n, k) == \E j \in DOMAIN J : J[j].session = n /\ J[j].sig = k /\ J[j].outcome = "FILLED"

\* No signal has two records in the sequence q.
Single(q) == \A a, b \in DOMAIN q : q[a].session = q[b].session /\ q[a].sig = q[b].sig => a = b

\* A filled signal has been traded or is the open position.
FillsInv ==
    \A n, k \in Nat :
        Filled(journal, n, k) <=> Traded(ledger, n, k) \/ (IsOpen /\ n = s /\ k = position.sig)

\* The journal of the sessions before the current one is complete.
PastInv ==
    \A n \in 1..s, k \in Nat : n < s => (Logged(journal, n, k) <=> k \in Taken(run.sessions[n], 0))

\* What was delivered stays sound when the loop is left by an error.
DeliveredInv ==
    /\ Single(journal) /\ Single(ledger)
    /\ PastInv /\ FillsInv /\ OutcomeIsDeclared /\ ExitsAtFirstTouch
    /\ pc = "failed" => \E n \in DOMAIN run.sessions : Malformed(n) \/ Unpriceable(n)

EngineInv == TypeOK /\ PositionInv /\ LoopInv /\ DeliveredInv

(***************************************************************************)
(* The streams.                                                            *)
(***************************************************************************)
\* What a successful resumption of the generator has read: nothing that it
\* refuses, and no signal but the one it yields.
LEMMA PullReads ==
    ASSUME NEW S0 \in SessionType, NEW k \in Nat, ~PullFails(S0, k),
           NEW n, n = NextSignal(S0, k)
    PROVE  /\ n \in Nat
           /\ \A m \in DOMAIN S0.frames : k < m /\ (n = 0 \/ m <= n) => ~Refused(S0, m)
           /\ \A m \in DOMAIN S0.frames : k < m /\ (n = 0 \/ m < n) => S0.frames[m].kind # "hit"
           /\ n = 0 => ~S0.trailing
           /\ n # 0 => n \in DOMAIN S0.frames /\ n > k /\ S0.frames[n].kind = "hit"
<1>1. DOMAIN S0.frames \subseteq Nat
  BY SMT DEF SessionType
<1>2. CASE Stops(S0, k) = {}
  <2>1. n = 0 /\ ~S0.trailing
    BY <1>2 DEF NextSignal, PullFails
  <2>2. \A m \in DOMAIN S0.frames : k < m => ~Refused(S0, m) /\ S0.frames[m].kind # "hit"
    BY <1>2, <1>1 DEF Stops
  <2> QED BY <2>1, <2>2
<1>3. CASE Stops(S0, k) # {}
  <2>1. Stops(S0, k) \subseteq Nat
    BY <1>1 DEF Stops
  <2>2. n \in Stops(S0, k) /\ \A m \in Stops(S0, k) : n <= m
    BY <1>3, <2>1, LeastElement DEF NextSignal
  <2>3. n \in DOMAIN S0.frames /\ n > k /\ n \in Nat /\ n # 0
    BY <2>1, <2>2, SMT DEF Stops
  <2>4. ~Refused(S0, n)
    BY <1>3 DEF PullFails
  <2>5. S0.frames[n].kind = "hit"
    BY <2>2, <2>4 DEF Stops
  <2>6. \A m \in DOMAIN S0.frames : k < m /\ m < n => m \notin Stops(S0, k)
    BY <1>1, <2>2, <2>3, SMT
  <2>7. \A m \in DOMAIN S0.frames : k < m /\ m < n => ~Refused(S0, m) /\ S0.frames[m].kind # "hit"
    BY <1>1, <2>6 DEF Stops
  <2>8. \A m \in DOMAIN S0.frames : m <= n => m < n \/ m = n
    BY <1>1, <2>3, SMT
  <2> QED BY <2>3, <2>4, <2>5, <2>7, <2>8
<1> QED BY <1>2, <1>3

\* Frames that are not refused close one after the other.
LEMMA Rising ==
    ASSUME NEW S0 \in SessionType, NEW a \in DOMAIN S0.frames, NEW b \in DOMAIN S0.frames, a < b,
           \A m \in DOMAIN S0.frames : a < m /\ m <= b => ~Refused(S0, m)
    PROVE  S0.frames[a].close < S0.frames[b].close
<1>0. /\ DOMAIN S0.frames \subseteq Nat \ {0}
      /\ \A m \in DOMAIN S0.frames : S0.frames[m].close \in Int
      /\ \A m \in DOMAIN S0.frames, x \in Nat : a <= x /\ x <= m => x \in DOMAIN S0.frames
  <2>1. S0.frames \in Seq(FrameType)
    BY DEF SessionType
  <2>2. \A m \in DOMAIN S0.frames : S0.frames[m] \in FrameType
    BY <2>1, SMT
  <2>3. \A m \in DOMAIN S0.frames : S0.frames[m].close \in Int
    BY <2>2 DEF FrameType
  <2>4. DOMAIN S0.frames = 1..Len(S0.frames) /\ Len(S0.frames) \in Nat
    BY <2>1, SMT
  <2> QED BY <2>3, <2>4, SMT
<1> DEFINE A == {m \in DOMAIN S0.frames :
                    a < m /\ m <= b /\ ~(S0.frames[a].close < S0.frames[m].close)}
<1>1. SUFFICES ASSUME A # {} PROVE FALSE
  <2>1. b \in A \/ S0.frames[a].close < S0.frames[b].close
    BY <1>0, SMT
  <2> QED BY <2>1
<1>2. PICK m \in A : \A x \in A : m <= x
  BY <1>0, <1>1, LeastElement
<1>3. m - 1 \in DOMAIN S0.frames /\ m > 1 /\ m - 1 < m /\ (m - 1 = a \/ (a < m - 1 /\ m - 1 <= b))
  <2>1. m \in DOMAIN S0.frames /\ a < m /\ m <= b
    BY <1>2
  <2>2. m - 1 \in Nat /\ m > 1 /\ a <= m - 1 /\ m - 1 <= m
    BY <1>0, <2>1, SMT
  <2>3. m - 1 \in DOMAIN S0.frames
    BY <1>0, <2>1, <2>2
  <2> QED BY <1>0, <2>1, <2>2, <2>3, SMT
<1>4. S0.frames[m - 1].close < S0.frames[m].close
  <2>1. ~Refused(S0, m)
    BY <1>2
  <2>2. ~(S0.frames[m].close <= S0.frames[m - 1].close)
    BY <1>3, <2>1 DEF Refused
  <2> QED BY <2>2, <1>0, <1>3, SMT
<1>5. m - 1 \notin A
  BY <1>0, <1>2, <1>3, SMT
<1>6. ~(S0.frames[a].close < S0.frames[m].close)
  BY <1>2
<1> HIDE DEF A
<1>7. m - 1 = a \/ S0.frames[a].close < S0.frames[m - 1].close
  BY <1>3, <1>5 DEF A
<1>8. m \in DOMAIN S0.frames
  BY <1>2 DEF A
<1> QED BY <1>0, <1>3, <1>4, <1>6, <1>7, <1>8, SMT

\* The fill event is the first tick at or after the close of the frame.
LEMMA FillTickAt ==
    ASSUME NEW S0 \in SessionType, NEW k \in DOMAIN S0.frames, NEW n \in DOMAIN S0.ticks,
           S0.frames[k].close <= S0.ticks[n].ts,
           \A j \in 1..(n - 1) : S0.ticks[j].ts < S0.frames[k].close
    PROVE  FillTick(S0, k) = n
<1>0. /\ DOMAIN S0.ticks \subseteq Nat \ {0} /\ S0.frames[k].close \in Int
      /\ \A j \in DOMAIN S0.ticks : S0.ticks[j].ts \in Int
  <2>1. S0.frames \in Seq(FrameType) /\ S0.ticks \in Seq(TickType)
    BY DEF SessionType
  <2>2. S0.frames[k] \in FrameType /\ \A j \in DOMAIN S0.ticks : S0.ticks[j] \in TickType
    BY <2>1, SMT
  <2>3. DOMAIN S0.ticks \subseteq Nat \ {0}
    BY <2>1, SMT
  <2> QED BY <2>2, <2>3 DEF FrameType, TickType
<1> DEFINE after == {j \in DOMAIN S0.ticks : S0.ticks[j].ts >= S0.frames[k].close}
<1>1. n \in after
  BY <1>0, SMT
<1>2. \A j \in after : n <= j
  BY <1>0, SMT
<1>3. \A x \in after : (\A m \in after : x <= m) => x = n
  BY <1>0, <1>1, <1>2, SMT
<1> HIDE DEF after
<1>4. (CHOOSE j \in after : \A m \in after : j <= m) = n
  BY <1>1, <1>2, <1>3
<1> QED BY <1>1, <1>4 DEF FillTick, after

\* A frame that closes after every tick has no fill event.
LEMMA FillTickNone ==
    ASSUME NEW S0 \in SessionType, NEW k \in DOMAIN S0.frames,
           \A j \in 1..Len(S0.ticks) : S0.ticks[j].ts < S0.frames[k].close
    PROVE  FillTick(S0, k) = 0
<1>0. /\ DOMAIN S0.ticks = 1..Len(S0.ticks) /\ S0.frames[k].close \in Int
      /\ \A j \in DOMAIN S0.ticks : S0.ticks[j].ts \in Int
  <2>1. S0.frames \in Seq(FrameType) /\ S0.ticks \in Seq(TickType)
    BY DEF SessionType
  <2>2. S0.frames[k] \in FrameType /\ \A j \in DOMAIN S0.ticks : S0.ticks[j] \in TickType
    BY <2>1, SMT
  <2>3. DOMAIN S0.ticks = 1..Len(S0.ticks)
    BY <2>1, SMT
  <2> QED BY <2>2, <2>3 DEF FrameType, TickType
<1>1. {j \in DOMAIN S0.ticks : S0.ticks[j].ts >= S0.frames[k].close} = {}
  BY <1>0, SMT
<1> QED BY <1>1 DEF FillTick

\* A fill event is a tick of the session, or 0.
LEMMA FillTickNat ==
    ASSUME NEW S0 \in SessionType, NEW k
    PROVE  FillTick(S0, k) \in Nat /\ (FillTick(S0, k) # 0 => FillTick(S0, k) \in DOMAIN S0.ticks)
<1> DEFINE after == {j \in DOMAIN S0.ticks : S0.ticks[j].ts >= S0.frames[k].close}
<1>1. after \subseteq DOMAIN S0.ticks /\ DOMAIN S0.ticks \subseteq Nat
  BY SMT DEF SessionType
<1>2. CASE after = {}
  BY <1>2 DEF FillTick
<1>3. CASE after # {}
  <2>1. PICK x \in after : \A m \in after : x <= m
    BY <1>1, <1>3, LeastElement
  <2>2. (CHOOSE j \in after : \A m \in after : j <= m) \in after
    BY <2>1
  <2> QED BY <1>1, <1>3, <2>2 DEF FillTick
<1> QED BY <1>2, <1>3

\* Priming the lookahead screens the frames up to the first signal.
LEMMA TakenFirst ==
    ASSUME NEW S0 \in SessionType, ~PullFails(S0, 0), NEW n, n = NextSignal(S0, 0)
    PROVE  n \in Nat /\ Screened(S0, n) /\ Taken(S0, n) = {}
<1>1. \A m \in DOMAIN S0.frames : m \in Nat /\ 0 < m
  BY SMT DEF SessionType
<1>2. /\ n \in Nat
      /\ \A m \in DOMAIN S0.frames : 0 < m /\ (n = 0 \/ m <= n) => ~Refused(S0, m)
      /\ \A m \in DOMAIN S0.frames : 0 < m /\ (n = 0 \/ m < n) => S0.frames[m].kind # "hit"
      /\ n = 0 => ~S0.trailing
      /\ n # 0 => n \in DOMAIN S0.frames /\ n > 0 /\ S0.frames[n].kind = "hit"
  <2>1. 0 \in Nat
    OBVIOUS
  <2> QED BY <2>1, PullReads
<1> QED BY <1>1, <1>2 DEF Screened, Taken

\* Resuming it takes the signal in the lookahead and leads to a later one.
LEMMA TakenNext ==
    ASSUME NEW S0 \in SessionType, NEW k \in DOMAIN S0.frames, Screened(S0, k),
           ~PullFails(S0, k), NEW n, n = NextSignal(S0, k)
    PROVE  /\ n \in Nat /\ Screened(S0, n)
           /\ Taken(S0, n) = Taken(S0, k) \cup {k}
           /\ n # 0 => n \in DOMAIN S0.frames /\ S0.frames[k].close < S0.frames[n].close
<1>1. /\ DOMAIN S0.frames \subseteq Nat
      /\ k \in Nat /\ k # 0
  BY SMT DEF SessionType
<1>2. /\ n \in Nat
      /\ \A m \in DOMAIN S0.frames : k < m /\ (n = 0 \/ m <= n) => ~Refused(S0, m)
      /\ \A m \in DOMAIN S0.frames : k < m /\ (n = 0 \/ m < n) => S0.frames[m].kind # "hit"
      /\ n = 0 => ~S0.trailing
      /\ n # 0 => n \in DOMAIN S0.frames /\ n > k /\ S0.frames[n].kind = "hit"
  BY <1>1, PullReads
<1>3. Screened(S0, n)
  <2>1. \A m \in DOMAIN S0.frames : m <= k \/ k < m
    BY <1>1, SMT
  <2> QED BY <1>1, <1>2, <2>1 DEF Screened
<1>4. Taken(S0, n) = Taken(S0, k) \cup {k}
  <2>1. S0.frames[k].kind = "hit"
    BY <1>1 DEF Screened
  <2>2. \A m \in DOMAIN S0.frames :
           S0.frames[m].kind = "hit" /\ (n = 0 \/ m < n) <=> S0.frames[m].kind = "hit" /\ (m < k \/ m = k)
    <3> SUFFICES ASSUME NEW m \in DOMAIN S0.frames, S0.frames[m].kind = "hit"
                 PROVE  n = 0 \/ m < n <=> m < k \/ m = k
      OBVIOUS
    <3>1. k < m => ~(n = 0 \/ m < n)
      BY <1>2
    <3>2. n # 0 => n > k
      BY <1>2
    <3> QED BY <3>1, <3>2, <1>1, <1>2, SMT
  <2> QED BY <1>1, <2>1, <2>2 DEF Taken
<1>5. n # 0 => S0.frames[k].close < S0.frames[n].close
  <2> SUFFICES ASSUME n # 0 PROVE S0.frames[k].close < S0.frames[n].close
    OBVIOUS
  <2>1. n \in DOMAIN S0.frames /\ k < n
    BY <1>1, <1>2, SMT
  <2> QED BY <1>2, <2>1, Rising
<1> QED BY <1>2, <1>3, <1>4, <1>5

\* A tick that is not refused extends the accepted ones.
LEMMA AcceptedNext ==
    ASSUME NEW S0 \in SessionType, NEW n \in DOMAIN S0.ticks, Accepted(S0, n - 1),
           S0.ticks[n].ok,
           n > 1 => TickBefore(S0.ticks[n - 1], S0.ticks[n])
    PROVE  Accepted(S0, n)
<1>1. /\ DOMAIN S0.ticks = 1..Len(S0.ticks) /\ Len(S0.ticks) \in Nat
      /\ \A j \in DOMAIN S0.ticks : S0.ticks[j].ts \in Int /\ S0.ticks[j].seq \in Int
  <2>1. S0.ticks \in Seq(TickType)
    BY DEF SessionType
  <2>2. \A j \in DOMAIN S0.ticks : S0.ticks[j] \in TickType
    BY <2>1, SMT
  <2>3. DOMAIN S0.ticks = 1..Len(S0.ticks) /\ Len(S0.ticks) \in Nat
    BY <2>1, SMT
  <2> QED BY <2>2, <2>3 DEF TickType
<1>2. SUFFICES ASSUME NEW m \in 1..n
               PROVE  S0.ticks[m].ok /\ \A j \in 1..(m - 1) : TickBefore(S0.ticks[j], S0.ticks[m])
  BY DEF Accepted
<1>3. CASE m # n
  <2>1. m \in 1..(n - 1)
    BY <1>1, <1>3, SMT
  <2> QED BY <2>1 DEF Accepted
<1>4. CASE m = n
  <2>1. SUFFICES ASSUME NEW j \in 1..(n - 1) PROVE TickBefore(S0.ticks[j], S0.ticks[n])
    BY <1>4
  <2>2. n > 1 /\ n - 1 \in 1..(n - 1) /\ n - 1 \in DOMAIN S0.ticks /\ j \in DOMAIN S0.ticks
    BY <1>1, SMT
  <2>3. TickBefore(S0.ticks[n - 1], S0.ticks[n])
    BY <2>2
  <2>4. CASE j = n - 1
    BY <2>3, <2>4
  <2>5. CASE j # n - 1
    <3>1. j \in 1..((n - 1) - 1)
      BY <1>1, <2>5, SMT
    <3>2. TickBefore(S0.ticks[j], S0.ticks[n - 1])
      BY <3>1, <2>2 DEF Accepted
    <3> QED BY <3>2, <2>3, <2>2, <1>1, SMTT(30) DEF TickBefore
  <2> QED BY <2>4, <2>5
<1> QED BY <1>3, <1>4

\* A session of which everything was read has no defect.
LEMMA NothingMalformed ==
    ASSUME NEW n \in 1..Len(run.sessions), run \in RunType,
           n > 1 => run.sessions[n - 1].date < run.sessions[n].date,
           run.sessions[n].asset = run.asset,
           Screened(run.sessions[n], 0),
           Accepted(run.sessions[n], Len(run.sessions[n].ticks))
    PROVE  ~Malformed(n)
<1> DEFINE S0 == run.sessions[n]
<1>1. /\ run.sessions \in Seq(SessionType) /\ n \in Nat
      /\ S0 \in SessionType
      /\ S0.ticks \in Seq(TickType)
      /\ \A j \in DOMAIN S0.ticks : S0.ticks[j] \in TickType
  BY SessionTyped, SMT DEF RunType
<1>2. /\ DOMAIN S0.ticks = 1..Len(S0.ticks) /\ Len(S0.ticks) \in Nat
      /\ \A j \in DOMAIN S0.ticks : S0.ticks[j].ts \in Int /\ S0.ticks[j].seq \in Int
  BY <1>1, SMTT(30) DEF TickType
<1>3. ~(n > 1 /\ S0.date <= run.sessions[n - 1].date)
  <2>1. n > 1 => n - 1 \in 1..Len(run.sessions)
    BY <1>1, SMTT(30)
  <2>2. S0.date \in Int /\ (n > 1 => run.sessions[n - 1].date \in Int)
    BY <1>1, <2>1, SessionTyped DEF SessionType
  <2> QED BY <2>2, SMT
<1>4. ~S0.trailing /\ \A k \in DOMAIN S0.frames : ~Refused(S0, k)
  BY DEF Screened
<1>5. \A j \in DOMAIN S0.ticks : S0.ticks[j].ok
  BY <1>2 DEF Accepted
<1>6. ASSUME NEW j \in DOMAIN S0.ticks, NEW m \in DOMAIN S0.ticks, j < m
      PROVE  ~(\/ S0.ticks[m].ts < S0.ticks[j].ts
               \/ S0.ticks[m].ts = S0.ticks[j].ts /\ S0.ticks[m].seq <= S0.ticks[j].seq)
  <2>1. j \in 1..(m - 1) /\ m \in 1..Len(S0.ticks)
    BY <1>2, <1>6, SMT
  <2>2. TickBefore(S0.ticks[j], S0.ticks[m])
    BY <2>1 DEF Accepted
  <2> QED BY <2>2, <1>2, SMTT(30) DEF TickBefore
<1>7. S0.asset = run.asset
  OBVIOUS
<1> HIDE DEF S0
<1>8. Malformed(n) <=>
        \/ n > 1 /\ S0.date <= run.sessions[n - 1].date
        \/ S0.asset # run.asset
        \/ S0.trailing
        \/ \E k \in DOMAIN S0.frames : Refused(S0, k)
        \/ \E j \in DOMAIN S0.ticks : ~S0.ticks[j].ok
        \/ \E j, m \in DOMAIN S0.ticks :
              /\ j < m
              /\ \/ S0.ticks[m].ts < S0.ticks[j].ts
                 \/ S0.ticks[m].ts = S0.ticks[j].ts /\ S0.ticks[m].seq <= S0.ticks[j].seq
  BY DEF Malformed, S0
<1> QED BY <1>3, <1>4, <1>5, <1>6, <1>7, <1>8

(***************************************************************************)
(* Reading: what a step consumes of the streams.                           *)
(***************************************************************************)
\* The indices and the streams of the session in progress.
LEMMA InSession ==
    ASSUME TypeOK
    PROVE  /\ run \in RunType /\ run.sessions \in Seq(SessionType)
           /\ s \in Nat /\ i \in Nat /\ sig \in Nat
           /\ s > 0 => /\ s \in 1..Len(run.sessions)
                       /\ S \in SessionType
                       /\ DOMAIN S.ticks = 1..Len(S.ticks) /\ Len(S.ticks) \in Nat
                       /\ \A j \in DOMAIN S.ticks :
                             S.ticks[j].ts \in Int /\ S.ticks[j].seq \in Int /\ S.ticks[j].price \in Int
                       /\ \A k \in DOMAIN S.frames : S.frames[k].close \in Int
<1>1. /\ run \in RunType /\ s \in 0..Len(run.sessions) /\ i \in Nat /\ sig \in Nat
  BY DEF TypeOK
<1>2. run.sessions \in Seq(SessionType) /\ s \in Nat
  BY <1>1, SMT DEF RunType
<1>3. ASSUME s > 0
      PROVE  /\ s \in 1..Len(run.sessions)
             /\ S \in SessionType
             /\ DOMAIN S.ticks = 1..Len(S.ticks) /\ Len(S.ticks) \in Nat
             /\ \A j \in DOMAIN S.ticks :
                   S.ticks[j].ts \in Int /\ S.ticks[j].seq \in Int /\ S.ticks[j].price \in Int
             /\ \A k \in DOMAIN S.frames : S.frames[k].close \in Int
  <2>1. s \in 1..Len(run.sessions) /\ S \in SessionType /\ S.ticks \in Seq(TickType)
        /\ S.frames \in Seq(FrameType)
    BY <1>3, TypedSession
  <2>2. \A j \in DOMAIN S.ticks : S.ticks[j] \in TickType
    BY <2>1, SMT
  <2>3. \A k \in DOMAIN S.frames : S.frames[k] \in FrameType
    BY <2>1, SMT
  <2>4. DOMAIN S.ticks = 1..Len(S.ticks) /\ Len(S.ticks) \in Nat
    BY <2>1, SMT
  <2> QED BY <2>1, <2>2, <2>3, <2>4 DEF TickType, FrameType
<1> QED BY <1>1, <1>2, <1>3

\* A signal that is due at the current tick has its fill event there.
LEMMA DueNow ==
    ASSUME TypeOK, QueueInv, pc = "signals", SignalDue
    PROVE  sig \in DOMAIN S.frames /\ FillTick(S, sig) = i
<1>1. s > 0 /\ i \in DOMAIN S.ticks /\ sig \in DOMAIN S.frames /\ sig # 0
  BY DEF TypeOK, SignalDue
<1>2. S \in SessionType /\ Ahead(S, sig, i - 1)
  BY <1>1, InSession DEF QueueInv, Settled
<1>3. S.frames[sig].close <= S.ticks[i].ts
  BY DEF SignalDue, Tick
<1>4. \A j \in 1..(i - 1) : S.ticks[j].ts < S.frames[sig].close
  BY <1>1, <1>2 DEF Ahead
<1> QED BY <1>1, <1>2, <1>3, <1>4, FillTickAt

\* A signal still in the lookahead after the last tick has none.
LEMMA DueNever ==
    ASSUME TypeOK, QueueInv, pc = "drain", sig # 0
    PROVE  sig \in DOMAIN S.frames /\ FillTick(S, sig) = 0
<1>1. s > 0 /\ sig \in DOMAIN S.frames
  BY DEF TypeOK
<1>2. S \in SessionType /\ Ahead(S, sig, Len(S.ticks))
  BY <1>1, InSession DEF QueueInv, Settled
<1> QED BY <1>1, <1>2, FillTickNone DEF Ahead

\* What Ahead says of a lookahead holds of a later one.
LEMMA AheadLater ==
    ASSUME TypeOK, s > 0, NEW k \in DOMAIN S.frames, k # 0, NEW n, NEW m, Ahead(S, k, n),
           n = i - 1 \/ n = i \/ n = Len(S.ticks), \A j \in 1..n : j \in DOMAIN S.ticks,
           m # 0 => m \in DOMAIN S.frames /\ S.frames[k].close < S.frames[m].close
    PROVE  Ahead(S, m, n)
<1>1. SUFFICES ASSUME m # 0, NEW j \in 1..n PROVE S.ticks[j].ts < S.frames[m].close
  BY DEF Ahead
<1>2. S.ticks[j].ts < S.frames[k].close
  BY DEF Ahead
<1>3. S.ticks[j].ts \in Int /\ S.frames[k].close \in Int /\ S.frames[m].close \in Int
  BY <1>1, InSession
<1> QED BY <1>1, <1>2, <1>3, SMT

\* The next session starts with nothing taken.
LEMMA StartReads ==
    ASSUME TypeOK, InputInv, StartSession, ~Raise
    PROVE  /\ ~SessionRefused(s + 1) /\ s + 1 \in 1..Len(run.sessions)
           /\ s' = s + 1 /\ i' = 1 /\ run' = run
           /\ S' = run.sessions[s + 1] /\ S' \in SessionType
           /\ sig' = NextSignal(S', 0) /\ Screened(S', sig') /\ Taken(S', sig') = {}
           /\ pc' = IF S'.ticks = <<>> THEN "drain" ELSE "tick"
           /\ UNCHANGED <<wasOpen, selected, journal, ledger>> /\ position' = NoPosition
<1>1. /\ s < Len(run.sessions) /\ ~SessionRefused(s + 1)
      /\ s' = s + 1 /\ i' = 1 /\ run' = run
      /\ sig' = NextSignal(run.sessions[s + 1], 0)
      /\ pc' = IF run.sessions[s + 1].ticks = <<>> THEN "drain" ELSE "tick"
      /\ UNCHANGED <<wasOpen, selected, journal, ledger>> /\ position' = NoPosition
  BY DEF StartSession
<1>2. s + 1 \in 1..Len(run.sessions)
  BY <1>1, InSession, SMT
<1>3. run.sessions[s + 1] \in SessionType
  BY <1>2, InSession, SessionTyped
<1>4. S' = run.sessions[s + 1]
  BY <1>1 DEF S
<1>5. ~PullFails(run.sessions[s + 1], 0)
  BY <1>1 DEF SessionRefused
<1>6. /\ Screened(run.sessions[s + 1], NextSignal(run.sessions[s + 1], 0))
      /\ Taken(run.sessions[s + 1], NextSignal(run.sessions[s + 1], 0)) = {}
  BY <1>3, <1>5, TakenFirst
<1> QED BY <1>1, <1>2, <1>3, <1>4, <1>6

\* Consuming the next signal takes it.
LEMMA PullTakes ==
    ASSUME TypeOK, InputInv, s > 0, sig # 0, ~PullFails(S, sig)
    PROVE  /\ sig \in DOMAIN S.frames /\ NextSignal(S, sig) \in Nat
           /\ Screened(S, NextSignal(S, sig))
           /\ Taken(S, NextSignal(S, sig)) = Taken(S, sig) \cup {sig}
           /\ NextSignal(S, sig) # 0 =>
                /\ NextSignal(S, sig) \in DOMAIN S.frames
                /\ S.frames[sig].close < S.frames[NextSignal(S, sig)].close
<1>1. sig \in DOMAIN S.frames /\ S \in SessionType /\ Screened(S, sig)
  BY InSession DEF TypeOK, InputInv
<1> QED BY <1>1, TakenNext

\* Every step that does not raise keeps account of what was read.
LEMMA InputStep ==
    ASSUME TypeOK, InputInv, Next, pc' # "failed"
    PROVE  InputInv'
<1>0. ~Raise
  BY DEF Raise
<1>a. ASSUME UNCHANGED <<run, s>>
      PROVE  S' = S /\ \A n \in 1..s : ~Malformed(n) => ~Malformed(n)'
  BY <1>a DEF S, Malformed
<1>b. ASSUME UNCHANGED <<run, s, sig>>, s > 0 => Accepted(S, Read)', pc' \notin {"session", "done"}
      PROVE  InputInv'
  BY <1>a, <1>b DEF InputInv
<1>1. CASE StartSession
  <2>1. /\ ~SessionRefused(s + 1) /\ s + 1 \in 1..Len(run.sessions)
        /\ s' = s + 1 /\ i' = 1 /\ run' = run
        /\ S' = run.sessions[s + 1] /\ S' \in SessionType
        /\ Screened(S', sig')
        /\ pc' = IF S'.ticks = <<>> THEN "drain" ELSE "tick"
    BY <1>0, <1>1, StartReads
  <2>2. /\ run \in RunType /\ s \in Nat /\ run.sessions \in Seq(SessionType)
    BY InSession
  <2>3. \A n \in 1..s' : n < s' => ~Malformed(n)'
    <3>1. SUFFICES ASSUME NEW n \in 1..s PROVE ~Malformed(n)
      <4>1. \A n \in 1..s' : n < s' => n \in 1..s
        BY <2>1, <2>2, SMT
      <4>2. \A n \in 1..s : Malformed(n)' => Malformed(n)
        BY <2>1 DEF Malformed
      <4> QED BY <3>1, <4>1, <4>2
    <3>2. CASE n < s
      BY <3>2 DEF InputInv
    <3>3. CASE ~(n < s)
      <4>1. n = s /\ s > 0 /\ n \in 1..Len(run.sessions)
        BY <3>3, <2>1, <2>2, SMT
      <4>2. pc = "session"
        BY <1>1 DEF StartSession
      <4>3. Screened(S, 0) /\ Accepted(S, Len(S.ticks)) /\ S.asset = run.asset
        BY <4>1, <4>2 DEF InputInv, Read
      <4>4. n > 1 => run.sessions[n - 1].date < run.sessions[n].date
        BY <4>1 DEF InputInv, S
      <4> QED BY <4>1, <4>3, <4>4, <2>2, NothingMalformed DEF S
    <3> QED BY <3>2, <3>3
  <2>4. s' > 1 => run'.sessions[s' - 1].date < S'.date
    <3>1. SUFFICES ASSUME s' > 1 PROVE run.sessions[s].date < S'.date
      BY <2>1, <2>2, SMT
    <3>2. s \in 1..Len(run.sessions) /\ s + 1 > 1 /\ (s + 1) - 1 = s
      BY <3>1, <2>1, <2>2, SMT
    <3>3. ~(run.sessions[s + 1].date <= run.sessions[s].date)
      BY <3>2, <2>1 DEF SessionRefused
    <3>4. run.sessions[s].date \in Int /\ S'.date \in Int
      BY <3>2, <2>1, <2>2, SessionTyped DEF SessionType
    <3> QED BY <3>3, <3>4, <2>1, SMT
  <2>5. S'.asset = run'.asset
    BY <2>1 DEF SessionRefused
  <2>6. Accepted(S, Read)'
    <3>1. S'.ticks \in Seq(TickType)
      BY <2>1 DEF SessionType
    <3>2. Read' = 0
      BY <2>1, <3>1, SMT DEF Read
    <3>3. Accepted(S', 0)
      BY SMT DEF Accepted
    <3> QED BY <3>2, <3>3
  <2>7. pc' \notin {"session", "done"}
    BY <2>1
  <2> QED BY <2>1, <2>3, <2>4, <2>5, <2>6, <2>7 DEF InputInv
<1>2. CASE OpenTick
  <2>1. /\ pc = "tick" /\ ~TickRefused /\ pc' = "signals"
        /\ UNCHANGED <<run, s, i, sig>>
    BY <1>0, <1>2 DEF OpenTick
  <2>2. s > 0 /\ i \in DOMAIN S.ticks /\ S \in SessionType
    BY <2>1, InSession DEF TypeOK
  <2>3. Accepted(S, i - 1)
    BY <2>1, <2>2 DEF InputInv, Read
  <2>4. S.ticks[i].ok /\ (i > 1 => TickBefore(S.ticks[i - 1], S.ticks[i]))
    <3>1. S.ticks[i].ok
      BY <2>1 DEF TickRefused, Tick
    <3>2. ASSUME i > 1 PROVE TickBefore(S.ticks[i - 1], S.ticks[i])
      <4>1. ~(\/ S.ticks[i].ts < S.ticks[i - 1].ts
              \/ S.ticks[i].ts = S.ticks[i - 1].ts /\ S.ticks[i].seq <= S.ticks[i - 1].seq)
        BY <2>1, <3>2 DEF TickRefused, Tick
      <4>2. i - 1 \in DOMAIN S.ticks
        BY <2>2, <3>2, InSession, SMT
      <4> QED BY <4>1, <4>2, <2>2, InSession, SMT DEF TickBefore
    <3> QED BY <3>1, <3>2
  <2>5. Accepted(S, i)
    BY <2>2, <2>3, <2>4, AcceptedNext
  <2>6. S' = S /\ Read' = i
    BY <2>1 DEF S, Read
  <2> QED BY <1>b, <2>1, <2>5, <2>6
<1>3. CASE TakeSignal
  <2>1. /\ pc = "signals" /\ sig # 0 /\ ~PullFails(S, sig) /\ sig' = NextSignal(S, sig)
        /\ UNCHANGED <<run, pc, s, i>>
    BY <1>0, <1>3 DEF TakeSignal, SignalDue
  <2>2. s > 0
    BY <2>1 DEF TypeOK
  <2>3. Screened(S, sig')
    BY <2>1, <2>2, PullTakes
  <2>4. S' = S /\ Read' = Read
    BY <2>1 DEF S, Read
  <2> QED BY <1>a, <2>1, <2>2, <2>3, <2>4 DEF InputInv
<1>4. CASE CheckExit
  <2>1. pc = "signals" /\ pc' = "fill" /\ UNCHANGED <<run, s, i, sig>>
    BY <1>0, <1>4 DEF CheckExit, ClosePosition
  <2>2. Read' = Read /\ S' = S
    BY <2>1 DEF Read, S
  <2> QED BY <1>b, <2>1, <2>2 DEF InputInv
<1>5. CASE Fill
  <2>1. pc = "fill" /\ pc' = "close" /\ UNCHANGED <<run, s, i, sig>>
    BY <1>0, <1>5 DEF Fill
  <2>2. Read' = Read /\ S' = S
    BY <2>1 DEF Read, S
  <2> QED BY <1>b, <2>1, <2>2 DEF InputInv
<1>6. CASE SessionEnd
  <2>1. pc = "close" /\ LastTick /\ pc' = "drain" /\ UNCHANGED <<run, s, i, sig>>
    BY <1>0, <1>6 DEF SessionEnd, ClosePosition
  <2>2. Read' = Read /\ S' = S
    BY <2>1 DEF Read, S, LastTick
  <2> QED BY <1>b, <2>1, <2>2 DEF InputInv
<1>7. CASE Advance
  <2>1. pc = "close" /\ pc' = "tick" /\ i' = i + 1 /\ UNCHANGED <<run, s, sig>>
    BY <1>7 DEF Advance
  <2>2. Read' = Read /\ S' = S
    BY <2>1, InSession, SMT DEF Read, S
  <2> QED BY <1>b, <2>1, <2>2 DEF InputInv
<1>8. CASE Drain
  <2>1. /\ pc = "drain" /\ sig # 0 /\ ~PullFails(S, sig) /\ sig' = NextSignal(S, sig)
        /\ UNCHANGED <<run, pc, s, i>>
    BY <1>8 DEF Drain
  <2>2. s > 0
    BY <2>1 DEF TypeOK
  <2>3. Screened(S, sig')
    BY <2>1, <2>2, PullTakes
  <2>4. S' = S /\ Read' = Read
    BY <2>1 DEF S, Read
  <2> QED BY <1>a, <2>1, <2>2, <2>3, <2>4 DEF InputInv
<1>9. CASE EndSession
  <2>1. pc = "drain" /\ pc' = "session" /\ sig = 0 /\ UNCHANGED <<run, s, i, sig>>
    BY <1>9 DEF EndSession
  <2>2. Read' = Read /\ S' = S
    BY <2>1 DEF Read, S
  <2> QED BY <1>a, <2>1, <2>2 DEF InputInv
<1>10. CASE Finish
  <2>1. pc = "session" /\ pc' = "done" /\ s = Len(run.sessions) /\ UNCHANGED <<run, s, i, sig>>
    BY <1>10 DEF Finish
  <2>2. Read' = Read /\ S' = S
    BY <2>1 DEF Read, S
  <2> QED BY <1>a, <2>1, <2>2 DEF InputInv
<1> QED BY <1>1, <1>2, <1>3, <1>4, <1>5, <1>6, <1>7, <1>8, <1>9, <1>10 DEF Next

\* Every step that does not raise keeps the lookahead ahead of the settled ticks, and
\* the fill events of what was taken among the ticks reached.
LEMMA QueueStep ==
    ASSUME TypeOK, InputInv, QueueInv, Next, pc' # "failed"
    PROVE  QueueInv'
<1>0. ~Raise
  BY DEF Raise
<1>a. ASSUME UNCHANGED <<run, s, sig>>, s > 0 => Ahead(S, sig, Settled'),
             s > 0 => \A k \in Taken(S, sig) : FillTick(S, k) <= IF pc' = "tick" THEN i' - 1 ELSE i'
      PROVE  QueueInv'
  <2>1. S' = S
    BY <1>a DEF S
  <2> QED BY <1>a, <2>1 DEF QueueInv
<1>b. ASSUME s > 0 PROVE \A k \in Taken(S, sig) : FillTick(S, k) \in Nat
  BY <1>b, InSession, FillTickNat
<1>1. CASE StartSession
  <2>1. /\ i' = 1 /\ S' \in SessionType /\ Taken(S', sig') = {}
        /\ pc' = IF S'.ticks = <<>> THEN "drain" ELSE "tick"
    BY <1>0, <1>1, StartReads
  <2>2. Settled' = 0
    <3>1. S'.ticks \in Seq(TickType)
      BY <2>1 DEF SessionType
    <3> QED BY <2>1, <3>1, SMT DEF Settled
  <2>3. Ahead(S', sig', 0)
    BY SMT DEF Ahead
  <2> QED BY <2>1, <2>2, <2>3 DEF QueueInv
<1>2. CASE OpenTick
  <2>1. pc = "tick" /\ pc' = "signals" /\ UNCHANGED <<run, s, i, sig>>
    BY <1>0, <1>2 DEF OpenTick
  <2>2. s > 0 /\ Settled' = Settled
    BY <2>1 DEF TypeOK, Settled
  <2>3. \A k \in Taken(S, sig) : FillTick(S, k) <= i - 1
    BY <2>1, <2>2 DEF QueueInv
  <2>4. \A k \in Taken(S, sig) : FillTick(S, k) <= i
    BY <1>b, <2>2, <2>3, InSession, SMT
  <2> QED BY <1>a, <2>1, <2>2, <2>4 DEF QueueInv
<1>3. CASE TakeSignal
  <2>1. /\ pc = "signals" /\ SignalDue /\ sig # 0 /\ ~PullFails(S, sig)
        /\ sig' = NextSignal(S, sig) /\ UNCHANGED <<run, pc, s, i>>
    BY <1>0, <1>3 DEF TakeSignal, SignalDue
  <2>2. s > 0 /\ S' = S /\ Settled = i - 1 /\ Settled' = i - 1 /\ i \in DOMAIN S.ticks
    BY <2>1 DEF TypeOK, S, Settled
  <2>3. /\ Taken(S, sig') = Taken(S, sig) \cup {sig} /\ sig \in DOMAIN S.frames
        /\ sig' # 0 => sig' \in DOMAIN S.frames /\ S.frames[sig].close < S.frames[sig'].close
    BY <2>1, <2>2, PullTakes
  <2>4. Ahead(S, sig', i - 1)
    <3>1. \A j \in 1..(i - 1) : j \in DOMAIN S.ticks
      BY <2>2, InSession, SMT
    <3>2. Ahead(S, sig, i - 1)
      BY <2>2 DEF QueueInv
    <3> QED BY <2>1, <2>2, <2>3, <3>1, <3>2, AheadLater
  <2>5. \A k \in Taken(S, sig') : FillTick(S, k) <= i
    <3>1. FillTick(S, sig) = i
      BY <2>1, DueNow
    <3>2. \A k \in Taken(S, sig) : FillTick(S, k) <= i
      BY <2>1, <2>2 DEF QueueInv
    <3>3. i <= i
      BY InSession, SMT
    <3> QED BY <2>3, <3>1, <3>2, <3>3
  <2> QED BY <2>1, <2>2, <2>4, <2>5 DEF QueueInv
<1>4. CASE CheckExit
  <2>1. pc = "signals" /\ ~SignalDue /\ pc' = "fill" /\ UNCHANGED <<run, s, i, sig>>
    BY <1>0, <1>4 DEF CheckExit, ClosePosition
  <2>2. s > 0 /\ i \in DOMAIN S.ticks /\ Settled = i - 1 /\ Settled' = i
    BY <2>1 DEF TypeOK, Settled
  <2>3. Ahead(S, sig, i)
    <3>1. SUFFICES ASSUME sig # 0, NEW j \in 1..i PROVE S.ticks[j].ts < S.frames[sig].close
      BY DEF Ahead
    <3>2. CASE j = i
      <4>1. ~(S.frames[sig].close <= S.ticks[i].ts)
        BY <2>1, <3>1 DEF SignalDue, Tick
      <4>2. sig \in DOMAIN S.frames
        BY <3>1 DEF TypeOK
      <4> QED BY <3>2, <4>1, <4>2, <2>2, InSession, SMT
    <3>3. CASE j # i
      <4>1. j \in 1..(i - 1)
        BY <3>3, InSession, SMT
      <4> QED BY <3>1, <4>1, <2>2 DEF QueueInv, Ahead
    <3> QED BY <3>2, <3>3
  <2> QED BY <1>a, <2>1, <2>2, <2>3 DEF QueueInv
<1>5. CASE Fill
  <2>1. pc = "fill" /\ pc' = "close" /\ UNCHANGED <<run, s, i, sig>>
    BY <1>0, <1>5 DEF Fill
  <2>2. Settled' = Settled
    BY <2>1 DEF Settled
  <2> QED BY <1>a, <2>1, <2>2 DEF QueueInv
<1>6. CASE SessionEnd
  <2>1. pc = "close" /\ LastTick /\ pc' = "drain" /\ UNCHANGED <<run, s, i, sig>>
    BY <1>0, <1>6 DEF SessionEnd, ClosePosition
  <2>2. Settled' = Settled
    BY <2>1 DEF Settled, LastTick, S
  <2> QED BY <1>a, <2>1, <2>2 DEF QueueInv
<1>7. CASE Advance
  <2>1. pc = "close" /\ pc' = "tick" /\ i' = i + 1 /\ UNCHANGED <<run, s, sig>>
    BY <1>7 DEF Advance
  <2>2. i' - 1 = i
    BY <2>1, InSession, SMT
  <2>3. Settled' = Settled
    BY <2>1, <2>2 DEF Settled
  <2> QED BY <1>a, <2>1, <2>2, <2>3 DEF QueueInv
<1>8. CASE Drain
  <2>1. /\ pc = "drain" /\ sig # 0 /\ ~PullFails(S, sig) /\ sig' = NextSignal(S, sig)
        /\ UNCHANGED <<run, pc, s, i>>
    BY <1>8 DEF Drain
  <2>2. s > 0 /\ S' = S /\ Settled = Len(S.ticks) /\ Settled' = Len(S.ticks)
    BY <2>1 DEF TypeOK, S, Settled
  <2>3. /\ Taken(S, sig') = Taken(S, sig) \cup {sig} /\ sig \in DOMAIN S.frames
        /\ sig' # 0 => sig' \in DOMAIN S.frames /\ S.frames[sig].close < S.frames[sig'].close
    BY <2>1, <2>2, PullTakes
  <2>4. Ahead(S, sig', Len(S.ticks))
    <3>1. Ahead(S, sig, Len(S.ticks))
      BY <2>2 DEF QueueInv
    <3> QED BY <2>1, <2>2, <2>3, <3>1, InSession, AheadLater
  <2>5. \A k \in Taken(S, sig') : FillTick(S, k) <= i
    <3>1. FillTick(S, sig) = 0
      BY <2>1, DueNever
    <3>2. \A k \in Taken(S, sig) : FillTick(S, k) <= i
      BY <2>1, <2>2 DEF QueueInv
    <3>3. 0 <= i
      BY InSession, SMT
    <3> QED BY <2>3, <3>1, <3>2, <3>3
  <2> QED BY <2>1, <2>2, <2>4, <2>5 DEF QueueInv
<1>9. CASE EndSession
  <2>1. pc = "drain" /\ pc' = "session" /\ UNCHANGED <<run, s, i, sig>>
    BY <1>9 DEF EndSession
  <2>2. Settled' = Settled
    BY <2>1 DEF Settled, S
  <2> QED BY <1>a, <2>1, <2>2 DEF QueueInv
<1>10. CASE Finish
  <2>1. pc = "session" /\ pc' = "done" /\ UNCHANGED <<run, s, i, sig>>
    BY <1>10 DEF Finish
  <2>2. Settled' = Settled
    BY <2>1 DEF Settled, S
  <2> QED BY <1>a, <2>1, <2>2 DEF QueueInv
<1> QED BY <1>1, <1>2, <1>3, <1>4, <1>5, <1>6, <1>7, <1>8, <1>9, <1>10 DEF Next

\* Every error has its cause in the input.
LEMMA RaiseHasCause ==
    ASSUME TypeOK, Next, pc' = "failed"
    PROVE  /\ UNCHANGED <<run, s, i, position, ledger>> /\ pc # "failed"
           /\ \/ journal' = journal
              \/ Drain
           /\ \E n \in DOMAIN run.sessions : Malformed(n) \/ Unpriceable(n)
<1>0. /\ run.sessions \in Seq(SessionType) /\ s \in Nat
      /\ DOMAIN run.sessions = 1..Len(run.sessions) /\ Len(run.sessions) \in Nat
      /\ s > 0 => s \in DOMAIN run.sessions
  BY InSession, SMT
<1>a. ASSUME s > 0, PullFails(S, sig) PROVE Malformed(s)
  <2>1. S \in SessionType /\ sig \in Nat
    BY <1>a, InSession
  <2>2. CASE Stops(S, sig) = {}
    BY <2>2, <1>a DEF PullFails, Malformed, S
  <2>3. CASE Stops(S, sig) # {}
    <3>1. Stops(S, sig) \subseteq Nat
      BY <2>1, SMT DEF Stops, SessionType
    <3>2. NextSignal(S, sig) \in Stops(S, sig)
      BY <2>3, <3>1, LeastElement DEF NextSignal
    <3>3. NextSignal(S, sig) \in DOMAIN S.frames
      BY <3>2 DEF Stops
    <3> QED BY <2>3, <3>3, <1>a DEF PullFails, Malformed, S
  <2> QED BY <2>2, <2>3
<1>b. ASSUME s > 0, i \in DOMAIN S.ticks,
             ExitPrice(run, Tick.price) <= 0 \/ EntryPrice(run, Tick.price) <= 0
      PROVE  Unpriceable(s)
  <2>1. Tick.price \in Int /\ run.slip \in Nat
    BY <1>b, InSession DEF Tick, RunType
  <2>2. Tick.price - run.slip <= 0
    BY <1>b, <2>1, SMT DEF ExitPrice, EntryPrice
  <2> QED BY <2>2, <1>b DEF Unpriceable, Tick, S
<1>c. ASSUME Raise PROVE UNCHANGED <<run, s, i, position, ledger>> /\ journal' = journal
  BY <1>c DEF Raise
<1>1. CASE StartSession
  <2>1. Raise /\ SessionRefused(s + 1) /\ s < Len(run.sessions) /\ pc = "session"
    BY <1>1 DEF StartSession, Raise
  <2>2. s + 1 \in DOMAIN run.sessions
    BY <1>0, <2>1, SMT
  <2>3. Malformed(s + 1)
    <3> DEFINE S0 == run.sessions[s + 1]
    <3>1. CASE ~PullFails(S0, 0)
      BY <2>1, <3>1 DEF SessionRefused, Malformed
    <3>2. CASE PullFails(S0, 0) /\ Stops(S0, 0) = {}
      BY <3>2 DEF PullFails, Malformed
    <3>3. CASE PullFails(S0, 0) /\ Stops(S0, 0) # {}
      <4>1. S0 \in SessionType
        BY <1>0, <2>2, InSession, SessionTyped
      <4>2. Stops(S0, 0) \subseteq Nat
        BY <4>1, SMT DEF Stops, SessionType
      <4>3. NextSignal(S0, 0) \in Stops(S0, 0)
        BY <3>3, <4>2, LeastElement DEF NextSignal
      <4>4. NextSignal(S0, 0) \in DOMAIN S0.frames
        BY <4>3 DEF Stops
      <4> QED BY <3>3, <4>4 DEF PullFails, Malformed
    <3> QED BY <3>1, <3>2, <3>3
  <2> QED BY <1>c, <2>1, <2>2, <2>3
<1>2. CASE OpenTick
  <2>1. pc = "tick" /\ Raise /\ TickRefused
    BY <1>2 DEF OpenTick
  <2>2. s > 0 /\ i \in DOMAIN S.ticks
    BY <2>1 DEF TypeOK
  <2>3. Malformed(s)
    <3>1. CASE ~Tick.ok
      BY <2>2, <3>1 DEF Malformed, S, Tick
    <3>2. CASE Tick.ok
      <4>1. /\ i > 1
            /\ \/ S.ticks[i].ts < S.ticks[i - 1].ts
               \/ S.ticks[i].ts = S.ticks[i - 1].ts /\ S.ticks[i].seq <= S.ticks[i - 1].seq
        BY <2>1, <3>2 DEF TickRefused, Tick
      <4>2. i - 1 \in DOMAIN S.ticks /\ i - 1 < i
        BY <2>2, <4>1, InSession, SMT
      <4> QED BY <2>2, <4>1, <4>2 DEF Malformed, S
    <3> QED BY <3>1, <3>2
  <2> QED BY <1>0, <1>c, <2>1, <2>2, <2>3
<1>3. CASE TakeSignal
  <2>1. pc = "signals" /\ Raise /\ PullFails(S, sig)
    BY <1>3 DEF TakeSignal
  <2>2. s > 0
    BY <2>1 DEF TypeOK
  <2> QED BY <1>0, <1>a, <1>c, <2>1, <2>2
<1>4. CASE CheckExit
  <2>1. pc = "signals" /\ Raise /\ ExitPrice(run, Tick.price) <= 0
    BY <1>4 DEF CheckExit, ClosePosition
  <2>2. s > 0 /\ i \in DOMAIN S.ticks
    BY <2>1 DEF TypeOK
  <2> QED BY <1>0, <1>b, <1>c, <2>1, <2>2
<1>5. CASE Fill
  <2>1. pc = "fill" /\ Raise /\ EntryPrice(run, Tick.price) <= 0
    BY <1>5 DEF Fill
  <2>2. s > 0 /\ i \in DOMAIN S.ticks
    BY <2>1 DEF TypeOK
  <2> QED BY <1>0, <1>b, <1>c, <2>1, <2>2
<1>6. CASE SessionEnd
  <2>1. pc = "close" /\ Raise /\ ExitPrice(run, Tick.price) <= 0
    BY <1>6 DEF SessionEnd, ClosePosition
  <2>2. s > 0 /\ i \in DOMAIN S.ticks
    BY <2>1 DEF TypeOK
  <2> QED BY <1>0, <1>b, <1>c, <2>1, <2>2
<1>7. CASE Advance
  BY <1>7 DEF Advance
<1>8. CASE Drain
  <2>1. pc = "drain" /\ PullFails(S, sig) /\ UNCHANGED <<run, s, i, position, ledger>>
    BY <1>8 DEF Drain
  <2>2. s > 0
    BY <2>1 DEF TypeOK
  <2> QED BY <1>0, <1>a, <1>8, <2>1, <2>2
<1>9. CASE EndSession
  BY <1>9 DEF EndSession
<1>10. CASE Finish
  BY <1>10 DEF Finish
<1> QED BY <1>1, <1>2, <1>3, <1>4, <1>5, <1>6, <1>7, <1>8, <1>9, <1>10 DEF Next

(***************************************************************************)
(* The journal.                                                            *)
(***************************************************************************)
\* The signals taken have numbers that are not 0, and the lookahead is not one of them.
LEMMA TakenNumbers ==
    ASSUME TypeOK, s > 0
    PROVE  /\ Taken(S, sig) \subseteq Nat \ {0} /\ Taken(S, sig) \subseteq DOMAIN S.frames
           /\ sig # 0 => sig \notin Taken(S, sig) /\ \A k \in Taken(S, sig) : k < sig
<1>1. S \in SessionType /\ sig \in Nat
  BY InSession
<1>2. DOMAIN S.frames \subseteq Nat \ {0}
  BY <1>1, SMT DEF SessionType
<1>3. \A k \in Taken(S, sig) : k \in DOMAIN S.frames /\ (sig = 0 \/ k < sig)
  BY DEF Taken
<1>4. ~(sig < sig)
  BY <1>1, SMT
<1> QED BY <1>2, <1>3, <1>4

\* Every step that does not raise leaves the right signal selected.
LEMMA SelectStep ==
    ASSUME TypeOK, InputInv, QueueInv, SelectInv, Next, pc' # "failed"
    PROVE  SelectInv'
<1>0. ~Raise
  BY DEF Raise
<1>1. CASE pc' \notin {"signals", "fill"}
  BY <1>1 DEF SelectInv
<1>2. CASE OpenTick
  <2>1. pc = "tick" /\ pc' = "signals" /\ selected' = 0 /\ UNCHANGED <<run, s, i, sig>>
    BY <1>0, <1>2 DEF OpenTick
  <2>2. s > 0 /\ S' = S
    BY <2>1 DEF TypeOK, S
  <2>3. \A k \in Taken(S, sig) : FillTick(S, k) <= i - 1
    BY <2>1, <2>2 DEF QueueInv
  <2>4. \A k \in Taken(S, sig) : FillTick(S, k) # i
    BY <2>2, <2>3, InSession, FillTickNat, SMT
  <2> QED BY <2>1, <2>2, <2>4 DEF SelectInv
<1>3. CASE TakeSignal
  <2>1. /\ pc = "signals" /\ SignalDue /\ sig # 0 /\ ~PullFails(S, sig)
        /\ sig' = NextSignal(S, sig) /\ UNCHANGED <<run, pc, s, i, wasOpen>>
    BY <1>0, <1>3 DEF TakeSignal, SignalDue
  <2>2. s > 0 /\ S' = S
    BY <2>1 DEF TypeOK, S
  <2>3. Taken(S, sig') = Taken(S, sig) \cup {sig} /\ sig \in DOMAIN S.frames
    BY <2>1, <2>2, PullTakes
  <2>4. FillTick(S, sig) = i /\ S.frames[sig].kind = "hit"
    BY <2>1, <2>2, DueNow DEF InputInv, Screened
  <2>5. Eligible(S, sig) <=> Executable(S, sig) /\ S.frames[sig].close \in run.window
    BY <2>4 DEF Eligible
  <2>6. \A k : Eligible(S, k)' <=> Eligible(S, k)
    BY <2>1, <2>2 DEF Eligible
  <2>7. CASE selected' = selected
    <3>1. wasOpen \/ selected # 0 \/ ~Eligible(S, sig)
      <4>1. SUFFICES ASSUME ~wasOpen, selected = 0, Eligible(S, sig) PROVE FALSE
        OBVIOUS
      <4>2. selected' = sig
        BY <1>0, <1>3, <2>5, <4>1 DEF TakeSignal
      <4> QED BY <4>1, <4>2, <2>1, <2>7
    <3> QED BY <2>1, <2>2, <2>3, <2>6, <2>7, <3>1 DEF SelectInv
  <2>8. CASE selected' # selected
    <3>1. selected' = sig /\ selected = 0 /\ ~wasOpen /\ Eligible(S, sig)
      BY <1>0, <1>3, <2>5, <2>8 DEF TakeSignal
    <3>2. \A j \in 1..(sig - 1) : Eligible(S, j) => FillTick(S, j) # i
      <4>1. SUFFICES ASSUME NEW j \in 1..(sig - 1), Eligible(S, j) PROVE FillTick(S, j) # i
        OBVIOUS
      <4>2. j \in DOMAIN S.frames /\ j < sig
        <5>1. S.frames \in Seq(FrameType) /\ sig \in Nat
          BY <2>2, InSession DEF SessionType
        <5> QED BY <5>1, <2>3, SMT
      <4>3. j \in Taken(S, sig)
        BY <4>1, <4>2 DEF Taken, Eligible
      <4> QED BY <4>1, <4>3, <3>1, <2>1 DEF SelectInv
    <3> QED BY <2>1, <2>2, <2>3, <2>4, <2>6, <3>1, <3>2 DEF SelectInv
  <2> QED BY <2>7, <2>8
<1>4. CASE CheckExit
  <2>1. /\ pc = "signals" /\ pc' = "fill"
        /\ UNCHANGED <<run, s, i, sig, wasOpen, selected>>
    BY <1>0, <1>4 DEF CheckExit, ClosePosition
  <2>2. S' = S /\ \A k : Eligible(S, k)' <=> Eligible(S, k)
    BY <2>1 DEF S, Eligible
  <2> QED BY <2>1, <2>2 DEF SelectInv
<1> QED BY <1>0, <1>1, <1>2, <1>3, <1>4
     DEF Next, StartSession, Fill, SessionEnd, ClosePosition, Advance, Drain, EndSession, Finish

\* DeclaredOutcome as a function of the input and of what it asks of the slot.
Declared(r, held, n, k) ==
    LET S0 == r.sessions[n]
        f  == FillTick(S0, k)
        Fit(j) == S0.frames[j].kind = "hit" /\ Executable(S0, j) /\ S0.frames[j].close \in r.window
    IN  IF ~Executable(S0, k) THEN <<"DISCARDED", "AVAILABLE_AFTER_LAST_ELIGIBLE_TRADE">>
        ELSE IF ~Fit(k) THEN <<"DISCARDED", "SIGNAL_OUTSIDE_TIME_RANGE">>
        ELSE IF f = 0 THEN <<"DISCARDED", "SIGNAL_WITHOUT_FILL_POSTERIOR">>
        ELSE IF held THEN <<"DISCARDED", "POSITION_ALREADY_OPEN">>
        ELSE IF \E j \in 1..(k - 1) : Fit(j) /\ FillTick(S0, j) = f
             THEN <<"DISCARDED", "SIGNAL_SUPERSEDED_SAME_FILL_EVENT">>
        ELSE IF S0.ticks[f].ts \notin r.window
             THEN <<"FILL_REJECTED", "FILL_OUTSIDE_TIME_RANGE">>
        ELSE IF f = Len(S0.ticks) THEN <<"FILL_REJECTED", "LAST_TICK_FILL_FORBIDDEN">>
        ELSE <<"FILLED", "NONE">>

\* It is the same now and after a step.
LEMMA DeclaredIs ==
    ASSUME NEW n, NEW k
    PROVE  /\ DeclaredOutcome(n, k) = Declared(run, HeldAt(n, FillTick(run.sessions[n], k)), n, k)
           /\ DeclaredOutcome(n, k)' =
                Declared(run', HeldAt(n, FillTick(run.sessions[n], k))', n, k)
<1>1. DeclaredOutcome(n, k) = Declared(run, HeldAt(n, FillTick(run.sessions[n], k)), n, k)
  BY DEF DeclaredOutcome, Declared, Eligible
<1>2. DeclaredOutcome(n, k)' = Declared(run', HeldAt(n, FillTick(run.sessions[n], k))', n, k)
  BY DEF DeclaredOutcome, Declared, Eligible
<1> QED BY <1>1, <1>2

\* A step delivers at most one record: of a signal not journalled yet, whose fill event
\* has been reached, with the outcome declared for it.
LEMMA DeliveryIsDeclared ==
    ASSUME TypeOK, PositionInv, LoopInv, Next, journal' # journal
    PROVE  /\ s > 0 /\ UNCHANGED <<run, s, i>>
           /\ \E k \in DOMAIN S.frames :
                 \E o \in {"FILLED", "FILL_REJECTED", "DISCARDED"}, why \in Reasons :
                    /\ journal' = Append(journal, Record(s, k, o, why))
                    /\ <<o, why>> = DeclaredOutcome(s, k)
                    /\ FillTick(S, k) <= i
                    /\ ~Logged(journal, s, k)
                    /\ o = "FILLED" <=> position' # position
                    /\ o = "FILLED" => position' = [sig |-> k, entry |-> i] /\ FillTick(S, k) = i
<1>1. TakeSignal \/ Fill \/ Drain
  BY DEF Next, StartSession, OpenTick, CheckExit, ClosePosition, SessionEnd, Advance, EndSession,
         Finish, Raise
<1>2. /\ ~Raise /\ pc \in {"signals", "fill", "drain"}
      /\ s > 0 /\ UNCHANGED <<run, s, i>>
  BY <1>1 DEF Raise, TypeOK, TakeSignal, Fill, Drain
<1>3. InputInv /\ QueueInv /\ SelectInv /\ JournalInv /\ HeldInv
  BY <1>2 DEF LoopInv
<1>4. /\ s \in Nat /\ i \in Nat /\ S \in SessionType /\ s \in 1..s /\ ~(s < s)
      /\ S = run.sessions[s]
      /\ \A k : Logged(journal, s, k) /\ k \in Nat => k \in Taken(S, sig) \ Waiting
  <2>1. s \in Nat /\ i \in Nat /\ S \in SessionType
    BY <1>2, InSession
  <2>2. s \in 1..s /\ ~(s < s)
    BY <1>2, <2>1, SMT
  <2> QED BY <1>3, <2>1, <2>2 DEF JournalInv, S
<1>a. ASSUME NEW k \in DOMAIN S.frames,
             NEW o \in {"FILLED", "FILL_REJECTED", "DISCARDED"}, NEW why \in Reasons,
             Deliver(k, o, why),
             <<o, why>> = Declared(run, HeldAt(s, FillTick(S, k)), s, k),
             FillTick(S, k) <= i, ~Logged(journal, s, k),
             o = "FILLED" <=> position' # position,
             o = "FILLED" => position' = [sig |-> k, entry |-> i] /\ FillTick(S, k) = i
      PROVE  \E kk \in DOMAIN S.frames :
                 \E oo \in {"FILLED", "FILL_REJECTED", "DISCARDED"}, ww \in Reasons :
                    /\ journal' = Append(journal, Record(s, kk, oo, ww))
                    /\ <<oo, ww>> = DeclaredOutcome(s, kk)
                    /\ FillTick(S, kk) <= i
                    /\ ~Logged(journal, s, kk)
                    /\ oo = "FILLED" <=> position' # position
                    /\ oo = "FILLED" => position' = [sig |-> kk, entry |-> i] /\ FillTick(S, kk) = i
  <2>1. <<o, why>> = DeclaredOutcome(s, k)
    BY <1>a, <1>4, DeclaredIs
  <2>2. journal' = Append(journal, Record(s, k, o, why))
    BY <1>a DEF Deliver
  <2> QED BY <1>a, <2>1, <2>2
<1>5. CASE TakeSignal
  <2>1. pc = "signals" /\ SignalDue /\ sig # 0 /\ position' = position
    BY <1>2, <1>5 DEF TakeSignal, SignalDue
  <2>2. sig \in DOMAIN S.frames /\ FillTick(S, sig) = i /\ S.frames[sig].kind = "hit" /\ sig \in Nat
    BY <1>2, <1>3, <2>1, DueNow, InSession DEF InputInv, Screened
  <2>3. ~Logged(journal, s, sig) /\ i <= i
    BY <1>2, <1>4, <2>1, <2>2, TakenNumbers, SMT
  <2>4. i # 0
    BY <1>2, <2>1, InSession, SMT DEF TypeOK
  <2>5. CASE ~Executable(S, sig)
    <3>1. Deliver(sig, "DISCARDED", "AVAILABLE_AFTER_LAST_ELIGIBLE_TRADE")
      BY <1>2, <1>5, <2>5 DEF TakeSignal
    <3>2. Declared(run, HeldAt(s, FillTick(S, sig)), s, sig)
            = <<"DISCARDED", "AVAILABLE_AFTER_LAST_ELIGIBLE_TRADE">>
      BY <1>4, <2>5 DEF Declared
    <3> QED BY <1>2, <1>a, <2>1, <2>2, <2>3, <3>1, <3>2 DEF Reasons
  <2>6. CASE Executable(S, sig) /\ S.frames[sig].close \notin run.window
    <3>1. Deliver(sig, "DISCARDED", "SIGNAL_OUTSIDE_TIME_RANGE")
      BY <1>2, <1>5, <2>6 DEF TakeSignal
    <3>2. Declared(run, HeldAt(s, FillTick(S, sig)), s, sig)
            = <<"DISCARDED", "SIGNAL_OUTSIDE_TIME_RANGE">>
      BY <1>4, <2>6 DEF Declared
    <3> QED BY <1>2, <1>a, <2>1, <2>2, <2>3, <3>1, <3>2 DEF Reasons
  <2>7. CASE Executable(S, sig) /\ S.frames[sig].close \in run.window /\ wasOpen
    <3>1. Deliver(sig, "DISCARDED", "POSITION_ALREADY_OPEN")
      BY <1>2, <1>5, <2>7 DEF TakeSignal
    <3>2. HeldAt(s, FillTick(S, sig))
      BY <1>3, <2>1, <2>2, <2>7 DEF HeldInv
    <3>3. Declared(run, HeldAt(s, FillTick(S, sig)), s, sig)
            = <<"DISCARDED", "POSITION_ALREADY_OPEN">>
      BY <1>4, <2>2, <2>4, <2>7, <3>2 DEF Declared
    <3> QED BY <1>2, <1>a, <2>1, <2>2, <2>3, <3>1, <3>3 DEF Reasons
  <2>8. CASE Executable(S, sig) /\ S.frames[sig].close \in run.window /\ ~wasOpen
    <3>1. selected # 0
      BY <1>2, <1>5, <2>8 DEF TakeSignal
    <3>2. Deliver(sig, "DISCARDED", "SIGNAL_SUPERSEDED_SAME_FILL_EVENT")
      BY <1>2, <1>5, <2>8, <3>1 DEF TakeSignal
    <3>3. ~HeldAt(s, FillTick(S, sig))
      BY <1>3, <2>1, <2>2, <2>8 DEF HeldInv
    <3>4. selected \in 1..(sig - 1) /\ Eligible(S, selected) /\ FillTick(S, selected) = i
      <4>1. selected \in Taken(S, sig) /\ Eligible(S, selected) /\ FillTick(S, selected) = i
        BY <1>3, <2>1, <3>1 DEF SelectInv
      <4>2. selected \in Nat \ {0} /\ selected < sig
        BY <4>1, <1>2, <2>1, TakenNumbers
      <4> QED BY <4>1, <4>2, <2>2, SMT
    <3>5. Declared(run, HeldAt(s, FillTick(S, sig)), s, sig)
            = <<"DISCARDED", "SIGNAL_SUPERSEDED_SAME_FILL_EVENT">>
      BY <1>4, <2>2, <2>4, <2>8, <3>3, <3>4 DEF Declared, Eligible
    <3> QED BY <1>2, <1>a, <2>1, <2>2, <2>3, <3>2, <3>5 DEF Reasons
  <2> QED BY <1>2, <2>5, <2>6, <2>7, <2>8
<1>6. CASE Fill
  <2>1. pc = "fill" /\ ~wasOpen /\ selected # 0
    BY <1>2, <1>6 DEF Fill
  <2>2. /\ selected \in Taken(S, sig) /\ Eligible(S, selected) /\ FillTick(S, selected) = i
        /\ \A j \in 1..(selected - 1) : Eligible(S, j) => FillTick(S, j) # i
    BY <1>3, <2>1 DEF SelectInv
  <2>3. selected \in DOMAIN S.frames /\ ~Logged(journal, s, selected) /\ i <= i
    <3>1. selected \in DOMAIN S.frames /\ selected \in Nat
      BY <1>2, <2>2, TakenNumbers
    <3> QED BY <1>4, <2>1, <3>1, SMT DEF Waiting
  <2>4. ~HeldAt(s, FillTick(S, selected))
    BY <1>3, <2>1, <2>2 DEF HeldInv
  <2>5. i # 0
    BY <1>2, <2>1, InSession, SMT DEF TypeOK
  <2>6. CASE Tick.ts \notin run.window
    <3>1. Deliver(selected, "FILL_REJECTED", "FILL_OUTSIDE_TIME_RANGE") /\ position' = position
      BY <1>2, <1>6, <2>1, <2>6 DEF Fill
    <3>2. Declared(run, HeldAt(s, FillTick(S, selected)), s, selected)
            = <<"FILL_REJECTED", "FILL_OUTSIDE_TIME_RANGE">>
      BY <1>4, <2>2, <2>4, <2>5, <2>6 DEF Declared, Eligible, Tick
    <3> QED BY <1>2, <1>a, <2>1, <2>2, <2>3, <3>1, <3>2 DEF Reasons
  <2>7. CASE Tick.ts \in run.window /\ LastTick
    <3>1. Deliver(selected, "FILL_REJECTED", "LAST_TICK_FILL_FORBIDDEN") /\ position' = position
      BY <1>2, <1>6, <2>1, <2>7 DEF Fill
    <3>2. Declared(run, HeldAt(s, FillTick(S, selected)), s, selected)
            = <<"FILL_REJECTED", "LAST_TICK_FILL_FORBIDDEN">>
      BY <1>4, <2>2, <2>4, <2>5, <2>7 DEF Declared, Eligible, Tick, LastTick
    <3> QED BY <1>2, <1>a, <2>1, <2>2, <2>3, <3>1, <3>2 DEF Reasons
  <2>8. CASE Tick.ts \in run.window /\ ~LastTick
    <3>1. /\ Deliver(selected, "FILLED", "NONE")
          /\ position' = [sig |-> selected, entry |-> i]
      BY <1>2, <1>6, <2>1, <2>8 DEF Fill
    <3>2. Declared(run, HeldAt(s, FillTick(S, selected)), s, selected) = <<"FILLED", "NONE">>
      BY <1>4, <2>2, <2>4, <2>5, <2>8 DEF Declared, Eligible, Tick, LastTick
    <3>3. position' # position
      <4>1. position = NoPosition
        BY <2>1 DEF PositionInv, SlotInv, IsOpen
      <4> QED BY <4>1, <3>1, <2>5 DEF NoPosition
    <3> QED BY <1>2, <1>a, <2>1, <2>2, <2>3, <3>1, <3>2, <3>3 DEF Reasons
  <2> QED BY <1>2, <2>6, <2>7, <2>8
<1>7. CASE Drain
  <2>1. pc = "drain" /\ sig # 0 /\ position' = position /\ Deliver(sig, "DISCARDED", DrainReason)
    BY <1>7 DEF Drain
  <2>2. /\ sig \in DOMAIN S.frames /\ FillTick(S, sig) = 0 /\ S.frames[sig].kind = "hit"
        /\ sig \in Nat
    BY <1>2, <1>3, <2>1, DueNever, InSession DEF InputInv, Screened
  <2>3. ~Logged(journal, s, sig) /\ 0 <= i
    BY <1>2, <1>4, <2>1, <2>2, TakenNumbers, SMT
  <2>4. Declared(run, HeldAt(s, FillTick(S, sig)), s, sig) = <<"DISCARDED", DrainReason>>
    BY <1>4, <2>2 DEF Declared, DrainReason
  <2>5. DrainReason \in Reasons
    BY DEF DrainReason, Reasons
  <2> QED BY <1>2, <1>a, <2>1, <2>2, <2>3, <2>4, <2>5
<1> QED BY <1>1, <1>2, <1>5, <1>6, <1>7

\* What an append adds to the journal.
LEMMA LogAppend ==
    ASSUME TypeOK, NEW k \in Nat, NEW o \in {"FILLED", "FILL_REJECTED", "DISCARDED"}, NEW why \in Reasons,
           journal' = Append(journal, Record(s, k, o, why))
    PROVE  /\ Len(journal) + 1 \notin DOMAIN journal
           /\ DOMAIN journal' = DOMAIN journal \cup {Len(journal) + 1}
           /\ journal'[Len(journal) + 1] = Record(s, k, o, why)
           /\ \A j \in DOMAIN journal : journal'[j] = journal[j]
           /\ \A n, m : Logged(journal', n, m) <=> Logged(journal, n, m) \/ (n = s /\ m = k)
<1> DEFINE rec == Record(s, k, o, why)
<1>1. rec \in JournalType
  BY InSession DEF Record, JournalType
<1>2. rec.session = s /\ rec.sig = k
  BY DEF Record
<1> HIDE DEF rec
<1>3. journal \in Seq(JournalType) /\ journal' = Append(journal, rec)
  BY DEF TypeOK, rec
<1>4. /\ Len(journal) + 1 \notin DOMAIN journal
      /\ DOMAIN journal' = DOMAIN journal \cup {Len(journal) + 1}
      /\ journal'[Len(journal) + 1] = rec
      /\ \A j \in DOMAIN journal : journal'[j] = journal[j]
  BY <1>1, <1>3, SMT
<1>5. \A n, m : Logged(journal', n, m) <=> Logged(journal, n, m) \/ (n = s /\ m = k)
  <2>1. ASSUME NEW n, NEW m, Logged(journal', n, m) PROVE Logged(journal, n, m) \/ (n = s /\ m = k)
    <3>1. PICK j \in DOMAIN journal' : journal'[j].session = n /\ journal'[j].sig = m
      BY <2>1 DEF Logged
    <3>2. j \in DOMAIN journal \/ j = Len(journal) + 1
      BY <1>4
    <3> QED BY <1>2, <1>4, <3>1, <3>2 DEF Logged
  <2>2. ASSUME NEW n, NEW m, Logged(journal, n, m) PROVE Logged(journal', n, m)
    <3>1. PICK j \in DOMAIN journal : journal[j].session = n /\ journal[j].sig = m
      BY <2>2 DEF Logged
    <3> QED BY <1>4, <3>1 DEF Logged
  <2>3. Logged(journal', s, k)
    BY <1>2, <1>4 DEF Logged
  <2> QED BY <2>1, <2>2, <2>3
<1> QED BY <1>4, <1>5 DEF rec

\* Every step that does not raise keeps the journal at the signals taken.
LEMMA JournalStep ==
    ASSUME TypeOK, PositionInv, LoopInv, Next, pc' # "failed"
    PROVE  JournalInv'
<1>0. ~Raise /\ pc # "failed"
  BY DEF Raise, Next, StartSession, OpenTick, TakeSignal, CheckExit, Fill, SessionEnd, Advance,
         Drain, EndSession, Finish
<1>1. InputInv /\ QueueInv /\ SelectInv /\ JournalInv
  BY <1>0 DEF LoopInv
<1>2. s \in Nat /\ \A n \in 1..s : n < s \/ n = s
  BY InSession, SMT
<1>3. ASSUME UNCHANGED <<run, s>>,
             \A j \in DOMAIN journal' : journal'[j].session \in 1..s,
             \A n, m : n # s => (Logged(journal', n, m) <=> Logged(journal, n, m)),
             s > 0 => \A k \in Nat : Logged(journal', s, k) <=> k \in (Taken(S, sig) \ Waiting)'
      PROVE  JournalInv'
  <2>1. SUFFICES ASSUME NEW n \in 1..s, NEW k \in Nat
                 PROVE  Logged(journal', n, k) <=>
                          k \in IF n < s THEN Taken(run.sessions[n], 0) ELSE (Taken(S, sig) \ Waiting)'
    BY <1>3 DEF JournalInv
  <2>2. CASE n < s
    <3>1. n # s
      BY <2>2, <1>2, SMT
    <3>2. Logged(journal, n, k) <=> k \in Taken(run.sessions[n], 0)
      BY <1>1, <2>2 DEF JournalInv
    <3> QED BY <1>3, <2>2, <3>1, <3>2
  <2>3. CASE n = s
    <3>1. s > 0 /\ ~(n < s)
      BY <2>3, <1>2, SMT
    <3> QED BY <1>3, <2>3, <3>1
  <2> QED BY <1>2, <2>2, <2>3
<1>4. s > 0 => \A k \in Nat : Logged(journal, s, k) <=> k \in Taken(S, sig) \ Waiting
  <2>1. s > 0 => s \in 1..s /\ ~(s < s)
    BY <1>2, SMT
  <2> QED BY <1>1, <2>1 DEF JournalInv
<1>5. \A j \in DOMAIN journal : journal[j].session \in 1..s
  BY <1>1 DEF JournalInv
<1>a. ASSUME UNCHANGED <<run, s, journal, sig>>, s > 0 => Taken(S, sig) \ Waiting' = Taken(S, sig) \ Waiting
      PROVE  JournalInv'
  <2>1. S' = S
    BY <1>a DEF S
  <2> QED BY <1>3, <1>4, <1>5, <1>a, <2>1
<1>b. ASSUME NEW k \in DOMAIN S.frames, s > 0, UNCHANGED <<run, s>>,
             NEW o \in {"FILLED", "FILL_REJECTED", "DISCARDED"}, NEW why \in Reasons, Deliver(k, o, why),
             (Taken(S, sig) \ Waiting)' = (Taken(S, sig) \ Waiting) \cup {k}
      PROVE  JournalInv'
  <2>0. S \in SessionType
    BY <1>b, InSession
  <2>1. k \in Nat
    <3>1. DOMAIN S.frames \subseteq Nat
      BY <2>0, SMT DEF SessionType
    <3> QED BY <3>1
  <2>2. /\ DOMAIN journal' = DOMAIN journal \cup {Len(journal) + 1}
        /\ journal'[Len(journal) + 1] = Record(s, k, o, why)
        /\ \A j \in DOMAIN journal : journal'[j] = journal[j]
        /\ \A n, m : Logged(journal', n, m) <=> Logged(journal, n, m) \/ (n = s /\ m = k)
    BY <1>b, <2>1, LogAppend DEF Deliver
  <2>3. Record(s, k, o, why).session = s /\ s \in 1..s
    BY <1>b, <1>2, SMT DEF Record
  <2>4. \A j \in DOMAIN journal' : journal'[j].session \in 1..s
    BY <1>5, <2>2, <2>3
  <2>5. \A m \in Nat : Logged(journal', s, m) <=> m \in (Taken(S, sig) \ Waiting) \cup {k}
    BY <1>4, <1>b, <2>2
  <2> QED BY <1>3, <1>b, <2>2, <2>4, <2>5
<1>6. CASE StartSession
  <2>1. /\ s' = s + 1 /\ run' = run /\ Taken(S', sig') = {} /\ journal' = journal
    BY <1>0, <1>1, <1>6, StartReads
  <2>2. pc = "session" /\ sig = 0
    BY <1>1, <1>6 DEF InputInv, StartSession
  <2>3. \A j \in DOMAIN journal' : journal'[j].session \in 1..s'
    BY <1>2, <1>5, <2>1, SMT
  <2>4. ASSUME NEW n \in 1..s', NEW k \in Nat
        PROVE  Logged(journal', n, k) <=>
                 k \in IF n < s' THEN Taken(run'.sessions[n], 0) ELSE (Taken(S, sig) \ Waiting)'
    <3>1. CASE n = s + 1
      <4>1. ~Logged(journal, n, k)
        BY <1>2, <1>5, <3>1, SMT DEF Logged
      <4>2. ~(n < s')
        BY <1>2, <2>1, <3>1, SMT
      <4> QED BY <2>1, <4>1, <4>2
    <3>2. CASE n # s + 1
      <4>1. n \in 1..s /\ n < s' /\ (n < s \/ (n = s /\ s > 0))
        BY <1>2, <2>1, <3>2, SMT
      <4>2. CASE n < s
        BY <1>1, <2>1, <4>1, <4>2 DEF JournalInv
      <4>3. CASE n = s /\ s > 0
        <5>1. Waiting = {} /\ S = run.sessions[n]
          BY <2>2, <4>3 DEF Waiting, S
        <5> QED BY <1>4, <2>1, <2>2, <4>1, <4>3, <5>1
      <4> QED BY <4>1, <4>2, <4>3
    <3> QED BY <3>1, <3>2
  <2> QED BY <2>3, <2>4 DEF JournalInv
<1>7. CASE OpenTick
  <2>1. pc = "tick" /\ pc' = "signals" /\ selected' = 0 /\ UNCHANGED <<run, s, i, sig, journal>>
    BY <1>0, <1>7 DEF OpenTick
  <2>2. Waiting = {} /\ Waiting' = {0}
    BY <2>1 DEF Waiting
  <2>3. s > 0 => 0 \notin Taken(S, sig)
    BY TakenNumbers
  <2> QED BY <1>a, <2>1, <2>2, <2>3
<1>8. CASE TakeSignal
  <2>1. /\ pc = "signals" /\ SignalDue /\ sig # 0 /\ ~PullFails(S, sig)
        /\ sig' = NextSignal(S, sig) /\ UNCHANGED <<run, pc, s, i, wasOpen>>
    BY <1>0, <1>8 DEF TakeSignal, SignalDue
  <2>2. s > 0 /\ S' = S
    BY <2>1 DEF TypeOK, S
  <2>3. Taken(S, sig') = Taken(S, sig) \cup {sig} /\ sig \in DOMAIN S.frames
    BY <1>1, <2>1, <2>2, PullTakes
  <2>4. sig \notin Taken(S, sig) /\ 0 \notin Taken(S, sig)
    BY <2>1, <2>2, TakenNumbers
  <2>5. Waiting = {selected} /\ Waiting' = {selected'}
    BY <2>1 DEF Waiting
  <2>6. selected = 0 \/ selected \in Taken(S, sig)
    BY <1>1, <2>1 DEF SelectInv
  <2>7. CASE \E why \in Reasons : Deliver(sig, "DISCARDED", why) /\ selected' = selected
    <3>1. sig # selected
      BY <2>1, <2>4, <2>6
    <3>2. (Taken(S, sig) \ Waiting)' = (Taken(S, sig) \ Waiting) \cup {sig}
      BY <2>2, <2>3, <2>5, <2>7, <3>1
    <3> QED BY <1>b, <2>1, <2>2, <2>3, <2>7, <3>2
  <2>8. CASE selected' = sig /\ selected = 0 /\ journal' = journal
    <3>1. (Taken(S, sig) \ Waiting)' = Taken(S, sig) \ Waiting
      BY <2>2, <2>3, <2>4, <2>5, <2>8
    <3> QED BY <1>3, <1>4, <1>5, <2>1, <2>8, <3>1
  <2> QED BY <1>0, <1>8, <2>7, <2>8 DEF TakeSignal, Reasons
<1>9. CASE CheckExit
  <2>1. /\ pc = "signals" /\ pc' = "fill"
        /\ UNCHANGED <<run, s, i, sig, wasOpen, selected, journal>>
    BY <1>0, <1>9 DEF CheckExit, ClosePosition
  <2>2. Waiting' = Waiting
    BY <2>1 DEF Waiting
  <2> QED BY <1>a, <2>1, <2>2
<1>10. CASE Fill
  <2>1. pc = "fill" /\ pc' = "close" /\ UNCHANGED <<run, s, i, sig, selected>>
    BY <1>0, <1>10 DEF Fill
  <2>2. Waiting = {selected} /\ Waiting' = {} /\ S' = S /\ s > 0
    BY <2>1 DEF Waiting, S, TypeOK
  <2>3. CASE wasOpen \/ selected = 0
    <3>1. selected = 0 /\ journal' = journal
      BY <1>0, <1>1, <1>10, <2>1, <2>3 DEF SelectInv, Fill
    <3>2. 0 \notin Taken(S, sig)
      BY <2>2, TakenNumbers
    <3> QED BY <1>a, <2>1, <2>2, <3>1, <3>2
  <2>4. CASE ~wasOpen /\ selected # 0
    <3>1. selected \in Taken(S, sig) /\ selected \in DOMAIN S.frames
      BY <1>1, <2>1, <2>2, <2>4, TakenNumbers DEF SelectInv
    <3>2. (Taken(S, sig) \ Waiting)' = (Taken(S, sig) \ Waiting) \cup {selected}
      BY <2>1, <2>2, <3>1
    <3>3. \E o \in {"FILLED", "FILL_REJECTED", "DISCARDED"}, why \in Reasons : Deliver(selected, o, why)
      BY <1>0, <1>10, <2>4 DEF Fill, Reasons
    <3> QED BY <1>b, <2>1, <2>2, <3>1, <3>2, <3>3
  <2> QED BY <2>3, <2>4
<1>11. CASE SessionEnd
  <2>1. pc = "close" /\ pc' = "drain" /\ UNCHANGED <<run, s, sig, journal>>
    BY <1>0, <1>11 DEF SessionEnd, ClosePosition
  <2>2. Waiting' = Waiting
    BY <2>1 DEF Waiting
  <2> QED BY <1>a, <2>1, <2>2
<1>12. CASE Advance
  <2>1. pc = "close" /\ pc' = "tick" /\ UNCHANGED <<run, s, sig, journal>>
    BY <1>12 DEF Advance
  <2>2. Waiting' = Waiting
    BY <2>1 DEF Waiting
  <2> QED BY <1>a, <2>1, <2>2
<1>13. CASE Drain
  <2>1. /\ pc = "drain" /\ sig # 0 /\ ~PullFails(S, sig) /\ sig' = NextSignal(S, sig)
        /\ Deliver(sig, "DISCARDED", DrainReason) /\ UNCHANGED <<run, pc, s, i>>
    BY <1>13 DEF Drain
  <2>2. s > 0 /\ S' = S
    BY <2>1 DEF TypeOK, S
  <2>3. Taken(S, sig') = Taken(S, sig) \cup {sig} /\ sig \in DOMAIN S.frames
    BY <1>1, <2>1, <2>2, PullTakes
  <2>4. Waiting = {} /\ Waiting' = {}
    BY <2>1 DEF Waiting
  <2>5. (Taken(S, sig) \ Waiting)' = (Taken(S, sig) \ Waiting) \cup {sig}
    BY <2>2, <2>3, <2>4
  <2>6. DrainReason \in Reasons
    BY DEF DrainReason, Reasons
  <2> QED BY <1>b, <2>1, <2>2, <2>3, <2>5, <2>6
<1>14. CASE EndSession \/ Finish
  <2>1. pc \in {"drain", "session"} /\ pc' \in {"session", "done"} /\ UNCHANGED <<run, s, sig, journal>>
    BY <1>14 DEF EndSession, Finish
  <2>2. Waiting' = Waiting
    BY <2>1 DEF Waiting
  <2> QED BY <1>a, <2>1, <2>2
<1> QED BY <1>6, <1>7, <1>8, <1>9, <1>10, <1>11, <1>12, <1>13, <1>14 DEF Next

(***************************************************************************)
(* The slot.                                                               *)
(***************************************************************************)
\* Four things may happen to slot and ledger: nothing, a new session with an empty
\* slot, the exit of the open position at the current tick, for the level that it is
\* the first to touch or at the end of the session, or an entry at the current tick.
Rests == UNCHANGED <<s, ledger, position>>
Starts == s' = s + 1 /\ ledger' = ledger /\ position = NoPosition /\ position' = NoPosition
Exits(reason) ==
    /\ IsOpen /\ UNCHANGED <<s, i, sig, journal>>
    /\ s > 0 /\ i \in DOMAIN S.ticks /\ position.entry < i
    /\ position' = NoPosition
    /\ ledger' = Append(ledger, ClosedTrade(run, s, position, i, reason))
    /\ reason = LET at == Touched(run, S.ticks[position.entry].price, S.ticks[i].price)
                IN  IF at = "NONE" THEN "SESSION_END" ELSE at
    /\ reason = "SESSION_END" => i = Len(S.ticks)
    /\ Untouched(run, S, position.entry, position.entry + 1, i - 1)
    /\ pc \in {"signals", "close"} /\ pc' \in {"fill", "drain"}
Enters ==
    /\ ~IsOpen /\ UNCHANGED <<s, i, sig, ledger>>
    /\ s > 0 /\ i \in DOMAIN S.ticks /\ pc = "fill" /\ pc' = "close"
    /\ position' = [sig |-> selected, entry |-> i]

\* Every step does one of the four.
LEMMA SlotMoves ==
    ASSUME TypeOK, PositionInv, LoopInv, Next
    PROVE  /\ pc # "failed" /\ run' = run
           /\ \/ Rests /\ i' \in {i, i + 1}
              \/ Starts /\ StartSession
              \/ \E reason \in {"TAKE_PROFIT", "STOP_LOSS", "SESSION_END"} : Exits(reason)
              \/ Enters /\ Fill
<1>1. pc # "failed" /\ run' = run
  BY LedgerStep DEF Next, StartSession, OpenTick, TakeSignal, CheckExit, Fill, SessionEnd, Advance,
     Drain, EndSession, Finish
<1>2. OpenInv /\ i \in Nat
  BY <1>1, InSession DEF LoopInv
<1>3. IsOpen => position.entry \in Nat /\ i - 1 \in Int
  BY <1>2, SMT DEF TypeOK
<1>a. ASSUME Raise PROVE Rests /\ i' \in {i, i + 1}
  BY <1>a DEF Raise, Rests
<1>4. CASE StartSession
  <2>1. CASE Raise
    BY <1>1, <1>a, <2>1
  <2>2. CASE ~Raise
    <3>1. s' = s + 1 /\ ledger' = ledger /\ position' = NoPosition /\ pc = "session"
      BY <1>4, <2>2 DEF StartSession
    <3>2. position = NoPosition
      BY <3>1 DEF PositionInv, SlotInv, IsOpen
    <3> QED BY <1>1, <1>4, <3>1, <3>2 DEF Starts
  <2> QED BY <2>1, <2>2
<1>5. CASE OpenTick \/ TakeSignal \/ Advance \/ Drain \/ EndSession \/ Finish
  BY <1>1, <1>5 DEF OpenTick, TakeSignal, Advance, Drain, EndSession, Finish, Raise, Rests
<1>6. CASE CheckExit
  <2> DEFINE at == Touched(run, S.ticks[position.entry].price, S.ticks[i].price)
  <2>1. pc = "signals" /\ s > 0 /\ i \in DOMAIN S.ticks
    BY <1>6 DEF CheckExit, TypeOK
  <2>2. CASE ~IsOpen \/ at = "NONE"
    BY <1>1, <1>6, <2>2 DEF CheckExit, Rests, Tick
  <2>3. CASE IsOpen /\ at # "NONE"
    <3>1. at \in {"TAKE_PROFIT", "STOP_LOSS"}
      BY <2>3 DEF Touched
    <3>2. ClosePosition(at, "fill")
      BY <1>6, <2>3 DEF CheckExit, Tick
    <3>3. position.entry < i
      BY <1>2, <1>3, <2>1, <2>3, SMT DEF PositionInv, EntryInv
    <3>4. Untouched(run, S, position.entry, position.entry + 1, i - 1)
      BY <1>2, <2>1, <2>3 DEF OpenInv, Settled
    <3>5. CASE Raise
      BY <1>1, <1>a, <3>5
    <3>6. CASE ~Raise
      <4>1. /\ ledger' = Append(ledger, ClosedTrade(run, s, position, i, at))
            /\ position' = NoPosition /\ pc' = "fill" /\ UNCHANGED <<s, i, sig, journal>>
        BY <3>2, <3>6 DEF ClosePosition
      <4>2. at # "SESSION_END" /\ at = IF at = "NONE" THEN "SESSION_END" ELSE at
        BY <3>1
      <4>3. Exits(at)
        BY <2>1, <2>3, <3>3, <3>4, <4>1, <4>2 DEF Exits
      <4> QED BY <1>1, <3>1, <4>3
    <3> QED BY <3>5, <3>6
  <2> QED BY <2>2, <2>3
<1>7. CASE Fill
  <2>1. pc = "fill" /\ s > 0 /\ i \in DOMAIN S.ticks
    BY <1>7 DEF Fill, TypeOK
  <2>2. CASE Raise
    BY <1>1, <1>a, <2>2
  <2>3. CASE ~Raise /\ position' = position
    BY <1>1, <1>7, <2>3 DEF Fill, Rests
  <2>4. CASE ~Raise /\ position' # position
    <3>1. /\ position' = [sig |-> selected, entry |-> i] /\ pc' = "close" /\ ~wasOpen
          /\ UNCHANGED <<s, i, sig, ledger>>
      BY <1>7, <2>4 DEF Fill
    <3>2. ~IsOpen
      BY <2>1, <3>1 DEF PositionInv, SlotInv
    <3> QED BY <1>1, <1>7, <2>1, <3>1, <3>2 DEF Enters
  <2> QED BY <2>2, <2>3, <2>4
<1>8. CASE SessionEnd
  <2> DEFINE at == Touched(run, S.ticks[position.entry].price, S.ticks[i].price)
  <2>1. pc = "close" /\ s > 0 /\ i \in DOMAIN S.ticks /\ i = Len(S.ticks)
    BY <1>8 DEF SessionEnd, TypeOK, LastTick
  <2>2. CASE ~IsOpen
    BY <1>1, <1>8, <2>2 DEF SessionEnd, Rests
  <2>3. CASE IsOpen
    <3>1. ClosePosition("SESSION_END", "drain")
      BY <1>8, <2>3 DEF SessionEnd
    <3>2. position.entry < i
      BY <2>1, <2>3 DEF PositionInv, EntryInv
    <3>3. Untouched(run, S, position.entry, position.entry + 1, i)
      BY <1>2, <2>1, <2>3 DEF OpenInv, Settled
    <3>4. i \in (position.entry + 1)..i
      BY <1>2, <1>3, <2>3, <3>2, SMT
    <3>5. at = "NONE"
      BY <3>3, <3>4 DEF Untouched
    <3>6. Untouched(run, S, position.entry, position.entry + 1, i - 1)
      <4>1. \A j \in (position.entry + 1)..(i - 1) : j \in (position.entry + 1)..i
        BY <1>2, <1>3, <2>3, SMT
      <4> QED BY <3>3, <4>1 DEF Untouched
    <3>7. CASE Raise
      BY <1>1, <1>a, <3>7
    <3>8. CASE ~Raise
      <4>1. /\ ledger' = Append(ledger, ClosedTrade(run, s, position, i, "SESSION_END"))
            /\ position' = NoPosition /\ pc' = "drain" /\ UNCHANGED <<s, i, sig, journal>>
        BY <3>1, <3>8 DEF ClosePosition
      <4>2. Exits("SESSION_END")
        BY <2>1, <2>3, <3>2, <3>5, <3>6, <4>1 DEF Exits
      <4> QED BY <1>1, <4>2
    <3> QED BY <3>7, <3>8
  <2> QED BY <2>2, <2>3
<1> QED BY <1>4, <1>5, <1>6, <1>7, <1>8 DEF Next

\* What an exit adds to the ledger.
LEMMA TradeAppend ==
    ASSUME TypeOK, NEW reason \in {"TAKE_PROFIT", "STOP_LOSS", "SESSION_END"}, Exits(reason),
           NEW new, new = ClosedTrade(run, s, position, i, reason)
    PROVE  /\ new.session = s /\ new.sig = position.sig /\ new.entry = position.entry
           /\ new.exit = i /\ new.reason = reason
           /\ Len(ledger) + 1 \notin DOMAIN ledger
           /\ DOMAIN ledger' = DOMAIN ledger \cup {Len(ledger) + 1}
           /\ ledger'[Len(ledger) + 1] = new
           /\ \A t \in DOMAIN ledger : ledger'[t] = ledger[t]
           /\ \A n, k : Traded(ledger', n, k) <=> Traded(ledger, n, k) \/ (n = s /\ k = position.sig)
<1>1. /\ new.session = s /\ new.sig = position.sig /\ new.entry = position.entry
      /\ new.exit = i /\ new.reason = reason
  BY DEF ClosedTrade
<1>2. new \in LedgerType
  <2>1. s \in 1..Len(run.sessions)
    BY InSession DEF Exits
  <2> QED BY <2>1, ClosedTradeTyped DEF TypeOK, S, Exits
<1>3. ledger \in Seq(LedgerType) /\ ledger' = Append(ledger, new)
  BY DEF TypeOK, Exits
<1>4. /\ Len(ledger) + 1 \notin DOMAIN ledger
      /\ DOMAIN ledger' = DOMAIN ledger \cup {Len(ledger) + 1}
      /\ ledger'[Len(ledger) + 1] = new
      /\ \A t \in DOMAIN ledger : ledger'[t] = ledger[t]
  BY <1>2, <1>3, SMT
<1>5. \A n, k : Traded(ledger', n, k) <=> Traded(ledger, n, k) \/ (n = s /\ k = position.sig)
  <2>1. ASSUME NEW n, NEW k, Traded(ledger', n, k)
        PROVE  Traded(ledger, n, k) \/ (n = s /\ k = position.sig)
    <3>1. PICK t \in DOMAIN ledger' : ledger'[t].session = n /\ ledger'[t].sig = k
      BY <2>1 DEF Traded
    <3>2. t \in DOMAIN ledger \/ t = Len(ledger) + 1
      BY <1>4
    <3> QED BY <1>1, <1>4, <3>1, <3>2 DEF Traded
  <2>2. ASSUME NEW n, NEW k, Traded(ledger, n, k) PROVE Traded(ledger', n, k)
    <3>1. PICK t \in DOMAIN ledger : ledger[t].session = n /\ ledger[t].sig = k
      BY <2>2 DEF Traded
    <3> QED BY <1>4, <3>1 DEF Traded
  <2>3. Traded(ledger', s, position.sig)
    BY <1>1, <1>4 DEF Traded
  <2> QED BY <2>1, <2>2, <2>3
<1> QED BY <1>1, <1>4, <1>5

\* HeldAt over the indices of the ledger, now and after a step.
LEMMA HeldIs ==
    ASSUME NEW n, NEW f
    PROVE  /\ HeldAt(n, f) <=>
                \/ \E t \in DOMAIN ledger :
                      ledger[t].session = n /\ ledger[t].entry < f /\ f <= ledger[t].exit
                \/ IsOpen /\ s = n /\ position.entry < f
           /\ HeldAt(n, f)' <=>
                \/ \E t \in DOMAIN ledger' :
                      ledger'[t].session = n /\ ledger'[t].entry < f /\ f <= ledger'[t].exit
                \/ IsOpen' /\ s' = n /\ position'.entry < f
  BY DEF HeldAt, Trades

\* No step changes whether a position was held at a tick that has been reached.
LEMMA HeldStable ==
    ASSUME TypeOK, PositionInv, LoopInv, Next, NEW n \in 1..s, NEW f \in Nat, n = s => f <= i
    PROVE  HeldAt(n, f)' <=> HeldAt(n, f)
<1>0. s \in Nat /\ i \in Nat
  BY InSession
<1>1. CASE Rests
  BY <1>1, HeldIs DEF Rests, IsOpen
<1>2. CASE Starts
  BY <1>2, HeldIs DEF Starts, IsOpen
<1>3. ASSUME NEW reason \in {"TAKE_PROFIT", "STOP_LOSS", "SESSION_END"}, Exits(reason)
      PROVE  HeldAt(n, f)' <=> HeldAt(n, f)
  <2> DEFINE new == ClosedTrade(run, s, position, i, reason)
  <2>1. /\ new.session = s /\ new.entry = position.entry /\ new.exit = i
        /\ DOMAIN ledger' = DOMAIN ledger \cup {Len(ledger) + 1}
        /\ ledger'[Len(ledger) + 1] = new
        /\ \A t \in DOMAIN ledger : ledger'[t] = ledger[t]
    BY <1>3, TradeAppend
  <2>2. IsOpen /\ ~IsOpen'
    BY <1>3 DEF Exits, IsOpen
  <2> HIDE DEF new
  <2>3. (\E t \in DOMAIN ledger' :
            ledger'[t].session = n /\ ledger'[t].entry < f /\ f <= ledger'[t].exit)
        <=> \/ \E t \in DOMAIN ledger :
                  ledger[t].session = n /\ ledger[t].entry < f /\ f <= ledger[t].exit
            \/ s = n /\ position.entry < f /\ f <= i
    BY <2>1
  <2> QED BY <2>2, <2>3, HeldIs
<1>4. CASE Enters
  <2>1. ~IsOpen /\ ledger' = ledger /\ s' = s /\ position'.entry = i
    BY <1>4 DEF Enters
  <2>2. s = n => ~(i < f)
    BY <1>0, SMT
  <2> QED BY <2>1, <2>2, HeldIs
<1> QED BY <1>1, <1>2, <1>3, <1>4, SlotMoves

\* Every step that does not raise keeps the snapshot true to the slot.
LEMMA HeldStep ==
    ASSUME TypeOK, PositionInv, LoopInv, Next, pc' # "failed"
    PROVE  HeldInv'
<1>0. ~Raise /\ pc # "failed"
  BY DEF Raise, Next, StartSession, OpenTick, TakeSignal, CheckExit, Fill, SessionEnd, Advance,
         Drain, EndSession, Finish
<1>1. HeldInv /\ TradesInv /\ i \in Nat /\ s \in Nat
  BY <1>0, InSession DEF LoopInv
<1>2. CASE pc' \notin {"signals", "fill"}
  BY <1>2 DEF HeldInv
<1>3. CASE OpenTick
  <2>1. /\ pc = "tick" /\ pc' = "signals" /\ wasOpen' = IsOpen
        /\ UNCHANGED <<run, s, i, position, ledger>>
    BY <1>0, <1>3 DEF OpenTick
  <2>2. \A t \in DOMAIN ledger : ledger[t].session = s => ~(i <= ledger[t].exit)
    <3>1. \A t \in DOMAIN ledger : ledger[t].session = s => ledger[t].exit <= i - 1
      BY <1>1, <2>1 DEF TradesInv
    <3>2. \A t \in DOMAIN ledger : ledger[t] \in LedgerType
      BY SMT DEF TypeOK
    <3>3. \A t \in DOMAIN ledger : ledger[t].exit \in Nat
      BY <3>2 DEF LedgerType
    <3> QED BY <1>1, <3>1, <3>3, SMT
  <2>3. IsOpen => position.entry < i
    <3>1. position.entry \in Nat
      BY DEF TypeOK
    <3> QED BY <1>1, <2>1, <3>1, SMT DEF PositionInv, EntryInv
  <2>4. HeldAt(s, i)' <=> IsOpen
    BY <2>1, <2>2, <2>3 DEF HeldAt, Trades, IsOpen
  <2> QED BY <2>1, <2>4 DEF HeldInv
<1>4. CASE TakeSignal
  <2>1. pc = "signals" /\ UNCHANGED <<pc, s, i, wasOpen, position, ledger>>
    BY <1>0, <1>4 DEF TakeSignal
  <2>2. HeldAt(s, i)' <=> HeldAt(s, i)
    BY <2>1 DEF HeldAt, Trades, IsOpen
  <2> QED BY <1>1, <2>1, <2>2 DEF HeldInv
<1>5. CASE CheckExit
  <2>1. pc = "signals" /\ pc' = "fill" /\ UNCHANGED <<s, i, wasOpen>> /\ s > 0
    BY <1>0, <1>5 DEF CheckExit, ClosePosition, TypeOK
  <2>2. s \in 1..s /\ i <= i
    BY <1>1, <2>1, SMT
  <2>3. \A n, f : n = s /\ f = i => (HeldAt(n, f)' <=> HeldAt(n, f))
    <3> SUFFICES ASSUME NEW n, NEW f, n = s, f = i PROVE HeldAt(n, f)' <=> HeldAt(n, f)
      OBVIOUS
    <3> QED BY <1>1, <2>2, HeldStable
  <2>4. \A n, f : n = s' /\ f = i' => (HeldAt(n, f)' <=> HeldAt(s, i)')
    BY DEF HeldAt
  <2>5. HeldAt(s, i)' <=> HeldAt(s, i)
    BY <2>1, <2>3, <2>4
  <2> QED BY <1>1, <2>1, <2>5 DEF HeldInv
<1> QED BY <1>0, <1>2, <1>3, <1>4, <1>5
     DEF Next, StartSession, Fill, SessionEnd, ClosePosition, Advance, Drain, EndSession, Finish

\* Every step that does not raise leaves the trades at or before the current tick.
LEMMA TradesStep ==
    ASSUME TypeOK, PositionInv, LoopInv, Next, pc' # "failed"
    PROVE  TradesInv'
<1> DEFINE Bound == IF pc \in {"tick", "signals"} THEN i - 1 ELSE i
<1>0. ~Raise /\ pc # "failed"
  BY DEF Raise, Next, StartSession, OpenTick, TakeSignal, CheckExit, Fill, SessionEnd, Advance,
         Drain, EndSession, Finish
<1>1. TradesInv /\ i \in Nat /\ s \in Nat
  BY <1>0, InSession DEF LoopInv
<1>2. \A t \in DOMAIN ledger : ledger[t].exit \in Nat
  <2>1. \A t \in DOMAIN ledger : ledger[t] \in LedgerType
    BY SMT DEF TypeOK
  <2> QED BY <2>1 DEF LedgerType
<1>3. s' = s => Bound <= Bound'
  <2>1. CASE Advance
    <3>1. pc = "close" /\ pc' = "tick" /\ i' = i + 1
      BY <2>1 DEF Advance
    <3>2. Bound = i /\ Bound' = (i + 1) - 1
      BY <3>1
    <3> QED BY <3>2, <1>1, SMT
  <2>2. CASE ~Advance /\ ~StartSession
    <3>1. i' = i
      BY <2>2 DEF Next, OpenTick, TakeSignal, CheckExit, Fill, SessionEnd, ClosePosition, Drain,
                  EndSession, Finish, Raise
    <3>2. pc \notin {"tick", "signals"} => pc' \notin {"tick", "signals"}
      BY <1>0, <2>2 DEF Next, OpenTick, TakeSignal, CheckExit, Fill, SessionEnd, ClosePosition, Drain,
                  EndSession, Finish
    <3> QED BY <1>1, <3>1, <3>2, SMT
  <2>3. CASE StartSession
    <3>1. s' = s + 1
      BY <1>0, <2>3 DEF StartSession
    <3> QED BY <1>1, <3>1, SMT
  <2> QED BY <2>1, <2>2, <2>3
<1>4. \A t \in DOMAIN ledger :
        ledger[t].session \in 1..s /\ (ledger[t].session = s => ledger[t].exit <= Bound)
  BY <1>1 DEF TradesInv
<1>5. Bound \in Int /\ (s' = s => Bound' \in Int)
  <2>1. s' = s => i' \in {i, i + 1}
    BY SlotMoves, <1>1, SMT DEF Starts, Exits, Enters
  <2> QED BY <2>1, <1>1, SMT
<1>6. ASSUME \A t \in DOMAIN ledger' :
               ledger'[t].session \in 1..s' /\ (ledger'[t].session = s' => ledger'[t].exit <= Bound')
      PROVE  TradesInv'
  BY <1>6 DEF TradesInv
<1>7. ASSUME s' = s
      PROVE  \A t \in DOMAIN ledger :
               ledger[t].session \in 1..s' /\ (ledger[t].session = s' => ledger[t].exit <= Bound')
  <2> HIDE DEF Bound
  <2> QED BY <1>2, <1>3, <1>4, <1>5, <1>7, SMT
<1>8. CASE Rests \/ Enters
  <2>1. s' = s /\ ledger' = ledger
    BY <1>8 DEF Rests, Enters
  <2> HIDE DEF Bound
  <2> QED BY <1>6, <1>7, <2>1
<1>9. CASE Starts
  <2>1. s' = s + 1 /\ ledger' = ledger
    BY <1>9 DEF Starts
  <2>2. \A t \in DOMAIN ledger : ledger[t].session \in 1..(s + 1) /\ ledger[t].session # s + 1
    BY <1>1, <1>4, SMT
  <2> HIDE DEF Bound
  <2> QED BY <1>6, <2>1, <2>2
<1>10. ASSUME NEW reason \in {"TAKE_PROFIT", "STOP_LOSS", "SESSION_END"}, Exits(reason)
       PROVE  TradesInv'
  <2> DEFINE new == ClosedTrade(run, s, position, i, reason)
  <2>1. /\ new.session = s /\ new.exit = i
        /\ DOMAIN ledger' = DOMAIN ledger \cup {Len(ledger) + 1}
        /\ ledger'[Len(ledger) + 1] = new
        /\ \A t \in DOMAIN ledger : ledger'[t] = ledger[t]
    BY <1>10, TradeAppend
  <2>2. s' = s /\ i' = i /\ s \in 1..s /\ Bound' = i /\ i <= i
    <3>1. s' = s /\ i' = i /\ s > 0 /\ pc' \in {"fill", "drain"}
      BY <1>10 DEF Exits
    <3> QED BY <1>1, <3>1, SMT
  <2> HIDE DEF Bound, new
  <2>3. \A t \in DOMAIN ledger' : t \in DOMAIN ledger \/ t = Len(ledger) + 1
    BY <2>1
  <2> QED BY <1>6, <1>7, <2>1, <2>2, <2>3
<1> QED BY <1>8, <1>9, <1>10, SlotMoves

\* Every step that does not raise leaves an open position untouched at the ticks settled.
LEMMA OpenPositionStep ==
    ASSUME TypeOK, PositionInv, LoopInv, DeliveredInv, Next, pc' # "failed"
    PROVE  OpenInv'
<1>0. ~Raise /\ pc # "failed"
  BY DEF Raise, Next, StartSession, OpenTick, TakeSignal, CheckExit, Fill, SessionEnd, Advance,
         Drain, EndSession, Finish
<1>1. /\ OpenInv /\ SelectInv /\ JournalInv /\ FillsInv
      /\ i \in Nat /\ s \in Nat /\ run' = run
  BY <1>0, InSession, SlotMoves DEF LoopInv, DeliveredInv
<1>2. CASE ~IsOpen'
  BY <1>2 DEF OpenInv
<1>3. CASE IsOpen' /\ Rests
  <2>1. /\ UNCHANGED <<s, ledger, position>> /\ IsOpen /\ S' = S
        /\ s > 0 /\ position.entry \in DOMAIN S.ticks
    BY <1>1, <1>3 DEF Rests, IsOpen, S, TypeOK
  <2>2. /\ position.entry = FillTick(S, position.sig) /\ position.entry \in Nat
        /\ Untouched(run, S, position.entry, position.entry + 1, Settled)
        /\ ~Traded(ledger, s, position.sig)
    BY <1>1, <2>1, SMT DEF OpenInv, TypeOK
  <2>3. Untouched(run, S, position.entry, position.entry + 1, Settled')
    <3>1. CASE Settled' = Settled
      BY <2>2, <3>1
    <3>2. CASE CheckExit
      <4>1. /\ pc = "signals" /\ pc' = "fill" /\ i' = i
            /\ Touched(run, S.ticks[position.entry].price, S.ticks[i].price) = "NONE"
        <5>1. pc = "signals" /\ pc' = "fill" /\ i' = i
          BY <1>0, <3>2 DEF CheckExit, ClosePosition
        <5>2. ASSUME Touched(run, S.ticks[position.entry].price, S.ticks[i].price) # "NONE"
              PROVE  FALSE
          <6>1. position' = NoPosition
            BY <1>0, <2>1, <3>2, <5>2 DEF CheckExit, ClosePosition, Tick
          <6> QED BY <6>1, <1>3 DEF IsOpen
        <5> QED BY <5>1, <5>2
      <4>2. Settled = i - 1 /\ Settled' = i
        BY <4>1 DEF Settled
      <4>3. \A j \in (position.entry + 1)..i : j \in (position.entry + 1)..(i - 1) \/ j = i
        BY <1>1, <2>2, SMT
      <4> QED BY <2>2, <4>1, <4>2, <4>3 DEF Untouched
    <3>3. CASE Advance
      <4>1. pc = "close" /\ pc' = "tick" /\ i' = i + 1
        BY <3>3 DEF Advance
      <4>2. (i + 1) - 1 = i
        BY <1>1, SMT
      <4>3. Settled' = Settled
        BY <4>1, <4>2 DEF Settled
      <4> QED BY <4>3, <3>1
    <3>4. CASE OpenTick \/ TakeSignal \/ Fill
      <4>1. i' = i /\ ((pc = "tick" /\ pc' = "signals") \/ (pc = "signals" /\ pc' = pc)
                         \/ (pc = "fill" /\ pc' = "close"))
        BY <1>0, <3>4 DEF OpenTick, TakeSignal, Fill
      <4>2. Settled' = Settled
        BY <4>1 DEF Settled
      <4> QED BY <4>2, <3>1
    <3>5. CASE SessionEnd
      <4>1. ClosePosition("SESSION_END", "drain")
        BY <2>1, <3>5 DEF SessionEnd
      <4>2. position' = NoPosition
        BY <1>0, <4>1 DEF ClosePosition
      <4> QED BY <4>2, <1>3 DEF IsOpen
    <3>6. CASE StartSession \/ Drain \/ EndSession \/ Finish
      <4>1. pc \in {"session", "drain"}
        BY <3>6 DEF StartSession, Drain, EndSession, Finish
      <4> QED BY <2>1, <4>1 DEF PositionInv, SlotInv
    <3> QED BY <3>2, <3>3, <3>4, <3>5, <3>6 DEF Next
  <2> QED BY <1>1, <2>1, <2>2, <2>3 DEF OpenInv
<1>4. CASE Enters /\ Fill
  <2>1. /\ ~IsOpen /\ UNCHANGED <<s, i, sig, ledger>> /\ S' = S /\ s > 0 /\ i \in DOMAIN S.ticks
        /\ pc = "fill" /\ pc' = "close" /\ position' = [sig |-> selected, entry |-> i]
    BY <1>1, <1>4 DEF Enters, S
  <2>2. position' # position
    <3>1. i # 0
      BY <2>1, InSession, SMT
    <3> QED BY <2>1, <3>1 DEF IsOpen, NoPosition
  <2>3. selected # 0 /\ ~wasOpen
    BY <1>0, <1>4, <2>2 DEF Fill
  <2>4. selected \in Taken(S, sig) /\ FillTick(S, selected) = i
    BY <1>1, <2>1, <2>3 DEF SelectInv
  <2>5. Untouched(run, S, i, i + 1, Settled')
    <3>1. Settled' = i /\ \A j : j \notin (i + 1)..i
      BY <1>1, <2>1, SMT DEF Settled
    <3> QED BY <3>1 DEF Untouched
  <2>6. ~Traded(ledger, s, selected)
    <3>1. selected \in Nat /\ s \in 1..s /\ ~(s < s)
      BY <1>1, <2>1, <2>4, TakenNumbers, SMT
    <3>2. ~Logged(journal, s, selected)
      BY <1>1, <2>1, <3>1 DEF JournalInv, Waiting
    <3>3. ~Filled(journal, s, selected)
      BY <3>2 DEF Filled, Logged
    <3> QED BY <1>1, <3>1, <3>3 DEF FillsInv
  <2> QED BY <1>1, <2>1, <2>4, <2>5, <2>6 DEF OpenInv
<1>5. CASE \E reason \in {"TAKE_PROFIT", "STOP_LOSS", "SESSION_END"} : Exits(reason)
  BY <1>2, <1>5 DEF Exits, IsOpen
<1>6. CASE Starts
  BY <1>2, <1>6 DEF Starts, IsOpen
<1> QED BY <1>2, <1>3, <1>4, <1>5, <1>6, SlotMoves

\* The account of the loop is kept by every step that does not raise.
LEMMA LoopStep ==
    ASSUME TypeOK, PositionInv, LoopInv, DeliveredInv, Next
    PROVE  LoopInv'
<1>0. pc # "failed"
  BY SlotMoves
<1>1. InputInv /\ QueueInv /\ SelectInv
  BY <1>0 DEF LoopInv
<1>2. SUFFICES ASSUME pc' # "failed"
               PROVE  /\ InputInv' /\ QueueInv' /\ SelectInv' /\ JournalInv'
                      /\ HeldInv' /\ TradesInv' /\ OpenInv'
  BY DEF LoopInv
<1>3. InputInv' /\ QueueInv' /\ SelectInv'
  BY <1>1, <1>2, InputStep, QueueStep, SelectStep
<1>4. JournalInv' /\ HeldInv' /\ TradesInv' /\ OpenInv'
  BY <1>2, JournalStep, HeldStep, TradesStep, OpenPositionStep
<1> QED BY <1>3, <1>4

(***************************************************************************)
(* What was delivered.                                                     *)
(***************************************************************************)
\* What ExitsAtFirstTouch says of one trade t of run r.
FirstTouch(r, t) ==
    LET ticks == r.sessions[t.session].ticks
        at(j) == Touched(r, ticks[t.entry].price, ticks[j].price)
    IN  /\ t.entry = FillTick(r.sessions[t.session], t.sig)
        /\ t.entry < t.exit
        /\ \A j \in (t.entry + 1)..(t.exit - 1) : at(j) = "NONE"
        /\ t.reason = IF at(t.exit) = "NONE" THEN "SESSION_END" ELSE at(t.exit)
        /\ t.reason = "SESSION_END" => t.exit = Len(ticks)

\* It is said of every trade of the ledger, now and after a step.
LEMMA FirstTouchIs ==
    /\ ExitsAtFirstTouch <=> \A t \in DOMAIN ledger : FirstTouch(run, ledger[t])
    /\ ExitsAtFirstTouch' <=> \A t \in DOMAIN ledger' : FirstTouch(run', ledger'[t])
<1>1. ExitsAtFirstTouch <=> \A t \in DOMAIN ledger : FirstTouch(run, ledger[t])
  BY DEF ExitsAtFirstTouch, FirstTouch, Trades
<1>2. ExitsAtFirstTouch' <=> \A t \in DOMAIN ledger' : FirstTouch(run', ledger'[t])
  BY DEF ExitsAtFirstTouch, FirstTouch, Trades
<1> QED BY <1>1, <1>2

\* Trades are made once, each at the first touch after its fill event.
LEMMA LedgerSound ==
    ASSUME TypeOK, PositionInv, LoopInv, DeliveredInv, Next
    PROVE  Single(ledger)' /\ ExitsAtFirstTouch'
<1>1. run' = run /\ pc # "failed" /\ Single(ledger) /\ ExitsAtFirstTouch
  BY SlotMoves DEF DeliveredInv
<1>2. CASE ledger' = ledger
  BY <1>1, <1>2, FirstTouchIs DEF Single
<1>3. ASSUME NEW reason \in {"TAKE_PROFIT", "STOP_LOSS", "SESSION_END"}, Exits(reason)
      PROVE  Single(ledger)' /\ ExitsAtFirstTouch'
  <2> DEFINE new == ClosedTrade(run, s, position, i, reason)
  <2>1. /\ new.session = s /\ new.sig = position.sig /\ new.entry = position.entry
        /\ new.exit = i /\ new.reason = reason
        /\ DOMAIN ledger' = DOMAIN ledger \cup {Len(ledger) + 1}
        /\ ledger'[Len(ledger) + 1] = new
        /\ \A t \in DOMAIN ledger : ledger'[t] = ledger[t]
    BY <1>3, TradeAppend
  <2> HIDE DEF new
  <2>2. IsOpen /\ position.entry = FillTick(S, position.sig) /\ ~Traded(ledger, s, position.sig)
    BY <1>1, <1>3 DEF Exits, LoopInv, OpenInv
  <2>3. FirstTouch(run, new)
    <3>1. /\ position.entry < i
          /\ reason = LET at == Touched(run, S.ticks[position.entry].price, S.ticks[i].price)
                      IN  IF at = "NONE" THEN "SESSION_END" ELSE at
          /\ reason = "SESSION_END" => i = Len(S.ticks)
          /\ Untouched(run, S, position.entry, position.entry + 1, i - 1)
      BY <1>3 DEF Exits
    <3>2. run.sessions[s] = S
      BY DEF S
    <3> QED BY <2>1, <2>2, <3>1, <3>2 DEF FirstTouch, Untouched
  <2>4. \A t \in DOMAIN ledger : ~(ledger[t].session = s /\ ledger[t].sig = position.sig)
    BY <2>2 DEF Traded
  <2>5. \A a, b \in DOMAIN ledger' :
           ledger'[a].session = ledger'[b].session /\ ledger'[a].sig = ledger'[b].sig => a = b
    BY <1>1, <2>1, <2>4 DEF Single
  <2>6. \A t \in DOMAIN ledger' : FirstTouch(run', ledger'[t])
    BY <1>1, <2>1, <2>3, FirstTouchIs
  <2> QED BY <2>5, <2>6, FirstTouchIs DEF Single
<1> QED BY <1>2, <1>3, SlotMoves DEF Rests, Starts, Enters

\* Fills and trades keep corresponding.
LEMMA FillsStep ==
    ASSUME TypeOK, PositionInv, LoopInv, DeliveredInv, Next
    PROVE  FillsInv'
<1>1. FillsInv /\ pc # "failed"
  BY SlotMoves DEF DeliveredInv
<1>2. CASE journal' # journal
  <2>1. PICK k \in DOMAIN S.frames, o \in {"FILLED", "FILL_REJECTED", "DISCARDED"}, why \in Reasons :
            /\ journal' = Append(journal, Record(s, k, o, why))
            /\ o = "FILLED" <=> position' # position
            /\ o = "FILLED" => position' = [sig |-> k, entry |-> i]
    BY <1>2, DeliveryIsDeclared
  <2>2. s > 0 /\ s' = s /\ i' = i
    BY <1>2, DeliveryIsDeclared
  <2>3. k \in Nat
    <3>1. DOMAIN S.frames \subseteq Nat
      <4>1. S \in SessionType
        BY <2>2, InSession
      <4> QED BY <4>1, SMT DEF SessionType
    <3> QED BY <3>1
  <2>4. /\ DOMAIN journal' = DOMAIN journal \cup {Len(journal) + 1}
        /\ journal'[Len(journal) + 1] = Record(s, k, o, why)
        /\ \A j \in DOMAIN journal : journal'[j] = journal[j]
    BY <2>1, <2>3, LogAppend
  <2>5. /\ Record(s, k, o, why).session = s /\ Record(s, k, o, why).sig = k
        /\ Record(s, k, o, why).outcome = o
    BY DEF Record
  <2>6. \A n, m : Filled(journal', n, m) <=>
                    Filled(journal, n, m) \/ (o = "FILLED" /\ n = s /\ m = k)
    <3>1. ASSUME NEW n, NEW m, Filled(journal', n, m)
          PROVE  Filled(journal, n, m) \/ (o = "FILLED" /\ n = s /\ m = k)
      <4>1. PICK j \in DOMAIN journal' :
              journal'[j].session = n /\ journal'[j].sig = m /\ journal'[j].outcome = "FILLED"
        BY <3>1 DEF Filled
      <4>2. j \in DOMAIN journal \/ j = Len(journal) + 1
        BY <2>4
      <4> QED BY <2>4, <2>5, <4>1, <4>2 DEF Filled
    <3>2. ASSUME NEW n, NEW m, Filled(journal, n, m) PROVE Filled(journal', n, m)
      <4>1. PICK j \in DOMAIN journal :
              journal[j].session = n /\ journal[j].sig = m /\ journal[j].outcome = "FILLED"
        BY <3>2 DEF Filled
      <4> QED BY <2>4, <4>1 DEF Filled
    <3>3. o = "FILLED" => Filled(journal', s, k)
      BY <2>4, <2>5 DEF Filled
    <3> QED BY <3>1, <3>2, <3>3
  <2>7. ledger' = ledger
    <3>1. \A reason : ~Exits(reason)
      BY <1>2 DEF Exits
    <3> QED BY <3>1, SlotMoves DEF Rests, Starts, Enters
  <2>8. CASE o # "FILLED"
    <3>1. position' = position
      BY <2>1, <2>8
    <3> QED BY <1>1, <2>2, <2>6, <2>7, <2>8, <3>1 DEF FillsInv, IsOpen
  <2>9. CASE o = "FILLED"
    <3>1. position' = [sig |-> k, entry |-> i] /\ position' # position
      BY <2>1, <2>9
    <3>2. ~Rests /\ ~Starts /\ \A reason : ~Exits(reason)
      BY <1>2, <2>2, <3>1, InSession, SMT DEF Rests, Starts, Exits
    <3>3. ~IsOpen /\ i \in DOMAIN S.ticks
      BY <3>2, SlotMoves DEF Enters
    <3>4. IsOpen' /\ position'.sig = k
      <4>1. i # 0
        BY <2>2, <3>3, InSession, SMT
      <4> QED BY <3>1, <4>1 DEF IsOpen, NoPosition
    <3> QED BY <1>1, <2>2, <2>6, <2>7, <2>9, <3>3, <3>4 DEF FillsInv
  <2> QED BY <2>8, <2>9
<1>3. CASE journal' = journal
  <2>1. CASE Rests
    BY <1>1, <1>3, <2>1 DEF FillsInv, Rests, IsOpen
  <2>2. CASE Starts
    BY <1>1, <1>3, <2>2 DEF FillsInv, Starts, IsOpen
  <2>3. ASSUME NEW reason \in {"TAKE_PROFIT", "STOP_LOSS", "SESSION_END"}, Exits(reason)
        PROVE  FillsInv'
    <3>1. \A n, k : Traded(ledger', n, k) <=> Traded(ledger, n, k) \/ (n = s /\ k = position.sig)
      BY <2>3, TradeAppend
    <3>2. IsOpen /\ ~IsOpen'
      BY <2>3 DEF Exits, IsOpen
    <3> QED BY <1>1, <1>3, <3>1, <3>2 DEF FillsInv
  <2>4. CASE Enters /\ Fill
    <3>1. position' # position
      <4>1. i # 0
        BY <2>4, InSession, SMT DEF Enters
      <4> QED BY <2>4, <4>1 DEF Enters, IsOpen, NoPosition
    <3>2. Deliver(selected, "FILLED", "NONE")
      BY <2>4, <3>1 DEF Fill, Raise
    <3>3. Len(journal') = Len(journal) + 1 /\ Len(journal) \in Nat
      <4>1. Record(s, selected, "FILLED", "NONE") \in JournalType
        BY InSession, SMT DEF Record, JournalType, TypeOK, Reasons
      <4> QED BY <3>2, <4>1, SMT DEF Deliver, TypeOK
    <3> QED BY <1>3, <3>3, SMT
  <2> QED BY <2>1, <2>2, <2>3, <2>4, SlotMoves
<1> QED BY <1>2, <1>3

\* HeldAt and OutcomeIsDeclared of a record, as functions of run, ledger and slot.
HeldIn(L, at, slot, n, f) ==
    \/ \E t \in DOMAIN L : L[t].session = n /\ L[t].entry < f /\ f <= L[t].exit
    \/ slot # NoPosition /\ at = n /\ slot.entry < f
DeclaredOf(r, L, at, slot, e) ==
    <<e.outcome, e.reason>> =
        Declared(r, HeldIn(L, at, slot, e.session, FillTick(r.sessions[e.session], e.sig)), e.session, e.sig)

\* They are the same now and after a step.
LEMMA DeclaredOfIs ==
    /\ OutcomeIsDeclared <=> \A j \in DOMAIN journal : DeclaredOf(run, ledger, s, position, journal[j])
    /\ OutcomeIsDeclared' <=>
          \A j \in DOMAIN journal' : DeclaredOf(run', ledger', s', position', journal'[j])
<1>1. ASSUME NEW n, NEW k
      PROVE  /\ DeclaredOutcome(n, k)
                  = Declared(run, HeldIn(ledger, s, position, n, FillTick(run.sessions[n], k)), n, k)
             /\ DeclaredOutcome(n, k)'
                  = Declared(run', HeldIn(ledger', s', position', n, FillTick(run'.sessions[n], k)), n, k)
  <2> DEFINE now == HeldIn(ledger, s, position, n, FillTick(run.sessions[n], k))
             next == HeldIn(ledger', s', position', n, FillTick(run'.sessions[n], k))
  <2>1. /\ DeclaredOutcome(n, k) = Declared(run, HeldAt(n, FillTick(run.sessions[n], k)), n, k)
        /\ DeclaredOutcome(n, k)' = Declared(run', HeldAt(n, FillTick(run.sessions[n], k))', n, k)
    BY DeclaredIs
  <2>2. HeldAt(n, FillTick(run.sessions[n], k)) <=> now
    BY DEF HeldAt, HeldIn, Trades, IsOpen
  <2>3. HeldAt(n, FillTick(run.sessions[n], k))' <=> next
    BY DEF HeldAt, HeldIn, Trades, IsOpen
  <2> HIDE DEF now, next
  <2>4. Declared(run, HeldAt(n, FillTick(run.sessions[n], k)), n, k) = Declared(run, now, n, k)
    BY <2>2 DEF Declared
  <2>5. Declared(run', HeldAt(n, FillTick(run.sessions[n], k))', n, k) = Declared(run', next, n, k)
    BY <2>3 DEF Declared
  <2> QED BY <2>1, <2>4, <2>5 DEF now, next
<1>2. OutcomeIsDeclared <=>
        \A j \in DOMAIN journal :
          <<journal[j].outcome, journal[j].reason>> = DeclaredOutcome(journal[j].session, journal[j].sig)
  BY DEF OutcomeIsDeclared, Journaled
<1>3. OutcomeIsDeclared' <=>
        \A j \in DOMAIN journal' :
          <<journal'[j].outcome, journal'[j].reason>>
            = DeclaredOutcome(journal[j].session, journal[j].sig)'
  BY DEF OutcomeIsDeclared, Journaled
<1>4. \A j \in DOMAIN journal' :
        DeclaredOutcome(journal[j].session, journal[j].sig)'
          = Declared(run', HeldIn(ledger', s', position', journal'[j].session,
                                 FillTick(run'.sessions[journal'[j].session], journal'[j].sig)),
                     journal'[j].session, journal'[j].sig)
  BY <1>1
<1> QED BY <1>1, <1>2, <1>3, <1>4 DEF DeclaredOf

\* The outcome of a signal whose fill event has been reached is settled.
LEMMA DeclaredStable ==
    ASSUME TypeOK, PositionInv, LoopInv, Next, NEW e, e.session \in 1..s,
           e.session = s => FillTick(S, e.sig) <= i,
           DeclaredOf(run, ledger, s, position, e)
    PROVE  DeclaredOf(run', ledger', s', position', e)
<1> DEFINE n == e.session
           f == FillTick(run.sessions[n], e.sig)
<1>1. run' = run /\ s \in Nat
  BY SlotMoves, InSession
<1>2. n \in 1..Len(run.sessions)
  <2>1. s \in 0..Len(run.sessions) /\ run.sessions \in Seq(SessionType)
    BY InSession DEF TypeOK
  <2> QED BY <1>1, <2>1, SMT
<1>3. f \in Nat
  BY <1>2, InSession, SessionTyped, FillTickNat
<1>4. n = s => f <= i
  BY DEF S
<1>5. HeldIn(ledger', s', position', n, f) <=> HeldIn(ledger, s, position, n, f)
  <2> HIDE DEF f
  <2>1. \A m \in 1..s, g \in Nat : (m = s => g <= i) => (HeldAt(m, g)' <=> HeldAt(m, g))
    BY HeldStable
  <2>2. \A m \in 1..s, g \in Nat : (m = s => g <= i) =>
           (HeldIn(ledger', s', position', m, g) <=> HeldIn(ledger, s, position, m, g))
    BY <2>1, HeldIs DEF HeldIn, IsOpen
  <2> QED BY <1>3, <1>4, <2>2
<1> QED BY <1>1, <1>5 DEF DeclaredOf, Declared

\* No signal is journalled twice, each with the outcome declared for it, and the journal
\* of the sessions before is complete.
LEMMA JournalSound ==
    ASSUME TypeOK, PositionInv, LoopInv, DeliveredInv, Next
    PROVE  Single(journal)' /\ PastInv' /\ OutcomeIsDeclared'
<1>1. /\ run' = run /\ pc # "failed" /\ JournalInv /\ QueueInv /\ InputInv
      /\ Single(journal) /\ PastInv /\ OutcomeIsDeclared
      /\ s \in Nat /\ i \in Nat
  BY SlotMoves, InSession DEF DeliveredInv, LoopInv
<1>2. ASSUME NEW j \in DOMAIN journal
      PROVE  DeclaredOf(run', ledger', s', position', journal[j])
  <2> DEFINE e == journal[j]
  <2>1. e \in JournalType
    BY SMT DEF TypeOK
  <2>2. e.session \in 1..s /\ e.sig \in Nat
    BY <1>1, <2>1 DEF JournalInv, JournalType
  <2>3. DeclaredOf(run, ledger, s, position, e)
    BY <1>1, DeclaredOfIs
  <2>4. e.session = s => FillTick(S, e.sig) <= i
    <3>1. SUFFICES ASSUME e.session = s PROVE FillTick(S, e.sig) <= i
      OBVIOUS
    <3>2. s \in 1..s /\ ~(s < s) /\ s > 0
      BY <1>1, <2>2, <3>1, SMT
    <3>3. Logged(journal, s, e.sig)
      BY <3>1 DEF Logged
    <3>4. e.sig \in Taken(S, sig)
      BY <1>1, <2>2, <3>2, <3>3 DEF JournalInv
    <3>5. FillTick(S, e.sig) <= IF pc = "tick" THEN i - 1 ELSE i
      BY <1>1, <3>2, <3>4 DEF QueueInv
    <3>6. FillTick(S, e.sig) \in Nat
      BY <3>2, InSession, FillTickNat
    <3> QED BY <1>1, <3>5, <3>6, SMT
  <2> HIDE DEF e
  <2>5. DeclaredOf(run', ledger', s', position', e)
    BY <2>2, <2>3, <2>4, DeclaredStable
  <2> QED BY <2>5 DEF e
<1>3. CASE journal' # journal
  <2>1. s > 0 /\ s' = s /\ i' = i
    BY <1>3, DeliveryIsDeclared
  <2>2. PICK k \in DOMAIN S.frames, o \in {"FILLED", "FILL_REJECTED", "DISCARDED"}, why \in Reasons :
            /\ journal' = Append(journal, Record(s, k, o, why))
            /\ <<o, why>> = DeclaredOutcome(s, k)
            /\ FillTick(S, k) <= i
            /\ ~Logged(journal, s, k)
    BY <1>3, DeliveryIsDeclared
  <2>3. k \in Nat
    <3>1. DOMAIN S.frames \subseteq Nat
      <4>1. S \in SessionType
        BY <2>1, InSession
      <4> QED BY <4>1, SMT DEF SessionType
    <3> QED BY <3>1
  <2> DEFINE new == Record(s, k, o, why)
  <2>4. /\ DOMAIN journal' = DOMAIN journal \cup {Len(journal) + 1}
        /\ journal'[Len(journal) + 1] = new
        /\ \A j \in DOMAIN journal : journal'[j] = journal[j]
        /\ \A n, m : Logged(journal', n, m) <=> Logged(journal, n, m) \/ (n = s /\ m = k)
    BY <2>2, <2>3, LogAppend
  <2>5. new.session = s /\ new.sig = k /\ new.outcome = o /\ new.reason = why
    BY DEF Record
  <2> HIDE DEF new
  <2>6. Single(journal')
    <3>1. \A j \in DOMAIN journal : ~(journal[j].session = s /\ journal[j].sig = k)
      BY <2>2 DEF Logged
    <3>2. \A a, b \in DOMAIN journal' :
             journal'[a].session = journal'[b].session /\ journal'[a].sig = journal'[b].sig => a = b
      BY <1>1, <2>4, <2>5, <3>1 DEF Single
    <3> QED BY <3>2 DEF Single
  <2>7. PastInv'
    <3>1. \A n \in 1..s : n < s => n # s
      BY <1>1, SMT
    <3>2. \A n \in 1..s, m \in Nat : n < s =>
             (Logged(journal', n, m) <=> m \in Taken(run.sessions[n], 0))
      BY <1>1, <2>4, <3>1 DEF PastInv
    <3> QED BY <1>1, <2>1, <3>2 DEF PastInv
  <2>8. DeclaredOf(run, ledger, s, position, new)
    <3>1. <<o, why>> = Declared(run, HeldIn(ledger, s, position, s, FillTick(run.sessions[s], k)), s, k)
      BY <2>2 DEF DeclaredOutcome, Eligible, HeldAt, Trades, IsOpen, Declared, HeldIn
    <3> QED BY <2>5, <3>1 DEF DeclaredOf
  <2>9. DeclaredOf(run', ledger', s', position', new)
    <3>1. s \in 1..s
      BY <1>1, <2>1, SMT
    <3> QED BY <2>2, <2>5, <2>8, <3>1, DeclaredStable
  <2>10. OutcomeIsDeclared'
    <3>1. \A j \in DOMAIN journal' : DeclaredOf(run', ledger', s', position', journal'[j])
      BY <1>2, <2>4, <2>9
    <3> QED BY <3>1, DeclaredOfIs
  <2> QED BY <2>6, <2>7, <2>10
<1>4. CASE journal' = journal
  <2>1. Single(journal)' /\ OutcomeIsDeclared'
    BY <1>1, <1>2, <1>4, DeclaredOfIs
  <2>2. CASE s' = s
    BY <1>1, <1>4, <2>1, <2>2 DEF PastInv
  <2>3. CASE s' # s
    <3>1. StartSession /\ s' = s + 1
      BY <2>3, SlotMoves DEF Rests, Starts, Exits, Enters
    <3>2. pc = "session" /\ sig = 0 /\ Waiting = {}
      BY <1>1, <3>1 DEF StartSession, InputInv, Waiting
    <3>3. ASSUME NEW n \in 1..s', NEW k \in Nat, n < s'
          PROVE  Logged(journal, n, k) <=> k \in Taken(run.sessions[n], 0)
      <4>1. n \in 1..s /\ (n < s \/ (n = s /\ ~(n < s)))
        BY <1>1, <3>1, <3>3, SMT
      <4> QED BY <1>1, <3>2, <4>1 DEF JournalInv, S
    <3> QED BY <1>1, <1>4, <2>1, <3>3 DEF PastInv
  <2> QED BY <2>1, <2>2, <2>3
<1> QED BY <1>3, <1>4

\* What was delivered stays sound, whether the step raises or not.
LEMMA DeliveredStep ==
    ASSUME TypeOK, PositionInv, LoopInv, DeliveredInv, Next
    PROVE  DeliveredInv'
<1>1. pc' = "failed" => \E n \in DOMAIN run'.sessions : Malformed(n)' \/ Unpriceable(n)'
  <2>1. SUFFICES ASSUME pc' = "failed"
                 PROVE  \E n \in DOMAIN run'.sessions : Malformed(n)' \/ Unpriceable(n)'
    OBVIOUS
  <2>2. run' = run /\ \E n \in DOMAIN run.sessions : Malformed(n) \/ Unpriceable(n)
    BY <2>1, RaiseHasCause
  <2> QED BY <2>2 DEF Malformed, Unpriceable
<1> QED BY <1>1, LedgerSound, FillsStep, JournalSound DEF DeliveredInv

\* The loop starts with nothing read and nothing delivered.
LEMMA EngineInit ==
    ASSUME Init, TypeOK
    PROVE  EngineInv
<1>1. /\ pc = "session" /\ s = 0 /\ sig = 0 /\ position = NoPosition /\ ~IsOpen
      /\ journal = <<>> /\ ledger = <<>>
  BY DEF Init, Ready, IsOpen
<1>2. /\ DOMAIN journal = {} /\ DOMAIN ledger = {} /\ ~(s > 0) /\ \A n : n \notin 1..s
  BY <1>1, SMT
<1>3. InputInv /\ QueueInv /\ SelectInv /\ HeldInv
  BY <1>1, <1>2 DEF InputInv, QueueInv, SelectInv, HeldInv
<1>4. JournalInv /\ TradesInv /\ OpenInv
  BY <1>1, <1>2 DEF JournalInv, TradesInv, OpenInv
<1>5. Single(journal) /\ Single(ledger) /\ PastInv /\ FillsInv
  BY <1>1, <1>2 DEF Single, PastInv, FillsInv, Filled, Traded
<1>6. OutcomeIsDeclared /\ ExitsAtFirstTouch
  BY <1>2 DEF OutcomeIsDeclared, ExitsAtFirstTouch, Journaled, Trades
<1>7. PositionInv
  BY PositionInvInit
<1> QED BY <1>1, <1>3, <1>4, <1>5, <1>6, <1>7 DEF EngineInv, LoopInv, DeliveredInv

\* The account of the loop is kept in every run.
LEMMA EngineKeepsAccount == Spec => []EngineInv
<1>1. TypeOK /\ TypeOK' /\ EngineInv /\ [Next]_vars => EngineInv'
  <2> SUFFICES ASSUME TypeOK, TypeOK', EngineInv, [Next]_vars PROVE EngineInv'
    OBVIOUS
  <2>1. PositionInv'
    BY PositionInvStep DEF EngineInv
  <2>2. CASE Next
    BY <2>1, <2>2, LoopStep, DeliveredStep DEF EngineInv
  <2>3. CASE UNCHANGED vars
    <3>1. /\ run' = run /\ pc' = pc /\ s' = s /\ i' = i /\ sig' = sig /\ wasOpen' = wasOpen
          /\ selected' = selected /\ position' = position /\ journal' = journal /\ ledger' = ledger
      BY <2>3 DEF vars
    <3>2. LoopInv'
      <4>1. S' = S /\ IsOpen' = IsOpen /\ Read' = Read /\ Settled' = Settled /\ Waiting' = Waiting
        BY <3>1 DEF S, IsOpen, Read, Settled, Waiting
      <4>2. \A n : Malformed(n)' <=> Malformed(n)
        BY <3>1 DEF Malformed
      <4>3. \A k : Eligible(S, k)' <=> Eligible(S, k)
        BY <3>1 DEF Eligible, S
      <4>4. HeldAt(s, i)' <=> HeldAt(s, i)
        BY <3>1 DEF HeldAt, Trades, IsOpen
      <4> QED BY <3>1, <4>1, <4>2, <4>3, <4>4
           DEF EngineInv, LoopInv, InputInv, QueueInv, SelectInv, JournalInv, HeldInv, TradesInv, OpenInv
    <3>3. DeliveredInv'
      <4>1. OutcomeIsDeclared' /\ ExitsAtFirstTouch'
        BY <3>1, DeclaredOfIs, FirstTouchIs DEF EngineInv, DeliveredInv
      <4>2. FillsInv' /\ PastInv' /\ Single(journal)' /\ Single(ledger)'
        BY <3>1 DEF EngineInv, DeliveredInv, FillsInv, PastInv, IsOpen
      <4>3. \A n : (Malformed(n)' <=> Malformed(n)) /\ (Unpriceable(n)' <=> Unpriceable(n))
        BY <3>1 DEF Malformed, Unpriceable
      <4> QED BY <3>1, <4>1, <4>2, <4>3 DEF EngineInv, DeliveredInv
    <3> QED BY <2>1, <3>2, <3>3 DEF EngineInv
  <2> QED BY <2>2, <2>3
<1>2. Init /\ TypeOK => EngineInv
  BY EngineInit
<1> QED BY <1>1, <1>2, TypeCorrect, PTL DEF Spec

\* The account of the loop gives every signal its record, once.
LEMMA SignalsJournaledOnce == EngineInv => EverySignalJournaledOnce
<1> SUFFICES ASSUME EngineInv PROVE EverySignalJournaledOnce
  OBVIOUS
<1>1. TypeOK /\ Single(journal) /\ PastInv /\ s \in Nat /\ run.sessions \in Seq(SessionType)
  BY InSession DEF EngineInv, DeliveredInv
<1>2. ASSUME NEW n \in 1..s, Consumed(n)
      PROVE  \A k \in Nat : Logged(journal, n, k) <=> k \in Taken(run.sessions[n], 0)
  <2>1. CASE n < s
    BY <1>1, <2>1 DEF PastInv
  <2>2. CASE ~(n < s)
    <3>1. n = s /\ pc \in {"session", "done"}
      BY <1>2, <2>2 DEF Consumed
    <3>2. sig = 0 /\ Waiting = {} /\ JournalInv
      BY <3>1 DEF EngineInv, LoopInv, InputInv, Waiting
    <3> QED BY <2>2, <3>1, <3>2 DEF JournalInv, S
  <2> QED BY <2>1, <2>2
<1>3. ASSUME NEW n \in 1..s, Consumed(n)
      PROVE  {e.sig : e \in {x \in Journaled : x.session = n}}
               = {k \in DOMAIN run.sessions[n].frames : run.sessions[n].frames[k].kind = "hit"}
  <2>1. \A j \in DOMAIN journal : journal[j].sig \in Nat
    <3>1. \A j \in DOMAIN journal : journal[j] \in JournalType
      BY <1>1, SMT DEF TypeOK
    <3> QED BY <3>1 DEF JournalType
  <2>2. DOMAIN run.sessions[n].frames \subseteq Nat
    <3>1. n \in 1..Len(run.sessions)
      BY <1>1, SMT DEF TypeOK
    <3>2. run.sessions[n] \in SessionType
      BY <1>1, <3>1, SMT
    <3> QED BY <3>2, SMT DEF SessionType
  <2>3. \A k \in Nat :
           k \in Taken(run.sessions[n], 0) <=> \E e \in Journaled : e.session = n /\ e.sig = k
    BY <1>2, <1>3 DEF Logged, Journaled
  <2>4. \A e \in Journaled : e.sig \in Nat
    BY <2>1 DEF Journaled
  <2> QED BY <2>2, <2>3, <2>4 DEF Taken
<1> QED BY <1>1, <1>3 DEF EverySignalJournaledOnce, Single

\* It gives every fill its trade, once, but for the open position.
LEMMA FillsClosedOnce == EngineInv => EveryFillIsClosed
<1> SUFFICES ASSUME EngineInv PROVE EveryFillIsClosed
  OBVIOUS
<1>1. TypeOK /\ Single(ledger) /\ FillsInv /\ s \in Nat /\ position.sig \in Nat
  BY InSession DEF EngineInv, DeliveredInv, TypeOK
<1>2. pc \in {"drain", "session", "done"} => ~IsOpen
  BY DEF EngineInv, PositionInv, SlotInv
<1> DEFINE filled == {<<e.session, e.sig>> : e \in {x \in Journaled : x.outcome = "FILLED"}}
           traded == {<<t.session, t.sig>> : t \in Trades}
           open   == IF IsOpen THEN {<<s, position.sig>>} ELSE {}
<1>3. \A j \in DOMAIN journal : journal[j].session \in Nat /\ journal[j].sig \in Nat
  <2>1. \A j \in DOMAIN journal : journal[j] \in JournalType
    BY <1>1, SMT DEF TypeOK
  <2> QED BY <2>1 DEF JournalType
<1>4. \A t \in DOMAIN ledger : ledger[t].session \in Nat /\ ledger[t].sig \in Nat
  <2>1. \A t \in DOMAIN ledger : ledger[t] \in LedgerType
    BY <1>1, SMT DEF TypeOK
  <2> QED BY <2>1 DEF LedgerType
<1>5. \A x : x \in filled <=> \E n, k \in Nat : x = <<n, k>> /\ Filled(journal, n, k)
  BY <1>3 DEF Journaled, Filled
<1>6. \A x : x \in traded <=> \E n, k \in Nat : x = <<n, k>> /\ Traded(ledger, n, k)
  BY <1>4 DEF Trades, Traded
<1>7. \A x : x \in open <=> \E n, k \in Nat : x = <<n, k>> /\ IsOpen /\ n = s /\ k = position.sig
  BY <1>1
<1> HIDE DEF filled, traded, open
<1>8. \A x : x \in filled <=> x \in traded \/ x \in open
  BY <1>1, <1>5, <1>6, <1>7 DEF FillsInv
<1>9. filled = traded \cup open
  BY <1>8
<1> QED BY <1>1, <1>2, <1>9 DEF EveryFillIsClosed, Single, filled, traded, open

\* Nothing that should be refused is missed.
LEMMA DefectsAreFound == EngineInv => OnlyWellFormedRunsFinish
<1> SUFFICES ASSUME EngineInv PROVE OnlyWellFormedRunsFinish
  OBVIOUS
<1>1. TypeOK /\ (pc = "failed" => \E n \in DOMAIN run.sessions : Malformed(n) \/ Unpriceable(n))
  BY DEF EngineInv, DeliveredInv
<1>2. ASSUME pc = "done", NEW n \in DOMAIN run.sessions PROVE ~Malformed(n)
  <2>1. /\ InputInv /\ sig = 0 /\ s = Len(run.sessions) /\ s \in Nat
        /\ run \in RunType /\ n \in 1..s
    <3>1. InputInv /\ run.sessions \in Seq(SessionType) /\ run \in RunType /\ s \in Nat
      BY <1>1, <1>2, InSession DEF EngineInv, LoopInv
    <3>2. s = Len(run.sessions) /\ sig = 0
      BY <1>2, <3>1 DEF InputInv
    <3> QED BY <3>1, <3>2, SMT
  <2>2. CASE n < s
    BY <2>1, <2>2 DEF InputInv
  <2>3. CASE ~(n < s)
    <3>1. n = s /\ s > 0 /\ n \in 1..Len(run.sessions)
      BY <2>1, <2>3, SMT
    <3>2. Screened(S, 0) /\ Accepted(S, Len(S.ticks)) /\ S.asset = run.asset
      BY <1>2, <2>1, <3>1 DEF InputInv, Read
    <3>3. n > 1 => run.sessions[n - 1].date < run.sessions[n].date
      BY <2>1, <3>1 DEF InputInv, S
    <3> QED BY <2>1, <3>1, <3>2, <3>3, NothingMalformed DEF S
  <2> QED BY <2>2, <2>3
<1> QED BY <1>1, <1>2 DEF OnlyWellFormedRunsFinish

\* For every input, the journal and the ledger are what ticks, frames and strategy
\* declare: one record for each signal with the outcome its fill event decides, one
\* trade for each fill, left at the first touch, with the result its exit reason allows.
THEOREM LedgerIsDeclared == Spec => []LedgerFollowsTheTicks
<1>1. EngineInv => /\ EverySignalJournaledOnce /\ EveryFillIsClosed
                   /\ OutcomeIsDeclared /\ ExitsAtFirstTouch
  BY SignalsJournaledOnce, FillsClosedOnce DEF EngineInv, DeliveredInv
<1>2. EngineInv /\ ReasonBoundsResult => LedgerFollowsTheTicks
  BY <1>1 DEF LedgerFollowsTheTicks
<1> QED BY <1>2, EngineKeepsAccount, ResultsBounded, PTL

\* For every input, a call that returns has read an input without a defect, and a call
\* that raises has one with a defect.
THEOREM RefusalsAreExact == Spec => []OnlyWellFormedRunsFinish
BY DefectsAreFound, EngineKeepsAccount, PTL

(***************************************************************************)
(* Candles.                                                                *)
(***************************************************************************)
\* A bucket begins at or before its instants and is one duration long.
LEMMA BucketHolds ==
    ASSUME NEW t \in Int, NEW d \in Nat \ {0}
    PROVE  /\ Bucket(t, d) \in Int
           /\ Bucket(t, d) <= t /\ t < Bucket(t, d) + d
           /\ Bucket(t, d) = d * (t \div d)
<1>1. t % d \in 0..(d - 1) /\ t = (d * (t \div d)) + (t % d) /\ t \div d \in Int
  BY SMT
<1> QED BY <1>1, SMT DEF Bucket

\* Buckets that differ do not overlap.
LEMMA BucketsApart ==
    ASSUME NEW t \in Int, NEW u \in Int, NEW d \in Nat \ {0}, t <= u, Bucket(t, d) # Bucket(u, d)
    PROVE  Bucket(t, d) + d <= Bucket(u, d)
<1> DEFINE q == t \div d
           r == u \div d
<1>1. q \in Int /\ r \in Int
  BY SMT
<1>2. /\ Bucket(t, d) = d * q /\ d * q <= t /\ t < d * q + d
      /\ Bucket(u, d) = d * r /\ d * r <= u /\ u < d * r + d
  BY BucketHolds
<1> HIDE DEF q, r
<1>3. d * q \in Int /\ d * r \in Int /\ d * (r - q) = d * r - d * q
  BY <1>1, SMT
<1>4. r # q
  BY <1>2
<1>5. CASE r > q
  <2>1. r - q >= 1 /\ r - q \in Nat
    BY <1>1, <1>5, SMT
  <2>2. \A m \in Nat : m >= 1 => d * m >= d
    BY SMT
  <2>3. d * (r - q) >= d
    BY <2>1, <2>2
  <2> QED BY <1>2, <1>3, <2>3, SMT
<1>6. CASE r < q
  <2>1. q - r >= 1 /\ q - r \in Nat
    BY <1>1, <1>6, SMT
  <2>2. \A m \in Nat : m >= 1 => d * m >= d
    BY SMT
  <2>3. d * (q - r) >= d /\ d * (q - r) = d * q - d * r
    BY <1>1, <2>1, <2>2, SMT
  <2> QED BY <1>2, <1>3, <2>3, SMT
<1> QED BY <1>1, <1>4, <1>5, <1>6, SMT

\* Trades and candles with their types.
TradeRow == [ts : Int, price : Int, quantity : Int]
CandleType == [open_time : Int, close_time : Int, open : Int, high : Int, low : Int, close : Int,
               volume : Int, trade_count : Int]

\* f is what is built after each of the first n trades.
Builds(f, trades, d, n) ==
    f = [m \in 0..n |-> IF m = 0 THEN Nothing ELSE Absorb(f[m - 1], trades[m], d)]

\* One more trade can be absorbed.
LEMMA BuildsOneMore ==
    ASSUME NEW f, NEW trades, NEW d, NEW n \in Nat, Builds(f, trades, d, n)
    PROVE  \E g : Builds(g, trades, d, n + 1)
<1> DEFINE last == Absorb(f[n], trades[n + 1], d)
           g == [m \in 0..(n + 1) |-> IF m = n + 1 THEN last ELSE f[m]]
<1>1. \A m \in 0..n : f[m] = IF m = 0 THEN Nothing ELSE Absorb(f[m - 1], trades[m], d)
  BY DEF Builds
<1>2. ASSUME NEW m \in 0..(n + 1)
      PROVE  g[m] = IF m = 0 THEN Nothing ELSE Absorb(g[m - 1], trades[m], d)
  <2>1. CASE m = n + 1
    <3>1. m # 0 /\ m - 1 = n /\ n \in 0..(n + 1) /\ n # n + 1 /\ n + 1 \in 0..(n + 1)
      BY <2>1, SMT
    <3>2. g[n] = f[n] /\ g[n + 1] = last
      BY <3>1
    <3> QED BY <2>1, <3>1, <3>2
  <2>2. CASE m # n + 1
    <3>1. m \in 0..n /\ m \in 0..(n + 1)
      BY <2>2, SMT
    <3>2. g[m] = f[m]
      BY <2>2, <3>1
    <3>3. CASE m = 0
      BY <1>1, <3>1, <3>2, <3>3
    <3>4. CASE m # 0
      <4>1. m - 1 \in 0..(n + 1) /\ m - 1 # n + 1
        BY <3>4, <3>1, SMT
      <4>2. g[m - 1] = f[m - 1]
        BY <4>1
      <4> HIDE DEF g
      <4> QED BY <1>1, <3>1, <3>2, <3>4, <4>2
    <3> QED BY <3>3, <3>4
  <2> QED BY <2>1, <2>2
<1>3. g = [m \in 0..(n + 1) |-> IF m = 0 THEN Nothing ELSE Absorb(g[m - 1], trades[m], d)]
  <2>1. g = [m \in 0..(n + 1) |-> g[m]]
    OBVIOUS
  <2> HIDE DEF g
  <2> QED BY <1>2, <2>1
<1> HIDE DEF g
<1> QED BY <1>3 DEF Builds

\* Any number of trades can be absorbed.
LEMMA BuildsAll ==
    ASSUME NEW trades, NEW d, NEW n \in Nat
    PROVE  \E g : Builds(g, trades, d, n)
<1> DEFINE A == {m \in Nat : ~\E g : Builds(g, trades, d, m)}
<1> SUFFICES ASSUME A # {} PROVE FALSE
  OBVIOUS
<1>1. PICK m \in A : \A k \in A : m <= k
  <2>1. A \subseteq Nat
    OBVIOUS
  <2> HIDE DEF A
  <2> QED BY <2>1, LeastElement
<1>2. CASE m = 0
  <2> DEFINE g == [k \in {0} |-> Nothing]
  <2>1. 0..0 = {0}
    BY SMT
  <2>2. g = [k \in 0..0 |-> IF k = 0 THEN Nothing ELSE Absorb(g[k - 1], trades[k], d)]
    BY <2>1
  <2> HIDE DEF g
  <2>3. Builds(g, trades, d, 0)
    BY <2>2 DEF Builds
  <2> QED BY <1>1, <1>2, <2>3
<1>3. CASE m # 0
  <2>1. m - 1 \in Nat /\ ~(m <= m - 1) /\ (m - 1) + 1 = m
    BY <1>3, <1>1, SMT
  <2>2. \E g : Builds(g, trades, d, m - 1)
    BY <2>1, <1>1
  <2>3. \E g : Builds(g, trades, d, (m - 1) + 1)
    BY <2>1, <2>2, BuildsOneMore
  <2> QED BY <1>1, <2>1, <2>3
<1> QED BY <1>2, <1>3

\* The candles are what is built after the last trade.
LEMMA CandlesAreBuilt ==
    ASSUME NEW trades, NEW d, Len(trades) \in Nat
    PROVE  \E f : /\ Builds(f, trades, d, Len(trades))
                  /\ Candles(trades, d) = Flush(f[Len(trades)]).emitted
<1> DEFINE f == CHOOSE g : Builds(g, trades, d, Len(trades))
<1>1. Builds(f, trades, d, Len(trades))
  BY BuildsAll
<1>2. Candles(trades, d) = Flush(f[Len(trades)]).emitted
  BY DEF Candles, Builds
<1> HIDE DEF f
<1> QED BY <1>1, <1>2

\* The candle c begins with a trade, one of the first n.
Covers(c, trades, d, n) ==
    /\ c.close_time = c.open_time + d
    /\ \E m \in 1..n : c.open_time <= trades[m].ts /\ trades[m].ts < c.close_time

\* After n trades: the candle that is built is the one of the last trade, and every
\* candle covers one of them and opens when the ones before it have closed.
Underway(st, trades, d, n) ==
    /\ st \in [building : Seq(CandleType), emitted : Seq(CandleType)]
    /\ Len(st.building) = 1
    /\ st.building[1].open_time = Bucket(trades[n].ts, d)
    /\ Covers(st.building[1], trades, d, n)
    /\ \A k \in DOMAIN st.emitted :
           /\ Covers(st.emitted[k], trades, d, n)
           /\ st.emitted[k].close_time <= st.building[1].open_time
    /\ \A j, k \in DOMAIN st.emitted : j < k => st.emitted[j].close_time <= st.emitted[k].open_time

\* The candle that a trade opens is that of its bucket.
LEMMA OpenedIs ==
    ASSUME NEW trade \in TradeRow, NEW d \in Nat \ {0}
    PROVE  /\ Opened(trade, d) \in CandleType
           /\ Opened(trade, d).open_time = Bucket(trade.ts, d)
           /\ Opened(trade, d).close_time = Bucket(trade.ts, d) + d
<1>1. trade.ts \in Int /\ trade.price \in Int /\ trade.quantity \in Int
  BY DEF TradeRow
<1>2. Bucket(trade.ts, d) \in Int
  BY <1>1, BucketHolds
<1> QED BY <1>1, <1>2 DEF Opened, CandleType

\* A further trade leaves the bounds of its candle.
LEMMA ExtendedIs ==
    ASSUME NEW c \in CandleType, NEW trade \in TradeRow
    PROVE  /\ Extended(c, trade) \in CandleType
           /\ Extended(c, trade).open_time = c.open_time
           /\ Extended(c, trade).close_time = c.close_time
<1>1. trade.ts \in Int /\ trade.price \in Int /\ trade.quantity \in Int
  BY DEF TradeRow
<1> DEFINE top == IF trade.price > c.high THEN trade.price ELSE c.high
           bottom == IF trade.price < c.low THEN trade.price ELSE c.low
<1>2. /\ c.high \in Int /\ c.low \in Int /\ c.volume \in Int /\ c.trade_count \in Int
      /\ c.open_time \in Int /\ c.close_time \in Int /\ c.open \in Int
  BY DEF CandleType
<1>3. top \in Int /\ bottom \in Int /\ c.volume + trade.quantity \in Int /\ c.trade_count + 1 \in Int
  BY <1>1, <1>2
<1>4. Extended(c, trade) =
         [c EXCEPT !.high = top, !.low = bottom, !.close = trade.price,
                   !.volume = c.volume + trade.quantity, !.trade_count = c.trade_count + 1]
  BY DEF Extended
<1> DEFINE volume == c.volume + trade.quantity
           number == c.trade_count + 1
<1>5. volume \in Int /\ number \in Int
  BY <1>3
<1> HIDE DEF top, bottom, volume, number
<1> DEFINE e == [c EXCEPT !.high = top, !.low = bottom, !.close = trade.price,
                          !.volume = volume, !.trade_count = number]
<1>6. e \in CandleType /\ e.open_time = c.open_time /\ e.close_time = c.close_time
  BY <1>1, <1>3, <1>5 DEF CandleType
<1> QED BY <1>4, <1>6 DEF volume, number

\* The first trade opens a candle.
LEMMA FirstTrade ==
    ASSUME NEW trades \in Seq(TradeRow), NEW d \in Nat \ {0}, 1 \in DOMAIN trades
    PROVE  Underway(Absorb(Nothing, trades[1], d), trades, d, 1)
<1> DEFINE c == Opened(trades[1], d)
           st == Absorb(Nothing, trades[1], d)
<1>0. trades[1] \in TradeRow
  BY SMT
<1>1. trades[1] \in TradeRow /\ trades[1].ts \in Int
  BY <1>0 DEF TradeRow
<1>2. /\ c \in CandleType /\ c.open_time = Bucket(trades[1].ts, d)
      /\ c.close_time = Bucket(trades[1].ts, d) + d
  BY <1>1, OpenedIs
<1>3. /\ Bucket(trades[1].ts, d) <= trades[1].ts
      /\ trades[1].ts < Bucket(trades[1].ts, d) + d
  BY <1>1, BucketHolds
<1>4. st = [building |-> <<c>>, emitted |-> <<>>]
  BY DEF Absorb, Nothing
<1> HIDE DEF c, st
<1>5. Covers(c, trades, d, 1)
  BY <1>2, <1>3, 1 \in 1..1 DEF Covers
<1>6. <<c>> \in Seq(CandleType) /\ <<>> \in Seq(CandleType) /\ Len(<<c>>) = 1 /\ <<c>>[1] = c
  BY <1>2, SMT
<1>7. st.building = <<c>> /\ st.emitted = <<>> /\ DOMAIN st.emitted = {}
  BY <1>4, SMT
<1>8. st \in [building : Seq(CandleType), emitted : Seq(CandleType)]
  BY <1>4, <1>6
<1> QED BY <1>2, <1>5, <1>6, <1>7, <1>8 DEF Underway, st

\* One more trade extends the candle that is built, or closes it and opens another.
LEMMA NextTrade ==
    ASSUME NEW trades \in Seq(TradeRow), NEW d \in Nat \ {0}, NEW n \in Nat,
           n \in DOMAIN trades, n + 1 \in DOMAIN trades, trades[n].ts <= trades[n + 1].ts,
           NEW st, Underway(st, trades, d, n)
    PROVE  Underway(Absorb(st, trades[n + 1], d), trades, d, n + 1)
<1> DEFINE b == st.building[1]
           u == trades[n + 1]
           c == Opened(u, d)
           x == Extended(b, u)
           new == Absorb(st, u, d)
<1>1. /\ trades[n].ts \in Int /\ u \in TradeRow /\ u.ts \in Int
      /\ \A m \in 1..n : m \in 1..(n + 1)
      /\ n \in Nat \ {0}
  <2>1. trades[n] \in TradeRow /\ u \in TradeRow /\ n \in Nat \ {0}
    BY SMT
  <2>2. \A m \in 1..n : m \in 1..(n + 1)
    BY SMT
  <2> QED BY <2>1, <2>2 DEF TradeRow
<1>2. /\ st.building \in Seq(CandleType) /\ st.emitted \in Seq(CandleType)
      /\ st = [building |-> st.building, emitted |-> st.emitted]
      /\ Len(st.building) = 1 /\ b.open_time = Bucket(trades[n].ts, d)
      /\ Covers(b, trades, d, n)
      /\ \A k \in DOMAIN st.emitted : Covers(st.emitted[k], trades, d, n)
                                      /\ st.emitted[k].close_time <= b.open_time
      /\ \A j, k \in DOMAIN st.emitted :
             j < k => st.emitted[j].close_time <= st.emitted[k].open_time
  BY DEF Underway
<1>3. b \in CandleType /\ st.building # <<>> /\ st.building = <<b>>
  BY <1>2, SMT
<1>4. \A y : Covers(y, trades, d, n) => Covers(y, trades, d, n + 1)
  BY <1>1 DEF Covers
<1>5. CASE b.open_time # Bucket(u.ts, d)
  <2>1. new = [building |-> <<c>>, emitted |-> Append(st.emitted, b)]
    BY <1>3, <1>5 DEF Absorb
  <2>2. /\ c \in CandleType /\ c.open_time = Bucket(u.ts, d) /\ c.close_time = Bucket(u.ts, d) + d
    BY <1>1, OpenedIs
  <2>3. Bucket(u.ts, d) \in Int /\ Bucket(u.ts, d) <= u.ts /\ u.ts < Bucket(u.ts, d) + d
    BY <1>1, BucketHolds
  <2>4. Covers(c, trades, d, n + 1)
    <3>1. n + 1 \in 1..(n + 1)
      BY <1>1, SMT
    <3> QED BY <2>2, <2>3, <3>1 DEF Covers
  <2>5. b.close_time <= c.open_time
    <3>1. Bucket(trades[n].ts, d) + d <= Bucket(u.ts, d)
      BY <1>1, <1>2, <1>5, BucketsApart
    <3>2. b.close_time = b.open_time + d
      BY <1>2 DEF Covers
    <3> HIDE DEF b, c
    <3> QED BY <1>2, <2>2, <3>1, <3>2
  <2> DEFINE more == Append(st.emitted, b)
             N == Len(st.emitted)
  <2> HIDE DEF b, c
  <2>6. /\ more \in Seq(CandleType) /\ N \in Nat
        /\ DOMAIN more = 1..(N + 1) /\ DOMAIN st.emitted = 1..N
        /\ more[N + 1] = b /\ \A k \in 1..N : more[k] = st.emitted[k]
    BY <1>2, <1>3, SMT
  <2>7. <<c>> \in Seq(CandleType) /\ Len(<<c>>) = 1 /\ <<c>>[1] = c
    BY <2>2, SMT
  <2> HIDE DEF more, N, new
  <2>8. new.building = <<c>> /\ new.emitted = more
    BY <2>1 DEF more
  <2>9. new \in [building : Seq(CandleType), emitted : Seq(CandleType)]
    BY <2>1, <2>6, <2>7 DEF more
  <2>10. b.open_time \in Int /\ b.close_time \in Int /\ c.open_time \in Int
         /\ b.open_time <= b.close_time
    <3>1. b.close_time = b.open_time + d
      BY <1>2 DEF Covers
    <3> QED BY <1>3, <2>2, <3>1, SMTT(30) DEF CandleType
  <2>11. \A k \in 1..(N + 1) : Covers(more[k], trades, d, n + 1) /\ more[k].close_time <= c.open_time
    <3> TAKE k \in 1..(N + 1)
    <3>1. CASE k = N + 1
      BY <3>1, <2>5, <2>6, <1>2, <1>4
    <3>2. CASE k # N + 1
      <4>1. k \in 1..N
        BY <2>6, <3>2, SMT
      <4>2. more[k] = st.emitted[k] /\ more[k] \in CandleType
        BY <4>1, <2>6, SMT
      <4>3. more[k].close_time \in Int
        BY <4>2 DEF CandleType
      <4>4. Covers(more[k], trades, d, n) /\ more[k].close_time <= b.open_time
        BY <1>2, <2>6, <4>1, <4>2
      <4>5. more[k].close_time <= c.open_time
        BY <2>5, <2>10, <4>3, <4>4, SMT
      <4> QED BY <1>4, <4>4, <4>5
    <3> QED BY <3>1, <3>2
  <2>12. \A j, k \in 1..(N + 1) : j < k => more[j].close_time <= more[k].open_time
    <3> SUFFICES ASSUME NEW j \in 1..(N + 1), NEW k \in 1..(N + 1), j < k
                 PROVE  more[j].close_time <= more[k].open_time
      OBVIOUS
    <3>1. j \in 1..N
      BY <2>6, SMT
    <3>2. CASE k = N + 1
      BY <1>2, <2>6, <3>1, <3>2
    <3>3. CASE k # N + 1
      <4>1. k \in 1..N
        BY <2>6, <3>3, SMT
      <4> QED BY <1>2, <2>6, <3>1, <4>1
    <3> QED BY <3>2, <3>3
  <2>13. DOMAIN new.emitted = 1..(N + 1)
    BY <2>6, <2>8
  <2>14. Underway(new, trades, d, n + 1)
    BY <2>2, <2>4, <2>6, <2>7, <2>8, <2>9, <2>11, <2>12, <2>13 DEF Underway
  <2> QED BY <2>14 DEF new
<1>6. CASE b.open_time = Bucket(u.ts, d)
  <2>1. new = [building |-> <<x>>, emitted |-> st.emitted]
    <3>1. new = [st EXCEPT !.building = <<Extended(st.building[1], u)>>]
      BY <1>3, <1>6 DEF Absorb
    <3> HIDE DEF new
    <3>2. new = [st EXCEPT !.building = <<x>>]
      BY <3>1
    <3> HIDE DEF x
    <3> QED BY <1>2, <3>2
  <2>2. x \in CandleType /\ x.open_time = b.open_time /\ x.close_time = b.close_time
    BY <1>1, <1>3, ExtendedIs
  <2> HIDE DEF b, x, new
  <2>3. <<x>> \in Seq(CandleType) /\ Len(<<x>>) = 1 /\ <<x>>[1] = x
    BY <2>2, SMT
  <2>4. new.building = <<x>> /\ new.emitted = st.emitted
    BY <2>1
  <2>5. new \in [building : Seq(CandleType), emitted : Seq(CandleType)]
    BY <1>2, <2>1, <2>3
  <2>6. Covers(x, trades, d, n + 1)
    <3>1. Covers(b, trades, d, n + 1)
      BY <1>2, <1>4
    <3> QED BY <2>2, <3>1 DEF Covers
  <2>7. \A k \in DOMAIN st.emitted : Covers(st.emitted[k], trades, d, n + 1)
                                     /\ st.emitted[k].close_time <= x.open_time
    BY <1>2, <1>4, <2>2
  <2>8. Underway(new, trades, d, n + 1)
    BY <1>2, <1>6, <2>2, <2>3, <2>4, <2>5, <2>6, <2>7 DEF Underway
  <2> QED BY <2>8 DEF new
<1> QED BY <1>5, <1>6

\* Every candle covers a trade, and opens when the ones before it have closed.
LEMMA CandlesFollow ==
    ASSUME NEW trades \in Seq(TradeRow), NEW d \in Nat \ {0}, trades # <<>>,
           \A a, b \in DOMAIN trades : a < b => trades[a].ts <= trades[b].ts,
           NEW candles, candles = Candles(trades, d)
    PROVE  /\ candles \in Seq(CandleType)
           /\ \A k \in DOMAIN candles : Covers(candles[k], trades, d, Len(trades))
           /\ \A j, k \in DOMAIN candles : j < k => candles[j].close_time <= candles[k].open_time
<1> DEFINE N == Len(trades)
<1>1. N \in Nat \ {0} /\ DOMAIN trades = 1..N
  BY SMT
<1>2. PICK f : Builds(f, trades, d, N) /\ candles = Flush(f[N]).emitted
  BY <1>1, CandlesAreBuilt
<1>3. \A m \in 0..N : f[m] = IF m = 0 THEN Nothing ELSE Absorb(f[m - 1], trades[m], d)
  BY <1>2 DEF Builds
<1> DEFINE A == {m \in Nat : m + 1 <= N /\ ~Underway(f[m + 1], trades, d, m + 1)}
<1>4. ASSUME A # {} PROVE FALSE
  <2>1. PICK m \in A : \A k \in A : m <= k
    <3>1. A \subseteq Nat
      OBVIOUS
    <3> HIDE DEF A
    <3> QED BY <3>1, <1>4, LeastElement
  <2>2. CASE m = 0
    <3>1. 0 \in 0..N /\ 1 \in 0..N /\ 1 # 0 /\ 1 - 1 = 0 /\ 1 \in DOMAIN trades /\ 0 + 1 = 1
      BY <1>1, SMT
    <3>2. f[1] = Absorb(Nothing, trades[1], d)
      BY <1>3, <3>1
    <3>3. Underway(f[1], trades, d, 1)
      BY <3>1, <3>2, FirstTrade
    <3> QED BY <2>1, <2>2, <3>1, <3>3
  <2>3. CASE m # 0
    <3>1. /\ m \in Nat /\ m + 1 <= N /\ m - 1 \in Nat /\ ~(m <= m - 1) /\ (m - 1) + 1 = m
          /\ m \in DOMAIN trades /\ m + 1 \in DOMAIN trades /\ m < m + 1 /\ m <= N
          /\ m + 1 \in 0..N /\ m + 1 # 0 /\ (m + 1) - 1 = m
      BY <1>1, <2>1, <2>3, SMT
    <3>2. Underway(f[m], trades, d, m)
      BY <2>1, <3>1
    <3>3. f[m + 1] = Absorb(f[m], trades[m + 1], d)
      BY <1>3, <3>1
    <3>4. trades[m].ts <= trades[m + 1].ts
      BY <3>1
    <3>5. Underway(f[m + 1], trades, d, m + 1)
      BY <3>1, <3>2, <3>3, <3>4, NextTrade
    <3> QED BY <2>1, <3>5
  <2> QED BY <2>2, <2>3
<1>5. Underway(f[N], trades, d, N)
  <2>1. N - 1 \in Nat /\ (N - 1) + 1 = N /\ N <= N
    BY <1>1, SMT
  <2>2. N - 1 \notin A
    BY <1>4
  <2> QED BY <2>1, <2>2
<1> DEFINE e == f[N].emitted
           b == f[N].building
           M == Len(e)
<1> HIDE DEF A, N
<1>6. /\ e \in Seq(CandleType) /\ b \in Seq(CandleType) /\ Len(b) = 1
      /\ Covers(b[1], trades, d, N)
      /\ \A k \in DOMAIN e : Covers(e[k], trades, d, N) /\ e[k].close_time <= b[1].open_time
      /\ \A j, k \in DOMAIN e : j < k => e[j].close_time <= e[k].open_time
  BY <1>5 DEF Underway
<1>7. candles = e \o b
  BY <1>2 DEF Flush
<1> HIDE DEF e, b, M
<1>8. /\ M \in Nat /\ DOMAIN e = 1..M
      /\ candles \in Seq(CandleType) /\ DOMAIN candles = 1..(M + 1)
      /\ candles[M + 1] = b[1] /\ \A k \in 1..M : candles[k] = e[k]
  <2>1. M \in Nat /\ DOMAIN e = 1..M /\ Len(e) = M
    BY <1>6, SMT DEF M
  <2>2. candles \in Seq(CandleType) /\ Len(candles) = M + 1
    <3>1. e \o b \in Seq(CandleType) /\ Len(e \o b) = Len(e) + Len(b)
      BY <1>6, ConcatProperties
    <3> QED BY <3>1, <1>6, <1>7, <2>1
  <2>3. \A k \in 1..(M + 1) : candles[k] = IF k <= M THEN e[k] ELSE b[k - M]
    <3>1. \A k \in 1..(Len(e) + Len(b)) :
             (e \o b)[k] = IF k <= Len(e) THEN e[k] ELSE b[k - Len(e)]
      BY <1>6, ConcatProperties
    <3> QED BY <3>1, <1>6, <1>7, <2>1
  <2>4. DOMAIN candles = 1..(M + 1)
    BY <2>2, SMT
  <2>5. /\ M + 1 \in 1..(M + 1) /\ ~(M + 1 <= M) /\ (M + 1) - M = 1
        /\ \A k \in 1..M : k \in 1..(M + 1) /\ k <= M
    BY <2>1, SMT
  <2> QED BY <2>1, <2>2, <2>3, <2>4, <2>5
<1>9. \A k \in 1..(M + 1) : Covers(candles[k], trades, d, N)
  <2> TAKE k \in 1..(M + 1)
  <2>1. CASE k = M + 1
    BY <1>6, <1>8, <2>1
  <2>2. CASE k # M + 1
    <3>1. k \in 1..M
      BY <1>8, <2>2, SMT
    <3> QED BY <1>6, <1>8, <3>1
  <2> QED BY <2>1, <2>2
<1>10. \A j, k \in 1..(M + 1) : j < k => candles[j].close_time <= candles[k].open_time
  <2> SUFFICES ASSUME NEW j \in 1..(M + 1), NEW k \in 1..(M + 1), j < k
               PROVE  candles[j].close_time <= candles[k].open_time
    OBVIOUS
  <2>1. j \in 1..M
    BY <1>8, SMT
  <2>2. CASE k = M + 1
    BY <1>6, <1>8, <2>1, <2>2
  <2>3. CASE k # M + 1
    <3>1. k \in 1..M
      BY <1>8, <2>3, SMT
    <3> QED BY <1>6, <1>8, <2>1, <3>1
  <2> QED BY <2>2, <2>3
<1> QED BY <1>8, <1>9, <1>10 DEF N

\* In a session made of its own ticks, a frame that closes by the last event has a fill
\* event, and no two have the same.
LEMMA FramesHaveTheirFill ==
    ASSUME DurationsAssumption, NEW S0 \in SessionType, Candled(S0), NEW k \in DOMAIN S0.frames,
           Executable(S0, k)
    PROVE  /\ FillTick(S0, k) # 0
           /\ \A j \in 1..(k - 1) : FillTick(S0, j) # FillTick(S0, k)
<1> DEFINE ticks == S0.ticks
           L == Len(ticks)
           frames == S0.frames
           trades == TradesOf(ticks)
<1>1. /\ ticks \in Seq(TickType) /\ frames \in Seq(FrameType) /\ ticks # <<>>
      /\ S0.last = ticks[L].ts
      /\ \A a, b \in DOMAIN ticks : a < b => ticks[a].ts <= ticks[b].ts
  BY DEF SessionType, Candled
<1>2. PICK d \in Durations : [m \in DOMAIN frames |-> frames[m].close] = Closes(ticks, d)
  BY DEF Candled
<1>3. d \in Nat \ {0}
  BY DEF DurationsAssumption
<1> HIDE DEF ticks, frames
<1>4. /\ L \in Nat \ {0} /\ DOMAIN ticks = 1..L /\ L \in 1..L
      /\ \A m \in 1..L : ticks[m] \in TickType
  BY <1>1, SMT
<1>5. \A m \in 1..L : ticks[m].ts \in Int /\ ticks[m].price \in Int
  BY <1>4 DEF TickType
<1> HIDE DEF L
<1>6. /\ trades \in Seq(TradeRow) /\ DOMAIN trades = 1..L /\ Len(trades) = L /\ trades # <<>>
      /\ \A m \in 1..L : trades[m].ts = ticks[m].ts
  <2>1. trades = [m \in 1..L |-> [ts |-> ticks[m].ts, price |-> ticks[m].price, quantity |-> 1]]
    BY <1>4 DEF TradesOf
  <2>2. \A m \in 1..L : [ts |-> ticks[m].ts, price |-> ticks[m].price, quantity |-> 1] \in TradeRow
    BY <1>5 DEF TradeRow
  <2> HIDE DEF trades
  <2>3. trades \in [1..L -> TradeRow]
    BY <2>1, <2>2
  <2>4. trades \in Seq(TradeRow) /\ DOMAIN trades = 1..L /\ Len(trades) = L
    BY <2>3, <1>4, SMT
  <2>5. trades # <<>>
    BY <2>4, <1>4, SMT
  <2>6. \A m \in 1..L : trades[m].ts = ticks[m].ts
    BY <2>1
  <2> QED BY <2>4, <2>5, <2>6
<1> DEFINE candles == Candles(trades, d)
<1>7. DOMAIN frames = DOMAIN candles /\ \A m \in DOMAIN frames : frames[m].close = candles[m].close_time
  <2>1. Closes(ticks, d) = [m \in DOMAIN candles |-> candles[m].close_time]
    BY DEF Closes
  <2> HIDE DEF candles
  <2>2. [m \in DOMAIN frames |-> frames[m].close] = [m \in DOMAIN candles |-> candles[m].close_time]
    BY <1>2, <2>1
  <2>3. DOMAIN frames = DOMAIN candles
    <3>1. DOMAIN [m \in DOMAIN frames |-> frames[m].close] = DOMAIN [m \in DOMAIN candles |-> candles[m].close_time]
      BY <2>2
    <3> QED BY <3>1
  <2>4. ASSUME NEW m \in DOMAIN frames PROVE frames[m].close = candles[m].close_time
    <3>1. [x \in DOMAIN frames |-> frames[x].close][m] = [x \in DOMAIN candles |-> candles[x].close_time][m]
      BY <2>2
    <3> QED BY <2>3, <3>1
  <2> QED BY <2>3, <2>4
<1> HIDE DEF trades
<1>8. /\ candles \in Seq(CandleType)
      /\ \A m \in DOMAIN candles : Covers(candles[m], trades, d, L)
      /\ \A j, m \in DOMAIN candles : j < m => candles[j].close_time <= candles[m].open_time
  <2>1. \A a, b \in DOMAIN trades : a < b => trades[a].ts <= trades[b].ts
    BY <1>1, <1>4, <1>6
  <2> HIDE DEF candles
  <2> QED BY <1>3, <1>6, <2>1, CandlesFollow DEF candles
<1> HIDE DEF candles
<1> DEFINE After(m) == {x \in DOMAIN ticks : ticks[x].ts >= frames[m].close}
<1>9. /\ k \in DOMAIN frames /\ DOMAIN frames \subseteq Nat /\ frames[k].close \in Int
      /\ \A j \in 1..(k - 1) : j \in DOMAIN frames /\ j < k
  <2>1. k \in DOMAIN frames
    BY DEF frames
  <2>2. frames[k] \in FrameType /\ DOMAIN frames \subseteq Nat
        /\ \A j \in 1..(k - 1) : j \in DOMAIN frames /\ j < k
    BY <1>1, <2>1, SMT
  <2> QED BY <2>1, <2>2 DEF FrameType
<1>10. ticks[L].ts >= frames[k].close
  BY <1>1, <1>4, <1>5, <1>9, SMT DEF Executable, ticks, frames
<1>11. \A m : FillTick(S0, m) = IF After(m) = {} THEN 0
                             ELSE CHOOSE j \in After(m) : \A y \in After(m) : j <= y
  BY DEF FillTick, ticks, frames
<1>12. \A m : After(m) # {} => /\ FillTick(S0, m) \in After(m)
                               /\ \A y \in After(m) : FillTick(S0, m) <= y
  <2> SUFFICES ASSUME NEW m, After(m) # {}
               PROVE  /\ FillTick(S0, m) \in After(m)
                      /\ \A y \in After(m) : FillTick(S0, m) <= y
    OBVIOUS
  <2>1. After(m) \subseteq Nat
    BY <1>4, SMT
  <2> DEFINE T == After(m)
  <2>2. FillTick(S0, m) = CHOOSE j \in T : \A y \in T : j <= y
    BY <1>11
  <2> HIDE DEF T
  <2>3. \E x \in T : \A y \in T : x <= y
    BY <2>1, LeastElement DEF T
  <2>4. FillTick(S0, m) \in T /\ \A y \in T : FillTick(S0, m) <= y
    BY <2>2, <2>3
  <2> QED BY <2>4 DEF T
<1>13. L \in After(k) /\ After(k) # {}
  BY <1>4, <1>10
<1>14. FillTick(S0, k) \in 1..L /\ ticks[FillTick(S0, k)].ts >= frames[k].close
  BY <1>12, <1>13, <1>4
<1>15. ASSUME NEW j \in 1..(k - 1), FillTick(S0, j) = FillTick(S0, k) PROVE FALSE
  <2>1. j \in DOMAIN candles /\ k \in DOMAIN candles /\ j < k
        /\ frames[j].close = candles[j].close_time /\ frames[k].close = candles[k].close_time
    BY <1>7, <1>9
  <2>2. candles[j].close_time <= candles[k].open_time /\ Covers(candles[k], trades, d, L)
    BY <1>8, <2>1
  <2>3. PICK x \in 1..L : candles[k].open_time <= trades[x].ts /\ trades[x].ts < candles[k].close_time
    BY <2>2 DEF Covers
  <2>4. candles[j] \in CandleType /\ candles[k] \in CandleType
    BY <1>8, <2>1, SMT
  <2>5. candles[j].close_time \in Int /\ candles[k].open_time \in Int /\ candles[k].close_time \in Int
    BY <2>4 DEF CandleType
  <2>6. ticks[x].ts \in Int /\ trades[x].ts = ticks[x].ts
    BY <1>5, <1>6
  <2>7. ticks[x].ts >= frames[j].close /\ ticks[x].ts < frames[k].close
    BY <2>1, <2>2, <2>3, <2>5, <2>6, SMT
  <2>8. x \in After(j) /\ After(j) # {}
    BY <1>4, <2>7
  <2>9. FillTick(S0, k) <= x
    BY <1>12, <1>15, <2>8
  <2> DEFINE f == FillTick(S0, k)
  <2>10. f \in 1..L /\ ticks[f].ts >= frames[k].close /\ ticks[f].ts \in Int /\ f <= x
    BY <1>5, <1>14, <2>9
  <2> HIDE DEF f
  <2>11. ticks[f].ts <= ticks[x].ts
    <3>1. CASE f = x
      BY <2>6, <3>1, SMT
    <3>2. CASE f # x
      <4>1. f < x
        BY <2>10, <3>2, SMT
      <4> QED BY <1>1, <1>4, <2>10, <4>1
    <3> QED BY <3>1, <3>2
  <2> QED BY <2>6, <2>7, <2>10, <2>11, <1>9, SMT
<1>16. FillTick(S0, k) # 0
  BY <1>4, <1>14, SMT
<1> QED BY <1>15, <1>16

\* Every record is of a frame.
RecordsInv ==
    \A j \in DOMAIN journal :
        /\ journal[j].session \in DOMAIN run.sessions
        /\ journal[j].sig \in DOMAIN run.sessions[journal[j].session].frames

\* A step keeps this.
LEMMA RecordsStep ==
    ASSUME EngineInv, RecordsInv, [Next]_vars
    PROVE  RecordsInv'
<1>0. TypeOK /\ PositionInv /\ LoopInv
  BY DEF EngineInv
<1>1. run' = run
  BY DEF vars, Next, StartSession, OpenTick, TakeSignal, CheckExit, ClosePosition, Fill, SessionEnd,
         Advance, Drain, EndSession, Finish, Raise
<1>2. CASE journal' = journal
  BY <1>1, <1>2 DEF RecordsInv
<1>3. CASE journal' # journal
  <2>1. Next
    BY <1>3 DEF vars
  <2>2. /\ s > 0
        /\ \E k \in DOMAIN S.frames :
              \E o \in {"FILLED", "FILL_REJECTED", "DISCARDED"}, why \in Reasons :
                 journal' = Append(journal, Record(s, k, o, why))
    BY <1>0, <1>3, <2>1, DeliveryIsDeclared
  <2>3. PICK k \in DOMAIN S.frames :
            \E o \in {"FILLED", "FILL_REJECTED", "DISCARDED"}, why \in Reasons :
               journal' = Append(journal, Record(s, k, o, why))
    BY <2>2
  <2>4. PICK o \in {"FILLED", "FILL_REJECTED", "DISCARDED"}, why \in Reasons :
            journal' = Append(journal, Record(s, k, o, why))
    BY <2>3
  <2>5. s \in DOMAIN run.sessions /\ S = run.sessions[s] /\ S \in SessionType
    <3>1. run.sessions \in Seq(SessionType) /\ s \in 0..Len(run.sessions)
      BY <1>0 DEF TypeOK, RunType
    <3> QED BY <2>2, <3>1, SMT DEF S
  <2>6. k \in Nat
    <3>1. S.frames \in Seq(FrameType)
      BY <2>5 DEF SessionType
    <3> QED BY <3>1, SMT
  <2> DEFINE N == Len(journal) + 1
             e == Record(s, k, o, why)
  <2>7. /\ DOMAIN journal' = DOMAIN journal \cup {N} /\ journal'[N] = e
        /\ \A j \in DOMAIN journal : journal'[j] = journal[j]
    BY <1>0, <2>4, <2>6, LogAppend
  <2>8. e.session = s /\ e.sig = k
    BY DEF Record
  <2> HIDE DEF N, e
  <2>9. ASSUME NEW j \in DOMAIN journal \cup {N}
        PROVE  /\ journal'[j].session \in DOMAIN run.sessions
               /\ journal'[j].sig \in DOMAIN run.sessions[journal'[j].session].frames
    <3>1. CASE j = N
      BY <2>5, <2>7, <2>8, <3>1
    <3>2. CASE j \in DOMAIN journal
      BY <2>7, <3>2 DEF RecordsInv
    <3> QED BY <3>1, <3>2
  <2> QED BY <1>1, <2>7, <2>9 DEF RecordsInv
<1> QED BY <1>2, <1>3

\* For every input, in the sessions that are made of their own ticks every executable
\* signal has a fill event of its own.
THEOREM SignalsMeetTheirFill == Spec => []DerivedSignalsMeetTheirFill
<1>1. Init => RecordsInv
  BY DEF Init, Ready, RecordsInv
<1>2. Spec => []RecordsInv
  BY <1>1, RecordsStep, EngineKeepsAccount, PTL DEF Spec
<1>3. ASSUME EngineInv, RecordsInv PROVE DerivedSignalsMeetTheirFill
  <2> SUFFICES ASSUME NEW e \in Journaled,
                      e.reason \in {"SIGNAL_SUPERSEDED_SAME_FILL_EVENT", "SIGNAL_WITHOUT_FILL_POSTERIOR"},
                      Candled(run.sessions[e.session])
               PROVE  FALSE
    BY DEF DerivedSignalsMeetTheirFill
  <2> DEFINE n == e.session
             k == e.sig
             S0 == run.sessions[n]
  <2>1. n \in DOMAIN run.sessions /\ k \in DOMAIN S0.frames
    BY <1>3 DEF RecordsInv, Journaled
  <2>2. S0 \in SessionType
    BY <1>3, <2>1 DEF EngineInv, TypeOK, RunType
  <2>3. DeclaredOutcome(n, k)[2] = e.reason
    <3>1. <<e.outcome, e.reason>> = DeclaredOutcome(n, k)
      BY <1>3 DEF EngineInv, DeliveredInv, OutcomeIsDeclared
    <3> QED BY <3>1
  <2> HIDE DEF n, k
  <2>4. /\ Executable(S0, k)
        /\ FillTick(S0, k) = 0 \/ \E j \in 1..(k - 1) : FillTick(S0, j) = FillTick(S0, k)
    BY <2>3 DEF DeclaredOutcome
  <2> HIDE DEF S0
  <2>5. Candled(S0)
    BY DEF S0, n
  <2>6. k \in DOMAIN S0.frames
    BY <2>1
  <2> QED BY <2>2, <2>4, <2>5, <2>6, FramesHaveTheirFill, DurationsAssumption
<1> QED BY <1>2, <1>3, EngineKeepsAccount, PTL
=============================================================================
