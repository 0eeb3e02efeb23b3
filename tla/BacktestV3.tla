------------------------------ MODULE BacktestV3 ------------------------------
(***************************************************************************)
(* The streaming event loop of the v3 backtest engine                      *)
(* (packages/backtest/src/quantlab_backtest/engine_v3.py, run_backtest_v3).*)
(*                                                                         *)
(* One behaviour is one call of run_backtest_v3 on one input.  The loop is *)
(* sequential; what makes it hard is that it merges two streams (ticks,    *)
(* and the signals of the feature frames) with one element of lookahead in *)
(* each, under one position slot, and delivers its results by callback     *)
(* while it runs, so that an error leaves a prefix already delivered.      *)
(*                                                                         *)
(* Data is abstracted to what the loop compares: instants, prices and      *)
(* distances are integers (the engine itself works in scaled integers), a  *)
(* frame is a candle close and the verdict of its condition, and a signal  *)
(* is named by the index of its candle.                                    *)
(***************************************************************************)
EXTENDS Integers, Sequences, FiniteSets

CONSTANTS
    Runs,          \* the inputs of run_backtest_v3 that are explored
    MaxSessions,   \* no input has more sessions,
    MaxTicks       \* and no session more ticks

(***************************************************************************)
(* Inputs.                                                                 *)
(***************************************************************************)
\* One SessionTrade; ok is FALSE when its metadata does not match the session.
TickType == [ts : Int, seq : Int, price : Int, ok : BOOLEAN]

\* One feature frame: "hit" and "miss" are the verdict of the entry
\* conditions, "bad" is a frame that _frames refuses (metadata, timeframe,
\* a feature missing or not aligned with its candle).
FrameType == [close : Int, kind : {"hit", "miss", "bad"}]

\* last is TradingSession.last_event_ns_utc; trailing is TRUE when a feature
\* still has rows after the last candle.
SessionType == [date : Int, asset : STRING, last : Int, ticks : Seq(TickType),
                frames : Seq(FrameType), trailing : BOOLEAN]

\* window holds the instants admitted by the entry time filter.
RunType == [sessions : Seq(SessionType), dir : {"BUY", "SELL"}, asset : STRING,
            tp : Nat \ {0}, sl : Nat \ {0}, slip : Nat, cost : Nat,
            window : SUBSET Int]

\* StrategyDefinitionV3 admits only positive stop and target distances and
\* non-negative frictions.
ASSUME RunsAssumption ==
    /\ MaxSessions \in Nat /\ MaxTicks \in Nat
    /\ \A r \in Runs :
          /\ r \in RunType
          /\ Len(r.sessions) <= MaxSessions
          /\ \A n \in DOMAIN r.sessions : Len(r.sessions[n].ticks) <= MaxTicks

VARIABLES
    run,        \* the input of this call
    pc,         \* the place in the loop
    s,          \* number of the session being consumed, 0 before the first
    i,          \* index of current_raw in the ticks of the session
    sig,        \* frame of next_signal, 0 for None
    wasOpen,    \* position_was_open
    selected,   \* frame of selected_signal, 0 for None
    position,   \* the open position: frame of its signal, index of its entry tick
    journal,    \* records delivered through on_signal
    ledger      \* records delivered through on_trade

vars == <<run, pc, s, i, sig, wasOpen, selected, position, journal, ledger>>

NoPosition == [sig |-> 0, entry |-> 0]
IsOpen == position # NoPosition

S == run.sessions[s]
Tick == S.ticks[i]
\* Variant: the end of the ticks is noticed one tick late.
LastTickLate == i > Len(S.ticks)

LastTick == i = Len(S.ticks)          \* following_raw is None

(***************************************************************************)
(* The signal generator.                                                   *)
(***************************************************************************)
\* Frame k makes _frames raise when it is reached.
Refused(S0, k) ==
    \/ S0.frames[k].kind = "bad"
    \/ k > 1 /\ S0.frames[k].close <= S0.frames[k - 1].close

\* The frames at which next(signal_iterator) stops when resumed after frame k:
\* it yields there, or raises there.
Stops(S0, k) ==
    {n \in DOMAIN S0.frames : n > k /\ (S0.frames[n].kind = "hit" \/ Refused(S0, n))}

\* next(signal_iterator, None) when resumed after frame k: the next frame, or 0.
NextSignal(S0, k) ==
    IF Stops(S0, k) = {} THEN 0
    ELSE CHOOSE n \in Stops(S0, k) : \A m \in Stops(S0, k) : n <= m

\* next(signal_iterator, None) raises when resumed after frame k.
PullFails(S0, k) ==
    IF Stops(S0, k) = {} THEN S0.trailing ELSE Refused(S0, NextSignal(S0, k))

Executable(S0, k) == S0.frames[k].close <= S0.last

(***************************************************************************)
(* Prices.                                                                 *)
(***************************************************************************)
EntryPrice(r, market) == IF r.dir = "BUY" THEN market + r.slip ELSE market - r.slip
\* Variant: the slippage of the exit has the sign of the entry.
ExitPriceFavourable(r, market) == EntryPrice(r, market)

ExitPrice(r, market)  == IF r.dir = "BUY" THEN market - r.slip ELSE market + r.slip

Target(r, execution) == IF r.dir = "BUY" THEN execution + r.tp ELSE execution - r.tp
Stop(r, execution)   == IF r.dir = "BUY" THEN execution - r.sl ELSE execution + r.sl

\* The level that a market price touches for a position entered at entryMarket.
Touched(r, entryMarket, market) ==
    LET target == Target(r, EntryPrice(r, entryMarket))
        stop   == Stop(r, EntryPrice(r, entryMarket))
        Beyond(level, favourable) ==
            IF (r.dir = "BUY") = favourable THEN market >= level ELSE market <= level
    IN  IF Beyond(target, TRUE) THEN "TAKE_PROFIT"
        ELSE IF Beyond(stop, FALSE) THEN "STOP_LOSS"
        ELSE "NONE"

\* Profit of moving from price a to price b in the direction of the strategy.
Gain(r, a, b) == IF r.dir = "BUY" THEN b - a ELSE a - b

\* ClosedTradeV3 for the open position p of session n, closed at tick x.
ClosedTrade(r, n, p, x, reason) ==
    LET market(t) == r.sessions[n].ticks[t].price
        gross     == Gain(r, market(p.entry), market(x))
        execution == Gain(r, EntryPrice(r, market(p.entry)), ExitPrice(r, market(x)))
        impact    == gross - execution
    IN  [session |-> n, sig |-> p.sig, entry |-> p.entry, exit |-> x,
         reason |-> reason, gross |-> gross, impact |-> impact,
         cost |-> 2 * r.cost, net |-> gross - impact - 2 * r.cost]

Record(n, k, outcome, reason) ==
    [session |-> n, sig |-> k, outcome |-> outcome, reason |-> reason]

(***************************************************************************)
(* The loop.                                                               *)
(***************************************************************************)
\* The loop before its first session.
Ready ==
    /\ pc = "session"
    /\ s = 0 /\ i = 0 /\ sig = 0
    /\ wasOpen = FALSE
    /\ selected = 0
    /\ position = NoPosition
    /\ journal = <<>>
    /\ ledger = <<>>

Init == run \in Runs /\ Ready

\* An exception leaves the loop; what was delivered stays delivered.
Raise ==
    /\ pc' = "failed"
    /\ UNCHANGED <<run, s, i, sig, wasOpen, selected, position, journal, ledger>>

Deliver(k, outcome, reason) == journal' = Append(journal, Record(s, k, outcome, reason))

\* The checks made on a session before anything of it is consumed.
SessionRefused(n) ==
    \/ n > 1 /\ run.sessions[n].date <= run.sessions[n - 1].date
    \/ run.sessions[n].asset # run.asset
    \/ PullFails(run.sessions[n], 0)

\* `for item in session_inputs`: check the session, prime both lookaheads.
StartSession ==
    /\ pc = "session"
    /\ s < Len(run.sessions)
    /\ IF SessionRefused(s + 1) THEN Raise
       ELSE /\ s' = s + 1
            /\ i' = 1
            /\ sig' = NextSignal(run.sessions[s + 1], 0)
            /\ position' = NoPosition
            /\ pc' = IF run.sessions[s + 1].ticks = <<>> THEN "drain" ELSE "tick"
            /\ UNCHANGED <<run, wasOpen, selected, journal, ledger>>

\* A tick whose metadata is wrong, or that does not follow the previous tick.
TickRefused ==
    \/ ~Tick.ok
    \/ /\ i > 1
       /\ LET before == S.ticks[i - 1]
          IN  \/ Tick.ts < before.ts
              \/ Tick.ts = before.ts /\ Tick.seq <= before.seq

\* Variant: the snapshot of the position slot is not taken.
OpenTickWithoutSnapshot ==
    /\ pc = "tick"
    /\ IF TickRefused THEN Raise
       ELSE /\ selected' = 0
            /\ pc' = "signals"
            /\ UNCHANGED <<run, s, i, sig, wasOpen, position, journal, ledger>>

\* _scaled_tick, the order check and the snapshot of the position slot.
OpenTick ==
    /\ pc = "tick"
    /\ IF TickRefused THEN Raise
       ELSE /\ wasOpen' = IsOpen
            /\ selected' = 0
            /\ pc' = "signals"
            /\ UNCHANGED <<run, s, i, sig, position, journal, ledger>>

\* Variant: a signal of the tick's own instant is not due yet.
SignalDueStrictly == sig # 0 /\ S.frames[sig].close < Tick.ts

\* next_signal is available at the current tick.
SignalDue == sig # 0 /\ S.frames[sig].close <= Tick.ts

\* One turn of the inner while: the lookahead is refilled first, then the
\* candidate is discarded or becomes the selected signal.
TakeSignal ==
    /\ pc = "signals"
    /\ SignalDue
    /\ IF PullFails(S, sig) THEN Raise
       ELSE /\ sig' = NextSignal(S, sig)
            /\ \/ /\ ~Executable(S, sig)
                  /\ Deliver(sig, "DISCARDED", "AVAILABLE_AFTER_LAST_ELIGIBLE_TRADE")
                  /\ UNCHANGED selected
               \/ /\ Executable(S, sig)
                  /\ S.frames[sig].close \notin run.window
                  /\ Deliver(sig, "DISCARDED", "SIGNAL_OUTSIDE_TIME_RANGE")
                  /\ UNCHANGED selected
               \/ /\ Executable(S, sig)
                  /\ S.frames[sig].close \in run.window
                  /\ \/ /\ wasOpen
                        /\ Deliver(sig, "DISCARDED", "POSITION_ALREADY_OPEN")
                        /\ UNCHANGED selected
                     \/ /\ ~wasOpen /\ selected = 0
                        /\ selected' = sig
                        /\ UNCHANGED journal
                     \/ /\ ~wasOpen /\ selected # 0
                        /\ Deliver(sig, "DISCARDED", "SIGNAL_SUPERSEDED_SAME_FILL_EVENT")
                        /\ UNCHANGED selected
            /\ UNCHANGED <<run, pc, s, i, wasOpen, position, ledger>>

\* Close the open position at the current tick, or raise on a non-positive
\* exit execution price.
ClosePosition(reason, nextPc) ==
    IF ExitPrice(run, Tick.price) <= 0 THEN Raise
    ELSE /\ ledger' = Append(ledger, ClosedTrade(run, s, position, i, reason))
         /\ position' = NoPosition
         /\ pc' = nextPc
         /\ UNCHANGED <<run, s, i, sig, wasOpen, selected, journal>>

\* Target and stop of the open position against the market price of the tick.
CheckExit ==
    /\ pc = "signals"
    /\ ~SignalDue
    /\ LET touched == IF IsOpen
                      THEN Touched(run, S.ticks[position.entry].price, Tick.price)
                      ELSE "NONE"
       IN  IF touched # "NONE" THEN ClosePosition(touched, "fill")
           ELSE /\ pc' = "fill"
                /\ UNCHANGED <<run, s, i, sig, wasOpen, selected, position, journal, ledger>>

\* Fill the selected signal at the current tick.  position_was_open is the
\* snapshot taken before CheckExit: the tick that closes a position cannot
\* open another.
Fill ==
    /\ pc = "fill"
    /\ IF wasOpen \/ selected = 0
       THEN /\ pc' = "close"
            /\ UNCHANGED <<run, s, i, sig, wasOpen, selected, position, journal, ledger>>
       ELSE IF Tick.ts \notin run.window
       THEN /\ Deliver(selected, "FILL_REJECTED", "FILL_OUTSIDE_TIME_RANGE")
            /\ pc' = "close"
            /\ UNCHANGED <<run, s, i, sig, wasOpen, selected, position, ledger>>
       ELSE IF LastTick
       THEN /\ Deliver(selected, "FILL_REJECTED", "LAST_TICK_FILL_FORBIDDEN")
            /\ pc' = "close"
            /\ UNCHANGED <<run, s, i, sig, wasOpen, selected, position, ledger>>
       ELSE IF EntryPrice(run, Tick.price) <= 0 THEN Raise
       ELSE /\ Deliver(selected, "FILLED", "NONE")
            /\ position' = [sig |-> selected, entry |-> i]
            /\ pc' = "close"
            /\ UNCHANGED <<run, s, i, sig, wasOpen, selected, ledger>>

\* On the last tick a position still open is closed at the session end.
SessionEnd ==
    /\ pc = "close"
    /\ LastTick
    /\ IF IsOpen THEN ClosePosition("SESSION_END", "drain")
       ELSE /\ pc' = "drain"
            /\ UNCHANGED <<run, s, i, sig, wasOpen, selected, position, journal, ledger>>

\* Variant: the lookahead is not shifted.
AdvanceStuck ==
    /\ pc = "close"
    /\ ~LastTick
    /\ pc' = "tick"
    /\ UNCHANGED <<run, s, i, sig, wasOpen, selected, position, journal, ledger>>

\* Shift the tick lookahead.
Advance ==
    /\ pc = "close"
    /\ ~LastTick
    /\ i' = i + 1
    /\ pc' = "tick"
    /\ UNCHANGED <<run, s, sig, wasOpen, selected, position, journal, ledger>>

DrainReason ==
    IF ~Executable(S, sig) THEN "AVAILABLE_AFTER_LAST_ELIGIBLE_TRADE"
    ELSE IF S.frames[sig].close \notin run.window THEN "SIGNAL_OUTSIDE_TIME_RANGE"
    ELSE "SIGNAL_WITHOUT_FILL_POSTERIOR"

\* The signals left after the last tick: journalled first, then the
\* generator is resumed, so a frame that it refuses raises after the record.
Drain ==
    /\ pc = "drain"
    /\ sig # 0
    /\ Deliver(sig, "DISCARDED", DrainReason)
    /\ IF PullFails(S, sig)
       THEN pc' = "failed" /\ UNCHANGED sig
       ELSE sig' = NextSignal(S, sig) /\ UNCHANGED pc
    /\ UNCHANGED <<run, s, i, wasOpen, selected, position, ledger>>

EndSession ==
    /\ pc = "drain"
    /\ sig = 0
    /\ pc' = "session"
    /\ UNCHANGED <<run, s, i, sig, wasOpen, selected, position, journal, ledger>>

\* All sessions consumed: the summary is returned.
Finish ==
    /\ pc = "session"
    /\ s = Len(run.sessions)
    /\ pc' = "done"
    /\ UNCHANGED <<run, s, i, sig, wasOpen, selected, position, journal, ledger>>

Next ==
    \/ StartSession \/ OpenTick \/ TakeSignal \/ CheckExit \/ Fill
    \/ SessionEnd \/ Advance \/ Drain \/ EndSession \/ Finish

\* The loop is a sequential program: it never stops while it can step.
Spec == Init /\ [][Next]_vars /\ WF_vars(Next)

(***************************************************************************)
(* What the loop promises.                                                 *)
(***************************************************************************)
Reasons == {"NONE", "AVAILABLE_AFTER_LAST_ELIGIBLE_TRADE", "SIGNAL_OUTSIDE_TIME_RANGE",
            "POSITION_ALREADY_OPEN", "SIGNAL_SUPERSEDED_SAME_FILL_EVENT",
            "FILL_OUTSIDE_TIME_RANGE", "LAST_TICK_FILL_FORBIDDEN",
            "SIGNAL_WITHOUT_FILL_POSTERIOR"}

JournalType == [session : Nat, sig : Nat, reason : Reasons,
                outcome : {"FILLED", "FILL_REJECTED", "DISCARDED"}]

LedgerType == [session : Nat, sig : Nat, entry : Nat, exit : Nat,
               reason : {"TAKE_PROFIT", "STOP_LOSS", "SESSION_END"},
               gross : Int, impact : Int, cost : Int, net : Int]

\* The state has its type, the loop's indices stay inside the streams they
\* index, and only a place that needs a current tick has one.
TypeOK ==
    /\ run \in RunType
    /\ Len(run.sessions) <= MaxSessions
    /\ \A n \in DOMAIN run.sessions : Len(run.sessions[n].ticks) <= MaxTicks
    /\ pc \in {"session", "tick", "signals", "fill", "close", "drain", "done", "failed"}
    /\ s \in 0..Len(run.sessions)
    /\ i \in Nat
    /\ pc \in {"tick", "signals", "fill", "close"} => s > 0 /\ i \in DOMAIN S.ticks
    /\ pc = "drain" => s > 0
    /\ sig \in Nat
    /\ sig # 0 => s > 0 /\ sig \in DOMAIN S.frames
    /\ wasOpen \in BOOLEAN
    /\ selected \in Nat
    /\ position \in [sig : Nat, entry : Nat]
    /\ IsOpen => s > 0 /\ position.entry \in DOMAIN S.ticks
    /\ journal \in Seq(JournalType)
    /\ ledger \in Seq(LedgerType)

\* The journal as a set of records, and the trades of session n.
Journaled == {journal[j] : j \in DOMAIN journal}
Trades == {ledger[t] : t \in DOMAIN ledger}

\* The fill event of frame k: the first tick at or after its availability, or
\* 0 when the session has none.
FillTick(S0, k) ==
    LET after == {j \in DOMAIN S0.ticks : S0.ticks[j].ts >= S0.frames[k].close}
    IN  IF after = {} THEN 0 ELSE CHOOSE j \in after : \A m \in after : j <= m

\* A position was held when tick f of session n arrived.
HeldAt(n, f) ==
    \/ \E t \in Trades : t.session = n /\ t.entry < f /\ f <= t.exit
    \/ IsOpen /\ s = n /\ position.entry < f

\* A frame whose signal may ask for a fill.
Eligible(S0, k) ==
    S0.frames[k].kind = "hit" /\ Executable(S0, k) /\ S0.frames[k].close \in run.window

\* What must become of the signal of frame k of session n, by its own frame,
\* the ticks and the trades alone: no order of events appears here.
DeclaredOutcome(n, k) ==
    LET S0 == run.sessions[n]
        f  == FillTick(S0, k)
    IN  IF ~Executable(S0, k) THEN <<"DISCARDED", "AVAILABLE_AFTER_LAST_ELIGIBLE_TRADE">>
        ELSE IF ~Eligible(S0, k) THEN <<"DISCARDED", "SIGNAL_OUTSIDE_TIME_RANGE">>
        ELSE IF f = 0 THEN <<"DISCARDED", "SIGNAL_WITHOUT_FILL_POSTERIOR">>
        ELSE IF HeldAt(n, f) THEN <<"DISCARDED", "POSITION_ALREADY_OPEN">>
        ELSE IF \E j \in 1..(k - 1) : Eligible(S0, j) /\ FillTick(S0, j) = f
             THEN <<"DISCARDED", "SIGNAL_SUPERSEDED_SAME_FILL_EVENT">>
        ELSE IF S0.ticks[f].ts \notin run.window
             THEN <<"FILL_REJECTED", "FILL_OUTSIDE_TIME_RANGE">>
        ELSE IF f = Len(S0.ticks) THEN <<"FILL_REJECTED", "LAST_TICK_FILL_FORBIDDEN">>
        ELSE <<"FILLED", "NONE">>

\* Every record of the signal journal carries the outcome that the strategy,
\* the ticks and the positions declare for its signal.
OutcomeIsDeclared ==
    \A e \in Journaled : <<e.outcome, e.reason>> = DeclaredOutcome(e.session, e.sig)

\* Session n has been consumed to its end.
Consumed(n) == n < s \/ (n = s /\ pc \in {"session", "done"})

\* A signal is never journalled twice, and a consumed session has a record
\* for each of its signals, whichever of the loop's paths it left by.
EverySignalJournaledOnce ==
    /\ \A a, b \in DOMAIN journal :
          journal[a].session = journal[b].session /\ journal[a].sig = journal[b].sig => a = b
    /\ \A n \in 1..s : Consumed(n) =>
          {e.sig : e \in {x \in Journaled : x.session = n}}
            = {k \in DOMAIN run.sessions[n].frames : run.sessions[n].frames[k].kind = "hit"}

\* Filled signals and trades correspond: each fill is closed once, in its own
\* session, and only the last fill may still be open.
EveryFillIsClosed ==
    /\ {<<e.session, e.sig>> : e \in {x \in Journaled : x.outcome = "FILLED"}}
         = {<<t.session, t.sig>> : t \in Trades}
             \cup (IF IsOpen THEN {<<s, position.sig>>} ELSE {})
    /\ \A a, b \in DOMAIN ledger :
          ledger[a].session = ledger[b].session /\ ledger[a].sig = ledger[b].sig => a = b
    /\ pc \in {"drain", "session", "done"} => ~IsOpen

\* A trade is entered at the fill event of its signal and leaves at the first
\* later tick that touches a level, for that level's reason; it is closed by
\* the session end only when no level was touched up to the last tick.
ExitsAtFirstTouch ==
    \A t \in Trades :
        LET ticks == run.sessions[t.session].ticks
            At(j) == Touched(run, ticks[t.entry].price, ticks[j].price)
        IN  /\ t.entry = FillTick(run.sessions[t.session], t.sig)
            /\ t.entry < t.exit
            /\ \A j \in (t.entry + 1)..(t.exit - 1) : At(j) = "NONE"
            /\ t.reason = IF At(t.exit) = "NONE" THEN "SESSION_END" ELSE At(t.exit)
            /\ t.reason = "SESSION_END" => t.exit = Len(ticks)

\* The frictions are adverse and the exit reason bounds the result: the
\* slippage impact is one slip per side, a stopped trade loses at least the
\* stop distance and all frictions, and a target pays at least its distance
\* less the exit frictions.
ReasonBoundsResult ==
    \A t \in Trades :
        /\ t.impact = 2 * run.slip
        /\ t.net = t.gross - t.impact - t.cost
        /\ t.reason = "STOP_LOSS" => t.net <= -(run.sl + run.slip + 2 * run.cost)
        /\ t.reason = "TAKE_PROFIT" => t.net >= run.tp - run.slip - 2 * run.cost

\* The input is one that the loop must refuse.
Malformed(n) ==
    LET S0 == run.sessions[n]
    IN  \/ n > 1 /\ S0.date <= run.sessions[n - 1].date
        \/ S0.asset # run.asset
        \/ S0.trailing
        \/ \E k \in DOMAIN S0.frames : Refused(S0, k)
        \/ \E j \in DOMAIN S0.ticks : ~S0.ticks[j].ok
        \/ \E j, m \in DOMAIN S0.ticks :
              /\ j < m
              /\ \/ S0.ticks[m].ts < S0.ticks[j].ts
                 \/ S0.ticks[m].ts = S0.ticks[j].ts /\ S0.ticks[m].seq <= S0.ticks[j].seq

\* A price at which the slippage leaves no positive execution price.
Unpriceable(n) ==
    \E j \in DOMAIN run.sessions[n].ticks :
        run.sessions[n].ticks[j].price - run.slip <= 0

\* The lazy checks miss nothing: a summary is returned only for an input
\* without a defect, and an error is raised only for an input with one.
OnlyWellFormedRunsFinish ==
    /\ pc = "done" => \A n \in DOMAIN run.sessions : ~Malformed(n)
    /\ pc = "failed" => \E n \in DOMAIN run.sessions : Malformed(n) \/ Unpriceable(n)

\* Every call returns or raises, as its input deserves.
EndsAsItShould == []OnlyWellFormedRunsFinish /\ <>(pc \in {"done", "failed"})

\* What becomes of signals and positions is what ticks and frames say, on every path
\* out of a session, and what a trade pays is what its exit reason allows.
LedgerFollowsTheTicks ==
    /\ EverySignalJournaledOnce /\ OutcomeIsDeclared
    /\ EveryFillIsClosed /\ ExitsAtFirstTouch /\ ReasonBoundsResult

(***************************************************************************)
(* The position slot and the ledger, seen as the abstract single position. *)
(***************************************************************************)
Moment(n, t) == IF t = 0 THEN [session |-> 0, tick |-> 0] ELSE [session |-> n, tick |-> t]

ClosedMoments ==
    [t \in DOMAIN ledger |-> [entry |-> Moment(ledger[t].session, ledger[t].entry),
                              exit |-> Moment(ledger[t].session, ledger[t].exit)]]

SP == INSTANCE SinglePosition WITH
    Moments <- [session : 1..MaxSessions, tick : 1..MaxTicks],
    open <- Moment(s, position.entry),
    closed <- ClosedMoments

\* The engine implements the abstract single position: no overlap, no re-entry
\* on the tick of an exit, no trade across sessions.
ImplementsSinglePosition == SP!Spec
=============================================================================
