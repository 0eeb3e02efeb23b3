---------------------------- MODULE SinglePosition ----------------------------
(***************************************************************************)
(* What run_backtest_v3 promises of positions, whatever the strategy, the  *)
(* signals and the prices: one slot, filled and emptied in strict event    *)
(* order inside one session.  BacktestV3 is shown to implement this.       *)
(***************************************************************************)
EXTENDS Integers, Sequences

CONSTANT Moments     \* the tick events of a run: numbers of session and tick, from 1

VARIABLES
    open,    \* the moment at which the open position was entered, or Flat
    closed   \* the closed trades, as [entry, exit] moments, in order

vars == <<open, closed>>

Flat == [session |-> 0, tick |-> 0]

Before(a, b) ==
    \/ a.session < b.session
    \/ a.session = b.session /\ a.tick < b.tick

LastExit == IF closed = <<>> THEN Flat ELSE closed[Len(closed)].exit

Init == open = Flat /\ closed = <<>>

\* A position is entered strictly after the tick that closed the previous one.
Open(m) ==
    /\ open = Flat
    /\ Before(LastExit, m)
    /\ open' = m
    /\ UNCHANGED closed

\* It is closed at a strictly later tick of the session it was entered in.
Close(m) ==
    /\ open # Flat
    /\ m.session = open.session
    /\ Before(open, m)
    /\ open' = Flat
    /\ closed' = Append(closed, [entry |-> open, exit |-> m])

Next == \E m \in Moments : Open(m) \/ Close(m)

Spec == Init /\ [][Next]_vars
=============================================================================
