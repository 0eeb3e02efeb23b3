----------------------------- MODULE MCMarketCache -----------------------------
(***************************************************************************)
(* Two files, one of which may be replaced by a revision of its date or by *)
(* a file that is refused.  The rows of a file are in any order.           *)
(***************************************************************************)
EXTENDS MarketCache, TLC

Row(symbol, action, id, date, flaw) ==
    [symbol |-> symbol, action |-> action, id |-> id, date |-> date, flaw |-> flaw]
New(symbol, id, date) == Row(symbol, "NEW", id, date, "none")
Delete(symbol, id, date) == Row(symbol, "DELETE", id, date, "none")

SomeContents ==
    "first" :> <<Delete("A", 2, 1), New("A", 1, 1), New("A", 2, 1), New("B", 1, 1)>> @@
    "second" :> <<New("A", 1, 2), Delete("A", 2, 2)>> @@
    "revised" :> <<New("A", 1, 1), New("A", 2, 1), Delete("A", 2, 1)>> @@
    "emptied" :> <<New("A", 1, 2), Delete("A", 1, 2), New("B", 2, 2)>> @@
    "mixed" :> <<New("A", 1, 1), New("A", 2, 2)>> @@
    "refused" :> <<New("A", 1, 2), Row("B", "NEW", 1, 2, "malformed")>>
AtFirst == <<"first", "second">>

Sma == [name |-> "sma", inputs |-> {}]
\* Two feature sets: the same name for two features, and an average of either.
OfRange == <<[name |-> "range", inputs |-> {}], [name |-> "average", inputs |-> {1}]>>
OfSpread == <<[name |-> "spread", inputs |-> {}], [name |-> "average", inputs |-> {1}]>>

Source(path, contract) == [path |-> path, contract |-> contract]
Ask(sources, timeframes, max, features, specs) ==
    [sources |-> sources, timeframes |-> timeframes, max |-> max, features |-> features,
     specs |-> specs]
Wide == Ask(<<Source(2, "A"), Source(1, "A")>>, <<"1m">>, 2, "set", OfSpread)
Narrow == Ask(<<Source(1, "A"), Source(2, "A")>>, <<"1m">>, 1, "set", OfRange)
Twice == Ask(<<Source(1, "A"), Source(1, "A")>>, <<"1m", "2m">>, 1, "sma", << >>)
Disputed == Ask(<<Source(1, "A"), Source(1, "B")>>, <<"1m">>, 2, "none", << >>)
AllRequests == {Wide, Narrow, Twice, Disputed}

\* Two processes ask for one dataset, or one process for all of them.
CONSTANT Alone
VARIABLE two
Asking == IF two THEN Processes ELSE {Alone}
Asked == IF two THEN {Narrow} ELSE AllRequests
MCInit == Init /\ two \in BOOLEAN
MCNext ==
    \/ \E p \in Processes : Step(p) /\ UNCHANGED two
    \/ \E p \in Asking : (Use(p) \/ \E r \in Asked : Begin(p, r)) /\ UNCHANGED two
    \/ Fault /\ UNCHANGED two
MCSpec == MCInit /\ [][MCNext]_<<vars, two>> /\ Fairness({Narrow})

\* RepeatedCallsSucceed, where two processes ask for one dataset.
RacesAreWonByRepeating == two => RepeatedCallsSucceed({Narrow})
=============================================================================
