------------------------------ MODULE ListedTrades ------------------------------
(***************************************************************************)
(* The import of one contract from a B3 file of listed trades              *)
(* (packages/data/src/quantlab_data/adapters/b3_listed_trades.py).         *)
(*                                                                         *)
(* A file is a sequence of rows; what is wrong with a row is its `flaw`.   *)
(* A trade is the number of the row that reported it.                      *)
(***************************************************************************)
EXTENDS Integers, Sequences, FiniteSets

IsSequence(s) == s \in Seq({s[n] : n \in DOMAIN s})

Positions(rows) == DOMAIN rows
Selected(rows, contract) == {n \in Positions(rows) : rows[n].symbol = contract}

\* _parse_row: whoever the row belongs to.
Malformed(row) == row.flaw = "malformed"

\* _scan also refuses a price that the canonical CSV of the selected contract cannot
\* hold; other contracts may have such prices.
Rejected(rows, contract) ==
    {n \in Positions(rows) :
        \/ Malformed(rows[n])
        \/ rows[n].flaw = "non-positive" /\ rows[n].symbol = contract}

EventKey(row) == [date |-> row.date, symbol |-> row.symbol, id |-> row.id]

\* The keys are collected in a first pass, so that a row cancels wherever it is.
Canceled(rows, contract, n) ==
    \E c \in Selected(rows, contract) :
        rows[c].action = "DELETE" /\ EventKey(rows[c]) = EventKey(rows[n])

Status(rows, contract, n) ==
    IF rows[n].action = "DELETE" THEN "DELETE_TOMBSTONE"
    ELSE IF Canceled(rows, contract, n) THEN "CANCELED_NEW" ELSE "INCLUDED"

\* _import_into: one row that is refused refuses the file, whoever it belongs to.
Accepted(rows, contract) == Rejected(rows, contract) = {} /\ Selected(rows, contract) # {}

Included(rows, contract) ==
    {n \in Selected(rows, contract) : Status(rows, contract, n) = "INCLUDED"}

\* Every selected event counts for the trading date, tombstones too.
Dates(rows, contract) == {rows[n].date : n \in Selected(rows, contract)}

\* The trades left in a file do not depend on the order of its rows.
SameTradesInAnyOrder(rows, contract) ==
    \A perm \in {f \in [Positions(rows) -> Positions(rows)] :
                    \A a, b \in Positions(rows) : f[a] = f[b] => a = b} :
        Included(rows, contract) = {perm[n] : n \in Included([n \in Positions(rows) |-> rows[perm[n]]], contract)}
=============================================================================
