------------------------------ MODULE ExactValues ------------------------------
(***************************************************************************)
(* Exact numbers (packages/core/src/quantlab_core/numeric.py,              *)
(* CanonicalRational) and the statistics the robustness engines take of    *)
(* them (packages/robustness/src/quantlab_robustness/exact.py).  A metric  *)
(* is a value with the status DEFINED, or a reason without a value.        *)
(***************************************************************************)
EXTENDS Integers, Sequences, FiniteSets

Magnitude(n) == IF n < 0 THEN -n ELSE n

Gcd[pair \in Nat \X Nat] ==
    IF pair[2] = 0 THEN pair[1] ELSE Gcd[<<pair[2], pair[1] % pair[2]>>]

\* The one representation of the fraction num/den: lowest terms, positive below.
Rational(num, den) ==
    LET gcd  == Gcd[<<Magnitude(num), Magnitude(den)>>]
        sign == IF den < 0 THEN -1 ELSE 1
    IN  [num |-> sign * (num \div gcd), den |-> Magnitude(den) \div gcd]

Whole(n) == [num |-> n, den |-> 1]
Plus(a, b) == Rational(a.num * b.den + b.num * a.den, a.den * b.den)
Minus(a, b) == Rational(a.num * b.den - b.num * a.den, a.den * b.den)
Times(a, b) == Rational(a.num * b.num, a.den * b.den)
Over(a, b) == Rational(a.num * b.den, a.den * b.num)

\* The nearest integer; of two the even one.
RoundHalfEven(a) ==
    LET below == a.num \div a.den
        twice == 2 * (a.num % a.den)
    IN  IF twice > a.den \/ (twice = a.den /\ below % 2 = 1) THEN below + 1 ELSE below

\* compare: the sign of a - b.
Less(a, b) == a.num * b.den < b.num * a.den
Holds(a, operator, b) ==
    CASE operator = "GT" -> Less(b, a)  [] operator = "GTE" -> ~Less(a, b)
      [] operator = "LT" -> Less(a, b)  [] operator = "LTE" -> ~Less(b, a)
      [] operator = "EQ" -> a = b       [] operator = "NE" -> a # b

\* The element at a rank of the sorted values.
AtRank(values, rank) ==
    LET below(v, strict) == Cardinality({n \in DOMAIN values :
            IF strict THEN Less(values[n], v) ELSE ~Less(v, values[n])})
    IN  CHOOSE v \in {values[n] : n \in DOMAIN values} :
            below(v, TRUE) < rank /\ rank <= below(v, FALSE)

\* exact_median: the mean of the two middle values of an even series.
Median(values) ==
    LET middle == Len(values) \div 2
    IN  IF Len(values) % 2 = 1 THEN AtRank(values, middle + 1)
        ELSE Over(Plus(AtRank(values, middle), AtRank(values, middle + 1)), Whole(2))

\* nearest_rank: the least value at or below which lies the share quantile.
NearestRank(values, quantile) ==
    LET rank == (quantile.num * Len(values) + quantile.den - 1) \div quantile.den
    IN  AtRank(values, IF rank < 1 THEN 1 ELSE rank)

Defined(value) == [status |-> "DEFINED", value |-> value, reason |-> "NONE"]
Undefined(reason) == [status |-> "UNDEFINED", value |-> Whole(0), reason |-> reason]
NotApplicable(reason) == [status |-> "NOT_APPLICABLE", value |-> Whole(0), reason |-> reason]
IsDefined(metric) == metric.status = "DEFINED"
=============================================================================
