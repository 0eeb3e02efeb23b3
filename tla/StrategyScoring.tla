---------------------------- MODULE StrategyScoring ----------------------------
(***************************************************************************)
(* Scores and rankings of the candidates of a finished research run        *)
(* (packages/scoring/src/quantlab_scoring): what evidence is accepted      *)
(* (evidence.py), policies (contracts.py, transforms.py), the score of a   *)
(* candidate (engine.py), ranking, diversity and top N (ranking.py), and   *)
(* a call of run_scoring with its cache and export (runner.py, cache.py,   *)
(* export.py).                                                             *)
(*                                                                         *)
(* Candidates are the numbers 1, 2, ... in the order of their ids.  A      *)
(* fingerprint or an id is the record it is taken of.                      *)
(***************************************************************************)
EXTENDS ExactValues, SequencesExt, FiniteSetsExt, SemanticGroups

CONSTANTS
    Callers, None,
    Calls,        \* the calls of run_scoring
    Outputs,      \* the directories they export to
    Scale,        \* units of a point
    MaxFailures   \* interruptions and damaged cache rows

\* Evidence names its candidates in the order of their ids.
ASSUME ScoringAssumption ==
    \A call \in Calls : call.evidence.strategies \in Seq(ToSet(call.evidence.strategies))

VARIABLES
    scored,       \* the rows of the score cache
    exported,     \* what lies at each output
    scoring,      \* what a caller is doing
    failures

scoringVars == <<scored, exported, scoring, failures>>

Zero == Whole(0)
One == Whole(1)

(***************************************************************************)
(* transforms.py.                                                          *)
(***************************************************************************)
Clamp(v, low, high) == IF Less(v, low) THEN low ELSE IF Less(high, v) THEN high ELSE v

Rising(v, t) == Over(Minus(Clamp(v, t.minimum, t.maximum), t.minimum), Minus(t.maximum, t.minimum))
Falling(v, t) == Minus(One, Over(Minus(Clamp(v, t.best, t.worst), t.best), Minus(t.worst, t.best)))

\* Variant: what is worse than failure is not cut off.
Sinking(v, t) ==
    IF ~Less(v, Minus(Zero, t.tolerance)) THEN One
    ELSE Over(Plus(v, t.failure), Minus(t.failure, t.tolerance))

Degradation(v, t) ==
    IF ~Less(v, Minus(Zero, t.tolerance)) THEN One
    ELSE IF ~Less(Minus(Zero, t.failure), v) THEN Zero
    ELSE Over(Plus(v, t.failure), Minus(t.failure, t.tolerance))

Plateau(v, t) ==
    IF ~Less(t.minimum, v) \/ ~Less(v, t.maximum) THEN Zero
    ELSE IF Less(v, t.start) THEN Over(Minus(v, t.minimum), Minus(t.start, t.minimum))
    ELSE IF ~Less(t.end, v) THEN One
    ELSE Over(Minus(t.maximum, v), Minus(t.maximum, t.end))

Normal(v, t) ==
    CASE t.kind = "LINEAR_CLAMP" -> Rising(v, t)
      [] t.kind = "INVERSE_LINEAR_CLAMP" -> Falling(v, t)
      [] t.kind = "DEGRADATION" -> Degradation(v, t)
      [] t.kind = "PLATEAU" -> Plateau(v, t)

(***************************************************************************)
(* contracts.py: a policy is a set of terms and a set of penalties.        *)
(***************************************************************************)
Anchored(t) ==
    CASE t.kind = "LINEAR_CLAMP" -> Less(t.minimum, t.maximum)
      [] t.kind = "INVERSE_LINEAR_CLAMP" -> Less(t.best, t.worst)
      [] t.kind = "DEGRADATION" -> ~Less(t.tolerance, Zero) /\ Less(t.tolerance, t.failure)
      [] t.kind = "PLATEAU" ->
            Less(t.minimum, t.start) /\ ~Less(t.end, t.start) /\ Less(t.end, t.maximum)

Components == {"PERFORMANCE", "RISK", "CONSISTENCY", "STABILITY", "ACTIVITY"}
Maximum == [PERFORMANCE |-> 30, RISK |-> 20, CONSISTENCY |-> 20, STABILITY |-> 20, ACTIVITY |-> 10]
Total(amount) == FoldSet(LAMBDA t, sum : Plus(amount[t], sum), Zero, DOMAIN amount)

OfComponent(policy, c) == {t \in policy.terms : t.component = c}

ValidPolicy(policy) ==
    /\ \A t \in policy.terms \cup policy.penalties : Anchored(t.transform)
    /\ \A t \in policy.terms : ~Less(t.points, Zero)
    /\ \A c \in Components :
           Total([t \in OfComponent(policy, c) |-> t.points]) = Whole(Maximum[c])
    /\ Total([t \in policy.penalties |-> t.points]) = Whole(10)

(***************************************************************************)
(* load_research_evidence.  intact: every artifact has its declared hash   *)
(* and every record its fingerprint.                                       *)
(***************************************************************************)
Candidates(e) == DOMAIN e.strategies

Loaded(e) ==
    /\ e.intact /\ e.final \in {"COMPLETE", "COMPLETE_WITHOUT_VALIDATION"}
    /\ {DOMAIN e.statuses, DOMAIN e.discovery, DOMAIN e.dgates} = {Candidates(e)}
    /\ LET passed == {c \in Candidates(e) : e.statuses[c].discovery = "DISCOVERY_PASSED"}
       IN  /\ {DOMAIN e.validation, DOMAIN e.vgates, DOMAIN e.comparisons} = {passed}
           /\ \A c \in Candidates(e) :
                  /\ (e.dgates[c] = "PASS") = (c \in passed)
                  /\ IF c \in passed
                     THEN (e.vgates[c] = "PASS") = (e.statuses[c].validation = "VALIDATION_PASSED")
                     ELSE e.statuses[c].validation = "VALIDATION_NOT_RUN"

(***************************************************************************)
(* engine.py.                                                              *)
(***************************************************************************)
Missing == Undefined("MISSING_METRIC")
Of(metrics, name) == IF name \in DOMAIN metrics THEN metrics[name] ELSE Missing

\* _source_metric.
Source(term, validation, comparison) ==
    LET total  == Of(validation, "total_sessions")
        losing == Of(validation, "losing_sessions")
    IN  CASE term.source = "VALIDATION" -> Of(validation, term.metric)
          [] term.source = "COMPARISON" -> Of(comparison, term.metric)
          [] term.source = "DERIVED_VALIDATION" ->
                IF total = Missing \/ losing = Missing THEN Missing
                ELSE IF ~IsDefined(total) \/ ~IsDefined(losing) THEN Undefined("SOURCE_METRIC_UNDEFINED")
                ELSE IF total.value.num <= 0 THEN Undefined("TOTAL_SESSIONS_NOT_POSITIVE")
                ELSE Defined(Over(Minus(total.value, losing.value), total.value))

\* _term_record: the points of a term, or why it has none.
Points(term, validation, comparison, stop) ==
    LET source == Source(term, validation, comparison)
        risky  == term.normalization = "DIVIDE_BY_RISK_UNIT"
    IN  IF ~IsDefined(source) THEN source
        ELSE IF risky /\ stop.num <= 0 THEN Undefined("INVALID_RISK_UNIT")
        ELSE Defined(Times(Normal(IF risky THEN Over(source.value, stop) ELSE source.value,
                                  term.transform), term.points))

\* _penalty_record: without a profitable session there is no concentration.
Penalty(term, validation) ==
    LET source == Of(validation, term.metric)
    IN  IF /\ term.metric = "largest_profitable_session_share"
           /\ source = Undefined("NO_PROFITABLE_SESSIONS")
        THEN Defined(Zero)
        ELSE IF ~IsDefined(source) THEN source
        ELSE Defined(Times(Normal(source.value, term.transform), term.points))

\* What of the evidence does not fit together for a candidate.
Inconsistent(e, c, claimed) ==
    {name \in {"DISCOVERY_RESULT", "DISCOVERY_GATE", "VALIDATION_RESULT", "VALIDATION_GATE",
               "COMPARISON"} :
        CASE name = "DISCOVERY_RESULT" -> c \notin DOMAIN e.discovery
          [] name = "DISCOVERY_GATE" ->
                c \notin DOMAIN e.dgates \/ (claimed /\ e.dgates[c] # "PASS")
          [] name = "VALIDATION_RESULT" -> claimed /\ c \notin DOMAIN e.validation
          [] name = "VALIDATION_GATE" -> claimed /\ (c \notin DOMAIN e.vgates \/ e.vgates[c] # "PASS")
          [] name = "COMPARISON" -> claimed /\ c \notin DOMAIN e.comparisons}

Ineligible(status) ==
    (IF status.discovery # "DISCOVERY_PASSED" THEN {"DISCOVERY_GATE_FAILED"} ELSE {}) \cup
    (CASE status.validation = "VALIDATION_NOT_RUN" -> {"VALIDATION_NOT_RUN"}
       [] status.validation = "VALIDATION_PASSED" -> {}
       [] OTHER -> {"VALIDATION_GATE_FAILED"})

\* The metrics that break ties.
TieFields == {"net_pnl_per_session", "max_drawdown", "positive_session_rate"}

Unscored(status, reasons) ==
    [status |-> status, reasons |-> reasons, units |-> None, exact |-> None, ties |-> None,
     totals |-> None]

\* The score of a candidate whose evidence fits: every term is evaluated, whatever
\* the others lack.
Evaluation(e, c, policy) ==
    LET validation == e.validation[c]
        stop   == e.strategies[c].stop
        points == [t \in policy.terms |-> Points(t, validation, e.comparisons[c], stop)]
        lost   == [t \in policy.penalties |-> Penalty(t, validation)]
        trades == Of(validation, "trades")
        reasons ==
            (IF ~IsDefined(trades) THEN {"REQUIRED_METRIC_UNDEFINED"}
             ELSE IF trades.value.num = 0 THEN {"ZERO_TRADES"} ELSE {}) \cup
            (IF stop.num <= 0 THEN {"INVALID_RISK_UNIT"} ELSE {}) \cup
            {points[t].reason : t \in {u \in policy.terms : ~IsDefined(points[u])}} \cup
            {lost[t].reason : t \in {u \in policy.penalties : ~IsDefined(lost[u])}}
        base  == Total([t \in policy.terms |-> points[t].value])
        exact == Clamp(Minus(base, Total([t \in policy.penalties |-> lost[t].value])),
                       Zero, Whole(100))
    IN  IF reasons # {} THEN Unscored("NOT_SCORABLE", reasons)
        ELSE [status |-> "SCORED", reasons |-> {}, exact |-> exact,
              units |-> RoundHalfEven(Times(exact, Whole(Scale))),
              ties |-> [f \in TieFields |-> validation[f].value],
              totals |-> [k \in Components |->
                          Total([t \in OfComponent(policy, k) |-> points[t].value])]]

\* score_candidate, without its identity.
Score(e, c, policy) ==
    LET status  == e.statuses[c]
        claimed == status = [discovery |-> "DISCOVERY_PASSED", validation |-> "VALIDATION_PASSED"]
        broken  == Inconsistent(e, c, claimed)
    IN  IF broken # {} THEN Unscored("NOT_SCORABLE", broken)
        ELSE IF ~claimed THEN Unscored("NOT_ELIGIBLE", Ineligible(status))
        ELSE Evaluation(e, c, policy)

\* strategy_score_id: the policy, what it was applied to, and the outcome.
ScoreId(call, c, score) ==
    [candidate |-> c, of |-> call.evidence, policy |-> call.policy, score |-> score]

(***************************************************************************)
(* ranking.py.                                                             *)
(***************************************************************************)
\* raw_ranking: the candidates that have a score, best first.
Ranked(scores, tiebreakers) ==
    LET key(c, field) == IF field = "units" THEN Whole(scores[c].units)
                         ELSE IF field = "candidate" THEN Whole(c) ELSE scores[c].ties[field]
        wins(a, b, t) == IF t.direction = "DESC" THEN Less(key(b, t.field), key(a, t.field))
                         ELSE Less(key(a, t.field), key(b, t.field))
        before(a, b) == \E n \in DOMAIN tiebreakers :
            /\ wins(a, b, tiebreakers[n])
            /\ \A m \in 1..(n - 1) : key(a, tiebreakers[m].field) = key(b, tiebreakers[m].field)
    IN  SortSeq(SelectSeq([n \in DOMAIN scores |-> n], LAMBDA c : scores[c].status = "SCORED"), before)

\* Variant: the ranking is followed, past the groups that are full.
FirstOfEachGroup(ranking, group, most) ==
    SelectSeq(ranking, LAMBDA c :
        Cardinality({n \in DOMAIN ranking :
            group[ranking[n]] = group[c] /\ \E m \in DOMAIN ranking : ranking[m] = c /\ n < m}) < most)

\* diversify: rounds over the groups in the order of their best candidates.
Diversified(ranking, group, most) ==
    LET leads   == SelectSeq(ranking, LAMBDA c :
                       \A n \in DOMAIN ranking : group[ranking[n]] = group[c] =>
                           \E m \in 1..n : ranking[m] = c)
        queue(c) == SelectSeq(ranking, LAMBDA d : group[d] = group[c])
        round(k) == [g \in DOMAIN leads |-> IF k <= Len(queue(leads[g])) THEN <<queue(leads[g])[k]>>
                                            ELSE << >>]
    IN  FlattenSeq([k \in 1..most |-> FlattenSeq(round(k))])

\* top_n.
Emitted(diversified, top) == SubSeq(diversified, 1, IF top < Len(diversified) THEN top ELSE Len(diversified))

Pressure(scores) ==
    [status \in {"SCORED", "NOT_SCORABLE", "NOT_ELIGIBLE"} |->
        Cardinality({c \in DOMAIN scores : scores[c].status = status})]

(***************************************************************************)
(* run_scoring.                                                            *)
(***************************************************************************)
Manifest(call, scores) ==
    LET group == [c \in DOMAIN scores |-> Group(call.evidence.strategies[c])]
        raw   == Ranked(scores, call.ties)
        wide  == Diversified(raw, group, call.most)
    IN  [of |-> call.evidence, policy |-> call.policy, scores |-> scores, groups |-> group, raw |-> raw,
         diversified |-> wide, emitted |-> Emitted(wide, call.top), pressure |-> Pressure(scores)]

ScoresOf(call) == [c \in Candidates(call.evidence) |-> Score(call.evidence, c, call.policy)]
ManifestOf(call) == Manifest(call, ScoresOf(call))

ScoringInit ==
    /\ scored = {} /\ failures = 0
    /\ exported = [o \in Outputs |-> None]
    /\ scoring = [k \in Callers |-> None]

Stop(k) == scoring' = [scoring EXCEPT ![k] = None]

\* A policy or evidence that is refused changes nothing.
Start(k, call) ==
    /\ scoring[k] = None /\ call.top >= 1
    /\ Loaded(call.evidence) /\ ValidPolicy(call.policy)
    /\ scoring' = [scoring EXCEPT ![k] = [call |-> call, scores |-> << >>, missed |-> FALSE, staged |-> FALSE]]
    /\ UNCHANGED <<scored, exported, failures>>

Scoring(k) == scoring[k] # None
Candidate(k) == Len(scoring[k].scores) + 1
HasCandidate(k) == Scoring(k) /\ Candidate(k) \in Candidates(scoring[k].call.evidence)
Computed(k) == Score(scoring[k].call.evidence, Candidate(k), scoring[k].call.policy)
Row(k) == ScoreId(scoring[k].call, Candidate(k), Computed(k))
Found(id) == {row \in scored : row.id = id}

Keep(k, score) ==
    scoring' = [scoring EXCEPT ![k].scores = Append(@, score), ![k].missed = FALSE]

\* StrategyScoreCache.get, after the score has been computed all the same: a row that
\* does not have its identity ends the call.
Get(k) ==
    /\ HasCandidate(k) /\ ~scoring[k].missed
    /\ IF Found(Row(k)) = {} THEN scoring' = [scoring EXCEPT ![k].missed = TRUE]
       ELSE \E row \in Found(Row(k)) : IF row.damaged THEN Stop(k) ELSE Keep(k, row.score)
    /\ UNCHANGED <<scored, exported, failures>>

\* StrategyScoreCache.put: another caller may have put the row since.
Put(k) ==
    /\ HasCandidate(k) /\ scoring[k].missed
    /\ IF \E row \in Found(Row(k)) : row.damaged \/ row.score # Computed(k)
       THEN Stop(k) /\ UNCHANGED scored
       ELSE /\ scored' = scored \cup {[id |-> Row(k), score |-> Computed(k), damaged |-> FALSE]}
            /\ Keep(k, Computed(k))
    /\ UNCHANGED <<exported, failures>>

\* export_scoring refuses an output that exists, and stages its files.
StageExport(k) ==
    /\ Scoring(k) /\ ~HasCandidate(k) /\ ~scoring[k].staged
    /\ IF exported[scoring[k].call.output] # None THEN Stop(k)
       ELSE scoring' = [scoring EXCEPT ![k].staged = TRUE]
    /\ UNCHANGED <<scored, exported, failures>>

\* Variant: the rename replaces an export that appeared meanwhile.
ExportOver(k) ==
    /\ Scoring(k) /\ scoring[k].staged
    /\ exported' = [exported EXCEPT ![scoring[k].call.output] =
           [call |-> scoring[k].call, manifest |-> Manifest(scoring[k].call, scoring[k].scores)]]
    /\ Stop(k) /\ UNCHANGED <<scored, failures>>

Export(k) ==
    /\ Scoring(k) /\ scoring[k].staged
    /\ IF exported[scoring[k].call.output] # None THEN UNCHANGED exported
       ELSE exported' = [exported EXCEPT ![scoring[k].call.output] =
                [call |-> scoring[k].call, manifest |-> Manifest(scoring[k].call, scoring[k].scores)]]
    /\ Stop(k) /\ UNCHANGED <<scored, failures>>

\* A crash, or the interruption that stop_after asks for.
Interrupt(k) == Scoring(k) /\ Stop(k) /\ UNCHANGED <<scored, exported>>
Corrupt == /\ \E row \in scored : ~row.damaged /\
                  scored' = (scored \ {row}) \cup {[row EXCEPT !.damaged = TRUE]}
           /\ UNCHANGED <<exported, scoring>>
Trouble == failures < MaxFailures /\ failures' = failures + 1
           /\ ((\E k \in Callers : Interrupt(k)) \/ Corrupt)

ScoringStep(k) == Get(k) \/ Put(k) \/ StageExport(k) \/ Export(k)
ScoringNext == (\E k \in Callers : ScoringStep(k) \/ \E call \in Calls : Start(k, call)) \/ Trouble

ScoringSpec == ScoringInit /\ [][ScoringNext]_scoringVars

(***************************************************************************)
(* Properties.                                                             *)
(***************************************************************************)
Exports == {exported[o] : o \in {p \in Outputs : exported[p] # None}}

\* An export is what its call computes, however often it was interrupted and whoever
\* filled the cache, with this policy or another (runner.py, 66-74).
ExportsIgnoreTheCache ==
    \A x \in Exports : x.manifest = ManifestOf(x.call)

\* An export stays what it was, whoever else exports to its directory.
ExportsStay == [][\A o \in Outputs : exported[o] # None => exported'[o] = exported[o]]_scoringVars

\* An export is what its call computes, and stays what it is.
ExportsAreOfTheirCall == []ExportsIgnoreTheCache /\ ExportsStay

\* The transforms that grow with their value, and those that fall.
Grows(t) == t.kind \in {"LINEAR_CLAMP", "DEGRADATION"}
AsGood(t, u, v) == u = v \/ (Grows(t) /\ Less(v, u)) \/ (t.kind = "INVERSE_LINEAR_CLAMP" /\ Less(u, v))

\* a is at least as good as b in everything the policy looks at.
Dominates(call, a, b) ==
    LET e == call.evidence
        scaled(t, c) == Source(t, e.validation[c], e.comparisons[c]).value
        share(t, c)  == LET m == Of(e.validation[c], t.metric) IN IF IsDefined(m) THEN m.value ELSE Zero
    IN  /\ e.strategies[a].stop = e.strategies[b].stop
        /\ \A t \in call.policy.terms : AsGood(t.transform, scaled(t, a), scaled(t, b))
        /\ \A t \in call.policy.penalties : ~Less(share(t, b), share(t, a))

\* A score stays within its bounds and those of its components and is the exact one to
\* half a unit; who is at least as good in everything has no lower score.
ScoresAreMonotone ==
    \A x \in Exports : \A a \in DOMAIN x.manifest.scores :
        LET score == x.manifest.scores[a]
        IN  score.status = "SCORED" =>
                /\ score.units \in 0..(100 * Scale)
                /\ \A k \in Components : /\ ~Less(score.totals[k], Zero)
                                         /\ ~Less(Whole(Maximum[k]), score.totals[k])
                /\ LET error == Minus(Times(score.exact, Whole(2 * Scale)), Whole(2 * score.units))
                   IN  ~Less(One, error) /\ ~Less(error, Whole(-1))
                /\ \A b \in DOMAIN x.manifest.scores :
                       x.manifest.scores[b].status = "SCORED" /\ Dominates(x.call, a, b)
                       => x.manifest.scores[b].units <= score.units

\* Only candidates that were validated and traded are ranked, every other one says
\* why not, and evidence that was accepted never turns out inconsistent later
\* (evidence.py, 234-270; engine.py, 290-320).
OnlyConfirmedAreScored ==
    \A x \in Exports : \A c \in Candidates(x.call.evidence) :
        LET score == x.manifest.scores[c]
            e     == x.call.evidence
        IN  /\ (score.status = "SCORED") = (score.reasons = {})
            /\ (score.status = "SCORED") = (c \in {x.manifest.raw[n] : n \in DOMAIN x.manifest.raw})
            /\ score.status = "SCORED" =>
                   /\ e.dgates[c] = "PASS" /\ c \in DOMAIN e.vgates /\ e.vgates[c] = "PASS"
                   /\ e.validation[c]["trades"].value.num > 0
            /\ score.reasons \cap {"DISCOVERY_RESULT", "DISCOVERY_GATE", "VALIDATION_RESULT",
                                   "VALIDATION_GATE", "COMPARISON"} = {}

\* What is emitted takes the best of each group first, lets no group have two more
\* than another one that has more to offer, and fills as many places as there are.
SelectionIsFair ==
    \A x \in Exports :
        LET m == x.manifest
            chosen == {m.emitted[n] : n \in DOMAIN m.emitted}
            place(c) == CHOOSE n \in DOMAIN m.raw : m.raw[n] = c
            members(g) == {m.raw[n] : n \in {k \in DOMAIN m.raw : m.groups[m.raw[k]] = g}}
            taken(g) == Cardinality(members(g) \cap chosen)
            offers(g) == IF Cardinality(members(g)) < x.call.most THEN Cardinality(members(g))
                         ELSE x.call.most
            groups == {m.groups[c] : c \in {m.raw[n] : n \in DOMAIN m.raw}}
        IN  /\ \A g \in groups : /\ taken(g) <= offers(g)
                                 /\ \A a \in members(g) \cap chosen, b \in members(g) \ chosen :
                                        place(a) < place(b)
            /\ \A g, h \in groups : taken(g) > taken(h) + 1 => taken(h) = offers(h)
            /\ Len(m.emitted) = (LET all == FoldSet(LAMBDA g, n : n + offers(g), 0, groups)
                                 IN  IF all < x.call.top THEN all ELSE x.call.top)
=============================================================================
