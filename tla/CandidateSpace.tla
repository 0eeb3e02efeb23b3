---------------------------- MODULE CandidateSpace ----------------------------
(***************************************************************************)
(* Generation of the candidates of a search space                          *)
(* (packages/mining/src/quantlab_mining/generator.py, preflight, with the  *)
(* templates of templates.py, the identities of canonicalization.py and    *)
(* the search space of contracts.py).                                      *)
(*                                                                         *)
(* A template is an entry atom and confirmations; an atom has a grid of    *)
(* values for each of its parameters, some of them per direction.  Every   *)
(* combination of values is built, rejected, or kept under the identity of *)
(* its canonical form.  Decimals are constants of EntryConditions, written *)
(* with some zeros; the types of values are the parser's business.         *)
(***************************************************************************)
EXTENDS EntryConditions

CONSTANTS
    Spaces,      \* search spaces
    Policy       \* GenerationPolicyV1

VARIABLES
    space,
    phase,       \* "validate", "expand", "done", or why the preflight failed
    total,       \* T, counted before anything is built
    pending,     \* combinations that are still to be built
    rejected,    \* how many for each reason
    duplicates, unique,
    candidates,  \* the identities in the table candidates
    provenance   \* the multiplicity of each origin of each candidate

spaceVars == <<space, phase, total, pending, rejected, duplicates, unique, candidates, provenance>>

(***************************************************************************)
(* Templates.                                                              *)
(***************************************************************************)
\* effective: shared grids and those of the direction.
Effective(atom, direction) ==
    LET shared == atom.grids
        sided == atom.sides[direction]
    IN  [key \in DOMAIN shared \cup DOMAIN sided |->
            IF key \in DOMAIN shared THEN shared[key] ELSE sided[key]]

Mode(grids) == IF "mode" \in DOMAIN grids THEN grids.mode[1] ELSE "NONE"
OneMode(grids) == "mode" \in DOMAIN grids /\ Len(grids.mode) = 1
WithMode == {"vwap_context", "candle_context", "volume", "volatility"}

Limits == {"lower", "upper", "lower_inclusive", "upper_inclusive"}

\* _requirements: the parameters an atom has, and the choices of some.
Requirements(kind, mode) ==
    CASE kind = "trend_close" -> {"average", "period", "operator"}
      [] kind = "trend_pair" -> {"average", "short_period", "long_period", "operator"}
      [] kind = "breakout_previous" -> {"period", "include_current"}
      [] kind = "vwap_context" -> {"mode"} \cup (IF mode = "CLOSE" THEN {"operator"} ELSE Limits)
      [] kind = "momentum" -> {"feature", "period", "threshold"}
      [] kind = "candle_context" ->
            {"mode"} \cup (CASE mode = "DIRECTION" -> {}
                             [] mode = "GEOMETRY" -> {"feature", "threshold"}
                             [] OTHER -> Limits)
      [] kind = "volume" ->
            {"mode"} \cup (CASE mode = "ROLLING" -> {"period", "include_current"}
                             [] mode = "RELATIVE" -> {"period", "include_current", "threshold"}
                             [] OTHER -> {"threshold"})
      [] kind = "volatility" ->
            {"mode", "period"} \cup (CASE mode = "ROLLING_RANGE" -> {"include_current"}
                                       [] mode = "ATR_THRESHOLD" -> {"threshold"}
                                       [] OTHER -> Limits)

ChoicesOf(kind, mode) ==
    CASE kind \in {"trend_close", "trend_pair"} ->
            [average |-> {"sma_close", "ema_close"}, operator |-> {"COMPARE", "CROSS"}]
      [] kind = "vwap_context" -> [mode |-> {"CLOSE", "DISTANCE"}, operator |-> {"COMPARE", "CROSS"}]
      [] kind = "momentum" -> [feature |-> {"point_change", "n_candle_return"}]
      [] kind = "candle_context" -> [mode |-> {"DIRECTION", "GEOMETRY", "CLOSE_POSITION"},
                                     feature |-> {"absolute_body", "candle_range"}]
      [] kind = "volume" -> [mode |-> {"ROLLING", "RELATIVE", "RAW"}]
      [] kind = "volatility" -> [mode |-> {"ROLLING_RANGE", "ATR_THRESHOLD", "ATR_RANGE"}]
      [] kind = "breakout_previous" -> [include_current |-> {FALSE}]

NonNegative(kind, mode) ==
    kind \in {"volume", "volatility"} \/ (kind = "candle_context" /\ mode = "GEOMETRY")

Allowed(kind, mode, key, value) ==
    CASE key \in DOMAIN ChoicesOf(kind, mode) -> value \in ChoicesOf(kind, mode)[key]
      [] key \in {"period", "short_period", "long_period"} ->
            value \in Policy.min_period..Policy.max_period
      [] key \in {"threshold", "lower", "upper"} ->
            NonNegative(kind, mode) => value.value >= 0
      [] OTHER -> TRUE

\* Signed thresholds and ranges are given for each direction, never negated.
Directional(kind, mode) ==
    CASE kind = "momentum" -> {"threshold"}
      [] kind = "vwap_context" /\ mode = "DISTANCE" -> {"lower", "upper"}
      [] kind = "candle_context" /\ mode = "CLOSE_POSITION" -> {"lower", "upper"}
      [] OTHER -> {}

Profiles(family) ==
    CASE family \in {"trend_close", "trend_pair"} ->
            {{"volume"}, {"vwap_context"}, {"volatility"}, {"volume", "vwap_context"},
             {"volume", "volatility"}}
      [] family = "vwap_context" -> {{"volume"}, {"volatility"}}
      [] family = "breakout_previous" -> {{"volume"}, {"volatility"}, {"volume", "volatility"}}
      [] family = "momentum" -> {{"volume"}, {"candle_context"}, {"volume", "candle_context"}}
      [] family = "candle_context" -> {{"volume"}, {"momentum"}}
      [] OTHER -> {}

\* What contracts.py accepts: tuples, and exact decimals where they are asked for.
Decimals == {"threshold", "lower", "upper"}
IsAxis(values) == values \in Seq(ToSet(values))
IsDecimal(v) == v.type = "constant" /\ v.dim = "NUMBER" /\ IsOperand(v)
IsGrids(grids) ==
    /\ IsFiniteSet(DOMAIN grids)
    /\ \A key \in DOMAIN grids : /\ IsAxis(grids[key])
                                 /\ key \in Decimals => \A v \in ToSet(grids[key]) : IsDecimal(v)
IsAtom(atom) == IsGrids(atom.grids) /\ \A d \in {"BUY", "SELL"} : IsGrids(atom.sides[d])
IsEntry(entry) ==
    /\ IsAtom(entry.base) /\ IsAxis(entry.confirmations)
    /\ \A atom \in ToSet(entry.confirmations) : IsAtom(atom)
IsSpace(s) ==
    /\ IsAxis(s.timeframes) /\ IsAxis(s.directions) /\ IsAxis(s.templates) /\ IsAxis(s.stops)
    /\ IsAxis(s.targets) /\ IsAxis(s.windows)
    /\ ToSet(s.directions) \subseteq {"BUY", "SELL"}
    /\ \A v \in ToSet(s.stops) : IsDecimal(v)
    /\ \A v \in ToSet(s.targets) : IsDecimal(v)
    /\ \A entry \in ToSet(s.templates) : IsEntry(entry)

ASSUME SpacesAssumption ==
    /\ \A s \in Spaces : IsSpace(s)
    /\ {Policy.max_conditions, Policy.max_cross_conditions, Policy.max_features,
        Policy.min_period, Policy.max_period} \subseteq Nat

AtomsOf(entry) == <<entry.base>> \o entry.confirmations
Entries(s) == {s.templates[n] : n \in DOMAIN s.templates}
DirectionsOf(s) == {s.directions[n] : n \in DOMAIN s.directions}
Globals(s) == <<s.timeframes, s.stops, s.targets, s.windows>>
\* Templates are expanded for each direction.
Pairs(s) == (DOMAIN s.templates) \X (DOMAIN s.directions)

Lengths(grids) == [key \in DOMAIN grids |-> Len(grids[key])]
Product(f) == FoldFunction(LAMBDA m, n : m * n, 1, f)

AtomValid(atom, direction) ==
    LET grids == Effective(atom, direction)
        mode  == Mode(grids)
    IN  /\ atom.kind \in WithMode => OneMode(grids)
        /\ DOMAIN grids = Requirements(atom.kind, mode)
        /\ Directional(atom.kind, mode) \subseteq DOMAIN atom.sides[direction]
        /\ \A key \in DOMAIN grids :
              /\ Len(grids[key]) <= Policy.max_grid_values
              /\ \A n \in DOMAIN grids[key] : Allowed(atom.kind, mode, key, grids[key][n])

CrossesOf(entry, direction) ==
    {n \in DOMAIN AtomsOf(entry) :
        LET grids == Effective(AtomsOf(entry)[n], direction)
        IN  "operator" \in DOMAIN grids /\ \E k \in DOMAIN grids.operator : grids.operator[k] = "CROSS"}

\* How many grids of an entry offer more than one value.
VariableAxes(s, entry, direction) ==
    Cardinality({g \in DOMAIN Globals(s) : Len(Globals(s)[g]) > 1}) +
    SumFunction([n \in DOMAIN AtomsOf(entry) |->
        LET grids == Effective(AtomsOf(entry)[n], direction)
        IN  Cardinality({key \in DOMAIN grids : Len(grids[key]) > 1})])

EntryValid(s, entry) ==
    LET kinds == {entry.confirmations[n].kind : n \in DOMAIN entry.confirmations}
    IN  /\ Profiles(entry.base.kind) # {}
        /\ entry.confirmations # <<>> =>
              kinds \in Profiles(entry.base.kind) /\ Policy.max_ast_depth >= 2
        /\ Cardinality(kinds) = Len(entry.confirmations)
        /\ 1 + Len(entry.confirmations) <= Policy.max_conditions
        /\ \A d \in DirectionsOf(s) : /\ \A n \in DOMAIN AtomsOf(entry) : AtomValid(AtomsOf(entry)[n], d)
                                 /\ Cardinality(CrossesOf(entry, d)) <= Policy.max_cross_conditions
                                 /\ VariableAxes(s, entry, d) +
                                        (IF Cardinality(DirectionsOf(s)) > 1 THEN 1 ELSE 0)
                                        <= Policy.max_variable_dimensions

\* The number of combinations, from the lengths of the grids alone.
Theoretical(s) ==
    LET axes(atoms, direction) ==
            [n \in DOMAIN atoms |-> Product(Lengths(Effective(atoms[n], direction)))]
    IN  SumFunction([p \in Pairs(s) |-> Product(Lengths(Globals(s))) *
                        Product(axes(AtomsOf(s.templates[p[1]]), s.directions[p[2]]))])

\* semantic_record: search_space_id is the identity of this.
SemanticGrids(grids) ==
    [key \in DOMAIN grids |->
        {IF key \in Decimals THEN Decimal(grids[key][n])
         ELSE grids[key][n] : n \in DOMAIN grids[key]}]

\* Variant: the grids of the directions are forgotten.
SharedGridsOnly(s, atom) == [kind |-> atom.kind, grids |-> SemanticGrids(atom.grids)]

SemanticAtom(s, atom) ==
    [kind |-> atom.kind, grids |-> SemanticGrids(atom.grids),
     sides |-> [d \in DirectionsOf(s) |-> SemanticGrids(atom.sides[d])]]

SemanticRecord(s) ==
    [templates |-> {[base |-> SemanticAtom(s, e.base),
                     confirmations |-> {SemanticAtom(s, e.confirmations[n]) :
                                          n \in DOMAIN e.confirmations}] : e \in Entries(s)},
     timeframes |-> ToSet(s.timeframes), directions |-> DirectionsOf(s), windows |-> ToSet(s.windows),
     stops |-> {Decimal(v) : v \in ToSet(s.stops)},
     targets |-> {Decimal(v) : v \in ToSet(s.targets)}]

(***************************************************************************)
(* StrategyBuilder: the condition of an atom with its parameters.          *)
(***************************************************************************)
Feature(dim, name, parameters) == Named(dim, <<name, parameters>>)
Field(name) == Named(IF name = "volume" THEN "QUANTITY" ELSE "PRICE", <<name, <<>>>>)
In(dim, constant) == [constant EXCEPT !.dim = dim]

\* comparison: buyers look upwards, sellers downwards.
Looking(direction, directional, cross, l, r) ==
    LET above == ~directional \/ direction = "BUY"
    IN  IF cross THEN Cross(IF above THEN "CROSS_ABOVE" ELSE "CROSS_BELOW", l, r)
        ELSE Comparison(IF above THEN "GT" ELSE "LT", l, r)

RangeOf(dim, operand, p) ==
    Within("BETWEEN", operand, In(dim, p.lower), In(dim, p.upper),
           p.lower_inclusive, p.upper_inclusive)

Condition(kind, p, direction) ==
    LET cross == "operator" \in DOMAIN p /\ p.operator = "CROSS"
        rolling == IF "include_current" \in DOMAIN p THEN <<p.period, p.include_current>>
                   ELSE <<p.period>>
        toward(l, r) == Looking(direction, TRUE, cross, l, r)
        over(l, r) == Looking(direction, FALSE, FALSE, l, r)
    IN  CASE kind = "trend_close" ->
                toward(Field("close"), Feature("PRICE", p.average, <<p.period>>))
          [] kind = "trend_pair" ->
                toward(Feature("PRICE", p.average, <<p.short_period>>),
                       Feature("PRICE", p.average, <<p.long_period>>))
          [] kind = "vwap_context" ->
                IF p.mode = "CLOSE"
                THEN toward(Field("close"), Feature("PRICE", "session_trade_vwap", <<>>))
                ELSE RangeOf("PRICE", Feature("PRICE", "distance_to_vwap", <<>>), p)
          [] kind = "breakout_previous" ->
                toward(Field("close"), Feature("PRICE", IF direction = "BUY" THEN "rolling_high"
                                                        ELSE "rolling_low", rolling))
          [] kind = "momentum" ->
                LET dim == IF p.feature = "point_change" THEN "PRICE" ELSE "RATIO"
                IN  toward(Feature(dim, p.feature, <<p.period>>), In(dim, p.threshold))
          [] kind = "candle_context" ->
                (CASE p.mode = "DIRECTION" ->
                        Comparison("EQ", Feature("ENUM", "candle_direction", <<>>),
                                   Const("ENUM", IF direction = "BUY" THEN 1 ELSE -1, 0))
                   [] p.mode = "GEOMETRY" ->
                        over(Feature("PRICE", p.feature, <<>>), In("PRICE", p.threshold))
                   [] OTHER -> RangeOf("RATIO", Feature("RATIO", "close_range_position", <<>>), p))
          [] kind = "volume" ->
                (CASE p.mode = "ROLLING" ->
                        over(Field("volume"), Feature("QUANTITY", "rolling_mean_volume", rolling))
                   [] p.mode = "RELATIVE" ->
                        over(Feature("RATIO", "relative_volume", rolling), In("RATIO", p.threshold))
                   [] OTHER -> over(Field("volume"), In("QUANTITY", p.threshold)))
          [] kind = "volatility" ->
                (CASE p.mode = "ROLLING_RANGE" ->
                        over(Feature("PRICE", "candle_range", <<>>),
                             Feature("PRICE", "rolling_mean_range", rolling))
                   [] p.mode = "ATR_RANGE" ->
                        RangeOf("PRICE", Feature("PRICE", "atr_wilder", <<p.period>>), p)
                   [] OTHER -> over(Feature("PRICE", "atr_wilder", <<p.period>>),
                                    In("PRICE", p.threshold)))

IsField(operand) == operand.name[1] \in {"close", "volume"}

\* The features a condition declares, with those they are computed from.
FeaturesOf(leaf) ==
    LET named == {o \in OperandsOf(leaf) : o.type = "named" /\ ~IsField(o)}
    IN  named \cup (IF \E o \in named : o.name[1] = "distance_to_vwap"
                    THEN {Feature("PRICE", "session_trade_vwap", <<>>)} ELSE {})

(***************************************************************************)
(* Expansion.                                                              *)
(***************************************************************************)
\* The choices of one value per parameter: places in the grids, so that a
\* value listed twice is taken twice.
Selections(sets) ==
    {f \in [DOMAIN sets -> UNION {sets[x] : x \in DOMAIN sets}] : \A x \in DOMAIN sets : f[x] \in sets[x]}

Bindings(atom, direction) ==
    LET grids == Effective(atom, direction) IN Selections([key \in DOMAIN grids |-> DOMAIN grids[key]])

AtomBindings(atoms, direction) == Selections([n \in DOMAIN atoms |-> Bindings(atoms[n], direction)])

CombinationsOf(s, t, d) ==
    [template : {t}, direction : {d},
     parameters : AtomBindings(AtomsOf(s.templates[t]), s.directions[d]),
     timeframe : DOMAIN s.timeframes, stop : DOMAIN s.stops,
     target : DOMAIN s.targets, window : DOMAIN s.windows]
Combinations(s) == UNION {CombinationsOf(s, p[1], p[2]) : p \in Pairs(s)}

\* What a combination is, apart from how its space is written down.
Built(s, c) ==
    LET entry     == s.templates[c.template]
        atoms     == AtomsOf(entry)
        direction == s.directions[c.direction]
        p         == [n \in DOMAIN atoms |->
                        LET grids == Effective(atoms[n], direction)
                        IN  [key \in DOMAIN grids |-> grids[key][c.parameters[n][key]]]]
    IN  [entry |-> entry, direction |-> direction, parameters |-> p,
         conditions |-> [n \in DOMAIN atoms |-> Condition(atoms[n].kind, p[n], direction)],
         timeframe |-> s.timeframes[c.timeframe], stop |-> s.stops[c.stop],
         target |-> s.targets[c.target], window |-> s.windows[c.window]]

\* named_candidate: the identity is of the canonical form, without costs.
Identity(b) ==
    [direction |-> b.direction, timeframe |-> b.timeframe, window |-> b.window,
     stop |-> Decimal(b.stop), target |-> Decimal(b.target),
     conditions |-> {NormalLeaf(b.conditions[n]) : n \in DOMAIN b.conditions}]

Origin(b) == [family |-> b.entry.base.kind, template |-> b.entry.id, parameters |-> b.parameters,
              timeframe |-> b.timeframe, direction |-> b.direction, stop |-> b.stop,
              target |-> b.target, window |-> b.window]

Rejection(b) ==
    IF b.entry.base.kind = "trend_pair" /\ b.parameters[1].short_period >= b.parameters[1].long_period
    THEN "SHORT_PERIOD_NOT_LESS_THAN_LONG"
    ELSE IF Cardinality(UNION {FeaturesOf(b.conditions[n]) : n \in DOMAIN b.conditions}) >
            Policy.max_features
    THEN "MAX_FEATURES"
    ELSE IF Contradiction(Identity(b).conditions) THEN "CONTRADICTION" ELSE "NONE"

Reasons == {"SHORT_PERIOD_NOT_LESS_THAN_LONG", "MAX_FEATURES", "CONTRADICTION"}

Tables ==
    /\ total = 0 /\ pending = {}
    /\ rejected = [r \in Reasons |-> 0] /\ duplicates = 0 /\ unique = 0
    /\ candidates = {} /\ provenance = [x \in {} |-> 0]

SpaceInit == space \in Spaces /\ phase = "validate" /\ Tables

\* validate_search, before anything is built.
Valid(s) ==
    /\ Len(s.templates) <= Policy.max_templates
    /\ \A g \in DOMAIN Globals(s) : Len(Globals(s)[g]) <= Policy.max_grid_values
    /\ Len(s.directions) <= Policy.max_grid_values
    /\ \A entry \in Entries(s) : EntryValid(s, entry)

Validate ==
    /\ phase = "validate"
    /\ IF Valid(space)
       THEN /\ total' = Theoretical(space)
            /\ IF total' > Policy.expansion_limit
               THEN phase' = "expansion limit" /\ UNCHANGED pending
               ELSE phase' = "expand" /\ pending' = Combinations(space)
       ELSE phase' = "invalid" /\ UNCHANGED <<total, pending>>
    /\ UNCHANGED <<space, rejected, duplicates, unique, candidates, provenance>>

\* Periods in the wrong order are rejected before the strategies are built, for
\* all timeframes, stops, targets and windows at once.
SamePair(c) == {d \in Combinations(space) : d.template = c.template /\ d.direction = c.direction /\
                                     d.parameters = c.parameters}

\* Variant: such a pair is counted once.
RejectedOnce(c, reason) == 1

RejectedBy(c, reason) ==
    IF reason = "SHORT_PERIOD_NOT_LESS_THAN_LONG"
    THEN Len(space.timeframes) * Len(space.stops) * Len(space.targets) * Len(space.windows)
    ELSE 1

Reject(c, reason) ==
    /\ reason # "NONE"
    /\ rejected' = [rejected EXCEPT ![reason] = @ + RejectedBy(c, reason)]
    /\ pending' = pending \ (IF reason = "SHORT_PERIOD_NOT_LESS_THAN_LONG" THEN SamePair(c) ELSE {c})
    /\ UNCHANGED <<duplicates, unique, candidates, provenance>>

Times(key) == IF key \in DOMAIN provenance THEN provenance[key] ELSE 0

\* A new identity, or one more origin of a known one.
Keep(c, b) ==
    LET id == Identity(b)
        key == <<id, Origin(b)>>
    IN  /\ IF id \in candidates THEN duplicates' = duplicates + 1 /\ UNCHANGED unique
           ELSE unique' = unique + 1 /\ UNCHANGED duplicates
        /\ candidates' = candidates \cup {id}
        /\ provenance' = [k \in DOMAIN provenance \cup {key} |->
                            Times(k) + IF k = key THEN 1 ELSE 0]
        /\ pending' = pending \ {c}
        /\ UNCHANGED rejected

Expand ==
    /\ phase = "expand" /\ pending # {}
    /\ LET c == CHOOSE c \in pending : TRUE
           b == Built(space, c)
       IN  Reject(c, Rejection(b)) \/ (Rejection(b) = "NONE" /\ Keep(c, b))
    /\ UNCHANGED <<space, phase, total>>

AllRejected == SumFunction(rejected)

\* The counts must add up; only then is the budget asked.
Close ==
    /\ phase = "expand" /\ pending = {}
    /\ phase' = IF total # AllRejected + duplicates + unique THEN "miscounted"
             ELSE IF unique > Policy.candidate_budget THEN "over budget" ELSE "done"
    /\ UNCHANGED <<space, total, pending, rejected, duplicates, unique, candidates, provenance>>

SpaceNext == Validate \/ Expand \/ Close

SpaceSpec == SpaceInit /\ [][SpaceNext]_spaceVars

(***************************************************************************)
(* Properties.                                                             *)
(***************************************************************************)
Finished == phase \in {"done", "over budget"}

\* The state has its type.
SpaceTyped ==
    /\ total \in Nat /\ duplicates \in Nat /\ rejected \in [Reasons -> Nat]
    /\ unique = Cardinality(candidates)
    /\ {key[1] : key \in DOMAIN provenance} = candidates

\* The analytic count of a space is what its expansion finds: T = R + D + U, for
\* grids with repeated values, per direction and with periods in any order.
CountsAddUp ==
    /\ phase # "miscounted"
    /\ phase = "expand" => total = Cardinality(pending) + AllRejected + duplicates + unique

\* Every kept combination is an origin of its candidate, as often as the space
\* names it.
ProvenanceIsComplete ==
    SumFunction(provenance) = duplicates + unique

\* The candidates a space asks for, however it is written.
Generated(s) ==
    LET built == {Built(s, c) : c \in Combinations(s)}
    IN  {Identity(b) : b \in {b \in built : Rejection(b) = "NONE"}}

\* Two valid spaces with one search_space_id generate one set of candidates: what
\* the identity forgets, repeated values, zeros, the names of templates, the order
\* of confirmations and the grids of directions that are not asked for, makes no
\* difference.
SameIdentitySameCandidates ==
    phase = "done" => \A s \in Spaces :
        Valid(s) /\ SemanticRecord(s) = SemanticRecord(space) => Generated(s) = candidates

\* What the policy limits in the grids also holds of the strategies built from
\* them.
PolicyIsKept ==
    \A id \in candidates :
        /\ Cardinality(id.conditions) <= Policy.max_conditions
        /\ Cardinality({c \in id.conditions : c.type = "cross"}) <= Policy.max_cross_conditions
        /\ Cardinality(UNION {FeaturesOf(c) : c \in id.conditions}) <= Policy.max_features

\* The mirror of a condition: the other direction, with the same constants.
Mirrored(c) ==
    IF c.type = "cross" \/ c.operator = "GT" THEN Of(c.type, c.operator, c.right, c.left) ELSE c

Turned(id) ==
    [direction |-> "SELL", timeframe |-> id.timeframe, window |-> id.window, stop |-> id.stop,
     target |-> id.target, conditions |-> {Mirrored(c) : c \in id.conditions}]

\* Buyers and sellers of a trend template with the same grids get mirror images: as
\* many candidates, each the other turned around.
SidesMirror ==
    /\ Finished /\ DirectionsOf(space) = {"BUY", "SELL"}
    /\ \A e \in Entries(space) :
          /\ e.base.kind \in {"trend_close", "trend_pair"} /\ e.confirmations = <<>>
          /\ Effective(e.base, "BUY") = Effective(e.base, "SELL")
    =>
        LET of(direction) == {id \in candidates : id.direction = direction}
        IN  {Turned(id) : id \in of("BUY")} = of("SELL")

\* Every combination of a space is counted once, and is the origin of its candidate.
CandidatesAreCounted == SpaceTyped /\ CountsAddUp /\ ProvenanceIsComplete

\* The candidates of a space are those of its identity and its policy, on both sides.
CandidatesAreOfTheSpace == SameIdentitySameCandidates /\ PolicyIsKept /\ SidesMirror
=============================================================================
