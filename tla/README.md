# A formal model of the QuantLab strategy miner

QuantLab mines intraday trading strategies: it imports tick files, builds
candles and features, generates candidate strategies, backtests each of them
exactly (scaled integers, no floating point), separates Discovery from
Validation sessions behind a frozen pass set, scores the survivors and stresses
them. Everything is sequential Python; what makes it hard is that runs are
long, are interrupted and resumed, share content-addressed caches with other
processes, and must nevertheless produce byte-identical results.

This directory models the parts where that can go wrong. Every definition is
translated from the source under `src/`; `PROJECT.json` maps each one to its
lines.

## 1. Inventory

Paths are `src/packages/<package>/src/quantlab_<package>/`.

| component | state it keeps | operations | what is hard | what makes it correct | modelled |
|---|---|---|---|---|---|
| v3 backtest engine (`backtest/engine_v3.py`) | position slot, tick lookahead, signal lookahead, journal and ledger delivered by callback | one event loop over sessions and ticks | order of signal, exit, fill and session end inside one tick; lazily checked input | one position, exits at the first touch, each signal journalled once with the right reason, only well-formed input finishes | yes |
| v3 metrics (`backtest/metrics_v3.py`, `partition_metrics.py`) | accumulators of the partition and of the session | add a trade, open and close a session, finish | one pass must equal a reading of the whole ledger | amounts balance, drawdown and streaks are those of the ledger, ratios are defined | yes |
| timeframe engine (`core/timeframes.py`) | candle under construction | absorb a trade, flush | sparse buckets, partial last candle | frames derived from ticks meet their ticks | yes |
| condition and feature engine (`core/condition_engine_v2.py`, `feature_engine_v2.py`) | previous operands of cross operators, rolling windows | evaluate a frame | memory must be of the previous frame | a cross is a change of sides between consecutive frames | conditions |
| data import and caches (`data/`) | content-addressed directories, a catalog | build aside and rename, validate on reuse, select a window, resolve a session | concurrent builders, files replaced while they are read, crashes | an entry is what its key says, or absent | but the CSV normalizer |
| candidate generation (`mining/generator.py`, `templates.py`, `canonicalization.py`, `contradictions.py`) | table of candidates | enumerate, reject, deduplicate | counting | T = R + D + U; only contradictory conditions are rejected | yes |
| mining batch (`mining/batch.py`, `checkpoint.py`, `export.py`) | SQLite checkpoint under a lock | one transaction per candidate, validate, export | crash and resume | resumed = clean | yes |
| automatic discovery (`mining/auto_discovery.py`) | composite plans, bundles, a checkpoint | resolve, merge, publish | concurrent builders, resume | plan is a function of the request | yes |
| session-evaluation cache (`research/session_cache.py`) | SQLite index, immutable packs, lock | evaluate, load, publish_pending | two stores without a common transaction; several processes | nothing committed is lost or moved; index and packs agree | yes |
| research orchestrator (`research/runner.py`, `access.py`, `freeze.py`) | checkpoint tables, protocol file, freeze directory, access flags | a run of ~15 phases | interruption between any two, tampering, other protocols | the holdout opens after the freeze only; resumed = clean | yes |
| split, gates, comparison, export (`research/`) | none | pure functions, staged export | undefined metrics, boundaries | no gate passes on a metric without a value | but the split |
| robustness orchestrator (`robustness/runner.py`, `cache.py`, `protocol.py`, `evaluator.py`) | result cache and checkpoint | families x candidates, export | two databases without a common transaction; requests that share them | a result is reused only for its input | yes |
| robustness families (`robustness/walk_forward.py`, `sampling.py`, `monte_carlo.py`, `sensitivity.py`, `stress.py`, `assessment.py`, `quantitative.py`, `ranking.py`) | none | folds, samples, perturbations, stress, verdicts, rankings | borders, ties, metrics without a value, invalid scenarios | a verdict in favour has all of the evidence | yes |
| scoring (`scoring/`) | score cache, exports | load evidence, score, rank, diversify | inconsistent evidence, ties, a cache shared by callers | a total, deterministic order of the confirmed | but reports |
| command line, scripts (`src/apps`, `src/scripts`) | none | wiring | - | - | no |
| v1/v2 engines (`backtest/engine.py`, `historical_engine.py`) | position | superseded | - | - | no |

The components meet in four places. The backtest engine is called by the
mining batch and by the session-evaluation cache inside a database transaction,
and its callbacks write into that transaction. The research orchestrator uses
the cache as a store of immutable evaluations and feeds what it loads to the
partition aggregation; the robustness orchestrator uses the same store for what
its families evaluate. The mining checkpoint, the two research databases and the
robustness files are guarded by the same file lock (`mining/checkpoint.py`,
`single_writer`). What is generated from a search space is the input of the plan,
of the batch and, through the plan, of research; scoring starts from an export of
research.

`PROJECT.json` lists the hazards of this code one by one, at their lines, with
the properties that would show each going wrong.

## 2. Plan

Written in this order, the most important behaviour first.

1. `SinglePosition`, `BacktestV3`, `CandleBuilder`, `CandledRuns`, then `MetricsV3` and
   `PartitionMetrics`: what a single result is.
2. `EvaluationStore`, `SessionCache`, and over the store `ResearchRun` and
   `RobustnessRun`: what is kept of results, and who may use them.
3. `MiningBatch`, `PlanPublication`, `MarketCache` with `ListedTrades`: the other
   places where processes share files.
4. `ConditionTrees`, `EntryConditions`, `ConditionEngine`, `CandidateSpace`: which
   strategies there are, and when one enters.
5. `ExactValues`, `ResearchGates`, `WalkForward`, `RobustnessFamilies`,
   `SemanticGroups`, `StrategyScoring`: what is concluded from results.

All of these are written and checked; the modules of points 1 to 4 with a next-state
relation of their own, `WalkForward` and `StrategyScoring` are proved about (section 5). What would come next:
rolling windows of `feature_engine_v2.py` against definitions over the whole series;
the v1/v2 engine against `SinglePosition`; theorems about the verdicts of
`RobustnessFamilies` and the order of a ranking. Parameters are constants with named
assumptions, and no module that is proved about uses a RECURSIVE operator: what the code
does recursively is a function of the places of a tree, of the positions of a sequence,
or a fold.

## 3. Modules

### BacktestV3 (with SinglePosition, CandleBuilder, CandledRuns, MCBacktestV3)

One behaviour is one call of `run_backtest_v3` on one input `run`, chosen in
`Init`. `pc` is the place in the loop: `session` (the `for` over sessions),
`tick` (top of the `while` over ticks), `signals` (the inner `while`), `fill`,
`close` (session end and lookahead shift), `drain` (the second `while`). Each
action is one block of the loop with all its early exits:

| action | code |
|---|---|
| `StartSession` | order and asset checks, both iterators primed (261-276) |
| `OpenTick` | `_scaled_tick`, order check, snapshot `position_was_open` (276-282) |
| `TakeSignal` | one turn of the inner `while`, lookahead refilled first (283-305) |
| `CheckExit` | target and stop of the open position (307-336) |
| `Fill` | window, last tick, entry (338-369) |
| `SessionEnd`, `Advance` | 371-386 |
| `Drain`, `EndSession` | the signals left over (388-399) |
| `Finish` | the summary |

Any of them may `Raise`; what was delivered by callback stays in `journal` and
`ledger`. `following_raw` is the next element of the tick sequence, so the tick
lookahead is the index `i`; the signal lookahead is `sig`. Data is abstracted to
what is compared: instants, prices and distances are integers (the engine works
in scaled integers), the condition verdict of a frame is given, metadata checks
are flags. The generator `_signals` is a function of the frame it is resumed
after (`NextSignal`, `PullFails`), including the frames it refuses lazily.

`SinglePosition` is what the engine promises of positions. `CandleBuilder` is
`build_timeframe_candles`, the body of its loop applied trade by trade. `CandledRuns`
says which sessions have the frames of their own ticks (`Candled`); some inputs of the
run `backtest` (`DerivedRuns`) are such, others have frames that disagree with their
ticks.

### MetricsV3, PartitionMetrics (with MCPartitionMetrics)

`AddTrade` and `Ratios` are `MetricsAccumulatorV3.add` and `to_record`.
`PartitionMetrics` is `aggregate_partition`: sessions and ledger records come
from iterators, so `PartitionNext` offers any of them, including wrong ones.
`history` is the ledger read so far, kept to state what the one-pass accumulators
mean; `Finish` derives the session-level values from what each session earned and
traded (`Nets`, `Profits`, `Trades`).
The journal of a session is only counted by the code and is left out; a wrong
journal record fails like a wrong ledger record (`matches`).

### EvaluationStore, SessionCache (with MCSessionCache)

The index is `stored` (committed rows) and `pack` (the locator column), packs on
disk are `packs`; a pack is named by the hash of its bytes and is therefore the
set of evaluations in it. Processes go through `closed`, `idle` and the steps of
a call: `load`, `build`, `select`, `write`, `index`. One transaction is one
step; the pack file and the transaction that names it are two. `Crash` takes a
process out of any place, `Spoil` damages a pack from outside (as the tests do).
An exception leaves the cache as `close()` does, because every caller closes it
in a `finally`.

`EvaluationStore` is the same cache seen by its clients: committed, then
published, for ever.

### ResearchRun (with MCResearchRun)

`run_research` from the lock of the checkpoint to the export, one action per
transaction or per rename; `_stage` is the cycle `session` - `evaluate` -
`reference` - `publish` - `aggregate` - `gate`, used for both stages. Durable
state is the checkpoint tables, the protocol file, the freeze directory, the
cache (an `EvaluationStore`) and the exports; all else is lost by `Crash`, by a
controlled interruption and by an exception. Results are deterministic, so a
result is what it was computed from and the verdicts of each protocol are fixed
in advance (`passes`). `past` records the pass sets ever published and the
candidates whose Validation data was accessed.

### RobustnessRun (with MCRobustnessRun)

`run_robustness` from the preflight to the operational record. A run is a fixed
sequence of units, one family for one candidate (`position`). On disk are the
result cache (`cache`), the checkpoint (`context`, `completed`), the session
evaluations (`built`, `published`: an `EvaluationStore`), `output` and `report`; in
memory the unit, the evaluations its engine has still to ask for (`todo`) and the
counter of builds.

| action | code |
|---|---|
| `Call` | preflight: output, protocol, workload (runner) |
| `Open` | lock, checkpoint context, cache |
| `Look` | the unit's record in the result cache, against what the checkpoint names |
| `Evaluate`, `Evaluations` | sessions the engine asks for, built or loaded, and the family result |
| `Put`, `Mark` | the transaction of the cache, then that of the checkpoint |
| `Export`, `Report` | staged directory renamed, then the operational record |
| `Stop`, `Crash`, `Damage` | `stop_after`, power loss, files lost, entries altered or of another build |

`faults` is the sequence of what happened from outside, so that a property can say
what it depends on (`Happened`): an export is that of a clean run unless an entry of
another build was put into the cache, and it agrees with the checkpoint unless that was
lost.

### ExactValues, ResearchGates, WalkForward (with MCEvaluation)

`ExactValues` is exact arithmetic on fractions, values with a status, and ranks.
`ResearchGates` is the metrics of a partition, the comparison of two and
`apply_gate`. `WalkForward` is `build_walk_forward_plan` fold by fold (`Refuse`,
`PlaceFold`, `ClosePlan`), the evaluation of the folds (`EvaluateFold`) and
`summarize_walk_forward` (`Summarize`).

### RobustnessFamilies (with MCFamilies)

The other families for one candidate, in the order of the engines: the pool
(`OpenPool`), one attempt of the sampler per step (`Draw`, with rejection of the
digests that would favour some positions), `MonteCarlo`, `Sensitivity`, `Stress`,
the technical verdict (`Assess`), the quantitative one (`AssessQuantities`) and the
rankings of those who qualified (`Rank`). A strategy is four numbers and its
ledger in a session a function of them and of the slippage (`Gross`), so that a
perturbation changes trades. The digest of an attempt is any integer of `Bits`
bits. The Walk-Forward result is given.

### MiningBatch (with MCMiningBatch)

`run_batch`, one action per transaction: `Call` and `Lock`, the preflight's tables
(`ClearPlan`, `CommitPlan`), `OpenCheckpoint`, `ValidatePrevious`, per candidate
`PersistRow` (rows of the audit written inside the transaction) and
`CommitCandidate`, then `Stage` and `Publish`. `MaterialiseFails` and `EngineFails`
are exceptions of what is called, `Stop` the controlled interruption; `OtherBatch`
is a batch on another database that writes the same output, `Damage` a lost file,
an altered metric, a missing or an orphaned audit row. `damaged` remembers the candidates
whose rows were touched; of all others the audit is claimed to be whole.

### ConditionTrees, EntryConditions, ConditionEngine, CandidateSpace (with MCConditionEngine, MCCandidateSpace, MCDiscovery)

`ConditionTrees` is a condition tree as a function from places to nodes; the place of
a node, the numbers of the children on the way to it, is the path under which the
evaluator knows it (`_visit` with its `path`). `EntryConditions` is the canonical form
of a tree and the proofs of contradiction. `ConditionEngine` is the evaluator frame by
frame, with the memory of its crosses by place; it evaluates a strategy and its
canonical form side by side, each with a memory of its own.
`CandidateSpace` is the preflight: `Validate` with the analytic count, one `Expand`
per combination (rejected, duplicate or new), `Close` with the final counts.

### PlanPublication (with MCPlanPublication)

`resolve_request` and the publication of a bundle: `Begin` reads the checkpoint,
`MarkResolved` writes it, `LookUp` and `Reuse` find a plan in the cache, `Rename`
publishes one that was built aside, `Bundle` and `RenameBundle` do the same for the
bundle, `MarkPublished` ends. `Crash` and damage to plans or bundles happen between
any two of them. What a side generates is a sequence of entries with the way each
is written, since two spellings of one space share an identity. The plan of a request
is the union of the plans of its sides (`Subplans`, `UnionOf`), and an entry is rejected
for what it is (`RejectionAssumption`).

### ListedTrades, MarketCache (with MCMarketCache)

`ListedTrades` is the import of one contract from a file: which rows are refused,
how a cancellation takes a trade out. `MarketCache` is the four layers over it,
each entry a directory with a key and what was made: `Begin`, `Look` (validate and
reuse, or build), `ReadSource` (the file as it is at that moment), `Rename`,
`SelectWindow`, `Finish`, and for catalogs `Select`, `Resolve` and `Return`.
`Replace` puts another content at a path. The jobs of a call are those of its nested
loops (`Nested`); sessions are put in order by counting those before each (`Sorted`).

### SemanticGroups, StrategyScoring (with MCScoring)

`SemanticGroups` is the structure of a strategy without its numbers, that of its
condition over the places of the same tree (`ConditionTrees`).
`StrategyScoring` is the acceptance of evidence (`Loaded`), policies and
transforms, `Score`, `Ranked`, `Diversified`, `Emitted`, and `run_scoring` as
actions: `Start`, per candidate `Get` or `Put`, `StageExport`, `Export`; `Trouble`
is an interruption or a damaged row.

### MCEvaluation, MCDiscovery

`MCEvaluation` composes folds, families and scores; `MCDiscovery` composes
conditions and spaces. Each of their behaviours is of one part, chosen at the
beginning (`part`).

## 4. Runs

| run | question | bounds |
|---|---|---|
| `backtest` | does every journal record carry the outcome declared by signal, ticks and trades alone, is every trade left at the first touch, do results keep to their reasons (`LedgerFollowsTheTicks`); do signals of derived frames meet their fill (`DerivedSignalsMeetTheirFill`); is there one position (`ImplementsSinglePosition`); does the loop end, and with a failure exactly for the inputs that have a defect (`EndsAsItShould`)? | two sessions of at most 4 ticks, all hit patterns, ties, both directions; free frames, frames derived from the ticks, and every defect in the second session |
| `partition_metrics` | do the accumulators balance and mean the ledger? | 3 dates, 4 trades, 5 kinds of results |
| `session_cache` | index and packs, crashes, two processes, damage, refinement of the store; does every call return? | 3 evaluations of 2 sessions, packs of 2, 2 processes |
| `research_run` | holdout, growth of the checkpoint, reproducible exports, does a resumed run find its work (`ResumptionFindsItsWork`), completion, under interruption, crash, damage, other protocols | 2 candidates, 2 + 1 sessions, 2 protocols, `stop_after` 0 or 3, 2 faults |
| `research_powerloss` | the claim of the documents about power loss (violated) | 2 candidates, 1 + 1 sessions, 1 fault |
| `robustness_run` | requests that share files, with stops, crashes, losses, entries of another build: context, workload, export, is a run that was let in ever refused (`AdmittedRunsAreNotRefused`), completion | 2 candidates and a variant, 3 sessions, `stop_after` 0 or 3, 14 builds, 2 faults, 2 processes |
| `mining_batch` | commits of the request, the audit of every undamaged candidate whole, reproducible export, completion | 3 spaces, 2 configurations, budget 2, `stop_after` 0 or 1, 2 faults, 2 processes |
| `evaluation` | folds and their summary; verdicts; scores, selection, exports | up to 6 sessions; 43 asks over 3 sessions, digests of 2 bits, one retry; 2 callers, 2 outputs, 1 failure |
| `discovery` | cross memory, canonical form, contradictions, counting and content of spaces | 3 frames; all pairs of 19 comparisons and ranges; spaces of all six families |
| `plan_publication` | plans and bundles under two builders, crashes, damage | 2 processes and one space in two spellings, or 1 process and 10 requests; 1 fault |
| `plan_cache` | the claim of the documents that a cache leaves no trace in what is published (violated) | no fault |
| `market_cache` | identities, windows, selection, immutability, races | 2 files of 6 contents, 2 timeframes, 4 requests, 1 fault, 2 processes |

Some runs hold several scenarios, chosen in `Init` and never changed: `scene` in
`mining_batch` and `robustness_run`, `watched` in `research_run`, `two` in
`plan_publication` and `market_cache`, `part` in `evaluation` and `discovery`. A
scenario only narrows what may happen (which requests, which processes, which
faults), so every behaviour of a run is one of its module. Completion is claimed
in the scenario that has one request; with several requests on the same files the
first one rightly excludes the others.

Why the bounds are enough. In the engine every decision looks at one tick, its
neighbour, the slot and the head of the signal queue; four ticks allow an entry, a
tick in between, an exit and a signal on each of them, and two sessions show
everything that crosses their border. A losing run, a drawdown from an earlier
peak and a breakeven between losses need at most four trades. In the cache three
evaluations in packs of two give a full pack, a partial pack and a pack left by a
crash whose rows are packed differently later; more processes add nothing since
only one passes the lock. In research two candidates are the least for a pass set
that is neither empty nor everything, two Discovery sessions the least for a stop
between sessions. In robustness the variant of one candidate is the other, so an
evaluation is wanted twice, and 14 builds are what most
requests need; the one with two stress scenarios needs 18 and is refused. In mining two spaces share a candidate and the
third exceeds the budget; a candidate has two, no or one audit row, so a
transaction can be cut in the middle. Six sessions hold two folds with a gap and a
tail. Digests of two bits over a pool of three give the rejected value. Three
frames are a cross, a frame that forgets and a cross again. Two spellings of a
space are what tells its identity from its text. One file replaced once is what tells a key taken before from one taken after.

Every name that bounds something: `MaxSessions`, `MaxTicks` (inputs of the
engine), `MaxTrades` (trades explored), `PackCandidates` (64 in the code),
`StopAfters` (values of `stop_after`), `MaxFaults`, `MaxFailures` (crashes and
damages), `MaxBuilds` (workload policy), `Budget` (candidates of a batch), `Bits`
(256 in the code), `MaxRetries`, `MaxScale` (decimals of a price), `MaxPeriod`,
`MaxFrames`, `Scale` (decimals of a score).

Deadlock is checked for the session cache and for research, where some process can
always start a call; elsewhere the system ends (engine, aggregation, folds,
families, spaces), or has nothing left to do once its outputs exist and its faults
are spent.

### Fairness

- `BacktestV3`: weak fairness of the loop - a sequential program takes its next
  step.
- `SessionCache`: weak fairness of serving a call, not of making one.
- `ResearchRun`, `RobustnessRun`, `MiningBatch`, `PlanPublication`, `MarketCache`:
  weak fairness of the step of a call that is under way. Completion needs
  something more that the code cannot give and an operator does: calls without
  `stop_after` are made again and again (strong fairness of the call, since it is
  possible only while nobody else is in it), and such a call does not for ever
  find the lock taken (strong fairness of opening). Nothing is assumed of other
  requests, of faults or of stops; faults are finite.

### What the runs show

Two runs fail, and each is a divergence between the code and a document.

`research_powerloss`: `docs/architecture/tenth-increment-phase4a-real-b3-precommitment.md:94-95`
("A power loss resumes the same checkpoint"). `_install_composite_plan` opens the
checkpoint with `sqlite3.connect`, which creates the file, and then copies the
plan into it; a power loss between the two leaves a file without tables. The
next run sees that the checkpoint exists, reads its tables, fails and reports a
corrupt checkpoint, and so does every later run until somebody removes the
file. `ResumesToCompletion` of `ResearchRun` names this as its one exception
besides a damaged freeze.

`plan_cache`: `docs/architecture/tenth-increment-auto-discovery-v1.md:47-48` (cache,
checkpoints and retries are no part of the contracts and enter no fingerprint). The
identity of a resolved space forgets how its values were written, and the manifest
counts them as written. A plan found in the cache brings the counts of whoever
built it, so the manifest of a bundle, and with it `bundle_id`, depends on which
spelling of the space came first. The candidates are the same, which
`plan_publication` shows (`BundlesAreSound`).

`DerivedSignalsMeetTheirFill` shows that two of the journal's reasons
(`SIGNAL_SUPERSEDED_SAME_FILL_EVENT`, `SIGNAL_WITHOUT_FILL_POSTERIOR`) never
occur in a session whose candles are built from its own ticks; the same run exercises
them with frames that disagree with the ticks.

`VerdictsAreEarned` claims that stress improves no number only where costs rise and
the slippage stays: slippage moves the fill and with it stop and target, a loss may
then be stopped earlier, and a stressed result may be better than its baseline.
This case occurs in the run.

## 5. Proofs

Eight modules are checked by TLAPS, each for every value of the constants that its
assumptions allow: any number of sessions, candidates, processes, requests and faults.
Each machine has its inductive invariant, checked by TLC before it was proved, and
the theorems follow from it. The bounds of section 4 bound nothing here.

| module | theorem | property of a run |
|---|---|---|
| `BacktestV3Proofs` | `TypeCorrect` | `TypeOK` |
| | `LedgerIsDeclared` (with `ResultsBounded`) | `LedgerFollowsTheTicks` |
| | `EngineImplementsSinglePosition` | `ImplementsSinglePosition` |
| | `SignalsMeetTheirFill` | `DerivedSignalsMeetTheirFill` |
| | `RefusalsAreExact` | the safety half of `EndsAsItShould` |
| `EvaluationProofs` | `MetricsBalance` | `AccumulatorsBalance` |
| | `RecordIsOfTheLedgers` | `RecordMeansTheLedgers` |
| | `PlansAreSound` | `PlanIsSound` |
| | `FoldsSummarised` (with `EveryFoldCounts`) | `SummaryIsOfAllFolds` |
| | `ExportsOfTheirCall` | `ExportsAreOfTheirCall` |
| | `IndexAndPacksAgree`, `ResultsAreForEver`, `CacheImplementsStore` and others | those of `session_cache`, but liveness |
| `ResearchRunProofs` | `HoldoutSafe` | `HoldoutIsGuarded` |
| | `ResumptionSound` | `ResumedWorkIsTheSame` |
| | `ResumptionFinds` | `ResumptionFindsItsWork` |
| `RobustnessRunProofs` | `RunsKeep` | `RunsKeepToTheirRequest` |
| | `ExportsOfTheRun` (with `ReproducibleExports`, `ExportsAreNamed`, `OutputStays`) | `ExportsAreOfTheRun` |
| | `AdmittedRunsGoOn` | `AdmittedRunsAreNotRefused` |
| `MiningBatchProofs` | `CommitsSound` | `CommitsAreSound` |
| | `ExportsOfTheRun` (with `OutputStays`) | `ExportsAreOfTheRun` |
| `DiscoveryProofs` | `CrossesReadAdjacent` | `CrossesReadAdjacentFrames` |
| | `CanonicalFormStandsForTheStrategy` | `CanonicalFormIsTheStrategy` |
| | `CandidatesAddUp` | `CandidatesAreCounted` |
| | `CandidatesAreTheSpaces` | `CandidatesAreOfTheSpace` |
| | `BundlesSound` | `BundlesAreSound` |
| | `PlansStay` | `PlansAreImmutable` |
| `MarketCacheProofs` | `OneMeaning` | `DatasetsHaveOneMeaning` |
| | `EntriesAreForEver` | `EntriesStay` |
| `FoldLemmas` | lemmas only | - |

### The engine

- `TypeCorrect`: `TypeOK` is inductive once the lookahead of the generator is known to
  stay inside the frames (`NextSignalForward`).
- `ResultsBounded`: a step adds at most one trade to the ledger, the open position
  closed at the current tick for the level it touches there (`LedgerStep`); such a
  trade meets the bounds by integer arithmetic (`ClosedTradeBounded`).
- `EngineImplementsSinglePosition` needs `PositionInv`: where the slot may be occupied
  (`SlotInv`), that the position was entered at an earlier tick unless it was entered
  by this very tick (`EntryInv`), and that the last trade was closed before the current
  tick or, if at this tick, that the snapshot `wasOpen` still forbids another entry
  (`OrderInv`). The snapshot is what makes re-entry on the tick of an exit impossible,
  and it is the part of the invariant one would not guess.
- `LedgerIsDeclared` compares what the loop delivers with a declaration over the whole
  input that knows no loop. The invariant, `EngineInv`, says how far each stream was
  read and without a defect (`InputInv`), that the signal lookahead is ahead of
  the ticks that are settled (`QueueInv`), that the selected signal is the first
  eligible one whose fill is now (`SelectInv`), that the journal is the signals taken
  but for the one that waits (`JournalInv`), that the snapshot is the position held at
  the beginning of the tick (`HeldInv`), that the ledger is the trades of the fills so
  far (`TradesInv`) and the open position the last of them (`OpenInv`); `DeliveredInv`
  says what remains of this after an error. The lemmas that carry it: `FillTickAt` and
  `SlotMoves` (what a tick does to the slot), `PullReads` and `Rising` (the generator
  reads frames in order), `HeldStable` (whether the slot is held at a tick that was
  reached never changes later), `DeliveryIsDeclared`.
- `SignalsMeetTheirFill`: buckets that differ do not overlap (`BucketsApart`), so while
  candles are built each one covers a trade and opens when those before it have closed
  (`Underway`, by induction over the trades; `CandlesFollow`). Hence between the closes
  of two frames lies a tick, and their fill events differ (`FramesHaveTheirFill`); that
  the journal gives the two reasons only to signals without a fill event of their own
  is `LedgerIsDeclared`.
- `RefusalsAreExact`: a call that returns has read an input without a defect, one that
  raises an input with one. That it does return or raise is liveness.

### Metrics, folds and scores

`EvaluationProofs` extends `PartitionMetrics`, `WalkForward`, `StrategyScoring` and
`SessionCache`, four machines that share no state.

- `MetricsBalance`: `MetricsType` and `Balanced` together are inductive; balance
  alone is not, because a drawdown is bounded by the losses only with the bounds
  between equity, peak and drawdown carried along.
- `RecordIsOfTheLedgers`: the reference reads the whole ledger again for each number,
  with sums over its trades, a maximum over pairs of trades for the drawdown and over
  stretches of losses for the streak; the code keeps three running values. The
  inductive invariant, `PartitionInv`, says of both accumulators that they have read
  their trades (`HasRead`): every amount is its sum, `equity` is the sum of all, `peak`
  the highest equity so far or zero, the current streak the longest stretch of losses
  that ends here. One more trade keeps this (`TradeRead`): only pairs and stretches
  that end with it are new. The session numbers in the history never fall
  (`SessionsInOrder`), so the ledger of a session is a stretch of the history (`SliceIs`);
  the closed sessions and the open one add up to the whole (`RowsAddUp`), and the
  drawdown of the history so far is at most the drawdowns of its sessions, since a fall
  across a border is a fall in each (`DrawdownsAddUp`). The shares of the record are
  fractions because a greatest value is at most the sum of non-negative ones.
- `PlansAreSound`: the invariant, `PlanInv`, says that the n-th fold starts n - 1 steps
  in and ends inside the sessions (`FoldsInv`), and what a closed plan reports of the
  folds (`ClosedPlan`). From it, `FoldLies` gives the place and size of every part of a
  fold; `NothingAhead` puts the gap between the dates of tuning and those of validation;
  `FoldsEnd` shows that the tail lies behind every fold, since a later start is a step
  further (`StepsGrow`), and is too short for another; `PlacesCounted` and
  `PlacesCovered` count the validated sessions with and without repetition, by a
  bijection and a surjection, so that no overlap is reported exactly when no two folds
  share a session.
- `EveryFoldCounts`: what is recorded of a fold is what its gates say of its own sessions
  (`EvaluatedInv`), and a completed record is of all folds, of which there is at least
  one (`RecordInv`); without the latter a stage without a gate would look like one whose
  gate every fold has.
- `FoldsSummarised`: the other half, that the reported values bound those of the folds.
  The invariant (`ValuesInv`) says that a result holds the metrics of its own validation
  and a completed record their medians and extremes. The rest is about exact numbers.
  Euclid's algorithm is a recursion that ends (`GcdRecurs`) and combines both numbers
  (`GcdIs`), so what `Rational` returns is in lowest terms and equal fractions are the
  same value (`ReducedIs`, `LowestIsOne`); then among finitely many values every rank has
  one value and only one (`RankExists`, `RankUnique`), a rank of the values turned round
  is the opposite rank turned round (`RankTurned`), and the mean of the two middle values
  lies between them (`MeanBetween`). Hence at most half of the folds lie on either side of
  the median (`MedianHalves`), and it is the same from above and from below
  (`MedianTurned`): a median that took a lower or upper middle would not be. That the
  metrics of a fold are in lowest terms at all follows from the type of the accumulator
  after any ledger (`AccumulatedTyped`, `AggregateExact`).
- `ExportsOfTheirCall`: a row of the score cache is found under an identity that contains
  the score, so a row that is served, whoever put it and under whatever policy, is the
  score just computed (`RowIsOfItsScore`); the scores of a call are therefore those of
  its first candidates (`ScoresSoFar`), and a call that has staged has them all. That an
  export stays is the check at the rename, repeated after the one at the staging.

### The session-evaluation cache

- `TypeCorrect`, `OneWriterAlways`, `IndexAgreesWithPacks`, `PacksAreCommitted`,
  `ResultsAreForEver`, `DamageIsNotServed`, `CacheImplementsStore`
  all follow from one inductive invariant, `CacheInv`. That index and packs agree is
  not inductive: giving a batch its pack could take a row from another pack.
  `LockInv` makes the process inside the cache unique, and with it `WorkInv`
  shows that the rows it selected stay stored and without a pack until it indexes
  them itself, wherever earlier processes died. `CallInv` says which evaluation a
  call is about; `VerifiedInv` that what was damaged before the opening is never
  in `verified_packs`, and needs that this set starts empty at every opening.
  `IndexStep` sums up what a step can do to the index: nothing, one new row, or
  one pack for rows that had none; immutability and the refinement follow from it.
  `IndexAndPacksAgree` puts two of these together as the property that
  `session_cache` checks.

### Induction and folds

`FoldLemmas` has no machine. The induction theorems of the library take an operator
for the property, which the provers cannot instantiate; here induction is stated for a
set, the set of those that have the property: a set of naturals that holds zero and
every successor is all of them (`NatSetInduction`), a non-empty set of naturals has a
least element, a set of subsets closed under adding an element has every finite set.
With it, a function that is defined recursively along a finite set exists and is
unique, hence what a fold of the community modules computes does not depend on the
order in which `CHOOSE` takes the elements; likewise along the positions of a sequence
(`PositionsExist`, `PositionsTyped`). Sums and products over finite sets get
their lemmas from this: adding an element, splitting, comparing, counting a union.

### Conditions and spaces

`DiscoveryProofs` extends `ConditionEngine`, `CandidateSpace` and `PlanPublication`, with
their variables apart.

- `CrossesReadAdjacent`: the invariant, `EvaluatorInv`, says that until a frame raises
  each memory is that of the last frame: for every cross the pair of its operands there,
  or nothing if one was undefined. A step writes the memory of every cross before
  anything is said, so a sibling that is false does not make a cross forget.
- `CanonicalFormStandsForTheStrategy`: the canonical form of a conjunction has one leaf
  per normal leaf of the strategy (`LeavesOf`, `NormalizeIs`); a normal leaf resolves to the same
  values, since only trailing zeros of decimals go (`NormalResolves`), and says the same
  of them when it is turned round (`NormalSays`), with the memory turned round too. So
  both trees say the same of every frame, and a leaf normal form is its own. That a
  rejected strategy never enters (`ContradictionsNeverHold`) goes through the proofs of
  contradiction one by one: two leaves about one operand admit no value together.
- `CandidatesAddUp`: the invariant, `SpaceInv`, says that the combinations that are not
  pending are counted once each as rejected, duplicate or new (`ExpansionCounted`), and
  that the multiplicities in `provenance` add up to the duplicates and the new ones
  (`TablesCounted`). The analytic count, a sum of products of grid lengths, is the
  number of combinations by counting sets of functions. A short pair of periods is
  rejected with all combinations that share it, so what the code counts by a product
  without expanding is what an expansion would have counted.
- `CandidatesAreTheSpaces`: a candidate is determined by its combination up to the
  zeros of its decimals, and the invariant says that the candidates are those kept of
  the combinations expanded; two spaces with one `search_space_id` have the same grids up to order, repetition
  and zeros (`SameGrids`), so each combination of one has a twin in the other with the
  same candidate and the same verdict (`SameMeaning`). The candidate a seller's
  combination generates is the buyer's turned round (`SideTurned`), and the limits of
  the policy on grids hold of every strategy built from them (`BuiltWithinPolicy`).

### The orchestrators

- `ResearchRunProofs`: `initialize` binds the checkpoint to one protocol
  (`BindingInv`), so every gate that was ever recorded is a verdict of that protocol
  (`CheckpointInv`). The loop over the candidates reaches the pass set only when all of
  them have a gate (`ProgressInv`), so every run computes the same pass set, and only
  an intact freeze of that set releases the holdout (`FreezeInv`, `PlaceInv`). Growth
  and reproducible exports follow step by step. `ResumptionFindsItsWork`: the loops
  of a stage go over all sessions and candidates again in every run, so what they have
  passed is referenced and published whatever earlier runs did (`LoopInv`), references
  follow commits, and results follow a whole stage (`WorkInv`). Evaluations are never
  removed from the cache: that another program deletes it is not modelled here.
- `RobustnessRunProofs`: a run goes over its units in order and passes one only when
  its row in the checkpoint is its own (`RowsInv`); so when it adds a row, all the rows
  there are its own, whoever wrote them. An evaluation is built when it is in no
  file, and only if the preflight has announced it (`RunInv`), hence the builds are
  within the announced workload. For exports, a second invariant (`CleanInv`): the
  identity under which a result is kept determines the result, that of the evidence
  because the results it is made of name their policies. For refusals
  (`AdmittedRunsAreNotRefused`), rows are of the context of the checkpoint and, while
  no entry was replaced, of the value their input determines (`RowsAreClean`); two
  requests with one context and one baseline have the same inputs, hence the same rows
  (`ContextDeterminesRow`).
- `MiningBatchProofs`: only the holder of the lock adds rows and it has opened the
  checkpoint under its own context (`CallInv`); the rows in its transaction are the
  beginning of the audit of the first candidate without a result (`WorkInv`), the
  tables are keyed and of the context (`TableInv`). Damage alters rows but no digest
  with them, and a digest determines the whole audit, so a validation that finds
  every digest right has found what was committed.
- `DiscoveryProofs`, plans: an identity of a space forgets how its values are written
  but determines its candidates, so a plan found in the cache, whoever planned it, has
  the candidates of the request (`CacheInv`); directories appear once, so the plan
  a bundle was made of stays the plan of its space (`BundleInv`); a checkpoint speaks
  only of bundles that were there (`CheckpointInv`).

### Market data

- `MarketCacheProofs`: below the imports a key holds everything its artifact is made
  of (`Says`, `SaysOneThing`), so whoever published an entry made what anybody else
  would have made. An import is the one entry that may disagree with its key, when
  the file was replaced between hash and reading; the invariant allows this, and the
  session made of it is named by what was read. That a session job is never reached
  without an import is `ImportsFirst`; that the sessions of a call have distinct dates,
  `Prepared`. Windows: the ranks of sessions of distinct dates are taken once each, by
  counting (`RanksAreTaken`), so a window is sorted and has the latest dates
  (`WindowFacts`), and a suffix of a suffix is a suffix (`LatestOfLatest`), which is
  why a selection from a catalog has the identity of a dataset that was built.
  `OrderIsIrrelevant`: trades included do not depend on the order of the rows,
  since a permutation of a finite set is onto.

### Assumptions

They are the named ASSUMEs of the modules, evaluated by TLC on the instances.

| assumption | says | why the code justifies it |
|---|---|---|
| `RunsAssumption` | an input of the engine has its type, with positive distances and non-negative frictions | `StrategyDefinitionV3` and the models validate it |
| `DurationsAssumption` | durations of candles are positive | `SUPPORTED_TIMEFRAMES` |
| `PartitionAssumption`, `CacheAssumption` | types; evaluations in the order of their sessions; packs not empty | sorted keys of the plan, a constant |
| `ResearchAssumption` | candidates and sessions are finite and not empty, the stages share no session, verdicts are those of a protocol | plan and split validate it; results are deterministic |
| `RobustnessAssumption`, `MiningAssumption` | types; candidates, sessions and audits are finite; requests name plans and spaces that exist | the preflights load them |
| `ContentsAssumption`, `RequestsAssumption` | files are sequences of rows with dates, requests lists of sources, windows have at least one session | `build_historical_dataset` refuses others |
| `WalkForwardAssumption` | universes are sequences; sizes and steps are positive, a gap may be empty; ledgers are sequences of trades with non-negative frictions | `WalkForwardPolicyV1` validates it; slippage and costs are validated non-negative |
| `ConditionsAssumption` | conditions are trees whose leaves read operands of one list; the values of frames are integers and the undefined value is none | the models of `strategy_v3.py` validate it; frames hold scaled integers |
| `SpacesAssumption` | the axes of a space are sequences, thresholds and bounds exact decimals, directions BUY or SELL; the numbers of the policy are naturals | `mining/contracts.py` refuses others |
| `ScoringAssumption` | evidence lists its candidates in a sequence | `evidence.py` sorts them by their ids |
| `RejectionAssumption` | whether a candidate of a family is rejected depends on the candidate | the proofs of contradiction read the candidate only |
| `ContextAssumption`, `NoneAssumption`, `None` not in `Procs`, `Requests`, `Protocols` | the value for nothing is no value of something | `None` of the code |

### Left to TLC

- Everything about time, which the prover does not reach: that the engine ends
  (`EndsAsItShould`), `CallsReturn`, `ResumedRunsComplete`, `PatienceIsRewarded`,
  `OneSpaceIsPublished`, `RacesAreWonByRepeating`.
- `ScoresAreEarned` and `SelectionIsDiverse`: order and rounding of fractions over
  whole policies, and the sorting, selecting and flattening of the community modules,
  which take an operator as a parameter. By `ExportsOfTheirCall` they are about what a
  call computes, not about how it got there.
- `VerdictsAreEarned`: sums and quantiles of whole sequences of paths and variants,
  checked on every request within the bounds.

## 6. Not modelled

- Parsing, parquet, JSON and decimal texts, hashing (an identity is what it was
  computed from), the wording of artifacts, operational reports and progress
  callbacks, the command line, scripts and examples: no property of the system is
  about them.
- The v1/v2 engines, strategies and conversions: superseded, and nothing of the
  later stages calls them.
- Feature series and indicators: arithmetic on prices; the engine and the
  conditions are given what they would yield.
- The split of research: a partition of sorted dates by given numbers.
- The CSV normalizer and the demo dataset of `data/`. In `MarketCache` a rename
  onto an entry that another process has published meanwhile fails the call
  (`os.replace` onto a directory that is not empty), as in the code; damage happens
  between calls only, and the memo of verified files inside one `resolve_session`
  is left out.
- In `RobustnessFamilies` the perturbations that leave the strategy schema and the
  diagnostics; Walk-Forward results are given there and modelled in `WalkForward`.
- In `StrategyScoring` complexity metadata, the distribution of scores and the
  formats of artifacts.
- Damage to SQLite files themselves: `quick_check` and the fingerprints refuse
  them. Rows that were altered or lost are modelled.
