----------------------------- MODULE RobustnessRun -----------------------------
(***************************************************************************)
(* The robustness orchestrator                                             *)
(* (packages/robustness/src/quantlab_robustness/runner.py, run_robustness, *)
(* with cache.py, protocol.py, evaluator.py and the evaluations that       *)
(* engines.py asks for).  A run is a fixed sequence of units, one family   *)
(* for one candidate.  The result of a unit is kept in a result cache      *)
(* under the identity of its inputs; a checkpoint names, for each unit,    *)
(* the input and the result it was completed with.  Evaluations of         *)
(* sessions come from the session cache, used as an EvaluationStore.       *)
(*                                                                         *)
(* Processes that share the caches, the checkpoint and the output may      *)
(* call, stop or die between any two steps.  A record stands for what it   *)
(* was computed from: engines are deterministic.  Every pool is taken as   *)
(* WALK_FORWARD_VALIDATION_UNION, the selector that depends on the plan.   *)
(***************************************************************************)
EXTENDS Integers, FiniteSets, Sequences

CONSTANTS
    CandidateIds,  \* the candidate set, a sequence of strategies
    Strategies,    \* candidates and the variants of the sensitivity policies
    Sessions,      \* the authorized sessions, in chronological order
    Plans,         \* for each Walk-Forward policy [ready, validation]
    Variants,      \* for each sensitivity policy and candidate, its variants
    Stresses,      \* for each stress policy, its valid scenarios, 0 for the baseline
    Requests,      \* arguments that run_robustness may be called with
    StopAfters,    \* values of stop_after explored, 0 for None
    MaxBuilds,     \* max_expected_cse_builds of the workload policy
    Procs,         \* processes
    Damages,       \* what may happen to the files from outside
    MaxFaults,     \* bound on crashes and damages
    None

Candidates == {CandidateIds[i] : i \in DOMAIN CandidateIds}

ASSUME RobustnessAssumption ==
    /\ CandidateIds \in Seq(Strategies) /\ Candidates \subseteq Strategies
    /\ Strategies \subseteq Nat /\ Sessions \subseteq Nat
    /\ IsFiniteSet(Strategies) /\ IsFiniteSet(Sessions)
    /\ \A w \in DOMAIN Plans : Plans[w].ready \in BOOLEAN /\ Plans[w].validation \subseteq Sessions
    /\ \A v \in DOMAIN Variants, c \in Candidates : Variants[v][c] \subseteq Strategies
    /\ \A s \in DOMAIN Stresses : IsFiniteSet(Stresses[s]) /\ Stresses[s] \subseteq Nat \ {0}
    /\ \A r \in Requests :
         /\ r.walk \in DOMAIN Plans /\ r.ninth \in DOMAIN Plans \cup {None}
         /\ r.sensitivity \in DOMAIN Variants /\ r.stress \in DOMAIN Stresses
    /\ StopAfters \subseteq Nat /\ MaxBuilds \in Nat /\ MaxFaults \in Nat
    /\ None \notin Procs \cup Requests
    /\ Damages \subseteq {"CACHE_LOST", "CHECKPOINT_LOST", "ENTRY_ALTERED", "ENTRY_REPLACED"}

VARIABLES
    \* On disk.
    cache,         \* rows of robustness-results.sqlite
    context,       \* the protocol of the checkpoint
    completed,     \* its rows
    built,         \* the session-evaluation cache,
    published,     \* as an EvaluationStore
    output,        \* the exported directory, {} while there is none
    report,        \* the operational record beside it
    \* In memory.
    call,          \* calls that are past their preflight
    runner,        \* the process that holds the locks
    at,            \* where it is
    position,      \* the unit it is at
    todo,          \* evaluations that the builder has still to ask for
    record,        \* result of the unit
    records,       \* results of the units before, *_results
    builds,        \* session_evaluations_built
    faults         \* crashes and damages that have happened, in order

files == <<cache, context, completed, built, published, output, report>>
memory == <<call, runner, at, position, todo, record, records, builds>>
vars == <<files, memory, faults>>

(***************************************************************************)
(* What a request determines.                                              *)
(***************************************************************************)
\* Variant: the stress policy is not part of it either.
ProtocolWithoutStress(r) == [walk |-> r.walk, monte |-> r.monte, sensitivity |-> r.sensitivity]

\* protocol_record; baseline_evaluation and the quantitative policy are not part
\* of it.
Protocol(r) == [walk |-> r.walk, monte |-> r.monte, sensitivity |-> r.sensitivity,
                stress |-> r.stress]

\* checkpoint_protocol_id.
Context(r) ==
    IF r.ninth = None THEN [protocol |-> Protocol(r), ninth |-> None, quantitative |-> None]
    ELSE [protocol |-> Protocol(r), ninth |-> r.ninth, quantitative |-> r.quantitative]

ASSUME ContextAssumption == \A r \in Requests : Context(r) # None

\* _resolve_pool: the Validation sessions of source_pool_walk_plan.
Pool(r) == Plans[IF r.ninth = None THEN r.walk ELSE r.ninth].validation

Unit(kind, c) == [kind |-> kind, cid |-> c]

FamiliesOf(r) ==
    <<"walk-forward">> \o (IF r.ninth = None THEN <<>> ELSE <<"ninth-increment-walk-forward">>)
      \o <<"monte-carlo", "sensitivity", "stress">>

\* Units in the order of the loops: all families of a candidate, then the
\* next; the quantitative evidence of all candidates at the end.
UnitsOf(r) ==
    LET k == Len(FamiliesOf(r))
        n == Len(CandidateIds)
    IN  [i \in 1..(n * k + (IF r.quantitative = None THEN 0 ELSE n)) |->
            IF i <= n * k
            THEN Unit(FamiliesOf(r)[((i - 1) % k) + 1], CandidateIds[((i - 1) \div k) + 1])
            ELSE Unit("quantitative-evidence", CandidateIds[i - n * k])]

\* An evaluation of a session: of a strategy, with a baseline configuration,
\* perhaps stressed.
Evals == [strategy : Strategies, evaluation : {r.evaluation : r \in Requests},
          stress : {0} \cup UNION {Stresses[s] : s \in DOMAIN Stresses}, sid : Sessions]

EvaluationsOf(r, strategies, stresses, sids) ==
    {[strategy |-> s, evaluation |-> r.evaluation, stress |-> x, sid |-> n] :
        s \in strategies, x \in stresses, n \in sids}

Store == INSTANCE EvaluationStore

\* What the engine of a unit evaluates: the baseline, the unique variants, the
\* valid stress scenarios, or all of them for the quantitative evidence.
Evaluated(u, r) ==
    LET c == u.cid
        baseline == EvaluationsOf(r, {c}, {0}, Pool(r))
        variants == EvaluationsOf(r, Variants[r.sensitivity][c], {0}, Pool(r))
        stressed == EvaluationsOf(r, {c}, Stresses[r.stress], Pool(r))
        plan(w)  == IF Plans[w].ready THEN EvaluationsOf(r, {c}, {0}, Sessions) ELSE {}
    IN  CASE u.kind = "walk-forward" -> plan(r.walk)
          [] u.kind = "ninth-increment-walk-forward" -> plan(r.ninth)
          [] u.kind = "monte-carlo" -> baseline
          [] u.kind = "sensitivity" -> baseline \cup variants
          [] u.kind = "stress" -> baseline \cup stressed
          [] u.kind = "quantitative-evidence" -> baseline \cup variants \cup stressed

\* Of the evaluations E the next one: one scenario and strategy after another,
\* the sessions of each in order.
NextOf(E) ==
    CHOOSE e \in E : \A f \in E \ {e} :
        \/ e.stress < f.stress
        \/ e.stress = f.stress /\ e.strategy < f.strategy
        \/ e.stress = f.stress /\ e.strategy = f.strategy /\ e.sid < f.sid

\* The variants of all candidates, each counted for its candidate.
UniqueVariants(r) ==
    Cardinality({cv \in Candidates \X Strategies : cv[2] \in Variants[r.sensitivity][cv[1]]})

\* expected_builds of the workload preflight, for an empty session cache.
ExpectedBuilds(r) ==
    Cardinality(Candidates) * Cardinality(Sessions)
      + UniqueVariants(r) * Cardinality(Pool(r))
      + Cardinality(Candidates) * Cardinality(Stresses[r.stress]) * Cardinality(Pool(r))

\* workload_preflight, of which the number of session evaluations is kept.
WithinWorkload(r) == ExpectedBuilds(r) <= MaxBuilds

\* The results that the evidence of candidate c is built from, with the
\* Walk-Forward of the Ninth Increment in place of the other.
FamilyResults(r, c, S) ==
    {x.result : x \in {y \in S : y.unit.cid = c /\ y.unit.kind \notin
        {"quantitative-evidence",
         IF r.ninth = None THEN "ninth-increment-walk-forward" ELSE "walk-forward"}}}

\* The inputs whose identity is input_id: of the evidence the family results
\* stand for the policies.
Input(u, r, S) ==
    CASE u.kind = "walk-forward" ->
           [unit |-> u, evaluation |-> r.evaluation, policy |-> r.walk]
      [] u.kind = "ninth-increment-walk-forward" ->
           [unit |-> u, evaluation |-> r.evaluation, policy |-> r.ninth]
      [] u.kind = "monte-carlo" ->
           [unit |-> u, evaluation |-> r.evaluation, policy |-> r.monte, pool |-> Pool(r)]
      [] u.kind = "sensitivity" ->
           [unit |-> u, evaluation |-> r.evaluation, policy |-> r.sensitivity, pool |-> Pool(r)]
      [] u.kind = "stress" ->
           [unit |-> u, evaluation |-> r.evaluation, policy |-> r.stress, pool |-> Pool(r)]
      [] u.kind = "quantitative-evidence" ->
           [unit |-> u, evaluation |-> r.evaluation, families |-> FamilyResults(r, u.cid, S),
            pool |-> Pool(r)]

\* The policies that the record of a unit names, with the pool, and of the evidence the
\* records it summarizes.
Named(u, r, S) ==
    CASE u.kind = "walk-forward" -> <<r.walk>>
      [] u.kind = "ninth-increment-walk-forward" -> <<r.ninth>>
      [] u.kind = "monte-carlo" -> <<r.monte, Pool(r)>>
      [] u.kind = "sensitivity" -> <<r.sensitivity, Pool(r)>>
      [] u.kind = "stress" -> <<r.stress, Pool(r)>>
      [] u.kind = "quantitative-evidence" ->
           <<r.sensitivity, r.stress, Pool(r), FamilyResults(r, u.cid, S)>>

\* What the builder of a unit computes from: the evaluations, and what its record names.
Result(u, r, S) ==
    [unit |-> u, used |-> Evaluated(u, r), named |-> Named(u, r, S), release |-> "this"]

(***************************************************************************)
(* A run.                                                                  *)
(***************************************************************************)
Idle == [request |-> None, limit |-> 0]
request == call[runner].request
unit == UnitsOf(request)[position]

Init ==
    /\ cache = {} /\ context = None /\ completed = {}
    /\ Store!Init
    /\ output = {} /\ report = None
    /\ call = [p \in Procs |-> Idle]
    /\ runner = None /\ at = "off" /\ position = 1 /\ todo = {}
    /\ record = None /\ records = {} /\ builds = 0
    /\ faults = <<>>

\* The run ends: its locks are released, nothing of its memory survives.
Stop ==
    /\ call' = [call EXCEPT ![runner] = Idle]
    /\ runner' = None /\ at' = "off" /\ position' = 1 /\ todo' = {}
    /\ record' = None /\ records' = {} /\ builds' = 0

GoTo(p) == at' = p /\ UNCHANGED <<call, runner, position, records, builds>>

\* The call and its preflight: there is no output yet, the pools are not empty,
\* and the workload is within its policy.
Call(p, r, n) ==
    /\ call[p] = Idle
    /\ output = {}
    /\ Pool(r) # {} /\ WithinWorkload(r)
    /\ call' = [call EXCEPT ![p] = [request |-> r, limit |-> n]]
    /\ UNCHANGED <<files, runner, at, position, todo, record, records, builds, faults>>

\* Variant: the checkpoint does not compare its context.
OpenAnyContext(p) ==
    /\ call[p] # Idle /\ p # runner
    /\ \/ /\ runner # None
          /\ call' = [call EXCEPT ![p] = Idle]
          /\ UNCHANGED <<context, runner, at>>
       \/ /\ runner = None
          /\ context' = Context(call[p].request)
          /\ runner' = p
          /\ at' = "unit"
          /\ UNCHANGED call
    /\ UNCHANGED <<cache, completed, built, published, output, report, position, todo, record,
                   records, builds, faults>>

\* The three files are opened, each under a lock that is not waited for.  The
\* checkpoint is bound to its first protocol and refuses another one; after
\* that the session cache may still be in use by another program.
Open(p) ==
    /\ call[p] # Idle /\ p # runner
    /\ \/ /\ runner # None \/ context \notin {None, Context(call[p].request)}
          /\ call' = [call EXCEPT ![p] = Idle]
          /\ UNCHANGED <<context, runner, at>>
       \/ /\ runner = None /\ context \in {None, Context(call[p].request)}
          /\ context' = Context(call[p].request)
          /\ \/ runner' = p /\ at' = "unit" /\ UNCHANGED call
             \/ call' = [call EXCEPT ![p] = Idle] /\ UNCHANGED <<runner, at>>
    /\ UNCHANGED <<cache, completed, built, published, output, report, position, todo, record,
                   records, builds, faults>>

\* The next unit.  The sessions of the Monte Carlo pool are evaluated before
\* the cache is asked, because their fingerprints are part of the input.
NextUnit ==
    /\ at = "unit"
    /\ IF position > Len(UnitsOf(request))
       THEN GoTo("export") /\ UNCHANGED todo
       ELSE IF unit.kind = "monte-carlo"
       THEN GoTo("prepare") /\ todo' = Evaluated(unit, request)
       ELSE GoTo("look") /\ UNCHANGED todo
    /\ UNCHANGED <<files, record, faults>>

\* Committed evaluations of a session that are in no pack yet.
Ready(n) == {e \in built \ published : e.sid = n}

\* evaluator.evaluate for the next session: reuse a published evaluation,
\* publish what is committed, or build.
Evaluate ==
    /\ at \in {"prepare", "build"} /\ todo # {}
    /\ LET e == NextOf(todo)
       IN  \/ /\ e \in published
              /\ todo' = todo \ {e}
              /\ UNCHANGED <<built, published, builds>>
           \/ /\ e \in built \ published
              /\ \E B \in (SUBSET Ready(e.sid)) \ {{}} : published' = published \cup B
              /\ UNCHANGED <<todo, built, builds>>
           \/ /\ e \notin built
              /\ built' = built \cup {e}
              /\ builds' = builds + 1
              /\ UNCHANGED <<todo, published>>
    /\ UNCHANGED <<cache, context, completed, output, report, call, runner, at, position, record,
                   records, faults>>

\* All sessions are evaluated.
Evaluations ==
    /\ at \in {"prepare", "build"} /\ todo = {}
    /\ GoTo(IF at = "prepare" THEN "look" ELSE "put")
    /\ UNCHANGED <<files, todo, record, faults>>

\* result_cache.get: an entry must be canonical and have its fingerprint;
\* without one the builder runs.
Look ==
    /\ at = "look"
    /\ LET found == {x \in cache : x.input = Input(unit, request, records)}
       IN  \/ /\ \E x \in found : ~x.intact
              /\ Stop
           \/ /\ \E x \in found : x.intact /\ record' = x.result
              /\ GoTo("mark") /\ UNCHANGED todo
           \/ /\ found = {}
              /\ todo' = IF unit.kind = "monte-carlo" THEN {}
                         ELSE Evaluated(unit, request)
              /\ GoTo("build") /\ UNCHANGED record
    /\ UNCHANGED <<files, faults>>

\* result_cache.put, a transaction of its own.
Put ==
    /\ at = "put"
    /\ record' = Result(unit, request, records)
    /\ cache' = cache \cup {[input |-> Input(unit, request, records), result |-> record',
                             intact |-> TRUE]}
    /\ GoTo("mark")
    /\ UNCHANGED <<context, completed, built, published, output, report, todo, faults>>

Row == [unit |-> unit, input |-> Input(unit, request, records), result |-> record]

\* Variant: a row is not expected at all.
MismatchOfAnyRow == \E x \in completed : x.unit = unit

\* checkpoint.completed: the row of the unit must name this input and result.
Mismatch == \E x \in completed : x.unit = unit /\ x # Row

\* The unit is marked in another transaction and counted, reused or not.
Mark ==
    /\ at = "mark"
    /\ IF Mismatch
       THEN Stop /\ UNCHANGED completed
       ELSE /\ completed' = IF \E x \in completed : x.unit = unit THEN completed
                            ELSE completed \cup {Row}
            /\ IF call[runner].limit # 0 /\ position >= call[runner].limit
               THEN Stop
               ELSE /\ records' = records \cup {[unit |-> unit, result |-> record]}
                    /\ record' = None
                    /\ position' = position + 1
                    /\ at' = "unit"
                    /\ UNCHANGED <<call, runner, todo, builds>>
    /\ UNCHANGED <<cache, context, built, published, output, report, faults>>

\* Variant: an output that has appeared in the meantime is replaced.
ExportOver ==
    /\ at = "export"
    /\ output' = {[request |-> request, records |-> records]}
    /\ GoTo("report") /\ UNCHANGED <<todo, record>>
    /\ UNCHANGED <<cache, context, completed, built, published, report, faults>>

\* export_robustness: staged and renamed, unless another run has exported since
\* the preflight.
Export ==
    /\ at = "export"
    /\ IF output # {}
       THEN Stop /\ UNCHANGED output
       ELSE /\ output' = {[request |-> request, records |-> records]}
            /\ GoTo("report") /\ UNCHANGED <<todo, record>>
    /\ UNCHANGED <<cache, context, completed, built, published, report, faults>>

\* The operational record, beside the output.
Report ==
    /\ at = "report"
    /\ report' = [request |-> request, builds |-> builds]
    /\ Stop
    /\ UNCHANGED <<cache, context, completed, built, published, output, faults>>

\* The process that holds the locks dies.
Crash ==
    /\ runner # None
    /\ Len(faults) < MaxFaults
    /\ Stop
    /\ faults' = Append(faults, "CRASH")
    /\ UNCHANGED files

\* Between runs a file is lost, or an entry of the result cache is altered or
\* replaced by a well-formed one that another build of the program made.
DamageOf(damages) ==
    /\ runner = None
    /\ Len(faults) < MaxFaults
    /\ \E d \in damages :
         /\ faults' = Append(faults, d)
         /\ \/ /\ d = "CACHE_LOST" /\ cache # {}
               /\ cache' = {} /\ UNCHANGED <<context, completed>>
            \/ /\ d = "CHECKPOINT_LOST" /\ context # None
               /\ context' = None /\ completed' = {} /\ UNCHANGED cache
            \/ /\ d = "ENTRY_ALTERED"
               /\ \E x \in cache : x.intact /\ cache' = (cache \ {x}) \cup {[x EXCEPT !.intact = FALSE]}
               /\ UNCHANGED <<context, completed>>
            \/ /\ d = "ENTRY_REPLACED"
               /\ \E x \in cache :
                    /\ x.result.release = "this"
                    /\ cache' = (cache \ {x}) \cup {[x EXCEPT !.result.release = "other"]}
               /\ UNCHANGED <<context, completed>>
    /\ UNCHANGED <<built, published, output, report, memory>>

Damage == DamageOf(Damages)

Step ==
    /\ runner # None
    /\ NextUnit \/ Evaluate \/ Evaluations \/ Look \/ Put \/ Mark \/ Export \/ Report

Next ==
    \/ \E p \in Procs, r \in Requests, n \in StopAfters : Call(p, r, n)
    \/ \E p \in Procs : Open(p)
    \/ Step
    \/ Crash
    \/ Damage

\* A call is made, and a run goes on, unless it dies.
Spec == Init /\ [][Next]_vars /\ WF_vars(Step) /\ \A p \in Procs : WF_vars(Open(p))

\* Somebody keeps calling with r, without stop_after, and does not for ever find the
\* caches in use.
Resumed(p, r) ==
    /\ SF_vars(Call(p, r, 0))
    /\ SF_vars(Open(p) /\ runner' = p /\ call[p].limit = 0)

(***************************************************************************)
(* What the orchestrator promises.                                         *)
(***************************************************************************)
\* The state has its type.
TypeOK ==
    /\ \A x \in cache : x.intact \in BOOLEAN /\ x.input.unit = x.result.unit
    /\ context \in {Context(r) : r \in Requests} \cup {None}
    /\ built \subseteq Evals /\ published \subseteq built
    /\ \A p \in Procs : call[p] = Idle \/ call[p].request \in Requests
    /\ runner \in Procs \cup {None}
    /\ runner = None <=> at = "off"
    /\ runner # None => call[runner] # Idle /\ position \in 1..(Len(UnitsOf(request)) + 1)
    /\ todo \subseteq Evals
    /\ \A x \in records : \E i \in 1..(position - 1) : x.unit = UnitsOf(request)[i]
    /\ builds \in Nat
    /\ faults \in Seq({"CRASH"} \cup Damages) /\ Len(faults) <= MaxFaults

\* However often it was resumed, and by whom, a checkpoint holds the first
\* units of one request with the inputs of that request, although neither its
\* context nor any single row names the whole request.
CheckpointIsOfOneRun ==
    completed # {} =>
        \E r \in Requests :
            /\ Context(r) = context
            /\ \E k \in DOMAIN UnitsOf(r) : {x.unit : x \in completed} = {UnitsOf(r)[i] : i \in 1..k}
            /\ \A x \in completed :
                 x.input = Input(x.unit, r, {[unit |-> y.unit, result |-> y.result] : y \in completed})

\* What a run without interruptions, over empty caches, exports for r.
CleanRun(r) ==
    LET us == {UnitsOf(r)[i] : i \in DOMAIN UnitsOf(r)}
        evidence == {u \in us : u.kind = "quantitative-evidence"}
        families == {[unit |-> u, result |-> Result(u, r, {})] : u \in us \ evidence}
    IN  families \cup {[unit |-> u, result |-> Result(u, r, families)] : u \in evidence}

Happened(f) == \E i \in DOMAIN faults : faults[i] = f

\* The identity of a result does not depend on a warm cache, another request
\* that filled it, a stop, a crash, a lost file or an altered entry.
ExportsAreReproducible ==
    ~Happened("ENTRY_REPLACED") => \A o \in output : o.records = CleanRun(o.request)

\* Once a unit was reported complete, the export has the result it was
\* completed with, also when the cache has another, well-formed one since.
CheckpointNamesTheExport ==
    ~Happened("CHECKPOINT_LOST") =>
        \A o \in output : \A x \in o.records :
            \E y \in completed : y.unit = x.unit /\ y.result = x.result

\* No run builds more session evaluations than its preflight has announced, and
\* so never more than the workload policy allows.
BuildsAreWithinPolicy ==
    runner # None => builds <= ExpectedBuilds(request) /\ builds <= MaxBuilds

\* Among calls that all saw no output, one exports; the others leave it as it
\* is, and no operational record is of a run that did not export.
OutputIsFinal ==
    [][/\ output # {} => output' = output
       /\ report' # report => \E o \in output : report'.request = o.request]_vars

\* One export: the same as without any interruption, and of what the checkpoint names.
ExportsAreOfTheRun ==
    [](ExportsAreReproducible /\ CheckpointNamesTheExport) /\ OutputIsFinal

\* A checkpoint that has let a run in does not refuse it half-way: a row that is not the
\* run's own is the work of another baseline, which the protocol does not name, from the
\* first row on, or an entry of the result cache was replaced.  Between the transactions
\* that put a result and that mark it, and after the result was lost and made again, the
\* row still has its input and its result.
AdmittedRunsAreNotRefused ==
    at = "mark" /\ Mismatch =>
        \/ Happened("ENTRY_REPLACED")
        \/ \A x \in completed : x.input.evaluation # request.evaluation

\* Of the runs that share a cache and a checkpoint each keeps to its own request and
\* to the work it has announced.
RunsKeepToTheirRequest == TypeOK /\ CheckpointIsOfOneRun /\ BuildsAreWithinPolicy

\* Work that was stopped or has died is resumed to an export, whatever was lost.
ResumesToCompletion == <>(output # {})
=============================================================================
