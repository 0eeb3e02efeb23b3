------------------------------ MODULE ResearchRun ------------------------------
(***************************************************************************)
(* The Discovery/Validation orchestrator                                   *)
(* (packages/research/src/quantlab_research/runner.py, run_research, with  *)
(* access.py and freeze.py): evaluate every candidate on the Discovery     *)
(* sessions, gate them, freeze the pass set on disk, and only then open    *)
(* the holdout, for the candidates of the pass set.                        *)
(*                                                                         *)
(* A run may be interrupted, or die, between any two steps; the next run   *)
(* starts over on what the checkpoint, the freeze directory and the        *)
(* evaluation cache still hold.  The freeze may be lost or altered from    *)
(* outside.  The cache is used through the abstract EvaluationStore.       *)
(*                                                                         *)
(* A result is what it was computed from: backtests, aggregates and gates  *)
(* are deterministic, so the verdicts of a protocol are fixed in advance.  *)
(***************************************************************************)
EXTENDS Integers, FiniteSets

CONSTANTS
    Candidates,    \* candidates of the plan, in the order of their ids
    Discovery,     \* sessions of the two partitions,
    Validation,    \* in chronological order
    Protocols,     \* protocols that a user may start a run with
    Verdicts,      \* for each, the candidates that pass each gate
    StopAfters,    \* values of stop_after explored, 0 for None
    MaxFaults,     \* bound on crashes and damages to the freeze
    None

Stages == {"DISCOVERY", "VALIDATION"}

ASSUME ResearchAssumption ==
    /\ Candidates \subseteq Nat \ {0} /\ Candidates # {}
    /\ Discovery \subseteq Nat \ {0} /\ Discovery # {}
    /\ Validation \subseteq Nat \ {0} /\ Validation # {}
    /\ Discovery \cap Validation = {}
    /\ IsFiniteSet(Candidates) /\ IsFiniteSet(Discovery \cup Validation)
    /\ Verdicts \subseteq [Protocols -> [Stages -> SUBSET Candidates]]
    /\ StopAfters \subseteq Nat /\ MaxFaults \in Nat
    /\ None \notin Protocols

VARIABLES
    passes,         \* the gate verdicts, in Verdicts
    composite,      \* the candidates come from a composite plan
    \* On disk.
    plan,           \* tables of the checkpoint: "absent", "empty" or "installed"
    meta,           \* research_meta
    protocolFile,   \* research-protocol.json
    refs,           \* research_refs
    results,        \* research_results
    gates,          \* research_gates
    comparisons,    \* research_comparisons
    freeze,         \* the discovery-freeze directory
    built,          \* the session-evaluation cache,
    published,      \* as an EvaluationStore
    outputs,        \* exported experiments
    \* In the memory of the run.
    at,             \* where it is; "off" when there is no run
    protocol,       \* protocol it was started with
    limit,          \* stop_after, 0 for None
    stopStage,      \* stop_stage
    stage,          \* arguments and loop variables of _stage
    session,
    cand,
    completed,
    approved,       \* ResearchAccess.approved and
    released,       \* .released
    \* What happened.
    outcome,        \* how the last run ended
    faults,         \* crashes and damages so far
    frozenSets,     \* pass sets ever published
    holdout         \* candidates for which Validation data was accessed

durable == <<plan, meta, protocolFile, refs, results, gates, comparisons, freeze,
             built, published, outputs>>
memory == <<at, protocol, limit, stopStage, stage, session, cand, completed, approved, released>>
past == <<outcome, faults, frozenSets, holdout>>
vars == <<passes, composite, durable, memory, past>>

SessionsOf(st) == IF st = "DISCOVERY" THEN Discovery ELSE Validation
Ids(st) == IF st = "DISCOVERY" THEN Candidates ELSE approved
Eval(c, n) == [cid |-> c, sid |-> n]
Evals == [cid : Candidates, sid : Discovery \cup Validation]

Store == INSTANCE EvaluationStore

Absent == [state |-> "absent", ids |-> {}]
NoGate == [c \in Candidates |-> "NONE"]

Init ==
    /\ passes \in Verdicts
    /\ composite \in BOOLEAN
    /\ plan = "absent"
    /\ meta = None /\ protocolFile = None
    /\ refs = {} /\ results = {} /\ comparisons = {}
    /\ gates = [st \in Stages |-> NoGate]
    /\ freeze = Absent
    /\ Store!Init
    /\ outputs = {}
    /\ at = "off" /\ protocol = None
    /\ limit = 0 /\ stopStage = "VALIDATION"
    /\ stage = "DISCOVERY" /\ session = 0 /\ cand = 0 /\ completed = 0
    /\ approved = {} /\ released = FALSE
    /\ outcome = "NONE" /\ faults = 0
    /\ frozenSets = {} /\ holdout = {}

\* The run ends; nothing of its memory survives.
Stop(how) ==
    /\ at' = "off" /\ protocol' = None
    /\ limit' = 0 /\ stopStage' = "VALIDATION"
    /\ stage' = "DISCOVERY" /\ session' = 0 /\ cand' = 0 /\ completed' = 0
    /\ approved' = {} /\ released' = FALSE
    /\ outcome' = how
    /\ UNCHANGED <<passes, composite, faults, frozenSets, holdout>>

\* The run goes on at place p, and of its memory only at changes.
GoTo(p) ==
    /\ at' = p
    /\ UNCHANGED <<passes, composite, protocol, limit, stopStage, stage, session, cand,
                   completed, approved, released, past>>

\* A call of run_research; the checkpoint lock admits one run at a time.
Start(pr, n, st) ==
    /\ at = "off"
    /\ at' = "plan"
    /\ protocol' = pr /\ limit' = n /\ stopStage' = st
    /\ UNCHANGED <<passes, composite, durable, stage, session, cand, completed, approved,
                   released, past>>

\* preflight regenerates the candidates of a search space.  A composite plan
\* is cloned into a new checkpoint: connect creates the file, the backup
\* fills it.  A file without the tables is refused.
Plan ==
    /\ at = "plan"
    /\ \/ /\ ~composite
          /\ plan' = "installed"
          /\ GoTo("cache")
       \/ /\ composite /\ plan = "absent"
          /\ plan' = "empty"
          /\ GoTo("backup")
       \/ /\ composite /\ plan = "installed"
          /\ GoTo("cache")
          /\ UNCHANGED plan
       \/ /\ composite /\ plan = "empty"
          /\ Stop("CORRUPT_CHECKPOINT")
          /\ UNCHANGED plan
    /\ UNCHANGED <<meta, protocolFile, refs, results, gates, comparisons, freeze, built,
                   published, outputs>>

Backup ==
    /\ at = "backup"
    /\ plan' = "installed"
    /\ GoTo("cache")
    /\ UNCHANGED <<meta, protocolFile, refs, results, gates, comparisons, freeze, built,
                   published, outputs>>

\* SessionEvaluationCache: another process may hold its lock.
OpenCache ==
    /\ at = "cache"
    /\ \/ GoTo("initialize")
       \/ Stop("CACHE_BUSY")
    /\ UNCHANGED durable

\* Variant: the checkpoint takes over the protocol of the run.
InitializeRebinds ==
    /\ at = "initialize"
    /\ meta' = protocol
    /\ GoTo("protocol")
    /\ UNCHANGED <<plan, protocolFile, refs, results, gates, comparisons, freeze, built,
                   published, outputs>>

\* initialize: the checkpoint is bound to the protocol of its first run.
Initialize ==
    /\ at = "initialize"
    /\ IF meta \in {None, protocol}
       THEN meta' = protocol /\ GoTo("protocol")
       ELSE Stop("CONTEXT_MISMATCH") /\ UNCHANGED meta
    /\ UNCHANGED <<plan, protocolFile, refs, results, gates, comparisons, freeze, built,
                   published, outputs>>

\* Variant: a protocol file that is already there is an error.
WriteProtocolOnce ==
    /\ at = "protocol"
    /\ IF protocolFile = None
       THEN protocolFile' = protocol /\ GoTo("freeze")
       ELSE Stop("CONTEXT_MISMATCH") /\ UNCHANGED protocolFile
    /\ UNCHANGED <<plan, meta, refs, results, gates, comparisons, freeze, built, published,
                   outputs>>

\* research-protocol.json, written aside and renamed.
WriteProtocol ==
    /\ at = "protocol"
    /\ IF protocolFile \in {None, protocol}
       THEN protocolFile' = protocol /\ GoTo("freeze")
       ELSE Stop("CONTEXT_MISMATCH") /\ UNCHANGED protocolFile
    /\ UNCHANGED <<plan, meta, refs, results, gates, comparisons, freeze, built, published,
                   outputs>>

Least(S) == CHOOSE x \in S : \A y \in S : x <= y

\* Variant: a resumed stage goes on with the first session that has no reference.
EnterStageResumed(st, ids) ==
    LET untouched == {n \in SessionsOf(st) : ~\E r \in refs : r.stage = st /\ r.sid = n}
    IN  /\ stage' = st
        /\ completed' = 0
        /\ cand' = 0
        /\ IF ids = {}
           THEN at' = "compare" /\ session' = 0
           ELSE /\ at' = "session"
                /\ session' = Least(IF untouched = {} THEN SessionsOf(st) ELSE untouched)

\* _stage is entered: without candidates it returns at once.
EnterStage(st, ids) ==
    /\ stage' = st
    /\ completed' = 0
    /\ cand' = 0
    /\ IF ids = {}
       THEN at' = "compare" /\ session' = 0
       ELSE at' = "session" /\ session' = Least(SessionsOf(st))

\* A freeze on disk must be valid; without one there may be no reference to
\* a Validation session.
CheckFreeze ==
    /\ at = "freeze"
    /\ IF freeze.state = "altered" THEN Stop("INVALID_FREEZE")
       ELSE IF freeze.state = "absent" /\ \E r \in refs : r.stage = "VALIDATION"
       THEN Stop("MISSING_FREEZE")
       ELSE /\ EnterStage("DISCOVERY", Candidates)
            /\ UNCHANGED <<passes, composite, protocol, limit, stopStage, approved, released, past>>
    /\ UNCHANGED durable

\* ResearchAccess.check for a session of this stage and a candidate, or None.
Granted(c) ==
    stage = "DISCOVERY" \/ (released /\ approved # {} /\ (c = None \/ c \in approved))

Accessed(c) ==
    holdout' = IF stage = "VALIDATION" THEN holdout \cup {c} ELSE holdout

\* Ticks, candles and features of the session are resolved for all candidates.
ResolveSession ==
    /\ at = "session"
    /\ IF ~Granted(None) THEN Stop("ACCESS_DENIED")
       ELSE /\ Accessed(None)
            /\ cand' = Least(Ids(stage))
            /\ at' = "evaluate"
            /\ UNCHANGED <<passes, composite, protocol, limit, stopStage, stage, session,
                           completed, approved, released, outcome, faults, frozenSets>>
    /\ UNCHANGED durable

\* Evaluations of session n that are committed and not yet in a pack.
Ready(n) == {e \in built \ published : e.sid = n}

\* A pack of evaluations of session n is published.
PublishPack(n) == \E B \in SUBSET Ready(n) : Store!Publish(B)

\* cache.evaluate: reuse a published result, publish a committed one first,
\* or commit a new one.
Evaluate ==
    LET e == Eval(cand, session)
    IN  /\ at = "evaluate"
        /\ IF ~Granted(cand) THEN Stop("ACCESS_DENIED") /\ UNCHANGED <<built, published>>
           ELSE /\ Accessed(cand)
                /\ \/ e \in published /\ at' = "reference" /\ UNCHANGED <<built, published>>
                   \/ e \in built \ published /\ PublishPack(session) /\ UNCHANGED at
                   \/ Store!Build(e) /\ at' = "reference"
                /\ UNCHANGED <<passes, composite, protocol, limit, stopStage, stage, session,
                               cand, completed, approved, released, outcome, faults, frozenSets>>
        /\ UNCHANGED <<plan, meta, protocolFile, refs, results, gates, comparisons, freeze,
                       outputs>>

\* The candidates of S that the loop has still to visit.
Later(S) == {c \in S : c > cand}

\* The transaction that refers to the evaluation; the stop comes after it.
Reference ==
    /\ at = "reference"
    /\ refs' = refs \cup {[stage |-> stage, cid |-> cand, sid |-> session]}
    /\ completed' = completed + 1
    /\ LET stops == limit # 0 /\ stage = stopStage /\ completed + 1 >= limit
       IN  /\ at' = IF stops THEN "interrupt"
                    ELSE IF Later(Ids(stage)) = {} THEN "publish" ELSE "evaluate"
           /\ cand' = IF ~stops /\ Later(Ids(stage)) # {} THEN Least(Later(Ids(stage))) ELSE cand
    /\ UNCHANGED <<passes, composite, plan, meta, protocolFile, results, gates, comparisons,
                   freeze, built, published, outputs, protocol, limit, stopStage, stage, session,
                   approved, released, past>>

\* ControlledInterruption, after what is ready was published.
Interrupt ==
    /\ at = "interrupt"
    /\ IF Ready(session) # {} THEN PublishPack(session) /\ GoTo("interrupt")
       ELSE Stop("INTERRUPTED") /\ UNCHANGED <<built, published>>
    /\ UNCHANGED <<plan, meta, protocolFile, refs, results, gates, comparisons, freeze, outputs>>

\* The session is published, and the next one begins; after the last one the
\* candidates are aggregated.
EndSession ==
    LET later == {n \in SessionsOf(stage) : n > session}
    IN  /\ at = "publish"
        /\ IF Ready(session) # {} THEN PublishPack(session) /\ GoTo("publish")
           ELSE /\ at' = IF later = {} THEN "aggregate" ELSE "session"
                /\ session' = IF later = {} THEN session ELSE Least(later)
                /\ cand' = Least(Ids(stage))
                /\ UNCHANGED <<passes, composite, built, published, protocol, limit, stopStage,
                               stage, completed, approved, released, past>>
        /\ UNCHANGED <<plan, meta, protocolFile, refs, results, gates, comparisons, freeze,
                       outputs>>

\* The loop over candidates goes on after cand at place again, or ends at end.
NextCandidate(S, again, end) ==
    /\ at' = IF Later(S) = {} THEN end ELSE again
    /\ cand' = IF Later(S) = {} THEN 0 ELSE Least(Later(S))
    /\ UNCHANGED <<passes, composite, protocol, limit, stopStage, stage, session, completed,
                   approved, released>>

\* The transaction that aggregates the sessions of a candidate: each must be
\* referenced and loadable, and load publishes before it returns.
Aggregate ==
    LET needed  == {Eval(cand, n) : n \in SessionsOf(stage)}
        waiting == needed \cap (built \ published)
    IN  /\ at = "aggregate"
        /\ IF ~Granted(cand) THEN Stop("ACCESS_DENIED") /\ UNCHANGED <<results, built, published>>
           ELSE IF \E n \in SessionsOf(stage) : [stage |-> stage, cid |-> cand, sid |-> n] \notin refs
           THEN Stop("MISSING_REFERENCE") /\ UNCHANGED <<results, built, published>>
           ELSE IF ~(needed \subseteq built)
           THEN Stop("MISSING_EVALUATION") /\ UNCHANGED <<results, built, published>>
           ELSE /\ Accessed(cand)
                /\ IF waiting # {}
                   THEN /\ \E e \in waiting : PublishPack(e.sid)
                        /\ UNCHANGED <<passes, composite, results, memory>>
                   ELSE /\ results' = results \cup {[stage |-> stage, cid |-> cand]}
                        /\ IF stage = "DISCOVERY"
                           THEN at' = "gate" /\ UNCHANGED <<passes, composite, protocol, limit,
                                  stopStage, stage, session, cand, completed, approved, released>>
                           ELSE NextCandidate(approved, "aggregate", "compare")
                        /\ UNCHANGED <<built, published>>
                /\ UNCHANGED <<outcome, faults, frozenSets>>
        /\ UNCHANGED <<plan, meta, protocolFile, refs, gates, comparisons, freeze, outputs>>

Verdict(st, c) == IF c \in passes[protocol][st] THEN "PASS" ELSE "FAIL"

\* apply_gate on the Discovery result, in a transaction of its own.
Gate ==
    /\ at = "gate"
    /\ gates' = [gates EXCEPT !["DISCOVERY"][cand] = Verdict("DISCOVERY", cand)]
    /\ NextCandidate(Candidates, "aggregate", "pass_set")
    /\ UNCHANGED <<plan, meta, protocolFile, refs, results, comparisons, freeze, built,
                   published, outputs, past>>

\* pass_set: members need a result and a passed gate.
PassSet ==
    {c \in Candidates : [stage |-> "DISCOVERY", cid |-> c] \in results
                        /\ gates["DISCOVERY"][c] = "PASS"}

\* publish_freeze: staged and renamed; a freeze already there must be this one.
PublishFreeze ==
    /\ at = "pass_set"
    /\ IF freeze.state = "absent"
       THEN /\ freeze' = [state |-> "intact", ids |-> PassSet]
            /\ frozenSets' = frozenSets \cup {PassSet}
            /\ at' = "release"
            /\ UNCHANGED <<passes, composite, protocol, limit, stopStage, stage, session, cand,
                           completed, approved, released, outcome, faults, holdout>>
       ELSE /\ IF freeze = [state |-> "intact", ids |-> PassSet] THEN GoTo("release")
               ELSE Stop("INVALID_FREEZE")
            /\ UNCHANGED freeze
    /\ UNCHANGED <<plan, meta, protocolFile, refs, results, gates, comparisons, built, published,
                   outputs>>

\* Variant: the freeze is not validated once more.
ReleaseUnvalidated ==
    /\ at = "release"
    /\ approved' = PassSet
    /\ released' = TRUE
    /\ EnterStage("VALIDATION", PassSet)
    /\ UNCHANGED <<passes, composite, protocol, limit, stopStage, past, durable>>

\* The freeze on disk is validated once more, then the holdout is released.
Release ==
    /\ at = "release"
    /\ IF freeze # [state |-> "intact", ids |-> PassSet] THEN Stop("INVALID_FREEZE")
       ELSE /\ approved' = PassSet
            /\ released' = TRUE
            /\ EnterStage("VALIDATION", PassSet)
            /\ UNCHANGED <<passes, composite, protocol, limit, stopStage, past>>
    /\ UNCHANGED durable

Validated == {c \in Candidates : [stage |-> "VALIDATION", cid |-> c] \in results}

\* Each Validation result is compared with its Discovery result and gated, in
\* one transaction per candidate.
Compare ==
    /\ at = "compare"
    /\ IF Later(Validated) = {}
       THEN /\ GoTo("export")
            /\ UNCHANGED <<gates, comparisons>>
       ELSE LET c == Least(Later(Validated))
            IN  /\ comparisons' = comparisons \cup {c}
                /\ gates' = [gates EXCEPT !["VALIDATION"][c] = Verdict("VALIDATION", c)]
                /\ cand' = c
                /\ UNCHANGED <<passes, composite, at, protocol, limit, stopStage, stage, session,
                               completed, approved, released, past>>
    /\ UNCHANGED <<plan, meta, protocolFile, refs, results, freeze, built, published, outputs>>

PassedValidation == {c \in Candidates : gates["VALIDATION"][c] = "PASS"}

Status(c) ==
    [discovery |-> IF c \in approved THEN "DISCOVERY_PASSED" ELSE "DISCOVERY_FAILED_GATE",
     validation |-> IF c \in PassedValidation THEN "VALIDATION_PASSED"
                    ELSE IF c \in approved THEN "VALIDATION_FAILED_GATE"
                    ELSE "VALIDATION_NOT_RUN"]

\* The experiment is staged and renamed to an output that does not exist yet.
Export ==
    /\ at = "export"
    /\ outputs' = outputs \cup
         {[protocol |-> protocol, frozen |-> approved, results |-> Validated,
           comparisons |-> comparisons, gates |-> gates["VALIDATION"],
           statuses |-> [c \in Candidates |-> Status(c)],
           final |-> IF approved # {} THEN "COMPLETE" ELSE "COMPLETE_WITHOUT_VALIDATION"]}
    /\ Stop("COMPLETE")
    /\ UNCHANGED <<plan, meta, protocolFile, refs, results, gates, comparisons, freeze, built,
                   published>>

\* The process dies.
Crash ==
    /\ at # "off"
    /\ faults < MaxFaults
    /\ at' = "off" /\ protocol' = None
    /\ limit' = 0 /\ stopStage' = "VALIDATION"
    /\ stage' = "DISCOVERY" /\ session' = 0 /\ cand' = 0 /\ completed' = 0
    /\ approved' = {} /\ released' = FALSE
    /\ outcome' = "CRASHED"
    /\ faults' = faults + 1
    /\ UNCHANGED <<passes, composite, durable, frozenSets, holdout>>

\* The freeze directory is lost, or a file of it altered.
DamageFreeze ==
    /\ freeze.state = "intact"
    /\ faults < MaxFaults
    /\ freeze' \in {Absent, [freeze EXCEPT !.state = "altered"]}
    /\ faults' = faults + 1
    /\ UNCHANGED <<passes, composite, plan, meta, protocolFile, refs, results, gates, comparisons,
                   built, published, outputs, memory, outcome, frozenSets, holdout>>

\* The run that is under way takes its next step.
Step ==
    \/ Plan \/ Backup \/ OpenCache \/ Initialize \/ WriteProtocol \/ CheckFreeze
    \/ ResolveSession \/ Evaluate \/ Reference \/ Interrupt \/ EndSession
    \/ Aggregate \/ Gate \/ PublishFreeze \/ Release \/ Compare \/ Export

Next ==
    \/ \E pr \in Protocols, n \in StopAfters, st \in Stages : Start(pr, n, st)
    \/ Step
    \/ Crash
    \/ DamageFreeze

\* A run goes on unless it dies.
Spec == Init /\ [][Next]_vars /\ WF_vars(Step)

\* The operator keeps resuming the protocol pr without a stop, and such a run does not
\* for ever find the cache in use.
Resumed(pr) ==
    /\ SF_vars(Start(pr, 0, "VALIDATION"))
    /\ SF_vars(OpenCache /\ protocol = pr /\ limit = 0 /\ at' = "initialize")

(***************************************************************************)
(* What the orchestrator promises.                                         *)
(***************************************************************************)
Places == {"off", "plan", "backup", "cache", "initialize", "protocol", "freeze", "session",
           "evaluate", "reference", "interrupt", "publish", "aggregate", "gate", "pass_set",
           "release", "compare", "export"}

\* The state has its type.
TypeOK ==
    /\ passes \in Verdicts /\ composite \in BOOLEAN
    /\ plan \in {"absent", "empty", "installed"}
    /\ meta \in Protocols \cup {None} /\ protocolFile \in Protocols \cup {None}
    /\ refs \subseteq [stage : Stages, cid : Candidates, sid : Discovery \cup Validation]
    /\ results \subseteq [stage : Stages, cid : Candidates]
    /\ gates \in [Stages -> [Candidates -> {"NONE", "PASS", "FAIL"}]]
    /\ comparisons \subseteq Candidates
    /\ freeze \in [state : {"absent", "intact", "altered"}, ids : SUBSET Candidates]
    /\ built \subseteq Evals /\ published \subseteq built
    /\ at \in Places
    /\ protocol \in Protocols \cup {None}
    /\ limit \in Nat /\ stopStage \in Stages /\ stage \in Stages
    /\ session \in SessionsOf(stage) \cup {0} /\ cand \in Candidates \cup {0}
    /\ completed \in Nat
    /\ approved \subseteq Candidates /\ released \in BOOLEAN
    /\ faults \in 0..MaxFaults
    /\ frozenSets \subseteq SUBSET Candidates
    /\ holdout \subseteq Candidates \cup {None}

\* No Validation data is read before a pass set was published, and then only
\* for its members; with an empty pass set nothing is read at all.
HoldoutOpensAfterFreeze ==
    \A c \in holdout : \E F \in frozenSets : F # {} /\ (c # None => c \in F)

\* Whatever was interrupted, lost or restarted, there is one pass set, and it
\* is the set of all candidates that pass the Discovery gate.
OnePassSet ==
    \A F \in frozenSets : meta # None /\ F = passes[meta]["DISCOVERY"]

\* What must be exported for the protocol pr, by its verdicts alone.
Expected(pr) ==
    LET passD == passes[pr]["DISCOVERY"]
        passV == passD \cap passes[pr]["VALIDATION"]
    IN  [protocol |-> pr, frozen |-> passD, results |-> passD, comparisons |-> passD,
         gates |-> [c \in Candidates |-> IF c \notin passD THEN "NONE"
                                         ELSE IF c \in passV THEN "PASS" ELSE "FAIL"],
         statuses |-> [c \in Candidates |->
             IF c \in passV
             THEN [discovery |-> "DISCOVERY_PASSED", validation |-> "VALIDATION_PASSED"]
             ELSE IF c \in passD
             THEN [discovery |-> "DISCOVERY_PASSED", validation |-> "VALIDATION_FAILED_GATE"]
             ELSE [discovery |-> "DISCOVERY_FAILED_GATE", validation |-> "VALIDATION_NOT_RUN"]],
         final |-> IF passD # {} THEN "COMPLETE" ELSE "COMPLETE_WITHOUT_VALIDATION"]

\* An export is complete, and the same whether it was reached in one run, over
\* a warm cache or after any number of interruptions.
ExportsAreReproducible == \A x \in outputs : meta # None /\ x = Expected(meta)

\* What a transaction committed stays: a later run adds to the checkpoint and
\* never undoes or changes it, and never moves it to another protocol.
CheckpointOnlyGrows ==
    [][/\ meta # None => meta' = meta
       /\ protocolFile # None => protocolFile' = protocolFile /\ protocolFile = meta
       /\ refs \subseteq refs' /\ results \subseteq results' /\ comparisons \subseteq comparisons'
       /\ \A st \in Stages, c \in Candidates : gates[st][c] # "NONE" => gates'[st][c] = gates[st][c]
       /\ outputs \subseteq outputs']_vars

\* The checkpoint and the cache are two databases that commit one after the other, and
\* runs die between them: what one refers to the other holds.  An evaluation that is
\* referenced was committed; a result is of all sessions of its stage, each of them
\* referenced and published.
ReferencesAreServed ==
    /\ \A r \in refs : Eval(r.cid, r.sid) \in built
    /\ \A x \in results : \A n \in SessionsOf(x.stage) :
          /\ [stage |-> x.stage, cid |-> x.cid, sid |-> n] \in refs
          /\ Eval(x.cid, n) \in published

\* No run is refused for what an earlier one left undone: none misses a reference or an
\* evaluation, none asks for data it may not see, and where a run was refused for its
\* freeze, the freeze is damaged.
RefusalsHaveACause ==
    /\ outcome \notin {"ACCESS_DENIED", "MISSING_REFERENCE", "MISSING_EVALUATION"}
    /\ at = "off" /\ outcome \in {"INVALID_FREEZE", "MISSING_FREEZE"} => freeze.state # "intact"

\* A resumed run finds all that it needs of the work of the runs before.
ResumptionFindsItsWork == ReferencesAreServed /\ RefusalsHaveACause

\* A freeze that was altered, or lost after Validation data was referenced,
\* opens nothing: a run that has not released the holdout yet neither releases
\* it nor reads it while the freeze is in that state.
DamagedFreezeOpensNothing ==
    [][(/\ ~released
        /\ \/ freeze.state = "altered"
           \/ freeze.state = "absent" /\ \E r \in refs : r.stage = "VALIDATION")
       => ~released' /\ holdout' = holdout]_vars

\* The holdout is opened by the one pass set, frozen before, or by nothing.
HoldoutIsGuarded == []HoldoutOpensAfterFreeze /\ []OnePassSet /\ DamagedFreezeOpensNothing

\* However it is interrupted and resumed, what was committed stays and what is exported
\* is what the protocol says.
ResumedWorkIsTheSame == []TypeOK /\ []ExportsAreReproducible /\ CheckpointOnlyGrows

\* The work is never lost for good: if the operator keeps resuming and faults
\* are finite, an experiment is exported, unless the freeze was damaged or the
\* checkpoint file is one without tables.
ResumesToCompletion ==
    <>(\/ outputs # {}
       \/ freeze.state = "altered"
       \/ freeze.state = "absent" /\ \E r \in refs : r.stage = "VALIDATION"
       \/ outcome = "CORRUPT_CHECKPOINT")

\* "A power loss resumes the same checkpoint": no run is refused because of
\* what an earlier run of the same plan left of the checkpoint.
PowerLossResumesTheCheckpoint == outcome # "CORRUPT_CHECKPOINT"
=============================================================================
