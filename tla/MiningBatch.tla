------------------------------ MODULE MiningBatch ------------------------------
(***************************************************************************)
(* The mining batch (packages/mining/src/quantlab_mining/batch.py,         *)
(* run_batch, with checkpoint.py, the tables of generator.py's preflight   *)
(* and export.py).  One database holds the generated candidates, the       *)
(* context of the batch and, per evaluated candidate, its result and its   *)
(* audit rows; a candidate is committed with its whole audit or not at     *)
(* all.  The export is built aside and renamed into place.                 *)
(*                                                                         *)
(* Processes that share the database and the output may call, stop or die  *)
(* between any two steps, and the database may be damaged from outside.    *)
(* Engines are deterministic: a row stands for what it was computed from.  *)
(***************************************************************************)
EXTENDS Integers, FiniteSets, Sequences

CONSTANTS
    Requests,      \* [space, evaluation, market] run_batch is called with
    Generated,     \* for each space, the ids its preflight keeps
    Budget,        \* candidate_budget of the generation policy
    Trades,        \* for each candidate, its number of audit rows
    StopAfters,    \* values of stop_after explored, 0 for None
    Procs,         \* processes
    Damages,       \* what may happen to the database from outside
    MaxFaults,     \* bound on crashes and damages
    Another,       \* an output that is not of this database
    None

AllIds == UNION {Generated[s] : s \in DOMAIN Generated}

ASSUME MiningAssumption ==
    /\ \A r \in Requests : r.space \in DOMAIN Generated
    /\ AllIds \subseteq Nat /\ IsFiniteSet(AllIds)
    /\ Trades \in [AllIds -> Nat]
    /\ Budget \in Nat /\ MaxFaults \in Nat /\ StopAfters \subseteq Nat
    /\ Damages \subseteq {"LOST", "METRICS", "ROW_MISSING", "ORPHAN_ROW"}
    /\ None \notin Procs

VARIABLES
    \* On disk.
    candidates,    \* table candidates
    context,       \* table checkpoint_meta
    results,       \* table results, by candidate
    audit,         \* table audit: the rows of a candidate, in order
    output,        \* the exported directory
    staging,       \* the directory an export is built in
    \* In memory.
    call,          \* processes that have seen no output
    runner,        \* the process that holds the lock
    at,            \* where it is
    tx,            \* audit rows inserted since the transaction began
    executed,      \* candidates evaluated by this call
    \* What happened.
    faults,
    evaluated,     \* how often a result of the candidate was committed to the database
    damaged        \* the candidates whose rows were touched from outside

disk == <<candidates, context, results, audit, output, staging>>
memory == <<call, runner, at, tx, executed>>
history == <<evaluated, damaged>>
vars == <<disk, memory, faults, history>>

\* The identity of an evaluation: of the candidate, the market data and the
\* evaluation configuration, which also name the features it reads.
EvaluationId(r, c) == [cid |-> c, market |-> r.market, evaluation |-> r.evaluation]

\* The context of the checkpoint: the generation manifest, and all evaluations.
Context(r) == [space |-> r.space,
               evaluations |-> {EvaluationId(r, c) : c \in Generated[r.space]}]

ASSUME ContextAssumption == \A r \in Requests : Context(r) # None

Metrics(eid) == <<"metrics", eid>>
AuditRow(eid, n) == <<"row", eid, n>>
WholeAudit(eid) == [n \in 1..Trades[eid.cid] |-> AuditRow(eid, n)]

\* result_digest: of the metrics and every audit row in order.
Digest(eid, metrics, rows) == <<eid, metrics, rows>>

Result(eid, metrics, rows) ==
    [eid |-> eid, metrics |-> metrics, digest |-> Digest(eid, metrics, rows), count |-> Len(rows)]

Idle == runner = None /\ at = "idle" /\ tx = <<>> /\ executed = 0
Nothing == [c \in {} |-> None]

Init ==
    /\ candidates = {} /\ context = None /\ results = Nothing
    /\ audit = [c \in AllIds |-> <<>>]
    /\ output = None /\ staging = None
    /\ call = [p \in Procs |-> None]
    /\ Idle
    /\ faults = 0
    /\ evaluated = [c \in AllIds |-> 0] /\ damaged = {}

\* run_batch looks for the output before it takes the lock.
Call(p, r, stop) ==
    /\ call[p] = None /\ output = None
    /\ call' = [call EXCEPT ![p] = [request |-> r, stop |-> stop]]
    /\ UNCHANGED <<disk, runner, at, tx, executed, faults, history>>

\* single_writer does not wait: a second writer fails.
Lock(p) ==
    /\ call[p] # None /\ runner # p
    /\ IF runner = None THEN /\ runner' = p /\ at' = "preflight"
                             /\ UNCHANGED call
       ELSE call' = [call EXCEPT ![p] = None] /\ UNCHANGED <<runner, at>>
    /\ UNCHANGED <<disk, tx, executed, faults, history>>

Request == call[runner].request
GoTo(pc) == at' = pc /\ UNCHANGED <<call, runner, tx, executed>>

\* Variant: rows that were not committed stay.
StopKeepsRows ==
    /\ call' = [call EXCEPT ![runner] = None]
    /\ runner' = None /\ at' = "idle" /\ executed' = 0
    /\ UNCHANGED tx

\* The call ends and releases the lock; what was not committed is rolled back.
Stop ==
    /\ call' = [call EXCEPT ![runner] = None]
    /\ runner' = None /\ at' = "idle" /\ tx' = <<>> /\ executed' = 0

\* preflight empties its tables in one commit ...
ClearPlan ==
    /\ at = "preflight"
    /\ candidates' = {}
    /\ GoTo("expand")
    /\ UNCHANGED <<context, results, audit, output, staging, faults, history>>

\* ... and fills them in another, before it compares with the budget.
CommitPlan ==
    /\ at = "expand"
    /\ candidates' = candidates \cup Generated[Request.space]
    /\ IF Cardinality(Generated[Request.space]) > Budget THEN Stop ELSE GoTo("open")
    /\ UNCHANGED <<context, results, audit, output, staging, faults, history>>

\* The market or a feature cannot be built.
MaterialiseFails ==
    /\ at = "open" /\ faults < MaxFaults
    /\ faults' = faults + 1
    /\ Stop
    /\ UNCHANGED <<disk, history>>

\* Variant: the context of a checkpoint is overwritten.
OpenAnyCheckpoint ==
    /\ at = "open"
    /\ context' = Context(Request)
    /\ GoTo("validate")
    /\ UNCHANGED <<candidates, results, audit, output, staging, faults, history>>

\* initialize: the context is written once and must never differ.
OpenCheckpoint ==
    /\ at = "open"
    /\ IF context \in {None, Context(Request)}
       THEN context' = Context(Request) /\ GoTo("validate")
       ELSE UNCHANGED context /\ Stop
    /\ UNCHANGED <<candidates, results, audit, output, staging, faults, history>>

Intact(c) ==
    /\ results[c].eid = EvaluationId(Request, c)
    /\ results[c].count = Len(audit[c])
    /\ results[c].digest = Digest(results[c].eid, results[c].metrics, audit[c])

\* validate_completed: every result is what was committed, and no audit row is
\* without a result.
Valid ==
    /\ \A c \in DOMAIN results : c \in Generated[Request.space] /\ Intact(c)
    /\ \A c \in AllIds : audit[c] # <<>> => c \in DOMAIN results

\* Every previous result is validated before any new work.
ValidatePrevious ==
    /\ at = "validate"
    /\ IF Valid THEN GoTo("next") ELSE Stop
    /\ UNCHANGED <<disk, faults, history>>

Pending == candidates \ DOMAIN results
Current == CHOOSE c \in Pending : \A d \in Pending : c <= d
Evaluation == EvaluationId(Request, Current)

\* persist: an audit row inside the transaction of its candidate.
PersistRow ==
    /\ at = "next" /\ Pending # {} /\ audit[Current] = <<>>
    /\ Len(tx) < Trades[Current]
    /\ tx' = Append(tx, AuditRow(Evaluation, Len(tx) + 1))
    /\ UNCHANGED <<disk, call, runner, at, executed, faults, history>>

\* The candidate with its audit and metrics is committed; a controlled stop
\* follows the commit.
CommitCandidate ==
    /\ at = "next" /\ Pending # {} /\ audit[Current] = <<>> /\ Len(tx) = Trades[Current]
    /\ LET c == Current
       IN  /\ audit' = [audit EXCEPT ![c] = tx]
           /\ results' = [d \in DOMAIN results \cup {c} |->
                             IF d = c THEN Result(Evaluation, Metrics(Evaluation), tx)
                             ELSE results[d]]
           /\ evaluated' = [evaluated EXCEPT ![c] = @ + 1]
    /\ IF call[runner].stop # 0 /\ executed + 1 >= call[runner].stop THEN Stop
       ELSE /\ executed' = executed + 1 /\ tx' = <<>>
            /\ UNCHANGED <<call, runner, at>>
    /\ UNCHANGED <<candidates, context, output, staging, faults, damaged>>

\* The inputs cannot be read or the engine raises: the transaction rolls back.
EngineFails ==
    /\ at = "next" /\ Pending # {} /\ faults < MaxFaults
    /\ faults' = faults + 1
    /\ Stop
    /\ UNCHANGED <<disk, history>>

\* The keys of a stray audit row are taken, or it is counted: rolled back too.
StrayRow ==
    /\ at = "next" /\ Pending # {} /\ audit[Current] # <<>>
    /\ Stop
    /\ UNCHANGED <<disk, faults, history>>

\* export_batch of a complete and valid batch, into a directory of its own.
Stage ==
    /\ at = "next" /\ Pending = {}
    /\ IF Valid /\ output = None /\ Cardinality(DOMAIN results) = Cardinality(candidates)
       THEN /\ staging' = [request |-> Request, results |-> results, audit |-> audit]
            /\ GoTo("publish")
       ELSE UNCHANGED staging /\ Stop
    /\ UNCHANGED <<candidates, context, results, audit, output, faults, history>>

\* Variant: the output is replaced, whatever it holds.
PublishOver ==
    /\ at = "publish"
    /\ output' = staging
    /\ staging' = None
    /\ Stop
    /\ UNCHANGED <<candidates, context, results, audit, faults, history>>

\* os.replace of a directory onto one that is not empty fails.
Publish ==
    /\ at = "publish"
    /\ output' = IF output = None THEN staging ELSE output
    /\ staging' = None
    /\ Stop
    /\ UNCHANGED <<candidates, context, results, audit, faults, history>>

\* The process dies: the lock goes with it, a transaction rolls back, and a
\* directory it was staging stays behind, unnamed.
Crash ==
    /\ runner # None /\ faults < MaxFaults
    /\ faults' = faults + 1
    /\ staging' = None
    /\ Stop
    /\ UNCHANGED <<candidates, context, results, audit, output, history>>

\* A batch with another database writes the output.
OtherBatch ==
    /\ output = None /\ faults < MaxFaults
    /\ faults' = faults + 1
    /\ output' = Another
    /\ UNCHANGED <<candidates, context, results, audit, staging, memory, history>>

\* Damage to the database from outside.
Damage(d, c) ==
    /\ faults < MaxFaults /\ tx = <<>>
    /\ faults' = faults + 1
    /\ damaged' = IF d = "LOST" THEN {} ELSE damaged \cup {c}
    /\ \/ /\ d = "LOST" /\ runner = None
          /\ candidates' = {} /\ context' = None /\ results' = Nothing
          /\ audit' = [x \in AllIds |-> <<>>] /\ evaluated' = [x \in AllIds |-> 0]
       \/ /\ d = "METRICS" /\ c \in DOMAIN results
          /\ results' = [results EXCEPT ![c].metrics = <<"other", 0>>]
          /\ UNCHANGED <<candidates, context, audit, evaluated>>
       \/ /\ d = "ROW_MISSING" /\ audit[c] # <<>>
          /\ audit' = [audit EXCEPT ![c] = SubSeq(@, 1, Len(@) - 1)]
          /\ UNCHANGED <<candidates, context, results, evaluated>>
       \/ /\ d = "ORPHAN_ROW" /\ c \notin DOMAIN results
          /\ audit' = [audit EXCEPT ![c] = <<"other">>]
          /\ UNCHANGED <<candidates, context, results, evaluated>>
    /\ UNCHANGED <<output, staging, memory>>

Step ==
    \/ ClearPlan \/ CommitPlan \/ OpenCheckpoint \/ ValidatePrevious
    \/ PersistRow \/ CommitCandidate \/ StrayRow \/ Stage \/ Publish

Next ==
    \/ \E p \in Procs, r \in Requests, stop \in StopAfters : Call(p, r, stop)
    \/ \E p \in Procs : Lock(p)
    \/ Step \/ MaterialiseFails \/ EngineFails \/ Crash \/ OtherBatch
    \/ \E d \in Damages, c \in AllIds : Damage(d, c)

\* A call runs on; nothing obliges anyone to call again.
Spec == Init /\ [][Next]_vars /\ WF_vars(Step) /\ \A p \in Procs : WF_vars(Lock(p))

\* An operator calls again with r, without a stop, and does not for ever find the lock
\* taken.
Patient(p, r) == SF_vars(Lock(p)) /\ SF_vars(Call(p, r, 0))

(***************************************************************************)
(* Properties.                                                             *)
(***************************************************************************)
Exported == output \notin {None, Another}

\* The state has its type; only the holder of the lock is anywhere.
TypeOK ==
    /\ candidates \subseteq AllIds /\ DOMAIN results \subseteq AllIds
    /\ runner \in Procs \cup {None} /\ faults \in 0..MaxFaults
    /\ runner = None => Idle
    /\ runner # None => call[runner] # None /\ at # "idle"
    /\ tx # <<>> => at = "next" /\ Pending # {} /\ Len(tx) <= Trades[Current]

\* A candidate is committed with its whole audit or with nothing: no crash, stop
\* or failure leaves part of one behind, nor does damage to another candidate.
AuditIsWhole ==
    \A c \in AllIds \ damaged :
        audit[c] = IF c \in DOMAIN results THEN WholeAudit(results[c].eid) ELSE <<>>

\* The results of a database are all of one context, however many different
\* batches were started on it.
ResultsAreOfOneContext ==
    \A c \in DOMAIN results : context # None /\ results[c].eid \in context.evaluations

\* What a batch works on is exactly its own space, although the preflight of a
\* refused or dead batch may have left other candidates in the tables.
PlanIsOfTheRequest ==
    at \in {"open", "validate", "next", "publish"} => candidates = Generated[Request.space]

\* The results and audits of a clean run over its whole space.
OfCleanRun(export) ==
    /\ DOMAIN export.results = Generated[export.request.space]
    /\ \A c \in DOMAIN export.results :
          LET eid == EvaluationId(export.request, c)
          IN  /\ export.results[c] = Result(eid, Metrics(eid), WholeAudit(eid))
              /\ export.audit[c] = WholeAudit(eid)
    /\ \A c \in AllIds \ DOMAIN export.results : export.audit[c] = <<>>

\* An export is that of a clean run, whatever was stopped, died or was damaged before.
ExportsAreReproducible == Exported => OfCleanRun(output)

\* A resumed batch does not evaluate again what its database holds.
CommittedOnce == \A c \in AllIds : evaluated[c] <= 1

\* What is committed is of the one request the database belongs to, and only once.
CommitsAreOfTheRequest == ResultsAreOfOneContext /\ PlanIsOfTheRequest /\ CommittedOnce

\* Commits are of the request and, but for damage, whole.
CommitsAreSound == TypeOK /\ CommitsAreOfTheRequest /\ AuditIsWhole

\* An output is never replaced or changed.
OutputIsFinal == [][output # None => output' = output]_vars

\* One export, and the same as without any interruption.
ExportsAreOfTheRun == []ExportsAreReproducible /\ OutputIsFinal

\* Calling again leads to an export, whatever was stopped or died before.
ResumesToCompletion == <>(output # None)
=============================================================================
