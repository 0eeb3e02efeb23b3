--------------------------- MODULE MiningBatchProofs ---------------------------
(***************************************************************************)
(* Proofs about the mining batch, for every set of spaces, requests and    *)
(* processes and any number of stops, crashes and damages: what is         *)
(* committed is whole, once and of the request the database belongs to;    *)
(* what is exported is a clean run, and is never replaced.                 *)
(*                                                                         *)
(* The argument for the commits: only the holder of the lock adds rows, it *)
(* has opened the checkpoint under its own context, and the rows that wait *)
(* in its transaction are the beginning of the audit of the candidate that *)
(* is first among those without a result.  For the exports: damage alters  *)
(* rows but no digest with them, and a digest is of the whole audit of the *)
(* candidate in order, so a validation that finds every digest right has   *)
(* found what was committed.                                               *)
(***************************************************************************)
EXTENDS MiningBatch, SequenceTheorems, WellFoundedInduction, TLAPS

\* The rows of candidate e.cid that a transaction has inserted after n of them.
Rows(e, n) == [k \in 1..n |-> AuditRow(e, k)]

\* Calls are records; the holder of the lock has planned before it opens the
\* checkpoint, and has opened it before it reads or writes rows.
CallInv ==
    /\ call \in [Procs -> [request : Requests, stop : StopAfters] \cup {None}]
    /\ at \in {"idle", "preflight", "expand", "open", "validate", "next", "publish"}
    /\ at = "expand" => candidates = {}
    /\ PlanIsOfTheRequest
    /\ at \in {"validate", "next", "publish"} => context = Context(Request)

\* A transaction holds the first rows of the current candidate, of which no row
\* is in the database; what is about to be published is a clean run.
WorkInv ==
    /\ tx # <<>> =>
          /\ audit[Current] = <<>>
          /\ \E n \in 0..Trades[Current] : tx = Rows(Evaluation, n)
    /\ at = "publish" => OfCleanRun(staging)

\* The result of candidate c as it was committed, but for its metrics.
Committed(result, c) ==
    /\ result.eid.cid = c
    /\ \E metrics : result =
          [eid |-> result.eid, metrics |-> metrics,
           digest |-> Digest(result.eid, Metrics(result.eid), WholeAudit(result.eid)),
           count |-> Trades[c]]

\* The tables are keyed by candidates; each result is of the context and was
\* committed once.
TableInv ==
    /\ candidates \subseteq AllIds /\ DOMAIN results \subseteq AllIds /\ damaged \subseteq AllIds
    /\ DOMAIN audit = AllIds /\ audit = [c \in AllIds |-> audit[c]]
    /\ context \in {None} \cup {Context(r) : r \in Requests}
    /\ \A c \in DOMAIN results :
          /\ Committed(results[c], c)
          /\ context # None /\ results[c].eid \in context.evaluations
    /\ evaluated = [c \in AllIds |-> IF c \in DOMAIN results THEN 1 ELSE 0]

\* The inductive invariant.
IInv == TypeOK /\ CallInv /\ WorkInv /\ TableInv /\ AuditIsWhole /\ ExportsAreReproducible

(***************************************************************************)
(* Lemmas.                                                                 *)
(***************************************************************************)
\* Candidates are numbered, so there is a first one among those pending.
LEMMA CurrentIsPending ==
    ASSUME TypeOK, Pending # {}
    PROVE  Current \in Pending /\ Current \in AllIds
<1>1. Pending \subseteq AllIds /\ AllIds \subseteq Nat
  BY MiningAssumption DEF TypeOK, Pending
<1> DEFINE R == {ss \in Nat \X Nat : ss[1] < ss[2]}
<1>2. PICK c \in Pending : \A d \in Pending : <<d, c>> \notin R
  <2>1. IsWellFoundedOn(R, Nat)
    BY NatLessThanWellFounded DEF OpToRel
  <2> HIDE DEF R
  <2> QED BY <1>1, <2>1, WFMin
<1>3. \A d \in Pending : c <= d
  <2> SUFFICES ASSUME NEW d \in Pending PROVE ~(d < c)
    BY <1>1
  <2> QED BY <1>1, <1>2
<1> QED BY <1>1, <1>3 DEF Current

\* Inserting the next row of a candidate continues its rows.
LEMMA RowsGrow ==
    ASSUME NEW e, NEW n \in Nat
    PROVE  /\ Len(Rows(e, n)) = n
           /\ Append(Rows(e, n), AuditRow(e, n + 1)) = Rows(e, n + 1)
<1> DEFINE S == {AuditRow(e, k) : k \in 1..(n + 1)}
<1>1. Rows(e, n) \in Seq(S) /\ Len(Rows(e, n)) = n
  BY DEF Rows
<1>2. AuditRow(e, n + 1) \in S
  OBVIOUS
<1>3. Rows(e, n + 1) \in Seq(S) /\ Len(Rows(e, n + 1)) = n + 1
  BY DEF Rows
<1> HIDE DEF S
<1>4. Append(Rows(e, n), AuditRow(e, n + 1)) \in Seq(S)
  BY <1>1, <1>2
<1>5. \A k \in 1..(n + 1) :
          Append(Rows(e, n), AuditRow(e, n + 1))[k] = Rows(e, n + 1)[k]
  BY <1>1, <1>2 DEF Rows
<1>6. Len(Append(Rows(e, n), AuditRow(e, n + 1))) = n + 1
  BY <1>1, <1>2
<1> QED BY <1>1, <1>3, <1>4, <1>5, <1>6, SeqEqual

\* No rows of a candidate without audit; all of them are its whole audit.
LEMMA AllRows ==
    ASSUME NEW e
    PROVE  Rows(e, 0) = <<>> /\ Rows(e, Trades[e.cid]) = WholeAudit(e)
<1>1. Rows(e, 0) = [k \in {} |-> AuditRow(e, k)]
  BY DEF Rows
<1> QED BY <1>1 DEF Rows, WholeAudit

\* The ids of a request are among all, and every candidate has a number of rows.
LEMMA IdsTyped ==
    /\ \A r \in Requests : Generated[r.space] \subseteq AllIds
    /\ \A c \in AllIds : Trades[c] \in Nat
BY MiningAssumption DEF AllIds

\* The process that holds the lock has been called with one of the requests.
LEMMA RunnerIsCalled ==
    ASSUME TypeOK, CallInv, runner # None
    PROVE  /\ runner \in Procs /\ Request \in Requests
           /\ call[runner] \in [request : Requests, stop : StopAfters]
BY DEF TypeOK, CallInv, Request

\* The tables and the output stay as they were.
LEMMA TablesKept ==
    ASSUME IInv, UNCHANGED <<candidates, context, results, audit, history>>
    PROVE  TableInv' /\ AuditIsWhole'
<1>1. TableInv /\ AuditIsWhole
  BY DEF IInv
<1> QED BY <1>1 DEF TableInv, AuditIsWhole, history

LEMMA OutputKept ==
    ASSUME IInv, UNCHANGED output
    PROVE  ExportsAreReproducible'
BY DEF IInv, ExportsAreReproducible, Exported, OfCleanRun

\* A call that ends leaves nothing in memory.
LEMMA Stopped ==
    ASSUME IInv, Stop, runner # None, faults' \in 0..MaxFaults,
           candidates' \subseteq AllIds, DOMAIN results' \subseteq AllIds
    PROVE  TypeOK' /\ CallInv' /\ WorkInv'
<1>1. runner' = None /\ at' = "idle" /\ tx' = <<>> /\ executed' = 0
  BY DEF Stop
<1>2. call' \in [Procs -> [request : Requests, stop : StopAfters] \cup {None}]
  BY DEF IInv, CallInv, Stop
<1>3. TypeOK'
  BY <1>1 DEF TypeOK, Idle
<1>4. CallInv'
  BY <1>1, <1>2 DEF CallInv, PlanIsOfTheRequest
<1>5. WorkInv'
  BY <1>1 DEF WorkInv
<1> QED BY <1>3, <1>4, <1>5

\* A transaction is open only where candidates are evaluated.
LEMMA NoTransaction ==
    ASSUME IInv, at # "next"
    PROVE  tx = <<>>
BY DEF IInv, TypeOK

(***************************************************************************)
(* The actions.                                                            *)
(***************************************************************************)
\* A call and the lock change no table, and nothing of the process that holds it.
LEMMA CallStep ==
    ASSUME IInv, NEW p \in Procs, NEW r \in Requests, NEW stop \in StopAfters, Call(p, r, stop)
    PROVE  IInv'
<1> USE DEF Call, disk
<1>1. runner # None => p # runner
  BY DEF IInv, TypeOK
<1>2. runner # None => Request' = Request
  BY <1>1, RunnerIsCalled DEF Request, IInv, CallInv
<1>3. TypeOK'
  BY <1>1 DEF IInv, TypeOK, CallInv, Idle, Pending, Current
<1>4. CallInv'
  <2>1. call' \in [Procs -> [request : Requests, stop : StopAfters] \cup {None}]
    BY DEF IInv, CallInv
  <2>2. at # "idle" => runner # None
    BY DEF IInv, TypeOK, Idle
  <2> QED BY <1>2, <2>1, <2>2 DEF IInv, CallInv, PlanIsOfTheRequest, Context, EvaluationId
<1>5. WorkInv'
  <2>1. tx # <<>> => runner # None
    BY DEF IInv, TypeOK, Idle
  <2>2. tx # <<>> => Current' = Current /\ Evaluation' = Evaluation
    BY <1>2, <2>1 DEF Current, Pending, Evaluation, EvaluationId
  <2> QED BY <2>2 DEF IInv, WorkInv, Rows, AuditRow, OfCleanRun
<1> QED BY <1>3, <1>4, <1>5, TablesKept, OutputKept DEF IInv

LEMMA LockStep ==
    ASSUME IInv, NEW p \in Procs, Lock(p)
    PROVE  IInv'
<1> USE DEF Lock, disk
<1>1. TypeOK /\ CallInv /\ WorkInv
  BY DEF IInv
<1>2. CASE runner = None
  <2>1. runner' = p /\ at' = "preflight" /\ tx' = <<>> /\ call' = call /\ p # None
    BY <1>1, <1>2, MiningAssumption DEF TypeOK, Idle
  <2>2. TypeOK'
    BY <1>1, <1>2, <2>1 DEF TypeOK
  <2>3. CallInv' /\ WorkInv'
    BY <1>1, <2>1 DEF CallInv, WorkInv, PlanIsOfTheRequest
  <2> QED BY <2>2, <2>3, TablesKept, OutputKept DEF IInv
<1>3. CASE runner # None
  <2>1. Request' = Request /\ call'[runner] = call[runner]
    BY <1>1, <1>3, RunnerIsCalled DEF Request, CallInv
  <2>2. TypeOK'
    BY <1>1, <1>3, <2>1 DEF TypeOK, Pending, Current
  <2>3. CallInv'
    <3>1. call' \in [Procs -> [request : Requests, stop : StopAfters] \cup {None}]
      BY <1>1, <1>3 DEF CallInv
    <3> QED BY <1>1, <1>3, <2>1, <3>1 DEF CallInv, PlanIsOfTheRequest, Context, EvaluationId
  <2>4. WorkInv'
    <3>1. Current' = Current /\ Evaluation' = Evaluation
      BY <2>1 DEF Current, Pending, Evaluation, EvaluationId
    <3> QED BY <1>1, <1>3, <3>1 DEF WorkInv, Rows, AuditRow, OfCleanRun
  <2> QED BY <2>2, <2>3, <2>4, TablesKept, OutputKept DEF IInv
<1> QED BY <1>2, <1>3

\* The runner goes on without a transaction: what is left to show is about the
\* candidates, the context and what it is about to publish.
LEMMA WentTo ==
    ASSUME IInv, runner # None, at # "next", NEW pc, GoTo(pc),
           pc \in {"expand", "open", "validate", "next", "publish"},
           faults' = faults, candidates' \subseteq AllIds, results' = results,
           pc = "expand" => candidates' = {},
           pc \in {"open", "validate", "next", "publish"} =>
               candidates' = Generated[Request.space],
           pc \in {"validate", "next", "publish"} => context' = Context(Request),
           pc = "publish" => OfCleanRun(staging')
    PROVE  TypeOK' /\ CallInv' /\ WorkInv'
<1>1. tx = <<>> /\ at' = pc /\ UNCHANGED <<call, runner, tx, executed>>
  BY NoTransaction DEF GoTo
<1>2. Request' = Request
  BY <1>1 DEF Request
<1>3. TypeOK'
  BY <1>1 DEF IInv, TypeOK
<1>4. CallInv'
  BY <1>1, <1>2 DEF IInv, CallInv, PlanIsOfTheRequest, Context, EvaluationId
<1>5. WorkInv'
  BY <1>1 DEF WorkInv, OfCleanRun
<1> QED BY <1>3, <1>4, <1>5

LEMMA PlanStep ==
    ASSUME IInv, runner # None, ClearPlan \/ CommitPlan \/ OpenCheckpoint \/ ValidatePrevious
    PROVE  IInv'
<1>1. TypeOK /\ CallInv /\ TableInv /\ Request \in Requests
  BY RunnerIsCalled DEF IInv
<1>2. faults' = faults /\ faults' \in 0..MaxFaults /\ UNCHANGED <<results, audit, output, history>>
  BY <1>1 DEF ClearPlan, CommitPlan, OpenCheckpoint, ValidatePrevious, disk, TypeOK
<1>3. candidates' \subseteq AllIds /\ DOMAIN results' \subseteq AllIds
  BY <1>1, <1>2, IdsTyped
     DEF ClearPlan, CommitPlan, OpenCheckpoint, ValidatePrevious, disk, TypeOK
<1>4. TableInv'
  <2>1. context' = context \/ (DOMAIN results = {} /\ context' = Context(Request))
    BY <1>1 DEF ClearPlan, CommitPlan, OpenCheckpoint, ValidatePrevious, disk, TableInv
  <2>2. \A c \in DOMAIN results' :
            /\ Committed(results'[c], c)
            /\ context' # None /\ results'[c].eid \in context'.evaluations
    BY <1>1, <1>2, <2>1 DEF TableInv
  <2>3. context' \in {None} \cup {Context(s) : s \in Requests}
    BY <1>1, <2>1 DEF TableInv
  <2> QED BY <1>1, <1>2, <1>3, <2>2, <2>3 DEF TableInv, history
<1>5. AuditIsWhole'
  BY <1>2 DEF IInv, AuditIsWhole, history
<1>6. TypeOK' /\ CallInv' /\ WorkInv'
  <2>1. CASE ClearPlan
    BY <1>2, <1>3, <2>1, WentTo DEF ClearPlan
  <2>2. CASE CommitPlan
    <3>1. candidates = {} /\ candidates' = Generated[Request.space]
      BY <1>1, <2>2 DEF CommitPlan, CallInv
    <3>2. CASE Stop
      BY <1>2, <1>3, <3>2, Stopped
    <3>3. CASE GoTo("open")
      BY <1>2, <1>3, <2>2, <3>1, <3>3, WentTo DEF CommitPlan
    <3> QED BY <2>2, <3>2, <3>3 DEF CommitPlan
  <2>3. CASE OpenCheckpoint
    <3>1. at = "open" /\ candidates' = Generated[Request.space]
      BY <1>1, <2>3 DEF OpenCheckpoint, CallInv, PlanIsOfTheRequest
    <3>2. CASE Stop
      BY <1>2, <1>3, <3>2, Stopped
    <3>3. CASE context' = Context(Request) /\ GoTo("validate")
      BY <1>2, <1>3, <3>1, <3>3, WentTo
    <3> QED BY <2>3, <3>2, <3>3 DEF OpenCheckpoint
  <2>4. CASE ValidatePrevious
    <3>1. /\ at = "validate" /\ candidates' = Generated[Request.space]
          /\ context' = Context(Request)
      BY <1>1, <2>4 DEF ValidatePrevious, CallInv, PlanIsOfTheRequest, disk
    <3>2. CASE Stop
      BY <1>2, <1>3, <3>2, Stopped
    <3>3. CASE GoTo("next")
      BY <1>2, <1>3, <3>1, <3>3, WentTo
    <3> QED BY <2>4, <3>2, <3>3 DEF ValidatePrevious
  <2> QED BY <2>1, <2>2, <2>3, <2>4
<1> QED BY <1>2, <1>4, <1>5, <1>6, OutputKept DEF IInv

\* A call that ends without touching a table.
LEMMA EndStep ==
    ASSUME IInv, runner # None, Stop, faults' \in 0..MaxFaults,
           UNCHANGED <<candidates, context, results, audit, history>>,
           output' = output \/ ExportsAreReproducible'
    PROVE  IInv'
<1>1. candidates' \subseteq AllIds /\ DOMAIN results' \subseteq AllIds
  BY DEF IInv, TableInv
<1> QED BY <1>1, Stopped, TablesKept, OutputKept DEF IInv

LEMMA FailureStep ==
    ASSUME IInv, MaterialiseFails \/ EngineFails \/ StrayRow \/ Crash
    PROVE  IInv'
<1>1. runner # None
  BY DEF MaterialiseFails, EngineFails, StrayRow, Crash, IInv, TypeOK, Idle
<1>2. faults' \in 0..MaxFaults
  BY MiningAssumption DEF MaterialiseFails, EngineFails, StrayRow, Crash, IInv, TypeOK
<1>3. UNCHANGED <<candidates, context, results, audit, output, history>> /\ Stop
  BY DEF MaterialiseFails, EngineFails, StrayRow, Crash, disk
<1> QED BY <1>1, <1>2, <1>3, EndStep

\* The transaction of the current candidate, empty or not, holds the first rows.
LEMMA TransactionRows ==
    ASSUME IInv, at = "next", Pending # {}
    PROVE  /\ Current \in Pending /\ Current \in Generated[Request.space]
           /\ Current \in AllIds /\ Current \notin DOMAIN results
           /\ Trades[Current] \in Nat /\ Evaluation.cid = Current
           /\ \E n \in 0..Trades[Current] : tx = Rows(Evaluation, n)
<1>1. Current \in Pending /\ Current \in AllIds
  BY CurrentIsPending DEF IInv
<1>2. candidates = Generated[Request.space]
  BY DEF IInv, CallInv, PlanIsOfTheRequest
<1>3. Trades[Current] \in Nat /\ Evaluation.cid = Current
  BY <1>1, IdsTyped DEF Evaluation, EvaluationId
<1>4. tx = <<>> => tx = Rows(Evaluation, 0)
  BY AllRows
<1>5. \E n \in 0..Trades[Current] : tx = Rows(Evaluation, n)
  BY <1>3, <1>4 DEF IInv, WorkInv
<1> QED BY <1>1, <1>2, <1>3, <1>5 DEF Pending

LEMMA PersistStep ==
    ASSUME IInv, PersistRow
    PROVE  IInv'
<1> USE DEF PersistRow, disk
<1>1. PICK n \in 0..Trades[Current] : tx = Rows(Evaluation, n)
  BY TransactionRows
<1>2. Trades[Current] \in Nat /\ n \in Nat /\ Len(tx) = n /\ n < Trades[Current]
  <2>1. Trades[Current] \in Nat
    BY TransactionRows
  <2>2. n \in Nat
    BY <2>1
  <2>3. Len(tx) = n
    BY <1>1, <2>2, RowsGrow
  <2> QED BY <2>1, <2>2, <2>3
<1>3. tx' = Rows(Evaluation, n + 1) /\ Len(tx') = n + 1
  BY <1>1, <1>2, RowsGrow
<1>4. Current' = Current /\ Evaluation' = Evaluation /\ Pending' = Pending /\ Request' = Request
  BY DEF Current, Pending, Evaluation, EvaluationId, Request
<1>5. runner # None
  BY DEF IInv, TypeOK, Idle
<1>6. TypeOK'
  BY <1>2, <1>3, <1>4, <1>5 DEF IInv, TypeOK
<1>7. CallInv'
  BY <1>4 DEF IInv, CallInv, PlanIsOfTheRequest, Context, EvaluationId
<1>8. WorkInv'
  <2>1. Rows(Evaluation, n + 1)' = Rows(Evaluation, n + 1)
    BY <1>4 DEF Rows, AuditRow
  <2>2. n + 1 \in 0..Trades[Current]
    BY <1>2
  <2>3. \E m \in 0..Trades[Current'] : tx' = Rows(Evaluation', m)
    BY <1>3, <1>4, <2>2
  <2> QED BY <1>4, <2>3 DEF WorkInv
<1> QED BY <1>6, <1>7, <1>8, TablesKept, OutputKept DEF IInv

LEMMA CommitStep ==
    ASSUME IInv, CommitCandidate
    PROVE  IInv'
<1> DEFINE c == Current
           e == Evaluation
<1>1. /\ at = "next" /\ Pending # {} /\ audit[c] = <<>> /\ Len(tx) = Trades[c]
      /\ audit' = [audit EXCEPT ![c] = tx]
      /\ results' = [d \in DOMAIN results \cup {c} |->
                        IF d = c THEN Result(e, Metrics(e), tx) ELSE results[d]]
      /\ evaluated' = [evaluated EXCEPT ![c] = @ + 1]
      /\ UNCHANGED <<candidates, context, output, staging, faults, damaged>>
  BY DEF CommitCandidate
<1>2. /\ c \in Generated[Request.space] /\ c \in AllIds /\ c \notin DOMAIN results
      /\ Trades[c] \in Nat /\ e.cid = c /\ tx = WholeAudit(e)
  <2>1. /\ c \in Generated[Request.space] /\ c \in AllIds /\ c \notin DOMAIN results
        /\ Trades[c] \in Nat /\ e.cid = c
    BY <1>1, TransactionRows
  <2>2. PICK n \in 0..Trades[c] : tx = Rows(e, n)
    BY <1>1, TransactionRows
  <2>3. n \in Nat
    BY <2>1
  <2>4. n = Trades[c]
    BY <1>1, <2>2, <2>3, RowsGrow
  <2> HIDE DEF c, e
  <2> QED BY <2>1, <2>2, <2>4, AllRows
<1>3. TypeOK /\ CallInv /\ TableInv /\ runner # None /\ Request \in Requests
  BY <1>1, RunnerIsCalled DEF IInv, TypeOK, Idle
<1>4. context = Context(Request) /\ context # None /\ e \in context.evaluations
  BY <1>1, <1>2, <1>3, ContextAssumption DEF CallInv, Context, Evaluation
<1>5. DOMAIN results' = DOMAIN results \cup {c} /\ DOMAIN results' \subseteq AllIds
  BY <1>1, <1>2, <1>3 DEF TableInv
<1>6. results'[c] = Result(e, Metrics(e), WholeAudit(e)) /\ audit'[c] = WholeAudit(e)
  BY <1>1, <1>2, <1>3 DEF TableInv
<1>7. \A d \in DOMAIN results : results'[d] = results[d]
  BY <1>1, <1>2
<1>8. \A d \in AllIds : d # c => audit'[d] = audit[d]
  BY <1>1, <1>2, <1>3 DEF TableInv
<1> HIDE DEF c, e
<1>9. TableInv'
  <2>1. Committed(results'[c], c) /\ results'[c].eid = e
    <3>1. Len(WholeAudit(e)) = Trades[c]
      BY <1>1, <1>2
    <3>2. results'[c] = [eid |-> e, metrics |-> Metrics(e),
                         digest |-> Digest(e, Metrics(e), WholeAudit(e)), count |-> Trades[c]]
      BY <1>6, <3>1 DEF Result
    <3>3. results'[c].eid = e
      BY <3>2
    <3> QED BY <1>2, <3>2, <3>3 DEF Committed
  <2>2. \A d \in DOMAIN results' :
            /\ Committed(results'[d], d)
            /\ context' # None /\ results'[d].eid \in context'.evaluations
    BY <1>1, <1>3, <1>4, <1>5, <1>7, <2>1 DEF TableInv
  <2>3. DOMAIN audit' = AllIds /\ audit' = [d \in AllIds |-> audit'[d]]
    BY <1>1, <1>3 DEF TableInv
  <2>4. evaluated' = [d \in AllIds |-> IF d \in DOMAIN results' THEN 1 ELSE 0]
    BY <1>1, <1>2, <1>3, <1>5 DEF TableInv
  <2> QED BY <1>1, <1>3, <1>5, <2>2, <2>3, <2>4 DEF TableInv
<1>10. AuditIsWhole'
  <2>1. results'[c].eid = e
    BY <1>6 DEF Result
  <2>2. \A d \in AllIds \ damaged :
            audit'[d] = IF d \in DOMAIN results' THEN WholeAudit(results'[d].eid) ELSE <<>>
    BY <1>5, <1>6, <1>7, <1>8, <2>1 DEF IInv, AuditIsWhole
  <2> QED BY <1>1, <2>2 DEF AuditIsWhole, WholeAudit, AuditRow
<1>11. TypeOK' /\ CallInv' /\ WorkInv'
  <2>1. faults' \in 0..MaxFaults /\ candidates' \subseteq AllIds
    BY <1>1, <1>3 DEF TypeOK
  <2>2. CASE Stop
    BY <1>3, <1>5, <2>1, <2>2, Stopped
  <2>3. CASE tx' = <<>> /\ UNCHANGED <<call, runner, at>>
    <3>1. TypeOK'
      BY <1>1, <1>3, <1>5, <2>1, <2>3 DEF TypeOK
    <3>2. CallInv'
      BY <1>1, <1>3, <2>3 DEF CallInv, PlanIsOfTheRequest, Request, Context, EvaluationId
    <3>3. WorkInv'
      BY <1>1, <2>3 DEF WorkInv
    <3> QED BY <3>1, <3>2, <3>3
  <2> QED BY <2>2, <2>3 DEF CommitCandidate
<1> QED BY <1>1, <1>9, <1>10, <1>11, OutputKept DEF IInv

\* A digest is of the metrics and the whole audit: a result that validates is the
\* one that was committed, metrics and audit included.
LEMMA IntactMeansCommitted ==
    ASSUME NEW c \in AllIds, Committed(results[c], c), Intact(c)
    PROVE  LET e == EvaluationId(Request, c)
           IN  results[c] = Result(e, Metrics(e), WholeAudit(e)) /\ audit[c] = WholeAudit(e)
<1> DEFINE e == EvaluationId(Request, c)
<1>1. results[c].eid = e /\ e.cid = c
  BY DEF Intact, EvaluationId
<1> HIDE DEF e
<1>2. PICK m : results[c] = [eid |-> e, metrics |-> m,
                             digest |-> Digest(e, Metrics(e), WholeAudit(e)),
                             count |-> Trades[c]]
  BY <1>1 DEF Committed
<1>3. Digest(e, m, audit[c]) = Digest(e, Metrics(e), WholeAudit(e))
  BY <1>1, <1>2 DEF Intact
<1>4. m = Metrics(e) /\ audit[c] = WholeAudit(e)
  BY <1>3 DEF Digest
<1>5. Len(WholeAudit(e)) = Trades[c]
  BY <1>1, IdsTyped DEF WholeAudit
<1> QED BY <1>2, <1>4, <1>5 DEF Result, e

\* A complete batch that validates is a clean run of its request.
LEMMA ValidMeansClean ==
    ASSUME IInv, at = "next", Pending = {}, Valid
    PROVE  OfCleanRun([request |-> Request, results |-> results, audit |-> audit])
<1>1. candidates = Generated[Request.space] /\ TableInv
  BY DEF IInv, CallInv, PlanIsOfTheRequest
<1>2. DOMAIN results = Generated[Request.space]
  BY <1>1 DEF Valid, Pending
<1>3. \A c \in AllIds \ DOMAIN results : audit[c] = <<>>
  BY DEF Valid
<1>4. ASSUME NEW c \in DOMAIN results
      PROVE  LET e == EvaluationId(Request, c)
             IN  results[c] = Result(e, Metrics(e), WholeAudit(e)) /\ audit[c] = WholeAudit(e)
  BY <1>1, IntactMeansCommitted DEF TableInv, Valid
<1> QED BY <1>2, <1>3, <1>4 DEF OfCleanRun

LEMMA StageStep ==
    ASSUME IInv, Stage
    PROVE  IInv'
<1>1. /\ at = "next" /\ Pending = {}
      /\ UNCHANGED <<candidates, context, results, audit, output, faults, history>>
  BY DEF Stage
<1>2. TypeOK /\ CallInv /\ TableInv /\ runner # None /\ tx = <<>> /\ faults' \in 0..MaxFaults
  BY <1>1 DEF IInv, TypeOK, Idle
<1>3. CASE Stop
  BY <1>1, <1>2, <1>3, EndStep
<1>4. CASE Valid /\ GoTo("publish") /\ staging' = [request |-> Request, results |-> results, audit |-> audit]
  <2>1. at' = "publish" /\ UNCHANGED <<call, runner, tx>> /\ Request' = Request
    BY <1>4 DEF GoTo, Request
  <2>2. TypeOK'
    BY <1>1, <1>2, <2>1 DEF TypeOK
  <2>3. CallInv'
    BY <1>1, <1>2, <2>1 DEF CallInv, PlanIsOfTheRequest, Context, EvaluationId
  <2>4. WorkInv'
    BY <1>1, <1>2, <1>4, <2>1, ValidMeansClean DEF WorkInv, OfCleanRun
  <2> QED BY <1>1, <2>2, <2>3, <2>4, TablesKept, OutputKept DEF IInv
<1> QED BY <1>3, <1>4 DEF Stage

LEMMA PublishStep ==
    ASSUME IInv, Publish
    PROVE  IInv'
<1>1. runner # None /\ faults' \in 0..MaxFaults
  BY DEF Publish, IInv, TypeOK, Idle
<1>2. Stop /\ UNCHANGED <<candidates, context, results, audit, history>>
  BY DEF Publish
<1>3. output' = output \/ (output = None /\ output' = staging /\ OfCleanRun(staging))
  BY DEF Publish, IInv, WorkInv
<1>4. output' = output \/ ExportsAreReproducible'
  BY <1>3 DEF ExportsAreReproducible, OfCleanRun
<1> QED BY <1>1, <1>2, <1>4, EndStep

\* What others do outside a transaction leaves the memory of the runner as it was.
LEMMA MemoryKept ==
    ASSUME IInv, faults < MaxFaults, faults' = faults + 1, UNCHANGED <<staging, memory>>,
           DOMAIN results' \subseteq AllIds, \/ tx = <<>>
                                             \/ UNCHANGED <<results, audit>>,
           \/ UNCHANGED <<candidates, context>>
           \/ runner = None /\ candidates' = {}
    PROVE  TypeOK' /\ CallInv' /\ WorkInv'
<1> USE DEF memory
<1>1. TypeOK /\ CallInv /\ WorkInv
  BY DEF IInv
<1>2. faults' \in 0..MaxFaults
  BY <1>1, MiningAssumption DEF TypeOK
<1>3. candidates' \subseteq AllIds /\ Request' = Request
  BY <1>1 DEF TypeOK, Request
<1>4. tx = <<>> \/ (UNCHANGED <<candidates, results, audit>> /\ runner # None)
  BY <1>1 DEF TypeOK, Idle
<1>5. tx # <<>> => Pending' = Pending /\ Current' = Current /\ Evaluation' = Evaluation
  BY <1>3, <1>4 DEF Pending, Current, Evaluation, EvaluationId
<1>6. TypeOK'
  BY <1>1, <1>2, <1>3, <1>5 DEF TypeOK, Idle
<1>7. CallInv'
  <2>1. runner = None => at = "idle"
    BY <1>1 DEF TypeOK, Idle
  <2> QED BY <1>1, <1>3, <2>1 DEF CallInv, PlanIsOfTheRequest, Context, EvaluationId
<1>8. WorkInv'
  BY <1>1, <1>4, <1>5 DEF WorkInv, Rows, AuditRow, OfCleanRun
<1> QED BY <1>6, <1>7, <1>8

LEMMA OtherStep ==
    ASSUME IInv, OtherBatch
    PROVE  IInv'
<1>1. TypeOK' /\ CallInv' /\ WorkInv'
  BY MemoryKept DEF OtherBatch, IInv, TypeOK
<1>2. TableInv' /\ AuditIsWhole'
  BY TablesKept DEF OtherBatch
<1>3. ExportsAreReproducible'
  BY DEF OtherBatch, ExportsAreReproducible, Exported
<1> QED BY <1>1, <1>2, <1>3 DEF IInv

LEMMA DamageStep ==
    ASSUME IInv, NEW d \in Damages, NEW c \in AllIds, Damage(d, c)
    PROVE  IInv'
<1>1. TypeOK /\ TableInv /\ AuditIsWhole
  BY DEF IInv
<1>2. /\ faults < MaxFaults /\ faults' = faults + 1 /\ tx = <<>>
      /\ UNCHANGED <<output, staging, memory>>
  BY DEF Damage
<1>3. CASE d = "LOST"
  <2>1. /\ runner = None /\ candidates' = {} /\ context' = None /\ damaged' = {}
        /\ audit' = [x \in AllIds |-> <<>>] /\ evaluated' = [x \in AllIds |-> 0]
        /\ results' = Nothing
    BY <1>3 DEF Damage
  <2>2. DOMAIN results' = {}
    BY <2>1 DEF Nothing
  <2>3. TypeOK' /\ CallInv' /\ WorkInv'
    BY <1>2, <2>1, <2>2, MemoryKept
  <2>4. TableInv' /\ AuditIsWhole'
    BY <2>1, <2>2 DEF TableInv, AuditIsWhole
  <2> QED BY <1>2, <2>3, <2>4, OutputKept DEF IInv
<1>4. CASE d = "METRICS"
  <2>1. /\ c \in DOMAIN results /\ results' = [results EXCEPT ![c].metrics = <<"other", 0>>]
        /\ damaged' = damaged \cup {c} /\ UNCHANGED <<candidates, context, audit, evaluated>>
    BY <1>4 DEF Damage
  <2>2. DOMAIN results' = DOMAIN results
    BY <2>1
  <2>3. \A x \in DOMAIN results : x # c => results'[x] = results[x]
    BY <2>1
  <2>4. Committed(results'[c], c) /\ results'[c].eid = results[c].eid
    <3>1. results'[c] = [results[c] EXCEPT !.metrics = <<"other", 0>>]
      BY <2>1
    <3>2. Committed(results[c], c)
      BY <1>1, <2>1 DEF TableInv
    <3>3. PICK m : results[c] =
              [eid |-> results[c].eid, metrics |-> m,
               digest |-> Digest(results[c].eid, Metrics(results[c].eid), WholeAudit(results[c].eid)),
               count |-> Trades[c]]
      BY <3>2 DEF Committed
    <3>4. results'[c] =
              [eid |-> results[c].eid, metrics |-> <<"other", 0>>,
               digest |-> Digest(results[c].eid, Metrics(results[c].eid), WholeAudit(results[c].eid)),
               count |-> Trades[c]]
      BY <3>1, <3>3
    <3>5. results'[c].eid = results[c].eid
      BY <3>4
    <3> QED BY <3>2, <3>4, <3>5 DEF Committed
  <2>5. TableInv'
    <3>1. \A x \in DOMAIN results' :
              /\ Committed(results'[x], x)
              /\ context' # None /\ results'[x].eid \in context'.evaluations
      BY <1>1, <2>1, <2>2, <2>3, <2>4 DEF TableInv
    <3> QED BY <1>1, <2>1, <2>2, <3>1 DEF TableInv
  <2>6. AuditIsWhole'
    BY <1>1, <2>1, <2>2, <2>3 DEF AuditIsWhole
  <2>7. TypeOK' /\ CallInv' /\ WorkInv'
    BY <1>1, <1>2, <2>1, <2>2, MemoryKept DEF TypeOK
  <2> QED BY <1>2, <2>5, <2>6, <2>7, OutputKept DEF IInv
<1>5. CASE d \in {"ROW_MISSING", "ORPHAN_ROW"}
  <2>1. /\ \E rows : audit' = [audit EXCEPT ![c] = rows]
        /\ damaged' = damaged \cup {c} /\ UNCHANGED <<candidates, context, results, evaluated>>
    BY <1>5 DEF Damage
  <2>2. TableInv'
    BY <1>1, <2>1 DEF TableInv
  <2>3. AuditIsWhole'
    BY <1>1, <2>1 DEF AuditIsWhole, TableInv
  <2>4. TypeOK' /\ CallInv' /\ WorkInv'
    BY <1>1, <1>2, <2>1, MemoryKept DEF TypeOK
  <2> QED BY <1>2, <2>2, <2>3, <2>4, OutputKept DEF IInv
<1> QED BY <1>3, <1>4, <1>5 DEF Damage

(***************************************************************************)
(* The theorems.                                                           *)
(***************************************************************************)
LEMMA InitInv == Init => IInv
<1> SUFFICES ASSUME Init PROVE IInv
  OBVIOUS
<1> USE DEF Init, Idle, Nothing
<1>1. TypeOK
  BY MiningAssumption DEF TypeOK
<1>2. CallInv /\ WorkInv
  BY DEF CallInv, PlanIsOfTheRequest, WorkInv
<1>3. TableInv
  BY DEF TableInv
<1>4. AuditIsWhole /\ ExportsAreReproducible
  BY DEF AuditIsWhole, ExportsAreReproducible, Exported
<1> QED BY <1>1, <1>2, <1>3, <1>4 DEF IInv

LEMMA StepInv == IInv /\ [Next]_vars => IInv'
<1> SUFFICES ASSUME IInv, [Next]_vars PROVE IInv'
  OBVIOUS
<1>1. ASSUME NEW p \in Procs, NEW r \in Requests, NEW stop \in StopAfters, Call(p, r, stop)
      PROVE  IInv'
  BY <1>1, CallStep
<1>2. ASSUME NEW p \in Procs, Lock(p)
      PROVE  IInv'
  BY <1>2, LockStep
<1>3. CASE ClearPlan \/ CommitPlan \/ OpenCheckpoint \/ ValidatePrevious
  <2>1. runner # None
    BY <1>3 DEF ClearPlan, CommitPlan, OpenCheckpoint, ValidatePrevious, IInv, TypeOK, Idle
  <2> QED BY <1>3, <2>1, PlanStep
<1>4. CASE PersistRow
  BY <1>4, PersistStep
<1>5. CASE CommitCandidate
  BY <1>5, CommitStep
<1>6. CASE StrayRow \/ MaterialiseFails \/ EngineFails \/ Crash
  BY <1>6, FailureStep
<1>7. CASE Stage
  BY <1>7, StageStep
<1>8. CASE Publish
  BY <1>8, PublishStep
<1>9. CASE OtherBatch
  BY <1>9, OtherStep
<1>10. ASSUME NEW d \in Damages, NEW c \in AllIds, Damage(d, c)
       PROVE  IInv'
  BY <1>10, DamageStep
<1>11. CASE UNCHANGED vars
  <2>1. UNCHANGED <<candidates, context, results, audit, output, history, staging, faults>>
        /\ UNCHANGED <<call, runner, at, tx, executed>>
    BY <1>11 DEF vars, disk, memory
  <2>2. Request' = Request /\ Pending' = Pending /\ Current' = Current /\ Evaluation' = Evaluation
    BY <2>1 DEF Request, Pending, Current, Evaluation, EvaluationId
  <2>3. TypeOK'
    BY <2>1, <2>2 DEF IInv, TypeOK, Idle
  <2>4. CallInv'
    BY <2>1, <2>2 DEF IInv, CallInv, PlanIsOfTheRequest, Context, EvaluationId
  <2>5. WorkInv'
    BY <2>1, <2>2 DEF IInv, WorkInv, Rows, AuditRow, OfCleanRun
  <2> QED BY <2>1, <2>3, <2>4, <2>5, TablesKept, OutputKept DEF IInv
<1> QED BY <1>1, <1>2, <1>3, <1>4, <1>5, <1>6, <1>7, <1>8, <1>9, <1>10, <1>11 DEF Next, Step

\* The inductive invariant holds in every reachable state.
THEOREM Invariant == Spec => []IInv
BY InitInv, StepInv, PTL DEF Spec

\* Whatever different batches are started, stopped or die on a database
\* (batch.py, run_batch), its results are all of one context and each was
\* committed once, a batch works on its own space only, and a candidate that was
\* not damaged from outside has its whole audit or none of it.
THEOREM CommitsSound == Spec => []CommitsAreSound
<1>1. IInv => CommitsAreSound
  <2> SUFFICES ASSUME IInv PROVE CommitsAreSound
    OBVIOUS
  <2>1. ResultsAreOfOneContext
    BY DEF IInv, TableInv, ResultsAreOfOneContext
  <2>2. CommittedOnce
    BY DEF IInv, TableInv, CommittedOnce
  <2>3. TypeOK /\ PlanIsOfTheRequest /\ AuditIsWhole
    BY DEF IInv, CallInv
  <2> QED BY <2>1, <2>2, <2>3 DEF CommitsAreSound, CommitsAreOfTheRequest
<1> QED BY <1>1, Invariant, PTL

\* An output, of this database or of another, is never replaced or changed.
THEOREM OutputStays == Spec => OutputIsFinal
<1>1. [Next]_vars => (output # None => output' = output)
  BY DEF Next, Step, Call, Lock, MaterialiseFails, EngineFails, Crash, OtherBatch, Damage,
         ClearPlan, CommitPlan, OpenCheckpoint, ValidatePrevious, PersistRow,
         CommitCandidate, StrayRow, Stage, Publish, vars, disk
<1> QED BY <1>1, PTL DEF Spec, OutputIsFinal

\* What is exported (export.py, export_batch) is a clean run of its request over its whole
\* space, whatever was stopped, died or was damaged before, and is final.
THEOREM ExportsOfTheRun == Spec => ExportsAreOfTheRun
<1>1. IInv => ExportsAreReproducible
  BY DEF IInv
<1> QED BY <1>1, Invariant, OutputStays, PTL DEF ExportsAreOfTheRun
=============================================================================
