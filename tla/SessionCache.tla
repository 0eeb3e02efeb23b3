----------------------------- MODULE SessionCache -----------------------------
(***************************************************************************)
(* The session-evaluation cache                                            *)
(* (packages/research/src/quantlab_research/session_cache.py): a SQLite    *)
(* index guarded by one writer lock, and immutable content-addressed packs *)
(* beside it.  A result is committed to the index first and packed later,  *)
(* in two steps that no transaction joins: the pack file is renamed into   *)
(* place, then the index is told.  Processes may die between any two       *)
(* steps, and a pack may be damaged from outside.                          *)
(*                                                                         *)
(* An evaluation is named by a number; the numbers follow the order        *)
(* (session_id, id) in which publish_pending reads the rows.  A pack is    *)
(* named by the hash of its bytes, and these are a function of the         *)
(* evaluations it holds: here a pack is that set.  Left out: temporary     *)
(* files (no reader looks at them) and damage to the index itself.         *)
(***************************************************************************)
EXTENDS Integers, FiniteSets

CONSTANTS
    Procs,            \* processes that open the cache
    Sessions,         \* trading sessions
    Evals,            \* evaluations, and
    SessionOf,        \* the session of each
    PackCandidates,   \* PACK_CANDIDATES
    NoProc            \* nobody holds the lock

ASSUME CacheAssumption ==
    /\ Sessions \subseteq Nat \ {0}
    /\ Evals \subseteq Nat \ {0}
    /\ SessionOf \in [Evals -> Sessions]
    /\ \A a, b \in Evals : a < b => SessionOf[a] <= SessionOf[b]
    /\ PackCandidates \in Nat \ {0}
    /\ NoProc \notin Procs

VARIABLES
    lock,       \* holder of the lock on index.sqlite.lock
    stored,     \* evaluations with a committed row, audit rows included
    pack,       \* the pack column of the row; {} is NULL
    packs,      \* pack files on disk
    spoiled,    \* those whose bytes no longer have their hash
    at,         \* where each process is in the cache
    call,       \* the call it is serving
    pending,    \* rows its publish_pending has still to publish
    batch,      \* the rows of the pack it has just put in place
    verified,   \* verified_packs
    known       \* packs already spoiled when it opened the cache

disk == <<lock, stored, pack, packs, spoiled>>
process == <<at, call, pending, batch, verified, known>>
vars == <<lock, stored, pack, packs, spoiled, at, call, pending, batch, verified, known>>

AnySession == 0       \* publish_pending() without a session
NoCall == [kind |-> "none", eval |-> 0, session |-> AnySession]
LoadCall(e) == [kind |-> "load", eval |-> e, session |-> SessionOf[e]]
EvaluateCall(e) == [kind |-> "evaluate", eval |-> e, session |-> SessionOf[e]]
PublishCall(n) == [kind |-> "publish", eval |-> 0, session |-> n]

Init ==
    /\ lock = NoProc
    /\ stored = {}
    /\ pack = [e \in Evals |-> {}]
    /\ packs = {} /\ spoiled = {}
    /\ at = [p \in Procs |-> "closed"]
    /\ call = [p \in Procs |-> NoCall]
    /\ pending = [p \in Procs |-> {}]
    /\ batch = [p \in Procs |-> {}]
    /\ verified = [p \in Procs |-> {}]
    /\ known = [p \in Procs |-> {}]

\* Variant: the index is opened without the lock.
OpenUnlocked(p) ==
    /\ at[p] = "closed"
    /\ lock' = p
    /\ at' = [at EXCEPT ![p] = "idle"]
    /\ known' = [known EXCEPT ![p] = spoiled]
    /\ UNCHANGED <<stored, pack, packs, spoiled, call, pending, batch, verified>>

\* __init__: the lock is taken before the index is opened; a second process
\* gets an error and stays outside.
Open(p) ==
    /\ at[p] = "closed"
    /\ lock = NoProc
    /\ lock' = p
    /\ at' = [at EXCEPT ![p] = "idle"]
    /\ known' = [known EXCEPT ![p] = spoiled]
    /\ UNCHANGED <<stored, pack, packs, spoiled, call, pending, batch, verified>>

\* Variant: verified_packs outlives the opening.
LeaveKeepsVerified(p) ==
    /\ lock' = NoProc
    /\ at' = [at EXCEPT ![p] = "closed"]
    /\ call' = [call EXCEPT ![p] = NoCall]
    /\ pending' = [pending EXCEPT ![p] = {}]
    /\ batch' = [batch EXCEPT ![p] = {}]
    /\ known' = [known EXCEPT ![p] = {}]
    /\ UNCHANGED <<stored, pack, packs, spoiled, verified>>

\* Variant: results that are not in a pack yet are lost.
LeaveLosesReady(p) ==
    /\ lock' = NoProc
    /\ stored' = {e \in stored : pack[e] # {}}
    /\ at' = [at EXCEPT ![p] = "closed"]
    /\ call' = [call EXCEPT ![p] = NoCall]
    /\ pending' = [pending EXCEPT ![p] = {}]
    /\ batch' = [batch EXCEPT ![p] = {}]
    /\ verified' = [verified EXCEPT ![p] = {}]
    /\ known' = [known EXCEPT ![p] = {}]
    /\ UNCHANGED <<pack, packs, spoiled>>

\* close(), and what is left of a process that dies or raises: the lock is
\* released and an open transaction is rolled back.  The callers close the
\* cache in a finally clause, so an exception leaves no process inside.
Leave(p) ==
    /\ lock' = NoProc
    /\ at' = [at EXCEPT ![p] = "closed"]
    /\ call' = [call EXCEPT ![p] = NoCall]
    /\ pending' = [pending EXCEPT ![p] = {}]
    /\ batch' = [batch EXCEPT ![p] = {}]
    /\ verified' = [verified EXCEPT ![p] = {}]
    /\ known' = [known EXCEPT ![p] = {}]
    /\ UNCHANGED <<stored, pack, packs, spoiled>>

Close(p) == at[p] = "idle" /\ Leave(p)

Crash(p) == at[p] # "closed" /\ Leave(p)

\* A call of a client: evaluate, load or publish_pending.
Call(p, c) ==
    /\ at[p] = "idle"
    /\ call' = [call EXCEPT ![p] = c]
    /\ at' = [at EXCEPT ![p] = IF c.kind = "publish" THEN "select" ELSE "load"]
    /\ UNCHANGED <<lock, stored, pack, packs, spoiled, pending, batch, verified, known>>

\* The call returns to the client.
Return(p) ==
    /\ at' = [at EXCEPT ![p] = "idle"]
    /\ call' = [call EXCEPT ![p] = NoCall]

\* load: a row without a pack is published before it is returned; a pack is
\* read and checked against its hash and the index once per opening.
Load(p) ==
    LET e == call[p].eval
    IN  /\ at[p] = "load"
        /\ \/ /\ e \notin stored
              /\ IF call[p].kind = "evaluate"
                 THEN /\ at' = [at EXCEPT ![p] = "build"]
                      /\ UNCHANGED call
                 ELSE Return(p)
              /\ UNCHANGED <<disk, pending, batch, verified, known>>
           \/ /\ e \in stored /\ pack[e] = {}
              /\ at' = [at EXCEPT ![p] = "select"]
              /\ UNCHANGED <<disk, call, pending, batch, verified, known>>
           \/ /\ e \in stored /\ pack[e] # {}
              /\ \/ /\ pack[e] \in verified[p]
                    /\ Return(p)
                    /\ UNCHANGED <<disk, pending, batch, verified, known>>
                 \/ /\ pack[e] \notin verified[p]
                    /\ pack[e] \in packs \ spoiled
                    /\ pack[e] \subseteq stored
                    /\ verified' = [verified EXCEPT ![p] = @ \cup {pack[e]}]
                    /\ Return(p)
                    /\ UNCHANGED <<disk, pending, batch, known>>
                 \/ /\ pack[e] \notin verified[p]
                    /\ ~(pack[e] \in packs \ spoiled /\ pack[e] \subseteq stored)
                    /\ Leave(p)

\* evaluate, when nothing was stored: one transaction writes the audit rows
\* and the row, or nothing when the backtest raises.
Build(p) ==
    /\ at[p] = "build"
    /\ \/ /\ call[p].eval \notin stored
          /\ stored' = stored \cup {call[p].eval}
          /\ Return(p)
          /\ UNCHANGED <<lock, pack, packs, spoiled, pending, batch, verified, known>>
       \/ Leave(p)

\* Variant: rows that have a pack are selected again.
SelectPublished(p) ==
    /\ at[p] = "select"
    /\ pending' = [pending EXCEPT ![p] =
                      {e \in stored : call[p].session \in {AnySession, SessionOf[e]}}]
    /\ at' = [at EXCEPT ![p] = "write"]
    /\ UNCHANGED <<disk, call, batch, verified, known>>

\* Variant: a session selects nothing.
SelectOnlyAll(p) ==
    /\ at[p] = "select"
    /\ pending' = [pending EXCEPT ![p] =
                      {e \in stored : pack[e] = {} /\ call[p].session = AnySession}]
    /\ at' = [at EXCEPT ![p] = "write"]
    /\ UNCHANGED <<disk, call, batch, verified, known>>

\* publish_pending: the query, whose sorted result is complete before the
\* first row is fetched.
Select(p) ==
    /\ at[p] = "select"
    /\ pending' = [pending EXCEPT ![p] =
                      {e \in stored : pack[e] = {} /\ call[p].session \in {AnySession, SessionOf[e]}}]
    /\ at' = [at EXCEPT ![p] = "write"]
    /\ UNCHANGED <<disk, call, batch, verified, known>>

\* The next fetchmany(PACK_CANDIDATES) of the rows q.
NextBatch(q, B) ==
    /\ B # {}
    /\ IF Cardinality(q) <= PackCandidates THEN B = q ELSE Cardinality(B) = PackCandidates
    /\ \A a \in B : \A b \in q \ B : a < b

\* Write the pack aside and rename it into place; a pack already there (left
\* by a process that died before Index) is checked and kept.
WritePack(p) ==
    /\ at[p] = "write"
    /\ pending[p] # {}
    /\ \E B \in SUBSET pending[p] :
          /\ NextBatch(pending[p], B)
          /\ IF B \in spoiled THEN Leave(p)
             ELSE /\ packs' = packs \cup {B}
                  /\ batch' = [batch EXCEPT ![p] = B]
                  /\ at' = [at EXCEPT ![p] = "index"]
                  /\ UNCHANGED <<lock, stored, pack, spoiled, call, pending, verified, known>>

\* Variant: all selected rows get the pack, not only those of the batch.
IndexSelected(p) ==
    /\ at[p] = "index"
    /\ pack' = [e \in Evals |-> IF e \in pending[p] THEN batch[p] ELSE pack[e]]
    /\ pending' = [pending EXCEPT ![p] = @ \ batch[p]]
    /\ batch' = [batch EXCEPT ![p] = {}]
    /\ at' = [at EXCEPT ![p] = "write"]
    /\ UNCHANGED <<lock, stored, packs, spoiled, call, verified, known>>

\* The transaction that gives the rows of the batch their pack.
Index(p) ==
    /\ at[p] = "index"
    /\ pack' = [e \in Evals |-> IF e \in batch[p] THEN batch[p] ELSE pack[e]]
    /\ pending' = [pending EXCEPT ![p] = @ \ batch[p]]
    /\ batch' = [batch EXCEPT ![p] = {}]
    /\ at' = [at EXCEPT ![p] = "write"]
    /\ UNCHANGED <<lock, stored, packs, spoiled, call, verified, known>>

\* Nothing is left to publish: return, or load again.
Published(p) ==
    /\ at[p] = "write"
    /\ pending[p] = {}
    /\ IF call[p].kind = "publish" THEN Return(p)
       ELSE at' = [at EXCEPT ![p] = "load"] /\ UNCHANGED call
    /\ UNCHANGED <<disk, pending, batch, verified, known>>

\* A pack file is damaged from outside.
Spoil(B) ==
    /\ B \in packs \ spoiled
    /\ spoiled' = spoiled \cup {B}
    /\ UNCHANGED <<lock, stored, pack, packs, process>>

\* A process serving a call.
Serve(p) ==
    Load(p) \/ Build(p) \/ Select(p) \/ WritePack(p) \/ Index(p) \/ Published(p)

Next ==
    \/ \E p \in Procs :
          \/ Open(p) \/ Close(p) \/ Crash(p) \/ Serve(p)
          \/ \E e \in Evals : Call(p, LoadCall(e)) \/ Call(p, EvaluateCall(e))
          \/ \E n \in Sessions \cup {AnySession} : Call(p, PublishCall(n))
    \/ \E B \in packs : Spoil(B)

\* A process that serves a call goes on serving it, unless it dies.
Spec == Init /\ [][Next]_vars /\ \A p \in Procs : WF_vars(Serve(p))

(***************************************************************************)
(* What the cache promises.                                                *)
(***************************************************************************)
CallType ==
    [kind : {"none", "load", "evaluate", "publish"}, eval : Evals \cup {0},
     session : Sessions \cup {AnySession}]

\* The state has its type, and whoever holds the lock is inside.
TypeOK ==
    /\ lock \in Procs \cup {NoProc}
    /\ lock # NoProc => at[lock] # "closed"
    /\ stored \subseteq Evals
    /\ pack \in [Evals -> SUBSET Evals]
    /\ packs \subseteq SUBSET Evals
    /\ spoiled \subseteq packs
    /\ at \in [Procs -> {"closed", "idle", "load", "build", "select", "write", "index"}]
    /\ call \in [Procs -> CallType]
    /\ pending \in [Procs -> SUBSET Evals]
    /\ batch \in [Procs -> SUBSET Evals]
    /\ verified \in [Procs -> SUBSET SUBSET Evals]
    /\ known \in [Procs -> SUBSET SUBSET Evals]

\* The index and the packs agree wherever a process died: a row that names a
\* pack is in that pack, the pack is on disk, and every row of the pack names
\* it; so no evaluation is ever served from two packs.
LocatedRowsArePublished ==
    \A e \in Evals : pack[e] # {} =>
        /\ e \in pack[e]
        /\ pack[e] \in packs
        /\ \A f \in pack[e] : pack[f] = pack[e]

\* A pack holds committed evaluations only, and not more than its limit; a
\* pack that no row names was left by a process that died, or is about to be
\* indexed, and none of its rows has lost its own place.
PacksHoldCommittedRows ==
    \A B \in packs :
        /\ B # {} /\ B \subseteq stored /\ Cardinality(B) <= PackCandidates
        /\ \A p \in Procs : at[p] = "index" /\ batch[p] = B => \A e \in B : pack[e] = {}

\* Index and packs agree in both directions.
PacksAgree == LocatedRowsArePublished /\ PacksHoldCommittedRows

\* At most one process is past the lock.
OneWriter ==
    \A p, q \in Procs : at[p] # "closed" /\ at[q] # "closed" => p = q

\* A committed evaluation, a pack and the place of a row are for ever: no
\* crash, retry or second process removes or replaces them.
EvaluationsAreImmutable ==
    [][/\ stored \subseteq stored'
       /\ packs \subseteq packs'
       /\ \A e \in Evals : pack[e] # {} => pack'[e] = pack[e]]_vars

\* Process p returns the stored record of e to its client in this step.
Serves(p, e) ==
    at[p] = "load" /\ at'[p] = "idle" /\ call[p].eval = e /\ e \in stored

\* Results are published before they are reused, and a pack that was damaged
\* before the process opened the cache is never served by it.
ServesOnlyIntactPacks ==
    [][\A p \in Procs, e \in Evals :
          Serves(p, e) => pack[e] \in packs /\ pack[e] \notin known[p]]_vars

\* Every call returns, raises or dies with its process: load does not publish
\* and load again for ever.
CallsReturn ==
    \A p \in Procs : at[p] # "closed" ~> at[p] \in {"idle", "closed"}

\* The index implements the abstract store.
Store == INSTANCE EvaluationStore WITH
    built <- stored,
    published <- {e \in Evals : pack[e] # {}}
ImplementsStore == Store!Spec
=============================================================================
