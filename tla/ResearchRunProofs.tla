--------------------------- MODULE ResearchRunProofs ---------------------------
(***************************************************************************)
(* Proofs about the research orchestrator, for every set of candidates,    *)
(* sessions, protocols and verdicts and every number of interruptions,     *)
(* crashes and damages to the freeze: the holdout is opened by the one     *)
(* pass set, frozen before; what is exported is what the protocol says;    *)
(* the checkpoint only grows, what it refers to is in the evaluation       *)
(* cache, and no run is refused for what an earlier one left undone.       *)
(*                                                                         *)
(* The argument: initialize binds the checkpoint to one protocol, so every *)
(* gate ever recorded is a verdict of that protocol; the loop over the     *)
(* candidates reaches pass_set only when all of them are gated, so each    *)
(* run computes the same pass set, and only a freeze of that set releases  *)
(* the holdout.  Within a stage the loops go over all sessions and all     *)
(* candidates again, so at its end everything is referenced, and what is   *)
(* referenced was committed to the cache before.                           *)
(***************************************************************************)
EXTENDS ResearchRun, WellFoundedInduction, TLAPS

\* Places of a run before it enters a stage, and within a session.
Opening == {"off", "plan", "backup", "cache", "initialize", "protocol", "freeze"}
InSession == {"evaluate", "reference", "interrupt", "publish"}

\* The arguments and loop variables of _stage, by the place of the run; the
\* access is released exactly while the Validation stage is under way.
PlaceInv ==
    /\ at # "off" => protocol \in Protocols
    /\ at \in Opening \cup {"gate", "pass_set", "release"} => stage = "DISCOVERY"
    /\ at \in {"compare", "export"} => stage = "VALIDATION"
    /\ at \in InSession \cup {"session"} => session \in SessionsOf(stage) /\ Ids(stage) # {}
    /\ at \in InSession \cup {"aggregate", "gate"} => cand \in Ids(stage)
    /\ released <=> stage = "VALIDATION"
    /\ ~released => approved = {}

\* A run that has passed initialize runs the protocol of the checkpoint.
BindingInv ==
    /\ protocolFile \in {None, meta}
    /\ at \notin {"off", "plan", "backup", "cache", "initialize"} => meta = protocol

\* A gate in the checkpoint is the verdict of its protocol on a result that is
\* there; Validation results are of the pass set, and compared when gated.
CheckpointInv ==
    /\ \A st \in Stages, c \in Candidates : gates[st][c] # "NONE" =>
          /\ meta # None
          /\ gates[st][c] = IF c \in passes[meta][st] THEN "PASS" ELSE "FAIL"
          /\ [stage |-> st, cid |-> c] \in results
    /\ \A c \in Validated : meta # None /\ c \in passes[meta]["DISCOVERY"]
    /\ comparisons = {c \in Candidates : gates["VALIDATION"][c] # "NONE"}

\* How far the loops over the candidates have come.
ProgressInv ==
    /\ at \in {"aggregate", "gate"} /\ stage = "DISCOVERY" =>
          \A c \in Candidates : c < cand => gates["DISCOVERY"][c] # "NONE"
    /\ at = "gate" => [stage |-> "DISCOVERY", cid |-> cand] \in results
    /\ at \in {"pass_set", "release"} \/ stage = "VALIDATION" =>
          \A c \in Candidates : gates["DISCOVERY"][c] # "NONE"
    /\ at = "aggregate" /\ stage = "VALIDATION" =>
          \A c \in approved : c < cand => c \in Validated
    /\ at \in {"compare", "export"} => approved \subseteq Validated
    /\ at = "compare" => \A c \in Validated : c <= cand => c \in comparisons
    /\ at = "export" => Validated \subseteq comparisons

\* An intact freeze is one that was published, and so is what a released run
\* was approved for.
FreezeInv ==
    /\ freeze.state = "intact" => freeze.ids \in frozenSets
    /\ released => approved \in frozenSets

\* The inductive invariant.
IInv ==
    /\ TypeOK /\ PlaceInv /\ BindingInv /\ CheckpointInv /\ ProgressInv /\ FreezeInv
    /\ OnePassSet /\ HoldoutOpensAfterFreeze /\ ExportsAreReproducible

(***************************************************************************)
(* Constants and operators.                                                *)
(***************************************************************************)
\* A set of numbers that is not empty has a least member, and Least is it.
LEMMA LeastIsLeast ==
    ASSUME NEW S \in SUBSET Nat, S # {}
    PROVE  Least(S) \in S /\ \A x \in S : Least(S) <= x
<1> DEFINE R == {ss \in Nat \X Nat : ss[1] < ss[2]}
<1>1. PICK x \in S : \A y \in S : <<y, x>> \notin R
  <2>1. IsWellFoundedOn(R, Nat)
    BY NatLessThanWellFounded DEF OpToRel
  <2> HIDE DEF R
  <2> QED BY <2>1, WFMin
<1>2. \A y \in S : x <= y
  <2> SUFFICES ASSUME NEW y \in S PROVE ~(y < x)
    OBVIOUS
  <2> QED BY <1>1
<1> QED BY <1>2 DEF Least

\* Both partitions have sessions, and sessions are numbers.
LEMMA SessionsTyped ==
    ASSUME NEW st \in Stages
    PROVE  /\ SessionsOf(st) \in SUBSET Nat /\ SessionsOf(st) # {} /\ 0 \notin SessionsOf(st)
           /\ SessionsOf(st) \subseteq Discovery \cup Validation
BY ResearchAssumption DEF SessionsOf, Stages

\* So are candidates.
LEMMA CandidatesTyped == Candidates \in SUBSET Nat /\ Candidates # {} /\ 0 \notin Candidates
BY ResearchAssumption

\* The candidates that the loop has still to visit are candidates; when it
\* goes on to the least of them, it has passed the ones that it had visited.
LEMMA NextIsLater ==
    ASSUME NEW S \in SUBSET Candidates, cand \in Candidates \cup {0}, Later(S) # {}
    PROVE  /\ Least(Later(S)) \in S
           /\ \A c \in S : c < Least(Later(S)) <=> c <= cand
<1>1. cand \in Nat /\ S \subseteq Nat /\ Later(S) \subseteq S
  BY CandidatesTyped DEF Later
<1>2. Least(Later(S)) \in Later(S) /\ \A c \in Later(S) : Least(Later(S)) <= c
  <2>1. Later(S) \in SUBSET Nat
    BY <1>1, Zenon
  <2> QED BY <2>1, LeastIsLeast
<1>3. \A c : c \in Later(S) <=> c \in S /\ c > cand
  BY DEF Later
<1>4. ASSUME NEW l \in Later(S), \A c \in Later(S) : l <= c, NEW c \in S
      PROVE  c < l <=> c <= cand
  <2>1. l \in Nat /\ l > cand /\ c \in Nat
    BY <1>1, <1>3
  <2>2. c > cand => l <= c
    BY <1>3, <1>4
  <2> QED BY <1>1, <2>1, <2>2
<1> QED BY <1>1, <1>2, <1>4

(***************************************************************************)
(* Steps and the invariant.                                                *)
(***************************************************************************)
\* The parts of the invariant that are about what was committed, published,
\* read and exported depend on nothing else.
LEMMA Undisturbed ==
    ASSUME IInv,
           UNCHANGED <<passes, meta, results, gates, comparisons, frozenSets, holdout, outputs>>
    PROVE  CheckpointInv' /\ OnePassSet' /\ HoldoutOpensAfterFreeze' /\ ExportsAreReproducible'
BY DEF IInv, CheckpointInv, OnePassSet, HoldoutOpensAfterFreeze, ExportsAreReproducible,
       Expected, Validated

\* What the memory of a run says is forgotten with it.
LEMMA EndKeepsInv ==
    ASSUME IInv,
           at' = "off", protocol' = None, limit' = 0, stopStage' = "VALIDATION",
           stage' = "DISCOVERY", session' = 0, cand' = 0, completed' = 0,
           approved' = {}, released' = FALSE, faults' \in 0..MaxFaults,
           UNCHANGED <<passes, composite, plan, meta, protocolFile, refs, results, gates,
                       comparisons, freeze, built, published, frozenSets, holdout>>,
           ExportsAreReproducible'
    PROVE  IInv'
<1>1. TypeOK'
  BY DEF IInv, TypeOK, Places, Stages
<1>2. CheckpointInv' /\ OnePassSet' /\ HoldoutOpensAfterFreeze'
  BY DEF IInv, CheckpointInv, OnePassSet, HoldoutOpensAfterFreeze, Validated
<1>3. PlaceInv' /\ BindingInv' /\ ProgressInv' /\ FreezeInv'
  BY DEF IInv, PlaceInv, BindingInv, ProgressInv, FreezeInv, Opening, InSession
<1> QED BY <1>1, <1>2, <1>3 DEF IInv

\* A run that is stopped.
LEMMA StopKeepsInv ==
    ASSUME IInv, NEW how, Stop(how), UNCHANGED durable
    PROVE  IInv'
<1>1. ExportsAreReproducible'
  BY Undisturbed DEF Stop, durable
<1>2. faults' \in 0..MaxFaults
  BY DEF Stop, IInv, TypeOK
<1> QED BY <1>1, <1>2, EndKeepsInv DEF Stop, durable

\* Before a stage is entered nothing is known of a run but its protocol.
LEMMA OpeningKeepsInv ==
    ASSUME IInv, Plan \/ Backup \/ OpenCache \/ Initialize \/ WriteProtocol
    PROVE  IInv'
<1> USE DEF GoTo, past
<1>1. ASSUME Plan PROVE IInv'
  <2>1. CASE Stop("CORRUPT_CHECKPOINT") /\ UNCHANGED plan
    BY <1>1, <2>1, StopKeepsInv DEF Plan, durable
  <2>2. CASE plan' \in {"empty", "installed"} /\ \E p \in {"backup", "cache"} : GoTo(p)
    <3>1. TypeOK'
      BY <1>1, <2>2 DEF Plan, IInv, TypeOK, Places
    <3>2. PlaceInv' /\ BindingInv' /\ ProgressInv' /\ FreezeInv'
      BY <1>1, <2>2 DEF Plan, IInv, PlaceInv, BindingInv, ProgressInv, FreezeInv, Opening, InSession
    <3> QED BY <1>1, <2>2, <3>1, <3>2, Undisturbed DEF Plan, IInv
  <2> QED BY <1>1, <2>1, <2>2 DEF Plan
<1>2. ASSUME Backup PROVE IInv'
  <2>1. TypeOK'
    BY <1>2 DEF Backup, IInv, TypeOK, Places
  <2>2. PlaceInv' /\ BindingInv' /\ ProgressInv' /\ FreezeInv'
    BY <1>2 DEF Backup, IInv, PlaceInv, BindingInv, ProgressInv, FreezeInv, Opening, InSession
  <2> QED BY <1>2, <2>1, <2>2, Undisturbed DEF Backup, IInv
<1>3. ASSUME OpenCache PROVE IInv'
  <2>1. CASE Stop("CACHE_BUSY")
    BY <1>3, <2>1, StopKeepsInv DEF OpenCache
  <2>2. CASE GoTo("initialize")
    <3>1. TypeOK'
      BY <1>3, <2>2 DEF OpenCache, durable, IInv, TypeOK, Places
    <3>2. PlaceInv' /\ BindingInv' /\ ProgressInv' /\ FreezeInv'
      BY <1>3, <2>2 DEF OpenCache, durable, IInv, PlaceInv, BindingInv, ProgressInv, FreezeInv,
                        Opening, InSession
    <3> QED BY <1>3, <2>2, <3>1, <3>2, Undisturbed DEF OpenCache, durable, IInv
  <2> QED BY <1>3, <2>1, <2>2 DEF OpenCache
<1>4. ASSUME Initialize PROVE IInv'
  <2>1. CASE meta \notin {None, protocol}
    BY <1>4, <2>1, StopKeepsInv DEF Initialize, durable
  <2>2. CASE meta \in {None, protocol}
    <3>1. protocol \in Protocols /\ protocol # None
      BY <1>4, ResearchAssumption DEF Initialize, IInv, PlaceInv
    <3>2. TypeOK'
      BY <1>4, <2>2, <3>1 DEF Initialize, IInv, TypeOK, Places
    <3>3. PlaceInv' /\ BindingInv' /\ ProgressInv' /\ FreezeInv'
      BY <1>4, <2>2, <3>1 DEF Initialize, IInv, PlaceInv, BindingInv, ProgressInv, FreezeInv,
                              Opening, InSession
    <3>4. CheckpointInv' /\ OnePassSet' /\ HoldoutOpensAfterFreeze' /\ ExportsAreReproducible'
      BY <1>4, <2>2, <3>1 DEF Initialize, IInv, CheckpointInv, OnePassSet, HoldoutOpensAfterFreeze,
                              ExportsAreReproducible, Expected, Validated
    <3> QED BY <3>2, <3>3, <3>4 DEF IInv
  <2> QED BY <2>1, <2>2
<1>5. ASSUME WriteProtocol PROVE IInv'
  <2>1. CASE protocolFile \notin {None, protocol}
    BY <1>5, <2>1, StopKeepsInv DEF WriteProtocol, durable
  <2>2. CASE protocolFile \in {None, protocol}
    <3>1. protocol = meta
      BY <1>5 DEF WriteProtocol, IInv, BindingInv
    <3>2. TypeOK'
      BY <1>5, <2>2, <3>1 DEF WriteProtocol, IInv, TypeOK, Places
    <3>3. PlaceInv' /\ BindingInv' /\ ProgressInv' /\ FreezeInv'
      BY <1>5, <2>2, <3>1 DEF WriteProtocol, IInv, PlaceInv, BindingInv, ProgressInv, FreezeInv,
                              Opening, InSession
    <3> QED BY <1>5, <2>2, <3>2, <3>3, Undisturbed DEF WriteProtocol, IInv
  <2> QED BY <2>1, <2>2
<1> QED BY <1>1, <1>2, <1>3, <1>4, <1>5

\* The Discovery stage is entered with nothing visited and nothing approved.
LEMMA CheckFreezeKeepsInv ==
    ASSUME IInv, CheckFreeze
    PROVE  IInv'
<1>1. CASE \E how \in {"INVALID_FREEZE", "MISSING_FREEZE"} : Stop(how)
  BY <1>1, StopKeepsInv DEF CheckFreeze
<1>2. CASE EnterStage("DISCOVERY", Candidates)
           /\ UNCHANGED <<passes, composite, protocol, limit, stopStage, approved, released, past>>
  <2>1. /\ at' = "session" /\ stage' = "DISCOVERY" /\ cand' = 0 /\ completed' = 0
        /\ session' \in SessionsOf("DISCOVERY")
    BY <1>2, SessionsTyped, LeastIsLeast, CandidatesTyped DEF EnterStage, Stages
  <2>2. TypeOK'
    BY <1>2, <2>1 DEF CheckFreeze, durable, past, IInv, TypeOK, Places, Stages, SessionsOf
  <2>3. PlaceInv' /\ BindingInv' /\ ProgressInv' /\ FreezeInv'
    BY <1>2, <2>1, CandidatesTyped
    DEF CheckFreeze, durable, past, IInv, PlaceInv, BindingInv, ProgressInv, FreezeInv, Opening,
        InSession, SessionsOf, Ids
  <2> QED BY <1>2, <2>2, <2>3, Undisturbed DEF CheckFreeze, durable, past, IInv
<1> QED BY <1>1, <1>2 DEF CheckFreeze

\* A session is resolved; its loop over the candidates begins.
LEMMA ResolveKeepsInv ==
    ASSUME IInv, ResolveSession
    PROVE  IInv'
<1>1. CASE ~Granted(None)
  BY <1>1, StopKeepsInv DEF ResolveSession
<1>2. CASE Granted(None)
  <2>1. Ids(stage) \in SUBSET Candidates /\ Ids(stage) # {} /\ session \in SessionsOf(stage)
    BY DEF ResolveSession, IInv, TypeOK, PlaceInv, Ids
  <2>2. cand' \in Ids(stage)
    <3>1. Ids(stage) \in SUBSET Nat
      BY <2>1, CandidatesTyped
    <3> QED BY <1>2, <2>1, <3>1, LeastIsLeast DEF ResolveSession
  <2>3. TypeOK'
    BY <1>2, <2>1, <2>2 DEF ResolveSession, Accessed, durable, IInv, TypeOK, Places, SessionsOf
  <2>4. PlaceInv' /\ BindingInv' /\ ProgressInv' /\ FreezeInv'
    BY <1>2, <2>1, <2>2
    DEF ResolveSession, durable, IInv, PlaceInv, BindingInv, ProgressInv, FreezeInv, Opening,
        InSession, Ids, SessionsOf, Validated
  <2>5. HoldoutOpensAfterFreeze'
    BY <1>2 DEF ResolveSession, Accessed, Granted, durable, IInv, PlaceInv, FreezeInv,
                HoldoutOpensAfterFreeze
  <2>6. CheckpointInv' /\ OnePassSet' /\ ExportsAreReproducible'
    BY <1>2 DEF ResolveSession, durable, IInv, CheckpointInv, OnePassSet, ExportsAreReproducible,
                Expected, Validated
  <2> QED BY <2>3, <2>4, <2>5, <2>6 DEF IInv
<1> QED BY <1>1, <1>2

\* A pack of evaluations is published: nothing else of the state changes.
LEMMA PublishTyped ==
    ASSUME TypeOK, NEW n, PublishPack(n)
    PROVE  built' = built /\ built' \subseteq Evals /\ published' \subseteq built'
BY DEF TypeOK, PublishPack, Store!Publish

\* An evaluation is found, published or built, and Validation data is read
\* for an approved candidate only.
LEMMA EvaluateKeepsInv ==
    ASSUME IInv, Evaluate
    PROVE  IInv'
<1> DEFINE e == Eval(cand, session)
<1>1. CASE ~Granted(cand)
  BY <1>1, StopKeepsInv DEF Evaluate, durable
<1>2. CASE Granted(cand)
  <2>1. /\ cand \in Ids(stage) /\ cand \in Candidates
        /\ session \in SessionsOf(stage)
        /\ stage \in Stages
    BY DEF Evaluate, IInv, TypeOK, PlaceInv, Ids, InSession
  <2>2. e \in Evals
    BY <2>1, SessionsTyped DEF Eval, Evals
  <2>3. built' \subseteq Evals /\ published' \subseteq built' /\ at' \in {"evaluate", "reference"}
    BY <1>2, <2>2, PublishTyped DEF Evaluate, Store!Build, IInv, TypeOK
  <2>4. TypeOK'
    BY <1>2, <2>1, <2>3 DEF Evaluate, Accessed, IInv, TypeOK, Places, SessionsOf
  <2>5. PlaceInv' /\ BindingInv' /\ ProgressInv' /\ FreezeInv'
    BY <1>2, <2>1, <2>3
    DEF Evaluate, IInv, PlaceInv, BindingInv, ProgressInv, FreezeInv, Opening, InSession, Ids,
        SessionsOf, Validated
  <2>6. HoldoutOpensAfterFreeze'
    BY <1>2 DEF Evaluate, Accessed, Granted, IInv, PlaceInv, FreezeInv, HoldoutOpensAfterFreeze
  <2>7. CheckpointInv' /\ OnePassSet' /\ ExportsAreReproducible'
    BY <1>2 DEF Evaluate, IInv, CheckpointInv, OnePassSet, ExportsAreReproducible, Expected,
                Validated
  <2> QED BY <2>4, <2>5, <2>6, <2>7 DEF IInv
<1> QED BY <1>1, <1>2

\* The evaluation is referenced, and the loop goes on, ends or is interrupted.
LEMMA ReferenceKeepsInv ==
    ASSUME IInv, Reference
    PROVE  IInv'
<1>1. /\ cand \in Ids(stage) /\ Ids(stage) \in SUBSET Candidates
      /\ session \in SessionsOf(stage) /\ stage \in Stages
  BY DEF Reference, IInv, TypeOK, PlaceInv, Ids, InSession
<1>2. cand' \in Ids(stage) /\ at' \in {"interrupt", "publish", "evaluate"}
  BY <1>1, NextIsLater DEF Reference
<1>3. [stage |-> stage, cid |-> cand, sid |-> session] \in
          [stage : Stages, cid : Candidates, sid : Discovery \cup Validation]
  BY <1>1, SessionsTyped
<1>4. TypeOK'
  <2>1. completed' \in Nat
    BY DEF Reference, IInv, TypeOK
  <2> QED BY <1>1, <1>2, <1>3, <2>1 DEF Reference, past, IInv, TypeOK, Places, SessionsOf
<1>5. PlaceInv' /\ BindingInv' /\ ProgressInv' /\ FreezeInv'
  BY <1>1, <1>2
  DEF Reference, past, IInv, PlaceInv, BindingInv, ProgressInv, FreezeInv, Opening, InSession, Ids,
      SessionsOf, Validated
<1> QED BY <1>4, <1>5, Undisturbed DEF Reference, past, IInv

\* What is ready is published before a run is interrupted, or a session ends;
\* then the candidates are visited from the first one again.
LEMMA SessionEndKeepsInv ==
    ASSUME IInv, Interrupt \/ EndSession
    PROVE  IInv'
<1>1. ASSUME NEW p \in {"interrupt", "publish"}, at = p, PublishPack(session), GoTo(p),
             UNCHANGED <<plan, meta, protocolFile, refs, results, gates, comparisons, freeze, outputs>>
      PROVE  IInv'
  <2>1. TypeOK'
    BY <1>1, PublishTyped DEF GoTo, past, IInv, TypeOK, Places, SessionsOf
  <2>2. PlaceInv' /\ BindingInv' /\ ProgressInv' /\ FreezeInv'
    BY <1>1 DEF GoTo, past, IInv, PlaceInv, BindingInv, ProgressInv, FreezeInv, Opening, InSession,
                Ids, SessionsOf, Validated
  <2> QED BY <1>1, <2>1, <2>2, Undisturbed DEF GoTo, past, IInv
<1>2. ASSUME Interrupt PROVE IInv'
  BY <1>1, <1>2, StopKeepsInv DEF Interrupt, durable
<1>3. ASSUME EndSession, Ready(session) = {} PROVE IInv'
  <2> DEFINE later == {n \in SessionsOf(stage) : n > session}
  <2>1. /\ Ids(stage) \in SUBSET Candidates /\ Ids(stage) # {}
        /\ session \in SessionsOf(stage) /\ stage \in Stages
    BY <1>3 DEF EndSession, IInv, TypeOK, PlaceInv, Ids, InSession
  <2>2. cand' \in Ids(stage) /\ \A c \in Ids(stage) : cand' <= c /\ c \in Nat /\ cand' \in Nat
    <3>1. Ids(stage) \in SUBSET Nat
      BY <2>1, CandidatesTyped
    <3> QED BY <1>3, <2>1, <3>1, LeastIsLeast DEF EndSession
  <2>3. session' \in SessionsOf(stage) /\ at' \in {"aggregate", "session"}
    <3>1. later \in SUBSET SessionsOf(stage) /\ later \in SUBSET Nat
      BY <2>1, SessionsTyped, Zenon
    <3> QED BY <1>3, <2>1, <3>1, LeastIsLeast DEF EndSession
  <2>4. TypeOK'
    BY <1>3, <2>1, <2>2, <2>3 DEF EndSession, past, IInv, TypeOK, Places, SessionsOf
  <2>5. PlaceInv' /\ BindingInv' /\ FreezeInv'
    BY <1>3, <2>1, <2>2, <2>3
    DEF EndSession, past, IInv, PlaceInv, BindingInv, FreezeInv, Opening, InSession, Ids, SessionsOf
  <2>6. ProgressInv'
    BY <1>3, <2>1, <2>2, <2>3 DEF EndSession, past, IInv, PlaceInv, ProgressInv, Ids, Validated
  <2> QED BY <1>3, <2>4, <2>5, <2>6, Undisturbed DEF EndSession, past, IInv
<1> QED BY <1>1, <1>2, <1>3 DEF EndSession

\* The loop over the candidates of a stage goes on, or ends.
LEMMA NextCandidateMoves ==
    ASSUME NEW S \in SUBSET Candidates, cand \in S, NEW again, NEW end,
           NextCandidate(S, again, end)
    PROVE  /\ cand' \in Candidates \cup {0}
           /\ \/ at' = again /\ cand' \in S /\ \A c \in S : c < cand' <=> c <= cand
              \/ at' = end /\ cand' = 0 /\ \A c \in S : c <= cand
<1>1. CASE Later(S) # {}
  BY <1>1, NextIsLater DEF NextCandidate
<1>2. CASE Later(S) = {}
  <2>1. \A c \in S : ~(c > cand) /\ c \in Nat
    BY <1>2, CandidatesTyped DEF Later
  <2> QED BY <1>2, <2>1 DEF NextCandidate
<1> QED BY <1>1, <1>2

\* A candidate gets its result, and on Validation the loop goes on.
LEMMA AggregateKeepsInv ==
    ASSUME IInv, Aggregate
    PROVE  IInv'
<1> DEFINE waiting == {Eval(cand, n) : n \in SessionsOf(stage)} \cap (built \ published)
<1>1. CASE \E how \in {"ACCESS_DENIED", "MISSING_REFERENCE", "MISSING_EVALUATION"} :
              Stop(how) /\ UNCHANGED <<results, built, published>>
  BY <1>1, StopKeepsInv DEF Aggregate, durable
<1>2. CASE /\ Granted(cand) /\ Accessed(cand)
           /\ \E e \in waiting : PublishPack(e.sid)
           /\ UNCHANGED <<passes, composite, results, memory, outcome, faults, frozenSets>>
  <2>1. cand \in Ids(stage) /\ stage \in Stages
    BY DEF Aggregate, IInv, TypeOK, PlaceInv, Ids
  <2>2. TypeOK'
    BY <1>2, <2>1, PublishTyped DEF Aggregate, Accessed, memory, IInv, TypeOK, Places, SessionsOf, Ids
  <2>3. PlaceInv' /\ BindingInv' /\ ProgressInv' /\ FreezeInv'
    BY <1>2 DEF Aggregate, memory, IInv, PlaceInv, BindingInv, ProgressInv, FreezeInv, Opening,
                InSession, Ids, SessionsOf, Validated
  <2>4. HoldoutOpensAfterFreeze'
    BY <1>2, <2>1 DEF Aggregate, Accessed, Granted, memory, IInv, PlaceInv, FreezeInv,
                      HoldoutOpensAfterFreeze
  <2>5. CheckpointInv' /\ OnePassSet' /\ ExportsAreReproducible'
    BY <1>2 DEF Aggregate, memory, IInv, CheckpointInv, OnePassSet, ExportsAreReproducible,
                Expected, Validated
  <2> QED BY <2>2, <2>3, <2>4, <2>5 DEF IInv
<1>3. CASE /\ Granted(cand) /\ Accessed(cand)
           /\ results' = results \cup {[stage |-> stage, cid |-> cand]}
           /\ IF stage = "DISCOVERY"
              THEN at' = "gate" /\ UNCHANGED <<passes, composite, protocol, limit, stopStage, stage,
                                               session, cand, completed, approved, released>>
              ELSE NextCandidate(approved, "aggregate", "compare")
           /\ UNCHANGED <<built, published, outcome, faults, frozenSets>>
  <2>1. cand \in Ids(stage) /\ stage \in Stages /\ cand \in Candidates /\ approved \in SUBSET Candidates
    BY DEF Aggregate, IInv, TypeOK, PlaceInv, Ids
  <2>2. stage' = stage /\ UNCHANGED <<passes, composite, protocol, limit, stopStage, session, completed, approved, released>>
    BY <1>3 DEF NextCandidate
  <2>3. \/ stage = "DISCOVERY" /\ at' = "gate" /\ cand' = cand
        \/ /\ stage = "VALIDATION" /\ at' = "aggregate" /\ cand' \in approved
           /\ \A c \in approved : c < cand' <=> c <= cand
        \/ stage = "VALIDATION" /\ at' = "compare" /\ cand' = 0 /\ \A c \in approved : c <= cand
    BY <1>3, <2>1, NextCandidateMoves DEF Ids, Stages
  <2>4. Validated' = IF stage = "VALIDATION" THEN Validated \cup {cand} ELSE Validated
    BY <1>3, <2>1 DEF Validated
  <2>5. TypeOK'
    <3>1. results' \subseteq [stage : Stages, cid : Candidates]
      BY <1>3, <2>1 DEF IInv, TypeOK
    <3>2. cand' \in Candidates \cup {0} /\ at' \in Places
      BY <2>1, <2>3 DEF Places
    <3> QED BY <1>3, <2>1, <2>2, <3>1, <3>2 DEF Aggregate, Accessed, IInv, TypeOK, SessionsOf
  <2>6. PlaceInv' /\ BindingInv' /\ FreezeInv'
    BY <1>3, <2>1, <2>2, <2>3 DEF Aggregate, IInv, PlaceInv, BindingInv, FreezeInv, Opening,
                                  InSession, Ids, SessionsOf
  <2>7. ProgressInv'
    <3>1. \A c \in approved : c <= cand => c < cand \/ c = cand
      BY <2>1, CandidatesTyped
    <3>2. \A c \in Validated' : ~(c <= 0)
      BY CandidatesTyped DEF Validated
    <3> QED BY <1>3, <2>1, <2>2, <2>3, <2>4, <3>1, <3>2 DEF Aggregate, IInv, PlaceInv, ProgressInv
  <2>8. HoldoutOpensAfterFreeze'
    BY <1>3, <2>1 DEF Aggregate, Accessed, Granted, IInv, PlaceInv, FreezeInv, HoldoutOpensAfterFreeze
  <2>9. CheckpointInv'
    <3>1. stage = "VALIDATION" => meta # None /\ cand \in passes[meta]["DISCOVERY"]
      BY <2>1 DEF IInv, PlaceInv, FreezeInv, OnePassSet, Ids
    <3> QED BY <1>3, <2>2, <2>4, <3>1 DEF Aggregate, IInv, CheckpointInv
  <2>10. OnePassSet' /\ ExportsAreReproducible'
    BY <1>3, <2>2 DEF Aggregate, IInv, OnePassSet, ExportsAreReproducible, Expected
  <2> QED BY <2>5, <2>6, <2>7, <2>8, <2>9, <2>10 DEF IInv
<1> QED BY <1>1, <1>2, <1>3 DEF Aggregate

\* The verdict on a candidate is of the protocol, and the loop goes on.
LEMMA GateKeepsInv ==
    ASSUME IInv, Gate
    PROVE  IInv'
<1>1. /\ stage = "DISCOVERY" /\ cand \in Candidates /\ meta = protocol /\ meta \in Protocols
      /\ meta # None
  BY ResearchAssumption DEF Gate, IInv, PlaceInv, BindingInv, Ids
<1>2. UNCHANGED <<passes, composite, protocol, limit, stopStage, stage, session, completed, approved, released>>
  BY DEF Gate, NextCandidate
<1>3. \/ at' = "aggregate" /\ cand' \in Candidates /\ \A c \in Candidates : c < cand' <=> c <= cand
      \/ at' = "pass_set" /\ cand' = 0 /\ \A c \in Candidates : c <= cand
  BY <1>1, NextCandidateMoves DEF Gate
<1>4. \A st \in Stages, c \in Candidates :
          gates'[st][c] = IF st = "DISCOVERY" /\ c = cand THEN Verdict("DISCOVERY", cand)
                          ELSE gates[st][c]
  BY <1>1 DEF Gate, IInv, TypeOK, Stages
<1>5. Verdict("DISCOVERY", cand) \in {"PASS", "FAIL"}
  BY DEF Verdict
<1>6. TypeOK'
  <2>1. gates' \in [Stages -> [Candidates -> {"NONE", "PASS", "FAIL"}]]
    BY <1>1, <1>5 DEF Gate, IInv, TypeOK, Stages
  <2>2. cand' \in Candidates \cup {0} /\ at' \in Places
    BY <1>3 DEF Places
  <2> QED BY <1>2, <2>1, <2>2 DEF Gate, past, IInv, TypeOK, SessionsOf
<1>7. PlaceInv' /\ BindingInv' /\ FreezeInv'
  BY <1>1, <1>2, <1>3 DEF Gate, past, IInv, PlaceInv, BindingInv, FreezeInv, Opening, InSession,
                          Ids, SessionsOf
<1>8. ProgressInv'
  <2>1. \A c \in Candidates : c <= cand => c < cand \/ c = cand
    BY <1>1, CandidatesTyped
  <2>2. \A c \in Candidates : c <= cand => gates'["DISCOVERY"][c] # "NONE"
    BY <1>1, <1>4, <1>5, <2>1 DEF Gate, IInv, ProgressInv, Stages
  <2> QED BY <1>1, <1>2, <1>3, <2>2 DEF Gate, IInv, PlaceInv, ProgressInv
<1>9. CheckpointInv'
  <2>1. \A c \in Candidates : gates'["VALIDATION"][c] = gates["VALIDATION"][c]
    BY <1>4 DEF Stages
  <2>2. Validated' = Validated
    BY DEF Gate, Validated
  <2>3. [stage |-> "DISCOVERY", cid |-> cand] \in results
    BY DEF Gate, IInv, ProgressInv
  <2> QED BY <1>1, <1>2, <1>4, <2>1, <2>2, <2>3 DEF Gate, Verdict, IInv, CheckpointInv
<1>10. OnePassSet' /\ HoldoutOpensAfterFreeze' /\ ExportsAreReproducible'
  BY <1>2 DEF Gate, past, IInv, OnePassSet, HoldoutOpensAfterFreeze, ExportsAreReproducible, Expected
<1> QED BY <1>6, <1>7, <1>8, <1>9, <1>10 DEF IInv

\* When all candidates are gated, the pass set is the one of the protocol.
LEMMA PassSetIsOfProtocol ==
    ASSUME IInv, at \in {"pass_set", "release"}
    PROVE  /\ meta = protocol /\ meta \in Protocols /\ meta # None
           /\ PassSet = passes[meta]["DISCOVERY"]
<1>1. meta = protocol /\ meta \in Protocols /\ meta # None
  BY ResearchAssumption DEF IInv, PlaceInv, BindingInv
<1>2. passes[meta]["DISCOVERY"] \subseteq Candidates
  BY <1>1, ResearchAssumption DEF IInv, TypeOK, Stages
<1>3. \A c \in Candidates : c \in PassSet <=> c \in passes[meta]["DISCOVERY"]
  BY DEF PassSet, IInv, ProgressInv, CheckpointInv, Stages
<1> QED BY <1>1, <1>2, <1>3 DEF PassSet

\* A freeze of the one pass set is published, or found.
LEMMA PublishFreezeKeepsInv ==
    ASSUME IInv, PublishFreeze
    PROVE  IInv'
<1> DEFINE same == UNCHANGED <<passes, composite, protocol, limit, stopStage, stage, session,
                               cand, completed, approved, released, outcome, faults, holdout>>
<1>1. CASE Stop("INVALID_FREEZE") /\ UNCHANGED freeze
  BY <1>1, StopKeepsInv DEF PublishFreeze, durable
<1>2. CASE /\ at' = "release" /\ same
           /\ \/ /\ freeze' = [state |-> "intact", ids |-> PassSet]
                 /\ frozenSets' = frozenSets \cup {PassSet}
              \/ UNCHANGED <<freeze, frozenSets>>
  <2>1. meta # None /\ PassSet = passes[meta]["DISCOVERY"] /\ PassSet \subseteq Candidates
    BY PassSetIsOfProtocol DEF PublishFreeze, PassSet
  <2>2. TypeOK'
    BY <1>2, <2>1 DEF PublishFreeze, IInv, TypeOK, Places, SessionsOf
  <2>3. PlaceInv' /\ BindingInv' /\ ProgressInv' /\ FreezeInv'
    BY <1>2 DEF PublishFreeze, IInv, PlaceInv, BindingInv, ProgressInv, FreezeInv, Opening,
                InSession, Ids, SessionsOf, Validated
  <2>4. OnePassSet' /\ HoldoutOpensAfterFreeze'
    BY <1>2, <2>1 DEF PublishFreeze, IInv, OnePassSet, HoldoutOpensAfterFreeze
  <2>5. CheckpointInv' /\ ExportsAreReproducible'
    BY <1>2 DEF PublishFreeze, IInv, CheckpointInv, ExportsAreReproducible, Expected, Validated
  <2> QED BY <2>2, <2>3, <2>4, <2>5 DEF IInv
<1> QED BY <1>1, <1>2 DEF PublishFreeze, GoTo, past

\* The holdout is released for a pass set that an intact freeze holds.
LEMMA ReleaseKeepsInv ==
    ASSUME IInv, Release
    PROVE  IInv'
<1>1. CASE freeze # [state |-> "intact", ids |-> PassSet]
  BY <1>1, StopKeepsInv DEF Release
<1>2. CASE freeze = [state |-> "intact", ids |-> PassSet]
  <2>1. PassSet \in SUBSET Candidates /\ PassSet \in frozenSets
    BY <1>2 DEF PassSet, IInv, FreezeInv
  <2>2. /\ approved' = PassSet /\ released' = TRUE /\ stage' = "VALIDATION" /\ cand' = 0
        /\ completed' = 0
        /\ UNCHANGED <<passes, composite, protocol, limit, stopStage, past, durable>>
    BY <1>2 DEF Release, EnterStage
  <2>3. \/ PassSet = {} /\ at' = "compare" /\ session' = 0
        \/ PassSet # {} /\ at' = "session" /\ session' \in SessionsOf("VALIDATION")
    BY <1>2, SessionsTyped, LeastIsLeast DEF Release, EnterStage, Stages
  <2>4. TypeOK'
    BY <2>1, <2>2, <2>3 DEF past, durable, IInv, TypeOK, Places, Stages, SessionsOf
  <2>5. PlaceInv' /\ BindingInv' /\ FreezeInv'
    BY <2>1, <2>2, <2>3 DEF Release, past, durable, IInv, PlaceInv, BindingInv, FreezeInv, Opening,
                            InSession, Ids, SessionsOf
  <2>6. ProgressInv'
    <3>1. \A c \in Validated' : ~(c <= 0)
      BY CandidatesTyped DEF Validated
    <3> QED BY <2>2, <2>3, <3>1 DEF Release, durable, IInv, ProgressInv
  <2> QED BY <2>2, <2>4, <2>5, <2>6, Undisturbed DEF past, durable, IInv
<1> QED BY <1>1, <1>2

\* The next Validation result is compared and gated, or all of them are.
LEMMA CompareKeepsInv ==
    ASSUME IInv, Compare
    PROVE  IInv'
<1>1. /\ stage = "VALIDATION" /\ Validated \in SUBSET Candidates
      /\ meta = protocol /\ meta \in Protocols /\ meta # None /\ cand \in Candidates \cup {0}
  BY ResearchAssumption DEF Compare, IInv, TypeOK, PlaceInv, BindingInv, Validated
<1>2. CASE Later(Validated) = {}
  <2>1. Validated \subseteq comparisons
    <3>1. \A c \in Validated : ~(c > cand) /\ c \in Nat /\ cand \in Nat
      BY <1>1, <1>2, CandidatesTyped DEF Later
    <3> QED BY <3>1 DEF Compare, IInv, ProgressInv
  <2>2. TypeOK'
    BY <1>2 DEF Compare, GoTo, past, IInv, TypeOK, Places, SessionsOf
  <2>3. PlaceInv' /\ BindingInv' /\ ProgressInv' /\ FreezeInv'
    BY <1>2, <2>1 DEF Compare, GoTo, past, IInv, PlaceInv, BindingInv, ProgressInv, FreezeInv,
                      Opening, InSession, Ids, SessionsOf, Validated
  <2> QED BY <1>2, <2>2, <2>3, Undisturbed DEF Compare, GoTo, past, IInv
<1>3. ASSUME Later(Validated) # {}, NEW c \in Validated, c = Least(Later(Validated)),
             \A d \in Validated : d < c <=> d <= cand
      PROVE  IInv'
  <2>1. /\ comparisons' = comparisons \cup {c}
        /\ gates' = [gates EXCEPT !["VALIDATION"][c] = Verdict("VALIDATION", c)]
        /\ cand' = c
        /\ UNCHANGED <<passes, composite, at, protocol, limit, stopStage, stage, session,
                       completed, approved, released, past>>
    BY <1>3 DEF Compare
  <2>2. \A st \in Stages, d \in Candidates :
            gates'[st][d] = IF st = "VALIDATION" /\ d = c THEN Verdict("VALIDATION", c)
                            ELSE gates[st][d]
    BY <1>1, <2>1 DEF IInv, TypeOK, Stages
  <2>3. Verdict("VALIDATION", c) \in {"PASS", "FAIL"} /\ c \in Candidates
    BY <1>1 DEF Verdict
  <2>4. Validated' = Validated /\ [stage |-> "VALIDATION", cid |-> c] \in results
    BY DEF Compare, Validated
  <2>5. TypeOK'
    <3>1. gates' \in [Stages -> [Candidates -> {"NONE", "PASS", "FAIL"}]]
      BY <2>1, <2>3 DEF IInv, TypeOK, Stages
    <3>2. comparisons' \subseteq Candidates
      BY <2>1, <2>3 DEF IInv, TypeOK
    <3> QED BY <2>1, <2>3, <3>1, <3>2 DEF Compare, past, IInv, TypeOK, SessionsOf
  <2>6. PlaceInv' /\ BindingInv' /\ FreezeInv'
    BY <2>1 DEF Compare, past, IInv, PlaceInv, BindingInv, FreezeInv, Opening, InSession, Ids,
                SessionsOf
  <2>7. ProgressInv'
    <3>1. \A d \in Validated : d <= c => d <= cand \/ d = c
      BY <1>1, <1>3, CandidatesTyped
    <3>2. \A d \in Candidates : gates'["DISCOVERY"][d] = gates["DISCOVERY"][d]
      BY <2>2 DEF Stages
    <3> QED BY <1>1, <2>1, <2>4, <3>1, <3>2 DEF Compare, IInv, ProgressInv
  <2>8. CheckpointInv'
    <3>1. comparisons' = {d \in Candidates : gates'["VALIDATION"][d] # "NONE"}
      BY <2>1, <2>2, <2>3 DEF IInv, CheckpointInv, Stages
    <3> QED BY <1>1, <2>1, <2>2, <2>4, <3>1 DEF Compare, Verdict, IInv, CheckpointInv
  <2>9. OnePassSet' /\ HoldoutOpensAfterFreeze' /\ ExportsAreReproducible'
    BY <2>1 DEF Compare, past, IInv, OnePassSet, HoldoutOpensAfterFreeze, ExportsAreReproducible,
                Expected
  <2> QED BY <2>5, <2>6, <2>7, <2>8, <2>9 DEF IInv
<1> QED BY <1>1, <1>2, <1>3, NextIsLater

\* What is exported is what the verdicts of the protocol say.
LEMMA ExportKeepsInv ==
    ASSUME IInv, Export
    PROVE  IInv'
<1>1. /\ stage = "VALIDATION" /\ released
      /\ meta = protocol /\ meta \in Protocols /\ meta # None
  BY ResearchAssumption DEF Export, IInv, PlaceInv, BindingInv
<1> DEFINE passD == passes[meta]["DISCOVERY"]
           passV == passD \cap passes[meta]["VALIDATION"]
<1>2. approved = passD /\ passD \subseteq Candidates
  BY <1>1 DEF IInv, TypeOK, FreezeInv, OnePassSet
<1>3. Validated = passD /\ comparisons = passD
  <2>1. Validated \subseteq passD
    BY DEF IInv, CheckpointInv
  <2>2. comparisons \subseteq Validated
    BY DEF IInv, CheckpointInv, Validated, Stages
  <2> QED BY <1>2, <2>1, <2>2 DEF Export, IInv, ProgressInv
<1>4. \A c \in Candidates :
          gates["VALIDATION"][c] = IF c \notin passD THEN "NONE"
                                   ELSE IF c \in passV THEN "PASS" ELSE "FAIL"
  BY <1>3 DEF IInv, CheckpointInv, Stages
<1>5. PassedValidation = passV
  BY <1>2, <1>4 DEF PassedValidation
<1>6. outputs' = outputs \cup {Expected(meta)}
  <2>1. gates["VALIDATION"] = [c \in Candidates |-> gates["VALIDATION"][c]]
    BY DEF IInv, TypeOK, Stages
  <2>2. gates["VALIDATION"] = [c \in Candidates |-> IF c \notin passD THEN "NONE"
                                                  ELSE IF c \in passV THEN "PASS" ELSE "FAIL"]
    BY <1>4, <2>1
  <2>3. [c \in Candidates |-> Status(c)] =
        [c \in Candidates |->
             IF c \in passV
             THEN [discovery |-> "DISCOVERY_PASSED", validation |-> "VALIDATION_PASSED"]
             ELSE IF c \in passD
             THEN [discovery |-> "DISCOVERY_PASSED", validation |-> "VALIDATION_FAILED_GATE"]
             ELSE [discovery |-> "DISCOVERY_FAILED_GATE", validation |-> "VALIDATION_NOT_RUN"]]
    BY <1>2, <1>5 DEF Status
  <2> QED BY <1>1, <1>2, <1>3, <2>2, <2>3 DEF Export, Expected
<1>7. ExportsAreReproducible'
  BY <1>1, <1>6 DEF Export, Stop, IInv, ExportsAreReproducible, Expected
<1>8. faults' \in 0..MaxFaults
  BY DEF Export, Stop, IInv, TypeOK
<1> QED BY <1>7, <1>8, EndKeepsInv DEF Export, Stop

\* The invariant holds initially.
LEMMA InitInv == Init => IInv
<1> SUFFICES ASSUME Init PROVE IInv
  OBVIOUS
<1> USE ResearchAssumption DEF Init, NoGate, Absent, Store!Init
<1>1. TypeOK
  <2>1. gates \in [Stages -> [Candidates -> {"NONE", "PASS", "FAIL"}]]
    OBVIOUS
  <2>2. freeze \in [state : {"absent", "intact", "altered"}, ids : SUBSET Candidates]
    OBVIOUS
  <2>3. limit \in Nat /\ completed \in Nat /\ faults \in 0..MaxFaults
    OBVIOUS
  <2>4. /\ stopStage \in Stages /\ stage \in Stages /\ at \in Places
        /\ session \in SessionsOf(stage) \cup {0} /\ cand \in Candidates \cup {0}
    BY DEF Stages, Places
  <2>5. /\ refs = {} /\ results = {} /\ comparisons = {} /\ built = {} /\ published = {}
        /\ approved = {} /\ frozenSets = {} /\ holdout = {} /\ released = FALSE
        /\ passes \in Verdicts /\ composite \in BOOLEAN /\ plan = "absent"
        /\ meta = None /\ protocolFile = None /\ protocol = None
    OBVIOUS
  <2> HIDE DEF Init
  <2> QED BY <2>1, <2>2, <2>3, <2>4, <2>5 DEF TypeOK
<1>2. PlaceInv /\ BindingInv /\ CheckpointInv /\ ProgressInv /\ FreezeInv
  BY DEF PlaceInv, BindingInv, CheckpointInv, ProgressInv, FreezeInv, Opening, InSession, Validated,
         Stages
<1>3. OnePassSet /\ HoldoutOpensAfterFreeze /\ ExportsAreReproducible
  BY DEF OnePassSet, HoldoutOpensAfterFreeze, ExportsAreReproducible
<1> QED BY <1>1, <1>2, <1>3 DEF IInv

\* Every step keeps the invariant.
LEMMA StepInv == IInv /\ [Next]_vars => IInv'
<1> SUFFICES ASSUME IInv, [Next]_vars PROVE IInv'
  OBVIOUS
<1>1. ASSUME NEW pr \in Protocols, NEW n \in StopAfters, NEW st \in Stages, Start(pr, n, st)
      PROVE  IInv'
  <2>1. TypeOK'
    BY <1>1, ResearchAssumption DEF Start, durable, past, IInv, TypeOK, Places, SessionsOf
  <2>2. PlaceInv' /\ BindingInv' /\ ProgressInv' /\ FreezeInv'
    BY <1>1 DEF Start, durable, past, IInv, PlaceInv, BindingInv, ProgressInv, FreezeInv, Opening,
                InSession, Ids, SessionsOf
  <2> QED BY <1>1, <2>1, <2>2, Undisturbed DEF Start, durable, past, IInv
<1>2. CASE Step
  BY <1>2, OpeningKeepsInv, CheckFreezeKeepsInv, ResolveKeepsInv, EvaluateKeepsInv,
     ReferenceKeepsInv, SessionEndKeepsInv, AggregateKeepsInv, GateKeepsInv, PublishFreezeKeepsInv,
     ReleaseKeepsInv, CompareKeepsInv, ExportKeepsInv DEF Step
<1>3. CASE Crash
  <2>1. ExportsAreReproducible'
    BY <1>3, Undisturbed DEF Crash, durable
  <2>2. faults' \in 0..MaxFaults
    BY <1>3, ResearchAssumption DEF Crash, IInv, TypeOK
  <2> QED BY <1>3, <2>1, <2>2, EndKeepsInv DEF Crash, durable
<1>4. CASE DamageFreeze
  <2>1. faults' \in 0..MaxFaults
    BY <1>4, ResearchAssumption DEF DamageFreeze, IInv, TypeOK
  <2>2. freeze' \in [state : {"absent", "intact", "altered"}, ids : SUBSET Candidates]
        /\ freeze'.state # "intact"
    BY <1>4 DEF DamageFreeze, Absent, IInv, TypeOK
  <2>3. TypeOK'
    BY <1>4, <2>1, <2>2 DEF DamageFreeze, memory, IInv, TypeOK, SessionsOf
  <2>4. PlaceInv' /\ BindingInv' /\ ProgressInv' /\ FreezeInv'
    BY <1>4, <2>2 DEF DamageFreeze, memory, IInv, PlaceInv, BindingInv, ProgressInv, FreezeInv,
                      Ids, SessionsOf, Validated
  <2> QED BY <1>4, <2>3, <2>4, Undisturbed DEF DamageFreeze, memory, IInv
<1>5. CASE UNCHANGED vars
  <2>1. TypeOK' /\ PlaceInv' /\ BindingInv' /\ ProgressInv' /\ FreezeInv'
    BY <1>5 DEF vars, durable, memory, past, IInv, TypeOK, PlaceInv, BindingInv, ProgressInv,
                FreezeInv, Ids, SessionsOf, Validated
  <2> QED BY <1>5, <2>1, Undisturbed DEF vars, durable, memory, past, IInv
<1> QED BY <1>1, <1>2, <1>3, <1>4, <1>5 DEF Next

\* The invariant is one.
THEOREM Invariant == Spec => []IInv
BY InitInv, StepInv, PTL DEF Spec

(***************************************************************************)
(* The theorems.                                                           *)
(***************************************************************************)
\* A damaged freeze opens nothing: the only step that releases the holdout
\* has just compared the freeze, and only a released run reads it.
LEMMA DamageStep ==
    ASSUME IInv, [Next]_vars, ~released,
           \/ freeze.state = "altered"
           \/ freeze.state = "absent" /\ \E r \in refs : r.stage = "VALIDATION"
    PROVE  ~released' /\ holdout' = holdout
<1>1. stage # "VALIDATION"
  BY DEF IInv, PlaceInv
<1>2. CASE UNCHANGED vars
  BY <1>2 DEF vars, memory, past
<1>3. CASE Step
  <2> USE DEF Stop, GoTo, past
  <2>1. CASE Plan \/ Backup \/ OpenCache \/ Initialize \/ WriteProtocol
    BY <2>1 DEF Plan, Backup, OpenCache, Initialize, WriteProtocol
  <2>2. CASE CheckFreeze \/ Reference
    BY <2>2 DEF CheckFreeze, Reference
  <2>3. CASE ResolveSession \/ Evaluate
    BY <1>1, <2>3 DEF ResolveSession, Evaluate, Accessed
  <2>4. CASE Interrupt \/ EndSession
    BY <2>4 DEF Interrupt, EndSession
  <2>5. CASE Aggregate
    <3>1. holdout' = holdout
      BY <1>1, <2>5 DEF Aggregate, Accessed
    <3>2. ~released'
      BY <2>5 DEF Aggregate, memory, NextCandidate
    <3> QED BY <3>1, <3>2
  <2>6. CASE Gate \/ Compare \/ Export
    BY <2>6 DEF Gate, NextCandidate, Compare, Export
  <2>7. CASE PublishFreeze
    BY <2>7 DEF PublishFreeze
  <2>8. CASE Release
    <3>1. freeze # [state |-> "intact", ids |-> PassSet]
      OBVIOUS
    <3> QED BY <2>8, <3>1 DEF Release
  <2> QED BY <1>3, <2>1, <2>2, <2>3, <2>4, <2>5, <2>6, <2>7, <2>8 DEF Step
<1>4. CASE Crash \/ DamageFreeze
  BY <1>4 DEF Crash, DamageFreeze, memory
<1>5. ASSUME NEW pr \in Protocols, NEW n \in StopAfters, NEW st \in Stages, Start(pr, n, st)
      PROVE  ~released' /\ holdout' = holdout
  BY <1>5 DEF Start, past
<1> QED BY <1>2, <1>3, <1>4, <1>5 DEF Next

\* Validation data is read only for members of the one pass set, published
\* before; a damaged freeze opens nothing.
THEOREM HoldoutSafe == Spec => HoldoutIsGuarded
<1>1. IInv => HoldoutOpensAfterFreeze /\ OnePassSet
  BY DEF IInv
<1>2. IInv /\ [Next]_vars =>
         [(/\ ~released
           /\ \/ freeze.state = "altered"
              \/ freeze.state = "absent" /\ \E r \in refs : r.stage = "VALIDATION")
          => ~released' /\ holdout' = holdout]_vars
  BY DamageStep
<1> QED BY Invariant, <1>1, <1>2, PTL DEF Spec, HoldoutIsGuarded, DamagedFreezeOpensNothing

\* What a gate in the checkpoint says.
LEMMA GatesAreVerdicts ==
    ASSUME IInv
    PROVE  \A st \in Stages, c \in Candidates :
               gates[st][c] # "NONE" => gates[st][c] = IF c \in passes[meta][st] THEN "PASS" ELSE "FAIL"
BY DEF IInv, CheckpointInv

\* A step that gates a candidate again records the verdict that is there.
LEMMA GrowthStep ==
    ASSUME IInv, [Next]_vars
    PROVE  /\ meta # None => meta' = meta
           /\ protocolFile # None => protocolFile' = protocolFile /\ protocolFile = meta
           /\ refs \subseteq refs' /\ results \subseteq results' /\ comparisons \subseteq comparisons'
           /\ \A st \in Stages, c \in Candidates : gates[st][c] # "NONE" => gates'[st][c] = gates[st][c]
           /\ outputs \subseteq outputs'
<1>1. protocolFile # None => protocolFile = meta
  BY DEF IInv, BindingInv
<1>2. CASE UNCHANGED <<meta, protocolFile, refs, results, gates, comparisons, outputs>>
  BY <1>1, <1>2
<1>3. CASE Initialize
  BY <1>1, <1>3 DEF Initialize
<1>4. CASE WriteProtocol
  BY <1>1, <1>4 DEF WriteProtocol
<1>5. CASE Reference
  BY <1>1, <1>5 DEF Reference
<1>6. CASE Aggregate
  <2>1. UNCHANGED <<meta, protocolFile, refs, gates, comparisons, outputs>> /\ results \subseteq results'
    BY <1>6 DEF Aggregate
  <2> QED BY <1>1, <2>1
<1>7. CASE Gate
  <2>1. /\ cand \in Candidates /\ meta = protocol
        /\ UNCHANGED <<passes, meta, protocolFile, refs, results, comparisons, outputs>>
    BY <1>7 DEF Gate, NextCandidate, IInv, PlaceInv, BindingInv, Ids
  <2>2. \A st \in Stages, c \in Candidates :
            gates'[st][c] = IF st = "DISCOVERY" /\ c = cand THEN Verdict("DISCOVERY", cand)
                            ELSE gates[st][c]
    BY <1>7, <2>1 DEF Gate, IInv, TypeOK, Stages
  <2>3. \A st \in Stages, c \in Candidates : gates[st][c] # "NONE" => gates'[st][c] = gates[st][c]
    BY <2>1, <2>2, GatesAreVerdicts DEF Verdict
  <2> QED BY <1>1, <2>1, <2>3
<1>8. CASE Compare
  <2>1. CASE UNCHANGED <<gates, comparisons>>
    BY <1>2, <1>8, <2>1 DEF Compare
  <2>2. CASE Later(Validated) # {}
    <3> DEFINE d == Least(Later(Validated))
    <3>1. /\ d \in Candidates /\ meta = protocol
          /\ UNCHANGED <<passes, meta, protocolFile, refs, results, outputs>>
          /\ comparisons' = comparisons \cup {d}
          /\ gates' = [gates EXCEPT !["VALIDATION"][d] = Verdict("VALIDATION", d)]
      <4>1. cand \in Candidates \cup {0} /\ Validated \in SUBSET Candidates
        BY DEF IInv, TypeOK, Validated
      <4>2. d \in Candidates
        BY <2>2, <4>1, NextIsLater
      <4> QED BY <1>8, <2>2, <4>2 DEF Compare, IInv, BindingInv
    <3> HIDE DEF d
    <3>2. \A st \in Stages, c \in Candidates :
              gates'[st][c] = IF st = "VALIDATION" /\ c = d THEN Verdict("VALIDATION", d)
                              ELSE gates[st][c]
      BY <3>1 DEF IInv, TypeOK, Stages
    <3>3. \A st \in Stages, c \in Candidates : gates[st][c] # "NONE" => gates'[st][c] = gates[st][c]
      BY <3>1, <3>2, GatesAreVerdicts DEF Verdict
    <3> QED BY <1>1, <3>1, <3>3
  <2> QED BY <1>8, <2>1, <2>2 DEF Compare
<1>9. CASE Export
  BY <1>1, <1>9 DEF Export
<1>10. CASE Plan \/ Backup \/ OpenCache \/ CheckFreeze \/ ResolveSession \/ Evaluate \/ Interrupt
            \/ EndSession \/ PublishFreeze \/ Release \/ Crash \/ DamageFreeze
  BY <1>2, <1>10 DEF Plan, Backup, OpenCache, CheckFreeze, ResolveSession, Evaluate, Interrupt,
                     EndSession, PublishFreeze, Release, Crash, DamageFreeze, durable
<1>11. ASSUME NEW pr \in Protocols, NEW n \in StopAfters, NEW st \in Stages, Start(pr, n, st)
       PROVE  UNCHANGED <<meta, protocolFile, refs, results, gates, comparisons, outputs>>
  BY <1>11 DEF Start, durable
<1>12. CASE UNCHANGED vars
  BY <1>2, <1>12 DEF vars, durable
<1> QED BY <1>2, <1>3, <1>4, <1>5, <1>6, <1>7, <1>8, <1>9, <1>10, <1>11, <1>12 DEF Next, Step

\* The state is typed, what is exported is what the protocol says, and what
\* was committed stays, over any number of runs, crashes and damages.
THEOREM ResumptionSound == Spec => ResumedWorkIsTheSame
<1>1. IInv => TypeOK /\ ExportsAreReproducible
  BY DEF IInv
<1>2. IInv /\ [Next]_vars =>
         [/\ meta # None => meta' = meta
          /\ protocolFile # None => protocolFile' = protocolFile /\ protocolFile = meta
          /\ refs \subseteq refs' /\ results \subseteq results' /\ comparisons \subseteq comparisons'
          /\ \A st \in Stages, c \in Candidates : gates[st][c] # "NONE" => gates'[st][c] = gates[st][c]
          /\ outputs \subseteq outputs']_vars
  BY GrowthStep
<1> QED BY Invariant, <1>1, <1>2, PTL DEF Spec, ResumedWorkIsTheSame, CheckpointOnlyGrows

(***************************************************************************)
(* What a resumed run finds.                                               *)
(***************************************************************************)
Ref(st, c, n) == [stage |-> st, cid |-> c, sid |-> n]

\* What the loops of a stage have referred to: all candidates in the sessions
\* before, the candidates before in this session, and in the end all in all.
LoopInv ==
    /\ at = "reference" => Eval(cand, session) \in built
    /\ at \in InSession \cup {"session"} =>
          \A n \in SessionsOf(stage), c \in Ids(stage) : n < session => Ref(stage, c, n) \in refs
    /\ at \in {"evaluate", "reference"} =>
          \A c \in Ids(stage) : c < cand => Ref(stage, c, session) \in refs
    /\ at = "publish" => \A c \in Ids(stage) : Ref(stage, c, session) \in refs
    /\ at \in {"aggregate", "gate"} =>
          \A n \in SessionsOf(stage), c \in Ids(stage) : Ref(stage, c, n) \in refs

WorkInv == LoopInv /\ ReferencesAreServed /\ RefusalsHaveACause

\* The checkpoint is as it was, and the cache has lost nothing.
LEMMA ServedStays ==
    ASSUME ReferencesAreServed, UNCHANGED <<refs, results>>,
           built \subseteq built', published \subseteq published'
    PROVE  ReferencesAreServed'
BY DEF ReferencesAreServed

\* A pack takes nothing out of the cache.
LEMMA PackGrows ==
    ASSUME NEW n, PublishPack(n)
    PROVE  built' = built /\ published \subseteq published'
BY DEF PublishPack, Store!Publish

\* A run that is refused, with a cause, or ends.
LEMMA RefusalKeepsWork ==
    ASSUME WorkInv, NEW how, Stop(how), UNCHANGED <<refs, results, freeze, built, published>>,
           how \notin {"ACCESS_DENIED", "MISSING_REFERENCE", "MISSING_EVALUATION"},
           how \in {"INVALID_FREEZE", "MISSING_FREEZE"} => freeze.state # "intact"
    PROVE  WorkInv'
<1>1. LoopInv'
  BY DEF Stop, LoopInv, InSession
<1>2. ReferencesAreServed'
  BY ServedStays DEF WorkInv
<1>3. RefusalsHaveACause'
  BY DEF Stop, RefusalsHaveACause
<1> QED BY <1>1, <1>2, <1>3 DEF WorkInv

\* A run that is outside the loops of a stage, or has just entered one.
LEMMA OutsideLoops ==
    ASSUME WorkInv, UNCHANGED <<refs, results, built, published, outcome>>,
           at' \notin InSession \cup {"off", "session", "aggregate", "gate"}
    PROVE  WorkInv'
<1>1. LoopInv'
  BY DEF LoopInv, InSession
<1>2. ReferencesAreServed'
  BY ServedStays DEF WorkInv
<1> QED BY <1>1, <1>2 DEF WorkInv, RefusalsHaveACause

LEMMA FirstSession ==
    ASSUME WorkInv, NEW st \in Stages, UNCHANGED <<refs, results, built, published, outcome>>,
           at' = "session", stage' = st, session' = Least(SessionsOf(st))
    PROVE  WorkInv'
<1>1. \A n \in SessionsOf(st) : ~(n < session')
  <2>1. SessionsOf(st) \in SUBSET Nat /\ SessionsOf(st) # {}
    BY SessionsTyped
  <2>2. Least(SessionsOf(st)) \in SessionsOf(st) /\ \A n \in SessionsOf(st) : Least(SessionsOf(st)) <= n
    BY <2>1, LeastIsLeast
  <2> QED BY <2>1, <2>2
<1>2. LoopInv'
  BY <1>1 DEF LoopInv, InSession, SessionsOf
<1>3. ReferencesAreServed'
  BY ServedStays DEF WorkInv
<1> QED BY <1>2, <1>3 DEF WorkInv, RefusalsHaveACause

\* The opening of a run and its freeze.
LEMMA OpeningKeepsWork ==
    ASSUME IInv, WorkInv,
           Plan \/ Backup \/ OpenCache \/ Initialize \/ WriteProtocol \/ CheckFreeze
    PROVE  WorkInv'
<1>1. CASE Plan \/ Backup \/ OpenCache \/ Initialize \/ WriteProtocol
  <2>1. UNCHANGED <<refs, results, freeze, built, published>>
    BY <1>1 DEF Plan, Backup, OpenCache, Initialize, WriteProtocol, durable
  <2>2. \/ \E p \in Opening \ {"off"} : GoTo(p)
        \/ \E how \in {"CORRUPT_CHECKPOINT", "CACHE_BUSY", "CONTEXT_MISMATCH"} : Stop(how)
    BY <1>1 DEF Plan, Backup, OpenCache, Initialize, WriteProtocol, Opening
  <2>3. ASSUME NEW p \in Opening \ {"off"}, GoTo(p) PROVE WorkInv'
    BY <2>1, <2>3, OutsideLoops DEF GoTo, past, Opening, InSession
  <2> QED BY <2>1, <2>2, <2>3, RefusalKeepsWork
<1>2. CASE CheckFreeze
  <2>1. UNCHANGED <<refs, results, freeze, built, published>>
    BY <1>2 DEF CheckFreeze, durable
  <2>2. CASE \E how \in {"INVALID_FREEZE", "MISSING_FREEZE"} : Stop(how) /\ freeze.state # "intact"
    BY <2>1, <2>2, RefusalKeepsWork
  <2>3. CASE EnterStage("DISCOVERY", Candidates) /\ UNCHANGED past
    BY <2>1, <2>3, FirstSession, CandidatesTyped DEF EnterStage, past, Stages, SessionsOf
  <2> QED BY <1>2, <2>2, <2>3 DEF CheckFreeze, past
<1> QED BY <1>1, <1>2

\* A run sees the sessions and the candidates that its loops come to.
LEMMA IsGranted ==
    ASSUME IInv, at \in InSession \cup {"session", "aggregate"}
    PROVE  /\ Ids(stage) \in SUBSET Candidates /\ Ids(stage) # {} /\ stage \in Stages
           /\ at # "aggregate" => session \in SessionsOf(stage)
           /\ Granted(None)
           /\ at # "session" => cand \in Ids(stage) /\ Granted(cand)
<1>1. /\ Ids(stage) \in SUBSET Candidates /\ Ids(stage) # {} /\ stage \in Stages
      /\ at # "aggregate" => session \in SessionsOf(stage)
      /\ at # "session" => cand \in Ids(stage)
  BY DEF IInv, TypeOK, PlaceInv, Ids, InSession
<1>2. stage = "VALIDATION" => released /\ approved = Ids(stage)
  BY DEF IInv, PlaceInv, Ids
<1>3. stage \in {"DISCOVERY", "VALIDATION"}
  BY <1>1 DEF Stages
<1> QED BY <1>1, <1>2, <1>3 DEF Granted

LEMMA ResolveKeepsWork ==
    ASSUME IInv, WorkInv, ResolveSession
    PROVE  WorkInv'
<1>1. Granted(None) /\ Ids(stage) \in SUBSET Nat /\ Ids(stage) # {}
  BY IsGranted, CandidatesTyped DEF ResolveSession
<1>2. /\ at' = "evaluate" /\ cand' = Least(Ids(stage))
      /\ UNCHANGED <<refs, results, built, published, outcome, stage, session, approved>>
  BY <1>1 DEF ResolveSession, durable
<1>3. \A c \in Ids(stage) : ~(c < cand')
  <2>1. Least(Ids(stage)) \in Ids(stage) /\ \A c \in Ids(stage) : Least(Ids(stage)) <= c
    BY <1>1, LeastIsLeast
  <2> QED BY <1>1, <1>2, <2>1
<1>4. LoopInv'
  BY <1>2, <1>3 DEF ResolveSession, WorkInv, LoopInv, InSession, Ids, SessionsOf
<1> QED BY <1>2, <1>4, ServedStays DEF WorkInv, RefusalsHaveACause

\* An evaluation is in the cache before it is referenced.
LEMMA EvaluateKeepsWork ==
    ASSUME IInv, WorkInv, Evaluate
    PROVE  WorkInv'
<1> DEFINE e == Eval(cand, session)
<1>1. Granted(cand)
  BY IsGranted DEF Evaluate, InSession
<1>2. /\ at = "evaluate" /\ at' \in {"evaluate", "reference"}
      /\ UNCHANGED <<refs, results, outcome, stage, session, cand, approved>>
  BY <1>1 DEF Evaluate
<1>3. built \subseteq built' /\ published \subseteq published' /\ (at' = "reference" => e \in built')
  BY <1>1, <1>2, PackGrows DEF Evaluate, Store!Build, IInv, TypeOK
<1>4. LoopInv'
  BY <1>2, <1>3 DEF WorkInv, LoopInv, InSession, Ids, SessionsOf, Eval
<1> QED BY <1>2, <1>3, <1>4, ServedStays DEF WorkInv, RefusalsHaveACause

\* The reference is to an evaluation that is there, and the loop passes the candidate.
LEMMA ReferenceKeepsWork ==
    ASSUME IInv, WorkInv, Reference
    PROVE  WorkInv'
<1>1. /\ cand \in Ids(stage) /\ Ids(stage) \in SUBSET Candidates /\ stage \in Stages
      /\ cand \in Candidates \cup {0}
  BY IsGranted DEF Reference, InSession
<1>2. /\ at = "reference" /\ refs' = refs \cup {Ref(stage, cand, session)}
      /\ UNCHANGED <<results, built, published, outcome, stage, session, approved>>
  BY DEF Reference, past, Ref
<1>3. \/ at' = "interrupt"
      \/ at' = "publish" /\ \A c \in Ids(stage) : c <= cand
      \/ at' = "evaluate" /\ \A c \in Ids(stage) : c < cand' => c <= cand
  <2>1. CASE Later(Ids(stage)) = {}
    <3>1. \A c \in Ids(stage) : ~(c > cand) /\ c \in Nat /\ cand \in Nat
      BY <1>1, <2>1, CandidatesTyped DEF Later
    <3> QED BY <2>1, <3>1 DEF Reference
  <2>2. CASE Later(Ids(stage)) # {}
    <3>1. \A c \in Ids(stage) : c < Least(Later(Ids(stage))) <=> c <= cand
      BY <1>1, <2>2, NextIsLater
    <3> QED BY <2>2, <3>1 DEF Reference
  <2> QED BY <2>1, <2>2
<1>4. \A c \in Ids(stage) : c <= cand => Ref(stage, c, session) \in refs'
  <2>1. \A c \in Ids(stage) : c <= cand => c < cand \/ c = cand
    BY <1>1, CandidatesTyped
  <2> QED BY <1>2, <2>1 DEF WorkInv, LoopInv
<1>5. LoopInv'
  BY <1>2, <1>3, <1>4 DEF WorkInv, LoopInv, InSession, Ids, SessionsOf
<1>6. ReferencesAreServed'
  <2>1. Ref(stage, cand, session).cid = cand /\ Ref(stage, cand, session).sid = session
    BY DEF Ref
  <2>2. Eval(cand, session) \in built
    BY <1>2 DEF WorkInv, LoopInv
  <2> QED BY <1>2, <2>1, <2>2 DEF WorkInv, ReferencesAreServed
<1> QED BY <1>2, <1>3, <1>5, <1>6 DEF WorkInv, RefusalsHaveACause

\* A session ends when all candidates are referenced in it.
LEMMA SessionEndKeepsWork ==
    ASSUME IInv, WorkInv, Interrupt \/ EndSession
    PROVE  WorkInv'
<1>1. ASSUME NEW p \in {"interrupt", "publish"}, at = p, PublishPack(session), GoTo(p),
             UNCHANGED <<refs, results>>
      PROVE  WorkInv'
  <2>1. LoopInv'
    BY <1>1, PackGrows DEF GoTo, past, WorkInv, LoopInv, InSession, Ids, SessionsOf
  <2> QED BY <1>1, <2>1, PackGrows, ServedStays DEF GoTo, past, WorkInv, RefusalsHaveACause
<1>2. ASSUME Interrupt PROVE WorkInv'
  BY <1>1, <1>2, RefusalKeepsWork DEF Interrupt
<1>3. ASSUME EndSession, Ready(session) = {} PROVE WorkInv'
  <2> DEFINE later == {n \in SessionsOf(stage) : n > session}
  <2>1. /\ stage \in Stages /\ session \in SessionsOf(stage)
        /\ SessionsOf(stage) \in SUBSET Nat /\ at = "publish"
        /\ UNCHANGED <<refs, results, built, published, outcome, stage, approved>>
    BY <1>3, IsGranted, SessionsTyped DEF EndSession, InSession, past
  <2>2. \A n \in SessionsOf(stage), c \in Ids(stage) : n <= session => Ref(stage, c, n) \in refs
    <3>1. \A n \in SessionsOf(stage) : n <= session => n < session \/ n = session
      BY <2>1
    <3> QED BY <2>1, <3>1 DEF WorkInv, LoopInv, InSession
  <2>3. CASE later = {}
    <3>1. \A n \in SessionsOf(stage) : n <= session
      BY <2>1, <2>3
    <3>2. at' = "aggregate"
      BY <1>3, <2>3 DEF EndSession
    <3>3. LoopInv'
      BY <2>1, <2>2, <3>1, <3>2 DEF LoopInv, InSession, Ids, SessionsOf
    <3> QED BY <2>1, <3>2, <3>3, ServedStays DEF WorkInv, RefusalsHaveACause
  <2>4. CASE later # {}
    <3>1. at' = "session" /\ session' = Least(later)
      BY <1>3, <2>4 DEF EndSession
    <3>2. \A n \in SessionsOf(stage) : n < session' => n <= session
      <4>1. later \in SUBSET Nat
        BY <2>1
      <4>2. Least(later) \in later /\ \A n \in later : Least(later) <= n
        BY <2>4, <4>1, LeastIsLeast
      <4>3. \A n \in SessionsOf(stage) : n > session => session' <= n
        BY <3>1, <4>2
      <4> QED BY <2>1, <3>1, <4>1, <4>2, <4>3
    <3>3. LoopInv'
      BY <2>1, <2>2, <3>1, <3>2 DEF LoopInv, InSession, Ids, SessionsOf
    <3> QED BY <2>1, <3>1, <3>3, ServedStays DEF WorkInv, RefusalsHaveACause
  <2> QED BY <2>3, <2>4
<1> QED BY <1>1, <1>2, <1>3 DEF EndSession

\* What is aggregated is all there, and published first.
LEMMA AggregateKeepsWork ==
    ASSUME IInv, WorkInv, Aggregate
    PROVE  WorkInv'
<1> DEFINE needed == {Eval(cand, n) : n \in SessionsOf(stage)}
           waiting == needed \cap (built \ published)
<1>1. Granted(cand) /\ cand \in Ids(stage) /\ stage \in Stages /\ at = "aggregate"
  BY IsGranted DEF Aggregate
<1>2. \A n \in SessionsOf(stage) : [stage |-> stage, cid |-> cand, sid |-> n] \in refs
  BY <1>1 DEF WorkInv, LoopInv, Ref
<1>3. needed \subseteq built
  <2>1. ASSUME NEW n \in SessionsOf(stage) PROVE Eval(cand, n) \in built
    <3> DEFINE r == [stage |-> stage, cid |-> cand, sid |-> n]
    <3>1. r \in refs /\ r.cid = cand /\ r.sid = n
      BY <1>2
    <3> HIDE DEF r
    <3> QED BY <3>1 DEF WorkInv, ReferencesAreServed
  <2> QED BY <2>1
<1>4. /\ UNCHANGED <<refs, outcome>>
      /\ IF waiting # {}
         THEN /\ \E e \in waiting : PublishPack(e.sid)
              /\ UNCHANGED <<results, memory>>
         ELSE /\ results' = results \cup {[stage |-> stage, cid |-> cand]}
              /\ IF stage = "DISCOVERY"
                 THEN at' = "gate" /\ UNCHANGED <<stage, approved>>
                 ELSE NextCandidate(approved, "aggregate", "compare")
              /\ UNCHANGED <<built, published>>
  BY <1>1, <1>2, <1>3 DEF Aggregate
<1>5. CASE waiting # {}
  <2>1. built' = built /\ published \subseteq published' /\ UNCHANGED <<refs, results, outcome, memory>>
    BY <1>4, <1>5, PackGrows
  <2>2. LoopInv'
    BY <1>1, <2>1 DEF memory, WorkInv, LoopInv, InSession, Ids, SessionsOf
  <2> QED BY <1>1, <2>1, <2>2, ServedStays DEF memory, WorkInv, RefusalsHaveACause
<1>6. CASE waiting = {}
  <2>1. /\ UNCHANGED <<refs, built, published, outcome, stage, approved>>
        /\ at' \in {"gate", "aggregate", "compare"}
    BY <1>4, <1>6 DEF NextCandidate
  <2>2. LoopInv'
    BY <1>1, <2>1 DEF WorkInv, LoopInv, InSession, Ids, SessionsOf
  <2>3. needed \subseteq published
    BY <1>3, <1>6
  <2>4. ReferencesAreServed'
    <3> DEFINE x == [stage |-> stage, cid |-> cand]
    <3>1. x.stage = stage /\ x.cid = cand /\ results' = results \cup {x}
      BY <1>4, <1>6
    <3> HIDE DEF x
    <3>2. \A n \in SessionsOf(x.stage) : /\ [stage |-> x.stage, cid |-> x.cid, sid |-> n] \in refs
                                         /\ Eval(x.cid, n) \in published
      BY <1>2, <2>3, <3>1
    <3> QED BY <2>1, <3>1, <3>2 DEF WorkInv, ReferencesAreServed, SessionsOf
  <2> QED BY <2>1, <2>2, <2>4 DEF WorkInv, RefusalsHaveACause
<1> QED BY <1>5, <1>6

\* The freeze that a run refuses is damaged: intact it is of the one pass set.
LEMMA FreezeKeepsWork ==
    ASSUME IInv, WorkInv, PublishFreeze \/ Release
    PROVE  WorkInv'
<1>1. freeze.state = "intact" => freeze = [state |-> "intact", ids |-> PassSet]
  <2>1. meta # None /\ PassSet = passes[meta]["DISCOVERY"]
    BY PassSetIsOfProtocol DEF PublishFreeze, Release
  <2>2. freeze = [state |-> freeze.state, ids |-> freeze.ids]
    BY DEF IInv, TypeOK
  <2>3. freeze.state = "intact" => freeze.ids = PassSet
    BY <2>1 DEF IInv, FreezeInv, OnePassSet
  <2> QED BY <2>2, <2>3
<1>2. UNCHANGED <<refs, results, built, published>>
  BY DEF PublishFreeze, Release, durable
<1>3. ASSUME Stop("INVALID_FREEZE"), UNCHANGED freeze, freeze.state # "intact" PROVE WorkInv'
  BY <1>2, <1>3, RefusalKeepsWork
<1>4. ASSUME PublishFreeze PROVE WorkInv'
  <2>1. \/ at' = "release" /\ outcome' = outcome
        \/ Stop("INVALID_FREEZE") /\ UNCHANGED freeze /\ freeze.state # "intact"
    BY <1>1, <1>4 DEF PublishFreeze, GoTo, past
  <2> QED BY <1>2, <1>3, <2>1, OutsideLoops DEF InSession
<1>5. ASSUME Release PROVE WorkInv'
  <2>1. CASE Stop("INVALID_FREEZE") /\ UNCHANGED freeze /\ freeze.state # "intact"
    BY <1>3, <2>1
  <2>2. CASE EnterStage("VALIDATION", PassSet) /\ UNCHANGED past
    <3>1. CASE PassSet = {}
      BY <1>2, <2>2, <3>1, OutsideLoops DEF EnterStage, past, InSession
    <3>2. CASE PassSet # {}
      BY <1>2, <2>2, <3>2, FirstSession DEF EnterStage, past, Stages, SessionsOf
    <3> QED BY <3>1, <3>2
  <2> QED BY <1>1, <1>5, <2>1, <2>2 DEF Release, durable
<1> QED BY <1>4, <1>5

\* Every step keeps it.
LEMMA WorkStep == IInv /\ WorkInv /\ [Next]_vars => WorkInv'
<1> SUFFICES ASSUME IInv, WorkInv, [Next]_vars PROVE WorkInv'
  OBVIOUS
<1>1. CASE Gate
  <2>1. /\ UNCHANGED <<refs, results, built, published, outcome, stage, approved>>
        /\ at = "gate" /\ at' \in {"aggregate", "pass_set"}
    BY <1>1 DEF Gate, NextCandidate, past
  <2>2. LoopInv'
    BY <2>1 DEF WorkInv, LoopInv, InSession, Ids, SessionsOf
  <2> QED BY <2>1, <2>2, ServedStays DEF WorkInv, RefusalsHaveACause
<1>2. CASE Compare
  <2>1. UNCHANGED <<refs, results, built, published, outcome>> /\ at' \in {"compare", "export"}
    BY <1>2 DEF Compare, GoTo, past
  <2> QED BY <2>1, OutsideLoops DEF InSession
<1>3. CASE Export
  BY <1>3, RefusalKeepsWork DEF Export
<1>4. CASE Crash
  <2>1. LoopInv'
    BY <1>4 DEF Crash, LoopInv, InSession
  <2>2. ReferencesAreServed'
    BY <1>4, ServedStays DEF Crash, durable, WorkInv
  <2> QED BY <1>4, <2>1, <2>2 DEF Crash, WorkInv, RefusalsHaveACause
<1>5. CASE DamageFreeze
  <2>1. /\ UNCHANGED <<refs, results, built, published, outcome, at, stage, session, cand, approved>>
        /\ freeze'.state # "intact"
    BY <1>5 DEF DamageFreeze, memory, Absent, IInv, TypeOK
  <2>2. LoopInv'
    BY <2>1 DEF WorkInv, LoopInv, Ids, SessionsOf
  <2> QED BY <2>1, <2>2, ServedStays DEF WorkInv, RefusalsHaveACause
<1>6. ASSUME NEW pr \in Protocols, NEW n \in StopAfters, NEW st \in Stages, Start(pr, n, st)
      PROVE  WorkInv'
  BY <1>6, OutsideLoops DEF Start, durable, past, InSession
<1>7. CASE UNCHANGED vars
  <2>1. LoopInv' /\ UNCHANGED <<refs, results, built, published, outcome, at, freeze>>
    BY <1>7 DEF vars, durable, memory, past, WorkInv, LoopInv, Ids, SessionsOf
  <2> QED BY <2>1, ServedStays DEF WorkInv, RefusalsHaveACause
<1> QED BY <1>1, <1>2, <1>3, <1>4, <1>5, <1>6, <1>7, OpeningKeepsWork, ResolveKeepsWork,
           EvaluateKeepsWork, ReferenceKeepsWork, SessionEndKeepsWork, AggregateKeepsWork,
           FreezeKeepsWork DEF Next, Step

\* However runs were interrupted, what the checkpoint refers to is in the cache, and no
\* run is refused for want of what an earlier one should have done.
THEOREM ResumptionFinds == Spec => []ResumptionFindsItsWork
<1>1. Init => WorkInv
  BY DEF Init, Store!Init, WorkInv, LoopInv, ReferencesAreServed, RefusalsHaveACause, InSession
<1>2. WorkInv => ResumptionFindsItsWork
  BY DEF WorkInv, ResumptionFindsItsWork
<1> QED BY Invariant, WorkStep, <1>1, <1>2, PTL DEF Spec
=============================================================================
