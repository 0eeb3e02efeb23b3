---------------------------- MODULE PlanPublication ----------------------------
(***************************************************************************)
(* Resolution of mining requests, the cache of composite candidate plans   *)
(* and the published bundles (packages/mining/src/quantlab_mining/         *)
(* auto_discovery.py, with the requests of contracts.py).                  *)
(*                                                                         *)
(* What one side generates is abstracted from CandidateSpace: its space is *)
(* a sequence of entries, each with a family, the candidate it stands for  *)
(* and the way it is written; some are rejected.  Identities are the       *)
(* semantic records they hash.  A directory appears by a rename; what a    *)
(* process has only staged is nobody else's.                               *)
(***************************************************************************)
EXTENDS Integers, Sequences, FiniteSets, Functions

CONSTANTS
    Processes,
    Requests,     \* mining requests
    Registry,     \* the profiles in the registry
    Path(_),      \* the checkpoint file a request is published with
    None,
    MaxFaults     \* interruptions, crashes and damage

VARIABLES
    cache,        \* plan directories by resolved_search_space_id
    bundles,      \* published bundle directories
    checkpoint,   \* by path
    pc, request, seen, plan,
    faults

vars == <<cache, bundles, checkpoint, pc, request, seen, plan, faults>>

Directions == {"BUY", "SELL"}

(***************************************************************************)
(* Identities.                                                             *)
(***************************************************************************)
\* Variant: the identity of a space forgets its candidates.
FamiliesOnly(entries) == {entries[n].family : n \in DOMAIN entries}

\* MiningSearchSpaceV1.semantic_record forgets how and how often it is written.
SpaceId(entries) ==
    {[family |-> entries[n].family, candidate |-> entries[n].candidate] : n \in DOMAIN entries}

ConstraintsId(c) ==
    [sides |-> [d \in Directions |-> IF c.sides[d].enabled THEN SpaceId(c.sides[d].entries) ELSE {}],
     policy |-> c.policy]

ProfileId(profile) ==
    [timeframes |-> profile.timeframes, constraints |-> ConstraintsId(profile.constraints),
     expected |-> profile.expected]

\* A constrained request has constraints, another names a profile.
Constrained(r) == r.profile = None
RequestId(r) ==
    [timeframes |-> r.timeframes, sides |-> r.sides,
     constraints |-> IF Constrained(r) THEN ConstraintsId(r.constraints) ELSE None,
     profile |-> IF Constrained(r) THEN None ELSE ProfileId(r.profile)]

(***************************************************************************)
(* resolve_request.                                                        *)
(***************************************************************************)
ConstraintsOf(r) == IF Constrained(r) THEN r.constraints ELSE r.profile.constraints
Wanted(r) == {d \in Directions : r.sides[d]}

Resolution(r) ==
    IF ~Constrained(r) /\ r.profile \notin Registry THEN "profile not found"
    ELSE IF ~Constrained(r) /\ ~(r.timeframes \subseteq r.profile.timeframes)
    THEN "timeframe outside profile"
    ELSE IF \E d \in Wanted(r) : ~ConstraintsOf(r).sides[d].enabled THEN "side outside constraints"
    ELSE "resolved"

ResolvedId(r) ==
    [request |-> RequestId(r), constraints |-> ConstraintsId(ConstraintsOf(r)),
     subspaces |-> [d \in Wanted(r) |-> SpaceId(ConstraintsOf(r).sides[d].entries)]]

(***************************************************************************)
(* The plan of a request.                                                  *)
(***************************************************************************)
\* What the generator finds for one side.
Subplan(r, d) ==
    LET entries == ConstraintsOf(r).sides[d].entries
        kept    == {n \in DOMAIN entries : ~entries[n].rejected}
        frames  == Cardinality(r.timeframes)
    IN  [total |-> Len(entries) * frames,
         rejected |-> (Len(entries) - Cardinality(kept)) * frames,
         candidates |-> {[direction |-> d, timeframe |-> f, candidate |-> entries[n].candidate] :
                            f \in r.timeframes, n \in kept},
         families |-> {<<entries[n].family, f, entries[n].candidate>> : f \in r.timeframes, n \in kept}]

\* Whether a candidate is rejected depends on what it is, not on who asks for it.
EntriesOf(r, d) ==
    LET entries == ConstraintsOf(r).sides[d].entries IN {entries[n] : n \in DOMAIN entries}

ASSUME RejectionAssumption ==
    \A r, s \in Requests, d \in Directions :
        \A a \in EntriesOf(r, d), b \in EntriesOf(s, d) :
            a.family = b.family /\ a.candidate = b.candidate => a.rejected = b.rejected

Over(policy, total, unique) == total > policy.limit \/ unique > policy.budget

\* Over the sides that are wanted.
Subplans(r) == [d \in Wanted(r) |-> Subplan(r, d)]
UnionOf(r) == UNION {Subplan(r, d).candidates : d \in Wanted(r)}

\* _merge_subplans: sides side by side, the limits once more for their union.
Manifest(r) ==
    LET sub    == Subplans(r)
        union  == UnionOf(r)
        total  == SumFunction([d \in Wanted(r) |-> sub[d].total])
        lost   == SumFunction([d \in Wanted(r) |-> sub[d].rejected])
        family == UNION {{e[1] : e \in sub[d].families} : d \in Wanted(r)}
    IN  [resolved |-> ResolvedId(r),
         subplans |-> [d \in Wanted(r) |-> <<sub[d].total, sub[d].rejected, Cardinality(sub[d].candidates)>>],
         counts |-> [T |-> total, R |-> lost, D |-> total - lost - Cardinality(union),
                     U |-> Cardinality(union)],
         by_direction |-> [d \in Wanted(r) |-> Cardinality(sub[d].candidates)],
         by_timeframe |-> [f \in r.timeframes |-> Cardinality({c \in union : c.timeframe = f})],
         by_family |-> [k \in family |->
             SumFunction([d \in Wanted(r) |-> Cardinality({e \in sub[d].families : e[1] = k})])],
         candidates |-> union]

\* A side that keeps nothing has no place in by_direction and fails too.
Planning(r) ==
    LET m == Manifest(r)
        policy == ConstraintsOf(r).policy
    IN  IF \/ \E d \in Wanted(r) : Over(policy, m.subplans[d][1], m.subplans[d][3])
           \/ Over(policy, m.counts.T, m.counts.U)
        THEN "limit"
        ELSE IF \E d \in Wanted(r) : m.by_direction[d] = 0 THEN "empty side" ELSE "planned"

Expected(m) == [counts |-> m.counts, by_direction |-> m.by_direction,
                by_timeframe |-> m.by_timeframe, by_family |-> m.by_family]

CompleteProfile(r) ==
    /\ ~Constrained(r) /\ r.timeframes = r.profile.timeframes
    /\ \A d \in Directions : r.sides[d] = r.profile.constraints.sides[d].enabled

\* verify_frozen_profile.
Frozen(r, m) == CompleteProfile(r) => Expected(m) = r.profile.expected

\* The five files of a bundle; the other three follow from the request.
Payloads(r, m) == [request |-> r, manifest |-> m]

\* The same, evaluated once for every request.
Context == [r \in Requests |-> ResolvedId(r)]
PlanOf == [r \in Requests |-> Manifest(r)]
Accepted == {r \in Requests : Resolution(r) = "resolved"}
Plannable == {r \in Accepted : Planning(r) = "planned"}
AsFrozen == {r \in Plannable : Frozen(r, PlanOf[r])}

ASSUME NoneAssumption ==
    /\ None \notin Requests
    /\ \A r \in Requests, d \in BOOLEAN : [manifest |-> PlanOf[r], damaged |-> d] # None
    /\ \A r \in Requests : PlanOf[r].candidates # None

(***************************************************************************)
(* publish_candidate_plan_bundle.                                          *)
(***************************************************************************)
NoCheckpoint == [phase |-> "none", context |-> None, universe |-> None, bundle |-> None]

Init ==
    /\ cache = [k \in {Context[r] : r \in Requests} |-> None]
    /\ bundles = {}
    /\ checkpoint = [path \in {Path(r) : r \in Requests} |-> NoCheckpoint]
    /\ pc = [p \in Processes |-> "idle"]
    /\ request = [p \in Processes |-> None]
    /\ seen = [p \in Processes |-> NoCheckpoint]
    /\ plan = [p \in Processes |-> None]
    /\ faults = 0

\* A call returns or raises.
End(p) ==
    /\ pc' = [pc EXCEPT ![p] = "idle"] /\ seen' = [seen EXCEPT ![p] = NoCheckpoint]
    /\ plan' = [plan EXCEPT ![p] = None] /\ request' = [request EXCEPT ![p] = None]
Goto(p, label) == pc' = [pc EXCEPT ![p] = label] /\ UNCHANGED <<request, seen>>

\* Variant: no checkpoint is taken up.
AcceptsNone(found, context) == found.phase = "none"

\* _read_checkpoint: one of another context is refused.
Resumable(found, context) == found.phase = "none" \/ found.context = context

\* The request is resolved and the checkpoint read; a refusal has no effect.
Begin(p, r) ==
    /\ pc[p] = "idle"
    /\ r \in Accepted
    /\ Resumable(checkpoint[Path(r)], Context[r])
    /\ pc' = [pc EXCEPT ![p] = "resolved"] /\ request' = [request EXCEPT ![p] = r]
    /\ seen' = [seen EXCEPT ![p] = checkpoint[Path(r)]] /\ UNCHANGED plan
    /\ UNCHANGED <<cache, bundles, checkpoint, faults>>

MarkResolved(p) ==
    /\ pc[p] = "resolved"
    /\ checkpoint' = IF seen[p].phase = "none"
                     THEN [checkpoint EXCEPT ![Path(request[p])] =
                              [NoCheckpoint EXCEPT !.phase = "RESOLVED", !.context = Context[request[p]]]]
                     ELSE checkpoint
    /\ \/ Goto(p, "plan") /\ UNCHANGED <<plan, faults>>
       \/ \* stop_after_resolution.
          faults < MaxFaults /\ faults' = faults + 1 /\ End(p)
    /\ UNCHANGED <<cache, bundles>>

\* _load_cached_plan: inventory, hashes, identities and payloads are checked.
Reuse(p, entry) ==
    IF entry.damaged THEN End(p)
    ELSE plan' = [plan EXCEPT ![p] = entry.manifest] /\ Goto(p, "bundle")

LookUp(p) ==
    /\ pc[p] = "plan"
    /\ LET entry == cache[Context[request[p]]]
       IN  IF entry # None THEN Reuse(p, entry)
           ELSE IF request[p] \notin Plannable THEN End(p)
           ELSE plan' = [plan EXCEPT ![p] = PlanOf[request[p]]] /\ Goto(p, "staged")
    /\ UNCHANGED <<cache, bundles, checkpoint, faults>>

\* Variant: the rename replaces what another process has published.
RenameOver(p) ==
    /\ pc[p] = "staged"
    /\ cache' = [cache EXCEPT ![Context[request[p]]] = [manifest |-> plan[p], damaged |-> FALSE]]
    /\ Goto(p, "bundle")
    /\ UNCHANGED <<bundles, checkpoint, faults, plan>>

\* os.replace fails when another process was first; its plan is taken.
Rename(p) ==
    /\ pc[p] = "staged"
    /\ LET key == Context[request[p]]
       IN  IF cache[key] # None THEN Reuse(p, cache[key]) /\ UNCHANGED cache
           ELSE /\ cache' = [cache EXCEPT ![key] = [manifest |-> plan[p], damaged |-> FALSE]]
                /\ Goto(p, "bundle") /\ UNCHANGED plan
    /\ UNCHANGED <<bundles, checkpoint, faults>>

\* Bundles are named by the hash of their files and validated byte by byte.
BundleOf(p) == Payloads(request[p], plan[p])
Published(payloads) == {b \in bundles : b.payloads = payloads}
Mismatch(p, b) == IF b.damaged THEN End(p) ELSE Goto(p, "finish") /\ UNCHANGED plan

Bundle(p) ==
    /\ pc[p] = "bundle"
    /\ IF ~Frozen(request[p], plan[p]) THEN End(p)
       ELSE IF seen[p].universe \notin {None, plan[p].candidates} THEN End(p)
       ELSE IF Published(BundleOf(p)) # {} THEN \E b \in Published(BundleOf(p)) : Mismatch(p, b)
       ELSE Goto(p, "stagedBundle") /\ UNCHANGED plan
    /\ UNCHANGED <<cache, bundles, checkpoint, faults>>

RenameBundle(p) ==
    /\ pc[p] = "stagedBundle"
    /\ IF Published(BundleOf(p)) # {}
       THEN (\E b \in Published(BundleOf(p)) : Mismatch(p, b)) /\ UNCHANGED bundles
       ELSE /\ bundles' = bundles \cup {[payloads |-> BundleOf(p), damaged |-> FALSE]}
            /\ Goto(p, "finish") /\ UNCHANGED plan
    /\ UNCHANGED <<cache, checkpoint, faults>>

MarkPublished(p) ==
    /\ pc[p] = "finish"
    /\ checkpoint' = [checkpoint EXCEPT ![Path(request[p])] =
            [phase |-> "PUBLISHED", context |-> Context[request[p]], universe |-> plan[p].candidates,
             bundle |-> BundleOf(p)]]
    /\ End(p)
    /\ UNCHANGED <<cache, bundles, faults>>

(***************************************************************************)
(* Faults.                                                                 *)
(***************************************************************************)
Crash(p) == pc[p] # "idle" /\ End(p) /\ UNCHANGED <<cache, bundles, checkpoint>>

DamagePlan ==
    /\ \E k \in DOMAIN cache : /\ cache[k] # None
                               /\ cache' = [cache EXCEPT ![k].damaged = TRUE]
    /\ UNCHANGED <<bundles, checkpoint, pc, request, seen, plan>>

DamageBundle ==
    /\ \E b \in bundles : bundles' = (bundles \ {b}) \cup {[b EXCEPT !.damaged = TRUE]}
    /\ UNCHANGED <<cache, checkpoint, pc, request, seen, plan>>

Fault == /\ faults < MaxFaults /\ faults' = faults + 1
         /\ (\E p \in Processes : Crash(p)) \/ DamagePlan \/ DamageBundle

Step(p) == MarkResolved(p) \/ LookUp(p) \/ Rename(p) \/ Bundle(p) \/ RenameBundle(p) \/ MarkPublished(p)

Next == (\E p \in Processes : Step(p) \/ \E r \in Requests : Begin(p, r)) \/ Fault

Spec == Init /\ [][Next]_vars

\* A call that is running goes on, and somebody always asks again.
Fairness(asked) ==
    /\ \A p \in Processes : WF_vars(Step(p))
    /\ \A r \in asked : SF_vars(\E p \in Processes : Begin(p, r))

(***************************************************************************)
(* load_candidate_plan_bundle, which only reads.                           *)
(***************************************************************************)
Loading(b) ==
    LET r == b.payloads.request
        m == b.payloads.manifest
        entry == cache[Context[r]]
    IN  IF b.damaged \/ r \notin Accepted THEN "bundle mismatch"
        ELSE IF entry = None \/ entry.damaged THEN "cache corrupt"
        ELSE IF entry.manifest # m THEN "universe mismatch"
        ELSE IF ~Frozen(r, m) THEN "cardinality mismatch" ELSE "loaded"

(***************************************************************************)
(* Properties.                                                             *)
(***************************************************************************)
\* The state has its type.
TypeOK ==
    /\ \A k \in DOMAIN cache : cache[k] = None \/ cache[k].manifest.resolved = k
    /\ \A b \in bundles : b.payloads.request \in Requests
    /\ \A p \in Processes : pc[p] = "idle" <=> request[p] = None

\* Whatever is published can be loaded, until something is damaged: the plan that
\* a bundle names stays the plan of its space (auto_discovery.py, 551-601).
PublishedBundlesLoad ==
    \A b \in bundles : ~b.damaged /\ ~cache[Context[b.payloads.request]].damaged => Loading(b) = "loaded"

\* A checkpoint says PUBLISHED only of a bundle that is there, in spite of crashes
\* and of another process at the same checkpoint.
PublishedMeansThere ==
    \A path \in DOMAIN checkpoint :
        checkpoint[path].phase = "PUBLISHED" => Published(checkpoint[path].bundle) # {}

\* What the checkpoint and the caches remember of a request is never held against
\* it: the identity of a space determines its candidates.
ResumesAgree ==
    \A p \in Processes : pc[p] = "bundle" => seen[p].universe \in {None, plan[p].candidates}

\* The candidates of a bundle are those its request asks for, whoever planned them.
BundlesHoldTheirCandidates ==
    \A b \in bundles : b.payloads.manifest.candidates = PlanOf[b.payloads.request].candidates

\* What is in a directory of the cache is never overwritten, and stays.
PlansAreImmutable ==
    [][\A k \in DOMAIN cache : cache[k] # None =>
          cache'[k] \in {cache[k], [cache[k] EXCEPT !.damaged = TRUE]}]_vars

\* Every request that can be planned is published in the end, in spite of
\* interruptions, crashes and others at work, unless files were damaged or its
\* checkpoint belongs to another context.
RequestsArePublished ==
    \A r \in Requests :
        /\ r \in AsFrozen
        /\ \A other \in Requests : Path(other) = Path(r) => Context[other] = Context[r]
        => <>(\/ \E b \in bundles : b.payloads.request = r
              \/ \E k \in DOMAIN cache : cache[k] # None /\ cache[k].damaged)

\* What a bundle says does not depend on what the cache held
\* (docs/architecture/tenth-increment-auto-discovery-v1.md, 47-48).
BundlesIgnoreTheCache ==
    \A b \in bundles : b.payloads.manifest = PlanOf[b.payloads.request]

\* Whatever is published is there, can be loaded and holds what was asked for, and
\* nothing remembered of a request is held against it.
BundlesAreSound ==
    TypeOK /\ PublishedBundlesLoad /\ PublishedMeansThere /\ BundlesHoldTheirCandidates /\ ResumesAgree
=============================================================================
