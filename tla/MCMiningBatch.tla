----------------------------- MODULE MCMiningBatch -----------------------------
(***************************************************************************)
(* Two spaces that share a candidate, and a third over the budget; two     *)
(* evaluation configurations; candidates with two, no and one audit rows.  *)
(***************************************************************************)
EXTENDS MiningBatch, TLC

CONSTANTS p, q

SomeSpaces == <<{1, 2}, {2, 3}, {1, 2, 3}>>
SomeTrades == <<2, 0, 1>>
Request_(space, evaluation) == [space |-> space, evaluation |-> evaluation, market |-> "m"]
SomeRequests == {Request_(1, "e"), Request_(1, "f"), Request_(2, "e"), Request_(3, "e")}
OneRequest == {Request_(1, "e")}
AllDamages == {"LOST", "METRICS", "ROW_MISSING", "ORPHAN_ROW"}
TwoProcs == {p, q}

\* Every request with every damage; every request with a crash alone; or one request,
\* watched until it is exported.
VARIABLE scene
Scenes ==
    "damaged" :> [of |-> SomeRequests, damages |-> AllDamages, faults |-> 2] @@
    "crashed" :> [of |-> SomeRequests, damages |-> {}, faults |-> 1] @@
    "watched" :> [of |-> OneRequest, damages |-> {}, faults |-> 2]
MCInit == Init /\ scene \in DOMAIN Scenes
MCNext ==
    /\ UNCHANGED scene
    /\ \/ \E k \in Procs, r \in Scenes[scene].of, stop \in StopAfters : Call(k, r, stop)
       \/ \E k \in Procs : Lock(k)
       \/ Step
       \/ MaterialiseFails
       \/ EngineFails
       \/ /\ faults < Scenes[scene].faults
          /\ \/ Crash
             \/ OtherBatch
             \/ \E d \in Scenes[scene].damages, c \in AllIds : Damage(d, c)
MCSpec == MCInit /\ [][MCNext]_<<vars, scene>> /\ WF_vars(Step)
          /\ \A k \in Procs, r \in OneRequest : Patient(k, r)

\* A batch that is called again and again is exported.
PatienceIsRewarded == scene = "watched" => ResumesToCompletion
=============================================================================
