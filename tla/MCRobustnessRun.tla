---------------------------- MODULE MCRobustnessRun ----------------------------
(***************************************************************************)
(* Two candidates and one more variant.  Walk-Forward plans over three     *)
(* sessions: of two folds; of one fold with a gap, where two are wanted;   *)
(* without a fold.  Requests that differ in one argument each.             *)
(***************************************************************************)
EXTENDS RobustnessRun, TLC

SomePlans ==
    "wf" :> [ready |-> TRUE, validation |-> {2, 3}] @@
    "wf9" :> [ready |-> FALSE, validation |-> {3}] @@
    "wf0" :> [ready |-> FALSE, validation |-> {}]

\* The variant of candidate 2 is candidate 1.
SomeVariants == "sens" :> (1 :> {3} @@ 2 :> {1})

SomeStresses == "st" :> {1} @@ "st2" :> {2} @@ "st12" :> {1, 2}

Base == [walk |-> "wf", monte |-> "mc", sensitivity |-> "sens", stress |-> "st",
         evaluation |-> "e", ninth |-> None, quantitative |-> None]

\* Another baseline, which the protocol does not name.
Baselines == {Base, [Base EXCEPT !.evaluation = "f"]}

\* A quantitative policy; another stress policy, and one beyond the workload
\* policy; another plan for the pools, and one that leaves them empty.
Policies ==
    {[Base EXCEPT !.quantitative = "q"], [Base EXCEPT !.stress = "st2"],
     [Base EXCEPT !.stress = "st12"],
     [Base EXCEPT !.ninth = "wf9", !.quantitative = "q"], [Base EXCEPT !.ninth = "wf0"]}

OneRequest == {[Base EXCEPT !.quantitative = "q"]}
AllRequests == Policies \cup Baselines \cup OneRequest
Ids12 == <<1, 2>>
Every == {"CACHE_LOST", "CHECKPOINT_LOST", "ENTRY_ALTERED", "ENTRY_REPLACED"}

\* Two processes run under several policies; one process runs on over results of
\* another build; or one process is watched until it is done.
CONSTANT First
VARIABLE scene
Scenes ==
    "policies" :> [of |-> Policies, by |-> Procs, damages |-> Every \ {"ENTRY_REPLACED"}, faults |-> 1] @@
    "replaced" :> [of |-> Baselines, by |-> {First}, damages |-> {"CACHE_LOST", "ENTRY_REPLACED"}, faults |-> 2] @@
    "watched" :> [of |-> OneRequest, by |-> {First}, damages |-> {"CACHE_LOST", "CHECKPOINT_LOST"}, faults |-> 2]
MCInit == Init /\ scene \in DOMAIN Scenes
MCNext ==
    /\ UNCHANGED scene
    /\ \/ \E p \in Scenes[scene].by, r \in Scenes[scene].of, n \in StopAfters : Call(p, r, n)
       \/ \E p \in Scenes[scene].by : Open(p)
       \/ Step
       \/ Len(faults) < Scenes[scene].faults /\ Crash
       \/ Len(faults) < Scenes[scene].faults /\ DamageOf(Scenes[scene].damages)
MCSpec ==
    /\ MCInit /\ [][MCNext]_<<vars, scene>>
    /\ WF_vars(Step) /\ WF_vars(Open(First)) /\ \A r \in OneRequest : Resumed(First, r)

\* Work that is resumed again and again is completed.
ResumedRunsComplete == scene = "watched" => ResumesToCompletion
=============================================================================
