---------------------------- MODULE MCResearchRun ----------------------------
(***************************************************************************)
(* Two candidates, one or two sessions in each partition, two protocols    *)
(* that differ in their verdicts.                                          *)
(***************************************************************************)
EXTENDS ResearchRun, TLC

\* Verdicts of a protocol: candidates that pass Discovery, and Validation.
Verdicts2(passD, passV) == "DISCOVERY" :> passD @@ "VALIDATION" :> passV

\* Nobody, one or both candidates pass Discovery under "p"; "q" differs.
SomeVerdicts ==
    {"p" :> Verdicts2(passD, {2}) @@ "q" :> Verdicts2({1, 2} \ passD, {1}) :
        passD \in {{}, {1}, {1, 2}}}

\* One protocol is watched to its end, with a fault at most; or two protocols are
\* run, with two faults.
VARIABLE watched
MCInit == Init /\ watched \in BOOLEAN
MCNext ==
    /\ UNCHANGED watched
    /\ \/ \E pr \in (IF watched THEN {"p"} ELSE Protocols), n \in StopAfters, st \in Stages :
              Start(pr, n, st)
       \/ Step
       \/ (watched => faults = 0) /\ Crash
       \/ (watched => faults = 0) /\ DamageFreeze
MCSpec == MCInit /\ [][MCNext]_<<vars, watched>> /\ WF_vars(Step) /\ Resumed("p")

\* Work that is resumed again and again is completed.
ResumedRunsComplete == watched => ResumesToCompletion

OneVerdict == {"p" :> Verdicts2({1}, {1})}
=============================================================================
