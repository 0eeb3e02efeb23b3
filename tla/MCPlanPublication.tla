--------------------------- MODULE MCPlanPublication ---------------------------
(***************************************************************************)
(* Constrained requests, two of which are one search space written in two  *)
(* ways, and requests for a profile: complete, narrowed and too wide.      *)
(***************************************************************************)
EXTENDS PlanPublication

Entry(family, candidate, zeros, rejected) ==
    [family |-> family, candidate |-> candidate, zeros |-> zeros, rejected |-> rejected]
A == Entry("trend", "a", 0, FALSE)
AZero == Entry("trend", "a", 1, FALSE)
C == Entry("momentum", "c", 0, FALSE)
B == Entry("trend", "b", 0, FALSE)
Bad == Entry("trend", "bad", 0, TRUE)

Off == [enabled |-> FALSE, entries |-> << >>]
On(entries) == [enabled |-> TRUE, entries |-> entries]
Constraints(buy, sell) ==
    [sides |-> [BUY |-> buy, SELL |-> sell], policy |-> [limit |-> 5, budget |-> 3]]
Ask(frames, buy, sell, constraints, profile) ==
    [timeframes |-> frames, sides |-> [BUY |-> buy, SELL |-> sell], constraints |-> constraints,
     profile |-> profile]

Short == Ask({"1m"}, TRUE, FALSE, Constraints(On(<<A>>), Off), None)
Long == Ask({"1m"}, TRUE, FALSE, Constraints(On(<<A, AZero>>), Off), None)
Other == Ask({"1m"}, TRUE, FALSE, Constraints(On(<<B, Bad>>), Off), None)
Empty == Ask({"1m"}, TRUE, TRUE, Constraints(On(<<A>>), On(<<Bad>>)), None)
Wide == Ask({"1m", "2m"}, TRUE, TRUE, Constraints(On(<<A>>), On(<<A>>)), None)
OffSide == Ask({"1m"}, TRUE, TRUE, Constraints(On(<<A>>), Off), None)

Sides == Constraints(On(<<A, C>>), On(<<B>>))
Unfrozen(expected) == [timeframes |-> {"1m"}, constraints |-> Sides, expected |-> expected]
Universe == Expected(Manifest(Ask({"1m"}, TRUE, TRUE, Sides, None)))
Balanced == Unfrozen(Universe)
Wrong == Unfrozen([Universe EXCEPT !.counts.T = 4, !.counts.D = 1])
Complete == Ask({"1m"}, TRUE, TRUE, None, Balanced)
Misjudged == Ask({"1m"}, TRUE, TRUE, None, Wrong)
Outside == Ask({"2m"}, TRUE, FALSE, None, Balanced)
Unknown == Ask({"1m"}, TRUE, FALSE, None, Unfrozen([Universe EXCEPT !.counts.T = 5, !.counts.R = 2]))

Profiles == {Balanced, Wrong}
OneSpace == {Short, Long}
AllRequests == OneSpace \cup {Other, Empty, Wide, OffSide, Complete, Misjudged, Outside, Unknown}
\* Two files: that of Short and Long, which are one space, and one that the others,
\* of several contexts, share.
TwoFiles(r) == IF r \in OneSpace THEN "own" ELSE "shared"

OnePerContext(r) == Context[r]

\* Two processes ask for one space, or one process for every request.
CONSTANT First
VARIABLE two
Asking == IF two THEN Processes ELSE {First}
Asked == IF two THEN OneSpace ELSE AllRequests
MCInit == Init /\ two \in BOOLEAN
MCNext ==
    \/ \E p \in Processes : Step(p) /\ UNCHANGED two
    \/ \E p \in Asking : (\E r \in Asked : Begin(p, r)) /\ UNCHANGED two
    \/ Fault /\ UNCHANGED two
MCSpec == MCInit /\ [][MCNext]_<<vars, two>> /\ Fairness(OneSpace)

\* RequestsArePublished, where two processes ask for one space.
OneSpaceIsPublished == two => RequestsArePublished
=============================================================================
