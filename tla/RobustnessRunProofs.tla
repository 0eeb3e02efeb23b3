-------------------------- MODULE RobustnessRunProofs --------------------------
(***************************************************************************)
(* Proofs about the robustness orchestrator, for every candidate set,      *)
(* every family of policies and requests, any number of processes, stops,  *)
(* crashes and damages: a checkpoint is the beginning of one run, no run   *)
(* builds more than its preflight has announced, exports are those of      *)
(* uninterrupted runs, and no run that the checkpoint has let in is        *)
(* refused by it half-way.                                                 *)
(*                                                                         *)
(* The argument for the checkpoint: a run goes over its units in order and *)
(* passes one only when the row of it is its own; so when it adds a row,   *)
(* all rows that are there are its own, whoever wrote them, and they are   *)
(* the units before.  For the builds: an evaluation is built when it is in *)
(* no file, once, so a run has never built more than the number of those   *)
(* it may ask for that are built.  For the exports: the identity under     *)
(* which a result is kept determines the result, that of the evidence      *)
(* because the results it is made of name their policies.  For the         *)
(* refusals: requests of one context with one baseline have the same       *)
(* inputs, so their rows are the same.                                     *)
(***************************************************************************)
EXTENDS RobustnessRun, SequenceTheorems, FiniteSetTheorems, TLAPS

\* All that the builders of a run of r may ask for.
Planned(r) ==
    EvaluationsOf(r, Candidates, {0}, Sessions)
      \cup (UNION {EvaluationsOf(r, Variants[r.sensitivity][c], {0}, Pool(r)) : c \in Candidates})
      \cup EvaluationsOf(r, Candidates, Stresses[r.stress], Pool(r))

\* The units that the run has passed, and the results that rows name.
Done == {UnitsOf(request)[i] : i \in 1..(position - 1)}
ResultsOf(S) == {[unit |-> x.unit, result |-> x.result] : x \in S}

\* Calls that are past their preflight are within the workload policy.
CallInv ==
    /\ call \in [Procs -> [request : Requests \cup {None}, limit : Nat]]
    /\ \A p \in Procs : call[p] # Idle =>
          call[p].request \in Requests /\ WithinWorkload(call[p].request)

\* Between runs nothing is in memory; a run is bound to the checkpoint, asks
\* for what it has announced, and counts what it has built of that.
RunInv ==
    /\ at \in {"off", "unit", "prepare", "look", "build", "put", "mark", "export", "report"}
    /\ runner = None => position = 1 /\ todo = {} /\ records = {} /\ builds = 0
    /\ runner # None =>
          /\ context = Context(request)
          /\ todo \subseteq Planned(request)
          /\ builds <= Cardinality(built \cap Planned(request))
    /\ at \in {"prepare", "look", "build", "put", "mark"} => position <= Len(UnitsOf(request))
    /\ at = "mark" => record.unit = unit

\* The units passed are those with a row of this very run; the checkpoint has
\* one row for a unit.
RowsInv ==
    /\ completed # {} => context # None
    /\ \A x, y \in completed : x.unit = y.unit => x = y
    /\ runner # None =>
          /\ Done \subseteq {x.unit : x \in completed}
          /\ records = ResultsOf({x \in completed : x.unit \in Done})
          /\ \A x \in completed : x.unit \in Done =>
                x.input = Input(x.unit, request, ResultsOf(completed))

\* Entries of the result cache are records of these fields, altered or not.
CacheInv ==
    \A x \in cache :
        /\ x = [input |-> x.input, result |-> x.result, intact |-> x.intact]
        /\ x.result = [unit |-> x.result.unit, used |-> x.result.used, named |-> x.result.named,
                       release |-> x.result.release]

\* The inductive invariant.
IInv == TypeOK /\ CallInv /\ RunInv /\ RowsInv /\ CacheInv /\ CheckpointIsOfOneRun

(***************************************************************************)
(* The units of a run.                                                     *)
(***************************************************************************)
Families == {"walk-forward", "ninth-increment-walk-forward", "monte-carlo", "sensitivity", "stress"}
AllUnits == [kind : Families \cup {"quantitative-evidence"}, cid : Candidates]

\* How many units come before the quantitative evidence.
FamilyUnits(r) == Len(CandidateIds) * Len(FamiliesOf(r))

\* There are four or five families, of which sensitivity and stress are the last.
LEMMA FamiliesTyped ==
    ASSUME NEW r
    PROVE  LET k == Len(FamiliesOf(r))
           IN  /\ FamiliesOf(r) \in Seq(Families) /\ k \in {4, 5}
               /\ FamiliesOf(r)[k - 1] = "sensitivity" /\ FamiliesOf(r)[k] = "stress"
<1> DEFINE ninth == IF r.ninth = None THEN <<>> ELSE <<"ninth-increment-walk-forward">>
           rest  == <<"monte-carlo", "sensitivity", "stress">>
<1>1. <<"walk-forward">> \in Seq(Families) /\ Len(<<"walk-forward">>) = 1
  BY DEF Families
<1>2. ninth \in Seq(Families) /\ Len(ninth) \in {0, 1}
  <2>1. CASE r.ninth = None
    BY <2>1, EmptySeq
  <2>2. CASE r.ninth # None
    BY <2>2 DEF Families
  <2> QED BY <2>1, <2>2
<1>3. rest \in Seq(Families) /\ Len(rest) = 3 /\ rest[2] = "sensitivity" /\ rest[3] = "stress"
  BY DEF Families
<1> DEFINE first == <<"walk-forward">> \o ninth
<1> HIDE DEF ninth, rest
<1>4. first \in Seq(Families) /\ Len(first) \in {1, 2}
  BY <1>1, <1>2, ConcatProperties
<1> HIDE DEF first
<1>5. /\ first \o rest \in Seq(Families) /\ Len(first \o rest) = Len(first) + Len(rest)
      /\ \A i \in 1..(Len(first) + Len(rest)) :
            (first \o rest)[i] = IF i <= Len(first) THEN first[i] ELSE rest[i - Len(first)]
  BY <1>3, <1>4, ConcatProperties
<1>6. FamiliesOf(r) = first \o rest
  BY DEF FamiliesOf, first, ninth, rest
<1> DEFINE n == Len(first)
<1>7. /\ n + 2 \in 1..(n + 3) /\ ~(n + 2 <= n) /\ (n + 2) - n = 2 /\ (n + 3) - 1 = n + 2
      /\ n + 3 \in 1..(n + 3) /\ ~(n + 3 <= n) /\ (n + 3) - n = 3
  BY <1>4
<1>8. (first \o rest)[n + 2] = "sensitivity" /\ (first \o rest)[n + 3] = "stress"
  BY <1>3, <1>5, <1>7
<1>9. Len(FamiliesOf(r)) = n + 3 /\ n + 3 \in {4, 5}
  <2>1. n + 3 \in {4, 5}
    <3>1. CASE n = 1
      BY <3>1
    <3>2. CASE n = 2
      BY <3>2
    <3> QED BY <1>4, <3>1, <3>2
  <2>2. Len(rest) = 3
    BY <1>3
  <2> QED BY <1>5, <1>6, <2>1, <2>2
<1> QED BY <1>5, <1>6, <1>7, <1>8, <1>9

\* The units are a sequence: those of the families first, then the evidence.
LEMMA UnitsTyped ==
    ASSUME NEW r \in Requests
    PROVE  /\ UnitsOf(r) \in Seq(AllUnits) /\ Len(UnitsOf(r)) \in Nat
           /\ DOMAIN UnitsOf(r) = 1..Len(UnitsOf(r))
           /\ FamilyUnits(r) \in Nat /\ FamilyUnits(r) <= Len(UnitsOf(r))
           /\ \A i \in 1..Len(UnitsOf(r)) :
                 /\ UnitsOf(r)[i] \in AllUnits
                 /\ UnitsOf(r)[i].kind = "quantitative-evidence" <=> i > FamilyUnits(r)
<1> DEFINE k == Len(FamiliesOf(r))
           n == Len(CandidateIds)
           m == n * k + (IF r.quantitative = None THEN 0 ELSE n)
<1>1. k \in {4, 5} /\ \A j \in 1..k : FamiliesOf(r)[j] \in Families
  BY FamiliesTyped, ElementOfSeq
<1>2. n \in Nat /\ \A j \in 1..n : CandidateIds[j] \in Candidates
  BY RobustnessAssumption, LenProperties DEF Candidates
<1>3. n * k \in Nat /\ m \in Nat /\ n * k <= m /\ m - n * k <= n
  <2>1. ASSUME NEW a \in Nat, NEW b \in {4, 5}, NEW e \in {0, a}
        PROVE  a * b \in Nat /\ a * b + e \in Nat /\ a * b <= a * b + e /\ (a * b + e) - a * b <= a
    <3>1. CASE b = 4
      BY <2>1, <3>1
    <3>2. CASE b = 5
      BY <2>1, <3>2
    <3> QED BY <3>1, <3>2
  <2> QED BY <1>1, <1>2, <2>1
<1>4. \A i \in 1..(n * k) : ((i - 1) % k) + 1 \in 1..k /\ ((i - 1) \div k) + 1 \in 1..n
  <2>1. CASE k = 4
    BY <1>2, <2>1
  <2>2. CASE k = 5
    BY <1>2, <2>2
  <2> QED BY <1>1, <2>1, <2>2
<1> DEFINE f(i) == IF i <= n * k
                   THEN Unit(FamiliesOf(r)[((i - 1) % k) + 1], CandidateIds[((i - 1) \div k) + 1])
                   ELSE Unit("quantitative-evidence", CandidateIds[i - n * k])
<1>5. UnitsOf(r) = [i \in 1..m |-> f(i)]
  BY DEF UnitsOf
<1> HIDE DEF k, n, m
<1>6. \A i \in 1..m : f(i) \in AllUnits /\ (f(i).kind = "quantitative-evidence" <=> i > n * k)
  <2> TAKE i \in 1..m
  <2>1. CASE i <= n * k
    <3>1. i \in 1..(n * k)
      BY <1>3, <2>1
    <3>2. FamiliesOf(r)[((i - 1) % k) + 1] \in Families /\ CandidateIds[((i - 1) \div k) + 1] \in Candidates
      BY <1>1, <1>2, <1>4, <3>1
    <3> QED BY <1>3, <2>1, <3>2 DEF AllUnits, Unit, Families
  <2>2. CASE i > n * k
    <3>1. i - n * k \in 1..n
      BY <1>2, <1>3, <2>2
    <3>2. CandidateIds[i - n * k] \in Candidates
      BY <1>2, <3>1
    <3>3. ~(i <= n * k)
      BY <1>3, <2>2
    <3> QED BY <2>2, <3>2, <3>3 DEF AllUnits, Unit
  <2> QED BY <1>3, <2>1, <2>2
<1> HIDE DEF f
<1>7. UnitsOf(r) \in [1..m -> AllUnits]
  BY <1>5, <1>6
<1>8. UnitsOf(r) \in Seq(AllUnits)
  BY <1>3, <1>7, SeqDef
<1>9. Len(UnitsOf(r)) = m
  BY <1>3, <1>7, <1>8, LenProperties
<1> QED BY <1>3, <1>5, <1>6, <1>7, <1>8, <1>9 DEF FamilyUnits, k, n

\* Requests with the same checkpoint have the same units, where both have one.
LEMMA UnitsAgree ==
    ASSUME NEW r \in Requests, NEW q \in Requests, Context(r) = Context(q)
    PROVE  /\ FamilyUnits(r) = FamilyUnits(q)
           /\ \A i \in 1..Len(UnitsOf(r)) : i \in 1..Len(UnitsOf(q)) => UnitsOf(r)[i] = UnitsOf(q)[i]
<1>1. Context(r).ninth = r.ninth /\ Context(q).ninth = q.ninth
  BY DEF Context
<1>2. FamiliesOf(r) = FamiliesOf(q)
  BY <1>1 DEF FamiliesOf
<1>3. DOMAIN UnitsOf(r) = 1..Len(UnitsOf(r)) /\ DOMAIN UnitsOf(q) = 1..Len(UnitsOf(q))
  BY UnitsTyped
<1> QED BY <1>2, <1>3 DEF UnitsOf, FamilyUnits

(***************************************************************************)
(* The evaluations of a run.                                               *)
(***************************************************************************)
\* What a request determines has its type.
LEMMA RequestTyped ==
    ASSUME NEW r \in Requests
    PROVE  /\ Pool(r) \subseteq Sessions
           /\ \A c \in Candidates : Variants[r.sensitivity][c] \subseteq Strategies
           /\ Stresses[r.stress] \subseteq Nat \ {0} /\ IsFiniteSet(Stresses[r.stress])
           /\ Stresses[r.stress] \subseteq UNION {Stresses[s] : s \in DOMAIN Stresses}
BY RobustnessAssumption DEF Pool

\* The parts of what was announced.
LEMMA PlannedParts ==
    ASSUME NEW r
    PROVE  \A e : e \in Planned(r) <=>
             \/ e \in EvaluationsOf(r, Candidates, {0}, Sessions)
             \/ \E c \in Candidates : e \in EvaluationsOf(r, Variants[r.sensitivity][c], {0}, Pool(r))
             \/ e \in EvaluationsOf(r, Candidates, Stresses[r.stress], Pool(r))
<1> DEFINE V == {EvaluationsOf(r, Variants[r.sensitivity][c], {0}, Pool(r)) : c \in Candidates}
           A == EvaluationsOf(r, Candidates, {0}, Sessions)
           C == EvaluationsOf(r, Candidates, Stresses[r.stress], Pool(r))
<1>1. Planned(r) = A \cup (UNION V) \cup C
  BY DEF Planned
<1>2. \A X : X \in V <=> \E c \in Candidates : X = EvaluationsOf(r, Variants[r.sensitivity][c], {0}, Pool(r))
  OBVIOUS
<1> HIDE DEF V, A, C
<1>3. \A e : e \in Planned(r) <=> e \in A \/ (\E X \in V : e \in X) \/ e \in C
  BY <1>1
<1> QED BY <1>2, <1>3 DEF A, C

\* A unit asks for evaluations that were announced.
LEMMA EvaluatedIsPlanned ==
    ASSUME NEW r \in Requests, NEW u \in AllUnits
    PROVE  Evaluated(u, r) \subseteq Planned(r)
<1>1. u.cid \in Candidates /\ Pool(r) \subseteq Sessions
  BY RequestTyped DEF AllUnits
<1> DEFINE c == u.cid
<1>2. /\ EvaluationsOf(r, {c}, {0}, Pool(r)) \subseteq Planned(r)
      /\ EvaluationsOf(r, {c}, {0}, Sessions) \subseteq Planned(r)
      /\ EvaluationsOf(r, Variants[r.sensitivity][c], {0}, Pool(r)) \subseteq Planned(r)
      /\ EvaluationsOf(r, {c}, Stresses[r.stress], Pool(r)) \subseteq Planned(r)
  <2>1. EvaluationsOf(r, {c}, {0}, Sessions) \subseteq EvaluationsOf(r, Candidates, {0}, Sessions)
    BY <1>1 DEF EvaluationsOf
  <2>2. EvaluationsOf(r, {c}, {0}, Pool(r)) \subseteq EvaluationsOf(r, Candidates, {0}, Sessions)
    BY <1>1 DEF EvaluationsOf
  <2>3. EvaluationsOf(r, {c}, Stresses[r.stress], Pool(r))
            \subseteq EvaluationsOf(r, Candidates, Stresses[r.stress], Pool(r))
    BY <1>1 DEF EvaluationsOf
  <2> QED BY <1>1, <2>1, <2>2, <2>3, PlannedParts
<1>3. u.kind \in Families \cup {"quantitative-evidence"}
  BY DEF AllUnits
<1> QED BY <1>2, <1>3 DEF Evaluated, Families

\* What was announced are evaluations of the baseline of the request.
LEMMA PlannedTyped ==
    ASSUME NEW r \in Requests
    PROVE  /\ Planned(r) \subseteq Evals
           /\ \A e \in Planned(r) :
                 /\ e = [strategy |-> e.strategy, evaluation |-> r.evaluation, stress |-> e.stress,
                         sid |-> e.sid]
                 /\ e.strategy \in Nat /\ e.stress \in Nat /\ e.sid \in Nat
<1> DEFINE all == {0} \cup UNION {Stresses[s] : s \in DOMAIN Stresses}
<1>1. ASSUME NEW strategies \in SUBSET Strategies, NEW stresses \in SUBSET all,
             NEW sids \in SUBSET Sessions, NEW e \in EvaluationsOf(r, strategies, stresses, sids)
      PROVE  /\ e \in Evals
             /\ e = [strategy |-> e.strategy, evaluation |-> r.evaluation, stress |-> e.stress,
                     sid |-> e.sid]
             /\ e.strategy \in Nat /\ e.stress \in Nat /\ e.sid \in Nat
  <2>1. PICK s \in strategies, x \in stresses, n \in sids :
            e = [strategy |-> s, evaluation |-> r.evaluation, stress |-> x, sid |-> n]
    BY <1>1 DEF EvaluationsOf
  <2>2. x \in all /\ all \subseteq Nat
    BY RobustnessAssumption
  <2> HIDE DEF all
  <2>3. s \in Nat /\ n \in Nat
    BY RobustnessAssumption
  <2>4. e \in Evals
    BY <2>1, <2>2 DEF Evals, all
  <2> QED BY <2>1, <2>2, <2>3, <2>4
<1>2. /\ Candidates \subseteq Strategies /\ Pool(r) \subseteq Sessions /\ {0} \subseteq all
      /\ Stresses[r.stress] \subseteq all
      /\ \A c \in Candidates : Variants[r.sensitivity][c] \subseteq Strategies
  BY RequestTyped, RobustnessAssumption
<1> HIDE DEF all
<1>3. ASSUME NEW e \in Planned(r)
      PROVE  /\ e \in Evals
             /\ e = [strategy |-> e.strategy, evaluation |-> r.evaluation, stress |-> e.stress,
                     sid |-> e.sid]
             /\ e.strategy \in Nat /\ e.stress \in Nat /\ e.sid \in Nat
  <2>1. CASE e \in EvaluationsOf(r, Candidates, {0}, Sessions)
    BY <1>1, <1>2, <2>1
  <2>2. CASE e \in EvaluationsOf(r, Candidates, Stresses[r.stress], Pool(r))
    BY <1>1, <1>2, <2>2
  <2>3. ASSUME NEW c \in Candidates, e \in EvaluationsOf(r, Variants[r.sensitivity][c], {0}, Pool(r))
        PROVE  /\ e \in Evals
               /\ e = [strategy |-> e.strategy, evaluation |-> r.evaluation, stress |-> e.stress,
                       sid |-> e.sid]
               /\ e.strategy \in Nat /\ e.stress \in Nat /\ e.sid \in Nat
    BY <1>1, <1>2, <2>3
  <2>4. \/ e \in EvaluationsOf(r, Candidates, {0}, Sessions)
        \/ e \in EvaluationsOf(r, Candidates, Stresses[r.stress], Pool(r))
        \/ \E c \in Candidates : e \in EvaluationsOf(r, Variants[r.sensitivity][c], {0}, Pool(r))
    BY PlannedParts
  <2> QED BY <2>1, <2>2, <2>3, <2>4
<1> QED BY <1>3

\* A set of numbers that is not empty has a least member.
LEMMA HasLeast ==
    ASSUME NEW S \in SUBSET Nat, S # {}
    PROVE  \E x \in S : \A y \in S : x <= y
<1> DEFINE R == {ss \in Nat \X Nat : ss[1] < ss[2]}
<1>1. PICK x \in S : \A y \in S : <<y, x>> \notin R
  <2>1. IsWellFoundedOn(R, Nat)
    BY NatLessThanWellFounded DEF OpToRel
  <2> HIDE DEF R
  <2> QED BY <2>1, WFMin
<1>2. \A y \in S : x <= y
  <2> SUFFICES ASSUME NEW y \in S PROVE ~(y < x)
    OBVIOUS
  <2> QED BY <1>1
<1> QED BY <1>2

\* So the builder finds its next evaluation among those it has still to ask for.
LEMMA NextIsAsked ==
    ASSUME NEW r \in Requests, NEW T \in SUBSET Planned(r), T # {}
    PROVE  NextOf(T) \in T
<1>1. \A e \in T : /\ e = [strategy |-> e.strategy, evaluation |-> r.evaluation,
                           stress |-> e.stress, sid |-> e.sid]
                   /\ e.strategy \in Nat /\ e.stress \in Nat /\ e.sid \in Nat
  BY PlannedTyped
<1>2. PICK a \in T : \A f \in T : a.stress <= f.stress
  <2> DEFINE S == {e.stress : e \in T}
  <2>1. S \in SUBSET Nat /\ S # {} /\ \A f \in T : f.stress \in S
    BY <1>1
  <2>2. PICK x \in S : \A y \in S : x <= y
    <3> HIDE DEF S
    <3> QED BY <2>1, HasLeast
  <2>3. PICK e \in T : x = e.stress
    OBVIOUS
  <2> HIDE DEF S
  <2> QED BY <2>1, <2>2, <2>3
<1> DEFINE A == {e \in T : e.stress = a.stress}
<1>3. PICK b \in A : \A f \in A : b.strategy <= f.strategy
  <2> DEFINE S == {e.strategy : e \in A}
  <2>1. S \in SUBSET Nat /\ S # {} /\ \A f \in A : f.strategy \in S
    BY <1>1
  <2>2. PICK x \in S : \A y \in S : x <= y
    <3> HIDE DEF S
    <3> QED BY <2>1, HasLeast
  <2>3. PICK e \in A : x = e.strategy
    OBVIOUS
  <2> HIDE DEF S
  <2> QED BY <2>1, <2>2, <2>3
<1> DEFINE B == {e \in A : e.strategy = b.strategy}
<1>4. PICK d \in B : \A f \in B : d.sid <= f.sid
  <2> DEFINE S == {e.sid : e \in B}
  <2>1. S \in SUBSET Nat /\ S # {} /\ \A f \in B : f.sid \in S
    BY <1>1
  <2>2. PICK x \in S : \A y \in S : x <= y
    <3> HIDE DEF S
    <3> QED BY <2>1, HasLeast
  <2>3. PICK e \in B : x = e.sid
    OBVIOUS
  <2> HIDE DEF S
  <2> QED BY <2>1, <2>2, <2>3
<1>5. ASSUME NEW f \in T, f # d
      PROVE  \/ d.stress < f.stress
             \/ d.stress = f.stress /\ d.strategy < f.strategy
             \/ d.stress = f.stress /\ d.strategy = f.strategy /\ d.sid < f.sid
  <2>1. d \in T /\ d.stress = a.stress /\ d.strategy = b.strategy
    OBVIOUS
  <2>2. CASE f.stress # a.stress
    BY <1>1, <1>2, <2>1, <2>2
  <2>3. CASE f.stress = a.stress /\ f.strategy # b.strategy
    BY <1>1, <1>3, <2>1, <2>3
  <2>4. CASE f.stress = a.stress /\ f.strategy = b.strategy
    <3>1. d.sid <= f.sid
      BY <1>4, <2>4
    <3>2. d.sid # f.sid
      BY <1>1, <1>5, <2>1, <2>4
    <3> QED BY <1>1, <2>1, <2>4, <3>1, <3>2
  <2> QED BY <2>2, <2>3, <2>4
<1>6. d \in T
  OBVIOUS
<1> QED BY <1>5, <1>6 DEF NextOf

\* A set all of whose members are found from those of a finite set is finite,
\* and not larger.
LEMMA ImageIsSmaller ==
    ASSUME NEW S, IsFiniteSet(S), NEW T, NEW f \in [S -> T], \A t \in T : \E s \in S : f[s] = t
    PROVE  IsFiniteSet(T) /\ Cardinality(T) \in Nat /\ Cardinality(T) <= Cardinality(S)
<1>1. f \in Surjection(S, T)
  BY DEF Surjection
<1> QED BY <1>1, FS_Surjection, FS_CardinalityType

\* A union has at most the members of both.
LEMMA UnionIsSmaller ==
    ASSUME NEW S, NEW T, IsFiniteSet(S), IsFiniteSet(T)
    PROVE  /\ IsFiniteSet(S \cup T) /\ Cardinality(S \cup T) \in Nat
           /\ Cardinality(S \cup T) <= Cardinality(S) + Cardinality(T)
<1>1. IsFiniteSet(S \cup T) /\ IsFiniteSet(S \cap T)
      /\ Cardinality(S \cup T) = Cardinality(S) + Cardinality(T) - Cardinality(S \cap T)
  BY FS_Union, FS_Intersection
<1>2. /\ Cardinality(S) \in Nat /\ Cardinality(T) \in Nat
      /\ Cardinality(S \cap T) \in Nat /\ Cardinality(S \cup T) \in Nat
  BY <1>1, FS_CardinalityType
<1> QED BY <1>1, <1>2

\* What the preflight announces bounds what the builders may ask for.
LEMMA AnnouncedBuilds ==
    ASSUME NEW r \in Requests
    PROVE  /\ IsFiniteSet(Planned(r)) /\ Cardinality(Planned(r)) \in Nat
           /\ ExpectedBuilds(r) \in Nat /\ Cardinality(Planned(r)) <= ExpectedBuilds(r)
<1> DEFINE P == Pool(r)
           X == Stresses[r.stress]
           CV == {cv \in Candidates \X Strategies : cv[2] \in Variants[r.sensitivity][cv[1]]}
           A == EvaluationsOf(r, Candidates, {0}, Sessions)
           V == UNION {EvaluationsOf(r, Variants[r.sensitivity][c], {0}, P) : c \in Candidates}
           C == EvaluationsOf(r, Candidates, X, P)
           eval(s, x, n) == [strategy |-> s, evaluation |-> r.evaluation, stress |-> x, sid |-> n]
<1>1. /\ IsFiniteSet(Sessions) /\ Cardinality(Sessions) \in Nat
      /\ IsFiniteSet(Candidates) /\ Cardinality(Candidates) \in Nat
      /\ IsFiniteSet(P) /\ Cardinality(P) \in Nat
      /\ IsFiniteSet(X) /\ Cardinality(X) \in Nat
      /\ IsFiniteSet(CV) /\ Cardinality(CV) \in Nat
  <2>1. IsFiniteSet(Sessions) /\ IsFiniteSet(Strategies) /\ IsFiniteSet(Candidates) /\ IsFiniteSet(X)
    BY RobustnessAssumption, RequestTyped, FS_Subset
  <2>2. IsFiniteSet(P)
    BY <2>1, RequestTyped, FS_Subset
  <2>3. IsFiniteSet(Candidates \X Strategies) /\ CV \subseteq Candidates \X Strategies
    BY <2>1, FS_Product
  <2>4. IsFiniteSet(CV)
    <3> HIDE DEF CV
    <3> QED BY <2>3, FS_Subset
  <2> HIDE DEF CV, P, X
  <2> QED BY <2>1, <2>2, <2>4, FS_CardinalityType
<1>2. IsFiniteSet(A) /\ Cardinality(A) \in Nat
      /\ Cardinality(A) <= Cardinality(Candidates) * Cardinality(Sessions)
  <2> DEFINE S == Candidates \X Sessions
             f == [cn \in S |-> eval(cn[1], 0, cn[2])]
  <2>1. IsFiniteSet(S) /\ Cardinality(S) = Cardinality(Candidates) * Cardinality(Sessions)
    BY <1>1, FS_Product
  <2>2. f \in [S -> A]
    BY DEF EvaluationsOf
  <2>3. \A t \in A : \E s \in S : f[s] = t
    <3> TAKE t \in A
    <3>1. PICK c \in Candidates, n \in Sessions : t = eval(c, 0, n)
      BY DEF EvaluationsOf
    <3>2. <<c, n>> \in S /\ f[<<c, n>>] = t
      BY <3>1
    <3> QED BY <3>2
  <2> HIDE DEF f, S, A
  <2> QED BY <2>1, <2>2, <2>3, ImageIsSmaller
<1>3. IsFiniteSet(V) /\ Cardinality(V) \in Nat /\ Cardinality(V) <= Cardinality(CV) * Cardinality(P)
  <2> DEFINE S == CV \X P
             f == [vn \in S |-> eval(vn[1][2], 0, vn[2])]
  <2>1. IsFiniteSet(S) /\ Cardinality(S) = Cardinality(CV) * Cardinality(P)
    <3> HIDE DEF CV, P
    <3> QED BY <1>1, FS_Product
  <2>2. \A t : t \in V <=>
           \E c \in Candidates : \E s \in Variants[r.sensitivity][c], n \in P : t = eval(s, 0, n)
    <3> DEFINE W == {EvaluationsOf(r, Variants[r.sensitivity][c], {0}, P) : c \in Candidates}
    <3>1. \A Y : Y \in W <=> \E c \in Candidates : Y = EvaluationsOf(r, Variants[r.sensitivity][c], {0}, P)
      OBVIOUS
    <3>2. V = UNION W
      OBVIOUS
    <3>3. ASSUME NEW c, NEW t
          PROVE  t \in EvaluationsOf(r, Variants[r.sensitivity][c], {0}, P)
                   <=> \E s \in Variants[r.sensitivity][c], n \in P : t = eval(s, 0, n)
      BY DEF EvaluationsOf
    <3> HIDE DEF W, V, P
    <3>4. ASSUME NEW t
          PROVE  t \in V <=> \E c \in Candidates : t \in EvaluationsOf(r, Variants[r.sensitivity][c], {0}, P)
      BY <3>1, <3>2
    <3> SUFFICES ASSUME NEW t
                 PROVE  t \in V <=> \E c \in Candidates :
                                    \E s \in Variants[r.sensitivity][c], n \in P : t = eval(s, 0, n)
      OBVIOUS
    <3>5. \A c : t \in EvaluationsOf(r, Variants[r.sensitivity][c], {0}, P)
                   <=> \E s \in Variants[r.sensitivity][c], n \in P : t = eval(s, 0, n)
      BY <3>3
    <3> QED BY <3>4, <3>5
  <2>3. f \in [S -> V]
    <3>1. ASSUME NEW vn \in S PROVE f[vn] \in V
      <4>1. /\ vn[1][1] \in Candidates /\ vn[1][2] \in Variants[r.sensitivity][vn[1][1]]
            /\ vn[2] \in P
        OBVIOUS
      <4> HIDE DEF V, P, CV
      <4> QED BY <2>2, <4>1
    <3> QED BY <3>1
  <2>4. \A t \in V : \E s \in S : f[s] = t
    <3> TAKE t \in V
    <3>1. PICK c \in Candidates : \E v \in Variants[r.sensitivity][c], n \in P : t = eval(v, 0, n)
      BY <2>2
    <3>2. PICK v \in Variants[r.sensitivity][c], n \in P : t = eval(v, 0, n)
      BY <3>1
    <3>3. v \in Strategies
      BY RequestTyped
    <3>4. <<<<c, v>>, n>> \in S /\ f[<<<<c, v>>, n>>] = t
      BY <3>2, <3>3
    <3> QED BY <3>4
  <2> HIDE DEF f, S, V
  <2> QED BY <2>1, <2>3, <2>4, ImageIsSmaller
<1>4. IsFiniteSet(C) /\ Cardinality(C) \in Nat
      /\ Cardinality(C) <= Cardinality(Candidates) * Cardinality(X) * Cardinality(P)
  <2> DEFINE S == (Candidates \X X) \X P
             f == [xn \in S |-> eval(xn[1][1], xn[1][2], xn[2])]
  <2>1. IsFiniteSet(S) /\ Cardinality(S) = Cardinality(Candidates) * Cardinality(X) * Cardinality(P)
    <3> HIDE DEF P, X
    <3>1. /\ IsFiniteSet(Candidates \X X)
          /\ Cardinality(Candidates \X X) = Cardinality(Candidates) * Cardinality(X)
      BY <1>1, FS_Product
    <3> QED BY <1>1, <3>1, FS_Product
  <2>2. f \in [S -> C]
    BY DEF EvaluationsOf
  <2>3. \A t \in C : \E s \in S : f[s] = t
    <3> TAKE t \in C
    <3>1. PICK c \in Candidates, x \in X, n \in P : t = eval(c, x, n)
      BY DEF EvaluationsOf
    <3>2. <<<<c, x>>, n>> \in S /\ f[<<<<c, x>>, n>>] = t
      BY <3>1
    <3> QED BY <3>2
  <2> HIDE DEF f, S, C
  <2> QED BY <2>1, <2>2, <2>3, ImageIsSmaller
<1>5. Planned(r) = A \cup V \cup C
  BY DEF Planned
<1>6. UniqueVariants(r) = Cardinality(CV)
  BY DEF UniqueVariants
<1>7. ExpectedBuilds(r) = Cardinality(Candidates) * Cardinality(Sessions) + Cardinality(CV) * Cardinality(P)
          + Cardinality(Candidates) * Cardinality(X) * Cardinality(P)
  BY <1>6 DEF ExpectedBuilds
<1> HIDE DEF A, V, C, P, X, CV
<1>8. /\ IsFiniteSet(A \cup V) /\ Cardinality(A \cup V) \in Nat
      /\ Cardinality(A \cup V) <= Cardinality(A) + Cardinality(V)
  BY <1>2, <1>3, UnionIsSmaller
<1>9. /\ IsFiniteSet(A \cup V \cup C) /\ Cardinality(A \cup V \cup C) \in Nat
      /\ Cardinality(A \cup V \cup C) <= Cardinality(A \cup V) + Cardinality(C)
  BY <1>4, <1>8, UnionIsSmaller
<1>10. \A a, b \in Nat : a * b \in Nat
  OBVIOUS
<1>11. /\ Cardinality(Candidates) * Cardinality(Sessions) \in Nat
       /\ Cardinality(CV) * Cardinality(P) \in Nat
       /\ Cardinality(Candidates) * Cardinality(X) * Cardinality(P) \in Nat
  BY <1>1, <1>10
<1> QED BY <1>2, <1>3, <1>4, <1>5, <1>7, <1>8, <1>9, <1>11

(***************************************************************************)
(* Inputs and results.                                                     *)
(***************************************************************************)
\* Only that of the evidence depends on results, and on those of families alone.
LEMMA InputStable ==
    ASSUME NEW r \in Requests, NEW u \in AllUnits, NEW S, NEW T,
           u.kind = "quantitative-evidence" => FamilyResults(r, u.cid, S) = FamilyResults(r, u.cid, T)
    PROVE  Input(u, r, S) = Input(u, r, T) /\ Result(u, r, S) = Result(u, r, T)
<1>1. u.kind \in Families \cup {"quantitative-evidence"}
  BY DEF AllUnits
<1> QED BY <1>1 DEF Families, Input, Result, Named

LEMMA FamiliesAlone ==
    ASSUME NEW r, NEW c, NEW S, NEW T,
           \A y : y.unit.kind # "quantitative-evidence" => (y \in S <=> y \in T)
    PROVE  FamilyResults(r, c, S) = FamilyResults(r, c, T)
<1> DEFINE other == {"quantitative-evidence",
                     IF r.ninth = None THEN "ninth-increment-walk-forward" ELSE "walk-forward"}
           of(X) == {y \in X : y.unit.cid = c /\ y.unit.kind \notin other}
<1>1. of(S) = of(T)
  OBVIOUS
<1>2. FamilyResults(r, c, S) = {x.result : x \in of(S)} /\ FamilyResults(r, c, T) = {x.result : x \in of(T)}
  BY DEF FamilyResults
<1> HIDE DEF of
<1> QED BY <1>1, <1>2

\* An input and a result name their unit.
LEMMA InputOfUnit ==
    ASSUME NEW r \in Requests, NEW u \in AllUnits, NEW S
    PROVE  Input(u, r, S).unit = u /\ Result(u, r, S).unit = u
<1>1. u.kind \in Families \cup {"quantitative-evidence"}
  BY DEF AllUnits
<1>2. Input(u, r, S).unit = u
  BY <1>1 DEF Families, Input
<1> QED BY <1>2 DEF Result

(***************************************************************************)
(* A run in a state of the invariant.                                      *)
(***************************************************************************)
LEMMA RunFacts ==
    ASSUME IInv, runner # None
    PROVE  /\ runner \in Procs /\ call[runner] # Idle
           /\ request \in Requests /\ WithinWorkload(request) /\ context = Context(request)
           /\ Len(UnitsOf(request)) \in Nat /\ FamilyUnits(request) \in Nat
           /\ FamilyUnits(request) <= Len(UnitsOf(request))
           /\ position \in 1..(Len(UnitsOf(request)) + 1)
           /\ \A i \in 1..Len(UnitsOf(request)) :
                 /\ UnitsOf(request)[i] \in AllUnits
                 /\ UnitsOf(request)[i].kind = "quantitative-evidence" <=> i > FamilyUnits(request)
           /\ position <= Len(UnitsOf(request)) => unit \in AllUnits
<1>1. /\ runner \in Procs /\ call[runner] # Idle /\ context = Context(request)
      /\ position \in 1..(Len(UnitsOf(request)) + 1)
  BY DEF IInv, TypeOK, RunInv
<1>2. request \in Requests /\ WithinWorkload(request)
  BY <1>1 DEF IInv, CallInv, request
<1>3. /\ Len(UnitsOf(request)) \in Nat /\ FamilyUnits(request) \in Nat
      /\ FamilyUnits(request) <= Len(UnitsOf(request))
      /\ \A i \in 1..Len(UnitsOf(request)) :
            /\ UnitsOf(request)[i] \in AllUnits
            /\ UnitsOf(request)[i].kind = "quantitative-evidence" <=> i > FamilyUnits(request)
  BY <1>2, UnitsTyped
<1>4. position <= Len(UnitsOf(request)) => unit \in AllUnits
  BY <1>1, <1>3 DEF unit
<1> QED BY <1>1, <1>2, <1>3, <1>4

\* Whoever wrote the rows that are there: where one is of a unit that the run may
\* come to, the run comes to it at the same place.
LEMMA RowsAreOfUnits ==
    ASSUME IInv, runner # None, completed # {}
    PROVE  \E k \in Nat :
             /\ \A x \in completed : x.unit.kind # "quantitative-evidence" =>
                   \E i \in 1..k : i <= FamilyUnits(request) /\ x.unit = UnitsOf(request)[i]
             /\ k <= Len(UnitsOf(request)) =>
                   {x.unit : x \in completed} = {UnitsOf(request)[i] : i \in 1..k}
             /\ \A i \in 1..k : i <= Len(UnitsOf(request)) =>
                   \E x \in completed : x.unit = UnitsOf(request)[i]
<1>1. request \in Requests /\ context = Context(request)
  BY RunFacts
<1>2. PICK r \in Requests : /\ Context(r) = context
                            /\ \E k \in DOMAIN UnitsOf(r) :
                                  {x.unit : x \in completed} = {UnitsOf(r)[i] : i \in 1..k}
  BY DEF IInv, CheckpointIsOfOneRun
<1>3. PICK k \in DOMAIN UnitsOf(r) : {x.unit : x \in completed} = {UnitsOf(r)[i] : i \in 1..k}
  BY <1>2
<1> DEFINE U == UnitsOf(request)
           W == UnitsOf(r)
<1>4. /\ FamilyUnits(r) = FamilyUnits(request)
      /\ \A i \in 1..Len(W) : i \in 1..Len(U) => W[i] = U[i]
  BY <1>1, <1>2, UnitsAgree
<1>5. /\ DOMAIN W = 1..Len(W) /\ Len(W) \in Nat /\ Len(U) \in Nat /\ FamilyUnits(r) \in Nat
      /\ FamilyUnits(r) <= Len(U)
      /\ \A i \in 1..Len(W) : W[i].kind = "quantitative-evidence" <=> i > FamilyUnits(r)
  BY <1>1, <1>4, UnitsTyped
<1>6. \A i \in 1..k : i \in 1..Len(W)
  BY <1>5
<1>7. k \in Nat
  BY <1>5
<1>8. \A x \in completed : x.unit \in {y.unit : y \in completed}
  OBVIOUS
<1>9. \A x \in completed : \E i \in 1..k : x.unit = W[i]
  BY <1>3, <1>8
<1>10. \A i \in 1..k : \E x \in completed : x.unit = W[i]
  <2> TAKE i \in 1..k
  <2>1. W[i] \in {x.unit : x \in completed}
    BY <1>3
  <2> QED BY <2>1
<1> HIDE DEF U, W
<1>11. \A x \in completed : x.unit.kind # "quantitative-evidence" =>
           \E i \in 1..k : i <= FamilyUnits(request) /\ x.unit = U[i]
  <2> SUFFICES ASSUME NEW x \in completed, x.unit.kind # "quantitative-evidence"
               PROVE  \E i \in 1..k : i <= FamilyUnits(request) /\ x.unit = U[i]
    OBVIOUS
  <2>1. PICK i \in 1..k : x.unit = W[i]
    BY <1>9
  <2>2. i \in 1..Len(W) /\ i <= FamilyUnits(r)
    BY <1>5, <1>6, <2>1
  <2>3. i \in 1..Len(U)
    BY <1>5, <2>2
  <2> QED BY <1>4, <2>1, <2>2, <2>3
<1>12. ASSUME k <= Len(U)
       PROVE  {x.unit : x \in completed} = {U[i] : i \in 1..k}
  <2>1. \A i \in 1..k : i \in 1..Len(U)
    BY <1>5, <1>12, <1>7
  <2>2. \A i \in 1..k : W[i] = U[i]
    BY <1>4, <1>6, <2>1
  <2>3. {W[i] : i \in 1..k} = {U[i] : i \in 1..k}
    BY <2>2
  <2> QED BY <1>3, <2>3 DEF W
<1>13. \A i \in 1..k : i <= Len(U) => \E x \in completed : x.unit = U[i]
  BY <1>4, <1>5, <1>6, <1>10
<1> QED BY <1>11, <1>12, <1>13, <1>7 DEF U

\* Past the families the run has passed every row of a family.
LEMMA FamiliesArePassed ==
    ASSUME IInv, runner # None, position > FamilyUnits(request)
    PROVE  \A x \in completed : x.unit.kind # "quantitative-evidence" => x.unit \in Done
<1> SUFFICES ASSUME NEW x \in completed, x.unit.kind # "quantitative-evidence"
             PROVE  x.unit \in Done
  OBVIOUS
<1>1. PICK k \in Nat : \E i \in 1..k : i <= FamilyUnits(request) /\ x.unit = UnitsOf(request)[i]
  BY RowsAreOfUnits
<1>2. PICK i \in 1..k : i <= FamilyUnits(request) /\ x.unit = UnitsOf(request)[i]
  BY <1>1
<1>3. i \in 1..(position - 1)
  BY <1>2, RunFacts
<1> QED BY <1>2, <1>3 DEF Done

\* So the evidence is built from the results that the checkpoint names.
LEMMA EvidenceIsOfTheRows ==
    ASSUME IInv, runner # None, at = "mark"
    PROVE  Input(unit, request, records) = Input(unit, request, ResultsOf(completed))
<1>1. request \in Requests /\ unit \in AllUnits /\ position \in 1..Len(UnitsOf(request))
  <2>1. position <= Len(UnitsOf(request))
    BY DEF IInv, RunInv
  <2> QED BY <2>1, RunFacts
<1>2. ASSUME unit.kind = "quantitative-evidence"
      PROVE  FamilyResults(request, unit.cid, records)
               = FamilyResults(request, unit.cid, ResultsOf(completed))
  <2>1. position > FamilyUnits(request)
    BY <1>1, <1>2, RunFacts DEF unit
  <2>2. \A x \in completed : x.unit.kind # "quantitative-evidence" => x.unit \in Done
    BY <2>1, FamiliesArePassed
  <2>3. records = ResultsOf({x \in completed : x.unit \in Done})
    BY DEF IInv, RowsInv
  <2>4. \A y : y.unit.kind # "quantitative-evidence" =>
                 (y \in records <=> y \in ResultsOf(completed))
    BY <2>2, <2>3 DEF ResultsOf
  <2> QED BY <2>4, FamiliesAlone
<1> QED BY <1>1, <1>2, InputStable

(***************************************************************************)
(* Marking a unit.                                                         *)
(***************************************************************************)
\* The checkpoint after Mark.
Marked == IF \E x \in completed : x.unit = unit THEN completed ELSE completed \cup {Row}

\* Where the unit has no row yet, the rows are those of the units before.
LEMMA RowsBefore ==
    ASSUME IInv, runner # None, at = "mark", \A x \in completed : x.unit # unit
    PROVE  {x.unit : x \in completed} = Done
<1> DEFINE U == UnitsOf(request)
<1>1. position \in 1..Len(U) /\ Len(U) \in Nat
  BY RunFacts DEF IInv, RunInv
<1>2. Done \subseteq {x.unit : x \in completed}
  BY DEF IInv, RowsInv
<1>3. CASE completed = {}
  BY <1>2, <1>3
<1>4. CASE completed # {}
  <2>1. PICK k \in Nat :
           /\ k <= Len(U) => {x.unit : x \in completed} = {U[i] : i \in 1..k}
           /\ \A i \in 1..k : i <= Len(U) => \E x \in completed : x.unit = U[i]
    BY <1>4, RowsAreOfUnits
  <2>2. k < position
    <3> SUFFICES ASSUME ~(k < position) PROVE FALSE
      OBVIOUS
    <3>1. position \in 1..k
      BY <1>1
    <3>2. \E x \in completed : x.unit = U[position]
      BY <1>1, <2>1, <3>1
    <3> QED BY <3>2 DEF unit
  <2>3. \A i \in 1..k : i \in 1..(position - 1)
    BY <1>1, <2>2
  <2>4. {U[i] : i \in 1..k} \subseteq Done
    BY <2>3 DEF Done
  <2>5. k <= Len(U)
    BY <1>1, <2>2
  <2> QED BY <1>2, <2>1, <2>4, <2>5
<1> QED BY <1>3, <1>4

\* After it the rows are still the beginning of one run, this one if it has added a
\* row, and it has passed one unit more.
LEMMA MarkKeepsRows ==
    ASSUME IInv, runner # None, at = "mark", ~Mismatch
    PROVE  /\ \A x, y \in Marked : x.unit = y.unit => x = y
           /\ Done \cup {unit} \subseteq {x.unit : x \in Marked}
           /\ records \cup {[unit |-> unit, result |-> record]}
                = ResultsOf({x \in Marked : x.unit \in Done \cup {unit}})
           /\ \A x \in Marked : x.unit \in Done \cup {unit} =>
                 x.input = Input(x.unit, request, ResultsOf(Marked))
           /\ \E r \in Requests :
                 /\ Context(r) = context
                 /\ \E k \in DOMAIN UnitsOf(r) : {x.unit : x \in Marked} = {UnitsOf(r)[i] : i \in 1..k}
                 /\ \A x \in Marked : x.input = Input(x.unit, r, ResultsOf(Marked))
<1> DEFINE U == UnitsOf(request)
<1>1. /\ request \in Requests /\ context = Context(request) /\ unit \in AllUnits
      /\ position \in 1..Len(U) /\ Len(U) \in Nat /\ DOMAIN U = 1..Len(U)
      /\ \A i \in 1..Len(U) : U[i] \in AllUnits
      /\ FamilyUnits(request) \in Nat
      /\ \A i \in 1..Len(U) : U[i].kind = "quantitative-evidence" <=> i > FamilyUnits(request)
  BY RunFacts, UnitsTyped DEF IInv, RunInv
<1>2. /\ \A x, y \in completed : x.unit = y.unit => x = y
      /\ Done \subseteq {x.unit : x \in completed}
      /\ records = ResultsOf({x \in completed : x.unit \in Done})
      /\ \A x \in completed : x.unit \in Done =>
            x.input = Input(x.unit, request, ResultsOf(completed))
  BY DEF IInv, RowsInv
<1>3. Row = [unit |-> unit, input |-> Input(unit, request, ResultsOf(completed)), result |-> record]
  BY EvidenceIsOfTheRows DEF Row
<1>4. CASE \E x \in completed : x.unit = unit
  <2>1. Marked = completed
    BY <1>4 DEF Marked
  <2>2. Row \in completed
    BY <1>4 DEF Mismatch
  <2>3. completed # {}
    BY <1>4
  <2>4. \E r \in Requests :
           /\ Context(r) = context
           /\ \E k \in DOMAIN UnitsOf(r) : {x.unit : x \in Marked} = {UnitsOf(r)[i] : i \in 1..k}
           /\ \A x \in Marked : x.input = Input(x.unit, r, ResultsOf(Marked))
    BY <2>1, <2>3 DEF IInv, CheckpointIsOfOneRun, ResultsOf
  <2>5. Row.unit = unit /\ Row.result = record /\ Row.input = Input(unit, request, ResultsOf(completed))
    BY <1>3
  <2> DEFINE D == Done
             R == Row
             u == unit
             I(v) == Input(v, request, ResultsOf(completed))
  <2>6. \A x \in completed : x.unit = u => x = R
    BY <1>2, <2>2, <2>5
  <2>7. D \cup {u} \subseteq {x.unit : x \in completed}
    BY <1>2, <2>2, <2>5
  <2>8. \A x \in completed : x.unit \in D \cup {u} => x.input = I(x.unit)
    BY <1>2, <2>5, <2>6
  <2>9. records \cup {[unit |-> u, result |-> record]} = ResultsOf({x \in completed : x.unit \in D \cup {u}})
    <3> HIDE DEF D, R, u
    <3>1. {x \in completed : x.unit \in D \cup {u}} = {x \in completed : x.unit \in D} \cup {R}
      BY <2>2, <2>5, <2>6 DEF R, u
    <3>2. ResultsOf({x \in completed : x.unit \in D} \cup {R})
            = ResultsOf({x \in completed : x.unit \in D}) \cup {[unit |-> R.unit, result |-> R.result]}
      BY DEF ResultsOf
    <3> QED BY <1>2, <2>5, <3>1, <3>2 DEF D, R, u
  <2> QED BY <1>2, <2>1, <2>4, <2>7, <2>8, <2>9
<1>5. CASE \A x \in completed : x.unit # unit
  <2> DEFINE D == Done
             R == Row
             u == unit
             C == completed \cup {R}
  <2>1. Marked = C
    BY <1>5 DEF Marked
  <2>2. R.unit = u /\ R.result = record /\ R.input = Input(u, request, ResultsOf(completed))
    BY <1>3
  <2>3. {x.unit : x \in completed} = D
    BY <1>5, RowsBefore
  <2>4. D = {U[i] : i \in 1..(position - 1)} /\ u = U[position]
    BY DEF Done, unit
  <2>5. \A i \in 1..position : i \in 1..(position - 1) \/ i = position
    BY <1>1
  <2>6. D \cup {u} = {U[i] : i \in 1..position}
    <3> HIDE DEF D, u, U
    <3>1. \A i \in 1..(position - 1) : i \in 1..position
      BY <1>1
    <3>2. position \in 1..position
      BY <1>1
    <3> QED BY <2>4, <2>5, <3>1, <3>2
  <2>7. ResultsOf(C) = ResultsOf(completed) \cup {[unit |-> u, result |-> record]}
    <3> HIDE DEF R, u
    <3> QED BY <2>2 DEF ResultsOf
  <2>8. \A x \in completed : x.unit \in D
    BY <2>3
  <2>9. {x.unit : x \in C} = D \cup {u}
    <3> HIDE DEF D, R, u
    <3> QED BY <2>2, <2>3
  <2>10. ASSUME NEW v \in D \cup {u}
         PROVE  Input(v, request, ResultsOf(completed)) = Input(v, request, ResultsOf(C))
    <3>1. PICK i \in 1..position : v = U[i]
      BY <2>6
    <3>2. v \in AllUnits /\ i \in 1..Len(U)
      BY <1>1, <3>1
    <3>3. ASSUME v.kind = "quantitative-evidence"
          PROVE  FamilyResults(request, v.cid, ResultsOf(completed))
                   = FamilyResults(request, v.cid, ResultsOf(C))
      <4>1. i > FamilyUnits(request)
        BY <1>1, <3>1, <3>2, <3>3
      <4>2. position > FamilyUnits(request)
        BY <1>1, <4>1
      <4>3. u.kind = "quantitative-evidence"
        BY <1>1, <2>4, <4>2
      <4> HIDE DEF u, C
      <4>4. \A y : y.unit.kind # "quantitative-evidence" =>
                     (y \in ResultsOf(completed) <=> y \in ResultsOf(C))
        BY <2>7, <4>3
      <4> QED BY <4>4, FamiliesAlone
    <3> QED BY <1>1, <3>2, <3>3, InputStable
  <2>11. \A x \in C : x.input = Input(x.unit, request, ResultsOf(C))
    <3> HIDE DEF D, R, u
    <3>1. \A x \in completed : x.input = Input(x.unit, request, ResultsOf(C))
      BY <1>2, <2>8, <2>10 DEF D
    <3>2. R.input = Input(R.unit, request, ResultsOf(C))
      BY <2>2, <2>10
    <3> QED BY <3>1, <3>2
  <2>12. \A x, y \in C : x.unit = y.unit => x = y
    BY <1>2, <1>5, <2>2
  <2>13. records \cup {[unit |-> u, result |-> record]} = ResultsOf({x \in C : x.unit \in D \cup {u}})
    <3> HIDE DEF D, R, u
    <3>1. {x \in C : x.unit \in D \cup {u}} = C
      BY <2>2, <2>8
    <3>2. {x \in completed : x.unit \in D} = completed
      BY <2>8
    <3> QED BY <1>2, <2>7, <3>1, <3>2 DEF D
  <2>14. \E r \in Requests :
            /\ Context(r) = context
            /\ \E k \in DOMAIN UnitsOf(r) : {x.unit : x \in C} = {UnitsOf(r)[i] : i \in 1..k}
            /\ \A x \in C : x.input = Input(x.unit, r, ResultsOf(C))
    <3>1. position \in DOMAIN U
      BY <1>1
    <3>2. {x.unit : x \in C} = {U[i] : i \in 1..position}
      BY <2>6, <2>9
    <3> HIDE DEF C
    <3> QED BY <1>1, <2>11, <3>1, <3>2
  <2> HIDE DEF C
  <2> QED BY <2>1, <2>9, <2>11, <2>12, <2>13, <2>14
<1> QED BY <1>4, <1>5

(***************************************************************************)
(* The invariant is inductive.                                             *)
(***************************************************************************)
FaultsTyped == faults \in Seq({"CRASH"} \cup Damages) /\ Len(faults) <= MaxFaults

\* One more fault within the bound.
LEMMA OneMoreFault ==
    ASSUME TypeOK, Len(faults) < MaxFaults, NEW f \in {"CRASH"} \cup Damages, faults' = Append(faults, f)
    PROVE  FaultsTyped'
<1>1. faults \in Seq({"CRASH"} \cup Damages) /\ MaxFaults \in Nat
  BY RobustnessAssumption DEF TypeOK
<1>2. faults' \in Seq({"CRASH"} \cup Damages) /\ Len(faults') = Len(faults) + 1
  BY <1>1, AppendProperties
<1>3. Len(faults) \in Nat
  BY <1>1, LenProperties
<1> QED BY <1>1, <1>2, <1>3 DEF FaultsTyped

\* A run that stops takes nothing with it.
LEMMA StopKeeps ==
    ASSUME IInv, runner # None, Stop,
           UNCHANGED <<cache, context, built, published>>,
           FaultsTyped',
           completed' # {} => context # None,
           \A x, y \in completed' : x.unit = y.unit => x = y,
           CheckpointIsOfOneRun'
    PROVE  IInv'
<1>1. /\ runner' = None /\ at' = "off" /\ position' = 1 /\ todo' = {} /\ records' = {} /\ builds' = 0
      /\ call' = [call EXCEPT ![runner] = Idle]
  BY DEF Stop
<1>2. \A p \in Procs : call'[p] = Idle \/ call'[p] = call[p]
  BY <1>1 DEF IInv, CallInv
<1>3. CallInv'
  <2>1. Idle \in [request : Requests \cup {None}, limit : Nat]
    BY DEF Idle
  <2>2. call' \in [Procs -> [request : Requests \cup {None}, limit : Nat]]
    BY <1>1, <2>1 DEF IInv, CallInv
  <2>3. \A p \in Procs : call'[p] # Idle =>
           call'[p].request \in Requests /\ WithinWorkload(call'[p].request)
    BY <1>2 DEF IInv, CallInv
  <2> QED BY <2>2, <2>3 DEF CallInv
<1>4. TypeOK'
  <2>1. /\ \A x \in cache' : x.intact \in BOOLEAN /\ x.input.unit = x.result.unit
        /\ context' \in {Context(r) : r \in Requests} \cup {None}
        /\ built' \subseteq Evals /\ published' \subseteq built'
    BY DEF IInv, TypeOK, FaultsTyped
  <2>2. \A p \in Procs : call'[p] = Idle \/ call'[p].request \in Requests
    BY <1>2 DEF IInv, TypeOK, FaultsTyped
  <2> QED BY <1>1, <2>1, <2>2 DEF TypeOK, FaultsTyped
<1>5. RunInv'
  BY <1>1 DEF RunInv
<1>6. RowsInv'
  BY <1>1 DEF RowsInv
<1>7. CacheInv'
  BY DEF IInv, CacheInv
<1> QED BY <1>3, <1>4, <1>5, <1>6, <1>7 DEF IInv

\* A step within a unit disturbs neither the calls nor the rows.
LEMMA WithinUnit ==
    ASSUME IInv, UNCHANGED <<context, completed, call, runner, position, records>>
    PROVE  /\ CallInv' /\ RowsInv' /\ CheckpointIsOfOneRun'
           /\ request' = request /\ unit' = unit
<1>1. request' = request
  BY DEF request
<1>2. unit' = unit
  BY <1>1 DEF unit
<1>3. CallInv'
  BY DEF IInv, CallInv
<1>4. CheckpointIsOfOneRun'
  BY DEF IInv, CheckpointIsOfOneRun
<1>5. Done' = Done
  BY <1>1 DEF Done
<1>6. RowsInv'
  BY <1>1, <1>5 DEF IInv, RowsInv, ResultsOf
<1> QED BY <1>1, <1>2, <1>3, <1>4, <1>6

\* Where it leaves the builders' files alone as well, it has only to ask for what was
\* announced, and to be at a unit.
LEMMA GoesOn ==
    ASSUME IInv, runner # None,
           UNCHANGED <<context, completed, call, runner, position, records, built, published, builds,
                       faults>>,
           at' \in {"unit", "prepare", "look", "build", "put", "mark", "export", "report"},
           at' \in {"prepare", "look", "build", "put", "mark"} => position <= Len(UnitsOf(request)),
           at' = "mark" => record'.unit = unit,
           todo' \subseteq Planned(request),
           CacheInv', \A x \in cache' : x.intact \in BOOLEAN /\ x.input.unit = x.result.unit
    PROVE  IInv'
<1>1. /\ CallInv' /\ RowsInv' /\ CheckpointIsOfOneRun'
      /\ request' = request /\ unit' = unit
  BY WithinUnit
<1>2. request \in Requests
  BY RunFacts
<1>3. TypeOK'
  <2>1. todo' \subseteq Evals
    BY <1>2, PlannedTyped
  <2> QED BY <1>1, <2>1 DEF IInv, TypeOK, FaultsTyped
<1>4. RunInv'
  BY <1>1 DEF IInv, RunInv
<1> QED BY <1>1, <1>3, <1>4 DEF IInv

LEMMA NextUnitKeeps == IInv /\ runner # None /\ NextUnit => IInv'
<1> SUFFICES ASSUME IInv, runner # None, NextUnit PROVE IInv'
  OBVIOUS
<1>1. /\ UNCHANGED <<files, record, faults, call, runner, position, records, builds>>
      /\ CacheInv' /\ \A x \in cache' : x.intact \in BOOLEAN /\ x.input.unit = x.result.unit
  BY DEF NextUnit, GoTo, files, IInv, CacheInv, TypeOK, FaultsTyped
<1>2. todo \subseteq Planned(request)
  BY DEF IInv, RunInv
<1>3. CASE position > Len(UnitsOf(request))
  <2>1. at' = "export" /\ todo' = todo
    BY <1>3 DEF NextUnit, GoTo
  <2> QED BY <1>1, <1>2, <2>1, GoesOn DEF files
<1>4. CASE ~(position > Len(UnitsOf(request)))
  <2>1. position <= Len(UnitsOf(request)) /\ unit \in AllUnits /\ request \in Requests
    BY <1>4, RunFacts
  <2>2. Evaluated(unit, request) \subseteq Planned(request)
    BY <2>1, EvaluatedIsPlanned
  <2>3. at' \in {"prepare", "look"} /\ todo' \subseteq Planned(request)
    BY <1>2, <1>4, <2>2 DEF NextUnit, GoTo
  <2> QED BY <1>1, <2>1, <2>3, GoesOn DEF files
<1> QED BY <1>3, <1>4

\* The next evaluation is built when no file holds it, and counted: it is one of those
\* announced.
LEMMA EvaluateKeeps == IInv /\ runner # None /\ Evaluate => IInv'
<1> SUFFICES ASSUME IInv, runner # None, Evaluate PROVE IInv'
  OBVIOUS
<1> DEFINE e == NextOf(todo)
           P == Planned(request)
<1>1. /\ at \in {"prepare", "build"} /\ todo # {}
      /\ UNCHANGED <<cache, context, completed, output, report, call, runner, at, position, record,
                     records, faults>>
  BY DEF Evaluate
<1>2. /\ CallInv' /\ RowsInv' /\ CheckpointIsOfOneRun'
      /\ request' = request /\ unit' = unit
  BY <1>1, WithinUnit
<1>3. request \in Requests /\ todo \subseteq P /\ builds <= Cardinality(built \cap P)
      /\ builds \in Nat /\ built \subseteq Evals /\ published \subseteq built
  BY RunFacts DEF IInv, RunInv, TypeOK, FaultsTyped
<1>4. e \in P /\ P \subseteq Evals /\ IsFiniteSet(P)
  BY <1>1, <1>3, NextIsAsked, PlannedTyped, AnnouncedBuilds
<1>5. CacheInv' /\ \A x \in cache' : x.intact \in BOOLEAN /\ x.input.unit = x.result.unit
  BY <1>1 DEF IInv, CacheInv, TypeOK, FaultsTyped
<1>6. /\ todo' \subseteq P /\ built' \subseteq Evals /\ published' \subseteq built' /\ builds' \in Nat
      /\ builds' <= Cardinality(built' \cap P)
  <2> HIDE DEF P
  <2>1. CASE todo' = todo \ {e} /\ UNCHANGED <<built, published, builds>>
    BY <1>3, <2>1
  <2>2. CASE /\ \E B \in (SUBSET Ready(e.sid)) \ {{}} : published' = published \cup B
             /\ UNCHANGED <<todo, built, builds>>
    BY <1>3, <2>2 DEF Ready
  <2>3. CASE /\ e \notin built /\ built' = built \cup {e} /\ builds' = builds + 1
             /\ UNCHANGED <<todo, published>>
    <3>1. IsFiniteSet(built \cap P) /\ Cardinality(built \cap P) \in Nat
      BY <1>4, FS_Subset, FS_CardinalityType
    <3>2. built' \cap P = (built \cap P) \cup {e} /\ e \notin built \cap P
      BY <1>4, <2>3
    <3>3. Cardinality(built' \cap P) = Cardinality(built \cap P) + 1
      BY <3>1, <3>2, FS_AddElement
    <3> HIDE DEF e
    <3> QED BY <1>3, <1>4, <2>3, <3>1, <3>3
  <2> QED BY <2>1, <2>2, <2>3 DEF Evaluate
<1>7. TypeOK'
  BY <1>1, <1>2, <1>4, <1>5, <1>6 DEF IInv, TypeOK, FaultsTyped
<1>8. RunInv'
  BY <1>1, <1>2, <1>6 DEF IInv, RunInv
<1> QED BY <1>2, <1>5, <1>7, <1>8 DEF IInv

LEMMA EvaluationsKeeps == IInv /\ runner # None /\ Evaluations => IInv'
<1> SUFFICES ASSUME IInv, runner # None, Evaluations PROVE IInv'
  OBVIOUS
<1>1. /\ at \in {"prepare", "build"} /\ at' \in {"look", "put"}
      /\ UNCHANGED <<files, todo, record, faults, call, runner, position, records, builds>>
  BY DEF Evaluations, GoTo
<1>2. /\ CacheInv' /\ \A x \in cache' : x.intact \in BOOLEAN /\ x.input.unit = x.result.unit
      /\ position <= Len(UnitsOf(request)) /\ todo' \subseteq Planned(request)
  BY <1>1 DEF files, IInv, CacheInv, TypeOK, FaultsTyped, RunInv
<1> QED BY <1>1, <1>2, GoesOn DEF files

\* The unit that the run is at.
LEMMA AtUnit ==
    ASSUME IInv, runner # None, at \in {"prepare", "look", "build", "put", "mark"}
    PROVE  /\ position \in 1..Len(UnitsOf(request)) /\ unit \in AllUnits /\ request \in Requests
           /\ unit = UnitsOf(request)[position]
BY RunFacts DEF IInv, RunInv, unit

LEMMA LookKeeps == IInv /\ runner # None /\ Look => IInv'
<1> SUFFICES ASSUME IInv, runner # None, Look PROVE IInv'
  OBVIOUS
<1> DEFINE I == Input(unit, request, records)
           found == {x \in cache : x.input = I}
<1>1. at = "look" /\ UNCHANGED <<files, faults>>
  BY DEF Look
<1>2. /\ position \in 1..Len(UnitsOf(request)) /\ unit \in AllUnits /\ request \in Requests
  BY <1>1, AtUnit
<1>3. /\ CacheInv' /\ (\A x \in cache' : x.intact \in BOOLEAN /\ x.input.unit = x.result.unit)
      /\ todo \subseteq Planned(request)
  BY <1>1 DEF files, IInv, CacheInv, TypeOK, FaultsTyped, RunInv
<1>4. CASE Stop
  <2>1. FaultsTyped' /\ (completed' # {} => context # None) /\ CheckpointIsOfOneRun'
        /\ \A x, y \in completed' : x.unit = y.unit => x = y
    BY <1>1 DEF files, IInv, TypeOK, FaultsTyped, RowsInv, CheckpointIsOfOneRun
  <2> QED BY <1>1, <1>4, <2>1, StopKeeps DEF files
<1>5. CASE (\E x \in found : x.intact /\ record' = x.result) /\ GoTo("mark") /\ UNCHANGED todo
  <2>1. PICK x \in cache : x.input = I /\ record' = x.result
    BY <1>5
  <2>2. I.unit = unit
    BY <1>2, InputOfUnit
  <2>3. record'.unit = unit
    <3> HIDE DEF I
    <3> QED BY <2>1, <2>2 DEF IInv, TypeOK, FaultsTyped
  <2>4. UNCHANGED <<call, runner, position, records, builds>> /\ at' = "mark" /\ todo' = todo
    BY <1>5 DEF GoTo
  <2> QED BY <1>1, <1>2, <1>3, <2>3, <2>4, GoesOn DEF files
<1>6. CASE /\ todo' = IF unit.kind = "monte-carlo" THEN {} ELSE Evaluated(unit, request)
           /\ GoTo("build") /\ UNCHANGED record
  <2>1. UNCHANGED <<call, runner, position, records, builds>> /\ at' = "build"
    BY <1>6 DEF GoTo
  <2>2. todo' \subseteq Planned(request)
    BY <1>2, <1>6, EvaluatedIsPlanned
  <2> QED BY <1>1, <1>2, <1>3, <2>1, <2>2, GoesOn DEF files
<1> QED BY <1>4, <1>5, <1>6 DEF Look

LEMMA PutKeeps == IInv /\ runner # None /\ Put => IInv'
<1> SUFFICES ASSUME IInv, runner # None, Put PROVE IInv'
  OBVIOUS
<1> DEFINE I == Input(unit, request, records)
           R == Result(unit, request, records)
           x == [input |-> I, result |-> R, intact |-> TRUE]
<1>1. /\ at = "put" /\ record' = R /\ cache' = cache \cup {x} /\ at' = "mark"
      /\ UNCHANGED <<context, completed, built, published, output, report, todo, faults, call, runner,
                     position, records, builds>>
  BY DEF Put, GoTo
<1>2. position \in 1..Len(UnitsOf(request)) /\ unit \in AllUnits /\ request \in Requests
  BY <1>1, AtUnit
<1>3. I.unit = unit /\ R.unit = unit
  BY <1>2, InputOfUnit
<1>4. R = [unit |-> R.unit, used |-> R.used, named |-> R.named, release |-> R.release]
  BY DEF Result
<1> HIDE DEF I, R
<1>5. x.input = I /\ x.result = R /\ x.intact = TRUE
      /\ x = [input |-> x.input, result |-> x.result, intact |-> x.intact]
  OBVIOUS
<1> HIDE DEF x
<1>6. \A y \in cache' : y.intact \in BOOLEAN /\ y.input.unit = y.result.unit
  <2>1. x.intact \in BOOLEAN /\ x.input.unit = x.result.unit
    BY <1>3, <1>5
  <2>2. \A y \in cache : y.intact \in BOOLEAN /\ y.input.unit = y.result.unit
    BY DEF IInv, TypeOK, FaultsTyped
  <2> QED BY <1>1, <2>1, <2>2
<1>7. CacheInv'
  BY <1>1, <1>4, <1>5 DEF IInv, CacheInv
<1>8. todo' \subseteq Planned(request) /\ record'.unit = unit
  BY <1>1, <1>3 DEF IInv, RunInv
<1> QED BY <1>1, <1>2, <1>6, <1>7, <1>8, GoesOn

LEMMA MarkStepKeeps == IInv /\ runner # None /\ Mark => IInv'
<1> SUFFICES ASSUME IInv, runner # None, Mark PROVE IInv'
  OBVIOUS
<1> DEFINE U == UnitsOf(request)
<1>1. at = "mark" /\ UNCHANGED <<cache, context, built, published, output, report, faults>>
  BY DEF Mark
<1>2. position \in 1..Len(U) /\ unit \in AllUnits /\ request \in Requests /\ unit = U[position]
      /\ Len(U) \in Nat /\ context # None
  BY <1>1, AtUnit, RunFacts, ContextAssumption
<1>3. CASE Mismatch
  <2>1. Stop /\ completed' = completed
    BY <1>3 DEF Mark
  <2>2. FaultsTyped' /\ (completed' # {} => context # None) /\ CheckpointIsOfOneRun'
        /\ \A x, y \in completed' : x.unit = y.unit => x = y
    BY <1>1, <2>1 DEF IInv, TypeOK, FaultsTyped, RowsInv, CheckpointIsOfOneRun
  <2> QED BY <1>1, <2>1, <2>2, StopKeeps
<1>4. CASE ~Mismatch
  <2>1. completed' = Marked
    BY <1>4 DEF Mark, Marked
  <2> DEFINE D == Done \cup {unit}
  <2>2. /\ \A x, y \in completed' : x.unit = y.unit => x = y
        /\ D \subseteq {x.unit : x \in completed'}
        /\ records \cup {[unit |-> unit, result |-> record]} = ResultsOf({x \in completed' : x.unit \in D})
        /\ \A x \in completed' : x.unit \in D =>
              x.input = Input(x.unit, request, ResultsOf(completed'))
        /\ \E r \in Requests :
              /\ Context(r) = context
              /\ \E k \in DOMAIN UnitsOf(r) : {x.unit : x \in completed'} = {UnitsOf(r)[i] : i \in 1..k}
              /\ \A x \in completed' : x.input = Input(x.unit, r, ResultsOf(completed'))
    BY <1>1, <1>4, <2>1, MarkKeepsRows
  <2> HIDE DEF D
  <2>3. CheckpointIsOfOneRun'
    BY <1>1, <2>2 DEF CheckpointIsOfOneRun, ResultsOf
  <2>4. CASE Stop
    BY <1>1, <1>2, <2>2, <2>3, <2>4, StopKeeps DEF IInv, TypeOK, FaultsTyped
  <2>5. CASE /\ records' = records \cup {[unit |-> unit, result |-> record]}
             /\ record' = None /\ position' = position + 1 /\ at' = "unit"
             /\ UNCHANGED <<call, runner, todo, builds>>
    <3>1. request' = request
      BY <2>5 DEF request
    <3>2. \A i \in 1..(position' - 1) : i \in 1..(position - 1) \/ i = position
      BY <1>2, <2>5
    <3>3. \A i \in 1..(position - 1) : i \in 1..(position' - 1)
      BY <1>2, <2>5
    <3>4. position \in 1..(position' - 1)
      BY <1>2, <2>5
    <3>5. Done' = {U[i] : i \in 1..(position' - 1)} /\ Done = {U[i] : i \in 1..(position - 1)}
      BY <3>1 DEF Done
    <3>6. Done' = D
      BY <1>2, <3>2, <3>3, <3>4, <3>5 DEF D
    <3>7. RowsInv'
      BY <1>1, <1>2, <2>2, <2>5, <3>1, <3>6 DEF RowsInv
    <3>8. \A x \in records' : \E i \in 1..(position' - 1) : x.unit = U[i]
      <4>1. \A x \in records : \E i \in 1..(position - 1) : x.unit = U[i]
        BY DEF IInv, TypeOK, FaultsTyped
      <4>2. [unit |-> unit, result |-> record].unit = U[position]
        BY <1>2
      <4> HIDE DEF U
      <4> QED BY <2>5, <3>3, <3>4, <4>1, <4>2
    <3>9. position' \in 1..(Len(U) + 1)
      BY <1>2, <2>5
    <3>10. TypeOK'
      BY <1>1, <2>5, <3>1, <3>8, <3>9 DEF IInv, TypeOK, FaultsTyped
    <3>11. RunInv'
      BY <1>1, <2>5, <3>1 DEF IInv, RunInv
    <3>12. CallInv' /\ CacheInv'
      BY <1>1, <2>5 DEF IInv, CallInv, CacheInv
    <3> QED BY <2>3, <3>7, <3>10, <3>11, <3>12 DEF IInv
  <2> QED BY <1>4, <2>4, <2>5 DEF Mark
<1> QED BY <1>3, <1>4

LEMMA FilesStop ==
    ASSUME IInv, runner # None, Stop, UNCHANGED <<cache, context, completed, built, published>>,
           FaultsTyped'
    PROVE  IInv'
<1>1. (completed' # {} => context # None) /\ CheckpointIsOfOneRun'
      /\ \A x, y \in completed' : x.unit = y.unit => x = y
  BY DEF IInv, RowsInv, CheckpointIsOfOneRun
<1> QED BY <1>1, StopKeeps

LEMMA ExportKeeps == IInv /\ runner # None /\ Export => IInv'
<1> SUFFICES ASSUME IInv, runner # None, Export PROVE IInv'
  OBVIOUS
<1>1. UNCHANGED <<cache, context, completed, built, published, report, faults>>
  BY DEF Export
<1>2. CASE Stop
  BY <1>1, <1>2, FilesStop DEF IInv, TypeOK, FaultsTyped
<1>3. CASE GoTo("report") /\ UNCHANGED <<todo, record>>
  <2>1. at' = "report" /\ UNCHANGED <<call, runner, position, records, builds, todo, record>>
    BY <1>3 DEF GoTo
  <2>2. /\ CacheInv' /\ \A x \in cache' : x.intact \in BOOLEAN /\ x.input.unit = x.result.unit
        /\ todo' \subseteq Planned(request)
    BY <1>1, <2>1 DEF IInv, CacheInv, TypeOK, FaultsTyped, RunInv
  <2> QED BY <1>1, <2>1, <2>2, GoesOn
<1> QED BY <1>2, <1>3 DEF Export

LEMMA ReportKeeps == IInv /\ runner # None /\ Report => IInv'
BY FilesStop DEF Report, IInv, TypeOK, FaultsTyped

LEMMA CrashKeeps == IInv /\ Crash => IInv'
<1> SUFFICES ASSUME IInv, Crash PROVE IInv'
  OBVIOUS
<1>1. FaultsTyped'
  BY OneMoreFault DEF IInv, Crash
<1> QED BY <1>1, FilesStop DEF Crash, files

\* What damages make of an entry.
LEMMA AlteredEntry ==
    ASSUME NEW x, x = [input |-> x.input, result |-> x.result, intact |-> x.intact]
    PROVE  /\ [x EXCEPT !.intact = FALSE].input = x.input
           /\ [x EXCEPT !.intact = FALSE].result = x.result
           /\ [x EXCEPT !.intact = FALSE].intact = FALSE
           /\ [x EXCEPT !.intact = FALSE] = [input |-> x.input, result |-> x.result, intact |-> FALSE]
<1>1. ASSUME NEW a, NEW b, NEW c, NEW d, NEW y, y = [input |-> a, result |-> b, intact |-> c]
      PROVE  [y EXCEPT !.intact = d] = [input |-> a, result |-> b, intact |-> d]
  BY <1>1
<1> DEFINE f == FALSE
<1>2. [x EXCEPT !.intact = f] = [input |-> x.input, result |-> x.result, intact |-> f]
  <2> HIDE DEF f
  <2> QED BY <1>1
<1> QED BY <1>2

LEMMA ReplacedEntry ==
    ASSUME NEW x, x = [input |-> x.input, result |-> x.result, intact |-> x.intact],
           x.result = [unit |-> x.result.unit, used |-> x.result.used, named |-> x.result.named,
                       release |-> x.result.release]
    PROVE  /\ [x EXCEPT !.result.release = "other"].input = x.input
           /\ [x EXCEPT !.result.release = "other"].intact = x.intact
           /\ [x EXCEPT !.result.release = "other"].result
                = [unit |-> x.result.unit, used |-> x.result.used, named |-> x.result.named,
                   release |-> "other"]
           /\ [x EXCEPT !.result.release = "other"]
                = [input |-> x.input, intact |-> x.intact,
                   result |-> [unit |-> x.result.unit, used |-> x.result.used,
                               named |-> x.result.named, release |-> "other"]]
<1>1. ASSUME NEW a, NEW b, NEW c, NEW d, NEW y, y = [unit |-> a, used |-> b, named |-> c, release |-> d]
      PROVE  [y EXCEPT !.release = "other"] = [unit |-> a, used |-> b, named |-> c, release |-> "other"]
  BY <1>1
<1> DEFINE R == [unit |-> x.result.unit, used |-> x.result.used, named |-> x.result.named,
                 release |-> "other"]
<1>2. [x.result EXCEPT !.release = "other"] = R
  BY <1>1
<1> HIDE DEF R
<1>3. ASSUME NEW a, NEW b, NEW c, NEW y, y = [input |-> a, result |-> b, intact |-> c],
             [b EXCEPT !.release = "other"] = R
      PROVE  [y EXCEPT !.result.release = "other"] = [input |-> a, intact |-> c, result |-> R]
  BY <1>3
<1>4. [x EXCEPT !.result.release = "other"] = [input |-> x.input, intact |-> x.intact, result |-> R]
  BY <1>2, <1>3
<1> QED BY <1>4 DEF R

\* Between runs the rows are lost together with the protocol they are of.
LEMMA DamageKeeps == IInv /\ Damage => IInv'
<1> SUFFICES ASSUME IInv, Damage PROVE IInv'
  OBVIOUS
<1>1. /\ runner = None /\ runner' = None /\ FaultsTyped'
      /\ UNCHANGED <<built, published, output, report, call, runner, at, position, todo, record, records,
                     builds>>
  <2>1. /\ runner = None /\ Len(faults) < MaxFaults /\ \E d \in Damages : faults' = Append(faults, d)
        /\ UNCHANGED <<built, published, output, report, memory>>
    BY DEF Damage, DamageOf
  <2>2. FaultsTyped'
    BY <2>1, OneMoreFault DEF IInv
  <2> QED BY <2>1, <2>2 DEF memory
<1>2. CallInv' /\ RunInv'
  <2>1. at = "off"
    BY <1>1 DEF IInv, TypeOK, FaultsTyped
  <2>2. CallInv'
    BY <1>1 DEF IInv, CallInv
  <2> QED BY <1>1, <2>1, <2>2 DEF IInv, RunInv
<1>3. \/ UNCHANGED <<context, completed>>
      \/ context' = None /\ completed' = {}
  BY DEF Damage, DamageOf
<1>4. RowsInv' /\ CheckpointIsOfOneRun'
  BY <1>1, <1>3 DEF IInv, RowsInv, CheckpointIsOfOneRun
<1>5. \A y \in cache' :
         /\ y.intact \in BOOLEAN /\ y.input.unit = y.result.unit
         /\ y = [input |-> y.input, result |-> y.result, intact |-> y.intact]
         /\ y.result = [unit |-> y.result.unit, used |-> y.result.used, named |-> y.result.named,
                        release |-> y.result.release]
  <2> DEFINE Typed(y) ==
                /\ y.intact \in BOOLEAN /\ y.input.unit = y.result.unit
                /\ y = [input |-> y.input, result |-> y.result, intact |-> y.intact]
                /\ y.result = [unit |-> y.result.unit, used |-> y.result.used, named |-> y.result.named,
                               release |-> y.result.release]
  <2>1. \A y \in cache : Typed(y)
    BY DEF IInv, TypeOK, FaultsTyped, CacheInv
  <2>2. ASSUME NEW x \in cache PROVE Typed([x EXCEPT !.intact = FALSE])
    BY <2>1, AlteredEntry
  <2>3. ASSUME NEW x \in cache PROVE Typed([x EXCEPT !.result.release = "other"])
    <3>1. Typed(x)
      BY <2>1
    <3> QED BY <3>1, ReplacedEntry
  <2> HIDE DEF Typed
  <2>4. \/ cache' \subseteq cache
        \/ \E x \in cache : cache' = (cache \ {x}) \cup {[x EXCEPT !.intact = FALSE]}
        \/ \E x \in cache : cache' = (cache \ {x}) \cup {[x EXCEPT !.result.release = "other"]}
    BY DEF Damage, DamageOf
  <2>5. \A y \in cache' : Typed(y)
    BY <2>1, <2>2, <2>3, <2>4
  <2> QED BY <2>5 DEF Typed
<1>6. TypeOK'
  <2>1. context' \in {Context(r) : r \in Requests} \cup {None}
    BY <1>3 DEF IInv, TypeOK, FaultsTyped
  <2>2. at = "off"
    BY <1>1 DEF IInv, TypeOK, FaultsTyped
  <2> QED BY <1>1, <1>5, <2>1, <2>2 DEF IInv, TypeOK, FaultsTyped, RunInv
<1>7. CacheInv'
  BY <1>5 DEF CacheInv
<1> QED BY <1>2, <1>4, <1>6, <1>7 DEF IInv

\* A call is not yet a run.
LEMMA CallKeeps ==
    ASSUME IInv, NEW p \in Procs, NEW r \in Requests, NEW n \in StopAfters, Call(p, r, n)
    PROVE  IInv'
<1>1. /\ call[p] = Idle /\ WithinWorkload(r) /\ call' = [call EXCEPT ![p] = [request |-> r, limit |-> n]]
      /\ UNCHANGED <<cache, context, completed, built, published, output, report, runner, at, position,
                     todo, record, records, builds, faults>>
  BY DEF Call, files
<1>2. n \in Nat
  BY RobustnessAssumption
<1>3. CallInv'
  BY <1>1, <1>2 DEF IInv, CallInv
<1>4. \A q \in Procs : call'[q] = call[q] \/ call'[q].request \in Requests
  BY <1>1 DEF IInv, CallInv
<1>5. runner # None => call'[runner] = call[runner] /\ request' = request
  BY <1>1, RunFacts DEF request, IInv, CallInv
<1>6. runner # None => Done' = Done /\ unit' = unit
  BY <1>1, <1>5 DEF Done, unit
<1>7. at \in {"prepare", "look", "build", "put", "mark"} => runner # None
  BY DEF IInv, TypeOK, FaultsTyped
<1>8. TypeOK'
  <2>1. \A q \in Procs : call'[q] = Idle \/ call'[q].request \in Requests
    BY <1>4 DEF IInv, TypeOK, FaultsTyped
  <2>2. runner # None => call'[runner] # Idle /\ position \in 1..(Len(UnitsOf(request')) + 1)
    BY <1>5, RunFacts
  <2>3. \A x \in records : \E i \in 1..(position - 1) : x.unit = UnitsOf(request')[i]
    BY <1>5 DEF IInv, TypeOK, FaultsTyped, RunInv
  <2> QED BY <1>1, <2>1, <2>2, <2>3 DEF IInv, TypeOK, FaultsTyped
<1>9. RunInv'
  BY <1>1, <1>5, <1>6, <1>7 DEF IInv, RunInv
<1>10. RowsInv'
  BY <1>1, <1>5, <1>6 DEF IInv, RowsInv
<1>11. CacheInv' /\ CheckpointIsOfOneRun'
  BY <1>1 DEF IInv, CacheInv, CheckpointIsOfOneRun
<1> QED BY <1>3, <1>8, <1>9, <1>10, <1>11 DEF IInv

\* A run is bound to the checkpoint before it looks at a row; without a row, or for
\* another protocol than that of the rows, there is nothing it could have passed.
LEMMA OpenKeeps ==
    ASSUME IInv, NEW p \in Procs, Open(p)
    PROVE  IInv'
<1> DEFINE q == call[p].request
<1>1. /\ call[p] # Idle /\ p # runner /\ q \in Requests /\ WithinWorkload(q) /\ p # None
      /\ UNCHANGED <<cache, completed, built, published, output, report, position, todo, record,
                     records, builds, faults>>
  BY RobustnessAssumption DEF Open, IInv, CallInv
<1>2. CacheInv'
  BY <1>1 DEF IInv, CacheInv
<1>3. /\ \A x \in cache' : x.intact \in BOOLEAN /\ x.input.unit = x.result.unit
      /\ built' \subseteq Evals /\ published' \subseteq built'
      /\ todo' \subseteq Evals /\ builds' \in Nat /\ FaultsTyped'
  BY <1>1 DEF IInv, TypeOK, FaultsTyped
<1>4. ASSUME call' = [call EXCEPT ![p] = Idle], UNCHANGED <<runner, at>>,
             runner # None => context' = context,
             context' \in {Context(r) : r \in Requests} \cup {None},
             context' = context \/ (context = None /\ context' # None)
      PROVE  IInv'
  <2>1. CallInv'
    <3>1. Idle \in [request : Requests \cup {None}, limit : Nat]
      BY DEF Idle
    <3> QED BY <1>4, <3>1 DEF IInv, CallInv
  <2>2. \A o \in Procs : call'[o] = Idle \/ call'[o].request \in Requests
    BY <2>1 DEF CallInv
  <2>3. runner # None => call'[runner] = call[runner] /\ request' = request
    BY <1>1, <1>4, RunFacts DEF request, IInv, CallInv
  <2>4. runner # None => Done' = Done /\ unit' = unit
    BY <1>1, <1>4, <2>3 DEF Done, unit
  <2>5. runner = None <=> at = "off"
    BY DEF IInv, TypeOK, FaultsTyped
  <2>6. TypeOK'
    <3>1. runner # None => call'[runner] # Idle /\ position \in 1..(Len(UnitsOf(request')) + 1)
      BY <2>3, RunFacts
    <3>2. \A x \in records : \E i \in 1..(position - 1) : x.unit = UnitsOf(request')[i]
      BY <2>3 DEF IInv, TypeOK, FaultsTyped, RunInv
    <3>3. runner \in Procs \cup {None}
      BY DEF IInv, TypeOK, FaultsTyped
    <3> QED BY <1>1, <1>3, <1>4, <2>2, <2>5, <3>1, <3>2, <3>3 DEF TypeOK, FaultsTyped
  <2>7. RunInv'
    BY <1>1, <1>4, <2>3, <2>4, <2>5 DEF IInv, RunInv
  <2>8. RowsInv'
    BY <1>1, <1>4, <2>3, <2>4 DEF IInv, RowsInv
  <2>9. CheckpointIsOfOneRun'
    <3>1. completed = {} \/ context' = context
      BY <1>4 DEF IInv, RowsInv
    <3> QED BY <1>1, <3>1 DEF IInv, CheckpointIsOfOneRun
  <2> QED BY <1>2, <2>1, <2>6, <2>7, <2>8, <2>9 DEF IInv
<1>5. CASE /\ runner # None \/ context \notin {None, Context(q)}
           /\ call' = [call EXCEPT ![p] = Idle]
           /\ UNCHANGED <<context, runner, at>>
  <2>1. context \in {Context(r) : r \in Requests} \cup {None}
    BY DEF IInv, TypeOK, FaultsTyped
  <2>2. /\ call' = [call EXCEPT ![p] = Idle] /\ UNCHANGED <<runner, at>> /\ context' = context
        /\ context' \in {Context(r) : r \in Requests} \cup {None}
    BY <1>5, <2>1
  <2> QED BY <1>4, <2>2
<1>6. CASE /\ runner = None /\ context \in {None, Context(q)} /\ context' = Context(q)
           /\ call' = [call EXCEPT ![p] = Idle] /\ UNCHANGED <<runner, at>>
  <2>1. Context(q) # None
    BY <1>1, ContextAssumption
  <2> QED BY <1>1, <1>4, <1>6, <2>1
<1>7. CASE /\ runner = None /\ context \in {None, Context(q)} /\ context' = Context(q)
           /\ runner' = p /\ at' = "unit" /\ UNCHANGED call
  <2>1. request' = q
    BY <1>7 DEF request
  <2>2. position = 1 /\ todo = {} /\ records = {} /\ builds = 0
    BY <1>7 DEF IInv, RunInv
  <2>3. CallInv'
    BY <1>7 DEF IInv, CallInv
  <2>4. Len(UnitsOf(q)) \in Nat
    BY <1>1, UnitsTyped
  <2>5. TypeOK'
    <3>1. \A o \in Procs : call'[o] = Idle \/ call'[o].request \in Requests
      BY <2>3 DEF CallInv
    <3>2. 1 \in 1..(Len(UnitsOf(q)) + 1)
      BY <2>4
    <3>3. context' \in {Context(r) : r \in Requests} \cup {None}
      BY <1>1, <1>7
    <3> QED BY <1>1, <1>3, <1>7, <2>1, <2>2, <3>1, <3>2, <3>3 DEF TypeOK, FaultsTyped
  <2>6. RunInv'
    <3>1. IsFiniteSet(built \cap Planned(q)) /\ Cardinality(built \cap Planned(q)) \in Nat
      BY <1>1, AnnouncedBuilds, FS_Subset, FS_CardinalityType
    <3> QED BY <1>1, <1>7, <2>1, <2>2, <3>1 DEF RunInv
  <2>7. Done' = {}
    BY <1>1, <2>2 DEF Done
  <2>8. completed = {} \/ context' = context
    BY <1>7 DEF IInv, RowsInv
  <2>9. RowsInv'
    <3>1. context' # None
      BY <1>1, <1>7, ContextAssumption
    <3>2. \A x, y \in completed : x.unit = y.unit => x = y
      BY DEF IInv, RowsInv
    <3>3. ResultsOf({x \in completed : x.unit \in {}}) = {}
      BY DEF ResultsOf
    <3> QED BY <1>1, <2>2, <2>7, <3>1, <3>2, <3>3 DEF RowsInv
  <2>10. CheckpointIsOfOneRun'
    BY <1>1, <2>8 DEF IInv, CheckpointIsOfOneRun
  <2> QED BY <1>2, <2>3, <2>5, <2>6, <2>9, <2>10 DEF IInv
<1> QED BY <1>5, <1>6, <1>7 DEF Open

LEMMA InitHolds == Init => IInv
<1> SUFFICES ASSUME Init PROVE IInv
  OBVIOUS
<1>1. call = [p \in Procs |-> Idle] /\ Idle \in [request : Requests \cup {None}, limit : Nat]
  BY DEF Init, Idle
<1>2. CallInv
  BY <1>1 DEF CallInv
<1>3. TypeOK
  BY <1>1, RobustnessAssumption DEF Init, Store!Init, TypeOK
<1>4. RunInv /\ RowsInv /\ CacheInv /\ CheckpointIsOfOneRun
  BY DEF Init, RunInv, RowsInv, CacheInv, CheckpointIsOfOneRun
<1> QED BY <1>2, <1>3, <1>4 DEF IInv

LEMMA StepKeeps == IInv /\ [Next]_vars => IInv'
<1> SUFFICES ASSUME IInv, [Next]_vars PROVE IInv'
  OBVIOUS
<1>1. CASE \E p \in Procs, r \in Requests, n \in StopAfters : Call(p, r, n)
  BY <1>1, CallKeeps
<1>2. CASE \E p \in Procs : Open(p)
  BY <1>2, OpenKeeps
<1>3. CASE Step
  BY <1>3, NextUnitKeeps, EvaluateKeeps, EvaluationsKeeps, LookKeeps, PutKeeps, MarkStepKeeps,
     ExportKeeps, ReportKeeps DEF Step
<1>4. CASE Crash
  BY <1>4, CrashKeeps
<1>5. CASE Damage
  BY <1>5, DamageKeeps
<1>6. CASE UNCHANGED vars
  <2>1. /\ UNCHANGED <<cache, context, completed, built, published, call, runner, at, position, todo,
                       record, records, builds, faults>>
    BY <1>6 DEF vars, files, memory
  <2>2. CallInv' /\ RowsInv' /\ CheckpointIsOfOneRun' /\ request' = request /\ unit' = unit
    BY <2>1, WithinUnit
  <2>3. TypeOK'
    BY <2>1, <2>2 DEF IInv, TypeOK, FaultsTyped
  <2>4. RunInv' /\ CacheInv'
    BY <2>1, <2>2 DEF IInv, RunInv, CacheInv
  <2> QED BY <2>2, <2>3, <2>4 DEF IInv
<1> QED BY <1>1, <1>2, <1>3, <1>4, <1>5, <1>6 DEF Next

\* The inductive invariant holds, for every policy, number of processes and faults.
THEOREM Invariant == Spec => []IInv
<1> QED BY InitHolds, StepKeeps, PTL DEF Spec

(***************************************************************************)
(* What follows.                                                           *)
(***************************************************************************)
\* A checkpoint is the beginning of one run, whoever wrote its rows, and no run builds
\* more session evaluations than its preflight has announced.
THEOREM RunsKeep == Spec => []RunsKeepToTheirRequest
<1>1. IInv => RunsKeepToTheirRequest
  <2> SUFFICES ASSUME IInv PROVE RunsKeepToTheirRequest
    OBVIOUS
  <2>1. ASSUME runner # None
        PROVE  builds <= ExpectedBuilds(request) /\ builds <= MaxBuilds
    <3> DEFINE P == Planned(request)
    <3>1. request \in Requests /\ WithinWorkload(request)
      BY <2>1, RunFacts
    <3>2. IsFiniteSet(P) /\ Cardinality(P) \in Nat /\ ExpectedBuilds(request) \in Nat
          /\ Cardinality(P) <= ExpectedBuilds(request)
      BY <3>1, AnnouncedBuilds
    <3>3. builds \in Nat /\ builds <= Cardinality(built \cap P)
      BY <2>1 DEF IInv, TypeOK, FaultsTyped, RunInv
    <3> HIDE DEF P
    <3>4. Cardinality(built \cap P) \in Nat /\ Cardinality(built \cap P) <= Cardinality(P)
      BY <3>2, FS_Subset, FS_CardinalityType
    <3> QED BY <3>1, <3>2, <3>3, <3>4, RobustnessAssumption DEF WithinWorkload
  <2> QED BY <2>1 DEF RunsKeepToTheirRequest, IInv, BuildsAreWithinPolicy
<1> QED BY <1>1, Invariant, PTL

\* The report is of the run that has exported.
Exported == at = "report" => \E o \in output : o.request = request

\* One run exports, the others leave the export as it is.
THEOREM OutputStays == Spec => OutputIsFinal
<1> DEFINE A == /\ output # {} => output' = output
                /\ report' # report => \E o \in output : report'.request = o.request
<1>1. Init => Exported
  BY DEF Init, Exported
<1>2. IInv /\ Exported /\ [Next]_vars => Exported' /\ [A]_vars
  <2> SUFFICES ASSUME IInv, Exported, [Next]_vars PROVE Exported' /\ [A]_vars
    OBVIOUS
  <2>1. ASSUME UNCHANGED <<output, report>>, at' = "report" => at = "report" /\ request' = request
        PROVE  Exported' /\ [A]_vars
    BY <2>1 DEF Exported
  <2>2. at = "report" => runner # None
    BY DEF IInv, TypeOK, FaultsTyped
  <2>3. ASSUME NEW p \in Procs, NEW r \in Requests, NEW n \in StopAfters, Call(p, r, n)
        PROVE  Exported' /\ [A]_vars
    <3>1. /\ UNCHANGED <<output, report, at, runner>>
          /\ call' = [call EXCEPT ![p] = [request |-> r, limit |-> n]]
          /\ call[p] = Idle
      BY <2>3 DEF Call, files
    <3>2. runner # None => request' = request
      BY <3>1, RunFacts DEF request, IInv, CallInv
    <3> QED BY <2>1, <2>2, <3>1, <3>2
  <2>4. ASSUME NEW p \in Procs, Open(p)
        PROVE  Exported' /\ [A]_vars
    <3>1. UNCHANGED <<output, report>> /\ p # runner
      BY <2>4 DEF Open
    <3>2. CASE at' = "unit"
      BY <2>1, <3>1, <3>2
    <3>3. CASE UNCHANGED <<runner, at>> /\ call' = [call EXCEPT ![p] = Idle]
      <4>1. runner # None => request' = request
        BY <3>1, <3>3, RunFacts DEF request, IInv, CallInv
      <4> QED BY <2>1, <2>2, <3>1, <3>3, <4>1
    <3> QED BY <2>4, <3>2, <3>3 DEF Open
  <2>5. CASE runner # None /\ Export
    <3>1. CASE output # {}
      <4>1. UNCHANGED <<output, report>> /\ at' = "off"
        BY <2>5, <3>1 DEF Export, Stop
      <4> QED BY <2>1, <4>1
    <3>2. CASE output = {}
      <4>1. /\ output' = {[request |-> request, records |-> records]} /\ report' = report
            /\ UNCHANGED <<call, runner>>
        BY <2>5, <3>2 DEF Export, GoTo
      <4>2. request' = request
        BY <4>1 DEF request
      <4>3. Exported'
        BY <4>1, <4>2 DEF Exported
      <4> QED BY <3>2, <4>1, <4>3
    <3> QED BY <3>1, <3>2
  <2>6. CASE runner # None /\ Report
    <3>1. /\ at = "report" /\ report' = [request |-> request, builds |-> builds] /\ output' = output
          /\ at' = "off"
      BY <2>6 DEF Report, Stop
    <3>2. report'.request = request
      BY <3>1
    <3>3. \E o \in output : o.request = request
      BY <3>1 DEF Exported
    <3> QED BY <3>1, <3>2, <3>3 DEF Exported
  <2>7. CASE runner # None /\ (NextUnit \/ Evaluate \/ Evaluations \/ Look \/ Put \/ Mark)
    <3>1. /\ UNCHANGED <<output, report>>
          /\ at' # "report" \/ UNCHANGED <<at, call, runner>>
      BY <2>7 DEF NextUnit, Evaluate, Evaluations, Look, Put, Mark, GoTo, Stop, files
    <3> QED BY <2>1, <3>1 DEF request
  <2>8. CASE Crash
    BY <2>1, <2>8 DEF Crash, Stop, files
  <2>9. CASE Damage
    BY <2>1, <2>9 DEF Damage, DamageOf, memory, request
  <2>10. CASE UNCHANGED vars
    BY <2>1, <2>10 DEF vars, files, memory, request
  <2> QED BY <2>3, <2>4, <2>5, <2>6, <2>7, <2>8, <2>9, <2>10 DEF Next, Step
<1> QED BY Invariant, <1>1, <1>2, PTL DEF Spec, OutputIsFinal

(***************************************************************************)
(* Exports are reproducible.                                               *)
(***************************************************************************)
\* The results of the families, of which the evidence is made, and the result of a
\* unit where nothing has interrupted the run.
UnitsIn(r) == {UnitsOf(r)[i] : i \in DOMAIN UnitsOf(r)}
FamilyRecords(r) ==
    {[unit |-> u, result |-> Result(u, r, {})] :
        u \in {v \in UnitsIn(r) : v.kind # "quantitative-evidence"}}
Clean(u, r) == Result(u, r, FamilyRecords(r))

LEMMA CleanRunIsOfUnits ==
    ASSUME NEW r \in Requests
    PROVE  CleanRun(r) = {[unit |-> u, result |-> Clean(u, r)] : u \in UnitsIn(r)}
<1> DEFINE E == {u \in UnitsIn(r) : u.kind = "quantitative-evidence"}
           F == {v \in UnitsIn(r) : v.kind # "quantitative-evidence"}
<1>1. UnitsIn(r) \ E = F
  OBVIOUS
<1>2. \A u \in UnitsIn(r) : u \in AllUnits
  BY UnitsTyped DEF UnitsIn
<1>3. \A u \in F : Result(u, r, {}) = Clean(u, r)
  BY <1>2, InputStable DEF Clean
<1>4. CleanRun(r) = FamilyRecords(r) \cup {[unit |-> u, result |-> Clean(u, r)] : u \in E}
  BY <1>1 DEF CleanRun, FamilyRecords, Clean, UnitsIn
<1>5. FamilyRecords(r) = {[unit |-> u, result |-> Clean(u, r)] : u \in F}
  BY <1>3 DEF FamilyRecords
<1>6. UnitsIn(r) = F \cup E
  OBVIOUS
<1> HIDE DEF E, F
<1> QED BY <1>4, <1>5, <1>6

\* The evidence of a candidate comes after its sensitivity and its stress.
LEMMA EvidenceHasFamilies ==
    ASSUME NEW r \in Requests, NEW u \in UnitsIn(r), u.kind = "quantitative-evidence"
    PROVE  Unit("sensitivity", u.cid) \in UnitsIn(r) /\ Unit("stress", u.cid) \in UnitsIn(r)
<1> DEFINE k == Len(FamiliesOf(r))
           n == Len(CandidateIds)
           U == UnitsOf(r)
<1>1. PICK i \in DOMAIN U : u = U[i]
  BY DEF UnitsIn
<1>2. /\ DOMAIN U = 1..Len(U) /\ Len(U) \in Nat /\ n * k \in Nat /\ n * k <= Len(U) /\ i > n * k
  BY <1>1, UnitsTyped DEF FamilyUnits
<1>3. U[i] = Unit("quantitative-evidence", CandidateIds[i - n * k])
  BY <1>2 DEF UnitsOf
<1>4. u.cid = CandidateIds[i - n * k]
  BY <1>1, <1>3 DEF Unit
<1>5. k \in {4, 5} /\ n \in Nat
  BY FamiliesTyped, RobustnessAssumption, LenProperties
<1>6. DOMAIN U = 1..(n * k + (IF r.quantitative = None THEN 0 ELSE n))
  BY DEF UnitsOf
<1>7. i - n * k \in 1..n
  <2>1. i \in 1..(n * k + (IF r.quantitative = None THEN 0 ELSE n))
    BY <1>6
  <2> HIDE DEF k, n, U
  <2>2. ASSUME NEW m \in Nat, NEW e \in {0, n}, i \in 1..(m + e), i > m PROVE i - m \in 1..n
    BY <1>5, <2>2
  <2> QED BY <1>2, <1>5, <2>1, <2>2
<1> DEFINE j == i - n * k
<1>8. ASSUME NEW l \in {k - 1, k}
      PROVE  Unit(FamiliesOf(r)[l], CandidateIds[j]) \in UnitsIn(r)
  <2> DEFINE h == (j - 1) * k + l
  <2>1. /\ h \in 1..(n * k) /\ ((h - 1) % k) + 1 = l /\ ((h - 1) \div k) + 1 = j
    <3> HIDE DEF n, j
    <3>1. CASE k = 4
      <4>1. h = (j - 1) * 4 + l /\ l \in {3, 4} /\ j \in 1..n /\ n \in Nat
        BY <1>5, <1>7, <3>1 DEF j
      <4> HIDE DEF h, k
      <4> QED BY <3>1, <4>1
    <3>2. CASE k = 5
      <4>1. h = (j - 1) * 5 + l /\ l \in {4, 5} /\ j \in 1..n /\ n \in Nat
        BY <1>5, <1>7, <3>2 DEF j
      <4> HIDE DEF h, k
      <4> QED BY <3>2, <4>1
    <3> QED BY <1>5, <3>1, <3>2
  <2> HIDE DEF h, j
  <2>2. h \in DOMAIN U /\ h <= n * k
    BY <1>2, <2>1
  <2>3. U[h] = Unit(FamiliesOf(r)[((h - 1) % k) + 1], CandidateIds[((h - 1) \div k) + 1])
    BY <2>2 DEF UnitsOf
  <2>4. U[h] \in UnitsIn(r)
    BY <2>2 DEF UnitsIn
  <2> QED BY <2>1, <2>3, <2>4
<1>9. FamiliesOf(r)[k - 1] = "sensitivity" /\ FamiliesOf(r)[k] = "stress"
  BY FamiliesTyped
<1> QED BY <1>4, <1>8, <1>9

\* So the evidence names, in what it is built from, the policies it is built with.
LEMMA EvidenceNamesPolicies ==
    ASSUME NEW r \in Requests, NEW q \in Requests, NEW u \in UnitsIn(r), u \in UnitsIn(q),
           u.kind = "quantitative-evidence",
           FamilyResults(r, u.cid, FamilyRecords(r)) = FamilyResults(q, u.cid, FamilyRecords(q))
    PROVE  r.sensitivity = q.sensitivity /\ r.stress = q.stress
<1> DEFINE c == u.cid
           F(s) == FamilyResults(s, c, FamilyRecords(s))
<1>1. ASSUME NEW s \in Requests, u \in UnitsIn(s), NEW kind \in {"sensitivity", "stress"}
      PROVE  Result(Unit(kind, c), s, {}) \in F(s)
  <2> DEFINE v == Unit(kind, c)
             x == [unit |-> v, result |-> Result(v, s, {})]
  <2>1. v \in UnitsIn(s) /\ v.kind = kind /\ v.cid = c
    BY <1>1, EvidenceHasFamilies DEF Unit
  <2>2. x \in FamilyRecords(s) /\ x.unit = v /\ x.result = Result(v, s, {})
    BY <2>1 DEF FamilyRecords
  <2> HIDE DEF x, v
  <2>3. x.unit.cid = c /\ x.unit.kind \notin {"quantitative-evidence",
            IF s.ninth = None THEN "ninth-increment-walk-forward" ELSE "walk-forward"}
    BY <2>1, <2>2
  <2>4. x.result \in F(s)
    BY <2>2, <2>3 DEF FamilyResults
  <2> QED BY <2>2, <2>4 DEF v
<1>2. ASSUME NEW s \in Requests, NEW y \in F(s)
      PROVE  /\ y.unit.kind = "sensitivity" => y.named = <<s.sensitivity, Pool(s)>>
             /\ y.unit.kind = "stress" => y.named = <<s.stress, Pool(s)>>
  <2>1. PICK x \in FamilyRecords(s) : y = x.result
    BY DEF FamilyResults
  <2>2. PICK v \in UnitsIn(s) : x = [unit |-> v, result |-> Result(v, s, {})]
    BY DEF FamilyRecords
  <2>3. y.unit = v /\ y.named = Named(v, s, {})
    BY <2>1, <2>2 DEF Result
  <2> QED BY <2>3 DEF Named
<1>3. ASSUME NEW kind \in {"sensitivity", "stress"}
      PROVE  /\ Result(Unit(kind, c), r, {}) \in F(q)
             /\ Result(Unit(kind, c), r, {}).unit.kind = kind
             /\ Result(Unit(kind, c), r, {}).named = Named(Unit(kind, c), r, {})
  BY <1>1 DEF Result, Unit
<1>4. /\ Named(Unit("sensitivity", c), r, {}) = <<r.sensitivity, Pool(r)>>
      /\ Named(Unit("stress", c), r, {}) = <<r.stress, Pool(r)>>
  BY DEF Named, Unit
<1>5. <<r.sensitivity, Pool(r)>> = <<q.sensitivity, Pool(q)>>
  BY <1>2, <1>3, <1>4
<1>6. <<r.stress, Pool(r)>> = <<q.stress, Pool(q)>>
  BY <1>2, <1>3, <1>4
<1> QED BY <1>5, <1>6

\* The identity of the inputs determines the result: what another request has put into
\* the cache is what this one would have computed.
LEMMA InputDeterminesResult ==
    ASSUME NEW r \in Requests, NEW q \in Requests, NEW u \in UnitsIn(r), NEW v \in UnitsIn(q),
           Input(u, r, FamilyRecords(r)) = Input(v, q, FamilyRecords(q))
    PROVE  Clean(u, r) = Clean(v, q)
<1> DEFINE I == Input(u, r, FamilyRecords(r))
           J == Input(u, q, FamilyRecords(q))
<1>1. u \in AllUnits /\ v \in AllUnits
  BY UnitsTyped DEF UnitsIn
<1>2. u = v /\ I = J
  BY <1>1, InputOfUnit
<1>3. CASE u.kind = "walk-forward"
  <2>1. /\ I = [unit |-> u, evaluation |-> r.evaluation, policy |-> r.walk]
        /\ J = [unit |-> u, evaluation |-> q.evaluation, policy |-> q.walk]
    BY <1>3 DEF Input
  <2>2. r.evaluation = q.evaluation /\ r.walk = q.walk
    <3>1. /\ I.evaluation = r.evaluation /\ J.evaluation = q.evaluation
          /\ I.policy = r.walk /\ J.policy = q.walk
      BY <2>1
    <3> HIDE DEF I, J
    <3> QED BY <1>2, <3>1
  <2>3. Evaluated(u, r) = Evaluated(u, q)
    BY <1>3, <2>2 DEF Evaluated, EvaluationsOf
  <2>4. Named(u, r, FamilyRecords(r)) = Named(u, q, FamilyRecords(q))
    BY <1>3, <2>2 DEF Named
  <2> QED BY <1>2, <2>3, <2>4 DEF Clean, Result
<1>4. CASE u.kind = "ninth-increment-walk-forward"
  <2>1. /\ I = [unit |-> u, evaluation |-> r.evaluation, policy |-> r.ninth]
        /\ J = [unit |-> u, evaluation |-> q.evaluation, policy |-> q.ninth]
    BY <1>4 DEF Input
  <2>2. r.evaluation = q.evaluation /\ r.ninth = q.ninth
    <3>1. /\ I.evaluation = r.evaluation /\ J.evaluation = q.evaluation
          /\ I.policy = r.ninth /\ J.policy = q.ninth
      BY <2>1
    <3> HIDE DEF I, J
    <3> QED BY <1>2, <3>1
  <2>3. Evaluated(u, r) = Evaluated(u, q)
    BY <1>4, <2>2 DEF Evaluated, EvaluationsOf
  <2>4. Named(u, r, FamilyRecords(r)) = Named(u, q, FamilyRecords(q))
    BY <1>4, <2>2 DEF Named
  <2> QED BY <1>2, <2>3, <2>4 DEF Clean, Result
<1>5. CASE u.kind \in {"monte-carlo", "sensitivity", "stress", "quantitative-evidence"}
  <2>1. r.evaluation = q.evaluation /\ Pool(r) = Pool(q)
    <3>1. /\ I.evaluation = r.evaluation /\ J.evaluation = q.evaluation
          /\ I.pool = Pool(r) /\ J.pool = Pool(q)
      BY <1>5 DEF Input
    <3> HIDE DEF I, J
    <3> QED BY <1>2, <3>1
  <2>2. CASE u.kind = "monte-carlo"
    <3>1. I.policy = r.monte /\ J.policy = q.monte
      BY <2>2 DEF Input
    <3>2. r.monte = q.monte
      <4> HIDE DEF I, J
      <4> QED BY <1>2, <3>1
    <3>3. Evaluated(u, r) = Evaluated(u, q)
      BY <2>1, <2>2 DEF Evaluated, EvaluationsOf
    <3>4. Named(u, r, FamilyRecords(r)) = Named(u, q, FamilyRecords(q))
      BY <2>1, <2>2, <3>2 DEF Named
    <3> QED BY <1>2, <3>3, <3>4 DEF Clean, Result
  <2>3. CASE u.kind = "sensitivity"
    <3>1. I.policy = r.sensitivity /\ J.policy = q.sensitivity
      BY <2>3 DEF Input
    <3>2. r.sensitivity = q.sensitivity
      <4> HIDE DEF I, J
      <4> QED BY <1>2, <3>1
    <3>3. Evaluated(u, r) = Evaluated(u, q)
      BY <2>1, <2>3, <3>2 DEF Evaluated, EvaluationsOf
    <3>4. Named(u, r, FamilyRecords(r)) = Named(u, q, FamilyRecords(q))
      BY <2>1, <2>3, <3>2 DEF Named
    <3> QED BY <1>2, <3>3, <3>4 DEF Clean, Result
  <2>4. CASE u.kind = "stress"
    <3>1. I.policy = r.stress /\ J.policy = q.stress
      BY <2>4 DEF Input
    <3>2. r.stress = q.stress
      <4> HIDE DEF I, J
      <4> QED BY <1>2, <3>1
    <3>3. Evaluated(u, r) = Evaluated(u, q)
      BY <2>1, <2>4, <3>2 DEF Evaluated, EvaluationsOf
    <3>4. Named(u, r, FamilyRecords(r)) = Named(u, q, FamilyRecords(q))
      BY <2>1, <2>4, <3>2 DEF Named
    <3> QED BY <1>2, <3>3, <3>4 DEF Clean, Result
  <2>5. CASE u.kind = "quantitative-evidence"
    <3>1. /\ I.families = FamilyResults(r, u.cid, FamilyRecords(r))
          /\ J.families = FamilyResults(q, u.cid, FamilyRecords(q))
      BY <2>5 DEF Input
    <3>2. FamilyResults(r, u.cid, FamilyRecords(r)) = FamilyResults(q, u.cid, FamilyRecords(q))
      <4> HIDE DEF I, J
      <4> QED BY <1>2, <3>1
    <3>3. r.sensitivity = q.sensitivity /\ r.stress = q.stress
      BY <1>2, <2>5, <3>2, EvidenceNamesPolicies
    <3>4. Evaluated(u, r) = Evaluated(u, q)
      BY <2>1, <2>5, <3>3 DEF Evaluated, EvaluationsOf
    <3>5. Named(u, r, FamilyRecords(r)) = Named(u, q, FamilyRecords(q))
      BY <2>1, <2>5, <3>2, <3>3 DEF Named
    <3> QED BY <1>2, <3>4, <3>5 DEF Clean, Result
  <2> QED BY <1>5, <2>2, <2>3, <2>4, <2>5
<1>6. u.kind \in Families \cup {"quantitative-evidence"}
  BY <1>1 DEF AllUnits
<1> QED BY <1>3, <1>4, <1>5, <1>6 DEF Families

\* While no entry was replaced: an entry has the result that its input determines,
\* a run has those of the units it has passed, and so had those that have exported.
CacheIsClean ==
    \A x \in cache : \E r \in Requests : \E u \in UnitsIn(r) :
        x.input = Input(u, r, FamilyRecords(r)) /\ x.result = Clean(u, r)
RunIsClean ==
    /\ runner # None => records = {[unit |-> u, result |-> Clean(u, request)] : u \in Done}
    /\ at = "mark" => record = Clean(unit, request)
    /\ at = "export" => position = Len(UnitsOf(request)) + 1
CleanInv ==
    ~Happened("ENTRY_REPLACED") =>
        CacheIsClean /\ RunIsClean /\ \A o \in output : o.records = CleanRun(o.request)

\* What has happened stays so.
LEMMA FaultsStay ==
    ASSUME IInv, [Next]_vars, NEW f, Happened(f)
    PROVE  Happened(f)'
<1>1. faults \in Seq({"CRASH"} \cup Damages)
  BY DEF IInv, TypeOK
<1>2. CASE faults' = faults
  BY <1>2 DEF Happened
<1>3. CASE \E d \in {"CRASH"} \cup Damages : faults' = Append(faults, d)
  <2>1. PICK d \in {"CRASH"} \cup Damages : faults' = Append(faults, d)
    BY <1>3
  <2>2. PICK i \in DOMAIN faults : faults[i] = f
    BY DEF Happened
  <2>3. i \in 1..Len(faults) /\ Len(faults) \in Nat
    BY <1>1, LenProperties
  <2>4. Len(faults') = Len(faults) + 1 /\ faults'[i] = faults[i] /\ DOMAIN faults' = 1..Len(faults')
    BY <1>1, <2>1, <2>3, AppendProperties, LenProperties
  <2>5. i \in DOMAIN faults'
    BY <2>3, <2>4
  <2> QED BY <2>2, <2>4, <2>5 DEF Happened
<1>4. faults' = faults \/ \E d \in {"CRASH"} \cup Damages : faults' = Append(faults, d)
  <2>1. CASE \E p \in Procs, r \in Requests, n \in StopAfters : Call(p, r, n)
    BY <2>1 DEF Call
  <2>2. CASE \E p \in Procs : Open(p)
    BY <2>2 DEF Open
  <2>3. CASE Step
    BY <2>3 DEF Step, NextUnit, Evaluate, Evaluations, Look, Put, Mark, Export, Report
  <2>4. CASE Crash
    BY <2>4 DEF Crash
  <2>5. CASE Damage
    BY <2>5 DEF Damage, DamageOf
  <2>6. CASE UNCHANGED vars
    BY <2>6 DEF vars
  <2> QED BY <2>1, <2>2, <2>3, <2>4, <2>5, <2>6 DEF Next
<1> QED BY <1>2, <1>3, <1>4

LEMMA AppendedHappened ==
    ASSUME IInv, NEW f \in Damages, faults' = Append(faults, f)
    PROVE  Happened(f)'
<1>1. faults \in Seq({"CRASH"} \cup Damages)
  BY DEF IInv, TypeOK
<1>2. /\ Len(faults) \in Nat /\ Len(faults') = Len(faults) + 1 /\ DOMAIN faults' = 1..Len(faults')
      /\ faults'[Len(faults')] = f
  BY <1>1, AppendProperties, LenProperties
<1>3. Len(faults') \in DOMAIN faults'
  BY <1>2
<1> QED BY <1>2, <1>3 DEF Happened

\* The results that a run has are those that the next unit is computed from.
LEMMA RecordsSuffice ==
    ASSUME IInv, RunIsClean, runner # None, at \in {"prepare", "look", "build", "put", "mark"}
    PROVE  /\ unit \in UnitsIn(request)
           /\ Input(unit, request, records) = Input(unit, request, FamilyRecords(request))
           /\ Result(unit, request, records) = Clean(unit, request)
<1> DEFINE U == UnitsOf(request)
           q == request
<1>1. /\ position \in 1..Len(U) /\ unit \in AllUnits /\ q \in Requests /\ unit = U[position]
      /\ DOMAIN U = 1..Len(U) /\ Len(U) \in Nat /\ FamilyUnits(q) \in Nat
      /\ \A i \in 1..Len(U) : /\ U[i] \in AllUnits
                              /\ U[i].kind = "quantitative-evidence" <=> i > FamilyUnits(q)
  BY AtUnit, UnitsTyped
<1>2. unit \in UnitsIn(q)
  BY <1>1 DEF UnitsIn
<1>3. ASSUME unit.kind = "quantitative-evidence"
      PROVE  FamilyResults(q, unit.cid, records) = FamilyResults(q, unit.cid, FamilyRecords(q))
  <2>1. position > FamilyUnits(q)
    BY <1>1, <1>3
  <2>2. \A u \in UnitsIn(q) : u.kind # "quantitative-evidence" => u \in Done
    <3> SUFFICES ASSUME NEW u \in UnitsIn(q), u.kind # "quantitative-evidence" PROVE u \in Done
      OBVIOUS
    <3>1. PICK i \in 1..Len(U) : u = U[i]
      BY <1>1 DEF UnitsIn
    <3>2. i \in 1..(position - 1)
      BY <1>1, <2>1, <3>1
    <3> QED BY <3>1, <3>2 DEF Done
  <2>3. \A u \in Done : u \in UnitsIn(q)
    BY <1>1 DEF Done, UnitsIn
  <2>4. \A u \in UnitsIn(q) : u.kind # "quantitative-evidence" => Clean(u, q) = Result(u, q, {})
    BY <1>1, InputStable DEF Clean, UnitsIn
  <2>5. records = {[unit |-> u, result |-> Clean(u, q)] : u \in Done}
    BY DEF RunIsClean
  <2>6. ASSUME NEW y, y.unit.kind # "quantitative-evidence"
        PROVE  y \in records <=> y \in FamilyRecords(q)
    <3> HIDE DEF q
    <3>1. ASSUME y \in records PROVE y \in FamilyRecords(q)
      <4>1. PICK u \in Done : y = [unit |-> u, result |-> Clean(u, q)]
        BY <2>5, <3>1
      <4>2. y.unit = u
        BY <4>1
      <4>3. u \in UnitsIn(q) /\ Clean(u, q) = Result(u, q, {})
        BY <2>3, <2>4, <2>6, <4>2
      <4> QED BY <2>6, <4>1, <4>2, <4>3 DEF FamilyRecords
    <3>2. ASSUME y \in FamilyRecords(q) PROVE y \in records
      <4>1. PICK u \in UnitsIn(q) :
              u.kind # "quantitative-evidence" /\ y = [unit |-> u, result |-> Result(u, q, {})]
        BY <3>2 DEF FamilyRecords
      <4>2. u \in Done /\ y = [unit |-> u, result |-> Clean(u, q)]
        BY <2>2, <2>4, <4>1
      <4> QED BY <2>5, <4>2
    <3> QED BY <3>1, <3>2
  <2> QED BY <2>6, FamiliesAlone
<1>4. /\ Input(unit, q, records) = Input(unit, q, FamilyRecords(q))
      /\ Result(unit, q, records) = Result(unit, q, FamilyRecords(q))
  BY <1>1, <1>3, InputStable
<1> QED BY <1>2, <1>4 DEF Clean

\* Where the run keeps what it is at.
LEMMA CleanGoesOn ==
    ASSUME RunIsClean, UNCHANGED <<call, runner, position, records>>,
           at' = "mark" => record' = Clean(unit, request),
           at' = "export" => position = Len(UnitsOf(request)) + 1
    PROVE  RunIsClean'
<1>1. request' = request
  BY DEF request
<1>2. Done' = Done /\ unit' = unit
  BY <1>1 DEF Done, unit
<1> QED BY <1>1, <1>2 DEF RunIsClean

LEMMA CleanStops ==
    ASSUME Stop
    PROVE  RunIsClean'
BY DEF Stop, RunIsClean

LEMMA CleanStep ==
    ASSUME IInv, CleanInv, [Next]_vars
    PROVE  CleanInv'
<1> SUFFICES ASSUME ~Happened("ENTRY_REPLACED")'
             PROVE  /\ CacheIsClean' /\ RunIsClean'
                    /\ \A o \in output' : o.records = CleanRun(o.request)
  BY DEF CleanInv
<1>1. CacheIsClean /\ RunIsClean /\ \A o \in output : o.records = CleanRun(o.request)
  BY FaultsStay DEF CleanInv
<1> DEFINE Outputs == \A o \in output' : o.records = CleanRun(o.request)
<1>2. ASSUME NEW p \in Procs, NEW r \in Requests, NEW n \in StopAfters, Call(p, r, n)
      PROVE  CacheIsClean' /\ RunIsClean' /\ Outputs
  <2>1. /\ UNCHANGED <<cache, output, runner, at, position, records, record>> /\ call[p] = Idle
        /\ call' = [call EXCEPT ![p] = [request |-> r, limit |-> n]]
    BY <1>2 DEF Call, files
  <2>2. runner # None => request' = request
    BY <2>1, RunFacts DEF request, IInv, CallInv
  <2>3. runner # None => Done' = Done /\ unit' = unit
    BY <2>1, <2>2 DEF Done, unit
  <2>4. at \in {"mark", "export"} => runner # None
    BY DEF IInv, TypeOK
  <2>5. RunIsClean'
    BY <1>1, <2>1, <2>2, <2>3, <2>4 DEF RunIsClean
  <2> QED BY <1>1, <2>1, <2>5 DEF CacheIsClean
<1>3. ASSUME NEW p \in Procs, Open(p)
      PROVE  CacheIsClean' /\ RunIsClean' /\ Outputs
  <2>1. UNCHANGED <<cache, output, position, records, record>> /\ p # runner
    BY <1>3 DEF Open
  <2>2. RunIsClean'
    <3>1. CASE UNCHANGED <<runner, at>> /\ call' = [call EXCEPT ![p] = Idle]
      <4>1. runner # None => request' = request
        BY <2>1, <3>1, RunFacts DEF request, IInv, CallInv
      <4>2. runner # None => Done' = Done /\ unit' = unit
        BY <2>1, <4>1 DEF Done, unit
      <4>3. at \in {"mark", "export"} => runner # None
        BY DEF IInv, TypeOK
      <4> QED BY <1>1, <2>1, <3>1, <4>1, <4>2, <4>3 DEF RunIsClean
    <3>2. CASE runner = None /\ at' = "unit"
      <4>1. position' = 1 /\ records' = {}
        BY <2>1, <3>2 DEF IInv, RunInv
      <4>2. Done' = {}
        BY <4>1 DEF Done
      <4> QED BY <3>2, <4>1, <4>2 DEF RunIsClean
    <3> QED BY <1>3, <3>1, <3>2 DEF Open
  <2> QED BY <1>1, <2>1, <2>2 DEF CacheIsClean
<1>4. ASSUME runner # None, NextUnit \/ Evaluate \/ Evaluations
      PROVE  CacheIsClean' /\ RunIsClean' /\ Outputs
  <2>1. /\ UNCHANGED <<cache, output, call, runner, position, records>>
        /\ at' # "mark"
        /\ at' = "export" => position > Len(UnitsOf(request))
    BY <1>4 DEF NextUnit, Evaluate, Evaluations, GoTo, files
  <2>2. at' = "export" => position = Len(UnitsOf(request)) + 1
    BY <1>4, <2>1, RunFacts
  <2> QED BY <1>1, <2>1, <2>2, CleanGoesOn DEF CacheIsClean
<1>5. ASSUME runner # None, Look
      PROVE  CacheIsClean' /\ RunIsClean' /\ Outputs
  <2>1. at = "look" /\ UNCHANGED <<cache, output>>
    BY <1>5 DEF Look, files
  <2>2. RunIsClean'
    <3>1. CASE Stop
      BY <3>1, CleanStops
    <3>2. CASE /\ \E x \in cache : x.input = Input(unit, request, records) /\ record' = x.result
               /\ GoTo("mark")
      <4>1. PICK x \in cache : x.input = Input(unit, request, records) /\ record' = x.result
        BY <3>2
      <4>2. PICK r \in Requests : \E u \in UnitsIn(r) :
               x.input = Input(u, r, FamilyRecords(r)) /\ x.result = Clean(u, r)
        BY <1>1 DEF CacheIsClean
      <4>3. PICK u \in UnitsIn(r) : x.input = Input(u, r, FamilyRecords(r)) /\ x.result = Clean(u, r)
        BY <4>2
      <4>4. /\ unit \in UnitsIn(request) /\ request \in Requests
            /\ Input(unit, request, records) = Input(unit, request, FamilyRecords(request))
        BY <1>1, <1>5, <2>1, RecordsSuffice, RunFacts
      <4>5. Input(u, r, FamilyRecords(r)) = Input(unit, request, FamilyRecords(request))
        BY <4>1, <4>3, <4>4
      <4>6. Clean(u, r) = Clean(unit, request)
        BY <4>4, <4>5, InputDeterminesResult
      <4>7. record' = Clean(unit, request)
        BY <4>1, <4>3, <4>6
      <4> QED BY <1>1, <3>2, <4>7, CleanGoesOn DEF GoTo
    <3>3. CASE GoTo("build")
      BY <1>1, <3>3, CleanGoesOn DEF GoTo
    <3> QED BY <1>5, <3>1, <3>2, <3>3 DEF Look
  <2> QED BY <1>1, <2>1, <2>2 DEF CacheIsClean
<1>6. ASSUME runner # None, Put
      PROVE  CacheIsClean' /\ RunIsClean' /\ Outputs
  <2> DEFINE x == [input |-> Input(unit, request, records), result |-> record', intact |-> TRUE]
  <2>1. /\ at = "put" /\ at' = "mark" /\ record' = Result(unit, request, records)
        /\ cache' = cache \cup {x} /\ UNCHANGED <<output, call, runner, position, records>>
    BY <1>6 DEF Put, GoTo
  <2>2. /\ unit \in UnitsIn(request) /\ request \in Requests
        /\ Input(unit, request, records) = Input(unit, request, FamilyRecords(request))
        /\ record' = Clean(unit, request)
    BY <1>1, <1>6, <2>1, RecordsSuffice, RunFacts
  <2>3. x.input = Input(unit, request, FamilyRecords(request)) /\ x.result = Clean(unit, request)
    BY <2>2
  <2> HIDE DEF x
  <2>4. CacheIsClean'
    BY <1>1, <2>1, <2>2, <2>3 DEF CacheIsClean
  <2>5. RunIsClean'
    BY <1>1, <2>1, <2>2, CleanGoesOn
  <2> QED BY <1>1, <2>1, <2>4, <2>5
<1>7. ASSUME runner # None, Mark
      PROVE  CacheIsClean' /\ RunIsClean' /\ Outputs
  <2>1. at = "mark" /\ UNCHANGED <<cache, output>>
    BY <1>7 DEF Mark
  <2>2. RunIsClean'
    <3>1. CASE Stop
      BY <3>1, CleanStops
    <3>2. CASE /\ records' = records \cup {[unit |-> unit, result |-> record]}
               /\ position' = position + 1 /\ at' = "unit" /\ UNCHANGED <<call, runner>>
      <4> DEFINE U == UnitsOf(request)
                 C(u) == [unit |-> u, result |-> Clean(u, request)]
      <4>1. request' = request
        BY <3>2 DEF request
      <4>2. position \in 1..Len(U) /\ unit = U[position]
        BY <1>7, <2>1, AtUnit
      <4>3. Done' = {U[i] : i \in 1..(position' - 1)} /\ Done = {U[i] : i \in 1..(position - 1)}
        BY <4>1 DEF Done
      <4>4. /\ \A i \in 1..(position' - 1) : i \in 1..(position - 1) \/ i = position
            /\ \A i \in 1..(position - 1) : i \in 1..(position' - 1)
            /\ position \in 1..(position' - 1)
        BY <3>2, <4>2
      <4>5. Done' = Done \cup {unit}
        BY <4>2, <4>3, <4>4
      <4>6. records' = {C(u) : u \in Done} \cup {C(unit)}
        BY <1>1, <1>7, <2>1, <3>2 DEF RunIsClean
      <4>7. records' = {C(u) : u \in Done'}
        <5> HIDE DEF C
        <5> QED BY <4>5, <4>6
      <4> QED BY <3>2, <4>1, <4>7 DEF RunIsClean
    <3> QED BY <1>7, <3>1, <3>2 DEF Mark
  <2> QED BY <1>1, <2>1, <2>2 DEF CacheIsClean
<1>8. ASSUME runner # None, Export
      PROVE  CacheIsClean' /\ RunIsClean' /\ Outputs
  <2>1. at = "export" /\ UNCHANGED cache
    BY <1>8 DEF Export
  <2>2. CASE output # {}
    <3>1. UNCHANGED output /\ Stop
      BY <1>8, <2>2 DEF Export
    <3> QED BY <1>1, <2>1, <3>1, CleanStops DEF CacheIsClean
  <2>3. CASE output = {}
    <3>1. output' = {[request |-> request, records |-> records]} /\ at' = "report"
          /\ UNCHANGED <<call, runner, position, records>>
      BY <1>8, <2>3 DEF Export, GoTo
    <3>2. position = Len(UnitsOf(request)) + 1 /\ request \in Requests
      BY <1>1, <1>8, <2>1, RunFacts DEF RunIsClean
    <3>3. DOMAIN UnitsOf(request) = 1..Len(UnitsOf(request)) /\ Len(UnitsOf(request)) \in Nat
      BY <3>2, UnitsTyped
    <3>4. position - 1 = Len(UnitsOf(request))
      BY <3>2, <3>3
    <3>5. Done = UnitsIn(request)
      BY <3>3, <3>4 DEF Done, UnitsIn
    <3>6. records = CleanRun(request)
      BY <1>1, <1>8, <3>2, <3>5, CleanRunIsOfUnits DEF RunIsClean
    <3>7. Outputs
      BY <3>1, <3>6
    <3> QED BY <1>1, <2>1, <3>1, <3>7, CleanGoesOn DEF CacheIsClean
  <2> QED BY <2>2, <2>3
<1>9. ASSUME Stop, UNCHANGED <<cache, output>>
      PROVE  CacheIsClean' /\ RunIsClean' /\ Outputs
  BY <1>1, <1>9, CleanStops DEF CacheIsClean
<1>10. ASSUME Damage
       PROVE  CacheIsClean' /\ RunIsClean' /\ Outputs
  <2>1. UNCHANGED <<output, call, runner, at, position, record, records>>
    BY <1>10 DEF Damage, DamageOf, memory
  <2>2. PICK d \in Damages :
           /\ faults' = Append(faults, d)
           /\ \/ cache' = {} \/ cache' = cache
              \/ \E x \in cache : cache' = (cache \ {x}) \cup {[x EXCEPT !.intact = FALSE]}
              \/ d = "ENTRY_REPLACED"
    BY <1>10 DEF Damage, DamageOf
  <2>3. d # "ENTRY_REPLACED"
    BY <2>2, AppendedHappened
  <2>4. CASE cache' = {} \/ cache' = cache
    BY <1>1, <2>1, <2>4, CleanGoesOn DEF CacheIsClean, RunIsClean
  <2>5. ASSUME NEW x \in cache, cache' = (cache \ {x}) \cup {[x EXCEPT !.intact = FALSE]}
        PROVE  CacheIsClean'
    <3> DEFINE y == [x EXCEPT !.intact = FALSE]
    <3>1. y.input = x.input /\ y.result = x.result
      BY AlteredEntry DEF IInv, CacheInv
    <3> HIDE DEF y
    <3> QED BY <1>1, <2>5, <3>1 DEF CacheIsClean, y
  <2>6. RunIsClean'
    BY <1>1, <2>1, CleanGoesOn DEF RunIsClean
  <2> QED BY <1>1, <2>1, <2>2, <2>3, <2>4, <2>5, <2>6
<1>11. CASE UNCHANGED vars
  <2>1. UNCHANGED <<cache, output, call, runner, at, position, record, records>>
    BY <1>11 DEF vars, files, memory
  <2>2. RunIsClean'
    BY <1>1, <2>1, CleanGoesOn DEF RunIsClean
  <2> QED BY <1>1, <2>1, <2>2 DEF CacheIsClean
<1>12. CASE runner # None /\ (Report \/ Crash)
  BY <1>9, <1>12 DEF Report, Crash, files
<1> QED BY <1>2, <1>3, <1>4, <1>5, <1>6, <1>7, <1>8, <1>10, <1>11, <1>12 DEF Next, Step, Crash

\* However a run was interrupted, and whatever has filled the cache, an export is the
\* one of an uninterrupted run over empty caches, unless an entry was replaced.
THEOREM ReproducibleExports == Spec => []ExportsAreReproducible
<1>1. Init => CleanInv
  BY DEF Init, CleanInv, CacheIsClean, RunIsClean
<1>2. IInv /\ CleanInv /\ [Next]_vars => CleanInv'
  BY CleanStep
<1>3. CleanInv => ExportsAreReproducible
  BY DEF CleanInv, ExportsAreReproducible
<1> QED BY Invariant, <1>1, <1>2, <1>3, PTL DEF Spec

\* The checkpoint goes on naming what was exported, unless it was lost, even where the
\* cache has other results by then.
LEMMA NamedStep ==
    ASSUME IInv, CheckpointNamesTheExport, [Next]_vars
    PROVE  CheckpointNamesTheExport'
<1> SUFFICES ASSUME ~Happened("CHECKPOINT_LOST")'
             PROVE  \A o \in output' : \A x \in o.records :
                        \E y \in completed' : y.unit = x.unit /\ y.result = x.result
  BY DEF CheckpointNamesTheExport
<1>1. \A o \in output : \A x \in o.records :
          \E y \in completed : y.unit = x.unit /\ y.result = x.result
  BY FaultsStay DEF CheckpointNamesTheExport
<1>2. CASE runner # None /\ Export /\ output = {}
  <2>1. output' = {[request |-> request, records |-> records]} /\ completed' = completed
    BY <1>2 DEF Export
  <2>2. records = ResultsOf({x \in completed : x.unit \in Done})
    BY <1>2 DEF IInv, RowsInv
  <2>3. \A x \in records : \E y \in completed : y.unit = x.unit /\ y.result = x.result
    BY <2>2 DEF ResultsOf
  <2> QED BY <2>1, <2>3
<1>3. ASSUME output' = output, completed \subseteq completed'
      PROVE  \A o \in output' : \A x \in o.records :
                 \E y \in completed' : y.unit = x.unit /\ y.result = x.result
  BY <1>1, <1>3
<1>4. CASE Damage
  <2>1. PICK d \in Damages : /\ faults' = Append(faults, d)
                             /\ completed' = completed \/ d = "CHECKPOINT_LOST"
    BY <1>4 DEF Damage, DamageOf
  <2>2. d # "CHECKPOINT_LOST"
    BY <2>1, AppendedHappened
  <2> QED BY <1>3, <1>4, <2>1, <2>2 DEF Damage, DamageOf
<1>5. CASE runner # None /\ Export /\ output # {}
  BY <1>3, <1>5 DEF Export
<1>6. CASE \E p \in Procs, r \in Requests, n \in StopAfters : Call(p, r, n)
  BY <1>3, <1>6 DEF Call, files
<1>7. CASE \E p \in Procs : Open(p)
  BY <1>3, <1>7 DEF Open
<1>8. CASE runner # None /\ (NextUnit \/ Evaluate \/ Evaluations \/ Look \/ Put \/ Report)
  BY <1>3, <1>8 DEF NextUnit, Evaluate, Evaluations, Look, Put, Report, files
<1>9. CASE runner # None /\ Mark
  <2>1. output' = output /\ completed \subseteq completed'
    BY <1>9 DEF Mark
  <2> QED BY <1>3, <2>1
<1>10. CASE Crash \/ UNCHANGED vars
  BY <1>3, <1>10 DEF Crash, vars, files
<1> QED BY <1>2, <1>4, <1>5, <1>6, <1>7, <1>8, <1>9, <1>10 DEF Next, Step

\* A completed unit keeps its result.
THEOREM ExportsAreNamed == Spec => []CheckpointNamesTheExport
<1>1. Init => CheckpointNamesTheExport
  BY DEF Init, CheckpointNamesTheExport
<1>2. IInv /\ CheckpointNamesTheExport /\ [Next]_vars => CheckpointNamesTheExport'
  BY NamedStep
<1> QED BY Invariant, <1>1, <1>2, PTL DEF Spec

\* So the one export is that of an uninterrupted run, and of what was completed.
THEOREM ExportsOfTheRun == Spec => ExportsAreOfTheRun
BY ReproducibleExports, ExportsAreNamed, OutputStays, PTL DEF ExportsAreOfTheRun

(***************************************************************************)
(* Refusals.                                                               *)
(***************************************************************************)
\* The row of a unit of a run without interruptions; while no entry was replaced, each
\* row of the checkpoint is such a row of a request with its context.
CleanRow(u, r) == [unit |-> u, input |-> Input(u, r, FamilyRecords(r)), result |-> Clean(u, r)]
RowsAreClean ==
    \A x \in completed : \E r \in Requests : \E u \in UnitsIn(r) :
        Context(r) = context /\ x = CleanRow(u, r)
RowsInvariant == ~Happened("ENTRY_REPLACED") => RowsAreClean

\* The row that a run comes with is its own clean one.
LEMMA RowIsClean ==
    ASSUME IInv, RunIsClean, runner # None, at = "mark"
    PROVE  /\ request \in Requests /\ unit \in UnitsIn(request) /\ Context(request) = context
           /\ Row = CleanRow(unit, request)
<1>1. request \in Requests /\ Context(request) = context
  BY RunFacts
<1>2. /\ unit \in UnitsIn(request)
      /\ Input(unit, request, records) = Input(unit, request, FamilyRecords(request))
  BY RecordsSuffice
<1>3. record = Clean(unit, request)
  BY DEF RunIsClean
<1> QED BY <1>1, <1>2, <1>3 DEF Row, CleanRow

\* A step of a run, or of the damages, keeps the rows clean.
LEMMA RowsStep ==
    ASSUME IInv, CleanInv, RowsInvariant, [Next]_vars
    PROVE  RowsInvariant'
<1> SUFFICES ASSUME ~Happened("ENTRY_REPLACED")' PROVE RowsAreClean'
  BY DEF RowsInvariant
<1>1. RowsAreClean /\ RunIsClean
  BY FaultsStay DEF RowsInvariant, CleanInv
<1>2. ASSUME completed' = completed, context' = context \/ completed = {} PROVE RowsAreClean'
  BY <1>1, <1>2 DEF RowsAreClean
<1>3. CASE runner # None /\ Mark
  <2>1. /\ at = "mark" /\ context' = context
        /\ completed' = completed \/ completed' = completed \cup {Row}
    BY <1>3 DEF Mark
  <2>2. /\ request \in Requests /\ unit \in UnitsIn(request) /\ Context(request) = context
        /\ Row = CleanRow(unit, request)
    BY <1>1, <1>3, <2>1, RowIsClean
  <2> QED BY <1>1, <2>1, <2>2 DEF RowsAreClean
<1>4. ASSUME NEW p \in Procs, Open(p) PROVE RowsAreClean'
  <2>1. completed' = completed
    BY <1>4 DEF Open
  <2>2. context' = context \/ context = None
    BY <1>4 DEF Open
  <2>3. context = None => completed = {}
    BY DEF IInv, RowsInv
  <2> QED BY <1>2, <2>1, <2>2, <2>3
<1>5. CASE Damage
  <2>1. \/ completed' = completed /\ context' = context
        \/ completed' = {}
    BY <1>5 DEF Damage, DamageOf
  <2> QED BY <1>2, <2>1 DEF RowsAreClean
<1>6. CASE \E p \in Procs, r \in Requests, n \in StopAfters : Call(p, r, n)
  BY <1>2, <1>6 DEF Call, files
<1>7. CASE runner # None /\ (NextUnit \/ Evaluate \/ Evaluations \/ Look \/ Put \/ Export \/ Report)
  BY <1>2, <1>7 DEF NextUnit, Evaluate, Evaluations, Look, Put, Export, Report, files
<1>8. CASE Crash \/ UNCHANGED vars
  BY <1>2, <1>8 DEF Crash, vars, files
<1> QED BY <1>3, <1>4, <1>5, <1>6, <1>7, <1>8 DEF Next, Step

\* Requests of one context with one baseline have the same families, and so the same
\* rows for the units that both have.
LEMMA ContextDeterminesRow ==
    ASSUME NEW r \in Requests, NEW q \in Requests, Context(r) = Context(q),
           r.evaluation = q.evaluation, NEW u \in UnitsIn(r), u \in UnitsIn(q)
    PROVE  CleanRow(u, r) = CleanRow(u, q)
<1>1. /\ r.ninth = q.ninth /\ r.walk = q.walk /\ r.monte = q.monte
      /\ r.sensitivity = q.sensitivity /\ r.stress = q.stress
  <2>1. /\ Context(r).ninth = r.ninth /\ Context(q).ninth = q.ninth
        /\ Context(r).protocol = Protocol(r) /\ Context(q).protocol = Protocol(q)
    BY DEF Context
  <2>2. r.ninth = q.ninth /\ Protocol(r) = Protocol(q)
    BY <2>1
  <2>3. /\ Protocol(r).walk = r.walk /\ Protocol(q).walk = q.walk
        /\ Protocol(r).monte = r.monte /\ Protocol(q).monte = q.monte
        /\ Protocol(r).sensitivity = r.sensitivity /\ Protocol(q).sensitivity = q.sensitivity
        /\ Protocol(r).stress = r.stress /\ Protocol(q).stress = q.stress
    BY DEF Protocol
  <2> QED BY <2>2, <2>3
<1>2. Pool(r) = Pool(q)
  BY <1>1 DEF Pool
<1>3. ASSUME NEW v \in AllUnits PROVE Evaluated(v, r) = Evaluated(v, q)
  <2>1. v.kind \in Families \cup {"quantitative-evidence"}
    BY DEF AllUnits
  <2>2. CASE v.kind \in {"walk-forward", "ninth-increment-walk-forward"}
    BY <1>1, <2>2 DEF Evaluated, EvaluationsOf
  <2>3. CASE v.kind \in {"monte-carlo", "sensitivity", "stress", "quantitative-evidence"}
    BY <1>1, <1>2, <2>3 DEF Evaluated, EvaluationsOf
  <2> QED BY <2>1, <2>2, <2>3 DEF Families
<1>4. ASSUME NEW c, NEW S PROVE FamilyResults(r, c, S) = FamilyResults(q, c, S)
  BY <1>1 DEF FamilyResults
<1>5. ASSUME NEW v \in AllUnits, NEW S
      PROVE  Input(v, r, S) = Input(v, q, S) /\ Result(v, r, S) = Result(v, q, S)
  <2>1. Named(v, r, S) = Named(v, q, S)
    BY <1>1, <1>2, <1>4 DEF Named
  <2>2. Input(v, r, S) = Input(v, q, S)
    BY <1>1, <1>2, <1>4 DEF Input
  <2> QED BY <1>3, <2>1, <2>2 DEF Result
<1>6. ASSUME NEW a \in Requests, NEW b \in Requests, Context(a) = Context(b), NEW v \in UnitsIn(a),
             v.kind # "quantitative-evidence"
      PROVE  v \in UnitsIn(b)
  <2>1. FamilyUnits(a) = FamilyUnits(b)
        /\ \A i \in 1..Len(UnitsOf(a)) : i \in 1..Len(UnitsOf(b)) => UnitsOf(a)[i] = UnitsOf(b)[i]
    BY <1>6, UnitsAgree
  <2>2. PICK i \in 1..Len(UnitsOf(a)) : v = UnitsOf(a)[i]
    BY UnitsTyped DEF UnitsIn
  <2>3. i <= FamilyUnits(a)
    BY <1>6, <2>2, UnitsTyped
  <2>4. i \in 1..Len(UnitsOf(b)) /\ DOMAIN UnitsOf(b) = 1..Len(UnitsOf(b))
    BY <2>1, <2>2, <2>3, UnitsTyped
  <2> QED BY <2>1, <2>2, <2>4 DEF UnitsIn
<1>7. FamilyRecords(r) = FamilyRecords(q)
  <2> DEFINE F(s) == {v \in UnitsIn(s) : v.kind # "quantitative-evidence"}
  <2>1. F(r) = F(q)
    BY <1>6
  <2>2. \A v \in F(r) : v \in AllUnits
    BY UnitsTyped DEF UnitsIn
  <2>3. \A v \in F(r) : Result(v, r, {}) = Result(v, q, {})
    BY <1>5, <2>2
  <2>4. /\ FamilyRecords(r) = {[unit |-> v, result |-> Result(v, r, {})] : v \in F(r)}
        /\ FamilyRecords(q) = {[unit |-> v, result |-> Result(v, q, {})] : v \in F(q)}
    BY DEF FamilyRecords
  <2> HIDE DEF F
  <2> QED BY <2>1, <2>3, <2>4
<1>8. u \in AllUnits
  BY UnitsTyped DEF UnitsIn
<1> QED BY <1>5, <1>7, <1>8 DEF CleanRow, Clean

\* A checkpoint refuses a run that it has let in only for another baseline, unless an
\* entry of the result cache was replaced.
THEOREM AdmittedRunsGoOn == Spec => []AdmittedRunsAreNotRefused
<1>1. Init => CleanInv /\ RowsInvariant
  BY DEF Init, CleanInv, CacheIsClean, RunIsClean, RowsInvariant, RowsAreClean
<1>2. IInv /\ CleanInv /\ RowsInvariant /\ [Next]_vars => CleanInv' /\ RowsInvariant'
  BY CleanStep, RowsStep
<1>3. IInv /\ CleanInv /\ RowsInvariant => AdmittedRunsAreNotRefused
  <2> SUFFICES ASSUME IInv, CleanInv, RowsInvariant, at = "mark", ~Happened("ENTRY_REPLACED"),
                      NEW y \in completed, y.input.evaluation = request.evaluation,
                      NEW x \in completed, x.unit = unit
               PROVE  x = Row
    BY DEF AdmittedRunsAreNotRefused, Mismatch
  <2>1. runner # None /\ RunIsClean /\ RowsAreClean
    BY DEF IInv, TypeOK, CleanInv, RowsInvariant
  <2>2. /\ request \in Requests /\ unit \in UnitsIn(request) /\ Context(request) = context
        /\ Row = CleanRow(unit, request)
    BY <2>1, RowIsClean
  <2>3. ASSUME NEW v \in AllUnits, NEW r \in Requests, NEW S
        PROVE  Input(v, r, S).evaluation = r.evaluation
    <3>1. v.kind \in Families \cup {"quantitative-evidence"}
      BY DEF AllUnits
    <3> QED BY <3>1 DEF Families, Input
  <2>4. x.input.evaluation = y.input.evaluation
    <3> DEFINE S == {[unit |-> w.unit, result |-> w.result] : w \in completed}
    <3>1. PICK r \in Requests : \A z \in completed : z.input = Input(z.unit, r, S)
      BY DEF IInv, CheckpointIsOfOneRun
    <3>2. ASSUME NEW z \in completed PROVE z.unit \in AllUnits
      <4>1. PICK p \in Requests : \E u \in UnitsIn(p) : z = CleanRow(u, p)
        BY <2>1 DEF RowsAreClean
      <4>2. PICK u \in UnitsIn(p) : z = CleanRow(u, p)
        BY <4>1
      <4> QED BY <4>2, UnitsTyped DEF CleanRow, UnitsIn
    <3> HIDE DEF S
    <3>3. ASSUME NEW z \in completed PROVE z.input.evaluation = r.evaluation
      BY <2>3, <3>1, <3>2
    <3> QED BY <3>3
  <2>5. PICK r \in Requests : \E u \in UnitsIn(r) : Context(r) = context /\ x = CleanRow(u, r)
    BY <2>1 DEF RowsAreClean
  <2>6. PICK u \in UnitsIn(r) : Context(r) = context /\ x = CleanRow(u, r)
    BY <2>5
  <2>7. u = unit /\ x.input = Input(u, r, FamilyRecords(r))
    BY <2>6 DEF CleanRow
  <2>8. r.evaluation = request.evaluation
    <3>1. u \in AllUnits
      BY UnitsTyped DEF UnitsIn
    <3> QED BY <2>3, <2>4, <2>7, <3>1
  <2> QED BY <2>2, <2>6, <2>7, <2>8, ContextDeterminesRow
<1> QED BY Invariant, <1>1, <1>2, <1>3, PTL DEF Spec
=============================================================================
