--------------------------- MODULE MarketCacheProofs ---------------------------
(***************************************************************************)
(* Proofs about the caches of market data, for every set of files,         *)
(* requests and processes, files that are replaced at any moment and       *)
(* entries that are damaged: what lies under a key is what the key says, a *)
(* dataset is the latest window of what was prepared, and an entry stays.  *)
(*                                                                         *)
(* The argument: below the imports a key holds everything its artifact is  *)
(* made of, so whoever published an entry made what anybody else would     *)
(* have made; an import is the only entry that may disagree with its key,  *)
(* and it disagrees only in where it says it came from.  A window is a     *)
(* sequence by rank, hence it has the latest dates, and a suffix of a      *)
(* suffix is a suffix.                                                     *)
(***************************************************************************)
EXTENDS MarketCache, FiniteSetTheorems, SequenceTheorems, TLAPS

Contracts == UNION {{r.sources[n].contract : n \in DOMAIN r.sources} : r \in Requests}
Imports == {Import(content, contract) : content \in DOMAIN Contents, contract \in Contracts}
Sessions == {Session(i) : i \in {j \in Imports : Cardinality(j.dates) = 1}}

\* What lies under a key: an import, or what the key itself says.
Says(key, made) ==
    \/ key.layer = "imports" /\ made \in Imports
    \/ key.layer = "sessions" /\ made \in Sessions /\ key = made.key
    \/ /\ key.layer = "candles" /\ made.session \in Sessions
       /\ made = Candles(made.session, made.timeframe)
       /\ key = CandleKey(made.session, made.timeframe)
    \/ /\ key.layer = "features"
       /\ made = Feature(key.candles, key.spec, key.inputs)

SoundEntry(e) ==
    /\ e = [key |-> e.key, made |-> e.made, damaged |-> e.damaged]
    /\ Says(e.key, e.made)

CacheInv == \A e \in cache : SoundEntry(e)

\* A job is of a source of a request or of a session that was prepared.
SoundJob(job) ==
    \/ job.layer \in {"imports", "sessions"} /\ job.arg.path \in Paths /\ job.arg.contract \in Contracts
    \/ job.layer \in {"candles", "averages", "features"} /\ job.arg.session \in Sessions

\* The first import comes before the first session.
ImportsFirst(todo, import) ==
    \A n \in DOMAIN todo : todo[n].layer = "sessions" /\ import \notin Imports =>
        n > 1 /\ todo[n - 1].layer = "imports"

SoundJobs(todo, import) ==
    /\ IsSequence(todo)
    /\ \A n \in DOMAIN todo : SoundJob(todo[n])
    /\ ImportsFirst(todo, import)

\* Sessions that were prepared: one of each date.
OfDistinctDates(sessions) == \A s, t \in sessions : s.date = t.date => s = t
Prepared(sessions) ==
    /\ sessions \subseteq Sessions /\ IsFiniteSet(sessions)
    /\ OfDistinctDates(sessions)

\* What is staged lies under a key of the layer of its job.
LayerOf(job) == IF job.layer = "averages" THEN "features" ELSE job.layer
SoundStaged(staged, todo) ==
    /\ todo # << >>
    /\ staged = [key |-> staged.key, made |-> staged.made]
    /\ staged.key.layer = LayerOf(Head(todo))
    /\ staged.made # None => Says(staged.key, staged.made)

SoundCall(c) ==
    /\ c = [request |-> c.request, phase |-> c.phase, todo |-> c.todo, import |-> c.import,
            prepared |-> c.prepared, met |-> c.met, staged |-> c.staged]
    /\ c.request \in Requests
    /\ SoundJobs(c.todo, c.import)
    /\ Prepared(c.prepared) /\ c.met = c.prepared
    /\ c.staged # None => SoundStaged(c.staged, c.todo)

CallInv ==
    /\ DOMAIN call = Processes
    /\ \A p \in Processes : Working(p) => SoundCall(call[p])

DatasetInv ==
    \A d \in datasets : d.request \in Requests /\ Prepared(d.met)
                        /\ d.manifest = Manifest(d.request, d.met)

IInv == files \in [Paths -> DOMAIN Contents] /\ CacheInv /\ CallInv /\ DatasetInv

(***************************************************************************)
(* Sequences and the order of the jobs.                                    *)
(***************************************************************************)
LEMMA SequenceFacts ==
    ASSUME NEW s, IsSequence(s)
    PROVE  Len(s) \in Nat /\ DOMAIN s = 1 .. Len(s) /\ s = [n \in 1 .. Len(s) |-> s[n]]
<1>1. s \in Seq({s[n] : n \in DOMAIN s})
  BY DEF IsSequence
<1> QED BY <1>1, SMT

LEMMA FunctionIsSequence ==
    ASSUME NEW m \in Nat, NEW f, DOMAIN f = 1 .. m, f = [n \in 1 .. m |-> f[n]]
    PROVE  IsSequence(f) /\ Len(f) = m
<1> DEFINE V == {f[n] : n \in DOMAIN f}
<1>1. f \in Seq(V) /\ Len(f) = m
  BY SMT
<1> QED BY <1>1 DEF IsSequence

LEMMA MembersAreSequences ==
    ASSUME NEW V, NEW t \in Seq(V)
    PROVE  IsSequence(t) /\ DOMAIN t = 1 .. Len(t)
<1>1. Len(t) \in Nat /\ DOMAIN t = 1 .. Len(t) /\ t \in [1 .. Len(t) -> V]
  BY LenProperties
<1>2. t = [n \in 1 .. Len(t) |-> t[n]]
  BY <1>1
<1> QED BY <1>1, <1>2, FunctionIsSequence

LEMMA HeadAndTail ==
    ASSUME NEW s, IsSequence(s), s # << >>
    PROVE  /\ 1 \in DOMAIN s /\ Head(s) = s[1]
           /\ IsSequence(Tail(s))
           /\ \A n \in DOMAIN Tail(s) : n + 1 \in DOMAIN s /\ Tail(s)[n] = s[n + 1]
<1> DEFINE V == {s[n] : n \in DOMAIN s}
<1>1. s \in Seq(V)
  BY DEF IsSequence
<1>2. 1 \in DOMAIN s /\ Head(s) = s[1] /\ Len(s) \in Nat /\ DOMAIN s = 1 .. Len(s)
  BY <1>1, SMT
<1>3. /\ Tail(s) \in Seq(V) /\ Len(Tail(s)) = Len(s) - 1
      /\ \A n \in 1 .. Len(Tail(s)) : Tail(s)[n] = s[n + 1]
  <2> HIDE DEF V
  <2> QED BY <1>1, HeadTailProperties
<1>4. DOMAIN Tail(s) = 1 .. Len(Tail(s)) /\ IsSequence(Tail(s))
  <2> HIDE DEF V
  <2> QED BY <1>3, MembersAreSequences
<1> QED BY <1>2, <1>3, <1>4, SMT

\* The row and the column of a place in two nested loops.
LEMMA PlaceOfNested ==
    ASSUME NEW a \in Nat, NEW b \in Nat, NEW n \in 1 .. a * b
    PROVE  /\ a * b \in Nat
           /\ ((n - 1) \div b) + 1 \in 1 .. a
           /\ ((n - 1) % b) + 1 \in 1 .. b
<1>1. b > 0 /\ a * b \in Nat
  <2>1. b # 0
    BY SMT
  <2> QED BY <2>1, SMT
<1>2. (n - 1) \div b \in Int /\ (n - 1) % b \in 0 .. b - 1
      /\ n - 1 = b * ((n - 1) \div b) + ((n - 1) % b)
  BY <1>1, SMT
<1> DEFINE q == (n - 1) \div b
           r == (n - 1) % b
<1>3. q >= 0
  BY <1>1, <1>2, SMT
<1>4. q < a
  BY <1>1, <1>2, <1>3, SMT
<1> QED BY <1>1, <1>2, <1>3, <1>4, SMT

\* The jobs of the sources of a request: an import before every session.
LEMMA SourceJobsAreSound ==
    ASSUME NEW r \in Requests, NEW import
    PROVE  SoundJobs(SourceJobs(r), import)
<1> DEFINE jobs == SourceJobs(r)
           m == Len(r.sources) * 2
           source(n) == r.sources[((n - 1) \div 2) + 1]
           layer(n) == <<"imports", "sessions">>[((n - 1) % 2) + 1]
<1>1. Len(r.sources) \in Nat /\ DOMAIN r.sources = 1 .. Len(r.sources)
  BY RequestsAssumption, SequenceFacts DEF RequestsAssumption
<1>2. jobs = [n \in 1 .. m |-> Job(layer(n), source(n))]
  BY DEF SourceJobs, Nested
<1>3. m \in Nat /\ DOMAIN jobs = 1 .. m /\ jobs = [n \in 1 .. m |-> jobs[n]]
  BY <1>1, <1>2, SMT
<1>4. ASSUME NEW n \in 1 .. m
      PROVE  /\ jobs[n].layer = IF n % 2 = 1 THEN "imports" ELSE "sessions"
             /\ jobs[n].arg.path \in Paths /\ jobs[n].arg.contract \in Contracts
  <2>1. jobs[n] = [layer |-> layer(n), arg |-> source(n)]
    BY <1>2, <1>3 DEF Job
  <2>2. ((n - 1) \div 2) + 1 \in DOMAIN r.sources
    BY <1>1, PlaceOfNested, SMT
  <2>3. source(n).path \in Paths
    BY <2>2, RequestsAssumption DEF RequestsAssumption
  <2>4. source(n).contract \in Contracts
    BY <2>2 DEF Contracts
  <2>5. layer(n) = IF n % 2 = 1 THEN "imports" ELSE "sessions"
    BY <1>3, SMT
  <2> QED BY <2>1, <2>3, <2>4, <2>5
<1> HIDE DEF jobs, m, source, layer
<1>5. IsSequence(jobs)
  BY <1>3, FunctionIsSequence
<1>6. \A n \in DOMAIN jobs : SoundJob(jobs[n])
  BY <1>3, <1>4 DEF SoundJob
<1>7. ImportsFirst(jobs, import)
  <2>1. ASSUME NEW n \in 1 .. m, jobs[n].layer = "sessions"
        PROVE  n > 1 /\ jobs[n - 1].layer = "imports"
    <3>1. n % 2 # 1
      BY <1>4, <2>1
    <3>2. n - 1 \in 1 .. m /\ (n - 1) % 2 = 1 /\ n > 1
      BY <3>1, <1>3, SMT
    <3> QED BY <3>2, <1>4
  <2> QED BY <2>1, <1>3 DEF ImportsFirst
<1> QED BY <1>5, <1>6, <1>7 DEF SoundJobs, jobs

\* Jobs of sessions that were prepared, one by one.
LEMMA SessionJobsAreSound ==
    ASSUME NEW m \in Nat, NEW jobs, NEW import,
           DOMAIN jobs = 1 .. m, jobs = [n \in 1 .. m |-> jobs[n]],
           \A n \in 1 .. m : /\ jobs[n].layer \in {"candles", "averages", "features"}
                             /\ jobs[n].arg.session \in Sessions
    PROVE  SoundJobs(jobs, import)
<1>1. IsSequence(jobs)
  BY FunctionIsSequence
<1>2. \A n \in DOMAIN jobs : SoundJob(jobs[n])
  BY DEF SoundJob
<1>3. ImportsFirst(jobs, import)
  BY DEF ImportsFirst
<1> QED BY <1>1, <1>2, <1>3 DEF SoundJobs

LEMMA DerivedJobsAreSound ==
    ASSUME NEW r \in Requests, NEW sessions, NEW import,
           IsSequence(sessions), \A n \in DOMAIN sessions : sessions[n] \in Sessions
    PROVE  SoundJobs(DerivedJobs(r, sessions), import)
<1> DEFINE layers == IF r.features = "sma" THEN <<"candles", "averages">> ELSE <<"candles">>
           steps == Nested(r.timeframes, layers,
                           LAMBDA timeframe, layer : [layer |-> layer, timeframe |-> timeframe])
           jobs == DerivedJobs(r, sessions)
           k == Len(r.timeframes) * Len(layers)
           m == Len(sessions) * Len(steps)
           row(n) == ((n - 1) \div Len(steps)) + 1
           column(n) == ((n - 1) % Len(steps)) + 1
<1>1. /\ Len(r.timeframes) \in Nat /\ Len(sessions) \in Nat
      /\ DOMAIN sessions = 1 .. Len(sessions)
  BY RequestsAssumption, SequenceFacts DEF RequestsAssumption
<1>2. Len(layers) \in Nat /\ \A n \in 1 .. Len(layers) : layers[n] \in {"candles", "averages"}
  BY SMT
<1>3. steps = [n \in 1 .. k |->
                  [layer |-> layers[((n - 1) % Len(layers)) + 1],
                   timeframe |-> r.timeframes[((n - 1) \div Len(layers)) + 1]]]
  BY DEF Nested
<1> HIDE DEF layers, steps
<1>4. k \in Nat
  BY <1>1, <1>2, SMT
<1> HIDE DEF k
<1>5. Len(steps) = k
  <2>1. DOMAIN steps = 1 .. k /\ steps = [n \in 1 .. k |-> steps[n]]
    BY <1>3
  <2> QED BY <2>1, <1>4, FunctionIsSequence
<1>6. ASSUME NEW n \in 1 .. Len(steps)
      PROVE  steps[n].layer \in {"candles", "averages"}
  <2>1. ((n - 1) % Len(layers)) + 1 \in 1 .. Len(layers)
    BY <1>1, <1>2, <1>5, PlaceOfNested DEF k
  <2>2. steps[n].layer = layers[((n - 1) % Len(layers)) + 1]
    BY <1>3, <1>5
  <2> QED BY <2>1, <2>2, <1>2
<1>7. jobs = [n \in 1 .. m |->
                 DerivedJob(sessions[row(n)], steps[column(n)].layer, steps[column(n)].timeframe)]
  BY DEF DerivedJobs, Nested, layers, steps
<1> HIDE DEF row, column
<1>8. m \in Nat
  BY <1>1, <1>4, <1>5, SMT
<1>9. ASSUME NEW n \in 1 .. m
      PROVE  /\ jobs[n].layer \in {"candles", "averages", "features"}
             /\ jobs[n].arg.session \in Sessions
  <2>1. row(n) \in DOMAIN sessions /\ column(n) \in 1 .. Len(steps)
    BY <1>1, <1>4, <1>5, PlaceOfNested DEF row, column
  <2>2. jobs[n].layer = steps[column(n)].layer /\ jobs[n].arg.session = sessions[row(n)]
    BY <1>7 DEF DerivedJob, Job
  <2> QED BY <2>1, <2>2, <1>6
<1>10. DOMAIN jobs = 1 .. m /\ jobs = [n \in 1 .. m |-> jobs[n]]
  BY <1>7
<1> QED BY <1>8, <1>9, <1>10, SessionJobsAreSound

LEMMA SetJobsAreSound ==
    ASSUME NEW r \in Requests, NEW sessions, NEW import,
           IsSequence(sessions), \A n \in DOMAIN sessions : sessions[n] \in Sessions
    PROVE  SoundJobs(SetJobs(r, sessions), import)
<1> DEFINE jobs == SetJobs(r, sessions)
           m == Len(sessions) * Len(r.specs)
           row(n) == ((n - 1) \div Len(r.specs)) + 1
           column(n) == ((n - 1) % Len(r.specs)) + 1
<1>1. /\ Len(r.specs) \in Nat /\ Len(sessions) \in Nat
      /\ DOMAIN sessions = 1 .. Len(sessions)
  BY RequestsAssumption, SequenceFacts DEF RequestsAssumption
<1>2. jobs = [n \in 1 .. m |->
                 FeatureJob(sessions[row(n)], r.timeframes[1], r.specs[column(n)])]
  BY DEF SetJobs, Nested
<1> HIDE DEF row, column, jobs
<1>3. m \in Nat
  BY <1>1, SMT
<1>4. ASSUME NEW n \in 1 .. m
      PROVE  /\ jobs[n].layer \in {"candles", "averages", "features"}
             /\ jobs[n].arg.session \in Sessions
  <2>1. row(n) \in DOMAIN sessions
    BY <1>1, PlaceOfNested DEF row
  <2>2. jobs[n].layer = "features" /\ jobs[n].arg.session = sessions[row(n)]
    BY <1>2 DEF FeatureJob, Job
  <2> QED BY <2>1, <2>2
<1>5. DOMAIN jobs = 1 .. m /\ jobs = [n \in 1 .. m |-> jobs[n]]
  BY <1>2
<1> QED BY <1>3, <1>4, <1>5, SessionJobsAreSound DEF jobs

(***************************************************************************)
(* Windows.                                                                *)
(***************************************************************************)
\* A session has a date, and its key says what it is.
LEMMA SessionFacts ==
    ASSUME NEW s \in Sessions
    PROVE  /\ s.date \in Int /\ s.key.layer = "sessions"
           /\ \A t \in Sessions : t.key = s.key => t = s
<1>1. \A t \in Sessions : \E i \in Imports : Cardinality(i.dates) = 1 /\ t = Session(i)
  BY DEF Sessions
<1>2. ASSUME NEW i \in Imports, Cardinality(i.dates) = 1
      PROVE  TheDate(i) \in Int
  <2>1. PICK content \in DOMAIN Contents, contract \in Contracts : i = Import(content, contract)
    BY DEF Imports
  <2>2. i.dates = Dates(Contents[content], contract)
    BY <2>1 DEF Import
  <2>3. i.dates \subseteq Int
    BY <2>2, ContentsAssumption DEF ContentsAssumption, Dates, Selected, Positions
  <2>4. i.dates # {}
    BY <1>2, FS_EmptySet, SMT
  <2> QED BY <2>3, <2>4 DEF TheDate
<1>3. PICK i \in Imports : Cardinality(i.dates) = 1 /\ s = Session(i)
  BY <1>1
<1>4. s.date \in Int /\ s.key.layer = "sessions"
  BY <1>2, <1>3 DEF Session, SessionKey
<1>5. ASSUME NEW t \in Sessions, t.key = s.key
      PROVE  t = s
  <2>1. PICK j \in Imports : Cardinality(j.dates) = 1 /\ t = Session(j)
    BY <1>1
  <2>2. SessionKey(i) = SessionKey(j)
    BY <1>3, <2>1, <1>5 DEF Session
  <2>3. TheDate(i) = TheDate(j) /\ i.trades = j.trades
    BY <2>2 DEF SessionKey
  <2> QED BY <2>2, <2>3, <2>1, <1>3 DEF Session
<1> QED BY <1>4, <1>5

\* The rank of a session among sessions of distinct dates: every rank is taken once.
LEMMA RanksAreTaken ==
    ASSUME NEW S, Prepared(S)
    PROVE  /\ Cardinality(S) \in Nat
           /\ \A s \in S : Cardinality(Before(S, s)) \in 0 .. Cardinality(S) - 1
           /\ \A s, t \in S : s.date < t.date =>
                  Cardinality(Before(S, s)) < Cardinality(Before(S, t))
           /\ \A n \in 1 .. Cardinality(S) : \E s \in S : Cardinality(Before(S, s)) = n - 1
<1>1. /\ IsFiniteSet(S) /\ \A s \in S : s.date \in Int
      /\ \A s, t \in S : s.date = t.date => s = t
  BY SessionFacts DEF Prepared, OfDistinctDates
<1>2. Cardinality(S) \in Nat
  BY <1>1, FS_CardinalityType
<1>3. ASSUME NEW s \in S
      PROVE  /\ IsFiniteSet(Before(S, s)) /\ Cardinality(Before(S, s)) \in Nat
             /\ Before(S, s) \subseteq S /\ s \notin Before(S, s)
  <2>1. Before(S, s) \subseteq S /\ s \notin Before(S, s)
    BY <1>1, SMT DEF Before
  <2>2. IsFiniteSet(Before(S, s))
    BY <1>1, <2>1, FS_Subset
  <2> QED BY <2>1, <2>2, FS_CardinalityType
<1>4. ASSUME NEW s \in S
      PROVE  Cardinality(Before(S, s)) \in 0 .. Cardinality(S) - 1
  <2>1. Cardinality(Before(S, s)) <= Cardinality(S)
    BY <1>1, <1>3, FS_Subset
  <2>2. Cardinality(Before(S, s)) # Cardinality(S)
    BY <1>1, <1>3, FS_Subset
  <2> QED BY <1>2, <1>3, <2>1, <2>2, SMT
<1>5. ASSUME NEW s \in S, NEW t \in S, s.date < t.date
      PROVE  Cardinality(Before(S, s)) < Cardinality(Before(S, t))
  <2>1. Before(S, s) \subseteq Before(S, t) /\ s \in Before(S, t)
    BY <1>1, <1>5, SMT DEF Before
  <2>2. Cardinality(Before(S, s)) <= Cardinality(Before(S, t))
    BY <1>3, <2>1, FS_Subset
  <2>3. Cardinality(Before(S, s)) # Cardinality(Before(S, t))
    BY <1>3, <2>1, FS_Subset
  <2> QED BY <1>3, <2>2, <2>3, SMT
<1>6. \A n \in 1 .. Cardinality(S) : \E s \in S : Cardinality(Before(S, s)) = n - 1
  <2> DEFINE T == 0 .. Cardinality(S) - 1
             rank == [s \in S |-> Cardinality(Before(S, s))]
  <2>1. rank \in [S -> T]
    BY <1>4
  <2>2. ASSUME NEW s \in S, NEW t \in S, s # t
        PROVE  rank[s] # rank[t]
    <3>1. s.date < t.date \/ t.date < s.date
      BY <1>1, <2>2, SMT
    <3>2. rank[s] < rank[t] \/ rank[t] < rank[s]
      BY <3>1, <1>5
    <3> QED BY <3>2, <1>3, SMT
  <2>3. rank \in Injection(S, T)
    BY <2>1, <2>2 DEF Injection, IsInjective
  <2>4. IsFiniteSet(T) /\ Cardinality(T) = Cardinality(S)
    BY <1>2, FS_Interval, SMT
  <2>5. rank \in Surjection(S, T)
    <3> HIDE DEF rank, T
    <3> QED BY <2>3, <2>4, FS_Injection
  <2>6. \A k \in T : \E s \in S : rank[s] = k
    BY <2>5 DEF Surjection
  <2>7. \A n \in 1 .. Cardinality(S) : n - 1 \in T
    BY <1>2, SMT
  <2> QED BY <2>6, <2>7
<1> QED BY <1>2, <1>4, <1>5, <1>6

\* All of them, in the order of their dates.
LEMMA SortedByDate ==
    ASSUME NEW S, Prepared(S)
    PROVE  /\ IsSequence(Sorted(S)) /\ Len(Sorted(S)) = Cardinality(S)
           /\ DOMAIN Sorted(S) = 1 .. Cardinality(S)
           /\ \A n \in DOMAIN Sorted(S) : Sorted(S)[n] \in S
           /\ \A s \in S : \E n \in DOMAIN Sorted(S) : Sorted(S)[n] = s
           /\ \A n, m \in DOMAIN Sorted(S) : n < m => Sorted(S)[n].date < Sorted(S)[m].date
<1> DEFINE N == Cardinality(S)
           rank(s) == Cardinality(Before(S, s))
<1>1. /\ N \in Nat /\ \A s \in S : rank(s) \in 0 .. N - 1 /\ s.date \in Int
      /\ \A s, t \in S : s.date < t.date => rank(s) < rank(t)
      /\ \A s, t \in S : s.date = t.date => s = t
      /\ \A n \in 1 .. N : \E s \in S : rank(s) = n - 1
  BY RanksAreTaken, SessionFacts DEF Prepared, OfDistinctDates
<1>2. DOMAIN Sorted(S) = 1 .. N
      /\ \A n \in 1 .. N : Sorted(S)[n] = CHOOSE s \in S : rank(s) = n - 1
  BY DEF Sorted
<1> HIDE DEF rank, N
<1>3. \A n \in 1 .. N : Sorted(S)[n] \in S /\ rank(Sorted(S)[n]) = n - 1
  BY <1>1, <1>2
<1>4. IsSequence(Sorted(S)) /\ Len(Sorted(S)) = N
  <2>1. Sorted(S) = [n \in 1 .. N |-> Sorted(S)[n]]
    BY DEF Sorted, N
  <2> QED BY <2>1, <1>1, <1>2, FunctionIsSequence
<1>5. ASSUME NEW s \in S
      PROVE  \E n \in 1 .. N : Sorted(S)[n] = s
  <2>1. rank(s) + 1 \in 1 .. N
    BY <1>1, SMT
  <2>2. PICK t \in S : t = Sorted(S)[rank(s) + 1] /\ rank(t) = rank(s)
    BY <2>1, <1>3, <1>1, SMT
  <2>3. t = s
    BY <2>2, <1>1, SMT
  <2> QED BY <2>1, <2>2, <2>3
<1>6. ASSUME NEW n \in 1 .. N, NEW m \in 1 .. N, n < m
      PROVE  Sorted(S)[n].date < Sorted(S)[m].date
  <2>1. PICK s \in S : s = Sorted(S)[n] /\ rank(s) = n - 1
    BY <1>3
  <2>2. PICK t \in S : t = Sorted(S)[m] /\ rank(t) = m - 1
    BY <1>3
  <2>3. rank(s) < rank(t) /\ n \in Int /\ m \in Int
    BY <2>1, <2>2, <1>1, <1>6, SMT
  <2>4. ~(t.date < s.date) /\ s.date # t.date
    BY <2>3, <1>1, SMT
  <2> QED BY <2>1, <2>2, <2>4, <1>1, SMT
<1> QED BY <1>2, <1>3, <1>4, <1>5, <1>6 DEF N

\* How many the latest max of a sequence of length are.
Kept(length, max) == IF length < max THEN length ELSE max

\* The latest of a sequence are its last elements.
LEMMA LatestIsSuffix ==
    ASSUME NEW s, IsSequence(s), NEW max \in Nat \ {0}
    PROVE  /\ IsSequence(Latest(s, max)) /\ Len(Latest(s, max)) = Kept(Len(s), max)
           /\ DOMAIN Latest(s, max) = 1 .. Kept(Len(s), max)
           /\ \A n \in DOMAIN Latest(s, max) :
                 /\ n + Len(s) - Kept(Len(s), max) \in DOMAIN s
                 /\ Latest(s, max)[n] = s[n + Len(s) - Kept(Len(s), max)]
<1> DEFINE V == {s[n] : n \in DOMAIN s}
           N == Len(s)
           k == Kept(N, max)
           low == IF N < max THEN 1 ELSE N - max + 1
<1>1. N \in Nat /\ DOMAIN s = 1 .. N
  BY SequenceFacts
<1>2. /\ low \in Int /\ low >= 1 /\ k \in Nat /\ N - low + 1 = k /\ low - 1 = N - k /\ k <= N
      /\ (low <= N => k = N - low + 1) /\ (low > N => k = 0)
  BY <1>1, SMT DEF Kept
<1>3. \A n \in low .. N : s[n] \in V
  BY <1>1, <1>2, SMT
<1>4. Latest(s, max) = SubSeq(s, low, N)
  BY DEF Latest
<1> HIDE DEF V, N, k, low
<1>5. /\ SubSeq(s, low, N) \in Seq(V)
      /\ Len(SubSeq(s, low, N)) = IF low <= N THEN N - low + 1 ELSE 0
      /\ \A n \in 1 .. N - low + 1 : SubSeq(s, low, N)[n] = s[low + n - 1]
  BY <1>1, <1>2, <1>3, SubSeqProperties
<1>6. IsSequence(Latest(s, max)) /\ Len(Latest(s, max)) = k /\ DOMAIN Latest(s, max) = 1 .. k
  <2>1. Len(SubSeq(s, low, N)) = k
    BY <1>1, <1>2, <1>5, SMT
  <2> QED BY <2>1, <1>4, <1>5, MembersAreSequences
<1>7. ASSUME NEW n \in 1 .. k
      PROVE  n + N - k \in DOMAIN s /\ Latest(s, max)[n] = s[n + N - k]
  <2>1. n + N - k = low + n - 1 /\ n \in 1 .. N - low + 1 /\ n + N - k \in 1 .. N
    BY <1>1, <1>2, SMT
  <2> QED BY <2>1, <1>1, <1>4, <1>5
<1> QED BY <1>6, <1>7 DEF k, N

\* A suffix of a suffix is a suffix.
LEMMA LatestOfLatest ==
    ASSUME NEW s, IsSequence(s), NEW wide \in Nat \ {0}, NEW narrow \in Nat \ {0}, narrow <= wide
    PROVE  Latest(Latest(s, wide), narrow) = Latest(s, narrow)
<1> DEFINE N == Len(s)
           kw == Kept(N, wide)
           kn == Kept(N, narrow)
           w == Latest(s, wide)
<1>1. N \in Nat
  BY SequenceFacts
<1>2. kw \in Nat /\ kn \in Nat /\ Kept(kw, narrow) = kn /\ kn <= kw
  BY <1>1, SMT DEF Kept
<1>3. /\ IsSequence(w) /\ Len(w) = kw /\ DOMAIN w = 1 .. kw
      /\ \A n \in 1 .. kw : w[n] = s[n + N - kw]
  BY LatestIsSuffix
<1>4. /\ IsSequence(Latest(s, narrow)) /\ Len(Latest(s, narrow)) = kn
      /\ DOMAIN Latest(s, narrow) = 1 .. kn
      /\ \A n \in 1 .. kn : Latest(s, narrow)[n] = s[n + N - kn]
  BY LatestIsSuffix
<1> HIDE DEF w, kw, kn, N
<1>5. /\ IsSequence(Latest(w, narrow)) /\ Len(Latest(w, narrow)) = kn
      /\ DOMAIN Latest(w, narrow) = 1 .. kn
      /\ \A n \in 1 .. kn : n + kw - kn \in 1 .. kw /\ Latest(w, narrow)[n] = w[n + kw - kn]
  <2>1. /\ IsSequence(Latest(w, narrow)) /\ Len(Latest(w, narrow)) = Kept(Len(w), narrow)
        /\ DOMAIN Latest(w, narrow) = 1 .. Kept(Len(w), narrow)
        /\ \A n \in DOMAIN Latest(w, narrow) :
              /\ n + Len(w) - Kept(Len(w), narrow) \in DOMAIN w
              /\ Latest(w, narrow)[n] = w[n + Len(w) - Kept(Len(w), narrow)]
    BY <1>3, LatestIsSuffix
  <2>2. Len(w) = kw /\ Kept(Len(w), narrow) = kn
    BY <1>2, <1>3
  <2> QED BY <2>1, <2>2, <1>3
<1>6. \A n \in 1 .. kn : Latest(w, narrow)[n] = Latest(s, narrow)[n]
  <2> TAKE n \in 1 .. kn
  <2>1. (n + kw - kn) + N - kw = n + N - kn
    BY <1>1, <1>2, SMT
  <2>2. Latest(w, narrow)[n] = w[n + kw - kn] /\ n + kw - kn \in 1 .. kw
    BY <1>5
  <2>3. w[n + kw - kn] = s[(n + kw - kn) + N - kw]
    BY <2>2, <1>3
  <2> QED BY <2>1, <2>2, <2>3, <1>4
<1>7. /\ Latest(w, narrow) = [n \in 1 .. kn |-> Latest(w, narrow)[n]]
      /\ Latest(s, narrow) = [n \in 1 .. kn |-> Latest(s, narrow)[n]]
  <2>1. kn = Len(Latest(w, narrow)) /\ kn = Len(Latest(s, narrow))
    BY <1>4, <1>5
  <2> QED BY <2>1, <1>4, <1>5, SequenceFacts
<1> QED BY <1>6, <1>7 DEF w

\* The window of prepared sessions, in the order of their dates: the latest ones.
LEMMA WindowFacts ==
    ASSUME NEW S, Prepared(S), NEW max \in Nat \ {0}
    PROVE  LET w == Window(S, max)
           IN  /\ IsSequence(w) /\ DOMAIN w = 1 .. Kept(Cardinality(S), max)
               /\ \A n \in DOMAIN w : w[n] \in S
               /\ \A n, m \in DOMAIN w : n < m => w[n].date < w[m].date
               /\ \A s \in S : (\A n \in DOMAIN w : w[n] # s) =>
                                   \A n \in DOMAIN w : s.date < w[n].date
<1> DEFINE all == Sorted(S)
           N == Cardinality(S)
           k == Kept(N, max)
           w == Window(S, max)
<1>1. /\ IsSequence(all) /\ Len(all) = N /\ DOMAIN all = 1 .. N
      /\ \A n \in 1 .. N : all[n] \in S
      /\ \A s \in S : \E n \in 1 .. N : all[n] = s
      /\ \A n, m \in 1 .. N : n < m => all[n].date < all[m].date
  BY SortedByDate
<1>2. N \in Nat /\ k \in Nat /\ k <= N
  BY RanksAreTaken, SMT DEF Kept
<1>3. /\ IsSequence(w) /\ DOMAIN w = 1 .. k
      /\ \A n \in 1 .. k : n + N - k \in 1 .. N /\ w[n] = all[n + N - k]
  <2> HIDE DEF all
  <2>1. w = Latest(all, max)
    BY DEF Window, all
  <2>2. /\ IsSequence(Latest(all, max)) /\ DOMAIN Latest(all, max) = 1 .. Kept(Len(all), max)
        /\ \A n \in DOMAIN Latest(all, max) :
              /\ n + Len(all) - Kept(Len(all), max) \in DOMAIN all
              /\ Latest(all, max)[n] = all[n + Len(all) - Kept(Len(all), max)]
    BY <1>1, LatestIsSuffix
  <2> HIDE DEF w, N
  <2>3. Len(all) = N /\ Kept(Len(all), max) = k
    BY <1>1 DEF k
  <2> HIDE DEF k
  <2> QED BY <2>1, <2>2, <2>3, <1>1
<1> HIDE DEF all, N, k, w
<1>4. \A n \in 1 .. k : w[n] \in S
  BY <1>1, <1>3
<1>5. ASSUME NEW n \in 1 .. k, NEW m \in 1 .. k, n < m
      PROVE  w[n].date < w[m].date
  <2>1. n + N - k < m + N - k
    BY <1>2, <1>5, SMT
  <2> QED BY <2>1, <1>1, <1>3
<1>6. ASSUME NEW s \in S, \A n \in 1 .. k : w[n] # s, NEW n \in 1 .. k
      PROVE  s.date < w[n].date
  <2>1. PICK j \in 1 .. N : all[j] = s
    BY <1>1
  <2>2. ~(j > N - k)
    <3>1. SUFFICES ASSUME j > N - k PROVE FALSE
      OBVIOUS
    <3>2. j - (N - k) \in 1 .. k /\ (j - (N - k)) + N - k = j
      BY <1>2, <3>1, SMT
    <3>3. w[j - (N - k)] = all[j]
      BY <3>2, <1>3
    <3> QED BY <3>2, <3>3, <2>1, <1>6
  <2>3. j < n + N - k
    BY <1>2, <2>2, SMT
  <2> QED BY <2>1, <2>3, <1>1, <1>3
<1> QED BY <1>3, <1>4, <1>5, <1>6 DEF w, k, N

(***************************************************************************)
(* The order of the rows.                                                  *)
(***************************************************************************)
\* However the rows of a file are ordered, the same trades are included.
LEMMA OrderIsIrrelevant ==
    ASSUME NEW rows, IsSequence(rows), NEW contract
    PROVE  SameTradesInAnyOrder(rows, contract)
<1> DEFINE P == Positions(rows)
<1>1. IsFiniteSet(P)
  BY SequenceFacts, FS_Interval, SMT DEF Positions
<1> SUFFICES ASSUME NEW perm \in [P -> P], \A a, b \in P : perm[a] = perm[b] => a = b
             PROVE  Included(rows, contract)
                      = {perm[n] : n \in Included([n \in P |-> rows[perm[n]]], contract)}
  BY DEF SameTradesInAnyOrder
<1> DEFINE moved == [n \in P |-> rows[perm[n]]]
<1>2. \A t \in P : \E n \in P : perm[n] = t
  <2>1. perm \in Injection(P, P)
    BY DEF Injection, IsInjective
  <2>2. perm \in Surjection(P, P)
    <3> HIDE DEF P
    <3> QED BY <1>1, <2>1, FS_Injection
  <2> QED BY <2>2 DEF Surjection
<1>3. Positions(moved) = P /\ \A n \in P : moved[n] = rows[perm[n]]
  BY DEF Positions
<1> HIDE DEF moved, P
<1>4. \A n \in P : perm[n] \in P
  OBVIOUS
<1>5. \A n \in P : n \in Selected(moved, contract) <=> perm[n] \in Selected(rows, contract)
  BY <1>3, <1>4 DEF Selected, P
<1>6. \A n \in P : Canceled(moved, contract, n) <=> Canceled(rows, contract, perm[n])
  <2> TAKE n \in P
  <2>1. ASSUME NEW c \in Selected(moved, contract), moved[c].action = "DELETE",
               EventKey(moved[c]) = EventKey(moved[n])
        PROVE  Canceled(rows, contract, perm[n])
    <3>1. c \in P
      BY <1>3 DEF Selected
    <3> QED BY <2>1, <3>1, <1>3, <1>5 DEF Canceled
  <2>2. ASSUME NEW t \in Selected(rows, contract), rows[t].action = "DELETE",
               EventKey(rows[t]) = EventKey(rows[perm[n]])
        PROVE  Canceled(moved, contract, n)
    <3>1. PICK c \in P : perm[c] = t
      BY <1>2 DEF Selected, P
    <3> QED BY <2>2, <3>1, <1>3, <1>5 DEF Canceled
  <2> QED BY <2>1, <2>2 DEF Canceled
<1>7. \A n \in P : n \in Included(moved, contract) <=> perm[n] \in Included(rows, contract)
  BY <1>3, <1>5, <1>6 DEF Included, Status
<1>8. Included(rows, contract) \subseteq P /\ Included(moved, contract) \subseteq P
  BY <1>3 DEF Included, Selected, P
<1>9. Included(rows, contract) = {perm[n] : n \in Included(moved, contract)}
  BY <1>2, <1>7, <1>8
<1> QED BY <1>9 DEF moved

(***************************************************************************)
(* What the invariant means.                                               *)
(***************************************************************************)
\* The fields of a manifest.
LEMMA ManifestFacts ==
    ASSUME NEW r \in Requests, NEW S, Prepared(S)
    PROVE  LET w == Window(S, r.max)
               id == Manifest(r, S).id
           IN  /\ Manifest(r, S).sessions = w
               /\ id.sessions = [n \in DOMAIN w |-> w[n].key]
               /\ r.max \in Nat \ {0}
               /\ \A n \in DOMAIN w : w[n] \in Sessions
<1>1. r.max \in Nat \ {0}
  BY RequestsAssumption DEF RequestsAssumption
<1>2. \A n \in DOMAIN Window(S, r.max) : Window(S, r.max)[n] \in Sessions
  BY <1>1, WindowFacts DEF Prepared
<1> QED BY <1>1, <1>2 DEF Manifest, DatasetId

LEMMA WindowsFollow ==
    ASSUME DatasetInv
    PROVE  WindowsAreTheLatest
<1> SUFFICES ASSUME NEW d \in datasets
             PROVE  LET kept  == {d.manifest.sessions[n].date : n \in DOMAIN d.manifest.sessions}
                        dates == {s.date : s \in d.met}
                    IN  /\ Cardinality(kept) = Kept(Cardinality(dates), d.request.max)
                        /\ \A k \in kept, other \in dates \ kept : other < k
                        /\ Cardinality(dates) = Cardinality(d.met)
                        /\ \A n \in DOMAIN d.manifest.sessions : n > 1 =>
                              d.manifest.sessions[n - 1].date < d.manifest.sessions[n].date
  BY DEF WindowsAreTheLatest, Kept
<1> DEFINE S == d.met
           max == d.request.max
           w == d.manifest.sessions
           N == Cardinality(S)
           k == Kept(N, max)
           kept == {w[n].date : n \in DOMAIN w}
           dates == {s.date : s \in S}
<1>1. Prepared(S) /\ max \in Nat \ {0} /\ w = Window(S, max)
  BY ManifestFacts DEF DatasetInv
<1>2. /\ IsFiniteSet(S) /\ \A s \in S : s.date \in Int
      /\ \A s, t \in S : s.date = t.date => s = t
  BY <1>1, SessionFacts DEF Prepared, OfDistinctDates
<1>3. /\ DOMAIN w = 1 .. k
      /\ \A n \in DOMAIN w : w[n] \in S
      /\ \A n, m \in DOMAIN w : n < m => w[n].date < w[m].date
      /\ \A s \in S : (\A n \in DOMAIN w : w[n] # s) => \A n \in DOMAIN w : s.date < w[n].date
  <2> HIDE DEF S, max, w
  <2> QED BY <1>1, WindowFacts DEF k, N
<1> HIDE DEF S, max, w
<1>4. N \in Nat /\ k \in Nat
  BY <1>1, RanksAreTaken, SMT DEF Kept
<1>5. Cardinality(dates) = N
  <2> DEFINE f == [s \in S |-> s.date]
  <2>1. f \in Injection(S, dates) /\ f \in Surjection(S, dates)
    BY <1>2 DEF Injection, IsInjective, Surjection
  <2>2. ExistsBijection(S, dates)
    BY <2>1 DEF ExistsBijection, Bijection
  <2> QED BY <2>2, <1>2, FS_Bijection
<1>6. Cardinality(kept) = k
  <2> DEFINE g == [n \in 1 .. k |-> w[n].date]
  <2>1. ASSUME NEW n \in 1 .. k, NEW m \in 1 .. k, n # m
        PROVE  w[n].date # w[m].date
    <3>1. n < m \/ m < n
      BY <1>4, <2>1, SMT
    <3>2. w[n].date < w[m].date \/ w[m].date < w[n].date
      BY <3>1, <1>3
    <3>3. w[n].date \in Int /\ w[m].date \in Int
      BY <1>2, <1>3
    <3> QED BY <3>2, <3>3, SMT
  <2>2. g \in Injection(1 .. k, kept) /\ g \in Surjection(1 .. k, kept)
    BY <2>1, <1>3 DEF Injection, IsInjective, Surjection
  <2>3. ExistsBijection(1 .. k, kept)
    BY <2>2 DEF ExistsBijection, Bijection
  <2> QED BY <2>3, <1>4, FS_CountingElements
<1>7. ASSUME NEW a \in kept, NEW other \in dates \ kept
      PROVE  other < a
  <2>1. PICK s \in S : other = s.date
    OBVIOUS
  <2>2. PICK n \in DOMAIN w : a = w[n].date
    OBVIOUS
  <2>3. \A m \in DOMAIN w : w[m] # s
    BY <2>1
  <2> QED BY <2>1, <2>2, <2>3, <1>3
<1>8. \A n \in DOMAIN w : n > 1 => w[n - 1].date < w[n].date
  <2> TAKE n \in DOMAIN w
  <2>1. n > 1 => n - 1 \in DOMAIN w /\ n - 1 < n
    BY <1>3, <1>4, SMT
  <2> QED BY <2>1, <1>3
<1> QED BY <1>5, <1>6, <1>7, <1>8 DEF S, max, w, k, N

\* The manifest of a request without averages, and what is selected from it.
Catalog(sessions, max, timeframes, available) ==
    [id |-> [max |-> max, sessions |-> [n \in DOMAIN sessions |-> sessions[n].key],
             timeframes |-> timeframes, features |-> None],
     sessions |-> sessions, max |-> max, timeframes |-> timeframes, available |-> available]

LEMMA SelectionOfCatalog ==
    ASSUME NEW w, NEW max, NEW narrow, NEW timeframes, NEW available
    PROVE  Select(Catalog(w, max, timeframes, available), narrow)
             = Catalog(Latest(w, narrow), narrow, timeframes, available)
<1> DEFINE keysOf(s) == [n \in DOMAIN s |-> s[n].key]
<1>1. PICK u, keys, before : u = Latest(w, narrow) /\ keys = keysOf(u) /\ before = keysOf(w)
  OBVIOUS
<1>2. PICK id : id = [max |-> max, sessions |-> before, timeframes |-> timeframes,
                      features |-> None]
  OBVIOUS
<1>3. PICK m : m = [id |-> id, sessions |-> w, max |-> max, timeframes |-> timeframes,
                    available |-> available]
  OBVIOUS
<1>4. PICK newId : newId = [id EXCEPT !.max = narrow, !.sessions = keys]
  OBVIOUS
<1>5. PICK new : new = [m EXCEPT !.sessions = u, !.max = narrow, !.id = newId]
  OBVIOUS
<1>6. m = Catalog(w, max, timeframes, available)
  BY <1>1, <1>2, <1>3 DEF Catalog
<1>7. m.sessions = w /\ m.id = id
  BY <1>3
<1>8. Select(m, narrow) = new
  BY <1>1, <1>4, <1>5, <1>7, Zenon DEF Select
<1> HIDE DEF keysOf
<1>9. newId = [max |-> narrow, sessions |-> keys, timeframes |-> timeframes, features |-> None]
  BY <1>2, <1>4
<1>10. new = [id |-> newId, sessions |-> u, max |-> narrow, timeframes |-> timeframes,
              available |-> available]
  BY <1>3, <1>5
<1>11. new = Catalog(u, narrow, timeframes, available)
  BY <1>1, <1>9, <1>10 DEF Catalog, keysOf
<1> QED BY <1>1, <1>6, <1>8, <1>11

LEMMA SelectionFollows ==
    ASSUME DatasetInv
    PROVE  SelectionIsADataset
<1> SUFFICES ASSUME NEW a \in datasets, NEW b \in datasets,
                    a.request.features # "sma", b.request.features # "sma",
                    a.met = b.met, b.request.max <= a.request.max,
                    a.request.timeframes = b.request.timeframes
             PROVE  Select(a.manifest, b.request.max) = b.manifest
  BY DEF SelectionIsADataset
<1> DEFINE S == a.met
           ra == a.request
           rb == b.request
           N == Cardinality(S)
<1>1. /\ ra \in Requests /\ rb \in Requests /\ Prepared(S)
      /\ a.manifest = Manifest(ra, S) /\ b.manifest = Manifest(rb, S)
  BY DEF DatasetInv
<1>2. ra.max \in Nat \ {0} /\ rb.max \in Nat \ {0} /\ rb.max <= ra.max
  BY <1>1, RequestsAssumption DEF RequestsAssumption
<1>3. IsSequence(Sorted(S))
  BY <1>1, SortedByDate
<1>4. /\ a.manifest = Catalog(Window(S, ra.max), ra.max, ra.timeframes, N)
      /\ b.manifest = Catalog(Window(S, rb.max), rb.max, rb.timeframes, N)
  BY <1>1 DEF Manifest, DatasetId, Catalog
<1>5. ra.timeframes = rb.timeframes
  OBVIOUS
<1> HIDE DEF S, ra, rb, N
<1>6. Latest(Window(S, ra.max), rb.max) = Window(S, rb.max)
  BY <1>2, <1>3, LatestOfLatest DEF Window
<1>7. Select(a.manifest, rb.max) = b.manifest
  BY <1>4, <1>5, <1>6, SelectionOfCatalog
<1> QED BY <1>7 DEF rb

\* Below the imports, a key says what lies under it.
LEMMA SaysOneThing ==
    ASSUME NEW key, NEW a, NEW b, Says(key, a), Says(key, b), key.layer # "imports"
    PROVE  a = b
<1>1. CASE key.layer = "sessions"
  <2>1. a \in Sessions /\ b \in Sessions /\ a.key = b.key
    BY <1>1 DEF Says
  <2> QED BY <2>1, SessionFacts
<1>2. CASE key.layer = "candles"
  <2>1. /\ a.session \in Sessions /\ b.session \in Sessions
        /\ a = Candles(a.session, a.timeframe) /\ b = Candles(b.session, b.timeframe)
        /\ CandleKey(a.session, a.timeframe) = CandleKey(b.session, b.timeframe)
    BY <1>2 DEF Says
  <2>2. a.session.key = b.session.key /\ a.timeframe = b.timeframe
    <3>1. PICK k : k = CandleKey(a.session, a.timeframe) /\ k = CandleKey(b.session, b.timeframe)
      BY <2>1
    <3>2. k.session = a.session.key /\ k.timeframe = a.timeframe
      BY <3>1 DEF CandleKey
    <3>3. k.session = b.session.key /\ k.timeframe = b.timeframe
      BY <3>1 DEF CandleKey
    <3> QED BY <3>2, <3>3
  <2>3. a.session = b.session
    BY <2>1, <2>2, SessionFacts
  <2> QED BY <2>1, <2>2, <2>3
<1>3. CASE key.layer = "features"
  BY <1>3 DEF Says
<1> QED BY <1>1, <1>2, <1>3 DEF Says

\* The next job of a call is sound, and a session is made of an import.
LEMMA NextJob ==
    ASSUME NEW p \in Processes, SoundCall(call[p]), call[p].todo # << >>
    PROVE  /\ SoundJob(Next1(p))
           /\ Next1(p).layer = "sessions" => call[p].import \in Imports
           /\ Next1(p) = call[p].todo[1] /\ 1 \in DOMAIN call[p].todo
           /\ LayerOf(Next1(p)) = "sessions" <=> Next1(p).layer = "sessions"
           /\ LayerOf(Next1(p)) = "imports" <=> Next1(p).layer = "imports"
<1>1. /\ 1 \in DOMAIN call[p].todo /\ Head(call[p].todo) = call[p].todo[1]
      /\ SoundJobs(call[p].todo, call[p].import)
  BY HeadAndTail DEF SoundCall, SoundJobs
<1>2. SoundJob(Next1(p)) /\ (Next1(p).layer = "sessions" => call[p].import \in Imports)
  BY <1>1, SMT DEF SoundJobs, ImportsFirst, Next1
<1>3. /\ LayerOf(Next1(p)) = "sessions" <=> Next1(p).layer = "sessions"
      /\ LayerOf(Next1(p)) = "imports" <=> Next1(p).layer = "imports"
  BY DEF LayerOf
<1> QED BY <1>1, <1>2, <1>3 DEF Next1

\* What a job wants has a key of its layer; below the imports it is what the key says.
LEMMA WantedIsSound ==
    ASSUME NEW p \in Processes, SoundCall(call[p]), call[p].todo # << >>, ~NoSession(p)
    PROVE  /\ Wanted(p) = [key |-> Wanted(p).key, made |-> Wanted(p).made]
           /\ Wanted(p).key.layer = LayerOf(Next1(p))
           /\ Next1(p).layer = "imports" => Wanted(p).made = None
           /\ Next1(p).layer # "imports" => Says(Wanted(p).key, Wanted(p).made)
<1> DEFINE job == Next1(p)
           arg == job.arg
           candles == Candles(arg.session, arg.timeframe)
           inputs == Inputs(candles, call[p].request.specs, arg.spec)
<1>1. SoundJob(job) /\ (job.layer = "sessions" => call[p].import \in Imports)
  BY NextJob
<1>2. CASE job.layer = "imports"
  <2>1. Wanted(p) = [key |-> ImportKey(files[arg.path], arg.contract), made |-> None]
    BY <1>2 DEF Wanted
  <2> QED BY <2>1, <1>2 DEF ImportKey, LayerOf
<1>3. CASE job.layer = "sessions"
  <2>1. Wanted(p) = [key |-> SessionKey(call[p].import), made |-> Session(call[p].import)]
    BY <1>3 DEF Wanted
  <2>2. Session(call[p].import) \in Sessions
    BY <1>1, <1>3 DEF Sessions, NoSession
  <2>3. Session(call[p].import).key = SessionKey(call[p].import)
    BY DEF Session
  <2>4. SessionKey(call[p].import).layer = "sessions"
    BY DEF SessionKey
  <2> QED BY <2>1, <2>2, <2>3, <2>4, <1>3 DEF Says, LayerOf
<1>4. CASE job.layer = "candles"
  <2>1. Wanted(p) = [key |-> CandleKey(arg.session, arg.timeframe), made |-> candles]
    BY <1>4 DEF Wanted
  <2>2. arg.session \in Sessions
    BY <1>1, <1>4 DEF SoundJob
  <2>3. candles.session = arg.session /\ candles.timeframe = arg.timeframe
    BY DEF Candles
  <2>4. CandleKey(arg.session, arg.timeframe).layer = "candles"
    BY DEF CandleKey
  <2> QED BY <2>1, <2>2, <2>3, <2>4, <1>4 DEF Says, LayerOf
<1>5. CASE job.layer = "averages"
  <2>1. Wanted(p) = [key |-> FeatureKey(candles, Average, << >>),
                     made |-> Feature(candles, Average, << >>)]
    BY <1>5 DEF Wanted, AverageKey, AverageOf
  <2> HIDE DEF candles
  <2>2. PICK k : k = FeatureKey(candles, Average, << >>)
    OBVIOUS
  <2>3. k.layer = "features" /\ k.candles = candles /\ k.spec = Average /\ k.inputs = << >>
    BY <2>2 DEF FeatureKey
  <2> QED BY <2>1, <2>2, <2>3, <1>5 DEF Says, LayerOf
<1>6. CASE job.layer = "features"
  <2>1. Wanted(p) = [key |-> FeatureKey(candles, arg.spec, inputs),
                     made |-> Feature(candles, arg.spec, inputs)]
    BY <1>6 DEF Wanted
  <2> HIDE DEF candles, inputs
  <2>2. PICK k : k = FeatureKey(candles, arg.spec, inputs)
    OBVIOUS
  <2>3. k.layer = "features" /\ k.candles = candles /\ k.spec = arg.spec /\ k.inputs = inputs
    BY <2>2 DEF FeatureKey
  <2> QED BY <2>1, <2>2, <2>3, <1>6 DEF Says, LayerOf
<1> QED BY <1>1, <1>2, <1>3, <1>4, <1>5, <1>6 DEF SoundJob

LEMMA IdentitiesFollow ==
    ASSUME CacheInv, CallInv, DatasetInv
    PROVE  IdentitiesAreContents
<1>1. ASSUME NEW p \in Processes, Working(p), call[p].todo # << >>,
             Next1(p).layer # "imports", ~NoSession(p),
             NEW e \in Found(Wanted(p).key)
      PROVE  e.made = Wanted(p).made
  <2>1. SoundCall(call[p])
    BY <1>1 DEF CallInv
  <2>2. Says(Wanted(p).key, Wanted(p).made) /\ Wanted(p).key.layer # "imports"
    BY <1>1, <2>1, WantedIsSound, NextJob
  <2>3. Says(Wanted(p).key, e.made)
    BY <1>1 DEF CacheInv, SoundEntry, Found
  <2> QED BY <2>2, <2>3, SaysOneThing
<1>2. ASSUME NEW d \in datasets
      PROVE  LET w == d.manifest.sessions
             IN  /\ IsSequence(w)
                 /\ d.manifest.id.sessions = [n \in DOMAIN w |-> w[n].key]
                 /\ \A n \in DOMAIN w : w[n] \in Sessions
  <2> DEFINE r == d.request
             S == d.met
             w == Window(S, r.max)
  <2>1. r \in Requests /\ Prepared(S) /\ d.manifest = Manifest(r, S)
    BY DEF DatasetInv
  <2> HIDE DEF r, S
  <2>2. /\ d.manifest.sessions = w /\ d.manifest.id.sessions = [n \in DOMAIN w |-> w[n].key]
        /\ r.max \in Nat \ {0} /\ \A n \in DOMAIN w : w[n] \in Sessions
    BY <2>1, ManifestFacts
  <2>3. IsSequence(w)
    BY <2>1, <2>2, WindowFacts
  <2> QED BY <2>2, <2>3
<1>3. ASSUME NEW a \in datasets, NEW b \in datasets, a.manifest.id = b.manifest.id
      PROVE  a.manifest.sessions = b.manifest.sessions
  <2> DEFINE u == a.manifest.sessions
             w == b.manifest.sessions
  <2>1. /\ IsSequence(u) /\ IsSequence(w)
        /\ a.manifest.id.sessions = [n \in DOMAIN u |-> u[n].key]
        /\ b.manifest.id.sessions = [n \in DOMAIN w |-> w[n].key]
        /\ \A n \in DOMAIN u : u[n] \in Sessions
        /\ \A n \in DOMAIN w : w[n] \in Sessions
    BY <1>2
  <2> HIDE DEF u, w
  <2>2. [n \in DOMAIN u |-> u[n].key] = [n \in DOMAIN w |-> w[n].key]
    BY <1>3, <2>1
  <2>3. DOMAIN u = DOMAIN w /\ \A n \in DOMAIN u : u[n].key = w[n].key
    <3>1. PICK f : f = [n \in DOMAIN u |-> u[n].key] /\ f = [n \in DOMAIN w |-> w[n].key]
      BY <2>2
    <3>2. DOMAIN f = DOMAIN u /\ DOMAIN f = DOMAIN w
      BY <3>1
    <3>3. \A n \in DOMAIN f : f[n] = u[n].key /\ f[n] = w[n].key
      BY <3>1, <3>2
    <3> QED BY <3>2, <3>3
  <2>4. \A n \in DOMAIN u : u[n] = w[n]
    BY <2>1, <2>3, SessionFacts
  <2>5. u = [n \in DOMAIN u |-> u[n]] /\ w = [n \in DOMAIN w |-> w[n]]
    BY <2>1, SequenceFacts
  <2>6. u = w
    BY <2>3, <2>4, <2>5
  <2> QED BY <2>6 DEF u, w
<1> QED BY <1>1, <1>3 DEF IdentitiesAreContents

(***************************************************************************)
(* Every step keeps the invariant.                                         *)
(***************************************************************************)
LEMMA InitIsSound == Init => IInv
<1> SUFFICES ASSUME Init PROVE IInv
  OBVIOUS
<1>1. files \in [Paths -> DOMAIN Contents]
  BY ContentsAssumption DEF Init, ContentsAssumption
<1>2. CacheInv /\ CallInv /\ DatasetInv
  BY DEF Init, CacheInv, CallInv, DatasetInv, Working
<1> QED BY <1>1, <1>2 DEF IInv

\* A call that is as sound as before, or is over.
LEMMA CallGoesOn ==
    ASSUME CallInv, NEW p \in Processes, NEW c, call' = [call EXCEPT ![p] = c],
           c # None => SoundCall(c)
    PROVE  CallInv'
<1>1. DOMAIN call' = Processes /\ call'[p] = c
      /\ \A q \in Processes \ {p} : call'[q] = call[q]
  BY DEF CallInv
<1>2. \A q \in Processes : Working(q)' => SoundCall(call'[q])
  BY <1>1 DEF CallInv, Working, Idle
<1> QED BY <1>1, <1>2 DEF CallInv

LEMMA EndIsSound ==
    ASSUME CallInv, NEW p \in Processes, End(p)
    PROVE  CallInv'
BY CallGoesOn DEF End, Idle

\* A call of its fields.
Fields(request, phase, todo, import, prepared, met, staged) ==
    [request |-> request, phase |-> phase, todo |-> todo, import |-> import,
     prepared |-> prepared, met |-> met, staged |-> staged]

\* A call that starts its next job with nothing staged.
LEMMA FreshCall ==
    ASSUME NEW request \in Requests, NEW phase, NEW todo, NEW import, NEW prepared,
           SoundJobs(todo, import), Prepared(prepared)
    PROVE  SoundCall(Fields(request, phase, todo, import, prepared, prepared, None))
<1>1. PICK c : c = Fields(request, phase, todo, import, prepared, prepared, None)
  OBVIOUS
<1>2. /\ c.request = request /\ c.phase = phase /\ c.todo = todo /\ c.import = import
      /\ c.prepared = prepared /\ c.met = prepared /\ c.staged = None
  BY <1>1 DEF Fields
<1> QED BY <1>1, <1>2 DEF SoundCall, Fields

\* The rest of the jobs is sound when the next one is done.
LEMMA RestOfJobs ==
    ASSUME NEW todo, NEW import, NEW made, SoundJobs(todo, import), todo # << >>,
           \/ made \in Imports
           \/ made = import /\ todo[1].layer # "imports"
    PROVE  SoundJobs(Tail(todo), made)
<1>1. /\ IsSequence(Tail(todo)) /\ 1 \in DOMAIN todo
      /\ \A n \in DOMAIN Tail(todo) : n + 1 \in DOMAIN todo /\ Tail(todo)[n] = todo[n + 1]
  BY HeadAndTail DEF SoundJobs
<1>2. \A n \in DOMAIN Tail(todo) : SoundJob(Tail(todo)[n])
  BY <1>1 DEF SoundJobs
<1>3. ASSUME NEW n \in DOMAIN Tail(todo), Tail(todo)[n].layer = "sessions", made \notin Imports
      PROVE  n > 1 /\ Tail(todo)[n - 1].layer = "imports"
  <2>1. n \in Nat \ {0} /\ DOMAIN Tail(todo) = 1 .. Len(Tail(todo)) /\ Len(Tail(todo)) \in Nat
    BY <1>1, SequenceFacts, SMT
  <2>2. /\ n + 1 \in DOMAIN todo /\ todo[n + 1].layer = "sessions" /\ import \notin Imports
        /\ todo[1].layer # "imports"
    BY <1>1, <1>3
  <2>3. todo[n].layer = "imports"
    <3>1. todo[(n + 1) - 1].layer = "imports"
      BY <2>2 DEF SoundJobs, ImportsFirst
    <3>2. (n + 1) - 1 = n
      BY <2>1, SMT
    <3> QED BY <3>1, <3>2
  <2>4. n # 1
    BY <2>2, <2>3
  <2>5. n > 1 /\ n - 1 \in DOMAIN Tail(todo) /\ (n - 1) + 1 = n
    BY <2>1, <2>4, SMT
  <2>6. Tail(todo)[n - 1] = todo[(n - 1) + 1]
    BY <1>1, <2>5
  <2> QED BY <2>3, <2>5, <2>6
<1> QED BY <1>1, <1>2, <1>3 DEF SoundJobs, ImportsFirst

\* One more session, of a date that no other has.
LEMMA OneMoreSession ==
    ASSUME NEW S, Prepared(S), NEW session \in Sessions,
           {s \in S : s.date = session.date} \ {session} = {}
    PROVE  Prepared(S \cup {session})
<1>1. IsFiniteSet(S \cup {session}) /\ S \cup {session} \subseteq Sessions
  BY FS_AddElement DEF Prepared
<1>2. \A s \in S : s.date = session.date => s = session
  OBVIOUS
<1>3. OfDistinctDates(S \cup {session})
  BY <1>2 DEF OfDistinctDates, Prepared
<1> QED BY <1>1, <1>3 DEF Prepared

\* A job is done with what its key says.
LEMMA TakeIsSound ==
    ASSUME CallInv, NEW p \in Processes, Working(p), call[p].todo # << >>,
           NEW key, NEW made, key.layer = LayerOf(Next1(p)), Says(key, made), Take(p, made)
    PROVE  CallInv'
<1> DEFINE c == call[p]
<1>1. SoundCall(c)
  BY DEF CallInv
<1>2. /\ c = Fields(c.request, c.phase, c.todo, c.import, c.prepared, c.prepared, c.staged)
      /\ c.request \in Requests /\ SoundJobs(c.todo, c.import) /\ Prepared(c.prepared)
  BY <1>1 DEF SoundCall, Fields
<1>3. SoundJob(Next1(p)) /\ Next1(p) = c.todo[1]
      /\ (Next1(p).layer = "sessions" => c.import \in Imports)
  BY <1>1, NextJob
<1> DEFINE rest == Tail(c.todo)
<1>4. PICK done : done = Done(p)
  OBVIOUS
<1>5. done = Fields(c.request, c.phase, rest, c.import, c.prepared, c.prepared, None)
  <2>1. PICK request, phase, todo, import, prepared, staged, tail :
            /\ request = c.request /\ phase = c.phase /\ todo = c.todo /\ import = c.import
            /\ prepared = c.prepared /\ staged = c.staged /\ tail = rest
    OBVIOUS
  <2>2. PICK old : old = c
    OBVIOUS
  <2>3. done = [old EXCEPT !.todo = tail, !.staged = None]
    BY <1>4, <2>1, <2>2 DEF Done
  <2>4. old = [request |-> request, phase |-> phase, todo |-> todo, import |-> import,
               prepared |-> prepared, met |-> prepared, staged |-> staged]
    BY <1>2, <2>1, <2>2 DEF Fields
  <2> HIDE DEF c, rest
  <2>5. done = [request |-> request, phase |-> phase, todo |-> tail, import |-> import,
                prepared |-> prepared, met |-> prepared, staged |-> None]
    BY <2>3, <2>4
  <2> QED BY <2>1, <2>5 DEF Fields
<1> HIDE DEF c, rest
<1>6. CASE Next1(p).layer = "imports"
  <2>1. made \in Imports
    BY <1>6 DEF Says, LayerOf
  <2>2. PICK new : new = [done EXCEPT !.import = made]
    OBVIOUS
  <2>3. call' = [call EXCEPT ![p] = new]
    BY <1>6, <1>4, <2>2 DEF Take
  <2>4. new = Fields(c.request, c.phase, rest, made, c.prepared, c.prepared, None)
    BY <1>5, <2>2 DEF Fields
  <2>5. SoundJobs(rest, made)
    BY <1>2, <2>1, RestOfJobs DEF rest, c
  <2>6. SoundCall(new)
    BY <1>2, <2>4, <2>5, FreshCall
  <2> QED BY <2>3, <2>6, CallGoesOn
<1>7. CASE Next1(p).layer = "sessions"
  <2>1. made \in Sessions
    BY <1>7 DEF Says, LayerOf
  <2>2. TakeSession(p, made)
    BY <1>7 DEF Take
  <2>3. CASE End(p)
    BY <2>3, EndIsSound
  <2>4. CASE ~End(p)
    <3>1. {s \in c.prepared : s.date = made.date} \ {made} = {}
      BY <2>2, <2>4 DEF TakeSession, c
    <3>2. PICK S : S = c.prepared \cup {made}
      OBVIOUS
    <3>3. PICK new : new = [done EXCEPT !.prepared = @ \cup {made}, !.met = @ \cup {made}]
      OBVIOUS
    <3>4. call' = [call EXCEPT ![p] = new]
      BY <2>2, <2>4, <1>4, <3>3 DEF TakeSession
    <3>5. new = Fields(c.request, c.phase, rest, c.import, S, S, None)
      <4>1. done.prepared = c.prepared /\ done.met = c.prepared
        BY <1>5 DEF Fields
      <4>2. new = [done EXCEPT !.prepared = S, !.met = S]
        BY <3>2, <3>3, <4>1
      <4> QED BY <1>5, <4>2 DEF Fields
    <3>6. Prepared(S)
      BY <1>2, <2>1, <3>1, <3>2, OneMoreSession
    <3>7. SoundJobs(rest, c.import)
      BY <1>2, <1>3, <1>7, RestOfJobs DEF rest, c
    <3>8. SoundCall(new)
      BY <1>2, <3>5, <3>6, <3>7, FreshCall
    <3> QED BY <3>4, <3>8, CallGoesOn
  <2> QED BY <2>3, <2>4
<1>8. CASE Next1(p).layer \notin {"imports", "sessions"}
  <2>1. call' = [call EXCEPT ![p] = done]
    BY <1>8, <1>4 DEF Take
  <2>2. SoundJobs(rest, c.import)
    BY <1>2, <1>3, <1>8, RestOfJobs DEF rest, c
  <2>3. SoundCall(done)
    BY <1>2, <1>5, <2>2, FreshCall
  <2> QED BY <2>1, <2>3, CallGoesOn
<1> QED BY <1>6, <1>7, <1>8

LEMMA BeginIsSound ==
    ASSUME IInv, NEW p \in Processes, NEW r \in Requests, Begin(p, r)
    PROVE  IInv'
<1>1. UNCHANGED <<files, cache, datasets>>
      /\ call' = [call EXCEPT ![p] = Fields(r, "sources", SourceJobs(r), None, {}, {}, None)]
  BY DEF Begin, Fields
<1>2. Prepared({})
  BY FS_EmptySet DEF Prepared, OfDistinctDates
<1>3. SoundCall(Fields(r, "sources", SourceJobs(r), None, {}, {}, None))
  BY <1>2, SourceJobsAreSound, FreshCall
<1>4. CallInv'
  BY <1>1, <1>3, CallGoesOn DEF IInv
<1> QED BY <1>1, <1>4 DEF IInv, CacheInv, DatasetInv

\* What is staged is what the job wants, or what was read for it.
LEMMA StagedIsSound ==
    ASSUME CallInv, NEW p \in Processes, Working(p), call[p].todo # << >>,
           NEW staged, SoundStaged(staged, call[p].todo),
           call' = [call EXCEPT ![p] = [call[p] EXCEPT !.staged = staged]]
    PROVE  CallInv'
<1> DEFINE c == call[p]
<1>1. SoundCall(c)
  BY DEF CallInv
<1>2. PICK new : new = [c EXCEPT !.staged = staged]
  OBVIOUS
<1>3. /\ new.request = c.request /\ new.todo = c.todo /\ new.import = c.import
      /\ new.prepared = c.prepared /\ new.met = c.met /\ new.staged = staged
      /\ new = [request |-> new.request, phase |-> new.phase, todo |-> new.todo,
                import |-> new.import, prepared |-> new.prepared, met |-> new.met,
                staged |-> new.staged]
  <2>1. c = [request |-> c.request, phase |-> c.phase, todo |-> c.todo, import |-> c.import,
             prepared |-> c.prepared, met |-> c.met, staged |-> c.staged]
    BY <1>1 DEF SoundCall
  <2> HIDE DEF c
  <2> QED BY <1>2, <2>1
<1>4. SoundCall(new)
  BY <1>1, <1>3 DEF SoundCall
<1> QED BY <1>2, <1>4, CallGoesOn

LEMMA LookIsSound ==
    ASSUME IInv, NEW p \in Processes, Look(p)
    PROVE  IInv'
<1>1. SoundCall(call[p]) /\ Working(p) /\ call[p].todo # << >> /\ CallInv
      /\ UNCHANGED <<files, cache, datasets>>
  BY DEF IInv, CallInv, Look, Reuse, Stage
<1>2. CallInv'
  <2>1. CASE End(p)
    BY <1>1, <2>1, EndIsSound
  <2>2. CASE ~NoSession(p) /\ Reuse(p, Wanted(p).key)
    <3>1. PICK e \in Found(Wanted(p).key) : IF e.damaged THEN End(p) ELSE Take(p, e.made)
      BY <2>2 DEF Reuse
    <3>2. Says(Wanted(p).key, e.made)
      BY DEF IInv, CacheInv, SoundEntry, Found
    <3>3. Wanted(p).key.layer = LayerOf(Next1(p))
      BY <1>1, <2>2, WantedIsSound
    <3> QED BY <1>1, <3>1, <3>2, <3>3, EndIsSound, TakeIsSound
  <2>3. CASE ~NoSession(p) /\ Stage(p, Wanted(p))
    <3>1. SoundStaged(Wanted(p), call[p].todo)
      BY <1>1, <2>3, WantedIsSound, NextJob DEF SoundStaged, Next1
    <3>2. call' = [call EXCEPT ![p] = [call[p] EXCEPT !.staged = Wanted(p)]]
      BY <2>3 DEF Stage
    <3> QED BY <1>1, <3>1, <3>2, StagedIsSound
  <2> QED BY <2>1, <2>2, <2>3 DEF Look
<1> QED BY <1>1, <1>2 DEF IInv, CacheInv, DatasetInv

LEMMA ReadSourceIsSound ==
    ASSUME IInv, NEW p \in Processes, ReadSource(p)
    PROVE  IInv'
<1> DEFINE arg == Next1(p).arg
           content == files[arg.path]
           old == call[p].staged
<1>1. /\ SoundCall(call[p]) /\ Working(p) /\ CallInv /\ UNCHANGED <<files, cache, datasets>>
      /\ Next1(p).layer = "imports" /\ old # None
  BY DEF IInv, CallInv, ReadSource
<1>2. SoundStaged(old, call[p].todo) /\ call[p].todo # << >>
  BY <1>1 DEF SoundCall, SoundStaged
<1>3. arg.path \in Paths /\ arg.contract \in Contracts
  BY <1>1, <1>2, NextJob DEF SoundJob
<1>4. Import(content, arg.contract) \in Imports
  BY <1>3 DEF IInv, Imports
<1>5. CASE End(p)
  BY <1>1, <1>5, EndIsSound DEF IInv, CacheInv, DatasetInv
<1>6. CASE ~End(p)
  <2>1. PICK made : made = Import(content, arg.contract)
    OBVIOUS
  <2>2. PICK staged : staged = [old EXCEPT !.made = made]
    OBVIOUS
  <2>3. call' = [call EXCEPT ![p] = [call[p] EXCEPT !.staged = staged]]
    BY <1>6, <2>1, <2>2 DEF ReadSource
  <2>4. /\ old = [key |-> old.key, made |-> old.made]
        /\ old.key.layer = LayerOf(Head(call[p].todo)) /\ LayerOf(Head(call[p].todo)) = "imports"
    BY <1>1, <1>2 DEF SoundStaged, Next1, LayerOf
  <2>5. staged.key = old.key /\ staged.made = made
        /\ staged = [key |-> staged.key, made |-> staged.made]
    <3> HIDE DEF old
    <3> QED BY <2>2, <2>4
  <2>6. SoundStaged(staged, call[p].todo)
    BY <1>2, <1>4, <2>1, <2>4, <2>5 DEF SoundStaged, Says
  <2>7. CallInv'
    BY <1>1, <1>2, <2>3, <2>6, StagedIsSound
  <2> QED BY <1>1, <2>7 DEF IInv, CacheInv, DatasetInv
<1> QED BY <1>5, <1>6

LEMMA RenameIsSound ==
    ASSUME IInv, NEW p \in Processes, Rename(p)
    PROVE  IInv'
<1> DEFINE staged == call[p].staged
           entry == [key |-> staged.key, made |-> staged.made, damaged |-> FALSE]
<1>1. /\ SoundCall(call[p]) /\ Working(p) /\ CallInv /\ UNCHANGED <<files, datasets>>
      /\ staged # None /\ staged.made # None
  BY DEF IInv, CallInv, Rename
<1>2. /\ SoundStaged(staged, call[p].todo) /\ call[p].todo # << >>
      /\ staged.key.layer = LayerOf(Next1(p)) /\ Says(staged.key, staged.made)
  BY <1>1 DEF SoundCall, SoundStaged, Next1
<1>3. CASE End(p) /\ UNCHANGED cache
  BY <1>1, <1>3, EndIsSound DEF IInv, CacheInv, DatasetInv
<1>4. CASE cache' = cache \cup {entry} /\ Take(p, staged.made)
  <2>1. CallInv'
    BY <1>1, <1>2, <1>4, TakeIsSound
  <2>2. SoundEntry(entry)
    <3> HIDE DEF staged
    <3>1. entry.key = staged.key /\ entry.made = staged.made /\ entry.damaged = FALSE
      OBVIOUS
    <3> QED BY <1>2, <3>1 DEF SoundEntry
  <2>3. CacheInv'
    <3> HIDE DEF entry
    <3> QED BY <1>4, <2>2 DEF IInv, CacheInv
  <2> QED BY <1>1, <2>1, <2>3 DEF IInv, DatasetInv
<1> QED BY <1>3, <1>4 DEF Rename

LEMMA SelectWindowIsSound ==
    ASSUME IInv, NEW p \in Processes, SelectWindow(p)
    PROVE  IInv'
<1> DEFINE c == call[p]
           r == c.request
           w == Window(c.prepared, r.max)
           jobs == DerivedJobs(r, w)
<1>1. SoundCall(c) /\ CallInv /\ UNCHANGED <<files, cache, datasets>>
      /\ call' = [call EXCEPT ![p] = [c EXCEPT !.phase = "derived", !.todo = jobs]]
  BY DEF IInv, CallInv, SelectWindow
<1>2. /\ r \in Requests /\ Prepared(c.prepared) /\ c.met = c.prepared
      /\ c = [request |-> c.request, phase |-> c.phase, todo |-> c.todo, import |-> c.import,
              prepared |-> c.prepared, met |-> c.met, staged |-> c.staged]
  BY <1>1 DEF SoundCall
<1>3. SoundJobs(jobs, c.import)
  <2>1. IsSequence(w) /\ \A n \in DOMAIN w : w[n] \in Sessions
    BY <1>2, RequestsAssumption, WindowFacts DEF RequestsAssumption, Prepared
  <2> HIDE DEF c, w
  <2> QED BY <1>2, <2>1, DerivedJobsAreSound
<1>4. c.todo = << >> /\ (c.staged # None => SoundStaged(c.staged, c.todo))
  BY <1>1 DEF SoundCall, SelectWindow
<1>5. c.staged = None
  BY <1>4 DEF SoundStaged
<1>6. PICK new : new = [c EXCEPT !.phase = "derived", !.todo = jobs]
  OBVIOUS
<1>7. new = Fields(c.request, "derived", jobs, c.import, c.prepared, c.prepared, None)
  <2> HIDE DEF c, jobs
  <2> QED BY <1>2, <1>5, <1>6 DEF Fields
<1>8. SoundCall(new)
  <2> HIDE DEF jobs
  <2> QED BY <1>2, <1>3, <1>7, FreshCall
<1>9. CallInv'
  BY <1>1, <1>6, <1>8, CallGoesOn
<1> QED BY <1>1, <1>9 DEF IInv, CacheInv, DatasetInv

LEMMA FinishIsSound ==
    ASSUME IInv, NEW p \in Processes, Finish(p)
    PROVE  IInv'
<1> DEFINE c == call[p]
           r == c.request
           manifest == Manifest(r, c.prepared)
           d == [manifest |-> manifest, request |-> r, met |-> c.met]
           jobs == SetJobs(r, manifest.sessions)
<1>1. /\ SoundCall(c) /\ CallInv /\ UNCHANGED <<files, cache>> /\ c.todo = << >>
      /\ datasets' = datasets \cup {d}
      /\ \/ End(p)
         \/ call' = [call EXCEPT ![p] = [c EXCEPT !.phase = "extras", !.todo = jobs]]
  BY DEF IInv, CallInv, Finish
<1>2. /\ r \in Requests /\ Prepared(c.prepared) /\ c.met = c.prepared
      /\ c = [request |-> c.request, phase |-> c.phase, todo |-> c.todo, import |-> c.import,
              prepared |-> c.prepared, met |-> c.met, staged |-> c.staged]
  BY <1>1 DEF SoundCall
<1>3. SoundJobs(jobs, c.import)
  <2>1. /\ manifest.sessions = Window(c.prepared, r.max) /\ r.max \in Nat \ {0}
        /\ \A n \in DOMAIN manifest.sessions : manifest.sessions[n] \in Sessions
    BY <1>2, ManifestFacts
  <2>2. IsSequence(manifest.sessions)
    BY <1>2, <2>1, WindowFacts
  <2> HIDE DEF c, manifest
  <2> QED BY <1>2, <2>1, <2>2, SetJobsAreSound
<1>4. c.staged # None => SoundStaged(c.staged, c.todo)
  BY <1>1 DEF SoundCall
<1>5. c.staged = None
  BY <1>1, <1>4 DEF SoundStaged
<1>6. DatasetInv'
  <2>1. d.request = r /\ d.met = c.prepared /\ d.manifest = manifest
    BY <1>2
  <2> HIDE DEF d, c
  <2>2. ASSUME NEW a \in datasets' PROVE a \in datasets \/ a = d
    BY <1>1
  <2> QED BY <1>2, <2>1, <2>2 DEF IInv, DatasetInv
<1>7. CASE End(p)
  BY <1>1, <1>6, <1>7, EndIsSound DEF IInv, CacheInv
<1>8. CASE call' = [call EXCEPT ![p] = [c EXCEPT !.phase = "extras", !.todo = jobs]]
  <2>1. PICK new : new = [c EXCEPT !.phase = "extras", !.todo = jobs]
    OBVIOUS
  <2>2. new = Fields(c.request, "extras", jobs, c.import, c.prepared, c.prepared, None)
    <3> HIDE DEF c, jobs
    <3> QED BY <1>2, <1>5, <2>1 DEF Fields
  <2>3. SoundCall(new)
    <3> HIDE DEF jobs
    <3> QED BY <1>2, <1>3, <2>2, FreshCall
  <2>4. CallInv'
    BY <1>1, <1>8, <2>1, <2>3, CallGoesOn
  <2> QED BY <1>1, <1>6, <2>4 DEF IInv, CacheInv
<1> QED BY <1>1, <1>7, <1>8

LEMMA ResolveIsSound ==
    ASSUME IInv, NEW p \in Processes, NEW d \in datasets, NEW n \in DOMAIN d.manifest.sessions,
           NEW timeframe, Resolve(p, d, n, timeframe)
    PROVE  IInv'
<1> DEFINE session == d.manifest.sessions[n]
           job == DerivedJob(session, "candles", timeframe)
           jobs == <<job>>
<1>1. /\ UNCHANGED <<files, cache, datasets>> /\ CallInv
      /\ call' = [call EXCEPT ![p] = Fields(d.request, "extras", jobs, None, {}, {}, None)]
  BY DEF IInv, Resolve, Fields
<1>2. d.request \in Requests /\ Prepared(d.met) /\ d.manifest = Manifest(d.request, d.met)
  BY DEF IInv, DatasetInv
<1>3. session \in Sessions
  <2>1. PICK r, S : r = d.request /\ S = d.met
    OBVIOUS
  <2>2. d.manifest.sessions = Window(S, r.max)
        /\ \A k \in DOMAIN Window(S, r.max) : Window(S, r.max)[k] \in Sessions
    BY <1>2, <2>1, ManifestFacts
  <2> QED BY <2>2
<1>4. job.layer = "candles" /\ job.arg.session = session
  BY DEF DerivedJob, Job
<1> HIDE DEF job, session
<1>5. SoundJobs(jobs, None)
  <2>1. 1 \in Nat /\ DOMAIN jobs = 1 .. 1 /\ jobs[1] = job /\ jobs = [k \in 1 .. 1 |-> jobs[k]]
    BY SMT
  <2>2. \A k \in 1 .. 1 : k = 1
    BY SMT
  <2> HIDE DEF jobs
  <2> QED BY <2>1, <2>2, <1>3, <1>4, SessionJobsAreSound
<1>6. Prepared({})
  BY FS_EmptySet DEF Prepared, OfDistinctDates
<1> HIDE DEF jobs
<1>7. SoundCall(Fields(d.request, "extras", jobs, None, {}, {}, None))
  BY <1>2, <1>5, <1>6, FreshCall
<1>8. CallInv'
  BY <1>1, <1>7, CallGoesOn
<1> QED BY <1>1, <1>8 DEF IInv, CacheInv, DatasetInv

\* A damaged directory has the name and was made as before.
LEMMA DamagedEntry ==
    ASSUME NEW e, SoundEntry(e)
    PROVE  /\ SoundEntry([e EXCEPT !.damaged = TRUE])
           /\ [e EXCEPT !.damaged = TRUE].key = e.key
           /\ [e EXCEPT !.damaged = TRUE].made = e.made
<1>1. e = [key |-> e.key, made |-> e.made, damaged |-> e.damaged]
  BY DEF SoundEntry
<1>2. PICK f : f = [e EXCEPT !.damaged = TRUE]
  OBVIOUS
<1>3. /\ f.key = e.key /\ f.made = e.made
      /\ f = [key |-> f.key, made |-> f.made, damaged |-> f.damaged]
  BY <1>1, <1>2
<1>4. SoundEntry(f)
  BY <1>3 DEF SoundEntry
<1> QED BY <1>2, <1>3, <1>4

LEMMA FaultIsSound ==
    ASSUME IInv, Fault
    PROVE  IInv'
<1>1. CASE \E p \in Processes : Crash(p)
  <2>1. PICK p \in Processes : Crash(p)
    BY <1>1
  <2>2. CallInv' /\ UNCHANGED <<files, cache, datasets>>
    BY <2>1, EndIsSound DEF Crash, IInv
  <2> QED BY <2>2 DEF IInv, CacheInv, DatasetInv
<1>2. CASE Replace
  <2>1. files' \in [Paths -> DOMAIN Contents]
    BY <1>2 DEF Replace, IInv
  <2> QED BY <1>2, <2>1 DEF Replace, IInv, CacheInv, CallInv, Working, DatasetInv
<1>3. CASE Damage
  <2>1. PICK e \in cache : cache' = (cache \ {e}) \cup {[e EXCEPT !.damaged = TRUE]}
    BY <1>3 DEF Damage
  <2>2. SoundEntry([e EXCEPT !.damaged = TRUE])
    BY DamagedEntry DEF IInv, CacheInv
  <2>3. CacheInv'
    BY <2>1, <2>2 DEF IInv, CacheInv
  <2> QED BY <1>3, <2>3 DEF Damage, IInv, CallInv, Working, DatasetInv
<1> QED BY <1>1, <1>2, <1>3 DEF Fault

\* Every step keeps the invariant.
LEMMA StepIsSound ==
    ASSUME IInv, [Next]_vars
    PROVE  IInv'
<1>1. CASE UNCHANGED vars
  BY <1>1 DEF vars, IInv, CacheInv, CallInv, Working, DatasetInv
<1>2. CASE \E p \in Processes : Step(p)
  <2>1. PICK p \in Processes : Step(p)
    BY <1>2
  <2>2. CASE Return(p)
    BY <2>2, EndIsSound DEF Return, IInv, CacheInv, DatasetInv
  <2> QED BY <2>1, <2>2, LookIsSound, ReadSourceIsSound, RenameIsSound, SelectWindowIsSound,
             FinishIsSound DEF Step
<1>3. CASE \E p \in Processes : Use(p)
  BY <1>3, ResolveIsSound DEF Use
<1>4. CASE \E p \in Processes : \E r \in Requests : Begin(p, r)
  BY <1>4, BeginIsSound
<1>5. CASE Fault
  BY <1>5, FaultIsSound
<1> QED BY <1>1, <1>2, <1>3, <1>4, <1>5 DEF Next

\* The invariant holds at all times.
THEOREM Invariant == Spec => []IInv
BY InitIsSound, StepIsSound, PTL DEF Spec

\* What is found under a key is what would have been built, a dataset is the latest
\* window of what was prepared, one selected from another is the one that would have
\* been built, and cancellations are found in any order (historical.py,
\* session_catalog.py, b3_listed_trades.py).
THEOREM OneMeaning == Spec => []DatasetsHaveOneMeaning
<1>1. ASSUME IInv PROVE CancellationsIgnoreOrder
  <2>1. ASSUME NEW path \in Paths PROVE files[path] \in Orderless
    <3>1. files[path] \in DOMAIN Contents
      BY <1>1 DEF IInv
    <3>2. IsSequence(Contents[files[path]])
      BY <3>1, ContentsAssumption DEF ContentsAssumption
    <3> QED BY <3>1, <3>2, OrderIsIrrelevant DEF Orderless
  <2> QED BY <2>1 DEF CancellationsIgnoreOrder
<1>2. IInv => DatasetsHaveOneMeaning
  BY <1>1, IdentitiesFollow, WindowsFollow, SelectionFollows DEF IInv, DatasetsHaveOneMeaning
<1> QED BY <1>2, Invariant, PTL

\* An entry of any layer stays what it was when it was published (_publish_cache).
THEOREM EntriesAreForEver == Spec => EntriesStay
<1>1. ASSUME IInv, [Next]_vars
      PROVE  \A e \in cache : \E f \in cache' : f.key = e.key /\ f.made = e.made
  <2>1. CASE cache \subseteq cache'
    BY <2>1
  <2>2. CASE Damage
    <3>1. PICK d \in cache : cache' = (cache \ {d}) \cup {[d EXCEPT !.damaged = TRUE]}
      BY <2>2 DEF Damage
    <3>2. /\ [d EXCEPT !.damaged = TRUE].key = d.key
          /\ [d EXCEPT !.damaged = TRUE].made = d.made
      BY <1>1, DamagedEntry DEF IInv, CacheInv
    <3> QED BY <3>1, <3>2
  <2>3. cache \subseteq cache' \/ Damage
    BY <1>1 DEF Next, vars, Step, Use, Fault, Begin, Look, Reuse, Stage, ReadSource, Rename,
                SelectWindow, Finish, Resolve, Return, Crash, Replace
  <2> QED BY <2>1, <2>2, <2>3
<1>2. IInv /\ [Next]_vars => [\A e \in cache : \E f \in cache' : f.key = e.key /\ f.made = e.made]_vars
  BY <1>1
<1> QED BY <1>2, Invariant, PTL DEF Spec, EntriesStay
=============================================================================
