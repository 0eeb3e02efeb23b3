------------------------------ MODULE MarketCache ------------------------------
(***************************************************************************)
(* The content-addressed caches of market data (packages/data/src/         *)
(* quantlab_data/historical.py, feature_cache_v2.py, session_catalog.py):  *)
(* imports, sessions, candles and features, each entry a directory that a  *)
(* rename publishes and that nothing rebuilds.                             *)
(*                                                                         *)
(* A key is the record that the code hashes, and `made` stands for the     *)
(* artifacts in the directory.  A builder reads the entries of the layer   *)
(* above it, and the first one reads a file that may be replaced at any    *)
(* moment.  Versions and policies, the same in every key, are left out.    *)
(***************************************************************************)
EXTENDS ListedTrades

CONSTANTS
    Processes, None,
    Paths,
    Contents,     \* what a file can be: a function to sequences of rows
    First,        \* the content at each path before anything happens
    Requests,     \* calls of build_historical_dataset and build_market_history
    Timeframes,
    Average,      \* the specification of the moving average
    MaxFaults     \* crashes, replaced files and damaged directories

VARIABLES
    files,        \* the content at each path
    cache,        \* the entries of all layers
    datasets,     \* the manifests that were returned
    call,         \* what a process is doing
    faults

vars == <<files, cache, datasets, call, faults>>

\* A file is a sequence of rows, a request a list of sources with what is to be made of
\* them; a window has at least one session (historical.py, 630-646).
ContentsAssumption ==
    /\ \A c \in DOMAIN Contents :
          IsSequence(Contents[c]) /\ \A n \in DOMAIN Contents[c] : Contents[c][n].date \in Int
    /\ First \in [Paths -> DOMAIN Contents]
ASSUME ContentsAssumption
RequestsAssumption ==
    \A r \in Requests :
        /\ IsSequence(r.sources) /\ IsSequence(r.timeframes) /\ IsSequence(r.specs)
        /\ \A n \in DOMAIN r.sources : r.sources[n].path \in Paths
        /\ r.max \in Nat \ {0}
ASSUME RequestsAssumption

(***************************************************************************)
(* Keys and builders.                                                      *)
(***************************************************************************)
ImportKey(content, contract) == [layer |-> "imports", source |-> content, contract |-> contract]

\* import_b3_listed_trades_drv; the report names the bytes that were read.
Import(content, contract) ==
    [source |-> content, contract |-> contract, dates |-> Dates(Contents[content], contract),
     trades |-> Included(Contents[content], contract)]

\* The contents whose trades do not depend on the order of the rows.
Orderless ==
    {c \in DOMAIN Contents : \A r \in Requests : \A n \in DOMAIN r.sources :
        SameTradesInAnyOrder(Contents[c], r.sources[n].contract)}

TheDate(import) == CHOOSE d \in import.dates : TRUE

\* Variant: a session is its date and contract.
SessionOfDate(import) ==
    [layer |-> "sessions", contract |-> import.contract, date |-> TheDate(import)]

\* Variant: the key names the contents of the import, not where it came from.
SessionKey(import) ==
    [layer |-> "sessions", contract |-> import.contract, date |-> TheDate(import),
     import |-> [source |-> import.source, trades |-> import.trades]]

Session(import) == [key |-> SessionKey(import), date |-> TheDate(import), trades |-> import.trades]

CandleKey(session, timeframe) ==
    [layer |-> "candles", session |-> session.key, timeframe |-> timeframe]
Candles(session, timeframe) == [session |-> session, timeframe |-> timeframe]

FeatureKey(candles, spec, inputs) ==
    [layer |-> "features", candles |-> candles, spec |-> spec, inputs |-> inputs]
Feature(candles, spec, inputs) == [candles |-> candles, spec |-> spec, inputs |-> inputs]

\* _ensure_features, of the first version, makes one feature of candles alone.
AverageKey(candles) == FeatureKey(candles, Average, << >>)
AverageOf(candles) == Feature(candles, Average, << >>)

(***************************************************************************)
(* A call works through a sequence of jobs.                                *)
(***************************************************************************)
Job(layer, arg) == [layer |-> layer, arg |-> arg]

\* Two nested loops: for every row, every column.
Nested(rows, columns, Op(_, _)) ==
    [n \in 1 .. Len(rows) * Len(columns) |->
        Op(rows[((n - 1) \div Len(columns)) + 1], columns[((n - 1) % Len(columns)) + 1])]

SourceJobs(r) ==
    Nested(r.sources, <<"imports", "sessions">>, LAMBDA source, layer : Job(layer, source))

DerivedJob(session, layer, timeframe) ==
    Job(layer, [session |-> session, timeframe |-> timeframe])
FeatureJob(session, timeframe, spec) ==
    Job("features", [session |-> session, timeframe |-> timeframe, spec |-> spec])

\* build_historical_dataset makes the average of a timeframe after its candles.
DerivedJobs(r, sessions) ==
    Nested(sessions,
           Nested(r.timeframes, IF r.features = "sma" THEN <<"candles", "averages">> ELSE <<"candles">>,
                  LAMBDA timeframe, layer : [layer |-> layer, timeframe |-> timeframe]),
           LAMBDA session, next : DerivedJob(session, next.layer, next.timeframe))

\* build_feature_set makes every feature of a session in the order of the specifications.
SetJobs(r, sessions) ==
    Nested(sessions, r.specs, LAMBDA session, spec : FeatureJob(session, r.timeframes[1], spec))

\* Sessions in the order of their dates: the n-th has n - 1 before it.
Before(sessions, s) == {o \in sessions : o.date < s.date}
Sorted(sessions) ==
    [n \in 1 .. Cardinality(sessions) |->
        CHOOSE s \in sessions : Cardinality(Before(sessions, s)) = n - 1]

\* The latest trading dates, in order.
Latest(sessions, max) ==
    SubSeq(sessions, IF Len(sessions) < max THEN 1 ELSE Len(sessions) - max + 1, Len(sessions))
Window(prepared, max) == Latest(Sorted(prepared), max)

DatasetId(r, sessions) ==
    [max |-> r.max, sessions |-> [n \in DOMAIN sessions |-> sessions[n].key],
     timeframes |-> r.timeframes, features |-> IF r.features = "sma" THEN Average ELSE None]

Idle == None
Working(p) == call[p] # Idle
Next1(p) == Head(call[p].todo)

Init ==
    /\ files = First
    /\ cache = {} /\ datasets = {} /\ faults = 0
    /\ call = [p \in Processes |-> Idle]

End(p) == call' = [call EXCEPT ![p] = Idle]
Done(p) == [call[p] EXCEPT !.todo = Tail(@), !.staged = None]

Begin(p, r) ==
    /\ ~Working(p)
    /\ call' = [call EXCEPT ![p] = [request |-> r, phase |-> "sources", todo |-> SourceJobs(r),
                                    import |-> None, prepared |-> {}, met |-> {}, staged |-> None]]
    /\ UNCHANGED <<files, cache, datasets, faults>>

\* A cached directory is valid or the call fails: nothing is rebuilt.
Found(key) == {e \in cache : e.key = key}

\* Every session that was met is kept in `met`, for the properties.  Two different
\* sessions of one date need a choice that is the user's.
TakeSession(p, session) ==
    LET existing == {s \in call[p].prepared : s.date = session.date}
    IN  IF existing \ {session} # {} THEN End(p)
        ELSE call' = [call EXCEPT ![p] = [Done(p) EXCEPT !.prepared = @ \cup {session},
                                                          !.met = @ \cup {session}]]

Take(p, made) ==
    CASE Next1(p).layer = "imports" ->
             call' = [call EXCEPT ![p] = [Done(p) EXCEPT !.import = made]]
      [] Next1(p).layer = "sessions" -> TakeSession(p, made)
      [] OTHER -> call' = [call EXCEPT ![p] = Done(p)]

\* Variant: a directory that exists is refused.
ReuseNothing(p, key) == End(p) /\ UNCHANGED <<files, cache, datasets, faults>>

Reuse(p, key) ==
    /\ \E e \in Found(key) : IF e.damaged THEN End(p) ELSE Take(p, e.made)
    /\ UNCHANGED <<files, cache, datasets, faults>>

Stage(p, staged) ==
    /\ call' = [call EXCEPT ![p].staged = staged]
    /\ UNCHANGED <<files, cache, datasets, faults>>

\* The series that a specification names, each made of those it names itself.
Inputs(candles, specs, spec) ==
    LET series[k \in DOMAIN specs] ==
            Feature(candles, specs[k], [i \in specs[k].inputs |-> series[i]])
    IN  [i \in spec.inputs |-> series[i]]

\* The key of the job and what its builder would make.  The key of an import is the
\* hash of the file at this moment.
Wanted(p) ==
    LET arg == Next1(p).arg
    IN  CASE Next1(p).layer = "imports" ->
                 [key |-> ImportKey(files[arg.path], arg.contract), made |-> None]
          [] Next1(p).layer = "sessions" ->
                 [key |-> SessionKey(call[p].import), made |-> Session(call[p].import)]
          [] Next1(p).layer = "candles" ->
                 [key |-> CandleKey(arg.session, arg.timeframe),
                  made |-> Candles(arg.session, arg.timeframe)]
          [] Next1(p).layer = "averages" ->
                 LET candles == Candles(arg.session, arg.timeframe)
                 IN  [key |-> AverageKey(candles), made |-> AverageOf(candles)]
          [] OTHER ->
                 LET candles == Candles(arg.session, arg.timeframe)
                     inputs  == Inputs(candles, call[p].request.specs, arg.spec)
                 IN  [key |-> FeatureKey(candles, arg.spec, inputs),
                      made |-> Feature(candles, arg.spec, inputs)]

\* A session has one trading date and at least one trade.
NoSession(p) ==
    /\ Next1(p).layer = "sessions"
    /\ Cardinality(call[p].import.dates) # 1 \/ call[p].import.trades = {}

\* The _ensure functions of the four layers.
Look(p) ==
    /\ Working(p) /\ call[p].todo # << >> /\ call[p].staged = None
    /\ IF NoSession(p) THEN End(p) /\ UNCHANGED <<files, cache, datasets, faults>>
       ELSE IF Found(Wanted(p).key) # {} THEN Reuse(p, Wanted(p).key)
       ELSE Stage(p, Wanted(p))

\* The adapter reads the file later, and sees that it does not change meanwhile.
ReadSource(p) ==
    /\ Working(p) /\ call[p].staged # None
    /\ Next1(p).layer = "imports" /\ call[p].staged.made = None
    /\ LET content  == files[Next1(p).arg.path]
           contract == Next1(p).arg.contract
       IN  IF Accepted(Contents[content], contract)
           THEN call' = [call EXCEPT ![p].staged.made = Import(content, contract)] ELSE End(p)
    /\ UNCHANGED <<files, cache, datasets, faults>>

\* Variant: the rename replaces what is there.
RenameOver(p) ==
    /\ Working(p) /\ call[p].staged # None /\ call[p].staged.made # None
    /\ cache' = (cache \ Found(call[p].staged.key))
                   \cup {[key |-> call[p].staged.key, made |-> call[p].staged.made, damaged |-> FALSE]}
    /\ Take(p, call[p].staged.made)
    /\ UNCHANGED <<files, datasets, faults>>

\* _publish_cache: a rename onto a directory that another process has filled raises
\* ENOTEMPTY, which is no FileExistsError: the call fails and its work is lost.
Rename(p) ==
    /\ Working(p) /\ call[p].staged # None /\ call[p].staged.made # None
    /\ IF Found(call[p].staged.key) # {} THEN End(p) /\ UNCHANGED cache
       ELSE /\ cache' = cache \cup
                   {[key |-> call[p].staged.key, made |-> call[p].staged.made, damaged |-> FALSE]}
            /\ Take(p, call[p].staged.made)
    /\ UNCHANGED <<files, datasets, faults>>

SelectWindow(p) ==
    /\ Working(p) /\ call[p].todo = << >> /\ call[p].phase = "sources"
    /\ LET r == call[p].request
       IN  call' = [call EXCEPT ![p].phase = "derived",
                                ![p].todo = DerivedJobs(r, Window(call[p].prepared, r.max))]
    /\ UNCHANGED <<files, cache, datasets, faults>>

Manifest(r, prepared) ==
    LET sessions == Window(prepared, r.max)
    IN  [id |-> DatasetId(r, sessions), sessions |-> sessions, max |-> r.max,
         timeframes |-> r.timeframes, available |-> Cardinality(prepared)]

\* The manifest, with what the call had to choose from.  A feature set is made next.
Finish(p) ==
    /\ Working(p) /\ call[p].todo = << >> /\ call[p].phase = "derived"
    /\ LET r        == call[p].request
           manifest == Manifest(r, call[p].prepared)
       IN  /\ datasets' = datasets \cup
                  {[manifest |-> manifest, request |-> r, met |-> call[p].met]}
           /\ IF r.features = "set"
              THEN call' = [call EXCEPT ![p].phase = "extras", ![p].todo = SetJobs(r, manifest.sessions)]
              ELSE End(p)
    /\ UNCHANGED <<files, cache, faults>>

(***************************************************************************)
(* session_catalog.py.                                                     *)
(***************************************************************************)

\* SessionCatalog.select.
Select(manifest, max) ==
    LET sessions == Latest(manifest.sessions, max)
    IN  [manifest EXCEPT !.sessions = sessions, !.max = max,
                         !.id = [@ EXCEPT !.max = max,
                                          !.sessions = [n \in DOMAIN sessions |-> sessions[n].key]]]

\* resolve_session: the session must be in the cache as the catalog has it; candles
\* of a timeframe the catalog lacks are built.
Resolve(p, d, n, timeframe) ==
    /\ ~Working(p) /\ n \in DOMAIN d.manifest.sessions /\ d.request.features # "sma"
    /\ \E e \in Found(d.manifest.sessions[n].key) :
           ~e.damaged /\ e.made = d.manifest.sessions[n]
    /\ call' = [call EXCEPT ![p] =
           [request |-> d.request, phase |-> "extras", import |-> None, prepared |-> {}, met |-> {},
            todo |-> <<DerivedJob(d.manifest.sessions[n], "candles", timeframe)>>, staged |-> None]]
    /\ UNCHANGED <<files, cache, datasets, faults>>

Return(p) ==
    /\ Working(p) /\ call[p].todo = << >> /\ call[p].phase = "extras"
    /\ End(p) /\ UNCHANGED <<files, cache, datasets, faults>>

(***************************************************************************)
(* Faults.                                                                 *)
(***************************************************************************)
Crash(p) == Working(p) /\ End(p) /\ UNCHANGED <<files, cache, datasets>>
Replace == /\ \E path \in Paths, c \in DOMAIN Contents :
                  c # files[path] /\ files' = [files EXCEPT ![path] = c]
           /\ UNCHANGED <<cache, datasets, call>>
\* Between the calls.
Damage == /\ \A p \in Processes : ~Working(p)
          /\ \E e \in cache : ~e.damaged /\ cache' = (cache \ {e}) \cup {[e EXCEPT !.damaged = TRUE]}
          /\ UNCHANGED <<files, datasets, call>>
Fault == faults < MaxFaults /\ faults' = faults + 1
         /\ ((\E p \in Processes : Crash(p)) \/ Replace \/ Damage)

Step(p) == Look(p) \/ ReadSource(p) \/ Rename(p) \/ SelectWindow(p) \/ Finish(p) \/ Return(p)
Use(p) == \E d \in datasets, t \in Timeframes : \E n \in DOMAIN d.manifest.sessions : Resolve(p, d, n, t)

Next == (\E p \in Processes : Step(p) \/ Use(p) \/ \E r \in Requests : Begin(p, r)) \/ Fault
Spec == Init /\ [][Next]_vars

Fairness(asked) ==
    /\ \A p \in Processes : WF_vars(Step(p))
    /\ \A r \in asked : SF_vars(\E p \in Processes : Begin(p, r))

(***************************************************************************)
(* Properties.                                                             *)
(***************************************************************************)
\* What is found under a key is what would have been built: neither a race, nor a
\* crash, nor a file that is replaced under the hands of the import gives one
\* dataset, or one entry below the imports, two meanings (historical.py, 194-223).
IdentitiesAreContents ==
    /\ \A p \in Processes :
          Working(p) /\ call[p].todo # << >> /\ Next1(p).layer # "imports" /\ ~NoSession(p) =>
              \A e \in Found(Wanted(p).key) : e.made = Wanted(p).made
    /\ \A a, b \in datasets : a.manifest.id = b.manifest.id =>
           a.manifest.sessions = b.manifest.sessions

\* A cancellation is found wherever it stands in the file (b3_listed_trades.py, 363, 435).
CancellationsIgnoreOrder == \A path \in Paths : files[path] \in Orderless

\* A dataset has the latest dates its sources offer, one session for each: sources
\* that disagree about a date give no dataset (historical.py, 661-680, 696-701).
WindowsAreTheLatest ==
    \A d \in datasets :
        LET kept  == {d.manifest.sessions[n].date : n \in DOMAIN d.manifest.sessions}
            dates == {s.date : s \in d.met}
        IN  /\ Cardinality(kept) = (IF Cardinality(dates) < d.request.max THEN Cardinality(dates)
                                    ELSE d.request.max)
            /\ \A k \in kept, other \in dates \ kept : other < k
            /\ Cardinality(dates) = Cardinality(d.met)
            /\ \A n \in DOMAIN d.manifest.sessions : n > 1 =>
                   d.manifest.sessions[n - 1].date < d.manifest.sessions[n].date

\* A narrower window selected from a catalog is the dataset that would have been
\* built of the same sessions (session_catalog.py, 66-79).
SelectionIsADataset ==
    \A wide, narrow \in datasets :
        /\ wide.request.features # "sma" /\ narrow.request.features # "sma"
        /\ wide.met = narrow.met /\ narrow.request.max <= wide.request.max
        /\ wide.request.timeframes = narrow.request.timeframes
        => Select(wide.manifest, narrow.request.max) = narrow.manifest

\* An entry stays what it was when it was published, whoever else is building it.
EntriesStay ==
    [][\A e \in cache : \E f \in cache' : f.key = e.key /\ f.made = e.made]_vars

\* What is on the path of a request suffices for a dataset.
Satisfiable(r) ==
    LET rows(n) == Contents[First[r.sources[n].path]]
        ok(n) == /\ Accepted(rows(n), r.sources[n].contract)
                 /\ Cardinality(Dates(rows(n), r.sources[n].contract)) = 1
                 /\ Included(rows(n), r.sources[n].contract) # {}
    IN  /\ \A n \in DOMAIN r.sources : ok(n)
        /\ \A n, k \in DOMAIN r.sources :
               Dates(rows(n), r.sources[n].contract) = Dates(rows(k), r.sources[k].contract) =>
                   r.sources[n].contract = r.sources[k].contract /\ rows(n) = rows(k)

\* A call that fails because another process was faster, or died, succeeds when it
\* is repeated, unless files were replaced or damaged.
RepeatedCallsSucceed(asked) ==
    \A r \in asked : Satisfiable(r) =>
        <>(\/ \E d \in datasets : d.request = r
           \/ (\E e \in cache : e.damaged)
           \/ files # First)

\* A dataset is what its identity says, the latest window of its sources, and the
\* same when it is selected from a wider one.
DatasetsHaveOneMeaning ==
    IdentitiesAreContents /\ WindowsAreTheLatest /\ SelectionIsADataset /\ CancellationsIgnoreOrder
=============================================================================
