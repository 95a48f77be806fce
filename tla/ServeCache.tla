----------------------------- MODULE ServeCache -----------------------------
(***************************************************************************)
(* The requests of `pvmt serve` (internal/server) and the caches they      *)
(* share for the life of the process.  Every page and every JSON document  *)
(* is built at most once per key: a map holds, per key, a sync.OnceValues  *)
(* thunk, the first request to call it builds, the others wait for its     *)
(* result, and a build that returned an error or panicked is taken out of  *)
(* the map again by every request that saw it, by identity.  The forecast  *)
(* and the hex cost documents build on a second map of thunks.             *)
(*                                                                         *)
(* One action is one operation on a map or a thunk, or one database read   *)
(* of the checks before them; requests, which are goroutines, interleave   *)
(* between actions, and so does a `snapshots rm` of another process.  A    *)
(* document is abstracted to the city and the snapshot it shows, a build   *)
(* to its outcome.  A request creates at most one thunk per key, so the    *)
(* request names the thunk it created.                                     *)
(***************************************************************************)
EXTENDS Naturals, Sequences, FiniteSets

CONSTANTS Cities,        \* the configured cities in their order
          Unknown,       \* a slug of no configured city
          Boundless,     \* cities without an ingested boundary
          WrongEdge,     \* cities computed under another hex_edge_m
          Snapshots,     \* snapshot ids of every city at the start
          Matching,      \* those of them with the current configuration's hash
          Removable,     \* those that another process may delete meanwhile
          Pinned,        \* the one PinCurrentSnapshot chose at start (0: none)
          Wants,         \* request -> what it may ask for
          MaxVisits,     \* bound: requests
          MaxFaults      \* bound: reads that fail, builds that panic

ServedCity == {Cities[i] : i \in 1..Len(Cities)}
Visit == 1..MaxVisits
NoThunk == 0

\* The files of serveDataFile's switch, by the kind their cache key names.
DataFile == {"meta", "hexgrid", "playhexes", "scenarios", "forecast", "seed",
         "hexcost", "boundary", "hexmetrics"}
OnForecasts == {"forecast", "hexcost"}

\* A request: a page, a list, or a data file of a city at a snapshot (0: the
\* pinned one).  A malformed snapshot parameter is the id no snapshot has.
Want == [op : {"index", "play", "cities", "snapshots", "data"},
         city : ServedCity \cup {Unknown}, file : DataFile \cup {"none"}, snapshot : Nat]

ASSUME ServeAssumption ==
  /\ Len(Cities) > 0 /\ Unknown \notin ServedCity
  /\ Boundless \subseteq ServedCity /\ WrongEdge \subseteq ServedCity
  /\ Snapshots \subseteq Nat \ {0} /\ Matching \subseteq Snapshots
  /\ Removable \subseteq Snapshots
  /\ Pinned \in Matching \cup {0}
  /\ Wants \in [Visit -> SUBSET Want]
  /\ MaxVisits \in Nat /\ MaxFaults \in Nat

VARIABLES slot,      \* cache key -> the thunk the map holds
          thunk,     \* thunk and key -> the state of the thunk
          request,   \* request -> where it is
          stored,    \* snapshots that still exist
          faults     \* failed reads and panics so far

serveVars == <<slot, thunk, request, stored, faults>>

DataKey(file, city, s) == <<file, city, IF file = "boundary" THEN 0 ELSE s>>
KeyOf(w) ==
  CASE w.op = "play" -> IF w.city \in ServedCity THEN <<"game", w.city>> ELSE <<"game">>
    [] w.op = "snapshots" -> <<"snapshots", w.city>>
    [] w.op = "data" -> DataKey(w.file, w.city, w.snapshot)
    [] OTHER -> <<w.op>>
Shared(w) ==
  {KeyOf(w)}
  \cup (IF w.op = "play" THEN {<<"game">>} ELSE {})
  \cup (IF w.file \in OnForecasts THEN {<<"forecasts", w.city, w.snapshot>>} ELSE {})
CityPage(k) == Len(k) = 2 /\ k[1] = "game"
Keys == UNION {Shared(w) : w \in UNION {Wants[r] : r \in Visit}}

\* What a thunk holds: its progress, or its sticky result.
Unbuilt == [state |-> "unbuilt"]
Building == [state |-> "building"]
Err == [state |-> "error"]
Panic == [state |-> "panic"]
BuildFailed == {Err, Panic}
Built(v) == [state |-> "built", value |-> v]

\* A request in flight: its calls into the caches, the innermost last.
Waiting == [pc |-> "coming", want |-> <<>>, calls |-> <<>>, status |-> 0]
Done(status) == [Waiting EXCEPT !.pc = "done", !.status = status]
Call(k) == [key |-> k, thunk |-> NoThunk]

ServeInit ==
  /\ slot = [k \in Keys |-> NoThunk]
  /\ thunk = [t \in Visit |-> [k \in Keys |-> Unbuilt]]
  /\ request = [r \in Visit |-> Waiting]
  /\ stored = Snapshots
  /\ faults = 0

-----------------------------------------------------------------------------
\* The result a build may come to, with the number of faults it takes.  Every build
\* reads the database in a context of its own, so only the reads can fail.

\* buildIndexData of one city: a city without a boundary never renders.
Renderable == ServedCity \ Boundless

\* firstRenderableCity passes over the cities that fail, each for a fault
\* unless it has no boundary, and fails when none is left.
Passed(n) == {i \in 1..n : Cities[i] \notin Boundless}
FirstRenderable ==
  {[result |-> Built([city |-> Cities[i]]), cost |-> Cardinality(Passed(i - 1))] :
     i \in {j \in 1..Len(Cities) : Cities[j] \in Renderable}}
  \cup {[result |-> Err, cost |-> Cardinality(Passed(Len(Cities)))]}

OwnPage(c) ==
  {[result |-> Err, cost |-> IF c \in Boundless THEN 0 ELSE 1]}
  \cup IF c \in Boundless THEN {}
       ELSE {[result |-> Built([city |-> c]), cost |-> 0]}

\* handleCitiesList drops a city whose boundary cannot be read, for any reason.
CityList ==
  {[result |-> Built([cities |-> Renderable \ lost]), cost |-> Cardinality(lost)] :
     lost \in SUBSET Renderable}

\* A JSON document of a city at a snapshot.  A snapshot deleted since the
\* request was checked reads as empty; the documents laid out on the city's
\* bounding box need its boundary.
OnBounds == {"meta", "hexgrid", "playhexes"}
Document(f, c, s) ==
  LET at == IF s = 0 THEN Pinned ELSE s
      doc == [city |-> c, snapshot |-> s, rows |-> at \in stored]
  IN IF f \in OnBounds /\ c \in Boundless THEN {[result |-> Err, cost |-> 0]}
     ELSE {[result |-> Built(doc), cost |-> 0], [result |-> Err, cost |-> 1]}

\* serveSnapshotsJSON, the list of a city's snapshots.
SnapshotList(c) ==
  {[result |-> Built([city |-> c, ids |-> stored]), cost |-> 0],
   [result |-> Err, cost |-> 1]}

\* Fault: a city's page builds the fallback page under its own key.
OutcomesOnFallback(k) ==
  IF k[1] = "game" THEN FirstRenderable ELSE {[result |-> Err, cost |-> 1]}

Outcomes(k) ==
  {[result |-> Panic, cost |-> 1]} \cup
  CASE k \in {<<"index">>, <<"game">>} -> FirstRenderable
    [] k = <<"cities">> -> CityList
    [] CityPage(k) -> OwnPage(k[2])
    [] k[1] = "snapshots" -> SnapshotList(k[2])
    [] OTHER -> Document(k[1], k[2], k[3])

-----------------------------------------------------------------------------
Goto(r, pc) == request' = [request EXCEPT ![r].pc = pc]
Top(r) == request[r].calls[Len(request[r].calls)]
Depth(r) == Len(request[r].calls)
\* What an answer of status 200 carries is what its thunk held.
Answer(r, status) == request' = [request EXCEPT ![r] = Done(status)]
Enter(r, k) ==
  request' = [request EXCEPT ![r].pc = "load", ![r].calls = <<Call(k)>>]

\* A request arrives and is routed; a data file first passes its checks.
Arrive(r) ==
  /\ request[r].pc = "coming" /\ \A q \in 1..(r - 1) : request[q].pc # "coming"
  /\ \E w \in Wants[r] : request' = [request EXCEPT ![r] =
       CASE w.op \in {"data", "snapshots"} /\ w.city = Unknown -> Done(404)
         [] w.op = "data" /\ w.city # Unknown -> [Waiting EXCEPT !.pc = "resolve", !.want = w]
         [] OTHER -> [Waiting EXCEPT !.pc = "load", !.want = w,
                                     !.calls = <<Call(KeyOf(w))>>]]
  /\ UNCHANGED <<slot, thunk, stored, faults>>

\* parseSnapshotParam, and the hex-edge check, which reads no database.
Resolve(r) ==
  LET w == request[r].want
  IN /\ request[r].pc = "resolve"
     /\ IF w.snapshot # 0 /\ w.snapshot \notin stored THEN Answer(r, 404)
        ELSE IF w.city \in WrongEdge THEN Answer(r, 409)
        ELSE IF w.snapshot # 0 THEN Goto(r, "match")
        ELSE IF w.file = "none" THEN Answer(r, 404)
        ELSE Enter(r, KeyOf(w))
     /\ UNCHANGED <<slot, thunk, stored, faults>>

\* snapshotMatchesConfig, a second read: the snapshot may have gone since.
MatchesConfig(s) == s \in Matching
Match(r) ==
  LET w == request[r].want
  IN /\ request[r].pc = "match"
     /\ IF w.snapshot \notin stored THEN Answer(r, 500)
        ELSE IF ~MatchesConfig(w.snapshot) THEN Answer(r, 409)
        ELSE IF w.file = "none" THEN Answer(r, 404)
        ELSE Enter(r, KeyOf(w))
     /\ UNCHANGED <<slot, thunk, stored, faults>>

\* The database fails under one of the two reads that check a snapshot.
CheckFails(r) ==
  /\ request[r].pc \in {"resolve", "match"} /\ request[r].want.snapshot # 0
  /\ faults < MaxFaults /\ faults' = faults + 1
  /\ Answer(r, 500)
  /\ UNCHANGED <<slot, thunk, stored>>

\* sync.Map.Load, and LoadOrStore of a fresh thunk when there was none.
LoadThunk(r) ==
  /\ request[r].pc = "load"
  /\ LET k == Top(r).key
     IN request' = [request EXCEPT
          ![r].pc = IF slot[k] = NoThunk THEN "store" ELSE "call",
          ![r].calls[Depth(r)].thunk = slot[k]]
  /\ UNCHANGED <<slot, thunk, stored, faults>>

LoadOrStore(r) ==
  /\ request[r].pc = "store"
  /\ LET k == Top(r).key
         kept == IF slot[k] = NoThunk THEN r ELSE slot[k]
     IN /\ slot' = [slot EXCEPT ![k] = kept]
        /\ request' = [request EXCEPT ![r].pc = "call",
                                      ![r].calls[Depth(r)].thunk = kept]
  /\ UNCHANGED <<thunk, stored, faults>>

\* once(): the first caller builds; a caller while another builds waits.
Once(r) ==
  LET k == Top(r).key
      t == Top(r).thunk
  IN /\ request[r].pc = "call" /\ thunk[t][k] = Unbuilt
     /\ thunk' = [thunk EXCEPT ![t][k] = Building]
     /\ Goto(r, "build")
     /\ UNCHANGED <<slot, stored, faults>>

\* Fault: the forecasts share the documents' map, so a build waits for itself.
OneMapForBoth(k) == k

\* The key of a city's forecasts, in the second map.
ForecastsKey(k) == <<"forecasts", k[2], k[3]>>

\* The build itself.  The forecast and hex cost documents call for the city's
\* forecasts, a thunk of the second map.
Build(r) ==
  LET k == Top(r).key
      t == Top(r).thunk
  IN /\ request[r].pc = "build"
     /\ IF k[1] \in OnForecasts
          THEN /\ request' = [request EXCEPT ![r].pc = "load",
                    ![r].calls = Append(@, Call(ForecastsKey(k)))]
               /\ UNCHANGED <<thunk, faults>>
          ELSE \E o \in Outcomes(k) :
                 /\ faults + o.cost <= MaxFaults
                 /\ faults' = faults + o.cost
                 /\ thunk' = [thunk EXCEPT ![t][k] = o.result]
                 /\ Goto(r, "call")
     /\ UNCHANGED <<slot, stored>>

\* A result comes back from once(): a value answers the request, or is what
\* the enclosing build was waiting for.
Enclosing(r) == request[r].calls[Depth(r) - 1]
Return(r) ==
  LET k == Top(r).key
      got == thunk[Top(r).thunk][k]
  IN /\ request[r].pc = "call" /\ got.state = "built"
     /\ IF Depth(r) = 1
          THEN Answer(r, 200) /\ UNCHANGED thunk
          ELSE /\ thunk' = [thunk EXCEPT ![Enclosing(r).thunk][Enclosing(r).key] = got]
               /\ request' = [request EXCEPT ![r].calls = SubSeq(@, 1, Depth(r) - 1)]
     /\ UNCHANGED <<slot, stored, faults>>

\* Fault: a build that panicked stays, its half-made result served for ever.
KeepPanics(k, t) == [slot EXCEPT ![k] = IF @ = t /\ thunk[t][k] # Panic THEN NoThunk ELSE @]

\* Fault: the entry goes whatever thunk is stored under it by now.
DeleteByKey(k, t) == [slot EXCEPT ![k] = NoThunk]

\* A failure: CompareAndDelete, which spares a thunk stored since; then the
\* error or the panic goes on to the enclosing build, to the fallback of a
\* city's page (an error only), or to the client.
CompareAndDelete(k, t) == [slot EXCEPT ![k] = IF @ = t THEN NoThunk ELSE @]
Fallback(r, k, got) ==
  IF CityPage(k) /\ got = Err THEN Enter(r, <<"game">>) ELSE Answer(r, 500)
EvictFailure(r) ==
  LET k == Top(r).key
      t == Top(r).thunk
      got == thunk[t][k]
  IN /\ request[r].pc = "call" /\ got \in BuildFailed
     /\ slot' = CompareAndDelete(k, t)
     /\ IF Depth(r) = 1
          THEN Fallback(r, k, got) /\ UNCHANGED thunk
          ELSE /\ thunk' = [thunk EXCEPT ![Enclosing(r).thunk][Enclosing(r).key] = got]
               /\ request' = [request EXCEPT ![r].calls = SubSeq(@, 1, Depth(r) - 1)]
     /\ UNCHANGED <<stored, faults>>

\* `snapshots rm` or prune of another process.
SnapshotsRm(s) ==
  /\ s \in stored /\ stored' = stored \ {s}
  /\ UNCHANGED <<slot, thunk, request, faults>>

Serve(r) == \/ Resolve(r) \/ Match(r) \/ CheckFails(r) \/ LoadThunk(r) \/ LoadOrStore(r)
            \/ Once(r) \/ Build(r) \/ Return(r) \/ EvictFailure(r)

ServeNext == (\E r \in Visit : Arrive(r) \/ Serve(r)) \/ (\E s \in Removable : SnapshotsRm(s))

\* Goroutines are scheduled, and a build that reads a local database ends.
ServeFairness == \A r \in Visit : WF_serveVars(Serve(r))

ServeSpec == ServeInit /\ [][ServeNext]_serveVars /\ ServeFairness

-----------------------------------------------------------------------------
\* What the caches hold for good is what their key says: the page of a city's
\* key shows that city and never the fallback, a document is of the city and
\* snapshot of its key, and a pinned snapshot was computed under the current
\* configuration.
Fits(k, v) ==
  CASE k \in {<<"index">>, <<"game">>} -> v.city \in Renderable
    [] k = <<"cities">> -> v.cities \subseteq Renderable
    [] CityPage(k) \/ k[1] = "snapshots" -> v.city = k[2]
    [] OTHER -> v.city = k[2] /\ v.snapshot = k[3] /\ k[3] \in Matching \cup {0}
CacheHoldsItsKey ==
  \A k \in Keys : slot[k] # NoThunk /\ thunk[slot[k]][k].state = "built"
                    => Fits(k, thunk[slot[k]][k].value)

\* A failed build stays in its map only while a request that will evict it is
\* on its way: no transient error or panic is served until the restart.
NoFailureIsPinned ==
  \A k \in Keys : slot[k] # NoThunk /\ thunk[slot[k]][k] \in BuildFailed
    => \E r \in Visit : \E i \in 1..Depth(r) :
         request[r].calls[i] = [key |-> k, thunk |-> slot[k]]

\* Only a failed build leaves the map: the late eviction by a request that saw
\* an old failure never throws away the build a later request has stored, so a
\* document is built once.
EvictionSparesNewerBuilds ==
  [][\A k \in Keys : slot[k] # NoThunk /\ slot'[k] # slot[k]
       => thunk[slot[k]][k] \in BuildFailed]_serveVars

\* Whatever fails or panics in the builds they join, all requests that came are
\* answered: the server comes to rest, nobody waiting for anybody's build.
InFlight(r) == request[r].pc \notin {"coming", "done"}
RequestsAnswered == (\E r \in Visit : InFlight(r)) ~> (\A r \in Visit : ~InFlight(r))
=============================================================================
