----------------------------- MODULE Upstreams -----------------------------
(***************************************************************************)
(* One fetch from an upstream service (internal/ingest): Overpass, asked   *)
(* for a bounding box and again for its quadrants when the answer is too   *)
(* large to use; an ArcGIS layer, paged by offset although some servers    *)
(* ignore the offset, clamp a page to a limit of their own, or do not say  *)
(* whether rows remain; Nominatim, which ranks candidate boundaries.       *)
(* Every request goes through the retry transport.                         *)
(*                                                                         *)
(* The caller replaces what is stored by what a successful fetch returns,  *)
(* so a fetch may fail but may not succeed with a part of the data.        *)
(*                                                                         *)
(* A bounding box is the sequence of quadrants that leads to it from the   *)
(* city's box, an element the set of smallest quadrants it touches.        *)
(***************************************************************************)
EXTENDS Naturals, Sequences, SequencesExt, FiniteSets

CONSTANTS Worlds,          \* what may be behind the request, see World below
          MaxRetries,      \* RetryConfig.MaxRetries
          MaxSplitDepth,   \* overpass: maxSplitDepth
          ArcgisMaxRecords,
          ArcgisMaxPages

ASSUME UpstreamAssumption ==
  /\ MaxRetries \in Nat /\ MaxSplitDepth \in Nat
  /\ ArcgisMaxRecords \in Nat \ {0} /\ ArcgisMaxPages \in Nat \ {0}

\* A server's elements have ids of their own and are somewhere in the city's
\* box, down to the smallest quadrants that are asked for; a server that pages
\* answers at least a row.
ASSUME WorldAssumption ==
  \A w \in Worlds :
    /\ w.source \in {"overpass", "arcgis", "nominatim"}
    /\ w.source = "overpass" =>
         /\ IsFiniteSet(w.elements)
         /\ \A e, f \in w.elements : e.type = f.type /\ e.id = f.id => e = f
         /\ \A e \in w.elements :
              e.cells # {} /\ \A c \in e.cells : c \in Seq(1..4) /\ Len(c) >= MaxSplitDepth
    /\ w.source = "arcgis" =>
         /\ w.rows \in Seq(BOOLEAN) /\ w.cap \in Nat \ {0}
         /\ {w.ids, w.meta, w.flag, w.private} \subseteq BOOLEAN
    /\ w.source = "nominatim" => w.results \in Seq([city : BOOLEAN, polygon : BOOLEAN])

VARIABLES world,   \* the service asked, which does not change meanwhile
          fetch,   \* the fetch
          trip     \* the transport's round trip of the current request

upstreamVars == <<world, fetch, trip>>

-----------------------------------------------------------------------------
\* Overpass: world = [source |-> "overpass", elements, limit, facility].  A
\* limit on the elements stands for the body limit, the server's time and
\* memory remarks, and a body cut off in the middle.
Touches(e, box) == \E cell \in e.cells : IsPrefix(box, cell)
ElementsIn(box) == {e \in world.elements : Touches(e, box)}
Unusable(box) == Cardinality(ElementsIn(box)) > world.limit
SplitBBox(box) == [q \in 1..4 |-> Append(box, q)]

\* A way's shape follows its vertices: too few to draw, a line, or closed;
\* a closed highway is a line unless it is tagged an area.
WayGeometry(e) ==
  IF e.shape = "ring" /\ (~e.highway \/ e.area) THEN "Polygon" ELSE "LineString"
OsmFeature(e, geometry) == [id |-> <<e.type, e.id>>, geometry |-> geometry]

\* The feature of an element of a paved resource, if it makes one: no node,
\* and no relation without a closed outer ring.
PavedFeature(e) ==
  CASE e.type = "way" /\ e.shape # "stub" -> {OsmFeature(e, WayGeometry(e))}
    [] e.type = "relation" /\ e.shape = "ring" -> {OsmFeature(e, "MultiPolygon")}
    [] OTHER -> {}

\* A facility is a point: a tagged node, or the centroid of whatever vertices
\* a way or relation has, closed or not.
FacilityFeature(e) ==
  IF e.shape = "empty" \/ (e.type = "node" /\ ~e.tagged) THEN {}
  ELSE {OsmFeature(e, "Point")}
Features(e) == IF world.facility THEN FacilityFeature(e) ELSE PavedFeature(e)
ParseOverpass(box) == UNION {Features(e) : e \in ElementsIn(box)}

-----------------------------------------------------------------------------
\* ArcGIS: world = [source |-> "arcgis", rows, cap, paging, flag, ids, meta,
\* private]: rows tell whether they have a geometry, the server answers at
\* most cap of them, `paging` is what it heeds of our parameters, `flag`
\* whether it says that rows remain, `ids` whether rows have an object id,
\* `meta` whether its layer document tells the cap.
Least(a, b) == IF a < b THEN a ELSE b
Clamp == IF world.paging = "none" THEN world.cap ELSE Least(world.cap, ArcgisMaxRecords)
FirstRow(offset) == IF world.paging = "offset" THEN offset + 1 ELSE 1
PageRows(offset) ==
  LET last == Least(FirstRow(offset) + Clamp - 1, Len(world.rows))
  IN [i \in 1..(last + 1 - Least(FirstRow(offset), last + 1)) |-> FirstRow(offset) + i - 1]
Exceeded(offset) == FirstRow(offset) + Clamp - 1 < Len(world.rows)

\* A row's id: the object id, or its position when the layer has none.
RowId(row, position) == IF world.ids THEN <<"oid", row>> ELSE <<"at", position>>
RowsOfPage(offset) ==
  LET page == PageRows(offset)
  IN {RowId(page[i], offset + i) : i \in {j \in 1..Len(page) : world.rows[page[j]]}}

ClassifyArcGISPage(raw, parsed, newUnique, exceeded, present) ==
  IF raw = 0 \/ (present /\ ~exceeded) THEN "done"
  ELSE IF parsed > 0 /\ newUnique = 0 THEN IF present THEN "truncated" ELSE "repeated"
  ELSE "continue"

\* Fault: only the server's limit is thought of.
BelowServersLimit(raw, maxRecords) == raw < maxRecords

\* Whether a page of rows we hold is all the layer has: not when a limit may
\* have cut it, ours or, above ours, the server's.
RepeatedIsComplete(raw, maxRecords) ==
  raw < IF raw > ArcgisMaxRecords THEN maxRecords ELSE Least(maxRecords, ArcgisMaxRecords)

-----------------------------------------------------------------------------
\* Nominatim: world = [source |-> "nominatim", results], ranked: [city,
\* polygon].  The first polygon of a city or town, else the first polygon.
FirstWhere(P) == IF P = {} THEN 0 ELSE CHOOSE i \in P : \A j \in P : i <= j
Polygons == {i \in DOMAIN world.results : world.results[i].polygon}
CityPolygons == {i \in Polygons : world.results[i].city}
PickBoundary == FirstWhere(IF CityPolygons # {} THEN CityPolygons ELSE Polygons)

-----------------------------------------------------------------------------
\* The fetch: what it still has to ask for, first next; the features or rows
\* it holds, and how many it has appended.
NoTrip == [pc |-> "none", attempt |-> 0]
Ask(f, what) == [f EXCEPT !.pc = "ask", !.todo = what]
Failed(f) == [f EXCEPT !.pc = "failed"]
Returned(f) == [f EXCEPT !.pc = "returned"]

UpstreamInit ==
  /\ world \in Worlds
  /\ fetch = [pc |-> "start", todo |-> <<>>, held |-> {}, appended |-> 0, pages |-> 0]
  /\ trip = NoTrip

\* The SSRF guard comes first, for the one source whose URL is configured.
Refused == world.source = "arcgis" /\ world.private
Begin ==
  /\ fetch.pc = "start"
  /\ fetch' = IF Refused THEN Failed(fetch)
              ELSE Ask(fetch, IF world.source = "arcgis" THEN <<0>> ELSE << <<>> >>)
  /\ UNCHANGED <<world, trip>>

\* The transport: attempts of one request, a backoff between two of them.
Method == IF world.source = "overpass" THEN "POST" ELSE "GET"
AllowRetry == world.source = "overpass"
CanRetry == Method # "POST" \/ AllowRetry

SendRequest ==
  /\ fetch.pc \in {"ask", "confirm"} /\ trip.pc = "none"
  /\ trip' = [pc |-> "attempt", attempt |-> 0]
  /\ UNCHANGED <<world, fetch>>

\* Fault: the attempts are not counted.
RetryForever(attempt) == CanRetry

\* A transient status or connection error is retried while retries remain;
\* the last one is the answer, and fails the fetch as any other does.
MayRetry(attempt) == CanRetry /\ attempt < MaxRetries
TransientFailure ==
  /\ trip.pc = "attempt"
  /\ IF MayRetry(trip.attempt)
       THEN trip' = [trip EXCEPT !.pc = "backoff"] /\ UNCHANGED fetch
       ELSE trip' = NoTrip /\ fetch' = Failed(fetch)
  /\ UNCHANGED world

\* The wait is at most MaxBackoff, however long the server asks for.
Backoff ==
  /\ trip.pc = "backoff"
  /\ trip' = [pc |-> "attempt", attempt |-> Least(trip.attempt + 1, MaxRetries)]
  /\ UNCHANGED <<world, fetch>>

\* Any other status or error, or the command's context is cancelled, also
\* while it waits.
OutOfRetries ==
  /\ trip.pc \in {"attempt", "backoff"}
  /\ trip' = NoTrip /\ fetch' = Failed(fetch)
  /\ UNCHANGED world

\* The answer arrives: fetchRecursive goes depth first through the quadrants.
Box == Head(fetch.todo)
Rest == Tail(fetch.todo)
\* What has an id it has seen is dropped.
Id(x) == IF world.source = "overpass" THEN x.id ELSE x
NewOnes(features) == {x \in features : \A y \in fetch.held : Id(y) # Id(x)}
WithHeld(features) ==
  [fetch EXCEPT !.held = @ \cup NewOnes(features), !.appended = @ + Cardinality(NewOnes(features))]
Continue(f, todo) == IF todo = <<>> THEN Returned(f) ELSE Ask(f, todo)
AnswerBBox ==
  fetch' = IF ~Unusable(Box) THEN Continue(WithHeld(ParseOverpass(Box)), Rest)
           ELSE IF Len(Box) < MaxSplitDepth THEN Ask(fetch, SplitBBox(Box) \o Rest)
           ELSE Failed(fetch)

\* FetchAll's loop over the pages; a repeated page asks for the layer document.
AnswerPage ==
  LET offset == Head(fetch.todo)
      rows == RowsOfPage(offset)
      next == [WithHeld(rows) EXCEPT !.pages = @ + 1]
      outcome == ClassifyArcGISPage(Len(PageRows(offset)), Cardinality(rows),
                   next.appended - fetch.appended, Exceeded(offset), world.flag)
  IN fetch' = CASE outcome = "done" -> Returned(next)
                [] outcome = "truncated" -> Failed(next)
                [] outcome = "repeated" -> [next EXCEPT !.pc = "confirm"]
                [] outcome = "continue" ->
                     IF next.pages >= ArcgisMaxPages THEN Failed(next)
                     ELSE Ask(next, <<offset + Len(PageRows(offset))>>)

\* confirmRepeatedPageIsComplete: without the document nothing is proved.
AnswerLayer ==
  fetch' = IF world.meta /\ RepeatedIsComplete(Len(PageRows(Head(fetch.todo))), world.cap)
             THEN Returned(fetch) ELSE Failed(fetch)

AnswerBoundary ==
  fetch' = IF PickBoundary = 0 THEN Failed(fetch) ELSE Returned(WithHeld({PickBoundary}))

Answered ==
  /\ trip.pc = "attempt" /\ trip' = NoTrip
  /\ CASE world.source = "overpass" -> AnswerBBox
       [] world.source = "arcgis" ->
            IF fetch.pc = "confirm" THEN AnswerLayer ELSE AnswerPage
       [] OTHER -> AnswerBoundary
  /\ UNCHANGED world

FetchStep ==
  \/ Begin \/ SendRequest \/ TransientFailure \/ Backoff \/ OutOfRetries \/ Answered

\* The command runs, a server answers or the connection fails at last.
UpstreamSpec == UpstreamInit /\ [][FetchStep]_upstreamVars /\ WF_upstreamVars(FetchStep)

-----------------------------------------------------------------------------
\* A fetch that returns holds everything there is, and nothing twice: each
\* feature of the city's box although elements lie across quadrants, each row
\* with a geometry whatever the server does with the offset, and of the
\* boundary candidates a polygon, a city's if any is.
Whole ==
  CASE world.source = "overpass" -> {UNION {Features(e) : e \in world.elements}}
    [] world.source = "arcgis" -> {{RowId(r, r) : r \in {i \in DOMAIN world.rows : world.rows[i]}}}
    [] OTHER -> {{i} : i \in IF CityPolygons # {} THEN CityPolygons ELSE Polygons}
ReturnedIsWhole ==
  fetch.pc = "returned" =>
    fetch.held \in Whole /\ fetch.appended = Cardinality(fetch.held)

\* Every fetch that was begun ends: retries, quadrants and pages are all
\* bounded, also against a server that repeats itself for ever.
FetchEnds == fetch.pc # "start" ~> fetch.pc \in {"returned", "failed"}
=============================================================================
