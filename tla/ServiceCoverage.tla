-------------------------- MODULE ServiceCoverage --------------------------
(***************************************************************************)
(* `pvmt services compute`: how long the nearest facility of a service     *)
(* (a fire station) takes to reach each hex over the stored roads          *)
(* (internal/services, pkg/cmd/services/compute.go).                       *)
(*                                                                         *)
(* A city's road rows become a directed graph of segments.  Every facility *)
(* snaps to a position along a segment, one Dijkstra search runs from all  *)
(* of them at once, and the hexes, in any order, each read the arrival     *)
(* time at the nearest position the search reached.  The finished coverage *)
(* is saved as the service's part; a city with nothing to route drops the  *)
(* part, and a cancelled run saves nothing.                                *)
(*                                                                         *)
(* Positions are points of a plane with whole coordinates and every        *)
(* segment is parallel to an axis, so that lengths are whole; distances    *)
(* are compared by their squares.  A time is a length times a Pace.        *)
(***************************************************************************)
EXTENDS Integers, Sequences, FiniteSets, SequencesExt, FiniteSetsExt

CONSTANTS
    Cities,        \* what the store and the config hold for a city
    Registry,      \* the registered services: name -> [turnout, threshold]
    SpeedByClass,  \* highway class -> km/h, for the classes listed
    DefaultSpeed,  \* km/h for any other road
    PaceUnit,      \* a road at v km/h takes PaceUnit \div v per unit of length
    HexSnap, FacilitySnap,   \* how far a hex and a facility may be from a road
    MinFacilityComponent     \* below it a facility counts as isolated

ASSUME RadiiAssumption == HexSnap \in Nat /\ FacilitySnap \in Nat

Point == Int \X Int
RoadTags == [oneway : STRING, highway : STRING, junction : STRING,
             maxspeed : [unit : STRING, value : Int]]

\* What the store and the configuration can hold.
ASSUME StreetAssumption ==
    /\ PaceUnit \in Nat /\ DefaultSpeed \in Nat \ {0}
    /\ \A class \in DOMAIN SpeedByClass : SpeedByClass[class] \in Nat \ {0}
    /\ \A p \in Cities :
         /\ p.roads \in Seq([api : STRING, tags : RoadTags, lines : Seq(Seq(Point))])
         /\ p.stations \in Seq(Point) /\ p.placed \in Seq([service : STRING, at : Point])
         /\ \A h \in DOMAIN p.hexes : p.hexes[h] \in Point

VARIABLES
    place,   \* the inputs of the run, one of Cities
    route    \* the run: its phase and what it has worked out so far

coverVars == <<place, route>>

-----------------------------------------------------------------------------
(***************************************************************************)
(* The inputs.                                                             *)
(***************************************************************************)

\* A maxspeed tag in km/h, or 0 when it is not a speed.
ParseMaxspeed(m) ==
    LET kmh == IF m.unit = "mph" THEN (m.value * 1609344) \div 1000000 ELSE m.value
    IN IF m.unit \in {"mph", "km/h", ""} /\ kmh \in 5..200 THEN kmh ELSE 0

SpeedKmh(tags) ==
    CASE ParseMaxspeed(tags.maxspeed) > 0 -> ParseMaxspeed(tags.maxspeed)
      [] ParseMaxspeed(tags.maxspeed) = 0 /\ tags.highway \in DOMAIN SpeedByClass -> SpeedByClass[tags.highway]
      [] OTHER -> DefaultSpeed

\* Which ways a road may be driven: motorways and roundabouts are one-way
\* unless the tag says otherwise.
Direction(tags) ==
    LET implied == tags.junction = "roundabout" \/ tags.highway \in {"motorway", "motorway_link"}
    IN CASE tags.oneway = "yes"     -> [fwd |-> TRUE,  back |-> FALSE]
         [] tags.oneway = "reverse" -> [fwd |-> FALSE, back |-> TRUE]
         [] tags.oneway = "no"      -> [fwd |-> TRUE,  back |-> TRUE]
         [] OTHER                   -> [fwd |-> TRUE,  back |-> ~implied]

\* A city ingested from both sources holds the same streets twice; only the
\* Overpass rows are used when there are any.
PreferredRoads(roads) ==
    LET osm == {r \in DOMAIN roads : roads[r].api = "overpass"}
    IN IF osm = {} THEN DOMAIN roads ELSE osm

\* The stations, then the places the configuration adds, each position once.
Facilities(p) ==
    LET Added(i) == /\ p.placed[i].service = p.service
                    /\ \A j \in 1..(i - 1) : p.placed[j].service = p.service => p.placed[j].at # p.placed[i].at
    IN p.stations
       \o FlattenSeq([i \in DOMAIN p.placed |-> IF Added(i) THEN <<p.placed[i].at>> ELSE <<>>])

\* A positive override replaces the registry's value; a later entry wins.
Resolve(p) ==
    LET Given(field) == {i \in DOMAIN p.overrides : p.overrides[i].name = p.service /\ p.overrides[i][field] > 0}
        Value(field) == IF Given(field) = {} THEN Registry[p.service][field]
                        ELSE p.overrides[Max(Given(field))][field]
    IN [turnout |-> Value("turnout"), threshold |-> Value("threshold")]

Registered(p) ==
    /\ p.service \in DOMAIN Registry
    /\ \A i \in DOMAIN p.overrides : p.overrides[i].name \in DOMAIN Registry

-----------------------------------------------------------------------------
(***************************************************************************)
(* The graph.  A vertex is its position: ways meet where they share one.   *)
(***************************************************************************)

Abs2(n) == IF n < 0 THEN -n ELSE n

\* The segments of a row: one per pair of consecutive, distinct vertices of
\* its lines, none for a geometry that is not a line.
SegmentsOf(roads, r) ==
    LET d == Direction(roads[r].tags)
        Leg(l, i) == LET a == roads[r].lines[l][i]
                         c == roads[r].lines[l][i + 1]
                     IN [leg |-> <<r, l, i>>, a |-> a, c |-> c,
                         length |-> Abs2(a[1] - c[1]) + Abs2(a[2] - c[2]),
                         pace |-> PaceUnit \div SpeedKmh(roads[r].tags), fwd |-> d.fwd, back |-> d.back]
    IN UNION {{s \in {Leg(l, i) : i \in 1..(Len(roads[r].lines[l]) - 1)} : s.a # s.c}
              : l \in DOMAIN roads[r].lines}

BuildGraph(p) == UNION {SegmentsOf(p.roads, r) : r \in PreferredRoads(p.roads)}

Vertices(segs) == UNION {{s.a, s.c} : s \in segs}

\* The weakly connected components: a one-way street still joins its ends.
Components(segs) ==
    FoldSet(LAMBDA s, parts :
                LET met == {c \in parts : s.a \in c \/ s.c \in c}
                IN (parts \ met) \cup {UNION met},
            {{v} : v \in Vertices(segs)}, segs)

ComponentSize(segs, v) == Cardinality(CHOOSE c \in Components(segs) : v \in c)

\* The nearest position on a segment: off is its distance from the a end.
SnapOn(s, at) ==
    LET dx == s.c[1] - s.a[1]
        dy == s.c[2] - s.a[2]
        along == ((at[1] - s.a[1]) * dx + (at[2] - s.a[2]) * dy) \div s.length
        off == Max({0, Min({s.length, along})})
        ex == (s.a[1] + (off * dx) \div s.length) - at[1]
        ey == (s.a[2] + (off * dy) \div s.length) - at[2]
    IN [seg |-> s, off |-> off, d2 |-> ex * ex + ey * ey]

SnapCandidates(segs, at, radius) ==
    {s \in {SnapOn(g, at) : g \in segs} : s.d2 <= radius * radius}

\* The nearest of the positions; the spatial index lists ties in any order.
Closest(snaps) == {s \in snaps : \A o \in snaps : s.d2 <= o.d2}

\* A facility prefers the largest component in range to the nearest stub.
SnapConnected(segs, at) ==
    LET near == SnapCandidates(segs, at, FacilitySnap)
        Size(s) == ComponentSize(segs, s.seg.a)
    IN Closest({s \in near : \A o \in near : Size(s) >= Size(o)})

-----------------------------------------------------------------------------
(***************************************************************************)
(* Seeds, arrivals and the drive along a single segment.                   *)
(***************************************************************************)

SeedsAt(s, f) ==
    LET g == s.seg
        toA == s.off
        toC == g.length - s.off
    IN (IF g.back \/ toA = 0 THEN {[node |-> g.a, cost |-> toA * g.pace, source |-> f]} ELSE {})
       \cup (IF g.fwd \/ toC = 0 THEN {[node |-> g.c, cost |-> toC * g.pace, source |-> f]} ELSE {})

\* Offers are compared by their seconds, then by the order they are tried in:
\* the a end, the c end, the facilities.
ArrivalAt(s, found) ==
    LET g == s.seg
        At(v, off, rank) ==
            {[secs |-> found[v].cost + off * g.pace, facility |-> found[v].source, rank |-> rank]}
    IN (IF g.a \in DOMAIN found /\ (g.fwd \/ s.off = 0) THEN At(g.a, s.off, -1) ELSE {})
       \cup (IF g.c \in DOMAIN found /\ (g.back \/ s.off = g.length) THEN At(g.c, g.length - s.off, 0) ELSE {})

\* Fault: a hex on a facility's own segment is reached by its ends only.
ByTheEndsOnly(from, to, f) == {}

AlongSegment(from, to, f) ==
    LET g == from.seg
        d == to.off - from.off
    IN IF from.seg = to.seg /\ (d = 0 \/ (d > 0 /\ g.fwd) \/ (d < 0 /\ g.back))
       THEN {[secs |-> Abs2(d) * g.pace, facility |-> f, rank |-> f]} ELSE {}

\* Every way the search offers to reach a position: by the ends of its
\* segment, or along it from a facility snapped onto the same segment.
Snapped(snaps) == {f \in DOMAIN snaps : snaps[f] # <<>>}
Offers(s, found, snaps) ==
    ArrivalAt(s, found) \cup UNION {AlongSegment(snaps[f][1], s, f) : f \in Snapped(snaps)}

\* The first of the quickest offers.
Quickest(offers) ==
    CHOOSE o \in offers :
        \A other \in offers : o.secs < other.secs \/ (o.secs = other.secs /\ o.rank <= other.rank)

\* The time and source of a vertex are replaced only by a better one; among
\* equals the first source stays.  Each better one enters the queue, where
\* all but the best of a vertex are stale.
Better(found, seed) == seed.node \notin DOMAIN found \/ seed.cost < found[seed.node].cost
Relaxed(r, seeds) ==
    LET better == {s \in seeds : Better(r.found, s)}
        nodes == {s.node : s \in better}
        Best(v) == CHOOSE s \in better :
                      /\ s.node = v
                      /\ \A o \in better : o.node = v =>
                            s.cost < o.cost \/ (s.cost = o.cost /\ s.source <= o.source)
    IN [r EXCEPT !.found = [v \in DOMAIN @ \cup nodes |->
                               IF v \in nodes THEN [cost |-> Best(v).cost, source |-> Best(v).source] ELSE @[v]],
                 !.queue = @ \cup {[node |-> s.node, cost |-> s.cost] : s \in better}]

-----------------------------------------------------------------------------
Blank == [phase |-> "load", segs |-> {}, snaps |-> <<>>, found |-> <<>>, queue |-> {},
          cover |-> <<>>, saved |-> <<>>, within |-> 0, median |-> 0, warned |-> {}]

\* route.snaps[f] is <<snap>> for a facility that snapped and <<>> otherwise.
CoverInit == place \in Cities /\ route = Blank

\* loadInputs: an unregistered service or override is refused, and so is a
\* run for which the database cannot be read; nothing to route from or over
\* drops the part; otherwise the graph is built.
LoadInputs ==
    /\ route.phase = "load"
    /\ \/ route' = [route EXCEPT !.phase = "refused"]
       \/ /\ Registered(place)
          /\ route' = IF place.roads = <<>> \/ Facilities(place) = <<>>
                      THEN [route EXCEPT !.phase = "dropped"]
                      ELSE [route EXCEPT !.phase = "snap", !.segs = BuildGraph(place)]
    /\ UNCHANGED place

\* The facilities snap in order, each to one of the nearest positions.
SnapFacility ==
    /\ route.phase = "snap"
    /\ Len(route.snaps) < Len(Facilities(place))
    /\ LET at == Facilities(place)[Len(route.snaps) + 1]
           near == SnapConnected(route.segs, at)
       IN \/ near = {} /\ route' = [route EXCEPT !.snaps = Append(@, <<>>)]
          \/ \E s \in near : route' = [route EXCEPT !.snaps = Append(@, <<s>>)]
    /\ UNCHANGED place

\* The seeds enter the queue, each only if it beats what is known.
\* With no facility on the network there is no search and no coverage.
Seed ==
    /\ route.phase = "snap"
    /\ Len(route.snaps) = Len(Facilities(place))
    /\ route' = Relaxed([route EXCEPT !.phase = "search"],
                        UNION {SeedsAt(route.snaps[f][1], f) : f \in Snapped(route.snaps)})
    /\ UNCHANGED place

\* The edges leaving a vertex.
EdgesFrom(segs, v) ==
    {[to |-> s.c, cost |-> s.length * s.pace] : s \in {s \in segs : s.fwd /\ s.a = v}}
    \cup {[to |-> s.a, cost |-> s.length * s.pace] : s \in {s \in segs : s.back /\ s.c = v}}

\* Take a cheapest item off the heap; a stale one is skipped, any other
\* relaxes the edges of its vertex.
Pop ==
    /\ route.phase = "search"
    /\ \E cur \in route.queue :
        /\ \A o \in route.queue : cur.cost <= o.cost
        /\ LET rest == [route EXCEPT !.queue = @ \ {cur}]
               known == route.found[cur.node]
           IN route' = IF cur.cost > known.cost THEN rest
                       ELSE Relaxed(rest, {[node |-> e.to, cost |-> cur.cost + e.cost, source |-> known.source]
                                             : e \in EdgesFrom(route.segs, cur.node)})
    /\ UNCHANGED place

\* A worker covers one hex: it takes the nearest position that some facility
\* reaches.  A hex with none gets no value.
CoverHex(h) ==
    /\ route.phase = "search" /\ route.queue = {}
    /\ h \notin DOMAIN route.cover
    /\ LET Reached(s) == Offers(s, route.found, route.snaps)
           near == Closest({s \in SnapCandidates(route.segs, place.hexes[h], HexSnap) : Reached(s) # {}})
           Record(value) == route' = [route EXCEPT !.cover =
                [x \in DOMAIN @ \cup {h} |-> IF x = h THEN value ELSE @[x]]]
       IN \/ near = {} /\ Record(<<>>)
          \/ \E s \in near :
                LET q == Quickest(Reached(s))
                IN Record(<<[seconds |-> Resolve(place).turnout + q.secs, facility |-> q.facility]>>)
    /\ UNCHANGED place

\* The middle of the sorted times, the upper one when they are even.
Median(times) ==
    LET sorted == SortSeq(SetToSeq({<<times[h], h>> : h \in DOMAIN times}), LAMBDA x, y : x[1] < y[1])
    IN sorted[Len(sorted) \div 2 + 1][1]

\* The facilities a warning names: those off the network, and those on a
\* fragment too small to lead anywhere.
Stranded ==
    {f \in DOMAIN route.snaps :
        route.snaps[f] # <<>> => ComponentSize(route.segs, route.snaps[f][1].seg.a) < MinFacilityComponent}

\* All hexes done: the run is saved, also when it reached nothing, and the
\* row says how many hexes are within the threshold of travel.
SaveRoute ==
    /\ route.phase = "search" /\ route.queue = {}
    /\ DOMAIN route.cover = DOMAIN place.hexes
    /\ LET times == [h \in {h \in DOMAIN route.cover : route.cover[h] # <<>>} |-> route.cover[h][1].seconds]
           spec == Resolve(place)
       IN route' = [route EXCEPT !.phase = "saved", !.saved = route.cover,
                        !.within = Cardinality({h \in DOMAIN times : times[h] - spec.turnout <= spec.threshold}),
                        !.median = IF DOMAIN times = {} THEN 0 ELSE Median(times),
                        !.warned = Stranded]
    /\ UNCHANGED place

\* Cancelling stops the graph, the search or the hexes part way; whatever
\* was covered so far is not saved.
CancelRoute ==
    /\ route.phase \in {"snap", "search"}
    /\ route' = [route EXCEPT !.phase = "cancelled"]
    /\ UNCHANGED place

CoverNext ==
    \/ LoadInputs \/ SnapFacility \/ Seed \/ Pop \/ SaveRoute \/ CancelRoute
    \/ \E h \in DOMAIN place.hexes : CoverHex(h)

CoverSpec == CoverInit /\ [][CoverNext]_coverVars

-----------------------------------------------------------------------------
(***************************************************************************)
(* The reference: every whole position of every segment, moved along one   *)
(* unit at a time the way its segment may be driven, with no vertices,     *)
(* seeds or priority queue.                                                *)
(***************************************************************************)

\* A position of a segment; the ends of segments that meet are one spot.
Spot(s, off) ==
    CASE off = 0        -> s.a
      [] off = s.length -> s.c
      [] OTHER          -> <<s.leg, off, "between">>

\* The steps <<from, to, cost>> of one unit along a segment.
Steps(segs) ==
    (UNION {{<<Spot(s, off - 1), Spot(s, off), s.pace>> : off \in 1..s.length} : s \in {s \in segs : s.fwd}})
    \cup (UNION {{<<Spot(s, off), Spot(s, off - 1), s.pace>> : off \in 1..s.length} : s \in {s \in segs : s.back}})

\* The least times from a spot, as pairs <<spot, time>>: by rounds of taking
\* every step, as many as there are steps.
Round(steps, times) ==
    LET more == times \cup UNION {{<<e[2], d[2] + e[3]>> : e \in {e \in steps : e[1] = d[1]}} : d \in times}
    IN {d \in more : \A o \in more : o[1] = d[1] => d[2] <= o[2]}
DriveTimes(segs, from) ==
    LET steps == Steps(segs)
        best[n \in 0..Cardinality(steps)] == IF n = 0 THEN {<<from, 0>>} ELSE Round(steps, best[n - 1])
    IN best[Cardinality(steps)]

\* The coverage that is saved is true of the positions it looks at, the one
\* nearest to the hex on each segment in range: a hex has the turnout plus the
\* least time some facility can legally drive to the nearest of those that one
\* can reach, from the facility it names; a hex none of whose positions can be
\* reached has no value, even where further along a one-way segment one could
\* be; and the share reported as covered counts the hexes within the travel
\* threshold.  Whatever the ties, the order in which the search ran and the
\* workers finished.
\* [services.BuildGraph, ShortestFromSeeds, ComputeCoverage, route, summarize]
SavedCoverageIsTrue ==
    route.phase = "saved" =>
        LET SpotOf(s) == Spot(s.seg, s.off)
            times == UNION {{<<f, d[1], d[2]>> : d \in DriveTimes(route.segs, SpotOf(route.snaps[f][1]))}
                            : f \in Snapped(route.snaps)}
            spec == Resolve(place)
            Times(s) == {d[3] : d \in {x \in times : x[2] = SpotOf(s)}}
            Near(h) == Closest({s \in SnapCandidates(route.segs, place.hexes[h], HexSnap) : Times(s) # {}})
        IN /\ \A h \in DOMAIN place.hexes :
                IF Near(h) = {} THEN route.saved[h] = <<>>
                ELSE \E s \in Near(h) :
                        /\ route.saved[h] # <<>>
                        /\ route.saved[h][1].seconds = spec.turnout + Min(Times(s))
                        /\ <<route.saved[h][1].facility, SpotOf(s), Min(Times(s))>> \in times
           /\ route.within = Cardinality({h \in DOMAIN place.hexes : route.saved[h] # <<>>
                                              /\ route.saved[h][1].seconds - spec.turnout <= spec.threshold})

=============================================================================
