------------------------------- MODULE MCCover ------------------------------
(* A block of streets with a driveway inside and the agency's copy of one   *)
(* side, in the directions and limits that matter, and stations beside it.  *)
EXTENDS ServiceCoverage

LOCAL Tags(oneway, highway, junction, maxspeed) ==
    [oneway |-> oneway, highway |-> highway, junction |-> junction, maxspeed |-> maxspeed]
LOCAL NoLimit == [unit |-> "", value |-> 0]
LOCAL RoadRow(api, tags, lines) == [api |-> api, tags |-> tags, lines |-> lines]

\* A block: a street along two sides and another along the other two, a
\* driveway inside it that joins neither, and the agency's copy of a side.
LOCAL Block(one, two, limit) ==
    <<RoadRow("overpass", Tags(one, "residential", "", limit), << <<<<0, 0>>, <<4, 0>>, <<4, 3>>>> >>),
      RoadRow("arcgis",   Tags("", "", "", NoLimit), << <<<<0, 1>>, <<4, 1>>>> >>),
      RoadRow("overpass", Tags(two, "motorway", "", NoLimit), << <<<<4, 3>>, <<0, 3>>>>, <<<<0, 3>>, <<0, 0>>>> >>),
      RoadRow("overpass", Tags("", "service", "", NoLimit), << <<<<1, 1>>, <<2, 1>>, <<2, 1>>>> >>),
      RoadRow("overpass", Tags("", "service", "", NoLimit), <<>>)>>

LOCAL Mapped(roads, stations, placed, overrides, service) ==
    [roads |-> roads, stations |-> stations, placed |-> placed, overrides |-> overrides,
     service |-> service, hexes |-> [x \in {"h1", "h2"} |-> IF x = "h1" THEN <<3, 1>> ELSE <<1, 2>>]]

LOCAL At(p) == [service |-> "fire", at |-> p]
LOCAL Override(n, t, m) == [name |-> n, turnout |-> t, threshold |-> m]

MCCities ==
    {Mapped(Block(one, two, limit), stations, placed, <<>>, "fire") :
        one \in {"yes", "reverse", "no"}, two \in {"", "no", "reverse"},
        limit \in {[unit |-> "mph", value |-> 25], [unit |-> "", value |-> 3]},
        stations \in {<<>>, <<<<1, 0>>>>, <<<<3, -1>>, <<1, 4>>>>, <<<<2, 3>>, <<9, 9>>, <<4, 2>>>>},
        placed \in {<<>>, <<At(<<2, 2>>), [service |-> "library", at |-> <<0, 0>>], At(<<2, 2>>)>>}}
    \cup {Mapped(roads, <<<<1, 0>>>>, <<>>, over, "fire") :
            roads \in {<<>>, <<RoadRow("arcgis", Tags("", "", "", NoLimit), << <<<<0, 1>>, <<4, 1>>>> >>)>>},
            over \in {<<Override("fire", 5, 0)>>, <<Override("fire", 0, 1), Override("fire", 0, 9)>>,
                      <<Override("police", 1, 1)>>}}

MCRegistry == [x \in {"fire"} |-> [turnout |-> 2, threshold |-> 12]]
MCSpeeds == [x \in {"residential", "service", "motorway"} |->
                CASE x = "residential" -> 40 [] x = "service" -> 20 [] OTHER -> 100]
FirstPlace == CHOOSE c \in Cities : c.roads = <<>>
=============================================================================
