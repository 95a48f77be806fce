-------------------------------- MODULE MCUp --------------------------------
(* Small upstream services: an Overpass server with features of every shape *)
(* or none, and any limit; ArcGIS layers of a few rows with every cap, way  *)
(* of paging and set of flags; Nominatim results.                           *)
EXTENDS Upstreams

LOCAL Element(type, id, cells, shape) ==
  [type |-> type, id |-> id, cells |-> cells, shape |-> shape,
   highway |-> id = 1, area |-> FALSE, tagged |-> id = 1]
LOCAL Elements == {
  Element("way", 1, {<<1, 1>>, <<1, 2>>, <<2, 1>>}, "ring"),
  Element("way", 2, {<<1, 1>>}, "line"),
  Element("relation", 1, {<<2, 1>>, <<3, 3>>}, "ring"),
  Element("relation", 2, {<<1, 1>>, <<4, 1>>}, "line"),
  Element("node", 1, {<<1, 2>>}, "point"),
  Element("node", 2, {<<4, 4>>}, "point"),
  Element("way", 3, {<<4, 2>>}, "stub")}

LOCAL OverpassWorlds ==
  [source : {"overpass"}, elements : {{}, Elements}, limit : {1, 2, 3, 6}, facility : BOOLEAN]

LOCAL ArcgisWorlds ==
  [source : {"arcgis"}, rows : UNION {[1..n -> BOOLEAN] : n \in 0..3} \cup {[n \in 1..4 |-> TRUE]},
   cap : 1..4, paging : {"none", "count", "offset"}, flag : BOOLEAN,
   ids : BOOLEAN, meta : BOOLEAN, private : {FALSE}]

LOCAL PrivateWorlds ==
  [source : {"arcgis"}, rows : {<<TRUE>>}, cap : {1}, paging : {"offset"},
   flag : {TRUE}, ids : {TRUE}, meta : {TRUE}, private : {TRUE}]

LOCAL NominatimWorlds ==
  [source : {"nominatim"},
   results : UNION {[1..n -> [city : BOOLEAN, polygon : BOOLEAN]] : n \in 0..2}]

MCWorlds == OverpassWorlds \cup ArcgisWorlds \cup PrivateWorlds \cup NominatimWorlds
=============================================================================
