------------------------------ MODULE MCIngest ------------------------------
(* Small instances of ingest: roads from the two sources a city can have,   *)
(* and a resource with a source of its own.                                 *)
EXTENDS Ingest, TLC

CONSTANTS roads, facilities, overpass, arcgis

MCSourcesOf == roads :> {overpass, arcgis} @@ facilities :> {overpass}

\* Roads alone, from one source.
MCRoadSources == roads :> {overpass}
=============================================================================
