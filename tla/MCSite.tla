------------------------------- MODULE MCSite -------------------------------
(* A small site: two cities, one of them without a boundary, and two        *)
(* snapshots of the other, the older under another configuration.           *)
EXTENDS SiteExport

CONSTANTS c1, c2
MCSiteCities == <<c1, c2>>
MCExisting == [s \in 1..2 |-> [city |-> c1, hash |-> IF s = 1 THEN OtherHash ELSE Current, parts |-> {"roads"}]]
=============================================================================
