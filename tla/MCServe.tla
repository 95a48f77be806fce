------------------------------ MODULE MCServe -------------------------------
(* A small instance of the server: two cities, one of them without a        *)
(* boundary, and three clients of which each asks for what the others       *)
(* build: a page, a data file of the newest or of a pinned snapshot, the    *)
(* list of cities, and a city there is not.                                 *)
EXTENDS ServeCache

CONSTANTS c1, c2

LOCAL W(op, c, f, s) == [op |-> op, city |-> c, file |-> f, snapshot |-> s]

MCCities == <<c1, c2>>

MCWants == <<
  {W("play", c2, "none", 0), W("data", c1, "forecast", 0)},
  {W("data", c1, "hexcost", 0), W("data", c1, "meta", 2)},
  {W("play", Unknown, "none", 0), W("cities", Unknown, "none", 0),
   W("data", c1, "forecast", 0), W("data", c1, "meta", 1)}>>
=============================================================================
