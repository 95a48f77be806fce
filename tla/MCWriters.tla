----------------------------- MODULE MCWriters ------------------------------
(* Two writers at once: commands on the snapshots of a city, and a request  *)
(* beside a prune on the HTTP cache.  Each behaviour is one part's, the     *)
(* other stays as it began: they share no file.                             *)
EXTENDS MCDraftCommands, MCCachePrune

VARIABLE part

vars == <<part, commandVars, pruneVars>>

Init == part \in {"commands", "cache"} /\ CommandsInit /\ PruneInit

Next ==
  \/ part = "commands" /\ CommandsNext /\ UNCHANGED <<part, pruneVars>>
  \/ part = "cache" /\ PruneNext /\ UNCHANGED <<part, commandVars>>

Spec == Init /\ [][Next]_vars

\* The .cfg names the keys of the cache like the processes, so that one
\* permutation of the names serves both.
ASSUME SharedNames == Key = Proc
=============================================================================
