---------------------------- MODULE MCCachePrune ----------------------------
(* Small instances of the HTTP cache, with and without a prune beside it.  *)
EXTENDS CachePrune, TLC

MCFileSize == [kind \in Kind |-> IF kind = "body" THEN 2 ELSE 1]

CacheSymmetry == Permutations(Key) \cup Permutations(Client)
=============================================================================
