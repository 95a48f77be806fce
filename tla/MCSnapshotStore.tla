-------------------------- MODULE MCSnapshotStore --------------------------
(* A small instance of the result store: two cities, two config hashes,    *)
(* two parts.  Cities, hashes and parts are each interchangeable.          *)
EXTENDS SnapshotStore, TLC

StoreSymmetry == Permutations(City) \cup Permutations(Hash) \cup Permutations(Part)
=============================================================================
