-------------------------------- MODULE MCMig -------------------------------
(* Databases as a build finds them: new, its own, its own half migrated, of *)
(* an older and of a newer generation, of a later build; and its files.     *)
EXTENDS Migrations

MCFound == {EmptyDatabase,
  [generation |-> 2, versions |-> {1}, schema |-> <<0, 1>>],
  [generation |-> 2, versions |-> {}, schema |-> <<>>],
  [generation |-> 2, versions |-> {1,2,10,11}, schema |-> <<0, 1,2,10,11>>],
  [generation |-> 0, versions |-> {1}, schema |-> <<0, 1>>],
  [generation |-> 1, versions |-> {1}, schema |-> <<0, 1>>],
  [generation |-> 3, versions |-> {}, schema |-> <<>>]}
LOCAL File(v, n) == [version |-> v, name |-> n]
MCFileSets == {{File(1, "a"), File(2,"b"), File(10,"c")}, {File(1, "a"), File(1, "b")}}
=============================================================================
