----------------------------- MODULE Migrations -----------------------------
(***************************************************************************)
(* Opening the database (internal/db Open, migrate): processes that start  *)
(* together, each checking the schema generation and applying the          *)
(* numbered migration files, any of them killed or failing on the way.     *)
(*                                                                         *)
(* One action is one statement outside a transaction, or one transaction:  *)
(* every BEGIN is immediate (_txlock), so applyMigration's transaction     *)
(* holds the write lock from its first read to its commit, and a killed or *)
(* failed one leaves nothing.  A migration's statements are abstracted to  *)
(* its version joining `schema`, the log of what was executed.             *)
(***************************************************************************)
EXTENDS Naturals, Sequences

CONSTANTS Opener,            \* processes that open the database
          FileSets,          \* what may be embedded: sets of [version, name]
          SchemaGeneration,  \* the generation this pvmt creates
          FoundDatabases,    \* the databases that may be found at the path
          MaxOpens           \* bound: Open calls

ASSUME MigrationAssumption ==
  /\ SchemaGeneration \in Nat \ {0} /\ MaxOpens \in Nat
  /\ \A files \in FileSets : \A f \in files : f.version \in Nat \ {0}

VARIABLES embedded,  \* the migration files of this pvmt
          database,  \* [generation, versions, schema]: user_version, the
                     \*   schema_version rows, the statements executed
          opening,   \* process -> the Open call it is in
          opens      \* Open calls so far

migrationVars == <<embedded, database, opening, opens>>

\* The bookkeeping table, with its unique index, is logged as version 0.
Bookkeeping == 0
EmptyDatabase == [generation |-> 0, versions |-> {}, schema |-> <<>>]
HasTables(d) == d.schema # <<>>
Executed(d) == {d.schema[i] : i \in DOMAIN d.schema}

\* What any build that knows these files leaves behind: the versions recorded
\* were executed, each once and in numeric order, and none was left out.
Orderly(d, files) ==
  /\ Executed(d) = IF HasTables(d) THEN d.versions \cup {Bookkeeping} ELSE d.versions
  /\ \A i, j \in DOMAIN d.schema : i < j => d.schema[i] < d.schema[j]
  /\ \A f \in files, v \in d.versions : f.version <= v => f.version \in d.versions

\* Migrations are only ever added behind the last one, so that also a later
\* build's database is orderly; nothing is assumed of another generation's.
ASSUME FoundAssumption ==
  \A d \in FoundDatabases :
    /\ d \in [generation : Nat, versions : SUBSET (Nat \ {Bookkeeping}), schema : Seq(Nat)]
    /\ d.generation = SchemaGeneration \/ ~HasTables(d) =>
         \A files \in FileSets : Orderly(d, files)

Closed == [pc |-> "closed", generation |-> 0, current |-> 0]

MigrationInit ==
  /\ embedded \in FileSets
  /\ database \in FoundDatabases
  /\ opening = [p \in Opener |-> Closed]
  /\ opens = 0

\* The files still to apply, in numeric order and not in that of their names.
Pending(current) == {f \in embedded : f.version > current}
Lowest(files) == CHOOSE f \in files : \A g \in files : f.version <= g.version
DuplicateVersion ==
  \E f, g \in embedded : f # g /\ f.version = g.version

Step(p, pc) == opening' = [opening EXCEPT ![p].pc = pc]

\* Open, up to PRAGMA user_version.
ReadGeneration(p) ==
  /\ opening[p].pc \in {"closed", "refused", "failed"} /\ opens < MaxOpens
  /\ opens' = opens + 1
  /\ opening' = [opening EXCEPT ![p] =
       [Closed EXCEPT !.pc = IF database.generation = SchemaGeneration THEN "ensure" ELSE "count",
                      !.generation = database.generation]]
  /\ UNCHANGED database

\* Fault: whatever tables an unstamped database has.
StampsAnyOld(p) == opening[p].generation = 0

\* The table count, a statement of its own; only an empty database of no
\* generation is stamped, by a third one.
Stampable(p) == opening[p].generation = 0 /\ ~HasTables(database)
CountTables(p) ==
  /\ opening[p].pc = "count"
  /\ Step(p, IF Stampable(p) THEN "stamp" ELSE "refused")
  /\ UNCHANGED <<database, opens>>

StampGeneration(p) ==
  /\ opening[p].pc = "stamp"
  /\ database' = [database EXCEPT !.generation = SchemaGeneration]
  /\ Step(p, "ensure")
  /\ UNCHANGED opens

\* ensureSchemaVersion: the table, then the highest version recorded.  The
\* index, a second statement, is left to the first one: it is created by every
\* process that goes on, and CountTables does not count it.
EnsureSchemaVersion(p) ==
  /\ opening[p].pc = "ensure"
  /\ database' = [database EXCEPT !.schema =
       IF Bookkeeping \in Executed(database) THEN @ ELSE Append(@, Bookkeeping)]
  /\ Step(p, "version")
  /\ UNCHANGED opens

Highest(V) == IF V = {} THEN 0 ELSE CHOOSE v \in V : \A w \in V : w <= v
ReadVersion(p) ==
  /\ opening[p].pc = "version"
  /\ opening' = [opening EXCEPT
       ![p].pc = IF DuplicateVersion THEN "failed" ELSE "apply",
       ![p].current = Highest(database.versions)]
  /\ UNCHANGED <<database, opens>>

\* applyMigration of the next pending file: one transaction, skipped when the
\* version is recorded by now.
Applied(d, f) ==
  IF f.version \in d.versions THEN d
  ELSE [d EXCEPT !.versions = @ \cup {f.version}, !.schema = Append(@, f.version)]
Migrated(p, f, d, pc) ==
  /\ database' = d
  /\ opening' = [opening EXCEPT ![p].current = f.version, ![p].pc = pc]
\* Fault: the statements run, and the version is recorded, each on its own.
MigrateUnlocked(p, f) ==
  \/ Migrated(p, f, Applied(database, f), "apply")
  \/ Migrated(p, f, [Applied(database, f) EXCEPT !.versions = database.versions], "failed")
MigrateInTx(p, f) == Migrated(p, f, Applied(database, f), "apply")
ApplyMigration(p) ==
  LET pending == Pending(opening[p].current)
  IN /\ opening[p].pc = "apply"
     /\ IF pending = {} THEN Step(p, "open") /\ UNCHANGED database
                        ELSE MigrateInTx(p, Lowest(pending))
     /\ UNCHANGED opens

\* A statement fails, a file cannot be executed, or the process is killed:
\* the database is closed, an open transaction rolled back.
FailOpen(p) ==
  /\ opening[p].pc \in {"count", "stamp", "ensure", "version", "apply"}
  /\ Step(p, "failed")
  /\ UNCHANGED <<database, opens>>

CloseDatabase(p) ==
  opening[p].pc = "open" /\ Step(p, "closed") /\ UNCHANGED <<database, opens>>

OpenStep(p) ==
  \/ ReadGeneration(p) \/ CountTables(p) \/ StampGeneration(p)
  \/ EnsureSchemaVersion(p) \/ ReadVersion(p) \/ ApplyMigration(p)

MigrationNext ==
  /\ \E p \in Opener : OpenStep(p) \/ FailOpen(p) \/ CloseDatabase(p)
  /\ UNCHANGED embedded

MigrationSpec == MigrationInit /\ [][MigrationNext]_migrationVars

-----------------------------------------------------------------------------
\* A process that Open let through works on the schema of all its migration
\* files, each executed exactly once and in numeric order, whoever else opened
\* the same new database and whoever was killed on the way.
OpenedSchemaIsComplete ==
  \A p \in Opener : opening[p].pc = "open" =>
    /\ database.generation = SchemaGeneration
    /\ ~DuplicateVersion
    /\ {f.version : f \in embedded} \subseteq database.versions
    /\ Executed(database) = database.versions \cup {Bookkeeping}
    /\ \A i, j \in 1..Len(database.schema) :
         i < j => database.schema[i] < database.schema[j]

\* A database of another generation is refused as it was found: no process
\* stamps it, adds a table to it or applies a migration to it.
Foreign(d) == d.generation # SchemaGeneration /\ d # EmptyDatabase
ForeignDatabaseUntouched ==
  [][Foreign(database) => database' = database]_migrationVars
=============================================================================
