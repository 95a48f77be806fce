----------------------------- MODULE MCDatabase -----------------------------
(* The database and those who use it: its opening, what ingest stores of    *)
(* the world, the results of computing on it, and an export that reads them *)
(* beside commits and deletions.  Each behaviour is one part's, the others  *)
(* stay as they began: no two of these models share a variable.             *)
EXTENDS MCIngest, MCSnapshotStore, MCSite, MCMig

VARIABLE part

vars == <<part, ingestVars, storeVars, siteVars, migrationVars>>

Init ==
  /\ part \in {"ingest", "store", "site", "migrations"}
  /\ IngestInit
  /\ StoreInit
  /\ SiteInit
  /\ MigrationInit
  /\ part # "migrations" =>
       /\ embedded = CHOOSE files \in FileSets : TRUE
       /\ database = EmptyDatabase

ButIngest == <<part, storeVars, siteVars, migrationVars>>
ButStore == <<part, ingestVars, siteVars, migrationVars>>
ButSite == <<part, ingestVars, storeVars, migrationVars>>
ButMigrations == <<part, ingestVars, storeVars, siteVars>>

Next ==
  \/ part = "ingest" /\ IngestNext /\ UNCHANGED ButIngest
  \/ part = "store" /\ StoreNext /\ UNCHANGED ButStore
  \/ part = "site" /\ SiteNext /\ UNCHANGED ButSite
  \/ part = "migrations" /\ MigrationNext /\ UNCHANGED ButMigrations

Spec == Init /\ [][Next]_vars

\* The .cfg names the cities and configurations of the store like the processes
\* and versions of ingest, so that one permutation of the names serves both.
ASSUME SharedNames == City = Proc /\ Hash = Version
=============================================================================
