--------------------------- MODULE SnapshotStore ---------------------------
(***************************************************************************)
(* The result store of internal/db: the tables runs, snapshots,            *)
(* snapshot_parts and the per-run result tables, and the transactions of   *)
(* the Store interface that change them.  A run is one producer's output;  *)
(* a snapshot is a manifest, one run per part.  Every action is atomic in  *)
(* SQLite: a write transaction (withTx, BEGIN IMMEDIATE), or a statement   *)
(* that commits by itself, as the INSERT of CreateRun does.                *)
(*                                                                         *)
(* Snapshots and their snapshot_parts rows are one function: the primary   *)
(* key (snapshot_id, part) makes a manifest a function, and the run id 0,  *)
(* which no row ever has, stands for "no such part" just as in the code's  *)
(* overlays.  Ids come from AUTOINCREMENT sequences and are never reused.  *)
(*                                                                         *)
(* StoreSpec lets a client make every call in any order, with any run id:  *)
(* what it guarantees holds whatever the commands do.                      *)
(***************************************************************************)
EXTENDS Naturals, Functions

CONSTANTS City,          \* city ids
          Hash,          \* config hashes
          Part,          \* snapshot parts, also the producers of runs
          Row,           \* contents of one result row
          MaxRuns,       \* bound: runs ever created
          MaxSnapshots   \* bound: snapshots ever created

ASSUME BoundsAssumption == MaxRuns \in Nat /\ MaxSnapshots \in Nat

VARIABLES runs,          \* run id -> its row of the runs table
          rows,          \* result rows, each tagged with its run
          expired,       \* runs whose computed_at is past OrphanRunGrace
          snapshots,     \* snapshot id -> its row and manifest
          runSeq,        \* last run id handed out
          snapshotSeq    \* last snapshot id handed out

storeVars == <<runs, rows, expired, snapshots, runSeq, snapshotSeq>>

RunId == 1..MaxRuns
Run == [city: City, producer: Part, hash: Hash]
Manifest == [Part -> 0..MaxRuns]
Snapshot == [city: City, hash: Hash, parts: Manifest]

\* What a commit or a WithParts view changes: part -> run, 0 removing it.
Change == UNION {[touched -> 0..MaxRuns] : touched \in SUBSET Part}

----------------------------------------------------------------------------
(* Reading                                                                 *)

NoParts == [p \in Part |-> 0]

SnapshotsOf(c, h) ==
  {s \in DOMAIN snapshots : snapshots[s].city = c /\ snapshots[s].hash = h}

\* The newest snapshot by id, 0 when there is none.
Newest(ids) == IF ids = {} THEN 0 ELSE CHOOSE s \in ids : \A t \in ids : t <= s

NewestSnapshotID(c, h) == Newest(SnapshotsOf(c, h))

\* A snapshot's manifest; empty for id 0, a deleted id or another city's.
SnapshotParts(c, s) ==
  IF s \in DOMAIN snapshots /\ snapshots[s].city = c
    THEN snapshots[s].parts ELSE NoParts

ApplyParts(base, change) ==
  [p \in Part |-> IF p \in DOMAIN change THEN change[p] ELSE base[p]]

\* Every run some snapshot's manifest names.
Referenced ==
  {snapshots[s].parts[p] : s \in DOMAIN snapshots, p \in Part} \ {0}

RowsOf(r) == {x.row : x \in {y \in rows : y.run = r}}

----------------------------------------------------------------------------
(* Writing                                                                 *)

\* Fault: the runs go, their rows stay.
DeleteRunsKeepingRows(c, R) ==
  LET owned == {r \in R \cap DOMAIN runs : runs[r].city = c}
  IN  /\ runs' = Restrict(runs, DOMAIN runs \ owned)
      /\ expired' = expired \ owned
      /\ UNCHANGED <<rows, runSeq, snapshotSeq>>

\* The runs of the city among R go, with every row they wrote.
DeleteRuns(c, R) ==
  LET owned == {r \in R \cap DOMAIN runs : runs[r].city = c}
  IN  /\ runs' = Restrict(runs, DOMAIN runs \ owned)
      /\ rows' = {x \in rows : x.run \notin owned}
      /\ expired' = expired \ owned
      /\ UNCHANGED <<runSeq, snapshotSeq>>

\* Fault: without AUTOINCREMENT the id after the largest live one is handed out.
CreateRunReusingIds(c, p, h) ==
  /\ \E r \in RunId \ DOMAIN runs :
       /\ \A q \in DOMAIN runs : q < r
       /\ \A q \in 1..(r - 1) : \E o \in DOMAIN runs : q <= o
       /\ runs' = [q \in DOMAIN runs \cup {r} |->
                     IF q = r THEN [city |-> c, producer |-> p, hash |-> h]
                              ELSE runs[q]]
  /\ UNCHANGED <<rows, expired, snapshots, runSeq, snapshotSeq>>

\* The INSERT of CreateRun, which commits.  The SELECT that follows it changes
\* nothing here; what its failure does to the caller is the caller's to model.
CreateRun(c, p, h) ==
  /\ runSeq < MaxRuns
  /\ runSeq' = runSeq + 1
  /\ runs' = [r \in DOMAIN runs \cup {runSeq'} |->
                IF r = runSeq' THEN [city |-> c, producer |-> p, hash |-> h]
                               ELSE runs[r]]
  /\ UNCHANGED <<rows, expired, snapshots, snapshotSeq>>

\* A save inserts rows; the run_id foreign key refuses a run that is gone.
SaveRow(r, x) ==
  /\ r \in DOMAIN runs
  /\ rows' = rows \cup {[run |-> r, row |-> x]}
  /\ UNCHANGED <<runs, expired, snapshots, runSeq, snapshotSeq>>

\* Hex metrics replace the (metric, run) slice, possibly by nothing at all.
\* With nothing to insert no foreign key is checked.
ReplaceRows(r, gone, new) ==
  /\ new # {} => r \in DOMAIN runs
  /\ rows' = (rows \ [run: {r}, row: gone]) \cup [run: {r}, row: new]
  /\ UNCHANGED <<runs, expired, snapshots, runSeq, snapshotSeq>>

\* Refused for a run some snapshot references.
DiscardRun(c, r) ==
  /\ r \notin Referenced
  /\ DeleteRuns(c, {r})
  /\ UNCHANGED snapshots

\* Fault: the runs a commit adds are taken on trust.
CommitRunsUnchecked(c, h, change) == c \in City /\ h \in Hash /\ change \in Change

\* The runs a commit adds exist in the city, fill the part they were produced
\* for, and carry the snapshot's hash.
CommitRunsOK(c, h, change) ==
  \A p \in DOMAIN change :
    change[p] # 0 =>
      /\ change[p] \in DOMAIN runs
      /\ runs[change[p]] = [city |-> c, producer |-> p, hash |-> h]

InsertSnapshot(c, h, manifest) ==
  /\ snapshotSeq < MaxSnapshots
  /\ snapshotSeq' = snapshotSeq + 1
  /\ snapshots' = [s \in DOMAIN snapshots \cup {snapshotSeq'} |->
                     IF s = snapshotSeq'
                       THEN [city |-> c, hash |-> h, parts |-> manifest]
                       ELSE snapshots[s]]

\* Fault: the manifest holds the draft's own parts only.
CommitOwnParts(c, h, change) ==
  /\ CommitRunsOK(c, h, change)
  /\ InsertSnapshot(c, h, ApplyParts(NoParts, change))
  /\ UNCHANGED <<runs, rows, expired, runSeq>>

\* The next snapshot: the newest of the same hash with the change applied.
\* A commit that changes nothing writes nothing.
CommitSnapshot(c, h, change) ==
  LET base     == SnapshotParts(c, NewestSnapshotID(c, h))
      manifest == ApplyParts(base, change)
  IN  /\ CommitRunsOK(c, h, change)
      /\ IF manifest = base
           THEN UNCHANGED <<snapshots, snapshotSeq>>
           ELSE InsertSnapshot(c, h, manifest)
      /\ UNCHANGED <<runs, rows, expired, runSeq>>

\* Fault: the manifest goes with every run it names, shared ones too.
DeleteSnapshotAndRuns(c, s) ==
  /\ s \in DOMAIN snapshots
  /\ snapshots[s].city = c
  /\ snapshots' = Restrict(snapshots, DOMAIN snapshots \ {s})
  /\ DeleteRuns(c, Range(snapshots[s].parts))

\* The manifest goes, then those of its runs that nothing references any more.
DeleteSnapshot(c, s) ==
  /\ s \in DOMAIN snapshots
  /\ snapshots[s].city = c
  /\ snapshots' = Restrict(snapshots, DOMAIN snapshots \ {s})
  /\ DeleteRuns(c, Range(snapshots[s].parts) \ Referenced')

\* Fault: unreferenced runs are orphans however young they are.
UnreferencedRuns(c) ==
  {r \in DOMAIN runs : runs[r].city = c /\ r \notin Referenced}

\* Fault: every run past the grace period is an orphan.
OldRuns(c) == {r \in expired : runs[r].city = c}

OrphanRuns(c) ==
  {r \in expired : runs[r].city = c /\ r \notin Referenced}

GCSweep(c) ==
  /\ DeleteRuns(c, OrphanRuns(c))
  /\ UNCHANGED snapshots

\* Time passes: a run becomes older than OrphanRunGrace.
Expire(r) ==
  /\ r \in DOMAIN runs
  /\ expired' = expired \cup {r}
  /\ UNCHANGED <<runs, rows, snapshots, runSeq, snapshotSeq>>

----------------------------------------------------------------------------
StoreInit ==
  /\ runs = [r \in {} |-> 0]
  /\ rows = {}
  /\ expired = {}
  /\ snapshots = [s \in {} |-> 0]
  /\ runSeq = 0
  /\ snapshotSeq = 0

StoreNext ==
  \/ \E c \in City, p \in Part, h \in Hash : CreateRun(c, p, h)
  \/ \E r \in RunId, x \in Row : SaveRow(r, x)
  \/ \E r \in RunId, gone, new \in SUBSET Row : ReplaceRows(r, gone, new)
  \/ \E c \in City, r \in RunId : DiscardRun(c, r)
  \/ \E c \in City, h \in Hash, change \in Change : CommitSnapshot(c, h, change)
  \/ \E c \in City, s \in DOMAIN snapshots : DeleteSnapshot(c, s)
  \/ \E c \in City : GCSweep(c)
  \/ \E r \in RunId : Expire(r)

StoreSpec == StoreInit /\ [][StoreNext]_storeVars

----------------------------------------------------------------------------
(* Properties                                                              *)

\* The tables are well typed and ids stay within what was handed out.
StoreTypeOK ==
  /\ runSeq \in 0..MaxRuns
  /\ snapshotSeq \in 0..MaxSnapshots
  /\ DOMAIN runs \subseteq 1..runSeq
  /\ \A r \in DOMAIN runs : runs[r] \in Run
  /\ DOMAIN snapshots \subseteq 1..snapshotSeq
  /\ \A s \in DOMAIN snapshots : snapshots[s] \in Snapshot
  /\ expired \subseteq DOMAIN runs
  /\ rows \subseteq [run: RunId, row: Row]

\* Every run a manifest names still exists, belongs to the snapshot's city,
\* was produced for that part and carries the snapshot's hash
\* (checkCommitRuns, the guards of DiscardRun, GCSweep and DeleteSnapshot).
ManifestsIntact ==
  \A s \in DOMAIN snapshots, p \in Part :
    LET r == snapshots[s].parts[p]
    IN  r # 0 => /\ r \in DOMAIN runs
                 /\ runs[r] = [city |-> snapshots[s].city, producer |-> p,
                               hash |-> snapshots[s].hash]

\* No result row outlives its run, whoever removed it (the REFERENCES
\* runs(id) clauses of 001_init.sql: deleteRuns clears every result table
\* first).
RowsHaveRuns == \A x \in rows : x.run \in DOMAIN runs
=============================================================================
