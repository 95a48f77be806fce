------------------------ MODULE DraftCommandsProofs -------------------------
(***************************************************************************)
(* The result store and the commands that work on it, for every set of     *)
(* cities, hashes, parts, rows, processes and resources and every bound.   *)
(*                                                                         *)
(* First the store alone, whatever calls its clients make; then the        *)
(* commands as its clients; then who owns a run, what readers of the       *)
(* published snapshots can rely on, and what a published part holds.       *)
(***************************************************************************)
EXTENDS DraftCommands, WellFoundedInduction, TLAPS, SequenceTheorems

-----------------------------------------------------------------------------
(***************************************************************************)
(* Proofs about the result store, for every set of cities, hashes, parts   *)
(* and rows and every bound: its invariants hold whatever calls its        *)
(* clients make, in whatever order.                                        *)
(*                                                                         *)
(* StoreInv, the conjunction of the three invariants, is inductive.  The   *)
(* two arguments that matter are DeletingRuns (a deletion that spares the  *)
(* runs still referenced leaves every manifest intact) and BaseIsIntact    *)
(* (the manifest a commit builds on is a snapshot of the same city AND     *)
(* hash, so the parts it carries over stay valid).                         *)
(***************************************************************************)

StoreInv == StoreTypeOK /\ ManifestsIntact /\ RowsHaveRuns

(* A nonempty set of ids has a largest one. *)
LEMMA LargestExists ==
  ASSUME NEW n \in Nat, NEW S \in SUBSET (1..n), S # {}
  PROVE  \E s \in S : \A t \in S : t <= s
<1> DEFINE T == {n - s : s \in S}
<1>0. \A s \in S : n - s \in Nat
  OBVIOUS
<1>1. T \subseteq Nat /\ T # {}
  BY <1>0
<1>2. PICK x \in T : \A y \in T : ~ (<<y, x>> \in OpToRel(<, Nat))
  <2> HIDE DEF T
  <2> QED BY <1>1, NatLessThanWellFounded, WFMin, Zenon
<1>3. \A y \in T : ~ (y < x)
  BY <1>1, <1>2 DEF OpToRel
<1>4. PICK s \in S : x = n - s
  OBVIOUS
<1>5. \A t \in S : ~ (n - t < n - s)
  BY <1>3, <1>4
<1> QED BY <1>5

LEMMA NewestIsMember ==
  ASSUME NEW n \in Nat, NEW S \in SUBSET (1..n), S # {}
  PROVE  Newest(S) \in S /\ \A t \in S : t <= Newest(S)
BY LargestExists DEF Newest

(* What SnapshotParts returns is a manifest, and each of its runs is a run  *)
(* of that city, produced for that part, with the snapshot's hash.          *)
LEMMA BaseIsIntact ==
  ASSUME StoreInv, NEW c, NEW h
  PROVE  LET base == SnapshotParts(c, NewestSnapshotID(c, h))
         IN  /\ base \in Manifest
             /\ \A p \in Part : base[p] # 0 =>
                  /\ base[p] \in DOMAIN runs
                  /\ runs[base[p]] = [city |-> c, producer |-> p, hash |-> h]
<1> USE BoundsAssumption DEF StoreInv
<1> DEFINE ids == SnapshotsOf(c, h)
           newest == NewestSnapshotID(c, h)
<1>1. CASE ids = {}
  <2>1. newest = 0 /\ 0 \notin DOMAIN snapshots
    BY <1>1 DEF NewestSnapshotID, Newest, StoreTypeOK
  <2>2. SnapshotParts(c, newest) = NoParts
    BY <2>1 DEF SnapshotParts
  <2> QED BY <2>2 DEF NoParts, Manifest
<1>2. CASE ids # {}
  <2>1. ids \in SUBSET (1..snapshotSeq) /\ snapshotSeq \in Nat
    BY DEF SnapshotsOf, StoreTypeOK
  <2>2. newest \in ids
    BY <1>2, <2>1, NewestIsMember DEF NewestSnapshotID
  <2>3. /\ newest \in DOMAIN snapshots
        /\ snapshots[newest].city = c
        /\ snapshots[newest].hash = h
    BY <2>2 DEF SnapshotsOf
  <2>4. SnapshotParts(c, newest) = snapshots[newest].parts
    BY <2>3 DEF SnapshotParts
  <2>5. snapshots[newest].parts \in Manifest
    BY <2>3 DEF StoreTypeOK, Snapshot
  <2> QED BY <2>3, <2>4, <2>5 DEF ManifestsIntact
<1> QED BY <1>1, <1>2

(* Deleting runs that no remaining snapshot references keeps the store      *)
(* sound, whether or not snapshots go in the same transaction.              *)
LEMMA DeletingRuns ==
  ASSUME StoreInv, NEW c, NEW R, DeleteRuns(c, R),
         DOMAIN snapshots' \subseteq DOMAIN snapshots,
         \A s \in DOMAIN snapshots' : snapshots'[s] = snapshots[s],
         R \cap Referenced' = {}
  PROVE  StoreInv'
<1> USE DEF StoreInv
<1> DEFINE owned == {r \in R \cap DOMAIN runs : runs[r].city = c}
<1>1. /\ DOMAIN runs' = DOMAIN runs \ owned
      /\ \A r \in DOMAIN runs' : runs'[r] = runs[r]
      /\ rows' = {x \in rows : x.run \notin owned}
      /\ expired' = expired \ owned
      /\ runSeq' = runSeq /\ snapshotSeq' = snapshotSeq
  BY DEF DeleteRuns, Restrict
<1>2. StoreTypeOK'
  BY <1>1 DEF StoreTypeOK
<1>3. ManifestsIntact'
  <2> SUFFICES ASSUME NEW s \in DOMAIN snapshots', NEW p \in Part,
                      snapshots'[s].parts[p] # 0
               PROVE  LET r == snapshots'[s].parts[p]
                      IN  /\ r \in DOMAIN runs'
                          /\ runs'[r] = [city |-> snapshots'[s].city, producer |-> p,
                                         hash |-> snapshots'[s].hash]
    BY DEF ManifestsIntact
  <2> DEFINE r == snapshots'[s].parts[p]
  <2>1. r \in Referenced'
    BY DEF Referenced
  <2>2. r \notin owned
    BY <2>1
  <2>3. r \in DOMAIN runs /\ runs[r] = [city |-> snapshots[s].city, producer |-> p,
                                        hash |-> snapshots[s].hash]
    BY DEF ManifestsIntact
  <2> QED BY <1>1, <2>2, <2>3
<1>4. RowsHaveRuns'
  BY <1>1 DEF RowsHaveRuns
<1> QED BY <1>2, <1>3, <1>4
----------------------------------------------------------------------------
(* One lemma per call. *)

LEMMA CreateRunKeepsStore ==
  ASSUME StoreInv, NEW c \in City, NEW p \in Part, NEW h \in Hash, CreateRun(c, p, h)
  PROVE  StoreInv'
<1> USE BoundsAssumption DEF StoreInv
<1>1. /\ runSeq \in Nat /\ runSeq' = runSeq + 1 /\ runSeq' \in 1..MaxRuns
      /\ runSeq' \notin DOMAIN runs
  BY DEF CreateRun, StoreTypeOK
<1>2. /\ DOMAIN runs' = DOMAIN runs \cup {runSeq'}
      /\ runs'[runSeq'] = [city |-> c, producer |-> p, hash |-> h]
      /\ \A r \in DOMAIN runs : runs'[r] = runs[r]
  BY <1>1 DEF CreateRun
<1>3. UNCHANGED <<rows, expired, snapshots, snapshotSeq>>
  BY DEF CreateRun
<1>4. \A r \in DOMAIN runs' : runs'[r] \in Run
  BY <1>2 DEF Run, StoreTypeOK
<1>5. StoreTypeOK'
  BY <1>1, <1>2, <1>3, <1>4 DEF StoreTypeOK
<1>6. ManifestsIntact'
  BY <1>2, <1>3 DEF ManifestsIntact
<1>7. RowsHaveRuns'
  BY <1>2, <1>3 DEF RowsHaveRuns
<1> QED BY <1>5, <1>6, <1>7

LEMMA SaveRowKeepsStore ==
  ASSUME StoreInv, NEW r \in RunId, NEW x \in Row, SaveRow(r, x)
  PROVE  StoreInv'
BY DEF StoreInv, SaveRow, StoreTypeOK, ManifestsIntact, RowsHaveRuns, RunId

LEMMA ReplaceRowsKeepsStore ==
  ASSUME StoreInv, NEW r \in RunId, NEW gone \in SUBSET Row, NEW new \in SUBSET Row,
         ReplaceRows(r, gone, new)
  PROVE  StoreInv'
<1> USE DEF StoreInv
<1>1. UNCHANGED <<runs, expired, snapshots, runSeq, snapshotSeq>>
  BY DEF ReplaceRows
<1>2. \A x \in rows' : x \in rows \/ (x \in [run: {r}, row: new] /\ r \in DOMAIN runs)
  BY DEF ReplaceRows
<1>3. StoreTypeOK'
  BY <1>1, <1>2 DEF StoreTypeOK
<1>4. ManifestsIntact'
  BY <1>1 DEF ManifestsIntact
<1>5. RowsHaveRuns'
  BY <1>1, <1>2 DEF RowsHaveRuns
<1> QED BY <1>3, <1>4, <1>5

LEMMA DiscardRunKeepsStore ==
  ASSUME StoreInv, NEW c, NEW r, DiscardRun(c, r)
  PROVE  StoreInv'
<1>1. DeleteRuns(c, {r}) /\ snapshots' = snapshots /\ r \notin Referenced
  BY DEF DiscardRun
<1>2. {r} \cap Referenced' = {}
  BY <1>1 DEF Referenced
<1> QED BY <1>1, <1>2, DeletingRuns

LEMMA DeleteSnapshotKeepsStore ==
  ASSUME StoreInv, NEW c, NEW s \in DOMAIN snapshots, DeleteSnapshot(c, s)
  PROVE  StoreInv'
<1>1. /\ DOMAIN snapshots' \subseteq DOMAIN snapshots
      /\ \A t \in DOMAIN snapshots' : snapshots'[t] = snapshots[t]
  BY DEF DeleteSnapshot, Restrict
<1> DEFINE R == Range(snapshots[s].parts) \ Referenced'
<1>2. DeleteRuns(c, R) /\ R \cap Referenced' = {}
  BY DEF DeleteSnapshot
<1> QED BY <1>1, <1>2, DeletingRuns

LEMMA GCSweepKeepsStore ==
  ASSUME StoreInv, NEW c, GCSweep(c)
  PROVE  StoreInv'
<1>1. DeleteRuns(c, OrphanRuns(c)) /\ snapshots' = snapshots
  BY DEF GCSweep
<1>2. OrphanRuns(c) \cap Referenced' = {}
  BY <1>1 DEF OrphanRuns, Referenced
<1> QED BY <1>1, <1>2, DeletingRuns

LEMMA ExpireKeepsStore ==
  ASSUME StoreInv, NEW r, Expire(r)
  PROVE  StoreInv'
BY DEF StoreInv, Expire, StoreTypeOK, ManifestsIntact, RowsHaveRuns

(* The manifest a commit inserts: its own parts passed checkCommitRuns, the *)
(* rest come from a snapshot of the same city and hash.                     *)
LEMMA CommitSnapshotKeepsStore ==
  ASSUME StoreInv, NEW c \in City, NEW h \in Hash, NEW change \in Change,
         CommitSnapshot(c, h, change)
  PROVE  StoreInv'
<1> USE BoundsAssumption DEF StoreInv
<1> DEFINE base     == SnapshotParts(c, NewestSnapshotID(c, h))
           manifest == ApplyParts(base, change)
<1>1. /\ CommitRunsOK(c, h, change)
      /\ IF manifest = base THEN UNCHANGED <<snapshots, snapshotSeq>>
                            ELSE InsertSnapshot(c, h, manifest)
      /\ UNCHANGED <<runs, rows, expired, runSeq>>
  BY DEF CommitSnapshot
<1>2. /\ base \in Manifest
      /\ \A p \in Part : base[p] # 0 =>
           /\ base[p] \in DOMAIN runs
           /\ runs[base[p]] = [city |-> c, producer |-> p, hash |-> h]
  BY BaseIsIntact
<1>3. \A p \in DOMAIN change : p \in Part /\ change[p] \in 0..MaxRuns
  BY DEF Change
<1>4. manifest \in Manifest
  BY <1>2, <1>3 DEF ApplyParts, Manifest
<1>5. \A p \in Part : manifest[p] # 0 =>
        /\ manifest[p] \in DOMAIN runs
        /\ runs[manifest[p]] = [city |-> c, producer |-> p, hash |-> h]
  BY <1>1, <1>2, <1>3 DEF ApplyParts, CommitRunsOK
<1> HIDE DEF manifest
<1>6. CASE UNCHANGED <<snapshots, snapshotSeq>>
  BY <1>1, <1>6 DEF StoreTypeOK, ManifestsIntact, RowsHaveRuns
<1>7. CASE InsertSnapshot(c, h, manifest)
  <2>1. /\ snapshotSeq \in Nat /\ snapshotSeq' = snapshotSeq + 1
        /\ snapshotSeq' \in 1..MaxSnapshots
        /\ snapshotSeq' \notin DOMAIN snapshots
    BY <1>7 DEF InsertSnapshot, StoreTypeOK
  <2>2. /\ DOMAIN snapshots' = DOMAIN snapshots \cup {snapshotSeq'}
        /\ snapshots'[snapshotSeq'] = [city |-> c, hash |-> h, parts |-> manifest]
        /\ \A s \in DOMAIN snapshots : snapshots'[s] = snapshots[s]
    BY <1>7, <2>1 DEF InsertSnapshot
  <2>3. \A s \in DOMAIN snapshots' : snapshots'[s] \in Snapshot
    BY <1>4, <2>2 DEF Snapshot, StoreTypeOK
  <2>4. StoreTypeOK'
    BY <1>1, <2>1, <2>2, <2>3 DEF StoreTypeOK
  <2>5. ManifestsIntact'
    BY <1>1, <1>5, <2>2 DEF ManifestsIntact
  <2>6. RowsHaveRuns'
    BY <1>1 DEF RowsHaveRuns
  <2> QED BY <2>4, <2>5, <2>6
<1> QED BY <1>1, <1>6, <1>7

(* After a commit every run it put is referenced, and none referenced       *)
(* before has stopped being so.                                             *)
LEMMA CommitPublishes ==
  ASSUME StoreInv, NEW c \in City, NEW h \in Hash, NEW change \in Change,
         CommitSnapshot(c, h, change)
  PROVE  /\ Referenced \subseteq Referenced'
         /\ Range(change) \ {0} \subseteq Referenced'
<1> DEFINE newest   == NewestSnapshotID(c, h)
           base     == SnapshotParts(c, newest)
           manifest == ApplyParts(base, change)
<1>1. IF manifest = base THEN UNCHANGED <<snapshots, snapshotSeq>>
                         ELSE InsertSnapshot(c, h, manifest)
  BY DEF CommitSnapshot
<1>2. \A q \in DOMAIN change : q \in Part /\ manifest[q] = change[q]
  BY DEF Change, ApplyParts
<1>3. \A q \in Part : base[q] # 0 => base[q] \in Referenced
  BY DEF SnapshotParts, NoParts, Referenced
<1> HIDE DEF manifest, base
<1>4. CASE manifest = base
  <2>1. Referenced' = Referenced
    BY <1>1, <1>4 DEF Referenced
  <2> QED BY <1>2, <1>3, <1>4, <2>1 DEF Range
<1>5. CASE InsertSnapshot(c, h, manifest)
  <2>1. snapshotSeq' \notin DOMAIN snapshots
    BY <1>5, BoundsAssumption DEF InsertSnapshot, StoreInv, StoreTypeOK
  <2>2. /\ DOMAIN snapshots' = DOMAIN snapshots \cup {snapshotSeq'}
        /\ snapshots'[snapshotSeq'].parts = manifest
        /\ \A s \in DOMAIN snapshots : snapshots'[s] = snapshots[s]
    BY <1>5, <2>1 DEF InsertSnapshot
  <2>3. Referenced \subseteq Referenced'
    BY <2>2 DEF Referenced
  <2>4. \A q \in Part : manifest[q] # 0 => manifest[q] \in Referenced'
    BY <2>2 DEF Referenced
  <2> QED BY <1>2, <2>3, <2>4 DEF Range
<1> QED BY <1>1, <1>4, <1>5

----------------------------------------------------------------------------
LEMMA StoreInitIsSound == StoreInit => StoreInv
<1> SUFFICES ASSUME StoreInit PROVE StoreInv
  OBVIOUS
<1>1. StoreTypeOK
  BY BoundsAssumption DEF StoreInit, StoreTypeOK
<1>2. ManifestsIntact /\ RowsHaveRuns
  BY DEF StoreInit, ManifestsIntact, RowsHaveRuns
<1> QED BY <1>1, <1>2 DEF StoreInv

(* No call of the Store interface breaks the invariant. *)
LEMMA StoreStepIsSound == StoreInv /\ [StoreNext]_storeVars => StoreInv'
<1> SUFFICES ASSUME StoreInv, [StoreNext]_storeVars PROVE StoreInv'
  OBVIOUS
<1>1. CASE \E c \in City, p \in Part, h \in Hash : CreateRun(c, p, h)
  BY <1>1, CreateRunKeepsStore
<1>2. CASE \E r \in RunId, x \in Row : SaveRow(r, x)
  BY <1>2, SaveRowKeepsStore
<1>3. CASE \E r \in RunId, gone, new \in SUBSET Row : ReplaceRows(r, gone, new)
  BY <1>3, ReplaceRowsKeepsStore
<1>4. CASE \E c \in City, r \in RunId : DiscardRun(c, r)
  BY <1>4, DiscardRunKeepsStore
<1>5. CASE \E c \in City, h \in Hash, change \in Change : CommitSnapshot(c, h, change)
  BY <1>5, CommitSnapshotKeepsStore
<1>6. CASE \E c \in City, s \in DOMAIN snapshots : DeleteSnapshot(c, s)
  BY <1>6, DeleteSnapshotKeepsStore
<1>7. CASE \E c \in City : GCSweep(c)
  BY <1>7, GCSweepKeepsStore
<1>8. CASE \E r \in RunId : Expire(r)
  BY <1>8, ExpireKeepsStore
<1>9. CASE UNCHANGED storeVars
  BY <1>9 DEF storeVars, StoreInv, StoreTypeOK, ManifestsIntact, RowsHaveRuns
<1> QED
  BY <1>1, <1>2, <1>3, <1>4, <1>5, <1>6, <1>7, <1>8, <1>9 DEF StoreNext

(* The three invariants together, of every behaviour of the store. *)
THEOREM StoreIsSound == StoreSpec => []StoreInv
<1>1. StoreInit => StoreInv
  BY StoreInitIsSound
<1>2. StoreInv /\ [StoreNext]_storeVars => StoreInv'
  BY StoreStepIsSound
<1> QED BY <1>1, <1>2, PTL DEF StoreSpec

(* Ids and tables stay well typed (runs and snapshots of 001_init.sql). *)
THEOREM StoreTypes == StoreSpec => []StoreTypeOK
<1>1. StoreInv => StoreTypeOK
  BY DEF StoreInv
<1> QED BY <1>1, StoreIsSound, PTL

(* Whatever runs are discarded, swept or deleted with their snapshots, in   *)
(* whatever order, every run a remaining manifest names is there, and is    *)
(* the right city's, part's and hash's.                                     *)
THEOREM ManifestsStayIntact == StoreSpec => []ManifestsIntact
<1>1. StoreInv => ManifestsIntact
  BY DEF StoreInv
<1> QED BY <1>1, StoreIsSound, PTL

(* No result row outlives its run. *)
THEOREM RowsKeepTheirRuns == StoreSpec => []RowsHaveRuns
<1>1. StoreInv => RowsHaveRuns
  BY DEF StoreInv
<1> QED BY <1>1, StoreIsSound, PTL

-----------------------------------------------------------------------------
(***************************************************************************)
(* Proofs about the commands, for any number of processes, resources,      *)
(* parts and failures.                                                     *)
(*                                                                         *)
(* CommandsInv is inductive.  Beside the types it says what every draft    *)
(* looks like at each of its steps (Sound) and that a draft's runs are in  *)
(* the draft's city (CreatedInCity); without the last, a draft could fail  *)
(* to delete a run of its own, and NoRunLeaks would not be inductive.      *)
(***************************************************************************)

ForecastSteps == {"resolveArea", "readArea", "resolveCohorts", "readCohorts",
                  "createForecast", "saveForecast"}

\* What is true of a draft while its command works.
AtWork(d) ==
  /\ d.city \in City
  /\ d.hash \in Hash
  /\ Range(d.parts) \subseteq d.created \cup {0}
  /\ d.name = "forecast" => d.jobs \in Seq(Resource)

Sound(d) ==
  /\ d.pc = "idle" => d.created = {}
  /\ d.pc # "idle" => d.city \in City
  /\ d.pc \notin {"idle", "discard"} => AtWork(d)
  /\ d.pc \notin {"idle", "discard", "commit"} => d.jobs # <<>>
  /\ d.pc \in ForecastSteps => Head(d.jobs) \in Resource
  /\ d.pc = "save" => d.unsaved # <<>>
  /\ d.pc \in {"save", "saveForecast"} => d.run \in d.created

CreatedInCity ==
  \A p \in Proc : \A r \in cmd[p].created \cap DOMAIN runs :
    runs[r].city = cmd[p].city

CommandsInv ==
  /\ StoreInv
  /\ CommandsTypeOK
  /\ \A p \in Proc : Sound(cmd[p])
  /\ CreatedInCity
  /\ NoRunLeaks

----------------------------------------------------------------------------
(* The operators on drafts. *)

LEMMA PartsArePart == /\ Resource \cup Metric \subseteq Part
                      /\ \A r \in Resource : ForecastOf[r] \in Part
BY CommandsAssumption DEF Metric

LEMMA ChangeIntro ==
  ASSUME NEW S \in SUBSET Part, NEW f \in [S -> 0..MaxRuns]
  PROVE  f \in Change
BY DEF Change

LEMMA ChangeElim ==
  ASSUME NEW f \in Change
  PROVE  /\ DOMAIN f \in SUBSET Part
         /\ f \in [DOMAIN f -> 0..MaxRuns]
BY DEF Change

LEMMA PutPartType ==
  ASSUME NEW d \in Draft, NEW part \in Part, NEW r \in 0..MaxRuns
  PROVE  LET e == PutPart(d, part, r)
         IN  /\ e \in Draft
             /\ e = [d EXCEPT !.parts = e.parts]
             /\ Range(e.parts) \subseteq Range(d.parts) \cup {r}
<1> DEFINE S == DOMAIN d.parts \cup {part}
           f == [q \in S |-> IF q = part THEN r ELSE d.parts[q]]
<1>1. d.parts \in Change
  BY DEF Draft
<1>2. S \in SUBSET Part /\ f \in [S -> 0..MaxRuns]
  BY <1>1, ChangeElim
<1>3. f \in Change
  BY <1>2, ChangeIntro
<1>4. PutPart(d, part, r) = [d EXCEPT !.parts = f]
  BY DEF PutPart
<1>5. Range(f) \subseteq Range(d.parts) \cup {r}
  BY DEF Range
<1> HIDE DEF f
<1>6. [d EXCEPT !.parts = f] \in Draft /\ [d EXCEPT !.parts = f].parts = f
  BY <1>3 DEF Draft
<1> QED BY <1>4, <1>5, <1>6

\* Going on to the next job keeps the draft; only its place changes.
LEMMA NextJobSound ==
  ASSUME NEW d \in Draft, AtWork(d), d.jobs # <<>>
  PROVE  LET e == NextJob(d)
         IN  /\ e \in Draft
             /\ Sound(e)
             /\ e.created = d.created /\ e.city = d.city /\ e.pc # "idle"
<1> DEFINE rest == Tail(d.jobs)
           e == NextJob(d)
<1>1. rest \in Seq(Resource \cup Metric)
  BY HeadTailProperties DEF Draft
<1>2. d.name = "forecast" => rest \in Seq(Resource)
  BY HeadTailProperties DEF AtWork
<1>3. e.pc \in {AfterJobs(d), FirstStep(d.name)}
      /\ (e.pc = AfterJobs(d) \/ rest # <<>>)
  BY DEF NextJob, Draft
<1>4. e \in Draft
  <2> DEFINE pc == IF rest = <<>> THEN AfterJobs(d) ELSE FirstStep(d.name)
  <2>1. e = [d EXCEPT !.jobs = rest, !.run = 0, !.unsaved = <<>>, !.snap = 0,
                      !.area = 0, !.cohorts = 0, !.pc = pc]
    BY DEF NextJob
  <2>2. pc \in Label /\ <<>> \in Seq(Row) /\ 0 \in 0..MaxRuns /\ 0 \in 0..MaxSnapshots
    BY BoundsAssumption DEF Label, AfterJobs, FirstStep
  <2> HIDE DEF pc, rest, e
  <2> QED BY <1>1, <2>1, <2>2 DEF Draft
<1>5. /\ e.created = d.created /\ e.city = d.city /\ e.hash = d.hash
      /\ e.parts = d.parts /\ e.name = d.name /\ e.jobs = rest
  BY DEF NextJob, Draft
<1>6. AtWork(e)
  BY <1>2, <1>5 DEF AtWork
<1>7. e.pc \in {"load", "resolveArea", "commit", "discard"}
  BY <1>3 DEF AfterJobs, FirstStep
<1>8. e.pc = "load" => rest # <<>>
  BY <1>3 DEF AfterJobs
<1>9. e.pc = "resolveArea" => rest # <<>> /\ Head(rest) \in Resource
  <2> SUFFICES ASSUME e.pc = "resolveArea" PROVE rest # <<>> /\ Head(rest) \in Resource
    OBVIOUS
  <2>1. rest # <<>> /\ e.pc = FirstStep(d.name)
    BY <1>3 DEF AfterJobs
  <2>2. d.name = "forecast"
    BY <2>1 DEF FirstStep
  <2> HIDE DEF rest
  <2> QED BY <2>1, <2>2, <1>2, HeadTailProperties
<1> QED BY <1>4, <1>5, <1>6, <1>7, <1>8, <1>9 DEF Sound, AtWork, ForecastSteps
----------------------------------------------------------------------------
(* Steps.  BecomeKeepsInv carries every step of a process that neither      *)
(* creates nor removes runs nor touches the snapshots.                      *)

LEMMA BecomeKeepsInv ==
  ASSUME CommandsInv, NEW p \in Proc, NEW d \in Draft, Become(p, d),
         Sound(d), d.created = cmd[p].created,
         d.city = cmd[p].city \/ d.created = {},
         StoreInv', UNCHANGED <<runs, snapshots, runSeq, abandoned>>
  PROVE  CommandsInv'
<1> USE DEF CommandsInv
<1>1. /\ cmd' \in [Proc -> Draft] /\ cmd'[p] = d
      /\ \A q \in Proc \ {p} : cmd'[q] = cmd[q]
      /\ started' = started
  BY DEF Become, CommandsTypeOK
<1>2. \A q \in Proc : cmd'[q].created = cmd[q].created
  BY <1>1
<1>3. CommandsTypeOK'
  BY <1>1, <1>2 DEF CommandsTypeOK, StoreInv
<1>4. \A q \in Proc : Sound(cmd'[q])
  BY <1>1
<1>5. CreatedInCity'
  BY <1>1 DEF CreatedInCity
<1>6. NoRunLeaks'
  BY <1>2 DEF NoRunLeaks, LiveRuns, Referenced
<1> QED BY <1>3, <1>4, <1>5, <1>6

\* The frequent case: the store is not touched at all.
LEMMA LocalStep ==
  ASSUME CommandsInv, NEW p \in Proc, NEW d \in Draft, Become(p, d),
         Sound(d), d.created = cmd[p].created,
         d.city = cmd[p].city \/ d.created = {},
         UNCHANGED <<storeVars, abandoned>>
  PROVE  CommandsInv'
<1>1. UNCHANGED <<runs, snapshots, runSeq, abandoned>> /\ StoreInv'
  BY DEF CommandsInv, storeVars, StoreInv, StoreTypeOK, ManifestsIntact, RowsHaveRuns
<1> QED BY <1>1, BecomeKeepsInv

\* Dropping or putting a part of a working draft.
LEMMA PutPartAtWork ==
  ASSUME NEW d \in Draft, AtWork(d), NEW part \in Part, NEW r \in 0..MaxRuns,
         r \in d.created \cup {0}
  PROVE  LET e == PutPart(d, part, r)
         IN  /\ e \in Draft /\ AtWork(e)
             /\ e.created = d.created /\ e.city = d.city /\ e.jobs = d.jobs
             /\ e.pc = d.pc /\ e.name = d.name /\ e.unsaved = d.unsaved
             /\ e.run = d.run
<1> DEFINE e == PutPart(d, part, r)
<1>1. /\ e \in Draft
      /\ e = [d EXCEPT !.parts = e.parts]
      /\ Range(e.parts) \subseteq Range(d.parts) \cup {r}
  BY PutPartType
<1> HIDE DEF e
<1>2. /\ e.created = d.created /\ e.city = d.city /\ e.jobs = d.jobs
      /\ e.pc = d.pc /\ e.name = d.name /\ e.unsaved = d.unsaved
      /\ e.run = d.run /\ e.hash = d.hash
  BY <1>1 DEF Draft
<1>3. AtWork(e)
  BY <1>1, <1>2 DEF AtWork
<1> QED BY <1>1, <1>2, <1>3 DEF e

\* Giving up keeps what was created, to be discarded.
LEMMA GiveUpSound ==
  ASSUME NEW d \in Draft, Sound(d), d.pc # "idle"
  PROVE  LET e == [d EXCEPT !.pc = "discard"]
         IN  e \in Draft /\ Sound(e) /\ e.created = d.created /\ e.city = d.city
BY DEF Draft, Label, Sound, ForecastSteps

\* Skipping the jobs that are left goes straight to the commit.
LEMMA SkipJobsSound ==
  ASSUME NEW d \in Draft, AtWork(d), d.jobs # <<>>
  PROVE  LET e == SkipJobs(d)
         IN  e \in Draft /\ Sound(e) /\ e.created = d.created /\ e.city = d.city
<1> DEFINE f == NextJob(d)
           e == [f EXCEPT !.jobs = <<>>, !.pc = "commit"]
<1>1. /\ f \in Draft /\ f.created = d.created /\ f.city = d.city
      /\ f.hash = d.hash /\ f.parts = d.parts
  <2>1. f.hash = d.hash /\ f.parts = d.parts
    BY DEF NextJob, Draft
  <2> QED BY <2>1, NextJobSound
<1> HIDE DEF f
<1>2. <<>> \in Seq(Resource \cup Metric) /\ <<>> \in Seq(Resource) /\ "commit" \in Label
  BY DEF Label
<1>3. e \in Draft
  BY <1>1, <1>2 DEF Draft
<1>4. /\ e.jobs = <<>> /\ e.pc = "commit" /\ e.created = d.created /\ e.city = d.city
      /\ e.hash = d.hash /\ e.parts = d.parts
  BY <1>1 DEF Draft
<1> HIDE DEF e
<1>5. AtWork(e) /\ Sound(e)
  BY <1>2, <1>4 DEF AtWork, Sound, ForecastSteps
<1> QED BY <1>3, <1>4, <1>5 DEF SkipJobs, e, f

LEMMA FailJobSound ==
  ASSUME NEW d \in Draft, Sound(d), AtWork(d), d.jobs # <<>>, d.pc # "idle"
  PROVE  LET e == FailJob(d)
         IN  e \in Draft /\ Sound(e) /\ e.created = d.created /\ e.city = d.city
BY NextJobSound, SkipJobsSound, GiveUpSound DEF FailJob

LEMMA FailForecastSound ==
  ASSUME NEW d \in Draft, Sound(d), d.pc \in ForecastSteps
  PROVE  LET e == FailForecast(d)
         IN  e \in Draft /\ Sound(e) /\ e.created = d.created /\ e.city = d.city
<1>1. AtWork(d) /\ d.jobs # <<>> /\ Job(d) \in Resource /\ d.pc # "idle"
  BY DEF Sound, ForecastSteps, Job
<1> DEFINE e == DropPart(d, ForecastOf[Job(d)])
<1>2. ForecastOf[Job(d)] \in Part /\ 0 \in 0..MaxRuns
  BY <1>1, PartsArePart, BoundsAssumption
<1>3. /\ e \in Draft /\ AtWork(e) /\ e.jobs # <<>>
      /\ e.created = d.created /\ e.city = d.city
  BY <1>1, <1>2, PutPartAtWork DEF DropPart
<1> HIDE DEF e
<1>4. /\ NextJob(e) \in Draft /\ Sound(NextJob(e))
      /\ NextJob(e).created = d.created /\ NextJob(e).city = d.city
  BY <1>3, NextJobSound
<1> QED BY <1>1, <1>4, GiveUpSound DEF FailForecast, e

LEMMA IdleSound == Idle \in Draft /\ Sound(Idle) /\ Idle.created = {} /\ Idle.pc = "idle"
<1>1. Idle.parts \in Change
  <2>1. Idle.parts \in [{} -> 0..MaxRuns]
    BY DEF Idle
  <2> QED BY <2>1, ChangeIntro
<1>2. Idle \in Draft
  BY <1>1, BoundsAssumption DEF Idle, Draft, Label
<1> QED BY <1>2 DEF Sound, Idle, ForecastSteps
----------------------------------------------------------------------------
(* One lemma per action of a process: the invariant is kept, and the step   *)
(* is a call of the Store interface or leaves the store alone.              *)

StoreStep == [StoreNext]_storeVars

LEMMA DraftFacts ==
  ASSUME CommandsInv, NEW p \in Proc
  PROVE  /\ cmd[p] \in Draft
         /\ Sound(cmd[p])
         /\ cmd[p].pc \notin {"idle", "discard"} => AtWork(cmd[p])
BY DEF CommandsInv, CommandsTypeOK, Sound

LEMMA JobFacts ==
  ASSUME NEW d \in Draft, Sound(d), d.pc \notin {"idle", "discard", "commit"}
  PROVE  /\ Job(d) \in Part
         /\ Job(d) \in Resource \cup Metric
         /\ d.jobs # <<>>
         /\ d.pc \in ForecastSteps => Job(d) \in Resource
         /\ \A r \in Resource : ForecastOf[r] \in Part
<1>1. d.jobs \in Seq(Resource \cup Metric) /\ d.jobs # <<>>
  BY DEF Sound, Draft
<1>2. Head(d.jobs) \in Resource \cup Metric
  BY <1>1, HeadTailProperties
<1> QED BY <1>1, <1>2, PartsArePart DEF Sound, Job

LEMMA StartStep ==
  ASSUME CommandsInv, NEW p \in Proc, Start(p)
  PROVE  CommandsInv' /\ StoreStep
<1> USE DEF CommandsInv
<1>1. PICK name \in CommandNames, c \in City, h \in Hash :
        \E jobs \in JobsOf(name) :
           cmd' = [cmd EXCEPT ![p] =
                     [Idle EXCEPT !.pc = FirstStep(name), !.name = name,
                                  !.city = c, !.hash = h, !.jobs = jobs]]
  BY DEF Start
<1>2. PICK jobs \in JobsOf(name) :
         cmd' = [cmd EXCEPT ![p] =
                   [Idle EXCEPT !.pc = FirstStep(name), !.name = name,
                                !.city = c, !.hash = h, !.jobs = jobs]]
  BY <1>1
<1>3. /\ jobs \in Seq(Resource \cup Metric) /\ jobs # <<>>
      /\ name = "forecast" => jobs \in Seq(Resource)
  <2>1. name \in {"compute", "metric", "forecast", "all"}
    BY CommandsAssumption
  <2>2. /\ ResourceJobs \in Seq(Resource) /\ ResourceJobs # <<>>
        /\ ResourceJobs \in Seq(Resource \cup Metric)
        /\ MetricJobs \in Seq(Resource \cup Metric)
    BY CommandsAssumption
  <2>3. CASE name = "compute"
    <3>1. jobs \in {<<r>> : r \in Resource}
      BY <2>3 DEF JobsOf
    <3>2. PICK r \in Resource : jobs = <<r>>
      BY <3>1
    <3>3. r \in Resource \cup Metric
      OBVIOUS
    <3>4. <<r>> \in Seq(Resource \cup Metric) /\ <<r>> # <<>>
      BY <3>3
    <3> QED BY <2>3, <3>2, <3>4
  <2>4. CASE name = "metric"
    <3>1. jobs \in {<<m>> : m \in Metric}
      BY <2>4 DEF JobsOf
    <3>2. PICK m \in Metric : jobs = <<m>>
      BY <3>1
    <3>3. m \in Resource \cup Metric
      OBVIOUS
    <3>4. <<m>> \in Seq(Resource \cup Metric) /\ <<m>> # <<>>
      BY <3>3
    <3> QED BY <2>4, <3>2, <3>4
  <2>5. CASE name = "forecast"
    BY <2>5, <1>2, <2>2 DEF JobsOf
  <2>6. CASE name = "all"
    <3>1. jobs = ResourceJobs \o MetricJobs
      BY <2>6, <1>2 DEF JobsOf
    <3> QED BY <2>6, <3>1, <2>2, ConcatProperties, ConcatEqualIffEmpty
  <2> QED BY <2>1, <2>3, <2>4, <2>5, <2>6
<1> DEFINE d == [Idle EXCEPT !.pc = FirstStep(name), !.name = name,
                             !.city = c, !.hash = h, !.jobs = jobs]
<1>4. FirstStep(name) \in Label /\ FirstStep(name) # "idle"
  BY DEF FirstStep, Label
<1>5. Idle \in Draft /\ Idle.created = {} /\ Range(Idle.parts) = {}
  BY IdleSound DEF Idle, Range
<1>6. d \in Draft /\ d.created = {} /\ d.parts = Idle.parts
  BY <1>3, <1>4, <1>5 DEF Draft
<1>7. /\ d.pc = FirstStep(name) /\ d.name = name /\ d.city = c /\ d.hash = h
      /\ d.jobs = jobs
  BY <1>5 DEF Draft
<1> HIDE DEF d
<1>8. AtWork(d)
  BY <1>3, <1>5, <1>6, <1>7 DEF AtWork
<1>9. Sound(d)
  <2>1. d.pc = "resolveArea" => Head(jobs) \in Resource
    BY <1>3, <1>7, HeadTailProperties DEF FirstStep
  <2>2. d.pc \in {"load", "resolveArea"}
    BY <1>7 DEF FirstStep
  <2> QED BY <1>3, <1>6, <1>7, <1>8, <2>1, <2>2 DEF Sound, AtWork, ForecastSteps
<1>10. cmd[p].created = {} /\ cmd' = [cmd EXCEPT ![p] = d]
  BY <1>2, DraftFacts DEF Start, At, Sound, d
<1>11. UNCHANGED storeVars /\ abandoned' = abandoned /\ started' \in 0..MaxCommands
  BY CommandsAssumption DEF Start, CommandsTypeOK
<1>12. cmd' \in [Proc -> Draft] /\ \A q \in Proc : cmd'[q].created = cmd[q].created
  BY <1>6, <1>10 DEF CommandsTypeOK
<1>13. StoreInv'
  BY <1>11, StoreStepIsSound
<1>14. CommandsTypeOK'
  BY <1>11, <1>12, <1>13 DEF CommandsTypeOK, StoreInv, storeVars
<1>15. \A q \in Proc : Sound(cmd'[q])
  BY <1>9, <1>10 DEF CommandsTypeOK
<1>16. CreatedInCity'
  BY <1>6, <1>10, <1>11 DEF CreatedInCity, storeVars, CommandsTypeOK
<1>17. NoRunLeaks'
  BY <1>11, <1>12 DEF NoRunLeaks, LiveRuns, Referenced, storeVars
<1> QED BY <1>11, <1>13, <1>14, <1>15, <1>16, <1>17 DEF StoreStep

LEMMA LoadStep ==
  ASSUME CommandsInv, NEW p \in Proc, Load(p)
  PROVE  CommandsInv' /\ StoreStep
<1> DEFINE d == cmd[p]
<1>1. /\ d \in Draft /\ Sound(d) /\ AtWork(d) /\ d.pc = "load"
      /\ Job(d) \in Part /\ d.jobs # <<>> /\ 0 \in 0..MaxRuns
      /\ UNCHANGED <<storeVars, abandoned>>
  BY DraftFacts, JobFacts, BoundsAssumption DEF Load, At
<1>2. CASE Become(p, [d EXCEPT !.pc = "create"])
  <2> DEFINE e == [d EXCEPT !.pc = "create"]
  <2>1. e \in Draft /\ Sound(e) /\ e.created = d.created /\ e.city = d.city
    BY <1>1 DEF Draft, Label, Sound, AtWork, ForecastSteps
  <2> QED BY <1>1, <1>2, <2>1, LocalStep DEF StoreStep
<1>3. CASE Become(p, NextJob(DropPart(d, Job(d)))) 
  <2> DEFINE e == DropPart(d, Job(d))
  <2>1. /\ e \in Draft /\ AtWork(e) /\ e.created = d.created
        /\ e.city = d.city /\ e.jobs # <<>>
    BY <1>1, PutPartAtWork DEF DropPart
  <2> HIDE DEF e
  <2>2. /\ NextJob(e) \in Draft /\ Sound(NextJob(e))
        /\ NextJob(e).created = d.created /\ NextJob(e).city = d.city
    BY <2>1, NextJobSound
  <2> QED BY <1>1, <1>3, <2>2, LocalStep DEF StoreStep, e
<1>4. CASE Job(d) \in Resource
           /\ Become(p, NextJob(DropPart(DropPart(d, Job(d)), ForecastOf[Job(d)])))
  <2> DEFINE e == DropPart(d, Job(d))
             f == DropPart(e, ForecastOf[Job(d)])
  <2>1. /\ e \in Draft /\ AtWork(e) /\ e.created = d.created
        /\ e.city = d.city /\ e.jobs # <<>>
    BY <1>1, PutPartAtWork DEF DropPart
  <2>2. ForecastOf[Job(d)] \in Part
    BY <1>4, PartsArePart
  <2> HIDE DEF e
  <2>3. /\ f \in Draft /\ AtWork(f) /\ f.created = d.created
        /\ f.city = d.city /\ f.jobs # <<>>
    BY <1>1, <2>1, <2>2, PutPartAtWork DEF DropPart
  <2> HIDE DEF f
  <2>4. /\ NextJob(f) \in Draft /\ Sound(NextJob(f))
        /\ NextJob(f).created = d.created /\ NextJob(f).city = d.city
    BY <2>3, NextJobSound
  <2> QED BY <1>1, <1>4, <2>4, LocalStep DEF StoreStep, e, f
<1> QED BY <1>2, <1>3, <1>4 DEF Load

\* Creating a run: the draft owns it from the moment it exists, or it is given
\* up at once.
LEMMA CreatingStep ==
  ASSUME CommandsInv, NEW p \in Proc, NEW part \in Part, NEW d \in Draft,
         AtWork(cmd[p]), CreateRun(cmd[p].city, part, cmd[p].hash),
         Become(p, d), Sound(d), d.city = cmd[p].city,
         \/ d.created = cmd[p].created \cup {runSeq'} /\ UNCHANGED abandoned
         \/ d.created = cmd[p].created /\ abandoned' = abandoned \cup {runSeq'}
  PROVE  CommandsInv' /\ StoreStep
<1> USE DEF CommandsInv
<1>1. cmd[p].city \in City /\ cmd[p].hash \in Hash
  BY DEF AtWork
<1>2. StoreStep
  BY <1>1 DEF StoreStep, StoreNext
<1>3. StoreInv'
  BY <1>2, StoreStepIsSound DEF StoreStep
<1>4. /\ cmd' \in [Proc -> Draft] /\ cmd'[p] = d /\ started' = started
      /\ \A q \in Proc \ {p} : cmd'[q] = cmd[q]
  BY DEF Become, CommandsTypeOK
<1>5. /\ runSeq \in Nat /\ runSeq' = runSeq + 1
      /\ DOMAIN runs' = DOMAIN runs \cup {runSeq'}
      /\ runs'[runSeq'].city = cmd[p].city
      /\ \A r \in DOMAIN runs \ {runSeq'} : runs'[r] = runs[r]
      /\ snapshots' = snapshots
  BY BoundsAssumption DEF CreateRun, CommandsTypeOK, StoreTypeOK
<1>6. CommandsTypeOK'
  BY <1>3, <1>4, <1>5 DEF CommandsTypeOK, StoreInv
<1>7. \A q \in Proc : Sound(cmd'[q])
  BY <1>4
<1>8. \A q \in Proc : runSeq' \notin cmd[q].created
  BY <1>5 DEF CommandsTypeOK
<1>9. CreatedInCity'
  BY <1>4, <1>5, <1>8 DEF CreatedInCity
<1>10. NoRunLeaks'
  <2>1. \A q \in Proc : cmd[q].created \subseteq cmd'[q].created
    BY <1>4
  <2>2. LiveRuns \subseteq LiveRuns' /\ runSeq' \in LiveRuns' \cup abandoned'
    BY <1>4, <2>1 DEF LiveRuns
  <2>3. Referenced' = Referenced
    BY <1>5 DEF Referenced
  <2> QED BY <1>5, <2>2, <2>3 DEF NoRunLeaks
<1> QED BY <1>2, <1>3, <1>6, <1>7, <1>9, <1>10

LEMMA NewRunStep ==
  ASSUME CommandsInv, NEW p \in Proc, NewRun(p)
  PROVE  CommandsInv' /\ StoreStep
<1> DEFINE d == cmd[p]
           unsaved == IF Job(d) \in Resource THEN ComputeRows ELSE <<MetricRow>>
           e == [d EXCEPT !.pc = "save", !.run = runSeq',
                          !.created = d.created \cup {runSeq'}, !.unsaved = unsaved]
<1>1. /\ d \in Draft /\ Sound(d) /\ AtWork(d) /\ d.pc = "create"
      /\ Job(d) \in Part /\ d.jobs # <<>>
  BY DraftFacts, JobFacts DEF NewRun, At
<1>2. runSeq' \in RunId
  BY BoundsAssumption DEF NewRun, CreateRun, CommandsInv, CommandsTypeOK, StoreTypeOK, RunId
<1>3. unsaved \in Seq(Row) /\ unsaved # <<>>
  BY RowAssumption DEF ComputeRows
<1> HIDE DEF unsaved
<1> DEFINE mine == d.created \cup {runSeq'}
<1>4. mine \in SUBSET RunId /\ runSeq' \in 0..MaxRuns /\ runSeq' \in mine
  BY <1>1, <1>2, BoundsAssumption DEF Draft, RunId
<1>5. /\ CreateRun(d.city, Job(d), d.hash) /\ UNCHANGED abandoned
      /\ Become(p, [d EXCEPT !.pc = "save", !.run = runSeq', !.created = mine,
                             !.unsaved = unsaved])
  BY DEF NewRun, unsaved
<1> HIDE DEF mine
<1>6. e = [d EXCEPT !.pc = "save", !.run = runSeq', !.created = mine, !.unsaved = unsaved]
  BY DEF mine
<1> HIDE DEF e
<1>7. e \in Draft
  BY <1>1, <1>3, <1>4, <1>6 DEF Draft, Label
<1>8. /\ e.pc = "save" /\ e.run = runSeq' /\ e.created = mine /\ e.unsaved = unsaved
      /\ e.city = d.city /\ e.hash = d.hash /\ e.jobs = d.jobs
      /\ e.name = d.name /\ e.parts = d.parts
  BY <1>1, <1>6 DEF Draft
<1>9. AtWork(e)
  BY <1>1, <1>8 DEF AtWork, mine
<1>10. Sound(e)
  BY <1>1, <1>3, <1>4, <1>8, <1>9 DEF Sound, AtWork, ForecastSteps
<1> QED BY <1>1, <1>5, <1>6, <1>7, <1>8, <1>10, CreatingStep DEF mine

LEMMA NewForecastRunStep ==
  ASSUME CommandsInv, NEW p \in Proc, NewForecastRun(p)
  PROVE  CommandsInv' /\ StoreStep
<1> DEFINE d == cmd[p]
           e == [d EXCEPT !.pc = "saveForecast", !.run = runSeq',
                          !.created = d.created \cup {runSeq'}]
<1>1. /\ d \in Draft /\ Sound(d) /\ AtWork(d) /\ d.pc = "createForecast"
      /\ ForecastOf[Job(d)] \in Part
  BY DraftFacts, JobFacts DEF NewForecastRun, At, ForecastSteps
<1>2. runSeq' \in RunId
  BY BoundsAssumption DEF NewForecastRun, CreateRun, CommandsInv, CommandsTypeOK,
                          StoreTypeOK, RunId
<1>3. e \in Draft
  <2> DEFINE mine == d.created \cup {runSeq'}
  <2>1. mine \in SUBSET RunId /\ runSeq' \in 0..MaxRuns
    BY <1>1, <1>2, BoundsAssumption DEF Draft, RunId
  <2> HIDE DEF mine
  <2>2. [d EXCEPT !.pc = "saveForecast", !.run = runSeq', !.created = mine] \in Draft
    BY <1>1, <2>1 DEF Draft, Label
  <2> QED BY <2>2 DEF mine
<1>4. /\ e.pc = "saveForecast" /\ e.run = runSeq' /\ e.created = d.created \cup {runSeq'}
      /\ e.city = d.city /\ e.hash = d.hash /\ e.jobs = d.jobs
      /\ e.name = d.name /\ e.parts = d.parts
  BY <1>1 DEF Draft
<1>5. CreateRun(d.city, ForecastOf[Job(d)], d.hash) /\ Become(p, e) /\ UNCHANGED abandoned
  BY DEF NewForecastRun
<1> HIDE DEF e
<1>6. AtWork(e)
  BY <1>1, <1>4 DEF AtWork
<1>7. Sound(e)
  BY <1>1, <1>4, <1>6 DEF Sound, AtWork, ForecastSteps
<1> QED BY <1>1, <1>3, <1>4, <1>5, <1>7, CreatingStep

\* A run the draft never hears of.
LEMMA NewRunUnreadStep ==
  ASSUME CommandsInv, NEW p \in Proc, NewRunUnread(p)
  PROVE  CommandsInv' /\ StoreStep
<1> DEFINE d == cmd[p]
           e == [d EXCEPT !.pc = "discard"]
<1>1. /\ d \in Draft /\ Sound(d) /\ AtWork(d) /\ d.pc \in {"create", "createForecast"}
      /\ Job(d) \in Part /\ d.jobs # <<>> /\ d.pc # "idle"
      /\ d.pc = "createForecast" => ForecastOf[Job(d)] \in Part /\ d.pc \in ForecastSteps
  BY DraftFacts, JobFacts DEF NewRunUnread, At, ForecastSteps
<1>2. PICK part \in Part : CreateRun(d.city, part, d.hash)
  BY <1>1 DEF NewRunUnread, At
<1>3. abandoned' = abandoned \cup {runSeq'}
  BY DEF NewRunUnread
<1>4. ASSUME NEW f \in Draft, Sound(f), f.created = d.created, f.city = d.city, Become(p, f)
      PROVE  CommandsInv' /\ StoreStep
  BY <1>1, <1>2, <1>3, <1>4, CreatingStep
<1>5. CASE Become(p, e)
  BY <1>1, <1>4, <1>5, GiveUpSound
<1>6. CASE d.pc = "create" /\ Become(p, FailJob(d))
  BY <1>1, <1>4, <1>6, FailJobSound
<1>7. CASE d.pc = "createForecast" /\ Become(p, FailForecast(d))
  BY <1>1, <1>4, <1>7, FailForecastSound
<1> QED BY <1>5, <1>6, <1>7 DEF NewRunUnread, At

\* All rows saved: the part is put.
LEMMA SavedSound ==
  ASSUME NEW d \in Draft, Sound(d), d.pc = "save"
  PROVE  LET e == Saved(d)
         IN  e \in Draft /\ Sound(e) /\ e.created = d.created /\ e.city = d.city
<1>1. AtWork(d) /\ Job(d) \in Part /\ d.jobs # <<>> /\ d.run \in d.created
  BY JobFacts DEF Sound
<1>2. d.run \in 0..MaxRuns
  BY DEF Draft
<1> DEFINE put == PutPart(d, Job(d), d.run)
<1>3. /\ put \in Draft /\ AtWork(put) /\ put.jobs = d.jobs
      /\ put.created = d.created /\ put.city = d.city
  BY <1>1, <1>2, PutPartAtWork
<1> HIDE DEF put
<1>4. CASE Job(d) \in Resource
  <2> DEFINE e == [put EXCEPT !.pc = "resolveArea"]
  <2>1. e \in Draft /\ e.created = d.created /\ e.city = d.city
    BY <1>3 DEF Draft, Label
  <2>2. Sound(e)
    BY <1>1, <1>3, <1>4 DEF Draft, Sound, AtWork, ForecastSteps, Job
  <2> QED BY <1>4, <2>1, <2>2 DEF Saved, put
<1>5. CASE Job(d) \notin Resource
  BY <1>1, <1>3, <1>5, NextJobSound DEF Saved, put
<1> QED BY <1>4, <1>5

LEMMA SaveStep ==
  ASSUME CommandsInv, NEW p \in Proc, Save(p)
  PROVE  CommandsInv' /\ StoreStep
<1> DEFINE d == cmd[p]
           e == IF Len(d.unsaved) = 1 THEN Saved(d)
                ELSE [d EXCEPT !.unsaved = Tail(d.unsaved)]
<1>1. d \in Draft /\ Sound(d) /\ d.pc = "save"
  BY DraftFacts DEF Save, At
<1>2. /\ d.unsaved \in Seq(Row) /\ d.unsaved # <<>>
      /\ d.run \in RunId
  BY <1>1 DEF Sound, Draft, RunId
<1>3. Head(d.unsaved) \in Row /\ Tail(d.unsaved) \in Seq(Row)
  BY <1>2, HeadTailProperties
<1>4. Len(d.unsaved) # 1 => Tail(d.unsaved) # <<>>
  <2>1. Len(Tail(d.unsaved)) = Len(d.unsaved) - 1 /\ Len(d.unsaved) \in Nat
    BY <1>2, HeadTailProperties, LenProperties
  <2>2. Tail(d.unsaved) = <<>> => Len(Tail(d.unsaved)) = 0
    BY EmptySeq
  <2> QED BY <2>1, <2>2
<1>5. \/ SaveRow(d.run, Head(d.unsaved))
      \/ ReplaceRows(d.run, {MetricRow}, {})
  BY DEF Save
<1>6. StoreStep
  BY <1>2, <1>3, <1>5, RowAssumption DEF StoreStep, StoreNext
<1>7. StoreInv' /\ UNCHANGED <<runs, snapshots, runSeq, abandoned>>
  BY <1>5, <1>6, StoreStepIsSound DEF Save, SaveRow, ReplaceRows, CommandsInv, StoreStep
<1>8. e \in Draft /\ Sound(e) /\ e.created = d.created /\ e.city = d.city
  <2>1. CASE Len(d.unsaved) = 1
    BY <1>1, <2>1, SavedSound
  <2>2. CASE Len(d.unsaved) # 1
    BY <1>1, <1>3, <1>4, <2>2 DEF Draft, Sound, AtWork, ForecastSteps
  <2> QED BY <2>1, <2>2
<1>9. Become(p, e)
  BY DEF Save
<1> HIDE DEF e
<1> QED BY <1>6, <1>7, <1>8, <1>9, BecomeKeepsInv

\* What a draft reads is a run id.
LEMMA ReadsType ==
  ASSUME CommandsInv, NEW p \in Proc, NEW part \in Part, NEW x
  PROVE  Reads(cmd[p], part, x) \in 0..MaxRuns
<1>1. cmd[p].parts \in Change
  BY DraftFacts DEF Draft
<1>2. SnapshotParts(cmd[p].city, cmd[p].snap) \in Manifest
  BY BoundsAssumption DEF SnapshotParts, CommandsInv, CommandsTypeOK, StoreTypeOK,
                          Snapshot, NoParts, Manifest
<1>3. View(cmd[p])[part] \in 0..MaxRuns
  BY <1>1, <1>2, ChangeElim DEF View, ApplyParts, Manifest
<1> QED BY <1>3, BoundsAssumption DEF Reads

LEMMA NewestType ==
  ASSUME CommandsInv, NEW c, NEW h
  PROVE  NewestSnapshotID(c, h) \in 0..MaxSnapshots
<1>1. /\ SnapshotsOf(c, h) \in SUBSET (1..snapshotSeq)
      /\ snapshotSeq \in 0..MaxSnapshots /\ snapshotSeq \in Nat
  BY BoundsAssumption DEF SnapshotsOf, CommandsInv, CommandsTypeOK, StoreTypeOK
<1>2. CASE SnapshotsOf(c, h) = {}
  BY <1>2, BoundsAssumption DEF NewestSnapshotID, Newest
<1>3. CASE SnapshotsOf(c, h) # {}
  <2>1. Newest(SnapshotsOf(c, h)) \in SnapshotsOf(c, h)
    BY <1>1, <1>3, NewestIsMember
  <2> QED BY <1>1, <2>1, BoundsAssumption DEF NewestSnapshotID
<1> QED BY <1>2, <1>3

\* ResolveArea and ResolveCohorts: pin a snapshot for the next query.
LEMMA ResolveStep ==
  ASSUME CommandsInv, NEW p \in Proc, ResolveArea(p) \/ ResolveCohorts(p)
  PROVE  CommandsInv' /\ StoreStep
<1> DEFINE d == cmd[p]
           newest == NewestSnapshotID(d.city, d.hash)
           next == IF d.pc = "resolveArea" THEN "readArea" ELSE "readCohorts"
           e == [d EXCEPT !.pc = next, !.snap = newest]
<1>1. d \in Draft /\ Sound(d) /\ d.pc \in {"resolveArea", "resolveCohorts"}
  BY DraftFacts DEF ResolveArea, ResolveCohorts, At
<1>2. newest \in 0..MaxSnapshots
  BY NewestType
<1>3. UNCHANGED <<storeVars, abandoned>> /\ Become(p, e)
  BY DEF ResolveArea, ResolveCohorts, At
<1> HIDE DEF newest
<1>4. e \in Draft /\ Sound(e) /\ e.created = d.created /\ e.city = d.city
  BY <1>1, <1>2 DEF Draft, Label, Sound, AtWork, ForecastSteps
<1> HIDE DEF e
<1> QED BY <1>3, <1>4, LocalStep DEF StoreStep

LEMMA ReadAreaStep ==
  ASSUME CommandsInv, NEW p \in Proc, ReadArea(p)
  PROVE  CommandsInv' /\ StoreStep
<1> DEFINE d == cmd[p]
           area == Reads(d, Job(d), ResultRow)
<1>1. /\ d \in Draft /\ Sound(d) /\ d.pc = "readArea" /\ d.pc \in ForecastSteps
      /\ AtWork(d) /\ d.jobs # <<>> /\ Job(d) \in Part
      /\ UNCHANGED <<storeVars, abandoned>>
  BY DraftFacts, JobFacts DEF ReadArea, At, ForecastSteps
<1>2. area \in 0..MaxRuns
  BY <1>1, ReadsType
<1> HIDE DEF area
<1>3. CASE Become(p, [d EXCEPT !.pc = "resolveCohorts", !.area = area])
  <2> DEFINE e == [d EXCEPT !.pc = "resolveCohorts", !.area = area]
  <2>1. e \in Draft /\ Sound(e) /\ e.created = d.created /\ e.city = d.city
    BY <1>1, <1>2 DEF Draft, Label, Sound, AtWork, ForecastSteps
  <2> QED BY <1>1, <1>3, <2>1, LocalStep DEF StoreStep
<1>4. CASE Become(p, NextJob(d))
  BY <1>1, <1>4, NextJobSound, LocalStep DEF StoreStep
<1>5. CASE Become(p, FailForecast(d))
  BY <1>1, <1>5, FailForecastSound, LocalStep DEF StoreStep
<1> QED BY <1>3, <1>4, <1>5 DEF ReadArea, area

LEMMA ReadCohortsStep ==
  ASSUME CommandsInv, NEW p \in Proc, ReadCohorts(p)
  PROVE  CommandsInv' /\ StoreStep
<1> DEFINE d == cmd[p]
           cohorts == Reads(d, Job(d), CohortRow)
           e == [d EXCEPT !.pc = "createForecast", !.cohorts = cohorts]
<1>1. /\ d \in Draft /\ Sound(d) /\ d.pc = "readCohorts" /\ Job(d) \in Part
      /\ UNCHANGED <<storeVars, abandoned>> /\ Become(p, e)
  BY DraftFacts, JobFacts DEF ReadCohorts, At
<1>2. cohorts \in 0..MaxRuns
  BY <1>1, ReadsType
<1> HIDE DEF cohorts
<1>3. e \in Draft /\ Sound(e) /\ e.created = d.created /\ e.city = d.city
  BY <1>1, <1>2 DEF Draft, Label, Sound, AtWork, ForecastSteps
<1> HIDE DEF e
<1> QED BY <1>1, <1>3, LocalStep DEF StoreStep

LEMMA SaveForecastStep ==
  ASSUME CommandsInv, NEW p \in Proc, SaveForecast(p)
  PROVE  CommandsInv' /\ StoreStep
<1> DEFINE d == cmd[p]
           part == ForecastOf[Job(d)]
           put == PutPart(d, part, d.run)
           e == [put EXCEPT !.produced = TRUE]
<1>1. /\ d \in Draft /\ Sound(d) /\ d.pc = "saveForecast" /\ AtWork(d)
      /\ d.jobs # <<>> /\ part \in Part /\ d.run \in d.created
  BY DraftFacts, JobFacts DEF SaveForecast, At, ForecastSteps, Sound
<1>2. /\ d.run \in RunId /\ d.run \in 0..MaxRuns
      /\ d.area \in 0..MaxRuns /\ d.cohorts \in 0..MaxRuns
  BY <1>1 DEF Draft
<1>3. ForecastRow(d.area, d.cohorts) \in Row
  BY <1>2, RowAssumption
<1>4. SaveRow(d.run, ForecastRow(d.area, d.cohorts)) /\ abandoned' = abandoned
      /\ Become(p, NextJob(e))
  BY DEF SaveForecast
<1>5. StoreStep
  BY <1>2, <1>3, <1>4 DEF StoreStep, StoreNext
<1>6. StoreInv' /\ UNCHANGED <<runs, snapshots, runSeq, abandoned>>
  BY <1>4, <1>5, StoreStepIsSound DEF SaveRow, CommandsInv, StoreStep
<1>7. /\ put \in Draft /\ AtWork(put) /\ put.created = d.created
      /\ put.city = d.city /\ put.jobs = d.jobs
  BY <1>1, <1>2, PutPartAtWork
<1> HIDE DEF put
<1>8. /\ e \in Draft /\ AtWork(e) /\ e.created = d.created
      /\ e.city = d.city /\ e.jobs = d.jobs
  BY <1>7 DEF Draft, AtWork
<1> HIDE DEF e
<1>9. /\ NextJob(e) \in Draft /\ Sound(NextJob(e))
      /\ NextJob(e).created = d.created /\ NextJob(e).city = d.city
  BY <1>1, <1>8, NextJobSound
<1> QED BY <1>4, <1>5, <1>6, <1>9, BecomeKeepsInv

LEMMA GivingUpStep ==
  ASSUME CommandsInv, NEW p \in Proc, CommitFails(p) \/ Cancel(p)
  PROVE  CommandsInv' /\ StoreStep
<1> DEFINE d == cmd[p]
           e == [d EXCEPT !.pc = "discard"]
<1>1. /\ d \in Draft /\ Sound(d) /\ d.pc # "idle"
      /\ UNCHANGED <<storeVars, abandoned>> /\ Become(p, e)
  BY DraftFacts DEF CommitFails, Cancel, Working, At
<1>2. e \in Draft /\ Sound(e) /\ e.created = d.created /\ e.city = d.city
  BY <1>1, GiveUpSound
<1> HIDE DEF e
<1> QED BY <1>1, <1>2, LocalStep DEF StoreStep

LEMMA JobFailsStep ==
  ASSUME CommandsInv, NEW p \in Proc, JobFails(p)
  PROVE  CommandsInv' /\ StoreStep
<1> DEFINE d == cmd[p]
<1>1. /\ d \in Draft /\ Sound(d) /\ AtWork(d) /\ d.jobs # <<>> /\ d.pc # "idle"
      /\ UNCHANGED <<storeVars, abandoned>> /\ Become(p, FailJob(d))
  BY DraftFacts, JobFacts DEF JobFails
<1> QED BY <1>1, FailJobSound, LocalStep DEF StoreStep

LEMMA ForecastFailsStep ==
  ASSUME CommandsInv, NEW p \in Proc, ForecastFails(p)
  PROVE  CommandsInv' /\ StoreStep
<1> DEFINE d == cmd[p]
<1>1. /\ d \in Draft /\ Sound(d) /\ d.pc \in ForecastSteps
      /\ UNCHANGED <<storeVars, abandoned>> /\ Become(p, FailForecast(d))
  BY DraftFacts DEF ForecastFails, ForecastSteps
<1> QED BY <1>1, FailForecastSound, LocalStep DEF StoreStep

LEMMA DiscardedStep ==
  ASSUME CommandsInv, NEW p \in Proc, Discarded(p)
  PROVE  CommandsInv' /\ StoreStep
<1>1. /\ UNCHANGED <<storeVars, abandoned>> /\ Become(p, Idle)
      /\ cmd[p].created = {}
  BY DEF Discarded
<1> QED BY <1>1, IdleSound, LocalStep DEF StoreStep

\* Committing: what was put is referenced now, what was not stays owned.
LEMMA CommitStep ==
  ASSUME CommandsInv, NEW p \in Proc, Commit(p)
  PROVE  CommandsInv' /\ StoreStep
<1> USE DEF CommandsInv
<1> DEFINE d == cmd[p]
           unused == UnusedRuns(d)
           e == IF unused = {} THEN Idle
                ELSE [Idle EXCEPT !.pc = "discard", !.city = d.city, !.created = unused]
<1>1. d \in Draft /\ Sound(d) /\ AtWork(d)
  BY DraftFacts DEF Commit, At
<1>2. d.city \in City /\ d.hash \in Hash /\ d.parts \in Change
  BY <1>1 DEF AtWork, Draft
<1>3. CommitSnapshot(d.city, d.hash, d.parts) /\ Become(p, e) /\ abandoned' = abandoned
  BY DEF Commit
<1>4. StoreStep
  BY <1>2, <1>3 DEF StoreStep, StoreNext
<1>5. StoreInv'
  BY <1>4, StoreStepIsSound DEF StoreStep
<1>6. unused \subseteq d.created /\ d.created \subseteq 1..runSeq /\ unused \in SUBSET RunId
  BY <1>1 DEF UnusedRuns, CommandsTypeOK, Draft
<1> HIDE DEF unused
<1>7. /\ e \in Draft /\ Sound(e) /\ e.created = unused
      /\ e.city = d.city \/ e.created = {}
  <2>1. CASE unused = {}
    BY <2>1, IdleSound
  <2>2. CASE unused # {}
    <3>1. e \in Draft /\ e.pc = "discard" /\ e.city = d.city /\ e.created = unused
      BY <1>2, <1>6, <2>2, IdleSound DEF Draft, Label
    <3> QED BY <1>2, <3>1 DEF Sound, ForecastSteps
  <2> QED BY <2>1, <2>2
<1>8. UNCHANGED <<runs, rows, expired, runSeq>>
  BY <1>3 DEF CommitSnapshot
<1> HIDE DEF e
<1>9. /\ cmd' \in [Proc -> Draft] /\ cmd'[p] = e /\ started' = started
      /\ \A q \in Proc \ {p} : cmd'[q] = cmd[q]
  BY <1>3, <1>7 DEF Become, CommandsTypeOK
<1>10. CommandsTypeOK'
  BY <1>3, <1>5, <1>6, <1>7, <1>8, <1>9 DEF CommandsTypeOK, StoreInv
<1>11. \A q \in Proc : Sound(cmd'[q])
  BY <1>7, <1>9
<1>12. CreatedInCity'
  BY <1>6, <1>7, <1>8, <1>9 DEF CreatedInCity
<1>13. NoRunLeaks'
  <2> SUFFICES ASSUME NEW r \in DOMAIN runs
               PROVE  r \in Referenced' \cup LiveRuns' \cup abandoned
    BY <1>3, <1>8 DEF NoRunLeaks
  <2>1. Referenced \subseteq Referenced' /\ Range(d.parts) \ {0} \subseteq Referenced'
    BY <1>2, <1>3, CommitPublishes
  <2>2. \A q \in Proc : cmd'[q].created \subseteq LiveRuns'
    BY DEF LiveRuns
  <2>3. CASE r \in Referenced \cup abandoned
    BY <2>1, <2>3
  <2>4. CASE \E q \in Proc \ {p} : r \in cmd[q].created
    BY <1>9, <2>2, <2>4
  <2>5. CASE r \in d.created
    <3>1. CASE r \in unused
      BY <1>7, <1>9, <2>2, <3>1
    <3>2. CASE r \notin unused
      BY <1>6, <2>1, <2>5, <3>2 DEF UnusedRuns, unused
    <3> QED BY <3>1, <3>2
  <2> QED BY <2>3, <2>4, <2>5 DEF NoRunLeaks, LiveRuns
<1> QED BY <1>4, <1>5, <1>10, <1>11, <1>12, <1>13

\* The least element of a set of ids; Discard takes the runs in that order.
LEMMA LeastExists ==
  ASSUME NEW S \in SUBSET Nat, S # {}
  PROVE  \E s \in S : \A t \in S : s <= t
<1>1. PICK s \in S : \A t \in S : ~ (<<t, s>> \in OpToRel(<, Nat))
  BY NatLessThanWellFounded, WFMin, Zenon
<1>2. \A t \in S : ~ (t < s)
  BY <1>1 DEF OpToRel
<1> QED BY <1>2

LEMMA DiscardStep ==
  ASSUME CommandsInv, NEW p \in Proc, Discard(p)
  PROVE  CommandsInv' /\ StoreStep
<1> USE DEF CommandsInv
<1> DEFINE d == cmd[p]
           r == CHOOSE q \in d.created : \A o \in d.created : q <= o
           rest == d.created \ {r}
           e == IF rest = {} THEN Idle
                ELSE [d EXCEPT !.created = rest, !.parts = Idle.parts]
<1>1. /\ d \in Draft /\ Sound(d) /\ d.pc = "discard" /\ d.city \in City
      /\ d.created \subseteq 1..runSeq /\ d.created \in SUBSET RunId /\ d.created # {}
  BY DraftFacts DEF Discard, At, CommandsTypeOK, Draft, Sound
<1>2. r \in d.created
  <2>1. d.created \in SUBSET Nat
    BY <1>1 DEF RunId
  <2>2. \E q \in d.created : \A o \in d.created : q <= o
    BY <1>1, <2>1, LeastExists
  <2> QED BY <2>2
<1>3. /\ \/ DiscardRun(d.city, r) /\ UNCHANGED abandoned
         \/ UNCHANGED storeVars /\ abandoned' = abandoned \cup {r}
      /\ Become(p, e)
  BY DEF Discard
<1> HIDE DEF r
<1>4. r \in RunId /\ r \in 1..runSeq
  BY <1>1, <1>2
<1>5. StoreStep
  BY <1>1, <1>3, <1>4 DEF StoreStep, StoreNext
<1>6. StoreInv'
  BY <1>5, StoreStepIsSound DEF StoreStep
<1>7. e \in Draft /\ Sound(e) /\ e.created = rest /\ (e.city = d.city \/ rest = {})
  <2>1. CASE rest = {}
    BY <2>1, IdleSound
  <2>2. CASE rest # {}
    <3>1. rest \in SUBSET RunId /\ Idle.parts \in Change
      BY <1>1, IdleSound DEF Draft
    <3>2. /\ e \in Draft /\ e.pc = "discard" /\ e.created = rest /\ e.city = d.city
          /\ e = [d EXCEPT !.created = rest, !.parts = Idle.parts]
      BY <1>1, <2>2, <3>1 DEF Draft
    <3> QED BY <1>1, <2>2, <3>2 DEF Sound, ForecastSteps
  <2> QED BY <2>1, <2>2
<1> HIDE DEF e
<1>8. /\ cmd' \in [Proc -> Draft] /\ cmd'[p] = e /\ started' = started
      /\ \A q \in Proc \ {p} : cmd'[q] = cmd[q]
  BY <1>3, <1>7 DEF Become, CommandsTypeOK
<1>9. /\ runSeq' = runSeq /\ snapshots' = snapshots
      /\ DOMAIN runs' \subseteq DOMAIN runs
      /\ \A q \in DOMAIN runs' : runs'[q] = runs[q]
      /\ r \in DOMAIN runs' => r \in abandoned'
      /\ abandoned' \subseteq abandoned \cup {r} /\ abandoned \subseteq abandoned'
  <2>1. CASE DiscardRun(d.city, r) /\ UNCHANGED abandoned
    <3>1. r \in DOMAIN runs => runs[r].city = d.city
      BY <1>2 DEF CreatedInCity
    <3> QED BY <2>1, <3>1 DEF DiscardRun, DeleteRuns, Restrict
  <2>2. CASE UNCHANGED storeVars /\ abandoned' = abandoned \cup {r}
    BY <2>2 DEF storeVars
  <2> QED BY <1>3, <2>1, <2>2
<1>10. CommandsTypeOK'
  BY <1>1, <1>4, <1>6, <1>7, <1>8, <1>9 DEF CommandsTypeOK, StoreInv
<1>11. \A q \in Proc : Sound(cmd'[q])
  BY <1>7, <1>8
<1>12. CreatedInCity'
  BY <1>7, <1>8, <1>9 DEF CreatedInCity
<1>13. NoRunLeaks'
  <2> SUFFICES ASSUME NEW q \in DOMAIN runs'
               PROVE  q \in Referenced' \cup LiveRuns' \cup abandoned'
    BY DEF NoRunLeaks
  <2>1. Referenced' = Referenced
    BY <1>9 DEF Referenced
  <2>2. LiveRuns \subseteq LiveRuns' \cup {r}
    BY <1>7, <1>8 DEF LiveRuns
  <2> QED BY <1>9, <2>1, <2>2 DEF NoRunLeaks
<1> QED BY <1>5, <1>6, <1>10, <1>11, <1>12, <1>13

LEMMA CrashStep ==
  ASSUME CommandsInv, NEW p \in Proc, Crash(p)
  PROVE  CommandsInv' /\ StoreStep
<1> USE DEF CommandsInv
<1>1. /\ UNCHANGED storeVars /\ Become(p, Idle)
      /\ abandoned' = abandoned \cup cmd[p].created
  BY DEF Crash
<1>2. StoreStep /\ StoreInv'
  BY <1>1, StoreStepIsSound DEF StoreStep
<1>3. /\ cmd' \in [Proc -> Draft] /\ cmd'[p] = Idle /\ started' = started
      /\ \A q \in Proc \ {p} : cmd'[q] = cmd[q]
      /\ UNCHANGED <<runs, snapshots, runSeq>>
  BY <1>1, IdleSound DEF Become, CommandsTypeOK, storeVars
<1>4. CommandsTypeOK'
  BY <1>1, <1>2, <1>3, IdleSound DEF CommandsTypeOK, StoreInv
<1>5. \A q \in Proc : Sound(cmd'[q])
  BY <1>3, IdleSound
<1>6. CreatedInCity'
  BY <1>3, IdleSound DEF CreatedInCity
<1>7. NoRunLeaks'
  <2>1. LiveRuns \subseteq LiveRuns' \cup cmd[p].created
    BY <1>3 DEF LiveRuns
  <2>2. Referenced' = Referenced
    BY <1>3 DEF Referenced
  <2> QED BY <1>1, <1>3, <2>1, <2>2 DEF NoRunLeaks
<1> QED BY <1>2, <1>4, <1>5, <1>6, <1>7

----------------------------------------------------------------------------
(* One lemma for the steps that belong to no process. *)

\* Runs may go, as long as none that a snapshot referenced is merely forgotten.
LEMMA OthersKeepInv ==
  ASSUME CommandsInv, StoreInv', UNCHANGED <<cmd, started, abandoned, runSeq>>,
         DOMAIN runs' \subseteq DOMAIN runs,
         \A r \in DOMAIN runs' : runs'[r] = runs[r],
         DOMAIN runs' \cap Referenced \subseteq Referenced'
  PROVE  CommandsInv'
<1> USE DEF CommandsInv
<1>1. CommandsTypeOK'
  BY DEF CommandsTypeOK, StoreInv
<1>2. CreatedInCity'
  BY DEF CreatedInCity
<1>3. NoRunLeaks'
  BY DEF NoRunLeaks, LiveRuns
<1> QED BY <1>1, <1>2, <1>3

LEMMA RemoveSnapshotStep ==
  ASSUME CommandsInv, RemoveSnapshot
  PROVE  CommandsInv' /\ StoreStep
<1>1. PICK c \in City, s \in DOMAIN snapshots : DeleteSnapshot(c, s)
  BY DEF RemoveSnapshot
<1>2. StoreStep
  BY <1>1 DEF StoreStep, StoreNext
<1>3. StoreInv'
  BY <1>2, StoreStepIsSound DEF StoreStep, CommandsInv
<1> DEFINE R == Range(snapshots[s].parts) \ Referenced'
           owned == {r \in R \cap DOMAIN runs : runs[r].city = c}
<1>4. /\ DOMAIN runs' = DOMAIN runs \ owned /\ runSeq' = runSeq
      /\ \A r \in DOMAIN runs' : runs'[r] = runs[r]
  BY <1>1 DEF DeleteSnapshot, DeleteRuns, Restrict
<1>5. /\ DOMAIN snapshots' = DOMAIN snapshots \ {s}
      /\ \A t \in DOMAIN snapshots' : snapshots'[t] = snapshots[t]
      /\ snapshots[s].city = c /\ snapshots[s].parts \in Manifest
  BY <1>1 DEF DeleteSnapshot, Restrict, CommandsInv, StoreInv, StoreTypeOK, Snapshot
<1>6. \A r \in DOMAIN runs' \cap Referenced : r \in Referenced'
  <2> SUFFICES ASSUME NEW r \in DOMAIN runs', r \in Referenced, r \notin Referenced'
               PROVE  FALSE
    OBVIOUS
  <2>1. PICK t \in DOMAIN snapshots, q \in Part : r = snapshots[t].parts[q] /\ r # 0
    BY DEF Referenced
  <2>2. t = s
    BY <1>5, <2>1 DEF Referenced
  <2>3. r \in Range(snapshots[s].parts)
    BY <1>5, <2>1, <2>2 DEF Range, Manifest
  <2>4. r \in DOMAIN runs
    BY <1>4
  <2>5. runs[r] = [city |-> snapshots[s].city, producer |-> q, hash |-> snapshots[s].hash]
    BY <2>1, <2>2 DEF ManifestsIntact, CommandsInv, StoreInv
  <2>6. runs[r].city = c
    BY <1>5, <2>5
  <2> QED BY <1>4, <2>3, <2>4, <2>6
<1> QED BY <1>2, <1>3, <1>4, <1>6, OthersKeepInv DEF RemoveSnapshot

LEMMA CollectGarbageStep ==
  ASSUME CommandsInv, CollectGarbage
  PROVE  CommandsInv' /\ StoreStep
<1>1. PICK c \in City : GCSweep(c)
  BY DEF CollectGarbage
<1>2. StoreStep
  BY <1>1 DEF StoreStep, StoreNext
<1>3. StoreInv'
  BY <1>2, StoreStepIsSound DEF StoreStep, CommandsInv
<1>4. /\ DOMAIN runs' \subseteq DOMAIN runs /\ runSeq' = runSeq
      /\ \A r \in DOMAIN runs' : runs'[r] = runs[r]
  BY <1>1 DEF GCSweep, DeleteRuns, Restrict
<1>5. Referenced' = Referenced
  BY <1>1 DEF GCSweep, Referenced
<1> QED BY <1>2, <1>3, <1>4, <1>5, OthersKeepInv DEF CollectGarbage

LEMMA TimePassesStep ==
  ASSUME CommandsInv, TimePasses
  PROVE  CommandsInv' /\ StoreStep
<1>1. PICK r \in DOMAIN runs : Expire(r)
  BY DEF TimePasses
<1>2. r \in RunId
  BY BoundsAssumption DEF CommandsInv, StoreInv, StoreTypeOK, RunId
<1>3. StoreStep
  BY <1>1, <1>2 DEF StoreStep, StoreNext
<1>4. StoreInv'
  BY <1>3, StoreStepIsSound DEF StoreStep, CommandsInv
<1>5. UNCHANGED <<runs, runSeq>> /\ Referenced' = Referenced
  BY <1>1 DEF Expire, Referenced
<1> QED BY <1>3, <1>4, <1>5, OthersKeepInv DEF TimePasses

----------------------------------------------------------------------------
LEMMA CommandsInitIsSound == CommandsInit => CommandsInv
<1> SUFFICES ASSUME CommandsInit PROVE CommandsInv
  OBVIOUS
<1>1. StoreInv
  BY StoreInitIsSound DEF CommandsInit
<1>2. \A p \in Proc : cmd[p] = Idle
  BY DEF CommandsInit
<1>3. CommandsTypeOK
  BY <1>1, IdleSound, CommandsAssumption DEF CommandsInit, CommandsTypeOK, StoreInv
<1>4. \A p \in Proc : Sound(cmd[p])
  BY <1>2, IdleSound
<1>5. CreatedInCity /\ NoRunLeaks
  BY <1>2, IdleSound DEF CommandsInit, StoreInit, CreatedInCity, NoRunLeaks
<1> QED BY <1>1, <1>3, <1>4, <1>5 DEF CommandsInv

LEMMA ProceedStep ==
  ASSUME CommandsInv, NEW p \in Proc, Proceed(p)
  PROVE  CommandsInv' /\ StoreStep
BY LoadStep, NewRunStep, SaveStep, ResolveStep, ReadAreaStep, ReadCohortsStep,
   NewForecastRunStep, SaveForecastStep, CommitStep, GivingUpStep, DiscardStep,
   DiscardedStep, JobFailsStep, ForecastFailsStep, NewRunUnreadStep DEF Proceed

LEMMA CommandsStep ==
  CommandsInv /\ [CommandsNext]_commandVars => CommandsInv' /\ StoreStep
<1> SUFFICES ASSUME CommandsInv, [CommandsNext]_commandVars
             PROVE  CommandsInv' /\ StoreStep
  OBVIOUS
<1>1. CASE \E p \in Proc : Start(p) \/ Proceed(p) \/ Cancel(p) \/ Crash(p)
  BY <1>1, StartStep, ProceedStep, GivingUpStep, CrashStep
<1>2. CASE RemoveSnapshot
  BY <1>2, RemoveSnapshotStep
<1>3. CASE CollectGarbage
  BY <1>3, CollectGarbageStep
<1>4. CASE TimePasses
  BY <1>4, TimePassesStep
<1>5. CASE UNCHANGED commandVars
  <2>1. UNCHANGED <<storeVars, cmd, started, abandoned>>
    BY <1>5 DEF commandVars
  <2>2. StoreStep /\ StoreInv' /\ Referenced' = Referenced
    BY <2>1, StoreStepIsSound DEF StoreStep, CommandsInv, storeVars, Referenced
  <2> QED BY <2>1, <2>2, OthersKeepInv DEF storeVars
<1> QED BY <1>1, <1>2, <1>3, <1>4, <1>5 DEF CommandsNext

(* The inductive invariant of the commands. *)
THEOREM CommandsAreSound == CommandsSpec => []CommandsInv
<1>1. CommandsInit => CommandsInv
  BY CommandsInitIsSound
<1>2. CommandsInv /\ [CommandsNext]_commandVars => CommandsInv'
  BY CommandsStep
<1> QED BY <1>1, <1>2, PTL DEF CommandsSpec

(* Drafts and tables stay well typed. *)
THEOREM CommandsTypes == CommandsSpec => []CommandsTypeOK
<1>1. CommandsInv => CommandsTypeOK
  BY DEF CommandsInv
<1> QED BY <1>1, CommandsAreSound, PTL

(* Every step of every command is a call of the Store interface or leaves   *)
(* the store alone: whatever the store guarantees its clients holds here.   *)
THEOREM CommandsUseTheStore == CommandsSpec => StoreSpec
<1>1. CommandsInit => StoreInit
  BY DEF CommandsInit
<1>2. CommandsInv /\ [CommandsNext]_commandVars => [StoreNext]_storeVars
  BY CommandsStep DEF StoreStep
<1> QED BY <1>1, <1>2, CommandsAreSound, PTL DEF CommandsSpec, StoreSpec

(* However many commands run, fail, are cancelled or killed, and whatever   *)
(* gc and snapshot deletion do meanwhile, every manifest stays intact.      *)
THEOREM ManifestsStayIntactUnderCommands == CommandsSpec => []ManifestsIntact
BY CommandsUseTheStore, ManifestsStayIntact, PTL

(* A run is published, owned by a live draft, or was lost in one of three   *)
(* ways: a crash, a failed delete, a NewRun that failed behind its INSERT.  *)
THEOREM RunsAreLostInThreeWays == CommandsSpec => []NoRunLeaks
<1>1. CommandsInv => NoRunLeaks
  BY DEF CommandsInv
<1> QED BY <1>1, CommandsAreSound, PTL

-----------------------------------------------------------------------------
(***************************************************************************)
(* Who owns a run, and what readers of the published snapshots can rely    *)
(* on: proofs for any number of processes, any failures, and any           *)
(* interleaving of commands, gc and snapshot deletion.                     *)
(*                                                                         *)
(*   - RunsHaveOneOwner: two live drafts never own the same run (OwnRuns), *)
(*     and what a draft owns is not published yet (Unpublished);           *)
(*   - LiveDraftsAreSafe: when commands are quicker than the grace period, *)
(*     nobody takes a run from under a live draft;                         *)
(*   - CommitsLoseNothing: a commit loses no part of another command's;    *)
(*   - CommandsPublish: the commands implement PublishedSnapshots: saving, *)
(*     failing, crashing, discarding and gc are invisible, because rows    *)
(*     are only ever written to runs the writing draft owns.               *)
(*                                                                         *)
(* The invariants do not depend on what a command computes, only on what   *)
(* its steps do to runs and to the draft's set of created runs: StepKinds  *)
(* sorts the steps by that, once, and the proofs go by kind.               *)
(***************************************************************************)

\* Two drafts never own the same run.
OwnRuns ==
  \A p, q \in Proc : p # q => cmd[p].created \cap cmd[q].created = {}

\* What a draft owns is not published.
Unpublished == \A p \in Proc : cmd[p].created \cap Referenced = {}

OwnershipInv == CommandsInv /\ OwnRuns /\ Unpublished

\* As long as commands end within the grace period, a working draft's runs
\* exist and are younger than it.
LiveRunsAreYoung ==
  ~SlowCommands =>
    \A p \in Proc : Working(p) => cmd[p].created \subseteq DOMAIN runs \ expired

----------------------------------------------------------------------------
(* The kinds of steps.                                                     *)

OnlyMoves(p) ==
  /\ cmd' \in [Proc -> Draft]
  /\ \A q \in Proc \ {p} : cmd'[q] = cmd[q]

\* The process moves on, or gives up, without touching the store.
Quiet(p) ==
  /\ OnlyMoves(p)
  /\ UNCHANGED storeVars
  /\ cmd'[p].created \subseteq cmd[p].created
  /\ cmd'[p].pc \notin {"idle", "discard"} => Working(p) \/ cmd'[p].created = {}

\* The draft owns the new run, or never hears of it.
Creates(p) ==
  /\ OnlyMoves(p)
  /\ Working(p)
  /\ \E part \in Part : CreateRun(cmd[p].city, part, cmd[p].hash)
  /\ cmd'[p].created \in {cmd[p].created, cmd[p].created \cup {runSeq'}}

Saves(p) ==
  /\ OnlyMoves(p)
  /\ Working(p)
  /\ cmd[p].run \in cmd[p].created
  /\ cmd'[p].created = cmd[p].created
  /\ \/ \E x \in Row : SaveRow(cmd[p].run, x)
     \/ ReplaceRows(cmd[p].run, {MetricRow}, {})

Publishes(p) ==
  /\ OnlyMoves(p)
  /\ At(p, "commit")
  /\ CommitSnapshot(cmd[p].city, cmd[p].hash, cmd[p].parts)
  /\ cmd'[p].created = UnusedRuns(cmd[p])
  /\ cmd'[p].pc \in {"idle", "discard"}

Drops(p) ==
  /\ OnlyMoves(p)
  /\ cmd[p].pc = "discard"
  /\ cmd'[p].pc \in {"idle", "discard"}
  /\ \E r \in cmd[p].created :
       /\ DiscardRun(cmd[p].city, r)
       /\ cmd'[p].created = cmd[p].created \ {r}

\* Gc, a deletion, or time; and stuttering.
Elsewhere ==
  /\ cmd' = cmd
  /\ \/ \E c \in City, s \in DOMAIN snapshots : DeleteSnapshot(c, s)
     \/ \E c \in City : GCSweep(c)
     \/ \E r \in DOMAIN runs \ expired :
          (r \notin LiveRuns \/ SlowCommands) /\ Expire(r)
     \/ UNCHANGED storeVars

OwnStep(p) == Quiet(p) \/ Creates(p) \/ Saves(p) \/ Publishes(p) \/ Drops(p)

LEMMA BecomeMoves ==
  ASSUME CommandsInv, NEW p \in Proc, NEW d \in Draft, Become(p, d)
  PROVE  OnlyMoves(p) /\ cmd'[p] = d
BY DEF Become, OnlyMoves, CommandsInv, CommandsTypeOK

\* A step of a working process that leaves the store and the runs alone.
LEMMA WorkingQuietly ==
  ASSUME CommandsInv, NEW p \in Proc, NEW d \in Draft, Become(p, d),
         Working(p), d.created = cmd[p].created, UNCHANGED storeVars
  PROVE  Quiet(p)
BY BecomeMoves DEF Quiet

LEMMA StartKind ==
  ASSUME CommandsInv, NEW p \in Proc, Start(p)
  PROVE  Quiet(p)
<1>1. PICK name \in CommandNames, c \in City, h \in Hash :
        \E jobs \in JobsOf(name) :
           cmd' = [cmd EXCEPT ![p] =
                     [Idle EXCEPT !.pc = FirstStep(name), !.name = name,
                                  !.city = c, !.hash = h, !.jobs = jobs]]
  BY DEF Start
<1>2. PICK jobs \in JobsOf(name) :
         cmd' = [cmd EXCEPT ![p] =
                   [Idle EXCEPT !.pc = FirstStep(name), !.name = name,
                                !.city = c, !.hash = h, !.jobs = jobs]]
  BY <1>1
<1>3. cmd'[p].created = {} /\ \A q \in Proc \ {p} : cmd'[q] = cmd[q]
  BY <1>2 DEF CommandsInv, CommandsTypeOK, Idle
<1>4. cmd' \in [Proc -> Draft]
  BY StartStep DEF CommandsInv, CommandsTypeOK
<1> QED BY <1>3, <1>4 DEF Quiet, OnlyMoves, Start

LEMMA LoadKind ==
  ASSUME CommandsInv, NEW p \in Proc, Load(p)
  PROVE  Quiet(p)
<1> DEFINE d == cmd[p]
<1>1. /\ d \in Draft /\ AtWork(d) /\ d.pc = "load" /\ Working(p)
      /\ Job(d) \in Part /\ d.jobs # <<>> /\ 0 \in 0..MaxRuns
      /\ UNCHANGED storeVars
  BY DraftFacts, JobFacts, BoundsAssumption DEF Load, At, Working
<1>2. CASE Become(p, [d EXCEPT !.pc = "create"])
  <2>1. [d EXCEPT !.pc = "create"] \in Draft
    BY <1>1 DEF Draft, Label
  <2> QED BY <1>1, <1>2, <2>1, WorkingQuietly DEF Draft
<1>3. ASSUME NEW e \in Draft, AtWork(e), e.created = d.created, e.jobs # <<>>,
             Become(p, NextJob(e))
      PROVE  Quiet(p)
  <2>1. NextJob(e) \in Draft /\ NextJob(e).created = d.created
    BY <1>3, NextJobSound
  <2> QED BY <1>1, <1>3, <2>1, WorkingQuietly
<1>4. LET e == DropPart(d, Job(d))
      IN  e \in Draft /\ AtWork(e) /\ e.created = d.created /\ e.jobs # <<>>
  BY <1>1, PutPartAtWork DEF DropPart
<1>5. CASE Become(p, NextJob(DropPart(d, Job(d))))
  BY <1>3, <1>4, <1>5
<1>6. CASE Job(d) \in Resource
           /\ Become(p, NextJob(DropPart(DropPart(d, Job(d)), ForecastOf[Job(d)])))
  <2> DEFINE e == DropPart(d, Job(d))
             f == DropPart(e, ForecastOf[Job(d)])
  <2>1. ForecastOf[Job(d)] \in Part
    BY <1>6, PartsArePart
  <2>2. e \in Draft /\ AtWork(e) /\ e.created = d.created /\ e.jobs # <<>>
    BY <1>4
  <2> HIDE DEF e
  <2>3. f \in Draft /\ AtWork(f) /\ f.created = d.created /\ f.jobs # <<>>
    BY <1>1, <2>1, <2>2, PutPartAtWork DEF DropPart
  <2> QED BY <1>3, <1>6, <2>3 DEF e
<1> QED BY <1>2, <1>5, <1>6 DEF Load

LEMMA NewRunKind ==
  ASSUME CommandsInv, NEW p \in Proc, NewRun(p) \/ NewForecastRun(p)
  PROVE  Creates(p)
<1> DEFINE d == cmd[p]
<1>1. /\ d \in Draft /\ Working(p) /\ Job(d) \in Part
      /\ NewForecastRun(p) => ForecastOf[Job(d)] \in Part
  BY DraftFacts, JobFacts DEF NewRun, NewForecastRun, At, Working, ForecastSteps
<1>2. cmd' \in [Proc -> Draft]
  BY NewRunStep, NewForecastRunStep DEF CommandsInv, CommandsTypeOK
<1>3. /\ cmd'[p].created = d.created \cup {runSeq'}
      /\ \A q \in Proc \ {p} : cmd'[q] = cmd[q]
  <2>1. CASE NewRun(p)
    BY <1>1, <2>1 DEF NewRun, Become, CommandsInv, CommandsTypeOK, Draft
  <2>2. CASE NewForecastRun(p)
    BY <1>1, <2>2 DEF NewForecastRun, Become, CommandsInv, CommandsTypeOK, Draft
  <2> QED BY <2>1, <2>2
<1>4. \E part \in Part : CreateRun(d.city, part, d.hash)
  BY <1>1 DEF NewRun, NewForecastRun
<1> QED BY <1>1, <1>2, <1>3, <1>4 DEF Creates, OnlyMoves

LEMMA NewRunUnreadKind ==
  ASSUME CommandsInv, NEW p \in Proc, NewRunUnread(p)
  PROVE  Creates(p)
<1> DEFINE d == cmd[p]
           e == [d EXCEPT !.pc = "discard"]
<1>1. /\ d \in Draft /\ Sound(d) /\ AtWork(d) /\ d.pc \in {"create", "createForecast"}
      /\ Job(d) \in Part /\ d.jobs # <<>> /\ d.pc # "idle" /\ Working(p)
      /\ d.pc = "createForecast" => ForecastOf[Job(d)] \in Part /\ d.pc \in ForecastSteps
  BY DraftFacts, JobFacts DEF NewRunUnread, At, ForecastSteps, Working
<1>2. \E part \in Part : CreateRun(d.city, part, d.hash)
  BY <1>1 DEF NewRunUnread, At
<1>3. ASSUME NEW f \in Draft, f.created = d.created, Become(p, f)
      PROVE  Creates(p)
  <2>1. OnlyMoves(p) /\ cmd'[p] = f
    BY <1>3, BecomeMoves
  <2> QED BY <1>1, <1>2, <1>3, <2>1 DEF Creates
<1>4. CASE Become(p, e)
  BY <1>1, <1>3, <1>4, GiveUpSound
<1>5. CASE d.pc = "create" /\ Become(p, FailJob(d))
  BY <1>1, <1>3, <1>5, FailJobSound
<1>6. CASE d.pc = "createForecast" /\ Become(p, FailForecast(d))
  BY <1>1, <1>3, <1>6, FailForecastSound
<1> QED BY <1>4, <1>5, <1>6 DEF NewRunUnread, At

LEMMA SaveKind ==
  ASSUME CommandsInv, NEW p \in Proc, Save(p)
  PROVE  Saves(p)
<1> DEFINE d == cmd[p]
           e == IF Len(d.unsaved) = 1 THEN Saved(d)
                ELSE [d EXCEPT !.unsaved = Tail(d.unsaved)]
<1>1. /\ d \in Draft /\ Sound(d) /\ d.pc = "save" /\ d.run \in d.created
      /\ d.unsaved \in Seq(Row) /\ d.unsaved # <<>>
  BY DraftFacts DEF Save, At, Sound, Draft
<1>2. Head(d.unsaved) \in Row /\ Tail(d.unsaved) \in Seq(Row)
  BY <1>1, HeadTailProperties
<1>3. e \in Draft /\ e.created = d.created
  <2>1. CASE Len(d.unsaved) = 1
    BY <1>1, <2>1, SavedSound
  <2>2. CASE Len(d.unsaved) # 1
    BY <1>1, <1>2, <2>2 DEF Draft
  <2> QED BY <2>1, <2>2
<1>4. Become(p, e)
  BY DEF Save
<1> HIDE DEF e
<1>5. OnlyMoves(p) /\ cmd'[p].created = d.created
  BY <1>3, <1>4, BecomeMoves
<1> QED BY <1>1, <1>2, <1>5 DEF Save, Saves, Working

LEMMA SaveForecastKind ==
  ASSUME CommandsInv, NEW p \in Proc, SaveForecast(p)
  PROVE  Saves(p)
<1> DEFINE d == cmd[p]
           put == PutPart(d, ForecastOf[Job(d)], d.run)
           e == [put EXCEPT !.produced = TRUE]
<1>1. /\ d \in Draft /\ d.pc = "saveForecast" /\ AtWork(d) /\ d.jobs # <<>>
      /\ ForecastOf[Job(d)] \in Part /\ d.run \in d.created
  BY DraftFacts, JobFacts DEF SaveForecast, At, ForecastSteps, Sound
<1>2. /\ d.run \in 0..MaxRuns
      /\ ForecastRow(d.area, d.cohorts) \in Row
  BY <1>1, RowAssumption DEF Draft
<1>3. put \in Draft /\ AtWork(put) /\ put.created = d.created /\ put.jobs # <<>>
  BY <1>1, <1>2, PutPartAtWork
<1> HIDE DEF put
<1>4. e \in Draft /\ AtWork(e) /\ e.created = d.created /\ e.jobs # <<>>
  BY <1>3 DEF Draft, AtWork
<1>5. Become(p, NextJob(e))
  BY DEF SaveForecast, put
<1> HIDE DEF e
<1>6. NextJob(e) \in Draft /\ NextJob(e).created = d.created
  BY <1>4, NextJobSound
<1>7. OnlyMoves(p) /\ cmd'[p].created = d.created
  BY <1>5, <1>6, BecomeMoves
<1> QED BY <1>1, <1>2, <1>7 DEF SaveForecast, Saves, Working

\* Resolving, reading and failing: the draft keeps its runs.
LEMMA ReadKind ==
  ASSUME CommandsInv, NEW p \in Proc,
         \/ ResolveArea(p) \/ ReadArea(p) \/ ResolveCohorts(p) \/ ReadCohorts(p)
  PROVE  Quiet(p)
<1> DEFINE d == cmd[p]
<1>1. /\ d \in Draft /\ Sound(d) /\ d.pc \in ForecastSteps /\ Working(p)
      /\ AtWork(d) /\ d.jobs # <<>> /\ UNCHANGED storeVars
  BY DraftFacts, JobFacts
     DEF ResolveArea, ReadArea, ResolveCohorts, ReadCohorts, At, ForecastSteps, Working
<1>2. cmd' \in [Proc -> Draft]
  BY ResolveStep, ReadAreaStep, ReadCohortsStep DEF CommandsInv, CommandsTypeOK
<1>3. \E e : Become(p, e) /\ e.created = d.created
  <2>1. ASSUME NEW pc, NEW newest, Become(p, [d EXCEPT !.pc = pc, !.snap = newest])
        PROVE  \E e : Become(p, e) /\ e.created = d.created
    <3>1. [d EXCEPT !.pc = pc, !.snap = newest].created = d.created
      BY <1>1 DEF Draft
    <3> QED BY <2>1, <3>1
  <2>2. ASSUME NEW cohorts,
               Become(p, [d EXCEPT !.pc = "createForecast", !.cohorts = cohorts])
        PROVE  \E e : Become(p, e) /\ e.created = d.created
    <3>1. [d EXCEPT !.pc = "createForecast", !.cohorts = cohorts].created = d.created
      BY <1>1 DEF Draft
    <3> QED BY <2>2, <3>1
  <2>3. CASE ReadArea(p)
    <3>1. CASE Become(p, NextJob(d))
      BY <1>1, <3>1, NextJobSound
    <3>2. CASE Become(p, FailForecast(d))
      BY <1>1, <3>2, FailForecastSound
    <3>3. ASSUME NEW area, Become(p, [d EXCEPT !.pc = "resolveCohorts", !.area = area])
          PROVE  \E e : Become(p, e) /\ e.created = d.created
      <4>1. [d EXCEPT !.pc = "resolveCohorts", !.area = area].created = d.created
        BY <1>1 DEF Draft
      <4> QED BY <3>3, <4>1
    <3> QED BY <2>3, <3>1, <3>2, <3>3 DEF ReadArea
  <2> QED BY <2>1, <2>2, <2>3 DEF ResolveArea, ResolveCohorts, ReadCohorts
<1>4. cmd'[p].created = d.created /\ \A q \in Proc \ {p} : cmd'[q] = cmd[q]
  BY <1>3 DEF Become, CommandsInv, CommandsTypeOK
<1> QED BY <1>1, <1>2, <1>4 DEF Quiet, OnlyMoves

LEMMA FailureKind ==
  ASSUME CommandsInv, NEW p \in Proc,
         \/ CommitFails(p) \/ Discarded(p) \/ JobFails(p) \/ ForecastFails(p)
         \/ Cancel(p) \/ Crash(p)
  PROVE  Quiet(p)
<1> DEFINE d == cmd[p]
<1>1. d \in Draft /\ Sound(d) /\ UNCHANGED storeVars
  BY DraftFacts DEF CommitFails, Discarded, JobFails, ForecastFails, Cancel, Crash
<1>2. CASE CommitFails(p) \/ Cancel(p)
  <2>1. Working(p) /\ d.pc # "idle" /\ Become(p, [d EXCEPT !.pc = "discard"])
    BY <1>2 DEF CommitFails, Cancel, Working, At
  <2> QED BY <1>1, <2>1, GiveUpSound, WorkingQuietly
<1>3. CASE JobFails(p)
  <2>1. Working(p) /\ AtWork(d) /\ d.jobs # <<>> /\ d.pc # "idle" /\ Become(p, FailJob(d))
    BY <1>1, <1>3, DraftFacts, JobFacts DEF JobFails, Working
  <2> QED BY <1>1, <2>1, FailJobSound, WorkingQuietly
<1>4. CASE ForecastFails(p)
  <2>1. Working(p) /\ d.pc \in ForecastSteps /\ Become(p, FailForecast(d))
    BY <1>4 DEF ForecastFails, Working, ForecastSteps
  <2> QED BY <1>1, <2>1, FailForecastSound, WorkingQuietly
<1>5. CASE Discarded(p) \/ Crash(p)
  <2>1. Become(p, Idle)
    BY <1>5 DEF Discarded, Crash
  <2>2. OnlyMoves(p) /\ cmd'[p] = Idle
    BY <2>1, IdleSound, BecomeMoves
  <2> QED BY <1>1, <2>2, IdleSound DEF Quiet
<1> QED BY <1>2, <1>3, <1>4, <1>5

LEMMA CommitKind ==
  ASSUME CommandsInv, NEW p \in Proc, Commit(p)
  PROVE  Publishes(p)
<1> DEFINE d == cmd[p]
           e == IF UnusedRuns(d) = {} THEN Idle
                ELSE [Idle EXCEPT !.pc = "discard", !.city = d.city,
                                  !.created = UnusedRuns(d)]
<1>1. Become(p, e) /\ At(p, "commit") /\ CommitSnapshot(d.city, d.hash, d.parts)
  BY DEF Commit
<1>2. e.created = UnusedRuns(d) /\ e.pc \in {"idle", "discard"}
  BY DEF Idle
<1> HIDE DEF e
<1>3. cmd'[p] = e /\ \A q \in Proc \ {p} : cmd'[q] = cmd[q]
  BY <1>1 DEF Become, CommandsInv, CommandsTypeOK
<1>4. cmd' \in [Proc -> Draft]
  BY CommitStep DEF CommandsInv, CommandsTypeOK
<1> QED BY <1>1, <1>2, <1>3, <1>4 DEF Publishes, OnlyMoves

LEMMA DiscardKind ==
  ASSUME CommandsInv, NEW p \in Proc, Discard(p)
  PROVE  Quiet(p) \/ Drops(p)
<1> DEFINE d == cmd[p]
           r == CHOOSE q \in d.created : \A o \in d.created : q <= o
           rest == d.created \ {r}
           e == IF rest = {} THEN Idle
                ELSE [d EXCEPT !.created = rest, !.parts = Idle.parts]
<1>1. /\ d \in Draft /\ d.pc = "discard" /\ d.created \in SUBSET RunId /\ d.created # {}
  BY DraftFacts DEF Discard, At, Draft
<1>2. r \in d.created
  <2>1. d.created \in SUBSET Nat
    BY <1>1 DEF RunId
  <2>2. \E q \in d.created : \A o \in d.created : q <= o
    BY <1>1, <2>1, LeastExists
  <2> QED BY <2>2
<1>3. Become(p, e) /\ (DiscardRun(d.city, r) \/ UNCHANGED storeVars)
  BY DEF Discard
<1> HIDE DEF r
<1>4. e.created = rest /\ e.pc \in {"idle", "discard"}
  BY <1>1, IdleSound DEF Draft
<1> HIDE DEF e
<1>5. cmd'[p] = e /\ \A q \in Proc \ {p} : cmd'[q] = cmd[q]
  BY <1>3 DEF Become, CommandsInv, CommandsTypeOK
<1>6. OnlyMoves(p)
  BY <1>5, DiscardStep DEF OnlyMoves, CommandsInv, CommandsTypeOK
<1> QED BY <1>1, <1>2, <1>3, <1>4, <1>5, <1>6 DEF Quiet, Drops

\* Every step of the commands is of one of the kinds.
LEMMA StepKinds ==
  ASSUME CommandsInv, [CommandsNext]_commandVars
  PROVE  (\E p \in Proc : OwnStep(p)) \/ Elsewhere
<1>1. CASE \E p \in Proc : Start(p) \/ Proceed(p) \/ Cancel(p) \/ Crash(p)
  <2>1. PICK p \in Proc : Start(p) \/ Proceed(p) \/ Cancel(p) \/ Crash(p)
    BY <1>1
  <2> QED BY <2>1, StartKind, LoadKind, NewRunKind, NewRunUnreadKind, SaveKind, SaveForecastKind, ReadKind,
             FailureKind, CommitKind, DiscardKind DEF Proceed, OwnStep
<1>2. CASE RemoveSnapshot \/ CollectGarbage \/ TimePasses
  BY <1>2 DEF RemoveSnapshot, CollectGarbage, TimePasses, Elsewhere
<1>3. CASE UNCHANGED commandVars
  BY <1>3 DEF commandVars, Elsewhere
<1> QED BY <1>1, <1>2, <1>3 DEF CommandsNext
----------------------------------------------------------------------------
(* Ownership is kept by every kind of step.                                *)

LEMMA ReferencedExist ==
  ASSUME StoreInv
  PROVE  Referenced \subseteq DOMAIN runs
<1> SUFFICES ASSUME NEW s \in DOMAIN snapshots, NEW p \in Part,
                    snapshots[s].parts[p] # 0
             PROVE  snapshots[s].parts[p] \in DOMAIN runs
  BY DEF Referenced
<1> QED BY DEF StoreInv, ManifestsIntact

\* A commit makes nothing referenced but what it was asked to put.
LEMMA CommitReferences ==
  ASSUME StoreInv, NEW c, NEW h, NEW change \in Change, CommitSnapshot(c, h, change)
  PROVE  Referenced' \subseteq Referenced \cup Range(change)
<1> DEFINE base     == SnapshotParts(c, NewestSnapshotID(c, h))
           manifest == ApplyParts(base, change)
<1>1. \/ UNCHANGED <<snapshots, snapshotSeq>>
      \/ InsertSnapshot(c, h, manifest)
  BY DEF CommitSnapshot
<1>2. \A q \in Part : base[q] # 0 => base[q] \in Referenced
  BY DEF SnapshotParts, NoParts, Referenced
<1>3. \A q \in Part : manifest[q] # 0 => manifest[q] \in Referenced \cup Range(change)
  BY <1>2 DEF ApplyParts, Range
<1> HIDE DEF manifest
<1>4. CASE UNCHANGED <<snapshots, snapshotSeq>>
  BY <1>4 DEF Referenced
<1>5. CASE InsertSnapshot(c, h, manifest)
  <2>1. snapshotSeq' \notin DOMAIN snapshots
    BY <1>5, BoundsAssumption DEF InsertSnapshot, StoreInv, StoreTypeOK
  <2>2. /\ DOMAIN snapshots' = DOMAIN snapshots \cup {snapshotSeq'}
        /\ snapshots'[snapshotSeq'].parts = manifest
        /\ \A s \in DOMAIN snapshots : snapshots'[s] = snapshots[s]
    BY <1>5, <2>1 DEF InsertSnapshot
  <2>3. SUFFICES ASSUME NEW s \in DOMAIN snapshots', NEW q \in Part,
                        snapshots'[s].parts[q] # 0
                 PROVE  snapshots'[s].parts[q] \in Referenced \cup Range(change)
    BY DEF Referenced
  <2>4. CASE s = snapshotSeq'
    BY <1>3, <2>2, <2>3, <2>4
  <2>5. CASE s \in DOMAIN snapshots
    BY <2>2, <2>3, <2>5 DEF Referenced
  <2> QED BY <2>2, <2>4, <2>5
<1> QED BY <1>1, <1>4, <1>5

LEMMA OwnStepKeepsOwnership ==
  ASSUME OwnershipInv, NEW p \in Proc, OwnStep(p)
  PROVE  OwnRuns' /\ Unpublished'
<1> USE DEF OwnershipInv, CommandsInv
<1> DEFINE d == cmd[p]
<1>1. \A q \in Proc \ {p} : cmd'[q] = cmd[q]
  BY DEF OwnStep, Quiet, Creates, Saves, Publishes, Drops, OnlyMoves
<1>2. ASSUME cmd'[p].created \subseteq d.created, Referenced' \subseteq Referenced
      PROVE  OwnRuns' /\ Unpublished'
  BY <1>1, <1>2 DEF OwnRuns, Unpublished
<1>3. CASE Quiet(p)
  BY <1>2, <1>3 DEF Quiet, storeVars, Referenced
<1>4. CASE Creates(p)
  <2>1. /\ cmd'[p].created \subseteq d.created \cup {runSeq'} /\ runSeq' = runSeq + 1
        /\ snapshots' = snapshots /\ runSeq \in Nat
    BY <1>4, BoundsAssumption DEF Creates, CreateRun, CommandsTypeOK, StoreTypeOK
  <2>2. \A q \in Proc : runSeq' \notin cmd[q].created
    BY <2>1 DEF CommandsTypeOK
  <2>3. Referenced' = Referenced /\ runSeq' \notin Referenced
    BY <2>1, ReferencedExist DEF Referenced, CommandsTypeOK, StoreTypeOK
  <2> QED BY <1>1, <2>1, <2>2, <2>3 DEF OwnRuns, Unpublished
<1>5. CASE Saves(p)
  BY <1>2, <1>5 DEF Saves, SaveRow, ReplaceRows, Referenced
<1>6. CASE Publishes(p)
  <2>1. AtWork(d) /\ d.parts \in Change
    BY <1>6, DraftFacts DEF Publishes, At, Draft
  <2>2. Referenced' \subseteq Referenced \cup Range(d.parts)
    BY <1>6, <2>1, CommitReferences DEF Publishes
  <2>3. Range(d.parts) \subseteq d.created \cup {0}
    BY <2>1 DEF AtWork
  <2>4. cmd'[p].created = d.created \ Range(d.parts)
    BY <1>6 DEF Publishes, UnusedRuns
  <2>5. 0 \notin Referenced'
    BY DEF Referenced
  <2>6. OwnRuns'
    BY <1>1, <2>4 DEF OwnRuns
  <2>7. Unpublished'
    BY <1>1, <2>2, <2>3, <2>4, <2>5 DEF OwnRuns, Unpublished
  <2> QED BY <2>6, <2>7
<1>7. CASE Drops(p)
  BY <1>2, <1>7 DEF Drops, DiscardRun, Referenced
<1> QED BY <1>3, <1>4, <1>5, <1>6, <1>7 DEF OwnStep

LEMMA ElsewhereKeepsOwnership ==
  ASSUME OwnershipInv, Elsewhere
  PROVE  OwnRuns' /\ Unpublished'
<1>1. Referenced' \subseteq Referenced
  <2>1. /\ DOMAIN snapshots' \subseteq DOMAIN snapshots
        /\ \A s \in DOMAIN snapshots' : snapshots'[s] = snapshots[s]
    BY DEF Elsewhere, DeleteSnapshot, Restrict, GCSweep, Expire, storeVars
  <2> QED BY <2>1 DEF Referenced
<1>2. cmd' = cmd
  BY DEF Elsewhere
<1> QED BY <1>1, <1>2 DEF OwnershipInv, OwnRuns, Unpublished

LEMMA OwnershipStep ==
  OwnershipInv /\ [CommandsNext]_commandVars => OwnershipInv'
<1> SUFFICES ASSUME OwnershipInv, [CommandsNext]_commandVars PROVE OwnershipInv'
  OBVIOUS
<1>1. CommandsInv'
  BY CommandsStep DEF OwnershipInv
<1>2. (\E p \in Proc : OwnStep(p)) \/ Elsewhere
  BY StepKinds DEF OwnershipInv
<1> QED
  BY <1>1, <1>2, OwnStepKeepsOwnership, ElsewhereKeepsOwnership DEF OwnershipInv

\* Of every behaviour: no run has two owners, and an owned run is not public.
THEOREM RunsHaveOneOwner == CommandsSpec => []OwnershipInv
<1>1. CommandsInit => OwnershipInv
  <2> SUFFICES ASSUME CommandsInit PROVE OwnershipInv
    OBVIOUS
  <2>1. \A p \in Proc : cmd[p].created = {}
    BY IdleSound DEF CommandsInit
  <2> QED BY <2>1, CommandsInitIsSound DEF OwnershipInv, OwnRuns, Unpublished
<1>2. OwnershipInv /\ [CommandsNext]_commandVars => OwnershipInv'
  BY OwnershipStep
<1> QED BY <1>1, <1>2, PTL DEF CommandsSpec

----------------------------------------------------------------------------
(* Nobody takes a run from under a live draft.                              *)

LEMMA LiveRunsStep ==
  OwnershipInv /\ LiveRunsAreYoung /\ [CommandsNext]_commandVars => LiveRunsAreYoung'
<1> SUFFICES ASSUME OwnershipInv, LiveRunsAreYoung, [CommandsNext]_commandVars,
                    ~SlowCommands, NEW q \in Proc, cmd'[q].pc \notin {"idle", "discard"}
             PROVE  cmd'[q].created \subseteq DOMAIN runs' \ expired'
  BY DEF LiveRunsAreYoung, Working
<1> USE DEF OwnershipInv, CommandsInv
<1>1. (\E p \in Proc : OwnStep(p)) \/ Elsewhere
  BY StepKinds
<1>2. Working(q) => cmd[q].created \subseteq DOMAIN runs \ expired
  BY DEF LiveRunsAreYoung
<1>3. ASSUME NEW p \in Proc, OwnStep(p)
      PROVE  cmd'[q].created \subseteq DOMAIN runs' \ expired'
  <2>1. \A o \in Proc \ {p} : cmd'[o] = cmd[o]
    BY <1>3 DEF OwnStep, Quiet, Creates, Saves, Publishes, Drops, OnlyMoves
  <2>2. CASE Quiet(p)
    BY <1>2, <2>1, <2>2 DEF Quiet, Working, storeVars
  <2>3. CASE Creates(p)
    <3>1. /\ DOMAIN runs' = DOMAIN runs \cup {runSeq'} /\ expired' = expired
          /\ runSeq' = runSeq + 1 /\ runSeq \in Nat
      BY <2>3, BoundsAssumption DEF Creates, CreateRun, CommandsTypeOK, StoreTypeOK
    <3>2. runSeq' \notin expired
      BY <3>1 DEF CommandsTypeOK, StoreTypeOK
    <3>3. Working(q) /\ cmd'[q].created \subseteq cmd[q].created \cup {runSeq'}
      BY <2>1, <2>3 DEF Creates, Working
    <3> QED BY <1>2, <3>1, <3>2, <3>3
  <2>4. CASE Saves(p)
    BY <1>2, <2>1, <2>4 DEF Saves, SaveRow, ReplaceRows, Working
  <2>5. CASE Publishes(p)
    BY <1>2, <2>1, <2>5 DEF Publishes, CommitSnapshot, Working
  <2>6. CASE Drops(p)
    <3>1. q # p
      BY <2>6 DEF Drops
    <3>2. PICK r \in cmd[p].created : DiscardRun(cmd[p].city, r)
      BY <2>6 DEF Drops
    <3>3. r \notin cmd[q].created
      BY <3>1 DEF OwnRuns
    <3>4. DOMAIN runs \ {r} \subseteq DOMAIN runs' /\ expired' \subseteq expired
      BY <3>2 DEF DiscardRun, DeleteRuns, Restrict
    <3> QED BY <1>2, <2>1, <3>1, <3>3, <3>4 DEF Working
  <2> QED BY <1>3, <2>2, <2>3, <2>4, <2>5, <2>6 DEF OwnStep
<1>4. CASE Elsewhere
  <2>1. cmd' = cmd /\ Working(q)
    BY <1>4 DEF Elsewhere, Working
  <2>2. ASSUME NEW c, NEW R, DeleteRuns(c, R), cmd[q].created \cap R = {}
        PROVE  cmd'[q].created \subseteq DOMAIN runs' \ expired'
    BY <1>2, <2>1, <2>2 DEF DeleteRuns, Restrict
  <2>3. ASSUME NEW c \in City, NEW s \in DOMAIN snapshots, DeleteSnapshot(c, s)
        PROVE  cmd'[q].created \subseteq DOMAIN runs' \ expired'
    <3> DEFINE R == Range(snapshots[s].parts) \ Referenced'
    <3>1. DeleteRuns(c, R)
      BY <2>3 DEF DeleteSnapshot
    <3>2. R \subseteq Referenced \cup {0}
      BY DEF Referenced, Range, StoreInv, StoreTypeOK, Snapshot, Manifest
    <3>3. 0 \notin cmd[q].created
      BY DEF CommandsTypeOK
    <3> QED BY <2>2, <3>1, <3>2, <3>3 DEF Unpublished
  <2>4. ASSUME NEW c \in City, GCSweep(c)
        PROVE  cmd'[q].created \subseteq DOMAIN runs' \ expired'
    BY <1>2, <2>1, <2>2, <2>4 DEF GCSweep, OrphanRuns
  <2>5. ASSUME NEW r \in DOMAIN runs \ expired, r \notin LiveRuns, Expire(r)
        PROVE  cmd'[q].created \subseteq DOMAIN runs' \ expired'
    BY <1>2, <2>1, <2>5 DEF Expire, LiveRuns
  <2>6. CASE UNCHANGED storeVars
    BY <1>2, <2>1, <2>6 DEF storeVars
  <2> QED BY <1>4, <2>3, <2>4, <2>5, <2>6 DEF Elsewhere
<1> QED BY <1>1, <1>3, <1>4

\* No other command, deletion or gc takes a run from under a live draft, as
\* long as commands end within OrphanRunGrace.
THEOREM LiveDraftsAreSafe == CommandsSpec => []LiveDraftsKeepTheirRuns
<1>1. CommandsInit => LiveRunsAreYoung
  BY DEF CommandsInit, LiveRunsAreYoung, Working, Idle
<1>2. OwnershipInv /\ LiveRunsAreYoung /\ [CommandsNext]_commandVars => LiveRunsAreYoung'
  BY LiveRunsStep
<1>3. LiveRunsAreYoung => LiveDraftsKeepTheirRuns
  BY DEF LiveRunsAreYoung, LiveDraftsKeepTheirRuns
<1> QED BY <1>1, <1>2, <1>3, RunsHaveOneOwner, PTL DEF CommandsSpec
----------------------------------------------------------------------------
(* What readers see                                                        *)

LEMMA RowsOfDef ==
  ASSUME NEW r, NEW x
  PROVE  /\ x \in RowsOf(r) <=> \E y \in rows : y.run = r /\ y.row = x
         /\ x \in RowsOf(r)' <=> \E y \in rows' : y.run = r /\ y.row = x
BY DEF RowsOf

\* A deletion takes the rows of the runs it deletes and no others.
LEMMA DeletingKeepsRows ==
  ASSUME NEW c, NEW R, DeleteRuns(c, R)
  PROVE  \A r : r \notin R => RowsOf(r)' = RowsOf(r)
<1> SUFFICES ASSUME NEW r, r \notin R PROVE RowsOf(r)' = RowsOf(r)
  OBVIOUS
<1> DEFINE owned == {q \in R \cap DOMAIN runs : runs[q].city = c}
<1>1. r \notin owned /\ rows' = {x \in rows : x.run \notin owned}
  BY DEF DeleteRuns
<1> HIDE DEF owned
<1>2. {y \in rows' : y.run = r} = {y \in rows : y.run = r}
  BY <1>1
<1> QED BY <1>2 DEF RowsOf

\* The rows of a run that is published, and stays so, never change.
LEMMA PublishedRowsStay ==
  ASSUME OwnershipInv, [CommandsNext]_commandVars
  PROVE  \A r \in Referenced \cap Referenced' : RowsOf(r)' = RowsOf(r)
<1> SUFFICES ASSUME NEW r \in Referenced \cap Referenced'
             PROVE  RowsOf(r)' = RowsOf(r)
  OBVIOUS
<1>1. (\E p \in Proc : OwnStep(p)) \/ Elsewhere
  BY StepKinds DEF OwnershipInv
<1>2. CASE UNCHANGED rows
  BY <1>2 DEF RowsOf
<1>3. ASSUME NEW p \in Proc, OwnStep(p)
      PROVE  RowsOf(r)' = RowsOf(r)
  <2>1. CASE Quiet(p) \/ Creates(p) \/ Publishes(p)
    BY <1>2, <2>1 DEF Quiet, Creates, Publishes, CreateRun, CommitSnapshot, storeVars
  <2>2. CASE Saves(p)
    <3> DEFINE run == cmd[p].run
    <3>1. r # run
      BY <2>2 DEF Saves, OwnershipInv, Unpublished
    <3>2. {y \in rows' : y.run = r} = {y \in rows : y.run = r}
      <4>1. CASE ReplaceRows(run, {MetricRow}, {})
        BY <3>1, <4>1 DEF ReplaceRows
      <4>2. ASSUME NEW x \in Row, SaveRow(run, x)
            PROVE  {y \in rows' : y.run = r} = {y \in rows : y.run = r}
        BY <3>1, <4>2 DEF SaveRow
      <4> QED BY <2>2, <4>1, <4>2 DEF Saves
    <3> QED BY <3>2 DEF RowsOf
  <2>3. CASE Drops(p)
    <3>1. PICK q \in cmd[p].created : DiscardRun(cmd[p].city, q)
      BY <2>3 DEF Drops
    <3>2. r \notin {q} /\ DeleteRuns(cmd[p].city, {q})
      BY <3>1 DEF DiscardRun
    <3> QED BY <3>2, DeletingKeepsRows
  <2> QED BY <1>3, <2>1, <2>2, <2>3 DEF OwnStep
<1>4. CASE Elsewhere
  <2>1. ASSUME NEW c \in City, NEW s \in DOMAIN snapshots, DeleteSnapshot(c, s)
        PROVE  RowsOf(r)' = RowsOf(r)
    BY <2>1, DeletingKeepsRows DEF DeleteSnapshot
  <2>2. ASSUME NEW c \in City, GCSweep(c)
        PROVE  RowsOf(r)' = RowsOf(r)
    BY <2>2, DeletingKeepsRows DEF GCSweep, OrphanRuns
  <2> QED BY <1>2, <1>4, <2>1, <2>2 DEF Elsewhere, Expire, storeVars
<1> QED BY <1>1, <1>3, <1>4

----------------------------------------------------------------------------
(* Snapshots come one at a time, from commits, and never change.           *)

\* What a step may do to the snapshots.
Untouched == UNCHANGED <<snapshots, snapshotSeq>>

Gone ==
  /\ \E s \in DOMAIN snapshots : snapshots' = Restrict(snapshots, DOMAIN snapshots \ {s})
  /\ UNCHANGED snapshotSeq

Committed(p) ==
  /\ p \in Proc /\ At(p, "commit")
  /\ InsertSnapshot(cmd[p].city, cmd[p].hash,
       ApplyParts(SnapshotParts(cmd[p].city, NewestSnapshotID(cmd[p].city, cmd[p].hash)),
                  cmd[p].parts))

LEMMA SnapshotSteps ==
  ASSUME OwnershipInv, [CommandsNext]_commandVars
  PROVE  Untouched \/ Gone \/ \E p \in Proc : Committed(p)
<1>1. (\E p \in Proc : OwnStep(p)) \/ Elsewhere
  BY StepKinds DEF OwnershipInv
<1>2. ASSUME NEW p \in Proc, OwnStep(p)
      PROVE  Untouched \/ Committed(p)
  <2>1. CASE Quiet(p) \/ Creates(p) \/ Saves(p) \/ Drops(p)
    BY <2>1 DEF Quiet, Creates, Saves, Drops, CreateRun, SaveRow, ReplaceRows,
                DiscardRun, DeleteRuns, storeVars, Untouched
  <2>2. CASE Publishes(p)
    BY <2>2 DEF Publishes, CommitSnapshot, Untouched, Committed
  <2> QED BY <1>2, <2>1, <2>2 DEF OwnStep
<1>3. CASE Elsewhere
  BY <1>3 DEF Elsewhere, DeleteSnapshot, GCSweep, Expire, DeleteRuns, storeVars,
              Untouched, Gone
<1> QED BY <1>1, <1>2, <1>3

LEMMA InsertedSnapshot ==
  ASSUME StoreInv, NEW c, NEW h, NEW manifest, InsertSnapshot(c, h, manifest)
  PROVE  /\ snapshotSeq' = snapshotSeq + 1
         /\ snapshotSeq' \notin DOMAIN snapshots
         /\ DOMAIN snapshots' = DOMAIN snapshots \cup {snapshotSeq'}
         /\ snapshots'[snapshotSeq'] = [city |-> c, hash |-> h, parts |-> manifest]
         /\ \A s \in DOMAIN snapshots : snapshots'[s] = snapshots[s]
<1>1. snapshotSeq' = snapshotSeq + 1 /\ snapshotSeq' \notin DOMAIN snapshots
  BY BoundsAssumption DEF InsertSnapshot, StoreInv, StoreTypeOK
<1> QED BY <1>1 DEF InsertSnapshot

\* A commit carries over, from the snapshot that was newest at that moment,
\* every part its own draft did not touch.
THEOREM CommitsLoseNothing == CommandsSpec => CommitsKeepOtherParts
<1> DEFINE Keeps ==
      \A s \in DOMAIN snapshots' \ DOMAIN snapshots :
        LET new  == snapshots'[s]
            base == SnapshotParts(new.city, NewestSnapshotID(new.city, new.hash))
        IN  \E p \in Proc :
              /\ At(p, "commit")
              /\ \A part \in Part \ DOMAIN cmd[p].parts : new.parts[part] = base[part]
<1>1. OwnershipInv /\ [CommandsNext]_commandVars => [Keeps]_commandVars
  <2> SUFFICES ASSUME OwnershipInv, [CommandsNext]_commandVars,
                      NEW s \in DOMAIN snapshots' \ DOMAIN snapshots
               PROVE  LET new  == snapshots'[s]
                          base == SnapshotParts(new.city, NewestSnapshotID(new.city, new.hash))
                      IN  \E p \in Proc :
                            /\ At(p, "commit")
                            /\ \A part \in Part \ DOMAIN cmd[p].parts :
                                 new.parts[part] = base[part]
    OBVIOUS
  <2>1. PICK p \in Proc : Committed(p)
    <3>1. DOMAIN snapshots' \subseteq DOMAIN snapshots => s \notin DOMAIN snapshots'
      OBVIOUS
    <3>2. Untouched \/ Gone => DOMAIN snapshots' \subseteq DOMAIN snapshots
      BY DEF Untouched, Gone, Restrict
    <3> QED BY <3>1, <3>2, SnapshotSteps
  <2> DEFINE c == cmd[p].city
             h == cmd[p].hash
             base == SnapshotParts(c, NewestSnapshotID(c, h))
             manifest == ApplyParts(base, cmd[p].parts)
  <2>2. \A part \in Part \ DOMAIN cmd[p].parts : manifest[part] = base[part]
    BY DEF ApplyParts
  <2>3. InsertSnapshot(c, h, manifest) /\ At(p, "commit")
    BY <2>1 DEF Committed
  <2> HIDE DEF manifest
  <2>4. snapshots'[s] = [city |-> c, hash |-> h, parts |-> manifest]
    <3>1. /\ DOMAIN snapshots' = DOMAIN snapshots \cup {snapshotSeq'}
          /\ snapshots'[snapshotSeq'] = [city |-> c, hash |-> h, parts |-> manifest]
      BY <2>3, InsertedSnapshot DEF OwnershipInv, CommandsInv
    <3>2. s = snapshotSeq'
      BY <3>1
    <3> QED BY <3>1, <3>2
  <2> QED BY <2>2, <2>3, <2>4
<1> QED BY <1>1, RunsHaveOneOwner, PTL DEF CommandsSpec, CommitsKeepOtherParts

----------------------------------------------------------------------------
(* The commands implement the abstract store.                              *)

\* What a reader sees of the tables: the refinement mapping of PublishedView.
Seen == [s \in DOMAIN snapshots |->
           [city |-> snapshots[s].city, hash |-> snapshots[s].hash,
            content |-> Content(snapshots[s].parts)]]

\* A snapshot that stays shows what it showed.
LEMMA SeenStays ==
  ASSUME OwnershipInv, [CommandsNext]_commandVars
  PROVE  \A s \in DOMAIN snapshots \cap DOMAIN snapshots' :
           snapshots'[s] = snapshots[s] => Seen'[s] = Seen[s]
<1> SUFFICES ASSUME NEW s \in DOMAIN snapshots \cap DOMAIN snapshots',
                    snapshots'[s] = snapshots[s]
             PROVE  Seen'[s] = Seen[s]
  OBVIOUS
<1>1. \A r \in Referenced \cap Referenced' : RowsOf(r)' = RowsOf(r)
  BY PublishedRowsStay
<1>2. \A q \in Part : snapshots[s].parts[q] # 0 =>
         snapshots[s].parts[q] \in Referenced \cap Referenced'
  BY DEF Referenced
<1>3. \A q \in Part : \A r : r = snapshots[s].parts[q] /\ r # 0 => RowsOf(r)' = RowsOf(r)
  BY <1>1, <1>2
<1>4. Content(snapshots[s].parts)' = Content(snapshots[s].parts)
  <2>1. PICK m : m = snapshots[s].parts
    OBVIOUS
  <2>2. Content(m)' = Content(m)
    BY <1>3, <2>1 DEF Content
  <2>3. Content(snapshots[s].parts)' = Content(m)'
    BY <2>1 DEF Content, RowsOf
  <2> QED BY <2>1, <2>2, <2>3
<1> QED BY <1>4 DEF Seen

LEMMA SnapshotStepIsPublished ==
  ASSUME OwnershipInv, [CommandsNext]_commandVars
  PROVE  [PublishedView!Publish \/ PublishedView!Retire]_<<Seen, snapshotSeq>>
<1> USE DEF OwnershipInv, CommandsInv
<1>1. \A s \in DOMAIN snapshots \cap DOMAIN snapshots' :
        snapshots'[s] = snapshots[s] => Seen'[s] = Seen[s]
  BY SeenStays
<1>2. DOMAIN Seen = DOMAIN snapshots /\ DOMAIN Seen' = DOMAIN snapshots'
  BY DEF Seen
<1>3. CASE Untouched
  <2>1. \A s \in DOMAIN snapshots : Seen'[s] = Seen[s]
    BY <1>1, <1>3 DEF Untouched
  <2>2. Seen' = Seen
    BY <1>2, <1>3, <2>1 DEF Untouched, Seen
  <2> QED BY <1>3, <2>2 DEF Untouched
<1>4. CASE Gone
  <2>1. PICK t \in DOMAIN snapshots : snapshots' = Restrict(snapshots, DOMAIN snapshots \ {t})
    BY <1>4 DEF Gone
  <2>2. /\ DOMAIN snapshots' = DOMAIN snapshots \ {t}
        /\ \A s \in DOMAIN snapshots' : snapshots'[s] = snapshots[s]
    BY <2>1 DEF Restrict
  <2>3. /\ DOMAIN Seen' = DOMAIN Seen \ {t} /\ t \in DOMAIN Seen
        /\ \A s \in DOMAIN Seen' : Seen'[s] = Seen[s]
    BY <1>1, <1>2, <2>2
  <2>4. PublishedView!Retire
    BY <1>4, <2>3 DEF PublishedView!Retire, Gone, Seen
  <2> QED BY <2>4
<1>5. CASE \E p \in Proc : Committed(p)
  <2>1. PICK p \in Proc : Committed(p)
    BY <1>5
  <2> DEFINE c == cmd[p].city
             h == cmd[p].hash
             base == SnapshotParts(c, NewestSnapshotID(c, h))
             manifest == ApplyParts(base, cmd[p].parts)
  <2>2. InsertSnapshot(c, h, manifest) /\ c \in City /\ h \in Hash
    BY <2>1, DraftFacts DEF Committed, At, AtWork
  <2> HIDE DEF manifest
  <2>3. /\ snapshotSeq' = snapshotSeq + 1
        /\ DOMAIN snapshots' = DOMAIN snapshots \cup {snapshotSeq'}
        /\ snapshots'[snapshotSeq'] = [city |-> c, hash |-> h, parts |-> manifest]
        /\ \A s \in DOMAIN snapshots : snapshots'[s] = snapshots[s]
    BY <2>2, InsertedSnapshot
  <2>4. /\ DOMAIN Seen' = DOMAIN Seen \cup {snapshotSeq'}
        /\ \A s \in DOMAIN Seen : Seen'[s] = Seen[s]
    BY <1>1, <1>2, <2>3
  <2>5. /\ Seen'[snapshotSeq'].city = c /\ Seen'[snapshotSeq'].hash = h
        /\ DOMAIN Seen'[snapshotSeq'].content = Part
    BY <2>3 DEF Seen, Content
  <2>6. PublishedView!Publish
    BY <2>2, <2>3, <2>4, <2>5 DEF PublishedView!Publish, Seen
  <2> QED BY <2>6
<1> QED BY <1>3, <1>4, <1>5, SnapshotSteps

\* Commands, gc and deletions together implement the abstract store: readers
\* see snapshots appear whole, stay as they are, and go.
THEOREM CommandsPublish == CommandsSpec => PublishedSpec
<1>1. CommandsInit => PublishedView!PublishedInit
  BY DEF CommandsInit, StoreInit, PublishedView!PublishedInit
<1>2. OwnershipInv /\ [CommandsNext]_commandVars
        => [PublishedView!Publish \/ PublishedView!Retire]_PublishedView!publishedVars
  BY SnapshotStepIsPublished DEF PublishedView!publishedVars, Seen
<1> QED BY <1>1, <1>2, RunsHaveOneOwner, PTL
        DEF CommandsSpec, PublishedSpec, PublishedView!PublishedSpec

-----------------------------------------------------------------------------
(***************************************************************************)
(* What a published part holds: proofs for any number of commands and      *)
(* resources, whatever fails, is cancelled or is killed.                   *)
(*                                                                         *)
(* Completeness: a draft puts a run only after its last save, and nothing  *)
(* takes a row from a run but the run's own deletion (a metric's replace   *)
(* excepted, which takes a row no compute or forecast counts on).  Hence   *)
(* every part a draft has put is full as long as its run exists            *)
(* (PartsInv), and a commit publishes only runs that exist.                *)
(*                                                                         *)
(* Pairing: a recompute reads its area and cohorts through its own draft,  *)
(* which shadows the published snapshot, and a draft touches a resource    *)
(* and its forecast together or not at all (PairingInv).                   *)
(***************************************************************************)

\* The rows R are all a run of the part has to hold.
Full(part, R) ==
  /\ part \in Resource => Range(ComputeRows) \subseteq R
  /\ \A q \in Resource : part = ForecastOf[q] => R \ {MetricRow} # {}

PartsFull(d) ==
  \A part \in DOMAIN d.parts :
    d.parts[part] \in DOMAIN runs => Full(part, RowsOf(d.parts[part]))

\* How far a compute's saves have come.
SavedSoFar(d) ==
  \/ d.unsaved = ComputeRows
  \/ /\ d.unsaved = <<CohortRow, HexRow>>
     /\ d.run \in DOMAIN runs => ResultRow \in RowsOf(d.run)
  \/ /\ d.unsaved = <<HexRow>>
     /\ d.run \in DOMAIN runs => {ResultRow, CohortRow} \subseteq RowsOf(d.run)

DraftFull(d) ==
  d.pc \notin {"idle", "discard"} =>
    /\ PartsFull(d)
    /\ d.pc = "save" /\ Job(d) \in Resource => SavedSoFar(d)

SnapshotsFull ==
  \A s \in DOMAIN snapshots, part \in Part : \A r \in Referenced :
    snapshots[s].parts[part] = r => Full(part, RowsOf(r))

PartsInv == (\A p \in Proc : DraftFull(cmd[p])) /\ SnapshotsFull

----------------------------------------------------------------------------
(* Rows.                                                                   *)

LEMMA RowsDiffer ==
  /\ Range(ComputeRows) = {ResultRow, CohortRow, HexRow}
  /\ MetricRow \notin Range(ComputeRows)
  /\ \A area, cohorts : ForecastRow(area, cohorts) # MetricRow
<1>1. Range(ComputeRows) = {ResultRow, CohortRow, HexRow}
  <2>1. DOMAIN ComputeRows = 1..3 /\ ComputeRows[1] = ResultRow
        /\ ComputeRows[2] = CohortRow /\ ComputeRows[3] = HexRow
    BY DEF ComputeRows
  <2>2. 1..3 = {1, 2, 3}
    OBVIOUS
  <2>3. \A x : x \in Range(ComputeRows) <=> \E i \in {1, 2, 3} : x = ComputeRows[i]
    BY <2>1, <2>2 DEF Range
  <2>4. \A x : x \in Range(ComputeRows)
                <=> x = ComputeRows[1] \/ x = ComputeRows[2] \/ x = ComputeRows[3]
    BY <2>3, Zenon
  <2> QED BY <2>1, <2>4, Zenon
<1>2. MetricRow \notin {ResultRow, CohortRow, HexRow}
  BY DEF MetricRow, ResultRow, CohortRow, HexRow
<1>3. \A area, cohorts : ForecastRow(area, cohorts) # MetricRow
  BY DEF ForecastRow, MetricRow
<1> QED BY <1>1, <1>2, <1>3

LEMMA FullGrows ==
  ASSUME NEW part, NEW R, NEW S, Full(part, R), R \ {MetricRow} \subseteq S
  PROVE  Full(part, S)
BY RowsDiffer DEF Full

LEMMA SavedRow ==
  ASSUME NEW r, NEW x, SaveRow(r, x)
  PROVE  /\ RowsOf(r)' = RowsOf(r) \cup {x}
         /\ \A q : RowsOf(q) \subseteq RowsOf(q)'
<1>1. rows' = rows \cup {[run |-> r, row |-> x]}
  BY DEF SaveRow
<1>2. \A q : RowsOf(q) \subseteq RowsOf(q)'
  BY <1>1, RowsOfDef
<1>3. \A y : y \in RowsOf(r)' <=> y \in RowsOf(r) \cup {x}
  <2>1. \A y : y \in RowsOf(r)' <=> \E z \in rows' : z.run = r /\ z.row = y
    BY RowsOfDef
  <2>2. \A y : y \in RowsOf(r) <=> \E z \in rows : z.run = r /\ z.row = y
    BY RowsOfDef
  <2>3. PICK w : w = [run |-> r, row |-> x]
    OBVIOUS
  <2>4. w.run = r /\ w.row = x
    BY <2>3
  <2>5. \A z : z \in rows' <=> z \in rows \/ z = w
    BY <1>1, <2>3
  <2> HIDE <2>3
  <2>6. \A y : (\E z \in rows' : z.run = r /\ z.row = y)
             <=> (\E z \in rows : z.run = r /\ z.row = y) \/ y = x
    BY <2>4, <2>5, Zenon
  <2> QED BY <2>1, <2>2, <2>6
<1> QED BY <1>2, <1>3

\* A deletion leaves the runs that stay as they were.
LEMMA DeletingKeepsRuns ==
  ASSUME NEW c, NEW R, DeleteRuns(c, R), NEW r \in DOMAIN runs'
  PROVE  r \in DOMAIN runs /\ RowsOf(r)' = RowsOf(r)
<1> DEFINE owned == {q \in R \cap DOMAIN runs : runs[q].city = c}
<1>1. /\ DOMAIN runs' = DOMAIN runs \ owned
      /\ rows' = {x \in rows : x.run \notin owned}
  BY DEF DeleteRuns, Restrict
<1>2. r \in DOMAIN runs /\ r \notin owned
  BY <1>1
<1> HIDE DEF owned
<1>3. {y \in rows' : y.run = r} = {y \in rows : y.run = r}
  BY <1>1, <1>2
<1>4. RowsOf(r)' = RowsOf(r)
  BY <1>3 DEF RowsOf
<1> QED BY <1>2, <1>4

\* Runs keep their rows, but for a metric's, as long as they exist; and no
\* run that was handed out before comes into existence.
LEMMA RowsStay ==
  ASSUME OwnershipInv, [CommandsNext]_commandVars
  PROVE  \A r \in DOMAIN runs' \cap (0..runSeq) :
            r \in DOMAIN runs /\ RowsOf(r) \ {MetricRow} \subseteq RowsOf(r)'
<1> SUFFICES ASSUME NEW r \in DOMAIN runs' \cap (0..runSeq)
             PROVE  r \in DOMAIN runs /\ RowsOf(r) \ {MetricRow} \subseteq RowsOf(r)'
  OBVIOUS
<1> USE DEF OwnershipInv, CommandsInv
<1>1. (\E p \in Proc : OwnStep(p)) \/ Elsewhere
  BY StepKinds
<1>2. CASE UNCHANGED <<runs, rows>>
  BY <1>2 DEF RowsOf
<1>3. ASSUME NEW c, NEW R, DeleteRuns(c, R)
      PROVE  r \in DOMAIN runs /\ RowsOf(r) \ {MetricRow} \subseteq RowsOf(r)'
  BY <1>3, DeletingKeepsRuns
<1>4. ASSUME NEW p \in Proc, OwnStep(p)
      PROVE  r \in DOMAIN runs /\ RowsOf(r) \ {MetricRow} \subseteq RowsOf(r)'
  <2>1. CASE Quiet(p) \/ Publishes(p)
    BY <1>2, <2>1 DEF Quiet, Publishes, CommitSnapshot, storeVars
  <2>2. CASE Creates(p)
    <3>1. DOMAIN runs' = DOMAIN runs \cup {runSeq'} /\ runSeq' = runSeq + 1 /\ rows' = rows
          /\ runSeq \in Nat
      BY <2>2, BoundsAssumption DEF Creates, CreateRun, CommandsTypeOK, StoreTypeOK
    <3> QED BY <3>1 DEF RowsOf
  <2>3. CASE Saves(p)
    <3>1. runs' = runs
      BY <2>3 DEF Saves, SaveRow, ReplaceRows
    <3>2. CASE \E x \in Row : SaveRow(cmd[p].run, x)
      BY <3>1, <3>2, SavedRow
    <3>3. CASE ReplaceRows(cmd[p].run, {MetricRow}, {})
      <4>1. \A y \in rows : y.row # MetricRow => y \in rows'
        BY <3>3 DEF ReplaceRows
      <4> QED BY <3>1, <4>1 DEF RowsOf
    <3> QED BY <2>3, <3>2, <3>3 DEF Saves
  <2>4. CASE Drops(p)
    BY <1>3, <2>4 DEF Drops, DiscardRun
  <2> QED BY <1>4, <2>1, <2>2, <2>3, <2>4 DEF OwnStep
<1>5. CASE Elsewhere
  BY <1>2, <1>3, <1>5 DEF Elsewhere, DeleteSnapshot, GCSweep, Expire, storeVars
<1> QED BY <1>1, <1>4, <1>5

----------------------------------------------------------------------------
(* Drafts.                                                                 *)

\* Putting or dropping a part changes the word on that part only.
LEMMA PutPartParts ==
  ASSUME NEW d \in Draft, NEW part, NEW r
  PROVE  LET e == PutPart(d, part, r)
         IN  /\ DOMAIN e.parts = DOMAIN d.parts \cup {part}
             /\ e.parts[part] = r
             /\ \A x \in DOMAIN d.parts \ {part} : e.parts[x] = d.parts[x]
             /\ e.jobs = d.jobs /\ e.pc = d.pc /\ e.name = d.name /\ e.run = d.run
             /\ e.area = d.area /\ e.cohorts = d.cohorts
BY DEF PutPart, Draft

\* Going on to the next job changes no part.
LEMMA NextJobParts ==
  ASSUME NEW d \in Draft
  PROVE  /\ NextJob(d).parts = d.parts /\ NextJob(d).name = d.name
         /\ NextJob(d).pc \in {"load", "resolveArea", "commit", "discard"}
         /\ d.name # "forecast" => NextJob(d).pc # "resolveArea"
BY DEF NextJob, AfterJobs, FirstStep, Draft

\* What a draft that stays as it is had put stays full.
LEMMA FullPartsStay ==
  ASSUME OwnershipInv, [CommandsNext]_commandVars,
         NEW d \in Draft, Range(d.parts) \subseteq 0..runSeq, PartsFull(d)
  PROVE  PartsFull(d)'
<1> SUFFICES ASSUME NEW part \in DOMAIN d.parts, d.parts[part] \in DOMAIN runs'
             PROVE  Full(part, RowsOf(d.parts[part])')
  BY DEF PartsFull
<1>1. d.parts[part] \in 0..runSeq
  BY DEF Range
<1>2. /\ d.parts[part] \in DOMAIN runs
      /\ RowsOf(d.parts[part]) \ {MetricRow} \subseteq RowsOf(d.parts[part])'
  BY <1>1, RowsStay
<1>3. Full(part, RowsOf(d.parts[part]))
  BY <1>2 DEF PartsFull
<1> QED BY <1>2, <1>3, FullGrows

\* The same of a draft that has at most dropped parts since.
Dropped(d, e) ==
  \A x \in DOMAIN e.parts :
    e.parts[x] = 0 \/ (x \in DOMAIN d.parts /\ e.parts[x] = d.parts[x])

LEMMA DroppedPartsStay ==
  ASSUME OwnershipInv, [CommandsNext]_commandVars, NEW d \in Draft, NEW e,
         Range(d.parts) \subseteq 0..runSeq, PartsFull(d), Dropped(d, e)
  PROVE  PartsFull(e)'
<1>1. PartsFull(d)'
  BY FullPartsStay
<1>2. 0 \notin DOMAIN runs'
  BY CommandsStep DEF OwnershipInv, CommandsInv, StoreInv, StoreTypeOK
<1> SUFFICES ASSUME NEW part \in DOMAIN e.parts, e.parts[part] \in DOMAIN runs'
             PROVE  Full(part, RowsOf(e.parts[part])')
  BY DEF PartsFull
<1>3. part \in DOMAIN d.parts /\ e.parts[part] = d.parts[part]
  BY <1>2 DEF Dropped
<1> QED BY <1>1, <1>3 DEF PartsFull

\* A working draft's parts are runs handed out, or dropped.
LEMMA PartsHandedOut ==
  ASSUME CommandsInv, NEW p \in Proc, Working(p)
  PROVE  Range(cmd[p].parts) \subseteq 0..runSeq
<1>1. cmd[p].created \subseteq 1..runSeq /\ runSeq \in Nat
  BY BoundsAssumption DEF CommandsInv, CommandsTypeOK, StoreTypeOK
<1>2. Range(cmd[p].parts) \subseteq cmd[p].created \cup {0}
  BY DraftFacts DEF Working, AtWork
<1> QED BY <1>1, <1>2

\* A process's own step, seen from its draft before and after.  All but the
\* saves only drop parts.
OnlyDrops(p) ==
  \/ cmd'[p].pc \in {"idle", "discard"}
  \/ DOMAIN cmd'[p].parts = {} /\ cmd'[p].pc # "save"
  \/ /\ Working(p)
     /\ Dropped(cmd[p], cmd'[p])
     /\ cmd'[p].pc = "save" => cmd'[p].unsaved = ComputeRows \/ Job(cmd'[p]) \notin Resource

LEMMA OnlyDropsIntro ==
  ASSUME CommandsInv, NEW p \in Proc, NEW e, Become(p, e), Working(p),
         Dropped(cmd[p], e), e.pc # "save"
  PROVE  OnlyDrops(p)
<1>1. cmd'[p] = e
  BY DEF Become, CommandsInv, CommandsTypeOK
<1> QED BY <1>1 DEF OnlyDrops

LEMMA FailForecastDrops ==
  ASSUME NEW d \in Draft, Sound(d), d.pc \in ForecastSteps
  PROVE  LET e == FailForecast(d)
         IN  Dropped(d, e) /\ e.pc # "save"
<1>1. AtWork(d) /\ Job(d) \in Resource /\ ForecastOf[Job(d)] \in Part
  BY JobFacts DEF Sound, ForecastSteps
<1> DEFINE e == DropPart(d, ForecastOf[Job(d)])
<1>2. e \in Draft
  BY <1>1, PutPartAtWork, BoundsAssumption DEF DropPart
<1>3. Dropped(d, e)
  BY PutPartParts DEF DropPart, Dropped
<1> HIDE DEF e
<1>4. Dropped(d, NextJob(e)) /\ NextJob(e).pc # "save"
  BY <1>2, <1>3, NextJobParts DEF Dropped
<1>5. [d EXCEPT !.pc = "discard"].parts = d.parts /\ [d EXCEPT !.pc = "discard"].pc # "save"
  BY DEF Draft
<1> QED BY <1>4, <1>5 DEF FailForecast, Dropped, e

LEMMA StartDrops ==
  ASSUME CommandsInv, NEW p \in Proc, Start(p)
  PROVE  OnlyDrops(p)
<1>1. PICK name \in CommandNames, c \in City, h \in Hash :
        \E jobs \in JobsOf(name) :
           cmd' = [cmd EXCEPT ![p] =
                     [Idle EXCEPT !.pc = FirstStep(name), !.name = name,
                                  !.city = c, !.hash = h, !.jobs = jobs]]
  BY DEF Start
<1>2. PICK jobs \in JobsOf(name) :
         cmd' = [cmd EXCEPT ![p] =
                   [Idle EXCEPT !.pc = FirstStep(name), !.name = name,
                                !.city = c, !.hash = h, !.jobs = jobs]]
  BY <1>1
<1>3. cmd'[p].parts = Idle.parts /\ cmd'[p].pc = FirstStep(name)
  BY <1>2 DEF CommandsInv, CommandsTypeOK, Idle
<1>4. DOMAIN Idle.parts = {} /\ FirstStep(name) # "save"
  BY DEF Idle, FirstStep
<1> QED BY <1>3, <1>4 DEF OnlyDrops

LEMMA LoadDrops ==
  ASSUME CommandsInv, NEW p \in Proc, Load(p)
  PROVE  OnlyDrops(p)
<1> DEFINE d == cmd[p]
<1>1. /\ d \in Draft /\ AtWork(d) /\ d.pc = "load" /\ Working(p) /\ Job(d) \in Part
  BY DraftFacts, JobFacts DEF Load, At, Working
<1>2. CASE Become(p, [d EXCEPT !.pc = "create"])
  <2>1. [d EXCEPT !.pc = "create"].parts = d.parts /\ [d EXCEPT !.pc = "create"].pc = "create"
    BY <1>1 DEF Draft
  <2> QED BY <1>1, <1>2, <2>1, OnlyDropsIntro DEF Dropped
<1>3. ASSUME NEW e \in Draft, Dropped(d, e), Become(p, NextJob(e))
      PROVE  OnlyDrops(p)
  <2>1. NextJob(e).parts = e.parts /\ NextJob(e).pc # "save"
    BY NextJobParts
  <2> QED BY <1>1, <1>3, <2>1, OnlyDropsIntro DEF Dropped
<1> DEFINE e == DropPart(d, Job(d))
<1>4. e \in Draft /\ Dropped(d, e)
  BY <1>1, BoundsAssumption, PutPartType, PutPartParts DEF DropPart, Dropped
<1> HIDE DEF e
<1>5. CASE Become(p, NextJob(e))
  BY <1>3, <1>4, <1>5
<1>6. CASE Job(d) \in Resource /\ Become(p, NextJob(DropPart(e, ForecastOf[Job(d)])))
  <2> DEFINE f == DropPart(e, ForecastOf[Job(d)])
  <2>1. ForecastOf[Job(d)] \in Part
    BY <1>6, PartsArePart
  <2>2. f \in Draft /\ Dropped(e, f)
    BY <1>4, <2>1, BoundsAssumption, PutPartType, PutPartParts DEF DropPart, Dropped
  <2>3. Dropped(d, f)
    BY <1>4, <2>2 DEF Dropped
  <2> HIDE DEF f
  <2> QED BY <1>3, <1>6, <2>2, <2>3 DEF f
<1> QED BY <1>2, <1>5, <1>6 DEF Load, e

LEMMA NewRunDrops ==
  ASSUME CommandsInv, NEW p \in Proc, NewRun(p) \/ NewForecastRun(p)
  PROVE  OnlyDrops(p)
<1> DEFINE d == cmd[p]
<1>1. d \in Draft /\ Working(p)
  BY DraftFacts DEF NewRun, NewForecastRun, At, Working
<1>2. ASSUME NEW e, Become(p, e), e.parts = d.parts, e.jobs = d.jobs,
             e.pc = "save" => e.unsaved = ComputeRows \/ Job(d) \notin Resource
      PROVE  OnlyDrops(p)
  <2>1. cmd'[p] = e
    BY <1>2 DEF Become, CommandsInv, CommandsTypeOK
  <2> QED BY <1>1, <1>2, <2>1 DEF OnlyDrops, Dropped, Job
<1>3. CASE NewRun(p)
  <2> DEFINE e == [d EXCEPT !.pc = "save", !.run = runSeq',
                            !.created = d.created \cup {runSeq'},
                            !.unsaved = IF Job(d) \in Resource
                                          THEN ComputeRows ELSE <<MetricRow>>]
  <2>1. /\ e.parts = d.parts /\ e.jobs = d.jobs
        /\ e.unsaved = ComputeRows \/ Job(d) \notin Resource
    BY <1>1 DEF Draft
  <2>2. Become(p, e)
    BY <1>3 DEF NewRun
  <2> HIDE DEF e
  <2> QED BY <1>2, <2>1, <2>2
<1>4. CASE NewForecastRun(p)
  <2> DEFINE e == [d EXCEPT !.pc = "saveForecast", !.run = runSeq',
                            !.created = d.created \cup {runSeq'}]
  <2>1. e.parts = d.parts /\ e.jobs = d.jobs /\ e.pc # "save"
    BY <1>1 DEF Draft
  <2>2. Become(p, e)
    BY <1>4 DEF NewForecastRun
  <2> HIDE DEF e
  <2> QED BY <1>2, <2>1, <2>2
<1> QED BY <1>3, <1>4

LEMMA ReadDrops ==
  ASSUME CommandsInv, NEW p \in Proc,
         \/ ResolveArea(p) \/ ReadArea(p) \/ ResolveCohorts(p) \/ ReadCohorts(p)
  PROVE  OnlyDrops(p)
<1> DEFINE d == cmd[p]
<1>1. d \in Draft /\ Sound(d) /\ d.pc \in ForecastSteps /\ Working(p)
  BY DraftFacts DEF ResolveArea, ReadArea, ResolveCohorts, ReadCohorts, At,
                    ForecastSteps, Working
<1>2. ASSUME NEW e, Become(p, e), e.parts = d.parts, e.pc # "save"
      PROVE  OnlyDrops(p)
  BY <1>1, <1>2, OnlyDropsIntro DEF Dropped
<1>3. ASSUME NEW pc, pc # "save", NEW newest,
             Become(p, [d EXCEPT !.pc = pc, !.snap = newest])
      PROVE  OnlyDrops(p)
  <2>1. /\ [d EXCEPT !.pc = pc, !.snap = newest].parts = d.parts
        /\ [d EXCEPT !.pc = pc, !.snap = newest].pc = pc
    BY <1>1 DEF Draft
  <2> QED BY <1>2, <1>3, <2>1
<1>4. CASE ReadCohorts(p)
  <2> DEFINE e == [d EXCEPT !.pc = "createForecast", !.cohorts = Reads(d, Job(d), CohortRow)]
  <2>1. e.parts = d.parts /\ e.pc # "save" /\ Become(p, e)
    BY <1>1, <1>4 DEF Draft, ReadCohorts
  <2> HIDE DEF e
  <2> QED BY <1>2, <2>1
<1>5. CASE ReadArea(p)
  <2>1. CASE Become(p, NextJob(d))
    BY <1>1, <1>2, <2>1, NextJobParts
  <2>2. CASE Become(p, FailForecast(d))
    BY <1>1, <2>2, FailForecastDrops, OnlyDropsIntro
  <2>3. ASSUME NEW area, Become(p, [d EXCEPT !.pc = "resolveCohorts", !.area = area])
        PROVE  OnlyDrops(p)
    <3>1. /\ [d EXCEPT !.pc = "resolveCohorts", !.area = area].parts = d.parts
          /\ [d EXCEPT !.pc = "resolveCohorts", !.area = area].pc = "resolveCohorts"
      BY <1>1 DEF Draft
    <3> QED BY <1>2, <2>3, <3>1
  <2> QED BY <1>5, <2>1, <2>2, <2>3 DEF ReadArea
<1> QED BY <1>3, <1>4, <1>5 DEF ResolveArea, ResolveCohorts

\* What is left of a draft whose job has failed.
LEMMA FailJobParts ==
  ASSUME NEW d \in Draft
  PROVE  /\ FailJob(d).parts = d.parts
         /\ FailJob(d).pc # "save"
         /\ d.name # "forecast" => FailJob(d).pc \notin ForecastSteps
<1>1. /\ NextJob(d).parts = d.parts /\ NextJob(d).pc # "save"
      /\ d.name # "forecast" => NextJob(d).pc \notin ForecastSteps
  BY NextJobParts DEF ForecastSteps
<1>2. [d EXCEPT !.pc = "discard"].parts = d.parts /\ [d EXCEPT !.pc = "discard"].pc = "discard"
  BY DEF Draft
<1>3. SkipJobs(d).parts = d.parts /\ SkipJobs(d).pc = "commit"
  BY <1>1 DEF SkipJobs, NextJob, Draft
<1> QED BY <1>1, <1>2, <1>3 DEF FailJob, ForecastSteps

LEMMA FailureDrops ==
  ASSUME CommandsInv, NEW p \in Proc,
         \/ CommitFails(p) \/ Discarded(p) \/ JobFails(p) \/ ForecastFails(p)
         \/ NewRunUnread(p) \/ Cancel(p) \/ Crash(p)
  PROVE  OnlyDrops(p)
<1> DEFINE d == cmd[p]
<1>1. d \in Draft /\ Sound(d)
  BY DraftFacts
<1>2. ASSUME NEW e, Become(p, e), e.pc \in {"idle", "discard"}
      PROVE  OnlyDrops(p)
  <2>1. cmd'[p] = e
    BY <1>2 DEF Become, CommandsInv, CommandsTypeOK
  <2> QED BY <1>2, <2>1 DEF OnlyDrops
<1>3. [d EXCEPT !.pc = "discard"].pc = "discard" /\ Idle.pc = "idle"
  BY <1>1 DEF Draft, Idle
<1>4. CASE CommitFails(p) \/ Cancel(p) \/ Discarded(p) \/ Crash(p)
  BY <1>2, <1>3, <1>4 DEF CommitFails, Cancel, Discarded, Crash
<1>5. ASSUME Working(p), Become(p, FailJob(d))
      PROVE  OnlyDrops(p)
  BY <1>1, <1>5, FailJobParts, OnlyDropsIntro DEF Dropped
<1>6. ASSUME Working(p), d.pc \in ForecastSteps, Become(p, FailForecast(d))
      PROVE  OnlyDrops(p)
  BY <1>1, <1>6, FailForecastDrops, OnlyDropsIntro
<1>7. CASE JobFails(p)
  BY <1>5, <1>7 DEF JobFails, Working
<1>8. CASE ForecastFails(p)
  BY <1>6, <1>8 DEF ForecastFails, Working, ForecastSteps
<1>9. CASE NewRunUnread(p)
  <2>1. Working(p)
    BY <1>9 DEF NewRunUnread, At, Working
  <2>2. \/ Become(p, FailJob(d))
        \/ d.pc \in ForecastSteps /\ Become(p, FailForecast(d))
        \/ Become(p, [d EXCEPT !.pc = "discard"])
    BY <1>9 DEF NewRunUnread, At, ForecastSteps
  <2> QED BY <1>2, <1>3, <1>5, <1>6, <2>1, <2>2
<1> QED BY <1>4, <1>7, <1>8, <1>9

LEMMA EndDrops ==
  ASSUME CommandsInv, NEW p \in Proc, Commit(p) \/ Discard(p)
  PROVE  OnlyDrops(p)
<1>1. cmd[p] \in Draft /\ (Discard(p) => cmd[p].pc = "discard")
  BY DraftFacts DEF Discard, At
<1>2. CASE Commit(p)
  BY <1>2, CommitKind DEF Publishes, OnlyDrops
<1>3. CASE Discard(p)
  <2> DEFINE r == CHOOSE q \in cmd[p].created : \A o \in cmd[p].created : q <= o
             rest == cmd[p].created \ {r}
             e == IF rest = {} THEN Idle
                  ELSE [cmd[p] EXCEPT !.created = rest, !.parts = Idle.parts]
  <2>1. Become(p, e)
    BY <1>3 DEF Discard
  <2>2. e.pc \in {"idle", "discard"}
    BY <1>1, <1>3 DEF Draft, Idle
  <2> HIDE DEF e
  <2> QED BY <2>1, <2>2 DEF OnlyDrops, Become, CommandsInv, CommandsTypeOK
<1> QED BY <1>2, <1>3

----------------------------------------------------------------------------
(* The saves.                                                              *)

\* Putting one more part that is full.
LEMMA PutPartStays ==
  ASSUME OwnershipInv, [CommandsNext]_commandVars, NEW d \in Draft,
         Range(d.parts) \subseteq 0..runSeq, PartsFull(d),
         NEW part, NEW r, Full(part, RowsOf(r)'), NEW e,
         e.parts = PutPart(d, part, r).parts
  PROVE  PartsFull(e)'
<1>1. PartsFull(d)'
  BY FullPartsStay
<1>2. /\ DOMAIN e.parts = DOMAIN d.parts \cup {part}
      /\ e.parts[part] = r
      /\ \A x \in DOMAIN d.parts \ {part} : e.parts[x] = d.parts[x]
  BY PutPartParts
<1> SUFFICES ASSUME NEW x \in DOMAIN e.parts, e.parts[x] \in DOMAIN runs'
             PROVE  Full(x, RowsOf(e.parts[x])')
  BY DEF PartsFull
<1>3. CASE x = part
  BY <1>2, <1>3 DEF RowsOf
<1>4. CASE x # part
  <2>1. x \in DOMAIN d.parts /\ e.parts[x] = d.parts[x]
    BY <1>2, <1>4
  <2> QED BY <1>1, <2>1 DEF PartsFull
<1> QED BY <1>3, <1>4

\* A draft is judged by what it is, whosever it is.
LEMMA DraftFullOf ==
  ASSUME NEW p, NEW e, cmd'[p] = e, DraftFull(e)'
  PROVE  DraftFull(cmd[p])'
BY DEF DraftFull, PartsFull, SavedSoFar, Job, RowsOf

\* After its last save a compute's run holds all its rows.
LEMMA LastSaveFills ==
  ASSUME NEW d \in Draft, Job(d) \in Resource \cup Metric,
         Job(d) \in Resource => SavedSoFar(d), Len(d.unsaved) = 1,
         \/ SaveRow(d.run, Head(d.unsaved))
         \/ Job(d) \in Metric /\ ReplaceRows(d.run, {MetricRow}, {})
  PROVE  Full(Job(d), RowsOf(d.run)')
<1>1. \A q \in Resource : ForecastOf[q] \notin Resource \cup Metric
  BY CommandsAssumption DEF Metric, Range
<1>2. CASE Job(d) \notin Resource
  BY <1>1, <1>2 DEF Full
<1>3. CASE Job(d) \in Resource
  <2>1. Job(d) \notin Metric
    BY <1>3 DEF Metric
  <2>2. d.unsaved = <<HexRow>>
    <3>1. Len(ComputeRows) = 3 /\ Len(<<CohortRow, HexRow>>) = 2
      BY DEF ComputeRows
    <3> QED BY <1>3, <3>1 DEF SavedSoFar
  <2>3. d.unsaved # ComputeRows /\ d.unsaved # <<CohortRow, HexRow>>
    <3>1. Len(ComputeRows) = 3 /\ Len(<<CohortRow, HexRow>>) = 2
      BY DEF ComputeRows
    <3> QED BY <3>1
  <2>4. d.run \in DOMAIN runs /\ SaveRow(d.run, HexRow)
    BY <2>1, <2>2 DEF SaveRow
  <2>5. {ResultRow, CohortRow} \subseteq RowsOf(d.run)
    BY <1>3, <2>3, <2>4 DEF SavedSoFar
  <2>6. RowsOf(d.run)' = RowsOf(d.run) \cup {HexRow}
    BY <2>4, SavedRow
  <2> QED BY <1>1, <1>3, <2>5, <2>6, RowsDiffer DEF Full
<1> QED BY <1>2, <1>3

LEMMA SaveKeepsFull ==
  ASSUME OwnershipInv, [CommandsNext]_commandVars, NEW p \in Proc, Save(p),
         DraftFull(cmd[p])
  PROVE  DraftFull(cmd[p])'
<1> USE DEF OwnershipInv
<1>1. PICK d \in Draft : d = cmd[p]
  BY DraftFacts
<1>2. /\ Sound(d) /\ AtWork(d) /\ d.pc = "save" /\ Working(p)
      /\ Job(d) \in Resource \cup Metric /\ Job(d) \in Part /\ d.run \in d.created
      /\ d.jobs # <<>> /\ d.unsaved \in Seq(Row) /\ d.unsaved # <<>>
      /\ Range(d.parts) \subseteq 0..runSeq
      /\ PartsFull(d) /\ (Job(d) \in Resource => SavedSoFar(d))
  <2>1. /\ Sound(d) /\ AtWork(d) /\ d.pc = "save" /\ Working(p)
    BY <1>1, DraftFacts DEF Save, At, Working
  <2>2. /\ Job(d) \in Resource \cup Metric /\ Job(d) \in Part /\ d.run \in d.created
        /\ d.jobs # <<>> /\ d.unsaved \in Seq(Row) /\ d.unsaved # <<>>
    BY <2>1, JobFacts DEF Sound, Draft
  <2>3. Range(d.parts) \subseteq 0..runSeq
    BY <1>1, <2>1, PartsHandedOut
  <2> QED BY <1>1, <2>1, <2>2, <2>3 DEF DraftFull
<1>3. \/ SaveRow(d.run, Head(d.unsaved))
      \/ Job(d) \in Metric /\ ReplaceRows(d.run, {MetricRow}, {})
  BY <1>1 DEF Save
<1>4. CASE Len(d.unsaved) = 1
  <2>1. PICK e : e = Saved(d)
    OBVIOUS
  <2>2. cmd'[p] = e
    BY <1>1, <1>4, <2>1 DEF Save, Become, CommandsInv, CommandsTypeOK
  <2>3. e.parts = PutPart(d, Job(d), d.run).parts /\ e.pc # "save"
    <3> DEFINE put == PutPart(d, Job(d), d.run)
    <3>1. put \in Draft
      BY <1>2, PutPartAtWork DEF Draft
    <3> HIDE DEF put
    <3>2. /\ [put EXCEPT !.pc = "resolveArea"].parts = put.parts
          /\ [put EXCEPT !.pc = "resolveArea"].pc = "resolveArea"
      BY <3>1 DEF Draft
    <3> QED BY <2>1, <3>1, <3>2, NextJobParts DEF Saved, put
  <2>4. PartsFull(e)'
    BY <1>2, <1>3, <1>4, <2>3, LastSaveFills, PutPartStays
  <2>5. DraftFull(e)'
    BY <2>3, <2>4 DEF DraftFull
  <2> QED BY <2>2, <2>5, DraftFullOf
<1>5. CASE Len(d.unsaved) # 1
  <2>1. PICK e : e = [d EXCEPT !.unsaved = Tail(d.unsaved)]
    OBVIOUS
  <2>2. cmd'[p] = e
    BY <1>1, <1>5, <2>1 DEF Save, Become, CommandsInv, CommandsTypeOK
  <2>3. /\ e.parts = d.parts /\ e.unsaved = Tail(d.unsaved) /\ e.run = d.run
        /\ Job(e) = Job(d)
    BY <2>1 DEF Draft, Job
  <2>4. PartsFull(e)'
    <3>1. PartsFull(d)'
      BY <1>2, FullPartsStay
    <3> QED BY <2>3, <3>1 DEF PartsFull, RowsOf
  <2>5. (Job(e) \in Resource => SavedSoFar(e))'
    <3> SUFFICES ASSUME Job(d) \in Resource PROVE SavedSoFar(e)'
      BY <2>3
    <3>1. SaveRow(d.run, Head(d.unsaved))
      BY <1>3 DEF Metric
    <3>2. /\ RowsOf(d.run)' = RowsOf(d.run) \cup {Head(d.unsaved)}
          /\ d.run \in DOMAIN runs
      BY <3>1, SavedRow DEF SaveRow
    <3>3. CASE d.unsaved = ComputeRows
      <4>1. Head(d.unsaved) = ResultRow /\ Tail(d.unsaved) = <<CohortRow, HexRow>>
        BY <3>3 DEF ComputeRows
      <4> QED BY <2>3, <3>2, <4>1 DEF SavedSoFar, RowsOf
    <3>4. CASE /\ d.unsaved = <<CohortRow, HexRow>>
               /\ d.run \in DOMAIN runs => ResultRow \in RowsOf(d.run)
      <4>1. Head(d.unsaved) = CohortRow /\ Tail(d.unsaved) = <<HexRow>>
        BY <3>4
      <4> QED BY <2>3, <3>2, <3>4, <4>1 DEF SavedSoFar, RowsOf
    <3>5. CASE d.unsaved = <<HexRow>>
      BY <1>5, <3>5
    <3> QED BY <1>2, <3>3, <3>4, <3>5 DEF SavedSoFar
  <2>6. DraftFull(e)'
    BY <2>4, <2>5 DEF DraftFull
  <2> QED BY <2>2, <2>6, DraftFullOf
<1> QED BY <1>4, <1>5

LEMMA SaveForecastKeepsFull ==
  ASSUME OwnershipInv, [CommandsNext]_commandVars, NEW p \in Proc, SaveForecast(p),
         DraftFull(cmd[p])
  PROVE  DraftFull(cmd[p])'
<1> USE DEF OwnershipInv
<1>1. PICK d \in Draft : d = cmd[p]
  BY DraftFacts
<1>2. /\ Sound(d) /\ AtWork(d) /\ d.pc = "saveForecast"
      /\ Job(d) \in Resource /\ ForecastOf[Job(d)] \in Part
      /\ d.run \in d.created /\ d.run \in 0..MaxRuns
      /\ Range(d.parts) \subseteq 0..runSeq /\ PartsFull(d)
  <2>1. Sound(d) /\ AtWork(d) /\ d.pc = "saveForecast" /\ Working(p)
    BY <1>1, DraftFacts DEF SaveForecast, At, Working
  <2>2. /\ Job(d) \in Resource /\ ForecastOf[Job(d)] \in Part
        /\ d.run \in d.created /\ d.run \in 0..MaxRuns
    BY <2>1, JobFacts DEF Sound, Draft, ForecastSteps
  <2>3. Range(d.parts) \subseteq 0..runSeq
    BY <1>1, <2>1, PartsHandedOut
  <2> QED BY <1>1, <2>1, <2>2, <2>3 DEF DraftFull
<1>3. SaveRow(d.run, ForecastRow(d.area, d.cohorts))
  BY <1>1 DEF SaveForecast
<1>4. Full(ForecastOf[Job(d)], RowsOf(d.run)')
  <2>1. ForecastOf[Job(d)] \notin Resource
    BY <1>2, CommandsAssumption
  <2>2. ForecastRow(d.area, d.cohorts) \in RowsOf(d.run)'
    BY <1>3, SavedRow
  <2>3. ForecastRow(d.area, d.cohorts) # MetricRow
    BY RowsDiffer
  <2> QED BY <2>1, <2>2, <2>3 DEF Full
<1> DEFINE put == PutPart(d, ForecastOf[Job(d)], d.run)
<1>5. put \in Draft
  BY <1>2, PutPartAtWork
<1>6. PICK e : e = NextJob([put EXCEPT !.produced = TRUE])
  OBVIOUS
<1>7. cmd'[p] = e
  BY <1>1, <1>6 DEF SaveForecast, Become, CommandsInv, CommandsTypeOK
<1> HIDE DEF put
<1>8. e.parts = put.parts /\ e.pc # "save"
  <2>1. /\ [put EXCEPT !.produced = TRUE] \in Draft
        /\ [put EXCEPT !.produced = TRUE].parts = put.parts
    BY <1>5 DEF Draft
  <2> QED BY <1>6, <2>1, NextJobParts
<1>9. PartsFull(e)'
  BY <1>2, <1>4, <1>8, PutPartStays DEF put
<1>10. DraftFull(e)'
  BY <1>8, <1>9 DEF DraftFull
<1> QED BY <1>7, <1>10, DraftFullOf

----------------------------------------------------------------------------
(* Every step.                                                             *)

LEMMA OnlyDropsKeepsFull ==
  ASSUME OwnershipInv, [CommandsNext]_commandVars, NEW p \in Proc, OnlyDrops(p),
         DraftFull(cmd[p])
  PROVE  DraftFull(cmd[p])'
<1> USE DEF OwnershipInv
<1>1. PICK d, e : d = cmd[p] /\ e = cmd'[p]
  OBVIOUS
<1>2. CASE e.pc \in {"idle", "discard"}
  BY <1>1, <1>2 DEF DraftFull
<1>3. CASE DOMAIN e.parts = {} /\ e.pc # "save"
  <2>1. PartsFull(e)'
    BY <1>3 DEF PartsFull
  <2> QED BY <1>1, <1>3, <2>1, DraftFullOf DEF DraftFull
<1>4. CASE /\ Working(p)
           /\ Dropped(d, e)
           /\ e.pc = "save" => e.unsaved = ComputeRows \/ Job(e) \notin Resource
  <2>1. d \in Draft /\ Range(d.parts) \subseteq 0..runSeq /\ PartsFull(d)
    BY <1>1, <1>4, DraftFacts, PartsHandedOut DEF DraftFull, Working
  <2>2. PartsFull(e)'
    BY <1>4, <2>1, DroppedPartsStay
  <2>3. DraftFull(e)'
    BY <1>4, <2>2 DEF DraftFull, SavedSoFar
  <2> QED BY <1>1, <2>3, DraftFullOf
<1>5. Job(cmd'[p]) = Job(e)
  BY <1>1
<1> QED BY <1>1, <1>2, <1>3, <1>4, <1>5 DEF OnlyDrops

LEMMA UnmovedKeepsFull ==
  ASSUME OwnershipInv, [CommandsNext]_commandVars, NEW p \in Proc, cmd'[p] = cmd[p],
         DraftFull(cmd[p])
  PROVE  DraftFull(cmd[p])'
<1> USE DEF OwnershipInv
<1>1. PICK d \in Draft : d = cmd[p]
  BY DraftFacts
<1>2. CASE d.pc \in {"idle", "discard"}
  BY <1>1, <1>2 DEF DraftFull
<1>3. CASE d.pc \notin {"idle", "discard"}
  <2>1. /\ Working(p) /\ PartsFull(d) /\ Range(d.parts) \subseteq 0..runSeq
        /\ d.pc = "save" => d.run \in d.created
    BY <1>1, <1>3, DraftFacts, PartsHandedOut DEF DraftFull, Working, Sound
  <2>2. PartsFull(d)'
    BY <2>1, FullPartsStay
  <2>3. ASSUME d.pc = "save", Job(d) \in Resource
        PROVE  SavedSoFar(d)'
    <3>1. SavedSoFar(d)
      BY <1>1, <1>3, <2>3 DEF DraftFull
    <3>2. d.run \in 0..runSeq
      BY <1>1, <2>1, <2>3 DEF CommandsInv, CommandsTypeOK
    <3>3. d.run \in DOMAIN runs' =>
            /\ d.run \in DOMAIN runs
            /\ RowsOf(d.run) \ {MetricRow} \subseteq RowsOf(d.run)'
      BY <3>2, RowsStay
    <3>4. ResultRow # MetricRow /\ CohortRow # MetricRow
      BY RowsDiffer
    <3> QED BY <3>1, <3>3, <3>4 DEF SavedSoFar
  <2>4. DraftFull(d)'
    BY <2>2, <2>3 DEF DraftFull
  <2> QED BY <1>1, <2>4, DraftFullOf
<1> QED BY <1>2, <1>3

LEMMA DraftsStayFull ==
  ASSUME OwnershipInv, [CommandsNext]_commandVars, NEW p \in Proc, DraftFull(cmd[p])
  PROVE  DraftFull(cmd[p])'
<1> USE DEF OwnershipInv
<1>1. CASE cmd'[p] = cmd[p]
  BY <1>1, UnmovedKeepsFull
<1>2. CASE Start(p) \/ Proceed(p) \/ Cancel(p) \/ Crash(p)
  <2>1. CASE Save(p) \/ SaveForecast(p)
    BY <2>1, SaveKeepsFull, SaveForecastKeepsFull
  <2>2. CASE ~(Save(p) \/ SaveForecast(p))
    BY <1>2, <2>2, StartDrops, LoadDrops, NewRunDrops, ReadDrops, FailureDrops, EndDrops,
       OnlyDropsKeepsFull DEF Proceed
  <2> QED BY <2>1, <2>2
<1>3. ASSUME NEW q \in Proc, q # p, Start(q) \/ Proceed(q) \/ Cancel(q) \/ Crash(q)
      PROVE  cmd'[p] = cmd[p]
  BY <1>3, StartKind, LoadKind, NewRunKind, NewRunUnreadKind, SaveKind, SaveForecastKind, ReadKind,
     FailureKind, CommitKind, DiscardKind
     DEF Proceed, Quiet, Creates, Saves, Publishes, Drops, OnlyMoves
<1>4. CASE UNCHANGED cmd
  BY <1>1, <1>4
<1> QED BY <1>1, <1>2, <1>3, <1>4
        DEF CommandsNext, RemoveSnapshot, CollectGarbage, TimePasses, commandVars

LEMMA SnapshotsStayFull ==
  ASSUME OwnershipInv, [CommandsNext]_commandVars, PartsInv
  PROVE  SnapshotsFull'
<1> USE DEF OwnershipInv, CommandsInv
<1> SUFFICES ASSUME NEW s \in DOMAIN snapshots', NEW part \in Part,
                    NEW r \in Referenced', snapshots'[s].parts[part] = r
             PROVE  Full(part, RowsOf(r)')
  BY DEF SnapshotsFull
<1>1. r # 0
  BY DEF Referenced
<1>2. ASSUME NEW t \in DOMAIN snapshots, r = snapshots[t].parts[part]
      PROVE  Full(part, RowsOf(r)')
  <2>1. r \in Referenced
    BY <1>1, <1>2 DEF Referenced
  <2>2. RowsOf(r)' = RowsOf(r)
    BY <2>1, PublishedRowsStay
  <2>3. Full(part, RowsOf(r))
    BY <1>2, <2>1 DEF PartsInv, SnapshotsFull
  <2> QED BY <2>2, <2>3
<1>3. CASE Untouched
  BY <1>2, <1>3 DEF Untouched
<1>4. CASE Gone
  BY <1>2, <1>4 DEF Gone, Restrict
<1>5. ASSUME NEW p \in Proc, Committed(p)
      PROVE  Full(part, RowsOf(r)')
  <2>1. PICK d \in Draft : d = cmd[p]
    BY DraftFacts
  <2>2. PICK base : base = SnapshotParts(d.city, NewestSnapshotID(d.city, d.hash))
    OBVIOUS
  <2>3. PICK manifest : manifest = ApplyParts(base, d.parts)
    OBVIOUS
  <2>4. InsertSnapshot(d.city, d.hash, manifest) /\ d.pc = "commit" /\ Working(p)
    BY <1>5, <2>1, <2>2, <2>3 DEF Committed, At, Working
  <2>5. \/ manifest[part] = base[part]
        \/ part \in DOMAIN d.parts /\ manifest[part] = d.parts[part]
    BY <2>3 DEF ApplyParts
  <2>6. base[part] # 0 => \E t \in DOMAIN snapshots : base[part] = snapshots[t].parts[part]
    BY <2>2 DEF SnapshotParts, NoParts
  <2>7. /\ DOMAIN snapshots' = DOMAIN snapshots \cup {snapshotSeq'}
        /\ snapshots'[snapshotSeq'] = [city |-> d.city, hash |-> d.hash, parts |-> manifest]
        /\ \A t \in DOMAIN snapshots : snapshots'[t] = snapshots[t]
    BY <2>4, InsertedSnapshot
  <2>8. CASE s \in DOMAIN snapshots
    BY <1>2, <2>7, <2>8
  <2>9. CASE s = snapshotSeq'
    <3>1. r = manifest[part]
      BY <2>7, <2>9
    <3>2. CASE r = base[part]
      BY <1>1, <1>2, <2>6, <3>2
    <3>3. CASE part \in DOMAIN d.parts /\ r = d.parts[part]
      <4>1. PartsFull(d) /\ Range(d.parts) \subseteq 0..runSeq
        BY <2>1, <2>4, PartsHandedOut DEF PartsInv, DraftFull
      <4>2. PartsFull(d)'
        BY <4>1, FullPartsStay
      <4>3. r \in DOMAIN runs'
        BY <1>1, CommandsStep DEF StoreInv, ManifestsIntact
      <4> QED BY <3>3, <4>2, <4>3 DEF PartsFull
    <3> QED BY <2>5, <3>1, <3>2, <3>3
  <2> QED BY <2>7, <2>8, <2>9
<1> QED BY <1>3, <1>4, <1>5, SnapshotSteps

LEMMA PartsStep ==
  OwnershipInv /\ PartsInv /\ [CommandsNext]_commandVars => PartsInv'
BY DraftsStayFull, SnapshotsStayFull DEF PartsInv

\* Of every behaviour: what a draft has put, and what is published, is full.
THEOREM PartsAreFull == CommandsSpec => []PartsInv
<1>1. CommandsInit => PartsInv
  BY DEF CommandsInit, StoreInit, PartsInv, DraftFull, SnapshotsFull, Idle
<1> QED BY <1>1, PartsStep, RunsHaveOneOwner, PTL DEF CommandsSpec

\* A published part is never half saved: a compute's run holds all its rows
\* and a forecast's its forecast, whatever failed, was cancelled or was killed
\* between the saves.
THEOREM PublishedPartsAreComplete == CommandsSpec => []PublishedPartsComplete
<1>1. PartsInv => PublishedPartsComplete
  <2> SUFFICES ASSUME PartsInv, NEW s \in DOMAIN snapshots, NEW r \in Resource
               PROVE  LET parts == snapshots[s].parts
                      IN  /\ parts[r] # 0 => Range(ComputeRows) \subseteq RowsOf(parts[r])
                          /\ parts[ForecastOf[r]] # 0 => RowsOf(parts[ForecastOf[r]]) # {}
    BY DEF PublishedPartsComplete
  <2>1. r \in Part /\ ForecastOf[r] \in Part
    BY PartsArePart
  <2>2. \A part \in Part :
          snapshots[s].parts[part] # 0 => Full(part, RowsOf(snapshots[s].parts[part]))
    BY DEF PartsInv, SnapshotsFull, Referenced
  <2> QED BY <2>1, <2>2 DEF Full
<1> QED BY <1>1, PartsAreFull, PTL

----------------------------------------------------------------------------
(* Pairing, when no standalone forecast is run.                            *)

\* The draft changes the resource and its forecast together, and a forecast
\* it has put is of the compute it has put, as long as both runs exist.
Paired(d, q) ==
  LET f == ForecastOf[q]
  IN  /\ q \in DOMAIN d.parts <=> f \in DOMAIN d.parts
      /\ f \in DOMAIN d.parts /\ d.parts[f] # 0 =>
           /\ d.parts[q] # 0
           /\ {d.parts[q], d.parts[f]} \subseteq DOMAIN runs =>
                RowsOf(d.parts[f]) = {ForecastRow(d.parts[q], d.parts[q])}

\* A recompute's forecast, while it is made, reads the draft's own compute.
ForecastInProgress(d) ==
  /\ Job(d) \in DOMAIN d.parts /\ d.parts[Job(d)] # 0
  /\ d.pc \in {"resolveCohorts", "readCohorts", "createForecast", "saveForecast"} =>
       d.area = d.parts[Job(d)]
  /\ d.pc \in {"createForecast", "saveForecast"} =>
       d.cohorts = d.area \/ d.area \notin DOMAIN runs
  /\ d.pc = "saveForecast" => RowsOf(d.run) = {}

ForecastDraft(d) ==
  d.pc \notin {"idle", "discard"} =>
    /\ \A q \in Resource : Paired(d, q) \/ (d.pc \in ForecastSteps /\ q = Job(d))
    /\ d.pc \in ForecastSteps => ForecastInProgress(d)
    /\ d.pc \in {"save", "saveForecast"} => d.run \notin Range(d.parts)

PairingInv == (\A p \in Proc : ForecastDraft(cmd[p])) /\ ForecastsMatchComputes

\* The two drafts agree on a resource and its forecast.
SamePair(d, e, q) ==
  \A x \in {q, ForecastOf[q]} :
    /\ x \in DOMAIN d.parts <=> x \in DOMAIN e.parts
    /\ x \in DOMAIN d.parts => e.parts[x] = d.parts[x]

\* What stands before and during a step of the commands.
Stepping(p) ==
  /\ OwnershipInv /\ PartsInv
  /\ p \in Proc /\ ForecastDraft(cmd[p])
  /\ "forecast" \notin CommandNames

\* Only its owner writes to a run.
LEMMA OwnRowsStay ==
  ASSUME OwnershipInv, [CommandsNext]_commandVars, NEW p \in Proc,
         NEW r \in cmd[p].created, r \in DOMAIN runs',
         Save(p) \/ SaveForecast(p) => r # cmd[p].run
  PROVE  r \in DOMAIN runs /\ RowsOf(r)' = RowsOf(r)
<1> USE DEF OwnershipInv, CommandsInv
<1>1. r \in DOMAIN runs
  <2>1. r \in 0..runSeq
    BY DEF CommandsTypeOK
  <2> QED BY <2>1, RowsStay
<1>2. CASE UNCHANGED rows
  BY <1>1, <1>2 DEF RowsOf
<1>3. ASSUME NEW q \in Proc, Save(q) \/ SaveForecast(q)
      PROVE  RowsOf(r)' = RowsOf(r)
  <2>1. Saves(q)
    BY <1>3, SaveKind, SaveForecastKind
  <2>2. r # cmd[q].run
    BY <1>3, <2>1 DEF Saves, OwnRuns
  <2>3. {y \in rows' : y.run = r} = {y \in rows : y.run = r}
    <3>1. CASE ReplaceRows(cmd[q].run, {MetricRow}, {})
      BY <2>2, <3>1 DEF ReplaceRows
    <3>2. ASSUME NEW x \in Row, SaveRow(cmd[q].run, x)
          PROVE  {y \in rows' : y.run = r} = {y \in rows : y.run = r}
      BY <2>2, <3>2 DEF SaveRow
    <3> QED BY <2>1, <3>1, <3>2 DEF Saves
  <2> QED BY <2>3 DEF RowsOf
<1>4. ASSUME NEW q \in Proc, Start(q) \/ Proceed(q) \/ Cancel(q) \/ Crash(q),
             ~(Save(q) \/ SaveForecast(q))
      PROVE  RowsOf(r)' = RowsOf(r)
  <2>1. Quiet(q) \/ Creates(q) \/ Publishes(q) \/ Drops(q)
    BY <1>4, StartKind, LoadKind, NewRunKind, NewRunUnreadKind, ReadKind, FailureKind, CommitKind, DiscardKind
       DEF Proceed
  <2>2. CASE Quiet(q) \/ Creates(q) \/ Publishes(q)
    BY <1>2, <2>2 DEF Quiet, Creates, Publishes, CreateRun, CommitSnapshot, storeVars
  <2>3. CASE Drops(q)
    BY <2>3, DeletingKeepsRuns DEF Drops, DiscardRun
  <2> QED BY <2>1, <2>2, <2>3
<1>5. CASE RemoveSnapshot \/ CollectGarbage \/ TimePasses
  BY <1>2, <1>5, DeletingKeepsRuns
     DEF RemoveSnapshot, CollectGarbage, TimePasses, DeleteSnapshot, GCSweep, Expire
<1>6. CASE UNCHANGED commandVars
  BY <1>2, <1>6 DEF commandVars, storeVars
<1> QED BY <1>1, <1>3, <1>4, <1>5, <1>6 DEF CommandsNext

\* A pair that a step leaves alone stays a pair.
LEMMA PairStays ==
  ASSUME [CommandsNext]_commandVars, NEW p, Stepping(p), Working(p), NEW d, d = cmd[p],
         NEW q \in Resource, Paired(d, q), NEW e, SamePair(d, e, q)
  PROVE  Paired(e, q)'
<1> USE DEF Stepping
<1> DEFINE f == ForecastOf[q]
<1>1. ASSUME NEW x \in DOMAIN d.parts, d.parts[x] # 0, d.parts[x] \in DOMAIN runs'
      PROVE  d.parts[x] \in DOMAIN runs /\ RowsOf(d.parts[x])' = RowsOf(d.parts[x])
  <2>1. PICK r : r = d.parts[x]
    OBVIOUS
  <2>2. r \in cmd[p].created
    BY <1>1, <2>1, DraftFacts DEF AtWork, Range, OwnershipInv, Working
  <2>3. Save(p) \/ SaveForecast(p) => r # cmd[p].run
    BY <2>1 DEF Save, SaveForecast, At, ForecastDraft, Range
  <2>4. r \in DOMAIN runs /\ RowsOf(r)' = RowsOf(r)
    BY <1>1, <2>1, <2>2, <2>3, OwnRowsStay
  <2> QED BY <2>1, <2>4 DEF RowsOf
<1>2. /\ q \in DOMAIN e.parts <=> f \in DOMAIN e.parts
      /\ q \in DOMAIN d.parts <=> q \in DOMAIN e.parts
      /\ f \in DOMAIN d.parts <=> f \in DOMAIN e.parts
      /\ q \in DOMAIN e.parts => e.parts[q] = d.parts[q]
      /\ f \in DOMAIN e.parts => e.parts[f] = d.parts[f]
  BY DEF Paired, SamePair
<1>3. ASSUME f \in DOMAIN e.parts, e.parts[f] # 0
      PROVE  /\ e.parts[q] # 0
             /\ {e.parts[q], e.parts[f]} \subseteq DOMAIN runs' =>
                  RowsOf(e.parts[f])' = {ForecastRow(e.parts[q], e.parts[q])}
  <2>1. PICK a, b : a = e.parts[q] /\ b = e.parts[f]
    OBVIOUS
  <2>2. /\ a = d.parts[q] /\ b = d.parts[f] /\ b # 0 /\ a # 0
        /\ {a, b} \subseteq DOMAIN runs => RowsOf(b) = {ForecastRow(a, a)}
    BY <1>2, <1>3, <2>1 DEF Paired
  <2>3. ASSUME {a, b} \subseteq DOMAIN runs'
        PROVE  RowsOf(b)' = {ForecastRow(a, a)}
    <3>1. {a, b} \subseteq DOMAIN runs
      BY <1>1, <1>2, <1>3, <2>2, <2>3
    <3>2. RowsOf(b)' = RowsOf(b)
      BY <1>1, <1>2, <1>3, <2>2, <2>3 DEF RowsOf
    <3> QED BY <2>2, <3>1, <3>2
  <2> QED BY <2>1, <2>2, <2>3 DEF RowsOf
<1> QED BY <1>2, <1>3 DEF Paired

LEMMA ForecastDraftOf ==
  ASSUME NEW p, NEW e, cmd'[p] = e, ForecastDraft(e)'
  PROVE  ForecastDraft(cmd[p])'
BY DEF ForecastDraft, Paired, ForecastInProgress, Job, RowsOf

\* Between two jobs every resource is paired.
LEMMA SettledDraft ==
  ASSUME NEW p \in Proc, CommandsInv, NEW e, Become(p, e),
         e.pc \notin ForecastSteps \cup {"save"},
         \A q \in Resource : Paired(e, q)'
  PROVE  ForecastDraft(cmd[p])'
<1>1. cmd'[p] = e
  BY DEF Become, CommandsInv, CommandsTypeOK
<1>2. ForecastDraft(e)'
  BY DEF ForecastDraft, ForecastSteps
<1> QED BY <1>1, <1>2, ForecastDraftOf

\* The forecasts' parts are nobody else's.
LEMMA PartsAreDistinct ==
  /\ \A q \in Resource : ForecastOf[q] \notin Resource \cup Metric /\ q \notin Metric
  /\ \A q, r \in Resource : q # r => ForecastOf[q] # ForecastOf[r]
BY CommandsAssumption DEF Metric, Range

LEMMA StepFacts ==
  ASSUME NEW p, Stepping(p), Working(p)
  PROVE  /\ cmd[p] \in Draft /\ Sound(cmd[p]) /\ AtWork(cmd[p])
         /\ cmd[p].name # "forecast"
         /\ Range(cmd[p].parts) \subseteq 0..runSeq
         /\ 0 \notin cmd[p].created
         /\ \A q \in Resource :
              Paired(cmd[p], q) \/ (cmd[p].pc \in ForecastSteps /\ q = Job(cmd[p]))
         /\ cmd[p].pc \in ForecastSteps => ForecastInProgress(cmd[p])
<1>1. CommandsInv
  BY DEF Stepping, OwnershipInv
<1>2. cmd[p] \in Draft /\ Sound(cmd[p]) /\ AtWork(cmd[p])
  BY <1>1, DraftFacts DEF Stepping, Working
<1>3. cmd[p].name # "forecast"
  BY <1>2 DEF Stepping, Draft
<1>4. Range(cmd[p].parts) \subseteq 0..runSeq
  BY <1>1, PartsHandedOut DEF Stepping
<1>5. 0 \notin cmd[p].created
  BY <1>1 DEF CommandsInv, CommandsTypeOK, Stepping
<1> QED BY <1>2, <1>3, <1>4, <1>5 DEF Stepping, ForecastDraft, Working

LEMMA StartPairs ==
  ASSUME NEW p, Stepping(p), [CommandsNext]_commandVars, Start(p)
  PROVE  ForecastDraft(cmd[p])'
<1> USE DEF Stepping, OwnershipInv
<1>1. PICK name \in CommandNames, c \in City, h \in Hash :
        \E jobs \in JobsOf(name) :
           cmd' = [cmd EXCEPT ![p] =
                     [Idle EXCEPT !.pc = FirstStep(name), !.name = name,
                                  !.city = c, !.hash = h, !.jobs = jobs]]
  BY DEF Start
<1>2. PICK jobs \in JobsOf(name) :
         cmd' = [cmd EXCEPT ![p] =
                   [Idle EXCEPT !.pc = FirstStep(name), !.name = name,
                                !.city = c, !.hash = h, !.jobs = jobs]]
  BY <1>1
<1>3. PICK e : e = [Idle EXCEPT !.pc = FirstStep(name), !.name = name,
                                !.city = c, !.hash = h, !.jobs = jobs]
  OBVIOUS
<1>4. DOMAIN e.parts = {} /\ e.pc = "load"
  BY <1>3 DEF Idle, FirstStep
<1>5. Become(p, e) \/ cmd' = [cmd EXCEPT ![p] = e]
  BY <1>2, <1>3
<1>6. cmd'[p] = e
  BY <1>5 DEF Become, CommandsInv, CommandsTypeOK
<1>7. \A q \in Resource : Paired(e, q)'
  BY <1>4 DEF Paired
<1>8. ForecastDraft(e)'
  BY <1>4, <1>7 DEF ForecastDraft, ForecastSteps
<1> QED BY <1>6, <1>8, ForecastDraftOf

\* A dropped forecast is paired, whatever becomes of its resource.
LEMMA DroppedPair ==
  ASSUME NEW e, NEW q, q \in DOMAIN e.parts, ForecastOf[q] \in DOMAIN e.parts,
         e.parts[ForecastOf[q]] = 0
  PROVE  Paired(e, q)'
BY DEF Paired

LEMMA LoadPairs ==
  ASSUME NEW p, Stepping(p), [CommandsNext]_commandVars, Load(p)
  PROVE  ForecastDraft(cmd[p])'
<1> USE DEF Stepping, OwnershipInv
<1>1. PICK d : d = cmd[p]
  OBVIOUS
<1>2. /\ d \in Draft /\ Sound(d) /\ d.pc = "load" /\ Working(p) /\ d.name # "forecast"
      /\ \A q \in Resource : Paired(d, q)
      /\ Job(d) \in Resource \cup Metric /\ Job(d) \in Part
  <2>1. d.pc = "load" /\ Working(p)
    BY <1>1 DEF Load, At, Working
  <2>2. d \in Draft /\ Sound(d)
    BY <1>1, <2>1, StepFacts
  <2> QED BY <1>1, <2>1, <2>2, StepFacts, JobFacts DEF ForecastSteps
<1>3. ASSUME NEW e, Become(p, e), e.pc \notin ForecastSteps \cup {"save"},
             \A q \in Resource : SamePair(d, e, q) \/ Paired(e, q)'
      PROVE  ForecastDraft(cmd[p])'
  <2>1. \A q \in Resource : Paired(e, q)'
    BY <1>1, <1>2, <1>3, PairStays
  <2> QED BY <1>3, <2>1, SettledDraft
<1>4. CASE Become(p, [d EXCEPT !.pc = "create"])
  <2>1. /\ [d EXCEPT !.pc = "create"].parts = d.parts
        /\ [d EXCEPT !.pc = "create"].pc = "create"
    BY <1>2 DEF Draft
  <2> QED BY <1>3, <1>4, <2>1 DEF SamePair, ForecastSteps
<1>5. PICK g : g = DropPart(d, Job(d))
  OBVIOUS
<1>6. /\ g \in Draft /\ g.name = d.name
      /\ DOMAIN g.parts = DOMAIN d.parts \cup {Job(d)}
      /\ g.parts[Job(d)] = 0
      /\ \A x \in DOMAIN d.parts \ {Job(d)} : g.parts[x] = d.parts[x]
  BY <1>2, <1>5, BoundsAssumption, PutPartType, PutPartParts DEF DropPart
<1>7. CASE Job(d) \in Metric /\ Become(p, NextJob(g))
  <2>1. \A q \in Resource : SamePair(d, g, q)
    BY <1>6, <1>7, PartsAreDistinct DEF SamePair
  <2>2. \A q \in Resource : SamePair(d, NextJob(g), q)
    BY <1>6, <2>1, NextJobParts DEF SamePair
  <2>3. NextJob(g).pc \notin ForecastSteps \cup {"save"}
    BY <1>2, <1>6, NextJobParts DEF ForecastSteps
  <2> QED BY <1>3, <1>7, <2>2, <2>3
<1>8. CASE Job(d) \in Resource /\ Become(p, NextJob(DropPart(g, ForecastOf[Job(d)])))
  <2>1. PICK f : f = ForecastOf[Job(d)]
    OBVIOUS
  <2>2. PICK k : k = DropPart(g, f)
    OBVIOUS
  <2>3. /\ k \in Draft /\ k.name = d.name
        /\ DOMAIN k.parts = DOMAIN d.parts \cup {Job(d), f}
        /\ k.parts[f] = 0
        /\ \A x \in DOMAIN d.parts \ {Job(d), f} : k.parts[x] = d.parts[x]
    <3>1. f \in Part
      BY <1>8, <2>1, PartsArePart
    <3> QED BY <1>6, <2>2, <3>1, BoundsAssumption, PutPartType, PutPartParts DEF DropPart
  <2>4. PICK e : e = NextJob(k)
    OBVIOUS
  <2>5. e.parts = k.parts /\ e.pc \notin ForecastSteps \cup {"save"} /\ Become(p, e)
    BY <1>2, <1>8, <2>1, <2>2, <2>3, <2>4, NextJobParts DEF ForecastSteps
  <2>6. Paired(e, Job(d))'
    BY <2>1, <2>3, <2>5, DroppedPair
  <2>7. \A q \in Resource \ {Job(d)} : SamePair(d, e, q)
    BY <1>8, <2>1, <2>3, <2>5, PartsAreDistinct DEF SamePair
  <2> QED BY <1>3, <2>5, <2>6, <2>7
<1> QED BY <1>1, <1>2, <1>4, <1>5, <1>7, <1>8 DEF Load

LEMMA NewRunPairs ==
  ASSUME NEW p, Stepping(p), [CommandsNext]_commandVars, NewRun(p)
  PROVE  ForecastDraft(cmd[p])'
<1> USE DEF Stepping, OwnershipInv
<1>1. PICK d, e : d = cmd[p] /\ e = cmd'[p]
  OBVIOUS
<1>2. /\ d \in Draft /\ d.pc = "create" /\ Working(p) /\ Range(d.parts) \subseteq 0..runSeq
      /\ \A q \in Resource : Paired(d, q)
  <2>1. d.pc = "create" /\ Working(p)
    BY <1>1 DEF NewRun, At, Working
  <2> QED BY <1>1, <2>1, StepFacts DEF ForecastSteps
<1>3. e.pc = "save" /\ e.parts = d.parts /\ e.run = runSeq'
  <2>1. e = [d EXCEPT !.pc = "save", !.run = runSeq',
                      !.created = d.created \cup {runSeq'},
                      !.unsaved = IF Job(d) \in Resource THEN ComputeRows ELSE <<MetricRow>>]
    BY <1>1 DEF NewRun, Become, CommandsInv, CommandsTypeOK
  <2> QED BY <1>2, <2>1 DEF Draft
<1>4. \A q \in Resource : Paired(e, q)'
  BY <1>1, <1>2, <1>3, PairStays DEF SamePair
<1>5. e.run \notin Range(e.parts)
  <2>1. runSeq \in Nat /\ runSeq' = runSeq + 1
    BY BoundsAssumption DEF NewRun, CreateRun, CommandsInv, CommandsTypeOK, StoreTypeOK
  <2> QED BY <1>2, <1>3, <2>1
<1>6. ForecastDraft(e)'
  BY <1>3, <1>4, <1>5 DEF ForecastDraft, ForecastSteps
<1> QED BY <1>1, <1>6, ForecastDraftOf

LEMMA SavePairs ==
  ASSUME NEW p, Stepping(p), [CommandsNext]_commandVars, Save(p)
  PROVE  ForecastDraft(cmd[p])'
<1> USE DEF Stepping, OwnershipInv
<1>1. PICK d, e : d = cmd[p] /\ e = cmd'[p]
  OBVIOUS
<1>2. /\ d \in Draft /\ Sound(d) /\ AtWork(d) /\ d.pc = "save" /\ Working(p)
      /\ d.name # "forecast"
      /\ \A q \in Resource : Paired(d, q)
      /\ Job(d) \in Resource \cup Metric /\ Job(d) \in Part
      /\ d.run \in d.created /\ d.run # 0 /\ d.run \in 0..MaxRuns
      /\ d.run \notin Range(d.parts)
  <2>1. d.pc = "save" /\ Working(p)
    BY <1>1 DEF Save, At, Working
  <2>2. d \in Draft /\ Sound(d)
    BY <1>1, <2>1, StepFacts
  <2>3. d.run \in d.created /\ d.run # 0 /\ d.run \in 0..MaxRuns
    BY <1>1, <2>1, <2>2, StepFacts DEF Sound, Draft
  <2>4. d.run \notin Range(d.parts)
    BY <1>1, <2>1 DEF ForecastDraft
  <2> QED BY <1>1, <2>1, <2>2, <2>3, <2>4, StepFacts, JobFacts DEF ForecastSteps
<1>3. CASE Len(d.unsaved) # 1
  <2>1. e = [d EXCEPT !.unsaved = Tail(d.unsaved)]
    BY <1>1, <1>3 DEF Save, Become, CommandsInv, CommandsTypeOK
  <2>2. e.parts = d.parts /\ e.pc = "save" /\ e.run = d.run
    BY <1>2, <2>1 DEF Draft
  <2>3. \A q \in Resource : Paired(e, q)'
    BY <1>1, <1>2, <2>2, PairStays DEF SamePair
  <2>4. ForecastDraft(e)'
    BY <1>2, <2>2, <2>3 DEF ForecastDraft, ForecastSteps
  <2> QED BY <1>1, <2>4, ForecastDraftOf
<1>4. CASE Len(d.unsaved) = 1
  <2>1. e = Saved(d)
    BY <1>1, <1>4 DEF Save, Become, CommandsInv, CommandsTypeOK
  <2>2. PICK put : put = PutPart(d, Job(d), d.run)
    OBVIOUS
  <2>3. /\ put \in Draft /\ put.name = d.name /\ put.jobs = d.jobs
        /\ DOMAIN put.parts = DOMAIN d.parts \cup {Job(d)}
        /\ put.parts[Job(d)] = d.run
        /\ \A x \in DOMAIN d.parts \ {Job(d)} : put.parts[x] = d.parts[x]
    BY <1>2, <2>2, PutPartType, PutPartParts
  <2>4. \A q \in Resource \ {Job(d)} : SamePair(d, put, q)
    BY <1>2, <2>3, PartsAreDistinct DEF SamePair
  <2>5. CASE Job(d) \in Resource
    <3>1. e = [put EXCEPT !.pc = "resolveArea"]
      BY <2>1, <2>2, <2>5 DEF Saved
    <3>2. e.parts = put.parts /\ e.pc = "resolveArea" /\ Job(e) = Job(d)
      BY <2>3, <3>1 DEF Draft, Job
    <3>3. \A q \in Resource \ {Job(d)} : SamePair(d, e, q)
      BY <2>4, <3>2 DEF SamePair
    <3>4. \A q \in Resource \ {Job(d)} : Paired(e, q)'
      BY <1>1, <1>2, <3>3, PairStays
    <3>5. Job(e) \in DOMAIN e.parts /\ e.parts[Job(e)] # 0
      BY <1>2, <2>3, <3>2
    <3>6. ForecastDraft(e)'
      BY <3>2, <3>4, <3>5 DEF ForecastDraft, ForecastSteps, ForecastInProgress
    <3> QED BY <1>1, <3>6, ForecastDraftOf
  <2>6. CASE Job(d) \notin Resource
    <3>1. e = NextJob(put)
      BY <2>1, <2>2, <2>6 DEF Saved
    <3>2. e.parts = put.parts /\ e.pc \notin ForecastSteps \cup {"save"}
      BY <1>2, <2>3, <3>1, NextJobParts DEF ForecastSteps
    <3>3. \A q \in Resource : SamePair(d, e, q)
      BY <2>4, <2>6, <3>2 DEF SamePair
    <3>4. \A q \in Resource : Paired(e, q)'
      BY <1>1, <1>2, <3>3, PairStays
    <3>5. ForecastDraft(e)'
      BY <3>2, <3>4 DEF ForecastDraft, ForecastSteps
    <3> QED BY <1>1, <3>5, ForecastDraftOf
  <2> QED BY <2>5, <2>6
<1> QED BY <1>3, <1>4

\* What a forecast step finds.
LEMMA ForecastStepFacts ==
  ASSUME NEW p, Stepping(p), NEW d, d = cmd[p], d.pc \in ForecastSteps
  PROVE  /\ d \in Draft /\ Sound(d) /\ AtWork(d) /\ Working(p) /\ d.name # "forecast"
         /\ Job(d) \in Resource /\ Job(d) \in Part /\ ForecastOf[Job(d)] \in Part
         /\ d.jobs # <<>>
         /\ Range(d.parts) \subseteq 0..runSeq
         /\ \A q \in Resource \ {Job(d)} : Paired(d, q)
         /\ ForecastInProgress(d)
         /\ d.parts[Job(d)] \in 0..runSeq
<1>1. Working(p)
  BY DEF ForecastSteps, Working
<1>2. /\ d \in Draft /\ Sound(d) /\ AtWork(d) /\ d.name # "forecast"
      /\ Range(d.parts) \subseteq 0..runSeq
      /\ \A q \in Resource \ {Job(d)} : Paired(d, q)
      /\ ForecastInProgress(d)
  BY <1>1, StepFacts
<1>3. Job(d) \in Resource /\ Job(d) \in Part /\ ForecastOf[Job(d)] \in Part /\ d.jobs # <<>>
  BY <1>2, JobFacts DEF ForecastSteps
<1>4. d.parts[Job(d)] \in 0..runSeq
  BY <1>2 DEF ForecastInProgress, Range
<1> QED BY <1>1, <1>2, <1>3, <1>4

\* A forecast step that touches no part, and what is left to show of it.
LEMMA ForecastGoesOn ==
  ASSUME NEW p, Stepping(p), [CommandsNext]_commandVars, NEW d, d = cmd[p],
         d.pc \in ForecastSteps, NEW e, cmd'[p] = e, e.parts = d.parts, e.jobs = d.jobs,
         e.pc \in ForecastSteps, ForecastInProgress(e)',
         e.pc = "saveForecast" => e.run \notin Range(e.parts)
  PROVE  ForecastDraft(cmd[p])'
<1>1. Working(p) /\ \A q \in Resource \ {Job(d)} : Paired(d, q)
  BY ForecastStepFacts
<1>2. \A q \in Resource \ {Job(d)} : Paired(e, q)'
  BY <1>1, PairStays DEF SamePair
<1>3. Job(e) = Job(d)
  BY DEF Job
<1>4. ForecastDraft(e)'
  BY <1>2, <1>3 DEF ForecastDraft, ForecastSteps
<1> QED BY <1>4, ForecastDraftOf

LEMMA ResolvePairs ==
  ASSUME NEW p, Stepping(p), [CommandsNext]_commandVars, ResolveArea(p) \/ ResolveCohorts(p)
  PROVE  ForecastDraft(cmd[p])'
<1> USE DEF Stepping, OwnershipInv
<1>1. PICK d, e : d = cmd[p] /\ e = cmd'[p]
  OBVIOUS
<1>2. d.pc \in {"resolveArea", "resolveCohorts"} /\ d.pc \in ForecastSteps
  BY <1>1 DEF ResolveArea, ResolveCohorts, At, ForecastSteps
<1>3. d \in Draft /\ ForecastInProgress(d)
  BY <1>1, <1>2, ForecastStepFacts
<1>4. /\ e.parts = d.parts /\ e.jobs = d.jobs /\ e.area = d.area
      /\ e.pc \in {"readArea", "readCohorts"}
      /\ e.pc = "readCohorts" => d.pc = "resolveCohorts"
  <2>1. PICK newest : newest = NewestSnapshotID(d.city, d.hash)
    OBVIOUS
  <2>2. CASE ResolveArea(p)
    <3>1. e = [d EXCEPT !.pc = "readArea", !.snap = newest]
      BY <1>1, <2>1, <2>2 DEF ResolveArea, Become, CommandsInv, CommandsTypeOK
    <3> QED BY <1>3, <3>1 DEF Draft
  <2>3. CASE ResolveCohorts(p)
    <3>1. e = [d EXCEPT !.pc = "readCohorts", !.snap = newest]
      BY <1>1, <2>1, <2>3 DEF ResolveCohorts, Become, CommandsInv, CommandsTypeOK
    <3> QED BY <1>1, <1>3, <2>3, <3>1 DEF Draft, ResolveCohorts, At
  <2> QED BY <2>2, <2>3
<1>5. ForecastInProgress(e)'
  BY <1>3, <1>4 DEF ForecastInProgress, Job
<1> QED BY <1>1, <1>2, <1>4, <1>5, ForecastGoesOn DEF ForecastSteps

\* Through its own draft a recompute reads nothing but its own compute.
LEMMA ReadsOwnCompute ==
  ASSUME StoreTypeOK, NEW d, Job(d) \in Part, Job(d) \in DOMAIN d.parts,
         d.parts[Job(d)] # 0, NEW x
  PROVE  /\ Reads(d, Job(d), x) \in {0, d.parts[Job(d)]}
         /\ x \in RowsOf(d.parts[Job(d)]) => Reads(d, Job(d), x) = d.parts[Job(d)]
<1>1. View(d)[Job(d)] = d.parts[Job(d)]
  BY DEF View, ApplyParts
<1>2. PICK r : r = d.parts[Job(d)]
  OBVIOUS
<1>3. Reads(d, Job(d), x) = IF [run |-> r, row |-> x] \in rows THEN r ELSE 0
  BY <1>1, <1>2 DEF Reads
<1>4. x \in RowsOf(r) => [run |-> r, row |-> x] \in rows
  <2> SUFFICES ASSUME x \in RowsOf(r) PROVE [run |-> r, row |-> x] \in rows
    OBVIOUS
  <2>1. PICK y \in rows : y.run = r /\ y.row = x
    BY RowsOfDef
  <2>2. y = [run |-> y.run, row |-> y.row]
    BY DEF StoreTypeOK
  <2> QED BY <2>1, <2>2
<1> QED BY <1>2, <1>3, <1>4

LEMMA FailForecastPairs ==
  ASSUME NEW p, Stepping(p), [CommandsNext]_commandVars, NEW d, d = cmd[p],
         d.pc \in ForecastSteps, Become(p, FailForecast(d))
  PROVE  ForecastDraft(cmd[p])'
<1> USE DEF Stepping, OwnershipInv
<1>1. /\ d \in Draft /\ d.name # "forecast" /\ Working(p)
      /\ Job(d) \in Resource /\ ForecastOf[Job(d)] \in Part
      /\ \A q \in Resource \ {Job(d)} : Paired(d, q)
      /\ ForecastInProgress(d)
  BY ForecastStepFacts
<1>2. PICK f : f = ForecastOf[Job(d)]
  OBVIOUS
<1>3. PICK g : g = DropPart(d, f)
  OBVIOUS
<1>4. /\ g \in Draft /\ g.name = d.name
      /\ DOMAIN g.parts = DOMAIN d.parts \cup {f}
      /\ g.parts[f] = 0
      /\ \A x \in DOMAIN d.parts \ {f} : g.parts[x] = d.parts[x]
  BY <1>1, <1>2, <1>3, BoundsAssumption, PutPartType, PutPartParts DEF DropPart
<1>5. PICK e : e = NextJob(g)
  OBVIOUS
<1>6. Become(p, e) /\ e.parts = g.parts /\ e.pc \notin ForecastSteps \cup {"save"}
  BY <1>1, <1>2, <1>3, <1>4, <1>5, NextJobParts DEF FailForecast, ForecastSteps
<1>7. Paired(e, Job(d))'
  BY <1>1, <1>2, <1>4, <1>6, DroppedPair DEF ForecastInProgress
<1>8. \A q \in Resource \ {Job(d)} : SamePair(d, e, q)
  BY <1>1, <1>2, <1>4, <1>6, PartsAreDistinct DEF SamePair
<1>9. \A q \in Resource \ {Job(d)} : Paired(e, q)'
  BY <1>1, <1>8, PairStays
<1> QED BY <1>6, <1>7, <1>9, SettledDraft

LEMMA ReadAreaPairs ==
  ASSUME NEW p, Stepping(p), [CommandsNext]_commandVars, ReadArea(p)
  PROVE  ForecastDraft(cmd[p])'
<1> USE DEF Stepping, OwnershipInv
<1>1. PICK d, e : d = cmd[p] /\ e = cmd'[p]
  OBVIOUS
<1>2. d.pc = "readArea" /\ d.pc \in ForecastSteps
  BY <1>1 DEF ReadArea, At, ForecastSteps
<1>3. /\ d \in Draft /\ d.name # "forecast" /\ Job(d) \in Part
      /\ ForecastInProgress(d)
  BY <1>1, <1>2, ForecastStepFacts
<1>4. PICK area : area = Reads(d, Job(d), ResultRow)
  OBVIOUS
<1>5. CASE area = 0
  <2>1. Become(p, FailForecast(d))
    BY <1>1, <1>3, <1>4, <1>5 DEF ReadArea
  <2> QED BY <1>1, <1>2, <2>1, FailForecastPairs
<1>6. CASE area # 0
  <2>1. area = d.parts[Job(d)]
    BY <1>3, <1>4, <1>6, ReadsOwnCompute DEF ForecastInProgress, CommandsInv, StoreInv
  <2>2. e = [d EXCEPT !.pc = "resolveCohorts", !.area = area]
    BY <1>1, <1>4, <1>6 DEF ReadArea, Become, CommandsInv, CommandsTypeOK
  <2>3. e.parts = d.parts /\ e.jobs = d.jobs /\ e.area = area /\ e.pc = "resolveCohorts"
    BY <1>3, <2>2 DEF Draft
  <2>4. ForecastInProgress(e)'
    BY <1>3, <2>1, <2>3 DEF ForecastInProgress, Job
  <2> QED BY <1>1, <1>2, <2>3, <2>4, ForecastGoesOn DEF ForecastSteps
<1> QED BY <1>5, <1>6

\* The compute's run, as long as it exists, holds its cohorts: that they
\* cannot be read means that the run is gone.
LEMMA ReadCohortsPairs ==
  ASSUME NEW p, Stepping(p), [CommandsNext]_commandVars, ReadCohorts(p)
  PROVE  ForecastDraft(cmd[p])'
<1> USE DEF Stepping, OwnershipInv
<1>1. PICK d, e : d = cmd[p] /\ e = cmd'[p]
  OBVIOUS
<1>2. d.pc = "readCohorts" /\ d.pc \in ForecastSteps
  BY <1>1 DEF ReadCohorts, At, ForecastSteps
<1>3. /\ d \in Draft /\ Job(d) \in Part /\ Job(d) \in Resource /\ Working(p)
      /\ ForecastInProgress(d) /\ d.area = d.parts[Job(d)]
  BY <1>1, <1>2, ForecastStepFacts DEF ForecastInProgress
<1>4. PICK cohorts : cohorts = Reads(d, Job(d), CohortRow)
  OBVIOUS
<1>5. e = [d EXCEPT !.pc = "createForecast", !.cohorts = cohorts]
  BY <1>1, <1>4 DEF ReadCohorts, Become, CommandsInv, CommandsTypeOK
<1>6. /\ e.parts = d.parts /\ e.jobs = d.jobs /\ e.area = d.area
      /\ e.cohorts = cohorts /\ e.pc = "createForecast"
  BY <1>3, <1>5 DEF Draft
<1>7. cohorts = d.area \/ d.area \notin DOMAIN runs
  <2>1. CASE CohortRow \in RowsOf(d.parts[Job(d)])
    BY <1>3, <1>4, <2>1, ReadsOwnCompute DEF ForecastInProgress, CommandsInv, StoreInv
  <2>2. CASE CohortRow \notin RowsOf(d.parts[Job(d)])
    <3>1. PartsFull(d)
      BY <1>1, <1>3 DEF PartsInv, DraftFull, Working
    <3>2. Full(Job(d), RowsOf(d.parts[Job(d)])) => CohortRow \in RowsOf(d.parts[Job(d)])
      BY <1>3, RowsDiffer DEF Full
    <3> QED BY <1>3, <2>2, <3>1, <3>2 DEF PartsFull, ForecastInProgress
  <2> QED BY <2>1, <2>2
<1>8. ForecastInProgress(e)'
  <2>1. runs' = runs
    BY DEF ReadCohorts, storeVars
  <2> QED BY <1>3, <1>6, <1>7, <2>1 DEF ForecastInProgress, Job
<1> QED BY <1>1, <1>2, <1>6, <1>8, ForecastGoesOn DEF ForecastSteps

LEMMA NewForecastRunPairs ==
  ASSUME NEW p, Stepping(p), [CommandsNext]_commandVars, NewForecastRun(p)
  PROVE  ForecastDraft(cmd[p])'
<1> USE DEF Stepping, OwnershipInv
<1>1. PICK d, e : d = cmd[p] /\ e = cmd'[p]
  OBVIOUS
<1>2. d.pc = "createForecast" /\ d.pc \in ForecastSteps
  BY <1>1 DEF NewForecastRun, At, ForecastSteps
<1>3. /\ d \in Draft /\ ForecastInProgress(d) /\ Range(d.parts) \subseteq 0..runSeq
      /\ d.area \in 0..runSeq
  BY <1>1, <1>2, ForecastStepFacts DEF ForecastInProgress
<1>4. PICK r : r = runSeq'
  OBVIOUS
<1>5. /\ runSeq \in Nat /\ r = runSeq + 1 /\ DOMAIN runs' = DOMAIN runs \cup {r}
      /\ rows' = rows /\ r \notin DOMAIN runs
  BY <1>4, BoundsAssumption
     DEF NewForecastRun, CreateRun, CommandsInv, CommandsTypeOK, StoreTypeOK
<1>6. e = [d EXCEPT !.pc = "saveForecast", !.run = r, !.created = d.created \cup {r}]
  BY <1>1, <1>4 DEF NewForecastRun, Become, CommandsInv, CommandsTypeOK
<1>7. /\ e.parts = d.parts /\ e.jobs = d.jobs /\ e.area = d.area /\ e.cohorts = d.cohorts
      /\ e.run = r /\ e.pc = "saveForecast"
  BY <1>3, <1>6 DEF Draft
<1>8. RowsOf(r)' = {}
  BY <1>5 DEF RowsOf, CommandsInv, StoreInv, RowsHaveRuns
<1>9. e.run \notin Range(e.parts)
  BY <1>3, <1>5, <1>7
<1>10. d.area \notin DOMAIN runs => d.area \notin DOMAIN runs'
  BY <1>3, <1>5
<1>11. ForecastInProgress(e)'
  BY <1>2, <1>3, <1>7, <1>8, <1>10 DEF ForecastInProgress, Job
<1> QED BY <1>1, <1>2, <1>7, <1>9, <1>11, ForecastGoesOn DEF ForecastSteps

LEMMA SaveForecastPairs ==
  ASSUME NEW p, Stepping(p), [CommandsNext]_commandVars, SaveForecast(p)
  PROVE  ForecastDraft(cmd[p])'
<1> USE DEF Stepping, OwnershipInv
<1>1. PICK d : d = cmd[p]
  OBVIOUS
<1>2. d.pc = "saveForecast" /\ d.pc \in ForecastSteps
  BY <1>1 DEF SaveForecast, At, ForecastSteps
<1>3. /\ d \in Draft /\ d.name # "forecast" /\ Working(p)
      /\ Job(d) \in Resource /\ ForecastOf[Job(d)] \in Part
      /\ d.parts[Job(d)] \in 0..runSeq
      /\ \A q \in Resource \ {Job(d)} : Paired(d, q)
      /\ ForecastInProgress(d)
  BY <1>1, <1>2, ForecastStepFacts
<1>4. d.area = d.parts[Job(d)] /\ d.run \in 0..MaxRuns
  BY <1>2, <1>3 DEF ForecastInProgress, Draft
<1>5. PICK f : f = ForecastOf[Job(d)]
  OBVIOUS
<1>6. PICK put : put = PutPart(d, f, d.run)
  OBVIOUS
<1>7. /\ put \in Draft /\ put.name = d.name
      /\ DOMAIN put.parts = DOMAIN d.parts \cup {f}
      /\ put.parts[f] = d.run
      /\ \A x \in DOMAIN d.parts \ {f} : put.parts[x] = d.parts[x]
  BY <1>3, <1>4, <1>5, <1>6, PutPartType, PutPartParts
<1>8. PICK e : e = NextJob([put EXCEPT !.produced = TRUE])
  OBVIOUS
<1>9. Become(p, e) /\ e.parts = put.parts /\ e.pc \notin ForecastSteps \cup {"save"}
  <2>1. Become(p, e)
    BY <1>1, <1>5, <1>6, <1>8 DEF SaveForecast
  <2>2. /\ [put EXCEPT !.produced = TRUE] \in Draft
        /\ [put EXCEPT !.produced = TRUE].parts = put.parts
        /\ [put EXCEPT !.produced = TRUE].name = put.name
    BY <1>7 DEF Draft
  <2> QED BY <1>3, <1>7, <1>8, <2>1, <2>2, NextJobParts DEF ForecastSteps
<1>10. Paired(e, Job(d))'
  <2>1. PICK a, r : a = d.parts[Job(d)] /\ r = d.run
    OBVIOUS
  <2>2. f # Job(d)
    BY <1>3, <1>5, PartsAreDistinct
  <2>3. /\ Job(d) \in DOMAIN e.parts /\ f \in DOMAIN e.parts
        /\ e.parts[Job(d)] = a /\ e.parts[f] = r /\ a # 0
    BY <1>3, <1>7, <1>9, <2>1, <2>2 DEF ForecastInProgress
  <2>4. ASSUME a \in DOMAIN runs'
        PROVE  RowsOf(r)' = {ForecastRow(a, a)}
    <3>1. a \in DOMAIN runs
      BY <1>3, <2>1, <2>4, RowsStay
    <3>2. d.cohorts = a /\ d.area = a
      BY <1>2, <1>3, <1>4, <2>1, <3>1 DEF ForecastInProgress
    <3>3. SaveRow(r, ForecastRow(a, a))
      BY <1>1, <2>1, <3>2 DEF SaveForecast
    <3>4. RowsOf(r) = {}
      BY <1>2, <1>3, <2>1 DEF ForecastInProgress
    <3> QED BY <3>3, <3>4, SavedRow
  <2> QED BY <1>5, <2>3, <2>4 DEF Paired, RowsOf
<1>11. \A q \in Resource \ {Job(d)} : SamePair(d, e, q)
  BY <1>3, <1>5, <1>7, <1>9, PartsAreDistinct DEF SamePair
<1>12. \A q \in Resource \ {Job(d)} : Paired(e, q)'
  BY <1>1, <1>3, <1>11, PairStays
<1> QED BY <1>9, <1>10, <1>12, SettledDraft

LEMMA FailurePairs ==
  ASSUME NEW p, Stepping(p), [CommandsNext]_commandVars,
         \/ CommitFails(p) \/ Discarded(p) \/ JobFails(p) \/ ForecastFails(p)
         \/ NewRunUnread(p) \/ Cancel(p) \/ Crash(p)
  PROVE  ForecastDraft(cmd[p])'
<1> USE DEF Stepping, OwnershipInv
<1>1. PICK d : d = cmd[p]
  OBVIOUS
<1>2. d \in Draft
  BY <1>1, DraftFacts
<1>3. ASSUME NEW e, Become(p, e), e.pc \in {"idle", "discard"}
      PROVE  ForecastDraft(cmd[p])'
  <2>1. cmd'[p] = e
    BY <1>3 DEF Become, CommandsInv, CommandsTypeOK
  <2> QED BY <1>3, <2>1 DEF ForecastDraft
<1>4. [d EXCEPT !.pc = "discard"].pc = "discard" /\ Idle.pc = "idle"
  BY <1>2 DEF Draft, Idle
<1>5. CASE CommitFails(p) \/ Cancel(p) \/ Discarded(p) \/ Crash(p)
  <2>1. Become(p, [d EXCEPT !.pc = "discard"]) \/ Become(p, Idle)
    BY <1>1, <1>5 DEF CommitFails, Cancel, Discarded, Crash
  <2> QED BY <1>3, <1>4, <2>1
<1>6. ASSUME d.pc \in {"load", "create", "save"}, Become(p, FailJob(d))
      PROVE  ForecastDraft(cmd[p])'
  <2>1. Working(p) /\ d.pc \notin ForecastSteps
    BY <1>1, <1>6 DEF Working, ForecastSteps
  <2>2. d.name # "forecast" /\ \A q \in Resource : Paired(d, q)
    BY <1>1, <1>6, <2>1, StepFacts DEF ForecastSteps
  <2>3. PICK e : e = FailJob(d)
    OBVIOUS
  <2>4. e.parts = d.parts /\ e.pc \notin ForecastSteps \cup {"save"}
    BY <1>2, <2>2, <2>3, FailJobParts
  <2>5. \A q \in Resource : Paired(e, q)'
    BY <1>1, <2>1, <2>2, <2>4, PairStays DEF SamePair
  <2> QED BY <1>6, <2>3, <2>4, <2>5, SettledDraft
<1>7. ASSUME d.pc \in ForecastSteps, Become(p, FailForecast(d))
      PROVE  ForecastDraft(cmd[p])'
  BY <1>1, <1>7, FailForecastPairs
<1>8. CASE JobFails(p)
  BY <1>1, <1>6, <1>8 DEF JobFails
<1>9. CASE ForecastFails(p)
  BY <1>1, <1>7, <1>9 DEF ForecastFails, ForecastSteps
<1>10. CASE NewRunUnread(p)
  <2>1. \/ d.pc = "create" /\ Become(p, FailJob(d))
        \/ d.pc = "createForecast" /\ Become(p, FailForecast(d))
        \/ Become(p, [d EXCEPT !.pc = "discard"])
    BY <1>1, <1>10 DEF NewRunUnread, At
  <2> QED BY <1>3, <1>4, <1>6, <1>7, <2>1 DEF ForecastSteps
<1> QED BY <1>5, <1>8, <1>9, <1>10

LEMMA EndPairs ==
  ASSUME NEW p, Stepping(p), [CommandsNext]_commandVars, Commit(p) \/ Discard(p)
  PROVE  ForecastDraft(cmd[p])'
<1> USE DEF Stepping, OwnershipInv
<1>1. cmd'[p].pc \in {"idle", "discard"}
  <2>1. CASE Commit(p)
    BY <2>1, CommitKind DEF Publishes
  <2>2. CASE Discard(p)
    <3> DEFINE r == CHOOSE q \in cmd[p].created : \A o \in cmd[p].created : q <= o
               rest == cmd[p].created \ {r}
               e == IF rest = {} THEN Idle
                    ELSE [cmd[p] EXCEPT !.created = rest, !.parts = Idle.parts]
    <3>1. Become(p, e)
      BY <2>2 DEF Discard
    <3>2. e.pc \in {"idle", "discard"}
      BY <2>2, DraftFacts DEF Draft, Idle, Discard, At
    <3> HIDE DEF e
    <3> QED BY <3>1, <3>2 DEF Become, CommandsInv, CommandsTypeOK
  <2> QED BY <2>1, <2>2
<1> QED BY <1>1 DEF ForecastDraft

\* The steps of others leave a draft's pairs alone.
LEMMA UnmovedPairs ==
  ASSUME NEW p, Stepping(p), [CommandsNext]_commandVars, cmd'[p] = cmd[p],
         ~(Save(p) \/ SaveForecast(p))
  PROVE  ForecastDraft(cmd[p])'
<1> USE DEF Stepping, OwnershipInv
<1>1. PICK d : d = cmd[p]
  OBVIOUS
<1>2. CASE d.pc \in {"idle", "discard"}
  BY <1>1, <1>2 DEF ForecastDraft
<1>3. CASE d.pc \notin {"idle", "discard"}
  <2>1. Working(p)
    BY <1>1, <1>3 DEF Working
  <2>2. \A q \in Resource : Paired(d, q)' \/ (d.pc \in ForecastSteps /\ q = Job(d))
    BY <1>1, <2>1, StepFacts, PairStays DEF SamePair
  <2>3. d.pc \in {"save", "saveForecast"} => d.run \notin Range(d.parts)
    BY <1>1 DEF ForecastDraft
  <2>4. ASSUME d.pc \in ForecastSteps PROVE ForecastInProgress(d)'
    <3>1. /\ ForecastInProgress(d) /\ d.parts[Job(d)] \in 0..runSeq
          /\ d.pc = "saveForecast" => d.run \in d.created
      BY <1>1, <2>4, ForecastStepFacts DEF Sound
    <3>2. d.parts[Job(d)] \notin DOMAIN runs => d.parts[Job(d)] \notin DOMAIN runs'
      BY <3>1, RowsStay
    <3>3. ASSUME d.pc = "saveForecast" PROVE RowsOf(d.run)' = {}
      <4>1. PICK r : r = d.run
        OBVIOUS
      <4>2. r \in d.created /\ RowsOf(r) = {}
        BY <3>1, <3>3, <4>1 DEF ForecastInProgress
      <4>3. CASE r \in DOMAIN runs'
        <5>1. RowsOf(r)' = RowsOf(r)
          BY <1>1, <4>2, <4>3, OwnRowsStay
        <5> QED BY <4>1, <4>2, <5>1 DEF RowsOf
      <4>4. CASE r \notin DOMAIN runs'
        <5>1. RowsHaveRuns'
          BY CommandsStep DEF CommandsInv, StoreInv
        <5> QED BY <4>1, <4>4, <5>1 DEF RowsHaveRuns, RowsOf
      <4> QED BY <4>3, <4>4
    <3> QED BY <3>1, <3>2, <3>3 DEF ForecastInProgress
  <2>5. ForecastDraft(d)'
    BY <2>2, <2>3, <2>4 DEF ForecastDraft
  <2> QED BY <1>1, <2>5, ForecastDraftOf
<1> QED BY <1>2, <1>3

LEMMA DraftsStayPaired ==
  ASSUME NEW p, Stepping(p), [CommandsNext]_commandVars
  PROVE  ForecastDraft(cmd[p])'
<1> USE DEF Stepping, OwnershipInv
<1>1. CASE Start(p) \/ Proceed(p) \/ Cancel(p) \/ Crash(p)
  BY <1>1, StartPairs, LoadPairs, NewRunPairs, SavePairs, ResolvePairs, ReadAreaPairs,
     ReadCohortsPairs, NewForecastRunPairs, SaveForecastPairs, FailurePairs, EndPairs
     DEF Proceed
<1>2. CASE ~(Start(p) \/ Proceed(p) \/ Cancel(p) \/ Crash(p))
  <2>1. ASSUME NEW q \in Proc, q # p, Start(q) \/ Proceed(q) \/ Cancel(q) \/ Crash(q)
        PROVE  cmd'[p] = cmd[p]
    BY <2>1, StartKind, LoadKind, NewRunKind, NewRunUnreadKind, SaveKind, SaveForecastKind, ReadKind,
       FailureKind, CommitKind, DiscardKind
       DEF Proceed, Quiet, Creates, Saves, Publishes, Drops, OnlyMoves
  <2>2. UNCHANGED cmd => cmd'[p] = cmd[p]
    OBVIOUS
  <2>3. cmd'[p] = cmd[p]
    BY <1>2, <2>1, <2>2
       DEF CommandsNext, RemoveSnapshot, CollectGarbage, TimePasses, commandVars
  <2> QED BY <1>2, <2>3, UnmovedPairs DEF Proceed
<1> QED BY <1>1, <1>2

\* What a snapshot has to say of a resource.
Matches(parts, q) ==
  parts[ForecastOf[q]] # 0 =>
    /\ parts[q] # 0
    /\ RowsOf(parts[ForecastOf[q]]) = {ForecastRow(parts[q], parts[q])}

\* A published manifest goes on matching for as long as it is published.
LEMMA ManifestStaysMatched ==
  ASSUME OwnershipInv, [CommandsNext]_commandVars, NEW q \in Resource,
         NEW s \in DOMAIN snapshots, Matches(snapshots[s].parts, q), NEW parts,
         \A x \in {q, ForecastOf[q]} :
           /\ parts[x] = snapshots[s].parts[x]
           /\ parts[x] # 0 => parts[x] \in Referenced'
  PROVE  Matches(parts, q)'
<1>1. PICK a, b : a = parts[q] /\ b = parts[ForecastOf[q]]
  OBVIOUS
<1>2. b # 0 => a # 0 /\ RowsOf(b) = {ForecastRow(a, a)}
  <2>1. a = snapshots[s].parts[q] /\ b = snapshots[s].parts[ForecastOf[q]]
    BY <1>1
  <2> QED BY <2>1 DEF Matches, RowsOf
<1>3. b # 0 => RowsOf(b)' = RowsOf(b)
  <2>1. b # 0 => b \in Referenced \cap Referenced'
    BY <1>1, PartsArePart DEF Referenced
  <2> QED BY <2>1, PublishedRowsStay
<1> QED BY <1>1, <1>2, <1>3 DEF Matches, RowsOf

LEMMA SnapshotsStayMatched ==
  ASSUME OwnershipInv, PartsInv, PairingInv, "forecast" \notin CommandNames,
         [CommandsNext]_commandVars
  PROVE  ForecastsMatchComputes'
<1> USE DEF OwnershipInv, CommandsInv
<1>1. ForecastsMatchComputes
        <=> \A s \in DOMAIN snapshots, q \in Resource : Matches(snapshots[s].parts, q)
  BY DEF ForecastsMatchComputes, Matches
<1>2. ForecastsMatchComputes'
        <=> \A s \in DOMAIN snapshots', q \in Resource : Matches(snapshots[s].parts, q)'
  BY DEF ForecastsMatchComputes, Matches
<1> SUFFICES ASSUME NEW s \in DOMAIN snapshots', NEW q \in Resource
             PROVE  Matches(snapshots[s].parts, q)'
  BY <1>2
<1>3. PICK parts, f : parts = snapshots'[s].parts /\ f = ForecastOf[q]
  OBVIOUS
<1> SUFFICES Matches(parts, q)'
  BY <1>3 DEF Matches, RowsOf
<1>4. q \in Part /\ f \in Part
  BY <1>3, PartsArePart
<1>5. \A x \in {q, f} : parts[x] # 0 => parts[x] \in Referenced'
  BY <1>3, <1>4 DEF Referenced
<1>6. ASSUME NEW t \in DOMAIN snapshots,
             \A x \in {q, f} : parts[x] = snapshots[t].parts[x]
      PROVE  Matches(parts, q)'
  <2>1. Matches(snapshots[t].parts, q)
    BY <1>1 DEF PairingInv
  <2> QED BY <1>3, <1>5, <1>6, <2>1, ManifestStaysMatched
<1>7. CASE Untouched
  BY <1>3, <1>6, <1>7 DEF Untouched
<1>8. CASE Gone
  BY <1>3, <1>6, <1>8 DEF Gone, Restrict
<1>9. CASE \E p \in Proc : Committed(p)
  <2>10. PICK p \in Proc : Committed(p)
    BY <1>9
  <2>1. PICK d \in Draft : d = cmd[p]
    BY DraftFacts
  <2>2. PICK base : base = SnapshotParts(d.city, NewestSnapshotID(d.city, d.hash))
    OBVIOUS
  <2>3. PICK manifest : manifest = ApplyParts(base, d.parts)
    OBVIOUS
  <2>4. InsertSnapshot(d.city, d.hash, manifest) /\ d.pc = "commit" /\ Working(p)
    BY <2>10, <2>1, <2>2, <2>3 DEF Committed, At, Working
  <2>5. /\ DOMAIN snapshots' = DOMAIN snapshots \cup {snapshotSeq'}
        /\ snapshots'[snapshotSeq'] = [city |-> d.city, hash |-> d.hash, parts |-> manifest]
        /\ \A t \in DOMAIN snapshots : snapshots'[t] = snapshots[t]
    BY <2>4, InsertedSnapshot
  <2>6. CASE s \in DOMAIN snapshots
    BY <1>3, <1>6, <2>5, <2>6
  <2>7. CASE s = snapshotSeq'
    <3>1. parts = manifest
      BY <1>3, <2>5, <2>7
    <3>2. \A x \in {q, f} : parts[x] = IF x \in DOMAIN d.parts THEN d.parts[x] ELSE base[x]
      BY <1>4, <2>3, <3>1 DEF ApplyParts
    <3>3. Stepping(p) /\ Paired(d, q)
      <4>1. Stepping(p)
        BY DEF Stepping, PairingInv
      <4> QED BY <2>1, <2>4, <4>1, StepFacts DEF ForecastSteps
    <3>4. CASE q \in DOMAIN d.parts
      <4>1. /\ f \in DOMAIN d.parts
            /\ parts[q] = d.parts[q] /\ parts[f] = d.parts[f]
        BY <1>3, <3>2, <3>3, <3>4 DEF Paired
      <4>2. Paired(d, q)'
        BY <2>1, <2>4, <3>3, PairStays DEF SamePair
      <4>3. \A x \in {q, f} : parts[x] # 0 => parts[x] \in DOMAIN runs'
        <5>1. ManifestsIntact'
          BY CommandsStep DEF StoreInv
        <5>2. \A x \in Part : snapshots'[s].parts[x] # 0 => snapshots'[s].parts[x] \in DOMAIN runs'
          BY <5>1, Zenon DEF ManifestsIntact
        <5> QED BY <1>3, <1>4, <5>2, Zenon
      <4>4. PICK a, b : a = parts[q] /\ b = parts[f]
        OBVIOUS
      <4>5. b # 0 => a # 0
        BY <1>3, <4>1, <4>2, <4>4 DEF Paired
      <4>6. b # 0 => {a, b} \subseteq DOMAIN runs'
        BY <4>3, <4>4, <4>5
      <4>7. b # 0 => RowsOf(b)' = {ForecastRow(a, a)}
        BY <1>3, <4>1, <4>2, <4>4, <4>6 DEF Paired, RowsOf
      <4> QED BY <1>3, <4>4, <4>5, <4>7 DEF Matches, RowsOf
    <3>5. CASE q \notin DOMAIN d.parts
      <4>1. \A x \in {q, f} : parts[x] = base[x]
        BY <1>3, <3>2, <3>3, <3>5 DEF Paired
      <4>2. CASE base = NoParts
        BY <1>3, <1>4, <4>1, <4>2 DEF Matches, NoParts
      <4>3. CASE \E t \in DOMAIN snapshots : base = snapshots[t].parts
        BY <1>6, <4>1, <4>3
      <4> QED BY <2>2, <4>2, <4>3 DEF SnapshotParts
    <3> QED BY <3>4, <3>5
  <2> QED BY <2>5, <2>6, <2>7
<1>10. Untouched \/ Gone \/ \E p \in Proc : Committed(p)
  BY SnapshotSteps
<1> QED BY <1>7, <1>8, <1>9, <1>10

LEMMA PairingStep ==
  ASSUME "forecast" \notin CommandNames
  PROVE  OwnershipInv /\ PartsInv /\ PairingInv /\ [CommandsNext]_commandVars => PairingInv'
<1> SUFFICES ASSUME OwnershipInv, PartsInv, PairingInv, [CommandsNext]_commandVars
             PROVE  PairingInv'
  OBVIOUS
<1>1. \A p \in Proc : Stepping(p)
  BY DEF Stepping, PairingInv
<1>2. \A p \in Proc : ForecastDraft(cmd[p])'
  BY <1>1, DraftsStayPaired
<1> QED BY <1>2, SnapshotsStayMatched DEF PairingInv

\* A snapshot never pairs a resource with a forecast of another compute, nor
\* holds a forecast of a resource it does not hold, as long as forecasts are
\* only made by the recompute that made their input (the standalone forecast
\* command breaks it: the run mixed_forecast).
THEOREM ForecastsAreOfTheirComputes ==
  ASSUME "forecast" \notin CommandNames
  PROVE  CommandsSpec => []ForecastsMatchComputes
<1>1. CommandsInit => PairingInv
  BY DEF CommandsInit, StoreInit, PairingInv, ForecastDraft, ForecastsMatchComputes, Idle
<1>2. OwnershipInv /\ PartsInv /\ PairingInv /\ [CommandsNext]_commandVars => PairingInv'
  BY PairingStep
<1>3. PairingInv => ForecastsMatchComputes
  BY DEF PairingInv
<1> QED BY <1>1, <1>2, <1>3, RunsHaveOneOwner, PartsAreFull, PTL DEF CommandsSpec

=============================================================================
