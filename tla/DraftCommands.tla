--------------------------- MODULE DraftCommands ---------------------------
(***************************************************************************)
(* The commands that write snapshots, as processes over the result store:  *)
(* a resource's compute (with the forecast it reruns), the single-metric   *)
(* producers (combined pass, service coverage, census), the standalone     *)
(* forecast and `all compute`.  Each assembles a Draft (internal/db) and   *)
(* commits it as one snapshot, or discards the runs it created.  Beside    *)
(* them: gc, snapshot deletion, time passing, and a command being killed.  *)
(*                                                                         *)
(* One action is one database call with the local work around it; calls of *)
(* different processes interleave freely, as separate pvmt processes on    *)
(* one SQLite file do.                                                     *)
(***************************************************************************)
EXTENDS SnapshotStore, Sequences

CONSTANTS Proc,            \* command slots: at most |Proc| commands at once
          Resource,        \* pavement resources; each is a part
          ForecastOf,      \* resource -> the part its forecast fills
          ResourceJobs,    \* the resources, in the order they are computed
          MetricJobs,      \* the single-metric producers, in order
          Combined,        \* the one of them whose failure ends `all compute`
          CommandNames,    \* which commands the instance runs
          SlowCommands,    \* may a live command outlive OrphanRunGrace?
          Failures,        \* subset of {"error", "cancel", "crash"}
          MaxCommands      \* bound: commands ever started

Metric == Part \ (Resource \cup Range(ForecastOf))

ASSUME CommandsAssumption ==
  /\ Resource \subseteq Part
  /\ ForecastOf \in [Resource -> Part \ Resource]
  /\ \A q, r \in Resource : ForecastOf[q] = ForecastOf[r] => q = r
  /\ ResourceJobs \in Seq(Resource) \ {<<>>}
  /\ MetricJobs \in Seq(Metric)
  /\ CommandNames \subseteq {"compute", "metric", "forecast", "all"}
  /\ SlowCommands \in BOOLEAN
  /\ MaxCommands \in Nat

\* The result rows the model tells apart.  A forecast row remembers the run
\* whose area and the run whose cohorts it was simulated from (0: none).
ResultRow == <<"result", 0, 0>>
CohortRow == <<"cohorts", 0, 0>>
HexRow    == <<"hexes", 0, 0>>
MetricRow == <<"metric", 0, 0>>
ForecastRow(area, cohorts) == <<"forecast", area, cohorts>>

ASSUME RowAssumption ==
  /\ {ResultRow, CohortRow, HexRow, MetricRow} \subseteq Row
  /\ \A area, cohorts \in 0..MaxRuns : ForecastRow(area, cohorts) \in Row

\* What a resource compute saves, in order, each in a transaction of its own.
ComputeRows == <<ResultRow, CohortRow, HexRow>>

VARIABLES cmd,             \* process -> its command and draft
          started,         \* commands started so far
          abandoned        \* observer: runs no draft will discard any more (a
                           \* crash, a failed discard, a NewRun that failed late)

commandVars == <<storeVars, cmd, started, abandoned>>

Idle == [pc |-> "idle", name |-> "none", city |-> 0, hash |-> 0, jobs |-> <<>>,
         parts |-> [p \in {} |-> 0], created |-> {}, run |-> 0, unsaved |-> <<>>,
         snap |-> 0, area |-> 0, cohorts |-> 0, produced |-> FALSE]

CommandsInit ==
  /\ StoreInit
  /\ cmd = [p \in Proc |-> Idle]
  /\ started = 0
  /\ abandoned = {}

----------------------------------------------------------------------------
(* The draft                                                               *)

\* Draft.Put and Draft.Drop: one part of the change to commit.
PutPart(d, part, r) ==
  [d EXCEPT !.parts = [q \in DOMAIN d.parts \cup {part} |->
                         IF q = part THEN r ELSE d.parts[q]]]

DropPart(d, part) == PutPart(d, part, 0)

\* Runs created through the draft but never put.
UnusedRuns(d) == d.created \ Range(d.parts)

\* What the draft's Store() reads once it has resolved snapshot d.snap.
View(d) == ApplyParts(SnapshotParts(d.city, d.snap), d.parts)

\* The run of the view that holds the row x for the part, 0 when there is none.
Reads(d, part, x) ==
  LET r == View(d)[part]
  IN  IF r # 0 /\ [run |-> r, row |-> x] \in rows THEN r ELSE 0

----------------------------------------------------------------------------
(* Moving on.  These operators give a process's next local state.          *)

Job(d) == Head(d.jobs)

FirstStep(name) == IF name = "forecast" THEN "resolveArea" ELSE "load"

\* Nothing left to do: a standalone forecast that forecast nothing is an
\* empty result and commits nothing, everything else commits.
AfterJobs(d) ==
  IF d.name = "forecast" /\ ~d.produced THEN "discard" ELSE "commit"

NextJob(d) ==
  LET rest == Tail(d.jobs)
  IN  [d EXCEPT !.jobs = rest, !.run = 0, !.unsaved = <<>>,
                !.snap = 0, !.area = 0, !.cohorts = 0,
                !.pc = IF rest = <<>> THEN AfterJobs(d) ELSE FirstStep(d.name)]

\* Fault: a failed job is tried again.
RetryJob(d) == [d EXCEPT !.pc = "load"]

\* What is left is skipped, and what has been put is committed.
SkipJobs(d) == [NextJob(d) EXCEPT !.jobs = <<>>, !.pc = "commit"]

\* A failed job: `all compute` reports it and goes on with what it has, but
\* for a failed combined pass, behind which no metric is tried (computeSteps
\* returns).  A single command gives its whole draft up.
FailJob(d) ==
  CASE d.name # "all"    -> [d EXCEPT !.pc = "discard"]
    [] d.name = "all" /\ Job(d) = Combined -> SkipJobs(d)
    [] d.name = "all" /\ Job(d) # Combined -> NextJob(d)

\* A failed forecast step: after a recompute the forecast part is dropped
\* from the draft (rerunForecast); the standalone command fails.
FailForecast(d) ==
  IF d.name = "forecast"
    THEN [d EXCEPT !.pc = "discard"]
    ELSE NextJob(DropPart(d, ForecastOf[Job(d)]))

Become(p, d) ==
  /\ cmd' = [cmd EXCEPT ![p] = d]
  /\ UNCHANGED started

At(p, label) == cmd[p].pc = label

----------------------------------------------------------------------------
(* The commands                                                            *)

\* The jobs a command may be started with.
JobsOf(name) ==
  CASE name = "compute"  -> {<<r>> : r \in Resource}
    [] name = "metric"   -> {<<m>> : m \in Metric}
    [] name = "forecast" -> {ResourceJobs}
    [] name = "all"      -> {ResourceJobs \o MetricJobs}

Start(p) ==
  /\ At(p, "idle")
  /\ started < MaxCommands
  /\ started' = started + 1
  /\ \E name \in CommandNames, c \in City, h \in Hash :
       \E jobs \in JobsOf(name) :
         cmd' = [cmd EXCEPT ![p] =
                   [Idle EXCEPT !.pc = FirstStep(name), !.name = name,
                                !.city = c, !.hash = h, !.jobs = jobs]]
  /\ UNCHANGED <<storeVars, abandoned>>

\* Fault: a resource without features loses its part but keeps its forecast.
LoadKeepingForecast(p) ==
  LET d == cmd[p]
  IN  /\ At(p, "load")
      /\ \/ Become(p, [d EXCEPT !.pc = "create"])
         \/ Become(p, NextJob(DropPart(d, Job(d))))
      /\ UNCHANGED <<storeVars, abandoned>>

\* Load the features the job works from.  None at all drops the part, and a
\* resource's forecast with it; the drop is committed like any other change.
Load(p) ==
  LET d == cmd[p]
  IN  /\ At(p, "load")
      /\ \/ Become(p, [d EXCEPT !.pc = "create"])
         \/ Become(p, NextJob(IF Job(d) \in Resource
                                THEN DropPart(DropPart(d, Job(d)), ForecastOf[Job(d)])
                                ELSE DropPart(d, Job(d))))
      /\ UNCHANGED <<storeVars, abandoned>>

\* Fault: the run is put as soon as it exists, before its rows are saved.
NewRunPutEarly(p) ==
  LET d == cmd[p]
  IN  /\ At(p, "create")
      /\ CreateRun(d.city, Job(d), d.hash)
      /\ Become(p, [PutPart(d, Job(d), runSeq')
                      EXCEPT !.pc = "save", !.run = runSeq',
                             !.created = d.created \cup {runSeq'},
                             !.unsaved = IF Job(d) \in Resource
                                           THEN ComputeRows ELSE <<MetricRow>>])
      /\ UNCHANGED abandoned

\* Draft.NewRun for the job's part.
NewRun(p) ==
  LET d == cmd[p]
  IN  /\ At(p, "create")
      /\ CreateRun(d.city, Job(d), d.hash)
      /\ Become(p, [d EXCEPT !.pc = "save", !.run = runSeq',
                             !.created = d.created \cup {runSeq'},
                             !.unsaved = IF Job(d) \in Resource
                                           THEN ComputeRows ELSE <<MetricRow>>])
      /\ UNCHANGED abandoned

\* All rows are in: put the part, then rerun a resource's forecast.
Saved(d) ==
  LET put == PutPart(d, Job(d), d.run)
  IN  IF Job(d) \in Resource THEN [put EXCEPT !.pc = "resolveArea"] ELSE NextJob(put)

\* Save the next batch of rows under the run.
Save(p) ==
  LET d == cmd[p]
  IN  /\ At(p, "save")
      /\ \/ SaveRow(d.run, Head(d.unsaved))
         \/ Job(d) \in Metric /\ ReplaceRows(d.run, {MetricRow}, {})
      /\ Become(p, IF Len(d.unsaved) = 1
                     THEN Saved(d) ELSE [d EXCEPT !.unsaved = Tail(d.unsaved)])
      /\ UNCHANGED abandoned

\* ForecastResource reads the area, then the cohorts, each time resolving the
\* newest snapshot again; only then does it create and fill its run.
ResolveArea(p) ==
  LET d == cmd[p]
  IN  /\ At(p, "resolveArea")
      /\ Become(p, [d EXCEPT !.pc = "readArea",
                             !.snap = NewestSnapshotID(d.city, d.hash)])
      /\ UNCHANGED <<storeVars, abandoned>>

ReadArea(p) ==
  LET d    == cmd[p]
      area == Reads(d, Job(d), ResultRow)
  IN  /\ At(p, "readArea")
      /\ Become(p, IF area # 0 THEN [d EXCEPT !.pc = "resolveCohorts", !.area = area]
                   ELSE IF d.name = "forecast" THEN NextJob(d)
                   ELSE FailForecast(d))
      /\ UNCHANGED <<storeVars, abandoned>>

ResolveCohorts(p) ==
  LET d == cmd[p]
  IN  /\ At(p, "resolveCohorts")
      /\ Become(p, [d EXCEPT !.pc = "readCohorts",
                             !.snap = NewestSnapshotID(d.city, d.hash)])
      /\ UNCHANGED <<storeVars, abandoned>>

\* No cohorts is no error: the forecast falls back to one default cohort.
ReadCohorts(p) ==
  LET d == cmd[p]
  IN  /\ At(p, "readCohorts")
      /\ Become(p, [d EXCEPT !.pc = "createForecast",
                             !.cohorts = Reads(d, Job(d), CohortRow)])
      /\ UNCHANGED <<storeVars, abandoned>>

NewForecastRun(p) ==
  LET d == cmd[p]
  IN  /\ At(p, "createForecast")
      /\ CreateRun(d.city, ForecastOf[Job(d)], d.hash)
      /\ Become(p, [d EXCEPT !.pc = "saveForecast", !.run = runSeq',
                             !.created = d.created \cup {runSeq'}])
      /\ UNCHANGED abandoned

SaveForecast(p) ==
  LET d == cmd[p]
  IN  /\ At(p, "saveForecast")
      /\ SaveRow(d.run, ForecastRow(d.area, d.cohorts))
      /\ Become(p, NextJob([PutPart(d, ForecastOf[Job(d)], d.run)
                              EXCEPT !.produced = TRUE]))
      /\ UNCHANGED abandoned

\* Fault: a commit forgets the runs that were never put.
CommitKeepingUnused(p) ==
  LET d == cmd[p]
  IN  /\ At(p, "commit")
      /\ CommitSnapshot(d.city, d.hash, d.parts)
      /\ Become(p, Idle)
      /\ UNCHANGED abandoned

\* Draft.Commit.  Afterwards only the runs never put remain to be discarded.
Commit(p) ==
  LET d == cmd[p]
  IN  /\ At(p, "commit")
      /\ CommitSnapshot(d.city, d.hash, d.parts)
      /\ Become(p, IF UnusedRuns(d) = {} THEN Idle
                   ELSE [Idle EXCEPT !.pc = "discard", !.city = d.city,
                                     !.created = UnusedRuns(d)])
      /\ UNCHANGED abandoned

\* The commit failed or was refused (a swept run): discard everything.
CommitFails(p) ==
  LET d == cmd[p]
  IN  /\ At(p, "commit")
      /\ "error" \in Failures \/ ~CommitRunsOK(d.city, d.hash, d.parts)
      /\ Become(p, [d EXCEPT !.pc = "discard"])
      /\ UNCHANGED <<storeVars, abandoned>>

\* Draft.Discard: each created run in turn.  A run that cannot be deleted (a
\* database error, or it is referenced after all) is left to gc.
Discard(p) ==
  LET d == cmd[p]
      r == CHOOSE q \in d.created : \A o \in d.created : q <= o
      rest == d.created \ {r}
  IN  /\ At(p, "discard")
      /\ d.created # {}
      /\ \/ DiscardRun(d.city, r) /\ UNCHANGED abandoned
         \/ /\ "error" \in Failures \/ r \in Referenced
            /\ UNCHANGED storeVars
            /\ abandoned' = abandoned \cup {r}
      /\ Become(p, IF rest = {} THEN Idle
                   ELSE [d EXCEPT !.created = rest, !.parts = Idle.parts])

Discarded(p) ==
  /\ At(p, "discard")
  /\ cmd[p].created = {}
  /\ Become(p, Idle)
  /\ UNCHANGED <<storeVars, abandoned>>

----------------------------------------------------------------------------
(* Failures                                                                *)

Working(p) == cmd[p].pc \notin {"idle", "discard"}

\* A step of a job fails: any error, or its run was swept from under it.
JobFails(p) ==
  LET d == cmd[p]
  IN  /\ d.pc \in {"load", "create", "save"}
      /\ "error" \in Failures \/ (d.pc = "save" /\ d.run \notin DOMAIN runs)
      /\ Become(p, FailJob(d))
      /\ UNCHANGED <<storeVars, abandoned>>

ForecastFails(p) ==
  LET d == cmd[p]
  IN  /\ d.pc \in {"resolveArea", "readArea", "resolveCohorts", "readCohorts",
                   "createForecast", "saveForecast"}
      /\ "error" \in Failures \/ (d.pc = "saveForecast" /\ d.run \notin DOMAIN runs)
      /\ Become(p, FailForecast(d))
      /\ UNCHANGED <<storeVars, abandoned>>

\* Draft.NewRun fails behind its INSERT: the timestamp is read back in another
\* statement, and when that fails or is cancelled NewRun returns the error
\* without noting the id.  The row is there, and no discard will know of it.
NewRunUnread(p) ==
  LET d == cmd[p]
  IN  /\ \/ /\ At(p, "create")
            /\ CreateRun(d.city, Job(d), d.hash)
            /\ \/ "error" \in Failures /\ Become(p, FailJob(d))
               \/ "cancel" \in Failures /\ Become(p, [d EXCEPT !.pc = "discard"])
         \/ /\ At(p, "createForecast")
            /\ CreateRun(d.city, ForecastOf[Job(d)], d.hash)
            /\ \/ "error" \in Failures /\ Become(p, FailForecast(d))
               \/ "cancel" \in Failures /\ Become(p, [d EXCEPT !.pc = "discard"])
      /\ abandoned' = abandoned \cup {runSeq'}

\* Ctrl-C or a deadline: every command discards its whole draft, `all
\* compute` included; a commit on the cancelled context fails too.
Cancel(p) ==
  /\ "cancel" \in Failures
  /\ Working(p)
  /\ Become(p, [cmd[p] EXCEPT !.pc = "discard"])
  /\ UNCHANGED <<storeVars, abandoned>>

\* The process is killed: its draft is gone, its runs stay.
Crash(p) ==
  /\ "crash" \in Failures
  /\ ~At(p, "idle")
  /\ Become(p, Idle)
  /\ abandoned' = abandoned \cup cmd[p].created
  /\ UNCHANGED storeVars

----------------------------------------------------------------------------
(* Everyone else                                                           *)

RemoveSnapshot ==
  /\ \E c \in City, s \in DOMAIN snapshots : DeleteSnapshot(c, s)
  /\ UNCHANGED <<cmd, started, abandoned>>

CollectGarbage ==
  /\ \E c \in City : GCSweep(c)
  /\ UNCHANGED <<cmd, started, abandoned>>

LiveRuns == UNION {cmd[p].created : p \in Proc}

TimePasses ==
  /\ \E r \in DOMAIN runs \ expired :
       /\ r \notin LiveRuns \/ SlowCommands
       /\ Expire(r)
  /\ UNCHANGED <<cmd, started, abandoned>>

Proceed(p) ==
  \/ Load(p) \/ NewRun(p) \/ Save(p)
  \/ ResolveArea(p) \/ ReadArea(p) \/ ResolveCohorts(p) \/ ReadCohorts(p)
  \/ NewForecastRun(p) \/ SaveForecast(p)
  \/ Commit(p) \/ CommitFails(p) \/ Discard(p) \/ Discarded(p)
  \/ JobFails(p) \/ ForecastFails(p) \/ NewRunUnread(p)

CommandsNext ==
  \/ \E p \in Proc : Start(p) \/ Proceed(p) \/ Cancel(p) \/ Crash(p)
  \/ RemoveSnapshot
  \/ CollectGarbage
  \/ TimePasses

CommandsSpec == CommandsInit /\ [][CommandsNext]_commandVars

\* A running command is scheduled again and again; nothing else is owed.
FairCommandsSpec ==
  CommandsSpec /\ \A p \in Proc : WF_commandVars(Proceed(p))

----------------------------------------------------------------------------
(* Properties                                                              *)

Label == {"idle", "load", "create", "save", "resolveArea", "readArea",
          "resolveCohorts", "readCohorts", "createForecast", "saveForecast",
          "commit", "discard"}

\* A process's command and draft; 0 stands for an id not yet set.
Draft == [pc: Label, name: CommandNames \cup {"none"},
          city: City \cup {0}, hash: Hash \cup {0},
          jobs: Seq(Resource \cup Metric),
          parts: Change, created: SUBSET RunId, run: 0..MaxRuns,
          unsaved: Seq(Row), snap: 0..MaxSnapshots,
          area: 0..MaxRuns, cohorts: 0..MaxRuns, produced: BOOLEAN]

\* The store and every process's draft are well typed, and no draft knows a
\* run the store has not handed out.
CommandsTypeOK ==
  /\ StoreTypeOK
  /\ cmd \in [Proc -> Draft]
  /\ \A p \in Proc : cmd[p].created \subseteq 1..runSeq
  /\ started \in 0..MaxCommands
  /\ abandoned \subseteq 1..runSeq

\* A published part is never half saved: a compute's run holds all its rows
\* and a forecast's its forecast, whatever failed, was cancelled or was killed
\* between the saves (Put comes only after the last save).
PublishedPartsComplete ==
  \A s \in DOMAIN snapshots, r \in Resource :
    LET parts == snapshots[s].parts
    IN  /\ parts[r] # 0 => Range(ComputeRows) \subseteq RowsOf(parts[r])
        /\ parts[ForecastOf[r]] # 0 => RowsOf(parts[ForecastOf[r]]) # {}

\* A snapshot never pairs a resource with a forecast of another compute, nor
\* holds a forecast of a resource it does not hold (pkg/cmd/forecast's
\* Producer: "so a snapshot never pairs a resource with a forecast of an
\* older compute").
ForecastsMatchComputes ==
  \A s \in DOMAIN snapshots, r \in Resource :
    LET parts == snapshots[s].parts
    IN  parts[ForecastOf[r]] # 0 =>
          /\ parts[r] # 0
          /\ RowsOf(parts[ForecastOf[r]]) = {ForecastRow(parts[r], parts[r])}

\* A published forecast took its area and its cohorts from one compute
\* (architecture.md: "a command's draft reads the snapshot that was newest
\* when it ran").
ForecastsReadOneCompute ==
  \A s \in DOMAIN snapshots, r \in Resource, area, cohorts \in RunId :
    LET f == snapshots[s].parts[ForecastOf[r]]
    IN  f # 0 /\ ForecastRow(area, cohorts) \in RowsOf(f) => area = cohorts

\* "No snapshot is ever empty" (the contract of Store.CommitSnapshot).
NoSnapshotIsEmpty ==
  \A s \in DOMAIN snapshots : snapshots[s].parts # NoParts

\* Every stored run is published, or a live draft still owns it, or it was
\* lost in one of three ways: its command was killed, its delete failed, or its
\* NewRun failed behind the INSERT.  No other way out of a command leaves a run
\* behind: not a failed or refused commit, a failed job or forecast that `all
\* compute` goes on from, a run never put, nor a cancellation at any other step.
NoRunLeaks == DOMAIN runs \subseteq Referenced \cup LiveRuns \cup abandoned

\* "A cancelled or failed command discards its runs, and pvmt gc sweeps any
\* left behind by a crash" (architecture.md): without crashes, a run that no
\* snapshot names has its command still at work.
CommandsDiscardTheirRuns ==
  "crash" \notin Failures => DOMAIN runs \subseteq Referenced \cup LiveRuns

\* No other command, deletion or gc takes a run from under a live draft, as
\* long as commands finish within OrphanRunGrace.
LiveDraftsKeepTheirRuns ==
  ~SlowCommands =>
    \A p \in Proc : Working(p) => cmd[p].created \subseteq DOMAIN runs

\* A commit carries over, from the snapshot that was newest at that moment,
\* every part its own draft did not touch: two commands finishing in any
\* order lose neither's parts.
CommitsKeepOtherParts ==
  [][\A s \in DOMAIN snapshots' \ DOMAIN snapshots :
       LET new  == snapshots'[s]
           base == SnapshotParts(new.city, NewestSnapshotID(new.city, new.hash))
       IN  \E p \in Proc :
             /\ At(p, "commit")
             /\ \A part \in Part \ DOMAIN cmd[p].parts :
                  new.parts[part] = base[part]]_commandVars

\* Every command ends: no failure leaves one waiting or retrying for ever.
CommandsEnd == \A p \in Proc : ~At(p, "idle") ~> At(p, "idle")

\* The snapshots a reader can see, with the rows each of their parts holds.
Content(parts) ==
  [p \in Part |-> IF parts[p] = 0 THEN {} ELSE {RowsOf(parts[p])}]

PublishedView == INSTANCE PublishedSnapshots WITH
  published <- [s \in DOMAIN snapshots |->
                  [city |-> snapshots[s].city, hash |-> snapshots[s].hash,
                   content |-> Content(snapshots[s].parts)]],
  issued    <- snapshotSeq

\* All commands, gc and deletions together implement the abstract store.
PublishedSpec == PublishedView!PublishedSpec
=============================================================================
