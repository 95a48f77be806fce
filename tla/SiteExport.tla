----------------------------- MODULE SiteExport -----------------------------
(***************************************************************************)
(* `pvmt export` (internal/export) reading the published snapshots of its  *)
(* cities for minutes, file by file, while computes of other processes     *)
(* commit new snapshots and `pvmt snapshots rm` and `prune` delete some;   *)
(* then `pvmt check-site` judging the site it left, whole or partial.      *)
(*                                                                         *)
(* One action of the exporter is one data file: the reads it is built from *)
(* and its write, or a step that only lists or only writes.  A file is     *)
(* abstracted to the snapshot its numbers come from.  Any step may fail,   *)
(* which ends the run and leaves what it has written.                      *)
(***************************************************************************)
EXTENDS Integers, Sequences, FiniteSets

CONSTANTS SiteCities,     \* the cities of the configuration, in order
          Unbounded,      \* cities without an ingested boundary
          Current,        \* the configuration's hash
          OtherHash,      \* the hash of an earlier configuration
          Existing,       \* snapshots at the start: id -> [city, hash, parts]
          KeepCount,      \* prune --keep
          MaxCommits,     \* bound: snapshots committed meanwhile
          MaxRemovals,    \* bound: snapshots deleted by rm
          MaxExports      \* bound: runs of export

SiteCity == {SiteCities[i] : i \in 1..Len(SiteCities)}
SnapshotPart == {"roads", "coverage"}

ASSUME SiteAssumption ==
  /\ SiteCities \in Seq(SiteCity) /\ Len(SiteCities) > 1
  /\ Unbounded \subseteq SiteCity
  /\ Current # OtherHash
  /\ IsFiniteSet(DOMAIN Existing) /\ DOMAIN Existing \subseteq Nat \ {0}
  /\ KeepCount \in Nat /\ MaxCommits \in Nat /\ MaxRemovals \in Nat /\ MaxExports \in Nat

VARIABLES snaps,      \* snapshot id -> snapshot
          lastId,     \* the last id handed out
          site,       \* the output directory
          export,     \* the export in progress
          exports,    \* runs of export so far
          pruning,    \* the prune in progress
          removed,    \* snapshots rm has deleted
          check       \* the check-site in progress

siteVars == <<snaps, lastId, site, export, exports, pruning, removed, check>>

-----------------------------------------------------------------------------
\* Snapshots as a reader finds them.
SnapsOf(c) == {s \in DOMAIN snaps : snaps[s].city = c}
Ours(c) == {s \in SnapsOf(c) : snaps[s].hash = Current}
NewestOf(S) == CHOOSE s \in S : \A t \in S : t <= s
None == 0
Gone == -1      \* read from a snapshot that no longer exists: no rows

NewestId(S) == IF S = {} THEN None ELSE NewestOf(S)

\* Fault: each read resolves the newest snapshot anew.
NewestOnEveryRead(c, pin) == NewestId(Ours(c))

\* What a read of a city's store finds: the pinned snapshot, or without a pin
\* the newest of the current configuration at that moment.
ReadId(c, pin) ==
  CASE pin = None -> NewestId(Ours(c))
    [] pin \in DOMAIN snaps -> pin
    [] OTHER -> Gone
Has(id, part) == id \in DOMAIN snaps /\ part \in snaps[id].parts

-----------------------------------------------------------------------------
\* The site: marker files, per city the data files written (file -> snapshot
\* its numbers are from), and the pages.
DataFiles == {"boundary.geojson", "forecast.json", "forecast_seed.json",
              "hex-cost-summary.json", "hexgrid.geojson", "meta.json",
              "play-hexes.json", "scenarios.json"}
OptionalFiles == {"hex-metrics.json"}
NoFiles == [f \in {} |-> None]
EmptySite == [root |-> {}, data |-> [c \in {} |-> NoFiles]]
Entries(s) == s.root # {} \/ DOMAIN s.data # {}

\* SafeCleanDir empties a directory that is empty or marked as an export.
Managed(s) == {"index.html", ".pvmt-export"} \cap s.root # {}
Cleanable(s) == ~Entries(s) \/ Managed(s)

\* The data files of a city in the order exportCityData writes them, after
\* the check that the city has a snapshot to show.
Order == <<"info", "require", "meta", "boundary.geojson", "hexgrid.geojson",
           "play-hexes.json", "meta.json", "hex-metrics.json", "forecast.json",
           "hex-cost-summary.json", "scenarios.json", "forecast_seed.json">>

\* Whether the step writes its file: the grid and the metrics only with rows,
\* the cost summary and the scenarios only after a forecast.
Writes(f, id, written) ==
  CASE f = "hexgrid.geojson" -> Has(id, "roads")
    [] f = "hex-metrics.json" -> Has(id, "coverage")
    [] f = "forecast.json" -> Has(id, "roads")
    [] f \in {"hex-cost-summary.json", "scenarios.json"} -> "forecast.json" \in written
    [] OTHER -> TRUE

\* RequireMatchingSnapshot lists again: the newest of the configuration must
\* hold pavement.
Matches(c) == Ours(c) # {} /\ "roads" \in snaps[NewestOf(Ours(c))].parts

-----------------------------------------------------------------------------
NoExport == [pc |-> "idle", pins |-> [c \in {} |-> None], city |-> 0, step |-> 0,
             meta |-> None]
NoPruning == [pc |-> "idle", victims |-> {}, before |-> {}]
NoCheck == [pc |-> "idle", fails |-> 0, exit |-> "none"]

SiteInit ==
  /\ snaps = Existing
  /\ lastId = NewestId(DOMAIN Existing)
  /\ site = EmptySite
  /\ export = NoExport /\ exports = 0
  /\ pruning = NoPruning /\ removed = {}
  /\ check = NoCheck

Alone == UNCHANGED <<snaps, lastId, pruning, removed, check>>

\* runExport: without --clean it refuses an existing directory; with it the
\* old site goes, if it is one.
StartExport(clean) ==
  /\ export.pc = "idle" /\ exports < MaxExports /\ check.pc # "run"
  /\ (clean \/ ~Entries(site)) /\ Cleanable(site)
  /\ site' = EmptySite
  /\ export' = [NoExport EXCEPT !.pc = "pin", !.city = 1]
  /\ exports' = exports + 1
  /\ check' = NoCheck
  /\ UNCHANGED <<snaps, lastId, pruning, removed>>

\* PinCurrentSnapshot, city by city; then the marker and .nojekyll.
Pin ==
  /\ export.pc = "pin" /\ export.city <= Len(SiteCities)
  /\ LET c == SiteCities[export.city]
     IN export' = [export EXCEPT !.city = @ + 1,
                     !.pins = [d \in DOMAIN @ \cup {c} |->
                                 IF d = c THEN NewestId(Ours(c)) ELSE @[d]]]
  /\ UNCHANGED <<site, exports>> /\ Alone

Mark ==
  /\ export.pc = "pin" /\ export.city > Len(SiteCities)
  /\ site' = [site EXCEPT !.root = @ \cup {".pvmt-export", ".nojekyll"}]
  /\ export' = [export EXCEPT !.pc = "city", !.city = 1, !.step = 1]
  /\ UNCHANGED exports /\ Alone

\* One step of exportOneCity and exportCityData.
NextCity == [export EXCEPT !.city = @ + 1, !.step = 1, !.meta = None]
NextStep == IF export.step = Len(Order) THEN NextCity
                                        ELSE [export EXCEPT !.step = @ + 1]
Add(c, f, id) ==
  LET files == site.data[c]
  IN site' = [site EXCEPT !.data[c] = [g \in DOMAIN files \cup {f} |->
                                         IF g = f THEN id ELSE files[g]]]
Fail == /\ export' = [export EXCEPT !.pc = "idle"] /\ UNCHANGED <<site, exports>>

ExportCity ==
  /\ export.pc = "city" /\ export.city <= Len(SiteCities)
  /\ LET c == SiteCities[export.city]
         f == Order[export.step]
         id == ReadId(c, export.pins[c])
     IN CASE f = "info" ->
               /\ IF c \in Unbounded
                    THEN export' = NextCity /\ UNCHANGED site
                    ELSE /\ export' = NextStep
                         /\ site' = [site EXCEPT !.data = [d \in DOMAIN @ \cup {c} |->
                                       IF d = c THEN NoFiles ELSE @[d]]]
               /\ UNCHANGED exports
          [] f = "require" ->
               IF Matches(c) THEN export' = NextStep /\ UNCHANGED <<site, exports>>
                             ELSE Fail
          [] f = "meta" ->
               /\ export' = [NextStep EXCEPT !.meta = id]
               /\ UNCHANGED <<site, exports>>
          [] OTHER ->
               /\ export' = NextStep
               /\ IF Writes(f, id, DOMAIN site.data[c])
                    THEN Add(c, f, CASE f = "meta.json" -> export.meta
                                     [] f \in {"boundary.geojson", "play-hexes.json"} -> None
                                     [] OTHER -> id)
                    ELSE UNCHANGED site
               /\ UNCHANGED exports
  /\ Alone

\* The site root: cities.json and the assets, then, from the aggregates of all
\* cities, both pages; index.html is the first of the two.
RootOrder == <<"cities.json", "assets", "index.html", "play.html">>
FinishSite ==
  /\ export.pc = "city" /\ export.city > Len(SiteCities)
  /\ LET f == RootOrder[export.step]
     IN /\ ~(f = "index.html" /\ SiteCity \subseteq Unbounded)
        /\ site' = [site EXCEPT !.root = @ \cup {f}]
        /\ export' = IF export.step = Len(RootOrder)
                       THEN [export EXCEPT !.pc = "idle"] ELSE [export EXCEPT !.step = @ + 1]
  /\ UNCHANGED exports /\ Alone

\* A read or a write fails, the run is interrupted, or the process is killed.
BreakExport == export.pc # "idle" /\ Fail /\ Alone

-----------------------------------------------------------------------------
\* Other processes: a compute commits; rm deletes one snapshot.
CommandCommits(c, h, parts) ==
  /\ lastId < MaxCommits + Cardinality(DOMAIN Existing)
  /\ lastId' = lastId + 1
  /\ snaps' = [s \in DOMAIN snaps \cup {lastId'} |->
                 IF s = lastId' THEN [city |-> c, hash |-> h, parts |-> parts] ELSE snaps[s]]
  /\ UNCHANGED <<site, export, exports, pruning, removed, check>>

Without(S) == [s \in DOMAIN snaps \ S |-> snaps[s]]
Rm(s) ==
  /\ s \in DOMAIN snaps /\ Cardinality(removed) < MaxRemovals
  /\ snaps' = Without({s}) /\ removed' = removed \cup {s}
  /\ UNCHANGED <<lastId, site, export, exports, pruning, check>>

\* Fault: the list is read oldest first.
VictimsOldestKept(c) == {s \in SnapsOf(c) : Cardinality({t \in SnapsOf(c) : t < s}) >= KeepCount}

\* prune lists every city newest first and takes what is beyond Keep, waits
\* for a confirmation, then deletes what it listed, one at a time, city by city
\* and newest first.  A victim is its city's place in the list and its id.
VictimsOf(c) == {s \in SnapsOf(c) : Cardinality({t \in SnapsOf(c) : t > s}) >= KeepCount}
ListVictims ==
  /\ pruning.pc = "idle"
  /\ LET victims == {v \in (DOMAIN SiteCities) \X (DOMAIN snaps) :
                       v[2] \in VictimsOf(SiteCities[v[1]])}
     IN /\ victims # {}
        /\ pruning' = [pc |-> "delete", victims |-> victims, before |-> removed]
  /\ UNCHANGED <<snaps, lastId, site, export, exports, removed, check>>

NextVictim(victims) ==
  CHOOSE v \in victims : \A w \in victims : v[1] < w[1] \/ (v[1] = w[1] /\ v[2] >= w[2])
DeleteVictim ==
  /\ pruning.pc = "delete" /\ pruning.victims # {}
  /\ LET v == NextVictim(pruning.victims)
     IN /\ snaps' = Without({v[2]})
        /\ pruning' = [pruning EXCEPT !.victims = @ \ {v}]
  /\ UNCHANGED <<lastId, site, export, exports, removed, check>>

\* It is done, was declined, or a delete failed.
EndPrune ==
  /\ pruning.pc = "delete" /\ pruning' = [NoPruning EXCEPT !.pc = "done"]
  /\ UNCHANGED <<snaps, lastId, site, export, exports, removed, check>>

-----------------------------------------------------------------------------
\* check-site: each check adds its failures; an interrupt between two checks
\* ends with a failure whatever was found.
RootAssets == {"index.html", ".nojekyll", "assets"}
MissingFiles == {c \in DOMAIN site.data : ~(DataFiles \subseteq DOMAIN site.data[c])}
CheckStructure ==
  \/ ~(RootAssets \subseteq site.root)
  \/ DOMAIN site.data = {}
  \/ "cities.json" \notin site.root
  \/ MissingFiles # {}
CheckReferences == "index.html" \notin site.root \/ "assets" \notin site.root
CheckWasmFreshness == "assets" \notin site.root
CheckConstraints == ".nojekyll" \notin site.root
CheckReasonableness ==
  \E c \in DOMAIN site.data : ~({"meta.json", "forecast.json"} \subseteq DOMAIN site.data[c])
CheckConsistency == \E c \in DOMAIN site.data : "meta.json" \notin DOMAIN site.data[c]
\* Fault: the last check decides the exit code.
FailuresOfLast == IF CheckConsistency THEN 1 ELSE 0

FailedChecks ==
  Cardinality({f \in {<<1, CheckStructure>>, <<2, CheckReferences>>,
                      <<3, CheckWasmFreshness>>, <<4, CheckConstraints>>,
                      <<5, CheckReasonableness>>, <<6, CheckConsistency>>} : f[2]})

StartCheck ==
  /\ check.pc = "idle" /\ export.pc = "idle" /\ exports > 0
  /\ check' = [NoCheck EXCEPT !.pc = "run"]
  /\ UNCHANGED <<snaps, lastId, site, export, exports, pruning, removed>>

RunChecks ==
  /\ check.pc = "run"
  /\ \/ check' = [pc |-> "done", fails |-> FailedChecks, exit |-> IF FailedChecks = 0 THEN "ok" ELSE "failed"]
     \/ check' = [check EXCEPT !.pc = "done", !.exit = "interrupted"]
  /\ UNCHANGED <<snaps, lastId, site, export, exports, pruning, removed>>

ExportStep == Pin \/ Mark \/ ExportCity \/ FinishSite

SiteNext ==
  \/ \E clean \in BOOLEAN : StartExport(clean)
  \/ ExportStep \/ BreakExport
  \/ \E c \in SiteCity \ Unbounded, parts \in {SnapshotPart, {"coverage"}} : CommandCommits(c, Current, parts)
  \/ \E s \in DOMAIN snaps : Rm(s)
  \/ ListVictims \/ DeleteVictim \/ EndPrune
  \/ StartCheck \/ RunChecks

SiteSpec == SiteInit /\ [][SiteNext]_siteVars

-----------------------------------------------------------------------------
\* All numbers on a city's pages are of one snapshot, the pinned one, whatever
\* is committed meanwhile: a file of another snapshot exists only if the city
\* had none when the export pinned, and a file without numbers only if its
\* snapshot was deleted.
Shown(c) == {site.data[c][f] : f \in DOMAIN site.data[c]} \ {None, Gone}
PinnedExportShowsOneSnapshot ==
  export.pc = "city" =>
    \A c \in DOMAIN site.data :
      export.pins[c] # None => Shown(c) \subseteq {export.pins[c]}

\* The same with no exception, as export.go says of its pins.
ExportShowsOneSnapshot == \A c \in DOMAIN site.data : Cardinality(Shown(c)) <= 1

\* A prune deletes from the list it was shown, however old: still, what it
\* deletes is at that moment beyond the Keep newest snapshots of its city, not
\* counting those rm took meanwhile.
PruneSparesTheNewest ==
  [][pruning.pc = "delete" /\ pruning' # pruning =>
       \A s \in DOMAIN snaps \ DOMAIN snaps' :
         LET newer == {t \in SnapsOf(snaps[s].city) : t > s}
         IN Cardinality(newer) + Cardinality(removed \ pruning.before) >= KeepCount]_siteVars

\* What a site that passed the check can lack: of the files an export writes at
\* the root only play.html, which check-site does not ask for, so an export cut
\* short after index.html passes; of the cities none, and of their data files
\* none that every export writes.
RootFiles == {RootOrder[i] : i \in DOMAIN RootOrder}
CheckedSiteLacksOnlyPlay ==
  check.exit = "ok" =>
    /\ RootAssets \cup (RootFiles \ {"play.html"}) \subseteq site.root
    /\ DOMAIN site.data # {} /\ SiteCity \ Unbounded \subseteq DOMAIN site.data
    /\ \A c \in DOMAIN site.data : DataFiles \subseteq DOMAIN site.data[c]
=============================================================================
