------------------------------- MODULE Ingest -------------------------------
(***************************************************************************)
(* `pvmt <resource> ingest` for one city (pkg/cmd/ingest, runIngest) over  *)
(* the city's source data: its boundary and the features of each resource  *)
(* by source.  A run takes the stored boundary or fetches a fresh one,     *)
(* fetches from its sources, replaces the stored features, and, if the     *)
(* boundary was fresh, judges it by the share of roads it contains.        *)
(*                                                                         *)
(* One action is one database call, or the exchanges with the upstreams    *)
(* between two of them, which touch nothing another run can see.  Runs of  *)
(* different processes interleave between actions; the resources of `all   *)
(* ingest` are runs of one process that follow each other.  What a source  *)
(* sent is abstracted to its version, a boundary to whether it contains    *)
(* enough of the roads.                                                    *)
(***************************************************************************)
EXTENDS Naturals

CONSTANTS Proc,          \* slots: at most |Proc| runs at once
          Roads,         \* the resource that judges boundaries
          Pavement,      \* resources whose sources the configuration chooses
          SourcesOf,     \* resource -> sources it can be ingested from
          Version,       \* contents a source may answer with
          Failing,       \* whether calls fail and processes are killed
          MaxIngests     \* bound: runs ever started

Resource == DOMAIN SourcesOf
Source == UNION {SourcesOf[r] : r \in Resource}

ASSUME IngestAssumption ==
  /\ Roads \in Pavement /\ Pavement \subseteq Resource
  /\ Failing \in BOOLEAN
  /\ MaxIngests \in Nat

\* What the upstreams hold for the city: which shapes contain enough of its
\* roads (stripCoverageMinRatio).  Plain is what was fetched; stripped has the
\* water taken off; complement is plain without stripped.  The last two divide
\* the first between them; without water there is only the first.
Shape == {"plain", "stripped", "complement"}
Land == {w \in [Shape -> BOOLEAN] : w["stripped"] \/ w["complement"] => w["plain"]}
DryLand == {w \in Land : ~w["stripped"] /\ ~w["complement"]}

VARIABLES boundary,      \* the stored boundary
          features,      \* resource -> the stored rows
          ingest,        \* process -> its run
          ingests,       \* runs started so far
          unjudged       \* observer: a fresh boundary was saved, and its run
                         \* ended without a verdict on it

ingestVars == <<boundary, features, ingest, ingests, unjudged>>

NoBoundary == [shape |-> "none", land |-> FALSE]

\* A run: the sources it asks, those that answered, the rows they gave, and
\* what is known of a freshly fetched boundary (fresh, wet: water was found).
NoRun == [pc |-> "idle", resource |-> Roads, force |-> FALSE, sources |-> {},
          succeeded |-> {}, rows |-> {}, fresh |-> FALSE, wet |-> FALSE,
          land |-> [s \in Shape |-> FALSE]]

IngestInit ==
  /\ boundary = NoBoundary
  /\ features = [r \in Resource |-> {}]
  /\ ingest = [p \in Proc |-> NoRun]
  /\ ingests = 0
  /\ unjudged = FALSE

At(p, label) == ingest[p].pc = label

Become(p, run) == ingest' = [ingest EXCEPT ![p] = run] /\ UNCHANGED ingests

\* The run is over, without a verdict on the boundary it saved if it saved one.
GiveUp(p) ==
  /\ Become(p, NoRun)
  /\ unjudged' = (unjudged \/ ingest[p].fresh)

----------------------------------------------------------------------------
(* The boundary                                                            *)

\* Sources may be restricted by --source and by the configuration, never to
\* none (resolveSources and the configuration refuse that).
Start(p) ==
  /\ At(p, "idle")
  /\ ingests < MaxIngests
  /\ ingests' = ingests + 1
  /\ \E r \in Resource, force \in BOOLEAN : \E sources \in SUBSET SourcesOf[r] \ {{}} :
       ingest' = [ingest EXCEPT ![p] =
                    [NoRun EXCEPT !.pc = "getBoundary", !.resource = r,
                                  !.force = force, !.sources = sources]]
  /\ UNCHANGED <<boundary, features, unjudged>>

\* The stored boundary serves as a cache.
GetBoundary(p) ==
  /\ At(p, "getBoundary")
  /\ Become(p, [ingest[p] EXCEPT !.force = FALSE, !.pc =
                  IF boundary # NoBoundary /\ ~ingest[p].force
                    THEN "fetch" ELSE "fetchBoundary"])
  /\ UNCHANGED <<boundary, features, unjudged>>

\* Fetch the boundary and its water.  No water, or water that cannot be
\* subtracted, leaves it plain; a failed water fetch or a strip that leaves a
\* sliver fails the run (Stops).
FetchBoundary(p) ==
  /\ At(p, "fetchBoundary")
  /\ \E wet \in BOOLEAN : \E land \in (IF wet THEN Land ELSE DryLand) :
       Become(p, [ingest[p] EXCEPT !.pc = "saveBoundary", !.land = land, !.wet = wet])
  /\ UNCHANGED <<boundary, features, unjudged>>

\* The shape a run saved before judging it.
Saved(run) == IF run.wet THEN "stripped" ELSE "plain"

Store(run, shape) == boundary' = [shape |-> shape, land |-> run.land[shape]]

SaveBoundary(p) ==
  /\ At(p, "saveBoundary")
  /\ Store(ingest[p], Saved(ingest[p]))
  /\ Become(p, [ingest[p] EXCEPT !.pc = "fetch", !.fresh = TRUE])
  /\ UNCHANGED <<features, unjudged>>

----------------------------------------------------------------------------
(* The features                                                            *)

\* What sources that answered may have sent.
Rows(run, succeeded) ==
  {[source |-> s, version |-> v] : s \in succeeded, v \in Version}

\* Ask every source; each answers with rows, with nothing, or fails.  If all
\* fail, or nothing was found, the run ends and the store is left alone.
FetchFromSources(p) ==
  LET run == ingest[p]
  IN  /\ At(p, "fetch")
      /\ \E succeeded \in (IF Failing THEN SUBSET run.sources ELSE {run.sources}) :
         \E rows \in SUBSET Rows(run, succeeded) :
           /\ \A x, y \in rows : x.source = y.source => x = y
           /\ IF rows = {}
                THEN GiveUp(p)
                ELSE /\ Become(p, [run EXCEPT !.pc = "upsert", !.succeeded = succeeded,
                                              !.rows = rows])
                     /\ UNCHANGED unjudged
      /\ UNCHANGED <<boundary, features>>

\* Fault: the whole resource is replaced although a source was down.
ReplacedAll(run) == features[run.resource]

\* Fault: the sources that failed are cleared instead of those that answered.
ReplacedFailed(run) ==
  {x \in features[run.resource] : x.source \notin run.succeeded}

\* The rows an upsert deletes: the whole resource if every source answered,
\* only the sources that did if one was down.
Replaced(run) ==
  IF run.succeeded = run.sources
    THEN features[run.resource]
    ELSE {x \in features[run.resource] : x.source \in run.succeeded}

Upsert(p) ==
  LET run == ingest[p]
  IN  /\ At(p, "upsert")
      /\ features' = [features EXCEPT ![run.resource] = (@ \ Replaced(run)) \cup run.rows]
      /\ Become(p, IF run.fresh
                     THEN [run EXCEPT !.pc = "findRoads", !.sources = {},
                                      !.succeeded = {}, !.rows = {}]
                     ELSE NoRun)
      /\ UNCHANGED <<boundary, unjudged>>

----------------------------------------------------------------------------
(* The road-coverage gate                                                  *)

\* Judge by the roads just ingested, or by those of an earlier run; without
\* any there is no verdict.
FindRoads(p) ==
  /\ At(p, "findRoads")
  /\ IF ingest[p].resource = Roads \/ features[Roads] # {}
       THEN Become(p, [ingest[p] EXCEPT !.pc = "judge"]) /\ UNCHANGED unjudged
       ELSE GiveUp(p)
  /\ UNCHANGED <<boundary, features>>

\* Fault: the complement is stored without being judged itself.
JudgeTrustingComplement(p) ==
  LET run == ingest[p]
  IN  /\ At(p, "judge")
      /\ \/ run.land[Saved(run)] /\ Become(p, NoRun) /\ UNCHANGED <<boundary, unjudged>>
         \/ ~run.land[Saved(run)] /\ run.wet
            /\ Store(run, "complement") /\ Become(p, NoRun) /\ UNCHANGED unjudged
         \/ ~run.land[Saved(run)] /\ ~run.wet /\ GiveUp(p) /\ UNCHANGED boundary
      /\ UNCHANGED features

\* applyRoadCoverageGate: what was saved stands if it holds the roads; if not,
\* its complement replaces it, or else (also if the complement cannot be
\* computed) the plain boundary.  If none holds them the run fails, and what
\* was saved stays.
Judge(p) ==
  LET run == ingest[p]
      Holds(shape) == run.land[shape]
      Verdict == Become(p, NoRun) /\ UNCHANGED unjudged
  IN  /\ At(p, "judge")
      /\ \/ Holds(Saved(run)) /\ Verdict /\ UNCHANGED boundary
         \/ ~Holds(Saved(run)) /\ Holds("complement")
            /\ Store(run, "complement") /\ Verdict
         \/ ~Holds(Saved(run)) /\ Holds("plain") /\ (Holds("complement") => Failing)
            /\ Store(run, "plain") /\ Verdict
         \/ ~Holds("plain") /\ GiveUp(p) /\ UNCHANGED boundary
      /\ UNCHANGED features

----------------------------------------------------------------------------
(* Failures and everyone else                                              *)

\* Any call fails and the run reports it, or its process is killed: either way
\* what was stored stays.
Stops(p) ==
  /\ Failing
  /\ ~At(p, "idle")
  /\ GiveUp(p)
  /\ UNCHANGED <<boundary, features>>

\* gc deletes the pavement rows of sources the city no longer has.
SweepSources(keep) ==
  /\ keep # {}
  /\ features' = [r \in Resource |-> IF r \in Pavement
                                       THEN {x \in features[r] : x.source \in keep}
                                       ELSE features[r]]
  /\ UNCHANGED <<boundary, ingest, ingests, unjudged>>

IngestStep(p) ==
  \/ Start(p) \/ GetBoundary(p) \/ FetchBoundary(p) \/ SaveBoundary(p)
  \/ FetchFromSources(p) \/ Upsert(p) \/ FindRoads(p) \/ Judge(p) \/ Stops(p)

IngestNext ==
  \/ \E p \in Proc : IngestStep(p)
  \/ \E keep \in SUBSET UNION {SourcesOf[r] : r \in Pavement} : SweepSources(keep)

IngestSpec == IngestInit /\ [][IngestNext]_ingestVars

----------------------------------------------------------------------------
(* Properties                                                              *)

\* The rows a source has in a resource all come from one fetch: replacing them,
\* whole or by source, never leaves an older fetch's rows beside a newer one's
\* (deleteFeaturesForReplace, scoped by the same names the rows carry).
OneFetchPerSource ==
  \A r \in Resource : \A x, y \in features[r] : x.source = y.source => x = y

\* A source that was asked and did not answer keeps its rows, whoever else
\* ingests meanwhile (runIngest: "so the down source's previously-stored rows
\* are preserved rather than wiped").
SourcesDownKeepTheirRows ==
  [][\A p \in Proc : At(p, "upsert") /\ ~At(p, "upsert")' =>
       \A x \in features[ingest[p].resource] :
         x.source \in ingest[p].sources \ ingest[p].succeeded
           => x \in features'[ingest[p].resource]]_ingestVars

\* A stored boundary that misses the city's roads still has a run on the way
\* that will judge it, or a run has ended without judging its boundary: no
\* interleaving of verdicts and overwrites hides one.
InvertedBoundaryIsNotSilent ==
  boundary # NoBoundary /\ ~boundary.land =>
    unjudged \/ \E p \in Proc : ingest[p].fresh /\ ~ingest[p].land[Saved(ingest[p])]

\* A road ingest that ends well on the boundary it found stored leaves one that
\* holds the city's roads (resolveBoundary: "Silent inversions are caught
\* downstream by the road-coverage gate").
IngestedBoundaryHoldsRoads ==
  [][\A p \in Proc :
       At(p, "upsert") /\ ingest[p].resource = Roads /\ ~ingest[p].fresh
         /\ ingest'[p] = NoRun /\ features' # features
         => boundary.land]_ingestVars
=============================================================================
