----------------------------- MODULE CachePrune -----------------------------
(***************************************************************************)
(* `pvmt cache prune` (internal/cache, Prune) running beside the requests  *)
(* of HttpCache, without a lock: a scan of the directory, then a pass over *)
(* the incomplete entries, one over leftover temporary files, one by age   *)
(* and one by size, each evicting an entry file by file.  Ctrl-C may come  *)
(* at any moment and any removal may fail; files may come and go between   *)
(* the scan and their removal.                                             *)
(*                                                                         *)
(* An entry is the set of its files as the scan saw them.  Files that do   *)
(* not follow the cache's naming scheme are never touched and left out.    *)
(***************************************************************************)
EXTENDS HttpCache, FiniteSetsExt

CONSTANTS FileSize,      \* kind of file -> its size
          AgeCap,        \* is there a --max-age?
          SizeCap,       \* --max-size, 0 for none
          MaxPrunes      \* bound: prunes ever run

ASSUME PruneAssumption ==
  /\ FileSize \in [Kind -> Nat]
  /\ AgeCap \in BOOLEAN
  /\ SizeCap \in Nat
  /\ MaxPrunes \in Nat

VARIABLES prune,         \* the prune in progress, or the last one's outcome
          prunes         \* prunes run so far

pruneVars == <<cacheVars, prune, prunes>>

\* How old the scan finds a file: within orphanGrace, up to --max-age, past it.
Young == 0
Aged  == 1
Old   == 2
Age   == Young..Old

Passes == {"incomplete", "temps", "age", "size"}

\* listing: names still to stat; seen: age of each file the scan found; queue:
\* entries the pass has still to look at; kept: complete entries it leaves to
\* the next one; left: bytes the size pass still counts; victim: files of the
\* entry being evicted still to remove; freed: bytes of it already reclaimed;
\* stuck: whether a removal failed.  took records which files the prune counts
\* as reclaimed: an observer, the code keeps sums only.
NoPrune == [pc |-> "idle", dry |-> FALSE, cancelled |-> FALSE, failed |-> FALSE,
            listing |-> {}, seen |-> [f \in {} |-> 0], queue |-> {}, kept |-> {},
            left |-> 0, entry |-> {}, victim |-> {}, freed |-> 0, stuck |-> FALSE,
            removed |-> 0, reclaimed |-> 0, remaining |-> 0, took |-> {}]

PruneInit ==
  /\ CacheInit
  /\ prune = NoPrune
  /\ prunes = 0

----------------------------------------------------------------------------
(* Entries                                                                 *)

Bytes(files) ==
  LET Of(kind) == FileSize[kind] * Cardinality({f \in files : f[2] = kind})
  IN  Of("body") + Of("meta") + Of("temp")

EntriesOf(seen) ==
  {{<<k, "body">>, <<k, "meta">>} \cap DOMAIN seen : k \in Key} \ {{}}

TempsOf(seen) == {{f} : f \in {g \in DOMAIN seen : g[2] = "temp"}}

Complete(e) == Cardinality(e) = 2

\* An entry is as old as the newer of its files.
EntryAge(seen, e) == Min({seen[f] : f \in e})

\* The queue's entries in the order of the age and size passes, oldest first.
Oldest(p) ==
  {e \in p.queue : \A o \in p.queue : EntryAge(p.seen, e) >= EntryAge(p.seen, o)}

----------------------------------------------------------------------------
(* The scan                                                                *)

Act(p) == prune' = p /\ UNCHANGED prunes

StartPrune ==
  /\ prune.pc \in {"idle", "done"}
  /\ prunes < MaxPrunes
  /\ prunes' = prunes + 1
  /\ \E dry \in BOOLEAN :
       prune' = [NoPrune EXCEPT !.pc = "scan", !.dry = dry, !.listing = DOMAIN disk]
  /\ UNCHANGED cacheVars

\* One name of the listing; a file that has gone since is skipped.  A scan
\* that is cancelled reports nothing at all.
Stat ==
  /\ prune.pc = "scan"
  /\ \E f \in prune.listing :
       IF prune.cancelled
         THEN Act([prune EXCEPT !.pc = "done", !.listing = {}, !.seen = NoPrune.seen])
         ELSE IF Exists(f)
           THEN \E age \in Age :
                  Act([prune EXCEPT !.listing = @ \ {f},
                                    !.seen = [g \in DOMAIN @ \cup {f} |->
                                                IF g = f THEN age ELSE @[g]]])
           ELSE Act([prune EXCEPT !.listing = @ \ {f}])
  /\ UNCHANGED cacheVars

EndScan ==
  /\ prune.pc = "scan"
  /\ prune.listing = {}
  /\ Act([prune EXCEPT !.pc = "incomplete", !.queue = EntriesOf(prune.seen)])
  /\ UNCHANGED cacheVars

----------------------------------------------------------------------------
(* Evicting an entry                                                       *)

Evict(p, e) == [p EXCEPT !.queue = @ \ {e}, !.entry = e, !.victim = e,
                         !.freed = 0, !.stuck = FALSE]

Evicting == prune.victim # {}

\* evict's bookkeeping, once every file of the entry has been tried.
Counted(p) ==
  [p EXCEPT !.entry = {},
            !.reclaimed = @ + p.freed,
            !.failed = @ \/ p.stuck,
            !.remaining = @ + (IF p.stuck THEN Bytes(p.entry) - p.freed ELSE 0),
            !.removed = @ + (IF p.stuck THEN 0 ELSE 1)]

\* The next file of the entry, body first (the order of the listing).  A file
\* that is already gone counts as reclaimed; one that cannot be removed does
\* not and the rest of the entry is tried all the same.
RemoveFile ==
  LET f       == CHOOSE g \in prune.victim :
                   g[2] = "body" \/ \A h \in prune.victim : h[2] # "body"
      settled == [prune EXCEPT !.victim = @ \ {f}]
      gone    == [settled EXCEPT !.freed = @ + FileSize[f[2]], !.took = @ \cup {f}]
      Next(p) == Act(IF p.victim = {} THEN Counted(p) ELSE p)
  IN  /\ Evicting
      /\ \/ /\ IF prune.dry THEN UNCHANGED disk ELSE Remove(f)
            /\ Next(gone)
         \/ /\ "error" \in CacheFailures /\ ~prune.dry /\ Exists(f)
            /\ UNCHANGED disk
            /\ Next([settled EXCEPT !.stuck = TRUE])
      /\ UNCHANGED <<server, client, requests>>

----------------------------------------------------------------------------
(* The passes                                                              *)

Keep(p, e) == [p EXCEPT !.queue = @ \ {e}, !.kept = @ \cup {e}]

\* sweepResidue: what is young may be another process's write in flight.
Residue(p, e) ==
  IF EntryAge(p.seen, e) = Young
    THEN [p EXCEPT !.queue = @ \ {e}, !.remaining = @ + Bytes(e)]
    ELSE Evict(p, e)

Ready(pass) == prune.pc = pass /\ ~Evicting

SweepIncomplete ==
  /\ Ready("incomplete")
  /\ IF prune.queue = {}
       THEN Act([prune EXCEPT !.pc = "temps", !.queue = TempsOf(prune.seen)])
       ELSE \E e \in prune.queue :
              Act(IF prune.cancelled \/ Complete(e) THEN Keep(prune, e)
                                                    ELSE Residue(prune, e))
  /\ UNCHANGED cacheVars

\* Fault: temporary files a cancelled prune did not reach go uncounted.
SweepTempsUncounted ==
  /\ Ready("temps")
  /\ IF prune.queue = {} \/ prune.cancelled
       THEN Act([prune EXCEPT !.pc = "age", !.queue = prune.kept, !.kept = {}])
       ELSE \E e \in prune.queue : Act(Residue(prune, e))
  /\ UNCHANGED cacheVars

SweepTemps ==
  /\ Ready("temps")
  /\ IF prune.queue = {} \/ prune.cancelled
       THEN Act([prune EXCEPT !.pc = "age", !.queue = prune.kept, !.kept = {},
                              !.remaining = @ + Bytes(UNION prune.queue)])
       ELSE \E e \in prune.queue : Act(Residue(prune, e))
  /\ UNCHANGED cacheVars

\* The size pass takes over everything the age pass kept or did not reach.
SweepByAge ==
  LET survivors == prune.kept \cup prune.queue
  IN  /\ Ready("age")
      /\ IF prune.queue = {} \/ prune.cancelled \/ ~AgeCap
           THEN Act([prune EXCEPT !.pc = "size", !.queue = survivors, !.kept = {},
                                  !.left = Bytes(UNION survivors)])
           ELSE \E e \in Oldest(prune) :
                  Act(IF EntryAge(prune.seen, e) < Old THEN Keep(prune, e)
                                                       ELSE Evict(prune, e))
      /\ UNCHANGED cacheVars

\* Fault: the size pass evicts in no particular order.
SweepBySizeInAnyOrder ==
  /\ Ready("size")
  /\ IF prune.queue = {} \/ SizeCap = 0 \/ prune.left <= SizeCap \/ prune.cancelled
       THEN Act([prune EXCEPT !.pc = "done", !.remaining = @ + prune.left])
       ELSE \E e \in prune.queue :
              Act(Evict([prune EXCEPT !.left = @ - Bytes(e)], e))
  /\ UNCHANGED cacheVars

SweepBySize ==
  /\ Ready("size")
  /\ IF prune.queue = {} \/ SizeCap = 0 \/ prune.left <= SizeCap \/ prune.cancelled
       THEN Act([prune EXCEPT !.pc = "done", !.remaining = @ + prune.left])
       ELSE \E e \in Oldest(prune) :
              Act(Evict([prune EXCEPT !.left = @ - Bytes(e)], e))
  /\ UNCHANGED cacheVars

\* Ctrl-C: noticed between two entries only.
CancelPrune ==
  /\ prune.pc \in {"scan"} \cup Passes
  /\ ~prune.cancelled
  /\ Act([prune EXCEPT !.cancelled = TRUE])
  /\ UNCHANGED cacheVars

PruneStep ==
  \/ StartPrune \/ Stat \/ EndScan \/ RemoveFile
  \/ SweepIncomplete \/ SweepTemps \/ SweepByAge \/ SweepBySize
  \/ CancelPrune

PruneNext ==
  \/ PruneStep
  \/ CacheNext /\ UNCHANGED <<prune, prunes>>

PruneSpec == PruneInit /\ [][PruneNext]_pruneVars

----------------------------------------------------------------------------
(* Properties                                                              *)

\* Whatever was cancelled, failed or vanished, the report adds up: reclaimed is
\* what the prune took, remaining is everything else the scan saw, and an entry
\* counts as removed only when all of it went (Prune: "entries it never reached
\* are credited to BytesRemaining, so the printed numbers stay honest"; evict).
ReportIsHonest ==
  prune.pc = "done" =>
    /\ prune.reclaimed = Bytes(prune.took)
    /\ prune.remaining = Bytes(DOMAIN prune.seen \ prune.took)
    /\ prune.removed = Cardinality({e \in EntriesOf(prune.seen) \cup TempsOf(prune.seen) :
                                      e \subseteq prune.took})

\* A prune that ran to its end without an error meets its caps on what the scan
\* saw, takes the oldest entries first and, by size, no more than it must.
PruneMeetsItsCaps ==
  LET whole   == {e \in EntriesOf(prune.seen) : Complete(e)}
      evicted == {e \in whole : e \subseteq prune.took}
      stayed  == whole \ evicted
      bySize  == {e \in evicted : AgeCap => EntryAge(prune.seen, e) < Old}
  IN  prune.pc = "done" /\ ~prune.cancelled /\ ~prune.failed =>
        /\ AgeCap => \A e \in stayed : EntryAge(prune.seen, e) < Old
        /\ SizeCap # 0 => Bytes(UNION stayed) <= SizeCap
        /\ \A e \in evicted, o \in stayed :
             EntryAge(prune.seen, e) >= EntryAge(prune.seen, o)
        /\ bySize # {} => \E e \in bySize : Bytes(e \cup UNION stayed) > SizeCap
=============================================================================
