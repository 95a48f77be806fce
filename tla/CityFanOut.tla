----------------------------- MODULE CityFanOut -----------------------------
(***************************************************************************)
(* One invocation of pvmt over several cities, from the choice of cities   *)
(* to the exit code: cmdutil.ForEachCity, the fan-outs of `all ingest` and *)
(* `all compute`, and the mapping of errors to exit codes (internal/       *)
(* pvmtcmd).                                                               *)
(*                                                                         *)
(* An error is the set of what errors.Is and errors.As would find in it:   *)
(* the sentinels below and failures named <<city, step>>.  {} is nil and   *)
(* errors.Join the union.  Whether a user learns of a failure depends on   *)
(* which member is matched first.                                          *)
(***************************************************************************)
EXTENDS Integers, Sequences, FiniteSets

CONSTANTS
    Invocations,    \* [command, cities, flag, confirm]: what may be run
    PavementJobs,   \* the pavement resources, in order
    Optional        \* the best-effort producers, in order

\* The steps have names of their own, and there is a pavement resource.
ASSUME FanAssumption ==
    /\ Invocations \subseteq
         [command : {"single", "all ingest", "all compute", "delete"},
          cities : Seq([slug : STRING, config : STRING]), flag : STRING,
          confirm : {"--yes", "yes", "no", "interrupted", "no terminal"}]
    /\ PavementJobs \in Seq(STRING) \ {<<>>} /\ Optional \in Seq(STRING)
    /\ \A i \in DOMAIN PavementJobs :
         PavementJobs[i] \notin {"grid", "combined", "pave", "delete", "commit"}
    /\ \A i \in DOMAIN Optional :
         /\ Optional[i] \notin {"grid", "combined", "pave", "delete", "commit"}
         /\ \A k \in DOMAIN PavementJobs : Optional[i] # PavementJobs[k]

VARIABLES
    ctx,       \* "live" or "cancelled" (SIGINT, SIGTERM)
    inv,       \* the invocation
    job,       \* where it is, and the errors so far
    wrote,     \* {<<city row, step>>}: what reached the database
    told,      \* failures the user was told of: warned about or printed
    befell     \* observer: {<<city index, step, outcome>>} of every step run

fanVars == <<ctx, inv, job, wrote, told, befell>>

-----------------------------------------------------------------------------
NoResults == <<0, "ErrNoResults">>
Declined  == <<0, "ErrCancel">>
Usage     == <<0, "FlagError">>
Cancelled == <<0, "context.Canceled">>

\* What a command runs for each city.  Ingest and compute of one resource,
\* services and census are "single"; a deletion asks first and is one step.
StepsOf(command) ==
    CASE command = "single"      -> <<"pave">>
      [] command = "all ingest"  -> PavementJobs \o Optional
      [] command = "all compute" -> <<"grid">> \o PavementJobs \o <<"combined">> \o Optional
      [] command = "delete"      -> <<"delete">>

InPavement(step) == \E i \in DOMAIN PavementJobs : PavementJobs[i] = step
InOptional(step) == \E i \in DOMAIN Optional : Optional[i] = step

\* ForEachCity's cities: the one the flag names, or all.  A flag that
\* matches none or several is refused.
ResolveCities(v) ==
    LET matches == {i \in DOMAIN v.cities : v.cities[i].slug = v.flag}
    IN IF v.flag = "" THEN v.cities
       ELSE IF \E i \in matches : matches = {i}
            THEN <<v.cities[CHOOSE i \in matches : TRUE]>> ELSE <<>>

\* Two cities of one invocation may share a slug when an [[include]] brought
\* one in: the row is the slug's within the config that declares it.
StoreKey(c) == <<c.slug, c.config>>

Fresh(steps) == [todo |-> steps, failed |-> {}, saw |-> FALSE, empty |-> FALSE,
                 draft |-> {}, err |-> {}, over |-> FALSE]

FanInit ==
    /\ ctx = "live"
    /\ inv \in Invocations
    /\ job = [phase |-> "resolve", i |-> 1, city |-> Fresh(<<>>), errs |-> {},
              sawResult |-> FALSE, skippedEmpty |-> FALSE, exit |-> -1]
    /\ wrote = {} /\ told = {} /\ befell = {}

Chosen == ResolveCities(inv)

\* ConfirmDestructive: --yes opens the gate, no terminal is a usage error,
\* and a no or an interrupt at the prompt declines.
ConfirmDestructive(answer) ==
    CASE answer \in {"--yes", "yes"}      -> {}
      [] answer = "no terminal"           -> {Usage}
      [] answer \in {"no", "interrupted"} -> {Declined}

\* exitCode: the first sentinel found decides.
ExitCode(err) ==
    CASE err = {} \/ Declined \in err -> 0
      [] Declined \notin err /\ Usage \in err -> 2
      [] err \cap {Declined, Usage} = {} /\ NoResults \in err -> 3
      [] OTHER -> 1

\* The error is printed for codes 1 and 2 only.
Exit(err) ==
    /\ job' = [job EXCEPT !.phase = "exited", !.exit = ExitCode(err)]
    /\ told' = IF ExitCode(err) \in {1, 2} THEN told \cup err ELSE told

Resolvable == Chosen # <<>>
Refusal == IF inv.command = "delete" THEN ConfirmDestructive(inv.confirm) ELSE {}

SelectCities ==
    /\ job.phase = "resolve"
    /\ \/ ~Resolvable /\ Exit({<<0, "resolve">>})
       \/ Resolvable /\ ctx = "cancelled" /\ Exit({Cancelled})
       \/ Resolvable /\ ctx = "live" /\ Refusal # {} /\ Exit(Refusal)
       \/ /\ Resolvable /\ ctx = "live" /\ Refusal = {}
          /\ job' = [job EXCEPT !.phase = "city", !.city = Fresh(StepsOf(inv.command))]
          /\ UNCHANGED told
    /\ UNCHANGED <<ctx, inv, wrote, befell>>

-----------------------------------------------------------------------------
(***************************************************************************)
(* One city.  A step ends "ok", "empty", "failed" or "cancelled", the last *)
(* when the context was cancelled before or while it ran.                  *)
(***************************************************************************)

\* forEachResource: empty only if every resource was, and none failed.
ResourceErr(c) == IF c.failed = {} /\ ~c.saw /\ c.empty THEN {NoResults} ELSE c.failed

\* A pavement step: an empty one is skipped, a failed one is warned about
\* and kept for the end, a cancelled one ends the city.
AfterPavement(c, outcome, fault) ==
    CASE outcome = "ok"        -> [c EXCEPT !.saw = TRUE]
      [] outcome = "empty"     -> [c EXCEPT !.empty = TRUE]
      [] outcome = "failed"    -> [c EXCEPT !.failed = @ \cup {fault}]
      [] outcome = "cancelled" -> [c EXCEPT !.over = TRUE, !.err = {Cancelled}]

\* The combined pass: its failure ends the city's steps, beside the failures
\* of the resources, and alone when they were merely empty.
AfterCombined(c, outcome, fault) ==
    IF outcome \in {"ok", "empty"} THEN c
    ELSE LET err == IF outcome = "cancelled" THEN {Cancelled} ELSE {fault}
         IN [c EXCEPT !.over = TRUE,
                      !.err = IF NoResults \in ResourceErr(c) THEN err ELSE ResourceErr(c) \cup err]

\* The best-effort producers never fail a run; a cancellation wins.
AfterOptional(c, outcome) ==
    IF outcome = "cancelled" THEN [c EXCEPT !.over = TRUE, !.err = {Cancelled}] ELSE c

\* Any other step is the city's whole work, or the grid every step needs.
AfterOnly(c, outcome, fault) ==
    CASE outcome = "ok"        -> c
      [] outcome = "empty"     -> [c EXCEPT !.over = TRUE, !.err = {NoResults}]
      [] outcome = "failed"    -> [c EXCEPT !.over = TRUE, !.err = {fault}]
      [] outcome = "cancelled" -> [c EXCEPT !.over = TRUE, !.err = {Cancelled}]

\* What the outcome of a step makes of the city.
AfterStep(c, step, outcome, fault) ==
    CASE InPavement(step)    -> AfterPavement(c, outcome, fault)
      [] step = "combined"   -> AfterCombined(c, outcome, fault)
      [] InOptional(step)    -> AfterOptional(c, outcome)
      [] OTHER               -> AfterOnly(c, outcome, fault)

RunStep(outcome) ==
    /\ job.phase = "city" /\ ~job.city.over /\ job.city.todo # <<>>
    /\ ctx = "cancelled" => outcome = "cancelled"
    /\ LET step == Head(job.city.todo)
           fault == <<job.i, step>>
           c == [job.city EXCEPT !.todo = Tail(@)]
           after == AfterStep(c, step, outcome, fault)
           work == IF outcome = "ok" THEN {<<StoreKey(Chosen[job.i]), step>>} ELSE {}
       IN /\ step \in {"grid", "delete"} => outcome # "empty"
          /\ befell' = befell \cup {<<job.i, step, outcome>>}
          /\ told' = IF outcome = "failed" /\ (InPavement(step) \/ InOptional(step))
                     THEN told \cup {fault} ELSE told
          /\ IF inv.command = "all compute"
             THEN job' = [job EXCEPT !.city = [after EXCEPT !.draft = @ \cup work]] /\ UNCHANGED wrote
             ELSE job' = [job EXCEPT !.city = after] /\ wrote' = wrote \cup work
    /\ ctx' = IF outcome = "cancelled" THEN "cancelled" ELSE ctx
    /\ UNCHANGED inv

\* What the city's steps returned.
StepsErr(c) == IF c.over THEN c.err ELSE ResourceErr(c)

\* Fault: the commit's failure is joined to a sentinel that says no results.
CommitFailedCarriesAll(stepsErr, commitErr) == stepsErr \cup commitErr

\* A failed commit is never an empty result: the sentinel is taken out.
CommitFailed(stepsErr, commitErr) == (stepsErr \ {NoResults}) \cup commitErr

\* computeCity commits what the steps produced, or discards it when they
\* were cancelled; the other commands have nothing to commit.
CityErr(c, committed) ==
    CASE inv.command # "all compute" \/ Cancelled \in StepsErr(c) -> StepsErr(c)
      [] inv.command = "all compute" /\ Cancelled \notin StepsErr(c) /\ committed -> StepsErr(c)
      [] OTHER -> CommitFailed(StepsErr(c), {<<job.i, "commit">>})

\* ForEachCity after its last city: empty only if no city produced anything.
FanErr(j) == IF j.errs = {} /\ ~j.sawResult /\ j.skippedEmpty THEN {NoResults} ELSE j.errs

\* The city is done.  A single city's error is the command's; otherwise it
\* is sorted into the totals and the next city begins, unless cancelled.
FinishCity(committed) ==
    /\ job.phase = "city" /\ (job.city.over \/ job.city.todo = <<>>)
    /\ (inv.command # "all compute" \/ Cancelled \in StepsErr(job.city) \/ ctx = "cancelled")
            => committed = (ctx = "live")
    /\ LET err == CityErr(job.city, committed)
           j == [job EXCEPT !.i = @ + 1,
                            !.sawResult = @ \/ err = {},
                            !.skippedEmpty = @ \/ NoResults \in err,
                            !.errs = IF NoResults \in err THEN @ ELSE @ \cup err]
           k == IF ctx = "cancelled" /\ j.i <= Len(Chosen) THEN [j EXCEPT !.errs = @ \cup {Cancelled}] ELSE j
           failed == inv.command = "all compute" /\ Cancelled \notin StepsErr(job.city) /\ ~committed
       IN /\ befell' = IF failed THEN befell \cup {<<job.i, "commit", "failed">>} ELSE befell
          /\ wrote' = IF inv.command = "all compute" /\ Cancelled \notin StepsErr(job.city) /\ committed
                      THEN wrote \cup job.city.draft ELSE wrote
          /\ CASE Len(Chosen) = 1 -> Exit(err)
               [] Len(Chosen) > 1 /\ (k.i > Len(Chosen) \/ ctx = "cancelled") -> Exit(FanErr(k))
               [] OTHER -> job' = [k EXCEPT !.city = Fresh(StepsOf(inv.command))] /\ UNCHANGED told
    /\ UNCHANGED <<ctx, inv>>

\* A signal cancels the context, between any two steps.
Interrupt ==
    /\ ctx = "live" /\ job.phase # "exited"
    /\ ctx' = "cancelled"
    /\ UNCHANGED <<inv, job, wrote, told, befell>>

FanNext ==
    \/ SelectCities \/ Interrupt
    \/ \E outcome \in {"ok", "empty", "failed", "cancelled"} : RunStep(outcome)
    \/ \E committed \in BOOLEAN : FinishCity(committed)

FanSpec == FanInit /\ [][FanNext]_fanVars

-----------------------------------------------------------------------------
\* What went wrong, outside the best-effort steps.
StepFailures == {<<e[1], e[2]>> : e \in {e \in befell : e[3] = "failed" /\ ~InOptional(e[2])}}
CutShort == \E e \in befell : e[3] = "cancelled"

\* The work of every city that the run says it did, in the city's own row.
Delivered(i) == \A e \in befell : e[1] = i /\ e[3] = "ok" => <<StoreKey(Chosen[i]), e[2]>> \in wrote
Barren(i) == \A e \in befell : e[1] = i /\ (InPavement(e[2]) \/ e[2] \in {"pave", "delete"}) => e[3] = "empty"

\* A script that chains pvmt commands can rely on the exit code.  0: nothing
\* failed, nothing was cut short, every city's work is in its own row and
\* not every city was empty, or the user declined and nothing was touched.
\* 3: nothing failed, and every city was empty.  Otherwise something failed,
\* was refused or was cut short, and the user was told of every failure.  No
\* mix of empty, failed, cancelled and best-effort steps and cities hides one
\* of them.   [ForEachCity, forEachResource, computeSteps, exitCode]
ExitCodeTellsTheTruth ==
    job.phase = "exited" =>
        CASE job.exit = 0 -> /\ StepFailures = {} /\ ~CutShort
                             /\ \/ inv.command = "delete" /\ inv.confirm \in {"no", "interrupted"} /\ wrote = {}
                                \/ /\ \A i \in DOMAIN Chosen : Delivered(i) /\ \E e \in befell : e[1] = i
                                   /\ \E i \in DOMAIN Chosen : ~Barren(i)
          [] job.exit = 3 -> /\ StepFailures = {} /\ ~CutShort
                             /\ \A i \in DOMAIN Chosen : Barren(i)
          [] OTHER        -> StepFailures \subseteq told /\ (StepFailures # {} \/ told # {})

=============================================================================
