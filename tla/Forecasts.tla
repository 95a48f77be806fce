----------------------------- MODULE Forecasts -----------------------------
(***************************************************************************)
(* The forecast of a network (internal/forecast): every year each cohort   *)
(* of pavement decays, needs a treatment whose price rises as its          *)
(* condition falls, gets a share of the year's money in proportion to its  *)
(* need, and recovers by what it got; what was not funded is deferred.     *)
(* The break-even budget is found by bisection over whole simulations.     *)
(*                                                                         *)
(* A condition (PCI) is an integer of 0..100, rounded down; a decay keeps  *)
(* so many hundredths of it.  Money is counted in the unit that makes a    *)
(* year's need, area times growth times price over the cycle, whole; the   *)
(* share of a cohort is a fraction, counted in parts of the year's total.  *)
(***************************************************************************)
EXTENDS Integers, Sequences, FiniteSets, FiniteSetsExt, SequencesExt

CONSTANTS Networks,   \* [all, city, tiers, growth, cycle], see below
          Budgets,    \* the annual budgets of scenarios that state one
          Years       \* the horizon

ASSUME ForecastAssumption == Years \in Nat \ {0} /\ Budgets \subseteq Nat

\* What the configuration and the cohorts of a snapshot let a network be.
Pavement == [class : STRING, area : Nat, keep : 0..100, pci : 0..100]
ASSUME NetworkAssumption ==
  \A net \in Networks :
    /\ net.all \in Seq(Pavement) /\ net.city \in Seq(Pavement)
    /\ net.tiers \in Seq([min : Nat, max : Nat, cost : Nat, label : STRING])
    /\ net.growth \in Int /\ net.cycle \in Nat \ {0}

VARIABLES network,    \* the network, fixed
          scenario,   \* [strategy, budget, full], fixed
          run,        \* the years simulated of it
          search      \* the bisection for the break-even budget

forecastVars == <<network, scenario, run, search>>

-----------------------------------------------------------------------------
\* The price: linear between the middles of the tiers [min, max, cost, label].
\* A middle is counted in halves.
Anchor(tier) == [pci |-> tier.min + (IF tier.max > 100 THEN 100 ELSE tier.max),
                 cost |-> tier.cost]
\* A stable sort: higher middles first, equal ones in the order of the tiers.
Precedes(tiers, j, i) ==
  \/ Anchor(tiers[j]).pci > Anchor(tiers[i]).pci
  \/ Anchor(tiers[j]).pci = Anchor(tiers[i]).pci /\ j < i
BuildAnchors(tiers) ==
  [k \in DOMAIN tiers |->
     Anchor(tiers[CHOOSE i \in DOMAIN tiers :
                    Cardinality({j \in DOMAIN tiers : Precedes(tiers, j, i)}) = k - 1])]
Between(hi, lo, pci) ==
  IF hi.pci = lo.pci THEN hi.cost
  ELSE hi.cost + ((hi.pci - 2 * pci) * (lo.cost - hi.cost)) \div (hi.pci - lo.pci)
InterpolateCost(anchors, pci) ==
  LET n == Len(anchors)
      bracket == CHOOSE i \in 1..n - 1 : anchors[i].pci >= 2 * pci /\ 2 * pci >= anchors[i + 1].pci
                   /\ \A k \in 1..i - 1 : ~(anchors[k].pci >= 2 * pci /\ 2 * pci >= anchors[k + 1].pci)
  IN CASE n = 0 -> 0
       [] n > 0 /\ 2 * pci >= anchors[1].pci -> anchors[1].cost
       [] n > 0 /\ 2 * pci < anchors[1].pci /\ 2 * pci <= anchors[n].pci -> anchors[n].cost
       [] OTHER -> Between(anchors[bracket], anchors[bracket + 1], pci)
\* Costs that rise as the middles fall, as those of the default tiers do.
CostsRise(tiers) ==
  \A i, k \in DOMAIN tiers :
    Anchor(tiers[k]).pci <= Anchor(tiers[i]).pci => tiers[i].cost <= tiers[k].cost
ProjectCost(tiers, area, pci) == area * InterpolateCost(BuildAnchors(tiers), pci)

\* A condition in a gap between tiers has the nearest tier's label.
Distance(tier, pci) ==
  IF pci < tier.min THEN tier.min - pci ELSE IF pci >= tier.max THEN pci - tier.max ELSE 0
InTier(tier, pci) == tier.min <= pci /\ pci < tier.max
FirstWhere(tiers, test(_)) == SelectInSeq(tiers, test)
TierForPCI(tiers, pci) ==
  LET i == FirstWhere(tiers, LAMBDA t : InTier(t, pci))
      nearest == FirstWhere(tiers, LAMBDA t : \A k \in DOMAIN tiers :
                                      Distance(t, pci) <= Distance(tiers[k], pci))
  IN tiers[IF i > 0 THEN i ELSE nearest].label

\* A stated mean stands for a spread of conditions about it: two bands of half
\* the cohort's area, in an area counted in halves, unless the mean is at an
\* end of the scale.
Spread(cohort) ==
  LET d == Min({cohort.pci, 100 - cohort.pci}) \div 2
  IN IF cohort.pci \in {0, 100} THEN <<cohort, cohort>>
     ELSE <<[cohort EXCEPT !.pci = @ + d], [cohort EXCEPT !.pci = @ - d]>>
ApplyConditionSpread(cohorts) == FlattenSeq([j \in DOMAIN cohorts |-> Spread(cohorts[j])])
\* What a city budget covers, if any of it is known, else all of the network.
PrimaryCohorts(city, all) == ApplyConditionSpread(IF city = <<>> THEN all ELSE city)
Basis(net) ==
  [cohorts |-> PrimaryCohorts(net.city, net.all),
   tiers |-> net.tiers, growth |-> net.growth, cycle |-> net.cycle]
Bases == {Basis(net) : net \in Networks}

DecayOneStep(cohort, pci) == (pci * cohort.keep) \div 100
\* The growth is linear, in tenths of the first area, and never below none.
EstimateGrowth(growth, year) == Max({0, 10 + growth * year})

-----------------------------------------------------------------------------
\* One year.  A share and what is spent of it are in parts of total.
Need(net, year, decayed) ==
  [j \in DOMAIN net.cohorts |->
     ProjectCost(net.tiers, net.cohorts[j].area * EstimateGrowth(net.growth, year), decayed[j])]
SumOf(amounts) == SumFunction(amounts)

TotalSpend(s, total) ==
  CASE s.strategy = "do-nothing" -> 0
    [] s.strategy # "do-nothing" /\ s.full -> total
    [] OTHER -> s.budget
\* Fault: the money is split evenly, whatever a cohort needs.
SplitEvenly(need, spend, total) == [j \in DOMAIN need |-> (spend * total) \div Len(need)]
Distribute(need, spend, total) == [j \in DOMAIN need |-> spend * need[j]]

ActualSpend(share, need, total) ==
  IF share <= 0 \/ need <= 0 THEN 0
  ELSE IF share >= need * total THEN need * total + Min({share - need * total, need * total})
  ELSE share
Efficiency(strategy) == CASE strategy = "preventive-first" -> 12
                          [] strategy = "worst-first" -> 8
                          [] OTHER -> 10
ApplyCohortSpend(pci, decayed, share, need, total, strategy) ==
  IF share <= 0 \/ need <= 0 THEN decayed
  ELSE IF share >= need * total
    THEN Min({100, pci + ((100 - pci) * Min({share - need * total, need * total}))
                           \div (need * total)})
  ELSE Min({100, decayed + ((pci - decayed) * share * Efficiency(strategy))
                             \div (need * total * 10)})

BlendedPCI(net, pci) ==
  LET area == SumOf([j \in DOMAIN pci |-> net.cohorts[j].area])
  IN IF area = 0 THEN 0
     ELSE SumOf([j \in DOMAIN pci |-> pci[j] * net.cohorts[j].area]) \div area

SimulateYear(net, s, before) ==
  LET year == before.year + 1
      decayed == [j \in DOMAIN before.pci |-> DecayOneStep(net.cohorts[j], before.pci[j])]
      need == Need(net, year, decayed)
      total == SumOf(need)
      share == IF s.full /\ s.strategy # "do-nothing"
                 THEN [j \in DOMAIN need |-> need[j] * total]
                 ELSE Distribute(need, TotalSpend(s, total), total)
      actual == [j \in DOMAIN need |-> ActualSpend(share[j], need[j], total)]
      pci == [j \in DOMAIN need |->
                ApplyCohortSpend(before.pci[j], decayed[j], share[j], need[j], total, s.strategy)]
      unmet == Max({0, total * total - SumOf(actual)})
  IN [year |-> year, pci |-> pci, need |-> need, total |-> total, share |-> share,
      actual |-> actual, unmet |-> unmet,
      backlog |-> before.backlog + (IF total = 0 THEN 0 ELSE unmet \div total),
      tier |-> TierForPCI(net.tiers, BlendedPCI(net, pci))]

Today(net) == [year |-> 0, pci |-> [j \in DOMAIN net.cohorts |-> net.cohorts[j].pci], backlog |-> 0]
Simulate(net, s, years) ==
  LET after[y \in 0..years] == IF y = 0 THEN Today(net) ELSE SimulateYear(net, s, after[y - 1])
  IN [y \in 1..years |-> after[y]]

-----------------------------------------------------------------------------
\* The first year the deferred work is a whole cycle's, 0 if there is none.
InsolvencyYear(years, cycle) ==
  IF years = <<>> \/ years[1].total <= 0 THEN 0
  ELSE SelectInSeq(years, LAMBDA y : y.backlog >= years[1].total * cycle)

DoNothing == [strategy |-> "do-nothing", budget |-> 0, full |-> FALSE]
WorstFirst(budget) == [strategy |-> "worst-first", budget |-> budget, full |-> FALSE]
Final(net, budget) == Simulate(net, WorstFirst(budget), Years)[Years].backlog
DoingNothing(net) == Simulate(net, DoNothing, Years)
\* Fault: the year-1 need bounds the search.
YearOneNeed(net) == DoingNothing(net)[1].total
PeakNeed(net) == Max({DoingNothing(net)[y].total : y \in 1..Years})
Tolerance(net) == DoingNothing(net)[1].total \div 1000

DefaultComparisons(net) ==
  LET need == DoingNothing(net)[1].total
  IN {WorstFirst(need \div 4), WorstFirst(need \div 2),
      [WorstFirst(0) EXCEPT !.full = TRUE]}
Scenarios(net) ==
  {DoNothing} \cup DefaultComparisons(net)
  \cup {[strategy |-> st, budget |-> b, full |-> FALSE] :
          st \in {"worst-first", "preventive-first"}, b \in Budgets}

\* The end of a run by class, in the tenths of the area and the parts of the
\* total of each year that they are counted in.
FinalCohorts(net, years) ==
  [c \in {net.cohorts[j].class : j \in DOMAIN net.cohorts} |->
     LET of == {j \in DOMAIN net.cohorts : net.cohorts[j].class = c}
         deficit(r) == SumOf([j \in of |-> Max({0, r.need[j] * r.total - r.actual[j]})])
     IN [area |-> SumOf([j \in of |-> net.cohorts[j].area]) * EstimateGrowth(net.growth, Len(years)),
         deficits |-> [y \in DOMAIN years |-> deficit(years[y])]]]

-----------------------------------------------------------------------------
ForecastInit ==
  /\ network \in Bases
  /\ scenario \in Scenarios(network)
  /\ run = <<>>
  /\ search = [phase |-> "idle", lo |-> 0, hi |-> 0]

RunYear ==
  /\ Len(run) < Years
  /\ run' = Append(run, SimulateYear(network, scenario,
                                     IF run = <<>> THEN Today(network) ELSE Last(run)))
  /\ UNCHANGED <<network, scenario, search>>

\* Once a run has ended: nothing to fund, nothing that needs funding, or a
\* bisection between no budget and the peak of the unfunded need.
BreakEvenBegins ==
  /\ Len(run) = Years /\ search.phase = "idle" /\ scenario = DoNothing
  /\ search' = IF PeakNeed(network) <= 0 \/ Final(network, 0) <= Tolerance(network)
                 THEN [phase |-> "none", lo |-> 0, hi |-> 0]
                 ELSE [phase |-> "search", lo |-> 0, hi |-> PeakNeed(network)]
  /\ UNCHANGED <<network, scenario, run>>

Narrow == search.hi - search.lo <= Max({1, PeakNeed(network) \div 10000})
Bisect ==
  /\ search.phase = "search"
  /\ LET mid == search.lo + (search.hi - search.lo) \div 2
     IN search' = IF Narrow THEN [search EXCEPT !.phase = "found"]
                  ELSE IF Final(network, mid) <= Tolerance(network)
                    THEN [search EXCEPT !.hi = mid]
                    ELSE [search EXCEPT !.lo = mid]
  /\ UNCHANGED <<network, scenario, run>>

ForecastNext == RunYear \/ BreakEvenBegins \/ Bisect
ForecastSpec == ForecastInit /\ [][ForecastNext]_forecastVars

-----------------------------------------------------------------------------
(* What a year leaves unfunded is what its cohorts lack, so the deficits    *)
(* reported by class add up to the backlog; no cohort is paid for twice     *)
(* over while another is short, and none beyond the year's money.           *)
DeficitsAddUpToBacklog ==
  LET final == FinalCohorts(network, run)
  IN \A y \in DOMAIN run :
       LET r == run[y]
       IN /\ r.unmet = SumOf([c \in DOMAIN final |-> final[c].deficits[y]])
          /\ (\E j \in DOMAIN r.need : r.actual[j] > r.need[j] * r.total) => r.unmet = 0
          /\ SumOf(r.actual) <= TotalSpend(scenario, r.total) * r.total

(* The break-even budget found holds the network steady and a budget within *)
(* the tolerance below it does not; a city that spends it stays solvent.    *)
BreakEvenHoldsSteady ==
  search.phase = "found" =>
    /\ Narrow
    /\ Final(network, search.hi) <= Tolerance(network)
    /\ Final(network, search.lo) > Tolerance(network)
    /\ InsolvencyYear(Simulate(network, WorstFirst(search.hi), Years), network.cycle) = 0
=============================================================================
