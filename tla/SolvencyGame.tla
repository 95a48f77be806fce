---------------------------- MODULE SolvencyGame ----------------------------
(***************************************************************************)
(* The solvency game: the engine (internal/game) that the page drives      *)
(* through cmd/wasm, and the page's view of it (templates/game.js).  Every *)
(* call changes the engine and then returns its state, in which only the   *)
(* hexes whose colour band or closure changed since they were last         *)
(* returned are listed; the page paints those and keeps the rest.          *)
(*                                                                         *)
(* A condition, a price and a year are as in Forecasts; the backlog is in  *)
(* hundredths, since a tick's need is the price times the hundredths of    *)
(* the condition lost.  A tick is one year long.                           *)
(***************************************************************************)
EXTENDS Forecasts

CONSTANTS Boards,      \* [hexes, tiers, budget, horizon, endless, pci, ...], see MC
          Rates,       \* the annual budgets the player may set
          MaxCalls     \* bounds the calls of a game

\* Numbers are whole; whether they make a board is for ValidBoard to say.
ASSUME GameAssumption ==
  /\ MaxCalls \in Nat /\ Rates \subseteq Int
  /\ \A b \in Boards :
       /\ b.hexes \in Seq([area : Int, keep : Nat, jitter : Int])
       /\ b.tiers \in Seq([min : Int, max : Int, cost : Int, label : STRING])
       /\ b.pci \in Int /\ b.budget \in Int /\ b.cycle \in Int

VARIABLES board,   \* the configuration of the game
          game,    \* the engine's state
          page     \* the page's: what is painted, and the last state returned

gameVars == <<board, game, page>>

BandCount == 6
ClosureEpsilon == 1
LosePCIFloor == 30
MaxForecastHorizon == 1000
DefaultTreatmentCycleYears == 12

-----------------------------------------------------------------------------
ClampPCI(pci) == Max({0, Min({100, pci})})
BandForPCI(pci) == IF pci <= 0 THEN 0 ELSE Min({(pci * BandCount) \div 100, BandCount - 1})

ValidBoard(b) ==
  /\ b.hexes # <<>> /\ b.tiers # <<>> /\ b.horizon > 0 /\ b.pci \in 0..100
  /\ b.cycle \in 0..40
  /\ \A i \in DOMAIN b.tiers : b.tiers[i].cost >= 0
  /\ \A i \in DOMAIN b.hexes : b.hexes[i].area >= 0 /\ b.hexes[i].keep < 100

HexCount(b) == Len(b.hexes)
TierCostRank(tiers, i) ==
  Cardinality({j \in DOMAIN tiers : \/ tiers[j].cost < tiers[i].cost
                                    \/ tiers[j].cost = tiers[i].cost /\ j < i})
LoseBacklogCeiling(b) ==
  100 * SumOf([i \in DOMAIN b.hexes |-> b.hexes[i].area])
      * Max({0} \cup {b.tiers[i].cost : i \in DOMAIN b.tiers})

ResolveCycleYears(cycle) == IF cycle <= 0 THEN DefaultTreatmentCycleYears ELSE cycle

\* The year the city's own forecast runs out of road at this budget.  A band's
\* area is half its cohort's: areas are counted in halves, and the money so too.
ProjectInsolvency(b, rate) ==
  IF b.cohorts = <<>> \/ b.horizon > MaxForecastHorizon THEN 0
  ELSE LET cycle == ResolveCycleYears(b.cycle)
           net == [cohorts |-> ApplyConditionSpread([j \in DOMAIN b.cohorts |->
                                   b.cohorts[j] @@ [pci |-> b.pci]]),
                   tiers |-> b.tiers, growth |-> b.growth, cycle |-> cycle]
       IN InsolvencyYear(Simulate(net, WorstFirst(2 * rate * 10 * cycle), b.horizon), cycle)

NewHex(hex, pci) ==
  [pci |-> ClampPCI(pci + hex.jitter), closed |-> ClampPCI(pci + hex.jitter) <= ClosureEpsilon,
   paintedBand |-> -1, paintedClosed |-> FALSE]
NewGame(b) ==
  LET start == Max({0, b.budget})
  IN [treasury |-> start, rate |-> start, backlog |-> 0, year |-> 0, status |-> "running",
      spent |-> 0, treatments |-> 0, insolvency |-> ProjectInsolvency(b, start),
      hexes |-> [i \in DOMAIN b.hexes |-> NewHex(b.hexes[i], b.pci)]]

-----------------------------------------------------------------------------
OpenHexes(g) == {i \in DOMAIN g.hexes : ~g.hexes[i].closed}
OpenArea(g) == MapThenSumSet(LAMBDA i : board.hexes[i].area, OpenHexes(g))
NetworkPCI(g) ==
  IF OpenArea(g) <= 0 THEN 0
  ELSE MapThenSumSet(LAMBDA i : g.hexes[i].pci * board.hexes[i].area, OpenHexes(g)) \div OpenArea(g)

Collapsed(g) ==
  \/ NetworkPCI(g) < LosePCIFloor
  \/ 2 * (HexCount(board) - Cardinality(OpenHexes(g))) > HexCount(board)
  \/ g.backlog > LoseBacklogCeiling(board)
RecomputeStatus(g) ==
  IF g.status # "running" THEN g
  ELSE IF Collapsed(g) THEN [g EXCEPT !.status = "lost"]
  ELSE IF ~board.endless /\ g.year >= board.horizon THEN [g EXCEPT !.status = "won"]
  ELSE g

DecayedHex(hex, state) ==
  LET after == (state.pci * hex.keep) \div 100
  IN IF state.closed THEN state
     ELSE IF after <= ClosureEpsilon THEN [state EXCEPT !.pci = 0, !.closed = TRUE]
     ELSE [state EXCEPT !.pci = after]
TickNeed(hex, state) ==
  LET after == (state.pci * hex.keep) \div 100
  IN IF state.closed THEN 0
     ELSE ProjectCost(board.tiers, hex.area, after) * (state.pci - after)
Ticked(g) ==
  IF g.status # "running" THEN g
  ELSE RecomputeStatus(
         [g EXCEPT !.year = @ + 1, !.treasury = @ + g.rate,
                   !.backlog = @ + SumOf([i \in DOMAIN g.hexes |->
                                            TickNeed(board.hexes[i], g.hexes[i])]),
                   !.hexes = [i \in DOMAIN @ |-> DecayedHex(board.hexes[i], @[i])]])

\* A tier is named, or left to the engine: the one whose range holds the hex.
ResolveTier(tier, pci) ==
  FirstWhere(board.tiers, LAMBDA t : IF tier = "auto" THEN InTier(t, pci) ELSE t.label = tier)
TreatedHex(hex, pci) == [hex EXCEPT !.pci = pci, !.closed = @ /\ pci <= ClosureEpsilon]
TreatOne(g, i, tier) ==
  LET t == ResolveTier(tier, g.hexes[i].pci)
      cost == board.tiers[t].cost * board.hexes[i].area
      lift == ((100 - g.hexes[i].pci) * (TierCostRank(board.tiers, t) + 1)) \div Len(board.tiers)
      pci == ClampPCI(g.hexes[i].pci + lift)
  IN IF g.status # "running" \/ t = 0 THEN g
     ELSE IF g.treasury < cost THEN g
     ELSE [g EXCEPT !.treasury = @ - cost, !.spent = @ + cost, !.treatments = @ + 1,
                    !.backlog = Max({0, @ - 100 * cost}), !.hexes[i] = TreatedHex(@, pci)]
TreatBatch(g, ids, tier) ==
  LET after[n \in 0..Len(ids)] == IF n = 0 THEN g ELSE TreatOne(after[n - 1], ids[n], tier)
      treated == after[Len(ids)]
  IN IF treated.treatments > g.treatments THEN RecomputeStatus(treated) ELSE g

BudgetSet(g, rate) ==
  [g EXCEPT !.rate = Max({0, rate}), !.insolvency = ProjectInsolvency(board, Max({0, rate}))]

-----------------------------------------------------------------------------
\* StateJSON: what is returned, and the engine that remembers it returned it.
\* Fault: a hex repaints only when its band changes.
BandChanged(hex) == BandForPCI(hex.pci) # hex.paintedBand
Changed(hex) == BandForPCI(hex.pci) # hex.paintedBand \/ hex.closed # hex.paintedClosed
MinTierCost(tiers) == Min({tiers[i].cost : i \in DOMAIN tiers})
OutOfFunds(g) ==
  /\ OpenHexes(g) # {}
  /\ g.treasury < MinTierCost(board.tiers) * Min({board.hexes[i].area : i \in OpenHexes(g)})
StateOf(g) ==
  [status |-> g.status, insolvency |-> g.insolvency, outOfFunds |-> OutOfFunds(g),
   changed |-> [i \in {k \in DOMAIN g.hexes : Changed(g.hexes[k])} |->
                  [band |-> BandForPCI(g.hexes[i].pci), closed |-> g.hexes[i].closed]]]
PaintedHex(hex) ==
  IF Changed(hex) THEN [hex EXCEPT !.paintedBand = BandForPCI(hex.pci), !.paintedClosed = hex.closed]
  ELSE hex
Painted(g) == [g EXCEPT !.hexes = [i \in DOMAIN @ |-> PaintedHex(@[i])]]

\* The page: applyState, and the loop that stops when the game is over.
ApplyState(state) ==
  [view |-> [i \in DOMAIN page.view |->
               IF i \in DOMAIN state.changed THEN state.changed[i] ELSE page.view[i]],
   state |-> [f \in {"status", "insolvency", "outOfFunds"} |-> state[f]],
   calls |-> page.calls + 1]
HandBack(g) == game' = Painted(g) /\ page' = ApplyState(StateOf(g)) /\ UNCHANGED board

Unpainted(b) == [i \in DOMAIN b.hexes |-> [band |-> -1, closed |-> FALSE]]
GameInit ==
  /\ board \in {b \in Boards : ValidBoard(b)}
  /\ game = NewGame(board)
  /\ page = [view |-> Unpainted(board), calls |-> 0, state |-> [status |-> "none"]]

Playing == page.calls < MaxCalls /\ page.state.status = "running"
SeedGame == page.calls < MaxCalls /\ HandBack(NewGame(board))
Frame == Playing /\ HandBack(Ticked(game))
\* A stroke treats a hex at most once.
BrushPaint == /\ Playing
              /\ \E i, k \in DOMAIN game.hexes, tier \in {"auto", board.tiers[1].label} :
                   HandBack(TreatBatch(game, IF i = k THEN <<i>> ELSE <<i, k>>, tier))
SetBudget == Playing /\ \E rate \in Rates : HandBack(BudgetSet(game, rate))

GameNext == SeedGame \/ Frame \/ BrushPaint \/ SetBudget
GameSpec == GameInit /\ [][GameNext]_gameVars

-----------------------------------------------------------------------------
(* The page shows the board, though a call returns only what changed, the   *)
(* game may be seeded again over a painted board, and a hex that closes or  *)
(* reopens within one colour band must repaint; the headline is that of the *)
(* budget now set.                                                          *)
PageShowsTheBoard ==
  page.state.status # "none" =>
    /\ \A i \in DOMAIN game.hexes :
         page.view[i] = [band |-> BandForPCI(game.hexes[i].pci), closed |-> game.hexes[i].closed]
    /\ page.state.status = game.status
    /\ page.state.insolvency = ProjectInsolvency(board, game.rate)
=============================================================================
