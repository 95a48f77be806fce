------------------------------- MODULE MCGame -------------------------------
(* Small boards: a hex that closes, a hex that can be saved, a hex that     *)
(* keeps, with and without a forecast, a budget and an end.                 *)
EXTENDS MCFore, SolvencyGame

Hex(area, keep, jitter) == [area |-> area, keep |-> keep, jitter |-> jitter]
PlayedBoards ==
  [hexes : {<<Hex(3, 90, 0), Hex(1, 20, -85)>>, <<Hex(2, 70, 5), Hex(1, 40, -90), Hex(3, 80, 0)>>},
   tiers : {DefaultTiers}, budget : {-1, 20}, horizon : {3}, endless : BOOLEAN,
   pci : {50, 90}, cohorts : {<<>>, <<[class |-> "roads", area |-> 3, keep |-> 80]>>},
   growth : {1}, cycle : {1}]
\* One board in two leaves the cycle to the default; one states no legal cycle.
MCBoards ==
  LET SetCycle(b, cycle) == [b EXCEPT !.cycle = cycle]
      played == {IF b.endless THEN SetCycle(b, 0) ELSE b : b \in PlayedBoards}
  IN played \cup {SetCycle(CHOOSE b \in played : TRUE, 41)}
MCRates == {-5, 60}
FirstBoard == CHOOSE b \in Boards : ValidBoard(b) /\ b.cohorts = <<>>
=============================================================================
