------------------------------- MODULE MCFore -------------------------------
(* Small networks: two classes of pavement, of any size or none, in three   *)
(* conditions, under tiers that cover every condition and tiers with a gap. *)
EXTENDS Forecasts

Tier(lo, hi, cost, label) == [min |-> lo, max |-> hi, cost |-> cost, label |-> label]
DefaultTiers == <<Tier(70, 101, 1, "preventive"), Tier(40, 70, 10, "rehab"), Tier(0, 40, 30, "reconstruction")>>
GappyTiers == <<Tier(0, 30, 20, "replace"), Tier(60, 101, 3, "seal")>>
Cohort(class, area, keep, pci) == [class |-> class, area |-> area, keep |-> keep, pci |-> pci]
MCCohorts == {<<Cohort("roads", a, k, p), Cohort("parking", b, 97, 70)>> : a \in {0, 3}, b \in {0, 2}, k \in {80, 95}, p \in {30, 60, 95}}
MCNetworks == [all : MCCohorts, city : {<<>>, <<Cohort("roads", 2, 90, 60)>>}, tiers : {DefaultTiers, GappyTiers}, growth : {-5, 0, 1}, cycle : {1, 3}]
MCBudgets == {0, 40, 3000}
FirstNetwork == CHOOSE net \in Bases : TRUE

\* Both kinds of tiers cost more the worse the pavement.
ASSUME MCCostsRise == \A net \in Networks : CostsRise(net.tiers)
=============================================================================
