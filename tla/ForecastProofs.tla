--------------------------- MODULE ForecastProofs ---------------------------
(***************************************************************************)
(* The forecasts, for every network and whatever the amounts, conditions   *)
(* and tiers are; and the game, for every board that passes its validation *)
(* and any calls.                                                          *)
(*                                                                         *)
(*   - DeficitsAlwaysAddUp: a year's deficits are its backlog;             *)
(*   - BreakEvenAlwaysHoldsSteady: the break-even budget ends the years    *)
(*     within the tolerance, a step less does not, and no year on the way  *)
(*     falls a cycle behind, when costs rise as conditions fall;           *)
(*   - PageAlwaysShowsTheBoard: the page shows the board of the engine.    *)
(*                                                                         *)
(* The first is arithmetic: money that covers a year covers each cohort,   *)
(* and money that does not is shared without a surplus anywhere, so no     *)
(* positive lack is lost to the floor at zero (LackOf).                    *)
(*                                                                         *)
(* The second compares two runs year by year: a funded network is never in *)
(* a worse condition than one nothing is spent on (FundingNeverHurts), and *)
(* a better condition costs no more (PriceFalls, along the interpolation   *)
(* between the tiers). So the greatest unfunded need is enough in every    *)
(* year, and the search starts between a budget that is too small and one  *)
(* that is not.                                                            *)
(*                                                                         *)
(* The third: the engine hands back the hexes that have changed since it   *)
(* last did, by what it remembers to have handed back of each. GameInv     *)
(* says that this is what the page has.                                    *)
(***************************************************************************)
EXTENDS SolvencyGame, SumProofs

-----------------------------------------------------------------------------
(* Arithmetic.                                                             *)

\* The first of the indices there are.
LEMMA FirstOf ==
  ASSUME NEW n \in Nat, NEW S \in SUBSET (1..n), S # {}
  PROVE  \E first \in S : \A i \in S : first <= i
<1> DEFINE P == {k \in Nat : (\E i \in S : i <= k) => \E first \in S : \A i \in S : first <= i}
<1>1. 0 \in P
  OBVIOUS
<1>2. ASSUME NEW k \in Nat, k \in P PROVE k + 1 \in P
  <2>1. CASE \E i \in S : i <= k
    BY <1>2, <2>1
  <2>2. CASE ~\E i \in S : i <= k
    <3>1. \A i \in S : k + 1 <= i
      BY <2>2
    <3>2. \A i \in S : i <= k + 1 => i = k + 1
      BY <3>1
    <3> QED BY <3>1, <3>2
  <2> QED BY <2>1, <2>2
<1>3. n \in P
  <2> HIDE DEF P
  <2> QED BY <1>1, <1>2, FromZeroOn
<1>4. \E i \in S : i <= n
  <2>1. PICK i \in S : i \in 1..n
    OBVIOUS
  <2> QED BY <2>1
<1> QED BY <1>3, <1>4

-----------------------------------------------------------------------------
(* Prices.                                                                 *)
Tier == [min : Nat, max : Nat, cost : Nat, label : STRING]

\* What a square metre costs in a condition.
Price(tiers, pci) == InterpolateCost(BuildAnchors(tiers), pci)

\* An anchor is at its tier's middle, at its tier's cost.
LEMMA AnchorType ==
  ASSUME NEW tier \in Tier
  PROVE  Anchor(tier) \in [pci : Nat, cost : Nat] /\ Anchor(tier).cost = tier.cost
BY DEF Anchor, Tier

\* The stable sort puts a tier at every place, and no two at one.
LEMMA EveryPlaceIsTaken ==
  ASSUME NEW tiers \in Seq(Tier), NEW k \in DOMAIN tiers
  PROVE  \E i \in DOMAIN tiers : Cardinality({j \in DOMAIN tiers : Precedes(tiers, j, i)}) = k - 1
<1> DEFINE n == Len(tiers)
           Before(i) == {j \in DOMAIN tiers : Precedes(tiers, j, i)}
           Rank(i) == Cardinality(Before(i))
<1>1. n \in Nat /\ DOMAIN tiers = 1..n /\ IsFiniteSet(1..n) /\ Cardinality(1..n) = n
  <2>1. n \in Nat /\ DOMAIN tiers = 1..n
    OBVIOUS
  <2> HIDE DEF n
  <2>2. IsFiniteSet(1..n) /\ Cardinality(1..n) = IF 1 > n THEN 0 ELSE n - 1 + 1
    BY <2>1, FS_Interval
  <2> QED BY <2>1, <2>2
<1>2. \A i \in 1..n : Anchor(tiers[i]).pci \in Nat
  <2> SUFFICES ASSUME NEW i \in 1..n PROVE Anchor(tiers[i]).pci \in Nat
    OBVIOUS
  <2>1. tiers[i] \in Tier
    BY <1>1
  <2> QED BY <2>1, AnchorType
<1>3. \A i \in 1..n : IsFiniteSet(Before(i)) /\ Rank(i) \in 0..n - 1
  <2> SUFFICES ASSUME NEW i \in 1..n PROVE IsFiniteSet(Before(i)) /\ Rank(i) \in 0..n - 1
    OBVIOUS
  <2>1. Before(i) \in SUBSET ((1..n) \ {i})
    BY <1>1, <1>2 DEF Precedes
  <2>2. IsFiniteSet((1..n) \ {i}) /\ Cardinality((1..n) \ {i}) = n - 1
    BY <1>1, FS_RemoveElement
  <2> HIDE DEF Before
  <2>3. IsFiniteSet(Before(i)) /\ Cardinality(Before(i)) <= n - 1
    BY <2>1, <2>2, FS_Subset
  <2> QED BY <2>3, <1>1, FS_CardinalityType
<1>4. ASSUME NEW i \in 1..n, NEW j \in 1..n, Precedes(tiers, i, j) PROVE Rank(i) < Rank(j)
  <2>1. Before(i) \in SUBSET (Before(j) \ {i}) /\ i \in Before(j)
    BY <1>1, <1>2, <1>4 DEF Precedes
  <2> HIDE DEF Before
  <2>2. IsFiniteSet(Before(j) \ {i}) /\ Cardinality(Before(j) \ {i}) = Rank(j) - 1
    BY <1>3, <2>1, FS_RemoveElement
  <2>3. Rank(i) <= Rank(j) - 1
    BY <2>1, <2>2, FS_Subset
  <2> QED BY <1>3, <2>3
<1>5. \A i, j \in 1..n : i # j => Precedes(tiers, i, j) \/ Precedes(tiers, j, i)
  BY <1>2 DEF Precedes
<1>6. \A i, j \in 1..n : i # j => Rank(i) # Rank(j)
  <2> SUFFICES ASSUME NEW i \in 1..n, NEW j \in 1..n, i # j PROVE Rank(i) # Rank(j)
    OBVIOUS
  <2>1. Rank(i) \in Int /\ Rank(j) \in Int
    <3>1. Rank(i) \in 0..n - 1 /\ Rank(j) \in 0..n - 1
      BY <1>3
    <3> HIDE DEF Rank, n
    <3> QED BY <1>1, <3>1
  <2>2. Rank(i) < Rank(j) \/ Rank(j) < Rank(i)
    BY <1>4, <1>5
  <2> HIDE DEF Rank
  <2> QED BY <2>1, <2>2
<1>7. SUFFICES ASSUME \A i \in 1..n : Rank(i) # k - 1 PROVE FALSE
  BY <1>1
<1> DEFINE places == (0..n - 1) \ {k - 1}
           rank == [i \in 1..n |-> Rank(i)]
<1>8. IsFiniteSet(places) /\ Cardinality(places) = n - 1
  <2>1. IsFiniteSet(0..n - 1) /\ Cardinality(0..n - 1) = n /\ k - 1 \in 0..n - 1
    <3>1. n >= 1 /\ k \in 1..n
      BY <1>1
    <3> HIDE DEF n
    <3>2. IsFiniteSet(0..n - 1) /\ Cardinality(0..n - 1) = IF 0 > n - 1 THEN 0 ELSE n - 1 - 0 + 1
      BY <1>1, <3>1, FS_Interval
    <3> QED BY <1>1, <3>1, <3>2
  <2> QED BY <2>1, FS_RemoveElement
<1>9. rank \in [1..n -> places]
  BY <1>3, <1>7
<1>10. \E i, j \in 1..n : i # j /\ rank[i] = rank[j]
  <2> HIDE DEF places, rank
  <2>1. Cardinality(places) < Cardinality(1..n)
    BY <1>1, <1>8
  <2> QED BY <1>1, <1>8, <1>9, <2>1, FS_PigeonHole
<1> HIDE DEF Rank
<1> QED BY <1>6, <1>10
\* Anchors by falling middle.
LEMMA AnchorsAreSorted ==
  ASSUME NEW tiers \in Seq(Tier)
  PROVE  /\ DOMAIN BuildAnchors(tiers) = 1..Len(tiers)
         /\ \A k \in 1..Len(tiers) : /\ BuildAnchors(tiers)[k] \in [pci : Nat, cost : Nat]
                                     /\ \E i \in 1..Len(tiers) : BuildAnchors(tiers)[k] = Anchor(tiers[i])
         /\ \A k, m \in 1..Len(tiers) : k <= m => BuildAnchors(tiers)[m].pci <= BuildAnchors(tiers)[k].pci
<1> DEFINE n == Len(tiers)
           Before(i) == {j \in DOMAIN tiers : Precedes(tiers, j, i)}
           Rank(i) == Cardinality(Before(i))
           At(k) == CHOOSE i \in DOMAIN tiers : Rank(i) = k - 1
<1>1. n \in Nat /\ DOMAIN tiers = 1..n
  OBVIOUS
<1>2. \A k \in 1..n : At(k) \in 1..n /\ Rank(At(k)) = k - 1
  <2> SUFFICES ASSUME NEW k \in DOMAIN tiers PROVE At(k) \in DOMAIN tiers /\ Rank(At(k)) = k - 1
    BY <1>1
  <2>1. \E i \in DOMAIN tiers : Rank(i) = k - 1
    BY EveryPlaceIsTaken
  <2> HIDE DEF Rank
  <2> QED BY <2>1
<1>3. DOMAIN BuildAnchors(tiers) = 1..n /\ \A k \in 1..n : BuildAnchors(tiers)[k] = Anchor(tiers[At(k)])
  BY <1>1 DEF BuildAnchors
<1> HIDE DEF At
<1>4. \A i \in 1..n : Anchor(tiers[i]) \in [pci : Nat, cost : Nat]
  <2> SUFFICES ASSUME NEW i \in 1..n PROVE Anchor(tiers[i]) \in [pci : Nat, cost : Nat]
    OBVIOUS
  <2>1. tiers[i] \in Tier
    BY <1>1
  <2> QED BY <2>1, AnchorType
<1>5. \A i \in 1..n : Anchor(tiers[i]).pci \in Nat
  BY <1>4
<1>6. ASSUME NEW k \in 1..n, NEW m \in 1..n, k <= m
      PROVE  Anchor(tiers[At(m)]).pci <= Anchor(tiers[At(k)]).pci
  <2> DEFINE i == At(k)
             j == At(m)
  <2>1. i \in 1..n /\ j \in 1..n /\ Rank(i) = k - 1 /\ Rank(j) = m - 1
    BY <1>2
  <2> HIDE DEF i, j
  <2>2. SUFFICES ASSUME Anchor(tiers[i]).pci < Anchor(tiers[j]).pci PROVE FALSE
    BY <1>5, <2>1 DEF i, j
  <2>3. Before(j) \in SUBSET (Before(i) \ {j}) /\ j \in Before(i)
    BY <1>1, <1>5, <2>1, <2>2 DEF Precedes
  <2>4. IsFiniteSet(Before(i))
    <3>1. Before(i) \in SUBSET (1..n)
      BY <1>1
    <3> HIDE DEF Before, n
    <3> QED BY <1>1, <3>1, FS_Interval, FS_Subset
  <2> HIDE DEF Before
  <2>5. IsFiniteSet(Before(i) \ {j}) /\ Cardinality(Before(i) \ {j}) = Rank(i) - 1
    BY <2>3, <2>4, FS_RemoveElement
  <2>6. Rank(j) <= Rank(i) - 1
    BY <2>3, <2>5, FS_Subset
  <2> QED BY <2>1, <2>6, <1>6
<1>7. \A k \in 1..n : /\ BuildAnchors(tiers)[k] \in [pci : Nat, cost : Nat]
                      /\ \E i \in 1..n : BuildAnchors(tiers)[k] = Anchor(tiers[i])
  BY <1>2, <1>3, <1>4
<1>8. \A k, m \in 1..n : k <= m => BuildAnchors(tiers)[m].pci <= BuildAnchors(tiers)[k].pci
  BY <1>3, <1>6
<1> QED BY <1>3, <1>7, <1>8

\* The anchors are as many as the tiers.
LEMMA AnchorsAreMany ==
  ASSUME NEW tiers \in Seq(Tier)
  PROVE  /\ Len(tiers) \in Nat /\ DOMAIN BuildAnchors(tiers) = 1..Len(tiers)
         /\ Len(BuildAnchors(tiers)) = Len(tiers)
         /\ \A k \in 1..Len(tiers) : BuildAnchors(tiers)[k] \in [pci : Nat, cost : Nat]
<1>1. /\ DOMAIN BuildAnchors(tiers) = 1..Len(tiers)
      /\ \A k \in 1..Len(tiers) : BuildAnchors(tiers)[k] \in [pci : Nat, cost : Nat]
  BY AnchorsAreSorted
<1>2. Len(tiers) \in Nat
  OBVIOUS
<1>3. BuildAnchors(tiers) = [k \in 1..Len(tiers) |-> BuildAnchors(tiers)[k]]
  BY <1>1 DEF BuildAnchors
<1>4. Len(BuildAnchors(tiers)) = Len(tiers)
  BY <1>2, <1>3
<1> QED BY <1>1, <1>2, <1>4

\* Between the ends, two neighbours bracket a condition and give its price.
LEMMA Brackets ==
  ASSUME NEW tiers \in Seq(Tier), NEW pci \in 0..100, Len(tiers) > 0,
         2 * pci < BuildAnchors(tiers)[1].pci, 2 * pci > BuildAnchors(tiers)[Len(tiers)].pci
  PROVE  \E i \in 1..Len(tiers) - 1 :
           /\ BuildAnchors(tiers)[i].pci > 2 * pci /\ 2 * pci >= BuildAnchors(tiers)[i + 1].pci
           /\ Price(tiers, pci) = Between(BuildAnchors(tiers)[i], BuildAnchors(tiers)[i + 1], pci)
<1> DEFINE a == BuildAnchors(tiers)
           n == Len(tiers)
           Holds(i) == a[i].pci >= 2 * pci /\ 2 * pci >= a[i + 1].pci
           First(i) == Holds(i) /\ \A k \in 1..i - 1 : ~Holds(k)
           bracket == CHOOSE i \in 1..n - 1 : First(i)
<1>1. n \in Nat /\ n > 0 /\ DOMAIN a = 1..n /\ Len(a) = n /\ \A k \in 1..n : a[k].pci \in Nat
  <2>1. n \in Nat /\ DOMAIN a = 1..n /\ Len(a) = n /\ \A k \in 1..n : a[k] \in [pci : Nat, cost : Nat]
    BY AnchorsAreMany, Zenon
  <2>2. n > 0
    BY Zenon
  <2> HIDE DEF a, n
  <2> QED BY <2>1, <2>2
<1> HIDE DEF a, n
<1> DEFINE S == {i \in 1..n : i < n /\ 2 * pci >= a[i + 1].pci}
<1>2. n > 1 /\ n - 1 \in S
  <2>1. 2 * pci < a[1].pci /\ 2 * pci > a[n].pci
    BY DEF a, n
  <2>2. n # 1
    BY <1>1, <2>1
  <2> QED BY <1>1, <2>1, <2>2
<1>3. PICK m \in S : \A i \in S : m <= i
  <2>1. S \in SUBSET (1..n) /\ S # {}
    BY <1>2
  <2> HIDE DEF S
  <2> QED BY <1>1, <2>1, FirstOf
<1>4. First(m) /\ m \in 1..n - 1 /\ a[m].pci > 2 * pci
  <2>1. a[m].pci > 2 * pci
    <3>1. CASE m = 1
      BY <3>1 DEF a
    <3>2. CASE m # 1
      <4>0. m \in 1..n /\ n \in Nat
        BY <1>1, <1>3
      <4>1. m - 1 \in 1..n /\ m - 1 < n /\ m - 1 \notin S /\ (m - 1) + 1 = m
        <5>1. m - 1 \in 1..n /\ m - 1 < n /\ ~(m <= m - 1) /\ (m - 1) + 1 = m
          BY <4>0, <3>2
        <5> HIDE DEF S
        <5> QED BY <1>3, <5>1
      <4>2. ~(2 * pci >= a[(m - 1) + 1].pci)
        BY <4>1
      <4>3. ~(2 * pci >= a[m].pci)
        BY <4>1, <4>2
      <4>4. a[m].pci \in Int
        BY <1>1, <4>0
      <4>5. 2 * pci \in Int
        OBVIOUS
      <4> HIDE DEF a
      <4> QED BY <4>3, <4>4, <4>5
    <3> QED BY <3>1, <3>2
  <2>2. \A k \in 1..m - 1 : k \in 1..n /\ k < n /\ k \notin S
    BY <1>1, <1>3
  <2> QED BY <1>1, <1>3, <2>1, <2>2
<1>5. bracket = m
  <2>1. bracket \in 1..n - 1 /\ First(bracket)
    <3>1. \E i \in 1..n - 1 : First(i)
      BY <1>4
    <3> HIDE DEF First
    <3> QED BY <3>1
  <2> HIDE DEF bracket
  <2>2. \A k \in 1..m - 1 : ~Holds(k)
    BY <1>4
  <2>3. \A k \in 1..bracket - 1 : ~Holds(k)
    BY <2>1
  <2>4. Holds(m) /\ Holds(bracket)
    BY <1>4, <2>1
  <2> HIDE DEF Holds
  <2>5. ~(bracket < m) /\ ~(m < bracket)
    BY <1>1, <1>4, <2>1, <2>2, <2>3, <2>4
  <2> QED BY <1>1, <1>4, <2>1, <2>5
<1>6. Price(tiers, pci) = Between(a[bracket], a[bracket + 1], pci)
  <2>1. n # 0 /\ ~(2 * pci >= a[1].pci) /\ ~(2 * pci <= a[n].pci)
    BY <1>1 DEF a, n
  <2>2. Price(tiers, pci) =
          CASE n = 0 -> 0
            [] n > 0 /\ 2 * pci >= a[1].pci -> a[1].cost
            [] n > 0 /\ 2 * pci < a[1].pci /\ 2 * pci <= a[n].pci -> a[n].cost
            [] OTHER -> Between(a[bracket], a[bracket + 1], pci)
    BY <1>1 DEF Price, InterpolateCost, a
  <2> HIDE DEF bracket
  <2> QED BY <2>1, <2>2
<1>7. m \in 1..Len(tiers) - 1 /\ a[m].pci > 2 * pci /\ 2 * pci >= a[m + 1].pci
  BY <1>3, <1>4 DEF n
<1> QED BY <1>5, <1>6, <1>7 DEF a
\* Interpolation stays between the costs of the two anchors.
LEMMA BetweenAnchors ==
  ASSUME NEW hi \in [pci : Nat, cost : Nat], NEW lo \in [pci : Nat, cost : Nat], NEW pci \in Nat,
         hi.pci > 2 * pci, 2 * pci >= lo.pci
  PROVE  /\ Between(hi, lo, pci) \in Nat
         /\ hi.cost <= lo.cost => hi.cost <= Between(hi, lo, pci) /\ Between(hi, lo, pci) <= lo.cost
         /\ 2 * pci = lo.pci => Between(hi, lo, pci) = lo.cost
<1> DEFINE up == hi.pci - 2 * pci
           span == hi.pci - lo.pci
           rise == lo.cost - hi.cost
           part == (up * rise) \div span
<1>1. up \in Nat /\ span \in Nat \ {0} /\ up <= span /\ rise \in Int
      /\ hi.cost \in Nat /\ lo.cost \in Nat /\ lo.cost = hi.cost + rise
  OBVIOUS
<1>2. Between(hi, lo, pci) = hi.cost + part
  BY <1>1 DEF Between
<1> HIDE DEF up, span, rise
<1>3. up * rise \in Int /\ part \in Int
  BY <1>1, QuotientBounds
<1>4. ASSUME rise >= 0
      PROVE  hi.cost <= Between(hi, lo, pci) /\ Between(hi, lo, pci) <= lo.cost
  <2>1. 0 * span <= up * rise /\ up * rise <= rise * span
    <3>1. rise \in Nat
      BY <1>1, <1>4
    <3>2. up * rise <= span * rise /\ 0 * rise <= up * rise
      BY <1>1, <3>1, Times
    <3> QED BY <1>1, <3>1, <3>2
  <2>2. 0 <= part /\ part <= rise
    <3> DEFINE product == up * rise
    <3>1. product \in Int /\ 0 * span <= product /\ product <= rise * span
      BY <1>3, <2>1
    <3> HIDE DEF product
    <3>2. 0 <= product \div span
      BY <1>1, <3>1, QuotientIsAtLeast
    <3>3. product \div span <= rise
      BY <1>1, <3>1, QuotientIsAtMost
    <3> QED BY <3>2, <3>3 DEF product
  <2> HIDE DEF part
  <2> QED BY <1>1, <1>2, <1>3, <2>2
<1>5. ASSUME rise < 0
      PROVE  Between(hi, lo, pci) \in Nat /\ lo.cost < hi.cost
  <2>1. rise * span <= up * rise
    <3>1. 0 - rise \in Nat
      BY <1>1, <1>5
    <3>2. up * (0 - rise) <= span * (0 - rise)
      BY <1>1, <3>1, Times
    <3>3. up * (0 - rise) = 0 - up * rise /\ span * (0 - rise) = 0 - rise * span
      BY <1>1
    <3>4. rise * span \in Int
      BY <1>1
    <3> QED BY <1>3, <3>2, <3>3, <3>4
  <2>2. rise <= part
    BY <1>1, <1>3, <2>1, QuotientIsAtLeast
  <2> HIDE DEF part
  <2> QED BY <1>1, <1>2, <1>3, <1>5, <2>2
<1>6. up = span => part = rise
  <2> SUFFICES ASSUME up = span PROVE part = rise
    OBVIOUS
  <2> DEFINE product == span * rise
  <2>1. product \in Int /\ rise * span <= product /\ product <= rise * span /\ part = product \div span
    BY <1>1
  <2> HIDE DEF product
  <2>2. rise <= product \div span
    BY <1>1, <2>1, QuotientIsAtLeast
  <2>3. product \div span <= rise
    BY <1>1, <2>1, QuotientIsAtMost
  <2> QED BY <1>1, <1>3, <2>1, <2>2, <2>3
<1>7. 2 * pci = lo.pci => up = span
  BY DEF up, span
<1>8. rise >= 0 => Between(hi, lo, pci) \in Nat
  <2> SUFFICES ASSUME rise >= 0 PROVE Between(hi, lo, pci) \in Nat
    OBVIOUS
  <2>1. hi.cost <= Between(hi, lo, pci)
    BY <1>4
  <2> HIDE DEF part
  <2> QED BY <1>1, <1>2, <1>3, <2>1
<1> HIDE DEF part
<1> QED BY <1>1, <1>2, <1>3, <1>4, <1>5, <1>6, <1>7, <1>8

\* A price is a natural number.
LEMMA PriceType ==
  ASSUME NEW tiers \in Seq(Tier), NEW pci \in 0..100
  PROVE  Price(tiers, pci) \in Nat
<1> DEFINE a == BuildAnchors(tiers)
           n == Len(tiers)
<1>1. n \in Nat /\ DOMAIN a = 1..n /\ Len(a) = n /\ \A k \in 1..n : a[k] \in [pci : Nat, cost : Nat]
  <2>1. n \in Nat /\ DOMAIN a = 1..n /\ Len(a) = n /\ \A k \in 1..n : a[k] \in [pci : Nat, cost : Nat]
    BY AnchorsAreMany, Zenon
  <2> HIDE DEF a, n
  <2> QED BY <2>1
<1>0. n > 0 => a[1].pci \in Nat /\ a[n].pci \in Nat /\ a[1].cost \in Nat /\ a[n].cost \in Nat
  <2> HIDE DEF a, n
  <2> QED BY <1>1
<1> DEFINE bracket == CHOOSE i \in 1..n - 1 : a[i].pci >= 2 * pci /\ 2 * pci >= a[i + 1].pci
                       /\ \A k \in 1..i - 1 : ~(a[k].pci >= 2 * pci /\ 2 * pci >= a[k + 1].pci)
           between == Between(a[bracket], a[bracket + 1], pci)
<1>7. Price(tiers, pci) =
        CASE n = 0 -> 0
          [] n > 0 /\ 2 * pci >= a[1].pci -> a[1].cost
          [] n > 0 /\ 2 * pci < a[1].pci /\ 2 * pci <= a[n].pci -> a[n].cost
          [] OTHER -> between
  BY <1>1 DEF Price, InterpolateCost
<1>2. CASE n = 0
  <2> HIDE DEF a, n, between
  <2> QED BY <1>2, <1>7
<1>3. CASE n > 0 /\ 2 * pci >= a[1].pci
  <2> HIDE DEF a, n, between
  <2> QED BY <1>0, <1>1, <1>3, <1>7
<1>4. CASE n > 0 /\ 2 * pci < a[1].pci /\ 2 * pci <= a[n].pci
  <2> HIDE DEF a, n, between
  <2> QED BY <1>0, <1>1, <1>4, <1>7
<1>5. CASE n > 0 /\ 2 * pci < a[1].pci /\ 2 * pci > a[n].pci
  <2>1. PICK i \in 1..n - 1 : /\ a[i].pci > 2 * pci /\ 2 * pci >= a[i + 1].pci
                              /\ Price(tiers, pci) = Between(a[i], a[i + 1], pci)
    BY <1>5, Brackets
  <2> HIDE DEF a, n
  <2>2. a[i] \in [pci : Nat, cost : Nat] /\ a[i + 1] \in [pci : Nat, cost : Nat]
    BY <1>1
  <2> QED BY <2>1, <2>2, BetweenAnchors
<1> HIDE DEF a, n
<1> QED BY <1>0, <1>1, <1>2, <1>3, <1>4, <1>5
\* Between its neighbours, where costs rise.
LEMMA PriceIsBetween ==
  ASSUME NEW tiers \in Seq(Tier), CostsRise(tiers), NEW pci \in 0..100, NEW k \in 1..Len(tiers)
  PROVE  /\ BuildAnchors(tiers)[k].pci >= 2 * pci => BuildAnchors(tiers)[k].cost <= Price(tiers, pci)
         /\ BuildAnchors(tiers)[k].pci <= 2 * pci => Price(tiers, pci) <= BuildAnchors(tiers)[k].cost
<1> DEFINE a == BuildAnchors(tiers)
           n == Len(tiers)
           bracket == CHOOSE i \in 1..n - 1 : a[i].pci >= 2 * pci /\ 2 * pci >= a[i + 1].pci
                       /\ \A m \in 1..i - 1 : ~(a[m].pci >= 2 * pci /\ 2 * pci >= a[m + 1].pci)
           between == Between(a[bracket], a[bracket + 1], pci)
<1>1. /\ n \in Nat /\ Len(a) = n /\ \A m \in 1..n : a[m] \in [pci : Nat, cost : Nat]
      /\ \A i, m \in 1..n : i <= m => a[m].pci <= a[i].pci
  <2>1. n \in Nat /\ DOMAIN a = 1..n /\ \A m \in 1..n : a[m] \in [pci : Nat, cost : Nat]
    BY AnchorsAreSorted
  <2>2. \A i, m \in 1..n : i <= m => a[m].pci <= a[i].pci
    BY AnchorsAreSorted
  <2> HIDE DEF a
  <2>3. a = [m \in 1..n |-> a[m]]
    BY DEF a, BuildAnchors
  <2> QED BY <2>1, <2>2, <2>3
<1>2. \A i, m \in 1..n : a[m].pci <= a[i].pci => a[i].cost <= a[m].cost
  <2> SUFFICES ASSUME NEW i \in 1..n, NEW m \in 1..n, a[m].pci <= a[i].pci
               PROVE  a[i].cost <= a[m].cost
    OBVIOUS
  <2>1. PICK j \in 1..n : a[i] = Anchor(tiers[j])
    BY AnchorsAreSorted
  <2>2. PICK l \in 1..n : a[m] = Anchor(tiers[l])
    BY AnchorsAreSorted
  <2>3. j \in DOMAIN tiers /\ l \in DOMAIN tiers /\ tiers[j] \in Tier /\ tiers[l] \in Tier
    BY <1>1
  <2> HIDE DEF a
  <2>4. tiers[j].cost <= tiers[l].cost
    BY <2>1, <2>2, <2>3 DEF CostsRise
  <2>5. a[i].cost = tiers[j].cost /\ a[m].cost = tiers[l].cost
    BY <2>1, <2>2, <2>3, AnchorType
  <2> QED BY <2>4, <2>5
<1>3. \A m \in 1..n : a[m].pci \in Nat /\ a[m].cost \in Nat
  <2> HIDE DEF a, n
  <2> QED BY <1>1
<1>4. Price(tiers, pci) =
        CASE n = 0 -> 0
          [] n > 0 /\ 2 * pci >= a[1].pci -> a[1].cost
          [] n > 0 /\ 2 * pci < a[1].pci /\ 2 * pci <= a[n].pci -> a[n].cost
          [] OTHER -> between
  BY <1>1 DEF Price, InterpolateCost
<1>5. Price(tiers, pci) \in Nat
  BY PriceType
<1>6. CASE 2 * pci < a[1].pci /\ 2 * pci > a[n].pci
  <2>1. n > 0
    BY <1>1
  <2>2. PICK i \in 1..n - 1 : /\ a[i].pci > 2 * pci /\ 2 * pci >= a[i + 1].pci
                              /\ Price(tiers, pci) = Between(a[i], a[i + 1], pci)
    BY <1>6, <2>1, Brackets
  <2> HIDE DEF a
  <2>3. i \in 1..n /\ i + 1 \in 1..n /\ k \in 1..n /\ (k <= i \/ i + 1 <= k)
    BY <1>1
  <2> HIDE DEF n
  <2>4. a[i].cost <= a[i + 1].cost
    <3>1. a[i].pci \in Nat /\ a[i + 1].pci \in Nat
      BY <1>3, <2>3
    <3>2. a[i + 1].pci <= a[i].pci
      BY <2>2, <3>1
    <3> QED BY <1>2, <2>3, <3>2
  <2>5. /\ a[i].cost <= Price(tiers, pci) /\ Price(tiers, pci) <= a[i + 1].cost
        /\ 2 * pci = a[i + 1].pci => Price(tiers, pci) = a[i + 1].cost
    <3>1. a[i] \in [pci : Nat, cost : Nat] /\ a[i + 1] \in [pci : Nat, cost : Nat]
      BY <1>1, <2>3
    <3> QED BY <2>2, <2>4, <3>1, BetweenAnchors
  <2>6. CASE k <= i
    <3>1. a[i].pci <= a[k].pci /\ a[k].cost <= a[i].cost
      BY <1>1, <1>2, <2>3, <2>6
    <3> QED BY <1>3, <1>5, <2>2, <2>3, <2>5, <3>1 DEF a
  <2>7. CASE i + 1 <= k
    <3>1. a[k].pci <= a[i + 1].pci /\ a[i + 1].cost <= a[k].cost
      BY <1>1, <1>2, <2>3, <2>7
    <3>2. a[k].pci >= 2 * pci => a[k].cost <= a[i + 1].cost /\ Price(tiers, pci) = a[i + 1].cost
      <4> SUFFICES ASSUME a[k].pci >= 2 * pci
                   PROVE  a[k].cost <= a[i + 1].cost /\ Price(tiers, pci) = a[i + 1].cost
        OBVIOUS
      <4>1. a[k].pci \in Nat /\ a[i + 1].pci \in Nat
        BY <1>3, <2>3
      <4>2. a[i + 1].pci <= a[k].pci /\ 2 * pci = a[i + 1].pci
        BY <2>2, <3>1, <4>1
      <4> QED BY <1>2, <2>3, <2>5, <4>2
    <3> QED BY <1>3, <1>5, <2>2, <2>3, <2>5, <3>1, <3>2 DEF a
  <2> QED BY <2>3, <2>6, <2>7
<1>7. CASE 2 * pci >= a[1].pci
  <2>0. k \in 1..n /\ 1 \in 1..n /\ 1 <= k /\ n > 0
    BY <1>1
  <2> HIDE DEF a, n, between
  <2>1. Price(tiers, pci) = a[1].cost
    <3>1. a[1].pci \in Nat
      BY <1>3, <2>0
    <3>2. n # 0 /\ ~(2 * pci < a[1].pci)
      BY <1>7, <2>0, <3>1
    <3> QED BY <1>4, <1>7, <2>0, <3>2
  <2>2. a[k].pci <= a[1].pci /\ a[1].cost <= a[k].cost
    BY <1>1, <1>2, <2>0
  <2>3. a[k].pci >= 2 * pci => a[k].cost <= a[1].cost
    <3>1. a[k].pci >= 2 * pci => a[1].pci <= a[k].pci
      <4>1. a[k].pci \in Nat /\ a[1].pci \in Nat
        BY <1>3, <2>0
      <4>2. SUFFICES ASSUME a[k].pci >= 2 * pci PROVE a[1].pci <= a[k].pci
        OBVIOUS
      <4>3. 2 * pci \in Int
        OBVIOUS
      <4>4. 2 * pci >= a[1].pci
        BY <1>7
      <4> QED BY <4>1, <4>2, <4>3, <4>4
    <3> QED BY <1>2, <2>0, <3>1
  <2> QED BY <2>1, <2>2, <2>3 DEF a
<1>8. CASE 2 * pci < a[1].pci /\ 2 * pci <= a[n].pci
  <2>0. k \in 1..n /\ n \in 1..n /\ k <= n /\ n > 0 /\ 1 \in 1..n
    BY <1>1
  <2> HIDE DEF a, n, between
  <2>1. Price(tiers, pci) = a[n].cost
    BY <1>3, <1>4, <1>8, <2>0
  <2>2. a[n].pci <= a[k].pci /\ a[k].cost <= a[n].cost
    BY <1>1, <1>2, <2>0
  <2>3. a[k].pci <= 2 * pci => a[n].cost <= a[k].cost
    <3>1. a[k].pci <= 2 * pci => a[k].pci <= a[n].pci
      <4>1. a[k].pci \in Nat /\ a[n].pci \in Nat
        BY <1>3, <2>0
      <4> QED BY <1>8, <4>1
    <3> QED BY <1>2, <2>0, <3>1
  <2> QED BY <2>1, <2>2, <2>3 DEF a
<1>9. 1 \in 1..n /\ n \in 1..n
  BY <1>1
<1> HIDE DEF a, n
<1> QED BY <1>3, <1>6, <1>7, <1>8, <1>9

\* Beyond the first and the last anchor the price is theirs.
LEMMA PriceAtTheEnds ==
  ASSUME NEW tiers \in Seq(Tier), NEW pci \in 0..100
  PROVE  /\ Len(tiers) = 0 => Price(tiers, pci) = 0
         /\ Len(tiers) > 0 /\ 2 * pci >= BuildAnchors(tiers)[1].pci
              => Price(tiers, pci) = BuildAnchors(tiers)[1].cost
         /\ Len(tiers) > 0 /\ 2 * pci < BuildAnchors(tiers)[1].pci
            /\ 2 * pci <= BuildAnchors(tiers)[Len(tiers)].pci
              => Price(tiers, pci) = BuildAnchors(tiers)[Len(tiers)].cost
<1> DEFINE a == BuildAnchors(tiers)
           n == Len(tiers)
           bracket == CHOOSE i \in 1..n - 1 : a[i].pci >= 2 * pci /\ 2 * pci >= a[i + 1].pci
                       /\ \A m \in 1..i - 1 : ~(a[m].pci >= 2 * pci /\ 2 * pci >= a[m + 1].pci)
           between == Between(a[bracket], a[bracket + 1], pci)
<1>1. n \in Nat /\ Len(a) = n /\ \A m \in 1..n : a[m] \in [pci : Nat, cost : Nat]
  <2>1. n \in Nat /\ DOMAIN a = 1..n /\ \A m \in 1..n : a[m] \in [pci : Nat, cost : Nat]
    BY AnchorsAreSorted
  <2> HIDE DEF a
  <2>2. a = [m \in 1..n |-> a[m]]
    BY DEF a, BuildAnchors
  <2> QED BY <2>1, <2>2
<1>2. Price(tiers, pci) =
        CASE n = 0 -> 0
          [] n > 0 /\ 2 * pci >= a[1].pci -> a[1].cost
          [] n > 0 /\ 2 * pci < a[1].pci /\ 2 * pci <= a[n].pci -> a[n].cost
          [] OTHER -> between
  BY <1>1 DEF Price, InterpolateCost
<1>3. n > 0 => a[1].pci \in Nat
  <2> HIDE DEF a, n
  <2> QED BY <1>1
<1>n. n \in Nat
  OBVIOUS
<1> HIDE DEF a, n, between
<1>4. n = 0 => Price(tiers, pci) = 0
  BY <1>2
<1>5. n > 0 /\ 2 * pci >= a[1].pci => Price(tiers, pci) = a[1].cost
  <2> SUFFICES ASSUME n > 0, 2 * pci >= a[1].pci PROVE Price(tiers, pci) = a[1].cost
    OBVIOUS
  <2>1. n # 0 /\ a[1].pci \in Nat
    BY <1>n, <1>3
  <2>2. ~(2 * pci < a[1].pci)
    BY <2>1
  <2> QED BY <1>2, <2>1, <2>2
<1>6. n > 0 /\ 2 * pci < a[1].pci /\ 2 * pci <= a[n].pci => Price(tiers, pci) = a[n].cost
  <2> SUFFICES ASSUME n > 0, 2 * pci < a[1].pci, 2 * pci <= a[n].pci PROVE Price(tiers, pci) = a[n].cost
    OBVIOUS
  <2>1. n # 0 /\ a[1].pci \in Nat
    BY <1>n, <1>3
  <2>2. ~(2 * pci >= a[1].pci)
    BY <2>1
  <2> QED BY <1>2, <2>1, <2>2
<1> QED BY <1>4, <1>5, <1>6 DEF a, n

\* Where costs rise as the middles fall, a better condition costs no more.
LEMMA PriceFalls ==
  ASSUME NEW tiers \in Seq(Tier), CostsRise(tiers), NEW p \in 0..100, NEW q \in 0..100, p <= q
  PROVE  Price(tiers, q) <= Price(tiers, p)
<1> DEFINE a == BuildAnchors(tiers)
           n == Len(tiers)
<1>1. /\ n \in Nat /\ Len(a) = n /\ \A m \in 1..n : a[m] \in [pci : Nat, cost : Nat]
      /\ \A i, m \in 1..n : i <= m => a[m].pci <= a[i].pci
  <2>1. n \in Nat /\ DOMAIN a = 1..n /\ \A m \in 1..n : a[m] \in [pci : Nat, cost : Nat]
    BY AnchorsAreSorted
  <2>2. \A i, m \in 1..n : i <= m => a[m].pci <= a[i].pci
    BY AnchorsAreSorted
  <2> HIDE DEF a
  <2>3. a = [m \in 1..n |-> a[m]]
    BY DEF a, BuildAnchors
  <2> QED BY <2>1, <2>2, <2>3
<1>2. \A m \in 1..n : a[m].pci \in Nat /\ a[m].cost \in Nat
  <2> HIDE DEF a, n
  <2> QED BY <1>1
<1>3. Price(tiers, p) \in Nat /\ Price(tiers, q) \in Nat
  BY PriceType
<1>4. CASE \E m \in 1..n : 2 * p <= a[m].pci /\ a[m].pci <= 2 * q
  <2>1. PICK m \in 1..n : 2 * p <= a[m].pci /\ a[m].pci <= 2 * q
    BY <1>4
  <2>2. a[m].cost <= Price(tiers, p)
    BY <2>1, <1>2, PriceIsBetween
  <2>3. Price(tiers, q) <= a[m].cost
    BY <2>1, <1>2, PriceIsBetween
  <2>4. a[m].cost \in Nat
    BY <1>2
  <2> QED BY <1>3, <2>2, <2>3, <2>4
<1>5. CASE /\ ~\E m \in 1..n : 2 * p <= a[m].pci /\ a[m].pci <= 2 * q
           /\ n > 0 /\ 2 * q < a[1].pci /\ 2 * p > a[n].pci
  <2>1. 1 \in 1..n /\ n \in 1..n
    BY <1>1, <1>5
  <2>2. 2 * p < a[1].pci /\ 2 * q > a[n].pci
    <3>1. a[1].pci \in Nat /\ a[n].pci \in Nat
      BY <1>2, <2>1
    <3>2. 2 * p <= 2 * q
      OBVIOUS
    <3> HIDE DEF a, n
    <3> QED BY <1>5, <3>1, <3>2
  <2>3. PICK i \in 1..n - 1 : /\ a[i].pci > 2 * p /\ 2 * p >= a[i + 1].pci
                              /\ Price(tiers, p) = Between(a[i], a[i + 1], p)
    BY <1>5, <2>2, Brackets
  <2>4. PICK j \in 1..n - 1 : /\ a[j].pci > 2 * q /\ 2 * q >= a[j + 1].pci
                              /\ Price(tiers, q) = Between(a[j], a[j + 1], q)
    BY <1>5, <2>2, Brackets
  <2> HIDE DEF a
  <2>5. /\ i \in 1..n /\ i + 1 \in 1..n /\ j \in 1..n /\ j + 1 \in 1..n
        /\ (i < j => i + 1 <= j) /\ (j < i => j + 1 <= i)
    BY <1>1
  <2> HIDE DEF n
  <2>6. ~(i < j)
    <3> SUFFICES ASSUME i < j PROVE FALSE
      OBVIOUS
    <3>1. a[j].pci <= a[i + 1].pci
      BY <1>1, <2>5
    <3>2. a[j].pci \in Nat /\ a[i + 1].pci \in Nat
      BY <1>2, <2>5
    <3>3. a[j].pci > 2 * q /\ 2 * p >= a[i + 1].pci
      BY <2>3, <2>4
    <3> DEFINE here == a[j].pci
               there == a[i + 1].pci
    <3> HIDE DEF here, there
    <3>4. here \in Nat /\ there \in Nat /\ here <= there /\ here > 2 * q /\ 2 * p >= there
      BY <3>1, <3>2, <3>3 DEF here, there
    <3> QED BY <3>4
  <2>7. ~(j < i)
    <3> SUFFICES ASSUME j < i PROVE FALSE
      OBVIOUS
    <3>1. a[i].pci <= a[j + 1].pci
      BY <1>1, <2>5
    <3>2. a[i].pci \in Nat /\ a[j + 1].pci \in Nat
      BY <1>2, <2>5
    <3>3. ~(2 * p <= a[j + 1].pci)
      BY <1>5, <2>4, <2>5
    <3> QED BY <2>3, <3>1, <3>2, <3>3
  <2>8. i = j
    BY <2>5, <2>6, <2>7
  <2> DEFINE hi == a[i]
             lo == a[i + 1]
             rise == lo.cost - hi.cost
             span == hi.pci - lo.pci
  <2>9. hi.pci \in Nat /\ lo.pci \in Nat /\ hi.cost \in Nat /\ lo.cost \in Nat
    BY <1>2, <2>5
  <2>10. rise \in Nat /\ span \in Nat \ {0}
    <3>1. hi.cost <= lo.cost
      <4>0. i \in 1..Len(tiers) /\ i + 1 \in 1..Len(tiers) /\ a[i].pci >= 2 * p
        BY <2>3, <2>5, <2>9 DEF n
      <4>1. a[i].cost <= Price(tiers, p)
        BY <4>0, PriceIsBetween DEF a
      <4>2. Price(tiers, p) <= a[i + 1].cost
        BY <2>3, <4>0, PriceIsBetween DEF a
      <4> QED BY <1>3, <2>9, <4>1, <4>2
    <3> QED BY <2>3, <2>9, <3>1
  <2>11. /\ Price(tiers, p) = hi.cost + ((hi.pci - 2 * p) * rise) \div span
         /\ Price(tiers, q) = hi.cost + ((hi.pci - 2 * q) * rise) \div span
    <3>1. hi.pci # lo.pci
      BY <2>3, <2>9
    <3> QED BY <2>3, <2>4, <2>8, <3>1 DEF Between
  <2> HIDE DEF hi, lo, rise, span
  <2>12. (hi.pci - 2 * q) * rise <= (hi.pci - 2 * p) * rise
    <3>1. hi.pci - 2 * q \in Int /\ hi.pci - 2 * p \in Int /\ hi.pci - 2 * q <= hi.pci - 2 * p
      BY <2>9
    <3> QED BY <2>10, <3>1, Times
  <2>13. ((hi.pci - 2 * q) * rise) \div span <= ((hi.pci - 2 * p) * rise) \div span
    <3>1. (hi.pci - 2 * q) * rise \in Int /\ (hi.pci - 2 * p) * rise \in Int
      BY <2>9, <2>10
    <3> QED BY <2>10, <2>12, <3>1, QuotientsRise
  <2>14. ((hi.pci - 2 * q) * rise) \div span \in Int /\ ((hi.pci - 2 * p) * rise) \div span \in Int
    <3>1. (hi.pci - 2 * q) * rise \in Int /\ (hi.pci - 2 * p) * rise \in Int
      BY <2>9, <2>10
    <3> QED BY <2>10, <3>1, QuotientBounds
  <2> QED BY <2>9, <2>11, <2>13, <2>14
<1>6. CASE /\ ~\E m \in 1..n : 2 * p <= a[m].pci /\ a[m].pci <= 2 * q
           /\ (n = 0 \/ 2 * q >= a[1].pci)
  <2>1. n = 0 \/ (n > 0 /\ 2 * p >= a[1].pci /\ 2 * q >= a[1].pci)
    <3>1. n # 0 => 1 \in 1..n /\ n > 0
      BY <1>1
    <3> HIDE DEF a, n
    <3> QED BY <1>2, <1>6, <3>1
  <2>2. Price(tiers, p) = Price(tiers, q)
    <3>1. \A x \in {p, q} : Price(tiers, x) = IF n = 0 THEN 0 ELSE a[1].cost
      <4> SUFFICES ASSUME NEW x \in {p, q} PROVE Price(tiers, x) = IF n = 0 THEN 0 ELSE a[1].cost
        OBVIOUS
      <4>1. n = 0 => Price(tiers, x) = 0
        BY PriceAtTheEnds
      <4>2. n > 0 /\ 2 * x >= a[1].pci => Price(tiers, x) = a[1].cost
        BY PriceAtTheEnds
      <4> HIDE DEF a, n
      <4> QED BY <2>1, <4>1, <4>2
    <3> QED BY <3>1
  <2> QED BY <1>3, <2>2
<1>7. CASE /\ ~\E m \in 1..n : 2 * p <= a[m].pci /\ a[m].pci <= 2 * q
           /\ n > 0 /\ 2 * q < a[1].pci /\ 2 * p <= a[n].pci
  <2>1. 2 * p < a[1].pci /\ 2 * q <= a[n].pci
    <3>1. 1 \in 1..n /\ n \in 1..n
      BY <1>1, <1>7
    <3> DEFINE first == a[1].pci
               last == a[n].pci
    <3>2. first \in Nat /\ last \in Nat /\ 2 * q < first /\ 2 * p <= last
          /\ ~(2 * p <= first /\ first <= 2 * q) /\ ~(2 * p <= last /\ last <= 2 * q)
      <4> HIDE DEF a, n
      <4> QED BY <1>2, <1>7, <3>1
    <3> HIDE DEF first, last
    <3>3. 2 * p < first /\ 2 * q <= last
      BY <3>2
    <3> QED BY <3>3 DEF first, last
  <2>2. Price(tiers, p) = Price(tiers, q)
    <3>1. Price(tiers, p) = a[n].cost
      BY <1>7, <2>1, PriceAtTheEnds
    <3>2. Price(tiers, q) = a[n].cost
      BY <1>7, <2>1, PriceAtTheEnds
    <3> QED BY <3>1, <3>2
  <2> QED BY <1>3, <2>2
<1>8. n > 0 => a[1].pci \in Nat /\ a[n].pci \in Nat
  <2>1. n > 0 => 1 \in 1..n /\ n \in 1..n
    BY <1>1
  <2> HIDE DEF a, n
  <2> QED BY <1>2, <2>1
<1> HIDE DEF a, n
<1> QED BY <1>1, <1>4, <1>5, <1>6, <1>7, <1>8

-----------------------------------------------------------------------------
(* The networks there are.                                                 *)
IsNetwork(net) ==
  /\ net.cohorts \in Seq(Pavement) /\ net.tiers \in Seq(Tier)
  /\ net.growth \in Int /\ net.cycle \in Nat \ {0}

\* A cohort and the bands it is spread into.
LEMMA SpreadType ==
  ASSUME NEW cohort \in Pavement
  PROVE  Spread(cohort) \in Seq(Pavement)
<1>1. cohort.pci \in 0..100
  BY DEF Pavement
<1> DEFINE d == Min({cohort.pci, 100 - cohort.pci}) \div 2
<1>2. d \in Int /\ 0 <= d /\ d <= cohort.pci /\ d <= 100 - cohort.pci
  <2> DEFINE p == cohort.pci
             least == Min({p, 100 - p})
  <2>1. p \in 0..100 /\ 100 - p \in Int
    BY <1>1
  <2> HIDE DEF p
  <2>2. least = IF p <= 100 - p THEN p ELSE 100 - p
    BY <2>1, MinMax
  <2>3. least \in 0..100 /\ least <= p /\ least <= 100 - p
    BY <2>1, <2>2
  <2> HIDE DEF least
  <2>4. least \div 2 \in Int /\ 0 <= least \div 2 /\ least \div 2 <= least
    BY <2>3
  <2> QED BY <2>1, <2>3, <2>4 DEF p, least
<1> HIDE DEF d
<1>3. cohort.pci + d \in 0..100 /\ cohort.pci - d \in 0..100
  BY <1>1, <1>2
<1>4. /\ [cohort EXCEPT !.pci = cohort.pci + d] \in Pavement
      /\ [cohort EXCEPT !.pci = cohort.pci - d] \in Pavement
  BY <1>3 DEF Pavement
<1>5. Spread(cohort) = <<cohort, cohort>>
      \/ Spread(cohort) = <<[cohort EXCEPT !.pci = cohort.pci + d], [cohort EXCEPT !.pci = cohort.pci - d]>>
  BY DEF Spread, d
<1>6. \A a, b \in Pavement : <<a, b>> \in Seq(Pavement)
  <2> DEFINE T == Pavement
  <2> HIDE DEF T
  <2>1. \A a, b \in T : <<a, b>> \in Seq(T)
    OBVIOUS
  <2> QED BY <2>1 DEF T
<1> QED BY <1>4, <1>5, <1>6

\* What a forecast is made of.
LEMMA BasisType ==
  ASSUME NEW net \in Bases
  PROVE  IsNetwork(net)
<1>1. PICK stated \in Networks : net = Basis(stated)
  BY DEF Bases
<1>2. /\ stated.all \in Seq(Pavement) /\ stated.city \in Seq(Pavement)
      /\ stated.tiers \in Seq(Tier) /\ stated.growth \in Int /\ stated.cycle \in Nat \ {0}
  BY NetworkAssumption DEF Tier
<1>3. ASSUME NEW cohorts \in Seq(Pavement) PROVE ApplyConditionSpread(cohorts) \in Seq(Pavement)
  <2> DEFINE seqs == [j \in DOMAIN cohorts |-> Spread(cohorts[j])]
  <2>1. Len(cohorts) \in Nat /\ DOMAIN cohorts = 1..Len(cohorts)
    OBVIOUS
  <2>2. \A j \in DOMAIN cohorts : cohorts[j] \in Pavement
    OBVIOUS
  <2>3. seqs \in [1..Len(cohorts) -> Seq(Pavement)]
    BY <2>1, <2>2, SpreadType
  <2> HIDE DEF seqs
  <2>4. FlattenSeq(seqs) \in Seq(Pavement)
    BY <2>1, <2>3, FlattenType
  <2> QED BY <2>4 DEF ApplyConditionSpread, seqs
<1>4. PrimaryCohorts(stated.city, stated.all) \in Seq(Pavement)
  <2>1. PrimaryCohorts(stated.city, stated.all) \in {ApplyConditionSpread(stated.all), ApplyConditionSpread(stated.city)}
    BY DEF PrimaryCohorts
  <2> QED BY <1>2, <1>3, <2>1
<1> QED BY <1>1, <1>2, <1>4 DEF Basis, IsNetwork

-----------------------------------------------------------------------------
(* A year.                                                                 *)
IsScenario(s) == s.budget \in Nat /\ s.full \in BOOLEAN
IsYear(net, r) ==
  /\ r.year \in Nat /\ r.backlog \in Nat
  /\ r.pci = [j \in DOMAIN net.cohorts |-> r.pci[j]]
  /\ \A j \in DOMAIN net.cohorts : r.pci[j] \in 0..100
Decayed(net, before) == [j \in DOMAIN before.pci |-> DecayOneStep(net.cohorts[j], before.pci[j])]
NeedAfter(net, before) == Need(net, before.year + 1, Decayed(net, before))

\* The cohorts of a network.
LEMMA CohortTypes ==
  ASSUME NEW net, IsNetwork(net)
  PROVE  /\ IsFiniteSet(DOMAIN net.cohorts)
         /\ \A j \in DOMAIN net.cohorts :
              /\ net.cohorts[j].area \in Nat /\ net.cohorts[j].keep \in 0..100
              /\ net.cohorts[j].pci \in 0..100
<1> DEFINE c == net.cohorts
<1>1. c \in Seq(Pavement)
  BY DEF IsNetwork
<1> HIDE DEF c
<1>2. Len(c) \in Nat /\ DOMAIN c = 1..Len(c) /\ \A j \in DOMAIN c : c[j] \in Pavement
  BY <1>1
<1>3. IsFiniteSet(1..Len(c))
  BY <1>2, FS_Interval
<1>4. \A j \in DOMAIN c : c[j].area \in Nat /\ c[j].keep \in 0..100 /\ c[j].pci \in 0..100
  BY <1>2 DEF Pavement
<1> QED BY <1>2, <1>3, <1>4 DEF c

\* A simulation starts from the conditions of today.
LEMMA TodayIsAYear ==
  ASSUME NEW net, IsNetwork(net)
  PROVE  IsYear(net, Today(net))
BY CohortTypes DEF IsYear, Today

\* Decay never raises a condition, and keeps the order of two.
LEMMA DecayFalls ==
  ASSUME NEW cohort, cohort.keep \in 0..100, NEW p \in 0..100, NEW q \in 0..100
  PROVE  /\ DecayOneStep(cohort, p) \in 0..p
         /\ p <= q => DecayOneStep(cohort, p) <= DecayOneStep(cohort, q)
<1> DEFINE k == cohort.keep
<1>1. k \in Nat /\ k <= 100
  OBVIOUS
<1> HIDE DEF k
<1>2. 0 * 100 <= p * k /\ p * k <= p * 100
  <2>1. k * p <= 100 * p
    BY <1>1, Times
  <2>2. 0 * k <= p * k
    BY <1>1, Times
  <2> QED BY <1>1, <2>1, <2>2
<1>3. p * k \in Int /\ q * k \in Int
  BY <1>1
<1>4. (p * k) \div 100 \in Int /\ (p * k) \div 100 <= p /\ 0 <= (p * k) \div 100
  BY <1>2, <1>3, QuotientBounds, QuotientIsAtLeast, QuotientIsAtMost
<1>5. p <= q => (p * k) \div 100 <= (q * k) \div 100
  <2> SUFFICES ASSUME p <= q PROVE (p * k) \div 100 <= (q * k) \div 100
    OBVIOUS
  <2>1. p * k <= q * k
    BY <1>1, Times
  <2> QED BY <1>3, <2>1, QuotientsRise
<1> QED BY <1>4, <1>5 DEF DecayOneStep, k

\* Decay, cohort by cohort.
LEMMA DecayedType ==
  ASSUME NEW net, IsNetwork(net), NEW before, IsYear(net, before)
  PROVE  /\ Decayed(net, before) = [j \in DOMAIN net.cohorts |-> DecayOneStep(net.cohorts[j], before.pci[j])]
         /\ \A j \in DOMAIN net.cohorts : Decayed(net, before)[j] \in 0..before.pci[j]
<1>1. DOMAIN before.pci = DOMAIN net.cohorts /\ \A j \in DOMAIN net.cohorts : before.pci[j] \in 0..100
  BY DEF IsYear
<1>2. Decayed(net, before) = [j \in DOMAIN net.cohorts |-> DecayOneStep(net.cohorts[j], before.pci[j])]
  BY <1>1 DEF Decayed
<1>3. ASSUME NEW j \in DOMAIN net.cohorts
      PROVE  DecayOneStep(net.cohorts[j], before.pci[j]) \in 0..before.pci[j]
  <2>1. net.cohorts[j].keep \in 0..100
    BY CohortTypes
  <2> QED BY <1>1, <2>1, DecayFalls
<1> QED BY <1>2, <1>3

\* Growth never makes the network less than nothing.
LEMMA GrowthType ==
  ASSUME NEW growth \in Int, NEW year \in Nat
  PROVE  EstimateGrowth(growth, year) \in Nat
<1> DEFINE more == 10 + growth * year
<1>1. more \in Int
  OBVIOUS
<1> HIDE DEF more
<1>2. Max({0, more}) \in Nat
  BY <1>1, MinMax
<1> QED BY <1>2 DEF EstimateGrowth, more

\* What a year needs depends on the conditions it starts from, not on money.
LEMMA NeedType ==
  ASSUME NEW net, IsNetwork(net), NEW year \in Nat,
         NEW decayed, \A j \in DOMAIN net.cohorts : decayed[j] \in 0..100
  PROVE  /\ Need(net, year, decayed) = [j \in DOMAIN net.cohorts |->
              (net.cohorts[j].area * EstimateGrowth(net.growth, year)) * Price(net.tiers, decayed[j])]
         /\ \A j \in DOMAIN net.cohorts : Need(net, year, decayed)[j] \in Nat
         /\ SumOf(Need(net, year, decayed)) \in Nat
         /\ \A j \in DOMAIN net.cohorts : Need(net, year, decayed)[j] <= SumOf(Need(net, year, decayed))
<1> DEFINE D == DOMAIN net.cohorts
           need == Need(net, year, decayed)
<1>1. need = [j \in D |-> (net.cohorts[j].area * EstimateGrowth(net.growth, year)) * Price(net.tiers, decayed[j])]
  BY DEF Need, ProjectCost, Price
<1>2. ASSUME NEW j \in D PROVE need[j] \in Nat
  <2>1. net.cohorts[j].area \in Nat
    BY CohortTypes
  <2>2. EstimateGrowth(net.growth, year) \in Nat
    BY GrowthType DEF IsNetwork
  <2>3. Price(net.tiers, decayed[j]) \in Nat
    BY PriceType DEF IsNetwork
  <2>4. ASSUME NEW a \in Nat, NEW b \in Nat, NEW c \in Nat PROVE (a * b) * c \in Nat
    OBVIOUS
  <2>5. need[j] = (net.cohorts[j].area * EstimateGrowth(net.growth, year)) * Price(net.tiers, decayed[j])
    BY <1>1
  <2> QED BY <2>1, <2>2, <2>3, <2>4, <2>5
<1>3. IsFiniteSet(D) /\ DOMAIN need = D
  BY <1>1, CohortTypes
<1> HIDE DEF D, need
<1>4. SumOf(need) = SumFunctionOnSet(need, D)
  BY <1>3 DEF SumOf, SumFunction
<1>5. SumFunctionOnSet(need, D) \in Nat
  BY <1>2, <1>3, SumNat
<1>6. ASSUME NEW j \in D PROVE need[j] <= SumFunctionOnSet(need, D)
  <2> DEFINE rest == D \ {j}
  <2>1. rest \in SUBSET D /\ j \in D \ rest /\ rest \cup {j} = D
    OBVIOUS
  <2>2. IsFiniteSet(rest) /\ \A i \in rest : need[i] \in Nat
    BY <1>2, <1>3, <2>1, FS_Subset
  <2> HIDE DEF rest
  <2>3. SumFunctionOnSet(need, rest) \in Nat
    BY <2>2, SumNat
  <2>4. \A i \in D : need[i] \in Int
    BY <1>2
  <2>5. SumFunctionOnSet(need, rest \cup {j}) = need[j] + SumFunctionOnSet(need, rest)
    BY <1>3, <2>1, <2>4, SumGrows
  <2>6. need[j] \in Nat
    BY <1>2
  <2> QED BY <2>1, <2>3, <2>5, <2>6
<1> QED BY <1>1, <1>2, <1>4, <1>5, <1>6 DEF D, need

\* What a cohort is paid out of a share in proportion to its need: at least
\* what it lacks when the money covers the year, and what it was given when not.
LEMMA Paid ==
  ASSUME NEW spend \in Nat, NEW need \in Nat, NEW total \in Nat, need <= total
  PROVE  LET paid == ActualSpend(spend * need, need, total)
         IN /\ paid \in Nat /\ paid <= spend * need
            /\ total <= spend => need * total <= paid
            /\ spend < total => paid = spend * need
<1> DEFINE share == spend * need
           due == need * total
           paid == ActualSpend(share, need, total)
<1>1. share \in Nat /\ due \in Nat
  OBVIOUS
<1>2. total <= spend => due <= share
  <2>1. total <= spend => total * need <= spend * need
    BY Times
  <2> QED BY <2>1
<1>3. spend < total /\ need > 0 => share < due
  <2> SUFFICES ASSUME spend < total, need > 0 PROVE share < due
    OBVIOUS
  <2>1. (spend + 1) * need <= total * need
    BY Times
  <2>2. (spend + 1) * need = share + need
    OBVIOUS
  <2>3. total * need = due
    OBVIOUS
  <2> HIDE DEF share, due
  <2> QED BY <1>1, <2>1, <2>2, <2>3
<1>4. need = 0 => share = 0 /\ due = 0
  OBVIOUS
<1>5. share <= 0 /\ need > 0 => spend = 0
  OBVIOUS
<1>6. spend = 0 => share = 0
  OBVIOUS
<1>7. paid = IF share <= 0 \/ need <= 0 THEN 0
             ELSE IF share >= due THEN due + Min({share - due, due}) ELSE share
  BY DEF ActualSpend
<1>8. total = 0 => due = 0
  OBVIOUS
<1> HIDE DEF share, due
<1>9. Min({share - due, due}) = IF share - due <= due THEN share - due ELSE due
  BY <1>1, MinMax
<1> DEFINE least == Min({share - due, due})
<1> HIDE DEF least, paid
<1>10. share >= due => least \in Nat /\ due + least <= share /\ due <= due + least
  BY <1>1, <1>9 DEF least
<1>11. /\ paid \in Nat /\ paid <= share
       /\ total <= spend => due <= paid
       /\ spend < total => paid = share
  <2>1. CASE need = 0
    BY <1>4, <1>7, <2>1
  <2>2. CASE need > 0 /\ share <= 0
    BY <1>1, <1>5, <1>7, <1>8, <2>2
  <2>3. CASE need > 0 /\ share > 0 /\ share >= due
    <3>1. paid = due + least
      BY <1>1, <1>7, <2>3 DEF least
    <3> QED BY <1>1, <1>3, <1>10, <2>3, <3>1
  <2>4. CASE need > 0 /\ share > 0 /\ share < due
    <3>1. paid = share
      BY <1>1, <1>7, <2>4
    <3> QED BY <1>1, <1>2, <2>4, <3>1
  <2> QED BY <1>1, <2>1, <2>2, <2>3, <2>4
<1> QED BY <1>11 DEF share, due, paid

\* Money never leaves a condition below the year's decay, nor above the scale.
LEMMA Recovered ==
  ASSUME NEW pci \in 0..100, NEW decayed \in 0..pci,
         NEW share \in Nat, NEW need \in Nat, NEW total \in Nat, need <= total, NEW strategy
  PROVE  ApplyCohortSpend(pci, decayed, share, need, total, strategy) \in decayed..100
<1> DEFINE due == need * total
           after == ApplyCohortSpend(pci, decayed, share, need, total, strategy)
<1>1. due \in Nat
  OBVIOUS
<1>2. CASE share <= 0 \/ need <= 0
  <2>1. after = decayed
    BY <1>2 DEF ApplyCohortSpend
  <2> QED BY <2>1
<1>3. CASE ~(share <= 0 \/ need <= 0)
  <2>1. due > 0
    <3>1. need > 0 /\ total > 0
      BY <1>3
    <3> QED BY <3>1
  <2> DEFINE least == Min({share - due, due})
             gain == (100 - pci) * least
             part == (pci - decayed) * share * Efficiency(strategy)
  <2>2. after = IF share >= due THEN Min({100, pci + gain \div due})
                ELSE Min({100, decayed + part \div (need * total * 10)})
    BY <1>3 DEF ApplyCohortSpend
  <2> HIDE DEF due
  <2>3. CASE share >= due
    <3>1. least \in Nat
      BY <1>1, <2>3, MinMax
    <3>2. gain \in Nat
      <4> HIDE DEF least
      <4> QED BY <3>1
    <3> HIDE DEF gain
    <3>3. gain \div due \in Nat
      <4>1. gain \div due \in Int
        BY <1>1, <2>1, <3>2, QuotientBounds
      <4>2. 0 <= gain \div due
        BY <1>1, <2>1, <3>2, QuotientIsAtLeast
      <4> QED BY <4>1, <4>2
    <3> DEFINE up == gain \div due
    <3> HIDE DEF up
    <3>4. Min({100, pci + up}) \in decayed..100
      BY <3>3, MinMax DEF up
    <3> QED BY <2>2, <2>3, <3>4 DEF up
  <2>4. CASE ~(share >= due)
    <3> DEFINE ten == need * total * 10
    <3>1. ten \in Nat \ {0}
      <4>1. ten = due * 10
        BY DEF due
      <4> QED BY <1>1, <2>1, <4>1
    <3>2. part \in Nat
      <4>1. Efficiency(strategy) \in Nat
        BY DEF Efficiency
      <4>2. pci - decayed \in Nat
        OBVIOUS
      <4>3. ASSUME NEW x \in Nat, NEW y \in Nat, NEW z \in Nat PROVE x * y * z \in Nat
        OBVIOUS
      <4> QED BY <4>1, <4>2, <4>3
    <3> HIDE DEF part, ten
    <3>3. part \div ten \in Nat
      <4>1. part \div ten \in Int
        BY <3>1, <3>2, QuotientBounds
      <4>2. 0 <= part \div ten
        BY <3>1, <3>2, QuotientIsAtLeast
      <4> QED BY <4>1, <4>2
    <3> DEFINE up == part \div ten
    <3> HIDE DEF up
    <3>4. Min({100, decayed + up}) \in decayed..100
      BY <3>3, MinMax DEF up
    <3> QED BY <2>2, <2>4, <3>4 DEF up, ten
  <2> QED BY <2>3, <2>4
<1> QED BY <1>2, <1>3

\* What a year spends is a natural number.
LEMMA SpendType ==
  ASSUME NEW s, IsScenario(s), NEW total \in Nat
  PROVE  TotalSpend(s, total) \in Nat
<1>1. CASE s.strategy = "do-nothing"
  BY <1>1 DEF TotalSpend
<1>2. CASE s.strategy # "do-nothing" /\ s.full
  BY <1>2 DEF TotalSpend
<1>3. CASE s.strategy # "do-nothing" /\ ~s.full
  BY <1>3 DEF TotalSpend, IsScenario
<1> QED BY <1>1, <1>2, <1>3 DEF IsScenario

\* A year of a typed year: what it needs, what of it is paid, and what is left.
Accounts(net, s, before, r) ==
  LET D == DOMAIN net.cohorts
      spend == TotalSpend(s, r.total)
  IN /\ IsYear(net, r) /\ r.year = before.year + 1
     /\ r.need = NeedAfter(net, before) /\ r.total = SumOf(r.need)
     /\ r.total \in Nat /\ spend \in Nat
     /\ DOMAIN r.need = D /\ DOMAIN r.actual = D
     /\ \A j \in D : /\ r.need[j] \in Nat /\ r.need[j] <= r.total
                     /\ r.actual[j] = ActualSpend(spend * r.need[j], r.need[j], r.total)
                     /\ r.pci[j] \in DecayOneStep(net.cohorts[j], before.pci[j])..100
     /\ r.unmet = Max({0, r.total * r.total - SumOf(r.actual)})
     /\ r.backlog = before.backlog + (IF r.total = 0 THEN 0 ELSE r.unmet \div r.total)
     /\ r.backlog >= before.backlog

\* A simulated year keeps these accounts.
LEMMA YearOf ==
  ASSUME NEW net, IsNetwork(net), NEW s, IsScenario(s), NEW before, IsYear(net, before)
  PROVE  Accounts(net, s, before, SimulateYear(net, s, before))
<1> DEFINE D == DOMAIN net.cohorts
           year == before.year + 1
           decayed == Decayed(net, before)
           need == Need(net, year, decayed)
           total == SumOf(need)
           spend == TotalSpend(s, total)
           share == IF s.full /\ s.strategy # "do-nothing"
                      THEN [j \in DOMAIN need |-> need[j] * total]
                      ELSE Distribute(need, TotalSpend(s, total), total)
           actual == [j \in DOMAIN need |-> ActualSpend(share[j], need[j], total)]
           pci == [j \in DOMAIN need |->
                     ApplyCohortSpend(before.pci[j], decayed[j], share[j], need[j], total, s.strategy)]
           unmet == Max({0, total * total - SumOf(actual)})
           backlog == before.backlog + (IF total = 0 THEN 0 ELSE unmet \div total)
           r == SimulateYear(net, s, before)
<1>1. /\ r.year = year /\ r.pci = pci /\ r.need = need /\ r.total = total /\ r.actual = actual
      /\ r.unmet = unmet /\ r.backlog = backlog
  BY DEF SimulateYear, Decayed
<1>2. year \in Nat /\ before.backlog \in Nat /\ \A j \in D : before.pci[j] \in 0..100
  BY DEF IsYear
<1>3. \A j \in D : /\ decayed[j] = DecayOneStep(net.cohorts[j], before.pci[j])
                   /\ decayed[j] \in 0..before.pci[j] /\ decayed[j] \in 0..100
  <2>1. \A j \in D : /\ decayed[j] = DecayOneStep(net.cohorts[j], before.pci[j])
                     /\ decayed[j] \in 0..before.pci[j]
    BY DecayedType
  <2> HIDE DEF D, decayed
  <2> QED BY <1>2, <2>1
<1> HIDE DEF year, decayed
<1>4. /\ DOMAIN need = D /\ total \in Nat
      /\ \A j \in D : need[j] \in Nat /\ need[j] <= total
  <2>1. \A j \in DOMAIN net.cohorts : decayed[j] \in 0..100
    BY <1>3
  <2>2. /\ need = [j \in D |-> (net.cohorts[j].area * EstimateGrowth(net.growth, year)) * Price(net.tiers, decayed[j])]
        /\ \A j \in D : need[j] \in Nat
        /\ total \in Nat
        /\ \A j \in D : need[j] <= total
    <3> HIDE DEF D
    <3>1. \A j \in D : decayed[j] \in 0..100
      BY <2>1 DEF D
    <3> QED BY <1>2, <3>1, NeedType, Zenon DEF D
  <2> HIDE DEF need, total, D
  <2>3. DOMAIN need = D
    BY <2>2
  <2> QED BY <2>2, <2>3
<1> HIDE DEF need, total
<1>5. spend \in Nat
  BY <1>4, SpendType
<1>6. \A j \in D : share[j] = spend * need[j]
  <2>1. CASE s.full /\ s.strategy # "do-nothing"
    <3>1. spend = total
      BY <2>1 DEF TotalSpend
    <3> QED BY <1>4, <2>1, <3>1
  <2>2. CASE ~(s.full /\ s.strategy # "do-nothing")
    <3>1. share = Distribute(need, spend, total)
      BY <2>2
    <3>2. \A j \in D : Distribute(need, spend, total)[j] = spend * need[j]
      BY <1>4 DEF Distribute
    <3> HIDE DEF share, spend
    <3> QED BY <3>1, <3>2
  <2> QED BY <2>1, <2>2
<1> HIDE DEF share, spend
<1>7. \A j \in D : actual[j] = ActualSpend(spend * need[j], need[j], total) /\ actual[j] \in Nat
  <2> SUFFICES ASSUME NEW j \in D
               PROVE  actual[j] = ActualSpend(spend * need[j], need[j], total) /\ actual[j] \in Nat
    OBVIOUS
  <2>1. actual[j] = ActualSpend(spend * need[j], need[j], total)
    BY <1>4, <1>6
  <2>2. ActualSpend(spend * need[j], need[j], total) \in Nat
    BY <1>4, <1>5, Paid
  <2> QED BY <2>1, <2>2
<1>8. \A j \in D : pci[j] \in DecayOneStep(net.cohorts[j], before.pci[j])..100 /\ pci[j] \in 0..100
  <2> SUFFICES ASSUME NEW j \in D
               PROVE  pci[j] \in DecayOneStep(net.cohorts[j], before.pci[j])..100 /\ pci[j] \in 0..100
    OBVIOUS
  <2>1. pci[j] = ApplyCohortSpend(before.pci[j], decayed[j], share[j], need[j], total, s.strategy)
    BY <1>4
  <2>2. share[j] \in Nat
    BY <1>4, <1>5, <1>6
  <2>3. before.pci[j] \in 0..100 /\ decayed[j] \in 0..before.pci[j]
    BY <1>2, <1>3
  <2>4. pci[j] \in decayed[j]..100
    BY <1>4, <2>1, <2>2, <2>3, Recovered
  <2> HIDE DEF pci
  <2>5. decayed[j] = DecayOneStep(net.cohorts[j], before.pci[j])
    BY <1>3
  <2> QED BY <2>3, <2>4, <2>5
<1>9. unmet \in Nat
  <2>1. IsFiniteSet(D) /\ DOMAIN actual = D
    BY <1>4, CohortTypes
  <2> HIDE DEF D, actual
  <2>2. SumOf(actual) \in Nat
    BY <1>7, <2>1, SumNat DEF SumOf, SumFunction
  <2> DEFINE left == total * total - SumOf(actual)
  <2>3. left \in Int
    BY <1>4, <2>2
  <2> HIDE DEF left
  <2>4. Max({0, left}) \in Nat
    BY <2>3, MinMax
  <2> QED BY <2>4 DEF left
<1>10. DOMAIN actual = D /\ DOMAIN pci = D /\ pci = [j \in D |-> pci[j]]
  BY <1>4
<1> HIDE DEF actual, pci, unmet
<1>11. backlog \in Nat /\ backlog >= before.backlog
  <2>1. CASE total = 0
    BY <1>2, <2>1
  <2>2. CASE total # 0
    <3>1. unmet \div total \in Nat
      <4>1. unmet \div total \in Int
        BY <1>4, <1>9, <2>2, QuotientBounds
      <4>2. 0 <= unmet \div total
        BY <1>4, <1>9, <2>2, QuotientIsAtLeast
      <4> QED BY <4>1, <4>2
    <3> DEFINE q == unmet \div total
    <3> HIDE DEF q
    <3>2. backlog = before.backlog + q
      BY <2>2 DEF q
    <3>3. q \in Nat
      BY <3>1 DEF q
    <3> HIDE DEF backlog
    <3> QED BY <1>2, <3>2, <3>3
  <2> QED BY <2>1, <2>2
<1>12. r.need = NeedAfter(net, before) /\ r.total = SumOf(r.need)
  BY <1>1 DEF NeedAfter, need, total, decayed, year
<1>13. spend = TotalSpend(s, total) /\ unmet = Max({0, total * total - SumOf(actual)})
  BY DEF spend, unmet
<1>14. IsYear(net, r) /\ r.year = before.year + 1
  BY <1>1, <1>2, <1>8, <1>10, <1>11 DEF IsYear, year
<1> HIDE DEF r
<1>15. \A j \in D : /\ r.need[j] \in Nat /\ r.need[j] <= r.total
                    /\ r.actual[j] = ActualSpend(spend * r.need[j], r.need[j], r.total)
                    /\ r.pci[j] \in DecayOneStep(net.cohorts[j], before.pci[j])..100
  BY <1>1, <1>4, <1>7, <1>8
<1>16. /\ r.total \in Nat /\ TotalSpend(s, r.total) \in Nat /\ DOMAIN r.need = D /\ DOMAIN r.actual = D
       /\ r.unmet = Max({0, r.total * r.total - SumOf(r.actual)})
       /\ r.backlog = before.backlog + (IF r.total = 0 THEN 0 ELSE r.unmet \div r.total)
       /\ r.backlog >= before.backlog /\ spend = TotalSpend(s, r.total)
  BY <1>1, <1>4, <1>5, <1>10, <1>11, <1>13
<1>17. Accounts(net, s, before, r)
  BY <1>12, <1>14, <1>15, <1>16 DEF Accounts
<1> QED BY <1>17 DEF r

\* A year leads to a year.
LEMMA YearType ==
  ASSUME NEW net, IsNetwork(net), NEW s, IsScenario(s), NEW before, IsYear(net, before)
  PROVE  IsYear(net, SimulateYear(net, s, before)) /\ SimulateYear(net, s, before).total \in Nat
BY YearOf DEF Accounts

-----------------------------------------------------------------------------
(* A simulation, year by year.                                             *)
\* A simulation is the years one after the other, each a typed year.
LEMMA Simulated ==
  ASSUME NEW net, IsNetwork(net), NEW s, IsScenario(s), NEW years \in Nat \ {0}
  PROVE  LET sim == Simulate(net, s, years)
         IN /\ sim = [y \in 1..years |-> sim[y]]
            /\ sim[1] = SimulateYear(net, s, Today(net))
            /\ \A y \in 1..years - 1 : sim[y + 1] = SimulateYear(net, s, sim[y])
            /\ \A y \in 1..years : IsYear(net, sim[y])
<1> DEFINE After(n, f) == f = [y \in 0..n |-> IF y = 0 THEN Today(net) ELSE SimulateYear(net, s, f[y - 1])]
           N == {n \in Nat : \E f : After(n, f)}
<1>1. 0 \in N
  <2>1. After(0, [y \in 0..0 |-> Today(net)])
    OBVIOUS
  <2> QED BY <2>1
<1>2. ASSUME NEW n \in Nat, n \in N PROVE n + 1 \in N
  <2>1. PICK f : After(n, f)
    BY <1>2
  <2> DEFINE more == [y \in 0..(n + 1) |-> IF y <= n THEN f[y] ELSE SimulateYear(net, s, f[n])]
  <2>2. more[0] = Today(net)
    BY <2>1
  <2>3. ASSUME NEW y \in 1..(n + 1) PROVE more[y] = SimulateYear(net, s, more[y - 1])
    <3>1. CASE y <= n
      <4>1. f[y] = SimulateYear(net, s, f[y - 1])
        BY <2>1, <3>1
      <4>2. more[y] = f[y] /\ more[y - 1] = f[y - 1]
        BY <3>1
      <4> QED BY <4>1, <4>2
    <3>2. CASE y = n + 1
      <4>1. more[y] = SimulateYear(net, s, f[n]) /\ more[y - 1] = f[n]
        BY <3>2
      <4> QED BY <4>1, <3>2
    <3> QED BY <3>1, <3>2
  <2>4. After(n + 1, more)
    <3>1. more = [y \in 0..(n + 1) |-> more[y]]
      OBVIOUS
    <3> HIDE DEF more
    <3>2. \A y \in 0..(n + 1) : more[y] = IF y = 0 THEN Today(net) ELSE SimulateYear(net, s, more[y - 1])
      BY <2>2, <2>3
    <3> QED BY <3>1, <3>2
  <2> HIDE DEF more
  <2> QED BY <2>4
<1>3. Nat \subseteq N
  <2> HIDE DEF N
  <2> QED BY <1>1, <1>2, FromZeroOn
<1> DEFINE after == CHOOSE f : After(years, f)
           sim == Simulate(net, s, years)
<1>4. After(years, after)
  BY <1>3
<1>5. sim = [y \in 1..years |-> after[y]]
  BY DEF Simulate
<1> HIDE DEF after, sim
<1>6. after[0] = Today(net) /\ \A y \in 1..years : after[y] = SimulateYear(net, s, after[y - 1])
  BY <1>4
<1>7. sim[1] = SimulateYear(net, s, Today(net))
  <2>1. 1 \in 1..years /\ 1 - 1 = 0
    OBVIOUS
  <2>2. after[1] = SimulateYear(net, s, after[0])
    BY <1>6, <2>1
  <2> QED BY <1>5, <1>6, <2>1, <2>2
<1>8. ASSUME NEW y \in 1..years - 1 PROVE sim[y + 1] = SimulateYear(net, s, sim[y])
  <2>1. y \in 1..years /\ y + 1 \in 1..years /\ (y + 1) - 1 = y
    OBVIOUS
  <2>2. after[y + 1] = SimulateYear(net, s, after[y])
    BY <1>6, <2>1
  <2> QED BY <1>5, <2>1, <2>2
<1> DEFINE M == {n \in Nat : n + 1 <= years => IsYear(net, sim[n + 1])}
<1>9. ASSUME NEW before, IsYear(net, before) PROVE IsYear(net, SimulateYear(net, s, before))
  BY <1>9, YearType
<1>10. 0 \in M
  <2>1. IsYear(net, sim[1])
    BY <1>7, <1>9, TodayIsAYear
  <2> QED BY <2>1
<1>11. ASSUME NEW n \in Nat, n \in M PROVE n + 1 \in M
  <2> SUFFICES ASSUME (n + 1) + 1 <= years PROVE IsYear(net, sim[(n + 1) + 1])
    OBVIOUS
  <2>1. IsYear(net, sim[n + 1]) /\ n + 1 \in 1..years - 1
    BY <1>11
  <2> QED BY <1>8, <1>9, <2>1
<1>12. ASSUME NEW y \in 1..years PROVE IsYear(net, sim[y])
  <2>1. y - 1 \in Nat /\ (y - 1) + 1 = y
    OBVIOUS
  <2>2. y - 1 \in M
    <3> HIDE DEF M
    <3> QED BY <1>10, <1>11, <2>1, FromZeroOn
  <2>3. (y - 1) + 1 <= years => IsYear(net, sim[(y - 1) + 1])
    BY <2>2
  <2> HIDE DEF M
  <2> QED BY <2>1, <2>3
<1>13. sim = [y \in 1..years |-> sim[y]]
  BY <1>5
<1> QED BY <1>7, <1>8, <1>12, <1>13 DEF sim

\* Doing nothing is a scenario.
LEMMA DoNothingType == IsScenario(DoNothing)
BY DEF DoNothing, IsScenario

\* So is a budget for the worst first.
LEMMA WorstFirstType ==
  ASSUME NEW budget \in Nat
  PROVE  IsScenario(WorstFirst(budget))
BY DEF WorstFirst, IsScenario

\* The greatest of as many numbers as there are.
LEMMA GreatestOf ==
  ASSUME NEW n \in Nat \ {0}, NEW f, \A y \in 1..n : f[y] \in Int
  PROVE  \E m \in 1..n : \A y \in 1..n : f[y] <= f[m]
<1> DEFINE P == {k \in Nat : k + 1 <= n => \E m \in 1..(k + 1) : \A y \in 1..(k + 1) : f[y] <= f[m]}
<1>1. 0 \in P
  <2>1. \A y \in 1..1 : y = 1 /\ f[y] \in Int /\ f[y] <= f[1]
    OBVIOUS
  <2> QED BY <2>1
<1>2. ASSUME NEW k \in Nat, k \in P PROVE k + 1 \in P
  <2> SUFFICES ASSUME (k + 1) + 1 <= n
               PROVE  \E m \in 1..((k + 1) + 1) : \A y \in 1..((k + 1) + 1) : f[y] <= f[m]
    OBVIOUS
  <2> DEFINE last == (k + 1) + 1
  <2>1. PICK m \in 1..(k + 1) : \A y \in 1..(k + 1) : f[y] <= f[m]
    BY <1>2
  <2>2. \A y \in 1..last : y \in 1..(k + 1) \/ y = last
    OBVIOUS
  <2>3. m \in 1..last /\ last \in 1..last /\ \A y \in 1..last : f[y] \in Int
    OBVIOUS
  <2> HIDE DEF last
  <2>4. CASE f[last] <= f[m]
    BY <2>1, <2>2, <2>3, <2>4 DEF last
  <2>5. CASE f[m] < f[last]
    <3>1. \A y \in 1..last : f[y] <= f[last]
      BY <2>1, <2>2, <2>3, <2>5
    <3> QED BY <2>3, <3>1 DEF last
  <2> QED BY <2>3, <2>4, <2>5
<1>3. n - 1 \in Nat /\ (n - 1) + 1 = n
  OBVIOUS
<1>4. n - 1 \in P
  <2> HIDE DEF P
  <2> QED BY <1>1, <1>2, <1>3, FromZeroOn
<1>5. (n - 1) + 1 <= n => \E m \in 1..((n - 1) + 1) : \A y \in 1..((n - 1) + 1) : f[y] <= f[m]
  BY <1>4
<1> HIDE DEF P
<1> QED BY <1>3, <1>5

\* The needs of the years of a run nothing is spent in.
LEMMA UnfundedNeeds ==
  ASSUME NEW net, IsNetwork(net)
  PROVE  /\ \A y \in 1..Years : DoingNothing(net)[y].total \in Nat
         /\ PeakNeed(net) \in Nat
         /\ \A y \in 1..Years : DoingNothing(net)[y].total <= PeakNeed(net)
<1> DEFINE sim == DoingNothing(net)
           totals == {sim[y].total : y \in 1..Years}
<1>0. Years \in Nat \ {0}
  BY ForecastAssumption
<1>1. /\ sim[1] = SimulateYear(net, DoNothing, Today(net))
      /\ \A y \in 1..Years - 1 : sim[y + 1] = SimulateYear(net, DoNothing, sim[y])
      /\ \A y \in 1..Years : IsYear(net, sim[y])
  BY <1>0, DoNothingType, Simulated DEF DoingNothing
<1> HIDE DEF sim
<1>2. ASSUME NEW y \in 1..Years PROVE sim[y].total \in Nat
  <2>1. CASE y = 1
    <3>1. SimulateYear(net, DoNothing, Today(net)).total \in Nat
      BY TodayIsAYear, DoNothingType, YearType
    <3> QED BY <1>1, <2>1, <3>1
  <2>2. CASE y # 1
    <3>1. y - 1 \in 1..Years - 1 /\ y - 1 \in 1..Years /\ (y - 1) + 1 = y
      BY <1>0, <2>2
    <3>2. sim[y] = SimulateYear(net, DoNothing, sim[y - 1]) /\ IsYear(net, sim[y - 1])
      BY <1>1, <3>1
    <3>3. SimulateYear(net, DoNothing, sim[y - 1]).total \in Nat
      BY <3>2, DoNothingType, YearType
    <3> QED BY <3>2, <3>3
  <2> QED BY <2>1, <2>2
<1> DEFINE f == [y \in 1..Years |-> sim[y].total]
<1>3. \E most \in totals : \A x \in totals : most >= x
  <2>1. \A y \in 1..Years : f[y] \in Int
    BY <1>2
  <2> HIDE DEF f
  <2>2. PICK m \in 1..Years : \A y \in 1..Years : f[y] <= f[m]
    BY <1>0, <2>1, GreatestOf
  <2>3. \A y \in 1..Years : f[y] = sim[y].total
    BY DEF f
  <2> QED BY <1>2, <2>2, <2>3
<1>4. PeakNeed(net) \in totals /\ \A x \in totals : PeakNeed(net) >= x
  BY <1>3 DEF PeakNeed, Max, sim
<1> QED BY <1>2, <1>4 DEF sim

-----------------------------------------------------------------------------
(* The deficits of a year.                                                 *)

\* What a cohort lacks, summed over all of them, is what the year leaves unmet.
Shared(D, spend, total, need, actual, lack, unmet) ==
  /\ IsFiniteSet(D) /\ total \in Nat /\ spend \in Nat
  /\ total = SumFunctionOnSet(need, D)
  /\ unmet = Max({0, total * total - SumFunctionOnSet(actual, D)})
  /\ \A j \in D : /\ need[j] \in Nat /\ need[j] <= total
                  /\ actual[j] = ActualSpend(spend * need[j], need[j], total)
                  /\ lack[j] = Max({0, need[j] * total - actual[j]})

\* The two ways to count what is left unmet agree: over the cohorts, and from the sums.
LEMMA LackOf ==
  ASSUME NEW D, NEW spend, NEW total, NEW need, NEW actual, NEW lack, NEW unmet,
         Shared(D, spend, total, need, actual, lack, unmet)
  PROVE  /\ unmet = SumFunctionOnSet(lack, D)
         /\ \A j \in D : lack[j] \in Nat
         /\ (\E j \in D : actual[j] > need[j] * total) => unmet = 0
         /\ SumFunctionOnSet(actual, D) <= spend * total
<1> DEFINE paid == SumFunctionOnSet(actual, D)
           lacked == SumFunctionOnSet(lack, D)
<1> USE DEF Shared
<1>1. IsFiniteSet(D) /\ total \in Nat /\ spend \in Nat
  OBVIOUS
<1>2. \A j \in D : /\ need[j] \in Nat /\ need[j] <= total
                   /\ actual[j] = ActualSpend(spend * need[j], need[j], total)
  OBVIOUS
<1>3. \A j \in D : lack[j] = Max({0, need[j] * total - actual[j]})
  OBVIOUS
<1>4. unmet = Max({0, total * total - paid})
  OBVIOUS
<1>5. SumFunctionOnSet(need, D) = total
  OBVIOUS
<1> HIDE DEF Shared
<1>6. ASSUME NEW j \in D
      PROVE  /\ actual[j] \in Nat /\ actual[j] <= spend * need[j]
             /\ total <= spend => need[j] * total <= actual[j]
             /\ spend < total => actual[j] = spend * need[j]
  <2> DEFINE a == ActualSpend(spend * need[j], need[j], total)
  <2>1. need[j] \in Nat /\ need[j] <= total /\ actual[j] = a
    BY <1>1, <1>2
  <2>2. /\ a \in Nat /\ a <= spend * need[j]
        /\ total <= spend => need[j] * total <= a
        /\ spend < total => a = spend * need[j]
    BY <1>1, <2>1, Paid
  <2> HIDE DEF a
  <2> QED BY <1>1, <2>1, <2>2
<1>0. \A x \in Int : Max({0, x}) = IF 0 <= x THEN x ELSE 0
  <2>1. 0 \in Int
    BY <1>1
  <2> QED BY <1>1, <2>1, MinMax, Zenon
<1> DEFINE due == [j \in D |-> total * need[j]]
           given == [j \in D |-> spend * need[j]]
<1>7. \A j \in D : due[j] \in Int /\ given[j] \in Int /\ need[j] \in Int
  BY <1>1, <1>2
<1>8. SumFunctionOnSet(due, D) = total * total /\ SumFunctionOnSet(given, D) = spend * total
  <2>1. \A j \in D : need[j] \in Int /\ due[j] = total * need[j] /\ given[j] = spend * need[j]
    BY <1>1, <1>7
  <2> HIDE DEF due, given
  <2>2. SumFunctionOnSet(due, D) = total * SumFunctionOnSet(need, D)
    BY <1>1, <2>1, SumScaled
  <2>3. SumFunctionOnSet(given, D) = spend * SumFunctionOnSet(need, D)
    BY <1>1, <2>1, SumScaled
  <2> QED BY <1>1, <1>5, <2>2, <2>3
<1>9. paid <= spend * total
  <2>1. \A j \in D : actual[j] \in Int /\ given[j] \in Int /\ actual[j] <= given[j]
    BY <1>1, <1>6, <1>7
  <2> HIDE DEF given
  <2>2. SumFunctionOnSet(actual, D) <= SumFunctionOnSet(given, D)
    BY <1>1, <2>1, SumMonotone
  <2> QED BY <1>1, <1>8, <2>2
<1>10. paid \in Nat
  BY <1>1, <1>6, SumNat
<1>11. total * total \in Nat /\ spend * total \in Nat
  BY <1>1
<1>12. ASSUME total <= spend
       PROVE  /\ unmet = lacked /\ unmet = 0
              /\ \A j \in D : lack[j] \in Nat
  <2>1. \A j \in D : /\ due[j] <= actual[j] /\ actual[j] \in Int /\ due[j] \in Int
                     /\ need[j] * total = due[j]
    BY <1>1, <1>2, <1>6, <1>7, <1>12
  <2> HIDE DEF due
  <2>2. total * total <= paid
    <3>1. SumFunctionOnSet(due, D) <= SumFunctionOnSet(actual, D)
      BY <1>1, <2>1, SumMonotone
    <3> QED BY <1>1, <1>8, <3>1
  <2>3. unmet = 0
    <3> DEFINE left == total * total - paid
    <3>1. left \in Int /\ left <= 0
      BY <1>1, <1>10, <1>11, <2>2
    <3>2. unmet = Max({0, left})
      BY <1>4
    <3> HIDE DEF left
    <3> QED BY <1>1, <3>1, <3>2, <1>0
  <2>4. \A j \in D : lack[j] = 0
    <3> SUFFICES ASSUME NEW j \in D PROVE lack[j] = 0
      OBVIOUS
    <3> DEFINE left == need[j] * total - actual[j]
    <3>1. left \in Int /\ left <= 0
      BY <1>1, <2>1
    <3>2. lack[j] = Max({0, left})
      BY <1>1, <1>3
    <3> HIDE DEF left
    <3> QED BY <1>1, <3>1, <3>2, <1>0
  <2>5. lacked = 0
    <3>1. \A j \in D : need[j] \in Int /\ lack[j] = 0 * need[j]
      BY <1>1, <1>7, <2>4
    <3>2. lacked = 0 * SumFunctionOnSet(need, D)
      BY <1>1, <3>1, SumScaled
    <3> QED BY <1>1, <1>5, <3>2
  <2> QED BY <1>1, <2>3, <2>4, <2>5
<1>13. ASSUME spend < total
       PROVE  /\ unmet = lacked
              /\ \A j \in D : lack[j] \in Nat
              /\ \A j \in D : actual[j] <= need[j] * total
  <2> DEFINE short == total - spend
  <2>1. short \in Nat /\ short * total \in Nat /\ short * total = total * total - spend * total
    BY <1>1, <1>13
  <2>2. paid = spend * total
    <3>1. \A j \in D : need[j] \in Int /\ actual[j] = spend * need[j]
      BY <1>1, <1>6, <1>7, <1>13
    <3>2. paid = spend * SumFunctionOnSet(need, D)
      BY <1>1, <3>1, SumScaled
    <3> QED BY <1>1, <1>5, <3>2
  <2>3. unmet = short * total
    <3> DEFINE left == total * total - paid
    <3>1. left = short * total
      BY <1>1, <2>1, <2>2
    <3>2. unmet = Max({0, left})
      BY <1>4
    <3> HIDE DEF left, short
    <3> QED BY <1>1, <2>1, <3>1, <3>2, <1>0
  <2> HIDE DEF short
  <2>4. ASSUME NEW j \in D
        PROVE  lack[j] = short * need[j] /\ lack[j] \in Nat /\ actual[j] <= need[j] * total
    <3> DEFINE left == need[j] * total - actual[j]
    <3>0. actual[j] = spend * need[j] /\ need[j] \in Nat
      BY <1>1, <1>2, <1>6, <1>13
    <3>1. left = short * need[j]
      <4>1. left = total * need[j] - spend * need[j]
        BY <1>1, <3>0
      <4>2. total * need[j] - spend * need[j] = (total - spend) * need[j]
        BY <1>1, <3>0
      <4> HIDE DEF left
      <4> QED BY <1>1, <4>1, <4>2 DEF short
    <3>2. short * need[j] \in Nat
      BY <1>1, <2>1, <3>0
    <3>3. lack[j] = Max({0, left})
      BY <1>1, <1>3
    <3>4. actual[j] <= need[j] * total
      <4>1. actual[j] \in Int /\ need[j] * total \in Int /\ need[j] * total - actual[j] \in Nat
        BY <1>1, <1>6, <3>0, <3>1, <3>2
      <4> QED BY <1>1, <4>1
    <3> HIDE DEF left
    <3>5. left \in Int /\ 0 <= left
      BY <1>1, <3>1, <3>2
    <3>6. lack[j] = left
      BY <1>1, <3>3, <3>5, <1>0
    <3> QED BY <1>1, <3>1, <3>2, <3>4, <3>6
  <2>5. lacked = short * total
    <3>1. \A j \in D : need[j] \in Int /\ lack[j] = short * need[j]
      BY <1>1, <1>7, <2>4
    <3>3. short \in Int
      BY <1>1, <2>1
    <3>2. lacked = short * SumFunctionOnSet(need, D)
      BY <1>1, <3>1, <3>3, SumScaled
    <3> QED BY <1>1, <1>5, <3>2
  <2> QED BY <1>1, <2>3, <2>4, <2>5
<1>14. total <= spend \/ spend < total
  BY <1>1
<1>15. (\E j \in D : actual[j] > need[j] * total) => unmet = 0
  <2> SUFFICES ASSUME NEW j \in D, actual[j] > need[j] * total PROVE unmet = 0
    OBVIOUS
  <2>1. actual[j] \in Nat /\ need[j] * total \in Nat
    BY <1>1, <1>2, <1>6
  <2>2. ~(spend < total)
    BY <1>1, <1>13, <2>1
  <2> QED BY <1>1, <1>12, <1>14, <2>2
<1> QED BY <1>1, <1>9, <1>12, <1>13, <1>14, <1>15

-----------------------------------------------------------------------------
(* The runs there are.                                                     *)
\* A sequence and what is appended to it.
LEMMA Appended ==
  ASSUME NEW T, NEW s \in Seq(T), NEW x
  PROVE  /\ Append(s, x) \in Seq(T \cup {x}) /\ Len(Append(s, x)) = Len(s) + 1 /\ Len(s) \in Nat
         /\ DOMAIN s = 1..Len(s) /\ DOMAIN Append(s, x) = 1..(Len(s) + 1)
         /\ Append(s, x)[Len(s) + 1] = x
         /\ \A i \in 1..Len(s) : Append(s, x)[i] = s[i]
<1> DEFINE U == T \cup {x}
<1>1. x \in U /\ T \subseteq U
  OBVIOUS
<1> HIDE DEF U
<1>2. s \in Seq(U)
  BY <1>1
<1> QED BY <1>1, <1>2 DEF U

\* Each year of a run is that of a typed year.
Reached(r) == \E before : IsYear(network, before) /\ r = SimulateYear(network, scenario, before)
RunInv ==
  /\ network \in Bases /\ IsNetwork(network) /\ IsScenario(scenario)
  /\ \E T : run \in Seq(T)
  /\ \A y \in DOMAIN run : Reached(run[y])

\* The scenarios an export forecasts.
LEMMA ScenarioType ==
  ASSUME NEW net, IsNetwork(net), NEW s \in Scenarios(net)
  PROVE  IsScenario(s)
<1>1. CASE s = DoNothing
  BY <1>1, DoNothingType
<1>2. CASE s \in DefaultComparisons(net)
  <2> DEFINE need == DoingNothing(net)[1].total
  <2>1. need \in Nat
    BY UnfundedNeeds, ForecastAssumption
  <2>2. s \in {WorstFirst(need \div 4), WorstFirst(need \div 2), [WorstFirst(0) EXCEPT !.full = TRUE]}
    BY <1>2 DEF DefaultComparisons
  <2> HIDE DEF need
  <2>3. need \div 4 \in Nat /\ need \div 2 \in Nat
    BY <2>1
  <2>4. IsScenario(WorstFirst(need \div 4)) /\ IsScenario(WorstFirst(need \div 2))
    BY <2>3, WorstFirstType
  <2>5. IsScenario([WorstFirst(0) EXCEPT !.full = TRUE])
    BY DEF WorstFirst, IsScenario
  <2> QED BY <2>2, <2>4, <2>5
<1>3. CASE s \in {[strategy |-> st, budget |-> b, full |-> FALSE] :
                    st \in {"worst-first", "preventive-first"}, b \in Budgets}
  <2>1. PICK st \in {"worst-first", "preventive-first"}, b \in Budgets :
          s = [strategy |-> st, budget |-> b, full |-> FALSE]
    BY <1>3
  <2>2. b \in Nat
    BY ForecastAssumption
  <2> QED BY <2>1, <2>2 DEF IsScenario
<1> QED BY <1>1, <1>2, <1>3 DEF Scenarios

\* Every year that is exported is one of a typed year.
LEMMA RunsAreReached == ForecastSpec => []RunInv
<1>1. ForecastInit => RunInv
  <2> SUFFICES ASSUME ForecastInit PROVE RunInv
    OBVIOUS
  <2>1. network \in Bases /\ IsNetwork(network)
    BY BasisType DEF ForecastInit
  <2>2. IsScenario(scenario)
    BY <2>1, ScenarioType DEF ForecastInit
  <2>3. run \in Seq({}) /\ DOMAIN run = {}
    BY DEF ForecastInit
  <2> QED BY <2>1, <2>2, <2>3 DEF RunInv
<1>2. RunInv /\ [ForecastNext]_forecastVars => RunInv'
  <2> SUFFICES ASSUME RunInv, [ForecastNext]_forecastVars PROVE RunInv'
    OBVIOUS
  <2>1. CASE RunYear
    <3> DEFINE before == IF run = <<>> THEN Today(network) ELSE Last(run)
               r == SimulateYear(network, scenario, before)
    <3>1. run' = Append(run, r) /\ network' = network /\ scenario' = scenario
      BY <2>1 DEF RunYear
    <3>2. PICK T : run \in Seq(T)
      BY DEF RunInv
    <3>3. IsYear(network, before)
      <4>1. CASE run = <<>>
        BY <4>1, TodayIsAYear DEF RunInv
      <4>2. CASE run # <<>>
        <5>1. Len(run) \in DOMAIN run
          BY <3>2, <4>2
        <5>2. PICK b : IsYear(network, b) /\ run[Len(run)] = SimulateYear(network, scenario, b)
          BY <5>1 DEF RunInv, Reached
        <5>3. IsYear(network, run[Len(run)])
          <6>1. IsNetwork(network) /\ IsScenario(scenario)
            BY DEF RunInv
          <6> QED BY <5>2, <6>1, YearType
        <5> QED BY <4>2, <5>3 DEF Last
      <4> QED BY <4>1, <4>2
    <3> HIDE DEF before
    <3>4. Reached(r)
      BY <3>3 DEF Reached
    <3> HIDE DEF r
    <3>5. /\ run' \in Seq(T \cup {r}) /\ DOMAIN run' = 1..(Len(run) + 1) /\ Len(run) \in Nat
          /\ DOMAIN run = 1..Len(run)
          /\ run'[Len(run) + 1] = r /\ \A i \in 1..Len(run) : run'[i] = run[i]
      BY <3>1, <3>2, Appended
    <3>6. \A y \in DOMAIN run' : Reached(run'[y])
      <4>1. \A y \in 1..Len(run) : Reached(run[y])
        BY <3>5 DEF RunInv
      <4> QED BY <3>4, <3>5, <4>1
    <3>7. \A x : Reached(x) <=> Reached(x)'
      BY <3>1 DEF Reached
    <3> QED BY <3>1, <3>5, <3>6, <3>7 DEF RunInv
  <2>2. CASE UNCHANGED <<network, scenario, run>>
    BY <2>2 DEF RunInv, Reached
  <2> QED BY <2>1, <2>2 DEF ForecastNext, BreakEvenBegins, Bisect, forecastVars
<1> QED BY <1>1, <1>2, PTL DEF ForecastSpec

\* Deficits add up: in every exported year the classes' deficits are the backlog of
\* the whole network, which is why a page may show either (DeficitsAddUpToBacklog).
THEOREM DeficitsAlwaysAddUp == ForecastSpec => []DeficitsAddUpToBacklog
<1>1. RunInv => DeficitsAddUpToBacklog
  <2> SUFFICES ASSUME RunInv, NEW y \in DOMAIN run
               PROVE  LET final == FinalCohorts(network, run)
                          r == run[y]
                      IN /\ r.unmet = SumOf([c \in DOMAIN final |-> final[c].deficits[y]])
                         /\ (\E j \in DOMAIN r.need : r.actual[j] > r.need[j] * r.total) => r.unmet = 0
                         /\ SumOf(r.actual) <= TotalSpend(scenario, r.total) * r.total
    BY DEF DeficitsAddUpToBacklog
  <2> DEFINE D == DOMAIN network.cohorts
             r == run[y]
             C == {network.cohorts[j].class : j \in D}
             lack == [j \in D |-> Max({0, r.need[j] * r.total - r.actual[j]})]
             class == [j \in D |-> network.cohorts[j].class]
             of == [c \in C |-> {j \in D : class[j] = c}]
             Of(c) == {j \in D : network.cohorts[j].class = c}
             deficits(c) == SumOf([j \in Of(c) |-> Max({0, r.need[j] * r.total - r.actual[j]})])
             final == FinalCohorts(network, run)
             parts == [c \in DOMAIN final |-> final[c].deficits[y]]
             spend == TotalSpend(scenario, r.total)
  <2>1. PICK before : IsYear(network, before) /\ r = SimulateYear(network, scenario, before)
    BY DEF RunInv, Reached
  <2>2. /\ r.total = SumOf(r.need) /\ r.total \in Nat /\ spend \in Nat
        /\ DOMAIN r.need = D /\ DOMAIN r.actual = D
        /\ r.unmet = Max({0, r.total * r.total - SumOf(r.actual)})
        /\ \A j \in D : /\ r.need[j] \in Nat /\ r.need[j] <= r.total
                        /\ r.actual[j] = ActualSpend(spend * r.need[j], r.need[j], r.total)
    <3>1. Accounts(network, scenario, before, r)
      <4>1. IsNetwork(network) /\ IsScenario(scenario)
        BY DEF RunInv
      <4> HIDE DEF r
      <4> QED BY <2>1, <4>1, YearOf
    <3> HIDE DEF r
    <3> QED BY <3>1, Zenon DEF Accounts
  <2>3. IsFiniteSet(D)
    BY CohortTypes DEF RunInv
  <2>4. \A c \in C : final[c].deficits[y] = deficits(c)
    BY DEF FinalCohorts
  <2>5. DOMAIN final = C
    BY DEF FinalCohorts
  <2> HIDE DEF r, final, spend
  <2>6. SumOf(r.need) = SumFunctionOnSet(r.need, D) /\ SumOf(r.actual) = SumFunctionOnSet(r.actual, D)
    BY <2>2 DEF SumOf, SumFunction
  <2>7. /\ r.unmet = SumFunctionOnSet(lack, D)
        /\ \A j \in D : lack[j] \in Nat
        /\ (\E j \in D : r.actual[j] > r.need[j] * r.total) => r.unmet = 0
        /\ SumFunctionOnSet(r.actual, D) <= spend * r.total
    <3> DEFINE need == r.need
               actual == r.actual
               total == r.total
               unmet == r.unmet
    <3>1. \A j \in D : lack[j] = Max({0, need[j] * total - actual[j]})
      OBVIOUS
    <3>2. /\ total = SumFunctionOnSet(need, D) /\ total \in Nat
          /\ unmet = Max({0, total * total - SumFunctionOnSet(actual, D)})
          /\ \A j \in D : /\ need[j] \in Nat /\ need[j] <= total
                          /\ actual[j] = ActualSpend(spend * need[j], need[j], total)
      BY <2>2, <2>6
    <3> HIDE DEF need, actual, total, unmet, D, lack
    <3>3. Shared(D, spend, total, need, actual, lack, unmet)
      <4>1. spend \in Nat
        BY <2>2
      <4> HIDE DEF spend
      <4> QED BY <2>3, <3>1, <3>2, <4>1 DEF Shared
    <3>4. /\ unmet = SumFunctionOnSet(lack, D)
          /\ \A j \in D : lack[j] \in Nat
          /\ (\E j \in D : actual[j] > need[j] * total) => unmet = 0
          /\ SumFunctionOnSet(actual, D) <= spend * total
      BY <3>3, LackOf
    <3> QED BY <3>4 DEF need, actual, total, unmet
  <2>8. \A c \in C : deficits(c) = SumFunctionOnSet(lack, Of(c))
    <3> SUFFICES ASSUME NEW c \in C PROVE deficits(c) = SumFunctionOnSet(lack, Of(c))
      OBVIOUS
    <3> DEFINE own == [j \in Of(c) |-> Max({0, r.need[j] * r.total - r.actual[j]})]
               mine == Of(c)
    <3>1. mine \in SUBSET D /\ DOMAIN own = mine
      OBVIOUS
    <3>2. \A j \in mine : lack[j] \in Int /\ own[j] = lack[j]
      <4> SUFFICES ASSUME NEW j \in mine PROVE lack[j] \in Int /\ own[j] = lack[j]
        OBVIOUS
      <4>1. j \in D /\ j \in Of(c)
        BY <3>1
      <4>2. lack[j] \in Nat
        BY <2>7, <4>1
      <4>3. own[j] = lack[j]
        BY <4>1
      <4> HIDE DEF lack, own
      <4> QED BY <4>2, <4>3
    <3>3. deficits(c) = SumFunctionOnSet(own, mine)
      BY <3>1 DEF SumOf, SumFunction
    <3> HIDE DEF own, lack, mine
    <3>4. IsFiniteSet(mine)
      BY <2>3, <3>1, FS_Subset
    <3>5. SumFunctionOnSet(own, mine) = SumFunctionOnSet(lack, mine)
      BY <3>2, <3>4, SumSame
    <3> QED BY <3>3, <3>5 DEF mine
  <2>9. SumFunctionOnSet(parts, C) = SumFunctionOnSet(lack, D)
    <3>1. \A c \in C : parts[c] = SumFunctionOnSet(lack, of[c])
      <4> SUFFICES ASSUME NEW c \in C PROVE parts[c] = SumFunctionOnSet(lack, of[c])
        OBVIOUS
      <4>1. of[c] = Of(c)
        <5>1. {j \in D : class[j] = c} = Of(c)
          OBVIOUS
        <5> QED BY <5>1
      <4>2. parts[c] = deficits(c)
        BY <2>4, <2>5
      <4> HIDE DEF parts, deficits, Of, lack, class, of
      <4> QED BY <2>8, <4>1, <4>2
    <3>2. \A j \in D : class[j] \in C /\ lack[j] \in Int
      <4>1. \A j \in D : class[j] \in C
        OBVIOUS
      <4>2. \A j \in D : lack[j] \in Int
        <5> HIDE DEF lack, D
        <5> QED BY <2>7
      <4> HIDE DEF lack, class, C, D
      <4> QED BY <4>1, <4>2
    <3>3. IsFiniteSet(C)
      <4>1. C = {class[j] : j \in D}
        OBVIOUS
      <4>2. class \in Surjection(D, C)
        BY DEF Surjection
      <4> HIDE DEF C, D, class
      <4> QED BY <2>3, <4>2, FS_Surjection
    <3>6. \A c \in C : of[c] = {j \in D : class[j] = c}
      OBVIOUS
    <3> HIDE DEF parts, lack, C, D, class, of
    <3>4. \A j \in D : class[j] \in C
      BY <3>2
    <3>5. \A j \in D : lack[j] \in Int
      BY <3>2
    <3> QED BY <2>3, <3>1, <3>3, <3>4, <3>5, <3>6, SumByClass
  <2>10. SumOf(parts) = SumFunctionOnSet(parts, C)
    BY <2>5 DEF SumOf, SumFunction
  <2> HIDE DEF parts, lack
  <2> QED BY <2>2, <2>6, <2>7, <2>9, <2>10 DEF r, final, spend, parts
<1> QED BY <1>1, RunsAreReached, PTL

-----------------------------------------------------------------------------
(* The break-even budget.                                                  *)

\* Funded or not, a year that starts no worse than one nothing is spent in
\* needs no more and ends no worse.
LEMMA FundingNeverHurts ==
  ASSUME NEW net, IsNetwork(net), CostsRise(net.tiers), NEW s, IsScenario(s),
         NEW before, IsYear(net, before), NEW worse, IsYear(net, worse),
         before.year = worse.year,
         \A j \in DOMAIN net.cohorts : worse.pci[j] <= before.pci[j]
  PROVE  LET r == SimulateYear(net, s, before)
             none == SimulateYear(net, DoNothing, worse)
         IN /\ r.total <= none.total /\ r.year = none.year
            /\ \A j \in DOMAIN net.cohorts : none.pci[j] <= r.pci[j]
<1> DEFINE D == DOMAIN net.cohorts
           r == SimulateYear(net, s, before)
           none == SimulateYear(net, DoNothing, worse)
           year == before.year + 1
           high == Decayed(net, before)
           low == Decayed(net, worse)
<1>0. IsFiniteSet(D) /\ \A j \in D : net.cohorts[j].area \in Nat /\ net.cohorts[j].keep \in 0..100
  BY CohortTypes
<1>1. Accounts(net, s, before, r) /\ Accounts(net, DoNothing, worse, none)
  BY YearOf, DoNothingType
<1>2. /\ r.need = NeedAfter(net, before) /\ r.total = SumOf(r.need) /\ r.year = year
      /\ \A j \in D : r.pci[j] \in DecayOneStep(net.cohorts[j], before.pci[j])..100
  BY <1>1 DEF Accounts
<1>3. /\ none.need = NeedAfter(net, worse) /\ none.total = SumOf(none.need) /\ none.year = year
      /\ IsYear(net, none)
  BY <1>1 DEF Accounts
<1>4. \A j \in D : before.pci[j] \in 0..100 /\ worse.pci[j] \in 0..100
  BY DEF IsYear
<1>5. ASSUME NEW j \in D
      PROVE  /\ high[j] = DecayOneStep(net.cohorts[j], before.pci[j])
             /\ low[j] = DecayOneStep(net.cohorts[j], worse.pci[j])
             /\ low[j] \in 0..100 /\ high[j] \in 0..100 /\ low[j] <= high[j]
  <2>1. /\ high[j] = DecayOneStep(net.cohorts[j], before.pci[j])
        /\ low[j] = DecayOneStep(net.cohorts[j], worse.pci[j])
    BY DecayedType
  <2>2. /\ DecayOneStep(net.cohorts[j], before.pci[j]) \in 0..before.pci[j]
        /\ DecayOneStep(net.cohorts[j], worse.pci[j]) \in 0..worse.pci[j]
        /\ DecayOneStep(net.cohorts[j], worse.pci[j]) <= DecayOneStep(net.cohorts[j], before.pci[j])
    BY <1>0, <1>4, DecayFalls
  <2> HIDE DEF D, high, low
  <2> QED BY <1>4, <2>1, <2>2
<1>6. year \in Nat
  BY DEF IsYear
<1> DEFINE needs == Need(net, year, high)
           needed == Need(net, year, low)
<1>7. r.need = needs /\ none.need = needed
  BY <1>2, <1>3 DEF NeedAfter
<1> HIDE DEF year, high, low, r, none
<1>8. /\ needs = [j \in D |-> (net.cohorts[j].area * EstimateGrowth(net.growth, year)) * Price(net.tiers, high[j])]
      /\ \A j \in D : needs[j] \in Nat
  <2>1. \A j \in DOMAIN net.cohorts : high[j] \in 0..100
    BY <1>5
  <2>2. /\ Need(net, year, high) = [j \in DOMAIN net.cohorts |->
              (net.cohorts[j].area * EstimateGrowth(net.growth, year)) * Price(net.tiers, high[j])]
        /\ \A j \in DOMAIN net.cohorts : Need(net, year, high)[j] \in Nat
    <3> HIDE DEF D
    <3> QED BY <1>6, <2>1, NeedType
  <2> QED BY <2>2
<1>9. /\ needed = [j \in D |-> (net.cohorts[j].area * EstimateGrowth(net.growth, year)) * Price(net.tiers, low[j])]
      /\ \A j \in D : needed[j] \in Nat
  <2>1. \A j \in DOMAIN net.cohorts : low[j] \in 0..100
    BY <1>5
  <2>2. /\ Need(net, year, low) = [j \in DOMAIN net.cohorts |->
              (net.cohorts[j].area * EstimateGrowth(net.growth, year)) * Price(net.tiers, low[j])]
        /\ \A j \in DOMAIN net.cohorts : Need(net, year, low)[j] \in Nat
    <3> HIDE DEF D
    <3> QED BY <1>6, <2>1, NeedType
  <2> QED BY <2>2
<1> HIDE DEF needs, needed
<1>10. ASSUME NEW j \in D PROVE needs[j] <= needed[j]
  <2> DEFINE size == net.cohorts[j].area * EstimateGrowth(net.growth, year)
             dear == Price(net.tiers, low[j])
             cheap == Price(net.tiers, high[j])
  <2>1. size \in Nat
    <3>1. EstimateGrowth(net.growth, year) \in Nat
      BY <1>6, GrowthType DEF IsNetwork
    <3>2. net.cohorts[j].area \in Nat
      BY <1>0
    <3>3. ASSUME NEW a \in Nat, NEW b \in Nat PROVE a * b \in Nat
      OBVIOUS
    <3> QED BY <3>1, <3>2, <3>3
  <2>2. net.tiers \in Seq(Tier) /\ low[j] \in 0..100 /\ high[j] \in 0..100 /\ low[j] <= high[j]
    BY <1>5 DEF IsNetwork
  <2>3. cheap \in Nat /\ dear \in Nat
    BY <2>2, PriceType
  <2>4. cheap <= dear
    BY <2>2, PriceFalls
  <2>5. needs[j] = size * cheap /\ needed[j] = size * dear
    BY <1>8, <1>9
  <2> HIDE DEF size, dear, cheap
  <2>6. cheap * size <= dear * size
    BY <2>1, <2>3, <2>4, Times
  <2> QED BY <2>1, <2>3, <2>5, <2>6
<1>a. \A j \in D : needs[j] \in Nat /\ needed[j] \in Nat
  <2>1. (\A j \in D : needs[j] \in Nat) /\ (\A j \in D : needed[j] \in Nat)
    BY <1>8, <1>9
  <2> HIDE DEF D
  <2> QED BY <2>1
<1>11. r.total <= none.total
  <2>1. SumOf(needs) = SumFunctionOnSet(needs, D) /\ SumOf(needed) = SumFunctionOnSet(needed, D)
    <3>1. DOMAIN needs = D /\ DOMAIN needed = D
      BY <1>8, <1>9
    <3> QED BY <3>1 DEF SumOf, SumFunction
  <2>2. \A j \in D : needs[j] \in Int /\ needed[j] \in Int /\ needs[j] <= needed[j]
    <3> HIDE DEF D
    <3> QED BY <1>10, <1>a
  <2> HIDE DEF D
  <2>3. SumFunctionOnSet(needs, D) <= SumFunctionOnSet(needed, D)
    BY <1>0, <2>2, SumMonotone
  <2> QED BY <1>2, <1>3, <1>7, <2>1, <2>3
<1>12. ASSUME NEW j \in D PROVE none.pci[j] = low[j]
  <2> DEFINE total == SumOf(needed)
  <2>1. none.pci[j] = ApplyCohortSpend(worse.pci[j], low[j], 0 * needed[j], needed[j], total, "do-nothing")
    <3>1. DOMAIN needed = D
      BY <1>9
    <3>2. /\ TotalSpend(DoNothing, total) = 0 /\ DoNothing.strategy = "do-nothing"
          /\ DoNothing.full = FALSE
      BY DEF DoNothing, TotalSpend
    <3>3. none.pci = [i \in DOMAIN needed |->
                ApplyCohortSpend(worse.pci[i], low[i], Distribute(needed, TotalSpend(DoNothing, total), total)[i],
                                 needed[i], total, DoNothing.strategy)]
      <4>1. worse.year + 1 = year
        BY DEF year
      <4>2. Decayed(net, worse) = [i \in DOMAIN worse.pci |-> DecayOneStep(net.cohorts[i], worse.pci[i])]
        BY DEF Decayed
      <4> QED BY <3>2, <4>1, <4>2 DEF none, SimulateYear, needed, low
    <3> QED BY <3>1, <3>2, <3>3 DEF Distribute
  <2>2. 0 * needed[j] = 0
    <3>1. needed[j] \in Nat
      BY <1>a
    <3> QED BY <3>1
  <2> QED BY <2>1, <2>2 DEF ApplyCohortSpend
<1>13. ASSUME NEW j \in D PROVE none.pci[j] <= r.pci[j]
  <2>1. r.pci[j] \in high[j]..100
    BY <1>2, <1>5
  <2>2. none.pci[j] = low[j] /\ low[j] <= high[j] /\ low[j] \in 0..100 /\ high[j] \in 0..100
    BY <1>5, <1>12
  <2> HIDE DEF D
  <2> QED BY <2>1, <2>2
<1> QED BY <1>2, <1>3, <1>11, <1>13 DEF r, none

\* A year after another of a run, to be proved things about from the first on.
LEMMA YearByYear ==
  ASSUME NEW P, 1 \in P, \A y \in 1..Years - 1 : y \in P => y + 1 \in P
  PROVE  1..Years \subseteq P
<1>0. Years \in Nat \ {0}
  BY ForecastAssumption
<1> DEFINE Q == {n \in Nat : n + 1 <= Years => n + 1 \in P}
<1>1. 0 \in Q
  OBVIOUS
<1>2. ASSUME NEW n \in Nat, n \in Q PROVE n + 1 \in Q
  <2> SUFFICES ASSUME (n + 1) + 1 <= Years PROVE (n + 1) + 1 \in P
    OBVIOUS
  <2>1. n + 1 \in 1..Years - 1 /\ n + 1 \in P
    BY <1>0, <1>2
  <2> QED BY <2>1
<1>3. ASSUME NEW y \in 1..Years PROVE y \in P
  <2>1. y - 1 \in Nat /\ (y - 1) + 1 = y /\ y <= Years
    BY <1>0
  <2>2. y - 1 \in Q
    <3> HIDE DEF Q
    <3> QED BY <1>1, <1>2, <2>1, FromZeroOn
  <2> QED BY <2>1, <2>2
<1> QED BY <1>3

\* The years of a run, funded or not.
Run(net, s) == Simulate(net, s, Years)

\* A whole run.
LEMMA RunOf ==
  ASSUME NEW net, IsNetwork(net), NEW s, IsScenario(s)
  PROVE  /\ DOMAIN Run(net, s) = 1..Years /\ Len(Run(net, s)) = Years
         /\ Run(net, s)[1] = SimulateYear(net, s, Today(net))
         /\ \A y \in 1..Years - 1 : Run(net, s)[y + 1] = SimulateYear(net, s, Run(net, s)[y])
         /\ \A y \in 1..Years : IsYear(net, Run(net, s)[y])
<1>0. Years \in Nat \ {0}
  BY ForecastAssumption
<1> DEFINE sim == Run(net, s)
<1>1. /\ sim = [y \in 1..Years |-> sim[y]]
      /\ sim[1] = SimulateYear(net, s, Today(net))
      /\ \A y \in 1..Years - 1 : sim[y + 1] = SimulateYear(net, s, sim[y])
      /\ \A y \in 1..Years : IsYear(net, sim[y])
  BY <1>0, Simulated DEF Run
<1> HIDE DEF sim
<1>2. DOMAIN sim = 1..Years /\ Len(sim) = Years
  BY <1>0, <1>1
<1> QED BY <1>1, <1>2 DEF sim

\* In no year does a funded run need more than one nothing is spent in.
LEMMA NeedsNoMore ==
  ASSUME NEW net, IsNetwork(net), CostsRise(net.tiers), NEW s, IsScenario(s), NEW y \in 1..Years
  PROVE  Run(net, s)[y].total <= DoingNothing(net)[y].total
<1> DEFINE sim == Run(net, s)
           none == Run(net, DoNothing)
           Same(r, n) == /\ r.year = n.year
                         /\ \A j \in DOMAIN net.cohorts : n.pci[j] <= r.pci[j]
           P == {k \in 1..Years : Same(sim[k], none[k]) /\ sim[k].total <= none[k].total}
<1>0. Years \in Nat \ {0} /\ 1 \in 1..Years /\ \A k \in 1..Years - 1 : k \in 1..Years /\ k + 1 \in 1..Years
  BY ForecastAssumption
<1>1. /\ sim[1] = SimulateYear(net, s, Today(net))
      /\ \A k \in 1..Years - 1 : sim[k + 1] = SimulateYear(net, s, sim[k])
      /\ \A k \in 1..Years : IsYear(net, sim[k])
  BY RunOf
<1>2. /\ none[1] = SimulateYear(net, DoNothing, Today(net))
      /\ \A k \in 1..Years - 1 : none[k + 1] = SimulateYear(net, DoNothing, none[k])
      /\ \A k \in 1..Years : IsYear(net, none[k])
  BY RunOf, DoNothingType
<1>3. none = DoingNothing(net)
  BY DEF Run, DoingNothing
<1> HIDE DEF sim, none
<1>4. ASSUME NEW before, IsYear(net, before), NEW worse, IsYear(net, worse), Same(before, worse),
             NEW k \in 1..Years,
             sim[k] = SimulateYear(net, s, before), none[k] = SimulateYear(net, DoNothing, worse)
      PROVE  k \in P
  <2>1. /\ before.year = worse.year
        /\ \A j \in DOMAIN net.cohorts : worse.pci[j] <= before.pci[j]
    BY <1>4
  <2>2. /\ SimulateYear(net, s, before).total <= SimulateYear(net, DoNothing, worse).total
        /\ SimulateYear(net, s, before).year = SimulateYear(net, DoNothing, worse).year
        /\ \A j \in DOMAIN net.cohorts :
             SimulateYear(net, DoNothing, worse).pci[j] <= SimulateYear(net, s, before).pci[j]
    BY <1>4, <2>1, FundingNeverHurts
  <2> QED BY <1>4, <2>2
<1>5. 1 \in P
  <2>1. IsYear(net, Today(net))
    BY TodayIsAYear
  <2>2. Same(Today(net), Today(net))
    <3>1. \A j \in DOMAIN net.cohorts : Today(net).pci[j] \in 0..100
      BY <2>1 DEF IsYear
    <3>2. \A x \in 0..100 : x <= x
      OBVIOUS
    <3> QED BY <3>1, <3>2
  <2> HIDE DEF P, Same
  <2> QED BY <1>0, <1>1, <1>2, <1>4, <2>1, <2>2
<1>6. ASSUME NEW k \in 1..Years - 1, k \in P PROVE k + 1 \in P
  <2>1. Same(sim[k], none[k])
    BY <1>6
  <2>2. IsYear(net, sim[k]) /\ IsYear(net, none[k]) /\ k + 1 \in 1..Years
    BY <1>0, <1>1, <1>2
  <2> HIDE DEF P, Same
  <2> QED BY <1>1, <1>2, <1>4, <2>1, <2>2
<1>7. y \in P
  <2> HIDE DEF P
  <2> QED BY <1>5, <1>6, YearByYear
<1>8. sim[y].total <= none[y].total
  BY <1>7
<1> QED BY <1>3, <1>8 DEF sim

\* Work once deferred stays deferred.
LEMMA BacklogNeverFalls ==
  ASSUME NEW net, IsNetwork(net), NEW s, IsScenario(s), NEW y \in 1..Years
  PROVE  /\ Run(net, s)[y].backlog \in Nat /\ Run(net, s)[Years].backlog \in Nat
         /\ Run(net, s)[y].backlog <= Run(net, s)[Years].backlog
<1> DEFINE sim == Run(net, s)
           P == {k \in 1..Years : \A m \in 1..k : sim[m].backlog <= sim[k].backlog}
<1>0. Years \in Nat \ {0} /\ 1 \in 1..Years /\ Years \in 1..Years
  BY ForecastAssumption
<1>1. /\ \A k \in 1..Years - 1 : sim[k + 1] = SimulateYear(net, s, sim[k])
      /\ \A k \in 1..Years : IsYear(net, sim[k])
  BY RunOf
<1> HIDE DEF sim
<1>2. \A k \in 1..Years : sim[k].backlog \in Nat
  BY <1>1 DEF IsYear
<1>3. 1 \in P
  <2>1. \A m \in 1..1 : m = 1
    OBVIOUS
  <2>2. sim[1].backlog <= sim[1].backlog
    BY <1>0, <1>2
  <2> QED BY <1>0, <2>1, <2>2
<1>4. ASSUME NEW k \in 1..Years - 1, k \in P PROVE k + 1 \in P
  <2>1. k \in 1..Years /\ k + 1 \in 1..Years /\ \A m \in 1..(k + 1) : m \in 1..k \/ m = k + 1
    BY <1>0
  <2>2. sim[k].backlog <= sim[k + 1].backlog
    <3>1. Accounts(net, s, sim[k], SimulateYear(net, s, sim[k]))
      BY <1>1, <2>1, YearOf
    <3>2. SimulateYear(net, s, sim[k]).backlog >= sim[k].backlog
      BY <3>1, Zenon DEF Accounts
    <3>3. sim[k + 1].backlog >= sim[k].backlog
      BY <1>1, <3>2
    <3> QED BY <1>2, <2>1, <3>3
  <2>3. ASSUME NEW m \in 1..(k + 1) PROVE sim[m].backlog <= sim[k + 1].backlog
    <3>1. m \in 1..k => sim[m].backlog <= sim[k].backlog
      BY <1>4
    <3>2. m \in 1..Years
      BY <1>0
    <3> QED BY <1>2, <2>1, <2>2, <3>1, <3>2
  <2> QED BY <2>1, <2>3
<1>5. Years \in P
  <2> HIDE DEF P
  <2> QED BY <1>0, <1>3, <1>4, YearByYear
<1> QED BY <1>0, <1>2, <1>5 DEF sim

\* A year with money for all it needs defers nothing.
LEMMA FundedYear ==
  ASSUME NEW net, IsNetwork(net), NEW s, IsScenario(s), NEW before, IsYear(net, before),
         SimulateYear(net, s, before).total <= TotalSpend(s, SimulateYear(net, s, before).total)
  PROVE  SimulateYear(net, s, before).backlog = before.backlog
<1> DEFINE D == DOMAIN net.cohorts
           r == SimulateYear(net, s, before)
           need == r.need
           actual == r.actual
           total == r.total
           unmet == r.unmet
           spend == TotalSpend(s, r.total)
           due == [j \in D |-> total * need[j]]
<1>1. Accounts(net, s, before, r)
  BY YearOf
<1>2. total <= spend /\ IsFiniteSet(D) /\ before.backlog \in Nat
  BY CohortTypes DEF IsYear
<1> HIDE DEF r
<1>3. /\ total = SumOf(need) /\ total \in Nat /\ spend \in Nat
      /\ DOMAIN need = D /\ DOMAIN actual = D
      /\ unmet = Max({0, total * total - SumOf(actual)})
      /\ r.backlog = before.backlog + (IF total = 0 THEN 0 ELSE unmet \div total)
  BY <1>1, Zenon DEF Accounts
<1>4. \A j \in D : /\ need[j] \in Nat /\ need[j] <= total
                   /\ actual[j] = ActualSpend(spend * need[j], need[j], total)
  BY <1>1, Zenon DEF Accounts
<1> HIDE DEF D, need, actual, total, unmet, spend
<1>5. ASSUME NEW j \in D PROVE due[j] \in Int /\ actual[j] \in Int /\ due[j] <= actual[j]
  <2> DEFINE a == ActualSpend(spend * need[j], need[j], total)
  <2>1. need[j] \in Nat /\ need[j] <= total /\ actual[j] = a
    BY <1>4
  <2>2. a \in Nat /\ need[j] * total <= a
    BY <1>2, <1>3, <2>1, Paid
  <2> HIDE DEF a
  <2>3. total * need[j] = need[j] * total /\ total * need[j] \in Int
    BY <1>3, <2>1
  <2> QED BY <2>1, <2>2, <2>3
<1>6. SumFunctionOnSet(due, D) = total * total
  <2>1. \A j \in D : need[j] \in Int /\ due[j] = total * need[j]
    BY <1>4
  <2> HIDE DEF due
  <2>2. SumFunctionOnSet(due, D) = total * SumFunctionOnSet(need, D)
    BY <1>2, <1>3, <2>1, SumScaled
  <2> QED BY <1>3, <2>2 DEF SumOf, SumFunction
<1> HIDE DEF due
<1>7. SumFunctionOnSet(due, D) <= SumFunctionOnSet(actual, D) /\ SumFunctionOnSet(actual, D) \in Int
  BY <1>2, <1>5, SumMonotone, SumType
<1>8. SumOf(actual) = SumFunctionOnSet(actual, D)
  BY <1>3 DEF SumOf, SumFunction
<1>9. unmet = 0
  <2> DEFINE left == total * total - SumOf(actual)
  <2> DEFINE square == total * total
             paid == SumOf(actual)
  <2>0. square \in Int
    BY <1>3
  <2>1. left \in Int /\ left <= 0
    <3>1. paid \in Int /\ square <= paid
      BY <1>6, <1>7, <1>8
    <3> HIDE DEF square, paid
    <3>2. square - paid \in Int /\ square - paid <= 0
      BY <2>0, <3>1
    <3> QED BY <3>2 DEF square, paid
  <2>2. unmet = Max({0, left})
    BY <1>3
  <2> HIDE DEF left
  <2>3. \A x \in Int : Max({0, x}) = IF 0 <= x THEN x ELSE 0
    <3>1. 0 \in Int
      OBVIOUS
    <3> QED BY <3>1, MinMax, Zenon
  <2> QED BY <2>1, <2>2, <2>3
<1>10. total # 0 => unmet \div total = 0
  BY <1>3, <1>9
<1>11. r.backlog = before.backlog
  BY <1>2, <1>3, <1>10
<1> QED BY <1>11 DEF r

\* The peak of the unfunded need is enough.
LEMMA PeakSuffices ==
  ASSUME NEW net, IsNetwork(net), CostsRise(net.tiers)
  PROVE  Final(net, PeakNeed(net)) = 0
<1> DEFINE s == WorstFirst(PeakNeed(net))
           sim == Run(net, s)
           P == {k \in 1..Years : sim[k].backlog = 0}
<1>0. Years \in Nat \ {0} /\ 1 \in 1..Years /\ Years \in 1..Years
      /\ \A k \in 1..Years - 1 : k \in 1..Years /\ k + 1 \in 1..Years
  BY ForecastAssumption
<1>1. PeakNeed(net) \in Nat /\ \A y \in 1..Years : DoingNothing(net)[y].total <= PeakNeed(net)
                          /\ DoingNothing(net)[y].total \in Nat
  BY UnfundedNeeds
<1>2. IsScenario(s) /\ \A total : TotalSpend(s, total) = PeakNeed(net)
  BY <1>1, WorstFirstType DEF TotalSpend, WorstFirst
<1> HIDE DEF s
<1>3. /\ sim[1] = SimulateYear(net, s, Today(net))
      /\ \A k \in 1..Years - 1 : sim[k + 1] = SimulateYear(net, s, sim[k])
      /\ \A k \in 1..Years : IsYear(net, sim[k])
  BY <1>2, RunOf
<1>4. \A k \in 1..Years : sim[k].total <= DoingNothing(net)[k].total
  BY <1>2, NeedsNoMore
<1> HIDE DEF sim
<1>5. ASSUME NEW k \in 1..Years, NEW before, IsYear(net, before), sim[k] = SimulateYear(net, s, before)
      PROVE  sim[k].backlog = before.backlog
  <2>1. SimulateYear(net, s, before).total \in Nat
    BY <1>2, <1>5, YearType
  <2>2. sim[k].total <= PeakNeed(net)
    BY <1>1, <1>4, <1>5, <2>1
  <2>3. SimulateYear(net, s, before).total <= TotalSpend(s, SimulateYear(net, s, before).total)
    BY <1>2, <1>5, <2>2
  <2> QED BY <1>2, <1>5, <2>3, FundedYear
<1>6. 1 \in P
  <2>1. IsYear(net, Today(net)) /\ Today(net).backlog = 0
    BY TodayIsAYear DEF Today
  <2> QED BY <1>0, <1>3, <1>5, <2>1
<1>7. ASSUME NEW k \in 1..Years - 1, k \in P PROVE k + 1 \in P
  <2>1. sim[k + 1].backlog = sim[k].backlog
    BY <1>0, <1>3, <1>5
  <2> QED BY <1>0, <1>7, <2>1
<1>8. Years \in P
  <2> HIDE DEF P
  <2> QED BY <1>0, <1>6, <1>7, YearByYear
<1> QED BY <1>8 DEF Final, Run, sim, s

\* The backlog a budget ends with, and what is tolerated of one.
LEMMA FinalType ==
  ASSUME NEW net, IsNetwork(net), NEW budget \in Nat
  PROVE  Final(net, budget) \in Nat /\ Tolerance(net) \in Nat
<1>1. IsScenario(WorstFirst(budget)) /\ Years \in 1..Years
  BY WorstFirstType, ForecastAssumption
<1>2. Final(net, budget) \in Nat
  BY <1>1, BacklogNeverFalls DEF Final, Run
<1>3. DoingNothing(net)[1].total \in Nat
  BY UnfundedNeeds, ForecastAssumption
<1> DEFINE first == DoingNothing(net)[1].total
<1> HIDE DEF first
<1>4. first \div 1000 \in Nat
  BY <1>3 DEF first
<1> QED BY <1>2, <1>4 DEF Tolerance, first

\* A run that ends within the tolerance was never a whole cycle's need behind.
LEMMA SteadyIsSolvent ==
  ASSUME NEW net, IsNetwork(net), NEW budget \in Nat, Final(net, budget) <= Tolerance(net)
  PROVE  InsolvencyYear(Simulate(net, WorstFirst(budget), Years), net.cycle) = 0
<1> DEFINE s == WorstFirst(budget)
           sim == Run(net, s)
           first == DoingNothing(net)[1].total
           I == {y \in 1..Len(sim) : sim[y].backlog >= sim[1].total * net.cycle}
<1>0. Years \in Nat \ {0} /\ 1 \in 1..Years
  BY ForecastAssumption
<1>1. IsScenario(s)
  BY WorstFirstType
<1>2. Len(sim) = Years /\ sim[1] = SimulateYear(net, s, Today(net)) /\ DOMAIN sim = 1..Years
  BY <1>1, RunOf
<1>3. sim[1].total = first
  <2>1. DoingNothing(net)[1] = SimulateYear(net, DoNothing, Today(net))
    BY RunOf, DoNothingType DEF Run, DoingNothing
  <2>2. Accounts(net, s, Today(net), sim[1]) /\ Accounts(net, DoNothing, Today(net), DoingNothing(net)[1])
    BY <1>1, <1>2, <2>1, YearOf, TodayIsAYear, DoNothingType
  <2> HIDE DEF s, sim
  <2>3. /\ sim[1].total = SumOf(NeedAfter(net, Today(net)))
        /\ DoingNothing(net)[1].total = SumOf(NeedAfter(net, Today(net)))
    BY <2>2 DEF Accounts
  <2> QED BY <2>3
<1>4. first \in Nat
  BY <1>0, UnfundedNeeds
<1>5. net.cycle \in Nat \ {0}
  BY DEF IsNetwork
<1>6. \A y \in 1..Years : /\ sim[y].backlog \in Nat /\ sim[Years].backlog \in Nat
                          /\ sim[y].backlog <= sim[Years].backlog
  BY <1>1, BacklogNeverFalls
<1>7. sim[Years].backlog <= first \div 1000
  BY DEF Final, Tolerance, Run
<1>8. InsolvencyYear(sim, net.cycle) = IF sim = <<>> \/ sim[1].total <= 0 THEN 0
                                      ELSE IF I # {} THEN Min(I) ELSE 0
  BY DEF InsolvencyYear, SelectInSeq
<1> HIDE DEF sim, first
<1>9. CASE first = 0
  <2>1. sim[1].total <= 0
    BY <1>3, <1>9
  <2> HIDE DEF I
  <2>2. InsolvencyYear(sim, net.cycle) = 0
    BY <1>8, <2>1
  <2> QED BY <2>2 DEF sim, Run
<1>10. CASE first # 0
  <2>1. first \div 1000 < first /\ first \div 1000 \in Nat
    BY <1>4, <1>10
  <2>2. first <= first * net.cycle /\ first * net.cycle \in Nat
    <3>1. 1 * first <= net.cycle * first
      BY <1>4, <1>5, Times
    <3> QED BY <1>4, <1>5, <3>1
  <2>3. \A y \in 1..Years : ~(sim[y].backlog >= first * net.cycle)
    <3> SUFFICES ASSUME NEW y \in 1..Years PROVE ~(sim[y].backlog >= first * net.cycle)
      OBVIOUS
    <3>1. sim[y].backlog \in Nat /\ sim[Years].backlog \in Nat /\ sim[y].backlog <= sim[Years].backlog
      BY <1>6
    <3> DEFINE most == first * net.cycle
               part == first \div 1000
    <3>2. most \in Nat /\ part \in Nat /\ part < first /\ first <= most /\ sim[Years].backlog <= part
      BY <1>7, <2>1, <2>2
    <3> HIDE DEF most, part
    <3> QED BY <1>4, <3>1, <3>2 DEF most
  <2>4. I = {}
    BY <1>2, <1>3, <2>3
  <2> HIDE DEF I
  <2>5. InsolvencyYear(sim, net.cycle) = 0
    BY <1>8, <2>4
  <2> QED BY <2>5 DEF sim, Run
<1> QED BY <1>9, <1>10

\* The search keeps a budget that is too small below one that is enough.
SearchInv ==
  /\ search.lo \in Nat /\ search.hi \in Nat /\ search.lo <= search.hi
  /\ search = [phase |-> search.phase, lo |-> search.lo, hi |-> search.hi]
  /\ search.phase \in {"search", "found"} =>
       /\ Final(network, search.hi) <= Tolerance(network)
       /\ Final(network, search.lo) > Tolerance(network)
  /\ search.phase = "found" => Narrow

\* The break-even budget, when the price of a treatment rises as the condition
\* falls: what the comment of BreakEvenBudget counts on.
THEOREM BreakEvenAlwaysHoldsSteady ==
  ASSUME \A net \in Networks : CostsRise(net.tiers)
  PROVE  ForecastSpec => []BreakEvenHoldsSteady
<1>1. ForecastInit => SearchInv
  BY DEF ForecastInit, SearchInv
<1>2. RunInv /\ SearchInv /\ [ForecastNext]_forecastVars => SearchInv'
  <2> SUFFICES ASSUME RunInv, SearchInv, [ForecastNext]_forecastVars PROVE SearchInv'
    OBVIOUS
  <2>1. IsNetwork(network) /\ CostsRise(network.tiers)
    <3>1. PICK net \in Networks : network = Basis(net)
      BY DEF RunInv, Bases
    <3>2. CostsRise(net.tiers) /\ network.tiers = net.tiers
      BY <3>1 DEF Basis
    <3> QED BY <3>2 DEF RunInv
  <2>2. CASE BreakEvenBegins
    <3>1. PeakNeed(network) \in Nat /\ Final(network, PeakNeed(network)) = 0
      BY <2>1, UnfundedNeeds, PeakSuffices
    <3>2. Final(network, 0) \in Nat /\ Tolerance(network) \in Nat
      BY <2>1, FinalType
    <3>3. network' = network
      BY <2>2 DEF BreakEvenBegins
    <3>4. CASE PeakNeed(network) <= 0 \/ Final(network, 0) <= Tolerance(network)
      <4>1. search' = [phase |-> "none", lo |-> 0, hi |-> 0]
        BY <2>2, <3>4 DEF BreakEvenBegins
      <4> QED BY <4>1 DEF SearchInv
    <3>5. CASE ~(PeakNeed(network) <= 0 \/ Final(network, 0) <= Tolerance(network))
      <4>1. search' = [phase |-> "search", lo |-> 0, hi |-> PeakNeed(network)]
        BY <2>2, <3>5 DEF BreakEvenBegins
      <4>2. Final(network, 0) > Tolerance(network) /\ Final(network, PeakNeed(network)) <= Tolerance(network)
        BY <3>1, <3>2, <3>5
      <4> QED BY <3>1, <3>3, <4>1, <4>2 DEF SearchInv
    <3> QED BY <3>4, <3>5
  <2>3. CASE Bisect
    <3> DEFINE mid == search.lo + (search.hi - search.lo) \div 2
    <3>1. mid \in Nat /\ search.lo <= mid /\ mid <= search.hi
      <4>1. search.lo \in Nat /\ search.hi \in Nat /\ search.lo <= search.hi
        BY DEF SearchInv
      <4> QED BY <4>1
    <3>2. network' = network /\ search.phase = "search"
      BY <2>3 DEF Bisect
    <3>3. Final(network, mid) \in Nat /\ Tolerance(network) \in Nat
      BY <2>1, <3>1, FinalType
    <3>4. CASE Narrow
      <4>1. search' = [search EXCEPT !.phase = "found"]
        BY <2>3, <3>4 DEF Bisect
      <4>2. search'.lo = search.lo /\ search'.hi = search.hi /\ search'.phase = "found"
            /\ search' = [phase |-> "found", lo |-> search.lo, hi |-> search.hi]
        BY <4>1 DEF SearchInv
      <4>3. Narrow'
        BY <3>2, <3>4, <4>2 DEF Narrow
      <4> QED BY <3>2, <4>2, <4>3 DEF SearchInv
    <3>5. CASE ~Narrow /\ Final(network, mid) <= Tolerance(network)
      <4>1. search' = [search EXCEPT !.hi = mid]
        BY <2>3, <3>5 DEF Bisect
      <4>2. search' = [phase |-> "search", lo |-> search.lo, hi |-> mid]
        BY <3>2, <4>1 DEF SearchInv
      <4> HIDE DEF mid
      <4> QED BY <3>1, <3>2, <3>5, <4>2 DEF SearchInv
    <3>6. CASE ~Narrow /\ ~(Final(network, mid) <= Tolerance(network))
      <4>1. search' = [search EXCEPT !.lo = mid]
        BY <2>3, <3>6 DEF Bisect
      <4>2. search' = [phase |-> "search", lo |-> mid, hi |-> search.hi]
        BY <3>2, <4>1 DEF SearchInv
      <4> HIDE DEF mid
      <4>3. Final(network, mid) > Tolerance(network)
        BY <3>3, <3>6
      <4> QED BY <3>1, <3>2, <4>2, <4>3 DEF SearchInv
    <3> QED BY <3>4, <3>5, <3>6
  <2>4. CASE UNCHANGED <<network, search>>
    BY <2>4 DEF SearchInv, Narrow
  <2> QED BY <2>2, <2>3, <2>4 DEF ForecastNext, RunYear, forecastVars
<1>3. RunInv /\ SearchInv => BreakEvenHoldsSteady
  <2> SUFFICES ASSUME RunInv, SearchInv, search.phase = "found"
               PROVE  /\ Narrow
                      /\ Final(network, search.hi) <= Tolerance(network)
                      /\ Final(network, search.lo) > Tolerance(network)
                      /\ InsolvencyYear(Simulate(network, WorstFirst(search.hi), Years), network.cycle) = 0
    BY DEF BreakEvenHoldsSteady
  <2>1. Narrow /\ Final(network, search.hi) <= Tolerance(network)
        /\ Final(network, search.lo) > Tolerance(network) /\ search.hi \in Nat
    BY DEF SearchInv
  <2>2. IsNetwork(network)
    BY DEF RunInv
  <2> QED BY <2>1, <2>2, SteadyIsSolvent
<1> QED BY <1>1, <1>2, <1>3, RunsAreReached, PTL DEF ForecastSpec

-----------------------------------------------------------------------------
(* The game.                                                               *)

HexState == [pci : 0..100, closed : BOOLEAN, paintedBand : Int, paintedClosed : BOOLEAN]
GameFields == {"treasury", "rate", "backlog", "year", "status", "spent", "treatments",
               "insolvency", "hexes"}

\* A state the engine may be in: the headline is that of its rate, and of each
\* hex it remembers what the page shows, or that it has returned nothing yet.
InPlay(g) ==
  /\ DOMAIN g = GameFields /\ g = [f \in GameFields |-> g[f]]
  /\ g.hexes \in [DOMAIN board.hexes -> HexState]
  /\ g.insolvency = ProjectInsolvency(board, g.rate)
  /\ \A i \in DOMAIN board.hexes :
       \/ g.hexes[i].paintedBand = -1
       \/ page.view[i] = [band |-> g.hexes[i].paintedBand, closed |-> g.hexes[i].paintedClosed]

GameInv ==
  /\ board \in Boards /\ ValidBoard(board)
  /\ page.view = [i \in DOMAIN board.hexes |-> page.view[i]]
  /\ InPlay(game)
  /\ PageShowsTheBoard

\* A condition is kept between 0 and 100.
LEMMA Clamped ==
  ASSUME NEW pci \in Int
  PROVE  /\ ClampPCI(pci) \in 0..100
         /\ BandForPCI(pci) \in Int /\ BandForPCI(pci) # -1
<1>1. ASSUME NEW a \in Int, NEW b \in Int
      PROVE  /\ Min({a, b}) = IF a <= b THEN a ELSE b
             /\ Max({a, b}) = IF a <= b THEN b ELSE a
  BY MinMax
<1>2. ClampPCI(pci) \in 0..100
  <2> DEFINE capped == Min({100, pci})
  <2>1. capped \in Int /\ capped <= 100
    BY <1>1
  <2>2. ClampPCI(pci) = Max({0, capped})
    BY DEF ClampPCI
  <2> HIDE DEF capped
  <2>3. Max({0, capped}) = IF 0 <= capped THEN capped ELSE 0
    BY <2>1, MinMax
  <2> QED BY <2>1, <2>2, <2>3
<1>3. (pci * 6) \div 100 \in Int /\ (pci > 0 => (pci * 6) \div 100 >= 0)
  OBVIOUS
<1>4. BandForPCI(pci) \in Int /\ BandForPCI(pci) # -1
  <2> DEFINE band == (pci * 6) \div 100
  <2>1. BandForPCI(pci) = IF pci <= 0 THEN 0 ELSE Min({band, 5})
    BY DEF BandForPCI, BandCount
  <2>2. band \in Int /\ (pci > 0 => band >= 0)
    BY <1>3
  <2> HIDE DEF band
  <2> QED BY <1>1, <2>1, <2>2
<1> QED BY <1>2, <1>4

\* What ValidBoard lets through.
LEMMA BoardTypes ==
  ASSUME NEW b \in Boards
  PROVE  /\ b.pci \in Int /\ Len(b.hexes) \in Nat /\ DOMAIN b.hexes = 1..Len(b.hexes)
         /\ \A i \in DOMAIN b.hexes : b.hexes[i].jitter \in Int /\ b.hexes[i].keep \in Nat
         /\ Len(b.tiers) \in Nat /\ DOMAIN b.tiers = 1..Len(b.tiers)
         /\ b.tiers = <<>> <=> Len(b.tiers) = 0
<1> DEFINE Hex == [area : Int, keep : Nat, jitter : Int]
           GameTier == [min : Int, max : Int, cost : Int, label : STRING]
<1>1. b.hexes \in Seq(Hex) /\ b.tiers \in Seq(GameTier) /\ b.pci \in Int
  BY GameAssumption
<1>2. \A i \in DOMAIN b.hexes : b.hexes[i] \in Hex
  <2> HIDE DEF Hex
  <2> QED BY <1>1
<1>3. \A i \in DOMAIN b.hexes : b.hexes[i].jitter \in Int /\ b.hexes[i].keep \in Nat
  BY <1>2
<1> HIDE DEF Hex, GameTier
<1> QED BY <1>1, <1>3

\* A new game.
LEMMA NewGameInPlay ==
  ASSUME NEW b \in Boards, b = board, ValidBoard(b)
  PROVE  InPlay(NewGame(b))
<1>1. b.pci \in Int /\ \A i \in DOMAIN b.hexes : b.hexes[i].jitter \in Int
  BY BoardTypes
<1>2. ASSUME NEW i \in DOMAIN b.hexes
      PROVE  /\ NewHex(b.hexes[i], b.pci) \in HexState
             /\ NewHex(b.hexes[i], b.pci).paintedBand = -1
  <2>1. b.pci + b.hexes[i].jitter \in Int
    BY <1>1
  <2>2. ClampPCI(b.pci + b.hexes[i].jitter) \in 0..100
    BY <2>1, Clamped
  <2> QED BY <2>2 DEF NewHex, HexState
<1> QED BY <1>2 DEF InPlay, NewGame, GameFields

\* The status a move ends with.
LEMMA StatusInPlay ==
  ASSUME NEW g, InPlay(g)
  PROVE  InPlay(RecomputeStatus(g))
<1>1. RecomputeStatus(g) = g \/ \E s \in {"won", "lost"} : RecomputeStatus(g) = [g EXCEPT !.status = s]
  BY DEF RecomputeStatus
<1> QED BY <1>1 DEF InPlay, GameFields

\* A year's decay.
LEMMA DecayedInPlay ==
  ASSUME NEW g, InPlay(g), board \in Boards, ValidBoard(board), NEW i \in DOMAIN board.hexes
  PROVE  /\ DecayedHex(board.hexes[i], g.hexes[i]) \in HexState
         /\ DecayedHex(board.hexes[i], g.hexes[i]).paintedBand = g.hexes[i].paintedBand
         /\ DecayedHex(board.hexes[i], g.hexes[i]).paintedClosed = g.hexes[i].paintedClosed
<1>1. g.hexes[i] \in HexState
  BY DEF InPlay
<1>2. board.hexes[i].keep \in 0..100
  <2>1. board.hexes[i].keep \in Nat
    BY BoardTypes
  <2>2. board.hexes[i].keep < 100
    BY DEF ValidBoard
  <2> QED BY <2>1, <2>2
<1> DEFINE state == g.hexes[i]
           after == (state.pci * board.hexes[i].keep) \div 100
<1>3. after \in 0..100
  <2>1. ASSUME NEW p \in 0..100, NEW k \in 0..100 PROVE (p * k) \div 100 \in 0..100
    <3>1. p * k \in Nat /\ p * k <= 100 * 100
      OBVIOUS
    <3> QED BY <3>1
  <2> QED BY <1>1, <1>2, <2>1 DEF HexState
<1>4. DecayedHex(board.hexes[i], state)
        = IF state.closed THEN state
          ELSE IF after <= ClosureEpsilon THEN [state EXCEPT !.pci = 0, !.closed = TRUE]
          ELSE [state EXCEPT !.pci = after]
  BY DEF DecayedHex
<1>5. \A p \in 0..100, c \in BOOLEAN :
        LET h == [state EXCEPT !.pci = p, !.closed = c]
        IN h \in HexState /\ h.paintedBand = state.paintedBand /\ h.paintedClosed = state.paintedClosed
  BY <1>1 DEF HexState
<1>6. [state EXCEPT !.pci = after] = [state EXCEPT !.pci = after, !.closed = state.closed]
  BY <1>1 DEF HexState
<1>7. state.closed \in BOOLEAN
  BY <1>1 DEF HexState
<1> HIDE DEF after
<1>8. CASE state.closed
  BY <1>1, <1>4, <1>8
<1>9. CASE ~state.closed /\ after <= ClosureEpsilon
  <2>1. DecayedHex(board.hexes[i], state) = [state EXCEPT !.pci = 0, !.closed = TRUE]
    BY <1>4, <1>9
  <2>2. 0 \in 0..100 /\ TRUE \in BOOLEAN
    OBVIOUS
  <2> QED BY <1>5, <2>1, <2>2
<1>10. CASE ~state.closed /\ ~(after <= ClosureEpsilon)
  <2>1. DecayedHex(board.hexes[i], state) = [state EXCEPT !.pci = after, !.closed = state.closed]
    BY <1>4, <1>6, <1>10
  <2> QED BY <1>3, <1>5, <1>7, <2>1
<1> QED BY <1>8, <1>9, <1>10

\* A tick.
LEMMA TickedInPlay ==
  ASSUME NEW g, InPlay(g), board \in Boards, ValidBoard(board)
  PROVE  InPlay(Ticked(g))
<1> DEFINE hexes == [i \in DOMAIN g.hexes |-> DecayedHex(board.hexes[i], g.hexes[i])]
           after == [g EXCEPT !.year = @ + 1, !.treasury = @ + g.rate,
                              !.backlog = @ + SumOf([i \in DOMAIN g.hexes |->
                                            TickNeed(board.hexes[i], g.hexes[i])]),
                              !.hexes = hexes]
<1>1. /\ hexes \in [DOMAIN board.hexes -> HexState]
      /\ \A i \in DOMAIN board.hexes : /\ hexes[i].paintedBand = g.hexes[i].paintedBand
                                       /\ hexes[i].paintedClosed = g.hexes[i].paintedClosed
  BY DecayedInPlay DEF InPlay
<1>2. Ticked(g) = g \/ Ticked(g) = RecomputeStatus(after)
  BY DEF Ticked
<1>3. /\ DOMAIN after = GameFields /\ after = [f \in GameFields |-> after[f]]
      /\ after.rate = g.rate /\ after.insolvency = g.insolvency /\ after.hexes = hexes
  <2> HIDE DEF hexes
  <2> QED BY DEF InPlay, GameFields
<1>4. InPlay(after)
  <2> HIDE DEF after, hexes
  <2> QED BY <1>1, <1>3 DEF InPlay
<1> HIDE DEF after
<1> QED BY <1>2, <1>4, StatusInPlay

\* One hex treated.
LEMMA TreatedInPlay ==
  ASSUME NEW g, InPlay(g), board \in Boards, ValidBoard(board), NEW i \in DOMAIN board.hexes,
         NEW tier
  PROVE  InPlay(TreatOne(g, i, tier))
<1> DEFINE t == ResolveTier(tier, g.hexes[i].pci)
           cost == board.tiers[t].cost * board.hexes[i].area
           lift == ((100 - g.hexes[i].pci) * (TierCostRank(board.tiers, t) + 1)) \div Len(board.tiers)
           pci == ClampPCI(g.hexes[i].pci + lift)
           hex == TreatedHex(g.hexes[i], pci)
           after == [g EXCEPT !.treasury = @ - cost, !.spent = @ + cost, !.treatments = @ + 1,
                              !.backlog = Max({0, @ - 100 * cost}), !.hexes[i] = hex]
<1>1. g.hexes[i] \in HexState
  BY DEF InPlay
<1>2. pci \in 0..100
  <2>1. TierCostRank(board.tiers, t) \in Nat
    <3>1. IsFiniteSet(DOMAIN board.tiers)
      <4>1. DOMAIN board.tiers = 1..Len(board.tiers) /\ Len(board.tiers) \in Int
        BY BoardTypes
      <4> QED BY <4>1, FS_Interval
    <3> QED BY <3>1, FS_Subset, FS_CardinalityType DEF TierCostRank
  <2>2. Len(board.tiers) \in Nat \ {0}
    BY BoardTypes DEF ValidBoard
  <2>3. g.hexes[i].pci \in Int
    BY <1>1 DEF HexState
  <2>4. lift \in Int
    <3> HIDE DEF t
    <3> QED BY <2>1, <2>2, <2>3
  <2> HIDE DEF lift
  <2> QED BY <2>3, <2>4, Clamped
<1>3. hex \in HexState /\ hex.paintedBand = g.hexes[i].paintedBand
                       /\ hex.paintedClosed = g.hexes[i].paintedClosed
  <2> HIDE DEF pci
  <2> QED BY <1>1, <1>2 DEF TreatedHex, HexState
<1>4. TreatOne(g, i, tier) = g \/ TreatOne(g, i, tier) = after
  <2>1. TreatOne(g, i, tier) = IF g.status # "running" \/ t = 0 THEN g
                               ELSE IF g.treasury < cost THEN g ELSE after
    BY DEF TreatOne
  <2> HIDE DEF after, t, cost
  <2> QED BY <2>1
<1>5. /\ DOMAIN after = GameFields /\ after = [f \in GameFields |-> after[f]]
      /\ after.rate = g.rate /\ after.insolvency = g.insolvency
      /\ after.hexes = [g.hexes EXCEPT ![i] = hex]
  <2> HIDE DEF hex, cost
  <2> QED BY DEF InPlay, GameFields
<1>6. InPlay(after)
  <2> HIDE DEF after, hex
  <2> QED BY <1>3, <1>5 DEF InPlay
<1> HIDE DEF after
<1> QED BY <1>4, <1>6

\* A batch of hexes, one after the other.
LEMMA BatchInPlay ==
  ASSUME NEW g, InPlay(g), board \in Boards, ValidBoard(board),
         NEW ids \in Seq(DOMAIN board.hexes), NEW tier
  PROVE  InPlay(TreatBatch(g, ids, tier))
<1> DEFINE After(n, h) == h = [k \in 0..n |-> IF k = 0 THEN g ELSE TreatOne(h[k - 1], ids[k], tier)]
           N == {n \in Nat : n <= Len(ids) => \E h : After(n, h)}
<1>1. 0 \in N
  <2>1. After(0, [k \in 0..0 |-> g])
    OBVIOUS
  <2> QED BY <2>1
<1>2. ASSUME NEW n \in Nat, n \in N PROVE n + 1 \in N
  <2> SUFFICES ASSUME n + 1 <= Len(ids) PROVE \E h : After(n + 1, h)
    OBVIOUS
  <2>1. PICK h : After(n, h)
    BY <1>2
  <2> DEFINE more == [k \in 0..(n + 1) |-> IF k <= n THEN h[k] ELSE TreatOne(h[n], ids[n + 1], tier)]
  <2>2. more[0] = g /\ DOMAIN more = 0..(n + 1)
    BY <2>1
  <2>3. ASSUME NEW k \in 1..(n + 1) PROVE more[k] = TreatOne(more[k - 1], ids[k], tier)
    <3>1. CASE k <= n
      <4>1. h[k] = TreatOne(h[k - 1], ids[k], tier)
        BY <2>1, <3>1
      <4>2. more[k] = h[k] /\ more[k - 1] = h[k - 1]
        BY <3>1
      <4> QED BY <4>1, <4>2
    <3>2. CASE k = n + 1
      <4>1. more[k] = TreatOne(h[n], ids[n + 1], tier) /\ more[k - 1] = h[n]
        BY <3>2
      <4> QED BY <4>1, <3>2
    <3> QED BY <3>1, <3>2
  <2>4. After(n + 1, more)
    <3>1. more = [k \in 0..(n + 1) |-> more[k]]
      OBVIOUS
    <3> HIDE DEF more
    <3>2. \A k \in 0..(n + 1) : more[k] = IF k = 0 THEN g ELSE TreatOne(more[k - 1], ids[k], tier)
      BY <2>2, <2>3
    <3> QED BY <3>1, <3>2
  <2> HIDE DEF more
  <2> QED BY <2>4
<1>3. Nat \subseteq N
  <2> HIDE DEF N
  <2> QED BY <1>1, <1>2, FromZeroOn
<1> DEFINE after == CHOOSE h : After(Len(ids), h)
<1>4. After(Len(ids), after)
  BY <1>3
<1> HIDE DEF after
<1>5. after[0] = g /\ \A k \in 1..Len(ids) : after[k] = TreatOne(after[k - 1], ids[k], tier)
  BY <1>4
<1> DEFINE M == {n \in Nat : n <= Len(ids) => InPlay(after[n])}
<1>6. 0 \in M
  BY <1>5
<1>7. ASSUME NEW n \in Nat, n \in M PROVE n + 1 \in M
  <2> SUFFICES ASSUME n + 1 <= Len(ids) PROVE InPlay(after[n + 1])
    OBVIOUS
  <2>1. n + 1 \in 1..Len(ids) /\ ids[n + 1] \in DOMAIN board.hexes
    OBVIOUS
  <2>2. after[n + 1] = TreatOne(after[n], ids[n + 1], tier)
    BY <1>5, <2>1
  <2>3. InPlay(after[n])
    BY <1>7
  <2> QED BY <2>1, <2>2, <2>3, TreatedInPlay
<1>8. InPlay(after[Len(ids)])
  <2>1. Nat \subseteq M
    <3> HIDE DEF M
    <3> QED BY <1>6, <1>7, FromZeroOn
  <2> QED BY <2>1
<1>9. TreatBatch(g, ids, tier) = g \/ TreatBatch(g, ids, tier) = RecomputeStatus(after[Len(ids)])
  <2>1. TreatBatch(g, ids, tier) = IF after[Len(ids)].treatments > g.treatments
                                   THEN RecomputeStatus(after[Len(ids)]) ELSE g
    BY DEF TreatBatch, after
  <2> QED BY <2>1
<1> QED BY <1>8, <1>9, StatusInPlay

\* A new rate.
LEMMA BudgetInPlay ==
  ASSUME NEW g, InPlay(g), NEW rate
  PROVE  InPlay(BudgetSet(g, rate))
BY DEF InPlay, BudgetSet, GameFields

\* What a move hands back brings the page up to date.
LEMMA HandedBack ==
  ASSUME NEW g, InPlay(g), board \in Boards, ValidBoard(board),
         page.view = [i \in DOMAIN board.hexes |-> page.view[i]], HandBack(g)
  PROVE  GameInv'
<1>1. /\ board' = board /\ game' = Painted(g) /\ page' = ApplyState(StateOf(g))
  BY DEF HandBack
<1>2. ASSUME NEW i \in DOMAIN board.hexes
      PROVE  /\ PaintedHex(g.hexes[i]) \in HexState
             /\ PaintedHex(g.hexes[i]).pci = g.hexes[i].pci
             /\ PaintedHex(g.hexes[i]).closed = g.hexes[i].closed
             /\ PaintedHex(g.hexes[i]).paintedBand = BandForPCI(g.hexes[i].pci)
             /\ PaintedHex(g.hexes[i]).paintedClosed = g.hexes[i].closed
  <2>1. g.hexes[i] \in HexState /\ BandForPCI(g.hexes[i].pci) \in Int
    BY Clamped DEF InPlay, HexState
  <2> QED BY <2>1 DEF PaintedHex, Changed, HexState
<1>3. /\ game'.hexes = [i \in DOMAIN board.hexes |-> PaintedHex(g.hexes[i])]
      /\ DOMAIN game' = GameFields /\ game' = [f \in GameFields |-> game'[f]]
      /\ game'.rate = g.rate /\ game'.insolvency = g.insolvency /\ game'.status = g.status
  BY <1>1 DEF Painted, InPlay, GameFields
<1>4. ASSUME NEW i \in DOMAIN board.hexes
      PROVE  page'.view[i] = [band |-> BandForPCI(g.hexes[i].pci), closed |-> g.hexes[i].closed]
  <2>1. page'.view[i] = IF i \in DOMAIN StateOf(g).changed THEN StateOf(g).changed[i] ELSE page.view[i]
    BY <1>1 DEF ApplyState
  <2>2. CASE Changed(g.hexes[i])
    BY <2>1, <2>2 DEF StateOf, InPlay
  <2>3. CASE ~Changed(g.hexes[i])
    <3>1. /\ BandForPCI(g.hexes[i].pci) = g.hexes[i].paintedBand
          /\ g.hexes[i].closed = g.hexes[i].paintedClosed
      BY <2>3 DEF Changed
    <3>2. BandForPCI(g.hexes[i].pci) # -1
      BY Clamped DEF InPlay, HexState
    <3>3. page.view[i] = [band |-> g.hexes[i].paintedBand, closed |-> g.hexes[i].paintedClosed]
      BY <3>1, <3>2 DEF InPlay
    <3>4. i \notin DOMAIN StateOf(g).changed
      BY <2>3 DEF StateOf
    <3> QED BY <2>1, <3>1, <3>3, <3>4
  <2> QED BY <2>2, <2>3
<1>5. /\ page'.view = [i \in DOMAIN board.hexes |-> page'.view[i]]
      /\ page'.state.status = g.status /\ page'.state.insolvency = g.insolvency
  BY <1>1 DEF ApplyState, StateOf
<1>6. InPlay(game)'
  <2>1. game'.hexes \in [DOMAIN board.hexes -> HexState]
    BY <1>2, <1>3
  <2>2. game'.insolvency = ProjectInsolvency(board, game'.rate)
    BY <1>3 DEF InPlay
  <2>3. \A i \in DOMAIN board.hexes :
          page'.view[i] = [band |-> game'.hexes[i].paintedBand, closed |-> game'.hexes[i].paintedClosed]
    <3> SUFFICES ASSUME NEW i \in DOMAIN board.hexes
                 PROVE  page'.view[i] = [band |-> game'.hexes[i].paintedBand, closed |-> game'.hexes[i].paintedClosed]
      OBVIOUS
    <3>1. game'.hexes[i] = PaintedHex(g.hexes[i])
      BY <1>3
    <3>2. /\ PaintedHex(g.hexes[i]).paintedBand = BandForPCI(g.hexes[i].pci)
          /\ PaintedHex(g.hexes[i]).paintedClosed = g.hexes[i].closed
      BY <1>2
    <3>3. page'.view[i] = [band |-> BandForPCI(g.hexes[i].pci), closed |-> g.hexes[i].closed]
      BY <1>4
    <3> QED BY <3>1, <3>2, <3>3
  <2> QED BY <1>1, <1>3, <2>1, <2>2, <2>3 DEF InPlay
<1>7. PageShowsTheBoard'
  <2>1. \A i \in DOMAIN board.hexes : /\ game'.hexes[i].pci = g.hexes[i].pci
                                     /\ game'.hexes[i].closed = g.hexes[i].closed
    BY <1>2, <1>3
  <2>2. g.insolvency = ProjectInsolvency(board, g.rate)
    BY DEF InPlay
  <2>3. DOMAIN game'.hexes = DOMAIN board.hexes
    BY <1>3
  <2>4. \A i \in DOMAIN board.hexes :
          page'.view[i] = [band |-> BandForPCI(game'.hexes[i].pci), closed |-> game'.hexes[i].closed]
    BY <1>4, <2>1
  <2>5. page'.state.insolvency = ProjectInsolvency(board', game'.rate)
    BY <1>1, <1>3, <1>5, <2>2
  <2> QED BY <1>3, <1>5, <2>3, <2>4, <2>5 DEF PageShowsTheBoard
<1> QED BY <1>1, <1>5, <1>6, <1>7 DEF GameInv

\* After every call the page shows each hex as the engine has it, although it is only
\* handed those that changed (PageShowsTheBoard).
THEOREM PageAlwaysShowsTheBoard == GameSpec => []PageShowsTheBoard
<1>1. GameInit => GameInv
  <2> SUFFICES ASSUME GameInit PROVE GameInv
    OBVIOUS
  <2>1. board \in Boards /\ ValidBoard(board) /\ game = NewGame(board)
    BY DEF GameInit
  <2>2. InPlay(game)
    BY <2>1, NewGameInPlay
  <2> QED BY <2>1, <2>2 DEF GameInit, GameInv, PageShowsTheBoard, Unpainted
<1>2. GameInv /\ [GameNext]_gameVars => GameInv'
  <2> SUFFICES ASSUME GameInv, [GameNext]_gameVars PROVE GameInv'
    OBVIOUS
  <2>1. /\ board \in Boards /\ ValidBoard(board) /\ InPlay(game)
        /\ page.view = [i \in DOMAIN board.hexes |-> page.view[i]]
    BY DEF GameInv
  <2>2. CASE SeedGame
    BY <2>1, <2>2, NewGameInPlay, HandedBack DEF SeedGame
  <2>3. CASE Frame
    BY <2>1, <2>3, TickedInPlay, HandedBack DEF Frame
  <2>4. CASE BrushPaint
    <3>1. PICK i, k \in DOMAIN game.hexes, tier \in {"auto", board.tiers[1].label} :
               HandBack(TreatBatch(game, IF i = k THEN <<i>> ELSE <<i, k>>, tier))
      BY <2>4 DEF BrushPaint
    <3> DEFINE ids == IF i = k THEN <<i>> ELSE <<i, k>>
    <3>2. ids \in Seq(DOMAIN board.hexes)
      <4>1. i \in DOMAIN board.hexes /\ k \in DOMAIN board.hexes
        BY <2>1 DEF InPlay
      <4>2. <<i>> \in Seq(DOMAIN board.hexes) /\ <<i, k>> \in Seq(DOMAIN board.hexes)
        <5> DEFINE D == DOMAIN board.hexes
        <5> HIDE DEF D
        <5>1. i \in D /\ k \in D
          BY <4>1 DEF D
        <5>2. <<i>> \in Seq(D) /\ <<i, k>> \in Seq(D)
          BY <5>1
        <5> QED BY <5>2 DEF D
      <4> QED BY <4>2
    <3> HIDE DEF ids
    <3>3. InPlay(TreatBatch(game, ids, tier))
      BY <2>1, <3>2, BatchInPlay
    <3> QED BY <2>1, <3>1, <3>3, HandedBack DEF ids
  <2>5. CASE SetBudget
    BY <2>1, <2>5, BudgetInPlay, HandedBack DEF SetBudget
  <2>6. CASE UNCHANGED gameVars
    BY <2>6 DEF gameVars, GameInv, InPlay, PageShowsTheBoard
  <2> QED BY <2>2, <2>3, <2>4, <2>5, <2>6 DEF GameNext
<1>3. GameInv => PageShowsTheBoard
  BY DEF GameInv
<1> QED BY <1>1, <1>2, <1>3, PTL DEF GameSpec
=============================================================================
