-------------------------- MODULE RiskRulesProofs --------------------------
(***************************************************************************)
(* What the risk-priority rules give for every input, whatever its values  *)
(* are: the points they give are literals, so that nothing about the types *)
(* of the facts is needed.                                                 *)
(***************************************************************************)
EXTENDS RiskRules, TLAPS

\* The points a component may have.
LEMMA ComponentPoints ==
  ASSUME NEW x
  PROVE  /\ Dly01(x).gross \in {0, 30}
         /\ Dly02(x).gross \in {0, 10, 20}
         /\ Dly03(x).gross \in {0, 10}
         /\ Inv01(x).gross \in {0, 25} /\ Inv02(x).gross \in {0, 5}
         /\ Vis01(x).gross \in {0, 15} /\ Dat01(x).gross \in {0, 5, 15}
         /\ Sup01(x).gross \in {0, 15} /\ Sup02(x).gross \in {0, 5}
         /\ Con01(x).gross \in {0, 5} /\ Con02(x).gross \in {0, 5, 10}
         /\ Mit01(x).gross \in {0, -15}
<1> USE DEF Unavailable, Invalid, Triggered, Quiet, When
<1>1. Dly01(x).gross \in {0, 30} /\ Dly02(x).gross \in {0, 10, 20} /\ Dly03(x).gross \in {0, 10}
  BY DEF Dly01, Dly02, Dly03
<1>2. Inv01(x).gross \in {0, 25} /\ Inv02(x).gross \in {0, 5}
  BY DEF Inv01, Inv02
<1>3. Vis01(x).gross \in {0, 15} /\ Dat01(x).gross \in {0, 5, 15}
  BY DEF Vis01, Dat01
<1>4. Sup01(x).gross \in {0, 15} /\ Sup02(x).gross \in {0, 5}
  BY DEF Sup01, Sup02
<1>5. Con01(x).gross \in {0, 5} /\ Con02(x).gross \in {0, 5, 10}
  BY DEF Con01, Con02
<1>6. Mit01(x).gross \in {0, -15}
  BY DEF Mit01
<1> QED
  BY <1>1, <1>2, <1>3, <1>4, <1>5, <1>6

\* _apply_family_caps (rules.py 564-596): no component is left with less than
\* nothing or more than it had, and together they have the family's total up to
\* its cap.
LEMMA CapsTakeTheExcess ==
  ASSUME NEW family, NEW cap \in Nat,
         Gross(family, 1) \in Nat, Gross(family, 2) \in Nat, Gross(family, 3) \in Nat
  PROVE  /\ \A n \in 1 .. 3 : Capped(family, cap)[n] \in 0 .. Gross(family, n)
         /\ Sum3(Capped(family, cap)) = Least(GrossTotal(family), cap)
<1> DEFINE excess == Larger(GrossTotal(family) - cap, 0)
           third == Least(excess, Gross(family, 3))
           second == Least(excess - third, Gross(family, 2))
           first == Least(excess - third - second, Gross(family, 1))
<1>1. Capped(family, cap)
        = <<Gross(family, 1) - first, Gross(family, 2) - second, Gross(family, 3) - third>>
  BY DEF Capped
<1>2. /\ excess \in Nat /\ third \in 0 .. Gross(family, 3)
      /\ second \in 0 .. Gross(family, 2) /\ first \in 0 .. Gross(family, 1)
      /\ first + second + third = excess
  BY DEF Larger, Least, GrossTotal
<1>3. GrossTotal(family) - excess = Least(GrossTotal(family), cap)
  BY DEF Larger, Least, GrossTotal
<1> HIDE DEF excess, third, second, first
<1>4. \A n \in 1 .. 3 : Capped(family, cap)[n] \in 0 .. Gross(family, n)
  BY <1>1, <1>2
<1>5. Sum3(Capped(family, cap)) = Least(GrossTotal(family), cap)
  BY <1>1, <1>2, <1>3 DEF Sum3, GrossTotal
<1> QED
  BY <1>4, <1>5

\* The total of each family.
FamilyTotals(x) ==
  [delivery |-> Dly01(x).gross + Dly02(x).gross + Dly03(x).gross,
   inventory |-> Inv01(x).gross + Inv02(x).gross,
   visibility_data |-> Vis01(x).gross + Dat01(x).gross,
   supplier |-> Sup01(x).gross + Sup02(x).gross,
   consequence |-> Con01(x).gross + Con02(x).gross]

LEMMA CapNames ==
  /\ DOMAIN FamilyCaps = {"delivery", "inventory", "visibility_data", "supplier", "consequence"}
  /\ FamilyCaps.delivery = 40 /\ FamilyCaps.inventory = 30
  /\ FamilyCaps.visibility_data = 15 /\ FamilyCaps.supplier = 15 /\ FamilyCaps.consequence = 15
  /\ \A f \in DOMAIN FamilyCaps : FamilyCaps[f] \in Nat /\ FamilyCaps[f] <= 40
BY DEF FamilyCaps

LEMMA FamilyGross ==
  ASSUME NEW x, NEW f \in DOMAIN FamilyCaps
  PROVE  /\ Gross(Family(x)[f], 1) \in Nat
         /\ Gross(Family(x)[f], 2) \in Nat
         /\ Gross(Family(x)[f], 3) \in Nat
         /\ GrossTotal(Family(x)[f]) = FamilyTotals(x)[f]
         /\ FamilyTotals(x)[f] \in Nat
<1>1. CASE f = "delivery"
  <2>1. Family(x)[f] = <<Dly01(x), Dly02(x), Dly03(x)>>
    BY <1>1 DEF Family
  <2>2. /\ Gross(Family(x)[f], 1) = Dly01(x).gross
        /\ Gross(Family(x)[f], 2) = Dly02(x).gross
        /\ Gross(Family(x)[f], 3) = Dly03(x).gross
    BY <2>1 DEF Gross
  <2> QED
    BY <1>1, <2>2, ComponentPoints DEF GrossTotal, FamilyTotals
<1>2. CASE f = "inventory"
  <2>1. Family(x)[f] = <<Inv01(x), Inv02(x)>>
    BY <1>2 DEF Family
  <2>2. /\ Gross(Family(x)[f], 1) = Inv01(x).gross
        /\ Gross(Family(x)[f], 2) = Inv02(x).gross
        /\ Gross(Family(x)[f], 3) = 0
    BY <2>1 DEF Gross
  <2> QED
    BY <1>2, <2>2, ComponentPoints DEF GrossTotal, FamilyTotals
<1>3. CASE f = "visibility_data"
  <2>1. Family(x)[f] = <<Vis01(x), Dat01(x)>>
    BY <1>3 DEF Family
  <2>2. /\ Gross(Family(x)[f], 1) = Vis01(x).gross
        /\ Gross(Family(x)[f], 2) = Dat01(x).gross
        /\ Gross(Family(x)[f], 3) = 0
    BY <2>1 DEF Gross
  <2> QED
    BY <1>3, <2>2, ComponentPoints DEF GrossTotal, FamilyTotals
<1>4. CASE f = "supplier"
  <2>1. Family(x)[f] = <<Sup01(x), Sup02(x)>>
    BY <1>4 DEF Family
  <2>2. /\ Gross(Family(x)[f], 1) = Sup01(x).gross
        /\ Gross(Family(x)[f], 2) = Sup02(x).gross
        /\ Gross(Family(x)[f], 3) = 0
    BY <2>1 DEF Gross
  <2> QED
    BY <1>4, <2>2, ComponentPoints DEF GrossTotal, FamilyTotals
<1>5. CASE f = "consequence"
  <2>1. Family(x)[f] = <<Con01(x), Con02(x)>>
    BY <1>5 DEF Family
  <2>2. /\ Gross(Family(x)[f], 1) = Con01(x).gross
        /\ Gross(Family(x)[f], 2) = Con02(x).gross
        /\ Gross(Family(x)[f], 3) = 0
    BY <2>1 DEF Gross
  <2> QED
    BY <1>5, <2>2, ComponentPoints DEF GrossTotal, FamilyTotals
<1> QED
  BY <1>1, <1>2, <1>3, <1>4, <1>5, CapNames

\* The applied points of a family are the sum of its gross points up to its cap,
\* so never negative and never above it (FAMILY_CAPS, _apply_family_caps).
THEOREM FamilyPoints ==
  ASSUME NEW x, NEW f \in DOMAIN FamilyCaps
  PROVE  /\ AppliedPoints(x)[f] = Least(FamilyTotals(x)[f], FamilyCaps[f])
         /\ AppliedPoints(x)[f] \in 0 .. FamilyCaps[f]
<1>1. FamilyCaps[f] \in Nat
  BY CapNames
<1>2. AppliedPoints(x)[f] = Least(FamilyTotals(x)[f], FamilyCaps[f])
  BY <1>1, FamilyGross, CapsTakeTheExcess DEF AppliedPoints
<1>3. FamilyTotals(x)[f] \in Nat
  BY FamilyGross
<1> QED
  BY <1>1, <1>2, <1>3 DEF Least
------------------------------------------------------------------------------
\* Two families exclude each other.  Inventory points need coverage that is known,
\* DAT-01 coverage that is not; VIS-01 needs a line without any date, the delivery
\* points one with a date.
LEMMA PointsExclude ==
  ASSUME NEW x
  PROVE  /\ Inv01(x).gross + Inv02(x).gross > 0 => Dat01(x).gross = 0
         /\ Vis01(x).gross > 0 => Dly01(x).gross + Dly02(x).gross + Dly03(x).gross = 0
<1> USE DEF Unavailable, Triggered, Quiet, When
<1>1. ~ CoverageKnown(x) => Inv01(x).gross = 0 /\ Inv02(x).gross = 0
  BY DEF Inv01, Inv02
<1>2. CoverageKnown(x) => Dat01(x).gross = 0
  BY DEF CoverageKnown, Dat01
<1>3. Vis01(x).gross > 0 => x.confirmed = None /\ x.expected = None
  BY DEF Vis01
<1>4. x.confirmed = None /\ x.expected = None
      => Dly01(x).gross = 0 /\ Dly02(x).gross = 0 /\ Dly03(x).gross = 0
  BY DEF Dly01, Dly02, Dly03
<1> QED
  BY <1>1, <1>2, <1>3, <1>4

\* The upper clamp of score_candidate (rules.py 117) never takes anything away: the
\* caps allow 115 points, but no input has more than 100, so a score is always the
\* sum of the applied points that are recorded with it, or zero.
THEOREM ScoreNeedsNoUpperClamp ==
  ASSUME NEW x
  PROVE  /\ RawTotal(x) \in Int /\ RawTotal(x) <= 100
         /\ Score(x) = Larger(0, RawTotal(x))
         /\ Score(x) \in 0 .. 100
<1> DEFINE points == AppliedPoints(x)
<1>1. /\ points.delivery = Least(FamilyTotals(x).delivery, 40)
      /\ points.inventory = Least(FamilyTotals(x).inventory, 30)
      /\ points.visibility_data = Least(FamilyTotals(x).visibility_data, 15)
      /\ points.supplier = Least(FamilyTotals(x).supplier, 15)
      /\ points.consequence = Least(FamilyTotals(x).consequence, 15)
  BY FamilyPoints, CapNames
<1>2. RawTotal(x) = points.delivery + points.inventory + points.visibility_data
                    + points.supplier + points.consequence + Mit01(x).gross
  BY DEF RawTotal
<1> HIDE DEF points
<1>3. /\ points.delivery \in 0 .. 40 /\ points.inventory \in 0 .. 30
      /\ points.visibility_data \in 0 .. 15 /\ points.supplier \in 0 .. 15
      /\ points.consequence \in 0 .. 15 /\ Mit01(x).gross \in {0, -15}
  BY <1>1, ComponentPoints DEF FamilyTotals, Least
<1>4. points.inventory > 0 /\ points.visibility_data > 0 => points.delivery = 0
  <2>1. SUFFICES ASSUME points.inventory > 0, points.visibility_data > 0
                 PROVE  points.delivery = 0
    OBVIOUS
  <2>2. Inv01(x).gross + Inv02(x).gross > 0
    BY <1>1, <2>1, ComponentPoints DEF FamilyTotals, Least
  <2>3. Vis01(x).gross > 0
    BY <1>1, <2>1, <2>2, PointsExclude, ComponentPoints DEF FamilyTotals, Least
  <2> QED
    BY <1>1, <2>3, PointsExclude DEF FamilyTotals, Least
<1>5. RawTotal(x) \in Int /\ RawTotal(x) <= 100
  <2>1. PICK d \in 0 .. 40, i \in 0 .. 30, v \in 0 .. 15, s \in 0 .. 15, c \in 0 .. 15 :
               /\ d = points.delivery /\ i = points.inventory /\ v = points.visibility_data
               /\ s = points.supplier /\ c = points.consequence
    BY <1>3
  <2>2. PICK m \in {0, -15} : m = Mit01(x).gross
    BY <1>3
  <2>3. i > 0 /\ v > 0 => d = 0
    BY <1>4, <2>1
  <2>4. d + i + v + s + c + m \in Int /\ d + i + v + s + c + m <= 100
    BY <2>3
  <2>5. RawTotal(x) = d + i + v + s + c + m
    BY <1>2, <2>1, <2>2
  <2> QED
    BY <2>4, <2>5
<1> QED
  BY <1>5 DEF Score, Larger, Least

\* What opens an episode (rules.py 609-632): below 30 points only a controlled order
\* that is due within 7 days and has a missing signal, below 50 points only a
\* controlled order due within 14 days, and from 50 points on every line.
THEOREM OpeningNeedsReason ==
  ASSUME NEW x
  PROVE  /\ OpeningBasis(x) # None /\ Score(x) < 50 =>
              IsControlledOrder(x) /\ DaysToNeed(x) \in 0 .. 14
         /\ OpeningBasis(x) # None /\ Score(x) < 30 =>
              HasMissingSignals(x) /\ DaysToNeed(x) \in 0 .. 7
         /\ Score(x) >= 50 => OpeningBasis(x) = "OPEN_SCORE"
<1>1. Score(x) \in 0 .. 100
  BY ScoreNeedsNoUpperClamp
<1>2. DaysToNeed(x) \in 0 .. 7 => DaysToNeed(x) \in 0 .. 14
  OBVIOUS
<1> QED
  BY <1>1, <1>2 DEF OpeningBasis
==============================================================================
