------------------------------ MODULE RiskRules ------------------------------
(***************************************************************************)
(* RPR-1.0.0, the risk-priority rules: pure functions from the operational *)
(* facts of one purchase-order line to a score and an opening basis.       *)
(*                                                                         *)
(* Dates are days, quantities integers, values cents, and rates            *)
(* ten-thousandths (the code quantizes them to four places).  None is a    *)
(* missing fact.                                                           *)
(***************************************************************************)
EXTENDS Integers

CONSTANT None

Larger(m, n) == IF m >= n THEN m ELSE n
Least(m, n) == IF m <= n THEN m ELSE n
------------------------------------------------------------------------------
(* Components.  A result is its availability and its gross points. *)

Unavailable == [status |-> "unavailable", gross |-> 0]
Invalid == [status |-> "invalid", gross |-> 0]
Triggered(points) == [status |-> "triggered", gross |-> points]
Quiet == [status |-> "available-not-triggered", gross |-> 0]
When(condition, points) == IF condition THEN Triggered(points) ELSE Quiet

DaysToNeed(x) == x.need - x.asOf

Dly01(x) ==
  IF x.confirmed = None THEN Unavailable
  ELSE When(x.residual > 0 /\ x.asOf > x.confirmed, 30)

Dly02(x) ==
  IF x.expected = None THEN Unavailable
  ELSE IF x.expected - x.need >= 4 THEN Triggered(20)
  ELSE When(x.expected - x.need >= 1, 10)

Dly03(x) ==
  LET arrival == IF x.expected # None THEN x.expected ELSE x.confirmed
  IN  IF x.baseline = None \/ arrival = None THEN Unavailable
      ELSE When(x.baseline > 0 /\ 100 * (arrival - x.ordered) > 120 * x.baseline, 10)

CoverageKnown(x) ==
  /\ x.available # None /\ x.safety # None /\ x.demand # None
  /\ ~ x.stale /\ ~ x.noDemand

\* The projected available balance before the focal receipt.
Balance(x) == x.available - x.safety - x.demand

Inv01(x) == IF CoverageKnown(x) THEN When(Balance(x) < 0, 25) ELSE Unavailable

Inv02(x) ==
  IF CoverageKnown(x)
  THEN When(Balance(x) < 0 /\ 4 * (0 - Balance(x)) >= Larger(x.residual, 1), 5)
  ELSE Unavailable

Vis01(x) ==
  When(/\ x.residual > 0
       /\ DaysToNeed(x) \in 0 .. 7
       /\ x.confirmed = None /\ x.expected = None, 15)

Dat01(x) ==
  IF x.stale \/ x.noDemand \/ x.available = None
  THEN IF DaysToNeed(x) \in 0 .. 7 THEN Triggered(15) ELSE Triggered(5)
  ELSE Quiet

Sup01(x) ==
  IF x.otif = None THEN Unavailable
  ELSE IF x.otifCount < 20 THEN Unavailable
  ELSE When(x.otif < 8500, 15)

Sup02(x) ==
  IF x.recent = None \/ x.prior = None THEN Unavailable
  ELSE IF x.recentCount < 8 \/ x.priorCount < 12 THEN Unavailable
  ELSE When(x.prior - x.recent >= 1000 /\ x.recent < 9000, 5)

IsCritical(x) == x.criticality \in {"service-critical", "production-critical"}

Con01(x) == IF x.criticality = None THEN Invalid ELSE When(IsCritical(x), 5)

Con02(x) ==
  IF x.value = None THEN Invalid
  ELSE IF x.value >= 15000000 THEN Triggered(10)
  ELSE When(x.value >= 5000000, 5)

Mit01(x) == When(x.mitigated, -15)
------------------------------------------------------------------------------
(* Family caps *)

FamilyCaps == [delivery |-> 40, inventory |-> 30, visibility_data |-> 15,
               supplier |-> 15, consequence |-> 15]

\* The components of the capped families, in the order of evaluation.
Family(x) ==
  [delivery |-> <<Dly01(x), Dly02(x), Dly03(x)>>,
   inventory |-> <<Inv01(x), Inv02(x)>>,
   visibility_data |-> <<Vis01(x), Dat01(x)>>,
   supplier |-> <<Sup01(x), Sup02(x)>>,
   consequence |-> <<Con01(x), Con02(x)>>]

Gross(family, n) == IF n \in DOMAIN family THEN family[n].gross ELSE 0
GrossTotal(family) == Gross(family, 1) + Gross(family, 2) + Gross(family, 3)

\* Fault: the excess is only taken from the last component.
CappedAtLast(family, cap) ==
  [n \in 1 .. 3 |->
     IF n = 3 THEN Gross(family, 3) - Least(Larger(GrossTotal(family) - cap, 0), Gross(family, 3))
     ELSE Gross(family, n)]

\* _apply_family_caps takes the excess over the cap from the last component,
\* what it could not bear from the one before, and so on.
Capped(family, cap) ==
  LET excess == Larger(GrossTotal(family) - cap, 0)
      third == Least(excess, Gross(family, 3))
      second == Least(excess - third, Gross(family, 2))
      first == Least(excess - third - second, Gross(family, 1))
  IN  <<Gross(family, 1) - first, Gross(family, 2) - second, Gross(family, 3) - third>>

Sum3(points) == points[1] + points[2] + points[3]

AppliedPoints(x) ==
  [f \in DOMAIN FamilyCaps |-> Sum3(Capped(Family(x)[f], FamilyCaps[f]))]
------------------------------------------------------------------------------
(* Score, opening basis and disposition *)

RawTotal(x) ==
  LET applied == AppliedPoints(x)
  IN  applied.delivery + applied.inventory + applied.visibility_data
      + applied.supplier + applied.consequence + Mit01(x).gross

\* Fault: the sum of the gross points, before the caps.
GrossScore(x) ==
  LET family == Family(x)
  IN  Least(100, Larger(0, GrossTotal(family.delivery) + GrossTotal(family.inventory)
                           + GrossTotal(family.visibility_data)
                           + GrossTotal(family.supplier) + GrossTotal(family.consequence)
                           + Mit01(x).gross))

Score(x) == Least(100, Larger(0, RawTotal(x)))

ScoreBand(score) ==
  IF score < 30 THEN "monitor"
  ELSE IF score < 50 THEN "medium"
  ELSE IF score < 70 THEN "high" ELSE "critical"

\* A missing signal is a component that is unavailable or invalid.
IsMissing(result) == result.status \in {"unavailable", "invalid"}

HasMissingSignals(x) ==
  \E f \in DOMAIN FamilyCaps : \E n \in DOMAIN Family(x)[f] : IsMissing(Family(x)[f][n])

IsControlledOrder(x) == IsCritical(x) \/ (x.value # None /\ x.value >= 10000000)

OpeningBasis(x) ==
  IF Score(x) >= 50 THEN "OPEN_SCORE"
  ELSE IF DaysToNeed(x) \in 0 .. 7 /\ IsControlledOrder(x) /\ HasMissingSignals(x)
  THEN "OPEN_CRITICAL_DATA_GAP"
  ELSE IF Score(x) \in 30 .. 49 /\ DaysToNeed(x) \in 0 .. 14 /\ IsControlledOrder(x)
  THEN "OPEN_CONTROLLED_ORDER"
  ELSE None

\* Fault: every line from the medium band on is opening-eligible.
MediumDisposition(x, linked) ==
  IF linked THEN "linked-existing-active-episode"
  ELSE IF Score(x) >= 30 THEN "opening-eligible-no-workflow"
  ELSE "below-opening-threshold"

Disposition(x, linked) ==
  IF linked THEN "linked-existing-active-episode"
  ELSE IF OpeningBasis(x) # None THEN "opening-eligible-no-workflow"
  ELSE "below-opening-threshold"

\* What score_candidate returns, without the wording.
ScoreCandidate(x) ==
  [score |-> Score(x), band |-> ScoreBand(Score(x)), points |-> AppliedPoints(x),
   mitigation |-> Mit01(x).gross, qualified |-> HasMissingSignals(x),
   basis |-> OpeningBasis(x)]
==============================================================================
