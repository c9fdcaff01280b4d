----------------------------- MODULE RiskInputs -----------------------------
(***************************************************************************)
(* collect_candidate_inputs: what a scoring run reads from the operational *)
(* tables.                                                                 *)
(*                                                                         *)
(* A fact is a row; its kind is its table.  Facts that the tables keep for *)
(* the product, the site or the supplier of a line are kept for the line.  *)
(* Points in time are hours; the date of an hour is its day in UTC.        *)
(***************************************************************************)
EXTENDS RiskRules, FiniteSetsExt

Date(hour) == hour \div 24

\* Division as Decimal.quantize rounds it: to the nearest, ties to even.
Rounded(n, d) ==
  LET q == n \div d
      r == 2 * (n % d)
  IN  IF r > d \/ (r = d /\ q % 2 = 1) THEN q + 1 ELSE q

Of(kind, line, facts) == {f \in facts : f.kind = kind /\ f.line = line}

\* The aggregate of SQL: nothing has no maximum and no minimum.
MaxOf(S) == IF S = {} THEN None ELSE Max(S)
MinOf(S) == IF S = {} THEN None ELSE Min(S)
------------------------------------------------------------------------------
\* The latest amendment of a line and its order, together; order_status and
\* line_status are open when either is open or on hold.
LatestVersion(line, facts) ==
  LET versions == Of("version", line, facts)
  IN  CHOOSE v \in versions : \A w \in versions : w.amendment <= v.amendment

OpenVersion(line, facts) ==
  IF Of("version", line, facts) = {} THEN None
  ELSE IF LatestVersion(line, facts).open THEN LatestVersion(line, facts) ELSE None

\* Fault: receipts posted after the as-of time are left out.
ResidualAsOf(line, version, facts, asOf) ==
  Larger(0, version.quantity
            - MapThenSumSet(LAMBDA f : f.quantity,
                            {f \in Of("receipt", line, facts) : f.posted <= asOf}))

Residual(line, version, facts) ==
  Larger(0, version.quantity
            - MapThenSumSet(LAMBDA f : f.quantity, Of("receipt", line, facts)))

ExpectedReceipt(line, facts) ==
  MinOf({f.expected : f \in Of("schedule", line, facts)} \ {None})

Confirmed(line, facts) ==
  LET scheduled == {f.confirmed : f \in Of("schedule", line, facts)} \ {None}
      committed == {f.committed : f \in Of("commitment", line, facts)} \ {None}
  IN  IF scheduled # {} THEN Max(scheduled) ELSE MaxOf(committed)

Later(f, g) == f.at > g.at \/ (f.at = g.at /\ f.version >= g.version)

\* The latest snapshot up to the as-of time; it is stale after 26 hours.
Inventory(line, facts, asOf) ==
  LET snapshots == {f \in Of("snapshot", line, facts) : f.at <= asOf}
      latest == CHOOSE f \in snapshots : \A g \in snapshots : Later(f, g)
  IN  IF snapshots = {} THEN [available |-> None, stale |-> TRUE]
      ELSE [available |-> latest.available, stale |-> latest.at < asOf - 26]

DemandUntil(line, facts, from, to) ==
  MapThenSumSet(LAMBDA f : f.quantity,
                {f \in Of("demand", line, facts) : from <= f.due /\ f.due <= to})

Policy(line, facts, asOf) ==
  LET effective == {f \in Of("policy", line, facts) :
                      f.from <= asOf /\ (f.to = None \/ f.to > asOf)}
      latest == CHOOSE f \in effective : \A g \in effective : g.from <= f.from
  IN  IF effective = {} THEN [safety |-> None, criticality |-> None]
      ELSE [safety |-> latest.safety, criticality |-> latest.criticality]

\* Rate and number of completed lines over the snapshots within a window.
Performance(line, facts, from, to) ==
  LET within == {f \in Of("performance", line, facts) : f.from >= from /\ f.to <= to}
      met == MapThenSumSet(LAMBDA f : f.met, within)
      count == MapThenSumSet(LAMBDA f : f.count, within)
  IN  IF count = 0 THEN [rate |-> None, count |-> None]
      ELSE [rate |-> Rounded(10000 * met, count), count |-> count]
------------------------------------------------------------------------------
\* The RiskInput of a line whose version was read before.  Versions have a value:
\* the validation of a bundle stops at a line that has none.
RiskInput(line, version, facts, asOf) ==
  LET today == Date(asOf)
      residual == Residual(line, version, facts)
      expected == ExpectedReceipt(line, facts)
      inventory == Inventory(line, facts, asOf)
      policy == Policy(line, facts, asOf)
      year == Performance(line, facts, today - 365, today)
      recent == Performance(line, facts, today - 90, today)
      prior == Performance(line, facts, today - 365, today - 91)
  IN  [asOf |-> today, need |-> version.need, ordered |-> version.ordered,
       confirmed |-> Confirmed(line, facts), expected |-> expected,
       residual |-> residual,
       value |-> Rounded(version.value * residual, version.quantity),
       criticality |-> policy.criticality,
       available |-> inventory.available, stale |-> inventory.stale,
       safety |-> policy.safety,
       demand |-> DemandUntil(line, facts, today,
                              IF expected = None THEN version.need ELSE expected),
       noDemand |-> Of("demand", line, facts) = {},
       otif |-> year.rate, otifCount |-> year.count,
       recent |-> recent.rate, recentCount |-> recent.count,
       prior |-> prior.rate, priorCount |-> prior.count,
       baseline |-> None, mitigated |-> FALSE]
==============================================================================
