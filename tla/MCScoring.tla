------------------------------ MODULE MCScoring ------------------------------
(***************************************************************************)
(* ScoringRun for TLC: two lines, of which one is in trouble, and loads    *)
(* that receive, delay or amend them.                                      *)
(***************************************************************************)
EXTENDS ScoringProperties, TLC

CONSTANTS p1, p2, r1, r2, e1, e2

MCScorers == {p1, p2}
MCReferences == {r1, r2}
MCEpisodes == {e1, e2}

Version(l, n, open, need, value) ==
  [kind |-> "version", line |-> l, amendment |-> n, open |-> open, ordered |-> 1,
   need |-> need, quantity |-> 10, value |-> value]
Receipt(l, hour, quantity) ==
  [kind |-> "receipt", line |-> l, posted |-> hour, quantity |-> quantity]
Schedule(l, expected, confirmed) ==
  [kind |-> "schedule", line |-> l, expected |-> expected, confirmed |-> confirmed]
Snapshot(l, hour, available) ==
  [kind |-> "snapshot", line |-> l, at |-> hour, version |-> 1, available |-> available]
Demand(l, due, quantity) ==
  [kind |-> "demand", line |-> l, due |-> due, quantity |-> quantity]
Safety(l, quantity, criticality) ==
  [kind |-> "policy", line |-> l, from |-> 0, to |-> None, safety |-> quantity,
   criticality |-> criticality]
Otif(l, from, to, met, count) ==
  [kind |-> "performance", line |-> l, from |-> from, to |-> to, met |-> met, count |-> count]
Commitment(l, day) == [kind |-> "commitment", line |-> l, committed |-> day]

\* Noon of day 400.
MCNow == 400 * 24 + 12
MCLater == MCNow + 48

\* Line 1 is overdue, short of stock and its supplier poor; line 2 is in order.
MCOpening ==
  {Version(1, 1, TRUE, 396, 16000000), Schedule(1, 402, 398), Snapshot(1, MCNow - 12, 2),
   Demand(1, 401, 9), Safety(1, 1, "production-critical"),
   Otif(1, 100, 300, 20, 24), Otif(1, 350, 399, 5, 8),
   Version(2, 1, TRUE, 412, 6000000), Commitment(2, 410), Snapshot(2, MCNow - 40, 50),
   Safety(2, 1, "standard")}

Received == {Receipt(1, MCNow - 2, 10)}
Delayed == {Schedule(2, 420, None), Demand(2, 402, 60), Snapshot(2, MCNow - 1, 50)}
Cancelled == {Version(2, 2, FALSE, 412, 6000000)}

MCLoads == {Received, Delayed, Cancelled}
MCFacts == MCOpening \cup Received \cup Delayed \cup Cancelled

MCTwoTimes == {MCNow, MCLater}
MCHistories == {{}, {r1}}

ScorerSymmetry == Permutations(MCScorers)
==============================================================================
