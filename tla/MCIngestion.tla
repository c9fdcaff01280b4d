----------------------------- MODULE MCIngestion -----------------------------
(***************************************************************************)
(* IngestionPipeline for TLC: two datasets, the second of which refers to  *)
(* the first, and small bundles that agree, disagree or repeat a row.      *)
(***************************************************************************)
EXTENDS IngestionProperties, TLC

CONSTANTS a1, a2, a3

MCTwoAttempts == {a1, a2}
MCThreeAttempts == {a1, a2, a3}
MCDatasets == {"suppliers", "orders"}
MCLoadOrder == <<"suppliers", "orders">>
MCIds == {1, 2}
MCContents == {"x", "y"}

Row(i, c) == [id |-> i, content |-> c]

Clean(suppliers, orders) ==
  [files |-> [d \in MCDatasets |-> IF d = "suppliers" THEN suppliers ELSE orders],
   defects |-> [d \in MCDatasets |-> 0], warnings |-> FALSE, blocking |-> FALSE]

First == Clean(<<Row(1, "x")>>, <<Row(1, "x")>>)
Extended == [Clean(<<Row(1, "x"), Row(2, "x")>>, <<Row(1, "x")>>) EXCEPT !.warnings = TRUE]
Changed == Clean(<<Row(2, "x"), Row(1, "y")>>, << >>)
Repeating == Clean(<<Row(2, "x"), Row(2, "x")>>, <<Row(1, "x")>>)
Rejecting == [Clean(<<Row(2, "y")>>, << >>) EXCEPT !.defects["orders"] = 1]
Blocked == [Clean(<<Row(1, "x")>>, << >>) EXCEPT !.blocking = TRUE]

MCPublishable == {First, Extended, Changed, Repeating}
MCAllBundles == {First, Extended, Changed, Repeating, Rejecting, Blocked}

\* Attempts are interchangeable.
TwoSymmetry == Permutations(MCTwoAttempts)
ThreeSymmetry == Permutations(MCThreeAttempts)
==============================================================================
