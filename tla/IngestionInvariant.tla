-------------------------- MODULE IngestionInvariant --------------------------
(***************************************************************************)
(* The inductive invariant behind the safety properties of the ingestion   *)
(* pipeline: what an attempt still knows to be true at each place of       *)
(* load_bundle although other attempts have committed in between.          *)
(***************************************************************************)
EXTENDS IngestionProperties

\* A row that was found is still that row; one that was not may be there now.
SeenIsVisible(a) ==
  \A i \in Ids : tx[a].seen[i] # NoRow => tx[a].seen[i] = Visible(a, Dataset(a), i)

RecordVisible(a, d, n) ==
  Visible(a, d, bundle[a].files[d][n].id).content = bundle[a].files[d][n].content

\* Every record behind the position of the load is visible with its content.
LoadedIsVisible(a) ==
  \A k \in 1 .. Len(LoadOrder) : \A n \in 1 .. Len(bundle[a].files[LoadOrder[k]]) :
    k < tx[a].at \/ (k = tx[a].at /\ n < tx[a].pos) => RecordVisible(a, LoadOrder[k], n)

\* The inserts of an open transaction are of keys that nobody has committed.
OwnInserts(a) ==
  \A d \in Datasets, i \in Ids :
    tx[a].new[d][i] # NoRow => tx[a].new[d][i].load = a /\ rows[d][i] = NoRow

ExclusiveInserts ==
  \A a, b \in Attempts : \A d \in Datasets, i \in Ids :
    tx[a].new[d][i] # NoRow /\ tx[b].new[d][i] # NoRow => a = b

\* How far the run's row is when the attempt is at its place.
RunFollows(a) ==
  /\ pc[a] = "idle" => runs[a].status = "absent"
  /\ pc[a] \in Working \ {"dberror"} => runs[a].status = "running"
  /\ pc[a] = "dberror" => LostAcks \/ runs[a].status = "running"
  /\ runs[a].status \in {"absent", "running"} => LeftNothing(a)

Validated(a) ==
  pc[a] \in Working \ {"created"} =>
    ~ bundle[a].blocking /\ (HasRejections(bundle[a]) => persisted[a] >= 1)

TxFollows(a) ==
  /\ pc[a] \notin InTransaction => tx[a] = NewTx
  /\ pc[a] = "inserting" => ~ Loaded(a) /\ SeenIsVisible(a)
  /\ pc[a] \in {"superseding", "publishing"} => Loaded(a) /\ tx[a].conflicts = 0
  /\ pc[a] \in InTransaction /\ tx[a].conflicts = 0 => LoadedIsVisible(a)
  /\ \A r \in tx[a].current : pubs[r] # "none"

AttemptInv(a) == RunFollows(a) /\ Validated(a) /\ TxFollows(a) /\ OwnInserts(a)

TablesInv ==
  /\ RowsAreAccounted
  /\ OneCurrentPublication
  /\ PublishedBundleIsStored
  /\ RejectionsArePersisted
  /\ LostAcks \/ FailedAttemptLeavesNothing

IInv == TypeOK /\ TablesInv /\ ExclusiveInserts /\ \A a \in Attempts : AttemptInv(a)
==============================================================================
