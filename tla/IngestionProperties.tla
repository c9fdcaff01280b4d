------------------------- MODULE IngestionProperties -------------------------
(***************************************************************************)
(* What the ingestion pipeline has to keep true, whatever attempts run     *)
(* side by side and wherever they stop.                                    *)
(***************************************************************************)
EXTENDS IngestionPipeline

RowType == [content: Contents, load: Attempts] \cup {NoRow}
RowsType == [Datasets -> [Ids -> RowType]]

TxType ==
  [new: RowsType, at: Nat \ {0}, pos: Nat \ {0}, seen: [Ids -> RowType],
   accepted: [Datasets -> Nat], conflicts: Nat, current: SUBSET Attempts]

\* Every table and transaction record is of its type, and an attempt past the
\* creation of its run has a bundle (service.py 114-175).
TypeOK ==
  /\ runs \in [Attempts -> [status: {"absent", "running", "success", "failed"},
                            reason: Reasons \cup {None}]]
  /\ rows \in RowsType
  /\ loads \subseteq Attempts
  /\ recon \in [Attempts -> {"none", "passed", "failed"}]
  /\ pubs \in [Attempts -> {"none", "current", "superseded"}]
  /\ persisted \in [Attempts -> Nat]
  /\ dbUp \in BOOLEAN
  /\ outages \in Nat
  /\ pc \in [Attempts -> {"idle", "done", "gone"} \cup Working]
  /\ bundle \in [Attempts -> Bundles \cup {None}]
  /\ tx \in [Attempts -> TxType]
  /\ \A a \in Attempts : pc[a] # "idle" => bundle[a] \in Bundles

\* publish_successful_run (publication.py 17-52) supersedes and inserts in two
\* statements; however two runs interleave them, readers find one current
\* publication from the first one on.
OneCurrentPublication ==
  /\ \A a, b \in Attempts : pubs[a] = "current" /\ pubs[b] = "current" => a = b
  /\ (\E a \in Attempts : pubs[a] # "none") => \E a \in Attempts : pubs[a] = "current"

Stored(b) ==
  \A d \in Datasets : \A n \in DOMAIN b.files[d] :
    rows[d][b.files[d][n].id].content = b.files[d][n].content

\* A published run stands for its bundle: each of its records is in the
\* database with its content, whether this run inserted it or found it there
\* (loaders.py 113-157), and nothing that blocks was in it.
PublishedBundleIsStored ==
  \A a \in Attempts : pubs[a] # "none" => ~ bundle[a].blocking /\ Stored(bundle[a])

LeftNothing(a) ==
  /\ a \notin loads /\ recon[a] = "none" /\ pubs[a] = "none"
  /\ \A d \in Datasets, i \in Ids : rows[d][i].load # a

\* "domain rows, source-load rows, reconciliation rows and publication changes
\* from that attempt are rolled back" (docs/ingestion_pipeline.md:53): a run
\* that is still running, was blocked, met a conflict or a database failure has
\* left nothing behind (service.py 128-175).
FailedAttemptLeavesNothing ==
  \A a \in Attempts :
    \/ runs[a].status \in {"absent", "running"}
    \/ runs[a].reason \in Reasons \ {"reconciliation_failed"}
    => LeftNothing(a)

\* "Warning-only exclusions and record-rejectable rows are persisted"
\* (docs/ingestion_pipeline.md:69): whichever of the four transactions that can
\* decide a run decided it, its rejections are in rejected_records.
RejectionsArePersisted ==
  \A a \in Attempts :
    runs[a].status \in {"success", "failed"} /\ HasRejections(bundle[a]) => persisted[a] >= 1

\* "Operational rows then load inside one PostgreSQL transaction"
\* (docs/ingestion_pipeline.md:51): a row is never there without the source load
\* it names and the reconciliation of the attempt that inserted it, which either
\* passed and was published or failed (service.py 145-157).
RowsAreAccounted ==
  \A d \in Datasets, i \in Ids :
    LET a == rows[d][i].load
    IN  rows[d][i] # NoRow =>
          a \in loads /\ recon[a] = (IF pubs[a] # "none" THEN "passed" ELSE "failed")

\* "Record-rejectable rows may continue only when no blocking relationship or
\* control fails" (docs/ingestion_pipeline.md:69): a run whose records all are
\* in the database does not fail its reconciliation.
RejectableRowsContinue ==
  \A a \in Attempts :
    runs[a].reason = "reconciliation_failed" => ~ Stored(bundle[a])

\* "The durable run is then marked failed" (docs/ingestion_pipeline.md:53): a run
\* gets its verdict although attempts wait for each other's keys, in a circle
\* even, statements fail and the database stops (service.py 155-175).  What leaves
\* it running is the end of its process: a crash, or an error outside the try
\* block or in a handler, for a database that is down.
RunsGetVerdict ==
  \A a \in Attempts :
    runs[a].status = "running" ~> runs[a].status \in {"success", "failed"} \/ pc[a] = "gone"
------------------------------------------------------------------------------
(* The publication pointer that the pipeline implements *)

PublishedRuns == {a \in Attempts : pubs[a] # "none"}

CurrentRun ==
  IF \E a \in Attempts : pubs[a] = "current"
  THEN CHOOSE a \in Attempts : pubs[a] = "current"
  ELSE None

Pointer == INSTANCE PublicationPointer
  WITH Runs <- Attempts, NoRun <- None, published <- PublishedRuns, current <- CurrentRun

\* Loads, failures and outages never move the pointer; a publication moves it
\* to its own run, once, in one step (publication.py 17-52).
ImplementsPointer == Pointer!PointerSpec
------------------------------------------------------------------------------
(* Fairness: the process of an attempt runs on unless it is killed, a      *)
(* database that stopped is restarted, and PostgreSQL fails a statement of *)
(* transactions that wait for each other in a circle.  Nothing else fails  *)
(* of necessity, and nobody has to call load_bundle.                       *)

\* An attempt in a circle is in every set that holds those it waits for and
\* those that the members of the set wait for.
InCircle(a) ==
  \A C \in SUBSET Attempts :
    (\A b \in C \cup {a}, c \in Attempts : WaitsFor(b, c) => c \in C) => a \in C

DeadlockDetected == \E a \in Attempts : InCircle(a) /\ StatementFails(a)

\* The load that finds the database down does so in its first statement.
GoesOn(a) == Proceed(a) \/ (~ dbUp /\ pc[a] = "validated" /\ StatementFails(a))

Fairness ==
  /\ WF_vars(DatabaseRestarts)
  /\ WF_vars(DeadlockDetected)
  /\ \A a \in Attempts : WF_vars(GoesOn(a))

FairSpec == Spec /\ Fairness
==============================================================================
