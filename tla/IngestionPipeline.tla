-------------------------- MODULE IngestionPipeline --------------------------
(***************************************************************************)
(* load_bundle: validated bundles are loaded into PostgreSQL at READ       *)
(* COMMITTED, reconciled and published.                                    *)
(*                                                                         *)
(* An attempt is one call.  It uses a transaction of its own for each of   *)
(*   - the control row of its pipeline run;                                *)
(*   - the rejections of a bundle that may still be loaded;                *)
(*   - the load, up to the publication: source loads, the datasets in      *)
(*     order and in batches, the reconciliation and the new pointer;       *)
(*   - the verdict on a run whose load was rolled back.                    *)
(* Attempts run side by side, and a process or the database may stop       *)
(* between any two statements.  Validation reads files only: its result is *)
(* part of the bundle.                                                     *)
(***************************************************************************)
EXTENDS Naturals, Sequences, FiniteSets

CONSTANTS
  Attempts,    \* calls of load_bundle; each creates the run it is named after
  Bundles,     \* bundles with a readable manifest, as validated
  Datasets,    \* operational datasets other than source_loads
  LoadOrder,   \* their load order: a dataset for each place
  Ids,         \* governed identities of rows
  Contents,    \* mapped column values other than source_load_id
  BatchSize,
  MaxOutages,  \* bound on the times the database goes down
  LostAcks,    \* whether the acknowledgement of a COMMIT may be lost
  None

\* A bundle holds its parsed records by dataset, the number of rejections
\* that name a row of a dataset (the parser drops such rows from the records),
\* and whether it has warnings or blocking rejections.
BundleType ==
  [files: [Datasets -> Seq([id: Ids, content: Contents])],
   defects: [Datasets -> Nat], warnings: BOOLEAN, blocking: BOOLEAN]

\* What a failed run may give as its reason.
Reasons == {"validation_blocked", "reconciliation_failed",
            "source_identity_conflict", "database_load_failure"}

ASSUME PipelineAssumption ==
  /\ Bundles \subseteq BundleType
  /\ LoadOrder \in Seq(Datasets)
  /\ \A d \in Datasets : \E n \in 1 .. Len(LoadOrder) : LoadOrder[n] = d
  /\ BatchSize \in Nat \ {0}
  /\ MaxOutages \in Nat
  /\ LostAcks \in BOOLEAN
  /\ None \notin Attempts /\ None \notin Contents
  /\ None \notin Bundles /\ None \notin Reasons

VARIABLES
  runs,      \* pipeline_runs: status and failure_reason
  rows,      \* domain tables: content and the attempt whose source load it names
  loads,     \* the attempts whose source_loads rows are committed
  recon,     \* reconciliation_results of each run, as one verdict
  pubs,      \* analytics_publications: status and is_current_success
  persisted, \* how often the rejections of the validation were persisted
  dbUp,      \* whether the database accepts connections
  outages,   \* how often it went down
  pc,        \* where each attempt is
  bundle,    \* the bundle of each attempt
  tx         \* the open load transaction of each attempt

committed == <<runs, rows, loads, recon, pubs, persisted>>
vars == <<committed, dbUp, outages, pc, bundle, tx>>
------------------------------------------------------------------------------
(* Records and transactions *)

NoRow == [content |-> None, load |-> None]

HasRejections(b) == b.warnings \/ b.blocking \/ \E d \in Datasets : b.defects[d] > 0

NoRowsAnywhere == [d \in Datasets |-> [i \in Ids |-> NoRow]]

\* at and pos are the next dataset and the next record of its file; seen is
\* what the SELECT of the current batch found, stale once another commits.
NewTx ==
  [new |-> NoRowsAnywhere, at |-> 1, pos |-> 1, seen |-> [i \in Ids |-> NoRow],
   accepted |-> [d \in Datasets |-> 0], conflicts |-> 0, current |-> {}]

InTransaction == {"loading", "inserting", "superseding", "publishing"}
Working == {"created", "validated", "conflict", "dberror"} \cup InTransaction

\* What a statement of a sees: its own inserts over the committed rows.
Visible(a, d, i) == IF tx[a].new[d][i] # NoRow THEN tx[a].new[d][i] ELSE rows[d][i]

Loaded(a) == tx[a].at > Len(LoadOrder)
Dataset(a) == LoadOrder[tx[a].at]
File(a) == bundle[a].files[Dataset(a)]
Batch(a) == {n \in 1 .. Len(File(a)) : tx[a].pos <= n /\ n < tx[a].pos + BatchSize}

Go(a, place) == pc' = [pc EXCEPT ![a] = place]

\* The attempt leaves its load transaction, by COMMIT or by ROLLBACK.
EndTx(a, place) == Go(a, place) /\ tx' = [tx EXCEPT ![a] = NewTx]
------------------------------------------------------------------------------
(* Control transactions *)

Verdict(a, status, reason) ==
  runs' = [runs EXCEPT ![a] = [status |-> status, reason |-> reason]]

\* Fault: only rejections that block are persisted.
PersistBlocking(a) ==
  persisted' = [persisted EXCEPT ![a] = IF bundle[a].blocking THEN @ + 1 ELSE @]

\* persist_rejections adds a row for each rejection, whatever is there.
Persist(a) ==
  persisted' = [persisted EXCEPT ![a] = IF HasRejections(bundle[a]) THEN @ + 1 ELSE @]

CreateIngestionRun(a) ==
  /\ dbUp
  /\ pc[a] = "idle"
  /\ \E b \in Bundles : bundle' = [bundle EXCEPT ![a] = b]
  /\ Verdict(a, "running", None)
  /\ Go(a, "created")
  /\ UNCHANGED <<rows, loads, recon, pubs, persisted, dbUp, outages, tx>>

\* _persist_and_fail_run for blocking rejections: nothing is loaded.
BlockRun(a) ==
  /\ dbUp
  /\ pc[a] = "created"
  /\ bundle[a].blocking
  /\ Persist(a)
  /\ Verdict(a, "failed", "validation_blocked")
  /\ Go(a, "done")
  /\ UNCHANGED <<rows, loads, recon, pubs, dbUp, outages, bundle, tx>>

\* Without rejections there is no transaction.
PersistRejections(a) ==
  /\ pc[a] = "created"
  /\ HasRejections(bundle[a]) => dbUp
  /\ ~ bundle[a].blocking
  /\ Persist(a)
  /\ Go(a, "validated")
  /\ UNCHANGED <<runs, rows, loads, recon, pubs, dbUp, outages, bundle, tx>>
------------------------------------------------------------------------------
(* The load transaction *)

\* The transaction begins; the source loads get fresh identities and no
\* statement about them can conflict.
BeginLoad(a) ==
  /\ dbUp
  /\ pc[a] = "validated"
  /\ Go(a, "loading")
  /\ UNCHANGED <<committed, dbUp, outages, bundle, tx>>

\* _existing_rows_by_id for one batch.
SelectBatch(a) ==
  /\ pc[a] = "loading"
  /\ ~ Loaded(a)
  /\ tx' = [tx EXCEPT ![a].seen = [i \in Ids |-> Visible(a, Dataset(a), i)]]
  /\ Go(a, "inserting")
  /\ UNCHANGED <<committed, dbUp, outages, bundle>>

\* Fault: a row with the identity of another is taken for that row.
AnyRowMatches(row, record) == TRUE

\* _rows_match: every mapped column but source_load_id.
RowsMatch(row, record) == row.content = record.content

\* Records of the batch that were absent, that were there, and the rest.
Payload(a) == {n \in Batch(a) : tx[a].seen[File(a)[n].id] = NoRow}
Existing(a) ==
  {n \in Batch(a) \ Payload(a) : RowsMatch(tx[a].seen[File(a)[n].id], File(a)[n])}
Conflicts(a) == Batch(a) \ (Payload(a) \cup Existing(a))

PayloadIds(a) == {File(a)[n].id : n \in Payload(a)}

\* INSERT waits for a transaction that has inserted one of the keys ...
WaitsFor(a, b) ==
  /\ a # b
  /\ pc[a] = "inserting"
  /\ \E i \in PayloadIds(a) : tx[b].new[Dataset(a)][i] # NoRow

InsertWaits(a) == \E b \in Attempts : WaitsFor(a, b)

\* ... and fails if one of them is there, or twice in the payload.
InsertViolates(a) ==
  \/ \E i \in PayloadIds(a) : Visible(a, Dataset(a), i) # NoRow
  \/ \E n, m \in Payload(a) : n # m /\ File(a)[n].id = File(a)[m].id

\* Fault: source_load_id is not remapped to the attempt's own source load.
InsertedUnmapped(a) ==
  [i \in Ids |->
     IF i \in PayloadIds(a)
     THEN [content |-> File(a)[CHOOSE n \in Payload(a) : File(a)[n].id = i].content,
           load |-> None]
     ELSE tx[a].new[Dataset(a)][i]]

Inserted(a) ==
  [i \in Ids |->
     IF i \in PayloadIds(a)
     THEN [content |-> File(a)[CHOOSE n \in Payload(a) : File(a)[n].id = i].content,
           load |-> a]
     ELSE tx[a].new[Dataset(a)][i]]

\* The position after the batch: the next batch or the next dataset.
LastBatch(a) == Len(File(a)) < tx[a].pos + BatchSize

AfterBatch(a) ==
  [new |-> [tx[a].new EXCEPT ![Dataset(a)] = Inserted(a)],
   at |-> IF LastBatch(a) THEN tx[a].at + 1 ELSE tx[a].at,
   pos |-> IF LastBatch(a) THEN 1 ELSE tx[a].pos + BatchSize,
   seen |-> tx[a].seen,
   accepted |-> [tx[a].accepted EXCEPT
                   ![Dataset(a)] = @ + Cardinality(Payload(a) \cup Existing(a))],
   conflicts |-> tx[a].conflicts + Cardinality(Conflicts(a)),
   current |-> tx[a].current]

InsertBatch(a) ==
  /\ pc[a] = "inserting"
  /\ ~ InsertWaits(a)
  /\ ~ InsertViolates(a)
  /\ tx' = [tx EXCEPT ![a] = AfterBatch(a)]
  /\ Go(a, "loading")
  /\ UNCHANGED <<committed, dbUp, outages, bundle>>

InsertFails(a) ==
  /\ pc[a] = "inserting"
  /\ ~ InsertWaits(a)
  /\ InsertViolates(a)
  /\ EndTx(a, "dberror")
  /\ UNCHANGED <<committed, dbUp, outages, bundle>>

\* The tables once the transaction has committed.
RowsAfter(a) == [d \in Datasets |-> [i \in Ids |-> Visible(a, d, i)]]

\* Fault: a conflict returns from inside the transaction instead of raising.
ReturnConflict(a) ==
  /\ pc[a] = "loading"
  /\ Loaded(a)
  /\ tx[a].conflicts > 0
  /\ rows' = RowsAfter(a)
  /\ EndTx(a, "conflict")
  /\ UNCHANGED <<runs, loads, recon, pubs, persisted, dbUp, outages, bundle>>

\* SourceIdentityConflictError, raised when every dataset has been loaded.
RaiseConflict(a) ==
  /\ pc[a] = "loading"
  /\ Loaded(a)
  /\ tx[a].conflicts > 0
  /\ EndTx(a, "conflict")
  /\ UNCHANGED <<committed, dbUp, outages, bundle>>
------------------------------------------------------------------------------
(* Reconciliation and publication *)

\* reconcile_loaded_datasets: the records are those the parser kept, but the
\* rejections of the rows it dropped are subtracted from them as well.
Reconciles(a, d) ==
  Len(bundle[a].files[d]) = tx[a].accepted[d] + bundle[a].defects[d]

AllReconcile(a) == \A d \in Datasets : Reconciles(a, d)

\* The client hears of a COMMIT, unless the acknowledgement is lost.
Acknowledged(a) ==
  \/ EndTx(a, "done")
  \/ LostAcks /\ EndTx(a, "dberror")

\* A failed reconciliation returns from inside the transaction: it commits.
CommitUnreconciled(a) ==
  /\ pc[a] = "loading"
  /\ Loaded(a)
  /\ tx[a].conflicts = 0
  /\ ~ AllReconcile(a)
  /\ rows' = RowsAfter(a)
  /\ loads' = loads \cup {a}
  /\ recon' = [recon EXCEPT ![a] = "failed"]
  /\ Verdict(a, "failed", "reconciliation_failed")
  /\ Acknowledged(a)
  /\ UNCHANGED <<pubs, persisted, dbUp, outages, bundle>>

\* publish_successful_run: the UPDATE finds the current publication ...
FindCurrent(a) ==
  /\ pc[a] = "loading"
  /\ Loaded(a)
  /\ tx[a].conflicts = 0
  /\ AllReconcile(a)
  /\ tx' = [tx EXCEPT ![a].current = {r \in Attempts : pubs[r] = "current"}]
  /\ Go(a, "superseding")
  /\ UNCHANGED <<committed, dbUp, outages, bundle>>

\* Fault: the pointer is cleared in a transaction of its own.
SupersedeFirst(a) ==
  /\ pc[a] = "superseding"
  /\ pubs' = [r \in Attempts |-> IF pubs[r] = "current" THEN "superseded" ELSE pubs[r]]
  /\ Go(a, "publishing")
  /\ UNCHANGED <<runs, rows, loads, recon, persisted, dbUp, outages, bundle, tx>>

\* ... waits while another transaction has updated it, and then updates it if
\* it is still current.
Supersede(a) ==
  /\ pc[a] = "superseding"
  /\ \A b \in Attempts \ {a} :
       pc[b] = "publishing" => tx[a].current \cap tx[b].current = {}
  /\ tx' = [tx EXCEPT ![a].current = {r \in @ : pubs[r] = "current"}]
  /\ Go(a, "publishing")
  /\ UNCHANGED <<committed, dbUp, outages, bundle>>

\* Fault: no unique index on the current publication.
AnyPublication(a) == TRUE

\* uq_analytics_publications_one_current_success
CurrentUnique(a) == \A r \in Attempts : pubs[r] = "current" => r \in tx[a].current

PublicationsAfter(a) ==
  [r \in Attempts |-> IF r = a THEN "current"
                      ELSE IF r \in tx[a].current THEN "superseded" ELSE pubs[r]]

CommitPublication(a) ==
  /\ pc[a] = "publishing"
  /\ CurrentUnique(a)
  /\ rows' = RowsAfter(a)
  /\ loads' = loads \cup {a}
  /\ recon' = [recon EXCEPT ![a] = "passed"]
  /\ pubs' = PublicationsAfter(a)
  /\ Verdict(a, "success", None)
  /\ Acknowledged(a)
  /\ UNCHANGED <<persisted, dbUp, outages, bundle>>

PublicationFails(a) ==
  /\ pc[a] = "publishing"
  /\ ~ CurrentUnique(a)
  /\ EndTx(a, "dberror")
  /\ UNCHANGED <<committed, dbUp, outages, bundle>>
------------------------------------------------------------------------------
(* Failures and their handlers *)

\* Any other constraint, a deadlock victim or a broken connection, from the first
\* statement of the load on.
StatementFails(a) ==
  /\ pc[a] \in InTransaction \cup {"validated"}
  /\ EndTx(a, "dberror")
  /\ UNCHANGED <<committed, dbUp, outages, bundle>>

\* The handlers of SourceIdentityConflictError, which persists the rejections
\* of the validation again, and of SQLAlchemyError.
FailConflict(a) ==
  /\ dbUp
  /\ pc[a] = "conflict"
  /\ Persist(a)
  /\ Verdict(a, "failed", "source_identity_conflict")
  /\ Go(a, "done")
  /\ UNCHANGED <<rows, loads, recon, pubs, dbUp, outages, bundle, tx>>

\* Fault: the failure is reported to the caller only.
FailUnrecorded(a) ==
  /\ dbUp
  /\ pc[a] = "dberror"
  /\ Go(a, "done")
  /\ UNCHANGED <<committed, dbUp, outages, bundle, tx>>

FailDatabase(a) ==
  /\ dbUp
  /\ pc[a] = "dberror"
  /\ Verdict(a, "failed", "database_load_failure")
  /\ Go(a, "done")
  /\ UNCHANGED <<rows, loads, recon, pubs, persisted, dbUp, outages, bundle, tx>>

\* Before the try block, and in a handler, an error ends the process.
Raise(a) ==
  /\ ~ dbUp
  /\ \/ pc[a] = "created" /\ HasRejections(bundle[a])
     \/ pc[a] \in {"conflict", "dberror"}
  /\ Go(a, "gone")
  /\ UNCHANGED <<committed, dbUp, outages, bundle, tx>>

\* The process is killed; the server rolls its transaction back.
Crash(a) ==
  /\ pc[a] \in Working
  /\ EndTx(a, "gone")
  /\ UNCHANGED <<committed, dbUp, outages, bundle>>

\* The server stops: open transactions are lost, which each attempt learns
\* from its next statement.
DatabaseStops ==
  /\ dbUp
  /\ outages < MaxOutages
  /\ dbUp' = FALSE
  /\ outages' = outages + 1
  /\ pc' = [a \in Attempts |-> IF pc[a] \in InTransaction THEN "dberror" ELSE pc[a]]
  /\ tx' = [a \in Attempts |-> NewTx]
  /\ UNCHANGED <<committed, bundle>>

DatabaseRestarts ==
  /\ ~ dbUp
  /\ dbUp' = TRUE
  /\ UNCHANGED <<committed, outages, pc, bundle, tx>>
------------------------------------------------------------------------------
Init ==
  /\ runs = [a \in Attempts |-> [status |-> "absent", reason |-> None]]
  /\ rows = NoRowsAnywhere
  /\ loads = {}
  /\ recon = [a \in Attempts |-> "none"]
  /\ pubs = [a \in Attempts |-> "none"]
  /\ persisted = [a \in Attempts |-> 0]
  /\ dbUp = TRUE
  /\ outages = 0
  /\ pc = [a \in Attempts |-> "idle"]
  /\ bundle = [a \in Attempts |-> None]
  /\ tx = [a \in Attempts |-> NewTx]

\* What load_bundle does next.
Proceed(a) ==
  \/ BlockRun(a) \/ PersistRejections(a) \/ BeginLoad(a)
  \/ SelectBatch(a) \/ InsertBatch(a) \/ InsertFails(a) \/ RaiseConflict(a)
  \/ CommitUnreconciled(a) \/ FindCurrent(a) \/ Supersede(a)
  \/ CommitPublication(a) \/ PublicationFails(a)
  \/ FailConflict(a) \/ FailDatabase(a) \/ Raise(a)

Next ==
  \/ \E a \in Attempts :
       CreateIngestionRun(a) \/ Proceed(a) \/ StatementFails(a) \/ Crash(a)
  \/ DatabaseStops
  \/ DatabaseRestarts

Spec == Init /\ [][Next]_vars
==============================================================================
