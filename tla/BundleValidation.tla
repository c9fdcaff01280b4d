-------------------------- MODULE BundleValidation --------------------------
(***************************************************************************)
(* validate_bundle, and what load_bundle makes of its result: a bundle is  *)
(* inspected, parsed dataset by dataset in the load order, validated       *)
(* across datasets and then loaded into empty tables, one INSERT for each  *)
(* dataset, reconciled and published.  Files do not change meanwhile.      *)
(* A row is known by its number in its file.  Blank lines are no rows, but *)
(* the manifest check counts them.                                         *)
(***************************************************************************)
EXTENDS PhysicalSchema, FiniteSetsExt

CONSTANTS
  Bundles,          \* directories that load_bundle may be given, as they are
  OutsideFiles,     \* file names that lead out of the bundle's directory
  SchemaVersion,    \* EXPECTED_SCHEMA_VERSION
  GeneratorVersion  \* EXPECTED_GENERATOR_VERSION

\* A file, and a manifest, has its rows one after the other.
ASSUME BundlesAssumption ==
  \A b \in Bundles :
    /\ Len(b.entries) \in Nat /\ DOMAIN b.entries = 1 .. Len(b.entries)
    /\ \A f \in DOMAIN b.files :
         LET rows == b.files[f].rows IN Len(rows) \in Nat /\ DOMAIN rows = 1 .. Len(rows)
    /\ \A f \in DOMAIN b.files : b.files[f].blanks \in Nat

\* Quantities, amounts, dates and points in time are numbers, cells without them
\* empty or junk.
ASSUME NumbersAssumption ==
  /\ None \notin Int /\ Junk \notin Int
  /\ \A b \in Bundles :
       /\ \A n \in DOMAIN b.entries : b.entries[n].asof \in Int \cup {None, Junk}
       /\ \A f \in DOMAIN b.files : \A n \in DOMAIN b.files[f].rows :
            LET row == b.files[f].rows[n] IN
            \A c \in DOMAIN row \cap NumberColumns : row[c] \in Int \cup {None, Junk}

VARIABLES
  bundle,      \* the directory
  manifest,    \* the rows of its manifest that can be read, by dataset
  stage,       \* what is done next, or how the attempt ended
  at,          \* the place in the load order
  rejections,  \* what validation found
  kept,        \* records_by_dataset, as the numbers of the rows that parsed
  run,         \* the status of the pipeline run
  stored       \* the rows in the tables

bundlevars == <<bundle, manifest, stage, at, rejections, kept, run, stored>>

Final == {"unreadable", "raised", "blocked", "refused", "unreconciled", "published"}
Stages == {"inspect", "parse", "cross", "record", "block", "load"} \cup Final

Rejection(dataset, row, code, class, field) ==
  [dataset |-> dataset, row |-> row, code |-> code, class |-> class, field |-> field]

BundleBlocking(dataset, code) == Rejection(dataset, 0, code, "bundle-blocking", None)
Warning(dataset, code) == Rejection(dataset, 0, code, "warning-only", None)
DatasetBlocking(dataset, row, code, field) ==
  Rejection(dataset, row, code, "dataset-blocking", field)

HasBlocking(found) == \E r \in found : r.class \in {"bundle-blocking", "dataset-blocking"}
------------------------------------------------------------------------------
(* The manifest *)

Entries == {n \in DOMAIN bundle.entries : bundle.entries[n].valid}
Declares(n, d) == bundle.entries[n].dataset = d

\* A later row for a dataset replaces an earlier one.
ReadManifest ==
  [d \in {bundle.entries[n].dataset : n \in Entries} |->
     bundle.entries[CHOOSE n \in Entries :
       Declares(n, d) /\ \A m \in Entries : Declares(m, d) => m <= n]]

HasManifest == bundle.found /\ "manifest" \in bundle.controls

Declared == DOMAIN manifest
HasFile(d) == manifest[d].file \in DOMAIN bundle.files
File(d) == bundle.files[manifest[d].file].rows

\* csv.reader returns a blank line as a row without cells, csv.DictReader, by
\* which the rows are read, skips it.
CountDataRows(file) == Len(file.rows) + file.blanks

EntryRejections(e) ==
  {BundleBlocking(e.dataset, code) : code \in
     (IF e.dataset \notin AllowedDatasets THEN {"UNAPPROVED_DATASET"} ELSE {})
     \cup (IF e.generator # GeneratorVersion THEN {"GENERATOR_VERSION_MISMATCH"} ELSE {})
     \cup (IF e.schema # SchemaVersion THEN {"SCHEMA_VERSION_MISMATCH"} ELSE {})
     \cup (IF e.file \in OutsideFiles THEN {"PATH_TRAVERSAL"}
           ELSE IF e.file \notin DOMAIN bundle.files THEN {"MISSING_DATASET_FILE"}
           ELSE (IF bundle.files[e.file].hash # e.hash THEN {"FILE_HASH_MISMATCH"} ELSE {})
                \cup (IF CountDataRows(bundle.files[e.file]) # e.count
                      THEN {"ROW_COUNT_MISMATCH"} ELSE {}))}

\* A file is named after its dataset; only the names of evaluation datasets may
\* be left out of the manifest.
UndeclaredFiles(entries) ==
  LET files == DOMAIN bundle.files \ (OutsideFiles \cup {e.file : e \in entries})
  IN {Warning(f, "UNDECLARED_FILE") : f \in files \cap EvaluationOnly}
     \cup {BundleBlocking(f, "UNDECLARED_FILE") : f \in files \ EvaluationOnly}

Varies(entries, field) == Cardinality({e[field] : e \in entries}) > 1

ManifestRejections(entries) ==
  {Rejection("manifest", n, "INVALID_MANIFEST_ROW", "bundle-blocking", None) :
     n \in (DOMAIN bundle.entries) \ Entries}
  \cup UndeclaredFiles(entries)
  \cup (UNION {EntryRejections(e) : e \in entries})
  \cup (IF \E f \in {"config", "generator", "schema", "asof"} : Varies(entries, f)
        THEN {BundleBlocking("manifest", "INCONSISTENT_MANIFEST_METADATA")} ELSE {})

ScopeRejections(datasets) ==
  {BundleBlocking(d, "MISSING_OPERATIONAL_DATASET") : d \in OperationalDatasets \ datasets}
  \cup {Warning(d, "NON_OPERATIONAL_FILE_SKIPPED") :
          d \in datasets \cap (EvaluationOnly \cup EvidenceDatasets)}

VerifyBundle(rows) ==
  IF ~ bundle.found THEN {BundleBlocking("bundle", "BUNDLE_NOT_FOUND")}
  ELSE {BundleBlocking(f, "MISSING_CONTROL_FILE") :
          f \in {"manifest", "quality_summary", "distribution_summary"} \ bundle.controls}
       \cup (IF HasManifest THEN ManifestRejections({rows[d] : d \in DOMAIN rows}) ELSE {})
------------------------------------------------------------------------------
(* Rows *)

Missing(d, n) == RequiredColumns(d) \ DOMAIN File(d)[n]
Extra(d, n) == (DOMAIN File(d)[n]) \ (RequiredColumns(d) \cup OptionalColumns(d))
Complete(d, n) == Missing(d, n) = {} /\ Extra(d, n) = {}

Invalid(d, n) == {c \in RequiredColumns(d) : ~ CellParses(c, File(d)[n][c])}

Parses(d, n) == Complete(d, n) /\ Invalid(d, n) = {}

RowRejections(d, n) ==
  IF Missing(d, n) # {} THEN {DatasetBlocking(d, n, "MISSING_REQUIRED_COLUMN", None)}
  ELSE IF Extra(d, n) # {} THEN {DatasetBlocking(d, n, "UNDECLARED_COLUMN", None)}
  ELSE {Rejection(d, n, "INVALID_FIELD_VALUE", "record-rejectable", c) : c \in Invalid(d, n)}

Cell(d, n, c) == File(d)[n][c]

\* The last record with an identity, if there is one.
ById(d, id) ==
  {n \in kept[d] : Cell(d, n, "id") = id /\ \A m \in kept[d] : Cell(d, m, "id") = id => m <= n}

\* Fault: what the file holds counts, whether or not it parsed.
IdsOfFile(d) == {Cell(d, n, "id") : n \in DOMAIN File(d)}

IdsOf(d) == {Cell(d, n, "id") : n \in kept[d]}
------------------------------------------------------------------------------
(* Across datasets *)

CheckedColumns == [
  source_loads |-> {"source_system_id"},
  supplier_versions |-> {"supplier_id"},
  product_versions |-> {"product_id"},
  uom_conversions |-> {"product_id"},
  product_site_inventory_policies |-> {"product_id", "site_id"},
  purchase_orders |-> {"source_system_id"},
  purchase_order_versions |-> {"purchase_order_id", "source_load_id", "supplier_id"},
  purchase_order_lines |-> {"purchase_order_id"},
  purchase_order_line_aliases |-> {"po_line_id", "source_system_id"},
  purchase_order_line_versions |-> {"po_line_id", "source_load_id", "product_id", "site_id"},
  delivery_schedules |-> {"po_line_id"},
  supplier_commitment_observations |-> {"source_load_id", "po_line_id"},
  receipt_transactions |-> {"source_system_id", "source_load_id", "po_line_id"},
  receipt_allocations |-> {"receipt_transaction_id"},
  inventory_snapshots |-> {"source_load_id", "product_id", "site_id"},
  demand_requirements |-> {"source_load_id", "product_id", "site_id"},
  supplier_performance_snapshots |-> {"supplier_id"}]

MissingReferences ==
  UNION {UNION {{DatasetBlocking(d, n, "FOREIGN_KEY_MISSING", c) :
                   n \in {m \in kept[d] : Cell(d, m, c) \notin IdsOf(Referenced[c]) \cup {None}}} :
                c \in CheckedColumns[d]} :
         d \in DOMAIN CheckedColumns}

ObservedColumns == [
  source_loads |-> {"extracted_at", "received_at"},
  purchase_order_versions |-> {"effective_at"},
  purchase_order_line_aliases |-> {"valid_from"},
  purchase_order_line_versions |-> {"effective_at"},
  receipt_transactions |-> {"posted_at"},
  supplier_commitment_observations |-> {"observed_at"},
  inventory_snapshots |-> {"snapshot_at"}]

\* The same in every row, or the bundle has been blocked.
AsOf == manifest[CHOOSE d \in Declared : TRUE].asof

AfterAsOf ==
  UNION {UNION {{DatasetBlocking(d, n, "POST_AS_OF_OPERATIONAL_TIMESTAMP", c) :
                   n \in {m \in kept[d] : Cell(d, m, c) # None /\ Cell(d, m, c) > AsOf}} :
                c \in ObservedColumns[d]} :
         d \in DOMAIN ObservedColumns}

OneSupplierPerPo ==
  \A m, n \in kept["purchase_order_versions"] :
    Cell("purchase_order_versions", m, "purchase_order_id")
      = Cell("purchase_order_versions", n, "purchase_order_id")
    => Cell("purchase_order_versions", m, "supplier_id")
         = Cell("purchase_order_versions", n, "supplier_id")

Version(n, c) == Cell("purchase_order_line_versions", n, c)
VersionsOf(line) == {n \in kept["purchase_order_line_versions"] : Version(n, "po_line_id") = line}

\* Fault: the last version of a line in the file is taken for the latest.
LastInFile(line) == CHOOSE n \in VersionsOf(line) : \A m \in VersionsOf(line) : m <= n

\* Among equals, the first in the file.
LatestVersion(line) ==
  CHOOSE n \in VersionsOf(line) : \A m \in VersionsOf(line) \ {n} :
    \/ Version(m, "amendment_version") < Version(n, "amendment_version")
    \/ Version(m, "amendment_version") = Version(n, "amendment_version") /\ n < m

Schedule(n, c) == Cell("delivery_schedules", n, c)

\* The sum of a column over the rows with these numbers.
ColumnSum(rows, c, numbers) == MapThenSumSet(LAMBDA n : rows[n][c], numbers)

ScheduledTotal(line) ==
  ColumnSum(File("delivery_schedules"), "scheduled_quantity",
            {n \in kept["delivery_schedules"] : Schedule(n, "po_line_id") = line})

SchedulesReconcile ==
  \A line \in {Schedule(n, "po_line_id") : n \in kept["delivery_schedules"]} :
    VersionsOf(line) # {} =>
      ScheduledTotal(line) = Version(LatestVersion(line), "base_quantity")

Receipt(n, c) == Cell("receipt_transactions", n, c)
Allocation(n, c) == Cell("receipt_allocations", n, c)

Receipts == {n \in kept["receipt_transactions"] :
               n \in ById("receipt_transactions", Receipt(n, "id"))}
AllocationsOf(id) == {n \in kept["receipt_allocations"] :
                        Allocation(n, "receipt_transaction_id") = id}

Absolute(x) == IF x < 0 THEN -x ELSE x

ReceiptsAllocated ==
  \A n \in Receipts :
    ColumnSum(File("receipt_allocations"), "allocated_base_quantity",
              AllocationsOf(Receipt(n, "id"))) = Absolute(Receipt(n, "base_quantity"))

\* Fault: only allocations to the rest of a line are looked at.
ResidualRejections(n) ==
  IF Allocation(n, "allocation_bucket") = "line_residual"
     /\ Allocation(n, "delivery_schedule_id") # None
  THEN {DatasetBlocking("receipt_allocations", n, "LINE_RESIDUAL_HAS_SCHEDULE",
                        "delivery_schedule_id")}
  ELSE {}

AllocationRejections(n) ==
  LET schedule == Allocation(n, "delivery_schedule_id")
      residual == Allocation(n, "allocation_bucket") = "line_residual"
      receipt == ById("receipt_transactions", Allocation(n, "receipt_transaction_id"))
      lines == {Receipt(m, "po_line_id") : m \in receipt}
               \cup {Schedule(m, "po_line_id") : m \in ById("delivery_schedules", schedule)}
  IN {DatasetBlocking("receipt_allocations", n, code, "delivery_schedule_id") : code \in
        (IF residual /\ schedule # None THEN {"LINE_RESIDUAL_HAS_SCHEDULE"} ELSE {})
        \cup (IF ~ residual /\ schedule = None THEN {"SCHEDULE_BUCKET_MISSING_SCHEDULE"} ELSE {})
        \cup (IF schedule # None /\ Cardinality(lines) > 1 THEN {"RECEIPT_SCHEDULE_LINE_MISMATCH"}
              ELSE {})}

Commitment(n, c) == Cell("supplier_commitment_observations", n, c)

MisplacedCommitments ==
  {n \in kept["supplier_commitment_observations"] :
     /\ Commitment(n, "delivery_schedule_id") # None
     /\ \E m \in ById("delivery_schedules", Commitment(n, "delivery_schedule_id")) :
          Schedule(m, "po_line_id") # Commitment(n, "po_line_id")}

Cent == 1

\* Amounts are in cents.
LineValueRejections(n) ==
  LET base == Version(n, "base_quantity")
      price == Version(n, "unit_price_aud")
      value == Version(n, "line_value_aud")
  IN {DatasetBlocking("purchase_order_line_versions", n, code, "line_value_aud") : code \in
        IF price < 0 \/ value < 0 THEN {"NEGATIVE_MONETARY_VALUE"}
        ELSE IF Absolute(base * price - value) > Cent THEN {"LINE_VALUE_MISMATCH"}
        ELSE {}}

HasReceipt(n) ==
  ById("receipt_transactions", Allocation(n, "receipt_transaction_id")) # {}

CrossRejections ==
  MissingReferences \cup AfterAsOf
  \cup (IF OneSupplierPerPo THEN {}
        ELSE {DatasetBlocking("purchase_order_versions", 0, "MULTI_SUPPLIER_PO", None)})
  \cup (IF SchedulesReconcile THEN {}
        ELSE {DatasetBlocking("delivery_schedules", 0, "SCHEDULE_LINE_QUANTITY_MISMATCH", None)})
  \cup (UNION {AllocationRejections(n) :
                  n \in {m \in kept["receipt_allocations"] : HasReceipt(m)}})
  \cup (IF ReceiptsAllocated THEN {}
        ELSE {DatasetBlocking("receipt_allocations", 0, "RECEIPT_ALLOCATION_MISMATCH", None)})
  \cup {DatasetBlocking("supplier_commitment_observations", n,
                        "COMMITMENT_SCHEDULE_LINE_MISMATCH", "delivery_schedule_id") :
          n \in MisplacedCommitments}
  \cup (UNION {LineValueRejections(n) : n \in kept["purchase_order_line_versions"]})

\* Conversions that no handler guards: int and Decimal of an empty cell, and a
\* point in time that is none.
CrossRaises ==
  \/ AsOf \in {None, Junk}
  \/ \E m, n \in kept["purchase_order_line_versions"] :
       /\ m # n /\ Version(m, "po_line_id") = Version(n, "po_line_id")
       /\ Version(m, "amendment_version") = None
  \/ \E n \in kept["purchase_order_line_versions"],
        c \in {"base_quantity", "unit_price_aud", "line_value_aud"} : Version(n, c) = None
  \/ \E n \in kept["delivery_schedules"] : Schedule(n, "scheduled_quantity") = None
  \/ \E n \in kept["receipt_allocations"] :
       HasReceipt(n) /\ Allocation(n, "allocated_base_quantity") = None
  \/ \E n \in Receipts : Receipt(n, "base_quantity") = None
------------------------------------------------------------------------------
(* The attempt *)

Nothing == [d \in OperationalDatasets |-> {}]
Rows(d, numbers) == [n \in numbers |-> File(d)[n]]

Init ==
  /\ bundle \in Bundles /\ manifest = [d \in {} |-> None]
  /\ stage = "inspect" /\ at = 1
  /\ rejections = {} /\ kept = Nothing
  /\ run = "none" /\ stored = Nothing

\* A bundle without a row of a manifest cannot be loaded: load_bundle raises.
Inspect ==
  /\ stage = "inspect"
  /\ LET rows == ReadManifest
         readable == HasManifest /\ DOMAIN rows # {}
     IN /\ manifest' = IF readable THEN rows ELSE manifest
        /\ rejections' = VerifyBundle(rows)
                          \cup (IF readable THEN ScopeRejections(DOMAIN rows) ELSE {})
        /\ stage' = IF readable THEN "parse" ELSE "unreadable"
  /\ UNCHANGED <<bundle, at, kept, run, stored>>

Dataset == LoadOrder[at]

SkipDataset ==
  /\ stage = "parse" /\ at <= Len(LoadOrder)
  /\ Dataset \notin Declared
  /\ at' = at + 1
  /\ UNCHANGED <<bundle, manifest, stage, rejections, kept, run, stored>>

\* Every file the manifest names is read, blocking rejections or not.
ReadFails ==
  /\ stage = "parse" /\ at <= Len(LoadOrder)
  /\ Dataset \in Declared
  /\ ~ HasFile(Dataset)
  /\ stage' = "raised"
  /\ UNCHANGED <<bundle, manifest, at, rejections, kept, run, stored>>

ParseDataset ==
  /\ stage = "parse" /\ at <= Len(LoadOrder)
  /\ Dataset \in Declared
  /\ HasFile(Dataset)
  /\ kept' = [kept EXCEPT ![Dataset] = {n \in DOMAIN File(Dataset) : Parses(Dataset, n)}]
  /\ rejections' = rejections \cup UNION {RowRejections(Dataset, n) : n \in DOMAIN File(Dataset)}
  /\ at' = at + 1
  /\ UNCHANGED <<bundle, manifest, stage, run, stored>>

FinishParsing ==
  /\ stage = "parse" /\ at > Len(LoadOrder)
  /\ stage' = IF HasBlocking(rejections) THEN "record" ELSE "cross"
  /\ at' = 1
  /\ UNCHANGED <<bundle, manifest, rejections, kept, run, stored>>

ValidateCrossDataset ==
  /\ stage = "cross"
  /\ IF CrossRaises
     THEN stage' = "raised" /\ UNCHANGED rejections
     ELSE stage' = "record" /\ rejections' = rejections \cup CrossRejections
  /\ UNCHANGED <<bundle, manifest, at, kept, run, stored>>

CreateIngestionRun ==
  /\ stage = "record"
  /\ run' = "running"
  /\ stage' = IF HasBlocking(rejections) THEN "block" ELSE "load"
  /\ UNCHANGED <<bundle, manifest, at, rejections, kept, stored>>

BlockRun ==
  /\ stage = "block"
  /\ run' = "failed" /\ stage' = "blocked"
  /\ UNCHANGED <<bundle, manifest, at, rejections, kept, stored>>

Tables == [d \in OperationalDatasets |-> Rows(d, stored[d])]

\* Fault: the run is forgotten.
RefuseSilently == run' = run /\ stage' = "refused" /\ stored' = Nothing

\* The transaction is rolled back.
Refuse == run' = "failed" /\ stage' = "refused" /\ stored' = Nothing

\* The loader asserts that a source load has an identity; no handler expects
\* the assertion to fail.
AssertionFails == Dataset = "source_loads" /\ None \in IdsOf("source_loads")

LoadDataset ==
  /\ stage = "load" /\ at <= Len(LoadOrder)
  /\ IF AssertionFails
     THEN stage' = "raised" /\ stored' = Nothing /\ UNCHANGED <<at, run>>
     ELSE IF Violations(Dataset, Rows(Dataset, kept[Dataset]), Tables) # {}
     THEN Refuse /\ UNCHANGED at
     ELSE /\ stored' = [stored EXCEPT ![Dataset] = kept[Dataset]]
          /\ at' = at + 1
          /\ UNCHANGED <<stage, run>>
  /\ UNCHANGED <<bundle, manifest, rejections, kept>>

\* Fault: only rejections of whole datasets count.
DatasetRejections(d) == {r \in rejections : r.dataset = d /\ r.row = 0 /\ r.class # "warning-only"}

\* A row counts as often as it has invalid cells.
RejectedOf(d) == {r \in rejections : r.dataset = d /\ r.row # 0}

\* Every kept row has been inserted: what is left are the rejections, which the
\* number of kept rows does not include.
Difference(d) ==
  Absolute(Cardinality(kept[d]) - Cardinality(stored[d]) - Cardinality(RejectedOf(d)))

\* A run that does not reconcile fails; its rows are committed.
Reconcile ==
  /\ stage = "load" /\ at > Len(LoadOrder)
  /\ IF \A d \in OperationalDatasets : Difference(d) = 0
     THEN run' = "success" /\ stage' = "published"
     ELSE run' = "failed" /\ stage' = "unreconciled"
  /\ UNCHANGED <<bundle, manifest, at, rejections, kept, stored>>

Next ==
  \/ Inspect \/ SkipDataset \/ ReadFails \/ ParseDataset \/ FinishParsing
  \/ ValidateCrossDataset \/ CreateIngestionRun \/ BlockRun \/ LoadDataset \/ Reconcile

Spec == Init /\ [][Next]_bundlevars
==============================================================================
