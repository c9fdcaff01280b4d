-------------------------- MODULE BundleProperties --------------------------
(***************************************************************************)
(* What the validation of a bundle is worth to the load, and what the     *)
(* tables hold when it is done.                                            *)
(***************************************************************************)
EXTENDS BundleValidation

\* Rows are known by their numbers, only kept rows are stored, and the run has
\* the status its attempt has come to (service.py:83-175).
BundleTypeOK ==
  /\ Declared \subseteq {e.dataset : e \in {bundle.entries[n] : n \in Entries}}
  /\ stage \in Stages
  /\ at \in 1 .. Len(LoadOrder) + 1
  /\ kept \in [OperationalDatasets -> SUBSET Nat]
  /\ stored \in [OperationalDatasets -> SUBSET Nat]
  /\ \A d \in OperationalDatasets : stored[d] \subseteq kept[d]
  /\ stage # "raised" => run =
       (CASE stage \in {"block", "load"} -> "running"
          [] stage \in {"blocked", "refused", "unreconciled"} -> "failed"
          [] stage = "published" -> "success"
          [] OTHER -> "none")
  /\ stage = "raised" => run \in {"none", "running"} /\ stored = Nothing

\* "Stage B" (validators.py:31-82) checks references across files before
\* anything is inserted, the tables check them one INSERT at a time
\* (loaders.py:209-213): whatever was dropped in parsing and whatever the load
\* order, a reference that was checked finds its row in the tables.
CheckedReferencesResolve ==
  stage = "load" /\ at <= Len(LoadOrder) /\ Dataset \in DOMAIN CheckedColumns =>
    \A c \in CheckedColumns[Dataset], n \in kept[Dataset] :
      \/ Cell(Dataset, n, c) = None
      \/ \E m \in stored[Referenced[c]] : Cell(Referenced[c], m, "id") = Cell(Dataset, n, c)

\* Rules that the validation (validators.py:211-335) and the tables both have:
\* money is not negative, an allocation has the schedule its bucket asks for, and
\* receipts and commitments are on the line of their schedule.
Shared == [
  purchase_order_line_versions |-> {<<"check", "unit_price_aud">>, <<"check", "line_value_aud">>},
  receipt_allocations |-> {<<"check", "delivery_schedule_id">>, <<"line", "receipt_allocations">>},
  supplier_commitment_observations |-> {<<"line", "supplier_commitment_observations">>}]

\* A bundle that passed the validation is not refused for a rule of Shared, save
\* that an allocation of no receipt at all is never looked at.
CheckedRulesHold ==
  stage = "load" /\ at <= Len(LoadOrder) /\ Dataset \in DOMAIN Shared =>
    LET refused == Violations(Dataset, Rows(Dataset, kept[Dataset]), Tables)
    IN <<"not null", "receipt_transaction_id">> \in refused \/ refused \cap Shared[Dataset] = {}
------------------------------------------------------------------------------
(* Committed tables *)

Committed == {"published", "unreconciled"}

StoredWith(d, c, x) == {n \in stored[d] : Cell(d, n, c) = x}

\* The validation computes its totals from records in the order of the file and
\* before any table has had its say (validators.py:147-258): in what is committed,
\* no later version of a line than the one the schedules add up to, no second
\* allocation of what a receipt brought, one supplier for each order, amounts
\* that are quantity times price, and nothing observed after the as-of time.
CommittedReconciles ==
  stage \in Committed =>
    /\ \A s \in stored["delivery_schedules"] :
         LET line == Schedule(s, "po_line_id")
             versions == StoredWith("purchase_order_line_versions", "po_line_id", line)
             total == ColumnSum(File("delivery_schedules"), "scheduled_quantity",
                                StoredWith("delivery_schedules", "po_line_id", line))
         IN \A n \in versions :
              \/ \E m \in versions : Version(m, "amendment_version") > Version(n, "amendment_version")
              \/ total = Version(n, "base_quantity")
    /\ \A r \in stored["receipt_transactions"] :
         ColumnSum(File("receipt_allocations"), "allocated_base_quantity",
             StoredWith("receipt_allocations", "receipt_transaction_id", Receipt(r, "id")))
           \in {Receipt(r, "base_quantity"), -Receipt(r, "base_quantity")}
    /\ \A p \in stored["purchase_orders"] :
         Cardinality({Cell("purchase_order_versions", n, "supplier_id") :
            n \in StoredWith("purchase_order_versions", "purchase_order_id",
                             Cell("purchase_orders", p, "id"))}) <= 1
    /\ \A n \in stored["purchase_order_line_versions"] :
         Version(n, "base_quantity") * Version(n, "unit_price_aud") - Version(n, "line_value_aud")
           \in -Cent .. Cent
    /\ \A d \in DOMAIN ObservedColumns : \A n \in stored[d], c \in ObservedColumns[d] :
         Cell(d, n, c) <= AsOf

\* "The current-success publication pointer is replaced only after
\* reconciliation passes" (docs/ingestion_pipeline.md:51): a published bundle is
\* in the tables to the last row of files with the hashes of the manifest.  Its
\* counts include blank lines, which one reader counts and the other skips
\* (manifest.py:218-222, readers.py:26): only by those do they exceed what is
\* stored, although reconciliation never looks at them (reconciliation.py:36-56).
PublishedIsWhole ==
  stage = "published" =>
    \A d \in OperationalDatasets :
      /\ d \in Declared
      /\ stored[d] = DOMAIN File(d)
      /\ Cardinality(stored[d]) = manifest[d].count - bundle.files[manifest[d].file].blanks
      /\ bundle.files[manifest[d].file].hash = manifest[d].hash

\* "If validation blocks before loading, the run is marked failed and all
\* rejections are persisted, even on an empty database."
\* (docs/ingestion_pipeline.md:53)
BlockedIsRecorded ==
  stage \in Final \ {"unreadable"} /\ HasBlocking(rejections) => run = "failed"
==============================================================================
