--------------------------- MODULE SourceContracts ---------------------------
(***************************************************************************)
(* The datasets of a source bundle and the contract of each: its columns   *)
(* and what their cells may hold.                                          *)
(***************************************************************************)
EXTENDS Integers, Sequences

CONSTANTS
  None,  \* an empty cell
  Junk   \* a cell that cannot be read as anything but text

LoadOrder ==
  << "source_systems", "source_loads", "sites", "suppliers", "supplier_versions", "products",
     "product_versions", "uom_conversions", "product_site_inventory_policies", "users",
     "ownership_mappings", "calendar_versions", "rule_versions", "purchase_orders",
     "purchase_order_versions", "purchase_order_lines", "purchase_order_line_aliases",
     "purchase_order_line_versions", "delivery_schedules", "supplier_commitment_observations",
     "receipt_transactions", "receipt_allocations", "inventory_snapshots",
     "demand_requirements", "supplier_performance_snapshots" >>

OperationalDatasets == {LoadOrder[i] : i \in DOMAIN LoadOrder}
EvaluationOnly == {"future_receipt_outcomes", "synthetic_outcome_observations"}
EvidenceDatasets == {"pipeline_runs", "scenario_registry", "scenario_assignments"}
AllowedDatasets == OperationalDatasets \cup EvaluationOnly \cup EvidenceDatasets
------------------------------------------------------------------------------
(* Required columns; every dataset has an id, too. *)

MasterColumns == [
  source_systems |-> {"source_code", "display_name", "source_type", "is_active"},
  source_loads |-> {"pipeline_run_id", "source_system_id", "dataset_type", "object_ref",
    "content_hash", "schema_version", "extracted_at", "received_at", "row_count"},
  sites |-> {"site_code", "site_name", "state_code", "timezone_name", "active_from", "active_to"},
  suppliers |-> {"supplier_code"},
  supplier_versions |-> {"supplier_id", "display_name", "supplier_category", "effective_from",
    "effective_to"},
  products |-> {"sku"},
  product_versions |-> {"product_id", "description", "category", "base_uom",
    "handling_precision", "effective_from", "effective_to"},
  uom_conversions |-> {"product_id", "from_uom", "to_uom", "conversion_factor",
    "effective_from", "effective_to"},
  product_site_inventory_policies |-> {"product_id", "site_id", "safety_stock_quantity",
    "criticality", "policy_source", "substitution_group", "effective_from", "effective_to"},
  users |-> {"user_code", "display_name", "role_classification", "actor_type", "active_from",
    "active_to"},
  ownership_mappings |-> {"precedence", "scope_type", "scope_key", "site_id", "owner_user_id",
    "owner_queue_code", "approval_reference", "evidence_reference", "effective_from",
    "effective_to"},
  calendar_versions |-> {"calendar_code", "version", "timezone_name", "business_hours",
    "holiday_set", "approved_at"},
  rule_versions |-> {"rule_code", "version", "status", "owner", "rationale", "approved_at",
    "effective_from", "effective_to"}]

OrderColumns == [
  purchase_orders |-> {"source_system_id", "po_number"},
  purchase_order_versions |-> {"purchase_order_id", "source_load_id", "supplier_id",
    "amendment_version", "buyer_group", "currency_code", "order_date", "order_status",
    "effective_at"},
  purchase_order_lines |-> {"purchase_order_id", "canonical_line_key"},
  purchase_order_line_aliases |-> {"po_line_id", "source_system_id", "source_po_number",
    "source_line_number", "valid_from", "valid_to", "correction_reason"},
  purchase_order_line_versions |-> {"po_line_id", "source_load_id", "product_id", "site_id",
    "amendment_version", "ordered_quantity", "order_uom", "base_quantity", "unit_price_aud",
    "line_value_aud", "need_date", "requested_date", "line_status", "effective_at"},
  delivery_schedules |-> {"po_line_id", "source_schedule_key", "schedule_version",
    "scheduled_quantity", "requested_date", "confirmed_date", "expected_date",
    "schedule_status"}]

SupplyColumns == [
  supplier_commitment_observations |-> {"source_load_id", "po_line_id",
    "delivery_schedule_id", "source_commitment_ref", "committed_quantity", "committed_date",
    "channel", "observed_at", "supersedes_commitment_id"},
  receipt_transactions |-> {"source_system_id", "source_load_id", "po_line_id",
    "receipt_document", "receipt_item_sequence", "transaction_type", "source_quantity",
    "source_uom", "base_quantity", "posted_at", "corrects_receipt_id"},
  receipt_allocations |-> {"receipt_transaction_id", "delivery_schedule_id",
    "allocation_sequence", "allocation_bucket", "allocated_base_quantity"},
  inventory_snapshots |-> {"source_load_id", "product_id", "site_id", "snapshot_at",
    "snapshot_version", "on_hand_quantity", "allocated_quantity", "available_quantity",
    "in_transit_quantity", "corrects_snapshot_id"},
  demand_requirements |-> {"source_load_id", "product_id", "site_id",
    "source_requirement_ref", "requirement_version", "requirement_type", "required_date",
    "required_quantity", "corrects_requirement_id"},
  supplier_performance_snapshots |-> {"supplier_id", "site_id", "definition_version",
    "window_start", "window_end", "as_of_date", "numerator_count", "denominator_count",
    "otif_rate", "sample_sufficient"}]

RequiredColumns(d) ==
  {"id"} \cup (IF d \in DOMAIN MasterColumns THEN MasterColumns[d]
               ELSE IF d \in DOMAIN OrderColumns THEN OrderColumns[d]
               ELSE SupplyColumns[d])

\* Evidence of the generator that is read over and not loaded.
OptionalColumns(d) ==
  (IF d \in {"sites", "suppliers", "supplier_versions", "products", "product_versions",
             "users", "ownership_mappings", "purchase_orders", "purchase_order_lines"}
   THEN {"synthetic_data_flag"} ELSE {})
  \cup
  (IF d \in {"purchase_order_line_versions", "delivery_schedules",
             "supplier_commitment_observations", "receipt_transactions",
             "receipt_allocations", "inventory_snapshots", "demand_requirements"}
   THEN {"scenario_ids", "scenario_types"} ELSE {})
  \cup
  (CASE d = "product_versions" -> {"abc_class", "xyz_class"}
     [] d = "purchase_order_line_versions" -> {"po_supplier_id", "critical_order_flag"}
     [] d = "receipt_transactions" -> {"late_receipt_flag"}
     [] d = "receipt_allocations" -> {"po_line_id_for_validation", "corrected_receipt_id"}
     [] d = "inventory_snapshots" -> {"missing_signal_flag"}
     [] d = "demand_requirements" -> {"demand_class", "product_category", "demand_shock_flag"}
     [] OTHER -> {})
------------------------------------------------------------------------------
(* Cells *)

UuidColumns ==
  {"id", "source_system_id", "pipeline_run_id", "source_load_id", "supplier_id", "product_id",
   "site_id", "owner_user_id", "rule_version_id", "purchase_order_id", "po_line_id",
   "delivery_schedule_id", "receipt_transaction_id", "corrects_receipt_id",
   "corrects_snapshot_id", "corrects_requirement_id", "supersedes_commitment_id"}

DateColumns ==
  {"order_date", "need_date", "requested_date", "confirmed_date", "expected_date",
   "committed_date", "required_date", "window_start", "window_end", "as_of_date"}

TimestampColumns ==
  {"started_at", "finished_at", "extracted_at", "received_at", "active_from", "active_to",
   "effective_from", "effective_to", "approved_at", "effective_at", "valid_from", "valid_to",
   "observed_at", "posted_at", "snapshot_at"}

DecimalColumns ==
  {"safety_stock_quantity", "conversion_factor", "ordered_quantity", "base_quantity",
   "scheduled_quantity", "committed_quantity", "source_quantity", "allocated_base_quantity",
   "on_hand_quantity", "allocated_quantity", "available_quantity", "in_transit_quantity",
   "required_quantity", "otif_rate", "unit_price_aud", "line_value_aud"}

IntegerColumns ==
  {"row_count", "seed", "precedence", "handling_precision", "amendment_version",
   "schedule_version", "allocation_sequence", "snapshot_version", "requirement_version",
   "numerator_count", "denominator_count"}

NumberColumns == DateColumns \cup TimestampColumns \cup DecimalColumns \cup IntegerColumns

BooleanColumns == {"is_active", "is_publication_eligible", "sample_sufficient"}
JsonColumns == {"business_hours", "holiday_set"}

TypedColumns ==
  UuidColumns \cup NumberColumns \cup BooleanColumns \cup JsonColumns

AllowedValues == [
  order_status |-> {"open", "closed", "cancelled", "on_hold"},
  line_status |-> {"open", "closed", "cancelled", "on_hold"},
  actor_type |-> {"human", "system", "queue"},
  status |-> {"draft", "approved", "active", "retired", "pending", "running", "success",
              "failed", "cancelled"},
  transaction_type |-> {"receipt", "correction", "reversal"},
  allocation_bucket |-> {"schedule", "line_residual"}]

\* parse_value and validate_allowed_value go through: an empty cell is None and
\* always allowed, a typed one has to be of its type.
CellParses(c, value) ==
  value # None =>
    /\ c \in TypedColumns => value # Junk
    /\ c \in DOMAIN AllowedValues => value \in AllowedValues[c]
==============================================================================
