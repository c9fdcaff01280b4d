---------------------------- MODULE PhysicalSchema ----------------------------
(***************************************************************************)
(* The tables the datasets of a bundle are inserted into, and what each    *)
(* refuses: empty cells, references to nothing, repeated keys, values that *)
(* break a check, versions that overlap, and rows of different order lines. *)
(* A row is a function from columns to cells; a table here is the sequence *)
(* of the rows one INSERT brings, for the tables are empty before.         *)
(***************************************************************************)
EXTENDS SourceContracts

\* notNull, nullable: the columns besides id; unique: the unique constraints
\* besides id; checks: <<kind, column>> or <<"after", first, second>>; among:
\* the columns with a list of values.
Table(notNull, nullable, unique, checks, among) ==
  [notNull |-> notNull, nullable |-> nullable, unique |-> unique, checks |-> checks,
   among |-> among]

Free == << >>
Effective == <<"after", "effective_from", "effective_to">>
Statuses == {"open", "closed", "cancelled", "on_hold"}

MasterTables == [
  source_systems |-> Table({"source_code", "display_name", "source_type", "is_active"}, {},
    {{"source_code"}}, {}, Free),
  source_loads |-> Table({"source_system_id", "dataset_type", "object_ref", "content_hash",
    "schema_version", "extracted_at", "received_at", "row_count"}, {"pipeline_run_id"},
    {{"source_system_id", "dataset_type", "object_ref"}}, {}, Free),
  sites |-> Table({"site_code", "site_name", "state_code", "timezone_name", "active_from"},
    {"active_to"}, {{"site_code"}}, {}, Free),
  suppliers |-> Table({"supplier_code"}, {}, {{"supplier_code"}}, {}, Free),
  products |-> Table({"sku"}, {}, {{"sku"}}, {}, Free),
  users |-> Table({"user_code", "display_name", "role_classification", "actor_type",
    "active_from"}, {"active_to"}, {{"user_code"}}, {},
    [actor_type |-> {"human", "system", "queue"}]),
  supplier_versions |-> Table({"supplier_id", "display_name", "effective_from"},
    {"supplier_category", "effective_to"}, {{"supplier_id", "effective_from"}},
    {Effective}, Free),
  product_versions |-> Table({"product_id", "description", "category", "base_uom",
    "handling_precision", "effective_from"}, {"effective_to"},
    {{"product_id", "effective_from"}},
    {<<"nonnegative", "handling_precision">>, Effective}, Free),
  rule_versions |-> Table({"rule_code", "version", "status", "owner"},
    {"rationale", "approved_at", "effective_from", "effective_to"},
    {{"rule_code", "version"}}, {},
    [status |-> {"draft", "approved", "active", "retired"}]),
  calendar_versions |-> Table({"calendar_code", "version", "timezone_name",
    "business_hours", "holiday_set"}, {"approved_at"}, {{"calendar_code", "version"}}, {}, Free)]

\* A conversion factor must be a whole number, too, which all numbers are here.
PlanningTables == [
  product_site_inventory_policies |-> Table({"product_id", "site_id",
    "safety_stock_quantity", "policy_source", "effective_from"},
    {"criticality", "substitution_group", "effective_to"},
    {{"product_id", "site_id", "effective_from"}},
    {<<"nonnegative", "safety_stock_quantity">>, Effective}, Free),
  ownership_mappings |-> Table({"precedence", "scope_type", "scope_key", "effective_from"},
    {"site_id", "owner_user_id", "owner_queue_code", "approval_reference",
     "evidence_reference", "effective_to"},
    {{"precedence", "scope_type", "scope_key", "site_id", "effective_from"}}, {Effective}, Free),
  uom_conversions |-> Table({"product_id", "from_uom", "to_uom", "conversion_factor",
    "effective_from"}, {"effective_to"},
    {{"product_id", "from_uom", "to_uom", "effective_from"}},
    {<<"positive", "conversion_factor">>, Effective}, Free),
  purchase_orders |-> Table({"source_system_id", "po_number"}, {},
    {{"source_system_id", "po_number"}}, {}, Free),
  purchase_order_versions |-> Table({"purchase_order_id", "source_load_id", "supplier_id",
    "amendment_version", "currency_code", "order_date", "order_status", "effective_at"},
    {"buyer_group"}, {{"purchase_order_id", "amendment_version"}}, {},
    [order_status |-> Statuses]),
  purchase_order_lines |-> Table({"purchase_order_id", "canonical_line_key"}, {},
    {{"canonical_line_key"}}, {}, Free)]

OrderTables == [
  purchase_order_line_aliases |-> Table({"po_line_id", "source_system_id",
    "source_po_number", "source_line_number", "valid_from"}, {"valid_to", "correction_reason"},
    {{"source_system_id", "source_po_number", "source_line_number"}}, {}, Free),
  purchase_order_line_versions |-> Table({"po_line_id", "source_load_id", "product_id",
    "site_id", "amendment_version", "ordered_quantity", "order_uom", "need_date",
    "line_status", "effective_at"},
    {"base_quantity", "requested_date", "unit_price_aud", "line_value_aud"},
    {{"po_line_id", "amendment_version"}},
    {<<"positive", "ordered_quantity">>, <<"nonnegative", "unit_price_aud">>,
     <<"nonnegative", "line_value_aud">>}, [line_status |-> Statuses]),
  delivery_schedules |-> Table({"po_line_id", "source_schedule_key", "schedule_version",
    "scheduled_quantity", "schedule_status"},
    {"requested_date", "confirmed_date", "expected_date"},
    {{"po_line_id", "source_schedule_key", "schedule_version"}},
    {<<"positive", "scheduled_quantity">>}, Free),
  supplier_commitment_observations |-> Table({"source_load_id", "po_line_id",
    "source_commitment_ref", "observed_at"},
    {"delivery_schedule_id", "committed_quantity", "committed_date", "channel",
     "supersedes_commitment_id"}, {{"source_load_id", "source_commitment_ref"}}, {}, Free),
  receipt_transactions |-> Table({"source_system_id", "source_load_id", "po_line_id",
    "receipt_document", "receipt_item_sequence", "transaction_type", "source_quantity",
    "source_uom", "posted_at"}, {"base_quantity", "corrects_receipt_id"},
    {{"source_system_id", "receipt_document", "receipt_item_sequence"}},
    {<<"nonzero", "source_quantity">>, <<"nonzero", "base_quantity">>}, Free)]

SupplyTables == [
  receipt_allocations |-> Table({"receipt_transaction_id", "allocation_sequence",
    "allocation_bucket", "allocated_base_quantity"}, {"delivery_schedule_id"},
    {{"receipt_transaction_id", "allocation_sequence"}},
    {<<"nonnegative", "allocated_base_quantity">>, <<"bucket", "delivery_schedule_id">>}, Free),
  inventory_snapshots |-> Table({"source_load_id", "product_id", "site_id", "snapshot_at",
    "snapshot_version", "on_hand_quantity", "allocated_quantity", "available_quantity"},
    {"in_transit_quantity", "corrects_snapshot_id"},
    {{"source_load_id", "product_id", "site_id", "snapshot_at", "snapshot_version"}}, {}, Free),
  demand_requirements |-> Table({"source_load_id", "product_id", "site_id",
    "source_requirement_ref", "requirement_version", "requirement_type", "required_date",
    "required_quantity"}, {"corrects_requirement_id"},
    {{"source_load_id", "source_requirement_ref", "requirement_version"}},
    {<<"nonnegative", "required_quantity">>}, Free),
  supplier_performance_snapshots |-> Table({"supplier_id", "definition_version",
    "window_start", "window_end", "as_of_date", "numerator_count", "denominator_count",
    "sample_sufficient"}, {"site_id", "otif_rate"},
    {{"supplier_id", "site_id", "window_start", "window_end", "as_of_date"}},
    {<<"after", "window_start", "window_end">>, <<"nonnegative", "denominator_count">>}, Free)]

TableOf(d) ==
  IF d \in DOMAIN MasterTables THEN MasterTables[d]
  ELSE IF d \in DOMAIN PlanningTables THEN PlanningTables[d]
  ELSE IF d \in DOMAIN OrderTables THEN OrderTables[d]
  ELSE SupplyTables[d]

ColumnsOf(d) == {"id"} \cup TableOf(d).notNull \cup TableOf(d).nullable

\* The load gives a source load a new identity, and the run it belongs to.
KeysOf(d) == TableOf(d).unique \cup (IF d = "source_loads" THEN {} ELSE {{"id"}})
FilledOf(d) == TableOf(d).notNull \cup (IF d = "source_loads" THEN {} ELSE {"id"})

\* The foreign keys: the table a column refers to, in whatever table it is.
Referenced == [
  source_system_id |-> "source_systems", source_load_id |-> "source_loads",
  supplier_id |-> "suppliers", product_id |-> "products", site_id |-> "sites",
  owner_user_id |-> "users", purchase_order_id |-> "purchase_orders",
  po_line_id |-> "purchase_order_lines", delivery_schedule_id |-> "delivery_schedules",
  supersedes_commitment_id |-> "supplier_commitment_observations",
  receipt_transaction_id |-> "receipt_transactions",
  corrects_receipt_id |-> "receipt_transactions",
  corrects_snapshot_id |-> "inventory_snapshots",
  corrects_requirement_id |-> "demand_requirements"]

ReferencesOf(d) == RequiredColumns(d) \cap DOMAIN Referenced

\* Columns that, with a range of validity, exclude overlapping versions.
VersionedBy == [
  supplier_versions |-> {"supplier_id"}, product_versions |-> {"product_id"},
  product_site_inventory_policies |-> {"product_id", "site_id"},
  ownership_mappings |-> {"precedence", "scope_type", "scope_key", "site_id"},
  uom_conversions |-> {"product_id", "from_uom", "to_uom"}]
------------------------------------------------------------------------------
(* What an INSERT of rows into the table of d violates. *)

RowsOf(rows) == {rows[n] : n \in DOMAIN rows}

Resolves(id, rows) == \E n \in DOMAIN rows : rows[n]["id"] = id

Fails(check, r) ==
  LET x == r[check[2]] IN
  CASE check[1] = "nonnegative" -> x # None /\ x < 0
    [] check[1] = "positive" -> x # None /\ x <= 0
    [] check[1] = "nonzero" -> x # None /\ x = 0
    [] check[1] = "after" -> None \notin {x, r[check[3]]} /\ r[check[3]] <= x
    [] check[1] = "bucket" -> /\ r["allocation_bucket"] # None
                              /\ (r["allocation_bucket"] = "line_residual") # (x = None)

\* Two rows agree in columns none of which is empty.
Agree(r, q, columns) == \A c \in columns : r[c] # None /\ r[c] = q[c]

Before(x, y) == y = None \/ x < y

Overlap(r, q) ==
  /\ None \notin {r["effective_from"], q["effective_from"]}
  /\ Before(r["effective_from"], q["effective_to"])
  /\ Before(q["effective_from"], r["effective_to"])

LineOf(id, rows) == (CHOOSE q \in RowsOf(rows) : q["id"] = id)["po_line_id"]

\* The two triggers: a receipt or a commitment and its schedule are of one line.
OtherLine(d, r, tables) ==
  LET schedules == tables["delivery_schedules"]
      receipts == tables["receipt_transactions"]
      schedule == r["delivery_schedule_id"]
  IN /\ Resolves(schedule, schedules)
     /\ \/ /\ d = "supplier_commitment_observations"
           /\ r["po_line_id"] # LineOf(schedule, schedules)
        \/ /\ d = "receipt_allocations"
           /\ Resolves(r["receipt_transaction_id"], receipts)
           /\ LineOf(r["receipt_transaction_id"], receipts) # LineOf(schedule, schedules)

SomePair(rows, Clash(_, _)) == \E m, n \in DOMAIN rows : m < n /\ Clash(rows[m], rows[n])

\* tables holds what the earlier datasets have brought.  A JSON column stores an
\* empty cell as the JSON null.
Violations(d, rows, tables) ==
  LET known(c) == IF Referenced[c] = d THEN rows ELSE tables[Referenced[c]]
      some(Broken(_)) == \E n \in DOMAIN rows : Broken(rows[n])
      missing(c) == some(LAMBDA r : r[c] = None)
      dangling(c) == some(LAMBDA r : r[c] # None /\ ~ Resolves(r[c], known(c)))
      unlisted(c) == some(LAMBDA r : r[c] \notin TableOf(d).among[c] \cup {None})
      repeated(u) == SomePair(rows, LAMBDA r, q : Agree(r, q, u))
      overlapping(u) == SomePair(rows, LAMBDA r, q : Agree(r, q, u) /\ Overlap(r, q))
  IN {<<"not null", c>> : c \in {x \in FilledOf(d) \ JsonColumns : missing(x)}}
     \cup {<<"reference", c>> : c \in {x \in ReferencesOf(d) : dangling(x)}}
     \cup {<<"check", k[2]>> : k \in {x \in TableOf(d).checks : some(LAMBDA r : Fails(x, r))}}
     \cup {<<"check", c>> : c \in {x \in DOMAIN TableOf(d).among : unlisted(x)}}
     \cup {<<"unique", u>> : u \in {x \in KeysOf(d) : repeated(x)}}
     \cup {<<"overlap", t>> : t \in {x \in DOMAIN VersionedBy \cap {d} : overlapping(VersionedBy[x])}}
     \cup {<<"line", t>> : t \in {x \in {"receipt_allocations", "supplier_commitment_observations"}
                                   \cap {d} : some(LAMBDA r : OtherLine(x, r, tables))}}
==============================================================================
