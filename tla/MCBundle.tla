------------------------------ MODULE MCBundle ------------------------------
(***************************************************************************)
(* BundleValidation for TLC: a sound bundle with one row in every dataset, *)
(* and that bundle with defects: every cell spoiled in every way, columns, *)
(* files and manifest entries missing, changed or added, second rows, and  *)
(* pairs of the defects that meet in a rule.                               *)
(***************************************************************************)
EXTENDS BundleProperties, TLC

Today == 9
MCOutsideFiles == {"outside"}

\* A cell that is fine.  Rows are named after their dataset.
SoundCell(d, c) ==
  CASE c = "id" -> d
    [] c \in {"supersedes_commitment_id", "corrects_receipt_id", "corrects_snapshot_id",
              "corrects_requirement_id"} -> None
    [] c \in DOMAIN Referenced -> Referenced[c]
    [] c = "pipeline_run_id" -> "upstream"
    [] c \in {"active_to", "effective_to", "valid_to", "window_end"} -> 7
    [] c \in TimestampColumns \cup DateColumns -> 5
    [] c = "unit_price_aud" -> 3
    [] c = "line_value_aud" -> 6
    [] c \in DecimalColumns -> 2
    [] c \in IntegerColumns -> 1
    [] c \in BooleanColumns -> TRUE
    [] c = "transaction_type" -> "receipt"
    [] c = "actor_type" -> "human"
    [] c = "status" -> "active"
    [] c = "allocation_bucket" -> "schedule"
    [] c \in DOMAIN AllowedValues -> "open"
    [] OTHER -> "text"

SoundRow(d) == [c \in RequiredColumns(d) |-> SoundCell(d, c)]

SoundEntry(d) ==
  [dataset |-> d, file |-> d, schema |-> "v1", generator |-> "g1", config |-> "k1",
   asof |-> Today, hash |-> "h1", count |-> 1, valid |-> TRUE]

SoundBundle ==
  [found |-> TRUE, controls |-> {"manifest", "quality_summary", "distribution_summary"},
   entries |-> [i \in DOMAIN LoadOrder |-> SoundEntry(LoadOrder[i])],
   files |-> [d \in OperationalDatasets |->
       [hash |-> "h1", rows |-> <<SoundRow(d)>>, blanks |-> 0]]]
------------------------------------------------------------------------------
(* Defects *)

PlaceOf(d) == CHOOSE i \in DOMAIN LoadOrder : LoadOrder[i] = d

SpoiltCells(c) ==
  {None} \cup
  (IF c \in DOMAIN Referenced THEN {Junk, "nowhere"}
   ELSE IF c \in TimestampColumns \cup DateColumns THEN {Junk, 3, Today + 1}
   ELSE IF c \in DecimalColumns \cup IntegerColumns THEN {Junk, -1, 0, 3}
   ELSE IF c = "allocation_bucket" THEN {Junk, "line_residual"}
   ELSE IF c \in TypedColumns \cup DOMAIN AllowedValues THEN {Junk}
   ELSE {})

CellDefect(d, c, x) == [kind |-> "cell", dataset |-> d, column |-> c, cell |-> x]
CellDefects == UNION {UNION {{CellDefect(d, c, x) : x \in SpoiltCells(c)} :
                             c \in RequiredColumns(d)} : d \in OperationalDatasets}

\* Each row is the sound one with changes.
RowsDefect(d, rows) == [kind |-> "rows", dataset |-> d, rows |-> rows]
Same == [id |-> "same"]
Second(key, x) == [id |-> "second"] @@ key :> x

RowDefects ==
  {RowsDefect(d, << >>) : d \in OperationalDatasets}
  \cup {RowsDefect(d, <<Same, Same>>) : d \in OperationalDatasets}
  \cup {RowsDefect(d, <<Same, [id |-> "second"]>>) : d \in OperationalDatasets}
  \cup {RowsDefect(d, <<Same, Second("id", None)>>) : d \in OperationalDatasets}

LineTwo == RowsDefect("purchase_order_lines", <<Same, Second("canonical_line_key", "other")>>)

Versions(first, second) == RowsDefect("purchase_order_line_versions", <<first, second>>)
Amended(id, amendment, base) ==
  [id |-> id, amendment_version |-> amendment, base_quantity |-> base,
   line_value_aud |-> IF base = None THEN 6 ELSE 3 * base]

HistoryDefects ==
  {Versions(Amended("same", 1, 2), Amended("second", 2, 2)),
   Versions(Amended("same", 1, 4), Amended("second", 2, 2)),
   Versions(Amended("same", 2, 4), Amended("second", 1, 2)),
   Versions(Amended("same", 2, 2), Amended("second", 1, 4)),
   Versions(Amended("same", 1, 2), Amended("second", 1, 4)),
   Versions(Amended("same", 1, 2), Amended("second", None, 2)),
   RowsDefect("delivery_schedules", <<Same, Second("source_schedule_key", "other")>>),
   RowsDefect("receipt_transactions", <<Same, Second("receipt_item_sequence", "other")>>),
   RowsDefect("receipt_transactions", <<[id |-> "same", base_quantity |-> 4], Same>>),
   RowsDefect("receipt_allocations", <<Same, Second("allocation_sequence", 2)>>),
   RowsDefect("suppliers", <<Same, Second("supplier_code", "other")>>),
   RowsDefect("purchase_order_versions",
     <<Same, Second("amendment_version", 2) @@ "supplier_id" :> "second">>),
   RowsDefect("supplier_versions", <<Same, Second("effective_from", 6)>>),
   RowsDefect("supplier_versions", <<Same, Second("effective_from", 7) @@ "effective_to" :> None>>),
   RowsDefect("users", <<Same, Second("user_code", "other") @@ "actor_type" :> Junk>>),
   RowsDefect("source_loads",
     <<Same, Second("object_ref", "other") @@ "row_count" :> Junk>>)}

EntryDefect(d, field, x) == [kind |-> "entry", dataset |-> d, field |-> field, value |-> x]
AddedEntry(d, field, x) == [kind |-> "added", dataset |-> d, field |-> field, value |-> x]
ControlDefect(f) == [kind |-> "control", file |-> f]
FileDefect(d) == [kind |-> "file", dataset |-> d]
AddedFile(f) == [kind |-> "addedfile", file |-> f]
\* The manifest is written after the blank line, or before it, or counts two.
BlankLine(d, counted) == [kind |-> "blank", dataset |-> d, counted |-> counted]
ColumnDefect(d, c) == [kind |-> "column", dataset |-> d, column |-> c]
AddedColumn(d, c) == [kind |-> "addedcolumn", dataset |-> d, column |-> c]

BundleDefects ==
  {ControlDefect(f) : f \in SoundBundle.controls \cup {"directory"}}
  \cup {[kind |-> "noentries"], AddedFile("future_receipt_outcomes"), AddedFile("unheard_of")}
  \cup UNION {
    {FileDefect(d), EntryDefect(d, "valid", FALSE), EntryDefect(d, "hash", "h2"),
     EntryDefect(d, "count", 2), EntryDefect(d, "file", "outside"), EntryDefect(d, "file", "users"),
     EntryDefect(d, "schema", "v2"), EntryDefect(d, "generator", "g2"),
     EntryDefect(d, "config", "k2"), EntryDefect(d, "asof", 4), EntryDefect(d, "asof", Junk),
     AddedEntry(d, "hash", "h2"), AddedEntry(d, "count", 1)} :
    d \in {"sites", "receipt_transactions"}}
  \cup {AddedEntry("scenario_registry", "file", "sites"),
        AddedEntry("unheard_of", "file", "sites")}
  \cup UNION {{AddedColumn(d, "synthetic_data_flag"), AddedColumn(d, "unheard_of")} :
              d \in OperationalDatasets}
  \cup {BlankLine(d, counted) : d \in OperationalDatasets, counted \in 0 .. 2}
  \cup UNION {{ColumnDefect(d, c) : c \in {"id"} \cup ReferencesOf(d)} : d \in OperationalDatasets}

Every(field, x) == [kind |-> "every", field |-> field, value |-> x]

\* What meets in a rule that spans datasets.
MeetingCells ==
  {CellDefect(d, c, x) :
     <<d, c, x>> \in {<<"purchase_order_line_versions", "base_quantity", 3>>,
                     <<"purchase_order_line_versions", "line_value_aud", 8>>,
                     <<"purchase_order_line_versions", "line_value_aud", 7>>,
                     <<"delivery_schedules", "scheduled_quantity", 3>>,
                     <<"delivery_schedules", "po_line_id", "second">>,
                     <<"delivery_schedules", "scheduled_quantity", Junk>>,
                     <<"receipt_transactions", "po_line_id", "second">>,
                     <<"receipt_transactions", "base_quantity", -2>>,
                     <<"receipt_transactions", "base_quantity", 0>>,
                     <<"receipt_transactions", "posted_at", Junk>>,
                     <<"receipt_allocations", "receipt_transaction_id", None>>,
                     <<"receipt_allocations", "delivery_schedule_id", None>>,
                     <<"receipt_allocations", "delivery_schedule_id", "nowhere">>,
                     <<"receipt_allocations", "allocation_bucket", "line_residual">>,
                     <<"receipt_allocations", "allocated_base_quantity", 0>>,
                     <<"supplier_commitment_observations", "po_line_id", "second">>,
                     <<"supplier_commitment_observations", "delivery_schedule_id", None>>}}

Apply(b, f) ==
  CASE f.kind = "cell" ->
         [b EXCEPT !.files[f.dataset].rows =
            [n \in DOMAIN @ |-> IF n = 1 THEN [@[n] EXCEPT ![f.column] = f.cell] ELSE @[n]]]
    [] f.kind = "rows" ->
         [b EXCEPT !.files[f.dataset].rows =
            [n \in DOMAIN f.rows |->
               (IF f.rows[n]["id"] = "same" THEN [f.rows[n] EXCEPT !["id"] = f.dataset] ELSE f.rows[n])
               @@ SoundRow(f.dataset)],
          !.entries[PlaceOf(f.dataset)].count = Len(f.rows)]
    [] f.kind = "column" ->
         [b EXCEPT !.files[f.dataset].rows =
            [n \in DOMAIN @ |-> [c \in (DOMAIN @[n]) \ {f.column} |-> @[n][c]]]]
    [] f.kind = "addedcolumn" ->
         [b EXCEPT !.files[f.dataset].rows = [n \in DOMAIN @ |-> @[n] @@ f.column :> "text"]]
    [] f.kind = "blank" ->
         [b EXCEPT !.files[f.dataset].blanks = 1,
                   !.entries[PlaceOf(f.dataset)].count = @ + f.counted]
    [] f.kind = "entry" -> [b EXCEPT !.entries[PlaceOf(f.dataset)][f.field] = f.value]
    [] f.kind = "every" ->
         [b EXCEPT !.entries = [n \in DOMAIN @ |-> [@[n] EXCEPT ![f.field] = f.value]]]
    [] f.kind = "added" ->
         [b EXCEPT !.entries = Append(@, [SoundEntry(f.dataset) EXCEPT ![f.field] = f.value])]
    [] f.kind = "noentries" -> [b EXCEPT !.entries = << >>]
    [] f.kind = "file" ->
         [b EXCEPT !.files = [g \in (DOMAIN @) \ {f.dataset} |-> @[g]]]
    [] f.kind = "addedfile" -> [b EXCEPT !.files = @ @@ f.file :> 
           [hash |-> "h1", rows |-> << >>, blanks |-> 0]]
    [] f.kind = "control" ->
         IF f.file = "directory" THEN [b EXCEPT !.found = FALSE]
         ELSE [b EXCEPT !.controls = @ \ {f.file}]

Combinations ==
  {{}} \cup {{f} : f \in CellDefects \cup RowDefects \cup HistoryDefects \cup BundleDefects
                       \cup {Every("asof", 4), Every("asof", Junk)}}
  \cup {{f, g} : f \in HistoryDefects \cup {LineTwo}, g \in MeetingCells}
  \cup {{RowsDefect(d, << >>), BlankLine(d, 1)} : d \in OperationalDatasets}
  \cup {{CellDefect(d, "id", Junk), BlankLine(d, 1)} : d \in OperationalDatasets}
  \cup {{LineTwo, f, g} : f \in MeetingCells, g \in MeetingCells}

RowsFirst(defects) == {f \in defects : f.kind = "rows"}

With(b, defects) == FoldSet(LAMBDA f, c : Apply(c, f), b, defects)

MCBundles ==
  {With(With(SoundBundle, RowsFirst(x)), x \ RowsFirst(x)) : x \in Combinations}
==============================================================================
