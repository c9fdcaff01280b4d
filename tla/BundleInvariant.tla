--------------------------- MODULE BundleInvariant ---------------------------
(***************************************************************************)
(* Why the properties of the bundle hold: what inspection, parsing and the *)
(* validation across datasets have established by the time rows are stored.*)
(***************************************************************************)
EXTENDS BundleProperties

\* The file of a dataset is there, with the lines and the hash of the manifest.
Delivered(d) ==
  /\ d \in Declared
  /\ HasFile(d)
  /\ CountDataRows(bundle.files[manifest[d].file]) = manifest[d].count
  /\ bundle.files[manifest[d].file].hash = manifest[d].hash

\* What inspection finds wrong stays on record until the rows are stored.
InspectionInv ==
  /\ bundle \in Bundles
  /\ \A d \in Declared : manifest[d] \in {bundle.entries[n] : n \in Entries}
  /\ stage \notin {"inspect", "unreadable"} /\ ~ HasBlocking(rejections) =>
       \A d \in OperationalDatasets : Delivered(d)

Parsed(d) ==
  /\ kept[d] = {n \in DOMAIN File(d) : Parses(d, n)}
  /\ \A n \in DOMAIN File(d) : RowRejections(d, n) \subseteq rejections

CheckedCells == TypedColumns \cup DOMAIN AllowedValues

\* Only a cell that is wrong makes a record rejectable, in a row of its file.
Located(r) ==
  \/ r.class \in {"bundle-blocking", "dataset-blocking"}
  \/ r.class = "warning-only" /\ r.row = 0
  \/ \E d \in OperationalDatasets \cap Declared :
       /\ HasFile(d)
       /\ \E n \in DOMAIN File(d), c \in CheckedCells :
            r = Rejection(d, n, "INVALID_FIELD_VALUE", "record-rejectable", c)

Reached(i) == stage = "parse" => i < at

ParseInv ==
  /\ \A r \in rejections : Located(r)
  /\ stage = "inspect" => at = 1 /\ \A d \in OperationalDatasets : kept[d] = {}
  /\ stage \notin {"inspect", "unreadable", "raised"} =>
       \A i \in DOMAIN LoadOrder :
         /\ Reached(i) /\ LoadOrder[i] \in Declared => Parsed(LoadOrder[i])
         /\ ~ Reached(i) => kept[LoadOrder[i]] = {}

CrossClean == CrossRejections = {} /\ ~ CrossRaises

\* Nothing is stored of a bundle with a blocking rejection, or one whose datasets
\* do not fit, and everything kept of the datasets that have been loaded.
LoadInv ==
  /\ stage \in {"record", "load"} \cup Committed /\ ~ HasBlocking(rejections) => CrossClean
  /\ stage \in {"load"} \cup Committed => ~ HasBlocking(rejections)
  /\ stage \notin {"load"} \cup Committed => stored = Nothing
  /\ stage \in {"cross", "record"} => at = 1
  /\ stage = "load" => \A i \in 1 .. at - 1 : stored[LoadOrder[i]] = kept[LoadOrder[i]]
  /\ stage \in Committed => \A d \in OperationalDatasets : stored[d] = kept[d]
  /\ stage = "published" => \A d \in OperationalDatasets : Difference(d) = 0

\* What a table refuses whatever the other tables hold.
Filled(d) == \A n \in stored[d] : \A c \in FilledOf(d) \ JsonColumns : Cell(d, n, c) # None

Distinct(d) ==
  \A u \in KeysOf(d) : \A m, n \in stored[d] : Agree(File(d)[m], File(d)[n], u) => m = n

TablesInv == \A d \in OperationalDatasets : Filled(d) /\ Distinct(d)

BInv == BundleTypeOK /\ InspectionInv /\ ParseInv /\ LoadInv /\ TablesInv
==============================================================================
