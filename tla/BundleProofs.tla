----------------------------- MODULE BundleProofs -----------------------------
(***************************************************************************)
(* What holds of every bundle: a reference that was checked finds its row, *)
(* a rule that was checked is not broken, what is committed adds up, and a *)
(* published bundle is in the tables to the last row of its files.         *)
(***************************************************************************)
EXTENDS BundleInvariant, FiniteSetTheorems, WellFoundedInduction, TLAPS

------------------------------------------------------------------------------
(* Numbers *)

\* Of finitely many rows one has the greatest number: the rows above it are the
\* smallest of the sets of rows above one.
LEMMA SomeGreatest ==
  ASSUME NEW S, IsFiniteSet(S), S # {}, NEW f \in [S -> Int]
  PROVE  \E x \in S : \A y \in S : f[y] <= f[x]
<1> DEFINE Above(x) == {y \in S : f[x] < f[y]}
           T == {Above(x) : x \in S}
           R == StrictSubsetOrdering(S)
           F == FiniteSubsetsOf(S)
<1>1. T \subseteq F
  <2>1. F = SUBSET S
    BY FS_FiniteSubsetsOfFinite
  <2> QED
    BY <2>1
<1>2. T # {}
  <2>1. PICK x : x \in S
    OBVIOUS
  <2>2. Above(x) \in T
    BY <2>1
  <2> HIDE DEF T
  <2> QED
    BY <2>2
<1>3. IsWellFoundedOn(R, F)
  BY FS_StrictSubsetOrderingWellFounded
<1>4. PICK A \in T : \A B \in T : ~ (<<B, A>> \in R)
  <2> HIDE DEF T, R, F
  <2> QED
    BY <1>1, <1>2, <1>3, WFMin
<1>5. PICK x \in S : A = Above(x)
  BY <1>4
<1>6. ASSUME NEW y \in S, f[x] < f[y]
      PROVE  FALSE
  <2>1. y \in Above(x) /\ y \notin Above(y)
    BY <1>6
  <2>2. Above(y) \subseteq Above(x)
    BY <1>6
  <2>3. <<Above(y), Above(x)>> \in R
    BY <2>1, <2>2 DEF StrictSubsetOrdering
  <2> QED
    BY <1>4, <1>5, <2>3
<1> QED
  BY <1>6

LEMMA NumbersFinite ==
  \A n \in Nat : IsFiniteSet(1 .. n) /\ Cardinality(1 .. n) = n
<1> TAKE n \in Nat
<1>1. 1 \in Int /\ n \in Int
  OBVIOUS
<1> QED
  BY <1>1, FS_Interval

LEMMA TwoOfThem ==
  ASSUME NEW a, NEW b, ~ Cardinality({a, b}) > 1
  PROVE  a = b
<1> SUFFICES ASSUME a # b PROVE FALSE
  OBVIOUS
<1>1. IsFiniteSet({a}) /\ Cardinality({a}) = 1
  BY FS_Singleton
<1>2. Cardinality({a} \cup {b}) = 2
  BY <1>1, FS_AddElement
<1>3. {a} \cup {b} = {a, b}
  OBVIOUS
<1> QED
  BY <1>2, <1>3

LEMMA SomeLast ==
  ASSUME NEW N \in Nat, NEW S \in SUBSET (1 .. N), S # {}
  PROVE  \E n \in S : \A m \in S : m <= n
<1>1. IsFiniteSet(S)
  BY NumbersFinite, FS_Subset
<1>2. PICK f : f = [n \in S |-> n]
  OBVIOUS
<1>3. f \in [S -> Int]
  BY <1>2
<1>4. PICK n \in S : \A m \in S : f[m] <= f[n]
  BY <1>1, <1>3, SomeGreatest
<1> QED
  BY <1>2, <1>4

------------------------------------------------------------------------------
(* The load order *)

\* A dataset comes after those whose identities are checked for it.
LEMMA ReferencedFirst ==
  ASSUME NEW i \in 1 .. Len(LoadOrder), LoadOrder[i] \in DOMAIN CheckedColumns,
         NEW c \in CheckedColumns[LoadOrder[i]]
  PROVE  \E j \in 1 .. i - 1 : LoadOrder[j] = Referenced[c]
BY DEF LoadOrder, CheckedColumns, Referenced

LEMMA EachOnce ==
  /\ Len(LoadOrder) = 25 /\ DOMAIN LoadOrder = 1 .. 25
  /\ \A i, j \in 1 .. 25 : LoadOrder[i] = LoadOrder[j] => i = j
  /\ "manifest" \notin OperationalDatasets /\ "bundle" \notin OperationalDatasets
BY DEF LoadOrder, OperationalDatasets

LEMMA Ordered ==
  ASSUME NEW d \in OperationalDatasets
  PROVE  \E i \in 1 .. 25 : d = LoadOrder[i]
BY EachOnce DEF OperationalDatasets
------------------------------------------------------------------------------
(* Rejections *)

LEMMA Blocking ==
  ASSUME NEW S, NEW T, HasBlocking(S)
  PROVE  HasBlocking(S \cup T)
BY DEF HasBlocking

LEMMA NoneBlocking ==
  ASSUME NEW S, NEW T, ~ HasBlocking(S \cup T)
  PROVE  ~ HasBlocking(S) /\ ~ HasBlocking(T)
BY DEF HasBlocking
------------------------------------------------------------------------------
(* Steps that leave the files alone *)

LEMMA SameFiles ==
  ASSUME UNCHANGED <<bundle, manifest>>
  PROVE  /\ Entries' = Entries /\ Declared' = Declared
         /\ \A d : /\ HasFile(d)' = HasFile(d)
                  /\ File(d)' = File(d)
                  /\ Delivered(d)' = Delivered(d)
         /\ \A d, n : /\ Parses(d, n)' = Parses(d, n)
                     /\ RowRejections(d, n)' = RowRejections(d, n)
         /\ \A d, n, c : Cell(d, n, c)' = Cell(d, n, c)
         /\ \A r : Located(r)' = Located(r)
<1>1. /\ Entries' = Entries /\ Declared' = Declared
      /\ \A d : HasFile(d)' = HasFile(d) /\ File(d)' = File(d)
  BY DEF Entries, Declared, HasFile, File
<1>2. \A d : Delivered(d)' = Delivered(d)
  BY <1>1 DEF Delivered
<1>3. \A d, n : Missing(d, n)' = Missing(d, n) /\ Extra(d, n)' = Extra(d, n)
  BY <1>1 DEF Missing, Extra
<1>4. \A d, n : Invalid(d, n)' = Invalid(d, n)
  BY <1>1 DEF Invalid
<1>5. \A d, n : Parses(d, n)' = Parses(d, n)
  BY <1>3, <1>4 DEF Parses, Complete
<1>6. \A d, n : RowRejections(d, n)' = RowRejections(d, n)
  BY <1>3, <1>4 DEF RowRejections
<1>7. \A d, n, c : Cell(d, n, c)' = Cell(d, n, c)
  BY <1>1 DEF Cell
<1>8. \A r : Located(r)' = Located(r)
  BY <1>1 DEF Located
<1> QED
  BY <1>1, <1>2, <1>5, <1>6, <1>7, <1>8

LEMMA SameRecords ==
  ASSUME UNCHANGED <<bundle, manifest, kept>>
  PROVE  CrossClean' = CrossClean
<1>1. \A d : /\ IdsOf(d)' = IdsOf(d)
            /\ \A id : ById(d, id)' = ById(d, id)
  BY SameFiles DEF IdsOf, ById
<1>2. /\ \A n, c : Version(n, c)' = Version(n, c)
      /\ \A n, c : Schedule(n, c)' = Schedule(n, c)
      /\ \A n, c : Receipt(n, c)' = Receipt(n, c)
      /\ \A n, c : Allocation(n, c)' = Allocation(n, c)
      /\ \A n, c : Commitment(n, c)' = Commitment(n, c)
      /\ AsOf' = AsOf
  BY SameFiles DEF Version, Schedule, Receipt, Allocation, Commitment, AsOf
<1>3. /\ \A line : VersionsOf(line)' = VersionsOf(line)
      /\ \A id : AllocationsOf(id)' = AllocationsOf(id)
      /\ Receipts' = Receipts
      /\ \A n : HasReceipt(n)' = HasReceipt(n)
      /\ MisplacedCommitments' = MisplacedCommitments
  BY <1>1, <1>2 DEF VersionsOf, AllocationsOf, Receipts, HasReceipt, MisplacedCommitments
<1>4. /\ \A line : LatestVersion(line)' = LatestVersion(line)
      /\ \A line : ScheduledTotal(line)' = ScheduledTotal(line)
  BY <1>2, <1>3, SameFiles DEF LatestVersion, ScheduledTotal
<1>5. /\ MissingReferences' = MissingReferences
      /\ AfterAsOf' = AfterAsOf
      /\ OneSupplierPerPo' = OneSupplierPerPo
  BY <1>1, <1>2, SameFiles DEF MissingReferences, AfterAsOf, OneSupplierPerPo
<1>6. SchedulesReconcile' = SchedulesReconcile
  BY <1>2, <1>3, <1>4 DEF SchedulesReconcile
<1>7. ReceiptsAllocated' = ReceiptsAllocated
  BY <1>2, <1>3, SameFiles DEF ReceiptsAllocated
<1>8. /\ \A n : AllocationRejections(n)' = AllocationRejections(n)
      /\ \A n : LineValueRejections(n)' = LineValueRejections(n)
  <2>1. ASSUME NEW n PROVE AllocationRejections(n)' = AllocationRejections(n)
    <3>1. PICK A, B :
            /\ A = ById("receipt_transactions", Allocation(n, "receipt_transaction_id"))
            /\ B = ById("delivery_schedules", Allocation(n, "delivery_schedule_id"))
      OBVIOUS
    <3>2. /\ A = ById("receipt_transactions", Allocation(n, "receipt_transaction_id"))'
          /\ B = ById("delivery_schedules", Allocation(n, "delivery_schedule_id"))'
      BY <1>1, <1>2, <3>1
    <3>3. {Receipt(m, "po_line_id") : m \in A}' = {Receipt(m, "po_line_id") : m \in A}
          /\ {Schedule(m, "po_line_id") : m \in B}' = {Schedule(m, "po_line_id") : m \in B}
      BY <1>2
    <3> QED
      BY <1>2, <3>1, <3>2, <3>3 DEF AllocationRejections
  <2>2. ASSUME NEW n PROVE LineValueRejections(n)' = LineValueRejections(n)
    BY <1>2 DEF LineValueRejections
  <2> QED
    BY <2>1, <2>2
<1>9. CrossRejections' = CrossRejections
  BY <1>3, <1>5, <1>6, <1>7, <1>8 DEF CrossRejections
<1>10. CrossRaises' = CrossRaises
  BY <1>2, <1>3 DEF CrossRaises
<1> QED
  BY <1>9, <1>10 DEF CrossClean

LEMMA SameParse ==
  ASSUME UNCHANGED <<bundle, manifest, kept>>, NEW d, Parsed(d), rejections \subseteq rejections'
  PROVE  Parsed(d)'
BY SameFiles DEF Parsed

\* What the tables hold, and what they have refused, is known by the rows' numbers.
LEMMA SameTables ==
  ASSUME UNCHANGED <<bundle, manifest, stored>>, TablesInv
  PROVE  TablesInv'
BY SameFiles DEF TablesInv, Filled, Distinct

LEMMA EmptyTables ==
  ASSUME stored' = Nothing
  PROVE  TablesInv'
BY DEF TablesInv, Filled, Distinct, Nothing
------------------------------------------------------------------------------
(* Inspection *)

LEMMA FileRows ==
  ASSUME bundle \in Bundles, NEW d, HasFile(d)
  PROVE  Len(File(d)) \in Nat /\ DOMAIN File(d) = 1 .. Len(File(d))
BY BundlesAssumption DEF HasFile, File

LEMMA Start ==
  Init => BInv
<1> SUFFICES ASSUME Init PROVE BInv
  OBVIOUS
<1>1. \A d \in OperationalDatasets : kept[d] = {} /\ stored[d] = {}
  BY DEF Init, Nothing
<1>2. BundleTypeOK
  BY <1>1, EachOnce DEF Init, BundleTypeOK, Stages, Final, Nothing, Declared
<1>3. InspectionInv /\ ParseInv /\ LoadInv /\ TablesInv
  BY <1>1 DEF Init, InspectionInv, Declared, ParseInv, LoadInv, Committed, TablesInv, Filled,
              Distinct
<1> QED
  BY <1>2, <1>3 DEF BInv

\* What inspection reports either blocks the bundle or is a warning about a file.
LEMMA InspectionLocated ==
  ASSUME NEW rows, NEW r \in VerifyBundle(rows) \cup ScopeRejections(DOMAIN rows)
  PROVE  r.class = "bundle-blocking" \/ (r.class = "warning-only" /\ r.row = 0)
<1>1. CASE r \in ScopeRejections(DOMAIN rows)
  BY <1>1 DEF ScopeRejections, BundleBlocking, Warning, Rejection
<1>2. CASE r \in VerifyBundle(rows)
  <2>1. \A S : \A q \in UndeclaredFiles(S) :
          q.class = "bundle-blocking" \/ (q.class = "warning-only" /\ q.row = 0)
    <3> TAKE S
    <3> TAKE q \in UndeclaredFiles(S)
    <3>1. PICK f : q = Warning(f, "UNDECLARED_FILE") \/ q = BundleBlocking(f, "UNDECLARED_FILE")
      BY DEF UndeclaredFiles
    <3> QED
      BY <3>1 DEF BundleBlocking, Warning, Rejection
  <2>2. \A e : \A q \in EntryRejections(e) : q.class = "bundle-blocking"
    BY DEF EntryRejections, BundleBlocking, Rejection
  <2>3. \A S : \A q \in ManifestRejections(S) :
          q.class = "bundle-blocking" \/ (q.class = "warning-only" /\ q.row = 0)
    BY <2>1, <2>2 DEF ManifestRejections, BundleBlocking, Rejection
  <2> QED
    BY <1>2, <2>3 DEF VerifyBundle, BundleBlocking, Rejection
<1> QED
  BY <1>1, <1>2

\* Without a blocking rejection the files are what the manifest says.
LEMMA InspectionDelivers ==
  ASSUME Inspect, stage' = "parse", ~ HasBlocking(rejections'), NEW d \in OperationalDatasets
  PROVE  Delivered(d)'
<1> PICK rows : rows = ReadManifest
  OBVIOUS
<1>1. /\ HasManifest /\ manifest' = rows /\ bundle' = bundle
      /\ rejections' = VerifyBundle(rows) \cup ScopeRejections(DOMAIN rows)
  BY DEF Inspect
<1>2. ~ HasBlocking(VerifyBundle(rows)) /\ ~ HasBlocking(ScopeRejections(DOMAIN rows))
  BY <1>1, NoneBlocking
<1>3. d \in DOMAIN rows
  <2> SUFFICES ASSUME d \notin DOMAIN rows PROVE FALSE
    OBVIOUS
  <2>1. BundleBlocking(d, "MISSING_OPERATIONAL_DATASET") \in ScopeRejections(DOMAIN rows)
    BY DEF ScopeRejections
  <2>2. BundleBlocking(d, "MISSING_OPERATIONAL_DATASET").class = "bundle-blocking"
    BY DEF BundleBlocking, Rejection
  <2> QED
    BY <1>2, <2>1, <2>2 DEF HasBlocking
<1>4. \A q \in EntryRejections(rows[d]) : q \in VerifyBundle(rows)
  BY <1>1, <1>3 DEF VerifyBundle, ManifestRejections, HasManifest
<1>5. EntryRejections(rows[d]) = {}
  BY <1>2, <1>4 DEF EntryRejections, HasBlocking, BundleBlocking, Rejection
<1>6. LET e == rows[d] IN
        /\ e.file \in DOMAIN bundle.files
        /\ bundle.files[e.file].hash = e.hash
        /\ CountDataRows(bundle.files[e.file]) = e.count
  BY <1>5 DEF EntryRejections
<1> QED
  BY <1>1, <1>3, <1>6 DEF Delivered, Declared, HasFile, File

\* Of the rows of a dataset the last one is in the manifest.
LEMMA ManifestRows ==
  ASSUME bundle \in Bundles, NEW d \in DOMAIN ReadManifest
  PROVE  ReadManifest[d] \in {bundle.entries[n] : n \in Entries}
<1> PICK S : S = {n \in Entries : Declares(n, d)}
  OBVIOUS
<1>1. Len(bundle.entries) \in Nat /\ DOMAIN bundle.entries = 1 .. Len(bundle.entries)
  BY BundlesAssumption
<1>2. S \in SUBSET (1 .. Len(bundle.entries)) /\ S # {}
  BY <1>1 DEF ReadManifest, Entries, Declares
<1>3. PICK n \in S : \A m \in S : m <= n
  BY <1>1, <1>2, SomeLast
<1>4. \E k \in Entries : Declares(k, d) /\ \A m \in Entries : Declares(m, d) => m <= k
  BY <1>3
<1> QED
  BY <1>4 DEF ReadManifest

LEMMA InspectStep ==
  ASSUME BInv, Inspect
  PROVE  BInv'
<1>1. /\ stage = "inspect" /\ stage' \in {"parse", "unreadable"} /\ at' = at /\ at = 1
      /\ UNCHANGED <<bundle, kept, run, stored>>
      /\ \A d \in OperationalDatasets : kept[d] = {}
  BY DEF Inspect, BInv, ParseInv
<1>2. manifest' = manifest \/ DOMAIN manifest' = {bundle.entries[n].dataset : n \in Entries}
  BY DEF Inspect, ReadManifest
<1>3. BundleTypeOK'
  <2>1. Entries' = Entries
    BY <1>1 DEF Entries
  <2>2. Declared' \subseteq {e.dataset : e \in {bundle.entries[n] : n \in Entries}}
    BY <1>2 DEF BInv, BundleTypeOK, Declared
  <2>3. stage' # "raised" /\ stage' \in Stages /\ run = "none" /\ run' = "none"
    BY <1>1 DEF BInv, BundleTypeOK, Stages, Final
  <2> QED
    BY <1>1, <2>1, <2>2, <2>3 DEF BInv, BundleTypeOK
<1>4. InspectionInv'
  <2>1. Entries' = Entries
    BY <1>1 DEF Entries
  <2>2. manifest' = manifest \/ manifest' = ReadManifest
    BY DEF Inspect
  <2>3. \A d \in Declared' : manifest'[d] \in {bundle.entries[n] : n \in Entries}
    BY <2>2, ManifestRows DEF BInv, InspectionInv, Declared
  <2> QED
    BY <1>1, <2>1, <2>3, InspectionDelivers DEF BInv, InspectionInv
<1>5. ParseInv'
  <2>1. \A r \in rejections' : Located(r)'
    BY InspectionLocated DEF Inspect, VerifyBundle, Located
  <2>2. \A i \in DOMAIN LoadOrder : ~ (i < at) /\ kept[LoadOrder[i]] = {}
    BY <1>1, EachOnce DEF OperationalDatasets
  <2> QED
    BY <1>1, <2>1, <2>2 DEF ParseInv, Reached
<1>6. LoadInv'
  BY <1>1 DEF BInv, LoadInv, Committed
<1>7. TablesInv'
  BY <1>1, EmptyTables DEF BInv, LoadInv, Committed
<1> QED
  BY <1>3, <1>4, <1>5, <1>6, <1>7 DEF BInv
------------------------------------------------------------------------------
(* Parsing *)

LEMMA AtDataset ==
  ASSUME BInv, at <= Len(LoadOrder)
  PROVE  at \in 1 .. 25 /\ Dataset = LoadOrder[at] /\ Dataset \in OperationalDatasets
BY EachOnce DEF BInv, BundleTypeOK, Dataset, OperationalDatasets

LEMMA OneFurther ==
  ASSUME NEW i \in 1 .. 25, NEW n \in 1 .. 25, NEW m, m = n + 1
  PROVE  i < m <=> i < n \/ i = n
OBVIOUS

\* A dataset that is read, or one that the manifest does not have, is behind.
LEMMA ParseOn ==
  ASSUME BInv, stage = "parse", at <= Len(LoadOrder), stage' = stage, at' = at + 1,
         UNCHANGED <<bundle, manifest, run, stored>>,
         rejections \subseteq rejections', \A r \in rejections' : Located(r)',
         kept' \in [OperationalDatasets -> SUBSET Nat],
         NEW d, d = Dataset, d \in Declared => Parsed(d)',
         \A f \in OperationalDatasets \ {d} : kept'[f] = kept[f]
  PROVE  BInv'
<1>1. at \in 1 .. 25 /\ d = LoadOrder[at] /\ d \in OperationalDatasets
  BY AtDataset
<1>2. BundleTypeOK'
  <2>1. at' \in 1 .. Len(LoadOrder) + 1
    BY <1>1, EachOnce
  <2>2. \A f \in OperationalDatasets : stored[f] = {}
    BY DEF BInv, LoadInv, Committed, Nothing
  <2> QED
    BY <2>1, <2>2, SameFiles DEF BInv, BundleTypeOK
<1>3. InspectionInv'
  BY SameFiles DEF BInv, InspectionInv, HasBlocking
<1>4. ParseInv'
  <2>1. ASSUME NEW i \in DOMAIN LoadOrder
        PROVE  /\ i < at' /\ LoadOrder[i] \in Declared' => Parsed(LoadOrder[i])'
               /\ ~ (i < at') => kept'[LoadOrder[i]] = {}
    <3>1. LoadOrder[i] \in OperationalDatasets /\ i \in 1 .. 25
      BY EachOnce DEF OperationalDatasets
    <3>2. CASE i = at
      BY <1>1, <3>1, <3>2, OneFurther, SameFiles
    <3>3. CASE i # at
      <4>1. LoadOrder[i] # d /\ kept'[LoadOrder[i]] = kept[LoadOrder[i]]
        BY <1>1, <3>1, <3>3, EachOnce
      <4>2. i < at' <=> i < at
        BY <1>1, <3>1, <3>3, OneFurther
      <4>3. Parsed(LoadOrder[i]) => Parsed(LoadOrder[i])'
        BY <4>1, SameFiles DEF Parsed
      <4> QED
        BY <4>1, <4>2, <4>3, SameFiles DEF BInv, ParseInv, Reached
    <3> QED
      BY <3>2, <3>3
  <2> QED
    BY <2>1 DEF ParseInv, Reached
<1>5. LoadInv'
  BY DEF BInv, LoadInv, Committed
<1>6. TablesInv'
  BY SameTables DEF BInv
<1> QED
  BY <1>2, <1>3, <1>4, <1>5, <1>6 DEF BInv

LEMMA SkipStep ==
  ASSUME BInv, SkipDataset
  PROVE  BInv'
<1>1. \A r \in rejections' : Located(r)'
  BY SameFiles DEF BInv, ParseInv, SkipDataset
<1> QED
  BY <1>1, ParseOn DEF SkipDataset, BInv, BundleTypeOK

LEMMA ParseStep ==
  ASSUME BInv, ParseDataset
  PROVE  BInv'
<1>1. /\ stage = "parse" /\ at <= Len(LoadOrder) /\ HasFile(Dataset) /\ Dataset \in Declared
      /\ UNCHANGED <<bundle, manifest, stage, run, stored>> /\ at' = at + 1
  BY DEF ParseDataset
<1>2. PICK d \in OperationalDatasets : d = Dataset
  BY <1>1, AtDataset
<1>3. /\ kept' = [kept EXCEPT ![d] = {n \in DOMAIN File(d) : Parses(d, n)}]
      /\ rejections' = rejections \cup UNION {RowRejections(d, n) : n \in DOMAIN File(d)}
  BY <1>2 DEF ParseDataset
<1>4. DOMAIN File(d) \subseteq Nat
  BY <1>1, <1>2, FileRows DEF BInv, InspectionInv
<1>5. kept' \in [OperationalDatasets -> SUBSET Nat]
  BY <1>3, <1>4 DEF BInv, BundleTypeOK
<1>6. Parsed(d)'
  <2>1. kept'[d] = {n \in DOMAIN File(d) : Parses(d, n)}
    BY <1>3 DEF BInv, BundleTypeOK
  <2> QED
    BY <1>1, <1>3, <2>1, SameFiles DEF Parsed
<1>7. ASSUME NEW r \in rejections'
      PROVE  Located(r)
  <2>1. CASE r \in rejections
    BY <2>1 DEF BInv, ParseInv
  <2>2. CASE r \notin rejections
    <3>1. PICK n \in DOMAIN File(d) : r \in RowRejections(d, n)
      BY <1>3, <2>2
    <3>2. CASE \E code, c : r = DatasetBlocking(d, n, code, c)
      BY <3>2 DEF DatasetBlocking, Rejection, Located
    <3>3. CASE \E c \in Invalid(d, n) :
                 r = Rejection(d, n, "INVALID_FIELD_VALUE", "record-rejectable", c)
      <4>1. Invalid(d, n) \subseteq CheckedCells
        BY DEF Invalid, CellParses, CheckedCells
      <4> QED
        BY <1>1, <1>2, <3>3, <4>1 DEF Located
    <3> QED
      BY <3>1, <3>2, <3>3 DEF RowRejections
  <2> QED
    BY <2>1, <2>2
<1>8. \A r \in rejections' : Located(r)'
  BY <1>1, <1>7, SameFiles
<1>9. \A f \in OperationalDatasets \ {d} : kept'[f] = kept[f]
  BY <1>3 DEF BInv, BundleTypeOK
<1> QED
  BY <1>1, <1>2, <1>3, <1>5, <1>6, <1>8, <1>9, ParseOn
------------------------------------------------------------------------------
(* From the files to the tables *)

LEMMA NothingStored ==
  ASSUME BInv, stage \notin {"load"} \cup Committed
  PROVE  stored = Nothing /\ \A d \in OperationalDatasets : stored[d] = {}
BY DEF BInv, LoadInv, Nothing

\* What stays as long as the files and the records do.
LEMMA RecordsKept ==
  ASSUME BInv, stage \notin {"inspect", "unreadable", "raised", "parse"},
         stage' \notin {"inspect", "parse"},
         UNCHANGED <<bundle, manifest, kept>>, rejections \subseteq rejections',
         \A r \in rejections' : Located(r)'
  PROVE  InspectionInv' /\ ParseInv'
<1>1. InspectionInv'
  BY SameFiles DEF BInv, InspectionInv, HasBlocking
<1>2. ParseInv'
  BY SameParse, SameFiles DEF BInv, ParseInv, Reached
<1> QED
  BY <1>1, <1>2

LEMMA ReadFailsStep ==
  ASSUME BInv, ReadFails
  PROVE  BInv'
<1>1. /\ stage = "parse" /\ stage' = "raised"
      /\ UNCHANGED <<bundle, manifest, at, rejections, kept, run, stored>>
  BY DEF ReadFails
<1>2. stored = Nothing
  BY <1>1, NothingStored DEF Committed
<1>3. BundleTypeOK'
  BY <1>1, <1>2, SameFiles DEF BInv, BundleTypeOK, Stages, Final, Nothing
<1>4. InspectionInv'
  BY <1>1, SameFiles DEF BInv, InspectionInv
<1>5. ParseInv'
  BY <1>1, SameFiles DEF BInv, ParseInv
<1>6. LoadInv' /\ TablesInv'
  BY <1>1, <1>2, EmptyTables DEF LoadInv, Committed, Nothing
<1> QED
  BY <1>3, <1>4, <1>5, <1>6 DEF BInv

LEMMA FinishStep ==
  ASSUME BInv, FinishParsing
  PROVE  BInv'
<1>1. /\ stage = "parse" /\ at > Len(LoadOrder) /\ at' = 1
      /\ stage' = IF HasBlocking(rejections) THEN "record" ELSE "cross"
      /\ UNCHANGED <<bundle, manifest, rejections, kept, run, stored>>
  BY DEF FinishParsing
<1>2. stored = Nothing /\ \A d \in OperationalDatasets : stored[d] = {}
  BY <1>1, NothingStored DEF Committed
<1>3. BundleTypeOK'
  <2>1. at' \in 1 .. Len(LoadOrder) + 1 /\ stage' \in Stages
    BY <1>1, EachOnce DEF Stages
  <2>2. stage' # "raised" /\ run' = "none"
    BY <1>1 DEF BInv, BundleTypeOK
  <2> QED
    BY <1>1, <2>1, <2>2, SameFiles DEF BInv, BundleTypeOK
<1>4. InspectionInv'
  BY <1>1, SameFiles DEF BInv, InspectionInv, HasBlocking
<1>5. ParseInv'
  <2>1. \A i \in DOMAIN LoadOrder : i < at
    BY <1>1, EachOnce DEF BInv, BundleTypeOK
  <2>2. \A d : Parsed(d) => Parsed(d)'
    BY <1>1, SameParse
  <2> QED
    BY <1>1, <2>1, <2>2, SameFiles DEF BInv, ParseInv, Reached
<1>6. LoadInv' /\ TablesInv'
  BY <1>1, <1>2, EmptyTables DEF LoadInv, Committed, Nothing, HasBlocking
<1> QED
  BY <1>3, <1>4, <1>5, <1>6 DEF BInv

\* The validation across datasets only ever blocks.
LEMMA CrossBlocks ==
  ASSUME NEW r \in CrossRejections
  PROVE  r.class = "dataset-blocking"
<1>1. \A x \in MissingReferences \cup AfterAsOf : x.class = "dataset-blocking"
  BY DEF MissingReferences, AfterAsOf, DatasetBlocking, Rejection
<1>2. \A n : \A x \in AllocationRejections(n) : x.class = "dataset-blocking"
  <2> TAKE n
  <2> TAKE x \in AllocationRejections(n)
  <2>1. PICK code : x = DatasetBlocking("receipt_allocations", n, code, "delivery_schedule_id")
    BY DEF AllocationRejections
  <2> QED
    BY <2>1 DEF DatasetBlocking, Rejection
<1>3. \A n : \A x \in LineValueRejections(n) : x.class = "dataset-blocking"
  BY DEF LineValueRejections, DatasetBlocking, Rejection
<1> QED
  BY <1>1, <1>2, <1>3 DEF CrossRejections, DatasetBlocking, Rejection

LEMMA CrossStep ==
  ASSUME BInv, ValidateCrossDataset
  PROVE  BInv'
<1>1. /\ stage = "cross" /\ stage' \in {"raised", "record"}
      /\ UNCHANGED <<bundle, manifest, at, kept, run, stored>>
      /\ rejections \subseteq rejections'
      /\ stage' = "record" => ~ CrossRaises /\ rejections' = rejections \cup CrossRejections
      /\ rejections' \subseteq rejections \cup CrossRejections
  BY DEF ValidateCrossDataset
<1>2. stored = Nothing /\ \A d \in OperationalDatasets : stored[d] = {}
  BY <1>1, NothingStored DEF Committed
<1>3. BundleTypeOK'
  <2>1. run' = "none" /\ stage' \in Stages
    BY <1>1 DEF BInv, BundleTypeOK, Stages, Final
  <2> QED
    BY <1>1, <1>2, <2>1, SameFiles DEF BInv, BundleTypeOK
<1>4. \A r \in rejections' : Located(r)'
  BY <1>1, CrossBlocks, SameFiles DEF BInv, ParseInv, Located
<1>5. InspectionInv' /\ ParseInv'
  BY <1>1, <1>4, RecordsKept
<1>6. LoadInv'
  <2>1. ASSUME stage' = "record", ~ HasBlocking(rejections')
        PROVE  CrossClean'
    <3>1. CrossRejections = {}
      BY <1>1, <2>1, CrossBlocks DEF HasBlocking
    <3> QED
      BY <1>1, <2>1, <3>1, SameRecords DEF CrossClean
  <2> QED
    BY <1>1, <1>2, <2>1 DEF BInv, LoadInv, Committed, Nothing
<1>7. TablesInv'
  BY <1>1, <1>2, EmptyTables
<1> QED
  BY <1>3, <1>5, <1>6, <1>7 DEF BInv

LEMMA CreateRunStep ==
  ASSUME BInv, CreateIngestionRun
  PROVE  BInv'
<1>1. /\ stage = "record" /\ run' = "running"
      /\ stage' = IF HasBlocking(rejections) THEN "block" ELSE "load"
      /\ UNCHANGED <<bundle, manifest, at, rejections, kept, stored>>
  BY DEF CreateIngestionRun
<1>2. stored = Nothing /\ (\A d \in OperationalDatasets : stored[d] = {}) /\ at = 1
  BY <1>1, NothingStored DEF Committed, BInv, LoadInv
<1>3. BundleTypeOK'
  BY <1>1, <1>2, SameFiles DEF BInv, BundleTypeOK, Stages
<1>4. InspectionInv' /\ ParseInv'
  BY <1>1, RecordsKept, SameFiles DEF BInv, ParseInv
<1>5. LoadInv' /\ TablesInv'
  BY <1>1, <1>2, SameRecords, EmptyTables DEF BInv, LoadInv, Committed, Nothing, HasBlocking
<1> QED
  BY <1>3, <1>4, <1>5 DEF BInv

LEMMA BlockStep ==
  ASSUME BInv, BlockRun
  PROVE  BInv'
<1>1. /\ stage = "block" /\ run' = "failed" /\ stage' = "blocked"
      /\ UNCHANGED <<bundle, manifest, at, rejections, kept, stored>>
  BY DEF BlockRun
<1>2. stored = Nothing /\ \A d \in OperationalDatasets : stored[d] = {}
  BY <1>1, NothingStored DEF Committed
<1>3. BundleTypeOK'
  BY <1>1, <1>2, SameFiles DEF BInv, BundleTypeOK, Stages, Final
<1>4. InspectionInv' /\ ParseInv'
  BY <1>1, RecordsKept, SameFiles DEF BInv, ParseInv
<1>5. LoadInv' /\ TablesInv'
  BY <1>1, <1>2, EmptyTables DEF LoadInv, Committed, Nothing
<1> QED
  BY <1>3, <1>4, <1>5 DEF BInv

\* The rows of a dataset are in its table when none of them is refused.
LEMMA Insertable ==
  ASSUME NEW d, NEW rows, NEW tables, Violations(d, rows, tables) = {}
  PROVE  /\ \A n \in DOMAIN rows : \A c \in FilledOf(d) \ JsonColumns : rows[n][c] # None
         /\ \A u \in KeysOf(d) : \A m, n \in DOMAIN rows : ~ (m < n /\ Agree(rows[m], rows[n], u))
<1>1. \A c \in FilledOf(d) \ JsonColumns :
        ~ \E n \in DOMAIN rows : rows[n][c] = None
  <2> SUFFICES ASSUME NEW c \in FilledOf(d) \ JsonColumns, NEW n \in DOMAIN rows, rows[n][c] = None
               PROVE  <<"not null", c>> \in Violations(d, rows, tables)
    OBVIOUS
  <2> QED
    BY DEF Violations
<1>2. \A u \in KeysOf(d) : ~ SomePair(rows, LAMBDA r, q : Agree(r, q, u))
  <2> SUFFICES ASSUME NEW u \in KeysOf(d), SomePair(rows, LAMBDA r, q : Agree(r, q, u))
               PROVE  <<"unique", u>> \in Violations(d, rows, tables)
    OBVIOUS
  <2> QED
    BY DEF Violations
<1> QED
  BY <1>1, <1>2 DEF SomePair

LEMMA Inserting ==
  ASSUME BInv, LoadDataset, stage' = "load", NEW d \in OperationalDatasets, d = Dataset
  PROVE  TablesInv'
<1>1. /\ Violations(d, Rows(d, kept[d]), Tables) = {}
      /\ stored' = [stored EXCEPT ![d] = kept[d]]
      /\ UNCHANGED <<bundle, manifest, kept>>
  BY DEF LoadDataset, Refuse
<1>2. /\ DOMAIN Rows(d, kept[d]) = kept[d]
      /\ \A n \in kept[d] : Rows(d, kept[d])[n] = File(d)[n]
      /\ kept[d] \subseteq Nat
  BY DEF Rows, BInv, BundleTypeOK
<1>3. \A n \in kept[d] : \A c \in FilledOf(d) \ JsonColumns : Cell(d, n, c) # None
  BY <1>1, <1>2, Insertable DEF Cell
<1>4. \A u \in KeysOf(d) : \A m, n \in kept[d] : Agree(File(d)[m], File(d)[n], u) => m = n
  <2> TAKE u \in KeysOf(d)
  <2> TAKE m, n \in kept[d]
  <2>1. ~ (m < n /\ Agree(File(d)[m], File(d)[n], u)) /\ ~ (n < m /\ Agree(File(d)[n], File(d)[m], u))
    BY <1>1, <1>2, Insertable
  <2>2. Agree(File(d)[m], File(d)[n], u) => Agree(File(d)[n], File(d)[m], u)
    BY DEF Agree
  <2> QED
    BY <1>2, <2>1, <2>2
<1>5. /\ stored'[d] = kept[d]
      /\ \A f \in OperationalDatasets \ {d} : stored'[f] = stored[f]
  BY <1>1 DEF BInv, BundleTypeOK
<1>6. Filled(d)' /\ Distinct(d)'
  BY <1>1, <1>3, <1>4, <1>5, SameFiles DEF Filled, Distinct
<1>7. \A f \in OperationalDatasets \ {d} : Filled(f)' /\ Distinct(f)'
  BY <1>1, <1>5, SameFiles DEF Filled, Distinct, BInv, TablesInv
<1> QED
  BY <1>6, <1>7 DEF TablesInv

LEMMA LoadStep ==
  ASSUME BInv, LoadDataset
  PROVE  BInv'
<1>1. /\ stage = "load" /\ at <= Len(LoadOrder)
      /\ UNCHANGED <<bundle, manifest, rejections, kept>>
      /\ \/ /\ stage' \in {"raised", "refused"} /\ stored' = Nothing /\ at' = at
            /\ run' = IF stage' = "raised" THEN run ELSE "failed"
         \/ /\ stored' = [stored EXCEPT ![Dataset] = kept[Dataset]]
            /\ at' = at + 1 /\ stage' = stage /\ run' = run
  BY DEF LoadDataset, Refuse
<1>2. /\ at \in 1 .. 25 /\ Dataset = LoadOrder[at] /\ Dataset \in OperationalDatasets
      /\ run = "running"
  BY <1>1, AtDataset DEF BInv, BundleTypeOK
<1>3. PICK d \in OperationalDatasets : d = Dataset
  BY <1>2
<1>4. BundleTypeOK'
  <2>1. CASE stage' \in {"raised", "refused"}
    <3>1. stored' = Nothing /\ \A f \in OperationalDatasets : stored'[f] = {}
      BY <1>1, <2>1 DEF Nothing
    <3> QED
      BY <1>1, <1>2, <2>1, <3>1, SameFiles DEF BInv, BundleTypeOK, Stages, Final, Nothing
  <2>2. CASE stage' = stage
    <3>1. stored' = [stored EXCEPT ![d] = kept[d]] /\ at' = at + 1 /\ run' = run
      BY <1>1, <1>3, <2>2
    <3>2. at' \in 1 .. Len(LoadOrder) + 1
      BY <1>2, <3>1, EachOnce
    <3>3. /\ stored' \in [OperationalDatasets -> SUBSET Nat]
          /\ \A f \in OperationalDatasets : stored'[f] \subseteq kept[f]
      BY <1>3, <3>1 DEF BInv, BundleTypeOK
    <3> QED
      BY <1>1, <1>2, <2>2, <3>1, <3>2, <3>3, SameFiles DEF BInv, BundleTypeOK
  <2> QED
    BY <1>1, <2>1, <2>2
<1>5. InspectionInv' /\ ParseInv'
  BY <1>1, RecordsKept, SameFiles DEF BInv, ParseInv
<1>6. LoadInv'
  <2>1. ~ HasBlocking(rejections') /\ CrossClean'
    BY <1>1, SameRecords DEF BInv, LoadInv
  <2>2. CASE stage' \in {"raised", "refused"}
    BY <1>1, <2>1, <2>2 DEF LoadInv, Committed, Nothing
  <2>3. CASE stage' = "load"
    <3>1. stored' = [stored EXCEPT ![d] = kept[d]] /\ at' = at + 1
      BY <1>1, <1>3, <2>3
    <3>2. ASSUME NEW i \in 1 .. at' - 1
          PROVE  stored'[LoadOrder[i]] = kept[LoadOrder[i]]
      <4>1. i \in 1 .. 25 /\ (i \in 1 .. at - 1 \/ i = at)
        BY <1>2, <3>1
      <4>2. LoadOrder[i] \in OperationalDatasets
        BY <4>1, EachOnce DEF OperationalDatasets
      <4>3. stored \in [OperationalDatasets -> SUBSET Nat]
        BY DEF BInv, BundleTypeOK
      <4>4. i \in 1 .. at - 1 => stored[LoadOrder[i]] = kept[LoadOrder[i]]
        BY <1>1 DEF BInv, LoadInv
      <4> QED
        BY <1>2, <1>3, <3>1, <4>1, <4>2, <4>3, <4>4
    <3> QED
      BY <1>1, <2>1, <2>3, <3>2 DEF LoadInv, Committed
  <2> QED
    BY <1>1, <2>2, <2>3
<1>7. TablesInv'
  BY <1>1, <1>3, Inserting, EmptyTables
<1> QED
  BY <1>4, <1>5, <1>6, <1>7 DEF BInv

LEMMA ReconcileStep ==
  ASSUME BInv, Reconcile
  PROVE  BInv'
<1>1. /\ stage = "load" /\ at > Len(LoadOrder)
      /\ UNCHANGED <<bundle, manifest, at, rejections, kept, stored>>
      /\ \/ /\ \A d \in OperationalDatasets : Difference(d) = 0
            /\ run' = "success" /\ stage' = "published"
         \/ run' = "failed" /\ stage' = "unreconciled"
  BY DEF Reconcile
<1>2. BundleTypeOK'
  BY <1>1, SameFiles DEF BInv, BundleTypeOK, Stages, Final
<1>3. InspectionInv' /\ ParseInv'
  BY <1>1, RecordsKept, SameFiles DEF BInv, ParseInv
<1>4. \A d \in OperationalDatasets : stored[d] = kept[d]
  <2> TAKE d \in OperationalDatasets
  <2>1. PICK i \in 1 .. 25 : d = LoadOrder[i]
    BY Ordered
  <2>2. i \in 1 .. at - 1
    BY <1>1, EachOnce DEF BInv, BundleTypeOK
  <2> QED
    BY <1>1, <2>1, <2>2 DEF BInv, LoadInv
<1>5. stage' = "published" => \A d \in OperationalDatasets : Difference(d)' = 0
  BY <1>1 DEF Difference, RejectedOf
<1>6. LoadInv'
  BY <1>1, <1>4, <1>5, SameRecords DEF BInv, LoadInv, Committed
<1>7. TablesInv'
  BY <1>1, SameTables DEF BInv
<1> QED
  BY <1>2, <1>3, <1>6, <1>7 DEF BInv
------------------------------------------------------------------------------
(* Theorems *)

\* The invariant of the attempt, for every bundle.
THEOREM BundleInvariance ==
  Spec => []BInv
<1>1. BInv /\ [Next]_bundlevars => BInv'
  <2> SUFFICES ASSUME BInv, [Next]_bundlevars PROVE BInv'
    OBVIOUS
  <2>1. CASE UNCHANGED bundlevars
    <3>1. /\ UNCHANGED <<bundle, manifest, kept>>
          /\ UNCHANGED <<stage, at, rejections, run, stored>>
      BY <2>1 DEF bundlevars
    <3>2. BundleTypeOK'
      BY <3>1, SameFiles DEF BInv, BundleTypeOK
    <3>3. InspectionInv'
      BY <3>1, SameFiles DEF BInv, InspectionInv
    <3>4. \A d : Parsed(d) => Parsed(d)'
      BY <3>1, SameParse
    <3>5. ParseInv'
      BY <3>1, <3>4, SameFiles DEF BInv, ParseInv, Reached
    <3>6. \A d : Difference(d)' = Difference(d)
      BY <3>1 DEF Difference, RejectedOf
    <3>7. LoadInv'
      BY <3>1, <3>6, SameRecords DEF BInv, LoadInv
    <3>8. TablesInv'
      BY <3>1, SameTables DEF BInv
    <3> QED
      BY <3>2, <3>3, <3>5, <3>7, <3>8 DEF BInv
  <2> QED
    BY <2>1, InspectStep, SkipStep, ReadFailsStep, ParseStep, FinishStep, CrossStep,
       CreateRunStep, BlockStep, LoadStep, ReconcileStep DEF Next
<1> QED
  BY <1>1, Start, PTL DEF Spec

\* What is kept and stored are rows of the files, and the run's status is that
\* of the attempt.
THEOREM BundleTyped ==
  Spec => []BundleTypeOK
BY BundleInvariance, PTL DEF BInv

LEMMA ReferencesResolve ==
  ASSUME BInv
  PROVE  CheckedReferencesResolve
<1> SUFFICES ASSUME stage = "load", at <= Len(LoadOrder), Dataset \in DOMAIN CheckedColumns,
                    NEW c \in CheckedColumns[Dataset], NEW n \in kept[Dataset],
                    Cell(Dataset, n, c) # None
             PROVE  \E m \in stored[Referenced[c]] :
                      Cell(Referenced[c], m, "id") = Cell(Dataset, n, c)
  BY DEF CheckedReferencesResolve
<1>1. at \in 1 .. Len(LoadOrder) /\ Dataset = LoadOrder[at]
  BY AtDataset, EachOnce
<1>2. PICK j \in 1 .. at - 1 : LoadOrder[j] = Referenced[c]
  BY <1>1, ReferencedFirst
<1>3. stored[Referenced[c]] = kept[Referenced[c]]
  BY <1>2 DEF BInv, LoadInv
<1>4. MissingReferences = {}
  BY DEF BInv, LoadInv, CrossClean, CrossRejections
<1>5. Cell(Dataset, n, c) \in IdsOf(Referenced[c])
  <2> SUFFICES ASSUME Cell(Dataset, n, c) \notin IdsOf(Referenced[c]) PROVE FALSE
    OBVIOUS
  <2>1. DatasetBlocking(Dataset, n, "FOREIGN_KEY_MISSING", c) \in MissingReferences
    BY DEF MissingReferences
  <2> QED
    BY <1>4, <2>1
<1> QED
  BY <1>3, <1>5 DEF IdsOf

\* A reference that the validation has checked finds its row when it is inserted,
\* whatever the bundle and whatever was dropped from its files.
THEOREM ReferencesFound ==
  Spec => []CheckedReferencesResolve
BY BundleInvariance, ReferencesResolve, PTL
------------------------------------------------------------------------------
(* Rules that were checked *)

\* What the table says of the row it refuses.
LEMMA Refusals ==
  ASSUME NEW d, NEW rows, NEW tables, NEW refused, refused = Violations(d, rows, tables)
  PROVE  /\ \A c : <<"check", c>> \in refused =>
              \/ c \in DOMAIN TableOf(d).among
              \/ \E k \in TableOf(d).checks : k[2] = c /\ \E n \in DOMAIN rows : Fails(k, rows[n])
         /\ \A t : <<"line", t>> \in refused => \E n \in DOMAIN rows : OtherLine(t, rows[n], tables)
<1>1. ASSUME NEW c, <<"check", c>> \in refused, c \notin DOMAIN TableOf(d).among
      PROVE  \E k \in TableOf(d).checks : k[2] = c /\ \E n \in DOMAIN rows : Fails(k, rows[n])
  BY <1>1 DEF Violations
<1>2. ASSUME NEW t, <<"line", t>> \in refused
      PROVE  \E n \in DOMAIN rows : OtherLine(t, rows[n], tables)
  BY <1>2 DEF Violations
<1> QED
  BY <1>1, <1>2

\* And of a column that may not be empty.
LEMMA RefusedEmpty ==
  ASSUME NEW d, NEW rows, NEW tables, NEW c \in FilledOf(d) \ JsonColumns,
         <<"not null", c>> \notin Violations(d, rows, tables), NEW n \in DOMAIN rows
  PROVE  rows[n][c] # None
BY DEF Violations

\* Allocations that are not refused for want of a receipt have one.
LEMMA ReceiptGiven ==
  ASSUME <<"not null", "receipt_transaction_id">>
           \notin Violations("receipt_allocations",
                    Rows("receipt_allocations", kept["receipt_allocations"]), Tables),
         NEW n \in kept["receipt_allocations"]
  PROVE  Allocation(n, "receipt_transaction_id") # None
<1> PICK rows : rows = Rows("receipt_allocations", kept["receipt_allocations"])
  OBVIOUS
<1>1. n \in DOMAIN rows /\ rows[n] = File("receipt_allocations")[n]
  BY DEF Rows
<1>2. "receipt_transaction_id" \in FilledOf("receipt_allocations") \ JsonColumns
  BY DEF FilledOf, TableOf, MasterTables, PlanningTables, OrderTables, SupplyTables, Table,
         JsonColumns
<1>3. rows[n]["receipt_transaction_id"] # None
  BY <1>1, <1>2, RefusedEmpty
<1> QED
  BY <1>1, <1>3 DEF Allocation, Cell

\* In a table that has been loaded an identity is that of one row.
LEMMA Identified ==
  ASSUME BInv, NEW d \in OperationalDatasets, d # "source_loads", stored[d] = kept[d]
  PROVE  /\ \A n \in kept[d] : Cell(d, n, "id") # None
         /\ \A m, n \in kept[d] : Cell(d, m, "id") = Cell(d, n, "id") => m = n
         /\ \A n \in kept[d] : ById(d, Cell(d, n, "id")) = {n}
         /\ \A id : ById(d, id) = {n \in kept[d] : Cell(d, n, "id") = id}
<1>1. "id" \in FilledOf(d) \ JsonColumns /\ {"id"} \in KeysOf(d)
  BY DEF FilledOf, KeysOf, JsonColumns
<1>2. \A n \in kept[d] : Cell(d, n, "id") # None
  BY <1>1 DEF BInv, TablesInv, Filled
<1>3. \A m, n \in kept[d] : Cell(d, m, "id") = Cell(d, n, "id") => m = n
  BY <1>1, <1>2 DEF BInv, TablesInv, Distinct, Agree, Cell
<1>4. \A id : ById(d, id) = {n \in kept[d] : Cell(d, n, "id") = id}
  <2>1. kept[d] \subseteq Nat
    BY DEF BInv, BundleTypeOK
  <2> QED
    BY <1>3, <2>1 DEF ById
<1> QED
  BY <1>2, <1>3, <1>4

LEMMA LineOfRow ==
  ASSUME BInv, NEW d \in OperationalDatasets, d # "source_loads", stored[d] = kept[d],
         NEW n \in kept[d]
  PROVE  LineOf(Cell(d, n, "id"), Tables[d]) = Cell(d, n, "po_line_id")
<1> PICK table : table = Tables[d]
  OBVIOUS
<1>1. DOMAIN table = kept[d] /\ \A m \in kept[d] : table[m] = File(d)[m]
  BY DEF Tables, Rows
<1>2. RowsOf(table) = {File(d)[m] : m \in kept[d]}
  BY <1>1 DEF RowsOf
<1>3. \A q \in RowsOf(table) : q["id"] = Cell(d, n, "id") => q = File(d)[n]
  BY <1>2, Identified DEF Cell
<1>4. File(d)[n] \in RowsOf(table) /\ File(d)[n]["id"] = Cell(d, n, "id")
  BY <1>2 DEF Cell
<1>5. (CHOOSE q \in RowsOf(table) : q["id"] = Cell(d, n, "id")) = File(d)[n]
  BY <1>3, <1>4
<1> QED
  BY <1>5 DEF LineOf, Cell

\* An identity that resolves is that of a row that was kept.
LEMMA ResolvedRow ==
  ASSUME NEW d \in OperationalDatasets, stored[d] = kept[d], NEW id, Resolves(id, Tables[d])
  PROVE  \E n \in kept[d] : Cell(d, n, "id") = id
BY DEF Resolves, Tables, Rows, Cell

\* What the allocations and the commitments refer to has been loaded.
LEMMA LoadedBefore ==
  ASSUME BInv, stage = "load", at <= Len(LoadOrder)
  PROVE  /\ Dataset \in {"receipt_allocations", "supplier_commitment_observations"} =>
              stored["delivery_schedules"] = kept["delivery_schedules"]
         /\ Dataset = "receipt_allocations" =>
              stored["receipt_transactions"] = kept["receipt_transactions"]
<1>1. /\ LoadOrder[19] = "delivery_schedules"
      /\ LoadOrder[20] = "supplier_commitment_observations"
      /\ LoadOrder[21] = "receipt_transactions"
      /\ LoadOrder[22] = "receipt_allocations"
  BY DEF LoadOrder
<1>2. at \in 1 .. 25 /\ Dataset = LoadOrder[at]
  BY AtDataset
<1>3. \A i \in 1 .. 25 : i < at => stored[LoadOrder[i]] = kept[LoadOrder[i]]
  BY <1>2 DEF BInv, LoadInv
<1>4. /\ Dataset = "receipt_allocations" => at = 22
      /\ Dataset = "supplier_commitment_observations" => at = 20
  BY <1>1, <1>2, EachOnce
<1> QED
  BY <1>1, <1>3, <1>4

\* What was kept of a file that is stored or about to be: cells of columns of
\* numbers are numbers, or empty.
LEMMA KeptRows ==
  ASSUME BInv, stage \in {"load"} \cup Committed, NEW d \in OperationalDatasets
  PROVE  /\ d \in Declared /\ CrossClean
         /\ kept[d] \in SUBSET Nat /\ IsFiniteSet(kept[d])
         /\ \A n \in kept[d] : \A c \in RequiredColumns(d) \cap NumberColumns :
              Cell(d, n, c) \in Int \cup {None}
<1>1. /\ Delivered(d) /\ CrossClean
      /\ Len(File(d)) \in Nat /\ DOMAIN File(d) = 1 .. Len(File(d))
  BY FileRows DEF BInv, InspectionInv, LoadInv, Committed, Delivered
<1>2. Parsed(d)
  <2>1. PICK i \in 1 .. 25 : d = LoadOrder[i]
    BY Ordered
  <2> QED
    BY <1>1, <2>1, EachOnce DEF BInv, ParseInv, Reached, Delivered, Committed
<1>3. kept[d] \in SUBSET (1 .. Len(File(d)))
  BY <1>1, <1>2 DEF Parsed
<1>4. IsFiniteSet(kept[d])
  BY <1>1, <1>3, NumbersFinite, FS_Subset
<1>5. ASSUME NEW n \in kept[d], NEW c \in RequiredColumns(d) \cap NumberColumns
      PROVE  Cell(d, n, c) \in Int \cup {None}
  <2>1. Parses(d, n)
    BY <1>2 DEF Parsed
  <2>2. c \in DOMAIN File(d)[n] /\ CellParses(c, File(d)[n][c])
    BY <2>1 DEF Parses, Complete, Missing, Invalid
  <2>3. File(d)[n][c] \in Int \cup {None, Junk}
    BY <1>1, <1>3, <2>2, NumbersAssumption DEF BInv, InspectionInv, Delivered, HasFile, File
  <2> QED
    BY <2>2, <2>3 DEF CellParses, TypedColumns, Cell
<1> QED
  BY <1>1, <1>3, <1>4, <1>5 DEF Delivered

\* Amounts of a line that was kept.
LEMMA Amounts ==
  ASSUME BInv, stage \in {"load"} \cup Committed,
         NEW n \in kept["purchase_order_line_versions"]
  PROVE  /\ Version(n, "base_quantity") \in Int
         /\ Version(n, "unit_price_aud") \in Int /\ ~ Version(n, "unit_price_aud") < 0
         /\ Version(n, "line_value_aud") \in Int /\ ~ Version(n, "line_value_aud") < 0
         /\ Version(n, "base_quantity") * Version(n, "unit_price_aud")
              - Version(n, "line_value_aud") \in -Cent .. Cent
<1> PICK d : d = "purchase_order_line_versions"
  OBVIOUS
<1>1. d \in OperationalDatasets
  BY DEF OperationalDatasets, LoadOrder
<1>2. CrossClean
  BY <1>1, KeptRows
<1>3. {"base_quantity", "unit_price_aud", "line_value_aud"}
        \subseteq RequiredColumns(d) \cap NumberColumns
  BY DEF RequiredColumns, MasterColumns, OrderColumns, NumberColumns, DecimalColumns
<1>4. \A c \in {"base_quantity", "unit_price_aud", "line_value_aud"} : Version(n, c) # None
  BY <1>2 DEF CrossClean, CrossRaises
<1>5. \A c \in {"base_quantity", "unit_price_aud", "line_value_aud"} : Version(n, c) \in Int
  BY <1>1, <1>3, <1>4, KeptRows DEF Version
<1>6. LineValueRejections(n) = {}
  BY <1>2 DEF CrossClean, CrossRejections
<1> PICK base \in Int, price \in Int, value \in Int, product \in Int :
      /\ base = Version(n, "base_quantity") /\ price = Version(n, "unit_price_aud")
      /\ value = Version(n, "line_value_aud") /\ product = base * price
  BY <1>5
<1>7. ~ (price < 0 \/ value < 0) /\ ~ Absolute(product - value) > Cent
  BY <1>6 DEF LineValueRejections
<1>8. product - value \in -Cent .. Cent
  BY <1>7 DEF Absolute, Cent
<1> QED
  BY <1>5, <1>7, <1>8

\* Of an allocation whose receipt is known.
LEMMA AllocationFits ==
  ASSUME BInv, stage = "load", stored["delivery_schedules"] = kept["delivery_schedules"],
         stored["receipt_transactions"] = kept["receipt_transactions"],
         NEW n \in kept["receipt_allocations"], Allocation(n, "receipt_transaction_id") # None
  PROVE  /\ Allocation(n, "allocation_bucket") = "line_residual" =>
              Allocation(n, "delivery_schedule_id") = None
         /\ Allocation(n, "allocation_bucket") # "line_residual" =>
              Allocation(n, "delivery_schedule_id") # None
         /\ \A m \in kept["delivery_schedules"], r \in kept["receipt_transactions"] :
              /\ Schedule(m, "id") = Allocation(n, "delivery_schedule_id")
              /\ Receipt(r, "id") = Allocation(n, "receipt_transaction_id")
              => Receipt(r, "po_line_id") = Schedule(m, "po_line_id")
<1> PICK id : id = Allocation(n, "receipt_transaction_id")
  OBVIOUS
<1>1. /\ {"receipt_allocations", "receipt_transactions", "delivery_schedules"}
           \subseteq OperationalDatasets
      /\ "receipt_allocations" \in DOMAIN CheckedColumns
      /\ "receipt_transaction_id" \in CheckedColumns["receipt_allocations"]
      /\ Referenced["receipt_transaction_id"] = "receipt_transactions"
  BY DEF OperationalDatasets, LoadOrder, CheckedColumns, Referenced
<1>2. CrossRejections = {}
  BY <1>1, KeptRows DEF CrossClean
<1>3. id \in IdsOf("receipt_transactions")
  <2> SUFFICES ASSUME id \notin IdsOf("receipt_transactions") PROVE FALSE
    OBVIOUS
  <2>1. DatasetBlocking("receipt_allocations", n, "FOREIGN_KEY_MISSING", "receipt_transaction_id")
          \in MissingReferences
    BY <1>1 DEF MissingReferences, Allocation
  <2> QED
    BY <1>2, <2>1 DEF CrossRejections
<1>4. HasReceipt(n)
  BY <1>1, <1>3, Identified DEF IdsOf, HasReceipt
<1>5. AllocationRejections(n) = {}
  BY <1>2, <1>4 DEF CrossRejections
<1> PICK schedule, residual, lines :
      /\ schedule = Allocation(n, "delivery_schedule_id")
      /\ residual \in BOOLEAN
      /\ residual = (Allocation(n, "allocation_bucket") = "line_residual")
      /\ lines = {Receipt(m, "po_line_id") : m \in ById("receipt_transactions", id)}
                 \cup {Schedule(m, "po_line_id") : m \in ById("delivery_schedules", schedule)}
  OBVIOUS
<1>6. /\ ~ (residual /\ schedule # None) /\ ~ (~ residual /\ schedule = None)
      /\ ~ (schedule # None /\ Cardinality(lines) > 1)
  BY <1>5 DEF AllocationRejections
<1>7. ASSUME NEW m \in kept["delivery_schedules"], NEW r \in kept["receipt_transactions"],
             Schedule(m, "id") = schedule, Receipt(r, "id") = id
      PROVE  Receipt(r, "po_line_id") = Schedule(m, "po_line_id")
  <2>1. /\ ById("receipt_transactions", id) = {r}
        /\ ById("delivery_schedules", schedule) = {m} /\ schedule # None
    BY <1>1, <1>7, Identified DEF Schedule, Receipt
  <2>2. lines = {Receipt(r, "po_line_id"), Schedule(m, "po_line_id")}
    BY <2>1
  <2>3. ~ Cardinality(lines) > 1
    BY <1>6, <2>1
  <2> QED
    BY <2>2, <2>3, TwoOfThem
<1> QED
  BY <1>6, <1>7

LEMMA RulesHold ==
  ASSUME BInv
  PROVE  CheckedRulesHold
<1> SUFFICES ASSUME stage = "load", at <= Len(LoadOrder), Dataset \in DOMAIN Shared,
                    NEW rows, rows = Rows(Dataset, kept[Dataset]),
                    NEW refused, refused = Violations(Dataset, rows, Tables),
                    Dataset = "receipt_allocations" =>
                      \A n \in kept[Dataset] : Allocation(n, "receipt_transaction_id") # None,
                    NEW x \in Shared[Dataset], x \in refused
             PROVE  FALSE
  BY ReceiptGiven DEF CheckedRulesHold
<1>1. DOMAIN rows = kept[Dataset] /\ \A n \in kept[Dataset] : rows[n] = File(Dataset)[n]
  BY DEF Rows
<1>2. {"receipt_allocations", "receipt_transactions", "delivery_schedules",
       "supplier_commitment_observations", "purchase_order_line_versions"}
        \subseteq OperationalDatasets
  BY DEF OperationalDatasets, LoadOrder
<1>3. CrossRejections = {}
  BY <1>2, KeptRows DEF CrossClean
<1>4. CASE Dataset = "purchase_order_line_versions"
  <2>1. PICK c \in {"unit_price_aud", "line_value_aud"} : x = <<"check", c>>
    BY <1>4 DEF Shared
  <2>2. /\ c \notin DOMAIN TableOf(Dataset).among
        /\ TableOf(Dataset).checks = {<<"positive", "ordered_quantity">>,
             <<"nonnegative", "unit_price_aud">>, <<"nonnegative", "line_value_aud">>}
    BY <1>4, <2>1 DEF TableOf, MasterTables, PlanningTables, OrderTables, Table
  <2>3. PICK n \in kept[Dataset] : Fails(<<"nonnegative", c>>, rows[n])
    BY <1>1, <2>1, <2>2, Refusals
  <2>4. Version(n, c) < 0
    BY <1>1, <1>4, <2>3 DEF Fails, Version, Cell
  <2> QED
    BY <1>4, <2>1, <2>3, <2>4, Amounts
<1>5. CASE Dataset = "receipt_allocations"
  <2>1. /\ stored["delivery_schedules"] = kept["delivery_schedules"]
        /\ stored["receipt_transactions"] = kept["receipt_transactions"]
    BY <1>5, LoadedBefore
  <2>2. \A n \in kept[Dataset] : Allocation(n, "receipt_transaction_id") # None
    BY <1>5
  <2>3. CASE x = <<"check", "delivery_schedule_id">>
    <3>1. /\ "delivery_schedule_id" \notin DOMAIN TableOf(Dataset).among
          /\ TableOf(Dataset).checks = {<<"nonnegative", "allocated_base_quantity">>,
                                        <<"bucket", "delivery_schedule_id">>}
      BY <1>5 DEF TableOf, MasterTables, PlanningTables, OrderTables, SupplyTables, Table, Free
    <3>2. PICK n \in kept[Dataset] : Fails(<<"bucket", "delivery_schedule_id">>, rows[n])
      BY <1>1, <2>3, <3>1, Refusals
    <3>3. (Allocation(n, "allocation_bucket") = "line_residual")
            # (Allocation(n, "delivery_schedule_id") = None)
      BY <1>1, <1>5, <3>2 DEF Fails, Allocation, Cell
    <3> QED
      BY <1>5, <2>1, <2>2, <3>2, <3>3, AllocationFits
  <2>4. CASE x = <<"line", "receipt_allocations">>
    <3>1. PICK n \in kept[Dataset] : OtherLine("receipt_allocations", rows[n], Tables)
      BY <1>1, <2>4, Refusals
    <3> PICK schedule, receipt :
          schedule = Allocation(n, "delivery_schedule_id")
          /\ receipt = Allocation(n, "receipt_transaction_id")
      OBVIOUS
    <3>2. /\ Resolves(schedule, Tables["delivery_schedules"])
          /\ Resolves(receipt, Tables["receipt_transactions"])
          /\ LineOf(receipt, Tables["receipt_transactions"])
               # LineOf(schedule, Tables["delivery_schedules"])
      BY <1>1, <1>5, <3>1 DEF OtherLine, Allocation, Cell
    <3>3. PICK m \in kept["delivery_schedules"] : Schedule(m, "id") = schedule
      BY <1>2, <2>1, <3>2, ResolvedRow DEF Schedule
    <3>4. PICK r \in kept["receipt_transactions"] : Receipt(r, "id") = receipt
      BY <1>2, <2>1, <3>2, ResolvedRow DEF Receipt
    <3>5. Receipt(r, "po_line_id") = Schedule(m, "po_line_id")
      BY <1>5, <2>1, <2>2, <3>3, <3>4, AllocationFits
    <3> QED
      BY <1>2, <2>1, <3>2, <3>3, <3>4, <3>5, LineOfRow DEF Schedule, Receipt
  <2> QED
    BY <1>5, <2>3, <2>4 DEF Shared
<1>6. CASE Dataset = "supplier_commitment_observations"
  <2>1. stored["delivery_schedules"] = kept["delivery_schedules"]
    BY <1>6, LoadedBefore
  <2>2. x = <<"line", "supplier_commitment_observations">>
    BY <1>6 DEF Shared
  <2>3. PICK n \in kept[Dataset] : OtherLine("supplier_commitment_observations", rows[n], Tables)
    BY <1>1, <2>2, Refusals
  <2> PICK schedule : schedule = Commitment(n, "delivery_schedule_id")
    OBVIOUS
  <2>4. /\ Resolves(schedule, Tables["delivery_schedules"])
        /\ Commitment(n, "po_line_id") # LineOf(schedule, Tables["delivery_schedules"])
    BY <1>1, <1>6, <2>3 DEF OtherLine, Commitment, Cell
  <2>5. PICK m \in kept["delivery_schedules"] : Schedule(m, "id") = schedule
    BY <1>2, <2>1, <2>4, ResolvedRow DEF Schedule
  <2>6. Schedule(m, "po_line_id") # Commitment(n, "po_line_id")
    BY <1>2, <2>1, <2>4, <2>5, LineOfRow DEF Schedule
  <2>7. ById("delivery_schedules", schedule) = {m} /\ schedule # None
    BY <1>2, <2>1, <2>5, Identified DEF Schedule
  <2>8. n \in MisplacedCommitments
    BY <1>6, <2>6, <2>7 DEF MisplacedCommitments
  <2> QED
    BY <1>3, <2>8 DEF CrossRejections
<1> QED
  BY <1>4, <1>5, <1>6 DEF Shared

\* A bundle that passed the validation is not refused for a rule the validation
\* and the tables share, whatever the bundle; only an allocation of no receipt is
\* not looked at.
THEOREM CheckedRulesKept ==
  Spec => []CheckedRulesHold
BY BundleInvariance, RulesHold, PTL
------------------------------------------------------------------------------
(* Committed tables *)

\* Everything that was kept is there.
LEMMA StoredRows ==
  ASSUME BInv, stage \in Committed, NEW d \in OperationalDatasets
  PROVE  /\ stored[d] = kept[d] /\ Filled(d) /\ Distinct(d)
         /\ \A c, x : StoredWith(d, c, x) = {n \in kept[d] : Cell(d, n, c) = x}
<1>1. stored[d] = kept[d] /\ Filled(d) /\ Distinct(d)
  BY DEF BInv, LoadInv, TablesInv
<1> QED
  BY <1>1 DEF StoredWith

\* The table has one row for each amendment, so the latest is the one with the
\* greatest number.
LEMMA LatestGreatest ==
  ASSUME BInv, stage \in Committed, NEW line, NEW n \in VersionsOf(line),
         \A m \in VersionsOf(line) :
           ~ Version(m, "amendment_version") > Version(n, "amendment_version")
  PROVE  n = LatestVersion(line)
<1> PICK d : d = "purchase_order_line_versions"
  OBVIOUS
<1> PICK S : S = VersionsOf(line)
  OBVIOUS
<1>1. d \in OperationalDatasets /\ S \subseteq kept[d] /\ S \subseteq Nat
  <2>1. d \in OperationalDatasets
    BY DEF OperationalDatasets, LoadOrder
  <2> QED
    BY <2>1, KeptRows DEF VersionsOf
<1>2. /\ "amendment_version" \in RequiredColumns(d) \cap NumberColumns
      /\ {"po_line_id", "amendment_version"} \subseteq FilledOf(d) \ JsonColumns
      /\ {"po_line_id", "amendment_version"} \in KeysOf(d)
  BY DEF RequiredColumns, MasterColumns, OrderColumns, NumberColumns, IntegerColumns, FilledOf,
         KeysOf, JsonColumns, TableOf, MasterTables, PlanningTables, OrderTables, Table
<1>3. \A m \in S : /\ Version(m, "amendment_version") \in Int
                   /\ Version(m, "amendment_version") # None
                   /\ Version(m, "po_line_id") = line /\ line # None
  BY <1>1, <1>2, StoredRows, KeptRows DEF Filled, Version, VersionsOf
<1>4. \A m, q \in S :
        Version(m, "amendment_version") = Version(q, "amendment_version") => m = q
  <2> SUFFICES ASSUME NEW m \in S, NEW q \in S,
                      Version(m, "amendment_version") = Version(q, "amendment_version")
               PROVE  m = q
    OBVIOUS
  <2>1. Agree(File(d)[m], File(d)[q], {"po_line_id", "amendment_version"})
    BY <1>3 DEF Agree, Version, Cell
  <2> QED
    BY <1>1, <1>2, <2>1, StoredRows DEF Distinct
<1>5. \A m \in S \ {n} : Version(m, "amendment_version") < Version(n, "amendment_version")
  <2> TAKE m \in S \ {n}
  <2>1. ~ Version(m, "amendment_version") > Version(n, "amendment_version")
    OBVIOUS
  <2>2. Version(m, "amendment_version") # Version(n, "amendment_version")
    BY <1>4
  <2> QED
    BY <1>3, <2>1, <2>2
<1> DEFINE Latest(k) == \A m \in S \ {k} :
      \/ Version(m, "amendment_version") < Version(k, "amendment_version")
      \/ Version(m, "amendment_version") = Version(k, "amendment_version") /\ k < m
<1>6. Latest(n)
  BY <1>5
<1>7. \A k \in S : Latest(k) => k = n
  <2> SUFFICES ASSUME NEW k \in S, Latest(k), k # n PROVE FALSE
    OBVIOUS
  <2>1. Version(k, "amendment_version") < Version(n, "amendment_version")
    BY <1>5
  <2>2. \/ Version(n, "amendment_version") < Version(k, "amendment_version")
        \/ Version(n, "amendment_version") = Version(k, "amendment_version")
    OBVIOUS
  <2> QED
    BY <1>3, <2>1, <2>2
<1>8. LatestVersion(line) = CHOOSE k \in S : Latest(k)
  BY DEF LatestVersion
<1> QED
  BY <1>6, <1>7, <1>8

\* The schedules of a line add up to the version with the greatest amendment.
LEMMA SchedulesAddUp ==
  ASSUME BInv, stage \in Committed, NEW s \in stored["delivery_schedules"],
         NEW line, line = Schedule(s, "po_line_id"),
         NEW n \in StoredWith("purchase_order_line_versions", "po_line_id", line),
         \A m \in StoredWith("purchase_order_line_versions", "po_line_id", line) :
           ~ Version(m, "amendment_version") > Version(n, "amendment_version")
  PROVE  ColumnSum(File("delivery_schedules"), "scheduled_quantity",
                   StoredWith("delivery_schedules", "po_line_id", line))
           = Version(n, "base_quantity")
<1>1. {"delivery_schedules", "purchase_order_line_versions"} \subseteq OperationalDatasets
  BY DEF OperationalDatasets, LoadOrder
<1>2. /\ StoredWith("purchase_order_line_versions", "po_line_id", line) = VersionsOf(line)
      /\ StoredWith("delivery_schedules", "po_line_id", line)
           = {m \in kept["delivery_schedules"] : Schedule(m, "po_line_id") = line}
      /\ s \in kept["delivery_schedules"]
  BY <1>1, StoredRows DEF VersionsOf, Version, Schedule
<1>3. n = LatestVersion(line)
  BY <1>2, LatestGreatest
<1>4. SchedulesReconcile
  BY <1>1, KeptRows DEF CrossClean, CrossRejections
<1>5. ScheduledTotal(line) = Version(n, "base_quantity")
  BY <1>2, <1>3, <1>4 DEF SchedulesReconcile
<1> QED
  BY <1>2, <1>5 DEF ScheduledTotal

\* The allocations of a receipt add up to what it brought or took back.
LEMMA AllocationsAddUp ==
  ASSUME BInv, stage \in Committed, NEW r \in stored["receipt_transactions"]
  PROVE  ColumnSum(File("receipt_allocations"), "allocated_base_quantity",
             StoredWith("receipt_allocations", "receipt_transaction_id", Receipt(r, "id")))
           \in {Receipt(r, "base_quantity"), -Receipt(r, "base_quantity")}
<1>1. {"receipt_allocations", "receipt_transactions"} \subseteq OperationalDatasets
  BY DEF OperationalDatasets, LoadOrder
<1>2. /\ r \in kept["receipt_transactions"]
      /\ StoredWith("receipt_allocations", "receipt_transaction_id", Receipt(r, "id"))
           = AllocationsOf(Receipt(r, "id"))
  BY <1>1, StoredRows DEF AllocationsOf, Allocation
<1>3. r \in Receipts
  BY <1>1, <1>2, StoredRows, Identified DEF Receipts, Receipt
<1>4. ReceiptsAllocated
  BY <1>1, KeptRows DEF CrossClean, CrossRejections
<1> QED
  BY <1>2, <1>3, <1>4 DEF ReceiptsAllocated, Absolute

LEMMA OneSupplier ==
  ASSUME BInv, stage \in Committed, NEW order
  PROVE  Cardinality({Cell("purchase_order_versions", n, "supplier_id") :
           n \in StoredWith("purchase_order_versions", "purchase_order_id", order)}) <= 1
<1> PICK S : S = {Cell("purchase_order_versions", n, "supplier_id") :
                    n \in StoredWith("purchase_order_versions", "purchase_order_id", order)}
  OBVIOUS
<1>1. "purchase_order_versions" \in OperationalDatasets
  BY DEF OperationalDatasets, LoadOrder
<1>2. OneSupplierPerPo
  BY <1>1, KeptRows DEF CrossClean, CrossRejections
<1>3. \A x, y \in S : x = y
  BY <1>1, <1>2, StoredRows DEF OneSupplierPerPo
<1>4. CASE S = {}
  BY <1>4, FS_EmptySet
<1>5. CASE S # {}
  <2>1. PICK x : S = {x}
    BY <1>3, <1>5
  <2> QED
    BY <2>1, FS_Singleton
<1> QED
  BY <1>4, <1>5

LEMMA ObservedColumnsFilled ==
  ASSUME NEW d \in DOMAIN ObservedColumns, NEW c \in ObservedColumns[d]
  PROVE  /\ d \in OperationalDatasets
         /\ c \in FilledOf(d) \ JsonColumns
         /\ c \in RequiredColumns(d) \cap NumberColumns
<1>1. d \in OperationalDatasets /\ c \in NumberColumns \ JsonColumns
  BY DEF ObservedColumns, OperationalDatasets, LoadOrder, NumberColumns, TimestampColumns,
         JsonColumns
<1>2. c \in RequiredColumns(d)
  BY DEF ObservedColumns, RequiredColumns, MasterColumns, OrderColumns, SupplyColumns
<1>3. c \in FilledOf(d)
  BY DEF ObservedColumns, FilledOf, TableOf, MasterTables, PlanningTables, OrderTables,
         SupplyTables, Table
<1> QED
  BY <1>1, <1>2, <1>3

LEMMA NothingLater ==
  ASSUME BInv, stage \in Committed, NEW d \in DOMAIN ObservedColumns, NEW n \in stored[d],
         NEW c \in ObservedColumns[d]
  PROVE  Cell(d, n, c) <= AsOf
<1>1. /\ n \in kept[d] /\ CrossClean
      /\ Cell(d, n, c) \in Int /\ Cell(d, n, c) # None
  BY ObservedColumnsFilled, StoredRows, KeptRows DEF Filled
<1>2. AsOf \in Int
  <2>1. Declared # {}
    BY ObservedColumnsFilled, KeptRows
  <2>2. PICK e \in Declared : AsOf = manifest[e].asof
    BY <2>1 DEF AsOf
  <2>3. AsOf \in Int \cup {None, Junk}
    BY <2>2, NumbersAssumption DEF BInv, InspectionInv, Entries
  <2> QED
    BY <1>1, <2>3 DEF CrossClean, CrossRaises
<1>3. ~ Cell(d, n, c) > AsOf
  <2> SUFFICES ASSUME Cell(d, n, c) > AsOf PROVE FALSE
    OBVIOUS
  <2>1. DatasetBlocking(d, n, "POST_AS_OF_OPERATIONAL_TIMESTAMP", c) \in AfterAsOf
    BY <1>1 DEF AfterAsOf
  <2> QED
    BY <1>1, <2>1 DEF CrossClean, CrossRejections
<1> QED
  BY <1>1, <1>2, <1>3

LEMMA Reconciled ==
  ASSUME BInv
  PROVE  CommittedReconciles
<1> SUFFICES ASSUME stage \in Committed
             PROVE  CommittedReconciles
  BY DEF CommittedReconciles
<1>1. ASSUME NEW s \in stored["delivery_schedules"], NEW line, line = Schedule(s, "po_line_id"),
             NEW n \in StoredWith("purchase_order_line_versions", "po_line_id", line)
      PROVE  \/ \E m \in StoredWith("purchase_order_line_versions", "po_line_id", line) :
                  Version(m, "amendment_version") > Version(n, "amendment_version")
             \/ ColumnSum(File("delivery_schedules"), "scheduled_quantity",
                          StoredWith("delivery_schedules", "po_line_id", line))
                  = Version(n, "base_quantity")
  BY <1>1, SchedulesAddUp
<1>2. \A n \in stored["purchase_order_line_versions"] :
        Version(n, "base_quantity") * Version(n, "unit_price_aud") - Version(n, "line_value_aud")
          \in -Cent .. Cent
  <2>1. "purchase_order_line_versions" \in OperationalDatasets
    BY DEF OperationalDatasets, LoadOrder
  <2> QED
    BY <2>1, StoredRows, Amounts
<1> QED
  BY <1>1, <1>2, AllocationsAddUp, OneSupplier, NothingLater DEF CommittedReconciles

\* What the validation computed holds of the committed tables, for every bundle.
THEOREM CommittedAddsUp ==
  Spec => []CommittedReconciles
BY BundleInvariance, Reconciled, PTL
------------------------------------------------------------------------------
(* Published bundles *)

CheckedCell ==
  << "id", "source_system_id", "pipeline_run_id", "source_load_id", "supplier_id",
     "product_id", "site_id", "owner_user_id", "rule_version_id", "purchase_order_id",
     "po_line_id", "delivery_schedule_id", "receipt_transaction_id",
     "corrects_receipt_id", "corrects_snapshot_id", "corrects_requirement_id",
     "supersedes_commitment_id", "order_date", "need_date", "requested_date",
     "confirmed_date", "expected_date", "committed_date", "required_date",
     "window_start", "window_end", "as_of_date", "started_at", "finished_at",
     "extracted_at", "received_at", "active_from", "active_to", "effective_from",
     "effective_to", "approved_at", "effective_at", "valid_from", "valid_to",
     "observed_at", "posted_at", "snapshot_at", "safety_stock_quantity",
     "conversion_factor", "ordered_quantity", "base_quantity", "scheduled_quantity",
     "committed_quantity", "source_quantity", "allocated_base_quantity",
     "on_hand_quantity", "allocated_quantity", "available_quantity",
     "in_transit_quantity", "required_quantity", "otif_rate", "unit_price_aud",
     "line_value_aud", "row_count", "seed", "precedence", "handling_precision",
     "amendment_version", "schedule_version", "allocation_sequence", "snapshot_version",
     "requirement_version", "numerator_count", "denominator_count", "is_active",
     "is_publication_eligible", "sample_sufficient", "business_hours", "holiday_set",
     "order_status", "line_status", "actor_type", "status", "transaction_type",
     "allocation_bucket" >>

LEMMA CheckedCellsFinite ==
  IsFiniteSet(CheckedCells)
<1> PICK T : T = {CheckedCell[i] : i \in 1 .. 80}
  OBVIOUS
<1>1. PICK f : f = [i \in 1 .. 80 |-> CheckedCell[i]]
  OBVIOUS
<1>2. f \in Surjection(1 .. 80, T)
  BY <1>1 DEF Surjection
<1>3. IsFiniteSet(T)
  <2>1. IsFiniteSet(1 .. 80)
    BY NumbersFinite
  <2> QED
    BY <1>2, <2>1, FS_Surjection
<1>4. CheckedCells \subseteq T
  BY DEF CheckedCells, CheckedCell, TypedColumns, NumberColumns, AllowedValues, UuidColumns, DateColumns,
         TimestampColumns, DecimalColumns, IntegerColumns, BooleanColumns, JsonColumns
<1> QED
  BY <1>3, <1>4, FS_Subset
\* Without blocking rejections the rejected rows are counted by row and cell.
LEMMA RejectedFinite ==
  ASSUME BInv, stage \in {"load"} \cup Committed, NEW d \in OperationalDatasets
  PROVE  IsFiniteSet(RejectedOf(d))
<1>1. Delivered(d) /\ Len(File(d)) \in Nat /\ DOMAIN File(d) = 1 .. Len(File(d))
  BY FileRows DEF BInv, InspectionInv, LoadInv, Committed, Delivered
<1>2. \A r \in RejectedOf(d) : \E n \in 1 .. Len(File(d)), c \in CheckedCells :
        r = Rejection(d, n, "INVALID_FIELD_VALUE", "record-rejectable", c)
  <2> TAKE r \in RejectedOf(d)
  <2>1. r \in rejections /\ r.dataset = d /\ r.row # 0
    BY DEF RejectedOf
  <2>2. r.class \notin {"bundle-blocking", "dataset-blocking"}
    BY <2>1 DEF BInv, LoadInv, HasBlocking
  <2>3. PICK e \in OperationalDatasets :
          \E n \in DOMAIN File(e), c \in CheckedCells :
            r = Rejection(e, n, "INVALID_FIELD_VALUE", "record-rejectable", c)
    BY <2>1, <2>2 DEF BInv, ParseInv, Located
  <2>4. e = d
    BY <2>1, <2>3 DEF Rejection
  <2> QED
    BY <1>1, <2>3, <2>4
<1> PICK Cells : Cells = (1 .. Len(File(d))) \X CheckedCells
  OBVIOUS
<1>3. IsFiniteSet(Cells)
  <2>1. IsFiniteSet(1 .. Len(File(d)))
    BY <1>1, NumbersFinite
  <2> QED
    BY <2>1, CheckedCellsFinite, FS_Product
<1>4. PICK f : f = [r \in RejectedOf(d) |-> <<r.row, r.field>>]
  OBVIOUS
<1>5. f \in Injection(RejectedOf(d), Cells)
  <2>1. \A r \in RejectedOf(d) : f[r] \in Cells
    BY <1>2, <1>4 DEF Rejection
  <2>2. \A r, q \in RejectedOf(d) : f[r] = f[q] => r = q
    BY <1>2, <1>4 DEF Rejection
  <2> QED
    BY <1>4, <2>1, <2>2 DEF Injection, IsInjective
<1> QED
  BY <1>3, <1>5, FS_Injection

\* A row that leaves no rejection behind is kept.
LEMMA CleanRow ==
  ASSUME NEW d, NEW n, RowRejections(d, n) = {}
  PROVE  Parses(d, n)
<1>1. Missing(d, n) = {} /\ Extra(d, n) = {}
  BY DEF RowRejections
<1>2. Invalid(d, n) = {}
  BY <1>1 DEF RowRejections
<1> QED
  BY <1>1, <1>2 DEF Parses, Complete

LEMMA PublishedWhole ==
  ASSUME BInv
  PROVE  PublishedIsWhole
<1> SUFFICES ASSUME stage = "published", NEW d \in OperationalDatasets
             PROVE  /\ d \in Declared
                    /\ stored[d] = DOMAIN File(d)
                    /\ Cardinality(stored[d])
                         = manifest[d].count - bundle.files[manifest[d].file].blanks
                    /\ bundle.files[manifest[d].file].hash = manifest[d].hash
  BY DEF PublishedIsWhole
<1>1. /\ Delivered(d) /\ stored[d] = kept[d] /\ Difference(d) = 0
      /\ Len(File(d)) \in Nat /\ DOMAIN File(d) = 1 .. Len(File(d))
  BY FileRows DEF BInv, InspectionInv, LoadInv, Committed, Delivered
<1>2. Parsed(d)
  <2>1. PICK i \in 1 .. 25 : d = LoadOrder[i]
    BY Ordered
  <2> QED
    BY <1>1, <2>1, EachOnce DEF BInv, ParseInv, Reached, Delivered
<1>3. Cardinality(kept[d]) \in Nat
  <2>1. kept[d] \in SUBSET (1 .. Len(File(d)))
    BY <1>1, <1>2 DEF Parsed
  <2> QED
    BY <1>1, <2>1, NumbersFinite, FS_Subset, FS_CardinalityType
<1>4. RejectedOf(d) = {}
  <2>1. IsFiniteSet(RejectedOf(d))
    BY RejectedFinite DEF Committed
  <2>2. Cardinality(RejectedOf(d)) \in Nat
    BY <2>1, FS_CardinalityType
  <2>3. Cardinality(RejectedOf(d)) = 0
    BY <1>1, <1>3, <2>2 DEF Difference, Absolute
  <2> QED
    BY <2>1, <2>3, FS_EmptySet
<1>5. \A n \in 1 .. Len(File(d)) : RowRejections(d, n) = {}
  <2> SUFFICES ASSUME NEW n \in 1 .. Len(File(d)), NEW r \in RowRejections(d, n)
               PROVE  FALSE
    OBVIOUS
  <2>1. r \in rejections
    BY <1>1, <1>2 DEF Parsed
  <2>2. r.dataset = d /\ r.row = n
    BY DEF RowRejections, DatasetBlocking, Rejection
  <2> QED
    BY <1>4, <2>1, <2>2 DEF RejectedOf
<1>6. stored[d] = DOMAIN File(d)
  BY <1>1, <1>2, <1>5, CleanRow DEF Parsed
<1>7. Cardinality(stored[d]) = Len(File(d))
  BY <1>1, <1>6, NumbersFinite
<1>8. manifest[d].count = Len(File(d)) + bundle.files[manifest[d].file].blanks
  BY <1>1 DEF Delivered, CountDataRows, File
<1>9. bundle.files[manifest[d].file].blanks \in Nat
  BY <1>1, BundlesAssumption DEF Delivered, HasFile, BInv, InspectionInv
<1> QED
  BY <1>1, <1>6, <1>7, <1>8, <1>9 DEF Delivered

\* A published bundle is in the tables to the last row of its files, which are
\* what the manifest says up to blank lines, for every bundle.
THEOREM PublicationIsWhole ==
  Spec => []PublishedIsWhole
BY BundleInvariance, PublishedWhole, PTL
====
