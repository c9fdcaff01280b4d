--------------------------- MODULE IngestionProofs ---------------------------
(***************************************************************************)
(* Safety of the ingestion pipeline for every set of attempts, bundles,    *)
(* datasets and rows, and any number of outages.                           *)
(***************************************************************************)
EXTENDS IngestionInvariant, FiniteSetTheorems, TLAPS

LEMMA NoRowFacts ==
  /\ NoRow \in RowType
  /\ NoRow.content = None
  /\ NoRowsAnywhere \in RowsType
  /\ \A r \in RowType : r # NoRow => r.content \in Contents /\ r.load \in Attempts
BY DEF NoRow, RowType, NoRowsAnywhere, RowsType

LEMMA NewTxFacts ==
  /\ NewTx \in TxType
  /\ NewTx.current = {}
  /\ NewTx.conflicts = 0 /\ NewTx.at = 1 /\ NewTx.pos = 1
  /\ \A d \in Datasets, i \in Ids : NewTx.new[d][i] = NoRow
<1>1. NewTx.new = NoRowsAnywhere /\ NewTx.current = {}
      /\ NewTx.conflicts = 0 /\ NewTx.at = 1 /\ NewTx.pos = 1
  BY DEF NewTx
<1>2. NewTx \in TxType
  BY NoRowFacts DEF NewTx, TxType
<1> QED
  BY <1>1, <1>2 DEF NoRowsAnywhere

\* A row of the tables, or of an open transaction, that is there has a content.
LEMMA VisibleType ==
  ASSUME TypeOK, NEW a \in Attempts, NEW d \in Datasets, NEW i \in Ids
  PROVE  /\ tx[a] \in TxType /\ tx[a].new[d][i] \in RowType /\ rows[d][i] \in RowType
         /\ Visible(a, d, i) \in RowType
         /\ Visible(a, d, i) # NoRow => Visible(a, d, i).content \in Contents
<1>1. tx[a] \in TxType /\ rows \in RowsType
  BY DEF TypeOK
<1>2. tx[a].new \in RowsType
  BY <1>1 DEF TxType
<1>3. tx[a].new[d][i] \in RowType /\ rows[d][i] \in RowType
  BY <1>1, <1>2 DEF RowsType
<1> QED
  BY <1>1, <1>3, NoRowFacts DEF Visible

LEMMA SequenceElements ==
  ASSUME NEW S, NEW q \in Seq(S)
  PROVE  Len(q) \in Nat /\ DOMAIN q = 1 .. Len(q) /\ \A n \in 1 .. Len(q) : q[n] \in S
OBVIOUS

\* The records of a bundle.
LEMMA RecordType ==
  ASSUME NEW b \in Bundles, NEW d \in Datasets
  PROVE  /\ Len(b.files[d]) \in Nat
         /\ \A n \in 1 .. Len(b.files[d]) :
              b.files[d][n].id \in Ids /\ b.files[d][n].content \in Contents
         /\ DOMAIN b.files[d] = 1 .. Len(b.files[d])
<1>1. b \in BundleType
  BY PipelineAssumption
<1>2. b.files[d] \in Seq([id: Ids, content: Contents])
  BY <1>1 DEF BundleType
<1>3. /\ Len(b.files[d]) \in Nat /\ DOMAIN b.files[d] = 1 .. Len(b.files[d])
      /\ \A n \in 1 .. Len(b.files[d]) : b.files[d][n] \in [id: Ids, content: Contents]
  BY <1>2, SequenceElements, Zenon
<1> QED
  BY <1>3

------------------------------------------------------------------------------
(* Attempts do not disturb each other *)

RowsGrow == \A d \in Datasets, i \in Ids : rows[d][i] # NoRow => rows'[d][i] = rows[d][i]

PubsGrow == \A r \in Attempts : pubs[r] # "none" => pubs'[r] # "none"

SameFor(b) ==
  /\ pc'[b] = pc[b] /\ tx'[b] = tx[b] /\ bundle'[b] = bundle[b]
  /\ runs'[b] = runs[b] /\ persisted'[b] = persisted[b]

\* Growing tables leave visible what an attempt has seen.
LEMMA VisibleGrows ==
  ASSUME TypeOK, NEW b \in Attempts, RowsGrow,
         \A d \in Datasets, i \in Ids : tx[b].new[d][i] # NoRow => tx'[b].new[d][i] = tx[b].new[d][i],
         \A d \in Datasets, i \in Ids :
           tx[b].new[d][i] = NoRow /\ tx'[b].new[d][i] # NoRow => rows[d][i] = NoRow
  PROVE  \A d \in Datasets, i \in Ids :
           Visible(b, d, i) # NoRow => Visible(b, d, i)' = Visible(b, d, i)
BY DEF Visible, RowsGrow

LEMMA OthersKept ==
  ASSUME IInv, NEW b \in Attempts, SameFor(b), RowsGrow, PubsGrow,
         OwnInserts(b)', LeftNothing(b) => LeftNothing(b)'
  PROVE  AttemptInv(b)'
<1>0. TypeOK /\ RunFollows(b) /\ Validated(b) /\ TxFollows(b)
  BY DEF IInv, AttemptInv
<1>1. \A d \in Datasets, i \in Ids :
        Visible(b, d, i) # NoRow => Visible(b, d, i)' = Visible(b, d, i)
  BY <1>0, VisibleGrows DEF SameFor
<1>2. RunFollows(b)'
  BY <1>0 DEF RunFollows, SameFor
<1>3. Validated(b)'
  BY <1>0 DEF Validated, SameFor, HasRejections
<1>4. ASSUME pc'[b] = "inserting"
      PROVE  ~ Loaded(b)' /\ SeenIsVisible(b)'
  <2>1. pc[b] = "inserting" /\ ~ Loaded(b) /\ SeenIsVisible(b)
    BY <1>0, <1>4 DEF SameFor, TxFollows
  <2>2. ~ Loaded(b)' /\ Dataset(b)' = Dataset(b) /\ Dataset(b) \in Datasets
    <3>1. tx[b] \in TxType /\ Len(LoadOrder) \in Nat /\ LoadOrder \in Seq(Datasets)
      BY <1>0, PipelineAssumption DEF TypeOK
    <3>2. tx[b].at \in Nat \ {0}
      BY <3>1 DEF TxType
    <3>3. tx[b].at \in 1 .. Len(LoadOrder)
      BY <2>1, <3>1, <3>2 DEF Loaded
    <3> QED
      BY <2>1, <3>1, <3>3 DEF SameFor, Loaded, Dataset
  <2>3. \A i \in Ids : tx[b].seen[i] # NoRow => Visible(b, Dataset(b), i) # NoRow
    BY <2>1 DEF SeenIsVisible
  <2> QED
    BY <1>1, <2>1, <2>2, <2>3 DEF SeenIsVisible, SameFor
<1>5. ASSUME pc'[b] \in InTransaction, tx'[b].conflicts = 0
      PROVE  LoadedIsVisible(b)'
  <2>1. pc[b] \in InTransaction /\ LoadedIsVisible(b)
    BY <1>0, <1>5 DEF SameFor, TxFollows
  <2>2. bundle[b] \in Bundles
    BY <1>0, <2>1 DEF TypeOK, InTransaction
  <2>3. SUFFICES ASSUME NEW k \in 1 .. Len(LoadOrder),
                        NEW n \in 1 .. Len(bundle[b].files[LoadOrder[k]]),
                        RecordVisible(b, LoadOrder[k], n)
                 PROVE  RecordVisible(b, LoadOrder[k], n)'
    BY <2>1 DEF LoadedIsVisible, SameFor
  <2>4. LoadOrder[k] \in Datasets
    BY PipelineAssumption
  <2>5. /\ bundle[b].files[LoadOrder[k]][n].id \in Ids
        /\ bundle[b].files[LoadOrder[k]][n].content \in Contents
    BY <2>2, <2>4, RecordType
  <2>6. Visible(b, LoadOrder[k], bundle[b].files[LoadOrder[k]][n].id) # NoRow
    BY <2>3, <2>5, NoRowFacts, PipelineAssumption DEF RecordVisible
  <2> QED
    BY <1>1, <2>3, <2>4, <2>5, <2>6 DEF RecordVisible, SameFor
<1>6. TxFollows(b)'
  <2>1. tx[b].current \subseteq Attempts
    BY <1>0 DEF TypeOK, TxType
  <2>2. \A r \in tx'[b].current : pubs'[r] # "none"
    BY <1>0, <2>1 DEF TxFollows, SameFor, PubsGrow
  <2> QED
    BY <1>0, <1>4, <1>5, <2>2 DEF TxFollows, SameFor, Loaded
<1> QED
  BY <1>2, <1>3, <1>6 DEF AttemptInv

------------------------------------------------------------------------------
(* Steps that commit nothing but the control rows of their own run *)

\* What an attempt may change while the tables stay as they are.
LEMMA QuietStep ==
  ASSUME IInv, NEW a \in Attempts, TypeOK',
         UNCHANGED <<rows, loads, recon, pubs>>,
         \A b \in Attempts \ {a} : SameFor(b),
         pubs[a] # "none" => bundle'[a] = bundle[a],
         AttemptInv(a)', ExclusiveInserts',
         runs'[a].status \in {"success", "failed"} /\ HasRejections(bundle'[a])
           => persisted'[a] >= 1,
         LostAcks \/ (runs'[a].reason \in Reasons \ {"reconciliation_failed"} => LeftNothing(a))
  PROVE  IInv'
<1>0. TablesInv /\ \A b \in Attempts : AttemptInv(b)
  BY DEF IInv
<1>1. \A b \in Attempts : LeftNothing(b)' <=> LeftNothing(b)
  BY DEF LeftNothing
<1>2. ASSUME NEW b \in Attempts \ {a} PROVE AttemptInv(b)'
  <2>1. OwnInserts(b)'
    BY <1>0 DEF SameFor, OwnInserts, AttemptInv
  <2> QED
    BY <1>1, <2>1, OthersKept DEF RowsGrow, PubsGrow
<1>3. RowsAreAccounted' /\ OneCurrentPublication'
  BY <1>0 DEF TablesInv, RowsAreAccounted, OneCurrentPublication
<1>4. PublishedBundleIsStored'
  <2>1. \A b \in Attempts : pubs[b] # "none" => bundle'[b] = bundle[b]
    BY DEF SameFor
  <2> QED
    BY <1>0, <2>1 DEF TablesInv, PublishedBundleIsStored, Stored
<1>5. RejectionsArePersisted'
  <2>1. \A b \in Attempts \ {a} :
          HasRejections(bundle'[b]) <=> HasRejections(bundle[b])
    BY DEF SameFor
  <2> QED
    BY <1>0, <2>1 DEF TablesInv, RejectionsArePersisted, SameFor, HasRejections
<1>6. LostAcks \/ FailedAttemptLeavesNothing'
  <2>1. RunFollows(a)'
    BY DEF AttemptInv
  <2>2. ASSUME ~ LostAcks, NEW b \in Attempts \ {a},
               runs'[b].status \in {"absent", "running"}
               \/ runs'[b].reason \in Reasons \ {"reconciliation_failed"}
        PROVE  LeftNothing(b)'
    BY <1>0, <1>1, <2>2 DEF TablesInv, FailedAttemptLeavesNothing, SameFor
  <2>3. ASSUME ~ LostAcks,
               runs'[a].status \in {"absent", "running"}
               \/ runs'[a].reason \in Reasons \ {"reconciliation_failed"}
        PROVE  LeftNothing(a)'
    BY <1>1, <2>1, <2>3 DEF RunFollows
  <2> QED
    BY <2>2, <2>3 DEF FailedAttemptLeavesNothing
<1> QED
  BY <1>2, <1>3, <1>4, <1>5, <1>6 DEF IInv, TablesInv

\* A step of an attempt that is in no transaction before and after it.
LEMMA ControlStep ==
  ASSUME IInv, NEW a \in Attempts, NEW place \in {"idle", "done", "gone"} \cup Working,
         place \notin InTransaction, pc[a] \notin InTransaction, Go(a, place),
         TypeOK', UNCHANGED <<rows, loads, recon, pubs, tx>>,
         \A b \in Attempts \ {a} : SameFor(b),
         pubs[a] # "none" => bundle'[a] = bundle[a],
         RunFollows(a)', Validated(a)',
         runs'[a].status \in {"success", "failed"} /\ HasRejections(bundle'[a])
           => persisted'[a] >= 1,
         LostAcks \/ (runs'[a].reason \in Reasons \ {"reconciliation_failed"} => LeftNothing(a))
  PROVE  IInv'
<1>0. TypeOK /\ TxFollows(a) /\ ExclusiveInserts
  BY DEF IInv, AttemptInv
<1>1. pc'[a] = place
  BY <1>0 DEF Go, TypeOK
<1>2. tx[a] = NewTx /\ tx'[a] = NewTx
  BY <1>0 DEF TxFollows
<1>3. OwnInserts(a)' /\ \A r \in tx'[a].current : pubs'[r] # "none"
  BY <1>2, NewTxFacts DEF OwnInserts
<1>4. TxFollows(a)'
  BY <1>1, <1>2, <1>3 DEF TxFollows, InTransaction
<1>5. ExclusiveInserts'
  BY <1>0 DEF ExclusiveInserts
<1> QED
  BY <1>3, <1>4, <1>5, QuietStep DEF AttemptInv

\* What a verdict and a persisting write.
LEMMA VerdictFacts ==
  ASSUME TypeOK, NEW a \in Attempts, NEW status \in {"running", "success", "failed"},
         NEW reason \in Reasons \cup {None}, Verdict(a, status, reason)
  PROVE  /\ runs' \in [Attempts -> [status: {"absent", "running", "success", "failed"},
                                    reason: Reasons \cup {None}]]
         /\ runs'[a].status = status /\ runs'[a].reason = reason
         /\ \A b \in Attempts \ {a} : runs'[b] = runs[b]
BY DEF TypeOK, Verdict

LEMMA PersistFacts ==
  ASSUME TypeOK, NEW a \in Attempts, Persist(a)
  PROVE  /\ persisted' \in [Attempts -> Nat]
         /\ HasRejections(bundle[a]) => persisted'[a] >= 1
         /\ \A b \in Attempts \ {a} : persisted'[b] = persisted[b]
<1>1. persisted \in [Attempts -> Nat] /\ persisted[a] \in Nat
  BY DEF TypeOK
<1>2. persisted' = [persisted EXCEPT ![a] =
                      IF HasRejections(bundle[a]) THEN persisted[a] + 1 ELSE persisted[a]]
  BY DEF Persist
<1> QED
  BY <1>1, <1>2

LEMMA GoFacts ==
  ASSUME TypeOK, NEW a \in Attempts, NEW place \in {"idle", "done", "gone"} \cup Working,
         Go(a, place)
  PROVE  /\ pc' \in [Attempts -> {"idle", "done", "gone"} \cup Working]
         /\ pc'[a] = place /\ \A b \in Attempts \ {a} : pc'[b] = pc[b]
BY DEF TypeOK, Go

LEMMA CreateIngestionRunStep ==
  ASSUME IInv, NEW a \in Attempts, CreateIngestionRun(a)
  PROVE  IInv'
<1>0. TypeOK /\ RunFollows(a) /\ pubs[a] = "none" /\ pc[a] = "idle"
  BY DEF IInv, AttemptInv, RunFollows, LeftNothing, CreateIngestionRun
<1>1. Verdict(a, "running", None) /\ Go(a, "created") /\ "created" \in Working
  BY DEF CreateIngestionRun, Working
<1>2. PICK b \in Bundles : bundle' = [bundle EXCEPT ![a] = b]
  BY DEF CreateIngestionRun
<1>3. /\ bundle' \in [Attempts -> Bundles \cup {None}] /\ bundle'[a] \in Bundles
      /\ \A r \in Attempts \ {a} : bundle'[r] = bundle[r]
  BY <1>0, <1>2 DEF TypeOK
<1>4. TypeOK'
  BY <1>0, <1>1, <1>3, VerdictFacts, GoFacts DEF TypeOK, CreateIngestionRun
<1>5. \A r \in Attempts \ {a} : SameFor(r)
  BY <1>0, <1>1, <1>3, VerdictFacts, GoFacts DEF SameFor, CreateIngestionRun
<1>6. pc'[a] = "created" /\ runs'[a].status = "running" /\ runs'[a].reason = None
  BY <1>0, <1>1, VerdictFacts, GoFacts
<1>7. LeftNothing(a)'
  BY <1>0 DEF RunFollows, LeftNothing, CreateIngestionRun
<1>8. RunFollows(a)' /\ Validated(a)'
  BY <1>6, <1>7 DEF RunFollows, Validated, Working
<1>9. LostAcks \/ (runs'[a].reason \in Reasons \ {"reconciliation_failed"} => LeftNothing(a))
  BY <1>0 DEF RunFollows
<1> QED
  BY <1>0, <1>1, <1>4, <1>5, <1>6, <1>8, <1>9, ControlStep DEF CreateIngestionRun, InTransaction

\* The transactions that decide a run after a validation or a failure.
LEMMA DecideStep ==
  ASSUME IInv, NEW a \in Attempts, NEW reason \in Reasons, pc[a] \in Working \ InTransaction,
         Verdict(a, "failed", reason), Go(a, "done"),
         \/ Persist(a)
         \/ persisted' = persisted /\ pc[a] # "created",
         UNCHANGED <<rows, loads, recon, pubs, dbUp, outages, bundle, tx>>
  PROVE  IInv'
<1>0. TypeOK /\ RunFollows(a) /\ Validated(a)
  BY DEF IInv, AttemptInv
<1>1. HasRejections(bundle[a]) => persisted'[a] >= 1
  BY <1>0, PersistFacts DEF Validated
<1>2. /\ persisted' \in [Attempts -> Nat]
      /\ \A b \in Attempts \ {a} : persisted'[b] = persisted[b]
  BY <1>0, PersistFacts DEF TypeOK
<1>3. pc'[a] = "done" /\ runs'[a].status = "failed" /\ runs'[a].reason = reason
  BY <1>0, VerdictFacts, GoFacts
<1>4. bundle[a] \in Bundles
  BY <1>0 DEF TypeOK, Working
<1>5. TypeOK'
  BY <1>0, <1>2, <1>4, VerdictFacts, GoFacts DEF TypeOK
<1>6. \A b \in Attempts \ {a} : SameFor(b)
  BY <1>0, <1>2, VerdictFacts, GoFacts DEF SameFor
<1>7. RunFollows(a)' /\ Validated(a)'
  BY <1>3 DEF RunFollows, Validated, Working, InTransaction
<1>8. LostAcks \/ LeftNothing(a)
  BY <1>0 DEF RunFollows
<1>9. HasRejections(bundle'[a]) => persisted'[a] >= 1
  BY <1>1
<1> QED
  BY <1>5, <1>6, <1>7, <1>8, <1>9, ControlStep DEF InTransaction

LEMMA BlockRunStep ==
  ASSUME IInv, NEW a \in Attempts, BlockRun(a)
  PROVE  IInv'
BY DecideStep DEF BlockRun, Reasons, Working, InTransaction

LEMMA FailConflictStep ==
  ASSUME IInv, NEW a \in Attempts, FailConflict(a)
  PROVE  IInv'
BY DecideStep DEF FailConflict, Reasons, Working, InTransaction

LEMMA FailDatabaseStep ==
  ASSUME IInv, NEW a \in Attempts, FailDatabase(a)
  PROVE  IInv'
BY DecideStep DEF FailDatabase, Reasons, Working, InTransaction

LEMMA PersistRejectionsStep ==
  ASSUME IInv, NEW a \in Attempts, PersistRejections(a)
  PROVE  IInv'
<1>0. TypeOK /\ RunFollows(a) /\ pc[a] = "created" /\ ~ bundle[a].blocking
  BY DEF IInv, AttemptInv, PersistRejections
<1>1. Persist(a) /\ Go(a, "validated") /\ "validated" \in Working
  BY DEF PersistRejections, Working
<1>2. TypeOK'
  BY <1>0, <1>1, PersistFacts, GoFacts DEF TypeOK, PersistRejections
<1>3. \A b \in Attempts \ {a} : SameFor(b)
  BY <1>0, <1>1, PersistFacts, GoFacts DEF SameFor, PersistRejections
<1>4. runs'[a].status = "running" /\ LeftNothing(a)
  BY <1>0 DEF RunFollows, Working, PersistRejections
<1>5. pc'[a] = "validated" /\ LeftNothing(a)'
  BY <1>0, <1>1, <1>4, GoFacts DEF LeftNothing, PersistRejections
<1>6. RunFollows(a)'
  BY <1>4, <1>5 DEF RunFollows
<1>7. Validated(a)'
  BY <1>0, <1>1, PersistFacts DEF Validated, HasRejections, PersistRejections
<1> QED
  BY <1>0, <1>1, <1>2, <1>3, <1>4, <1>6, <1>7, ControlStep DEF PersistRejections, InTransaction

LEMMA RaiseStep ==
  ASSUME IInv, NEW a \in Attempts, Raise(a)
  PROVE  IInv'
<1>0. TypeOK /\ RunFollows(a) /\ TablesInv
  BY DEF IInv, AttemptInv
<1>1. pc[a] \in Working \ InTransaction /\ Go(a, "gone")
  BY DEF Raise, Working, InTransaction
<1>2. pc'[a] = "gone"
  BY <1>0, <1>1, GoFacts
<1>3. bundle[a] \in Bundles
  BY <1>0, <1>1 DEF TypeOK, Working
<1>4. TypeOK'
  BY <1>0, <1>1, <1>3, GoFacts DEF TypeOK, Raise, committed
<1>5. \A b \in Attempts \ {a} : SameFor(b)
  BY <1>0, <1>1, GoFacts DEF SameFor, Raise, committed
<1>6. RunFollows(a)'
  BY <1>0, <1>2 DEF RunFollows, LeftNothing, Working, InTransaction, Raise, committed
<1>7. Validated(a)'
  BY <1>2 DEF Validated, Working, InTransaction
<1>8. /\ runs'[a].status \in {"success", "failed"} /\ HasRejections(bundle'[a])
           => persisted'[a] >= 1
      /\ LostAcks \/ (runs'[a].reason \in Reasons \ {"reconciliation_failed"} => LeftNothing(a))
  BY <1>0 DEF TablesInv, RejectionsArePersisted, FailedAttemptLeavesNothing, Raise, committed
<1> QED
  BY <1>1, <1>4, <1>5, <1>6, <1>7, <1>8, ControlStep DEF Raise, committed, InTransaction

\* A step within the load transaction, or into it.
LEMMA LoadingStep ==
  ASSUME IInv, NEW a \in Attempts, pc[a] \in InTransaction \cup {"validated"},
         NEW place \in InTransaction, Go(a, place), NEW t \in TxType, tx' = [tx EXCEPT ![a] = t],
         UNCHANGED <<committed, dbUp, outages, bundle>>,
         TxFollows(a)', OwnInserts(a)', ExclusiveInserts'
  PROVE  IInv'
<1>0. TypeOK /\ RunFollows(a) /\ Validated(a) /\ TablesInv
  BY DEF IInv, AttemptInv
<1>1. place \in Working /\ pc'[a] = place
  BY <1>0, GoFacts DEF Working
<1>2. tx' \in [Attempts -> TxType] /\ \A b \in Attempts \ {a} : tx'[b] = tx[b]
  BY <1>0 DEF TypeOK
<1>3. bundle[a] \in Bundles
  BY <1>0 DEF TypeOK, InTransaction
<1>4. TypeOK'
  BY <1>0, <1>1, <1>2, <1>3, GoFacts DEF TypeOK, committed
<1>5. \A b \in Attempts \ {a} : SameFor(b)
  BY <1>0, <1>1, <1>2, GoFacts DEF SameFor, committed
<1>6. pc[a] \in Working \ {"dberror", "created"} /\ pc'[a] \in Working \ {"dberror", "created"}
  BY <1>1 DEF Working, InTransaction
<1>7. RunFollows(a)'
  BY <1>0, <1>1, <1>6 DEF RunFollows, LeftNothing, Working, InTransaction, committed
<1>8. Validated(a)'
  BY <1>0, <1>6 DEF Validated, HasRejections, committed
<1>9. /\ runs'[a].status \in {"success", "failed"} /\ HasRejections(bundle'[a])
           => persisted'[a] >= 1
      /\ LostAcks \/ (runs'[a].reason \in Reasons \ {"reconciliation_failed"} => LeftNothing(a))
  BY <1>0 DEF TablesInv, RejectionsArePersisted, FailedAttemptLeavesNothing, committed
<1> QED
  BY <1>4, <1>5, <1>7, <1>8, <1>9, QuietStep DEF AttemptInv, committed

LEMMA BeginLoadStep ==
  ASSUME IInv, NEW a \in Attempts, BeginLoad(a)
  PROVE  IInv'
<1>0. TypeOK /\ TxFollows(a) /\ ExclusiveInserts /\ pc[a] = "validated"
  BY DEF IInv, AttemptInv, BeginLoad
<1>1. tx[a] = NewTx /\ tx'[a] = NewTx /\ tx' = [tx EXCEPT ![a] = NewTx]
  BY <1>0 DEF TxFollows, InTransaction, BeginLoad, TypeOK
<1>2. Go(a, "loading") /\ pc'[a] = "loading"
  BY <1>0, GoFacts DEF BeginLoad, Working, InTransaction
<1>3. OwnInserts(a)' /\ \A r \in tx'[a].current : pubs'[r] # "none"
  BY <1>1, NewTxFacts DEF OwnInserts
<1>4. LoadedIsVisible(a)'
  <2>1. \A n \in 1 .. Len(LoadOrder) : ~ (n < 1)
    BY PipelineAssumption
  <2>2. bundle'[a] = bundle[a] /\ bundle[a] \in Bundles
    BY <1>0 DEF BeginLoad, TypeOK
  <2>3. \A k \in 1 .. Len(LoadOrder) : \A n \in 1 .. Len(bundle'[a].files[LoadOrder[k]]) :
          ~ (k < 1) /\ ~ (n < 1)
    OBVIOUS
  <2> QED
    BY <1>1, <2>3, NewTxFacts DEF LoadedIsVisible
<1>5. TxFollows(a)'
  BY <1>1, <1>2, <1>3, <1>4 DEF TxFollows, InTransaction
<1>6. ExclusiveInserts'
  BY <1>0 DEF ExclusiveInserts, BeginLoad
<1> QED
  BY <1>0, <1>1, <1>2, <1>3, <1>5, <1>6, NewTxFacts, LoadingStep DEF BeginLoad, InTransaction

\* Leaving the load transaction without a commit, or dying outside it.
LEMMA EndStep ==
  ASSUME IInv, NEW a \in Attempts, pc[a] \in Working,
         NEW place \in {"conflict", "dberror", "gone"}, EndTx(a, place),
         place # "gone" => pc[a] \in InTransaction \cup {"validated"},
         UNCHANGED <<committed, dbUp, outages, bundle>>
  PROVE  IInv'
<1>0. TypeOK /\ RunFollows(a) /\ Validated(a) /\ ExclusiveInserts /\ TablesInv
  BY DEF IInv, AttemptInv
<1>1. Go(a, place) /\ pc'[a] = place /\ place \in {"gone"} \cup Working
  BY <1>0, GoFacts DEF EndTx, Working
<1>2. /\ tx' \in [Attempts -> TxType] /\ tx'[a] = NewTx
      /\ \A b \in Attempts \ {a} : tx'[b] = tx[b]
  BY <1>0, NewTxFacts DEF TypeOK, EndTx
<1>3. bundle[a] \in Bundles
  BY <1>0 DEF TypeOK, Working, InTransaction
<1>4. TypeOK'
  BY <1>0, <1>1, <1>2, <1>3, GoFacts DEF TypeOK, committed
<1>5. \A b \in Attempts \ {a} : SameFor(b)
  BY <1>0, <1>1, <1>2, GoFacts DEF SameFor, committed
<1>6. RunFollows(a)'
  BY <1>0, <1>1 DEF RunFollows, LeftNothing, Working, InTransaction, committed
<1>7. Validated(a)'
  BY <1>0, <1>1 DEF Validated, HasRejections, Working, InTransaction, committed
<1>8. OwnInserts(a)' /\ \A r \in tx'[a].current : pubs'[r] # "none"
  BY <1>2, NewTxFacts DEF OwnInserts
<1>9. TxFollows(a)'
  BY <1>1, <1>2, <1>8 DEF TxFollows, InTransaction
<1>10. ExclusiveInserts'
  BY <1>0, <1>2, NewTxFacts DEF ExclusiveInserts
<1>11. /\ runs'[a].status \in {"success", "failed"} /\ HasRejections(bundle'[a])
            => persisted'[a] >= 1
       /\ LostAcks \/ (runs'[a].reason \in Reasons \ {"reconciliation_failed"} => LeftNothing(a))
  BY <1>0 DEF TablesInv, RejectionsArePersisted, FailedAttemptLeavesNothing, committed
<1> QED
  BY <1>4, <1>5, <1>6, <1>7, <1>8, <1>9, <1>10, <1>11, QuietStep DEF AttemptInv, committed

LEMMA InsertFailsStep ==
  ASSUME IInv, NEW a \in Attempts, InsertFails(a)
  PROVE  IInv'
BY EndStep DEF InsertFails, Working, InTransaction

LEMMA RaiseConflictStep ==
  ASSUME IInv, NEW a \in Attempts, RaiseConflict(a)
  PROVE  IInv'
BY EndStep DEF RaiseConflict, Working, InTransaction

LEMMA PublicationFailsStep ==
  ASSUME IInv, NEW a \in Attempts, PublicationFails(a)
  PROVE  IInv'
BY EndStep DEF PublicationFails, Working, InTransaction

LEMMA StatementFailsStep ==
  ASSUME IInv, NEW a \in Attempts, StatementFails(a)
  PROVE  IInv'
BY EndStep DEF StatementFails, Working, InTransaction

LEMMA CrashStep ==
  ASSUME IInv, NEW a \in Attempts, Crash(a)
  PROVE  IInv'
BY EndStep DEF Crash

------------------------------------------------------------------------------
(* Inside the load transaction *)

\* A step that only replaces what the attempt has seen.
LEMMA SeenFacts ==
  ASSUME NEW t \in TxType, NEW seen \in [Ids -> RowType]
  PROVE  LET u == [t EXCEPT !.seen = seen]
         IN  /\ u \in TxType /\ u.seen = seen
             /\ u.new = t.new /\ u.at = t.at /\ u.pos = t.pos /\ u.accepted = t.accepted
             /\ u.conflicts = t.conflicts /\ u.current = t.current
BY DEF TxType

LEMMA CurrentFacts ==
  ASSUME NEW t \in TxType, NEW current \in SUBSET Attempts
  PROVE  LET u == [t EXCEPT !.current = current]
         IN  /\ u \in TxType /\ u.current = current
             /\ u.new = t.new /\ u.at = t.at /\ u.pos = t.pos /\ u.accepted = t.accepted
             /\ u.conflicts = t.conflicts /\ u.seen = t.seen
BY DEF TxType

\* The load is where it was, with the same inserts.
LEMMA SameLoad ==
  ASSUME IInv, NEW a \in Attempts, NEW t \in TxType, tx' = [tx EXCEPT ![a] = t],
         t.new = tx[a].new, t.at = tx[a].at, t.pos = tx[a].pos,
         UNCHANGED <<rows, bundle>>
  PROVE  /\ tx'[a] = t
         /\ \A d \in Datasets, i \in Ids : Visible(a, d, i)' = Visible(a, d, i)
         /\ Loaded(a)' <=> Loaded(a)
         /\ Dataset(a)' = Dataset(a)
         /\ LoadedIsVisible(a) /\ bundle[a] \in Bundles => LoadedIsVisible(a)'
         /\ OwnInserts(a)' /\ ExclusiveInserts'
<1>0. TypeOK /\ OwnInserts(a) /\ ExclusiveInserts
  BY DEF IInv, AttemptInv
<1>1. tx'[a] = t /\ \A b \in Attempts : tx'[b].new = tx[b].new
  BY <1>0 DEF TypeOK
<1>2. \A d \in Datasets, i \in Ids : Visible(a, d, i)' = Visible(a, d, i)
  BY <1>1 DEF Visible
<1>3. (Loaded(a)' <=> Loaded(a)) /\ Dataset(a)' = Dataset(a)
  BY <1>1 DEF Loaded, Dataset
<1>4. ASSUME LoadedIsVisible(a), bundle[a] \in Bundles
      PROVE  LoadedIsVisible(a)'
  <2>1. \A k \in 1 .. Len(LoadOrder) : LoadOrder[k] \in Datasets
    BY PipelineAssumption
  <2>2. \A k \in 1 .. Len(LoadOrder) : \A n \in 1 .. Len(bundle[a].files[LoadOrder[k]]) :
          RecordVisible(a, LoadOrder[k], n) => RecordVisible(a, LoadOrder[k], n)'
    BY <1>2, <1>4, <2>1, RecordType DEF RecordVisible
  <2> QED
    BY <1>1, <1>4, <2>2 DEF LoadedIsVisible
<1>5. OwnInserts(a)' /\ ExclusiveInserts'
  BY <1>0, <1>1 DEF OwnInserts, ExclusiveInserts
<1> QED
  BY <1>1, <1>2, <1>3, <1>4, <1>5

LEMMA DatasetType ==
  ASSUME TypeOK, NEW a \in Attempts, ~ Loaded(a)
  PROVE  /\ tx[a].at \in 1 .. Len(LoadOrder) /\ tx[a].pos \in Nat \ {0}
         /\ Dataset(a) \in Datasets
<1>1. tx[a] \in TxType /\ Len(LoadOrder) \in Nat /\ LoadOrder \in Seq(Datasets)
  BY PipelineAssumption DEF TypeOK
<1>2. tx[a].at \in Nat \ {0} /\ tx[a].pos \in Nat \ {0}
  BY <1>1 DEF TxType
<1>3. tx[a].at \in 1 .. Len(LoadOrder)
  BY <1>1, <1>2 DEF Loaded
<1> QED
  BY <1>1, <1>2, <1>3 DEF Dataset

LEMMA SelectBatchStep ==
  ASSUME IInv, NEW a \in Attempts, SelectBatch(a)
  PROVE  IInv'
<1> DEFINE seen == [i \in Ids |-> Visible(a, Dataset(a), i)]
           t == [tx[a] EXCEPT !.seen = seen]
<1>0. /\ TypeOK /\ TxFollows(a) /\ pc[a] = "loading" /\ ~ Loaded(a)
      /\ tx[a] \in TxType /\ bundle[a] \in Bundles
  BY DEF IInv, AttemptInv, SelectBatch, TypeOK
<1>1. Dataset(a) \in Datasets
  BY <1>0, DatasetType
<1>2. seen \in [Ids -> RowType]
  BY <1>0, <1>1, VisibleType
<1>3. tx' = [tx EXCEPT ![a] = t]
  BY DEF SelectBatch
<1>4. /\ t \in TxType /\ t.seen = seen /\ t.new = tx[a].new /\ t.at = tx[a].at
      /\ t.pos = tx[a].pos /\ t.conflicts = tx[a].conflicts /\ t.current = tx[a].current
  BY <1>0, <1>2, SeenFacts
<1> HIDE DEF t
<1>5. Go(a, "inserting") /\ pc'[a] = "inserting"
  BY <1>0, GoFacts DEF SelectBatch, Working, InTransaction
<1>6. UNCHANGED <<committed, dbUp, outages, bundle, rows, pubs>>
  BY DEF SelectBatch, committed
<1>7. /\ tx'[a] = t /\ ~ Loaded(a)' /\ Dataset(a)' = Dataset(a) /\ OwnInserts(a)'
      /\ ExclusiveInserts' /\ (LoadedIsVisible(a) => LoadedIsVisible(a)')
      /\ \A d \in Datasets, i \in Ids : Visible(a, d, i)' = Visible(a, d, i)
  BY <1>0, <1>3, <1>4, <1>6, SameLoad
<1>8. SeenIsVisible(a)'
  BY <1>1, <1>4, <1>7 DEF SeenIsVisible
<1>9. TxFollows(a)'
  BY <1>0, <1>4, <1>5, <1>6, <1>7, <1>8 DEF TxFollows, InTransaction
<1> QED
  BY <1>0, <1>3, <1>4, <1>5, <1>6, <1>7, <1>9, LoadingStep DEF InTransaction

\* The UPDATE of the pointer: what it finds was published.
LEMMA CurrentStep ==
  ASSUME IInv, NEW a \in Attempts, pc[a] \in {"loading", "superseding"},
         Loaded(a), tx[a].conflicts = 0, NEW current \in SUBSET Attempts,
         \A r \in current : pubs[r] # "none",
         tx' = [tx EXCEPT ![a].current = current],
         NEW place \in {"superseding", "publishing"}, Go(a, place),
         UNCHANGED <<committed, dbUp, outages, bundle>>
  PROVE  IInv'
<1> DEFINE t == [tx[a] EXCEPT !.current = current]
<1>0. TypeOK /\ TxFollows(a) /\ tx[a] \in TxType /\ bundle[a] \in Bundles
  BY DEF IInv, AttemptInv, TypeOK
<1>1. tx' = [tx EXCEPT ![a] = t]
  OBVIOUS
<1>2. /\ t \in TxType /\ t.current = current /\ t.new = tx[a].new /\ t.at = tx[a].at
      /\ t.pos = tx[a].pos /\ t.conflicts = tx[a].conflicts
  BY <1>0, CurrentFacts
<1> HIDE DEF t
<1>3. place \in InTransaction /\ pc'[a] = place
  BY <1>0, GoFacts DEF Working, InTransaction
<1>4. UNCHANGED <<rows, pubs>>
  BY DEF committed
<1>5. /\ tx'[a] = t /\ Loaded(a)' /\ OwnInserts(a)' /\ ExclusiveInserts'
      /\ (LoadedIsVisible(a) => LoadedIsVisible(a)')
  BY <1>0, <1>1, <1>2, <1>4, SameLoad
<1>6. TxFollows(a)'
  BY <1>0, <1>2, <1>3, <1>4, <1>5 DEF TxFollows, InTransaction
<1> QED
  BY <1>1, <1>2, <1>3, <1>5, <1>6, LoadingStep DEF InTransaction

LEMMA FindCurrentStep ==
  ASSUME IInv, NEW a \in Attempts, FindCurrent(a)
  PROVE  IInv'
<1> DEFINE current == {r \in Attempts : pubs[r] = "current"}
<1>1. current \in SUBSET Attempts /\ \A r \in current : pubs[r] # "none"
  OBVIOUS
<1> QED
  BY <1>1, CurrentStep DEF FindCurrent

LEMMA SupersedeStep ==
  ASSUME IInv, NEW a \in Attempts, Supersede(a)
  PROVE  IInv'
<1> DEFINE current == {r \in tx[a].current : pubs[r] = "current"}
<1>1. tx[a].current \in SUBSET Attempts
  BY DEF IInv, TypeOK, TxType
<1>2. current \in SUBSET Attempts /\ \A r \in current : pubs[r] # "none"
  BY <1>1
<1>3. Loaded(a) /\ tx[a].conflicts = 0
  BY DEF IInv, AttemptInv, TxFollows, Supersede
<1> QED
  BY <1>2, <1>3, CurrentStep DEF Supersede

\* The records of the current batch.
LEMMA BatchFacts ==
  ASSUME TypeOK, NEW a \in Attempts, bundle[a] \in Bundles, ~ Loaded(a)
  PROVE  /\ Dataset(a) \in Datasets /\ Len(File(a)) \in Nat
         /\ Batch(a) \subseteq 1 .. Len(File(a))
         /\ Payload(a) \subseteq Batch(a) /\ Existing(a) \subseteq Batch(a)
         /\ \A n \in Batch(a) : File(a)[n].id \in Ids /\ File(a)[n].content \in Contents
         /\ PayloadIds(a) \subseteq Ids
         /\ Cardinality(Payload(a) \cup Existing(a)) \in Nat
         /\ Cardinality(Conflicts(a)) \in Nat
         /\ Cardinality(Conflicts(a)) = 0 => Batch(a) = Payload(a) \cup Existing(a)
<1>1. Dataset(a) \in Datasets
  BY DatasetType
<1>2. /\ Len(File(a)) \in Nat
      /\ \A n \in 1 .. Len(File(a)) : File(a)[n].id \in Ids /\ File(a)[n].content \in Contents
  BY <1>1, RecordType DEF File
<1>3. Batch(a) \subseteq 1 .. Len(File(a))
  BY DEF Batch
<1>4. Payload(a) \subseteq Batch(a) /\ Existing(a) \subseteq Batch(a) /\ Conflicts(a) \subseteq Batch(a)
  BY DEF Payload, Existing, Conflicts
<1>5. IsFiniteSet(Batch(a))
  <2>1. IsFiniteSet(1 .. Len(File(a)))
    BY <1>2, FS_Interval
  <2> QED
    BY <1>3, <2>1, FS_Subset
<1>6. IsFiniteSet(Payload(a) \cup Existing(a)) /\ IsFiniteSet(Conflicts(a))
  BY <1>4, <1>5, FS_Subset
<1>7. Cardinality(Conflicts(a)) = 0 => Conflicts(a) = {}
  BY <1>6, FS_EmptySet
<1>8. Cardinality(Conflicts(a)) = 0 => Batch(a) = Payload(a) \cup Existing(a)
  BY <1>4, <1>7 DEF Conflicts
<1>9. PayloadIds(a) \subseteq Ids
  BY <1>2, <1>3, <1>4 DEF PayloadIds
<1> QED
  BY <1>1, <1>2, <1>3, <1>4, <1>6, <1>8, <1>9, FS_CardinalityType

\* An INSERT that goes through adds absent rows only, which nobody else holds.
LEMMA InsertedFacts ==
  ASSUME TypeOK, NEW a \in Attempts, pc[a] = "inserting", bundle[a] \in Bundles,
         ~ Loaded(a), ~ InsertWaits(a), ~ InsertViolates(a)
  PROVE  /\ Inserted(a) \in [Ids -> RowType]
         /\ \A i \in Ids : tx[a].new[Dataset(a)][i] # NoRow
              => Inserted(a)[i] = tx[a].new[Dataset(a)][i]
         /\ \A i \in Ids : tx[a].new[Dataset(a)][i] = NoRow /\ Inserted(a)[i] # NoRow =>
              /\ Inserted(a)[i].load = a /\ rows[Dataset(a)][i] = NoRow
              /\ \A b \in Attempts \ {a} : tx[b].new[Dataset(a)][i] = NoRow
         /\ \A n \in Payload(a) :
              /\ Inserted(a)[File(a)[n].id] # NoRow
              /\ Inserted(a)[File(a)[n].id].content = File(a)[n].content
<1> DEFINE First(i) == CHOOSE n \in Payload(a) : File(a)[n].id = i
<1>0. Dataset(a) \in Datasets /\ PayloadIds(a) \subseteq Ids /\ Payload(a) \subseteq Batch(a)
  BY BatchFacts
<1>1. \A i \in PayloadIds(a) : First(i) \in Payload(a) /\ File(a)[First(i)].id = i
  BY DEF PayloadIds
<1>2. \A i \in PayloadIds(a) :
        File(a)[First(i)].content \in Contents /\ File(a)[First(i)].content # None
  <2>1. \A n \in Payload(a) : File(a)[n].content \in Contents
    BY <1>0, BatchFacts
  <2>2. None \notin Contents
    BY PipelineAssumption
  <2> QED
    BY <1>1, <2>1, <2>2
<1>3. \A n \in Payload(a) : First(File(a)[n].id) = n
  BY <1>1 DEF InsertViolates, PayloadIds
<1> HIDE DEF First
<1>4. \A i \in Ids :
        Inserted(a)[i] = IF i \in PayloadIds(a)
                         THEN [content |-> File(a)[First(i)].content, load |-> a]
                         ELSE tx[a].new[Dataset(a)][i]
  BY DEF Inserted, First
<1>5. \A i \in PayloadIds(a) :
        /\ Inserted(a)[i] \in RowType
        /\ Inserted(a)[i].content = File(a)[First(i)].content /\ Inserted(a)[i].load = a
        /\ Inserted(a)[i] # NoRow
  <2> SUFFICES ASSUME NEW i \in PayloadIds(a)
               PROVE  /\ Inserted(a)[i] \in RowType
                      /\ Inserted(a)[i].content = File(a)[First(i)].content
                      /\ Inserted(a)[i].load = a /\ Inserted(a)[i] # NoRow
    OBVIOUS
  <2>1. Inserted(a)[i] = [content |-> File(a)[First(i)].content, load |-> a]
    BY <1>0, <1>4
  <2>2. File(a)[First(i)].content \in Contents /\ File(a)[First(i)].content # None
    BY <1>2
  <2>3. Inserted(a)[i].content = File(a)[First(i)].content /\ Inserted(a)[i].load = a
    BY <2>1
  <2>4. Inserted(a)[i] \in [content: Contents, load: Attempts]
    BY <2>1, <2>2
  <2> QED
    BY <2>2, <2>3, <2>4, NoRowFacts DEF RowType
<1>6. \A i \in PayloadIds(a) :
        /\ Visible(a, Dataset(a), i) = NoRow
        /\ \A b \in Attempts \ {a} : tx[b].new[Dataset(a)][i] = NoRow
  BY DEF InsertViolates, InsertWaits, WaitsFor
<1>7. \A i \in PayloadIds(a) : tx[a].new[Dataset(a)][i] = NoRow /\ rows[Dataset(a)][i] = NoRow
  BY <1>6 DEF Visible
<1>8. Inserted(a) \in [Ids -> RowType]
  <2>1. \A i \in Ids : Inserted(a)[i] \in RowType
    BY <1>0, <1>4, <1>5, VisibleType
  <2> QED
    BY <2>1 DEF Inserted
<1>9. \A i \in Ids \ PayloadIds(a) : Inserted(a)[i] = tx[a].new[Dataset(a)][i]
  BY <1>4
<1>10. \A n \in Payload(a) : File(a)[n].id \in PayloadIds(a)
  BY DEF PayloadIds
<1> QED
  BY <1>3, <1>5, <1>6, <1>7, <1>8, <1>9, <1>10

LEMMA AfterBatchFacts ==
  ASSUME TypeOK, NEW a \in Attempts, pc[a] = "inserting", bundle[a] \in Bundles,
         ~ Loaded(a), ~ InsertWaits(a), ~ InsertViolates(a)
  PROVE  /\ AfterBatch(a) \in TxType
         /\ AfterBatch(a).new = [tx[a].new EXCEPT ![Dataset(a)] = Inserted(a)]
         /\ AfterBatch(a).at = (IF LastBatch(a) THEN tx[a].at + 1 ELSE tx[a].at)
         /\ AfterBatch(a).pos = (IF LastBatch(a) THEN 1 ELSE tx[a].pos + BatchSize)
         /\ AfterBatch(a).conflicts = tx[a].conflicts + Cardinality(Conflicts(a))
         /\ AfterBatch(a).current = tx[a].current
<1>1. tx[a] \in TxType /\ Dataset(a) \in Datasets
  BY BatchFacts DEF TypeOK
<1>2. /\ tx[a].new \in RowsType /\ tx[a].at \in Nat \ {0} /\ tx[a].pos \in Nat \ {0}
      /\ tx[a].seen \in [Ids -> RowType] /\ tx[a].accepted \in [Datasets -> Nat]
      /\ tx[a].conflicts \in Nat /\ tx[a].current \in SUBSET Attempts
  BY <1>1 DEF TxType
<1>3. [tx[a].new EXCEPT ![Dataset(a)] = Inserted(a)] \in RowsType
  BY <1>1, <1>2, InsertedFacts DEF RowsType
<1>4. /\ tx[a].at + 1 \in Nat \ {0} /\ tx[a].pos + BatchSize \in Nat \ {0} /\ 1 \in Nat \ {0}
  <2>1. BatchSize \in Nat
    BY PipelineAssumption
  <2> QED
    BY <1>2, <2>1
<1>5. [tx[a].accepted EXCEPT
         ![Dataset(a)] = @ + Cardinality(Payload(a) \cup Existing(a))] \in [Datasets -> Nat]
  BY <1>1, <1>2, BatchFacts
<1>6. tx[a].conflicts + Cardinality(Conflicts(a)) \in Nat
  <2>1. Cardinality(Conflicts(a)) \in Nat
    BY BatchFacts
  <2> QED
    BY <1>2, <2>1
<1>7. AfterBatch(a) \in TxType
  BY <1>2, <1>3, <1>4, <1>5, <1>6 DEF AfterBatch, TxType
<1> QED
  BY <1>7 DEF AfterBatch

LEMMA InsertBatchStep ==
  ASSUME IInv, NEW a \in Attempts, InsertBatch(a)
  PROVE  IInv'
<1> DEFINE t == AfterBatch(a)
<1>0. /\ TypeOK /\ TxFollows(a) /\ OwnInserts(a) /\ ExclusiveInserts /\ bundle[a] \in Bundles
      /\ pc[a] = "inserting" /\ ~ Loaded(a) /\ SeenIsVisible(a)
      /\ ~ InsertWaits(a) /\ ~ InsertViolates(a)
  BY DEF IInv, AttemptInv, TxFollows, InsertBatch, TypeOK
<1>1. /\ t \in TxType /\ t.new = [tx[a].new EXCEPT ![Dataset(a)] = Inserted(a)]
      /\ t.at = (IF LastBatch(a) THEN tx[a].at + 1 ELSE tx[a].at)
      /\ t.pos = (IF LastBatch(a) THEN 1 ELSE tx[a].pos + BatchSize)
      /\ t.conflicts = tx[a].conflicts + Cardinality(Conflicts(a))
      /\ t.current = tx[a].current
  BY <1>0, AfterBatchFacts
<1>2. tx' = [tx EXCEPT ![a] = t]
  BY DEF InsertBatch
<1> HIDE DEF t
<1>3. tx'[a] = t /\ \A b \in Attempts \ {a} : tx'[b] = tx[b]
  BY <1>0, <1>2 DEF TypeOK
<1>4. Go(a, "loading") /\ pc'[a] = "loading"
  BY <1>0, GoFacts DEF InsertBatch, Working, InTransaction
<1>5. UNCHANGED <<committed, dbUp, outages, bundle, rows, pubs>>
  BY DEF InsertBatch, committed
<1>6. Dataset(a) \in Datasets /\ tx[a].new \in RowsType
  BY <1>0, BatchFacts DEF TypeOK, TxType
<1>7. \A d \in Datasets, i \in Ids :
        t.new[d][i] = IF d = Dataset(a) THEN Inserted(a)[i] ELSE tx[a].new[d][i]
  BY <1>1, <1>6 DEF RowsType
<1>8. \A d \in Datasets, i \in Ids :
        /\ tx[a].new[d][i] # NoRow => t.new[d][i] = tx[a].new[d][i]
        /\ tx[a].new[d][i] = NoRow /\ t.new[d][i] # NoRow =>
             /\ t.new[d][i].load = a /\ rows[d][i] = NoRow
             /\ \A b \in Attempts \ {a} : tx[b].new[d][i] = NoRow
  BY <1>0, <1>7, InsertedFacts
<1>9. OwnInserts(a)'
  BY <1>0, <1>3, <1>5, <1>8 DEF OwnInserts
<1>10. ExclusiveInserts'
  BY <1>0, <1>3, <1>8 DEF ExclusiveInserts
<1>11. \A d \in Datasets, i \in Ids :
         Visible(a, d, i) # NoRow => Visible(a, d, i)' = Visible(a, d, i)
  BY <1>0, <1>3, <1>5, <1>8, VisibleGrows DEF RowsGrow
<1>12. PICK d \in Datasets : d = Dataset(a) /\ bundle[a].files[d] = File(a)
  BY <1>6 DEF File
<1>13. ASSUME NEW n \in Payload(a) \cup Existing(a)
       PROVE  RecordVisible(a, d, n)'
  <2>1. PICK i \in Ids : i = File(a)[n].id
    BY <1>0, BatchFacts
  <2>2. CASE n \in Payload(a)
    <3>1. Inserted(a)[i] # NoRow /\ Inserted(a)[i].content = File(a)[n].content
      BY <1>0, <2>1, <2>2, InsertedFacts
    <3>2. tx'[a].new[d][i] = Inserted(a)[i]
      BY <1>3, <1>7, <1>12
    <3>3. Visible(a, d, i)' = Inserted(a)[i]
      BY <3>1, <3>2 DEF Visible
    <3> QED
      BY <1>5, <1>12, <2>1, <3>1, <3>3 DEF RecordVisible, Visible
  <2>3. CASE n \in Existing(a)
    <3>1. tx[a].seen[i] # NoRow /\ tx[a].seen[i].content = File(a)[n].content
      BY <2>1, <2>3 DEF Existing, Payload, RowsMatch
    <3>2. Visible(a, d, i) # NoRow /\ Visible(a, d, i).content = File(a)[n].content
      BY <1>0, <1>12, <3>1 DEF SeenIsVisible
    <3>3. Visible(a, d, i)' = Visible(a, d, i)
      BY <1>11, <3>2
    <3> QED
      BY <1>5, <1>12, <2>1, <3>2, <3>3 DEF RecordVisible, Visible
  <2> QED
    BY <2>2, <2>3
<1>14. ASSUME t.conflicts = 0 PROVE LoadedIsVisible(a)'
  <2>1. /\ tx[a].conflicts \in Nat /\ tx[a].at \in 1 .. Len(LoadOrder)
        /\ tx[a].pos \in Nat \ {0} /\ Len(File(a)) \in Nat
        /\ Cardinality(Conflicts(a)) \in Nat
    BY <1>0, BatchFacts, DatasetType DEF TypeOK, TxType
  <2>2. tx[a].conflicts = 0 /\ Cardinality(Conflicts(a)) = 0
    BY <1>1, <1>14, <2>1
  <2>3. LoadedIsVisible(a) /\ Batch(a) = Payload(a) \cup Existing(a)
    BY <1>0, <2>2, BatchFacts DEF TxFollows, InTransaction
  <2>4. SUFFICES ASSUME NEW k \in 1 .. Len(LoadOrder),
                        NEW n \in 1 .. Len(bundle[a].files[LoadOrder[k]]),
                        k < t.at \/ (k = t.at /\ n < t.pos)
                 PROVE  RecordVisible(a, LoadOrder[k], n)'
    BY <1>3, <1>5 DEF LoadedIsVisible
  <2>5. LoadOrder[k] \in Datasets
    BY PipelineAssumption
  <2>6. /\ bundle[a].files[LoadOrder[k]][n].id \in Ids
        /\ bundle[a].files[LoadOrder[k]][n].content \in Contents
        /\ Len(bundle[a].files[LoadOrder[k]]) \in Nat
    BY <1>0, <2>5, RecordType
  <2>7. CASE k < tx[a].at \/ (k = tx[a].at /\ n < tx[a].pos)
    <3>1. RecordVisible(a, LoadOrder[k], n)
      BY <2>3, <2>7 DEF LoadedIsVisible
    <3>2. Visible(a, LoadOrder[k], bundle[a].files[LoadOrder[k]][n].id) # NoRow
      BY <2>6, <3>1, NoRowFacts, PipelineAssumption DEF RecordVisible
    <3>3. Visible(a, LoadOrder[k], bundle[a].files[LoadOrder[k]][n].id)'
            = Visible(a, LoadOrder[k], bundle[a].files[LoadOrder[k]][n].id)
      BY <1>5, <1>11, <2>5, <2>6, <3>2 DEF Visible
    <3> QED
      BY <1>5, <3>1, <3>3 DEF RecordVisible
  <2>8. CASE ~ (k < tx[a].at \/ (k = tx[a].at /\ n < tx[a].pos))
    <3>1. BatchSize \in Nat /\ Len(LoadOrder) \in Nat
      BY PipelineAssumption
    <3>2. k = tx[a].at
      BY <1>1, <2>1, <2>4, <2>8, <3>1
    <3>3. LoadOrder[k] = Dataset(a) /\ LoadOrder[k] = d /\ bundle[a].files[LoadOrder[k]] = File(a)
      BY <1>12, <3>2 DEF Dataset, File
    <3>4. n \in 1 .. Len(File(a)) /\ tx[a].pos <= n
      BY <2>1, <2>8, <3>2, <3>3
    <3>5. n < tx[a].pos + BatchSize
      BY <1>1, <2>1, <2>4, <3>1, <3>2, <3>4 DEF LastBatch
    <3>6. n \in Batch(a)
      BY <3>4, <3>5 DEF Batch
    <3> QED
      BY <1>13, <2>3, <3>3, <3>6
  <2> QED
    BY <2>7, <2>8
<1>15. TxFollows(a)'
  BY <1>0, <1>1, <1>3, <1>4, <1>5, <1>14 DEF TxFollows, InTransaction
<1> QED
  BY <1>0, <1>1, <1>2, <1>4, <1>5, <1>9, <1>10, <1>15, LoadingStep DEF InTransaction

------------------------------------------------------------------------------
(* Commits of the load transaction *)

\* The tables after a commit: they only grow, by rows of the attempt.
LEMMA RowsAfterFacts ==
  ASSUME IInv, NEW a \in Attempts, rows' = RowsAfter(a)
  PROVE  /\ rows' \in RowsType /\ RowsGrow
         /\ \A d \in Datasets, i \in Ids : rows'[d][i] = Visible(a, d, i)
         /\ \A d \in Datasets, i \in Ids :
              rows'[d][i] # rows[d][i] => rows'[d][i].load = a
         /\ \A b \in Attempts \ {a} : tx'[b] = tx[b] => OwnInserts(b)'
<1>0. TypeOK /\ ExclusiveInserts /\ \A b \in Attempts : OwnInserts(b)
  BY DEF IInv, AttemptInv
<1>1. \A d \in Datasets, i \in Ids : rows'[d][i] = Visible(a, d, i)
  BY DEF RowsAfter
<1>2. rows' \in RowsType
  BY <1>0, VisibleType DEF RowsAfter, RowsType
<1>3. RowsGrow
  BY <1>0, <1>1 DEF RowsGrow, OwnInserts, Visible
<1>4. \A d \in Datasets, i \in Ids : rows'[d][i] # rows[d][i] => rows'[d][i].load = a
  BY <1>0, <1>1 DEF OwnInserts, Visible
<1>5. \A b \in Attempts \ {a} : tx'[b] = tx[b] => OwnInserts(b)'
  <2> SUFFICES ASSUME NEW b \in Attempts \ {a}, tx'[b] = tx[b],
                      NEW d \in Datasets, NEW i \in Ids, tx[b].new[d][i] # NoRow
               PROVE  tx[b].new[d][i].load = b /\ rows'[d][i] = NoRow
    BY DEF OwnInserts
  <2>1. rows[d][i] = NoRow /\ tx[b].new[d][i].load = b
    BY <1>0 DEF OwnInserts
  <2>2. tx[a].new[d][i] = NoRow
    BY <1>0 DEF ExclusiveInserts
  <2> QED
    BY <1>1, <2>1, <2>2 DEF Visible
<1> QED
  BY <1>1, <1>2, <1>3, <1>4, <1>5

\* A stored bundle stays stored.
LEMMA StoredKept ==
  ASSUME NEW b \in Bundles, Stored(b), RowsGrow
  PROVE  Stored(b)'
<1> SUFFICES ASSUME NEW d \in Datasets, NEW n \in DOMAIN b.files[d]
             PROVE  rows'[d][b.files[d][n].id].content = b.files[d][n].content
  BY DEF Stored
<1>1. b.files[d][n].id \in Ids /\ b.files[d][n].content \in Contents
  BY RecordType
<1>2. rows[d][b.files[d][n].id].content = b.files[d][n].content
  BY DEF Stored
<1>3. rows[d][b.files[d][n].id] # NoRow
  BY <1>1, <1>2, NoRowFacts, PipelineAssumption
<1> QED
  BY <1>1, <1>2, <1>3 DEF RowsGrow

\* A load that went through without a conflict has stored its bundle.
LEMMA LoadedIsStored ==
  ASSUME IInv, NEW a \in Attempts, pc[a] \in InTransaction, Loaded(a), tx[a].conflicts = 0,
         rows' = RowsAfter(a), bundle' = bundle
  PROVE  Stored(bundle[a])'
<1>0. TypeOK /\ LoadedIsVisible(a) /\ bundle[a] \in Bundles
  BY DEF IInv, AttemptInv, TxFollows, TypeOK, InTransaction
<1>1. tx[a].at \in Nat /\ Len(LoadOrder) \in Nat
  BY <1>0, PipelineAssumption DEF TypeOK, TxType
<1> SUFFICES ASSUME NEW d \in Datasets, NEW n \in DOMAIN bundle[a].files[d]
             PROVE  rows'[d][bundle[a].files[d][n].id].content = bundle[a].files[d][n].content
  BY DEF Stored
<1>2. PICK k \in 1 .. Len(LoadOrder) : LoadOrder[k] = d
  BY PipelineAssumption
<1>3. k < tx[a].at
  BY <1>1 DEF Loaded
<1>4. n \in 1 .. Len(bundle[a].files[d]) /\ bundle[a].files[d][n].id \in Ids
  BY <1>0, RecordType
<1>5. RecordVisible(a, d, n)
  BY <1>0, <1>2, <1>3, <1>4 DEF LoadedIsVisible
<1> QED
  BY <1>4, <1>5, RowsAfterFacts DEF RecordVisible

\* The commit of the load, with the verdict, the reconciliation and the
\* publications it writes.
LEMMA CommitStep ==
  ASSUME IInv, NEW a \in Attempts, pc[a] \in InTransaction, Loaded(a), tx[a].conflicts = 0,
         rows' = RowsAfter(a), loads' = loads \cup {a},
         NEW place \in {"done", "dberror"}, EndTx(a, place), place = "dberror" => LostAcks,
         NEW status \in {"success", "failed"}, NEW reason \in {None, "reconciliation_failed"},
         Verdict(a, status, reason),
         NEW result \in {"passed", "failed"}, recon' = [recon EXCEPT ![a] = result],
         pubs' \in [Attempts -> {"none", "current", "superseded"}], OneCurrentPublication',
         \A b \in Attempts \ {a} : pubs'[b] = "none" <=> pubs[b] = "none",
         pubs'[a] = "none" <=> result = "failed",
         UNCHANGED <<persisted, dbUp, outages, bundle>>
  PROVE  IInv'
<1>0. /\ TypeOK /\ TablesInv /\ ExclusiveInserts /\ \A b \in Attempts : AttemptInv(b)
      /\ bundle[a] \in Bundles
  BY DEF IInv, TypeOK, InTransaction
<1>1. /\ rows' \in RowsType /\ RowsGrow
      /\ \A d \in Datasets, i \in Ids :
           rows'[d][i] # rows[d][i] => rows'[d][i].load = a
      /\ \A b \in Attempts \ {a} : tx'[b] = tx[b] => OwnInserts(b)'
  BY RowsAfterFacts
<1>2. Go(a, place) /\ pc'[a] = place /\ place \in {"done"} \cup Working
  BY <1>0, GoFacts DEF EndTx, Working
<1>3. /\ tx' \in [Attempts -> TxType] /\ tx'[a] = NewTx
      /\ \A b \in Attempts \ {a} : tx'[b] = tx[b]
  BY <1>0, NewTxFacts DEF TypeOK, EndTx
<1>4. /\ recon' \in [Attempts -> {"none", "passed", "failed"}] /\ recon'[a] = result
      /\ \A b \in Attempts \ {a} : recon'[b] = recon[b]
  BY <1>0 DEF TypeOK
<1>5. reason \in Reasons \cup {None} /\ reason \notin Reasons \ {"reconciliation_failed"}
  BY PipelineAssumption DEF Reasons
<1>6. runs'[a].status = status /\ runs'[a].reason = reason
  BY <1>0, <1>5, VerdictFacts
<1>7. TypeOK'
  BY <1>0, <1>1, <1>2, <1>3, <1>4, <1>5, VerdictFacts, GoFacts DEF TypeOK
<1>8. \A b \in Attempts \ {a} : SameFor(b)
  BY <1>0, <1>2, <1>3, <1>5, VerdictFacts, GoFacts DEF SameFor
<1>9. LeftNothing(a)
  BY <1>0 DEF AttemptInv, RunFollows, InTransaction, Working
<1>10. PubsGrow
  BY <1>9 DEF PubsGrow, LeftNothing
<1>11. ASSUME NEW b \in Attempts \ {a}, LeftNothing(b) PROVE LeftNothing(b)'
  BY <1>1, <1>4, <1>11 DEF LeftNothing
<1>12. ASSUME NEW b \in Attempts \ {a} PROVE AttemptInv(b)'
  BY <1>1, <1>3, <1>8, <1>10, <1>11, OthersKept
<1>13. AttemptInv(a)'
  <2>1. RunFollows(a)'
    BY <1>2, <1>6 DEF RunFollows, Working, InTransaction
  <2>2. Validated(a)'
    BY <1>0, <1>2 DEF AttemptInv, Validated, HasRejections, Working, InTransaction
  <2>3. OwnInserts(a)' /\ \A r \in tx'[a].current : pubs'[r] # "none"
    BY <1>3, NewTxFacts DEF OwnInserts
  <2>4. TxFollows(a)'
    BY <1>2, <1>3, <2>3 DEF TxFollows, InTransaction
  <2> QED
    BY <2>1, <2>2, <2>3, <2>4 DEF AttemptInv
<1>14. ExclusiveInserts'
  BY <1>0, <1>3, NewTxFacts DEF ExclusiveInserts
<1>15. RowsAreAccounted'
  <2> SUFFICES ASSUME NEW d \in Datasets, NEW i \in Ids, rows'[d][i] # NoRow
               PROVE  /\ rows'[d][i].load \in loads'
                      /\ recon'[rows'[d][i].load]
                           = IF pubs'[rows'[d][i].load] # "none" THEN "passed" ELSE "failed"
    BY DEF RowsAreAccounted
  <2>1. CASE rows'[d][i].load = a
    BY <1>4, <2>1
  <2>2. CASE rows'[d][i].load # a
    <3>1. rows'[d][i] = rows[d][i] /\ rows[d][i] # NoRow
      BY <1>1, <2>2
    <3>2. rows[d][i].load \in Attempts \ {a}
      BY <1>1, <2>2, <3>1, NoRowFacts DEF RowsType
    <3>3. /\ rows[d][i].load \in loads
          /\ recon[rows[d][i].load]
               = IF pubs[rows[d][i].load] # "none" THEN "passed" ELSE "failed"
      BY <1>0, <3>1 DEF TablesInv, RowsAreAccounted
    <3> QED
      BY <1>4, <3>1, <3>2, <3>3
  <2> QED
    BY <2>1, <2>2
<1>16. PublishedBundleIsStored'
  <2> SUFFICES ASSUME NEW b \in Attempts, pubs'[b] # "none"
               PROVE  ~ bundle[b].blocking /\ Stored(bundle[b])'
    BY DEF PublishedBundleIsStored
  <2>1. CASE b = a
    <3>1. Stored(bundle[a])'
      BY LoadedIsStored
    <3>2. ~ bundle[a].blocking
      BY <1>0 DEF AttemptInv, Validated, Working, InTransaction
    <3> QED
      BY <2>1, <3>1, <3>2
  <2>2. CASE b # a
    <3>1. pubs[b] # "none"
      BY <2>2
    <3>2. ~ bundle[b].blocking /\ Stored(bundle[b])
      BY <1>0, <3>1 DEF TablesInv, PublishedBundleIsStored
    <3>3. bundle[b] \in Bundles
      BY <1>0, <3>1 DEF AttemptInv, RunFollows, LeftNothing, TypeOK
    <3>4. PICK c \in Bundles : c = bundle[b]
      BY <3>3
    <3>5. Stored(c)'
      BY <1>1, <3>2, <3>4, StoredKept
    <3> QED
      BY <3>2, <3>4, <3>5 DEF Stored
  <2> QED
    BY <2>1, <2>2
<1>17. RejectionsArePersisted'
  <2>1. HasRejections(bundle[a]) => persisted[a] >= 1
    BY <1>0 DEF AttemptInv, Validated, Working, InTransaction
  <2> QED
    BY <1>0, <1>8, <2>1 DEF TablesInv, RejectionsArePersisted, SameFor, HasRejections
<1>18. LostAcks \/ FailedAttemptLeavesNothing'
  <2> SUFFICES ASSUME ~ LostAcks, NEW b \in Attempts,
                      runs'[b].status \in {"absent", "running"}
                      \/ runs'[b].reason \in Reasons \ {"reconciliation_failed"}
               PROVE  LeftNothing(b)'
    BY DEF FailedAttemptLeavesNothing
  <2>1. b # a
    BY <1>5, <1>6
  <2>2. LeftNothing(b)
    BY <1>0, <1>8, <2>1 DEF TablesInv, FailedAttemptLeavesNothing, SameFor
  <2> QED
    BY <1>11, <2>1, <2>2
<1> QED
  BY <1>7, <1>12, <1>13, <1>14, <1>15, <1>16, <1>17, <1>18 DEF IInv, TablesInv

LEMMA CommitUnreconciledStep ==
  ASSUME IInv, NEW a \in Attempts, CommitUnreconciled(a)
  PROVE  IInv'
<1>1. PICK place \in {"done", "dberror"} : EndTx(a, place) /\ (place = "dberror" => LostAcks)
  BY DEF CommitUnreconciled, Acknowledged
<1>2. pubs' \in [Attempts -> {"none", "current", "superseded"}] /\ OneCurrentPublication'
  BY DEF IInv, TypeOK, TablesInv, OneCurrentPublication, CommitUnreconciled
<1>3. pubs'[a] = "none"
  BY DEF IInv, AttemptInv, RunFollows, LeftNothing, CommitUnreconciled, Working, InTransaction
<1> QED
  BY <1>1, <1>2, <1>3, CommitStep DEF CommitUnreconciled, InTransaction

\* The partial unique index makes the publication the only current one.
LEMMA PublicationsAfterFacts ==
  ASSUME IInv, NEW a \in Attempts, CurrentUnique(a), pubs' = PublicationsAfter(a)
  PROVE  /\ pubs' \in [Attempts -> {"none", "current", "superseded"}]
         /\ pubs'[a] = "current" /\ \A b \in Attempts \ {a} : pubs'[b] # "current"
         /\ \A b \in Attempts \ {a} : pubs'[b] = "none" <=> pubs[b] = "none"
<1>1. pubs \in [Attempts -> {"none", "current", "superseded"}]
  BY DEF IInv, TypeOK
<1>2. \A r \in tx[a].current : pubs[r] # "none"
  BY DEF IInv, AttemptInv, TxFollows
<1> QED
  BY <1>1, <1>2 DEF PublicationsAfter, CurrentUnique

LEMMA CommitPublicationStep ==
  ASSUME IInv, NEW a \in Attempts, CommitPublication(a)
  PROVE  IInv'
<1>1. PICK place \in {"done", "dberror"} : EndTx(a, place) /\ (place = "dberror" => LostAcks)
  BY DEF CommitPublication, Acknowledged
<1>2. /\ pubs' \in [Attempts -> {"none", "current", "superseded"}]
      /\ pubs'[a] = "current" /\ \A b \in Attempts \ {a} : pubs'[b] # "current"
      /\ \A b \in Attempts \ {a} : pubs'[b] = "none" <=> pubs[b] = "none"
  BY PublicationsAfterFacts DEF CommitPublication
<1>3. OneCurrentPublication'
  BY <1>2 DEF OneCurrentPublication
<1>4. Loaded(a) /\ tx[a].conflicts = 0
  BY DEF IInv, AttemptInv, TxFollows, CommitPublication
<1> QED
  BY <1>1, <1>2, <1>3, <1>4, CommitStep DEF CommitPublication, InTransaction

------------------------------------------------------------------------------
(* The database and the whole pipeline *)

LEMMA DatabaseStopsStep ==
  ASSUME IInv, DatabaseStops
  PROVE  IInv'
<1>0. /\ TypeOK /\ TablesInv /\ \A a \in Attempts : AttemptInv(a)
      /\ UNCHANGED <<runs, rows, loads, recon, pubs, persisted, bundle>>
  BY DEF IInv, DatabaseStops, committed
<1>1. /\ tx' \in [Attempts -> TxType] /\ \A a \in Attempts : tx'[a] = NewTx
      /\ pc' \in [Attempts -> {"idle", "done", "gone"} \cup Working]
      /\ \A a \in Attempts :
           pc'[a] = IF pc[a] \in InTransaction THEN "dberror" ELSE pc[a]
  <2>1. "dberror" \in Working
    BY DEF Working
  <2> QED
    BY <1>0, <2>1, NewTxFacts DEF DatabaseStops, TypeOK
<1>2. outages' \in Nat /\ dbUp' \in BOOLEAN
  <2>1. outages \in Nat /\ outages' = outages + 1 /\ dbUp' = FALSE
    BY <1>0 DEF DatabaseStops, TypeOK
  <2>2. outages' \in Nat
    BY <2>1
  <2>3. dbUp' \in BOOLEAN
    BY <2>1, Zenon
  <2> QED
    BY <2>2, <2>3
<1>3. \A a \in Attempts : pc'[a] # "idle" => pc[a] # "idle"
  BY <1>1, Zenon DEF InTransaction
<1>4. TypeOK'
  BY <1>0, <1>1, <1>2, <1>3 DEF TypeOK
<1>5. TablesInv'
  BY <1>0 DEF TablesInv, RowsAreAccounted, OneCurrentPublication, PublishedBundleIsStored,
              Stored, RejectionsArePersisted, HasRejections, FailedAttemptLeavesNothing, LeftNothing
<1>6. ExclusiveInserts'
  BY <1>1, NewTxFacts DEF ExclusiveInserts
<1>7. ASSUME NEW a \in Attempts PROVE AttemptInv(a)'
  <2>1. RunFollows(a)'
    BY <1>0, <1>1 DEF AttemptInv, RunFollows, LeftNothing, Working, InTransaction
  <2>2. Validated(a)'
    BY <1>0, <1>1 DEF AttemptInv, Validated, HasRejections, Working, InTransaction
  <2>3. OwnInserts(a)' /\ \A r \in tx'[a].current : pubs'[r] # "none"
    BY <1>1, NewTxFacts DEF OwnInserts
  <2>4. pc'[a] \notin InTransaction /\ pc'[a] \notin {"inserting", "superseding", "publishing"}
    BY <1>1 DEF InTransaction
  <2>5. TxFollows(a)'
    BY <1>1, <2>3, <2>4 DEF TxFollows
  <2> QED
    BY <2>1, <2>2, <2>3, <2>5 DEF AttemptInv
<1> QED
  BY <1>4, <1>5, <1>6, <1>7 DEF IInv

\* A step that leaves the tables and the attempts alone.
LEMMA StutterStep ==
  ASSUME IInv, UNCHANGED <<committed, outages, pc, bundle, tx>>, dbUp' \in BOOLEAN
  PROVE  IInv'
<1>0. TypeOK'
  BY DEF IInv, TypeOK, committed
<1>1. UNCHANGED <<runs, rows, loads, recon, pubs, persisted, pc, bundle, tx>>
  BY DEF committed
<1>2. TablesInv' /\ ExclusiveInserts'
  BY <1>1 DEF IInv, TablesInv, RowsAreAccounted, OneCurrentPublication, PublishedBundleIsStored,
              Stored, RejectionsArePersisted, HasRejections, FailedAttemptLeavesNothing,
              LeftNothing, ExclusiveInserts
<1>3. ASSUME NEW a \in Attempts PROVE AttemptInv(a)'
  <2>1. SameFor(a) /\ RowsGrow /\ PubsGrow
    BY <1>1 DEF SameFor, RowsGrow, PubsGrow
  <2>2. OwnInserts(a)' /\ (LeftNothing(a) => LeftNothing(a)')
    BY <1>1 DEF IInv, AttemptInv, OwnInserts, LeftNothing
  <2> QED
    BY <2>1, <2>2, OthersKept
<1> QED
  BY <1>0, <1>2, <1>3 DEF IInv

LEMMA InitIInv == Init => IInv
<1> SUFFICES ASSUME Init PROVE IInv
  OBVIOUS
<1>1. TypeOK
  BY NewTxFacts, NoRowFacts DEF Init, TypeOK
<1>2. /\ \A a \in Attempts : /\ pc[a] = "idle" /\ runs[a].status = "absent" /\ runs[a].reason = None
                             /\ tx[a] = NewTx /\ pubs[a] = "none" /\ recon[a] = "none"
      /\ loads = {} /\ \A d \in Datasets, i \in Ids : rows[d][i] = NoRow
  BY DEF Init, NoRowsAnywhere
<1>3. \A a \in Attempts : LeftNothing(a)
  BY <1>2, PipelineAssumption DEF LeftNothing, NoRow
<1>4. TablesInv
  BY <1>2, <1>3 DEF TablesInv, RowsAreAccounted, OneCurrentPublication, PublishedBundleIsStored,
                    RejectionsArePersisted, FailedAttemptLeavesNothing
<1>5. ExclusiveInserts
  BY <1>2, NewTxFacts DEF ExclusiveInserts
<1>6. ASSUME NEW a \in Attempts PROVE AttemptInv(a)
  <2>1. RunFollows(a) /\ Validated(a)
    BY <1>2, <1>3 DEF RunFollows, Validated, Working, InTransaction
  <2>2. TxFollows(a) /\ OwnInserts(a)
    BY <1>2, NewTxFacts DEF TxFollows, OwnInserts, InTransaction
  <2> QED
    BY <2>1, <2>2 DEF AttemptInv
<1> QED
  BY <1>1, <1>4, <1>5, <1>6 DEF IInv

LEMMA ProceedStep ==
  ASSUME IInv, NEW a \in Attempts, Proceed(a)
  PROVE  IInv'
BY BlockRunStep, PersistRejectionsStep, BeginLoadStep, SelectBatchStep, InsertBatchStep,
   InsertFailsStep, RaiseConflictStep, CommitUnreconciledStep, FindCurrentStep, SupersedeStep,
   CommitPublicationStep, PublicationFailsStep, FailConflictStep, FailDatabaseStep, RaiseStep
   DEF Proceed

LEMMA NextIInv == IInv /\ [Next]_vars => IInv'
<1> SUFFICES ASSUME IInv, [Next]_vars PROVE IInv'
  OBVIOUS
<1>1. CASE \E a \in Attempts :
             CreateIngestionRun(a) \/ Proceed(a) \/ StatementFails(a) \/ Crash(a)
  BY <1>1, CreateIngestionRunStep, ProceedStep, StatementFailsStep, CrashStep
<1>2. CASE DatabaseStops
  BY <1>2, DatabaseStopsStep
<1>3. CASE DatabaseRestarts
  BY <1>3, StutterStep DEF DatabaseRestarts
<1>4. CASE UNCHANGED vars
  <2>1. dbUp' \in BOOLEAN
    BY <1>4 DEF IInv, TypeOK, vars
  <2> QED
    BY <1>4, <2>1, StutterStep DEF vars
<1> QED
  BY <1>1, <1>2, <1>3, <1>4 DEF Next

THEOREM InductiveInvariant == Spec => []IInv
BY InitIInv, NextIInv, PTL DEF Spec

------------------------------------------------------------------------------

\* Every table and transaction record is of its type, for every load_bundle.
THEOREM TypeCorrect == Spec => []TypeOK
<1>1. IInv => TypeOK
  BY DEF IInv
<1> QED
  BY <1>1, InductiveInvariant, PTL

\* However many runs publish at once (publication.py 17-52), readers find one
\* current publication from the first one on.
THEOREM OneCurrentAlways == Spec => []OneCurrentPublication
<1>1. IInv => OneCurrentPublication
  BY DEF IInv, TablesInv
<1> QED
  BY <1>1, InductiveInvariant, PTL

\* A published run stands for its whole bundle, whatever other attempts insert
\* between the look-up and the INSERT of a batch (loaders.py 130-169).
THEOREM PublishedIsStored == Spec => []PublishedBundleIsStored
<1>1. IInv => PublishedBundleIsStored
  BY DEF IInv, TablesInv
<1> QED
  BY <1>1, InductiveInvariant, PTL

\* Every row has the source load and the reconciliation of the attempt that
\* inserted it (service.py 138-157).
THEOREM RowsAlwaysAccounted == Spec => []RowsAreAccounted
<1>1. IInv => RowsAreAccounted
  BY DEF IInv, TablesInv
<1> QED
  BY <1>1, InductiveInvariant, PTL

\* A decided run has its rejections persisted (service.py 127-163).
THEOREM RejectionsAlwaysPersisted == Spec => []RejectionsArePersisted
<1>1. IInv => RejectionsArePersisted
  BY DEF IInv, TablesInv
<1> QED
  BY <1>1, InductiveInvariant, PTL

\* If the database never commits without saying so, a blocked, conflicting or
\* failed attempt leaves nothing behind (service.py 127-175).
THEOREM FailureLeavesNothing ==
  ASSUME LostAcks = FALSE
  PROVE  Spec => []FailedAttemptLeavesNothing
<1>1. IInv => FailedAttemptLeavesNothing
  BY DEF IInv, TablesInv
<1> QED
  BY <1>1, InductiveInvariant, PTL

------------------------------------------------------------------------------
(* The publication pointer *)

LEMMA CurrentRunUnchanged ==
  ASSUME pubs' = pubs
  PROVE  UNCHANGED <<PublishedRuns, CurrentRun>>
BY DEF PublishedRuns, CurrentRun

\* The commit of a publication publishes its run.
LEMMA PublishStep ==
  ASSUME IInv, NEW a \in Attempts, CommitPublication(a)
  PROVE  Pointer!Publish(a)
<1>1. /\ pubs' \in [Attempts -> {"none", "current", "superseded"}]
      /\ pubs'[a] = "current" /\ \A b \in Attempts \ {a} : pubs'[b] # "current"
      /\ \A b \in Attempts \ {a} : pubs'[b] = "none" <=> pubs[b] = "none"
  BY PublicationsAfterFacts DEF CommitPublication
<1>2. pubs[a] = "none"
  BY DEF IInv, AttemptInv, RunFollows, LeftNothing, CommitPublication, Working, InTransaction
<1>3. a \notin PublishedRuns /\ PublishedRuns' = PublishedRuns \cup {a}
  BY <1>1, <1>2 DEF PublishedRuns
<1>4. CurrentRun' = a
  BY <1>1 DEF CurrentRun
<1> QED
  BY <1>3, <1>4 DEF Pointer!Publish

LEMMA PointerStep ==
  ASSUME IInv, [Next]_vars
  PROVE  [Pointer!PointerNext]_(Pointer!pointer)
<1>1. CASE \E a \in Attempts : CommitPublication(a)
  BY <1>1, PublishStep DEF Pointer!PointerNext
<1>2. CASE ~ \E a \in Attempts : CommitPublication(a)
  <2>1. pubs' = pubs
    BY <1>2 DEF Next, vars, committed, Proceed, CreateIngestionRun, StatementFails, Crash,
         DatabaseStops, DatabaseRestarts, BlockRun, PersistRejections, BeginLoad, SelectBatch,
         InsertBatch, InsertFails, RaiseConflict, CommitUnreconciled, FindCurrent, Supersede,
         PublicationFails, FailConflict, FailDatabase, Raise
  <2> QED
    BY <2>1, CurrentRunUnchanged DEF Pointer!pointer
<1> QED
  BY <1>1, <1>2

\* Nothing but a publication moves the pointer, and it moves it in one step to
\* its own run: the pipeline implements PublicationPointer.
THEOREM PointerImplemented == Spec => ImplementsPointer
<1>1. Init => Pointer!PointerInit
  BY DEF Init, Pointer!PointerInit, PublishedRuns, CurrentRun
<1>2. IInv /\ [Next]_vars => [Pointer!PointerNext]_(Pointer!pointer)
  BY PointerStep
<1> QED
  BY <1>1, <1>2, InductiveInvariant, PTL DEF Spec, ImplementsPointer, Pointer!PointerSpec
==============================================================================
