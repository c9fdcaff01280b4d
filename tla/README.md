# Supply-chain exception control: TLA+ models and proofs

The repository is a Python application over PostgreSQL. It ingests bundles of
procurement data, scores purchase-order lines for supply risk, lets people open
exception *episodes* for the risky ones, and takes each episode through a
controlled lifecycle. This directory holds TLA+ models of that code, the TLC
configurations that check them and TLAPS proofs about them.

Paths below are relative to the repository; `service.py` without a directory is
`src/scecs/workflow/service.py`.

## Inventory

| Component | State it keeps | Operations | Hard behaviour |
|---|---|---|---|
| Workflow service (`workflow/service.py`) | episodes, event envelopes with state / ownership / action rows, approvals, resolutions, suppressions; candidate disposition and link | open from candidate, transition, assign, note, agreement, update, observation, suppress | every command reads, validates, then writes in one READ COMMITTED transaction without locks or a version column; sequence numbers by max+1; idempotency keys |
| Workflow schema (`models/workflow.py`, migrations 0001, 0004) | constraints and immutability triggers | - | it is the constraints, not the service, that decide races |
| Risk rules (`risk/rules.py`) | none | score a candidate: components, family caps, band, disposition | caps and thresholds at their boundaries; unavailable signals |
| Scoring run (`risk/service.py`, `models/scoring.py`) | pipeline run, candidates, contributions | score all operational lines, persist each candidate | active episode read before the candidate is persisted; a repeated run |
| Bundle validation (`ingestion/manifest.py`, `contracts.py`, `parsers.py`, `validators.py`) | none: rejections and records in memory | inspect the directory, parse 25 datasets, check them against each other | stages that go on after a blocking rejection; rules written a second time in the tables; conversions nobody guards |
| Ingestion (`ingestion/*`, `models/source_control.py`) | pipeline run, source loads, rejected records, reconciliation results, publications | load, reconcile, publish | several transactions per run; failure and crash between them; superseding the current publication |
| User interface (`streamlit_app/*`) | per browser session: the page, the selected episode, a processing flag | lists candidates and episodes, offers actions by state, runs commands | the whole script runs again for every interaction, over rows read anew; double clicks; runs that end early |
| Synthetic generator (`synthetic/*`) | none | deterministic data sets | - |
| Infrastructure (`database.py`, `config.py`, ...) | - | session scope: commit, or roll back and re-raise | - |

Interaction: ingestion loads and publishes the operational tables, the scoring
run reads them and writes candidates, the workflow service turns candidates into
episodes, the user interface calls the workflow service. They share the database
and nothing else; there is no queue and no background process.

What makes each part correct, in order of importance:

* Workflow: the current state and closing of an episode are a projection of its
  immutable history; one unclosed episode per purchase-order line and site; a
  closed episode stays closed; a resolution, closure or suppression has an
  independent approval; the history is numbered without gaps; a retry does not
  do a thing twice; ownership and state only change along the lifecycle.
* Ingestion: one current publication, which stands for a bundle that is in the
  database; a failed attempt leaves nothing behind; every row has the source
  load and the reconciliation of its attempt; rejections are persisted; every
  run gets a verdict.
* Scoring: a stored score is explained by its capped points; a run has a
  candidate for each line it counts; candidates are never rewritten; only what
  met an opening rule is opened; concurrent runs do not deadlock.
* Validation: what it checked holds in the tables, so that nothing it let pass is
  refused by a rule it shares with them; what is published is whole; what blocks
  is recorded.
* User interface: a command goes to what the page showed, is not run again by a click
  that waits for its outcome, is offered only if the service would accept it, reports
  what is in the tables, and every click is answered.

## Modules

Each component has a module for its state and actions, one for its properties,
one for the inductive invariant, one for the proofs and one with the instances
for TLC. Proof modules reach no recursive operator.

| Module | What it is |
|---|---|
| `EpisodeStates` | the states and the transition matrix (`service.py:33-48`) |
| `EpisodeLifecycle` | the abstract specification: per episode a history of states and one of owners, per line one unfinished episode |
| `EpisodeJournal` | the abstract specification when commands overlap: histories that grow from states a command has seen |
| `OpeningDesk` | the abstract specification of what scoring and the workflow share: candidates, their links, the episodes of a line |
| `WorkflowService` | the service over PostgreSQL, all commands, any number of sessions |
| `WorkflowProperties` | type invariant, safety, action and liveness properties |
| `WorkflowInvariant` | the inductive invariant behind the proofs |
| `WorkflowRefinement` | the mappings from the tables to `EpisodeLifecycle`, `EpisodeJournal` and `OpeningDesk` |
| `WorkflowProofs` | theorems about any number of sessions: types, numbering, projection, closure |
| `WorkflowEvidenceProofs` | theorems about any number of sessions: approvals, openings, candidate links |
| `WorkflowRefinementProofs` | the journal and the desk for any number of sessions; for one session at a time owners and the lifecycle |
| `MCWorkflow` | instances for TLC |
| `UserInterface` | pages, clicks and script runs of Streamlit over `WorkflowService` |
| `UiProperties` | properties of the pages |
| `UiInvariant`, `UiProofs` | invariant, theorems and proofs |
| `MCUserInterface` | two browsers of two users |
| `IngestionPipeline` | `load_bundle` over PostgreSQL, any number of attempts, crashes and outages |
| `PublicationPointer` | the abstract specification: runs are published one at a time, the pointer is at the last |
| `IngestionProperties` | properties, the mapping to the pointer, fairness |
| `IngestionInvariant`, `IngestionProofs` | invariant, theorems and proofs |
| `MCIngestion` | two datasets and six small bundles |
| `SourceContracts` | the 25 datasets, their columns and what a cell may hold (`contracts.py`, `config.py`, `mappings.py`) |
| `PhysicalSchema` | the constraints of the 25 tables and what an INSERT violates (migration 0001) |
| `BundleValidation` | `validate_bundle`, and one `load_bundle` on its result |
| `BundleProperties` | what validation is worth to the load |
| `BundleInvariant`, `BundleProofs` | invariant, theorems and proofs |
| `MCBundle` | 1326 bundles: a sound one and its defects |
| `RiskRules` | `risk/rules.py` as pure operators |
| `RiskRulesProofs` | theorems about every input of the rules |
| `RiskInputs` | how `risk/service.py` reads a line's facts at a point in time |
| `ScoringRun` | the transaction of a scoring run beside loads, workflow commands and other runs |
| `ScoringProperties` | properties, the mapping to `OpeningDesk` |
| `ScoringInvariant`, `ScoringProofs` | invariant, theorems and proofs |
| `MCScoring` | two lines and the facts about them |

`IngestionPipeline` provides the facts that `ScoringRun` reads (its `Load` is a
committed load transaction), and `ScoringRun` the candidates that
`WorkflowService` opens. Everything these components share are committed rows,
so each model takes the others' commits as steps of its environment: the
`LinkCandidate`, `OpenFromCandidate` and `CloseEpisode` of `ScoringRun` stand for
commands of the workflow, and the candidates of `WorkflowService` are there from
the start. `OpeningDesk` says that the two fit: it is what both implement,
`ScoringRun` with every way a run may insert candidates, `WorkflowService` with
every way sessions may interleave (see below).
`UserInterface` EXTENDS `WorkflowService`: a page's command *is* a command of the
service, in a database session named after the browser session, and
`PagesUseService` proves that nothing else moves the tables. `BundleValidation`
looks closely at what `IngestionPipeline` takes as part of a bundle.

### WorkflowService

State. `episode`, `candidate` and `events` are the committed tables; an event
carries the envelope together with its state, ownership or action row. `tx` is
what each session has loaded and is about to write.

A command is three steps, because the code has three moments at which it and
PostgreSQL look at shared data:

1. *Begin.* `OpenEpisodeFromCandidate`, `TransitionEpisode`, `AssignEpisode`,
   `SuppressEpisode`, `AppendAction` (notes, updates and observations) and
   `CreateActionAgreement` load the row, look up the idempotency key and
   validate. A key that is found ends in a replay (`Answer`); a command that
   does not validate raises, rolls back an empty transaction and takes no step.
   `FindActiveEpisode` is the second query of the opening, which other sessions
   may commit before.
2. *Flush.* `_create_event` queries the next number; SQLAlchemy flushes before
   that query, so the pending UPDATE is sent first and takes the row lock, and
   the number is read under it. A command whose object equals what it loaded
   sends no UPDATE and holds no lock (`Updates`, `StateWritten`, `OwnerWritten`);
   only changed columns are sent (`RowAfter`).
3. *Commit* or *Rollback* (`session_scope`, `database.py:31-47`). The commit
   needs the constraints (`Accepted`): the unique keys of the envelope, the
   partial unique index on unclosed episodes, and the check that ties
   `closed_at` to the state. A violated constraint, a lost connection and a
   crash are all `Rollback`.

Why the granularity is exact where it is coarser than the code:

* Reading the episode and the key in one step: keys are never removed, so a key
  committed between the two reads only turns a commit into a unique violation
  into a replay, both of which the model has.
* The unique index makes the second of two inserters wait for the first; the
  model lets both go on and lets the first to commit win. The committed states
  are the same.
* Rows that are numbered per episode (resolutions, ownership and action rows) or
  belong to one event (approvals, evidence, suppression controls) are part of
  the event: two commands whose child rows clash also clash on the event number.
* A constraint that PostgreSQL checks at the flush is checked at the commit. The
  row lock is held in between, so it sees the same row.

Abstracted: time stamps (`closed_at` is the flag `closed`), payloads, reason
texts and correlation identifiers, severities. The activity of approvers is
static (`Approvers`); candidates start in the dispositions scoring can leave.

### UserInterface

State. `browser` is what each browser session shows: the view, the options of its
selectbox (`labels`), the one selected (`target`), `selected_episode_id`, the facts of
the detail that decide what is offered, and whether its buttons are disabled (`locked`),
and what is in the fields next to a button (`form`): everything, only spaces, or
nothing, where an expiry that has passed counts as nothing. `flag` is
`scecs_command_processing` of the session state (`app.py:579-595`), `script` the run
that a click has started.

A click (`Click`) starts a run that reads the database anew, finds out what its
selectbox holds now and fires the button if this run renders it; a run that does
not fire it is one more rendering. `Warn` ends a run that finds the flag set;
`RunCommand` sets the flag and enters the service, `Proceed` is any step of that
command, `Succeed` and `Fail` are its outcomes. `Report` is the message and the reset of
the flag, `Finish` the `st.rerun()` behind it, which renders again, or the rest of
the run after an error. `Show` is a rendering for any other interaction, `ClickAgain`
another click on the button before the run has ended, `Interrupt` what becomes of it
at the next call of Streamlit, and `Reload` a new browser session.

The fields matter twice. The page disables a button whose fields are blank and that of
a suppression whose expiry is not in the future (`Enabled`, `app.py:283-439`); the
service validates those of a suppression once more (`Accepts`, `service.py:418-424`),
at another time and by another rule: it strips no spaces. Between the two a user can
empty a field and click at once, and an expiry can pass (`Click`, `FieldsAtService`).

Streamlit is not in the repository. What the model relies on: a selectbox
without a key is identified by its options and default, so that one whose options
changed is a new one and starts at its default; a button is identified by its
label; `disabled` is enforced by the browser and not by the server; and an
interaction while a run is under way ends that run at its next call of
Streamlit.

What a reader of the code may not expect, and the model has:

* The message is such a call (`app.py:586-592`), and the flag is reset after it. A
  click that waits there ends the run with the flag set: it is answered by the warning,
  and the page stays locked until it is reloaded. The command has run once
  (`EarlyClickNeverRuns`). A database error, which `app.py:585-594` does not catch, locks the
  page in the same way.
* `st.rerun()` is such a call, too, behind the reset. A click that comes between the
  message and the end of the run, or after it, runs the command again if the new run
  still renders its button: a second note or observation, or the opening of the next
  candidate of the list. Its key is fresh, so that the service takes it for a new command.
* The texts of notes, agreements, resolutions and closures are looked at by the page
  only. Such a command with an emptied field is accepted by the service, and a
  suppression is with fields of spaces.
* A candidate that another user opens leaves the list, the selectbox becomes a new
  one, and a click on "open" goes to the first candidate of the new list
  (`app.py:122`). `ActsOnShown` says that this is the only case, because the detail
  page keeps its episode in the session state.

Abstracted: the pages that only show, filters, wording, and the arguments of a
command other than the owner, the approver and whether its fields are filled in.

### BundleValidation

State. `bundle` is the directory, `manifest` what was read of its manifest,
`rejections` and `kept` what `validate_bundle` has found so far, `run` the status
of the pipeline run and `stored` the rows in the tables. A row is its number in its
file, a cell a number, an identity, `None` if it is empty or `Junk` if it is
nothing that could be read; columns that hold text cannot fail.

`Inspect` is `verify_bundle` and the scope check; `ParseDataset` parses one dataset
in the load order (`SkipDataset` and `ReadFails` if it is not declared or its file
is missing); `ValidateCrossDataset` runs only if nothing blocks; then
`CreateIngestionRun`, `BlockRun`, one `LoadDataset` for each dataset and
`Reconcile`. `LoadDataset` asks `PhysicalSchema` what the INSERT violates: keys,
foreign keys, not-null, check and exclusion constraints, and the two triggers on
the line of a schedule.

What a reader of the code may not expect, and the model has:

* Every file the manifest names is read, although the check before has found it
  missing; the error leaves `load_bundle` before there is a run (`unrecorded`).
  Comparisons of empty cells raise in the same way (`CrossRaises`).
* Blank lines are counted and not read: `csv.reader` counts them for the check of the
  manifest (`manifest.py:218-222`), `csv.DictReader` skips them for the parser
  (`readers.py:26`), and reconciliation compares what was read. A file with a blank
  line that its manifest counts is published with fewer rows than the manifest says, one
  that its manifest does not count is blocked. `PublishedIsWhole` therefore relates
  the counts of the manifest to rows and blank lines (`blanks`, `CountDataRows`).
* A row that parsing drops also takes its identity away: rows that refer to it
  block the bundle (`IdsOf`), so that no reference that was checked is dangling.
* An allocation of no receipt is looked at by no rule; the table refuses it
  because the column is not null, and this is the exception in
  `CheckedRulesHold`.
* Amounts are compared with a tolerance of a cent, quantities exactly; both are
  whole numbers here, amounts in cents.

Abstracted: one attempt on an empty database, one INSERT for each dataset
(`IngestionPipeline` has batches, races and earlier rows), files that do not change
while they are loaded, the texts of rejections.

### IngestionPipeline

State. `runs`, `rows`, `loads`, `recon`, `pubs` and `persisted` are the committed
tables: pipeline runs, domain rows with the attempt whose source load they name,
source loads, the reconciliation of each run as one verdict, publications, and
how often the rejections of the validation were written. `pc`, `bundle` and `tx`
are an attempt, which is one call of `load_bundle`; `dbUp` is the server.

`load_bundle` (`ingestion/service.py:96-175`) is a sequence of transactions, and
so is an attempt: `CreateIngestionRun`; `BlockRun` or `PersistRejections`; the
load transaction; and `FailConflict` or `FailDatabase` if it was rolled back.
Inside the load transaction there is a step wherever the code looks at something
another attempt may change: each batch is one SELECT of the existing rows
(`SelectBatch`) and one INSERT of the absent ones (`InsertBatch`), which waits
for another transaction that has inserted one of the keys and then fails
(`InsertFails`). The publication is the UPDATE of the current pointer, which has
found its row before it waits for it (`FindCurrent`, `Supersede`), and the INSERT
of the new one with the COMMIT (`CommitPublication`), or its failure on the
partial unique index.

Failures. `StatementFails` is any other database error; `Crash` ends the process
between any two steps; `DatabaseStops` rolls every open transaction back, and an
error that a handler cannot report ends the process (`Raise`). With `LostAcks` a
COMMIT may take effect although the client sees an error.

What a reader of the code may not expect, and the model has:

* A failed reconciliation *returns* from inside the transaction, so the rows, the
  source loads and the reconciliation of the failed run are committed
  (`CommitUnreconciled`); a conflict of identities *raises* and leaves nothing.
* The handler of a conflict persists the rejections a second time
  (`FailConflict`), so that `persisted` may be 2.
* A run whose process dies, or whose handler meets a database that is down,
  stays `running`; nothing resumes or cleans it. `RunsGetVerdict` therefore says that
  a run is decided or its process has ended, and that is all it says of crashes; it
  does say that waiting in a circle, failing statements and an outage that the process
  outlives never leave a run undecided.
* Two attempts may wait for each other's keys: each has inserted a row of one batch
  that the other's next batch holds (`WaitsFor`). PostgreSQL fails the statement of one
  of them, and the handler marks its run failed (`service.py:164`).
* `is_publication_eligible` is set with the publication and read by no one but the
  status query, so it is no variable of the model. No handler clears it: a run
  that `lost_ack` marks failed stays eligible.

Abstracted: validation, whose result is part of a bundle (its records, the
numbers of rejected rows, whether something blocks); file names, hashes and time
stamps; the identity of source loads, which is fresh in every attempt; the
counts of the run. Foreign keys between datasets are covered by `StatementFails`.

### RiskRules, RiskInputs and ScoringRun

`RiskRules` has one operator for each component, family, band, opening rule and
disposition of `rules.py`. A missing value is `None`, a rate a number of hundredths
of a per cent, a date a day. `RiskInputs` reads the `RiskInput` of a line from the
facts, which are the rows of the operational tables; its points in time are
hours, and the code takes the UTC day of them (`risk/service.py:129`).

`ScoringRun` is `score_operational_candidates` as one transaction: find or create
the run, find or create the rule version, select all lines in one statement, read
the facts of each line, and score and insert the candidates in the order of
`canonical_line_key`. Uncommitted inserts of a run, a rule version or a candidate
block those of the same key (`WaitsFor`). Between any two steps other runs commit,
ingestion loads facts, and the workflow opens and closes episodes.

Granularity. The code reads the facts of a line in about ten statements and the
model in one step (`CollectLine`): each statement reads a table of its own, the
steps of different lines interleave with loads, and no property relates two
facts of one line. The look-up of the active episode and that of an earlier
candidate are one step (`ScoreLine`): candidates are only added, and one that is
added between the two is met by the insert, which fails on it.

A command of the workflow is one step, its write. It decides by what it has read
before: the candidate without a link, and the active episode of its line or none.
`offers` is the set of what may have been read so; it grows when an eligible
candidate is committed (`NewOffers`) and when an episode is opened, and an offer
is never withdrawn, because nothing is validated again before the write.

`OpeningDesk` is this much of scoring and of the workflow, without their transactions.
`Insert` is the commit of a run, `LinkTo` and `OpenNew` are the two ends of
`open_episode_from_candidate`, `Close` is a closing; the link, disposition, line and
closing of the abstract state are those columns. Scoring shows that no run inserts a
candidate with any other link than one to an episode of its line, the workflow that its
commands write only what was offered, open no second active episode on a line and change
nothing else that scoring sees. In the mapping of the workflow every candidate at or
above the threshold was offered with every episode of its line, since its candidates are
there before any episode.

What a reader of the code may not expect, and the model has:

* Two commands for one candidate may both succeed: the second has read it
  before the first committed. Its link then moves to another episode of the line,
  if the first one was closed meanwhile, and the episode it opened first has no
  candidate that names it; or the disposition of a candidate that opened an
  episode becomes `linked-existing-active-episode`. `CandidatesAreKept` and
  `LinksAreJustified` therefore do not say that a link is final, but that it is
  never taken away, stays on the line and is only given where a rule asked
  for an episode.
* A run reference is looked up whatever the type of the run that has it, and a
  repetition keeps the earlier candidates but overwrites `accepted_row_count` with
  its own count.
* The link of a scored candidate was read before the insert; the episode may be
  closed by the time it commits (`LinksAreJustified` asks for an episode of the
  line, not for an active one). Opening such a candidate replays the closed
  episode.
* The lead-time baseline is always missing (`risk/service.py:147`), so that every
  score is qualified and every controlled order within seven days has the
  opening basis `OPEN_CRITICAL_DATA_GAP` unless its score opens it.
* The expected date is the earliest and the confirmed date the latest over all
  versions of a schedule, not those of the latest version.
* Receipts count whenever they were posted, also after the as-of time
  (`risk/service.py:358`): one that is loaded later lowers the residual quantity and
  with it the score of a later run for the same as-of time, although
  `docs/evaluation_data_boundary.md:19` wants nothing of a later time to count.
* The branch for a line without a value is never taken: the validation of a
  bundle stops at one (`validators.py:292-301`). Versions have a value here too.
* Two places where the code differs from the governing documents without a test
  or comment that would decide it are modelled as coded: DAT-01 is urgent within
  7 days (Appendix A of the governing document: 14), and dates are UTC dates.

Abstracted: identifiers, fingerprints, the wording of contributions, the
effective dates of rule versions.

## Model checking

| Run | Question | Instance |
|---|---|---|
| `concurrent` | Do the history, the projection, the approvals and the links survive races around opening, linking, resolution, reopening, suppression and closure, what may follow a closure, does the service implement the journal and the opening desk, and does every command end, whatever rows sessions wait for? | 2 sessions, 2 candidates of one line, empty tables or `e1` resolved, 3 new commands, fairness |
| `sequential` | One session at a time: does the service implement the lifecycle, are owners what the history says, are retries harmless? | 1 session, `e1` at 5 stages, 3 new commands and every retry |
| `stale_transition` | Does every change of state follow the matrix (`service.py:56`)? **Violated.** | 2 sessions, `e1` resolved, 2 new commands |
| `owner_race` | Is the row's owner the latest ownership event's (`service.py:248`)? **Violated.** | 2 sessions, `e1` resolved, 2 new commands |
| `load` | Are rows, rejections and failures accounted for, wherever attempts stop, and is every run decided unless its process ends? | 2 attempts, 6 bundles, batches of 1, one outage, crashes, fairness |
| `publish` | Is there one current publication of a stored bundle, and is it moved in one step? | 3 attempts, 4 bundles, batches of 2, one outage, crashes, lost acknowledgements |
| `lost_ack` | Does a failed attempt leave nothing behind (`docs/ingestion_pipeline.md:53`) if an acknowledgement is lost? **Violated.** | 2 attempts |
| `rejectable` | May a bundle with a record-rejectable row continue (`docs/ingestion_pipeline.md:69`)? **Violated.** | 2 attempts, 6 bundles |
| `scoring` | Are candidates explained, complete, kept and justified, does scoring implement the opening desk, and do runs never wait in a circle? | 2 calls, 2 references, 2 as-of times, 2 lines, 3 loads, 2 episodes |
| `pages` | Do commands reach what was shown, does no waiting click run one again, do they report what was done and fail only for a reason, and is every click answered? | 2 browsers of 2 users, 2 candidates of different lines, empty tables or `e1` resolved, 2 commands, fairness |
| `bundle` | Does what validation checked hold in the tables, do committed quantities, amounts and suppliers add up, and is a published bundle whole? | 1326 bundles |
| `unrecorded` | Is a blocked bundle recorded (`docs/ingestion_pipeline.md:53`)? **Violated.** | the same bundles |

### Bounds

Workflow. An instance has two users (a requester and the only approver), one line,
two episode identifiers and two sessions: every race is between two
transactions, and a third command covers what follows a race. `NewCommands`
bounds the recorded commands through the number of idempotency keys; keys are
interchangeable, so the runs take the smallest free one (`OnlyNew`; in `concurrent` as
a part of the step, so that no property is asked of others) and, where
retries matter, any used one (`RetriesOrNew`). Behaviours start from empty tables
or from the ordinary history of an episode cut off after n events (`StartAfter`),
because a race around the closure needs an episode that has come that far.

Ingestion. Two datasets (an insert that waits in one of them while the other is
done), two identities and two contents: a bundle can agree with a row, disagree
with it, repeat it within a batch or a file, and extend what is there. Two
attempts race over rows; the publication takes three, because the third can
publish between the two statements of another. `MaxOutages` bounds the stops of
the database; one is enough to meet every place of an attempt. In `load` a batch is one
row, so that attempts which load the same two rows in different orders wait for each
other in a circle; in `publish` a batch is a file, so that it may hold an identity twice, and
a conflict beside a row to insert.

Scoring. Line 1 is overdue, short of stock and has a poor supplier, line 2 is in
order until a load delays it; the other loads receive and cancel. The two calls
may take the same reference or two, at the same time or two days apart, over
empty tables or beside an earlier run. Two lines are the least that could wait
in a circle, and two episodes the least for a candidate to be linked again after the
first was closed.

Pages. Two users, each of them an approver, so that every action is open to both;
two candidates in lists that order them the same way, on lines of their own, so
that both can be opened. The episode in the middle of its lifecycle is `resolved`,
from which it can be closed, reopened, assigned and suppressed under a page that
still shows it so. `KeyLeft` lets users act while there is a key for a command:
two commands are what a race needs, and every number of page views, clicks and
reloads around them is explored. `NewInOrder` takes keys and episode identifiers
in order, because they are interchangeable, and `FilledIn` lets one of the users empty
fields, those of a suppression; both are parts of the step, so that no behaviour is
cut off in the middle of a command.

Bundles. The sound bundle has one row in each dataset. The others have one defect: any
cell empty, unreadable, dangling, negative, zero, too late or otherwise different, any
dataset empty or with a second row that shares an identity or a key, a blank line that
the manifest counts once, twice or not, a column or control file missing or added, a
manifest row wrong, repeated or added; or two defects that meet in a rule, such as two
versions of a line with different quantities, or a receipt and a schedule of different
lines. Which rule a defect meets is decided by the model, so that every constraint of
the 25 tables and every rejection code takes part. Two rows are the least for an order
in the file, a duplicate or a sum to matter. Nothing is concurrent here, so each bundle
is one behaviour.

Sessions, attempts and calls are symmetric, and `SYMMETRY` is used in runs without
temporal properties and for the action property of `scoring`. Deadlock is not
checked: a service without commands stops, an attempt or call ends, and the
bounds end every behaviour. That nobody waits for ever is a property of its own
(`CommandsEnd`, `RunsGetVerdict`, `NoCircularWait`, `ClicksAnswered`).

### Fairness

Workflow (`concurrent`): a session carries on with what it has begun, and a row lock
that is free again and again is obtained, as PostgreSQL queues its waiters in
order: strong fairness for the two steps that wait for locks. Neither new
commands nor crashes are assumed.

Ingestion (`load`): an attempt that is not killed runs on (weak fairness of `GoesOn`:
`Proceed`, or the error of the first statement that finds the database down), a
stopped database is restarted, and PostgreSQL fails a statement of attempts that wait
for each other in a circle (`DeadlockDetected`; without it TLC finds such a circle for
ever undecided). No other database error is forced, and none is excluded, nor are
crashes. Weak fairness is enough: the transaction an attempt waits for ends by its own
fairness, and none can overtake for ever because every attempt loads once.

Pages (`pages`): the server runs a script on until it ends, which is weak fairness of
the steps that wait for nobody (`Unhindered`), and a command in it waits for row
locks that are granted in order, which is strong fairness of the two steps that do, as
in `concurrent`. Of the failures only the one that is certain is forced: that of a
command whose commit the constraints refuse, or whose second part finds its key taken
(`Refuse`). A lock that were never released would leave a click without an answer, which is
what the mutant of `ClicksAnswered` shows. Nothing makes a user act, and reloading is not
assumed either: `ClicksAnswered` says that the run of a click reports or ends, not that
the page can be used again.

Scoring assumes no fairness; its runs are about safety, and that runs do not
wait in a circle is stated as an invariant.

### What the violated properties show

* `stale_transition`: a transition validated against a stale state is persisted.
  Two sessions load a resolved episode; one suppresses it, the other reopens it.
  The row lock orders the two updates but nothing validates the second again, and
  a suppressed episode becomes `investigating`, a pair the matrix does not have.
  The history stays gapless and the row still equals the latest event
  (`StateIsProjection` holds), so nothing in the data looks wrong. Only the
  closure is protected, by the check on `closed_at` (`ClosedIsFinal` holds). An
  assignment, an action or a link has no such constraint: the one a session has
  begun before the closure is recorded behind it, although `service.py:255` says that
  closed episodes cannot be assigned. `OnlyOverlapsFollowClosure` says how far this
  goes: one command of each other session, and nothing that begins later.
* `owner_race`: an assignment to the owner the session loaded sends no UPDATE, so
  that the row can disagree with the latest ownership event.
* `lost_ack`: the handler of database errors around the load also catches the
  error of a COMMIT that took effect, and marks a published run failed. The
  publication stays current and its rows stay in place.
* `rejectable`: the parser drops a rejected row, and the reconciliation subtracts it
  from the rows that were kept once more. A bundle with one such row always fails
  its reconciliation, and its rows are committed all the same.
* `unrecorded`: the check of the manifest reports a missing file as a rejection that
  blocks, and the parser opens the file all the same. `FileNotFoundError` leaves
  `load_bundle` before the run is created, so that neither a run nor a rejection is
  there to see.

One more thing the models show without a run of its own: the look-up of an
idempotency key compares event types only, so that a key that was used for
another command of the same type answers with that command's event. The pages
never do this, because their keys are fresh (`KeysFresh`, proved), and
`SuccessIsRecorded` fails as soon as they are not.

### Faults

Operators whose comment starts with "Fault:" are deliberate errors that belong to
no specification. Each replaces a definition to show that a property notices the
corresponding mistake (`mutants` in `PROJECT.json`); every property of a passing
run has one.

## Proofs

All theorems hold for every value of the constants; the assumptions are the
`ASSUME`s of the modules (`ServiceAssumption`, `PipelineAssumption`,
`ScoringAssumption`, `InterfaceAssumption`, `BundlesAssumption`, `NumbersAssumption`),
which type the constants and say that `None` is none of their elements, and what a
theorem assumes itself.

| Module | Theorem | Property |
|---|---|---|
| `WorkflowProofs` | `TypeCorrect` | `TypeOK` |
| | `OneActiveEpisodeAlways` | `OneActiveEpisode` |
| | `HistoryIsGapless` | `HistoryGapless` |
| | `ProjectionIsRebuildable` | `StateIsProjection` |
| | `ClosureIsFinal` | `ClosedIsFinal` |
| `WorkflowEvidenceProofs` | `HistoriesStartOpen` | `HistoryStartsWithOpening` |
| | `MaterialStatesApproved` | `MaterialStateApproved` |
| | `CandidateLinksConsistent` | `CandidateLinkConsistent` |
| `WorkflowRefinementProofs` | `JournalImplemented` | `ImplementsJournal` |
| | `DeskImplemented` | `ImplementsDesk` |
| | `OwnerAlwaysProjected` | `OwnerIsProjection`, assuming `OneSession` |
| | `OverlapsOnly` | `OnlyOverlapsFollowClosure`, for finitely many sessions |
| | `LifecycleImplemented` | `ImplementsLifecycle`, assuming `OneSession` |
| `UiProofs` | `PagesUseService` | the tables and transactions move by steps of the service |
| | `UiTypeCorrect` | `UiTypeOK` |
| | `ClicksActOnShown` | `ActsOnShown` |
| | `EarlyClicksNeverRun` | `EarlyClickNeverRuns` |
| | `ReportedIsRecorded` | `SuccessIsRecorded` |
| | `RefusalsNeedChange` | `RefusalNeedsChange` |
| `BundleProofs` | `BundleTyped` | `BundleTypeOK` |
| | `ReferencesFound` | `CheckedReferencesResolve` |
| | `CheckedRulesKept` | `CheckedRulesHold` |
| | `CommittedAddsUp` | `CommittedReconciles` |
| | `PublicationIsWhole` | `PublishedIsWhole` |
| `IngestionProofs` | `TypeCorrect` | `TypeOK` |
| | `OneCurrentAlways` | `OneCurrentPublication` |
| | `PublishedIsStored` | `PublishedBundleIsStored` |
| | `RowsAlwaysAccounted` | `RowsAreAccounted` |
| | `RejectionsAlwaysPersisted` | `RejectionsArePersisted` |
| | `FailureLeavesNothing` | `FailedAttemptLeavesNothing`, assuming `LostAcks = FALSE` |
| | `PointerImplemented` | `ImplementsPointer` |
| `RiskRulesProofs` | `FamilyPoints` | applied points are the gross points up to the cap |
| | `ScoreNeedsNoUpperClamp` | no input exceeds 100 points |
| | `OpeningNeedsReason` | what is opened below the thresholds |
| `ScoringProofs` | `TypeCorrect` | `ScoringTypeOK` |
| | `ScoresAlwaysExplained` | `ScoresAreExplained` |
| | `RunsAlwaysComplete` | `RunsAreComplete` |
| | `LinksAlwaysJustified` | `LinksAreJustified` |
| | `CandidatesAlwaysKept` | `CandidatesAreKept` |
| | `DeskImplemented` | `ImplementsDesk` |
| | `NeverCircularWait` | `NoCircularWait` |

Workflow. None of the properties is inductive. A session writes on the strength of
what it has read long before, so `IInv` says what is left of that knowledge when it
commits: the number it read was the next one (`NextIn`; it may be taken by now, but
it cannot leave a gap), its first row carries the state change (`Drafted`), the
command changes the state it loaded (`Validated`), and an identifier it is about to
open is not used by anybody else (`FreshIdentifiers`). The number being unused
together with `NextIn` makes it the last one (`NumberingGrows`), which is why a
commit both extends the history without a gap and is the latest state event.
The proof has one lemma per action; `SessionStep` covers all that leave the
tables alone.

Evidence. `EvidenceInv` adds what the code has checked when it loaded the row and
does not check again: which targets and owners an operation may make of that row
(`Permitted`), and that its drafts carry the approval that was given (`Evident`).
The commit turns drafts into events, and a state row of a material state is only
ever drafted with an independent approval; since the state of the episode is
that of the latest state event (`StateIsProjection`), so is its approval the one to
look for. Nothing of this needs what was loaded to be up to date, which is why it
holds for any number of sessions although `ChangesFollowMatrix` does not.

Journal. The abstract histories list the events of an episode by their ranks in a
set, so both refinements first show that a commit appends to these lists and
changes no earlier place (`Listed`, `InOrder`, `ColumnsGrow`, `CommitHistories`),
because its event has the greatest number. What a session has loaded may be stale,
but events are never taken back, so that it stays in the history (`Recalls`,
`MemoryInv`); with `Permitted`, which is about the loaded state, each commit is a
step of `EpisodeJournal` from a state the episode has been in, and the check on
`closed_at` leaves nothing but a second closing after a closure (`ClosedStays`).
This is what concurrent commands keep of the lifecycle: `stale_transition` shows that
no more can be said without a look at what was loaded.

Closures. A command is recorded behind a closure only if its session was at work when
the episode was closed. `Overlaps` (`WorkflowInvariant`) therefore counts the commands
recorded behind it together with those still under way on the closed episode: together
they are fewer than the sessions, because the one that closed it is none of them. A
commit takes one from the second number to the first, and no command begins on a closed
episode but one that is answered with what is there.

Desk. Both proofs map a commit to a step at the desk or to a stutter. For the
workflow, a session may hold a candidate that another command has linked since, but
one it has read was eligible, and no step makes a candidate fall below the
threshold (`WasEligible`, `DeskInv`); an episode that was active when it was read
stays on its line, and the partial unique index turns the absence of an active
episode that was read into one at the commit. For scoring, an offer is of a candidate
that met an opening rule, with an episode of its line (`OffersAreSound`), and what
a run is about to insert has at most a link to an episode of its line (`Fresh`). The
three workflow actions of `ScoringRun` were written to be the three of the desk, so
that what `ScoringProofs` shows in their presence it shows in the presence of the
service; that they leave nothing out is read off the two modules, not proved. The
workflow's side has its candidates from the start, so it says nothing of
candidates that are inserted while episodes are open, beyond what a session reads
of them.

One session. `OneSession` says that all sessions are the same; then what it has
loaded is still in the table when it commits (`UpToDate`), which is what
`ChangesFollowMatrix` and `OwnerIsProjection` lack otherwise, and each commit is a
step of `EpisodeLifecycle` from the state its history ends with, or a stutter for
links and actions.

Pages. `UInv` says how a page, the run it has started and the transaction of that run
fit together: the transaction is that of the button, with its target, user and key
(`Carries`), and the rows to insert have that key (`DraftsCarry`). Keys that are fresh
are in no event and no other session (`KeysFresh`), so that no command of a page is ever
a replay of another one's. What a button needs of the page and what the service asks are
compared button by button for `RefusalsNeedChange`: if the episode is in the state the
page showed, only the fields of a suppression are left to differ. A click that has
waited for the outcome finds the flag on (`EarlyClicksNeverRun`), because the flag is on
until the run of its command has reported. `PagesUseService` makes each step of a page a
step or a stutter of `WorkflowService`, so that the theorems of `WorkflowProofs` hold
under the pages and are used there. That a list which is not empty has a first element
(`FirstListed`) is an argument about the ranks of its members.

Bundles. `BInv` records what each stage has established: without a blocking
rejection every dataset is delivered as the manifest says (`InspectionInv`); what is
kept of a file are the rows that parse, and every other row has a rejection of
its own (`ParseInv`); a bundle that goes on to the tables has passed every rule across
datasets, and none of their conversions has raised (`LoadInv`, `CrossClean`); and in
the tables no column that must be filled is empty and no key is there twice
(`TablesInv`). A dataset is loaded after all those its checked columns refer to
(`ReferencedFirst`), so the rows a reference was checked against are in the tables
by then.

The validation and the tables look at the same rows in two ways, and the two
meet only where keys are unique. The validation takes the last record of the file with
an identity (`ById`), a table any row with it (`LineOf`); the validation takes the first
of the versions with the greatest amendment, the property any such version. For
`CheckedRulesKept` the rows referred to are in the tables already, so their
identities are unique (`Identified`), and the validation has compared the rows the
triggers will compare (`AllocationFits`). For `CommittedAddsUp` every table has its keys:
one row for each amendment of a line, so that the latest is the one the totals were
compared with (`LatestGreatest`). That there is a greatest among finitely many
numbers (`SomeGreatest`) follows from the well-foundedness of the strict subset relation
on finite sets, with no induction over data. The sum of a column stays a term:
both sides add the same column of the same file over the same rows.

For `PublicationIsWhole`: a difference of zero leaves no room for a rejected row,
because the rows of a dataset are finitely many and so are the cells that can be
rejected (`RejectedFinite`), and a file without a rejection is kept whole, save for
blank lines, which have passed the count of the manifest (`Delivered`). Of the
bundle it is assumed that a file has its rows one after the other
(`BundlesAssumption`), and that what can be read of a quantity, an amount, a date or a
point in time is an integer (`NumbersAssumption`): dates and points in time are
counted from some day, and the `NaN` and `Infinity` that `Decimal` also reads
(`contracts.py`, `parse_value`) are left out.

Ingestion. What an attempt has seen may be out of date when it inserts, but rows
are never removed: `SeenIsVisible` says that a row that was found is still that row,
and `LoadedIsVisible` that every record behind the position of the load can be seen
with its content, as a row of the database or an insert of the attempt. At the
commit both are the same, which gives `PublishedBundleIsStored`. Inserts that wait
make the keys of open transactions disjoint (`ExclusiveInserts`), so that no commit
overwrites another's row. `RunFollows` ties the row of a run to the place of its
attempt; only a lost acknowledgement brings a decided run to the handler, and this
is the disjunct `LostAcks` in it.

Rules. The caps allow 115 points, but no input exceeds 100: a line whose inventory
points come from the data rule has none from stock, and the visibility rule
excludes the delivery points. So the clamp in the code (`rules.py:117`) never makes a
score differ from the sum of its contributions at the top; at the bottom the
mitigation may. Arithmetic over some thirty inputs is beyond one call of the
solver: each family is bounded by a lemma of its own.

Scoring. `IInv` adds to the properties what an open transaction has: its draft and
its uncommitted candidates are sound in the sense of the committed ones
(`TxFollows`), it holds keys nobody has committed (`InsertsFollow`,
`ExclusiveInserts`), what commands may have read is a candidate with an opening
basis (`OffersAreSound`), and every line it has passed has a candidate, committed or its
own (`LinesFollow`), which is what `RunsAreComplete` needs at the commit. That calls
never wait in a circle is an argument about an order: every call takes the keys in
the order run, rule version, lines ascending, and waits for a call that has taken
the key already, so the one that waits for the greatest key waits for nobody.
`NoCircularWait` is this for any set of calls, including cycles of more than the two
that the run has.

Only model-checked: the liveness properties (`CommandsEnd`, `RunsGetVerdict`,
`ClicksAnswered`), because fairness and `ENABLED` are out of the prover's reach. Sums
over sets are folds, about which only induction could say anything: `CommittedAddsUp`
says which rows a sum is over, not what it comes to, and the theorems about scoring
need nothing of them, because those of `RiskRulesProofs` hold for every input, of
whatever type.

## Plan

1. Done: the workflow service, all its safety properties, its abstract lifecycle
   and journal, and both refinements proved; the opening desk between scoring and
   the workflow, proved from both sides; ingestion with crashes, reconciliation and
   publication; validation over all datasets and the constraints of their tables;
   the risk rules and the scoring run; the user interface over the service.
2. `SyntheticData`: the allocation of quantities over receipts and schedules and the
   generator's own validation rules, as pure operators that make bundles for
   `BundleValidation`.
3. Loads of several bundles, one after the other, over `PhysicalSchema`: which
   amendments of stored rows the tables accept.
4. The immutability triggers, once code exists that would meet them.

## Not modelled

* Immutability triggers (migration 0004): they forbid changing history rows and a
  second successor of an episode. No code of the repository attempts either, so a
  model of them would only restate them.
* Power BI views (migration 0005) and the read-only pages: they keep no state and
  decide nothing.
* The synthetic generator (`synthetic/*`): a deterministic function that makes test
  data; nothing of it runs beside the rest.
* Command line, configuration, health check, logging: no protocol.
* SLA, notification and severity-override tables: in the schema, written by no
  code.
