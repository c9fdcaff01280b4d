----------------------------- MODULE ScoringRun -----------------------------
(***************************************************************************)
(* score_operational_candidates over PostgreSQL at READ COMMITTED: one     *)
(* transaction that finds or creates its run and the rule version, reads   *)
(* all lines, and then scores and persists them one by one.  Meanwhile     *)
(* ingestion commits further facts, other scoring runs commit candidates,  *)
(* and the workflow opens and closes episodes.                             *)
(*                                                                         *)
(* A command of the workflow is one step here, its write.  What it read    *)
(* before it, offers remembers; WorkflowService has all its steps, and     *)
(* OpeningDesk is what both make of candidates and episodes.               *)
(***************************************************************************)
EXTENDS RiskInputs

CONSTANTS
  Scorers,     \* calls of score_operational_candidates
  References,  \* run references that callers give
  AsOfTimes,   \* the as_of arguments, in hours
  LineCount,   \* the number of purchase-order lines
  Facts,       \* rows that ingestion may load
  Loads,       \* the rows of one load, each a set of facts
  Opening,     \* the facts at the start
  Histories,   \* sets of runs there may be at the start, over tables that were empty
  EpisodeIds

\* The lines, numbered in the order of canonical_line_key.
Lines == 1 .. LineCount

\* What the tables of candidates and episodes may hold.
ResultType ==
  [score: 0 .. 100, band: {"monitor", "medium", "high", "critical"},
   points: [DOMAIN FamilyCaps -> 0 .. 40], mitigation: {0, -15}, qualified: BOOLEAN,
   basis: {"OPEN_SCORE", "OPEN_CRITICAL_DATA_GAP", "OPEN_CONTROLLED_ORDER", None}]

CandidateType ==
  [result: ResultType, asOf: AsOfTimes, link: EpisodeIds \cup {None},
   disposition: {"below-opening-threshold", "opening-eligible-no-workflow",
                 "linked-existing-active-episode", "opened-new-episode"}]

EpisodeType == [line: Lines, opener: References, active: BOOLEAN]

ASSUME ScoringAssumption ==
  /\ LineCount \in Nat
  /\ AsOfTimes \subseteq Nat
  /\ Opening \subseteq Facts
  /\ Histories \subseteq SUBSET References
  /\ Loads \subseteq SUBSET Facts
  /\ None \notin EpisodeIds /\ None \notin Nat /\ None \notin References
  /\ None \notin EpisodeType /\ None \notin CandidateType
  /\ None \notin {"OPEN_SCORE", "OPEN_CRITICAL_DATA_GAP", "OPEN_CONTROLLED_ORDER"}

VARIABLES
  facts,       \* the operational tables
  runs,        \* pipeline_runs of scoring: accepted_row_count
  approved,    \* whether the rule version and its components are there
  candidates,  \* candidate_risk_evaluations by run and line
  episodes,    \* exception_episodes: line, opening candidate, closed or not
  offers,      \* what a command may have read: a candidate without a workflow,
               \* and the active episode of its line or None
  pc,          \* where each call is
  tx           \* its open transaction

vars == <<facts, runs, approved, candidates, episodes, offers, pc, tx>>
------------------------------------------------------------------------------
NewTx ==
  [ref |-> None, asOf |-> 0, creates |-> FALSE, approves |-> FALSE,
   versions |-> [l \in Lines |-> None], inputs |-> [l \in Lines |-> None],
   todo |-> {}, draft |-> None, new |-> [l \in Lines |-> None]]

InTransaction ==
  {"creating", "finding", "approving", "selecting", "collecting", "scoring", "inserting"}

Go(p, place) == pc' = [pc EXCEPT ![p] = place]

Abort(p) == Go(p, "failed") /\ tx' = [tx EXCEPT ![p] = NewTx]

\* Fault: no ORDER BY, so that the order comes with the plan; here it differs
\* between the as-of times.
UnorderedLine(p) == IF tx[p].asOf = Min(AsOfTimes) THEN Max(tx[p].todo) ELSE Min(tx[p].todo)

\* The lines are handled in the order of _latest_open_line_statement.
NextLine(p) == Min(tx[p].todo)

\* An INSERT waits for a transaction that has inserted its key: the reference of
\* the run, the rule version, or the candidate's run and line.
WaitsFor(p, q) ==
  \/ pc[p] = "creating" /\ tx[q].creates /\ tx[q].ref = tx[p].ref
  \/ pc[p] = "approving" /\ tx[q].approves
  \/ pc[p] = "inserting" /\ tx[q].ref = tx[p].ref /\ tx[q].new[NextLine(p)] # None

Waits(p) == \E q \in Scorers \ {p} : WaitsFor(p, q)
------------------------------------------------------------------------------
(* The run and the rule version *)

\* The SELECT of _get_or_create_scoring_run; a run of that reference is reused.
Start(p) ==
  /\ pc[p] = "idle"
  /\ \E ref \in References, asOf \in AsOfTimes :
       /\ tx' = [tx EXCEPT ![p].ref = ref, ![p].asOf = asOf]
       /\ Go(p, IF runs[ref] = None THEN "creating" ELSE "finding")
  /\ UNCHANGED <<facts, runs, approved, candidates, episodes, offers>>

\* Its INSERT, which fails if another run of the reference is there by now.
InsertRun(p) ==
  /\ pc[p] = "creating"
  /\ ~ Waits(p)
  /\ IF runs[tx[p].ref] = None
     THEN tx' = [tx EXCEPT ![p].creates = TRUE] /\ Go(p, "finding")
     ELSE Abort(p)
  /\ UNCHANGED <<facts, runs, approved, candidates, episodes, offers>>

\* _ensure_rule_version: a fixed identifier, created by the first run.
FindRules(p) ==
  /\ pc[p] = "finding"
  /\ Go(p, IF approved THEN "selecting" ELSE "approving")
  /\ UNCHANGED <<facts, runs, approved, candidates, episodes, offers, tx>>

InsertRules(p) ==
  /\ pc[p] = "approving"
  /\ ~ Waits(p)
  /\ IF ~ approved
     THEN tx' = [tx EXCEPT ![p].approves = TRUE] /\ Go(p, "selecting")
     ELSE Abort(p)
  /\ UNCHANGED <<facts, runs, approved, candidates, episodes, offers>>
------------------------------------------------------------------------------
(* Collection: the lines in one statement, what belongs to them in later ones *)

SelectLines(p) ==
  /\ pc[p] = "selecting"
  /\ tx' = [tx EXCEPT ![p].versions = [l \in Lines |-> OpenVersion(l, facts)],
                      ![p].todo = {l \in Lines : OpenVersion(l, facts) # None}]
  /\ Go(p, "collecting")
  /\ UNCHANGED <<facts, runs, approved, candidates, episodes, offers>>

\* A line without residual quantity is no candidate.
CollectLine(p) ==
  /\ pc[p] = "collecting"
  /\ tx[p].todo # {}
  /\ LET line == NextLine(p)
         x == RiskInput(line, tx[p].versions[line], facts, tx[p].asOf)
     IN  tx' = [tx EXCEPT ![p].todo = @ \ {line},
                          ![p].inputs[line] = IF x.residual > 0 THEN x ELSE None]
  /\ UNCHANGED <<facts, runs, approved, candidates, episodes, offers, pc>>

\* Fault: every open line counts, whether it has a residual quantity or not.
SelectedLines(p) == {l \in Lines : tx[p].versions[l] # None}

Evaluated(p) == {l \in Lines : tx[p].inputs[l] # None}

BeginScoring(p) ==
  /\ pc[p] = "collecting"
  /\ tx[p].todo = {}
  /\ tx' = [tx EXCEPT ![p].todo = {l \in Lines : tx[p].inputs[l] # None}]
  /\ Go(p, "scoring")
  /\ UNCHANGED <<facts, runs, approved, candidates, episodes, offers>>
------------------------------------------------------------------------------
(* Scoring *)

ActiveEpisodes(line) ==
  {e \in EpisodeIds : episodes[e] # None /\ episodes[e].line = line /\ episodes[e].active}

\* _active_episode_id
ActiveEpisode(line) ==
  IF ActiveEpisodes(line) = {} THEN None ELSE CHOOSE e \in ActiveEpisodes(line) : TRUE

Candidate(x, asOf, link) ==
  [result |-> ScoreCandidate(x), asOf |-> asOf,
   disposition |-> Disposition(x, link # None), link |-> link]

\* The active episode and an earlier candidate of the run are looked up; a
\* candidate that is there is left alone.
ScoreLine(p) ==
  /\ pc[p] = "scoring"
  /\ tx[p].todo # {}
  /\ LET line == NextLine(p)
     IN  IF candidates[tx[p].ref][line] # None
         THEN tx' = [tx EXCEPT ![p].todo = @ \ {line}] /\ pc' = pc
         ELSE /\ tx' = [tx EXCEPT ![p].draft =
                          Candidate(tx[p].inputs[line], tx[p].asOf, ActiveEpisode(line))]
              /\ Go(p, "inserting")
  /\ UNCHANGED <<facts, runs, approved, candidates, episodes, offers>>

\* Fault: no unique constraint on run, line and site.
NeverTaken(p) == FALSE

\* The unique constraint on run, line and site.
Taken(p) == candidates[tx[p].ref][NextLine(p)] # None

InsertCandidate(p) ==
  /\ pc[p] = "inserting"
  /\ ~ Waits(p)
  /\ IF Taken(p)
     THEN Abort(p)
     ELSE /\ tx' = [tx EXCEPT ![p].new[NextLine(p)] = tx[p].draft, ![p].draft = None,
                              ![p].todo = @ \ {NextLine(p)}]
          /\ Go(p, "scoring")
  /\ UNCHANGED <<facts, runs, approved, candidates, episodes, offers>>

\* Fault: a candidate without an episode is opened, whatever its disposition.
AnyUnlinked(c) == c # None /\ c.link = None

Eligible(c) == c # None /\ c.disposition = "opening-eligible-no-workflow"

\* From the commit of an eligible candidate on, a command may read it and find the
\* episode that is active on its line, if there is one.
NewOffers(p) ==
  {o \in ({tx[p].ref} \X Lines) \X (EpisodeIds \cup {None}) :
     /\ Eligible(tx[p].new[o[1][2]])
     /\ o[2] \in ActiveEpisodes(o[1][2]) \cup {None}}

\* The run becomes a success, or has been one; its count is that of this call.
CommitRun(p) ==
  /\ pc[p] = "scoring"
  /\ tx[p].todo = {}
  /\ runs' = [runs EXCEPT ![tx[p].ref] = Cardinality(Evaluated(p))]
  /\ candidates' = [candidates EXCEPT ![tx[p].ref] =
                      [l \in Lines |-> IF tx[p].new[l] # None THEN tx[p].new[l] ELSE @[l]]]
  /\ approved' = (approved \/ tx[p].approves)
  /\ offers' = offers \cup NewOffers(p)
  /\ Go(p, "done")
  /\ tx' = [tx EXCEPT ![p] = NewTx]
  /\ UNCHANGED <<facts, episodes>>

\* An error or a crash rolls everything back, the run included.
RollBack(p) ==
  /\ pc[p] \in InTransaction
  /\ Abort(p)
  /\ UNCHANGED <<facts, runs, approved, candidates, episodes, offers>>
------------------------------------------------------------------------------
(* What others commit *)

\* The load transaction of an ingestion run (IngestionPipeline).
Load(rows) ==
  /\ ~ rows \subseteq facts
  /\ facts' = facts \cup rows
  /\ UNCHANGED <<runs, approved, candidates, episodes, offers, pc, tx>>

Link(ref, line, e, disposition) ==
  candidates' = [candidates EXCEPT ![ref][line].link = e,
                                   ![ref][line].disposition = disposition]

\* open_episode_from_candidate.  What it has read it does not read again: the
\* candidate may have a link by now, and the episode it found may be closed.
LinkCandidate(ref, line, e) ==
  /\ <<<<ref, line>>, e>> \in offers
  /\ Link(ref, line, e, "linked-existing-active-episode")
  /\ UNCHANGED <<facts, runs, approved, episodes, offers, pc, tx>>

\* The unique index admits no second active episode on the line.  Whoever has read
\* a candidate of the line may now find the new episode.
OpenFromCandidate(ref, line, e) ==
  /\ <<<<ref, line>>, None>> \in offers
  /\ ActiveEpisodes(line) = {}
  /\ episodes[e] = None
  /\ episodes' = [episodes EXCEPT ![e] = [line |-> line, opener |-> ref, active |-> TRUE]]
  /\ Link(ref, line, e, "opened-new-episode")
  /\ offers' = offers \cup {o \in (References \X {line}) \X {e} : <<o[1], None>> \in offers}
  /\ UNCHANGED <<facts, runs, approved, pc, tx>>

\* A transition to closed.
CloseEpisode(e) ==
  /\ episodes[e] # None
  /\ episodes[e].active
  /\ episodes' = [episodes EXCEPT ![e].active = FALSE]
  /\ UNCHANGED <<facts, runs, approved, candidates, offers, pc, tx>>
------------------------------------------------------------------------------
Init ==
  /\ facts = Opening
  /\ \E earlier \in Histories :
       /\ runs = [r \in References |-> IF r \in earlier THEN 0 ELSE None]
       /\ approved = (earlier # {})
  /\ candidates = [r \in References |-> [l \in Lines |-> None]]
  /\ episodes = [e \in EpisodeIds |-> None]
  /\ offers = {}
  /\ pc = [p \in Scorers |-> "idle"]
  /\ tx = [p \in Scorers |-> NewTx]

\* What a call does next on its own.
Proceed(p) ==
  \/ InsertRun(p) \/ FindRules(p) \/ InsertRules(p)
  \/ SelectLines(p) \/ CollectLine(p) \/ BeginScoring(p)
  \/ ScoreLine(p) \/ InsertCandidate(p) \/ CommitRun(p)

Next ==
  \/ \E p \in Scorers : Start(p) \/ Proceed(p) \/ RollBack(p)
  \/ \E rows \in Loads : Load(rows)
  \/ \E e \in EpisodeIds :
       \/ \E ref \in References, line \in Lines :
            LinkCandidate(ref, line, e) \/ OpenFromCandidate(ref, line, e)
       \/ CloseEpisode(e)

Spec == Init /\ [][Next]_vars
==============================================================================
