-------------------------- MODULE WorkflowRefinement --------------------------
(***************************************************************************)
(* The workflow service as an implementation of EpisodeLifecycle, and of   *)
(* EpisodeJournal when commands overlap.  The abstract histories are the   *)
(* typed event rows in event order, so that the abstract current state is  *)
(* what the immutable history says, not the column of the episode row.     *)
(***************************************************************************)
EXTENDS WorkflowProperties

InOrder(S) ==
  [i \in 1 .. Cardinality(S) |->
     CHOOSE v \in S : Cardinality({w \in S : w.seq < v.seq}) = i - 1]

StateHistory(e) ==
  LET rows == InOrder(StateEventsOf(e)) IN [i \in DOMAIN rows |-> rows[i].to]

OwnerHistory(e) ==
  LET rows == InOrder(OwnerEventsOf(e)) IN [i \in DOMAIN rows |-> rows[i].owner]

Abstract == INSTANCE EpisodeJournal WITH
  Owners <- Users,
  line <- {<<e, episode[e].line>> : e \in Opened},
  states <- [e \in Episodes |-> StateHistory(e)],
  owners <- [e \in Episodes |-> OwnerHistory(e)]

\* With one session at a time the service implements the lifecycle: empty
\* tables are its initial state, and every commit, from there or from any
\* history the lifecycle allows, is one of its steps, taken from the state the
\* history says the episode is in.
ImplementsLifecycle ==
  /\ events = {} => Abstract!Init
  /\ [][Abstract!Next]_(Abstract!vars)

\* However many sessions interleave, the service implements the journal: what a
\* commit adds was allowed from a state in the history, a line never has two
\* unfinished episodes, and a closed one gets no other state.
ImplementsJournal ==
  /\ events = {} => Abstract!Init
  /\ [][Abstract!JournalNext]_(Abstract!vars)
------------------------------------------------------------------------------
DeskDisposition == [c \in Candidates |-> candidate[c].disposition]
DeskLink == [c \in Candidates |-> candidate[c].linked]
DeskLine == {<<e, episode[e].line>> : e \in Opened}
DeskActive == {e \in Opened : ~ episode[e].closed}

\* Every candidate that had no episode at first may have been read, with every
\* episode of its line: candidates are there from the start.
DeskOffers ==
  {o \in Candidates \X (Episodes \cup {None}) :
    /\ candidate[o[1]].disposition # "below-opening-threshold"
    /\ o[2] # None => o[2] \in Opened /\ episode[o[2]].line = LineOf[o[1]]}

Desk == INSTANCE OpeningDesk WITH
  disposition <- DeskDisposition, link <- DeskLink, line <- DeskLine,
  active <- DeskActive, offers <- DeskOffers

\* However many sessions interleave, candidates are linked and episodes opened and
\* closed as the desk allows: what ScoringRun takes the workflow to do is all that
\* the service does (service.py 89-168).
ImplementsDesk ==
  /\ events = {} => Desk!Init
  /\ [][Desk!Next]_(Desk!vars)
==============================================================================
