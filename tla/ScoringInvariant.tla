-------------------------- MODULE ScoringInvariant --------------------------
(***************************************************************************)
(* The inductive invariant behind the safety properties of scoring: what a *)
(* call has made sure of at each place of its transaction, and what other  *)
(* calls, loads and commands of the workflow cannot take from it.          *)
(***************************************************************************)
EXTENDS ScoringProperties

\* The open transactions are records with the fields of NewTx.
TxShape ==
  /\ tx = [p \in Scorers |-> tx[p]]
  /\ \A p \in Scorers : DOMAIN tx[p] = DOMAIN NewTx

\* A candidate of a run, committed or not, that may stand on a line.
Sound(c, ref, line) ==
  /\ c \in CandidateType
  /\ Explains(c.result)
  /\ LinkFollows(c, ref, line)
  /\ Eligible(c) => c.result.basis # None

\* One that scoring has just made has not opened anything.
Fresh(c, ref, line) == Sound(c, ref, line) /\ c.disposition # "opened-new-episode"

Selected == {"selecting", "collecting", "scoring", "inserting"}

\* What a transaction has inserted, and what it is about to insert.
TxFollows(p) ==
  /\ pc[p] \notin InTransaction => tx[p] = NewTx
  /\ tx[p].creates => pc[p] \in InTransaction \ {"creating"}
  /\ tx[p].approves => pc[p] \in Selected
  /\ pc[p] \in Selected => approved \/ tx[p].approves
  /\ pc[p] = "inserting" => tx[p].todo # {} /\ Fresh(tx[p].draft, tx[p].ref, NextLine(p))

\* Lines are inserted in order, each by one open transaction of the run at most.
InsertsFollow(p) ==
  \A l \in Lines :
    tx[p].new[l] # None =>
      /\ pc[p] \in {"scoring", "inserting"}
      /\ Fresh(tx[p].new[l], tx[p].ref, l)
      /\ candidates[tx[p].ref][l] = None
      /\ \A k \in tx[p].todo : l < k

\* No line that was evaluated gets lost.
LinesFollow(p) ==
  pc[p] \in {"scoring", "inserting"} =>
    \A l \in Evaluated(p) :
      l \in tx[p].todo \/ tx[p].new[l] # None \/ candidates[tx[p].ref][l] # None

CallInv(p) == TxFollows(p) /\ InsertsFollow(p) /\ LinesFollow(p)

ExclusiveInserts ==
  \A p, q \in Scorers : \A l \in Lines :
    tx[p].ref = tx[q].ref /\ tx[p].new[l] # None /\ tx[q].new[l] # None => p = q

CandidatesAreSound ==
  \A r \in References, l \in Lines :
    candidates[r][l] # None => Sound(candidates[r][l], r, l)

EpisodesAreOpened ==
  \A e \in EpisodeIds :
    episodes[e] # None => Opens(candidates[episodes[e].opener][episodes[e].line])

\* What a command may have read still has its opening basis, and the episode is
\* one of the line.
OffersAreSound ==
  \A r \in References, l \in Lines, e \in EpisodeIds \cup {None} :
    <<<<r, l>>, e>> \in offers =>
      /\ candidates[r][l] # None /\ candidates[r][l].result.basis # None
      /\ e # None => episodes[e] # None /\ episodes[e].line = l

TablesInv ==
  /\ RunsAreComplete /\ CandidatesAreSound /\ EpisodesAreOpened /\ OffersAreSound

IInv ==
  /\ ScoringTypeOK /\ TxShape /\ TablesInv /\ ExclusiveInserts
  /\ \A p \in Scorers : CallInv(p)
==============================================================================
