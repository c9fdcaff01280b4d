-------------------------- MODULE WorkflowInvariant --------------------------
(***************************************************************************)
(* The inductive invariant behind the safety properties of the workflow    *)
(* tables: what the tables satisfy, and what a session that is under way   *)
(* still knows to be true although other sessions have committed since it  *)
(* read.                                                                   *)
(***************************************************************************)
EXTENDS WorkflowProperties

EventNumbers(e) == {v.seq : v \in EventsOf(e)}
EpisodeNumbers(l) == {episode[e].number : e \in {f \in Opened : episode[f].line = l}}

Numbered(S) == \E n \in Nat : S = 1 .. n

\* A number that was max+1 when it was read: it may be taken by now, but it
\* does not leave a gap.
NextIn(n, S) == n \in Nat \ {0} /\ (n = 1 \/ n - 1 \in S)

Working(t) == t.phase \in {"read", "flushed"}
Opening(t) == Working(t) /\ t.op = "open"

\* What validation established and commit relies on.  It is about the state
\* that was loaded, which may no longer be the state of the row.
Validated(t) ==
  /\ t.op \in Operations
  /\ t.episode \in Episodes
  /\ t.key \in EventKeys
  /\ t.op \in {"open", "link"} => t.candidate \in Candidates
  /\ t.op = "open" => t.state = None /\ t.to = "open"
  /\ t.op # "open" => /\ t.episode \in Opened
                      /\ t.state \in SupportedStates
                      /\ t.to \in SupportedStates
  /\ t.op \in {"link", "action"} => t.to = t.state
  /\ t.op = "assign" => t.to = (IF t.state = "open" THEN "assigned" ELSE t.state)
  /\ t.op \in {"transition", "suppress", "agreement"} => t.to # t.state

\* The rows to insert: the first carries the state change, if there is one.
Drafted(t) ==
  /\ Len(t.drafts) \in {1, 2}
  /\ \A i \in 1 .. Len(t.drafts) :
       t.drafts[i] \in EventRows /\ t.drafts[i].episode = t.episode
  /\ t.drafts[1].to = (IF StateWritten(t) THEN t.to ELSE None)
  /\ Len(t.drafts) = 2 => t.drafts[2].to = None

TxInv(t) ==
  /\ t.phase = "candidate" => /\ t.op = "open"
                              /\ t.candidate \in Candidates
                              /\ t.key \in EventKeys
                              /\ t.state = None
  /\ Working(t) => Validated(t)
  /\ t.phase = "flushed" =>
       /\ Drafted(t)
       /\ NextIn(t.seq, EventNumbers(t.episode))
       /\ t.op = "open" => NextIn(t.number, EpisodeNumbers(LineOf[t.candidate]))

\* An identifier that is about to be used belongs to one session.
FreshIdentifiers ==
  /\ \A s \in Sessions : Opening(tx[s]) => tx[s].episode \notin Opened
  /\ \A s, r \in Sessions :
       (Opening(tx[s]) /\ Opening(tx[r]) /\ tx[s].episode = tx[r].episode) => s = r

EventsNumbered ==
  /\ \A e \in Episodes : Numbered(EventNumbers(e))
  /\ \A v, w \in events : (v.episode = w.episode /\ v.seq = w.seq) => v = w

EventsOfOpened == \A v \in events : v.episode \in Opened

EpisodesNumbered == \A l \in Lines : Numbered(EpisodeNumbers(l))

ClosedRowsConsistent == \A e \in Opened : ClosedConsistent(episode[e])

IInv ==
  /\ TypeOK
  /\ ClosedRowsConsistent
  /\ EventsOfOpened
  /\ EventsNumbered
  /\ EpisodesNumbered
  /\ OneActiveEpisode
  /\ StateIsProjection
  /\ \A s \in Sessions : TxInv(tx[s])
  /\ FreshIdentifiers
------------------------------------------------------------------------------
(* The evidence behind a state: who approved it, what opened the episode   *)
(* and which candidates it answers.                                        *)

Approved(approval) == approval \in Users \X Users /\ IndependentApproval(approval)

\* What an operation may make of the row it loaded.
Permitted(t) ==
  CASE t.op = "open" -> t.to = "open"
    [] t.op \in {"link", "action"} -> /\ t.state # "closed"
                                      /\ t.to = t.state
                                      /\ t.owner = t.holder
    [] t.op = "assign" -> /\ t.state \in ActiveStates
                          /\ t.owner \in Users
                          /\ t.to = IF t.state = "open" THEN "assigned" ELSE t.state
    [] t.op = "suppress" -> /\ t.state \in SuppressibleStates
                            /\ t.to = "suppressed"
                            /\ t.owner = t.holder
                            /\ Approved(t.approval)
    [] OTHER -> /\ <<t.state, t.to>> \in StateTransitions
                /\ t.owner = t.holder
                /\ t.op = "agreement" => t.to = "action_agreed"
                /\ t.to \in MaterialStates => Approved(t.approval)

\* A row that the session is about to insert, event d of its command.
DraftOf(t, d) ==
  /\ d.key[1] = t.key[1]
  /\ d.to \in MaterialStates => Approved(d.approval)
  /\ t.op = "link" => d.type = "candidate_linked"
  /\ d.type = "ownership_changed" <=> t.op = "assign"
  /\ t.op = "assign" => d.owner = t.owner

Evident(t) ==
  /\ Working(t) => /\ Permitted(t)
                   /\ t.op = "link" => episode[t.episode].line = LineOf[t.candidate]
  /\ t.phase = "flushed" => /\ \A i \in 1 .. Len(t.drafts) : DraftOf(t, t.drafts[i])
                            /\ t.op # "agreement" => Len(t.drafts) = 1

EventsApproved == \A v \in events : v.to \in MaterialStates => Approved(v.approval)

EvidenceInv ==
  /\ IInv
  /\ EventsApproved
  /\ HistoryStartsWithOpening
  /\ CandidateLinkConsistent
  /\ \A s \in Sessions : Evident(tx[s])
------------------------------------------------------------------------------
(* Who can still write to an episode that is closed: the sessions that have *)
(* loaded it, none of them the one that closed it.                         *)

StillAt(e) == {s \in Sessions : Working(tx[s]) /\ tx[s].episode = e}

Overlaps(e) ==
  /\ IsFiniteSet(RecordedAfterClosure(e))
  /\ Cardinality(RecordedAfterClosure(e)) + Cardinality(StillAt(e)) < Cardinality(Sessions)

OverlapInv == EvidenceInv /\ \A e \in Opened : episode[e].closed => Overlaps(e)
------------------------------------------------------------------------------
(* What a session has loaded may be stale, but it is in the history.       *)

Recalls(t) ==
  Working(t) /\ t.op # "open" => \E v \in StateEventsOf(t.episode) : v.to = t.state

MemoryInv == EvidenceInv /\ \A s \in Sessions : Recalls(tx[s])
------------------------------------------------------------------------------
(* A candidate that a session has read may have got its episode since, but  *)
(* it was eligible when it was read.                                       *)

WasEligible(t) ==
  (t.phase = "candidate" \/ (Working(t) /\ t.op \in {"open", "link"})) =>
    candidate[t.candidate].disposition # "below-opening-threshold"

DeskInv == EvidenceInv /\ \A s \in Sessions : WasEligible(tx[s])
------------------------------------------------------------------------------
(* One session at a time: what a session has loaded is what the row says.  *)

OneSession == \A s, r \in Sessions : s = r

UpToDate(t) ==
  Working(t) /\ t.op # "open" => /\ t.state = episode[t.episode].state
                                 /\ t.holder = episode[t.episode].owner

SequentialInv ==
  /\ EvidenceInv
  /\ OwnerIsProjection
  /\ \A s \in Sessions : UpToDate(tx[s])
==============================================================================
