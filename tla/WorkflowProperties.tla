-------------------------- MODULE WorkflowProperties --------------------------
(***************************************************************************)
(* What must hold of the workflow tables, whoever runs which commands.     *)
(***************************************************************************)
EXTENDS WorkflowService

StateEventsOf(e) == {v \in EventsOf(e) : v.to # None}
OwnerEventsOf(e) == {v \in EventsOf(e) : v.type = "ownership_changed"}

IsLatest(v, S) == v \in S /\ \A w \in S : w.seq <= v.seq

EpisodeRows ==
  [line : Lines, number : Nat, state : SupportedStates, owner : Users \cup {None},
   closed : BOOLEAN]

EventKeys == Keys \X {"command", "state"}

EventRows ==
  [episode : Episodes, seq : Nat, key : EventKeys, type : EventTypes,
   from : SupportedStates \cup {None}, to : SupportedStates \cup {None},
   previous : Users \cup {None}, owner : Users \cup {None},
   category : Categories \cup {None}, approval : (Users \X Users) \cup {None}]

Phases == {"idle", "candidate", "read", "flushed", "replayed"}

Operations == {"open", "link", "transition", "assign", "suppress", "action", "agreement"}

Transactions ==
  [phase : Phases, op : Operations \cup {None}, episode : Episodes \cup {None},
   candidate : Candidates \cup {None}, key : EventKeys \cup {None},
   state : SupportedStates \cup {None}, to : SupportedStates \cup {None},
   holder : Users \cup {None}, owner : Users \cup {None},
   category : Categories \cup {None}, approval : (Users \X Users) \cup {None},
   seq : Nat, number : Nat, drafts : Seq(EventRows)]

\* Every table row and every session record has the columns of its type.
TypeOK ==
  /\ episode \in [Episodes -> EpisodeRows \cup {Absent}]
  /\ candidate \in [Candidates -> [disposition : Dispositions, linked : Episodes \cup {None}]]
  /\ events \subseteq EventRows
  /\ tx \in [Sessions -> Transactions]

\* uq_exception_episodes_active_line_site: however many sessions open or link
\* candidates of a line at once, at most one of its episodes is not closed.
OneActiveEpisode ==
  \A e, f \in Opened :
    /\ episode[e].line = episode[f].line
    /\ ~ episode[e].closed
    /\ ~ episode[f].closed
    => e = f

\* Event numbers are read with max+1 before they are inserted, by sessions that
\* may not lock anything; still an episode's events are numbered 1..n, each once.
HistoryGapless ==
  \A e \in Episodes :
    /\ {v.seq : v \in EventsOf(e)} = 1 .. MaxOr0({v.seq : v \in EventsOf(e)})
    /\ \A v, w \in EventsOf(e) : v.seq = w.seq => v = w

\* Exactly the first event of an episode opens it, retries and races included.
HistoryStartsWithOpening ==
  \A e \in Opened :
    /\ \E v \in EventsOf(e) : v.seq = 1
    /\ \A v \in EventsOf(e) : v.to = "open" <=> v.seq = 1

\* schema_decision_log SDL-001: current_state and closed_at can be rebuilt from
\* the state events, even when a command acted on a stale state.
StateIsProjection ==
  \A e \in Opened :
    /\ \E v \in StateEventsOf(e) :
         IsLatest(v, StateEventsOf(e)) /\ episode[e].state = v.to
    /\ episode[e].closed <=> \E v \in EventsOf(e) : v.to = "closed"

\* An episode is in a resolved, closed or suppressed state only by a state event
\* that a second, authorised person approved.
MaterialStateApproved ==
  \A e \in Opened :
    episode[e].state \in MaterialStates =>
      \E v \in StateEventsOf(e) :
        /\ IsLatest(v, StateEventsOf(e))
        /\ v.approval \in Users \X Users
        /\ v.approval[1] # v.approval[2]
        /\ v.approval[2] \in Approvers

\* A candidate that carries a link was linked by the service to an episode of
\* its own line, only such a candidate is out of the opening queue, and of the
\* candidates of an episode one at most claims to have opened it.
CandidateLinkConsistent ==
  \A c \in Candidates :
    LET e == candidate[c].linked IN
    IF e = None
    THEN candidate[c].disposition \in {"opening-eligible-no-workflow", "below-opening-threshold"}
    ELSE /\ e \in Opened
         /\ episode[e].line = LineOf[c]
         /\ IF candidate[c].disposition = "opened-new-episode"
            THEN \A d \in Candidates \ {c} : candidate[d] # candidate[c]
            ELSE \E v \in EventsOf(e) : v.type = "candidate_linked"

ClosedStayClosed ==
  \A e \in Episodes : episode[e].closed =>
    /\ episode'[e].closed
    /\ episode'[e].state = "closed"

\* A closed episode stays closed: a stale reopening, suppression or resolution
\* that commits after the closure must fail.
ClosedIsFinal == [][ClosedStayClosed]_vars

\* service.py:56: no change of current_state leaves the matrix, except into a
\* suppression and the assignment of an open episode (which is in the matrix).
ChangesFollowMatrix ==
  [][\A e \in Opened :
        LET before == episode[e].state
            after == episode'[e].state
        IN \/ after = before
           \/ <<before, after>> \in StateTransitions
           \/ after = "suppressed" /\ before \in SuppressibleStates]_vars

\* The commands that are recorded behind the event that closed episode e.
RecordedAfterClosure(e) ==
  {v.key[1] : v \in {w \in EventsOf(e) : \E c \in EventsOf(e) : c.to = "closed" /\ c.seq < w.seq}}

\* service.py:255: closed episodes cannot be assigned, or get an action or a link.
\* What a session has loaded while the episode was active may be committed after
\* the closure all the same; it is one command of each other session, and no
\* command follows that was begun when the closure could be seen.
OnlyOverlapsFollowClosure ==
  \A e \in Opened :
    episode[e].closed => Cardinality(RecordedAfterClosure(e)) < Cardinality(Sessions)

\* The owner on the episode row is the one the latest ownership event names.
OwnerIsProjection ==
  \A e \in Opened :
    IF OwnerEventsOf(e) = {}
    THEN episode[e].owner = None
    ELSE \E v \in OwnerEventsOf(e) :
           IsLatest(v, OwnerEventsOf(e)) /\ episode[e].owner = v.owner

\* No command waits for ever: whatever rows the sessions write and wait for, each
\* command is committed, refused, rolled back or answered.
CommandsEnd == \A s \in Sessions : tx[s] # NoTx ~> tx[s] = NoTx
==============================================================================
