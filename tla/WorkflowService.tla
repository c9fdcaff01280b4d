--------------------------- MODULE WorkflowService ---------------------------
(***************************************************************************)
(* The exception workflow service over PostgreSQL at READ COMMITTED.       *)
(*                                                                         *)
(* Every command runs in a session of its own, in three steps:             *)
(*   1. it loads the episode (or candidate), looks its idempotency key up  *)
(*      and validates: an operation's action, which ends in "read" or, for *)
(*      a key already recorded, in "replayed".  A command whose validation *)
(*      fails raises and takes no step;                                    *)
(*   2. Flush: the pending UPDATE is sent, which takes the row lock, and   *)
(*      then the next event number is read;                                *)
(*   3. Commit: rows become visible if every constraint holds.  Rollback   *)
(*      stands for a violated constraint, a lost connection or a crash.    *)
(* Nothing is re-validated between 1 and 3, and there is no version        *)
(* column: what a session loaded may be stale when it commits.             *)
(***************************************************************************)
EXTENDS EpisodeStates, Naturals, FiniteSets, Sequences

CONSTANTS
  Episodes,    \* identifiers new episodes get (uuid4 in the code)
  Candidates,  \* persisted candidate risk evaluations
  Lines,       \* a purchase-order line at a site
  LineOf,      \* candidate -> its line
  Users,
  Approvers,   \* the users that are human and active
  Keys,        \* idempotency keys a caller can choose; they bound the events
  Sessions,    \* database sessions that may be open together
  None         \* SQL NULL

ASSUME ServiceAssumption ==
  /\ LineOf \in [Candidates -> Lines]
  /\ Approvers \subseteq Users
  /\ None \notin Episodes \cup Candidates \cup Lines \cup Users
  /\ None \notin SupportedStates

VARIABLES
  episode,     \* exception_episodes
  candidate,   \* candidate_risk_evaluations: disposition and link
  events,      \* event envelopes, each with its typed detail rows
  tx           \* what each session has loaded and is about to write

vars == <<episode, candidate, events, tx>>
------------------------------------------------------------------------------
(* Tables *)

Absent == [line |-> None, number |-> 0, state |-> None, owner |-> None, closed |-> FALSE]

Opened == {e \in Episodes : episode[e] # Absent}
ActiveOn(l) == {e \in Opened : episode[e].line = l /\ ~ episode[e].closed}

Dispositions == {"opening-eligible-no-workflow", "linked-existing-active-episode",
                 "opened-new-episode", "below-opening-threshold"}

EventTypes == {"state_changed", "reopened", "ownership_changed",
               "action_recorded", "candidate_linked"}

\* Which of the caller's operations wrote an action row.
Categories == {"investigation_note", "action_agreement", "action_update",
               "monitoring_observation"}

\* create_action_agreement derives a second key, "<key>:state".
CommandKey(k) == <<k, "command">>
StateKey(k) == <<k, "state">>

EventsOf(e) == {v \in events : v.episode = e}
Keyed(e, k) == {v \in EventsOf(e) : v.key = k}

MaxOr0(S) == CHOOSE n \in S \cup {0} : \A m \in S : m <= n

\* Fault: the last number instead of the next one.
LastEventSequence(e) == MaxOr0({v.seq : v \in EventsOf(e)})

NextEventSequence(e) == 1 + MaxOr0({v.seq : v \in EventsOf(e)})

NextEpisodeSequence(l) ==
  1 + MaxOr0({episode[e].number : e \in {f \in Opened : episode[f].line = l}})

\* Fault: anybody with the right may approve, the requester included.
AnyApproval(approval) == approval[2] \in Approvers

\* approval is <<requester, approver>>
IndependentApproval(approval) == approval[1] # approval[2] /\ approval[2] \in Approvers
------------------------------------------------------------------------------
(* Sessions.  state and holder are what the session loaded; to and owner   *)
(* are what the episode object holds when it is flushed.                   *)

NoTx == [phase |-> "idle", op |-> None, episode |-> None, candidate |-> None,
         key |-> None, state |-> None, to |-> None, holder |-> None, owner |-> None,
         category |-> None, approval |-> None, seq |-> 0, number |-> 0, drafts |-> << >>]

Load(op, e, k) ==
  [NoTx EXCEPT !.phase = "read", !.op = op, !.episode = e, !.key = CommandKey(k),
               !.state = episode[e].state, !.to = episode[e].state,
               !.holder = episode[e].owner, !.owner = episode[e].owner]

Begin(s, t) ==
  /\ tx[s] = NoTx
  /\ tx' = [tx EXCEPT ![s] = t]
  /\ UNCHANGED <<episode, candidate, events>>

Replayed(t, v) == [t EXCEPT !.phase = "replayed", !.seq = v.seq]

\* The idempotency rule: a new key runs the command if it is valid, a key of
\* an event of the given types answers with that event, any other raises.
Idempotent(s, t, types, valid) ==
  \/ /\ Keyed(t.episode, t.key) = {}
     /\ valid
     /\ Begin(s, t)
  \/ \E v \in Keyed(t.episode, t.key) :
       v.type \in types /\ Begin(s, Replayed(t, v))
------------------------------------------------------------------------------
(* Operations *)

\* A linked candidate replays, whatever became of its episode; an eligible
\* one goes on to FindActiveEpisode with the link it has just read.
OpenEpisodeFromCandidate(s, c, k) ==
  LET linked == candidate[c].linked IN
  \/ /\ linked # None
     /\ \E v \in EventsOf(linked) :
          /\ IF Keyed(linked, CommandKey(k)) # {}
             THEN v.key = CommandKey(k)
             ELSE \A w \in EventsOf(linked) : v.seq <= w.seq
          /\ Begin(s, Replayed([Load("open", linked, k) EXCEPT !.candidate = c], v))
  \/ /\ linked = None
     /\ candidate[c].disposition = "opening-eligible-no-workflow"
     /\ Begin(s, [NoTx EXCEPT !.phase = "candidate", !.op = "open",
                              !.candidate = c, !.key = CommandKey(k)])

\* The second query of open_episode_from_candidate: the active episode of the
\* line gets the candidate linked, else a new episode is prepared.
FindActiveEpisode(s) ==
  LET t == tx[s]
      active == ActiveOn(LineOf[t.candidate])
  IN /\ t.phase = "candidate"
     /\ \/ \E e \in active :
             tx' = [tx EXCEPT ![s] =
                      [Load("link", e, t.key[1]) EXCEPT !.candidate = t.candidate]]
        \/ /\ active = {}
           /\ \E e \in Episodes \ (Opened \cup {tx[r].episode : r \in Sessions}) :
                tx' = [tx EXCEPT ![s] =
                         [t EXCEPT !.phase = "read", !.episode = e, !.to = "open"]]
     /\ UNCHANGED <<episode, candidate, events>>

\* approval is the requester and approver, or None when no approver is given.
TransitionEpisode(s, e, to, approval, k) ==
  LET t == [Load("transition", e, k) EXCEPT !.to = to, !.approval = approval]
  IN /\ e \in Opened
     /\ Idempotent(s, t, {"state_changed", "reopened"},
          /\ <<episode[e].state, to>> \in StateTransitions
          /\ to \in {"resolved", "closed"} => IndependentApproval(approval))

AssignEpisode(s, e, u, k) ==
  LET t == [Load("assign", e, k) EXCEPT
              !.owner = u, !.to = IF @ = "open" THEN "assigned" ELSE @]
  IN /\ e \in Opened
     /\ Idempotent(s, t, {"ownership_changed"}, episode[e].state \in ActiveStates)

SuppressEpisode(s, e, approval, k) ==
  LET t == [Load("suppress", e, k) EXCEPT !.to = "suppressed", !.approval = approval]
  IN /\ e \in Opened
     /\ Idempotent(s, t, {"state_changed"},
          /\ episode[e].state \in SuppressibleStates
          /\ IndependentApproval(approval))

AllowedStates(category) ==
  CASE category = "investigation_note"     -> {"investigating"}
    [] category = "action_update"          -> {"action_agreed", "monitoring"}
    [] category = "monitoring_observation" -> {"monitoring"}

\* add_investigation_note, update_action_agreement, add_monitoring_observation.
AppendAction(s, e, category, k) ==
  /\ e \in Opened
  /\ Idempotent(s, [Load("action", e, k) EXCEPT !.category = category],
       {"action_recorded"}, episode[e].state \in AllowedStates(category))

\* A transition under "<key>:state", then an action under the key itself: the
\* second part looks its key up only after the first one was flushed (Flush).
CreateActionAgreement(s, e, k) ==
  LET t == [Load("agreement", e, k) EXCEPT !.category = "action_agreement"]
      Acted == {v \in Keyed(e, CommandKey(k)) : v.type = "action_recorded"}
  IN /\ e \in Opened
     /\ \/ /\ Keyed(e, StateKey(k)) = {}
           /\ <<episode[e].state, "action_agreed">> \in StateTransitions
           /\ Begin(s, [t EXCEPT !.to = "action_agreed"])
        \/ /\ Keyed(e, StateKey(k)) # {}
           /\ \E v \in Acted : Begin(s, Replayed(t, v))

\* The session hands the recorded event back.
Answer(s) ==
  /\ tx[s].phase = "replayed"
  /\ tx' = [tx EXCEPT ![s] = NoTx]
  /\ UNCHANGED <<episode, candidate, events>>
------------------------------------------------------------------------------
(* Flush, commit and rollback *)

Event(t, key, type) ==
  [episode |-> t.episode, seq |-> 0, key |-> key, type |-> type, from |-> None,
   to |-> None, previous |-> None, owner |-> None, category |-> None, approval |-> None]

StateEvent(t, key) ==
  [Event(t, key, IF t.state = "resolved" /\ t.to = "investigating"
                 THEN "reopened" ELSE "state_changed")
     EXCEPT !.from = t.state, !.to = t.to, !.approval = t.approval]

ActionEvent(t) == [Event(t, t.key, "action_recorded") EXCEPT !.category = t.category]

\* Fault: previous and new owner swapped.
SwappedOwnershipEvent(t) ==
  [Event(t, t.key, "ownership_changed") EXCEPT
     !.previous = t.owner, !.owner = t.holder,
     !.from = IF t.state = "open" THEN "open" ELSE None,
     !.to = IF t.state = "open" THEN "assigned" ELSE None]

\* Fault: the move from "open" to "assigned" leaves no state row.
StatelessOwnershipEvent(t) ==
  [Event(t, t.key, "ownership_changed") EXCEPT !.previous = t.holder, !.owner = t.owner]

\* The ownership row always; a state row only if the loaded state was "open".
OwnershipEvent(t) ==
  [Event(t, t.key, "ownership_changed") EXCEPT
     !.previous = t.holder, !.owner = t.owner,
     !.from = IF t.state = "open" THEN "open" ELSE None,
     !.to = IF t.state = "open" THEN "assigned" ELSE None]

Drafts(t) ==
  CASE t.op = "assign" -> <<OwnershipEvent(t)>>
    [] t.op = "action" -> <<ActionEvent(t)>>
    [] t.op = "link" -> <<Event(t, t.key, "candidate_linked")>>
    [] t.op = "agreement" ->
         LET moved == StateEvent(t, StateKey(t.key[1])) IN
         IF Keyed(t.episode, t.key) = {} THEN <<moved, ActionEvent(t)>> ELSE <<moved>>
    [] OTHER -> <<StateEvent(t, t.key)>>

StateWritten(t) == t.to # t.state
OwnerWritten(t) == t.owner # t.holder

\* The rows a session has updated.  SQLAlchemy sends no UPDATE for an object
\* whose attributes equal what was loaded, and only the changed columns else.
Updates(t) ==
  CASE t.op = "open" -> {}
    [] t.op = "link" -> {<<"candidate", t.candidate>>}
    [] OTHER -> IF StateWritten(t) \/ OwnerWritten(t)
                THEN {<<"episode", t.episode>>} ELSE {}

\* Fault: a row is locked from the moment it is read.
ReadByOthers(s) ==
  UNION {Updates(tx[r]) : r \in {q \in Sessions \ {s} : tx[q].phase \in {"read", "flushed"}}}

LockedByOthers(s) ==
  UNION {Updates(tx[r]) : r \in {q \in Sessions \ {s} : tx[q].phase = "flushed"}}

\* The second part of an agreement finds its key under another command.
KeyTaken(t) ==
  t.op = "agreement" /\ \E v \in Keyed(t.episode, t.key) : v.type # "action_recorded"

Flush(s) ==
  LET t == tx[s] IN
  /\ t.phase = "read"
  /\ Updates(t) \cap LockedByOthers(s) = {}
  /\ ~ KeyTaken(t)
  /\ tx' = [tx EXCEPT ![s] =
       [t EXCEPT !.phase = "flushed", !.drafts = Drafts(t),
                 !.seq = NextEventSequence(t.episode),
                 !.number = IF t.op = "open"
                            THEN NextEpisodeSequence(LineOf[t.candidate]) ELSE 0]]
  /\ UNCHANGED <<episode, candidate, events>>

NewEvents(t) == {[t.drafts[i] EXCEPT !.seq = t.seq + i - 1] : i \in 1..Len(t.drafts)}

\* Fault: every column is written, changed or not.
FullRowAfter(t) ==
  IF t.op = "open"
  THEN [line |-> LineOf[t.candidate], number |-> t.number, state |-> "open",
        owner |-> None, closed |-> FALSE]
  ELSE [episode[t.episode] EXCEPT !.state = t.to, !.owner = t.owner,
                                  !.closed = t.to = "closed"]

RowAfter(t) ==
  IF t.op = "open"
  THEN [line |-> LineOf[t.candidate], number |-> t.number, state |-> "open",
        owner |-> None, closed |-> FALSE]
  ELSE [episode[t.episode] EXCEPT
          !.state = IF StateWritten(t) THEN t.to ELSE @,
          !.owner = IF OwnerWritten(t) THEN t.owner ELSE @,
          !.closed = @ \/ (StateWritten(t) /\ t.to = "closed")]

\* Fault: a closing date on a row that is not closed goes through.
ClosedHasDate(row) == row.state = "closed" => row.closed

\* closed_state_projection_consistency
ClosedConsistent(row) == (row.state = "closed") <=> row.closed

\* Fault: no unique constraint on the event numbers.
EventKeysUnique(t) ==
  \A v \in EventsOf(t.episode), w \in NewEvents(t) : v.key # w.key

\* unique (episode, event_sequence), unique (episode, idempotency_key)
EventsUnique(t) ==
  \A v \in EventsOf(t.episode), w \in NewEvents(t) : v.seq # w.seq /\ v.key # w.key

\* Fault: no partial unique index on the active episodes.
EpisodeNumberUnique(t) ==
  t.op = "open" =>
    \A e \in Opened : episode[e].line = LineOf[t.candidate] => episode[e].number # t.number

\* uq_exception_episodes_active_line_site, unique (line, site, episode_sequence)
EpisodeUnique(t) ==
  t.op = "open" =>
    \A e \in Opened : episode[e].line = LineOf[t.candidate] =>
      episode[e].closed /\ episode[e].number # t.number

Accepted(t) == EventsUnique(t) /\ EpisodeUnique(t) /\ ClosedConsistent(RowAfter(t))

\* Fault: a linked candidate is reported as the one that opened the episode.
CandidateOpened(t) == [disposition |-> "opened-new-episode", linked |-> t.episode]

\* Fault: the link holds the candidate's own identifier.
CandidateSelfLink(t) ==
  [disposition |-> IF t.op = "open" THEN "opened-new-episode"
                   ELSE "linked-existing-active-episode",
   linked |-> t.candidate]

\* The candidate after a command that linked it; a new episode's link is sent
\* with the commit, so that it waits for the candidate's row.
CandidateAfter(t) ==
  [disposition |-> IF t.op = "open" THEN "opened-new-episode"
                   ELSE "linked-existing-active-episode",
   linked |-> t.episode]

Commit(s) ==
  LET t == tx[s] IN
  /\ t.phase = "flushed"
  /\ Accepted(t)
  /\ t.op = "open" => <<"candidate", t.candidate>> \notin LockedByOthers(s)
  /\ episode' = [episode EXCEPT ![t.episode] = RowAfter(t)]
  /\ events' = events \cup NewEvents(t)
  /\ candidate' = IF t.op \in {"open", "link"}
                  THEN [candidate EXCEPT ![t.candidate] = CandidateAfter(t)]
                  ELSE candidate
  /\ tx' = [tx EXCEPT ![s] = NoTx]

\* IntegrityError, lost connection or crash: session_scope rolls back.
Rollback(s) ==
  /\ tx[s].phase \in {"candidate", "read", "flushed"}
  /\ tx' = [tx EXCEPT ![s] = NoTx]
  /\ UNCHANGED <<episode, candidate, events>>
\* The rollback that is certain to come, not only possible.
Refuse(s) ==
  /\ \/ tx[s].phase = "read" /\ KeyTaken(tx[s])
     \/ tx[s].phase = "flushed" /\ ~ Accepted(tx[s])
  /\ Rollback(s)
------------------------------------------------------------------------------
Init ==
  /\ episode = [e \in Episodes |-> Absent]
  /\ candidate \in [Candidates ->
       [disposition : {"opening-eligible-no-workflow", "below-opening-threshold"},
        linked : {None}]]
  /\ events = {}
  /\ tx = [s \in Sessions |-> NoTx]

Command(s) ==
  /\ tx[s] = NoTx
  /\ \E k \in Keys :
       \/ \E c \in Candidates : OpenEpisodeFromCandidate(s, c, k)
       \/ \E e \in Episodes :
            \/ \E to \in SupportedStates \ {"resolved", "closed"} :
                 TransitionEpisode(s, e, to, None, k)
            \/ \E to \in {"resolved", "closed"}, approval \in Users \X Users :
                 TransitionEpisode(s, e, to, approval, k)
            \/ \E u \in Users : AssignEpisode(s, e, u, k)
            \/ \E c \in Categories \ {"action_agreement"} : AppendAction(s, e, c, k)
            \/ CreateActionAgreement(s, e, k)
            \/ \E approval \in Users \X Users : SuppressEpisode(s, e, approval, k)

Next ==
  \E s \in Sessions :
    \/ Command(s)
    \/ FindActiveEpisode(s)
    \/ Answer(s)
    \/ Flush(s)
    \/ Commit(s)
    \/ Rollback(s)

Spec == Init /\ [][Next]_vars

\* A session carries on with what it has begun.  A row lock is granted in the
\* order of the requests, so that one that is free again and again is obtained:
\* strong fairness for the steps that wait for a lock.  Neither new commands nor
\* crashes are fair.
Fairness ==
  \A s \in Sessions :
    /\ WF_vars(FindActiveEpisode(s))
    /\ WF_vars(Answer(s))
    /\ WF_vars(Refuse(s))
    /\ SF_vars(Flush(s))
    /\ SF_vars(Commit(s))
==============================================================================
