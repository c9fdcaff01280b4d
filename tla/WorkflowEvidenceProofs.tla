------------------------ MODULE WorkflowEvidenceProofs ------------------------
(***************************************************************************)
(* What stands behind the state of an episode, for every set of sessions,  *)
(* candidates, lines, users and keys: its approval, the event that opened  *)
(* it and the candidates it answers.                                       *)
(***************************************************************************)
EXTENDS WorkflowProofs

------------------------------------------------------------------------------
(* What a command begins with *)

\* The session has loaded an episode and made of it what its operation may.
Loads(t) ==
  /\ t.phase = "read"
  /\ t.op \notin {"open", "link"}
  /\ t.episode \in Opened
  /\ t.state = episode[t.episode].state
  /\ t.holder = episode[t.episode].owner
  /\ Permitted(t)

Picks(t) ==
  t.phase = "candidate" /\ candidate[t.candidate].disposition = "opening-eligible-no-workflow"

Begins(s, t) == Begin(s, t) /\ (Loads(t) \/ Picks(t) \/ t.phase = "replayed")

LEMMA MatrixMaterial ==
  \A a, b : <<a, b>> \in StateTransitions =>
    /\ b # "suppressed" /\ b # "open"
    /\ b \in MaterialStates => b \in {"resolved", "closed"}
BY DEF StateTransitions, MaterialStates

\* A key that is found, of whatever command, ends in a replay.
LEMMA IdempotentBegins ==
  ASSUME NEW s \in Sessions, NEW t, "phase" \in DOMAIN t, NEW types, NEW valid,
         Idempotent(s, t, types, valid), valid => Loads(t)
  PROVE  \E u : Begins(s, u)
<1>1. CASE valid /\ Begin(s, t)
  BY <1>1 DEF Begins
<1>2. ASSUME NEW v \in Keyed(t.episode, t.key), Begin(s, Replayed(t, v))
      PROVE  \E u : Begins(s, u)
  <2>1. PICK u : u = Replayed(t, v)
    OBVIOUS
  <2>2. u.phase = "replayed"
    BY <2>1 DEF Replayed
  <2> QED
    BY <1>2, <2>1, <2>2 DEF Begins
<1> QED
  BY <1>1, <1>2 DEF Idempotent

\* The operations other than an opening.
LEMMA EpisodeCommandBegins ==
  ASSUME NEW s \in Sessions, NEW e \in Episodes, NEW k \in Keys,
         \/ \E to \in SupportedStates \ {"resolved", "closed"} : TransitionEpisode(s, e, to, None, k)
         \/ \E to \in {"resolved", "closed"}, approval \in Users \X Users :
              TransitionEpisode(s, e, to, approval, k)
         \/ \E u \in Users : AssignEpisode(s, e, u, k)
         \/ \E c \in Categories \ {"action_agreement"} : AppendAction(s, e, c, k)
         \/ CreateActionAgreement(s, e, k)
         \/ \E approval \in Users \X Users : SuppressEpisode(s, e, approval, k)
  PROVE  \E u : Begins(s, u)
<1>1. ASSUME NEW to, NEW approval, TransitionEpisode(s, e, to, approval, k),
             to \in {"resolved", "closed"} => approval \in Users \X Users
      PROVE  \E u : Begins(s, u)
  <2>1. PICK t : t = [Load("transition", e, k) EXCEPT !.to = to, !.approval = approval]
    OBVIOUS
  <2>2. t = [phase |-> "read", op |-> "transition", episode |-> e, candidate |-> None,
             key |-> CommandKey(k), state |-> episode[e].state, to |-> to,
             holder |-> episode[e].owner, owner |-> episode[e].owner, category |-> None,
             approval |-> approval, seq |-> 0, number |-> 0, drafts |-> << >>]
    BY <2>1, Loaded
  <2>3. ASSUME <<episode[e].state, to>> \in StateTransitions,
               to \in {"resolved", "closed"} => IndependentApproval(approval)
        PROVE  Loads(t)
    BY <1>1, <2>2, <2>3, MatrixMaterial DEF Loads, Permitted, Approved, TransitionEpisode
  <2> QED
    BY <1>1, <2>1, <2>2, <2>3, IdempotentBegins DEF TransitionEpisode
<1>2. ASSUME NEW u \in Users, AssignEpisode(s, e, u, k)
      PROVE  \E x : Begins(s, x)
  <2>1. PICK t : t = [Load("assign", e, k) EXCEPT
                        !.owner = u, !.to = IF @ = "open" THEN "assigned" ELSE @]
    OBVIOUS
  <2>2. t = [phase |-> "read", op |-> "assign", episode |-> e, candidate |-> None,
             key |-> CommandKey(k), state |-> episode[e].state,
             to |-> IF episode[e].state = "open" THEN "assigned" ELSE episode[e].state,
             holder |-> episode[e].owner, owner |-> u, category |-> None,
             approval |-> None, seq |-> 0, number |-> 0, drafts |-> << >>]
    BY <2>1, Loaded
  <2>3. ASSUME episode[e].state \in ActiveStates
        PROVE  Loads(t)
    BY <1>2, <2>2, <2>3 DEF Loads, Permitted, AssignEpisode
  <2>4. Idempotent(s, t, {"ownership_changed"}, episode[e].state \in ActiveStates)
    BY <1>2, <2>1 DEF AssignEpisode
  <2>5. "phase" \in DOMAIN t
    BY <2>2
  <2> QED
    BY <2>3, <2>4, <2>5, IdempotentBegins
<1>3. ASSUME NEW c \in Categories \ {"action_agreement"}, AppendAction(s, e, c, k)
      PROVE  \E x : Begins(s, x)
  <2>1. PICK t : t = [Load("action", e, k) EXCEPT !.category = c]
    OBVIOUS
  <2>2. t = [phase |-> "read", op |-> "action", episode |-> e, candidate |-> None,
             key |-> CommandKey(k), state |-> episode[e].state, to |-> episode[e].state,
             holder |-> episode[e].owner, owner |-> episode[e].owner, category |-> c,
             approval |-> None, seq |-> 0, number |-> 0, drafts |-> << >>]
    BY <2>1, Loaded
  <2>3. ASSUME episode[e].state \in AllowedStates(c)
        PROVE  Loads(t)
    <3>1. episode[e].state # "closed"
      BY <2>3 DEF AllowedStates, Categories
    <3> QED
      BY <1>3, <2>2, <3>1 DEF Loads, Permitted, AppendAction
  <2>4. Idempotent(s, t, {"action_recorded"}, episode[e].state \in AllowedStates(c))
    BY <1>3, <2>1 DEF AppendAction
  <2>5. "phase" \in DOMAIN t
    BY <2>2
  <2> QED
    BY <2>3, <2>4, <2>5, IdempotentBegins
<1>4. ASSUME CreateActionAgreement(s, e, k)
      PROVE  \E x : Begins(s, x)
  <2>1. PICK m : m = [Load("agreement", e, k) EXCEPT !.category = "action_agreement"]
    OBVIOUS
  <2>2. PICK t : t = [m EXCEPT !.to = "action_agreed"]
    OBVIOUS
  <2>3. m = [phase |-> "read", op |-> "agreement", episode |-> e, candidate |-> None,
             key |-> CommandKey(k), state |-> episode[e].state, to |-> episode[e].state,
             holder |-> episode[e].owner, owner |-> episode[e].owner,
             category |-> "action_agreement",
             approval |-> None, seq |-> 0, number |-> 0, drafts |-> << >>]
    BY <2>1, Loaded
  <2>4. t = [phase |-> "read", op |-> "agreement", episode |-> e, candidate |-> None,
             key |-> CommandKey(k), state |-> episode[e].state, to |-> "action_agreed",
             holder |-> episode[e].owner, owner |-> episode[e].owner,
             category |-> "action_agreement",
             approval |-> None, seq |-> 0, number |-> 0, drafts |-> << >>]
    BY <2>2, <2>3
  <2>5. CASE <<episode[e].state, "action_agreed">> \in StateTransitions /\ Begin(s, t)
    <3>1. Loads(t)
      BY <1>4, <2>4, <2>5 DEF Loads, Permitted, MaterialStates, CreateActionAgreement
    <3> QED
      BY <2>5, <3>1 DEF Begins
  <2>6. ASSUME NEW v, Begin(s, Replayed(m, v))
        PROVE  \E x : Begins(s, x)
    <3>1. PICK x : x = Replayed(m, v)
      OBVIOUS
    <3>2. x.phase = "replayed"
      BY <2>3, <3>1 DEF Replayed
    <3> QED
      BY <2>6, <3>1, <3>2 DEF Begins
  <2> QED
    BY <1>4, <2>1, <2>2, <2>5, <2>6 DEF CreateActionAgreement
<1>5. ASSUME NEW approval \in Users \X Users, SuppressEpisode(s, e, approval, k)
      PROVE  \E x : Begins(s, x)
  <2>1. PICK t : t = [Load("suppress", e, k) EXCEPT !.to = "suppressed", !.approval = approval]
    OBVIOUS
  <2>2. t = [phase |-> "read", op |-> "suppress", episode |-> e, candidate |-> None,
             key |-> CommandKey(k), state |-> episode[e].state, to |-> "suppressed",
             holder |-> episode[e].owner, owner |-> episode[e].owner, category |-> None,
             approval |-> approval, seq |-> 0, number |-> 0, drafts |-> << >>]
    BY <2>1, Loaded
  <2>3. ASSUME episode[e].state \in SuppressibleStates, IndependentApproval(approval)
        PROVE  Loads(t)
    BY <1>5, <2>2, <2>3 DEF Loads, Permitted, Approved, SuppressEpisode
  <2> QED
    BY <1>5, <2>1, <2>2, <2>3, IdempotentBegins DEF SuppressEpisode
<1> QED
  BY <1>1, <1>2, <1>3, <1>4, <1>5

\* A candidate's command goes on to look for the active episode, or replays.
LEMMA OpeningBegins ==
  ASSUME NEW s \in Sessions, NEW c \in Candidates, NEW k \in Keys,
         OpenEpisodeFromCandidate(s, c, k)
  PROVE  \E u : Begins(s, u)
<1> DEFINE linked == candidate[c].linked
<1>1. ASSUME NEW v, Begin(s, Replayed([Load("open", linked, k) EXCEPT !.candidate = c], v))
      PROVE  \E u : Begins(s, u)
  <2>1. PICK t : t = [Load("open", linked, k) EXCEPT !.candidate = c]
    OBVIOUS
  <2>2. t = [phase |-> "read", op |-> "open", episode |-> linked, candidate |-> c,
             key |-> CommandKey(k), state |-> episode[linked].state,
             to |-> episode[linked].state, holder |-> episode[linked].owner,
             owner |-> episode[linked].owner, category |-> None,
             approval |-> None, seq |-> 0, number |-> 0, drafts |-> << >>]
    BY <2>1, Loaded
  <2>3. PICK u : u = Replayed(t, v)
    OBVIOUS
  <2>4. u.phase = "replayed"
    BY <2>2, <2>3 DEF Replayed
  <2> QED
    BY <1>1, <2>1, <2>3, <2>4 DEF Begins
<1>2. ASSUME candidate[c].disposition = "opening-eligible-no-workflow",
             Begin(s, [NoTx EXCEPT !.phase = "candidate", !.op = "open",
                                   !.candidate = c, !.key = CommandKey(k)])
      PROVE  \E u : Begins(s, u)
  <2>1. PICK t : t = [NoTx EXCEPT !.phase = "candidate", !.op = "open",
                                  !.candidate = c, !.key = CommandKey(k)]
    OBVIOUS
  <2>2. t.phase = "candidate" /\ t.candidate = c
    BY <2>1 DEF NoTx
  <2> QED
    BY <1>2, <2>1, <2>2 DEF Begins, Picks
<1> QED
  BY <1>1, <1>2 DEF OpenEpisodeFromCandidate

LEMMA CommandBegins ==
  ASSUME NEW s \in Sessions, Command(s)
  PROVE  \E u : Begins(s, u)
BY EpisodeCommandBegins, OpeningBegins DEF Command
------------------------------------------------------------------------------
(* The steps *)

\* A session that moves on without touching the tables.
LEMMA EvidenceSession ==
  ASSUME EvidenceInv, IInv', NEW s \in Sessions, NEW t, Evident(t),
         tx' = [tx EXCEPT ![s] = t],
         UNCHANGED <<episode, candidate, events>>
  PROVE  EvidenceInv'
<1>1. /\ Opened' = Opened
      /\ \A e : EventsOf(e)' = EventsOf(e)
  BY DEF Opened, EventsOf
<1>2. EventsApproved' /\ HistoryStartsWithOpening' /\ CandidateLinkConsistent'
  BY <1>1 DEF EvidenceInv, EventsApproved, HistoryStartsWithOpening, CandidateLinkConsistent
<1>3. \A r \in Sessions : Evident(tx'[r])
  BY DEF EvidenceInv, IInv, TypeOK
<1>4. \A r \in Sessions : Evident(tx[r])'
  BY <1>3 DEF Evident
<1> QED
  BY <1>2, <1>4 DEF EvidenceInv

LEMMA IdleEvident ==
  ASSUME NEW t, t.phase \notin {"read", "flushed"}
  PROVE  Evident(t)
BY DEF Evident, Working

LEMMA CommandEvidence ==
  ASSUME EvidenceInv, IInv', NEW s \in Sessions, Command(s)
  PROVE  EvidenceInv'
<1>1. PICK t : Begins(s, t)
  BY CommandBegins
<1>2. Evident(t)
  BY <1>1, IdleEvident DEF Begins, Evident, Loads, Picks
<1> QED
  BY <1>1, <1>2, EvidenceSession DEF Begins, Begin

LEMMA FindActiveEvidence ==
  ASSUME EvidenceInv, IInv', NEW s \in Sessions, FindActiveEpisode(s)
  PROVE  EvidenceInv'
<1> PICK c : c = tx[s]
  OBVIOUS
<1>1. c = tx[s] /\ c \in Transactions /\ c.op = "open" /\ c.phase = "candidate"
  BY DEF FindActiveEpisode, EvidenceInv, IInv, TypeOK, TxInv
<1>2. PICK t : /\ tx' = [tx EXCEPT ![s] = t]
               /\ \/ \E e \in ActiveOn(LineOf[c.candidate]) :
                       t = [Load("link", e, c.key[1]) EXCEPT !.candidate = c.candidate]
                  \/ \E e \in Episodes :
                       t = [c EXCEPT !.phase = "read", !.episode = e, !.to = "open"]
  BY <1>1 DEF FindActiveEpisode
<1>3. ASSUME NEW e \in ActiveOn(LineOf[c.candidate]),
             t = [Load("link", e, c.key[1]) EXCEPT !.candidate = c.candidate]
      PROVE  Evident(t)
  <2>1. t = [phase |-> "read", op |-> "link", episode |-> e, candidate |-> c.candidate,
             key |-> CommandKey(c.key[1]), state |-> episode[e].state,
             to |-> episode[e].state, holder |-> episode[e].owner,
             owner |-> episode[e].owner, category |-> None,
             approval |-> None, seq |-> 0, number |-> 0, drafts |-> << >>]
    BY <1>3, Loaded
  <2>2. episode[e].line = LineOf[c.candidate] /\ episode[e].state # "closed"
    BY DEF ActiveOn, EvidenceInv, IInv, ClosedRowsConsistent, ClosedConsistent
  <2> QED
    BY <2>1, <2>2 DEF Evident, Permitted
<1>4. ASSUME NEW e \in Episodes,
             t = [c EXCEPT !.phase = "read", !.episode = e, !.to = "open"]
      PROVE  Evident(t)
  <2>1. t.phase = "read" /\ t.op = "open" /\ t.to = "open"
    BY <1>1, <1>4, SMT DEF Transactions
  <2> QED
    BY <2>1 DEF Evident, Permitted
<1> QED
  BY <1>2, <1>3, <1>4, EvidenceSession DEF FindActiveEpisode

\* The rows of a command carry the evidence its operation has validated.
LEMMA DraftsEvident ==
  ASSUME NEW t, Validated(t), Permitted(t)
  PROVE  /\ \A i \in 1 .. Len(Drafts(t)) : DraftOf(t, Drafts(t)[i])
         /\ t.op # "agreement" => Len(Drafts(t)) = 1
<1>1. None \notin MaterialStates
  BY ServiceAssumption DEF MaterialStates, SupportedStates, ActiveStates, TerminalStates
<1>2. ASSUME NEW k, k[1] = t.key[1]
      PROVE  t.op \in {"open", "transition", "suppress", "agreement"}
               => DraftOf(t, StateEvent(t, k))
  <2>1. PICK v : v = StateEvent(t, k)
    OBVIOUS
  <2>2. /\ v.to = t.to /\ v.approval = t.approval /\ v.key = k
        /\ v.type \in {"reopened", "state_changed"}
    BY <2>1 DEF StateEvent, Event
  <2>3. t.op \in {"open", "transition", "suppress", "agreement"} /\ t.to \in MaterialStates
          => Approved(t.approval)
    BY DEF Permitted, Validated, MaterialStates
  <2> QED
    BY <1>2, <2>1, <2>2, <2>3 DEF DraftOf
<1>3. t.op \in {"action", "agreement"} => DraftOf(t, ActionEvent(t))
  <2>1. PICK v : v = ActionEvent(t)
    OBVIOUS
  <2>2. v.to = None /\ v.type = "action_recorded" /\ v.key = t.key
    BY <2>1 DEF ActionEvent, Event
  <2> QED
    BY <1>1, <2>1, <2>2 DEF DraftOf
<1>4. t.op = "assign" => DraftOf(t, OwnershipEvent(t))
  <2>1. PICK v : v = OwnershipEvent(t)
    OBVIOUS
  <2>2. /\ v.to = (IF t.state = "open" THEN "assigned" ELSE None)
        /\ v.type = "ownership_changed" /\ v.owner = t.owner /\ v.key = t.key
    BY <2>1 DEF OwnershipEvent, Event
  <2>3. v.to \notin MaterialStates
    BY <1>1, <2>2 DEF MaterialStates
  <2> QED
    BY <2>1, <2>2, <2>3 DEF DraftOf
<1>5. t.op = "link" => DraftOf(t, Event(t, t.key, "candidate_linked"))
  <2>1. PICK v : v = Event(t, t.key, "candidate_linked")
    OBVIOUS
  <2>2. v.to = None /\ v.type = "candidate_linked" /\ v.key = t.key
    BY <2>1 DEF Event
  <2> QED
    BY <1>1, <2>1, <2>2 DEF DraftOf
<1>6. PICK d : d = Drafts(t)
  OBVIOUS
<1>7. CASE t.op = "agreement"
  <2>1. \/ d = <<StateEvent(t, StateKey(t.key[1])), ActionEvent(t)>>
        \/ d = <<StateEvent(t, StateKey(t.key[1]))>>
    BY <1>6, <1>7 DEF Drafts
  <2>2. StateKey(t.key[1])[1] = t.key[1]
    BY DEF StateKey
  <2> QED
    BY <1>2, <1>3, <1>6, <1>7, <2>1, <2>2
<1>8. CASE t.op # "agreement"
  <2>1. \E v : d = <<v>> /\ DraftOf(t, v)
    BY <1>2, <1>3, <1>4, <1>5, <1>6, <1>8 DEF Drafts, Validated, Operations
  <2> QED
    BY <1>6, <1>8, <2>1
<1> QED
  BY <1>7, <1>8

LEMMA FlushEvidence ==
  ASSUME EvidenceInv, IInv', NEW s \in Sessions, Flush(s)
  PROVE  EvidenceInv'
<1> PICK t : t = tx[s]
  OBVIOUS
<1>1. /\ t = tx[s] /\ t \in Transactions /\ t.phase = "read"
      /\ Validated(t) /\ Evident(t) /\ Permitted(t)
  BY DEF Flush, EvidenceInv, IInv, TypeOK, TxInv, Working, Evident
<1>2. PICK d : d = Drafts(t)
  OBVIOUS
<1>3. PICK seq : seq = NextEventSequence(t.episode)
  OBVIOUS
<1>4. PICK n : n = (IF t.op = "open" THEN NextEpisodeSequence(LineOf[t.candidate]) ELSE 0)
  OBVIOUS
<1>5. PICK x : x = [t EXCEPT !.phase = "flushed", !.drafts = d, !.seq = seq, !.number = n]
  OBVIOUS
<1>6. tx' = [tx EXCEPT ![s] = x] /\ UNCHANGED <<episode, candidate, events>>
  BY <1>1, <1>2, <1>3, <1>4, <1>5 DEF Flush
<1>7. /\ x.phase = "flushed" /\ x.drafts = d /\ x.op = t.op /\ x.episode = t.episode
      /\ x.candidate = t.candidate /\ x.state = t.state /\ x.to = t.to
      /\ x.holder = t.holder /\ x.owner = t.owner /\ x.approval = t.approval
      /\ x.key = t.key
  BY <1>1, <1>5, SMT DEF Transactions
<1>8. /\ \A i \in 1 .. Len(d) : DraftOf(t, d[i])
      /\ t.op # "agreement" => Len(d) = 1
  BY <1>1, <1>2, DraftsEvident
<1>9. \A v : DraftOf(t, v) => DraftOf(x, v)
  BY <1>7 DEF DraftOf
<1>10. Permitted(x)
  BY <1>1, <1>7 DEF Permitted
<1>11. Evident(x)
  BY <1>1, <1>7, <1>8, <1>9, <1>10 DEF Evident, Working
<1> QED
  BY <1>6, <1>11, EvidenceSession

\* The rows a commit inserts are the drafts, numbered.
LEMMA NewEventsEvident ==
  ASSUME NEW t \in Transactions, Drafted(t), t.phase = "flushed", Evident(t),
         NEW v \in NewEvents(t)
  PROVE  DraftOf(t, v)
<1>1. PICK i \in 1 .. Len(t.drafts) : v = [t.drafts[i] EXCEPT !.seq = t.seq + i - 1]
  BY DEF NewEvents
<1>2. PICK d : d = t.drafts[i]
  OBVIOUS
<1>3. d \in EventRows /\ DraftOf(t, d)
  BY <1>2 DEF Drafted, Evident
<1>4. /\ v.to = d.to /\ v.approval = d.approval /\ v.type = d.type
      /\ v.owner = d.owner /\ v.key = d.key
  BY <1>1, <1>2, <1>3, SMT DEF EventRows
<1> QED
  BY <1>3, <1>4 DEF DraftOf

\* What the session that commits has drafted, and what becomes of its episode.
LEMMA Committing ==
  ASSUME EvidenceInv, NEW s \in Sessions, Commit(s), NEW t, t = tx[s], NEW e, e = t.episode
  PROVE  /\ t \in Transactions /\ Validated(t) /\ Permitted(t) /\ e \in Episodes
         /\ t.op = "open" => e \notin Opened
         /\ t.op # "open" => e \in Opened
         /\ t.op = "open" => episode'[e].line = LineOf[t.candidate]
         /\ t.op # "open" => episode'[e].line = episode[e].line
         /\ t.op = "link" => episode[e].line = LineOf[t.candidate]
         /\ \A f \in Opened : episode'[f].line = episode[f].line
         /\ \A v \in NewEvents(t) : DraftOf(t, v)
         /\ events' = events \cup NewEvents(t)
<1>1. /\ t \in Transactions /\ Drafted(t) /\ Validated(t) /\ Working(t) /\ t.phase = "flushed"
      /\ Evident(t)
  BY DEF Commit, EvidenceInv, IInv, TypeOK, TxInv, Working
<1>2. \A v \in NewEvents(t) : DraftOf(t, v)
  BY <1>1, NewEventsEvident
<1>3. /\ e \in Episodes
      /\ t.op = "open" => e \notin Opened /\ RowAfter(t).line = LineOf[t.candidate]
      /\ t.op # "open" => e \in Opened /\ RowAfter(t).line = episode[e].line
  BY <1>1, RowAfterShape DEF EvidenceInv
<1>4. /\ episode'[e] = RowAfter(t)
      /\ \A f \in Episodes \ {e} : episode'[f] = episode[f]
  BY CommitTables DEF EvidenceInv
<1>5. \A f \in Opened : f \in Episodes
  BY DEF Opened
<1>6. events' = events \cup NewEvents(t)
  BY DEF Commit
<1> QED
  BY <1>1, <1>2, <1>3, <1>4, <1>5, <1>6 DEF Evident

LEMMA CommitOpening ==
  ASSUME EvidenceInv, NEW s \in Sessions, Commit(s)
  PROVE  HistoryStartsWithOpening'
<1> PICK t : t = tx[s]
  OBVIOUS
<1> PICK e : e = t.episode
  OBVIOUS
<1>1. /\ t \in Transactions /\ Validated(t) /\ Permitted(t) /\ e \in Episodes
      /\ t.op = "open" => e \notin Opened
      /\ t.op # "open" => e \in Opened
      /\ \A v \in NewEvents(t) : DraftOf(t, v)
  BY Committing
<1>2. /\ Opened' = Opened \cup {e}
      /\ EventsOf(e)' = EventsOf(e) \cup NewEvents(t)
      /\ \A f \in Episodes \ {e} : EventsOf(f)' = EventsOf(f)
  BY CommitTables DEF EvidenceInv
<1>3. /\ Drafted(t) /\ NextIn(t.seq, EventNumbers(e)) /\ t.seq \in Nat
      /\ Len(t.drafts) \in {1, 2}
  BY DEF Commit, EvidenceInv, IInv, TypeOK, TxInv, Drafted, Transactions
<1>4. PICK a \in EventRows :
        /\ a.episode = e
        /\ a.seq = t.seq
        /\ a.to = (IF StateWritten(t) THEN t.to ELSE None)
        /\ \/ NewEvents(t) = {a}
           \/ \E b \in EventRows :
                /\ b.episode = e
                /\ b.seq = t.seq + 1
                /\ b.to = None
                /\ NewEvents(t) = {a, b}
  BY <1>1, <1>3, NewEventsShape
<1>5. None # "open"
  BY ServiceAssumption DEF SupportedStates, ActiveStates
<1>6. CASE t.op = "open"
  <2>1. EventsOf(e) = {} /\ EventNumbers(e) = {}
    BY <1>1, <1>6 DEF EvidenceInv, IInv, EventsOfOpened, EventsOf, EventNumbers
  <2>2. a.seq = 1
    BY <1>3, <1>4, <2>1 DEF NextIn
  <2>3. a.to = "open"
    BY <1>1, <1>4, <1>6, <1>5 DEF Validated, StateWritten
  <2>4. /\ \E v \in EventsOf(e)' : v.seq = 1
        /\ \A v \in EventsOf(e)' : v.to = "open" <=> v.seq = 1
    BY <1>2, <1>4, <1>5, <2>1, <2>2, <2>3
  <2> QED
    BY <1>2, <2>4 DEF EvidenceInv, HistoryStartsWithOpening, Opened
<1>7. CASE t.op # "open"
  <2>1. PICK S, T : S = EventNumbers(e) /\ T = {v.seq : v \in NewEvents(t)}
    OBVIOUS
  <2>2. \A m \in S, n \in T : m < n
    BY <2>1, CommitNumbers DEF EvidenceInv
  <2>3. 1 \in S
    BY <1>1, <1>7, <2>1 DEF EvidenceInv, HistoryStartsWithOpening, EventNumbers
  <2>4. \A v \in NewEvents(t) : v.seq # 1
    BY <2>1, <2>2, <2>3
  <2>5. StateWritten(t) => t.to # "open"
    BY <1>1, <1>7, MatrixMaterial DEF Permitted, StateWritten
  <2>6. \A v \in NewEvents(t) : v.to # "open"
    BY <1>4, <1>5, <2>5
  <2>7. /\ \E v \in EventsOf(e)' : v.seq = 1
        /\ \A v \in EventsOf(e)' : v.to = "open" <=> v.seq = 1
    BY <1>1, <1>2, <1>7, <2>4, <2>6 DEF EvidenceInv, HistoryStartsWithOpening
  <2> QED
    BY <1>2, <2>7 DEF EvidenceInv, HistoryStartsWithOpening, Opened
<1> QED
  BY <1>6, <1>7

LEMMA CommitLinks ==
  ASSUME EvidenceInv, NEW s \in Sessions, Commit(s)
  PROVE  CandidateLinkConsistent'
<1> PICK t : t = tx[s]
  OBVIOUS
<1> PICK e : e = t.episode
  OBVIOUS
<1>1. /\ t \in Transactions /\ Validated(t) /\ e \in Episodes
      /\ t.op = "open" => e \notin Opened
      /\ t.op = "open" => episode'[e].line = LineOf[t.candidate]
      /\ t.op # "open" => episode'[e].line = episode[e].line
      /\ t.op = "link" => episode[e].line = LineOf[t.candidate]
      /\ \A f \in Opened : episode'[f].line = episode[f].line
      /\ \A v \in NewEvents(t) : DraftOf(t, v)
  BY Committing
<1>2. /\ Opened' = Opened \cup {e}
      /\ EventsOf(e)' = EventsOf(e) \cup NewEvents(t)
      /\ \A f \in Episodes : EventsOf(f) \subseteq EventsOf(f)'
  BY CommitTables DEF EvidenceInv
<1>3. \A d \in Candidates : candidate[d].linked = None \/ candidate[d].linked \in Opened
  BY DEF EvidenceInv, CandidateLinkConsistent
<1>4. Opened \subseteq Episodes /\ None \notin Episodes
  BY ServiceAssumption DEF Opened
<1>5. CASE t.op \notin {"open", "link"}
  <2>1. candidate' = candidate
    BY <1>5 DEF Commit
  <2> QED
    BY <1>1, <1>2, <1>3, <1>4, <2>1 DEF EvidenceInv, CandidateLinkConsistent
<1>6. CASE t.op \in {"open", "link"}
  <2>1. PICK c : c = t.candidate
    OBVIOUS
  <2>2. c \in Candidates
    BY <1>1, <1>6, <2>1 DEF Validated
  <2>3. PICK n : n = CandidateAfter(t)
    OBVIOUS
  <2>4. /\ n.linked = e
        /\ t.op = "open" => n.disposition = "opened-new-episode"
        /\ t.op = "link" => n.disposition = "linked-existing-active-episode"
    BY <2>3 DEF CandidateAfter
  <2>5. candidate'[c] = n /\ \A d \in Candidates \ {c} : candidate'[d] = candidate[d]
    BY <1>6, <2>1, <2>2, <2>3 DEF Commit, EvidenceInv, IInv, TypeOK
  <2>6. t.op = "open" => \A d \in Candidates \ {c} : candidate[d].linked # e
    BY <1>1, <1>3, <1>4
  <2>7. t.op = "link" => \E v \in EventsOf(e)' : v.type = "candidate_linked"
    <3>1. \E v : v \in NewEvents(t)
      BY NewEventsShape DEF Commit, EvidenceInv, IInv, TypeOK, TxInv, Transactions
    <3> QED
      BY <1>1, <1>2, <3>1 DEF DraftOf
  <2>8. ASSUME NEW d \in Candidates \ {c}, candidate[d].linked = None
        PROVE  candidate'[d].disposition
                 \in {"opening-eligible-no-workflow", "below-opening-threshold"}
    BY <2>5, <2>8 DEF EvidenceInv, CandidateLinkConsistent
  <2>9. ASSUME NEW d \in Candidates \ {c}, NEW f, f = candidate[d].linked, f # None
        PROVE  /\ f \in Opened'
               /\ episode'[f].line = LineOf[d]
               /\ IF candidate'[d].disposition = "opened-new-episode"
                  THEN \A x \in Candidates \ {d} : candidate'[x] # candidate'[d]
                  ELSE \E v \in EventsOf(f)' : v.type = "candidate_linked"
    <3>1. /\ f \in Opened /\ episode[f].line = LineOf[d]
          /\ IF candidate[d].disposition = "opened-new-episode"
             THEN \A x \in Candidates \ {d} : candidate[x] # candidate[d]
             ELSE \E v \in EventsOf(f) : v.type = "candidate_linked"
      BY <2>9 DEF EvidenceInv, CandidateLinkConsistent
    <3>2. f \in Opened' /\ episode'[f].line = LineOf[d]
      BY <1>1, <1>2, <3>1
    <3>3. n # candidate[d] \/ candidate[d].disposition # "opened-new-episode"
      BY <1>6, <2>4, <2>6
    <3>4. CASE candidate[d].disposition = "opened-new-episode"
      BY <2>5, <3>1, <3>2, <3>3, <3>4
    <3>5. CASE candidate[d].disposition # "opened-new-episode"
      BY <1>2, <1>4, <2>5, <3>1, <3>2, <3>5
    <3> QED
      BY <3>4, <3>5
  <2>10. /\ e \in Opened'
         /\ episode'[e].line = LineOf[c]
         /\ IF n.disposition = "opened-new-episode"
            THEN \A x \in Candidates \ {c} : candidate'[x] # n
            ELSE \E v \in EventsOf(e)' : v.type = "candidate_linked"
    BY <1>1, <1>2, <1>6, <2>1, <2>4, <2>5, <2>6, <2>7
  <2> QED
    BY <1>1, <1>4, <2>4, <2>5, <2>8, <2>9, <2>10 DEF CandidateLinkConsistent
<1> QED
  BY <1>5, <1>6

LEMMA CommitEvidence ==
  ASSUME EvidenceInv, IInv', NEW s \in Sessions, Commit(s)
  PROVE  EvidenceInv'
<1> PICK t : t = tx[s]
  OBVIOUS
<1> PICK e : e = t.episode
  OBVIOUS
<1>1. /\ \A f \in Opened : episode'[f].line = episode[f].line
      /\ \A v \in NewEvents(t) : DraftOf(t, v)
      /\ events' = events \cup NewEvents(t)
  BY Committing
<1>2. tx'[s] = NoTx /\ \A r \in Sessions \ {s} : tx'[r] = tx[r]
  BY CommitTables DEF EvidenceInv
<1>3. EventsApproved'
  BY <1>1 DEF EvidenceInv, EventsApproved, DraftOf, Approved, IndependentApproval
<1>4. ASSUME NEW r \in Sessions
      PROVE  Evident(tx[r])'
  <2>1. CASE r = s
    BY <1>2, <2>1 DEF Evident, Working, NoTx
  <2>2. CASE r # s
    <3>1. PICK u : u = tx[r] /\ u = tx'[r]
      BY <1>2, <2>2
    <3>2. Evident(u) /\ TxInv(u)
      BY <3>1 DEF EvidenceInv, IInv
    <3>3. Working(u) /\ u.op = "link" => episode'[u.episode].line = episode[u.episode].line
      BY <1>1, <3>2 DEF TxInv, Validated
    <3>4. Evident(u)'
      BY <3>2, <3>3 DEF Evident
    <3> QED
      BY <3>1, <3>4
  <2> QED
    BY <2>1, <2>2
<1> QED
  BY <1>3, <1>4, CommitOpening, CommitLinks DEF EvidenceInv
------------------------------------------------------------------------------
(* The invariant and what follows from it *)

LEMMA EvidenceInit == Init => EvidenceInv
<1> SUFFICES ASSUME Init PROVE EvidenceInv
  OBVIOUS
<1>1. IInv
  BY InitStep
<1>2. Opened = {} /\ events = {}
  BY DEF Init, Opened
<1>3. CandidateLinkConsistent
  BY DEF Init, CandidateLinkConsistent
<1>4. \A s \in Sessions : Evident(tx[s])
  <2>1. NoTx.phase \notin {"read", "flushed"}
    BY DEF NoTx
  <2> QED
    BY <2>1, IdleEvident DEF Init
<1> QED
  BY <1>1, <1>2, <1>3, <1>4 DEF EvidenceInv, EventsApproved, HistoryStartsWithOpening

LEMMA EvidenceNext == EvidenceInv /\ [Next]_vars => EvidenceInv'
<1> SUFFICES ASSUME EvidenceInv, [Next]_vars PROVE EvidenceInv'
  OBVIOUS
<1>1. IInv'
  BY NextStep DEF EvidenceInv
<1>2. CASE UNCHANGED vars
  <2>1. UNCHANGED <<episode, candidate, events, tx>>
    BY <1>2 DEF vars
  <2>2. Opened' = Opened /\ \A e : EventsOf(e)' = EventsOf(e)
    BY <2>1 DEF Opened, EventsOf
  <2>3. \A r \in Sessions : Evident(tx[r])'
    BY <2>1 DEF EvidenceInv, Evident
  <2> QED
    BY <1>1, <2>1, <2>2, <2>3
    DEF EvidenceInv, EventsApproved, HistoryStartsWithOpening, CandidateLinkConsistent
<1>3. ASSUME NEW s \in Sessions, Answer(s) \/ Rollback(s)
      PROVE  EvidenceInv'
  <2>1. Evident(NoTx)
    BY IdleEvident DEF NoTx
  <2> QED
    BY <1>1, <1>3, <2>1, EvidenceSession DEF Answer, Rollback
<1> QED
  BY <1>1, <1>2, <1>3, CommandEvidence, FindActiveEvidence, FlushEvidence, CommitEvidence DEF Next

THEOREM EvidenceInvariance == Spec => []EvidenceInv
BY EvidenceInit, EvidenceNext, PTL DEF Spec

\* Exactly the first event of an opened episode says "open": no race of openings,
\* no reopening and no retry adds another, and none is lost.
THEOREM HistoriesStartOpen == Spec => []HistoryStartsWithOpening
<1>1. EvidenceInv => HistoryStartsWithOpening
  BY DEF EvidenceInv
<1> QED
  BY <1>1, EvidenceInvariance, PTL

\* An episode is resolved, closed or suppressed by the state event that says so,
\* and that event carries an independent approval, whatever state the session
\* that wrote it had loaded.
THEOREM MaterialStatesApproved == Spec => []MaterialStateApproved
<1>1. EvidenceInv => MaterialStateApproved
  <2> SUFFICES ASSUME EvidenceInv, NEW e \in Opened, episode[e].state \in MaterialStates
               PROVE  \E v \in StateEventsOf(e) :
                        /\ IsLatest(v, StateEventsOf(e))
                        /\ v.approval \in Users \X Users
                        /\ v.approval[1] # v.approval[2]
                        /\ v.approval[2] \in Approvers
    BY DEF MaterialStateApproved
  <2>1. PICK v \in StateEventsOf(e) : IsLatest(v, StateEventsOf(e)) /\ episode[e].state = v.to
    BY DEF EvidenceInv, IInv, StateIsProjection
  <2>2. Approved(v.approval)
    BY <2>1 DEF EvidenceInv, EventsApproved, StateEventsOf, EventsOf
  <2> QED
    BY <2>1, <2>2 DEF Approved, IndependentApproval
<1> QED
  BY <1>1, EvidenceInvariance, PTL

\* A candidate's link is to an episode of its line that was opened for it or
\* whose history records the link, however many sessions open it at once.
THEOREM CandidateLinksConsistent == Spec => []CandidateLinkConsistent
<1>1. EvidenceInv => CandidateLinkConsistent
  BY DEF EvidenceInv
<1> QED
  BY <1>1, EvidenceInvariance, PTL
==============================================================================
