---------------------------- MODULE WorkflowProofs ----------------------------
(***************************************************************************)
(* Safety of the workflow tables for every set of sessions, candidates,    *)
(* lines, users and keys.                                                  *)
(***************************************************************************)
EXTENDS WorkflowInvariant, TLAPS

\* The maximum of a numbering is its length.
LEMMA MaxOfNumbering ==
  ASSUME NEW S, Numbered(S)
  PROVE  MaxOr0(S) \in Nat /\ S = 1 .. MaxOr0(S)
<1>1. PICK n \in Nat : S = 1 .. n
  BY DEF Numbered
<1>2. n \in S \cup {0} /\ \A m \in S \cup {0} : m <= n
  BY <1>1, SMT
<1>3. MaxOr0(S) \in S \cup {0} /\ \A m \in S : m <= MaxOr0(S)
  BY <1>2 DEF MaxOr0
<1>4. MaxOr0(S) = n
  BY <1>1, <1>2, <1>3, SMT
<1> QED
  BY <1>1, <1>4

LEMMA NextOfNumbering ==
  ASSUME NEW S, Numbered(S)
  PROVE  NextIn(1 + MaxOr0(S), S)
<1>1. MaxOr0(S) \in Nat /\ S = 1 .. MaxOr0(S)
  BY MaxOfNumbering
<1> QED
  BY <1>1, SMT DEF NextIn

\* A numbering that takes a next number, or two, is a numbering.
LEMMA NumberingGrows ==
  ASSUME NEW S, Numbered(S), NEW n, NextIn(n, S), n \notin S
  PROVE  Numbered(S \cup {n}) /\ n + 1 \notin S /\ \A m \in S : m < n
<1>1. PICK k \in Nat : S = 1 .. k
  BY DEF Numbered
<1>2. n = k + 1
  BY <1>1, SMT DEF NextIn
<1>3. S \cup {n} = 1 .. (k + 1)
  BY <1>1, <1>2, SMT
<1> QED
  BY <1>1, <1>2, <1>3, SMT DEF Numbered

\* A session that moves on without touching the tables keeps the invariant if
\* what it now holds is consistent with them.
LEMMA SessionStep ==
  ASSUME IInv, NEW s \in Sessions, NEW t \in Transactions, TxInv(t),
         Opening(t) => /\ t.episode \notin Opened
                       /\ \A r \in Sessions \ {s} :
                            Opening(tx[r]) => tx[r].episode # t.episode,
         tx' = [tx EXCEPT ![s] = t],
         UNCHANGED <<episode, candidate, events>>
  PROVE  IInv'
<1>1. /\ Opened' = Opened
      /\ \A e : EventsOf(e)' = EventsOf(e) /\ EventNumbers(e)' = EventNumbers(e)
      /\ \A e : StateEventsOf(e)' = StateEventsOf(e)
      /\ \A l : EpisodeNumbers(l)' = EpisodeNumbers(l)
  BY DEF Opened, EventsOf, EventNumbers, EpisodeNumbers, StateEventsOf
<1>2. tx' \in [Sessions -> Transactions]
  BY DEF IInv, TypeOK
<1>3. TypeOK'
  BY <1>2 DEF IInv, TypeOK
<1>4. EventsOfOpened' /\ EventsNumbered' /\ EpisodesNumbered'
  BY <1>1 DEF IInv, EventsOfOpened, EventsNumbered, EpisodesNumbered
<1>5. OneActiveEpisode' /\ StateIsProjection' /\ ClosedRowsConsistent'
  BY <1>1 DEF IInv, OneActiveEpisode, StateIsProjection, ClosedRowsConsistent
<1>6. \A r \in Sessions : TxInv(tx'[r])
  BY DEF IInv, TypeOK
<1>7. \A r \in Sessions : TxInv(tx[r])'
  BY <1>1, <1>6 DEF TxInv, Validated
<1>8. FreshIdentifiers'
  BY <1>1, <1>2 DEF IInv, FreshIdentifiers, TypeOK
<1> QED
  BY <1>3, <1>4, <1>5, <1>7, <1>8 DEF IInv

------------------------------------------------------------------------------
(* The operations *)

LEMMA NoTxType == NoTx \in Transactions /\ TxInv(NoTx) /\ ~ Opening(NoTx)
<1>1. << >> \in Seq(EventRows)
  OBVIOUS
<1> QED
  BY <1>1 DEF NoTx, Transactions, Phases, TxInv, Working, Opening

LEMMA OpenedType ==
  ASSUME IInv, NEW e \in Opened
  PROVE  e \in Episodes /\ episode[e] \in EpisodeRows
BY DEF IInv, TypeOK, Opened

\* What a loaded session holds, whatever it has loaded.
LEMMA Loaded ==
  ASSUME NEW op, NEW e, NEW k
  PROVE  Load(op, e, k) = [phase |-> "read", op |-> op, episode |-> e, candidate |-> None,
                           key |-> CommandKey(k), state |-> episode[e].state,
                           to |-> episode[e].state, holder |-> episode[e].owner,
                           owner |-> episode[e].owner, category |-> None,
                           approval |-> None, seq |-> 0, number |-> 0, drafts |-> << >>]
<1>1. PICK t : t = Load(op, e, k)
  OBVIOUS
<1>2. t = [phase |-> "read", op |-> op, episode |-> e, candidate |-> None,
           key |-> CommandKey(k), state |-> episode[e].state, to |-> episode[e].state,
           holder |-> episode[e].owner, owner |-> episode[e].owner, category |-> None,
           approval |-> None, seq |-> 0, number |-> 0, drafts |-> << >>]
  BY <1>1 DEF Load, NoTx
<1> QED
  BY <1>1, <1>2

LEMMA LoadType ==
  ASSUME IInv, NEW op \in Operations, NEW e \in Opened, NEW k \in Keys
  PROVE  /\ Load(op, e, k) \in Transactions
         /\ Load(op, e, k).phase = "read"
         /\ Load(op, e, k).op = op
         /\ Load(op, e, k).episode = e
         /\ Load(op, e, k).key \in EventKeys
         /\ Load(op, e, k).state = episode[e].state
         /\ Load(op, e, k).to = episode[e].state
         /\ episode[e].state \in SupportedStates
<1>1. episode[e] \in EpisodeRows /\ e \in Episodes
  BY OpenedType
<1>2. CommandKey(k) \in EventKeys
  BY DEF CommandKey, EventKeys
<1>3. NoTx \in Transactions
  BY NoTxType
<1> QED
  BY <1>1, <1>2, <1>3 DEF Load, NoTx, Transactions, EpisodeRows, Phases

\* A replayed session holds no obligations.
LEMMA ReplayStep ==
  ASSUME IInv, NEW s \in Sessions, NEW t \in Transactions, NEW v \in events,
         Begin(s, Replayed(t, v))
  PROVE  IInv'
<1>1. v.seq \in Nat /\ "replayed" \in Phases
  BY DEF IInv, TypeOK, EventRows, Phases
<1>2. Replayed(t, v) \in Transactions
  BY <1>1, ZenonT(60) DEF Replayed, Transactions
<1>3. Replayed(t, v).phase = "replayed"
  BY ZenonT(60) DEF Replayed, Transactions
<1>4. TxInv(Replayed(t, v)) /\ ~ Opening(Replayed(t, v))
  BY <1>3 DEF TxInv, Working, Opening
<1> QED
  BY <1>2, <1>4, SessionStep DEF Begin

\* A command on an existing episode: valid and about to write, or replayed.
LEMMA CommandStep ==
  ASSUME IInv, NEW s \in Sessions, NEW t \in Transactions, t.phase = "read", t.op # "open",
         \/ Validated(t) /\ Begin(s, t)
         \/ \E v \in events : Begin(s, Replayed(t, v))
  PROVE  IInv'
<1>1. CASE Validated(t) /\ Begin(s, t)
  <2>1. TxInv(t) /\ ~ Opening(t)
    BY <1>1 DEF TxInv, Working, Opening
  <2> QED
    BY <1>1, <2>1, SessionStep DEF Begin
<1>2. CASE \E v \in events : Begin(s, Replayed(t, v))
  BY <1>2, ReplayStep
<1> QED
  BY <1>1, <1>2

LEMMA MatrixMoves ==
  /\ \A a, b : <<a, b>> \in StateTransitions =>
       a \in SupportedStates /\ b \in SupportedStates /\ a # b
  /\ "suppressed" \notin SuppressibleStates
  /\ "suppressed" \in SupportedStates
  /\ "assigned" \in SupportedStates
BY DEF StateTransitions, SupportedStates, ActiveStates, TerminalStates, SuppressibleStates

LEMMA TransitionStep ==
  ASSUME IInv, NEW s \in Sessions, NEW e \in Episodes, NEW to \in SupportedStates,
         NEW approval \in (Users \X Users) \cup {None}, NEW k \in Keys,
         TransitionEpisode(s, e, to, approval, k)
  PROVE  IInv'
<1> DEFINE l == Load("transition", e, k)
           t == [l EXCEPT !.to = to, !.approval = approval]
<1>1. e \in Opened
  BY DEF TransitionEpisode
<1>2. /\ l \in Transactions /\ l.phase = "read" /\ l.op = "transition" /\ l.episode = e
      /\ l.key \in EventKeys /\ l.state = episode[e].state
      /\ episode[e].state \in SupportedStates
  BY <1>1, LoadType DEF Operations
<1>3. \/ <<episode[e].state, to>> \in StateTransitions /\ Begin(s, t)
      \/ \E v \in events : Begin(s, Replayed(t, v))
  BY DEF TransitionEpisode, Idempotent, Keyed, EventsOf
<1> HIDE DEF l
<1>4. t \in Transactions
  BY <1>2, ZenonT(60) DEF Transactions
<1>5. /\ t.phase = "read" /\ t.op = "transition" /\ t.episode = e
      /\ t.key = l.key /\ t.state = l.state /\ t.to = to
  BY <1>2, SMT DEF Transactions
<1>6. <<episode[e].state, to>> \in StateTransitions => Validated(t)
  <2> HIDE DEF t
  <2> QED
    BY <1>1, <1>2, <1>5, MatrixMoves DEF Validated, Operations, Opened
<1> HIDE DEF t
<1> QED
  BY <1>3, <1>4, <1>5, <1>6, CommandStep

LEMMA AssignStep ==
  ASSUME IInv, NEW s \in Sessions, NEW e \in Episodes, NEW u \in Users, NEW k \in Keys,
         AssignEpisode(s, e, u, k)
  PROVE  IInv'
<1> DEFINE l == Load("assign", e, k)
           t == [l EXCEPT !.owner = u, !.to = IF @ = "open" THEN "assigned" ELSE @]
<1>1. e \in Opened
  BY DEF AssignEpisode
<1>2. /\ l \in Transactions /\ l.phase = "read" /\ l.op = "assign" /\ l.episode = e
      /\ l.key \in EventKeys /\ l.state = episode[e].state /\ l.to = episode[e].state
      /\ episode[e].state \in SupportedStates
  BY <1>1, LoadType DEF Operations
<1>3. \/ Begin(s, t)
      \/ \E v \in events : Begin(s, Replayed(t, v))
  BY DEF AssignEpisode, Idempotent, Keyed, EventsOf
<1> HIDE DEF l
<1> DEFINE to == IF l.to = "open" THEN "assigned" ELSE l.to
<1>4. to \in SupportedStates \cup {None}
  BY <1>2, MatrixMoves
<1> DEFINE x == [l EXCEPT !.owner = u, !.to = to]
<1>5. t = x
  OBVIOUS
<1> HIDE DEF to, t
<1>5a. x \in Transactions
  BY <1>2, <1>4, ZenonT(60) DEF Transactions
<1>5b. /\ x.phase = "read" /\ x.op = "assign" /\ x.episode = e
       /\ x.key = l.key /\ x.state = l.state /\ x.to = to
  BY <1>2, SMT DEF Transactions
<1> HIDE DEF x
<1>6. t \in Transactions
  BY <1>5, <1>5a
<1>7. /\ t.phase = "read" /\ t.op = "assign" /\ t.episode = e
      /\ t.key = l.key /\ t.state = l.state /\ t.to = to
  BY <1>5, <1>5b
<1>8. Validated(t)
  BY <1>1, <1>2, <1>4, <1>7, MatrixMoves DEF Validated, Operations, Opened, to
<1> QED
  BY <1>3, <1>6, <1>7, <1>8, CommandStep

LEMMA SuppressStep ==
  ASSUME IInv, NEW s \in Sessions, NEW e \in Episodes, NEW approval \in Users \X Users,
         NEW k \in Keys, SuppressEpisode(s, e, approval, k)
  PROVE  IInv'
<1> DEFINE l == Load("suppress", e, k)
           t == [l EXCEPT !.to = "suppressed", !.approval = approval]
<1>1. e \in Opened
  BY DEF SuppressEpisode
<1>2. /\ l \in Transactions /\ l.phase = "read" /\ l.op = "suppress" /\ l.episode = e
      /\ l.key \in EventKeys /\ l.state = episode[e].state
      /\ episode[e].state \in SupportedStates
  BY <1>1, LoadType DEF Operations
<1>3. \/ episode[e].state \in SuppressibleStates /\ Begin(s, t)
      \/ \E v \in events : Begin(s, Replayed(t, v))
  BY DEF SuppressEpisode, Idempotent, Keyed, EventsOf
<1> HIDE DEF l
<1>4. t \in Transactions
  BY <1>2, MatrixMoves, ZenonT(60) DEF Transactions
<1>5. /\ t.phase = "read" /\ t.op = "suppress" /\ t.episode = e
      /\ t.key = l.key /\ t.state = l.state /\ t.to = "suppressed"
  BY <1>2, SMT DEF Transactions
<1>6. episode[e].state \in SuppressibleStates => Validated(t)
  <2> HIDE DEF t
  <2> QED
    BY <1>1, <1>2, <1>5, MatrixMoves DEF Validated, Operations, Opened
<1> HIDE DEF t
<1> QED
  BY <1>3, <1>4, <1>5, <1>6, CommandStep

LEMMA AppendStep ==
  ASSUME IInv, NEW s \in Sessions, NEW e \in Episodes, NEW category \in Categories,
         NEW k \in Keys, AppendAction(s, e, category, k)
  PROVE  IInv'
<1> DEFINE l == Load("action", e, k)
           t == [l EXCEPT !.category = category]
<1>1. e \in Opened
  BY DEF AppendAction
<1>2. /\ l \in Transactions /\ l.phase = "read" /\ l.op = "action" /\ l.episode = e
      /\ l.key \in EventKeys /\ l.state = episode[e].state /\ l.to = episode[e].state
      /\ episode[e].state \in SupportedStates
  BY <1>1, LoadType DEF Operations
<1>3. \/ Begin(s, t)
      \/ \E v \in events : Begin(s, Replayed(t, v))
  BY DEF AppendAction, Idempotent, Keyed, EventsOf
<1> HIDE DEF l
<1>4. t \in Transactions
  BY <1>2, ZenonT(60) DEF Transactions
<1>5. /\ t.phase = "read" /\ t.op = "action" /\ t.episode = e
      /\ t.key = l.key /\ t.state = l.state /\ t.to = l.to
  BY <1>2, SMT DEF Transactions
<1>6. Validated(t)
  <2> HIDE DEF t
  <2> QED
    BY <1>1, <1>2, <1>5, MatrixMoves DEF Validated, Operations, Opened
<1> HIDE DEF t
<1> QED
  BY <1>3, <1>4, <1>5, <1>6, CommandStep

LEMMA AgreementStep ==
  ASSUME IInv, NEW s \in Sessions, NEW e \in Episodes, NEW k \in Keys,
         CreateActionAgreement(s, e, k)
  PROVE  IInv'
<1> DEFINE l == Load("agreement", e, k)
           m == [l EXCEPT !.category = "action_agreement"]
           t == [m EXCEPT !.to = "action_agreed"]
<1>1. e \in Opened
  BY DEF CreateActionAgreement
<1>2. /\ l \in Transactions /\ l.phase = "read" /\ l.op = "agreement" /\ l.episode = e
      /\ l.key \in EventKeys /\ l.state = episode[e].state
      /\ episode[e].state \in SupportedStates
  BY <1>1, LoadType DEF Operations
<1>3. \/ <<episode[e].state, "action_agreed">> \in StateTransitions /\ Begin(s, t)
      \/ \E v \in events : Begin(s, Replayed(m, v))
  BY DEF CreateActionAgreement, Keyed, EventsOf
<1> HIDE DEF l
<1>4. m \in Transactions
  BY <1>2, ZenonT(60) DEF Transactions, Categories
<1>5. /\ m.phase = "read" /\ m.op = "agreement" /\ m.episode = e
      /\ m.key = l.key /\ m.state = l.state
  BY <1>2, SMT DEF Transactions
<1> HIDE DEF m
<1>6. "action_agreed" \in SupportedStates
  BY DEF SupportedStates, ActiveStates
<1>7. t \in Transactions
  BY <1>4, <1>6, ZenonT(60) DEF Transactions
<1>8. /\ t.phase = "read" /\ t.op = "agreement" /\ t.episode = e
      /\ t.key = l.key /\ t.state = l.state /\ t.to = "action_agreed"
  BY <1>4, <1>5, SMT DEF Transactions
<1>9. <<episode[e].state, "action_agreed">> \in StateTransitions => Validated(t)
  <2> HIDE DEF t
  <2> QED
    BY <1>1, <1>2, <1>8, MatrixMoves DEF Validated, Operations, Opened
<1> HIDE DEF t
<1> QED
  BY <1>3, <1>4, <1>5, <1>7, <1>8, <1>9, CommandStep

\* The two queries of open_episode_from_candidate and the answer to a retry.
LEMMA OpenStep ==
  ASSUME IInv, NEW s \in Sessions, NEW c \in Candidates, NEW k \in Keys,
         OpenEpisodeFromCandidate(s, c, k)
  PROVE  IInv'
<1>1. CASE candidate[c].linked # None /\ \E v \in EventsOf(candidate[c].linked) :
             Begin(s, Replayed([Load("open", candidate[c].linked, k) EXCEPT !.candidate = c], v))
  <2> DEFINE e == candidate[c].linked
             l == Load("open", e, k)
             t == [l EXCEPT !.candidate = c]
  <2>1. PICK v \in EventsOf(e) : Begin(s, Replayed(t, v))
    BY <1>1
  <2>2. e \in Opened /\ v \in events
    BY <2>1 DEF IInv, EventsOfOpened, EventsOf
  <2>3. l \in Transactions
    BY <2>2, LoadType DEF Operations
  <2> HIDE DEF l
  <2>4. t \in Transactions
    BY <2>3, ZenonT(60) DEF Transactions
  <2> HIDE DEF t
  <2> QED
    BY <2>1, <2>2, <2>4, ReplayStep
<1>2. CASE Begin(s, [NoTx EXCEPT !.phase = "candidate", !.op = "open",
                                 !.candidate = c, !.key = CommandKey(k)])
  <2> DEFINE t == [NoTx EXCEPT !.phase = "candidate", !.op = "open",
                               !.candidate = c, !.key = CommandKey(k)]
  <2>1. /\ "candidate" \in Phases
        /\ CommandKey(k) \in EventKeys
        /\ "open" \in Operations
        /\ NoTx \in Transactions
    BY NoTxType DEF Phases, CommandKey, EventKeys, Operations
  <2>2. t \in Transactions
    BY <2>1, ZenonT(60) DEF Transactions
  <2>3. t.phase = "candidate" /\ t.candidate = c /\ t.key = CommandKey(k)
        /\ t.op = "open" /\ t.state = None
    BY DEF NoTx
  <2> HIDE DEF t
  <2>4. TxInv(t) /\ ~ Opening(t)
    BY <2>1, <2>3 DEF TxInv, Opening, Working
  <2> QED
    BY <1>2, <2>2, <2>4, SessionStep DEF Begin, t
<1> QED
  BY <1>1, <1>2 DEF OpenEpisodeFromCandidate

LEMMA FindActiveStep ==
  ASSUME IInv, NEW s \in Sessions, FindActiveEpisode(s)
  PROVE  IInv'
<1> DEFINE t == tx[s]
<1>1. t \in Transactions /\ t.phase = "candidate"
      /\ t.candidate \in Candidates /\ t.key \in EventKeys
      /\ t.op = "open" /\ t.state = None
  BY DEF FindActiveEpisode, IInv, TypeOK, TxInv
<1>2. t.key[1] \in Keys
  BY <1>1 DEF EventKeys
<1>3. ASSUME NEW e \in ActiveOn(LineOf[t.candidate]),
             tx' = [tx EXCEPT ![s] = [Load("link", e, t.key[1]) EXCEPT !.candidate = t.candidate]]
      PROVE  IInv'
  <2> DEFINE l == Load("link", e, t.key[1])
             x == [l EXCEPT !.candidate = t.candidate]
  <2>1. e \in Opened
    BY DEF ActiveOn
  <2>2. /\ l \in Transactions /\ l.phase = "read" /\ l.op = "link" /\ l.episode = e
        /\ l.key \in EventKeys /\ l.state = episode[e].state /\ l.to = episode[e].state
        /\ episode[e].state \in SupportedStates
    BY <1>2, <2>1, LoadType DEF Operations
  <2> HIDE DEF l, t
  <2>2a. t.candidate \in Candidates
    BY <1>1
  <2>3. x \in Transactions
    BY <2>2, <2>2a, ZenonT(60) DEF Transactions
  <2>4. /\ x.phase = "read" /\ x.op = "link" /\ x.episode = e /\ x.key = l.key
        /\ x.state = l.state /\ x.to = l.to /\ x.candidate = t.candidate
    BY <2>2, SMT DEF Transactions
  <2>5. tx' = [tx EXCEPT ![s] = x]
    BY <1>3 DEF l
  <2> HIDE DEF x
  <2>6. Validated(x)
    BY <1>1, <2>1, <2>2, <2>4 DEF Validated, Operations, Opened
  <2>7. TxInv(x) /\ ~ Opening(x)
    BY <2>4, <2>6 DEF TxInv, Opening, Working
  <2> QED
    BY <2>3, <2>5, <2>7, SessionStep DEF FindActiveEpisode
<1>4. ASSUME NEW e \in Episodes \ (Opened \cup {tx[r].episode : r \in Sessions}),
             tx' = [tx EXCEPT ![s] = [t EXCEPT !.phase = "read", !.episode = e, !.to = "open"]]
      PROVE  IInv'
  <2> DEFINE x == [t EXCEPT !.phase = "read", !.episode = e, !.to = "open"]
  <2>1. "read" \in Phases /\ "open" \in SupportedStates
    BY DEF Phases, SupportedStates, ActiveStates
  <2> HIDE DEF t
  <2>2. x \in Transactions
    BY <1>1, <2>1, ZenonT(60) DEF Transactions
  <2>3. /\ x.phase = "read" /\ x.op = "open" /\ x.episode = e /\ x.key = t.key
        /\ x.state = None /\ x.to = "open" /\ x.candidate = t.candidate
    BY <1>1, <1>4, SMT DEF Transactions
  <2>4. tx' = [tx EXCEPT ![s] = x]
    BY <1>4
  <2> HIDE DEF x
  <2>5. Validated(x)
    BY <1>1, <2>3 DEF Validated, Operations
  <2>6. TxInv(x)
    BY <2>3, <2>5 DEF TxInv, Working
  <2>7. x.episode \notin Opened /\ \A r \in Sessions \ {s} : tx[r].episode # x.episode
    BY <1>4, <2>3
  <2> QED
    BY <2>2, <2>4, <2>6, <2>7, SessionStep DEF FindActiveEpisode
<1> QED
  BY <1>3, <1>4 DEF FindActiveEpisode

\* A session that answers, or rolls back, forgets what it held.
LEMMA EndStep ==
  ASSUME IInv, NEW s \in Sessions, tx' = [tx EXCEPT ![s] = NoTx],
         UNCHANGED <<episode, candidate, events>>
  PROVE  IInv'
BY NoTxType, SessionStep

------------------------------------------------------------------------------
(* Flush *)

LEMMA EventType ==
  ASSUME NEW t \in Transactions, Validated(t), NEW key \in EventKeys, NEW type \in EventTypes
  PROVE  Event(t, key, type) \in EventRows
BY DEF Event, EventRows, Validated

LEMMA StateEventType ==
  ASSUME NEW t \in Transactions, Validated(t), NEW key \in EventKeys
  PROVE  /\ StateEvent(t, key) \in EventRows
         /\ StateEvent(t, key).episode = t.episode
         /\ StateEvent(t, key).to = t.to
<1> DEFINE type == IF t.state = "resolved" /\ t.to = "investigating"
                   THEN "reopened" ELSE "state_changed"
           v == Event(t, key, type)
<1>1. type \in EventTypes
  BY DEF EventTypes
<1>2. v \in EventRows /\ v.episode = t.episode
  BY <1>1, EventType DEF Event
<1>3. StateEvent(t, key) = [v EXCEPT !.from = t.state, !.to = t.to, !.approval = t.approval]
  BY DEF StateEvent
<1>4. /\ t.state \in SupportedStates \cup {None}
      /\ t.to \in SupportedStates \cup {None}
      /\ t.approval \in (Users \X Users) \cup {None}
  BY DEF Transactions
<1> HIDE DEF v
<1>5. StateEvent(t, key) \in EventRows
  BY <1>2, <1>3, <1>4, ZenonT(60) DEF EventRows
<1>6. StateEvent(t, key).episode = t.episode /\ StateEvent(t, key).to = t.to
  BY <1>2, <1>3, SMT DEF EventRows
<1> QED
  BY <1>5, <1>6

LEMMA ActionEventType ==
  ASSUME NEW t \in Transactions, Validated(t)
  PROVE  /\ ActionEvent(t) \in EventRows
         /\ ActionEvent(t).episode = t.episode
         /\ ActionEvent(t).to = None
<1> DEFINE v == Event(t, t.key, "action_recorded")
<1>1. v \in EventRows /\ v.episode = t.episode /\ v.to = None
  BY EventType DEF Event, EventTypes, Validated
<1>2. t.category \in Categories \cup {None}
  BY DEF Transactions
<1>3. ActionEvent(t) = [v EXCEPT !.category = t.category]
  BY DEF ActionEvent
<1> HIDE DEF v
<1> QED
  BY <1>1, <1>2, <1>3 DEF EventRows

LEMMA OwnershipEventType ==
  ASSUME NEW t \in Transactions, Validated(t)
  PROVE  /\ OwnershipEvent(t) \in EventRows
         /\ OwnershipEvent(t).episode = t.episode
         /\ OwnershipEvent(t).to = IF t.state = "open" THEN "assigned" ELSE None
<1> DEFINE v == Event(t, t.key, "ownership_changed")
           from == IF t.state = "open" THEN "open" ELSE None
           to == IF t.state = "open" THEN "assigned" ELSE None
<1>1. v \in EventRows /\ v.episode = t.episode
  BY EventType DEF Event, EventTypes, Validated
<1>2. /\ t.holder \in Users \cup {None}
      /\ t.owner \in Users \cup {None}
      /\ from \in SupportedStates \cup {None}
      /\ to \in SupportedStates \cup {None}
  BY DEF Transactions, SupportedStates, ActiveStates
<1>3. OwnershipEvent(t) =
        [v EXCEPT !.previous = t.holder, !.owner = t.owner, !.from = from, !.to = to]
  BY DEF OwnershipEvent
<1> HIDE DEF v, from, to
<1>4. OwnershipEvent(t) \in EventRows
  BY <1>1, <1>2, <1>3, ZenonT(60) DEF EventRows
<1>5. OwnershipEvent(t).episode = t.episode /\ OwnershipEvent(t).to = to
  BY <1>1, <1>3, SMT DEF EventRows
<1> QED
  BY <1>4, <1>5 DEF to

\* What the rows of a session look like before they are numbered.
LEMMA DraftsShape ==
  ASSUME NEW t \in Transactions, Validated(t)
  PROVE  /\ Drafts(t) \in Seq(EventRows)
         /\ Len(Drafts(t)) \in {1, 2}
         /\ \A i \in 1 .. Len(Drafts(t)) :
              Drafts(t)[i] \in EventRows /\ Drafts(t)[i].episode = t.episode
         /\ Drafts(t)[1].to = (IF StateWritten(t) THEN t.to ELSE None)
         /\ Len(Drafts(t)) = 2 => Drafts(t)[2].to = None
<1> DEFINE d == Drafts(t)
<1>1. t.key \in EventKeys /\ t.op \in Operations
  BY DEF Validated
<1>2. CASE t.op = "assign"
  <2>1. d = <<OwnershipEvent(t)>>
    BY <1>2 DEF Drafts
  <2>2. (IF t.state = "open" THEN "assigned" ELSE None)
          = (IF StateWritten(t) THEN t.to ELSE None)
    BY <1>2 DEF Validated, StateWritten
  <2> QED
    BY <2>1, <2>2, OwnershipEventType
<1>3. CASE t.op = "action"
  <2>1. d = <<ActionEvent(t)>> /\ ~ StateWritten(t)
    BY <1>3 DEF Drafts, Validated, StateWritten
  <2> QED
    BY <2>1, ActionEventType
<1>4. CASE t.op = "link"
  <2> DEFINE v == Event(t, t.key, "candidate_linked")
  <2>1. d = <<v>> /\ ~ StateWritten(t)
    BY <1>4 DEF Drafts, Validated, StateWritten
  <2>2. v \in EventRows /\ v.episode = t.episode /\ v.to = None
    BY <1>1, EventType DEF Event, EventTypes
  <2> QED
    BY <2>1, <2>2
<1>5. CASE t.op = "agreement"
  <2> DEFINE v == StateEvent(t, StateKey(t.key[1]))
  <2>1. d = <<v>> \/ d = <<v, ActionEvent(t)>>
    BY <1>5 DEF Drafts
  <2>2. StateKey(t.key[1]) \in EventKeys
    BY <1>1 DEF StateKey, EventKeys
  <2>3. v \in EventRows /\ v.episode = t.episode /\ v.to = t.to /\ StateWritten(t)
    BY <1>5, <2>2, StateEventType DEF Validated, StateWritten
  <2> HIDE DEF v, d
  <2>4. CASE d = <<v>>
    BY <2>3, <2>4 DEF d
  <2>5. CASE d = <<v, ActionEvent(t)>>
    BY <2>3, <2>5, ActionEventType DEF d
  <2> QED
    BY <2>1, <2>4, <2>5
<1>6. CASE t.op \in {"open", "transition", "suppress"}
  <2> DEFINE v == StateEvent(t, t.key)
  <2>1. d = <<v>>
    BY <1>6 DEF Drafts
  <2>2. StateWritten(t)
    BY <1>6, ServiceAssumption DEF Validated, StateWritten, SupportedStates, ActiveStates
  <2>3. v \in EventRows /\ v.episode = t.episode /\ v.to = t.to
    BY <1>1, StateEventType
  <2> QED
    BY <2>1, <2>2, <2>3
<1> QED
  BY <1>1, <1>2, <1>3, <1>4, <1>5, <1>6 DEF Operations

LEMMA FlushStep ==
  ASSUME IInv, NEW s \in Sessions, Flush(s)
  PROVE  IInv'
<1> DEFINE t == tx[s]
           seq == NextEventSequence(t.episode)
           number == IF t.op = "open"
                     THEN NextEpisodeSequence(LineOf[t.candidate]) ELSE 0
           x == [t EXCEPT !.phase = "flushed", !.drafts = Drafts(t),
                          !.seq = seq, !.number = number]
<1>1. t \in Transactions /\ t.phase = "read" /\ Validated(t)
  BY DEF Flush, IInv, TypeOK, TxInv, Working
<1>2. Drafts(t) \in Seq(EventRows)
  BY <1>1, DraftsShape
<1>3. seq \in Nat /\ NextIn(seq, EventNumbers(t.episode))
  <2>1. Numbered(EventNumbers(t.episode)) /\ t.episode \in Episodes
    BY <1>1 DEF IInv, EventsNumbered, Validated
  <2>2. seq = 1 + MaxOr0(EventNumbers(t.episode))
    BY DEF NextEventSequence, EventNumbers
  <2> QED
    BY <2>1, <2>2, NextOfNumbering DEF NextIn
<1>4. /\ number \in Nat
      /\ t.op = "open" => NextIn(number, EpisodeNumbers(LineOf[t.candidate]))
  <2>1. CASE t.op = "open"
    <3>1. LineOf[t.candidate] \in Lines
      BY <1>1, <2>1, ServiceAssumption DEF Validated
    <3>2. Numbered(EpisodeNumbers(LineOf[t.candidate]))
      BY <3>1 DEF IInv, EpisodesNumbered
    <3>3. number = 1 + MaxOr0(EpisodeNumbers(LineOf[t.candidate]))
      BY <2>1 DEF NextEpisodeSequence, EpisodeNumbers
    <3> QED
      BY <3>2, <3>3, NextOfNumbering DEF NextIn
  <2>2. CASE t.op # "open"
    BY <2>2
  <2> QED
    BY <2>1, <2>2
<1>5. tx' = [tx EXCEPT ![s] = x] /\ UNCHANGED <<episode, candidate, events>>
  BY DEF Flush
<1>6. "flushed" \in Phases
  BY DEF Phases
<1> DEFINE d == Drafts(t)
<1>7. d = Drafts(t) /\ x = [t EXCEPT !.phase = "flushed", !.drafts = d,
                                     !.seq = seq, !.number = number]
  OBVIOUS
<1> HIDE DEF t, seq, number, x, d
<1>8. x \in Transactions
  <2>1. t \in Transactions /\ d \in Seq(EventRows) /\ seq \in Nat /\ number \in Nat
    BY <1>1, <1>2, <1>3, <1>4, <1>7
  <2>2. x = [t EXCEPT !.phase = "flushed", !.drafts = d, !.seq = seq, !.number = number]
    BY <1>7
  <2> QED
    BY <1>6, <2>1, <2>2, ZenonT(60) DEF Transactions
<1>9. /\ x.phase = "flushed" /\ x.drafts = d /\ x.seq = seq /\ x.number = number
      /\ x.op = t.op /\ x.episode = t.episode /\ x.candidate = t.candidate
      /\ x.key = t.key /\ x.state = t.state /\ x.to = t.to
  BY <1>1, <1>7, SMT DEF Transactions
<1>10. Validated(x)
  BY <1>1, <1>9 DEF Validated
<1>11. Drafted(x)
  BY <1>1, <1>7, <1>9, DraftsShape DEF Drafted, StateWritten
<1>12. TxInv(x)
  BY <1>3, <1>4, <1>9, <1>10, <1>11 DEF TxInv
<1>13. Opening(x) => /\ x.episode \notin Opened
                     /\ \A r \in Sessions \ {s} :
                          Opening(tx[r]) => tx[r].episode # x.episode
  <2>1. Opening(x) => Opening(tx[s]) /\ tx[s].episode = x.episode
    BY <1>1, <1>9 DEF Opening, Working, t
  <2> QED
    BY <2>1 DEF IInv, FreshIdentifiers
<1> QED
  BY <1>5, <1>8, <1>12, <1>13, SessionStep

------------------------------------------------------------------------------
(* Commit *)

\* The rows a commit inserts: the first is numbered t.seq and carries the state
\* change, a second one is numbered t.seq + 1 and carries none.
LEMMA NewEventsShape ==
  ASSUME NEW t \in Transactions, Drafted(t), t.seq \in Nat
  PROVE  \E a \in EventRows :
           /\ a.episode = t.episode
           /\ a.seq = t.seq
           /\ a.to = (IF StateWritten(t) THEN t.to ELSE None)
           /\ \/ NewEvents(t) = {a}
              \/ \E b \in EventRows :
                   /\ b.episode = t.episode
                   /\ b.seq = t.seq + 1
                   /\ b.to = None
                   /\ NewEvents(t) = {a, b}
<1> DEFINE row(i) == [t.drafts[i] EXCEPT !.seq = t.seq + i - 1]
<1>1. ASSUME NEW i \in 1 .. Len(t.drafts)
      PROVE  /\ row(i) \in EventRows
             /\ row(i).episode = t.episode
             /\ row(i).seq = t.seq + i - 1
             /\ row(i).to = t.drafts[i].to
  <2> DEFINE d == t.drafts[i]
             n == t.seq + i - 1
  <2>1. d \in EventRows /\ d.episode = t.episode
    BY DEF Drafted
  <2>2. n \in Nat
    BY DEF Transactions
  <2>3. row(i) = [d EXCEPT !.seq = n]
    OBVIOUS
  <2> HIDE DEF d, n, row
  <2>4. row(i) \in EventRows
    BY <2>1, <2>2, <2>3, ZenonT(60) DEF EventRows
  <2>5. row(i).episode = d.episode /\ row(i).seq = n /\ row(i).to = d.to
    BY <2>1, <2>3, SMT DEF EventRows
  <2> QED
    BY <2>1, <2>4, <2>5 DEF d, n
<1>2. NewEvents(t) = {row(i) : i \in 1 .. Len(t.drafts)}
  BY DEF NewEvents
<1> HIDE DEF row
<1>3. Len(t.drafts) \in {1, 2} /\ t.drafts[1].to = (IF StateWritten(t) THEN t.to ELSE None)
  BY DEF Drafted
<1>4. /\ row(1) \in EventRows
      /\ row(1).episode = t.episode
      /\ row(1).seq = t.seq
      /\ row(1).to = (IF StateWritten(t) THEN t.to ELSE None)
  BY <1>1, <1>3
<1>5. CASE Len(t.drafts) = 1
  <2>1. NewEvents(t) = {row(1)}
    BY <1>2, <1>5
  <2> QED
    BY <1>4, <2>1
<1>6. CASE Len(t.drafts) = 2
  <2>1. NewEvents(t) = {row(1), row(2)}
    <3>1. 1 .. 2 = {1, 2}
      OBVIOUS
    <3> QED
      BY <1>2, <1>6, <3>1
  <2>2. /\ row(2) \in EventRows
        /\ row(2).episode = t.episode
        /\ row(2).seq = t.seq + 1
        /\ row(2).to = None
    BY <1>1, <1>6 DEF Drafted
  <2> QED
    BY <1>4, <2>1, <2>2
<1> QED
  BY <1>3, <1>5, <1>6

\* The episode row a commit writes.
LEMMA RowAfterShape ==
  ASSUME IInv, NEW s \in Sessions, Working(tx[s])
  PROVE  LET t == tx[s]
             row == RowAfter(t)
         IN /\ t.episode \in Episodes
            /\ row \in EpisodeRows
            /\ row # Absent
            /\ t.op = "open" =>
                 /\ t.episode \notin Opened
                 /\ StateWritten(t)
                 /\ t.to = "open"
                 /\ row.line = LineOf[t.candidate]
                 /\ row.number = t.number
                 /\ row.state = "open"
                 /\ ~ row.closed
            /\ t.op # "open" =>
                 /\ t.episode \in Opened
                 /\ row.line = episode[t.episode].line
                 /\ row.number = episode[t.episode].number
                 /\ row.state = (IF StateWritten(t) THEN t.to ELSE episode[t.episode].state)
                 /\ row.closed = (episode[t.episode].closed
                                    \/ (StateWritten(t) /\ t.to = "closed"))
<1> DEFINE t == tx[s]
           row == RowAfter(t)
           e == t.episode
<1>1. t \in Transactions /\ Validated(t) /\ e \in Episodes
  BY DEF IInv, TypeOK, TxInv, Validated
<1>2. CASE t.op = "open"
  <2>1. row = [line |-> LineOf[t.candidate], number |-> t.number, state |-> "open",
               owner |-> None, closed |-> FALSE]
    BY <1>2 DEF RowAfter
  <2>2. LineOf[t.candidate] \in Lines /\ t.number \in Nat /\ "open" \in SupportedStates
    BY <1>1, <1>2, ServiceAssumption DEF Validated, Transactions, SupportedStates, ActiveStates
  <2>3. row \in EpisodeRows
    BY <2>1, <2>2 DEF EpisodeRows
  <2>4. row # Absent
    BY <2>1, <2>2, ServiceAssumption DEF Absent
  <2>5. e \notin Opened
    BY <1>2 DEF IInv, FreshIdentifiers, Opening
  <2>6. StateWritten(t) /\ t.to = "open"
    BY <1>1, <1>2, <2>2, ServiceAssumption DEF Validated, StateWritten
  <2> QED
    BY <1>1, <1>2, <2>1, <2>3, <2>4, <2>5, <2>6
<1>3. CASE t.op # "open"
  <2> DEFINE old == episode[e]
             state == IF StateWritten(t) THEN t.to ELSE old.state
             owner == IF OwnerWritten(t) THEN t.owner ELSE old.owner
             closed == old.closed \/ (StateWritten(t) /\ t.to = "closed")
  <2>1. e \in Opened /\ old \in EpisodeRows /\ t.to \in SupportedStates
    BY <1>1, <1>3, OpenedType DEF Validated
  <2>2. state \in SupportedStates /\ owner \in Users \cup {None} /\ closed \in BOOLEAN
    BY <1>1, <2>1 DEF EpisodeRows, Transactions
  <2>3. row = [old EXCEPT !.state = state, !.owner = owner, !.closed = closed]
    BY <1>3 DEF RowAfter
  <2> HIDE DEF old, state, owner, closed
  <2>4. row \in EpisodeRows
    <3>1. old \in EpisodeRows
      BY <2>1
    <3> HIDE DEF row
    <3> QED
      BY <3>1, <2>2, <2>3, ZenonT(60) DEF EpisodeRows
  <2>5. /\ row.line = old.line /\ row.number = old.number
        /\ row.state = state /\ row.closed = closed
    BY <2>1, <2>3, ZenonT(60) DEF EpisodeRows
  <2>6. row # Absent
    BY <2>2, <2>5, ServiceAssumption DEF Absent
  <2> QED
    BY <1>1, <1>3, <2>1, <2>4, <2>5, <2>6 DEF old, state, closed
<1> QED
  BY <1>2, <1>3

\* The event numbers of an episode stay a numbering, the new ones come last.
LEMMA CommitNumbers ==
  ASSUME IInv, NEW s \in Sessions, Commit(s), NEW t, t = tx[s],
         NEW S, S = EventNumbers(t.episode), NEW T, T = {v.seq : v \in NewEvents(t)}
  PROVE  /\ Numbered(S \cup T)
         /\ \A m \in S, n \in T : m < n
<1>1. /\ t \in Transactions /\ Drafted(t) /\ NextIn(t.seq, S)
      /\ t.seq \in Nat /\ t.episode \in Episodes /\ Numbered(S)
  BY DEF Commit, IInv, TypeOK, TxInv, Working, Validated, EventsNumbered, Transactions
<1>2. PICK a \in EventRows :
        /\ a.seq = t.seq
        /\ \/ NewEvents(t) = {a}
           \/ \E b \in EventRows : b.seq = t.seq + 1 /\ NewEvents(t) = {a, b}
  BY <1>1, NewEventsShape
<1>3. T = {t.seq} \/ T = {t.seq, t.seq + 1}
  BY <1>2
<1>4. t.seq \notin S
  <2>1. a \in NewEvents(t)
    BY <1>2
  <2> QED
    BY <1>2, <2>1 DEF Commit, Accepted, EventsUnique, EventNumbers
<1>5. /\ Numbered(S \cup {t.seq})
      /\ t.seq + 1 \notin S
      /\ \A m \in S : m < t.seq
  BY <1>1, <1>4, NumberingGrows
<1>6. Numbered((S \cup {t.seq}) \cup {t.seq + 1})
  <2> DEFINE U == S \cup {t.seq}
             n == t.seq + 1
  <2>1. NextIn(n, U) /\ n \notin U
    BY <1>1, <1>5 DEF NextIn
  <2>2. Numbered(U)
    BY <1>5
  <2> HIDE DEF U, n
  <2> QED
    BY <2>1, <2>2, NumberingGrows DEF U, n
<1>7. \A m \in S : m \in Nat
  BY <1>1, SMT DEF Numbered
<1>8. CASE T = {t.seq}
  BY <1>5, <1>8
<1>9. CASE T = {t.seq, t.seq + 1}
  <2>1. S \cup T = (S \cup {t.seq}) \cup {t.seq + 1}
    BY <1>9
  <2>2. \A m \in S, n \in T : m < n
    BY <1>1, <1>5, <1>7, <1>9
  <2> QED
    BY <1>6, <2>1, <2>2
<1> QED
  BY <1>3, <1>8, <1>9

\* How a commit changes the tables, in terms of the operators the invariant
\* is made of.
LEMMA CommitTables ==
  ASSUME IInv, NEW s \in Sessions, Commit(s), NEW t, t = tx[s], NEW e, e = t.episode
  PROVE  /\ Opened' = Opened \cup {e}
         /\ episode'[e] = RowAfter(t)
         /\ \A f \in Episodes \ {e} : episode'[f] = episode[f]
         /\ EventsOf(e)' = EventsOf(e) \cup NewEvents(t)
         /\ \A f \in Episodes \ {e} : EventsOf(f)' = EventsOf(f)
         /\ tx'[s] = NoTx
         /\ \A r \in Sessions \ {s} : tx'[r] = tx[r]
<1>1. /\ t \in Transactions /\ Drafted(t) /\ t.seq \in Nat /\ Working(t)
  BY DEF Commit, IInv, TypeOK, TxInv, Working, Transactions
<1>2. e \in Episodes /\ RowAfter(t) # Absent
  BY <1>1, RowAfterShape
<1>3. \A v \in NewEvents(t) : v.episode = e
  BY <1>1, NewEventsShape
<1>4. /\ episode' = [episode EXCEPT ![e] = RowAfter(t)]
      /\ events' = events \cup NewEvents(t)
      /\ tx' = [tx EXCEPT ![s] = NoTx]
      /\ episode \in [Episodes -> EpisodeRows \cup {Absent}]
      /\ tx \in [Sessions -> Transactions]
  BY DEF Commit, IInv, TypeOK
<1>5. /\ episode'[e] = RowAfter(t)
      /\ \A f \in Episodes \ {e} : episode'[f] = episode[f]
      /\ tx'[s] = NoTx
      /\ \A r \in Sessions \ {s} : tx'[r] = tx[r]
  BY <1>2, <1>4
<1>6. Opened' = Opened \cup {e}
  BY <1>2, <1>5 DEF Opened, Absent
<1>7. EventsOf(e)' = EventsOf(e) \cup NewEvents(t)
  BY <1>3, <1>4 DEF EventsOf
<1>8. \A f \in Episodes \ {e} : EventsOf(f)' = EventsOf(f)
  BY <1>3, <1>4 DEF EventsOf
<1> QED
  BY <1>5, <1>6, <1>7, <1>8

LEMMA CommitStep ==
  ASSUME IInv, NEW s \in Sessions, Commit(s)
  PROVE  IInv'
<1>0. PICK t : t = tx[s]
  OBVIOUS
<1>1. PICK e : e = t.episode
  OBVIOUS
<1>2. PICK row : row = RowAfter(t)
  OBVIOUS
<1>3. /\ t \in Transactions /\ Drafted(t) /\ Validated(t) /\ Working(t) /\ t.seq \in Nat
      /\ t.op = "open" => NextIn(t.number, EpisodeNumbers(LineOf[t.candidate]))
      /\ t.op \in {"open", "link"} => t.candidate \in Candidates
  BY <1>0 DEF Commit, IInv, TypeOK, TxInv, Working, Transactions, Validated
<1>4. /\ Opened' = Opened \cup {e}
      /\ episode'[e] = row
      /\ \A f \in Episodes \ {e} : episode'[f] = episode[f]
      /\ EventsOf(e)' = EventsOf(e) \cup NewEvents(t)
      /\ \A f \in Episodes \ {e} : EventsOf(f)' = EventsOf(f)
      /\ tx'[s] = NoTx
      /\ \A r \in Sessions \ {s} : tx'[r] = tx[r]
  BY <1>0, <1>1, <1>2, CommitTables
<1>5. /\ e \in Episodes /\ row \in EpisodeRows
      /\ t.op = "open" =>
           /\ e \notin Opened
           /\ StateWritten(t)
           /\ t.to = "open"
           /\ row.line = LineOf[t.candidate]
           /\ row.number = t.number
           /\ row.state = "open"
           /\ ~ row.closed
      /\ t.op # "open" =>
           /\ e \in Opened
           /\ row.line = episode[e].line
           /\ row.number = episode[e].number
           /\ row.state = (IF StateWritten(t) THEN t.to ELSE episode[e].state)
           /\ row.closed = (episode[e].closed \/ (StateWritten(t) /\ t.to = "closed"))
  BY <1>0, <1>1, <1>2, <1>3, RowAfterShape
<1>6. PICK a \in EventRows :
        /\ a.episode = e
        /\ a.seq = t.seq
        /\ a.to = (IF StateWritten(t) THEN t.to ELSE None)
        /\ \/ NewEvents(t) = {a}
           \/ \E b \in EventRows :
                /\ b.episode = e
                /\ b.seq = t.seq + 1
                /\ b.to = None
                /\ NewEvents(t) = {a, b}
  BY <1>1, <1>3, NewEventsShape
<1> PICK S : S = EventNumbers(e)
  OBVIOUS
<1> PICK T : T = {v.seq : v \in NewEvents(t)}
  OBVIOUS
<1>7. /\ S = EventNumbers(e)
      /\ T = {v.seq : v \in NewEvents(t)}
      /\ Numbered(S \cup T)
      /\ \A m \in S, n \in T : m < n
  BY <1>0, <1>1, CommitNumbers
<1>8. /\ \A v \in NewEvents(t) : v \in EventRows /\ v.episode = e
      /\ \A v, w \in NewEvents(t) : v.seq = w.seq => v = w
      /\ \A v \in NewEvents(t) \ {a} : v.to = None
      /\ a \in NewEvents(t)
      /\ \A v \in NewEvents(t) : a.seq <= v.seq
  BY <1>3, <1>6
<1>9. TypeOK'
  <2>1. episode' \in [Episodes -> EpisodeRows \cup {Absent}]
    BY <1>0, <1>1, <1>2, <1>5 DEF Commit, IInv, TypeOK
  <2>2. events' \subseteq EventRows
    BY <1>0, <1>8 DEF Commit, IInv, TypeOK
  <2>3. tx' \in [Sessions -> Transactions]
    BY NoTxType DEF Commit, IInv, TypeOK
  <2>4. candidate' \in [Candidates -> [disposition : Dispositions, linked : Episodes \cup {None}]]
    <3>1. CandidateAfter(t) \in [disposition : Dispositions, linked : Episodes \cup {None}]
      BY <1>1, <1>5 DEF CandidateAfter, Dispositions
    <3> QED
      BY <1>0, <1>3, <3>1 DEF Commit, IInv, TypeOK
  <2> QED
    BY <2>1, <2>2, <2>3, <2>4 DEF TypeOK
<1>10. EventsOfOpened'
  BY <1>0, <1>4, <1>8 DEF Commit, IInv, EventsOfOpened
<1>11. EventsNumbered'
  <2>1. EventNumbers(e)' = S \cup T
    BY <1>4, <1>7 DEF EventNumbers
  <2>2. \A f \in Episodes \ {e} : EventNumbers(f)' = EventNumbers(f)
    BY <1>4 DEF EventNumbers
  <2>3. \A f \in Episodes : Numbered(EventNumbers(f))'
    BY <1>7, <2>1, <2>2 DEF IInv, EventsNumbered, Numbered
  <2>4. ASSUME NEW v \in events', NEW w \in events', v.episode = w.episode, v.seq = w.seq
        PROVE  v = w
    <3>1. events' = events \cup NewEvents(t)
      BY <1>0 DEF Commit
    <3>2. CASE v \in events /\ w \in events
      BY <2>4, <3>2 DEF IInv, EventsNumbered
    <3>3. CASE v \in NewEvents(t) /\ w \in NewEvents(t)
      BY <1>8, <2>4, <3>3
    <3>4. ASSUME NEW x \in events, NEW y \in NewEvents(t), x.episode = y.episode
          PROVE  x.seq # y.seq
      <4>1. x.seq \in S /\ y.seq \in T
        BY <1>7, <1>8, <3>4 DEF EventNumbers, EventsOf
      <4>2. x.seq \in Nat
        BY DEF IInv, TypeOK, EventRows
      <4> QED
        BY <1>7, <4>1, <4>2
    <3> QED
      BY <2>4, <3>1, <3>2, <3>3, <3>4
  <2> QED
    BY <2>3, <2>4 DEF EventsNumbered
<1>12. \A l \in Lines : /\ Numbered(EpisodeNumbers(l))'
                        /\ EpisodeNumbers(l) \subseteq EpisodeNumbers(l)'
  <2>1. CASE t.op = "open"
    <3> DEFINE m == LineOf[t.candidate]
    <3>1. m \in Lines
      BY <1>3, <2>1, ServiceAssumption
    <3>2. t.number \notin EpisodeNumbers(m)
      BY <1>0, <2>1 DEF Commit, Accepted, EpisodeUnique, EpisodeNumbers
    <3>3. ASSUME NEW l \in Lines, l # m
          PROVE  EpisodeNumbers(l)' = EpisodeNumbers(l)
      <4>1. {f \in Opened : episode[f].line = l}' = {f \in Opened : episode[f].line = l}
        BY <1>4, <1>5, <2>1, <3>3, OpenedType
      <4>2. \A f \in Opened : episode'[f] = episode[f]
        BY <1>4, <1>5, <2>1, OpenedType
      <4> QED
        BY <4>1, <4>2 DEF EpisodeNumbers
    <3>4. EpisodeNumbers(m)' = EpisodeNumbers(m) \cup {t.number}
      <4>1. \A f \in Opened : episode'[f] = episode[f]
        BY <1>4, <1>5, <2>1, OpenedType
      <4>2. PICK L : L = m
        OBVIOUS
      <4>3. {f \in Opened : episode[f].line = L}' = {f \in Opened : episode[f].line = L} \cup {e}
        BY <1>4, <1>5, <2>1, <4>1, <4>2
      <4>4. EpisodeNumbers(L)' = EpisodeNumbers(L) \cup {t.number}
        BY <1>4, <1>5, <2>1, <4>1, <4>3 DEF EpisodeNumbers
      <4> QED
        BY <4>2, <4>4
    <3>5. Numbered(EpisodeNumbers(m) \cup {t.number})
      BY <1>3, <2>1, <3>1, <3>2, NumberingGrows DEF IInv, EpisodesNumbered
    <3> HIDE DEF m
    <3> QED
      BY <3>3, <3>4, <3>5 DEF IInv, EpisodesNumbered, Numbered
  <2>2. CASE t.op # "open"
    <3>1. Opened' = Opened
      BY <1>4, <1>5, <2>2
    <3>2. \A f \in Opened : /\ episode'[f].line = episode[f].line
                            /\ episode'[f].number = episode[f].number
      BY <1>4, <1>5, <2>2, OpenedType
    <3>3. \A l \in Lines : EpisodeNumbers(l)' = EpisodeNumbers(l)
      BY <3>1, <3>2 DEF EpisodeNumbers
    <3> QED
      BY <3>3 DEF IInv, EpisodesNumbered, Numbered
  <2> QED
    BY <2>1, <2>2
<1>13. OneActiveEpisode'
  <2>1. CASE t.op = "open"
    <3>1. \A f \in Opened : episode[f].line = row.line => episode[f].closed
      BY <1>0, <1>5, <2>1 DEF Commit, Accepted, EpisodeUnique
    <3>2. \A f \in Opened : f # e /\ episode'[f] = episode[f]
      BY <1>4, <1>5, <2>1, OpenedType
    <3> QED
      BY <1>4, <3>1, <3>2 DEF IInv, OneActiveEpisode
  <2>2. CASE t.op # "open"
    <3>1. Opened' = Opened
      BY <1>4, <1>5, <2>2
    <3>2. \A f \in Opened : /\ episode'[f].line = episode[f].line
                            /\ episode[f].closed => episode'[f].closed
      BY <1>4, <1>5, <2>2, OpenedType
    <3> QED
      BY <3>1, <3>2 DEF IInv, OneActiveEpisode
  <2> QED
    BY <2>1, <2>2
<1>14. StateIsProjection'
  <2>1. \A f \in Opened \ {e} : /\ episode'[f] = episode[f]
                                /\ EventsOf(f)' = EventsOf(f)
                                /\ StateEventsOf(f)' = StateEventsOf(f)
    BY <1>4, OpenedType DEF StateEventsOf
  <2>2. StateEventsOf(e)' = StateEventsOf(e) \cup {v \in NewEvents(t) : v.to # None}
    BY <1>4 DEF StateEventsOf
  <2>3. t.to # None
    BY <1>3, ServiceAssumption DEF Validated, SupportedStates, ActiveStates
  <2>4. t.op = "open" => EventsOf(e) = {}
    BY <1>5 DEF IInv, EventsOfOpened, EventsOf
  <2>5. \A v \in EventsOf(e), w \in NewEvents(t) : v.seq <= w.seq
    <3>1. SUFFICES ASSUME NEW v \in EventsOf(e), NEW w \in NewEvents(t)
                   PROVE  v.seq <= w.seq
      OBVIOUS
    <3>2. v.seq \in S /\ w.seq \in T /\ v.seq \in Nat /\ w.seq \in Nat
      BY <1>7, <1>8 DEF EventNumbers, EventsOf, IInv, TypeOK, EventRows
    <3> QED
      BY <1>7, <3>2
  <2>6. \E v \in StateEventsOf(e)' :
          (\A w \in StateEventsOf(e)' : w.seq <= v.seq) /\ row.state = v.to
    <3>1. CASE StateWritten(t)
      <4>1. a.to = t.to /\ row.state = t.to
        BY <1>5, <1>6, <3>1
      <4>2. StateEventsOf(e)' = StateEventsOf(e) \cup {a}
        BY <1>8, <2>2, <2>3, <4>1
      <4>3. a.seq \in Nat
        BY DEF EventRows
      <4>4. \A w \in StateEventsOf(e) : w.seq <= a.seq
        BY <1>8, <2>5 DEF StateEventsOf
      <4> QED
        BY <4>1, <4>2, <4>3, <4>4
    <3>2. CASE ~ StateWritten(t)
      <4>1. StateEventsOf(e)' = StateEventsOf(e)
        BY <1>6, <1>8, <2>2, <3>2
      <4>2. e \in Opened /\ row.state = episode[e].state
        BY <1>5, <3>2
      <4> QED
        BY <4>1, <4>2 DEF IInv, StateIsProjection, IsLatest
    <3> QED
      BY <3>1, <3>2
  <2>7. row.closed <=> \E v \in EventsOf(e)' : v.to = "closed"
    <3>1. (\E v \in NewEvents(t) : v.to = "closed") <=> (StateWritten(t) /\ t.to = "closed")
      BY <1>6, <1>8, ServiceAssumption DEF SupportedStates, TerminalStates
    <3>2. CASE t.op = "open"
      BY <1>4, <1>5, <2>4, <3>1, <3>2
    <3>3. CASE t.op # "open"
      BY <1>4, <1>5, <3>1, <3>3 DEF IInv, StateIsProjection
    <3> QED
      BY <3>2, <3>3
  <2> QED
    BY <1>4, <2>1, <2>6, <2>7 DEF IInv, StateIsProjection, IsLatest
<1>15. \A r \in Sessions : TxInv(tx[r])'
  <2>1. \A f \in Episodes : EventNumbers(f) \subseteq EventNumbers(f)'
    BY <1>4 DEF EventNumbers
  <2>2. ASSUME NEW r \in Sessions \ {s}
        PROVE  TxInv(tx[r])'
    <3>1. PICK u : u = tx[r] /\ u = tx'[r]
      BY <1>4
    <3>2. TxInv(u)
      BY <3>1 DEF IInv
    <3>3. Validated(u) => Validated(u)'
      BY <1>4 DEF Validated
    <3>4. Validated(u) /\ u.op = "open" => LineOf[u.candidate] \in Lines
      BY ServiceAssumption DEF Validated
    <3>5. Drafted(u)' <=> Drafted(u)
      BY DEF Drafted, StateWritten
    <3>6. Validated(u) /\ NextIn(u.seq, EventNumbers(u.episode))
            => NextIn(u.seq, EventNumbers(u.episode))'
      BY <2>1 DEF NextIn, Validated
    <3>7. /\ Validated(u) /\ u.op = "open"
          /\ NextIn(u.number, EpisodeNumbers(LineOf[u.candidate]))
          => NextIn(u.number, EpisodeNumbers(LineOf[u.candidate]))'
      BY <1>12, <3>4 DEF NextIn
    <3>8. TxInv(u)'
      BY <3>2, <3>3, <3>5, <3>6, <3>7 DEF TxInv, Working
    <3> QED
      BY <3>1, <3>8
  <2>3. TxInv(tx[s])'
    BY <1>4 DEF TxInv, Working, NoTx
  <2> QED
    BY <2>2, <2>3
<1>16. FreshIdentifiers'
  <2>1. ~ Opening(tx'[s])
    BY <1>4, NoTxType
  <2>2. \A r \in Sessions \ {s} : Opening(tx[r]) => tx[r].episode \notin Opened'
    <3>1. CASE t.op = "open"
      <4>1. Opening(tx[s]) /\ tx[s].episode = e
        BY <1>0, <1>1, <1>3, <3>1 DEF Opening
      <4> QED
        BY <1>4, <4>1 DEF IInv, FreshIdentifiers
    <3>2. CASE t.op # "open"
      BY <1>4, <1>5, <3>2 DEF IInv, FreshIdentifiers
    <3> QED
      BY <3>1, <3>2
  <2> QED
    BY <1>4, <2>1, <2>2 DEF IInv, FreshIdentifiers
<1>17. ClosedRowsConsistent'
  <2>1. ClosedConsistent(row)
    BY <1>0, <1>2 DEF Commit, Accepted
  <2> QED
    BY <1>4, <2>1, OpenedType DEF IInv, ClosedRowsConsistent
<1> QED
  BY <1>9, <1>10, <1>11, <1>12, <1>13, <1>14, <1>15, <1>16, <1>17 DEF IInv, EpisodesNumbered

------------------------------------------------------------------------------
(* The inductive invariant *)

LEMMA InitStep == Init => IInv
<1> SUFFICES ASSUME Init PROVE IInv
  OBVIOUS
<1>1. Opened = {} /\ events = {}
  BY DEF Init, Opened
<1>2. \A s \in Sessions : tx[s] = NoTx
  BY DEF Init
<1>3. TypeOK
  <2>1. tx \in [Sessions -> Transactions]
    BY NoTxType DEF Init
  <2>2. candidate \in [Candidates -> [disposition : Dispositions, linked : Episodes \cup {None}]]
    BY DEF Init, Dispositions
  <2> QED
    BY <2>1, <2>2 DEF Init, TypeOK
<1>4. Numbered({})
  BY SMT DEF Numbered
<1>5. \A e \in Episodes : EventNumbers(e) = {}
  BY <1>1 DEF EventNumbers, EventsOf
<1>6. \A l \in Lines : EpisodeNumbers(l) = {}
  BY <1>1 DEF EpisodeNumbers
<1>7. \A s \in Sessions : TxInv(tx[s]) /\ ~ Opening(tx[s])
  BY <1>2, NoTxType
<1> QED
  BY <1>1, <1>3, <1>4, <1>5, <1>6, <1>7
  DEF IInv, EventsOfOpened, EventsNumbered, EpisodesNumbered, OneActiveEpisode,
      StateIsProjection, FreshIdentifiers, ClosedRowsConsistent

LEMMA NextStep == IInv /\ [Next]_vars => IInv'
<1> SUFFICES ASSUME IInv, [Next]_vars PROVE IInv'
  OBVIOUS
<1>1. CASE UNCHANGED vars
  <2>1. UNCHANGED <<episode, candidate, events, tx>>
    BY <1>1 DEF vars
  <2>2. /\ Opened' = Opened
        /\ \A e : EventsOf(e)' = EventsOf(e) /\ EventNumbers(e)' = EventNumbers(e)
        /\ \A e : StateEventsOf(e)' = StateEventsOf(e)
        /\ \A l : EpisodeNumbers(l)' = EpisodeNumbers(l)
    BY <2>1 DEF Opened, EventsOf, EventNumbers, EpisodeNumbers, StateEventsOf
  <2>3. TypeOK' /\ EventsOfOpened' /\ EventsNumbered' /\ EpisodesNumbered'
    BY <2>1, <2>2 DEF IInv, TypeOK, EventsOfOpened, EventsNumbered, EpisodesNumbered
  <2>4. OneActiveEpisode' /\ StateIsProjection' /\ ClosedRowsConsistent'
    BY <2>1, <2>2 DEF IInv, OneActiveEpisode, StateIsProjection, ClosedRowsConsistent
  <2>5. \A r \in Sessions : TxInv(tx[r])'
    BY <2>1, <2>2 DEF IInv, TxInv, Validated
  <2>6. FreshIdentifiers'
    BY <2>1, <2>2 DEF IInv, FreshIdentifiers
  <2> QED
    BY <2>3, <2>4, <2>5, <2>6 DEF IInv
<1>2. ASSUME NEW s \in Sessions, Command(s)
      PROVE  IInv'
  <2>1. PICK k \in Keys :
          \/ \E c \in Candidates : OpenEpisodeFromCandidate(s, c, k)
          \/ \E e \in Episodes :
               \/ \E to \in SupportedStates, approval \in (Users \X Users) \cup {None} :
                    TransitionEpisode(s, e, to, approval, k)
               \/ \E u \in Users : AssignEpisode(s, e, u, k)
               \/ \E c \in Categories : AppendAction(s, e, c, k)
               \/ CreateActionAgreement(s, e, k)
               \/ \E approval \in Users \X Users : SuppressEpisode(s, e, approval, k)
    <3>1. {"resolved", "closed"} \subseteq SupportedStates
      BY DEF SupportedStates, ActiveStates, TerminalStates
    <3> QED
      BY <1>2, <3>1 DEF Command
  <2> QED
    BY <2>1, OpenStep, TransitionStep, AssignStep, AppendStep, AgreementStep, SuppressStep
<1>3. ASSUME NEW s \in Sessions, Answer(s) \/ Rollback(s)
      PROVE  IInv'
  BY <1>3, EndStep DEF Answer, Rollback
<1> QED
  BY <1>1, <1>2, <1>3, FindActiveStep, FlushStep, CommitStep DEF Next

\* Every reachable state satisfies the strengthened invariant.
THEOREM Invariance == Spec => []IInv
BY InitStep, NextStep, PTL DEF Spec

\* The columns of every table and of every session are of their types.
THEOREM TypeCorrect == Spec => []TypeOK
<1>1. IInv => TypeOK
  BY DEF IInv
<1> QED
  BY <1>1, Invariance, PTL

\* No interleaving of sessions leaves two unclosed episodes on one line: the
\* unique index decides between openings that both found no active episode.
THEOREM OneActiveEpisodeAlways == Spec => []OneActiveEpisode
<1>1. IInv => OneActiveEpisode
  BY DEF IInv
<1> QED
  BY <1>1, Invariance, PTL

\* The events of an episode are numbered 1..n without gap or duplicate, although
\* the numbers are read before they are inserted and by sessions that hold no lock.
THEOREM HistoryIsGapless == Spec => []HistoryGapless
<1>1. IInv => HistoryGapless
  <2> SUFFICES ASSUME IInv, NEW e \in Episodes
               PROVE  /\ EventNumbers(e) = 1 .. MaxOr0(EventNumbers(e))
                      /\ \A v, w \in EventsOf(e) : v.seq = w.seq => v = w
    BY DEF HistoryGapless, EventNumbers
  <2>1. Numbered(EventNumbers(e))
    BY DEF IInv, EventsNumbered
  <2>2. \A v, w \in EventsOf(e) : v.seq = w.seq => v = w
    BY DEF IInv, EventsNumbered, EventsOf
  <2> QED
    BY <2>1, <2>2, MaxOfNumbering
<1> QED
  BY <1>1, Invariance, PTL

\* current_state and closed_at are what the immutable state events say, also
\* after commands that validated a state another session has since changed.
THEOREM ProjectionIsRebuildable == Spec => []StateIsProjection
<1>1. IInv => StateIsProjection
  BY DEF IInv
<1> QED
  BY <1>1, Invariance, PTL

\* Only a commit writes tables.
LEMMA TablesWritten ==
  ASSUME [Next]_vars
  PROVE  UNCHANGED <<episode, candidate, events>> \/ \E s \in Sessions : Commit(s)
<1>1. \A s, t : Begin(s, t) => UNCHANGED <<episode, candidate, events>>
  BY DEF Begin
<1>2. ASSUME NEW s \in Sessions, Command(s)
      PROVE  UNCHANGED <<episode, candidate, events>>
  <2>1. \A c, k : OpenEpisodeFromCandidate(s, c, k) => UNCHANGED <<episode, candidate, events>>
    BY <1>1 DEF OpenEpisodeFromCandidate
  <2>2. \A f, k : CreateActionAgreement(s, f, k) => UNCHANGED <<episode, candidate, events>>
    BY <1>1 DEF CreateActionAgreement
  <2>3. \A f, to, approval, k : TransitionEpisode(s, f, to, approval, k) => UNCHANGED <<episode, candidate, events>>
    BY <1>1 DEF TransitionEpisode, Idempotent
  <2>4. \A f, u, k : AssignEpisode(s, f, u, k) => UNCHANGED <<episode, candidate, events>>
    BY <1>1 DEF AssignEpisode, Idempotent
  <2>5. \A f, c, k : AppendAction(s, f, c, k) => UNCHANGED <<episode, candidate, events>>
    BY <1>1 DEF AppendAction, Idempotent
  <2>6. \A f, approval, k : SuppressEpisode(s, f, approval, k) => UNCHANGED <<episode, candidate, events>>
    BY <1>1 DEF SuppressEpisode, Idempotent
  <2> QED
    BY <1>2, <2>1, <2>2, <2>3, <2>4, <2>5, <2>6 DEF Command
<1>3. ASSUME NEW s \in Sessions,
             FindActiveEpisode(s) \/ Answer(s) \/ Flush(s) \/ Rollback(s)
      PROVE  UNCHANGED <<episode, candidate, events>>
  BY <1>3 DEF FindActiveEpisode, Answer, Flush, Rollback
<1> QED
  BY <1>2, <1>3 DEF Next, vars

\* A closed episode stays closed: the closed_at check refuses the commit of any
\* session that loaded the episode before its closure and writes another state.
THEOREM ClosureIsFinal == Spec => ClosedIsFinal
<1>1. IInv /\ [Next]_vars => [ClosedStayClosed]_vars
  <2> SUFFICES ASSUME IInv, [Next]_vars, ~ UNCHANGED vars, NEW e \in Episodes, episode[e].closed
               PROVE  episode'[e].closed /\ episode'[e].state = "closed"
    BY DEF ClosedStayClosed
  <2>1. e \in Opened
    BY DEF Opened, Absent
  <2>2. episode[e].state = "closed"
    BY <2>1 DEF IInv, ClosedRowsConsistent, ClosedConsistent
  <2>3. CASE UNCHANGED episode
    BY <2>2, <2>3
  <2>4. ASSUME NEW s \in Sessions, Commit(s)
        PROVE  episode'[e].closed
    <3>1. PICK t : t = tx[s]
      OBVIOUS
    <3>2. PICK f : f = t.episode
      OBVIOUS
    <3>3. Working(t) /\ t \in Transactions
      BY <2>4, <3>1 DEF Commit, Working, IInv, TypeOK
    <3>4. f = e => RowAfter(t).closed
      BY <2>1, <3>1, <3>2, <3>3, RowAfterShape
    <3> QED
      BY <2>4, <3>1, <3>2, <3>4, CommitTables
  <2>5. ASSUME NEW s \in Sessions, Commit(s)
        PROVE  episode'[e].state = "closed"
    <3>1. ClosedRowsConsistent'
      BY NextStep DEF IInv
    <3>2. e \in Opened'
      BY <2>1, <2>5, CommitTables
    <3> QED
      BY <2>4, <2>5, <3>1, <3>2 DEF ClosedRowsConsistent, ClosedConsistent
  <2>6. CASE \E s \in Sessions : Commit(s)
    BY <2>4, <2>5, <2>6
  <2>7. UNCHANGED episode \/ \E s \in Sessions : Commit(s)
    BY TablesWritten
  <2> QED
    BY <2>3, <2>6, <2>7
<1> QED
  BY <1>1, Invariance, PTL DEF Spec, ClosedIsFinal
==============================================================================
