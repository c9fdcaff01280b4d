----------------------- MODULE WorkflowRefinementProofs -----------------------
(***************************************************************************)
(* What the histories show.  However many sessions interleave, the service *)
(* implements the journal of EpisodeJournal, and what follows a closure    *)
(* was under way before it.  When commands run one at a time the row of an *)
(* episode has the owner its history names, and the service implements     *)
(* EpisodeLifecycle.                                                       *)
(***************************************************************************)
EXTENDS WorkflowEvidenceProofs, WorkflowRefinement, FiniteSetTheorems, SequenceTheorems

------------------------------------------------------------------------------
(* Histories in the order of their numbers *)

Rank(S, v) == Cardinality({w \in S : w.seq < v.seq})

\* The rows of S can be listed by their numbers.
Listed(S) ==
  /\ IsFiniteSet(S)
  /\ \A v \in S : v.seq \in Nat
  /\ \A v, w \in S : v.seq = w.seq => v = w
  /\ \A i \in 1 .. Cardinality(S) : \E v \in S : Rank(S, v) = i - 1

LEMMA RankUnique ==
  ASSUME NEW S, Listed(S), NEW v \in S, NEW w \in S, Rank(S, v) = Rank(S, w)
  PROVE  v = w
<1>1. ASSUME NEW x \in S, NEW y \in S, x.seq < y.seq
      PROVE  Rank(S, x) # Rank(S, y)
  <2>1. PICK X, Y : X = {z \in S : z.seq < x.seq} /\ Y = {z \in S : z.seq < y.seq}
    OBVIOUS
  <2>2. X \in SUBSET Y
    BY <1>1, <2>1 DEF Listed
  <2>3. x \in Y /\ x \notin X
    BY <1>1, <2>1 DEF Listed
  <2>4. IsFiniteSet(Y)
    <3>1. Y \in SUBSET S
      BY <2>1
    <3> QED
      BY <3>1, FS_Subset DEF Listed
  <2>5. Cardinality(Y) # Cardinality(X)
    BY <2>2, <2>3, <2>4, FS_Subset
  <2> QED
    BY <2>1, <2>5 DEF Rank
<1>2. v.seq \in Nat /\ w.seq \in Nat
  BY DEF Listed
<1>3. ~ (v.seq < w.seq) /\ ~ (w.seq < v.seq)
  BY <1>1
<1>4. v.seq = w.seq
  BY <1>2, <1>3
<1> QED
  BY <1>4 DEF Listed

LEMMA InOrderAt ==
  ASSUME NEW S, Listed(S), NEW i \in 1 .. Cardinality(S), NEW v \in S, Rank(S, v) = i - 1
  PROVE  InOrder(S)[i] = v
<1>1. PICK x : x = CHOOSE w \in S : Rank(S, w) = i - 1
  OBVIOUS
<1>2. x \in S /\ Rank(S, x) = i - 1
  BY <1>1
<1>3. x = v
  BY <1>2, RankUnique
<1>4. InOrder(S)[i] = x
  BY <1>1 DEF InOrder, Rank
<1> QED
  BY <1>3, <1>4

LEMMA ListedGrows ==
  ASSUME NEW S, Listed(S), NEW a, a.seq \in Nat, \A v \in S : v.seq < a.seq,
         NEW T, T = S \cup {a}
  PROVE  /\ Listed(T)
         /\ Cardinality(S) \in Nat
         /\ Cardinality(T) = Cardinality(S) + 1
         /\ \A v \in S : Rank(T, v) = Rank(S, v)
         /\ Rank(T, a) = Cardinality(S)
<1>1. T = S \cup {a}
  OBVIOUS
<1>2. \A v \in S : v.seq \in Nat
  BY DEF Listed
<1>3. a \notin S
  BY <1>2
<1>4. IsFiniteSet(T) /\ Cardinality(T) = Cardinality(S) + 1 /\ Cardinality(S) \in Nat
  BY <1>1, <1>3, FS_AddElement, FS_CardinalityType DEF Listed
<1>5. \A v \in S : Rank(T, v) = Rank(S, v)
  <2>1. SUFFICES ASSUME NEW v \in S PROVE Rank(T, v) = Rank(S, v)
    OBVIOUS
  <2>2. {w \in T : w.seq < v.seq} = {w \in S : w.seq < v.seq}
    BY <1>1, <1>2
  <2> QED
    BY <2>2 DEF Rank
<1>6. Rank(T, a) = Cardinality(S)
  <2>1. {w \in T : w.seq < a.seq} = S
    BY <1>1
  <2> QED
    BY <2>1 DEF Rank
<1>7. \A i \in 1 .. Cardinality(T) : \E v \in T : Rank(T, v) = i - 1
  <2>1. SUFFICES ASSUME NEW i \in 1 .. Cardinality(T) PROVE \E v \in T : Rank(T, v) = i - 1
    OBVIOUS
  <2>2. CASE i \in 1 .. Cardinality(S)
    BY <1>1, <1>5, <2>2 DEF Listed
  <2>3. CASE i = Cardinality(S) + 1
    BY <1>1, <1>4, <1>6, <2>3
  <2>4. i \in 1 .. Cardinality(S) \/ i = Cardinality(S) + 1
    BY <1>4, <2>1
  <2> QED
    BY <2>2, <2>3, <2>4
<1>8. \A v, w \in T : v.seq = w.seq => v = w
  BY <1>1, <1>2 DEF Listed
<1> QED
  BY <1>1, <1>2, <1>4, <1>5, <1>6, <1>7, <1>8 DEF Listed

\* A row with the highest number comes last.
LEMMA InOrderGrows ==
  ASSUME NEW S, Listed(S), NEW a, a.seq \in Nat, \A v \in S : v.seq < a.seq,
         NEW T, T = S \cup {a}, NEW n, n = Cardinality(S)
  PROVE  /\ DOMAIN InOrder(S) = 1 .. n
         /\ DOMAIN InOrder(T) = 1 .. n + 1
         /\ \A i \in 1 .. n : InOrder(T)[i] = InOrder(S)[i]
         /\ InOrder(T)[n + 1] = a
<1>1. T = S \cup {a}
  OBVIOUS
<1>2. /\ Listed(T) /\ n \in Nat /\ Cardinality(T) = n + 1
      /\ \A v \in S : Rank(T, v) = Rank(S, v)
      /\ Rank(T, a) = n
  BY <1>1, ListedGrows
<1>3. DOMAIN InOrder(S) = 1 .. n /\ DOMAIN InOrder(T) = 1 .. n + 1
  BY <1>2 DEF InOrder
<1>4. ASSUME NEW i \in 1 .. n
      PROVE  InOrder(T)[i] = InOrder(S)[i]
  <2>1. PICK v \in S : Rank(S, v) = i - 1
    BY DEF Listed
  <2>2. v \in T /\ Rank(T, v) = i - 1
    BY <1>1, <1>2, <2>1
  <2>3. i \in 1 .. Cardinality(T)
    BY <1>2
  <2>4. InOrder(S)[i] = v
    BY <2>1, InOrderAt
  <2>5. InOrder(T)[i] = v
    BY <1>2, <2>2, <2>3, InOrderAt
  <2> QED
    BY <2>4, <2>5
<1>5. InOrder(T)[n + 1] = a
  <2>1. n + 1 \in 1 .. Cardinality(T) /\ a \in T /\ Rank(T, a) = (n + 1) - 1
    BY <1>1, <1>2
  <2> QED
    BY <1>2, <2>1, InOrderAt
<1> QED
  BY <1>1, <1>2, <1>3, <1>4, <1>5

LEMMA InOrderIn ==
  ASSUME NEW S, Listed(S)
  PROVE  \A i \in DOMAIN InOrder(S) : InOrder(S)[i] \in S
<1>1. SUFFICES ASSUME NEW i \in DOMAIN InOrder(S) PROVE InOrder(S)[i] \in S
  OBVIOUS
<1>2. i \in 1 .. Cardinality(S)
  BY <1>1 DEF InOrder
<1>3. PICK v \in S : Rank(S, v) = i - 1
  BY <1>2 DEF Listed
<1> QED
  BY <1>2, <1>3, InOrderAt

\* Every row has its place.
LEMMA InOrderHas ==
  ASSUME NEW S, Listed(S), NEW v \in S
  PROVE  \E i \in DOMAIN InOrder(S) : InOrder(S)[i] = v
<1>1. PICK X : X = {w \in S : w.seq < v.seq}
  OBVIOUS
<1>2. X \in SUBSET S /\ X # S
  BY <1>1 DEF Listed
<1>3. Cardinality(X) \in Nat /\ Cardinality(S) \in Nat /\ Cardinality(X) < Cardinality(S)
  <2>1. IsFiniteSet(X) /\ Cardinality(X) <= Cardinality(S) /\ Cardinality(X) # Cardinality(S)
    BY <1>2, FS_Subset DEF Listed
  <2> QED
    BY <2>1, FS_CardinalityType DEF Listed
<1>4. PICK i : i = Cardinality(X) + 1
  OBVIOUS
<1>5. i \in 1 .. Cardinality(S) /\ Rank(S, v) = i - 1
  BY <1>1, <1>3, <1>4 DEF Rank
<1>6. InOrder(S)[i] = v
  BY <1>5, InOrderAt
<1> QED
  BY <1>5, <1>6 DEF InOrder

LEMMA AppendIs ==
  ASSUME NEW X, NEW h \in Seq(X), NEW x \in X, NEW g \in Seq(X), Len(g) = Len(h) + 1,
         \A i \in 1 .. Len(h) : g[i] = h[i],
         g[Len(h) + 1] = x
  PROVE  g = Append(h, x)
<1>1. PICK f : f = Append(h, x)
  OBVIOUS
<1>2. /\ f \in Seq(X) /\ Len(f) = Len(h) + 1 /\ Len(h) \in Nat
      /\ \A i \in 1 .. Len(h) : f[i] = h[i]
      /\ f[Len(h) + 1] = x
  BY <1>1, AppendProperties, LenProperties
<1>3. \A i \in 1 .. Len(g) : g[i] = f[i]
  BY <1>2
<1> QED
  BY <1>1, <1>2, <1>3, SeqEqual

\* The columns of the rows of an event, in their order.
StateColumn(S) == [i \in DOMAIN InOrder(S) |-> InOrder(S)[i].to]
OwnerColumn(S) == [i \in DOMAIN InOrder(S) |-> InOrder(S)[i].owner]

LEMMA ColumnTypes ==
  ASSUME NEW S, Listed(S), NEW X, NEW Y, \A v \in S : v.to \in X, \A v \in S : v.owner \in Y
  PROVE  /\ StateColumn(S) \in Seq(X) /\ Len(StateColumn(S)) = Cardinality(S)
         /\ OwnerColumn(S) \in Seq(Y) /\ Len(OwnerColumn(S)) = Cardinality(S)
<1>1. PICK n : n = Cardinality(S)
  OBVIOUS
<1>2. n \in Nat /\ DOMAIN InOrder(S) = 1 .. n
  BY <1>1, FS_CardinalityType DEF Listed, InOrder
<1>3. StateColumn(S) \in [1 .. n -> X] /\ OwnerColumn(S) \in [1 .. n -> Y]
  BY <1>2, InOrderIn DEF StateColumn, OwnerColumn
<1> QED
  BY <1>1, <1>2, <1>3

LEMMA ColumnsGrow ==
  ASSUME NEW S, Listed(S), NEW a, a.seq \in Nat, \A v \in S : v.seq < a.seq,
         NEW X, NEW Y, \A v \in S \cup {a} : v.to \in X, \A v \in S \cup {a} : v.owner \in Y
  PROVE  /\ StateColumn(S \cup {a}) = Append(StateColumn(S), a.to)
         /\ OwnerColumn(S \cup {a}) = Append(OwnerColumn(S), a.owner)
<1>1. PICK T : T = S \cup {a}
  OBVIOUS
<1>2. PICK n : n = Cardinality(S)
  OBVIOUS
<1>3. Listed(T) /\ n \in Nat /\ Cardinality(T) = n + 1
  BY <1>1, <1>2, ListedGrows
<1>4. /\ DOMAIN InOrder(S) = 1 .. n
      /\ DOMAIN InOrder(T) = 1 .. n + 1
      /\ \A i \in 1 .. n : InOrder(T)[i] = InOrder(S)[i]
      /\ InOrder(T)[n + 1] = a
  BY <1>1, <1>2, InOrderGrows
<1>5. /\ StateColumn(S) \in Seq(X) /\ Len(StateColumn(S)) = n
      /\ OwnerColumn(S) \in Seq(Y) /\ Len(OwnerColumn(S)) = n
  BY <1>2, ColumnTypes
<1>6. /\ StateColumn(T) \in Seq(X) /\ Len(StateColumn(T)) = n + 1
      /\ OwnerColumn(T) \in Seq(Y) /\ Len(OwnerColumn(T)) = n + 1
  BY <1>1, <1>3, ColumnTypes
<1>7. /\ \A i \in 1 .. n : StateColumn(T)[i] = StateColumn(S)[i]
      /\ StateColumn(T)[n + 1] = a.to
  BY <1>3, <1>4 DEF StateColumn
<1>8. /\ \A i \in 1 .. n : OwnerColumn(T)[i] = OwnerColumn(S)[i]
      /\ OwnerColumn(T)[n + 1] = a.owner
  BY <1>3, <1>4 DEF OwnerColumn
<1>9. a.to \in X /\ a.owner \in Y
  OBVIOUS
<1>10. StateColumn(T) = Append(StateColumn(S), a.to)
  BY <1>5, <1>6, <1>7, <1>9, AppendIs
<1>11. OwnerColumn(T) = Append(OwnerColumn(S), a.owner)
  BY <1>5, <1>6, <1>8, <1>9, AppendIs
<1> QED
  BY <1>1, <1>10, <1>11
------------------------------------------------------------------------------
(* What a session remembers *)

LEMMA IdleRecalls ==
  ASSUME NEW t, t.phase \notin {"read", "flushed"}
  PROVE  Recalls(t)
BY DEF Recalls, Working

\* The state on the row is in the history.
LEMMA RowRecalled ==
  ASSUME EvidenceInv, NEW t, t.op # "open" => t.episode \in Opened /\ t.state = episode[t.episode].state
  PROVE  Recalls(t)
BY DEF EvidenceInv, IInv, StateIsProjection, Recalls

LEMMA SessionRecalls ==
  ASSUME MemoryInv, EvidenceInv', NEW s \in Sessions, NEW t, Recalls(t),
         tx' = [tx EXCEPT ![s] = t],
         UNCHANGED <<episode, candidate, events>>
  PROVE  MemoryInv'
<1>1. \A e : StateEventsOf(e)' = StateEventsOf(e)
  BY DEF StateEventsOf, EventsOf
<1>2. \A u : Recalls(u)' <=> Recalls(u)
  BY <1>1 DEF Recalls, Working
<1>3. \A r \in Sessions : tx'[r] = IF r = s THEN t ELSE tx[r]
  BY DEF MemoryInv, EvidenceInv, IInv, TypeOK
<1>4. \A r \in Sessions : Recalls(tx[r])'
  BY <1>1, <1>3 DEF MemoryInv, Recalls, Working
<1> QED
  BY <1>4 DEF MemoryInv

LEMMA FindActiveRecalls ==
  ASSUME MemoryInv, EvidenceInv', NEW s \in Sessions, FindActiveEpisode(s)
  PROVE  MemoryInv'
<1> PICK c : c = tx[s]
  OBVIOUS
<1>1. c = tx[s] /\ c \in Transactions /\ c.op = "open" /\ c.phase = "candidate"
  BY DEF FindActiveEpisode, MemoryInv, EvidenceInv, IInv, TypeOK, TxInv
<1>2. PICK t : /\ tx' = [tx EXCEPT ![s] = t]
               /\ \/ \E e \in ActiveOn(LineOf[c.candidate]) :
                       t = [Load("link", e, c.key[1]) EXCEPT !.candidate = c.candidate]
                  \/ \E e \in Episodes :
                       t = [c EXCEPT !.phase = "read", !.episode = e, !.to = "open"]
  BY <1>1 DEF FindActiveEpisode
<1>3. ASSUME NEW e \in ActiveOn(LineOf[c.candidate]),
             t = [Load("link", e, c.key[1]) EXCEPT !.candidate = c.candidate]
      PROVE  Recalls(t)
  <2>1. t = [phase |-> "read", op |-> "link", episode |-> e, candidate |-> c.candidate,
             key |-> CommandKey(c.key[1]), state |-> episode[e].state,
             to |-> episode[e].state, holder |-> episode[e].owner,
             owner |-> episode[e].owner, category |-> None,
             approval |-> None, seq |-> 0, number |-> 0, drafts |-> << >>]
    BY <1>3, Loaded
  <2>2. t.episode \in Opened /\ t.state = episode[t.episode].state
    BY <2>1 DEF ActiveOn
  <2> QED
    BY <2>2, RowRecalled DEF MemoryInv
<1>4. ASSUME NEW e, t = [c EXCEPT !.phase = "read", !.episode = e, !.to = "open"]
      PROVE  Recalls(t)
  <2>1. t.op = "open"
    BY <1>1, <1>4, SMT DEF Transactions
  <2> QED
    BY <2>1 DEF Recalls
<1> QED
  BY <1>2, <1>3, <1>4, SessionRecalls DEF FindActiveEpisode

LEMMA FlushRecalls ==
  ASSUME MemoryInv, EvidenceInv', NEW s \in Sessions, Flush(s)
  PROVE  MemoryInv'
<1> PICK t : t = tx[s]
  OBVIOUS
<1>1. t = tx[s] /\ t \in Transactions /\ t.phase = "read" /\ Recalls(t)
  BY DEF Flush, MemoryInv, EvidenceInv, IInv, TypeOK
<1>2. PICK d, seq, n : /\ d = Drafts(t)
                       /\ seq = NextEventSequence(t.episode)
                       /\ n = IF t.op = "open"
                              THEN NextEpisodeSequence(LineOf[t.candidate]) ELSE 0
  OBVIOUS
<1>3. PICK x : x = [t EXCEPT !.phase = "flushed", !.drafts = d, !.seq = seq, !.number = n]
  OBVIOUS
<1>4. tx' = [tx EXCEPT ![s] = x] /\ UNCHANGED <<episode, candidate, events>>
  BY <1>1, <1>2, <1>3 DEF Flush
<1>5. x.op = t.op /\ x.episode = t.episode /\ x.state = t.state
  BY <1>1, <1>3, SMT DEF Transactions
<1>6. Recalls(x)
  BY <1>1, <1>5 DEF Recalls, Working
<1> QED
  BY <1>4, <1>6, SessionRecalls

\* Events are never taken back: what was in a history stays in it.
LEMMA CommitRecalls ==
  ASSUME MemoryInv, EvidenceInv', NEW s \in Sessions, Commit(s)
  PROVE  MemoryInv'
<1>1. \A e : StateEventsOf(e) \subseteq StateEventsOf(e)'
  BY DEF Commit, StateEventsOf, EventsOf
<1>2. tx'[s] = NoTx /\ \A r \in Sessions \ {s} : tx'[r] = tx[r]
  BY CommitTables DEF MemoryInv, EvidenceInv
<1>3. ~ Working(tx'[s])
  BY <1>2 DEF NoTx, Working
<1>4. \A r \in Sessions : Recalls(tx[r])'
  BY <1>1, <1>2, <1>3 DEF MemoryInv, Recalls, Working
<1> QED
  BY <1>4 DEF MemoryInv

LEMMA MemoryNext ==
  ASSUME MemoryInv, [Next]_vars
  PROVE  MemoryInv'
<1>1. EvidenceInv'
  BY EvidenceNext DEF MemoryInv
<1>2. CASE UNCHANGED vars
  <2>1. UNCHANGED <<episode, candidate, events, tx>>
    BY <1>2 DEF vars
  <2>2. \A e : StateEventsOf(e)' = StateEventsOf(e)
    BY <2>1 DEF StateEventsOf, EventsOf
  <2>3. \A r \in Sessions : Recalls(tx[r])'
    BY <2>1, <2>2 DEF MemoryInv, Recalls, Working
  <2> QED
    BY <1>1, <2>3 DEF MemoryInv
<1>3. ASSUME NEW s \in Sessions, Command(s)
      PROVE  MemoryInv'
  <2>1. PICK t : Begins(s, t)
    BY <1>3, CommandBegins
  <2>2. CASE Loads(t)
    <3>1. Recalls(t)
      BY <2>2, RowRecalled DEF MemoryInv, Loads
    <3> QED
      BY <1>1, <2>1, <3>1, SessionRecalls DEF Begins, Begin
  <2>3. CASE t.phase \in {"candidate", "replayed"}
    <3>1. Recalls(t)
      BY <2>3, IdleRecalls
    <3> QED
      BY <1>1, <2>1, <3>1, SessionRecalls DEF Begins, Begin
  <2> QED
    BY <2>1, <2>2, <2>3 DEF Begins, Picks
<1>4. ASSUME NEW s \in Sessions, Answer(s) \/ Rollback(s)
      PROVE  MemoryInv'
  <2>1. Recalls(NoTx)
    BY IdleRecalls DEF NoTx
  <2> QED
    BY <1>1, <1>4, <2>1, SessionRecalls DEF Answer, Rollback
<1> QED
  BY <1>1, <1>2, <1>3, <1>4, FindActiveRecalls, FlushRecalls, CommitRecalls DEF Next

LEMMA MemoryInit == Init => MemoryInv
<1> SUFFICES ASSUME Init PROVE MemoryInv
  OBVIOUS
<1>1. Recalls(NoTx)
  BY IdleRecalls DEF NoTx
<1> QED
  BY <1>1, EvidenceInit DEF MemoryInv, Init
------------------------------------------------------------------------------
(* The histories behind the tables *)

HistoriesListed ==
  \A e \in Episodes : Listed(StateEventsOf(e)) /\ Listed(OwnerEventsOf(e))

\* The last state of the history is the one on the row.
HistoriesCurrent ==
  \A e \in Opened :
    /\ Len(StateHistory(e)) \in Nat \ {0}
    /\ StateHistory(e)[Len(StateHistory(e))] = episode[e].state

HistoryInv ==
  /\ MemoryInv
  /\ HistoriesListed
  /\ HistoriesCurrent

\* One row at most for a command other than an agreement, and it is the last.
LEMMA CommittedRows ==
  ASSUME EvidenceInv, NEW s \in Sessions, Commit(s), NEW t, t = tx[s], NEW e, e = t.episode
  PROVE  \E a \in EventRows :
           /\ a \in NewEvents(t)
           /\ DraftOf(t, a)
           /\ a.to = (IF StateWritten(t) THEN t.to ELSE None)
           /\ \A v \in EventsOf(e) : v.seq < a.seq
           /\ \A v \in NewEvents(t) \ {a} : v.to = None
           /\ t.op # "agreement" => NewEvents(t) = {a}
<1>1. /\ t \in Transactions /\ t.seq \in Nat /\ Drafted(t) /\ Evident(t) /\ t.phase = "flushed"
      /\ \A v \in NewEvents(t) : DraftOf(t, v)
  BY Committing DEF Commit, EvidenceInv, IInv, TxInv, Transactions
<1>2. PICK a \in EventRows :
        /\ a.episode = t.episode
        /\ a.seq = t.seq
        /\ a.to = (IF StateWritten(t) THEN t.to ELSE None)
        /\ \/ NewEvents(t) = {a}
           \/ \E b \in EventRows :
                /\ b.episode = t.episode
                /\ b.seq = t.seq + 1
                /\ b.to = None
                /\ NewEvents(t) = {a, b}
  BY <1>1, NewEventsShape
<1>3. \A v \in EventsOf(e) : v.seq < a.seq
  <2>1. PICK S, T : S = EventNumbers(e) /\ T = {v.seq : v \in NewEvents(t)}
    OBVIOUS
  <2>2. \A m \in S, n \in T : m < n
    BY <2>1, CommitNumbers DEF EvidenceInv
  <2> QED
    BY <1>2, <2>1, <2>2 DEF EventNumbers
<1>4. t.op # "agreement" => NewEvents(t) = {a}
  <2>1. SUFFICES ASSUME t.op # "agreement" PROVE NewEvents(t) = {a}
    OBVIOUS
  <2>2. Len(t.drafts) = 1
    BY <1>1, <2>1 DEF Evident
  <2>3. \A v, w \in NewEvents(t) : v = w
    BY <2>2 DEF NewEvents
  <2> QED
    BY <1>2, <2>3
<1> QED
  BY <1>1, <1>2, <1>3, <1>4

LEMMA HistoryColumns ==
  \A e : /\ StateHistory(e) = StateColumn(StateEventsOf(e))
         /\ OwnerHistory(e) = OwnerColumn(OwnerEventsOf(e))
BY DEF StateHistory, OwnerHistory, StateColumn, OwnerColumn

LEMMA HistoryTypes ==
  ASSUME HistoryInv, NEW e \in Episodes
  PROVE  /\ StateHistory(e) \in Seq(SupportedStates \cup {None})
         /\ Len(StateHistory(e)) = Cardinality(StateEventsOf(e))
         /\ OwnerHistory(e) \in Seq(Users \cup {None})
         /\ Len(OwnerHistory(e)) = Cardinality(OwnerEventsOf(e))
<1>1. \A v \in events : v.to \in SupportedStates \cup {None} /\ v.owner \in Users \cup {None}
  BY DEF HistoryInv, MemoryInv, EvidenceInv, IInv, TypeOK, EventRows
<1>2. StateEventsOf(e) \subseteq events /\ OwnerEventsOf(e) \subseteq events
  BY DEF StateEventsOf, OwnerEventsOf, EventsOf
<1>3. Listed(StateEventsOf(e)) /\ Listed(OwnerEventsOf(e))
  BY DEF HistoryInv, HistoriesListed
<1>4. /\ StateColumn(StateEventsOf(e)) \in Seq(SupportedStates \cup {None})
      /\ Len(StateColumn(StateEventsOf(e))) = Cardinality(StateEventsOf(e))
  BY <1>1, <1>2, <1>3, ColumnTypes
<1>5. /\ OwnerColumn(OwnerEventsOf(e)) \in Seq(Users \cup {None})
      /\ Len(OwnerColumn(OwnerEventsOf(e))) = Cardinality(OwnerEventsOf(e))
  BY <1>1, <1>2, <1>3, ColumnTypes
<1> QED
  BY <1>4, <1>5, HistoryColumns

\* An identifier without an episode has no history.
LEMMA NoHistory ==
  ASSUME HistoryInv, NEW e \in Episodes \ Opened
  PROVE  /\ StateEventsOf(e) = {} /\ OwnerEventsOf(e) = {}
         /\ StateHistory(e) = << >> /\ OwnerHistory(e) = << >>
<1>1. StateEventsOf(e) = {} /\ OwnerEventsOf(e) = {}
  BY DEF HistoryInv, MemoryInv, EvidenceInv, IInv, EventsOfOpened,
         StateEventsOf, OwnerEventsOf, EventsOf
<1>2. Len(StateHistory(e)) = 0 /\ Len(OwnerHistory(e)) = 0
  BY <1>1, HistoryTypes, FS_EmptySet
<1>3. /\ StateHistory(e) \in Seq(SupportedStates \cup {None})
      /\ OwnerHistory(e) \in Seq(Users \cup {None})
  BY HistoryTypes
<1> QED
  BY <1>1, <1>2, <1>3

\* What a commit adds to the histories of its episode.
LEMMA CommitHistories ==
  ASSUME HistoryInv, NEW s \in Sessions, Commit(s), NEW t, t = tx[s], NEW e, e = t.episode
  PROVE  /\ HistoriesListed'
         /\ \A f \in Episodes \ {e} : /\ StateHistory(f)' = StateHistory(f)
                                      /\ OwnerHistory(f)' = OwnerHistory(f)
         /\ StateHistory(e)' = IF StateWritten(t) THEN Append(StateHistory(e), t.to)
                               ELSE StateHistory(e)
         /\ OwnerHistory(e)' = IF t.op = "assign" THEN Append(OwnerHistory(e), t.owner)
                               ELSE OwnerHistory(e)
<1>1. /\ e \in Episodes
      /\ Validated(t)
      /\ \A v \in NewEvents(t) : DraftOf(t, v)
  BY Committing DEF HistoryInv, MemoryInv
<1>2. PICK a \in EventRows :
        /\ a \in NewEvents(t)
        /\ DraftOf(t, a)
        /\ a.to = (IF StateWritten(t) THEN t.to ELSE None)
        /\ \A v \in EventsOf(e) : v.seq < a.seq
        /\ \A v \in NewEvents(t) \ {a} : v.to = None
        /\ t.op # "agreement" => NewEvents(t) = {a}
  BY CommittedRows DEF HistoryInv, MemoryInv
<1>3. /\ EventsOf(e)' = EventsOf(e) \cup NewEvents(t)
      /\ \A f \in Episodes \ {e} : EventsOf(f)' = EventsOf(f)
  BY CommitTables DEF HistoryInv, MemoryInv, EvidenceInv
<1>4. \A f \in Episodes \ {e} : /\ StateEventsOf(f)' = StateEventsOf(f)
                                /\ OwnerEventsOf(f)' = OwnerEventsOf(f)
  BY <1>3 DEF StateEventsOf, OwnerEventsOf
<1>5. PICK S, T : S = StateEventsOf(e) /\ T = StateEventsOf(e)'
  OBVIOUS
<1>6. PICK O, P : O = OwnerEventsOf(e) /\ P = OwnerEventsOf(e)'
  OBVIOUS
<1>7. T = IF StateWritten(t) THEN S \cup {a} ELSE S
  <2>1. T = S \cup {v \in NewEvents(t) : v.to # None}
    BY <1>3, <1>5 DEF StateEventsOf
  <2>2. t.to # None
    BY <1>1, ServiceAssumption DEF Validated, SupportedStates, ActiveStates
  <2> QED
    BY <1>2, <2>1, <2>2
<1>8. P = IF t.op = "assign" THEN O \cup {a} ELSE O
  <2>1. P = O \cup {v \in NewEvents(t) : v.type = "ownership_changed"}
    BY <1>3, <1>6 DEF OwnerEventsOf
  <2> QED
    BY <1>1, <1>2, <2>1 DEF DraftOf
<1>9. /\ \A v \in S : v.seq < a.seq
      /\ \A v \in O : v.seq < a.seq
      /\ a.seq \in Nat
  BY <1>2, <1>5, <1>6 DEF StateEventsOf, OwnerEventsOf, EventRows
<1>10. Listed(S) /\ Listed(O)
  BY <1>1, <1>5, <1>6 DEF HistoryInv, HistoriesListed
<1>11. Listed(T) /\ Listed(P)
  BY <1>7, <1>8, <1>9, <1>10, ListedGrows
<1>12. HistoriesListed'
  BY <1>4, <1>5, <1>6, <1>11 DEF HistoryInv, HistoriesListed
<1>13. /\ \A v \in S \cup O \cup {a} : v.to \in SupportedStates \cup {None}
       /\ \A v \in S \cup O \cup {a} : v.owner \in Users \cup {None}
  BY <1>5, <1>6 DEF StateEventsOf, OwnerEventsOf, EventsOf, EventRows,
                    HistoryInv, MemoryInv, EvidenceInv, IInv, TypeOK
<1>14. StateWritten(t) => StateColumn(T) = Append(StateColumn(S), t.to)
  <2>1. StateColumn(S \cup {a}) = Append(StateColumn(S), a.to)
    BY <1>9, <1>10, <1>13, ColumnsGrow
  <2> QED
    BY <1>2, <1>7, <2>1
<1>15. t.op = "assign" => OwnerColumn(P) = Append(OwnerColumn(O), t.owner)
  <2>1. OwnerColumn(O \cup {a}) = Append(OwnerColumn(O), a.owner)
    BY <1>9, <1>10, <1>13, ColumnsGrow
  <2> QED
    BY <1>2, <1>8, <2>1 DEF DraftOf
<1>16. /\ StateHistory(e) = StateColumn(S) /\ StateHistory(e)' = StateColumn(T)
       /\ OwnerHistory(e) = OwnerColumn(O) /\ OwnerHistory(e)' = OwnerColumn(P)
  BY <1>5, <1>6 DEF StateHistory, OwnerHistory, StateColumn, OwnerColumn
<1>17. \A f \in Episodes \ {e} : /\ StateHistory(f)' = StateHistory(f)
                                 /\ OwnerHistory(f)' = OwnerHistory(f)
  BY <1>4 DEF StateHistory, OwnerHistory
<1> QED
  BY <1>7, <1>8, <1>12, <1>14, <1>15, <1>16, <1>17

\* The state a commit leaves on the row.
LEMMA StateAfter ==
  ASSUME HistoryInv, NEW s \in Sessions, Commit(s), NEW t, t = tx[s], NEW e, e = t.episode
  PROVE  /\ t.op = "open" => StateWritten(t) /\ t.to = "open"
         /\ episode'[e].state = IF StateWritten(t) THEN t.to ELSE episode[e].state
         /\ t.to \in SupportedStates
<1>1. Working(t) /\ Validated(t)
  BY Committing DEF Commit, Working, HistoryInv, MemoryInv
<1>2. /\ t.op = "open" => StateWritten(t) /\ t.to = "open" /\ RowAfter(t).state = "open"
      /\ t.op # "open" => RowAfter(t).state = IF StateWritten(t) THEN t.to ELSE episode[e].state
  BY <1>1, RowAfterShape DEF HistoryInv, MemoryInv, EvidenceInv
<1>3. episode'[e] = RowAfter(t)
  BY CommitTables DEF HistoryInv, MemoryInv, EvidenceInv
<1>4. t.to \in SupportedStates
  BY <1>1 DEF Validated, SupportedStates, ActiveStates
<1> QED
  BY <1>2, <1>3, <1>4

LEMMA CommitCurrent ==
  ASSUME HistoryInv, NEW s \in Sessions, Commit(s)
  PROVE  HistoriesCurrent'
<1> PICK t : t = tx[s]
  OBVIOUS
<1> PICK e : e = t.episode
  OBVIOUS
<1>1. /\ e \in Episodes
      /\ t.op # "open" => e \in Opened
  BY Committing DEF HistoryInv, MemoryInv
<1>2. /\ \A f \in Episodes \ {e} : StateHistory(f)' = StateHistory(f)
      /\ StateHistory(e)' = IF StateWritten(t) THEN Append(StateHistory(e), t.to)
                            ELSE StateHistory(e)
  BY CommitHistories
<1>3. /\ Opened' = Opened \cup {e}
      /\ \A f \in Episodes \ {e} : episode'[f] = episode[f]
  BY CommitTables DEF HistoryInv, MemoryInv, EvidenceInv
<1>4. /\ t.op = "open" => StateWritten(t)
      /\ episode'[e].state = IF StateWritten(t) THEN t.to ELSE episode[e].state
      /\ t.to \in SupportedStates
  BY StateAfter
<1>5. StateHistory(e) \in Seq(SupportedStates \cup {None})
  BY <1>1, HistoryTypes
<1>6. PICK h : h = StateHistory(e)'
  OBVIOUS
<1>7. Len(h) \in Nat \ {0} /\ h[Len(h)] = episode'[e].state
  <2>1. CASE StateWritten(t)
    <3>1. h = Append(StateHistory(e), t.to)
      BY <1>2, <1>6, <2>1
    <3>2. Len(h) = Len(StateHistory(e)) + 1 /\ Len(StateHistory(e)) \in Nat
          /\ h[Len(StateHistory(e)) + 1] = t.to
      BY <1>4, <1>5, <3>1, AppendProperties, LenProperties
    <3> QED
      BY <1>4, <2>1, <3>2
  <2>2. CASE ~ StateWritten(t)
    BY <1>1, <1>2, <1>4, <1>6, <2>2 DEF HistoryInv, HistoriesCurrent
  <2> QED
    BY <2>1, <2>2
<1>8. \A f \in Opened \ {e} :
        /\ Len(StateHistory(f)') \in Nat \ {0}
        /\ StateHistory(f)'[Len(StateHistory(f)')] = episode'[f].state
  BY <1>2, <1>3 DEF HistoryInv, HistoriesCurrent, Opened
<1> QED
  BY <1>3, <1>6, <1>7, <1>8 DEF HistoriesCurrent

\* Tables that stay as they are leave the histories as they are.
LEMMA TablesKept ==
  ASSUME UNCHANGED <<episode, candidate, events>>
  PROVE  /\ Opened' = Opened
         /\ \A e : /\ StateEventsOf(e)' = StateEventsOf(e)
                   /\ OwnerEventsOf(e)' = OwnerEventsOf(e)
                   /\ StateHistory(e)' = StateHistory(e)
                   /\ OwnerHistory(e)' = OwnerHistory(e)
<1>1. Opened' = Opened
  BY DEF Opened
<1>2. \A e : /\ StateEventsOf(e)' = StateEventsOf(e)
             /\ OwnerEventsOf(e)' = OwnerEventsOf(e)
  BY DEF StateEventsOf, OwnerEventsOf, EventsOf
<1> QED
  BY <1>1, <1>2 DEF StateHistory, OwnerHistory

LEMMA HistoryNext ==
  ASSUME HistoryInv, [Next]_vars
  PROVE  HistoryInv'
<1>1. MemoryInv'
  BY MemoryNext DEF HistoryInv
<1>2. CASE UNCHANGED <<episode, candidate, events>>
  <2>1. UNCHANGED episode
    BY <1>2
  <2>2. /\ Opened' = Opened
        /\ \A e : /\ StateEventsOf(e)' = StateEventsOf(e)
                  /\ OwnerEventsOf(e)' = OwnerEventsOf(e)
                  /\ StateHistory(e)' = StateHistory(e)
    BY <1>2, TablesKept
  <2> QED
    BY <1>1, <2>1, <2>2 DEF HistoryInv, HistoriesListed, HistoriesCurrent
<1>3. ASSUME NEW s \in Sessions, Commit(s)
      PROVE  HistoryInv'
  <2>1. HistoriesListed'
    BY <1>3, CommitHistories
  <2> QED
    BY <1>1, <1>3, <2>1, CommitCurrent DEF HistoryInv
<1> QED
  BY <1>2, <1>3, TablesWritten

LEMMA HistoryInit == Init => HistoryInv
<1> SUFFICES ASSUME Init PROVE HistoryInv
  OBVIOUS
<1>1. Opened = {} /\ events = {}
  BY DEF Init, Opened
<1>2. \A e : StateEventsOf(e) = {} /\ OwnerEventsOf(e) = {}
  BY <1>1 DEF StateEventsOf, OwnerEventsOf, EventsOf
<1>3. Listed({})
  BY FS_EmptySet DEF Listed
<1> QED
  BY <1>1, <1>2, <1>3, MemoryInit DEF HistoryInv, HistoriesListed, HistoriesCurrent
------------------------------------------------------------------------------
(* The journal, however many sessions *)

\* The lifecycle sees an episode as opened, and in the state of its row.
LEMMA AbstractState ==
  ASSUME HistoryInv, NEW e \in Episodes
  PROVE  /\ Abstract!Opened(e) <=> e \in Opened
         /\ e \in Opened => Abstract!Current(e) = episode[e].state
         /\ Abstract!Unfinished(e) <=> e \in Opened /\ episode[e].state # "closed"
<1>1. CASE e \in Opened
  <2>1. /\ Len(StateHistory(e)) \in Nat \ {0}
        /\ StateHistory(e)[Len(StateHistory(e))] = episode[e].state
    BY <1>1 DEF HistoryInv, HistoriesCurrent
  <2>2. StateHistory(e) # << >>
    BY <2>1
  <2> QED
    BY <1>1, <2>1, <2>2 DEF Abstract!Opened, Abstract!Current, Abstract!Unfinished
<1>2. CASE e \notin Opened
  BY <1>2, NoHistory DEF Abstract!Opened, Abstract!Current, Abstract!Unfinished
<1> QED
  BY <1>1, <1>2

\* What the lifecycle sees of a commit.
LEMMA AbstractChange ==
  ASSUME HistoryInv, NEW s \in Sessions, Commit(s), NEW t, t = tx[s], NEW e, e = t.episode,
         NEW SH, SH = [f \in Episodes |-> StateHistory(f)],
         NEW OH, OH = [f \in Episodes |-> OwnerHistory(f)],
         NEW LN, LN = {<<f, episode[f].line>> : f \in Opened}
  PROVE  /\ [f \in Episodes |-> StateHistory(f)]' =
              IF StateWritten(t) THEN [SH EXCEPT ![e] = Append(@, t.to)] ELSE SH
         /\ [f \in Episodes |-> OwnerHistory(f)]' =
              IF t.op = "assign" THEN [OH EXCEPT ![e] = Append(@, t.owner)] ELSE OH
         /\ {<<f, episode[f].line>> : f \in Opened}' =
              IF t.op = "open" THEN LN \cup {<<e, LineOf[t.candidate]>>} ELSE LN
<1>1. /\ e \in Episodes
      /\ t.op = "open" => e \notin Opened
      /\ t.op # "open" => e \in Opened
      /\ t.op = "open" => episode'[e].line = LineOf[t.candidate]
      /\ \A f \in Opened : episode'[f].line = episode[f].line
  BY Committing DEF HistoryInv, MemoryInv
<1>2. /\ \A f \in Episodes \ {e} : /\ StateHistory(f)' = StateHistory(f)
                                   /\ OwnerHistory(f)' = OwnerHistory(f)
      /\ StateHistory(e)' = IF StateWritten(t) THEN Append(StateHistory(e), t.to)
                            ELSE StateHistory(e)
      /\ OwnerHistory(e)' = IF t.op = "assign" THEN Append(OwnerHistory(e), t.owner)
                            ELSE OwnerHistory(e)
  BY CommitHistories
<1>3. Opened' = Opened \cup {e}
  BY CommitTables DEF HistoryInv, MemoryInv, EvidenceInv
<1>4. [f \in Episodes |-> StateHistory(f)]' =
        IF StateWritten(t) THEN [SH EXCEPT ![e] = Append(@, t.to)] ELSE SH
  BY <1>1, <1>2
<1>5. [f \in Episodes |-> OwnerHistory(f)]' =
        IF t.op = "assign" THEN [OH EXCEPT ![e] = Append(@, t.owner)] ELSE OH
  BY <1>1, <1>2
<1>6. {<<f, episode[f].line>> : f \in Opened}' =
        IF t.op = "open" THEN LN \cup {<<e, LineOf[t.candidate]>>} ELSE LN
  BY <1>1, <1>3
<1> QED
  BY <1>4, <1>5, <1>6

\* The two modules speak of the same states.
LEMMA SameStates ==
  /\ Abstract!SupportedStates = SupportedStates
  /\ Abstract!ActiveStates = ActiveStates
  /\ Abstract!SuppressibleStates = SuppressibleStates
  /\ Abstract!StateTransitions = StateTransitions
BY DEF Abstract!SupportedStates, SupportedStates, Abstract!SuppressibleStates,
       SuppressibleStates, Abstract!StateTransitions, StateTransitions,
       Abstract!ActiveStates, ActiveStates, Abstract!TerminalStates, TerminalStates

\* What a session has seen is in the history the journal keeps.
LEMMA StateSeen ==
  ASSUME HistoryInv, NEW s \in Sessions, NEW t, t = tx[s], Working(t), t.op # "open",
         t.episode \in Episodes
  PROVE  t.state \in Abstract!Been(t.episode)
<1>1. PICK S : S = StateEventsOf(t.episode)
  OBVIOUS
<1>2. Listed(S)
  BY <1>1 DEF HistoryInv, HistoriesListed
<1>3. PICK v \in S : v.to = t.state
  BY <1>1 DEF HistoryInv, MemoryInv, Recalls
<1>4. PICK i \in DOMAIN InOrder(S) : InOrder(S)[i] = v
  BY <1>2, InOrderHas
<1>5. PICK h : h = StateHistory(t.episode)
  OBVIOUS
<1>6. h = StateColumn(S)
  BY <1>1, <1>5, HistoryColumns
<1>7. h[i] = t.state
  BY <1>3, <1>4, <1>6 DEF StateColumn
<1>8. i \in 1 .. Len(h)
  <2>1. Len(h) = Cardinality(S)
    BY <1>1, <1>5, HistoryTypes
  <2> QED
    BY <1>4, <2>1 DEF InOrder
<1> QED
  BY <1>5, <1>7, <1>8 DEF Abstract!Been

\* A change of a closed episode is refused unless it closes it again.
LEMMA ClosedStays ==
  ASSUME EvidenceInv, NEW s \in Sessions, Commit(s), NEW t, t = tx[s], NEW e, e = t.episode,
         t.op # "open", StateWritten(t), e \in Opened, episode[e].state = "closed"
  PROVE  t.to = "closed"
<1>1. PICK row : row = RowAfter(t)
  OBVIOUS
<1>2. PICK old : old = episode[e]
  OBVIOUS
<1>3. old \in EpisodeRows /\ old.closed
  BY <1>2, OpenedType DEF EvidenceInv, IInv, ClosedRowsConsistent, ClosedConsistent
<1>4. row = [old EXCEPT !.state = t.to,
                        !.owner = IF OwnerWritten(t) THEN t.owner ELSE @,
                        !.closed = @ \/ t.to = "closed"]
  BY <1>1, <1>2 DEF RowAfter
<1>5. row.state = t.to /\ row.closed
  BY <1>3, <1>4, SMT DEF EpisodeRows
<1>6. (row.state = "closed") <=> row.closed
  BY <1>1 DEF Commit, Accepted, ClosedConsistent
<1> QED
  BY <1>5, <1>6

\* What the journal sees of a commit that writes a state.
LEMMA CommitRecords ==
  ASSUME HistoryInv, NEW s \in Sessions, Commit(s), NEW t, t = tx[s], NEW e, e = t.episode,
         t.op # "open", StateWritten(t)
  PROVE  Abstract!Record(e, t.to)
<1>1. e \in Episodes /\ e \in Opened
  BY Committing DEF HistoryInv, MemoryInv
<1>2. PICK SH : SH = [f \in Episodes |-> StateHistory(f)]
  OBVIOUS
<1>3. [f \in Episodes |-> StateHistory(f)]' = [SH EXCEPT ![e] = Append(@, t.to)]
  BY <1>2, AbstractChange
<1>4. Abstract!Enter(e, t.to)
  BY <1>2, <1>3 DEF Abstract!Enter
<1>5. Abstract!Current(e) = "closed" => t.to = "closed"
  BY <1>1, AbstractState, ClosedStays DEF HistoryInv, MemoryInv
<1> QED
  BY <1>4, <1>5 DEF Abstract!Record

\* An episode is opened on a line without an unfinished one.
LEMMA CommitOpens ==
  ASSUME HistoryInv, NEW s \in Sessions, Commit(s), NEW t, t = tx[s], NEW e, e = t.episode
  PROVE  t.op = "open" => \E l \in Lines : Abstract!Open(e, l)
<1>1. PICK SH, OH, LN : /\ SH = [f \in Episodes |-> StateHistory(f)]
                        /\ OH = [f \in Episodes |-> OwnerHistory(f)]
                        /\ LN = {<<f, episode[f].line>> : f \in Opened}
  OBVIOUS
<1>2. /\ [f \in Episodes |-> StateHistory(f)]' =
           IF StateWritten(t) THEN [SH EXCEPT ![e] = Append(@, t.to)] ELSE SH
      /\ [f \in Episodes |-> OwnerHistory(f)]' =
           IF t.op = "assign" THEN [OH EXCEPT ![e] = Append(@, t.owner)] ELSE OH
      /\ {<<f, episode[f].line>> : f \in Opened}' =
           IF t.op = "open" THEN LN \cup {<<e, LineOf[t.candidate]>>} ELSE LN
  BY <1>1, AbstractChange
<1> HAVE t.op = "open"
<1>3. /\ Validated(t) /\ e \in Episodes /\ e \notin Opened
      /\ StateWritten(t) /\ t.to = "open"
  BY Committing, StateAfter DEF HistoryInv, MemoryInv
<1>4. PICK l \in Lines : l = LineOf[t.candidate]
  BY <1>3, ServiceAssumption DEF Validated
<1>5. /\ [f \in Episodes |-> StateHistory(f)]' = [SH EXCEPT ![e] = Append(@, "open")]
      /\ [f \in Episodes |-> OwnerHistory(f)]' = OH
      /\ {<<f, episode[f].line>> : f \in Opened}' = LN \cup {<<e, l>>}
  BY <1>2, <1>3, <1>4
<1>6. \A f \in Opened : episode[f].line = l => ~ Abstract!Unfinished(f)
  <2>1. SUFFICES ASSUME NEW f \in Opened, episode[f].line = l
                 PROVE  ~ Abstract!Unfinished(f)
    OBVIOUS
  <2>2. episode[f].closed /\ f \in Episodes
    BY <1>4, <2>1 DEF Commit, Accepted, EpisodeUnique, Opened
  <2>3. episode[f].state = "closed"
    BY <2>1, <2>2 DEF HistoryInv, MemoryInv, EvidenceInv, IInv, ClosedRowsConsistent,
                      ClosedConsistent
  <2> QED
    BY <2>2, <2>3, AbstractState
<1>7. \A opened \in LN : opened[2] = l => ~ Abstract!Unfinished(opened[1])
  BY <1>1, <1>6
<1>8. ~ Abstract!Opened(e)
  BY <1>3, AbstractState
<1>9. Abstract!Open(e, l)
  BY <1>1, <1>5, <1>7, <1>8 DEF Abstract!Open, Abstract!Enter
<1> QED
  BY <1>9

\* A commit is one step of the journal, or changes nothing it sees.
LEMMA CommitJournaled ==
  ASSUME HistoryInv, NEW s \in Sessions, Commit(s)
  PROVE  [Abstract!JournalNext]_(Abstract!vars)
<1> PICK t : t = tx[s]
  OBVIOUS
<1> PICK e : e = t.episode
  OBVIOUS
<1>0. t = tx[s] /\ e = t.episode
  OBVIOUS
<1>1. /\ Validated(t) /\ Permitted(t) /\ Working(t) /\ e \in Episodes
      /\ t.op # "open" => e \in Opened
  BY Committing DEF HistoryInv, MemoryInv, Commit, Working
<1>2. t.op # "open" => t.state \in Abstract!Been(e)
  BY <1>1, StateSeen
<1>3. t.to \in SupportedStates
  BY StateAfter
<1>4. PICK SH, OH, LN : /\ SH = [f \in Episodes |-> StateHistory(f)]
                        /\ OH = [f \in Episodes |-> OwnerHistory(f)]
                        /\ LN = {<<f, episode[f].line>> : f \in Opened}
  OBVIOUS
<1>5. /\ [f \in Episodes |-> StateHistory(f)]' =
           IF StateWritten(t) THEN [SH EXCEPT ![e] = Append(@, t.to)] ELSE SH
      /\ [f \in Episodes |-> OwnerHistory(f)]' =
           IF t.op = "assign" THEN [OH EXCEPT ![e] = Append(@, t.owner)] ELSE OH
      /\ {<<f, episode[f].line>> : f \in Opened}' =
           IF t.op = "open" THEN LN \cup {<<e, LineOf[t.candidate]>>} ELSE LN
  BY <1>4, AbstractChange
<1>6. t.op # "open" =>
        {<<f, episode[f].line>> : f \in Opened}' = {<<f, episode[f].line>> : f \in Opened}
  BY <1>4, <1>5
<1>7. t.op \notin {"open", "assign"} =>
        [f \in Episodes |-> OwnerHistory(f)]' = [f \in Episodes |-> OwnerHistory(f)]
  BY <1>4, <1>5
<1>8. t.op # "open" /\ StateWritten(t) => Abstract!Record(e, t.to)
  BY CommitRecords
<1>9. CASE t.op = "open"
  BY <1>1, <1>9, CommitOpens DEF Abstract!JournalNext
<1>10. CASE t.op \in {"link", "action"}
  <2>1. ~ StateWritten(t)
    BY <1>1, <1>10 DEF Permitted, StateWritten
  <2> QED
    BY <1>4, <1>5, <1>10, <2>1 DEF Abstract!vars
<1>11. CASE t.op \in {"transition", "agreement"}
  <2>1. <<t.state, t.to>> \in StateTransitions
    BY <1>1, <1>11 DEF Permitted
  <2>2. StateWritten(t)
    BY <2>1, MatrixMoves DEF StateWritten
  <2>3. Abstract!AdvanceFrom(e, t.state, t.to)
    BY <1>6, <1>7, <1>8, <1>11, <2>1, <2>2, SameStates DEF Abstract!AdvanceFrom
  <2>4. Abstract!JournalNext
    BY <1>1, <1>2, <1>3, <1>11, <2>3, SameStates DEF Abstract!JournalNext
  <2> QED
    BY <2>4
<1>12. CASE t.op = "suppress"
  <2>1. t.state \in SuppressibleStates /\ t.to = "suppressed"
    BY <1>1, <1>12 DEF Permitted
  <2>2. StateWritten(t)
    BY <2>1, MatrixMoves DEF StateWritten
  <2>3. Abstract!SuppressFrom(e, t.state)
    BY <1>6, <1>7, <1>8, <1>12, <2>1, <2>2, SameStates DEF Abstract!SuppressFrom
  <2>4. Abstract!JournalNext
    BY <1>1, <1>2, <1>12, <2>3 DEF Abstract!JournalNext
  <2> QED
    BY <2>4
<1>13. CASE t.op = "assign"
  <2>1. /\ t.state \in ActiveStates /\ t.owner \in Users
        /\ t.to = IF t.state = "open" THEN "assigned" ELSE t.state
    BY <1>1, <1>13 DEF Permitted
  <2>2. StateWritten(t) <=> t.state = "open"
    BY <2>1 DEF StateWritten
  <2>3. [f \in Episodes |-> OwnerHistory(f)]' =
          [[f \in Episodes |-> OwnerHistory(f)] EXCEPT ![e] = Append(@, t.owner)]
    BY <1>4, <1>5, <1>13
  <2>4. t.state = "open" => Abstract!AssignFrom(e, t.state, t.owner)
    <3> HAVE t.state = "open"
    <3>1. Abstract!Record(e, "assigned")
      BY <1>8, <1>13, <2>1, <2>2
    <3> QED
      BY <1>6, <1>13, <2>1, <2>3, <3>1, SameStates DEF Abstract!AssignFrom
  <2>5. t.state # "open" => Abstract!AssignFrom(e, t.state, t.owner)
    <3> HAVE t.state # "open"
    <3>1. [f \in Episodes |-> StateHistory(f)]' = [f \in Episodes |-> StateHistory(f)]
      BY <1>4, <1>5, <2>2
    <3> QED
      BY <1>6, <1>13, <2>1, <2>3, <3>1, SameStates DEF Abstract!AssignFrom
  <2>6. Abstract!JournalNext
    BY <1>1, <1>2, <1>13, <2>1, <2>4, <2>5 DEF Abstract!JournalNext
  <2> QED
    BY <2>6
<1> QED
  BY <1>1, <1>9, <1>10, <1>11, <1>12, <1>13 DEF Validated, Operations

LEMMA InitialHistories == Init => Abstract!Init
<1> SUFFICES ASSUME Init PROVE Abstract!Init
  OBVIOUS
<1>1. Opened = {}
  BY DEF Init, Opened
<1>2. \A e \in Episodes : StateHistory(e) = << >> /\ OwnerHistory(e) = << >>
  BY <1>1, HistoryInit, NoHistory
<1> QED
  BY <1>1, <1>2 DEF Abstract!Init

\* However many sessions interleave, every commit adds to the histories what was
\* allowed from a state the episode is in or has been in, opens no second
\* unfinished episode on a line, and leaves a closed episode closed.
THEOREM JournalImplemented == Spec => ImplementsJournal
<1>1. HistoryInv /\ [Next]_vars => HistoryInv'
  BY HistoryNext
<1>2. HistoryInv /\ [Next]_vars => [Abstract!JournalNext]_(Abstract!vars)
  <2> SUFFICES ASSUME HistoryInv, [Next]_vars PROVE [Abstract!JournalNext]_(Abstract!vars)
    OBVIOUS
  <2>1. CASE UNCHANGED <<episode, candidate, events>>
    <3>1. UNCHANGED Abstract!vars
      BY <2>1, TablesKept DEF Abstract!vars
    <3> QED
      BY <3>1
  <2> QED
    BY <2>1, CommitJournaled, TablesWritten
<1> QED
  BY <1>1, <1>2, HistoryInit, InitialHistories, PTL DEF Spec, ImplementsJournal
------------------------------------------------------------------------------
(* The desk: what a session has read of its candidate *)

LEMMA SessionEligible ==
  ASSUME DeskInv, EvidenceInv', NEW s \in Sessions, NEW t, WasEligible(t),
         tx' = [tx EXCEPT ![s] = t],
         UNCHANGED <<episode, candidate, events>>
  PROVE  DeskInv'
<1>1. \A r \in Sessions : WasEligible(tx'[r])
  BY DEF DeskInv, EvidenceInv, IInv, TypeOK
<1>2. \A r \in Sessions : WasEligible(tx[r])'
  BY <1>1 DEF WasEligible, Working
<1> QED
  BY <1>2 DEF DeskInv

LEMMA IdleEligible ==
  ASSUME NEW t, t.phase \in {"idle", "replayed"}
  PROVE  WasEligible(t)
BY DEF WasEligible, Working

LEMMA FindActiveEligible ==
  ASSUME DeskInv, EvidenceInv', NEW s \in Sessions, FindActiveEpisode(s)
  PROVE  DeskInv'
<1> PICK c : c = tx[s]
  OBVIOUS
<1>1. c = tx[s] /\ c \in Transactions /\ c.phase = "candidate" /\ WasEligible(c)
  BY DEF FindActiveEpisode, DeskInv, EvidenceInv, IInv, TypeOK
<1>2. PICK t : /\ tx' = [tx EXCEPT ![s] = t]
               /\ \/ \E e : t = [Load("link", e, c.key[1]) EXCEPT !.candidate = c.candidate]
                  \/ \E e \in Episodes :
                       t = [c EXCEPT !.phase = "read", !.episode = e, !.to = "open"]
  BY <1>1 DEF FindActiveEpisode
<1>3. ASSUME NEW e, t = [Load("link", e, c.key[1]) EXCEPT !.candidate = c.candidate]
      PROVE  t.candidate = c.candidate
  <2>1. t = [phase |-> "read", op |-> "link", episode |-> e, candidate |-> c.candidate,
             key |-> CommandKey(c.key[1]), state |-> episode[e].state,
             to |-> episode[e].state, holder |-> episode[e].owner,
             owner |-> episode[e].owner, category |-> None,
             approval |-> None, seq |-> 0, number |-> 0, drafts |-> << >>]
    BY <1>3, Loaded
  <2> QED
    BY <2>1
<1>4. ASSUME NEW e, t = [c EXCEPT !.phase = "read", !.episode = e, !.to = "open"]
      PROVE  t.candidate = c.candidate
  BY <1>1, <1>4, SMT DEF Transactions
<1>5. WasEligible(t)
  BY <1>1, <1>2, <1>3, <1>4 DEF WasEligible
<1> QED
  BY <1>2, <1>5, SessionEligible DEF FindActiveEpisode

LEMMA FlushEligible ==
  ASSUME DeskInv, EvidenceInv', NEW s \in Sessions, Flush(s)
  PROVE  DeskInv'
<1> PICK t : t = tx[s]
  OBVIOUS
<1>1. t = tx[s] /\ t \in Transactions /\ t.phase = "read" /\ WasEligible(t)
  BY DEF Flush, DeskInv, EvidenceInv, IInv, TypeOK
<1>2. PICK d, seq, n : /\ d = Drafts(t)
                       /\ seq = NextEventSequence(t.episode)
                       /\ n = IF t.op = "open"
                              THEN NextEpisodeSequence(LineOf[t.candidate]) ELSE 0
  OBVIOUS
<1>3. PICK x : x = [t EXCEPT !.phase = "flushed", !.drafts = d, !.seq = seq, !.number = n]
  OBVIOUS
<1>4. tx' = [tx EXCEPT ![s] = x] /\ UNCHANGED <<episode, candidate, events>>
  BY <1>1, <1>2, <1>3 DEF Flush
<1>5. x.op = t.op /\ x.candidate = t.candidate /\ x.phase = "flushed"
  BY <1>1, <1>3, SMT DEF Transactions
<1>6. WasEligible(x)
  BY <1>1, <1>5 DEF WasEligible, Working
<1> QED
  BY <1>4, <1>6, SessionEligible

\* What a commit does to the candidates.
LEMMA CommitCandidates ==
  ASSUME DeskInv, NEW s \in Sessions, Commit(s), NEW t, t = tx[s], NEW c, c = t.candidate
  PROVE  /\ \A d \in Candidates \ {c} : candidate'[d] = candidate[d]
         /\ t.op \notin {"open", "link"} => candidate' = candidate
         /\ t.op \in {"open", "link"} =>
              /\ c \in Candidates
              /\ candidate[c].disposition # "below-opening-threshold"
              /\ candidate'[c].linked = t.episode
         /\ t.op = "open" => candidate'[c].disposition = "opened-new-episode"
         /\ t.op = "link" => candidate'[c].disposition = "linked-existing-active-episode"
         /\ \A d \in Candidates : candidate'[d].disposition = "below-opening-threshold"
                                    <=> candidate[d].disposition = "below-opening-threshold"
<1>1. Validated(t) /\ WasEligible(t) /\ Working(t)
  BY Committing DEF DeskInv, Commit, Working
<1>2. candidate' = IF t.op \in {"open", "link"}
                   THEN [candidate EXCEPT ![c] = CandidateAfter(t)]
                   ELSE candidate
  BY DEF Commit
<1>3. DOMAIN candidate = Candidates
  BY DEF DeskInv, EvidenceInv, IInv, TypeOK
<1>4. t.op \in {"open", "link"} =>
        c \in Candidates /\ candidate[c].disposition # "below-opening-threshold"
  BY <1>1 DEF Validated, WasEligible
<1>5. t.op \in {"open", "link"} =>
        /\ candidate'[c] = CandidateAfter(t)
        /\ \A d \in Candidates \ {c} : candidate'[d] = candidate[d]
  BY <1>2, <1>3, <1>4
<1>6. /\ CandidateAfter(t).linked = t.episode
      /\ t.op = "open" => CandidateAfter(t).disposition = "opened-new-episode"
      /\ t.op = "link" => CandidateAfter(t).disposition = "linked-existing-active-episode"
  BY DEF CandidateAfter
<1> QED
  BY <1>2, <1>4, <1>5, <1>6

LEMMA CommitEligible ==
  ASSUME DeskInv, EvidenceInv', NEW s \in Sessions, Commit(s)
  PROVE  DeskInv'
<1>1. tx'[s] = NoTx /\ \A r \in Sessions \ {s} : tx'[r] = tx[r]
  BY CommitTables DEF DeskInv, EvidenceInv
<1>2. \A d \in Candidates : candidate[d].disposition # "below-opening-threshold" =>
                              candidate'[d].disposition # "below-opening-threshold"
  BY CommitCandidates
<1>3. \A r \in Sessions :
        (tx[r].phase = "candidate" \/ (Working(tx[r]) /\ tx[r].op \in {"open", "link"})) =>
          tx[r].candidate \in Candidates
  BY DEF DeskInv, EvidenceInv, IInv, TxInv, Validated
<1>4. \A r \in Sessions \ {s} : WasEligible(tx[r])'
  BY <1>1, <1>2, <1>3 DEF DeskInv, WasEligible, Working
<1>5. WasEligible(tx[s])'
  BY <1>1 DEF NoTx, WasEligible, Working
<1> QED
  BY <1>4, <1>5 DEF DeskInv

LEMMA DeskNext ==
  ASSUME DeskInv, [Next]_vars
  PROVE  DeskInv'
<1>1. EvidenceInv'
  BY EvidenceNext DEF DeskInv
<1>2. CASE UNCHANGED vars
  <2>1. \A r \in Sessions : WasEligible(tx[r])'
    BY <1>2 DEF vars, DeskInv, WasEligible, Working
  <2> QED
    BY <1>1, <2>1 DEF DeskInv
<1>3. ASSUME NEW s \in Sessions, Command(s)
      PROVE  DeskInv'
  <2>1. PICK t : Begins(s, t)
    BY <1>3, CommandBegins
  <2>2. WasEligible(t)
    BY <2>1 DEF Begins, Loads, Picks, WasEligible, Working
  <2> QED
    BY <1>1, <2>1, <2>2, SessionEligible DEF Begins, Begin
<1>4. ASSUME NEW s \in Sessions, Answer(s) \/ Rollback(s)
      PROVE  DeskInv'
  <2>1. WasEligible(NoTx)
    BY IdleEligible DEF NoTx
  <2> QED
    BY <1>1, <1>4, <2>1, SessionEligible DEF Answer, Rollback
<1> QED
  BY <1>1, <1>2, <1>3, <1>4, FindActiveEligible, FlushEligible, CommitEligible DEF Next

LEMMA DeskStarts == Init => DeskInv /\ Desk!Init
<1> SUFFICES ASSUME Init PROVE DeskInv /\ Desk!Init
  OBVIOUS
<1>1. DeskInv
  <2>1. WasEligible(NoTx)
    BY IdleEligible DEF NoTx
  <2> QED
    BY <2>1, EvidenceInit DEF DeskInv, Init
<1>2. Opened = {}
  BY DEF Init, Opened
<1>3. \A c \in Candidates :
        /\ candidate[c].disposition \in {"opening-eligible-no-workflow", "below-opening-threshold"}
        /\ candidate[c].linked = None
  BY DEF Init
<1>4. DeskDisposition \in [Candidates -> {"absent"} \cup Desk!Unlinked]
  BY <1>3 DEF DeskDisposition, Desk!Unlinked
<1>5. DeskLink = [c \in Candidates |-> None] /\ DeskLine = {} /\ DeskActive = {}
  BY <1>2, <1>3 DEF DeskLink, DeskLine, DeskActive
<1>6. PICK E : E = {c \in Candidates : candidate[c].disposition = "opening-eligible-no-workflow"}
  OBVIOUS
<1>7. DeskOffers = {o \in E \X (Episodes \cup {None}) : o[2] \in {None}}
  BY <1>2, <1>3, <1>6 DEF DeskOffers
<1>8. Desk!Eligible(DeskDisposition) = E
  BY <1>6 DEF Desk!Eligible, DeskDisposition
<1>9. DeskOffers = Desk!OffersOf(Desk!Eligible(DeskDisposition))
  <2>1. \A l : (Desk!On(l) \cap DeskActive) \cup {None} = {None}
    BY <1>5
  <2> QED
    BY <1>7, <1>8, <2>1 DEF Desk!OffersOf
<1> QED
  BY <1>1, <1>4, <1>5, <1>9 DEF Desk!Init

\* What the desk sees of a commit.
LEMMA DeskChange ==
  ASSUME DeskInv, NEW s \in Sessions, Commit(s), NEW t, t = tx[s],
         NEW e, e = t.episode, NEW c, c = t.candidate
  PROVE  /\ DeskDisposition' =
              IF t.op = "open" THEN [DeskDisposition EXCEPT ![c] = "opened-new-episode"]
              ELSE IF t.op = "link"
              THEN [DeskDisposition EXCEPT ![c] = "linked-existing-active-episode"]
              ELSE DeskDisposition
         /\ DeskLink' = IF t.op \in {"open", "link"} THEN [DeskLink EXCEPT ![c] = e]
                        ELSE DeskLink
         /\ DeskLine' = IF t.op = "open" THEN DeskLine \cup {<<e, LineOf[c]>>} ELSE DeskLine
         /\ DeskActive' = IF t.op = "open" THEN DeskActive \cup {e}
                          ELSE IF StateWritten(t) /\ t.to = "closed" THEN DeskActive \ {e}
                          ELSE DeskActive
         /\ DeskOffers' =
              IF t.op = "open"
              THEN DeskOffers \cup {o \in Candidates \X {e} :
                                     LineOf[o[1]] = LineOf[c] /\ <<o[1], None>> \in DeskOffers}
              ELSE DeskOffers
<1>1. /\ e \in Episodes
      /\ t.op = "open" => e \notin Opened
      /\ t.op # "open" => e \in Opened
      /\ t.op = "open" => episode'[e].line = LineOf[c]
      /\ \A f \in Opened : episode'[f].line = episode[f].line
  BY Committing DEF DeskInv
<1>2. /\ Opened' = Opened \cup {e}
      /\ \A f \in Episodes \ {e} : episode'[f] = episode[f]
      /\ episode'[e] = RowAfter(t)
  BY CommitTables DEF DeskInv, EvidenceInv
<1>3. /\ t.op = "open" => ~ RowAfter(t).closed
      /\ t.op # "open" => RowAfter(t).closed = (episode[e].closed
                                               \/ (StateWritten(t) /\ t.to = "closed"))
  BY RowAfterShape DEF DeskInv, EvidenceInv, Commit, Working
<1>4. /\ \A d \in Candidates \ {c} : candidate'[d] = candidate[d]
      /\ t.op \notin {"open", "link"} => candidate' = candidate
      /\ t.op \in {"open", "link"} => c \in Candidates /\ candidate'[c].linked = e
      /\ t.op = "open" => candidate'[c].disposition = "opened-new-episode"
      /\ t.op = "link" => candidate'[c].disposition = "linked-existing-active-episode"
      /\ \A d \in Candidates : candidate'[d].disposition = "below-opening-threshold"
                                 <=> candidate[d].disposition = "below-opening-threshold"
  BY CommitCandidates
<1>5. DeskDisposition' =
        IF t.op = "open" THEN [DeskDisposition EXCEPT ![c] = "opened-new-episode"]
        ELSE IF t.op = "link"
        THEN [DeskDisposition EXCEPT ![c] = "linked-existing-active-episode"]
        ELSE DeskDisposition
  BY <1>4 DEF DeskDisposition
<1>6. DeskLink' = IF t.op \in {"open", "link"} THEN [DeskLink EXCEPT ![c] = e] ELSE DeskLink
  BY <1>4 DEF DeskLink
<1>7. DeskLine' = IF t.op = "open" THEN DeskLine \cup {<<e, LineOf[c]>>} ELSE DeskLine
  BY <1>1, <1>2 DEF DeskLine
<1>8. Opened \subseteq Episodes
  BY DEF Opened
<1>9. DeskActive' = IF t.op = "open" THEN DeskActive \cup {e}
                   ELSE IF StateWritten(t) /\ t.to = "closed" THEN DeskActive \ {e}
                   ELSE DeskActive
  <2>1. episode'[e].closed <=>
          t.op # "open" /\ (episode[e].closed \/ (StateWritten(t) /\ t.to = "closed"))
    BY <1>2, <1>3
  <2>2. \A f : f \in DeskActive' <=> f \in Opened \cup {e} /\ ~ episode'[f].closed
    BY <1>2 DEF DeskActive
  <2>3. \A f \in Opened \ {e} : episode'[f] = episode[f]
    BY <1>2, <1>8
  <2>4. \A f : f \in DeskActive <=> f \in Opened /\ ~ episode[f].closed
    BY DEF DeskActive
  <2>5. CASE t.op = "open"
    <3>1. \A f : f \in DeskActive' <=> f \in DeskActive \cup {e}
      BY <2>1, <2>2, <2>3, <2>4, <2>5
    <3> QED
      BY <2>5, <3>1
  <2>6. CASE t.op # "open" /\ StateWritten(t) /\ t.to = "closed"
    <3>1. \A f : f \in DeskActive' <=> f \in DeskActive \ {e}
      BY <2>1, <2>2, <2>3, <2>4, <2>6
    <3> QED
      BY <2>6, <3>1
  <2>7. CASE t.op # "open" /\ ~ (StateWritten(t) /\ t.to = "closed")
    <3>1. \A f : f \in DeskActive' <=> f \in DeskActive
      BY <1>1, <2>1, <2>2, <2>3, <2>4, <2>7
    <3> QED
      BY <2>7, <3>1
  <2> QED
    BY <2>5, <2>6, <2>7
<1>10. None \notin Episodes
  BY ServiceAssumption
<1>11. CASE t.op # "open"
  <2>1. Opened' = Opened
    BY <1>1, <1>2, <1>11
  <2>2. DeskOffers' = DeskOffers
    BY <1>1, <1>4, <2>1 DEF DeskOffers
  <2> QED
    BY <1>5, <1>6, <1>7, <1>9, <1>11, <2>2
<1>12. CASE t.op = "open"
  <2>1. DeskOffers \subseteq DeskOffers'
    BY <1>1, <1>2, <1>4 DEF DeskOffers
  <2>2. ASSUME NEW o \in Candidates \X {e}
        PROVE  o \in DeskOffers' <=> LineOf[o[1]] = LineOf[c] /\ <<o[1], None>> \in DeskOffers
    BY <1>1, <1>2, <1>4, <1>10, <1>12 DEF DeskOffers
  <2>3. ASSUME NEW o \in DeskOffers', o \notin Candidates \X {e}
        PROVE  o \in DeskOffers
    BY <1>1, <1>2, <1>4, <2>3 DEF DeskOffers
  <2>4. DeskOffers' = DeskOffers \cup {o \in Candidates \X {e} :
          LineOf[o[1]] = LineOf[c] /\ <<o[1], None>> \in DeskOffers}
    BY <2>1, <2>2, <2>3
  <2> QED
    BY <1>5, <1>6, <1>7, <1>9, <1>12, <2>4
<1> QED
  BY <1>11, <1>12

\* A commit is one step at the desk, or changes nothing it sees.
LEMMA CommitAtDesk ==
  ASSUME DeskInv, NEW s \in Sessions, Commit(s)
  PROVE  [Desk!Next]_(Desk!vars)
<1> PICK t : t = tx[s]
  OBVIOUS
<1> PICK e, c : e = t.episode /\ c = t.candidate
  OBVIOUS
<1>1. /\ e \in Episodes
      /\ t.op = "open" => e \notin Opened
      /\ t.op # "open" => e \in Opened
      /\ t.op = "link" => episode[e].line = LineOf[c]
  BY Committing DEF DeskInv
<1>2. t.op \in {"open", "link"} =>
        c \in Candidates /\ candidate[c].disposition # "below-opening-threshold"
  BY CommitCandidates
<1>3. /\ DeskDisposition' =
           IF t.op = "open" THEN [DeskDisposition EXCEPT ![c] = "opened-new-episode"]
           ELSE IF t.op = "link"
           THEN [DeskDisposition EXCEPT ![c] = "linked-existing-active-episode"]
           ELSE DeskDisposition
      /\ DeskLink' = IF t.op \in {"open", "link"} THEN [DeskLink EXCEPT ![c] = e] ELSE DeskLink
      /\ DeskLine' = IF t.op = "open" THEN DeskLine \cup {<<e, LineOf[c]>>} ELSE DeskLine
      /\ DeskActive' = IF t.op = "open" THEN DeskActive \cup {e}
                       ELSE IF StateWritten(t) /\ t.to = "closed" THEN DeskActive \ {e}
                       ELSE DeskActive
      /\ DeskOffers' =
           IF t.op = "open"
           THEN DeskOffers \cup {o \in Candidates \X {e} :
                                  LineOf[o[1]] = LineOf[c] /\ <<o[1], None>> \in DeskOffers}
           ELSE DeskOffers
  BY DeskChange
<1>4. CASE t.op = "open"
  <2>1. <<c, None>> \in DeskOffers
    BY <1>2, <1>4 DEF DeskOffers
  <2>2. \A f \in Opened : episode[f].line = LineOf[c] => episode[f].closed
    BY <1>4 DEF Commit, Accepted, EpisodeUnique
  <2>3. Desk!On(LineOf[c]) \cap DeskActive = {}
    BY <2>2 DEF Desk!On, DeskLine, DeskActive
  <2>4. \A l \in Lines : e \notin Desk!On(l)
    BY <1>1, <1>4 DEF Desk!On, DeskLine
  <2>5. Desk!OpenNew(c, e)
    BY <1>3, <1>4, <2>1, <2>3, <2>4 DEF Desk!OpenNew
  <2> QED
    BY <1>1, <1>2, <1>4, <2>5 DEF Desk!Next
<1>5. CASE t.op = "link"
  <2>1. <<c, e>> \in DeskOffers
    BY <1>1, <1>2, <1>5 DEF DeskOffers
  <2>2. ~ (StateWritten(t) /\ t.to = "closed")
    BY <1>5, Committing DEF DeskInv, Permitted, StateWritten
  <2>3. Desk!LinkTo(c, e)
    BY <1>3, <1>5, <2>1, <2>2 DEF Desk!LinkTo
  <2> QED
    BY <1>1, <1>2, <1>5, <2>3 DEF Desk!Next
<1>6. CASE t.op \notin {"open", "link"}
  <2>1. CASE StateWritten(t) /\ t.to = "closed" /\ e \in DeskActive
    <3>1. Desk!Close(e)
      BY <1>3, <1>6, <2>1 DEF Desk!Close
    <3> QED
      BY <1>1, <3>1 DEF Desk!Next
  <2>2. CASE ~ (StateWritten(t) /\ t.to = "closed" /\ e \in DeskActive)
    <3>1. UNCHANGED Desk!vars
      BY <1>3, <1>6, <2>2 DEF Desk!vars
    <3> QED
      BY <3>1
  <2> QED
    BY <2>1, <2>2
<1> QED
  BY <1>4, <1>5, <1>6

\* However many sessions interleave: a candidate below the threshold never gets
\* an episode, a new episode finds its line without an active one, and whatever
\* a command read before, it links its candidate to an episode of its own line.
THEOREM DeskImplemented == Spec => ImplementsDesk
<1>1. DeskInv /\ [Next]_vars => DeskInv'
  BY DeskNext
<1>2. DeskInv /\ [Next]_vars => [Desk!Next]_(Desk!vars)
  <2> SUFFICES ASSUME DeskInv, [Next]_vars PROVE [Desk!Next]_(Desk!vars)
    OBVIOUS
  <2>1. CASE UNCHANGED <<episode, candidate, events>>
    <3>1. UNCHANGED Desk!vars
      BY <2>1, TablesKept DEF Desk!vars, DeskDisposition, DeskLink, DeskLine, DeskActive,
                              DeskOffers
    <3> QED
      BY <3>1
  <2> QED
    BY <2>1, CommitAtDesk, TablesWritten
<1> QED
  BY <1>1, <1>2, DeskStarts, PTL DEF Spec, ImplementsDesk
------------------------------------------------------------------------------
(* One session at a time: what it has loaded is up to date *)

LEMMA SequentialSession ==
  ASSUME OneSession, SequentialInv, EvidenceInv', NEW s \in Sessions, NEW t, UpToDate(t),
         tx' = [tx EXCEPT ![s] = t],
         UNCHANGED <<episode, candidate, events>>
  PROVE  SequentialInv'
<1>1. /\ Opened' = Opened
      /\ \A e : OwnerEventsOf(e)' = OwnerEventsOf(e)
  BY DEF Opened, OwnerEventsOf, EventsOf
<1>2. OwnerIsProjection'
  BY <1>1 DEF SequentialInv, OwnerIsProjection, IsLatest
<1>3. \A r \in Sessions : tx'[r] = t
  BY DEF OneSession, SequentialInv, EvidenceInv, IInv, TypeOK
<1>4. \A r \in Sessions : UpToDate(tx[r])'
  BY <1>3 DEF UpToDate
<1> QED
  BY <1>2, <1>4 DEF SequentialInv

LEMMA IdleUpToDate ==
  ASSUME NEW t, t.phase \notin {"read", "flushed"}
  PROVE  UpToDate(t)
BY DEF UpToDate, Working

LEMMA FindActiveSequential ==
  ASSUME OneSession, SequentialInv, EvidenceInv', NEW s \in Sessions, FindActiveEpisode(s)
  PROVE  SequentialInv'
<1> PICK c : c = tx[s]
  OBVIOUS
<1>1. c = tx[s] /\ c \in Transactions /\ c.op = "open" /\ c.phase = "candidate"
  BY DEF FindActiveEpisode, SequentialInv, EvidenceInv, IInv, TypeOK, TxInv
<1>2. PICK t : /\ tx' = [tx EXCEPT ![s] = t]
               /\ \/ \E e \in ActiveOn(LineOf[c.candidate]) :
                       t = [Load("link", e, c.key[1]) EXCEPT !.candidate = c.candidate]
                  \/ \E e \in Episodes :
                       t = [c EXCEPT !.phase = "read", !.episode = e, !.to = "open"]
  BY <1>1 DEF FindActiveEpisode
<1>3. ASSUME NEW e, t = [Load("link", e, c.key[1]) EXCEPT !.candidate = c.candidate]
      PROVE  UpToDate(t)
  <2>1. t = [phase |-> "read", op |-> "link", episode |-> e, candidate |-> c.candidate,
             key |-> CommandKey(c.key[1]), state |-> episode[e].state,
             to |-> episode[e].state, holder |-> episode[e].owner,
             owner |-> episode[e].owner, category |-> None,
             approval |-> None, seq |-> 0, number |-> 0, drafts |-> << >>]
    BY <1>3, Loaded
  <2> QED
    BY <2>1 DEF UpToDate
<1>4. ASSUME NEW e, t = [c EXCEPT !.phase = "read", !.episode = e, !.to = "open"]
      PROVE  UpToDate(t)
  <2>1. t.op = "open"
    BY <1>1, <1>4, SMT DEF Transactions
  <2> QED
    BY <2>1 DEF UpToDate
<1> QED
  BY <1>2, <1>3, <1>4, SequentialSession DEF FindActiveEpisode

LEMMA FlushSequential ==
  ASSUME OneSession, SequentialInv, EvidenceInv', NEW s \in Sessions, Flush(s)
  PROVE  SequentialInv'
<1> PICK t : t = tx[s]
  OBVIOUS
<1>1. t = tx[s] /\ t \in Transactions /\ t.phase = "read" /\ UpToDate(t)
  BY DEF Flush, SequentialInv, EvidenceInv, IInv, TypeOK
<1>2. PICK d, seq, n : /\ d = Drafts(t)
                       /\ seq = NextEventSequence(t.episode)
                       /\ n = IF t.op = "open"
                              THEN NextEpisodeSequence(LineOf[t.candidate]) ELSE 0
  OBVIOUS
<1>3. PICK x : x = [t EXCEPT !.phase = "flushed", !.drafts = d, !.seq = seq, !.number = n]
  OBVIOUS
<1>4. tx' = [tx EXCEPT ![s] = x] /\ UNCHANGED <<episode, candidate, events>>
  BY <1>1, <1>2, <1>3 DEF Flush
<1>5. /\ x.op = t.op /\ x.episode = t.episode
      /\ x.state = t.state /\ x.holder = t.holder
  BY <1>1, <1>3, SMT DEF Transactions
<1>6. UpToDate(x)
  BY <1>1, <1>5 DEF UpToDate, Working
<1> QED
  BY <1>4, <1>6, SequentialSession

\* The owner a commit leaves on the row.
LEMMA OwnerAfter ==
  ASSUME SequentialInv, NEW s \in Sessions, Commit(s), NEW t, t = tx[s], NEW e, e = t.episode
  PROVE  /\ t.op = "open" => episode'[e].owner = None
         /\ t.op = "assign" => episode'[e].owner = t.owner
         /\ t.op \notin {"open", "assign"} => episode'[e].owner = episode[e].owner
<1>1. /\ Working(t) /\ Validated(t) /\ Permitted(t) /\ UpToDate(t)
      /\ e \in Episodes
      /\ t.op # "open" => e \in Opened
  BY Committing DEF Commit, SequentialInv, Working
<1>2. episode'[e] = RowAfter(t)
  BY CommitTables DEF SequentialInv, EvidenceInv
<1>3. PICK row : row = RowAfter(t)
  OBVIOUS
<1>4. CASE t.op = "open"
  BY <1>2, <1>4 DEF RowAfter
<1>5. CASE t.op # "open"
  <2>1. PICK old : old = episode[e]
    OBVIOUS
  <2>2. old \in EpisodeRows
    BY <1>1, <1>5, <2>1, OpenedType DEF SequentialInv, EvidenceInv
  <2>3. PICK st, ow, cl : /\ st = IF StateWritten(t) THEN t.to ELSE old.state
                          /\ ow = IF OwnerWritten(t) THEN t.owner ELSE old.owner
                          /\ cl = (old.closed \/ (StateWritten(t) /\ t.to = "closed"))
    OBVIOUS
  <2>4. row = [old EXCEPT !.state = st, !.owner = ow, !.closed = cl]
    BY <1>3, <1>5, <2>1, <2>3 DEF RowAfter
  <2>5. row.owner = ow
    BY <2>2, <2>4, SMT DEF EpisodeRows
  <2>6. t.holder = old.owner
    BY <1>1, <1>5, <2>1 DEF UpToDate
  <2>7. t.op # "assign" => t.owner = t.holder
    BY <1>1, <1>5 DEF Permitted
  <2> QED
    BY <1>2, <1>3, <1>5, <2>1, <2>3, <2>5, <2>6, <2>7 DEF OwnerWritten
<1> QED
  BY <1>4, <1>5

LEMMA CommitSequential ==
  ASSUME OneSession, SequentialInv, EvidenceInv', NEW s \in Sessions, Commit(s)
  PROVE  SequentialInv'
<1> PICK t : t = tx[s]
  OBVIOUS
<1> PICK e : e = t.episode
  OBVIOUS
<1>1. /\ t.op = "open" => e \notin Opened
      /\ t.op # "open" => e \in Opened
      /\ e \in Episodes
      /\ \A v \in NewEvents(t) : DraftOf(t, v)
  BY Committing DEF SequentialInv
<1>2. /\ Opened' = Opened \cup {e}
      /\ \A f \in Episodes \ {e} : episode'[f] = episode[f]
      /\ EventsOf(e)' = EventsOf(e) \cup NewEvents(t)
      /\ \A f \in Episodes \ {e} : EventsOf(f)' = EventsOf(f)
      /\ tx'[s] = NoTx
  BY CommitTables DEF SequentialInv, EvidenceInv
<1>3. /\ t.op = "open" => episode'[e].owner = None
      /\ t.op = "assign" => episode'[e].owner = t.owner
      /\ t.op \notin {"open", "assign"} => episode'[e].owner = episode[e].owner
  BY OwnerAfter
<1>4. \A f \in Episodes \ {e} : OwnerEventsOf(f)' = OwnerEventsOf(f)
  BY <1>2 DEF OwnerEventsOf
<1>5. OwnerEventsOf(e)' = OwnerEventsOf(e) \cup {v \in NewEvents(t) : v.type = "ownership_changed"}
  BY <1>2 DEF OwnerEventsOf
<1>6. t.op # "assign" => OwnerEventsOf(e)' = OwnerEventsOf(e)
  BY <1>1, <1>5 DEF DraftOf
<1>7. IF OwnerEventsOf(e)' = {}
      THEN episode'[e].owner = None
      ELSE \E v \in OwnerEventsOf(e)' :
             (\A w \in OwnerEventsOf(e)' : w.seq <= v.seq) /\ episode'[e].owner = v.owner
  <2>1. CASE t.op = "open"
    <3>1. OwnerEventsOf(e) = {}
      BY <1>1, <2>1 DEF SequentialInv, EvidenceInv, IInv, EventsOfOpened, EventsOf, OwnerEventsOf
    <3> QED
      BY <1>3, <1>6, <2>1, <3>1
  <2>2. CASE t.op = "assign"
    <3>1. PICK a \in EventRows : /\ a \in NewEvents(t)
                                 /\ DraftOf(t, a)
                                 /\ \A v \in EventsOf(e) : v.seq < a.seq
                                 /\ NewEvents(t) = {a}
      BY <2>2, CommittedRows DEF SequentialInv
    <3>2. OwnerEventsOf(e)' = OwnerEventsOf(e) \cup {a} /\ a.owner = t.owner
      BY <1>5, <2>2, <3>1 DEF DraftOf
    <3>3. \A w \in OwnerEventsOf(e)' : w.seq <= a.seq
      <4>1. a.seq \in Nat /\ \A v \in EventsOf(e) : v.seq \in Nat
        BY DEF EventRows, EventsOf, SequentialInv, EvidenceInv, IInv, TypeOK
      <4> QED
        BY <3>1, <3>2, <4>1 DEF OwnerEventsOf
    <3> QED
      BY <1>3, <2>2, <3>2, <3>3
  <2>3. CASE t.op \notin {"open", "assign"}
    <3>1. IF OwnerEventsOf(e) = {}
          THEN episode[e].owner = None
          ELSE \E v \in OwnerEventsOf(e) :
                 (\A w \in OwnerEventsOf(e) : w.seq <= v.seq) /\ episode[e].owner = v.owner
      BY <1>1, <2>3 DEF SequentialInv, OwnerIsProjection, IsLatest
    <3> QED
      BY <1>3, <1>6, <2>3, <3>1
  <2> QED
    BY <2>1, <2>2, <2>3
<1>8. OwnerIsProjection'
  <2>1. \A f \in Opened \ {e} :
          IF OwnerEventsOf(f)' = {}
          THEN episode'[f].owner = None
          ELSE \E v \in OwnerEventsOf(f)' :
                 (\A w \in OwnerEventsOf(f)' : w.seq <= v.seq) /\ episode'[f].owner = v.owner
    BY <1>2, <1>4 DEF SequentialInv, OwnerIsProjection, IsLatest, Opened
  <2> QED
    BY <1>2, <1>7, <2>1 DEF OwnerIsProjection, IsLatest
<1>9. \A r \in Sessions : UpToDate(tx[r])'
  BY <1>2 DEF OneSession, UpToDate, Working, NoTx
<1> QED
  BY <1>8, <1>9 DEF SequentialInv

LEMMA SequentialNext ==
  ASSUME OneSession, SequentialInv, [Next]_vars
  PROVE  SequentialInv'
<1>1. EvidenceInv'
  BY EvidenceNext DEF SequentialInv
<1>2. CASE UNCHANGED vars
  <2>1. UNCHANGED <<episode, candidate, events, tx>>
    BY <1>2 DEF vars
  <2>2. Opened' = Opened /\ \A e : OwnerEventsOf(e)' = OwnerEventsOf(e)
    BY <2>1 DEF Opened, OwnerEventsOf, EventsOf
  <2>3. \A r \in Sessions : UpToDate(tx[r])'
    BY <2>1 DEF SequentialInv, UpToDate
  <2> QED
    BY <1>1, <2>1, <2>2, <2>3 DEF SequentialInv, OwnerIsProjection, IsLatest
<1>3. ASSUME NEW s \in Sessions, Command(s)
      PROVE  SequentialInv'
  <2>1. PICK t : Begins(s, t)
    BY <1>3, CommandBegins
  <2>2. UpToDate(t)
    BY <2>1, IdleUpToDate DEF Begins, UpToDate, Loads, Picks
  <2> QED
    BY <1>1, <2>1, <2>2, SequentialSession DEF Begins, Begin
<1>4. ASSUME NEW s \in Sessions, Answer(s) \/ Rollback(s)
      PROVE  SequentialInv'
  <2>1. UpToDate(NoTx)
    BY IdleUpToDate DEF NoTx
  <2> QED
    BY <1>1, <1>4, <2>1, SequentialSession DEF Answer, Rollback
<1> QED
  BY <1>1, <1>2, <1>3, <1>4, FindActiveSequential, FlushSequential, CommitSequential DEF Next

LEMMA SequentialInit == Init => SequentialInv
<1> SUFFICES ASSUME Init PROVE SequentialInv
  OBVIOUS
<1>1. Opened = {}
  BY DEF Init, Opened
<1>2. UpToDate(NoTx)
  BY IdleUpToDate DEF NoTx
<1> QED
  BY <1>1, <1>2, EvidenceInit DEF SequentialInv, OwnerIsProjection, Init

\* With one session at a time the owner on the row is the one the latest
\* ownership event names, an assignment that changes nothing included.
THEOREM OwnerAlwaysProjected ==
  ASSUME OneSession
  PROVE  Spec => []OwnerIsProjection
<1>1. SequentialInv /\ [Next]_vars => SequentialInv'
  BY SequentialNext
<1>2. SequentialInv => OwnerIsProjection
  BY DEF SequentialInv
<1> QED
  BY <1>1, <1>2, SequentialInit, PTL DEF Spec
------------------------------------------------------------------------------
(* The lifecycle, one session at a time *)

\* A commit is one step of the lifecycle, or changes nothing it sees.
LEMMA CommitRefines ==
  ASSUME SequentialInv, HistoryInv, NEW s \in Sessions, Commit(s)
  PROVE  [Abstract!Next]_(Abstract!vars)
<1> PICK t : t = tx[s]
  OBVIOUS
<1> PICK e : e = t.episode
  OBVIOUS
<1>0. t = tx[s] /\ e = t.episode
  OBVIOUS
<1>1. /\ Validated(t) /\ Permitted(t) /\ e \in Episodes
      /\ t.op = "open" => e \notin Opened
      /\ t.op # "open" => e \in Opened
  BY Committing DEF SequentialInv
<1>2. t.op # "open" => t.state = episode[e].state
  BY DEF SequentialInv, UpToDate, Commit, Working
<1>3. /\ t.op = "open" => StateWritten(t) /\ t.to = "open"
      /\ t.to \in SupportedStates
  BY StateAfter
<1>4. PICK SH, OH, LN : /\ SH = [f \in Episodes |-> StateHistory(f)]
                        /\ OH = [f \in Episodes |-> OwnerHistory(f)]
                        /\ LN = {<<f, episode[f].line>> : f \in Opened}
  OBVIOUS
<1>5. /\ [f \in Episodes |-> StateHistory(f)]' =
           IF StateWritten(t) THEN [SH EXCEPT ![e] = Append(@, t.to)] ELSE SH
      /\ [f \in Episodes |-> OwnerHistory(f)]' =
           IF t.op = "assign" THEN [OH EXCEPT ![e] = Append(@, t.owner)] ELSE OH
      /\ {<<f, episode[f].line>> : f \in Opened}' =
           IF t.op = "open" THEN LN \cup {<<e, LineOf[t.candidate]>>} ELSE LN
  BY <1>4, AbstractChange
<1>6. /\ Abstract!Opened(e) <=> e \in Opened
      /\ e \in Opened => Abstract!Current(e) = episode[e].state
      /\ Abstract!Unfinished(e) <=> e \in Opened /\ episode[e].state # "closed"
  BY <1>1, AbstractState
<1>7. CASE t.op = "open"
  <2>1. PICK l \in Lines : l = LineOf[t.candidate]
    BY <1>1, <1>7, ServiceAssumption DEF Validated
  <2>2. \A f \in Opened : episode[f].line = l => ~ Abstract!Unfinished(f)
    <3>1. SUFFICES ASSUME NEW f \in Opened, episode[f].line = l
                   PROVE  ~ Abstract!Unfinished(f)
      OBVIOUS
    <3>2. episode[f].closed /\ f \in Episodes
      BY <1>7, <2>1, <3>1 DEF Commit, Accepted, EpisodeUnique, Opened
    <3>3. episode[f].state = "closed"
      BY <3>1, <3>2 DEF SequentialInv, EvidenceInv, IInv, ClosedRowsConsistent,
                        ClosedConsistent
    <3> QED
      BY <3>2, <3>3, AbstractState
  <2>3. \A opened \in LN : opened[2] = l => ~ Abstract!Unfinished(opened[1])
    BY <1>4, <2>2
  <2>4. Abstract!Open(e, l)
    BY <1>1, <1>3, <1>4, <1>5, <1>6, <1>7, <2>1, <2>3 DEF Abstract!Open, Abstract!Enter
  <2> QED
    BY <1>1, <2>1, <2>4 DEF Abstract!Next
<1>8. CASE t.op \in {"link", "action"}
  <2>1. ~ StateWritten(t)
    BY <1>1, <1>8 DEF Permitted, StateWritten
  <2> QED
    BY <1>4, <1>5, <1>8, <2>1 DEF Abstract!vars
<1>9. CASE t.op \in {"transition", "agreement"}
  <2>1. <<t.state, t.to>> \in StateTransitions
    BY <1>1, <1>9 DEF Permitted
  <2>2. StateWritten(t)
    BY <2>1, MatrixMoves DEF StateWritten
  <2>3. Abstract!Enter(e, t.to)
    BY <1>4, <1>5, <2>2 DEF Abstract!Enter
  <2>4. /\ [f \in Episodes |-> OwnerHistory(f)]' = [f \in Episodes |-> OwnerHistory(f)]
        /\ {<<f, episode[f].line>> : f \in Opened}' = {<<f, episode[f].line>> : f \in Opened}
    BY <1>4, <1>5, <1>9
  <2>5. Abstract!Opened(e) /\ Abstract!Current(e) = t.state
    BY <1>1, <1>2, <1>6, <1>9
  <2>6. Abstract!Advance(e, t.to)
    BY <2>1, <2>3, <2>4, <2>5, SameStates DEF Abstract!Advance
  <2>7. Abstract!Next
    BY <1>1, <1>3, <2>6, SameStates DEF Abstract!Next
  <2> QED
    BY <2>7
<1>10. CASE t.op = "suppress"
  <2>1. t.state \in SuppressibleStates /\ t.to = "suppressed"
    BY <1>1, <1>10 DEF Permitted
  <2>2. StateWritten(t)
    BY <2>1, MatrixMoves DEF StateWritten
  <2>3. Abstract!Enter(e, t.to)
    BY <1>4, <1>5, <2>2 DEF Abstract!Enter
  <2>4. /\ [f \in Episodes |-> OwnerHistory(f)]' = [f \in Episodes |-> OwnerHistory(f)]
        /\ {<<f, episode[f].line>> : f \in Opened}' = {<<f, episode[f].line>> : f \in Opened}
    BY <1>4, <1>5, <1>10
  <2>5. Abstract!Opened(e) /\ Abstract!Current(e) = t.state
    BY <1>1, <1>2, <1>6, <1>10
  <2>6. Abstract!Suppress(e)
    BY <2>1, <2>3, <2>4, <2>5, SameStates DEF Abstract!Suppress
  <2>7. Abstract!Next
    BY <1>1, <2>6 DEF Abstract!Next
  <2> QED
    BY <2>7
<1>11. CASE t.op = "assign"
  <2>1. /\ t.state \in ActiveStates /\ t.owner \in Users
        /\ t.to = IF t.state = "open" THEN "assigned" ELSE t.state
    BY <1>1, <1>11 DEF Permitted
  <2>2. /\ StateWritten(t) <=> t.state = "open"
        /\ t.state # "closed"
    BY <2>1 DEF StateWritten, ActiveStates
  <2>3. /\ Abstract!Unfinished(e)
        /\ Abstract!Current(e) = t.state
    BY <1>1, <1>2, <1>6, <1>11, <2>2
  <2>4. /\ [f \in Episodes |-> OwnerHistory(f)]' =
             [[f \in Episodes |-> OwnerHistory(f)] EXCEPT ![e] = Append(@, t.owner)]
        /\ {<<f, episode[f].line>> : f \in Opened}' = {<<f, episode[f].line>> : f \in Opened}
    BY <1>4, <1>5, <1>11
  <2>5. t.state = "open" => Abstract!Assign(e, t.owner)
    <3> HAVE t.state = "open"
    <3>1. Abstract!Enter(e, "assigned")
      BY <1>4, <1>5, <2>1, <2>2 DEF Abstract!Enter
    <3> QED
      BY <2>3, <2>4, <3>1 DEF Abstract!Assign
  <2>6. t.state # "open" => Abstract!Assign(e, t.owner)
    <3> HAVE t.state # "open"
    <3>1. [f \in Episodes |-> StateHistory(f)]' = [f \in Episodes |-> StateHistory(f)]
      BY <1>4, <1>5, <2>2
    <3> QED
      BY <2>3, <2>4, <3>1 DEF Abstract!Assign
  <2>7. Abstract!Assign(e, t.owner)
    BY <2>5, <2>6
  <2>8. Abstract!Next
    BY <1>1, <2>1, <2>7 DEF Abstract!Next
  <2> QED
    BY <2>8
<1> QED
  BY <1>1, <1>7, <1>8, <1>9, <1>10, <1>11 DEF Validated, Operations

\* With one session at a time the service implements the lifecycle: a commit is
\* taken from the state the immutable history says the episode is in.
THEOREM LifecycleImplemented ==
  ASSUME OneSession
  PROVE  Spec => ImplementsLifecycle
<1>1. SequentialInv /\ [Next]_vars => SequentialInv'
  BY SequentialNext
<1>2. HistoryInv /\ [Next]_vars => HistoryInv'
  BY HistoryNext
<1>3. SequentialInv /\ HistoryInv /\ [Next]_vars => [Abstract!Next]_(Abstract!vars)
  <2> SUFFICES ASSUME SequentialInv, HistoryInv, [Next]_vars PROVE [Abstract!Next]_(Abstract!vars)
    OBVIOUS
  <2>1. CASE UNCHANGED <<episode, candidate, events>>
    <3>1. UNCHANGED Abstract!vars
      BY <2>1, TablesKept DEF Abstract!vars
    <3> QED
      BY <3>1
  <2> QED
    BY <2>1, CommitRefines, TablesWritten
<1> QED
  BY <1>1, <1>2, <1>3, SequentialInit, HistoryInit, InitialHistories, PTL DEF Spec, ImplementsLifecycle
------------------------------------------------------------------------------
(* Commands that overlap a closure *)

LEMMA NothingRecorded ==
  ASSUME IsFiniteSet(Sessions), NEW R, IsFiniteSet(R), NEW U \in SUBSET Sessions,
         Cardinality(R) + Cardinality(U) < Cardinality(Sessions),
         NEW Q \in SUBSET R, NEW V \in SUBSET U
  PROVE  IsFiniteSet(Q) /\ Cardinality(Q) + Cardinality(V) < Cardinality(Sessions)
<1>1. /\ IsFiniteSet(U)
      /\ IsFiniteSet(Q) /\ Cardinality(Q) <= Cardinality(R)
  BY FS_Subset
<1>2. IsFiniteSet(V) /\ Cardinality(V) <= Cardinality(U)
  BY <1>1, FS_Subset
<1>3. /\ Cardinality(Q) \in Nat /\ Cardinality(V) \in Nat /\ Cardinality(R) \in Nat
      /\ Cardinality(U) \in Nat /\ Cardinality(Sessions) \in Nat
  BY <1>1, <1>2, FS_CardinalityType
<1> QED
  BY <1>1, <1>2, <1>3

\* A session that was under way records one command and is under way no more.
LEMMA OneRecorded ==
  ASSUME IsFiniteSet(Sessions), NEW R, IsFiniteSet(R), NEW U \in SUBSET Sessions,
         Cardinality(R) + Cardinality(U) < Cardinality(Sessions),
         NEW s \in U, NEW k, NEW Q \in SUBSET (R \cup {k}), NEW V \in SUBSET (U \ {s})
  PROVE  IsFiniteSet(Q) /\ Cardinality(Q) + Cardinality(V) < Cardinality(Sessions)
<1>1. /\ IsFiniteSet(U)
      /\ IsFiniteSet(R \cup {k})
      /\ Cardinality(R \cup {k}) = IF k \in R THEN Cardinality(R) ELSE Cardinality(R) + 1
  BY FS_Subset, FS_AddElement
<1>2. /\ IsFiniteSet(U \ {s}) /\ Cardinality(U \ {s}) = Cardinality(U) - 1
  BY <1>1, FS_RemoveElement
<1>3. /\ IsFiniteSet(Q) /\ Cardinality(Q) <= Cardinality(R \cup {k})
      /\ IsFiniteSet(V) /\ Cardinality(V) <= Cardinality(U \ {s})
  BY <1>1, <1>2, FS_Subset
<1>4. /\ Cardinality(Q) \in Nat /\ Cardinality(V) \in Nat /\ Cardinality(R) \in Nat
      /\ Cardinality(U) \in Nat /\ Cardinality(Sessions) \in Nat
  BY <1>1, <1>3, FS_CardinalityType
<1> QED
  BY <1>1, <1>2, <1>3, <1>4

\* A session that moves on without touching the tables, and takes up no episode
\* that is closed.
LEMMA OverlapSession ==
  ASSUME IsFiniteSet(Sessions), OverlapInv, EvidenceInv', NEW s \in Sessions, NEW t,
         tx' = [tx EXCEPT ![s] = t],
         UNCHANGED <<episode, candidate, events>>,
         \/ ~ Working(t)
         \/ t.episode \notin Opened \/ ~ episode[t.episode].closed
         \/ Working(tx[s]) /\ t.episode = tx[s].episode
  PROVE  OverlapInv'
<1> SUFFICES ASSUME NEW e \in Opened, episode[e].closed
             PROVE  Overlaps(e)'
  BY DEF OverlapInv, Opened
<1>1. Overlaps(e)
  BY DEF OverlapInv
<1>2. RecordedAfterClosure(e)' = RecordedAfterClosure(e)
  BY DEF RecordedAfterClosure, EventsOf
<1>3. \A r \in Sessions : tx'[r] = IF r = s THEN t ELSE tx[r]
  BY DEF OverlapInv, EvidenceInv, IInv, TypeOK
<1>4. StillAt(e)' \subseteq StillAt(e)
  BY <1>3 DEF StillAt, Working
<1>5. StillAt(e) \in SUBSET Sessions
  BY DEF StillAt
<1> QED
  BY <1>1, <1>2, <1>4, <1>5, NothingRecorded DEF Overlaps

LEMMA CommandOverlap ==
  ASSUME IsFiniteSet(Sessions), OverlapInv, EvidenceInv', NEW s \in Sessions, Command(s)
  PROVE  OverlapInv'
<1>1. PICK t : Begins(s, t)
  BY CommandBegins
<1>2. ASSUME Loads(t)
      PROVE  ~ episode[t.episode].closed
  <2>1. t.state # "closed"
    BY <1>2 DEF Loads, Permitted, StateTransitions, ActiveStates, SuppressibleStates
  <2> QED
    BY <1>2, <2>1
    DEF Loads, OverlapInv, EvidenceInv, IInv, ClosedRowsConsistent, ClosedConsistent
<1>3. ~ Working(t) \/ ~ episode[t.episode].closed
  BY <1>1, <1>2 DEF Begins, Picks, Working
<1> QED
  BY <1>1, <1>3, OverlapSession DEF Begins, Begin

LEMMA FindActiveOverlap ==
  ASSUME IsFiniteSet(Sessions), OverlapInv, EvidenceInv', NEW s \in Sessions,
         FindActiveEpisode(s)
  PROVE  OverlapInv'
<1> PICK c : c = tx[s]
  OBVIOUS
<1>1. c = tx[s] /\ c \in Transactions
  BY DEF OverlapInv, EvidenceInv, IInv, TypeOK
<1>2. PICK t : /\ tx' = [tx EXCEPT ![s] = t]
               /\ \/ \E e \in ActiveOn(LineOf[c.candidate]) :
                       t = [Load("link", e, c.key[1]) EXCEPT !.candidate = c.candidate]
                  \/ \E e \in Episodes \ Opened :
                       t = [c EXCEPT !.phase = "read", !.episode = e, !.to = "open"]
  BY <1>1 DEF FindActiveEpisode
<1>3. ASSUME NEW e \in ActiveOn(LineOf[c.candidate]),
             t = [Load("link", e, c.key[1]) EXCEPT !.candidate = c.candidate]
      PROVE  ~ episode[t.episode].closed
  <2>1. t.episode = e
    BY <1>3, Loaded
  <2> QED
    BY <2>1 DEF ActiveOn
<1>4. ASSUME NEW e \in Episodes \ Opened,
             t = [c EXCEPT !.phase = "read", !.episode = e, !.to = "open"]
      PROVE  t.episode \notin Opened
  <2>1. t.episode = e
    BY <1>1, <1>4, SMT DEF Transactions
  <2> QED
    BY <2>1
<1> QED
  BY <1>2, <1>3, <1>4, OverlapSession DEF FindActiveEpisode

LEMMA FlushOverlap ==
  ASSUME IsFiniteSet(Sessions), OverlapInv, EvidenceInv', NEW s \in Sessions, Flush(s)
  PROVE  OverlapInv'
<1>1. tx[s] \in Transactions /\ Working(tx[s])
  BY DEF Flush, Working, OverlapInv, EvidenceInv, IInv, TypeOK
<1>2. PICK d, n, m : tx' = [tx EXCEPT ![s] = [tx[s] EXCEPT !.phase = "flushed", !.drafts = d,
                                                           !.seq = n, !.number = m]]
  BY DEF Flush
<1>3. PICK t : t = [tx[s] EXCEPT !.phase = "flushed", !.drafts = d, !.seq = n, !.number = m]
  OBVIOUS
<1>4. t.episode = tx[s].episode
  BY <1>1, <1>3, SMT DEF Transactions
<1> QED
  BY <1>1, <1>2, <1>3, <1>4, OverlapSession DEF Flush

\* The closing commit leaves the other sessions at most; a later one is of a
\* session that was under way.
LEMMA CommitOverlap ==
  ASSUME IsFiniteSet(Sessions), OverlapInv, EvidenceInv', NEW s \in Sessions, Commit(s)
  PROVE  OverlapInv'
<1> SUFFICES ASSUME NEW e \in Opened', episode'[e].closed
             PROVE  Overlaps(e)'
  BY DEF OverlapInv
<1>1. PICK t : t = tx[s]
  OBVIOUS
<1>2. PICK f : f = t.episode
  OBVIOUS
<1>3. /\ Opened' = Opened \cup {f}
      /\ episode'[f] = RowAfter(t)
      /\ \A g \in Episodes \ {f} : episode'[g] = episode[g]
      /\ EventsOf(f)' = EventsOf(f) \cup NewEvents(t)
      /\ \A g \in Episodes \ {f} : EventsOf(g)' = EventsOf(g)
      /\ tx'[s] = NoTx
      /\ \A r \in Sessions \ {s} : tx'[r] = tx[r]
  BY <1>1, <1>2, CommitTables DEF OverlapInv, EvidenceInv
<1>4. /\ t.op = "open" => f \notin Opened
      /\ Permitted(t) /\ t \in Transactions /\ f \in Episodes /\ Validated(t)
      /\ \A v \in NewEvents(t) : v.key[1] = t.key[1]
  BY <1>1, <1>2, Committing DEF OverlapInv, DraftOf
<1>5. PICK a \in EventRows :
        /\ a \in NewEvents(t)
        /\ a.to = (IF StateWritten(t) THEN t.to ELSE None)
        /\ \A v \in EventsOf(f) : v.seq < a.seq
        /\ \A v \in NewEvents(t) \ {a} : v.to = None
        /\ t.op # "agreement" => NewEvents(t) = {a}
  BY <1>1, <1>2, CommittedRows DEF OverlapInv
<1>0. None # "closed"
  BY ServiceAssumption DEF SupportedStates, ActiveStates, TerminalStates
<1>6. NoTx.phase = "idle" /\ Working(t)
  BY <1>1 DEF NoTx, Working, Commit
<1>7. /\ StillAt(e)' \subseteq StillAt(e) \ {s}
      /\ StillAt(e) \in SUBSET Sessions
      /\ StillAt(e)' \in SUBSET (Sessions \ {s})
  BY <1>3, <1>6 DEF StillAt, Working
<1>8. CASE e # f
  <2>1. e \in Opened /\ episode[e].closed
    BY <1>3, <1>8 DEF Opened
  <2>2. RecordedAfterClosure(e)' = RecordedAfterClosure(e)
    BY <1>3, <1>8, <2>1 DEF RecordedAfterClosure, Opened
  <2> QED
    BY <1>7, <2>1, <2>2, NothingRecorded DEF OverlapInv, Overlaps
<1>9. CASE e = f /\ e \in Opened /\ episode[e].closed
  <2>1. s \in StillAt(e)
    BY <1>1, <1>2, <1>6, <1>9 DEF StillAt
  <2>2. \E c \in EventsOf(e) : c.to = "closed"
    BY <1>9 DEF OverlapInv, EvidenceInv, IInv, StateIsProjection
  <2>3. RecordedAfterClosure(e)' \subseteq RecordedAfterClosure(e) \cup {t.key[1]}
    <3> SUFFICES ASSUME NEW v \in EventsOf(e) \cup NewEvents(t),
                        NEW c \in EventsOf(e) \cup NewEvents(t),
                        c.to = "closed", c.seq < v.seq
                 PROVE  v.key[1] \in RecordedAfterClosure(e) \cup {t.key[1]}
      BY <1>3, <1>9 DEF RecordedAfterClosure
    <3>1. CASE v \in NewEvents(t)
      BY <1>4, <3>1
    <3>2. CASE v \in EventsOf(e) /\ c \in EventsOf(e)
      BY <3>2 DEF RecordedAfterClosure
    <3>3. CASE v \in EventsOf(e) /\ c \in NewEvents(t)
      <4>1. c = a
        BY <1>0, <1>5, <3>3
      <4>2. v.seq < a.seq /\ v.seq \in Nat /\ a.seq \in Nat
        BY <1>5, <1>9, <3>3 DEF OverlapInv, EvidenceInv, IInv, TypeOK, EventsOf, EventRows
      <4> QED
        BY <4>1, <4>2
    <3> QED
      BY <3>1, <3>2, <3>3
  <2>4. IsFiniteSet(RecordedAfterClosure(e)) /\ Overlaps(e)
    BY <1>9 DEF OverlapInv, Overlaps
  <2>5. PICK R, U, Q, V :
          /\ R = RecordedAfterClosure(e) /\ Q = RecordedAfterClosure(e)'
          /\ U = StillAt(e) /\ V = StillAt(e)'
    OBVIOUS
  <2>6. PICK k : k = t.key[1]
    OBVIOUS
  <2>7. /\ IsFiniteSet(R) /\ Cardinality(R) + Cardinality(U) < Cardinality(Sessions)
        /\ U \in SUBSET Sessions /\ s \in U
        /\ Q \in SUBSET (R \cup {k}) /\ V \in SUBSET (U \ {s})
    BY <1>7, <2>1, <2>3, <2>4, <2>5, <2>6 DEF Overlaps
  <2>8. IsFiniteSet(Q) /\ Cardinality(Q) + Cardinality(V) < Cardinality(Sessions)
    BY <2>7, OneRecorded
  <2> QED
    BY <2>5, <2>8 DEF Overlaps
<1>10. CASE e = f /\ ~ (e \in Opened /\ episode[e].closed)
  <2>1. \A v \in EventsOf(e) : v.to # "closed"
    <3>1. CASE e \in Opened
      BY <1>10, <3>1 DEF OverlapInv, EvidenceInv, IInv, StateIsProjection
    <3>2. CASE e \notin Opened
      BY <3>2 DEF OverlapInv, EvidenceInv, IInv, EventsOfOpened, EventsOf
    <3> QED
      BY <3>1, <3>2
  <2>2. ASSUME NEW v \in EventsOf(e) \cup NewEvents(t), NEW c \in EventsOf(e) \cup NewEvents(t),
               c.to = "closed"
        PROVE  ~ (c.seq < v.seq)
    <3>1. c = a /\ a.to = "closed"
      BY <1>0, <1>5, <2>1, <2>2
    <3>2. t.op # "agreement"
      BY <1>0, <1>4, <1>5, <3>1 DEF Permitted, StateWritten
    <3>3. v = a \/ v \in EventsOf(e)
      BY <1>5, <3>2
    <3>4. a.seq \in Nat /\ (v \in EventsOf(e) => v.seq \in Nat /\ v.seq < a.seq)
      BY <1>5, <1>10 DEF OverlapInv, EvidenceInv, IInv, TypeOK, EventsOf, EventRows
    <3> QED
      BY <3>1, <3>3, <3>4
  <2>3. RecordedAfterClosure(e)' = {}
    BY <1>3, <1>10, <2>2 DEF RecordedAfterClosure
  <2>4. /\ IsFiniteSet(Sessions \ {s})
        /\ Cardinality(Sessions \ {s}) = Cardinality(Sessions) - 1
        /\ Cardinality(Sessions) \in Nat
    BY FS_RemoveElement, FS_CardinalityType
  <2>5. IsFiniteSet(StillAt(e)') /\ Cardinality(StillAt(e)') <= Cardinality(Sessions) - 1
    BY <1>7, <2>4, FS_Subset
  <2>6. Cardinality(StillAt(e)') \in Nat
    BY <2>5, FS_CardinalityType
  <2> QED
    BY <2>3, <2>4, <2>5, <2>6, FS_EmptySet DEF Overlaps
<1> QED
  BY <1>3, <1>8, <1>9, <1>10

LEMMA OverlapNext ==
  ASSUME IsFiniteSet(Sessions), OverlapInv, [Next]_vars
  PROVE  OverlapInv'
<1>1. EvidenceInv'
  BY EvidenceNext DEF OverlapInv
<1>2. CASE UNCHANGED vars
  <2>1. /\ UNCHANGED <<episode, candidate, events, tx>>
        /\ Opened' = Opened /\ \A e : RecordedAfterClosure(e)' = RecordedAfterClosure(e)
        /\ \A e : StillAt(e)' = StillAt(e)
    BY <1>2 DEF vars, Opened, RecordedAfterClosure, EventsOf, StillAt, Working
  <2> QED
    BY <1>1, <2>1 DEF OverlapInv, Overlaps
<1>3. ASSUME NEW s \in Sessions, Answer(s) \/ Rollback(s)
      PROVE  OverlapInv'
  <2>1. ~ Working(NoTx)
    BY DEF NoTx, Working
  <2> QED
    BY <1>1, <1>3, <2>1, OverlapSession DEF Answer, Rollback
<1> QED
  BY <1>1, <1>2, <1>3, CommandOverlap, FindActiveOverlap, FlushOverlap, CommitOverlap DEF Next

\* With finitely many sessions, a closed episode gets at most one more command
\* from each session but the one that closed it: those that had loaded it before.
THEOREM OverlapsOnly ==
  ASSUME IsFiniteSet(Sessions)
  PROVE  Spec => []OnlyOverlapsFollowClosure
<1>1. Init => OverlapInv
  <2>1. Init => Opened = {}
    BY DEF Init, Opened
  <2> QED
    BY <2>1, EvidenceInit DEF OverlapInv
<1>2. OverlapInv /\ [Next]_vars => OverlapInv'
  BY OverlapNext
<1>3. OverlapInv => OnlyOverlapsFollowClosure
  <2> SUFFICES ASSUME OverlapInv, NEW e \in Opened, episode[e].closed
               PROVE  Cardinality(RecordedAfterClosure(e)) < Cardinality(Sessions)
    BY DEF OnlyOverlapsFollowClosure
  <2>1. StillAt(e) \in SUBSET Sessions
    BY DEF StillAt
  <2>2. IsFiniteSet(StillAt(e)) /\ Overlaps(e)
    BY <2>1, FS_Subset DEF OverlapInv
  <2>3. /\ Cardinality(StillAt(e)) \in Nat
        /\ Cardinality(RecordedAfterClosure(e)) \in Nat
        /\ Cardinality(Sessions) \in Nat
    BY <2>2, FS_CardinalityType DEF Overlaps
  <2> QED
    BY <2>2, <2>3 DEF Overlaps
<1> QED
  BY <1>1, <1>2, <1>3, PTL DEF Spec
==============================================================================
