------------------------------- MODULE UiProofs -------------------------------
(***************************************************************************)
(* Safety of the pages for every set of browser sessions, candidates,      *)
(* episodes, users and keys, and for every order of the lists: the pages   *)
(* only take steps of the workflow service, and what they show, submit and *)
(* report stays true of the tables.                                        *)
(***************************************************************************)
EXTENDS UiInvariant, WorkflowProofs, WellFoundedInduction, FiniteSetTheorems

(* Lists *)

\* A least element, by way of the intervals that end in the numbers.
LEMMA LeastNumber ==
  ASSUME NEW S, S \subseteq Nat, S # {}
  PROVE  \E n \in S : \A m \in S : n <= m
<1> DEFINE T == {0 .. n : n \in S}
           R == StrictSubsetOrdering(Nat)
           F == FiniteSubsetsOf(Nat)
<1>1. T \subseteq F
  <2> SUFFICES ASSUME NEW n \in S
               PROVE  0 .. n \in SUBSET Nat /\ IsFiniteSet(0 .. n)
    BY DEF FiniteSubsetsOf
  <2>1. 0 \in Int /\ n \in Int
    OBVIOUS
  <2> QED
    BY <2>1, FS_Interval
<1>2. T # {}
  OBVIOUS
<1>3. IsWellFoundedOn(R, F)
  BY FS_StrictSubsetOrderingWellFounded
<1>4. PICK x \in T : \A y \in T : ~ (<<y, x>> \in R)
  <2> HIDE DEF T, R, F
  <2> QED
    BY <1>1, <1>2, <1>3, WFMin
<1>5. PICK n \in S : x = 0 .. n
  BY <1>4
<1>6. ASSUME NEW m \in S, m < n
      PROVE  FALSE
  <2>1. 0 .. m \in T /\ 0 .. m \subseteq 0 .. n /\ 0 .. m # 0 .. n
    BY <1>6
  <2>2. 0 .. m \subseteq Nat /\ 0 .. n \subseteq Nat
    BY <1>6
  <2> QED
    BY <1>4, <1>5, <2>1, <2>2 DEF StrictSubsetOrdering
<1> QED
  BY <1>6

Views == {"tower", "detail"}

\* What the options of a page's selectbox can be.
Labelled(view, labels) ==
  IF view = "tower" THEN labels \subseteq Candidates
  ELSE labels \subseteq Episodes \X SupportedStates

\* A list that is not empty starts with one of its entries.
LEMMA FirstListed ==
  ASSUME NEW view \in Views, NEW labels, Labelled(view, labels), labels # {}
  PROVE  /\ First(view, labels) \in Listed(view, labels)
         /\ view = "tower" => First(view, labels) \in Candidates
         /\ view = "detail" => First(view, labels) \in Episodes
<1> DEFINE L == Listed(view, labels)
<1>1. /\ view = "tower" => L \subseteq Candidates
      /\ view = "detail" => L \subseteq Episodes
  BY DEF Listed, Labelled, Views
<1>2. L # {}
  BY DEF Listed
<1>3. L \subseteq Candidates \cup Episodes
  BY <1>1 DEF Views
<1> HIDE DEF L
<1>4. \E x \in L : \A y \in L : Rank[x] <= Rank[y]
  <2> DEFINE S == {Rank[x] : x \in L}
  <2>1. S \subseteq Nat /\ S # {}
    BY <1>2, <1>3, InterfaceAssumption
  <2>2. PICK n \in S : \A m \in S : n <= m
    <3> HIDE DEF S
    <3> QED
      BY <2>1, LeastNumber
  <2>3. PICK x \in L : n = Rank[x]
    BY <2>2
  <2> QED
    BY <2>2, <2>3
<1>5. First(view, labels) \in L
  BY <1>4 DEF First, L
<1> QED
  BY <1>1, <1>5 DEF L

LEMMA OptionsLabelled ==
  ASSUME UInv, NEW view \in Views
  PROVE  Labelled(view, Options(view))
<1>1. CASE view = "tower"
  BY <1>1 DEF Labelled, Options
<1>2. CASE view = "detail"
  <2>1. \A e \in Opened : e \in Episodes /\ episode[e].state \in SupportedStates
    BY OpenedType DEF UInv, EpisodeRows
  <2> QED
    BY <1>2, <2>1 DEF Labelled, Options
<1> QED
  BY <1>1, <1>2 DEF Views
------------------------------------------------------------------------------
(* Rendering *)

\* A page a run renders is well formed and shows what the run has read.
LEMMA Rendering ==
  ASSUME UInv, NEW b \in Sessions, NEW view \in Views, NEW wanted,
         view = browser[b].view =>
           wanted \in Listed(view, browser[b].labels) \cup {browser[b].target},
         NEW form \in Forms,
         NEW page, page = RenderPage(b, view, wanted, form)
  PROVE  /\ page \in Pages
         /\ PageInv(page)
         /\ page.view = view
         /\ page.labels = Options(view)
         /\ page.form \in Forms
         /\ page.target = (IF view = browser[b].view /\ Options(view) = browser[b].labels
                           THEN wanted
                           ELSE Default(view, Options(view), browser[b].selected))
<1> DEFINE old == browser[b]
           labels == Options(view)
           same == view = old.view /\ labels = old.labels
           target == IF same THEN wanted ELSE Default(view, labels, old.selected)
<1>1. old \in Pages /\ PageInv(old)
  BY DEF UInv, UiTypeOK
<1>2. Labelled(view, labels)
  BY OptionsLabelled
<1>3. /\ old.selected \in Episodes \cup {None} /\ old.target \in Names
      /\ flag[b] \in BOOLEAN /\ view \in {"tower", "detail"}
  BY <1>1 DEF Pages, UInv, UiTypeOK, Views
<1> HIDE DEF labels
<1>4. CASE view = "tower"
  <2>1. labels \subseteq Candidates
    BY <1>2, <1>4 DEF Labelled
  <2>2. target \in Names /\ (labels # {} => target \in labels)
    <3>1. CASE same
      BY <1>1, <1>3, <1>4, <2>1, <3>1 DEF Listed, PageInv, Names
    <3>2. CASE ~ same
      <4>1. target = First(view, labels)
        BY <1>4, <3>2 DEF Default
      <4> HIDE DEF target
      <4>2. CASE labels = {}
        BY <4>1, <4>2 DEF First, Names
      <4>3. CASE labels # {}
        <5>1. First(view, labels) \in labels
          BY <1>2, <1>4, <4>3, FirstListed DEF Listed
        <5> QED
          BY <2>1, <4>1, <5>1 DEF Names
      <4> QED
        BY <4>2, <4>3
    <3> QED
      BY <3>1, <3>2
  <2> HIDE DEF target
  <2>3. page = [NoPage EXCEPT !.view = view, !.labels = labels, !.target = target,
                              !.selected = old.selected, !.locked = flag[b]]
    BY <1>4 DEF RenderPage, target, labels
  <2>4. page = [view |-> view, labels |-> labels, target |-> target,
                selected |-> old.selected, state |-> None, owner |-> None,
                agreed |-> FALSE, form |-> "complete", locked |-> flag[b]]
    BY <2>3 DEF NoPage
  <2>5. page \in Pages
    BY <1>3, <2>1, <2>2, <2>4 DEF Pages, Forms
  <2> QED
    BY <1>4, <2>1, <2>2, <2>4, <2>5 DEF PageInv, Pages, target, labels
<1>5. CASE view = "detail"
  <2>1. labels \subseteq Episodes \X SupportedStates
    BY <1>2, <1>5 DEF Labelled
  <2>2. target \in Episodes \cup {None} /\ (target = None => old.selected = None)
    <3>1. CASE same
      <4>1. old.target = old.selected
        BY <1>1, <1>5, <3>1 DEF PageInv
      <4>2. Listed(view, labels) \subseteq Episodes
        BY <1>5, <2>1 DEF Listed
      <4> QED
        BY <1>3, <3>1, <4>1, <4>2, ServiceAssumption
    <3>2. CASE ~ same /\ old.selected # None
      BY <1>3, <1>5, <3>2 DEF Default
    <3>3. CASE ~ same /\ old.selected = None
      <4>1. target = First(view, labels)
        BY <1>5, <3>3 DEF Default
      <4> HIDE DEF target
      <4>2. CASE labels = {}
        BY <3>3, <4>1, <4>2 DEF First
      <4>3. CASE labels # {}
        <5>1. First(view, labels) \in Episodes
          BY <1>2, <1>5, <4>3, FirstListed
        <5> QED
          BY <3>3, <4>1, <5>1
      <4> QED
        BY <4>2, <4>3
    <3> QED
      BY <3>1, <3>2, <3>3
  <2> HIDE DEF target
  <2>0. PICK base : base = [NoPage EXCEPT !.view = view, !.labels = labels,
                              !.target = target, !.selected = old.selected,
                              !.locked = flag[b]]
    OBVIOUS
  <2>3. base = [view |-> view, labels |-> labels, target |-> target,
                selected |-> old.selected, state |-> None, owner |-> None,
                agreed |-> FALSE, form |-> "complete", locked |-> flag[b]]
    BY <2>0 DEF NoPage
  <2>4. page = IF target = None THEN base
               ELSE [base EXCEPT !.selected = target, !.state = episode[target].state,
                                 !.owner = episode[target].owner, !.form = form,
                                 !.agreed = HasActionAgreement(target)]
    BY <1>5, <2>0 DEF RenderPage, target, labels
  <2>5. CASE target = None
    <3>1. page \in Pages
      BY <1>3, <2>1, <2>2, <2>3, <2>4, <2>5 DEF Pages, Names, Forms
    <3> QED
      BY <1>5, <2>1, <2>2, <2>3, <2>4, <2>5, <3>1 DEF PageInv, Pages, target, labels
  <2>6. CASE target # None
    <3> DEFINE row == episode[target]
               agreed == HasActionAgreement(target)
    <3>1. row.state \in SupportedStates \cup {None} /\ row.owner \in Users \cup {None}
      <4>1. row \in EpisodeRows \cup {Absent}
        BY <2>2, <2>6 DEF UInv, IInv, TypeOK
      <4> QED
        BY <4>1 DEF EpisodeRows, Absent
    <3>2. agreed \in BOOLEAN
      BY DEF HasActionAgreement
    <3>3. page = [view |-> view, labels |-> labels, target |-> target,
                  selected |-> target, state |-> row.state, owner |-> row.owner,
                  agreed |-> agreed, form |-> form, locked |-> flag[b]]
      BY <2>3, <2>4, <2>6
    <3> HIDE DEF row, agreed
    <3>4. page \in Pages
      BY <1>3, <2>1, <2>2, <2>6, <3>1, <3>2, <3>3 DEF Pages, Names
    <3> QED
      BY <1>5, <2>1, <2>2, <3>3, <3>4 DEF PageInv, Pages, target, labels
  <2> QED
    BY <2>5, <2>6
<1> QED
  BY <1>4, <1>5 DEF Views
------------------------------------------------------------------------------
(* Steps of one browser session, seen by the others *)

\* What the service's steps keep: rows are added, and candidates get linked.
Grows ==
  /\ events \subseteq events'
  /\ Opened \subseteq Opened'
  /\ \A c \in Candidates : candidate'[c] = candidate[c] \/ candidate'[c].linked \in Opened'

LEMMA OpenedNotNone ==
  /\ \A e \in Opened : e \in Episodes /\ e # None
  /\ \A e \in Opened' : e \in Episodes /\ e # None
BY ServiceAssumption DEF Opened

\* Which page renders a button, and for what.
LEMMA RenderedButton ==
  ASSUME NEW page \in Pages, PageInv(page), NEW x \in Rendered(page)
  PROVE  /\ x \in Buttons
         /\ x = "open" => /\ page.view = "tower"
                          /\ page.target \in page.labels
                          /\ page.target \in Candidates
         /\ x # "open" => /\ page.view = "detail"
                          /\ page.target = page.selected
                          /\ page.target \in Episodes
                          /\ x \in GovernedActions(page.state, page.agreed)
<1>1. GovernedActions(page.state, page.agreed) \subseteq Buttons \ {"open"}
  BY DEF GovernedActions, AvailabilityForState, Buttons
<1>2. CASE page.view = "tower"
  BY <1>2 DEF Rendered, PageInv, Buttons
<1>3. CASE page.view = "detail"
  BY <1>1, <1>3 DEF Rendered, PageInv, Pages
<1> QED
  BY <1>2, <1>3 DEF Pages

LEMMA FiredTarget ==
  ASSUME UInv, NEW b \in Sessions, script[b].phase # "idle"
  PROVE  /\ script[b].button \in Buttons
         /\ script[b].button = "open" => script[b].target \in Candidates
         /\ script[b].button # "open" => script[b].target \in Episodes
<1>1. browser[b] \in Pages /\ PageInv(browser[b]) /\ Fired(b)
  BY DEF UInv, UiTypeOK, RunInv
<1> QED
  BY <1>1, RenderedButton DEF Fired

\* A session that takes no step keeps what it knows.
LEMMA OthersKeep ==
  ASSUME UInv, Grows, NEW r \in Sessions, browser'[r] = browser[r],
         flag'[r] = flag[r], script'[r] = script[r], tx'[r] = tx[r]
  PROVE  RunInv(r)'
<1>1. RunInv(r)
  BY DEF UInv
<1>2. script[r].phase # "idle" => Fired(r)'
  BY <1>1 DEF RunInv, Fired
<1>3. script[r].phase = "fired" => Shown(r)'
  <2> SUFFICES ASSUME script[r].phase = "fired" PROVE Shown(r)'
    OBVIOUS
  <2>1. script[r].button = "open" => OpenableOrLinked(script[r].target)'
    <3> SUFFICES ASSUME script[r].button = "open"
                 PROVE  OpenableOrLinked(script[r].target)'
      OBVIOUS
    <3>1. OpenableOrLinked(script[r].target) /\ script[r].target \in Candidates
      BY <1>1, FiredTarget DEF RunInv, Shown
    <3> QED
      BY <3>1, OpenedNotNone DEF Grows, OpenableOrLinked
  <2> QED
    BY <1>1, <2>1 DEF RunInv, Shown
<1>4. script[r].phase = "running" =>
        Carries(tx[r], script[r])' /\ DraftsCarry(tx[r], script[r])'
  <2> SUFFICES ASSUME script[r].phase = "running"
               PROVE  Carries(tx[r], script[r])' /\ DraftsCarry(tx[r], script[r])'
    OBVIOUS
  <2>1. Carries(tx[r], script[r]) /\ DraftsCarry(tx[r], script[r])
    BY <1>1 DEF RunInv
  <2>2. script[r].button = "open" /\ candidate[script[r].target].linked # None =>
          candidate'[script[r].target].linked # None
    BY FiredTarget, OpenedNotNone DEF Grows
  <2> QED
    BY <2>1, <2>2 DEF Carries, DraftsCarry
<1>5. script[r].phase = "succeeded" => Recorded(script[r])'
  <2> SUFFICES ASSUME script[r].phase = "succeeded" PROVE Recorded(script[r])'
    OBVIOUS
  <2>1. Recorded(script[r])
    BY <1>1 DEF RunInv
  <2>2. CASE script[r].button = "open"
    BY <2>1, <2>2, FiredTarget DEF Grows, Recorded
  <2>3. CASE script[r].button # "open"
    BY <2>1, <2>3 DEF Grows, Recorded, Keyed, EventsOf
  <2> QED
    BY <2>2, <2>3
<1> QED
  BY <1>1, <1>2, <1>3, <1>4, <1>5 DEF RunInv, Pending

\* One session moves on: what it shows and runs afterwards, p, f and q, fits.
LEMMA OneStep ==
  ASSUME UInv, [Next]_vars, Grows, LinksOpened', KeysFresh', NEW b \in Sessions,
         NEW p \in Pages, NEW f \in BOOLEAN, NEW q \in ScriptRuns,
         browser' = [browser EXCEPT ![b] = p],
         flag' = [flag EXCEPT ![b] = f],
         script' = [script EXCEPT ![b] = q],
         \A r \in Sessions \ {b} : tx'[r] = tx[r],
         q.phase = "running" <=> tx'[b] # NoTx,
         PageInv(p), RunInv(b)'
  PROVE  UInv'
<1>1. IInv'
  BY NextStep DEF UInv
<1>2. /\ browser' \in [Sessions -> Pages]
      /\ flag' \in [Sessions -> BOOLEAN]
      /\ script' \in [Sessions -> ScriptRuns]
      /\ browser'[b] = p /\ flag'[b] = f /\ script'[b] = q
      /\ \A r \in Sessions \ {b} : /\ browser'[r] = browser[r]
                                   /\ flag'[r] = flag[r]
                                   /\ script'[r] = script[r]
  BY DEF UInv, UiTypeOK
<1>3. UiTypeOK'
  BY <1>2 DEF UInv, UiTypeOK
<1>4. \A r \in Sessions : PageInv(browser'[r])
  BY <1>2 DEF UInv
<1>5. \A r \in Sessions : RunInv(r)'
  BY <1>2, OthersKeep
<1> QED
  BY <1>1, <1>3, <1>4, <1>5 DEF UInv

\* A step that leaves the tables and transactions alone.
LEMMA PageStep ==
  ASSUME UInv, UNCHANGED vars, NEW b \in Sessions,
         NEW p \in Pages, NEW f \in BOOLEAN, NEW q \in ScriptRuns,
         browser' = [browser EXCEPT ![b] = p],
         flag' = [flag EXCEPT ![b] = f],
         script' = [script EXCEPT ![b] = q],
         q.phase = "running" <=> tx[b] # NoTx,
         PageInv(p), RunInv(b)'
  PROVE  UInv'
<1>1. UNCHANGED <<episode, candidate, events, tx>>
  BY DEF vars
<1>2. Grows
  BY <1>1 DEF Grows, Opened
<1>3. LinksOpened' /\ KeysFresh'
  BY <1>1 DEF UInv, LinksOpened, KeysFresh, Opened
<1> QED
  BY <1>1, <1>2, <1>3, OneStep
------------------------------------------------------------------------------
(* The user and the page *)

LEMMA NoRunType ==
  NoRun \in ScriptRuns /\ NoRun.phase = "idle" /\ ~ NoRun.again /\ ~ NoRun.pending
BY DEF NoRun, ScriptRuns, Names, Forms

LEMMA NoPageType == NoPage \in Pages /\ PageInv(NoPage)
BY DEF NoPage, Pages, Names, PageInv, Forms

\* The session is without a run afterwards.
LEMMA RunEnds ==
  ASSUME UInv, UNCHANGED vars, NEW b \in Sessions, tx[b] = NoTx,
         NEW p \in Pages, NEW f \in BOOLEAN, PageInv(p),
         browser' = [browser EXCEPT ![b] = p],
         flag' = [flag EXCEPT ![b] = f],
         script' = [script EXCEPT ![b] = NoRun]
  PROVE  UInv'
<1>1. script'[b] = NoRun /\ tx'[b] = NoTx
  BY DEF UInv, UiTypeOK, vars
<1>2. RunInv(b)'
  BY <1>1, NoRunType DEF RunInv
<1>3. NoRun.phase = "running" <=> tx[b] # NoTx
  BY NoRunType
<1> QED
  BY <1>2, <1>3, NoRunType, PageStep

\* A run for a click on a button the old page had.
LEMMA Firing ==
  ASSUME UInv, UNCHANGED <<vars, flag>>, NEW b \in Sessions, tx[b] = NoTx,
         NEW x \in Rendered(browser[b]), NEW u, NEW form \in Forms, NEW again \in BOOLEAN,
         x \in FormButtons => browser[b].form = "complete",
         NeedsUser(x) => u \in Approvers,
         x \in MaterialButtons => u # ActorOf[b],
         again => flag[b],
         RunScript(b, x, u, form, again)
  PROVE  UInv'
<1>1. PICK old : old = browser[b]
  OBVIOUS
<1>2. PICK page : page = RenderPage(b, old.view, old.target, form)
  OBVIOUS
<1>3. old \in Pages /\ PageInv(old) /\ old.view \in Views
  BY <1>1 DEF UInv, UiTypeOK, Pages, Views
<1>4. /\ page \in Pages
      /\ PageInv(page)
      /\ page.view = old.view
      /\ page.labels = Options(old.view)
      /\ page.target = (IF page.labels = old.labels THEN old.target
                        ELSE Default(old.view, page.labels, old.selected))
  BY <1>1, <1>2, <1>3, Rendering
<1>5. /\ browser' = [browser EXCEPT ![b] = page]
      /\ flag' = [flag EXCEPT ![b] = flag[b]]
      /\ flag[b] \in BOOLEAN /\ flag'[b] = flag[b]
      /\ browser'[b] = page
      /\ UNCHANGED vars /\ tx'[b] = NoTx
      /\ UNCHANGED candidate
  BY <1>1, <1>2 DEF RunScript, UInv, UiTypeOK, vars
<1>6. CASE x \notin Rendered(page)
  <2>1. script' = [script EXCEPT ![b] = NoRun]
    BY <1>1, <1>2, <1>6 DEF RunScript
  <2> QED
    BY <1>4, <1>5, <2>1, RunEnds
<1>7. CASE x \in Rendered(page)
  <2>1. PICK user : user = IF x = "assign" \/ x \in MaterialButtons THEN u ELSE None
    OBVIOUS
  <2>2. PICK kept : kept = (page.labels = old.labels)
    OBVIOUS
  <2>3. PICK q : q = [NoRun EXCEPT !.phase = "fired", !.button = x, !.target = page.target,
                        !.user = user, !.form = form, !.shown = old.target,
                        !.offered = old.form, !.seen = page.state,
                        !.kept = kept, !.again = again]
    OBVIOUS
  <2>4. script' = [script EXCEPT ![b] = q]
    BY <1>1, <1>2, <1>7, <2>1, <2>2, <2>3 DEF RunScript
  <2>5. q = [phase |-> "fired", button |-> x, target |-> page.target, user |-> user,
             form |-> form, key |-> None, shown |-> old.target, kept |-> kept,
             offered |-> old.form, seen |-> page.state, again |-> again, pending |-> FALSE]
    BY <2>3 DEF NoRun
  <2>6. /\ x \in Buttons
        /\ x = "open" => page.target \in page.labels
        /\ x # "open" => /\ old.view = "detail"
                         /\ old.target = old.selected
                         /\ old.target \in Episodes
    BY <1>1, <1>3, <1>4, <1>7, RenderedButton
  <2>7. q \in ScriptRuns
    <3>1. user \in Users \cup {None}
      BY <2>1, ServiceAssumption DEF NeedsUser
    <3>2. /\ page.target \in Names /\ old.target \in Names /\ kept \in BOOLEAN
          /\ page.state \in SupportedStates \cup {None} /\ old.form \in Forms
      BY <1>3, <1>4, <2>2 DEF Pages
    <3> QED
      BY <2>5, <2>6, <3>1, <3>2 DEF ScriptRuns
  <2>8. script'[b] = q
    BY <2>4 DEF UInv, UiTypeOK
  <2>9. Fired(b)'
    BY <1>5, <1>7, <2>1, <2>5, <2>8 DEF Fired, NeedsUser
  <2>10. q.target = q.shown \/ (q.button = "open" /\ ~ q.kept)
    <3>1. CASE page.labels = old.labels
      BY <1>4, <2>5, <3>1
    <3>2. CASE page.labels # old.labels /\ x # "open"
      BY <1>4, <2>5, <2>6, <3>2, ServiceAssumption DEF Default
    <3>3. CASE page.labels # old.labels /\ x = "open"
      BY <2>2, <2>5, <3>3
    <3> QED
      BY <3>1, <3>2, <3>3
  <2>11. q.button = "open" => OpenableOrLinked(q.target)'
    <3> SUFFICES ASSUME x = "open" PROVE OpenableOrLinked(page.target)'
      BY <2>5
    <3>1. page.target \in Options("tower")
      BY <1>3, <1>4, <1>7, <2>6, RenderedButton
    <3> QED
      BY <1>5, <3>1 DEF Options, CandidateOpenAvailable, OpenableOrLinked
  <2>12. Shown(b)'
    BY <1>1, <1>5, <2>5, <2>8, <2>10, <2>11 DEF Shown
  <2>13. RunInv(b)'
    BY <1>5, <2>5, <2>8, <2>9, <2>12 DEF RunInv
  <2>14. q.phase = "running" <=> tx[b] # NoTx
    BY <2>5
  <2> QED
    BY <1>4, <1>5, <2>4, <2>7, <2>13, <2>14, PageStep
<1> QED
  BY <1>6, <1>7

\* What the sessions' parts are in a state of the invariant.
LEMMA Parts ==
  ASSUME UInv, NEW b \in Sessions
  PROVE  /\ browser[b] \in Pages /\ PageInv(browser[b])
         /\ flag[b] \in BOOLEAN
         /\ script[b] \in ScriptRuns
         /\ script[b].phase = "running" <=> tx[b] # NoTx
         /\ browser[b].form \in Forms
         /\ browser = [browser EXCEPT ![b] = browser[b]]
         /\ flag = [flag EXCEPT ![b] = flag[b]]
<1>1. browser[b] \in Pages
  BY DEF UInv, UiTypeOK
<1> QED
  BY <1>1 DEF UInv, UiTypeOK, Pages

LEMMA UserKeeps ==
  ASSUME UInv, NEW b \in Sessions, UserStep(b)
  PROVE  UInv' /\ UNCHANGED vars
<1>1. ASSUME NEW view \in Views, NEW x, NEW form \in Forms, Show(b, view, x, form)
      PROVE  UInv' /\ UNCHANGED vars
  <2>1. PICK page : page = RenderPage(b, view, x, form)
    OBVIOUS
  <2>2. view = browser[b].view => x \in Listed(view, browser[b].labels) \cup {browser[b].target}
    BY <1>1 DEF Show
  <2>3. page \in Pages /\ PageInv(page)
    BY <2>1, <2>2, Rendering
  <2>4. /\ browser' = [browser EXCEPT ![b] = page]
        /\ script' = [script EXCEPT ![b] = NoRun]
        /\ UNCHANGED vars /\ UNCHANGED flag
        /\ tx[b] = NoTx
    BY <1>1, <2>1, NoRunType, Parts DEF Show, UInv, UiTypeOK
  <2> QED
    BY <2>3, <2>4, Parts, RunEnds
<1>2. ASSUME NEW x \in Buttons, NEW u \in Approvers, NEW form \in Forms,
             Click(b, x, u, form)
      PROVE  UInv' /\ UNCHANGED vars
  <2>1. /\ x \in Rendered(browser[b])
        /\ x \in MaterialButtons => u # ActorOf[b]
        /\ x \in FormButtons => browser[b].form = "complete"
        /\ RunScript(b, x, u, form, FALSE)
        /\ UNCHANGED <<vars, flag>>
        /\ tx[b] = NoTx
    BY <1>2, NoRunType, Parts DEF Click, Enabled, IndependentApproverAvailable
  <2> QED
    BY <2>1, Firing
<1>3. ASSUME ClickAgain(b)
      PROVE  UInv' /\ UNCHANGED vars
  <2>1. PICK q : q = [script[b] EXCEPT !.pending = TRUE]
    OBVIOUS
  <2>2. /\ q \in ScriptRuns
        /\ q.phase = script[b].phase /\ q.button = script[b].button
        /\ q.target = script[b].target /\ q.user = script[b].user
        /\ q.key = script[b].key /\ q.again = script[b].again
        /\ script[b].button \in FormButtons => browser[b].form = "complete"
    BY <1>3, <2>1, Parts DEF ScriptRuns, ClickAgain, Enabled
  <2>3. /\ script' = [script EXCEPT ![b] = q] /\ script'[b] = q
        /\ UNCHANGED <<vars, browser, flag>>
        /\ UNCHANGED <<episode, candidate, events, tx>>
    BY <1>3, <2>1 DEF ClickAgain, vars, UInv, UiTypeOK
  <2>4. RunInv(b)'
    <3>1. RunInv(b) /\ q.phase # "fired"
      BY <1>3, <2>2 DEF UInv, ClickAgain
    <3>2. q.phase = "running" => Carries(tx[b], q)' /\ DraftsCarry(tx[b], q)'
      BY <2>2, <2>3, <3>1 DEF RunInv, Carries, DraftsCarry
    <3>3. q.phase = "succeeded" => Recorded(q)'
      BY <2>2, <2>3, <3>1 DEF RunInv, Recorded, Keyed, EventsOf, Opened
    <3>4. q.phase # "idle" => Fired(b)'
      BY <2>2, <2>3, <3>1 DEF RunInv, Fired
    <3> QED
      BY <2>2, <2>3, <3>1, <3>2, <3>3, <3>4 DEF RunInv, Pending
  <2>5. PICK p, f : p = browser[b] /\ f = flag[b]
    OBVIOUS
  <2>6. /\ browser' = [browser EXCEPT ![b] = p] /\ p \in Pages /\ PageInv(p)
        /\ flag' = [flag EXCEPT ![b] = f] /\ f \in BOOLEAN
        /\ q.phase = "running" <=> tx[b] # NoTx
    BY <2>2, <2>3, <2>5, Parts
  <2> QED
    BY <2>2, <2>3, <2>4, <2>6, PageStep
<1>4. ASSUME Reload(b)
      PROVE  UInv' /\ UNCHANGED vars
  <2>1. /\ browser' = [browser EXCEPT ![b] = NoPage]
        /\ flag' = [flag EXCEPT ![b] = FALSE]
        /\ script' = [script EXCEPT ![b] = NoRun]
        /\ UNCHANGED vars
        /\ tx[b] = NoTx
    BY <1>4, NoRunType, Parts DEF Reload, UInv, UiTypeOK
  <2> QED
    BY <2>1, NoPageType, RunEnds
<1> QED
  BY <1>1, <1>2, <1>3, <1>4 DEF UserStep, Views
------------------------------------------------------------------------------
(* Submission *)

LEMMA FreshKey ==
  ASSUME NEW k \in FreshKeys
  PROVE  /\ k \in Keys
         /\ \A v \in events : v.key[1] # k
         /\ \A r \in Sessions : tx[r] # NoTx => tx[r].key[1] # k
         /\ \A e : Keyed(e, CommandKey(k)) = {} /\ Keyed(e, StateKey(k)) = {}
<1>1. /\ k \in Keys
      /\ \A v \in events : v.key[1] # k
      /\ \A r \in Sessions : tx[r] # NoTx => tx[r].key[1] # k
  BY InterfaceAssumption DEF FreshKeys, TakenKeys
<1> QED
  BY <1>1 DEF Keyed, EventsOf, CommandKey, StateKey

\* A new key never answers with a recorded event: the session has loaded.
LEMMA NotReplayed ==
  ASSUME NEW b \in Sessions, NEW k \in FreshKeys, NEW t, t.key = CommandKey(k),
         NEW types, NEW valid, Idempotent(b, t, types, valid)
  PROVE  Begin(b, t)
BY FreshKey DEF Idempotent

\* Session b has begun the command of button x on episode e, under key k.
Submitted(b, x, e, u, k, t) ==
  /\ Begin(b, t)
  /\ t.phase = "read"
  /\ t.episode = e
  /\ t.key = CommandKey(k)
  /\ t.op \notin {"open", "link"}
  /\ Performs(t, x, u)

\* A command other than an opening is one the service offers, and what the
\* session holds is about the page's episode and the button's operation.
LEMMA EpisodeSubmission ==
  ASSUME UInv, NEW b \in Sessions, NEW x \in Buttons \ {"open"}, NEW e \in Episodes,
         NEW u \in Users \cup {None}, NeedsUser(x) => u \in Approvers,
         NEW k \in FreshKeys, Submit(b, x, e, u, k)
  PROVE  /\ Command(b)
         /\ \E t : Submitted(b, x, e, u, k, t)
<1> DEFINE T == \E t : Submitted(b, x, e, u, k, t)
<1>1. k \in Keys /\ Keyed(e, CommandKey(k)) = {} /\ Keyed(e, StateKey(k)) = {}
  BY FreshKey
<1>2. ActorOf[b] \in Users /\ (NeedsUser(x) => u \in Users)
  BY InterfaceAssumption, ServiceAssumption
<1>3. T => tx[b] = NoTx
  BY DEF Begin, Submitted
<1>4. CASE x = "assign" /\ AssignEpisode(b, e, u, k)
  <2>1. PICK t : t = [Load("assign", e, k) EXCEPT
                        !.owner = u, !.to = IF @ = "open" THEN "assigned" ELSE @]
    OBVIOUS
  <2>2. /\ t.phase = "read" /\ t.episode = e /\ t.key = CommandKey(k)
        /\ t.op = "assign" /\ t.owner = u
    BY <2>1, Loaded
  <2>3. Begin(b, t)
    BY <1>4, <2>1, <2>2, NotReplayed DEF AssignEpisode
  <2>4. T
    BY <1>4, <2>2, <2>3 DEF Submitted, Performs
  <2> QED
    BY <1>1, <1>2, <1>3, <1>4, <2>4 DEF Command, NeedsUser
<1>5. CASE x \in {"note", "revise", "observe"} /\ AppendAction(b, e, Category(x), k)
  <2>1. PICK t : t = [Load("action", e, k) EXCEPT !.category = Category(x)]
    OBVIOUS
  <2>2. /\ t.phase = "read" /\ t.episode = e /\ t.key = CommandKey(k)
        /\ t.op = "action" /\ t.category = Category(x)
    BY <2>1, Loaded
  <2>3. Begin(b, t)
    BY <1>5, <2>1, <2>2, NotReplayed DEF AppendAction
  <2>4. T
    BY <1>5, <2>2, <2>3 DEF Submitted, Performs
  <2>5. Category(x) \in Categories \ {"action_agreement"}
    BY <1>5 DEF Category, Categories
  <2> QED
    BY <1>1, <1>3, <1>5, <2>4, <2>5 DEF Command
<1>6. CASE x = "agree" /\ CreateActionAgreement(b, e, k)
  <2>1. PICK t : t = [Load("agreement", e, k) EXCEPT !.category = "action_agreement",
                                                     !.to = "action_agreed"]
    OBVIOUS
  <2>2. /\ t.phase = "read" /\ t.episode = e /\ t.key = CommandKey(k)
        /\ t.op = "agreement" /\ t.category = "action_agreement"
    BY <2>1, Loaded
  <2>3. Begin(b, t)
    BY <1>1, <1>6, <2>1 DEF CreateActionAgreement
  <2>4. T
    BY <1>6, <2>2, <2>3 DEF Submitted, Performs
  <2> QED
    BY <1>1, <1>3, <1>6, <2>4 DEF Command
<1>7. CASE x = "suppress" /\ SuppressEpisode(b, e, <<ActorOf[b], u>>, k)
  <2>1. PICK t : t = [Load("suppress", e, k) EXCEPT !.to = "suppressed",
                                                    !.approval = <<ActorOf[b], u>>]
    OBVIOUS
  <2>2. /\ t.phase = "read" /\ t.episode = e /\ t.key = CommandKey(k)
        /\ t.op = "suppress" /\ t.to = "suppressed"
    BY <2>1, Loaded
  <2>3. Begin(b, t)
    BY <1>7, <2>1, <2>2, NotReplayed DEF SuppressEpisode
  <2>4. T
    BY <1>7, <2>2, <2>3 DEF Submitted, Performs
  <2>5. <<ActorOf[b], u>> \in Users \X Users
    BY <1>2, <1>7 DEF NeedsUser, MaterialButtons
  <2> QED
    BY <1>1, <1>3, <1>7, <2>4, <2>5 DEF Command
<1>8. ASSUME NEW to, NEW approval, TransitionEpisode(b, e, to, approval, k),
             x \in {"investigate", "reopen", "monitor", "resolve", "close"},
             to = TargetState(x)
      PROVE  T
  <2>1. PICK t : t = [Load("transition", e, k) EXCEPT !.to = to, !.approval = approval]
    OBVIOUS
  <2>2. /\ t.phase = "read" /\ t.episode = e /\ t.key = CommandKey(k)
        /\ t.op = "transition" /\ t.to = TargetState(x)
    BY <1>8, <2>1, Loaded
  <2>3. Begin(b, t)
    BY <1>8, <2>1, <2>2, NotReplayed DEF TransitionEpisode
  <2> QED
    BY <1>8, <2>2, <2>3 DEF Submitted, Performs
<1>9. CASE /\ x \in {"resolve", "close"}
           /\ TransitionEpisode(b, e, TargetState(x), <<ActorOf[b], u>>, k)
  <2>1. T
    BY <1>8, <1>9
  <2>2. TargetState(x) \in {"resolved", "closed"}
    BY <1>9 DEF TargetState
  <2>3. <<ActorOf[b], u>> \in Users \X Users
    BY <1>2, <1>9 DEF NeedsUser, MaterialButtons
  <2> QED
    BY <1>1, <1>3, <1>9, <2>1, <2>2, <2>3 DEF Command
<1>10. CASE /\ x \in {"investigate", "reopen", "monitor"}
            /\ TransitionEpisode(b, e, TargetState(x), None, k)
  <2>1. T
    BY <1>8, <1>10
  <2>2. TargetState(x) \in SupportedStates \ {"resolved", "closed"}
    BY <1>10 DEF TargetState, SupportedStates, ActiveStates
  <2> QED
    BY <1>1, <1>3, <1>10, <2>1, <2>2 DEF Command
<1> QED
  BY <1>4, <1>5, <1>6, <1>7, <1>9, <1>10 DEF Submit

\* A candidate's command is one the service offers; the session answers with
\* the candidate's link or goes on to look for the active episode.
LEMMA OpeningSubmission ==
  ASSUME UInv, NEW b \in Sessions, NEW c \in Candidates, NEW k \in FreshKeys,
         OpenEpisodeFromCandidate(b, c, k)
  PROVE  /\ Command(b)
         /\ \E t : /\ Begin(b, t)
                   /\ t.phase \in {"candidate", "replayed"}
                   /\ t.op = "open"
                   /\ t.candidate = c
                   /\ t.key = CommandKey(k)
                   /\ t.phase = "replayed" => candidate[c].linked # None
<1> DEFINE T == \E t : /\ Begin(b, t)
                       /\ t.phase \in {"candidate", "replayed"}
                       /\ t.op = "open"
                       /\ t.candidate = c
                       /\ t.key = CommandKey(k)
                       /\ t.phase = "replayed" => candidate[c].linked # None
           linked == candidate[c].linked
<1>1. k \in Keys
  BY FreshKey
<1>2. T
  <2>1. CASE linked # None
    <3>1. PICK v \in EventsOf(linked) :
            Begin(b, Replayed([Load("open", linked, k) EXCEPT !.candidate = c], v))
      BY <2>1 DEF OpenEpisodeFromCandidate
    <3>2. PICK s : s = [Load("open", linked, k) EXCEPT !.candidate = c]
      OBVIOUS
    <3>3. PICK t : t = Replayed(s, v)
      OBVIOUS
    <3>4. s = [phase |-> "read", op |-> "open", episode |-> linked, candidate |-> c,
               key |-> CommandKey(k), state |-> episode[linked].state,
               to |-> episode[linked].state, holder |-> episode[linked].owner,
               owner |-> episode[linked].owner, category |-> None,
               approval |-> None, seq |-> 0, number |-> 0, drafts |-> << >>]
      BY <3>2, Loaded
    <3>5. /\ t.phase = "replayed" /\ t.op = "open"
          /\ t.candidate = c /\ t.key = CommandKey(k)
      BY <3>3, <3>4 DEF Replayed
    <3> QED
      BY <2>1, <3>1, <3>2, <3>3, <3>5
  <2>2. CASE linked = None
    <3>1. PICK t : t = [NoTx EXCEPT !.phase = "candidate", !.op = "open",
                                    !.candidate = c, !.key = CommandKey(k)]
      OBVIOUS
    <3>2. /\ t.phase = "candidate" /\ t.op = "open"
          /\ t.candidate = c /\ t.key = CommandKey(k)
      BY <3>1 DEF NoTx
    <3> QED
      BY <2>2, <3>1, <3>2 DEF OpenEpisodeFromCandidate
  <2> QED
    BY <2>1, <2>2
<1>3. tx[b] = NoTx
  BY <1>2 DEF Begin
<1> QED
  BY <1>1, <1>2, <1>3 DEF Command
------------------------------------------------------------------------------
(* The script run and its command *)

\* The command moves on without touching the tables; t is what it holds then.
LEMMA TxStep ==
  ASSUME UInv, [Next]_vars, NEW b \in Sessions, NEW t, NEW f \in BOOLEAN, NEW q \in ScriptRuns,
         tx' = [tx EXCEPT ![b] = t],
         UNCHANGED <<episode, candidate, events>>,
         UNCHANGED browser,
         flag' = [flag EXCEPT ![b] = f],
         script' = [script EXCEPT ![b] = q],
         t # NoTx => /\ \A v \in events : v.key[1] # t.key[1]
                     /\ \A r \in Sessions \ {b} : tx[r] # NoTx => tx[r].key[1] # t.key[1],
         q.phase = "running" <=> t # NoTx,
         RunInv(b)'
  PROVE  UInv'
<1>1. /\ tx'[b] = t
      /\ \A r \in Sessions \ {b} : tx'[r] = tx[r]
  BY DEF UInv, IInv, TypeOK
<1>2. Grows
  BY DEF Grows, Opened
<1>3. LinksOpened'
  BY DEF UInv, LinksOpened, Opened
<1>4. KeysFresh'
  <2>1. KeysFresh
    BY DEF UInv
  <2>2. \A s \in Sessions : tx'[s] # NoTx => \A v \in events' : v.key[1] # tx'[s].key[1]
    BY <1>1, <2>1 DEF KeysFresh
  <2>3. ASSUME NEW s \in Sessions, NEW r \in Sessions, s # r, tx'[s] # NoTx, tx'[r] # NoTx
        PROVE  tx'[s].key[1] # tx'[r].key[1]
    BY <1>1, <2>1, <2>3 DEF KeysFresh
  <2> QED
    BY <2>2, <2>3 DEF KeysFresh
<1> QED
  BY <1>1, <1>2, <1>3, <1>4, Parts, OneStep

LEMMA WarnKeeps ==
  ASSUME UInv, NEW b \in Sessions, Warn(b)
  PROVE  UInv' /\ UNCHANGED vars
BY Parts, RunEnds DEF Warn

\* The first step of the command: the run is refused at once, or submitted.
LEMMA RunCommandKeeps ==
  ASSUME UInv, NEW b \in Sessions, RunCommand(b)
  PROVE  UInv' /\ [Next]_vars
<1>1. PICK r : r = script[b]
  OBVIOUS
<1>2. /\ r.phase = "fired" /\ r \in ScriptRuns
      /\ ~ flag[b] /\ flag' = [flag EXCEPT ![b] = TRUE] /\ flag'[b] = TRUE
      /\ UNCHANGED browser
      /\ tx[b] = NoTx
      /\ Fired(b) /\ ~ r.again /\ (r.pending => Pending(b))
      /\ r.button \in Buttons
      /\ r.button = "open" => r.target \in Candidates
      /\ r.button # "open" => r.target \in Episodes
      /\ NeedsUser(r.button) => r.user \in Approvers
  <2>1. r.phase = "fired" /\ RunInv(b)
    BY <1>1 DEF RunCommand, UInv
  <2> QED
    BY <1>1, <2>1, Parts, FiredTarget DEF RunCommand, RunInv, Shown, Fired, UInv, UiTypeOK
<1>3. ASSUME NEW form \in FieldsAtService(r), UNCHANGED vars,
             script' = [script EXCEPT ![b] =
                         [Running(r) EXCEPT !.phase = "refused", !.form = form]]
      PROVE  UInv' /\ [Next]_vars
  <2>0. form \in Forms
    BY <1>2 DEF FieldsAtService, ScriptRuns, Forms
  <2>1. PICK q : q = [Running(r) EXCEPT !.phase = "refused", !.form = form]
    OBVIOUS
  <2>2. /\ q \in ScriptRuns
        /\ q.phase = "refused" /\ q.button = r.button /\ q.target = r.target
        /\ q.user = r.user /\ q.again = r.again /\ q.pending = r.pending
    BY <1>2, <2>0, <2>1 DEF Running, ScriptRuns, Names, Forms
  <2>3. script' = [script EXCEPT ![b] = q] /\ script'[b] = q /\ tx'[b] = NoTx
    BY <1>2, <1>3, <2>1 DEF UInv, UiTypeOK, vars
  <2>4. RunInv(b)'
    BY <1>1, <1>2, <2>2, <2>3 DEF RunInv, Fired, Pending
  <2>5. /\ browser' = [browser EXCEPT ![b] = browser[b]]
        /\ q.phase = "running" <=> tx[b] # NoTx
        /\ TRUE \in BOOLEAN
    BY <1>2, <2>2, Parts
  <2> QED
    BY <1>2, <1>3, <2>2, <2>3, <2>4, <2>5, Parts, PageStep
<1>4. ASSUME NEW k \in FreshKeys,
             Submit(b, r.button, r.target, r.user, k),
             script' = [script EXCEPT ![b] = [Running(r) EXCEPT !.key = k]]
      PROVE  UInv' /\ [Next]_vars
  <2>1. PICK q : q = [Running(r) EXCEPT !.key = k]
    OBVIOUS
  <2>2. /\ q \in ScriptRuns
        /\ q.phase = "running" /\ q.button = r.button /\ q.target = r.target
        /\ q.user = r.user /\ q.again = r.again /\ q.pending = r.pending /\ q.key = k
    BY <1>2, <2>1, FreshKey DEF Running, ScriptRuns, Names, Forms
  <2>3. /\ Command(b)
        /\ \E t : Begin(b, t) /\ Carries(t, q) /\ t.phase # "flushed"
    <3>1. CASE r.button = "open"
      <4>1. OpenEpisodeFromCandidate(b, r.target, k)
        BY <1>4, <3>1 DEF Submit, MaterialButtons
      <4>2. /\ Command(b)
            /\ \E t : /\ Begin(b, t)
                      /\ t.phase \in {"candidate", "replayed"}
                      /\ t.op = "open"
                      /\ t.candidate = r.target
                      /\ t.key = CommandKey(k)
                      /\ t.phase = "replayed" => candidate[r.target].linked # None
        BY <1>2, <3>1, <4>1, OpeningSubmission
      <4> QED
        BY <2>2, <3>1, <4>2 DEF Carries, NoTx
    <3>2. CASE r.button # "open"
      <4>1. /\ r.button \in Buttons \ {"open"}
            /\ r.target \in Episodes
            /\ r.user \in Users \cup {None}
            /\ NeedsUser(r.button) => r.user \in Approvers
            /\ Submit(b, r.button, r.target, r.user, k)
        BY <1>2, <1>4, <3>2 DEF ScriptRuns
      <4>2. Command(b) /\ \E t : Submitted(b, r.button, r.target, r.user, k, t)
        BY <4>1, EpisodeSubmission
      <4> QED
        BY <2>2, <3>2, <4>2 DEF Carries, Submitted, NoTx
    <3> QED
      BY <3>1, <3>2
  <2>4. PICK t : Begin(b, t) /\ Carries(t, q) /\ t.phase # "flushed"
    BY <2>3
  <2>5. /\ tx' = [tx EXCEPT ![b] = t] /\ tx'[b] = t /\ t # NoTx
        /\ UNCHANGED <<episode, candidate, events>>
        /\ t.key[1] = k
    BY <2>2, <2>4 DEF Begin, Carries, CommandKey, UInv, IInv, TypeOK
  <2>6. script' = [script EXCEPT ![b] = q] /\ script'[b] = q
    BY <1>4, <2>1 DEF UInv, UiTypeOK
  <2>7. Carries(t, q)' /\ DraftsCarry(t, q)'
    BY <2>4, <2>5 DEF Carries, DraftsCarry
  <2>8. RunInv(b)'
    BY <1>1, <1>2, <2>2, <2>5, <2>6, <2>7, FreshKey DEF RunInv, Fired, Pending
  <2>9. /\ \A v \in events : v.key[1] # t.key[1]
        /\ \A s \in Sessions \ {b} : tx[s] # NoTx => tx[s].key[1] # t.key[1]
    BY <2>5, FreshKey
  <2>10. [Next]_vars
    BY <2>3 DEF Next
  <2> QED
    BY <1>2, <2>2, <2>5, <2>6, <2>8, <2>9, <2>10, TxStep
<1> QED
  BY <1>1, <1>3, <1>4 DEF RunCommand

\* What a run whose command is under way knows.
LEMMA UnderWay ==
  ASSUME UInv, NEW b \in Sessions, tx[b] # NoTx
  PROVE  /\ script[b].phase = "running"
         /\ script[b] \in ScriptRuns
         /\ Fired(b) /\ flag[b] /\ ~ script[b].again /\ script[b].key \in Keys
         /\ script[b].pending => Pending(b)
         /\ Carries(tx[b], script[b]) /\ DraftsCarry(tx[b], script[b])
         /\ tx[b].key = CommandKey(script[b].key)
         /\ \A v \in events : v.key[1] # script[b].key
         /\ \A r \in Sessions \ {b} : tx[r] # NoTx => tx[r].key[1] # script[b].key
<1>1. script[b].phase = "running" /\ script[b] \in ScriptRuns /\ RunInv(b)
  BY Parts DEF UInv
<1>2. Carries(tx[b], script[b])
  BY <1>1 DEF RunInv
<1>3. tx[b].key = CommandKey(script[b].key) /\ tx[b].key[1] = script[b].key
  BY <1>2 DEF Carries, CommandKey
<1> QED
  BY <1>1, <1>2, <1>3 DEF RunInv, UInv, KeysFresh

\* A step of the command that keeps the run as it is.
LEMMA CommandGoesOn ==
  ASSUME UInv, NEW b \in Sessions, tx[b] # NoTx, [Next]_vars, NEW t,
         tx' = [tx EXCEPT ![b] = t],
         UNCHANGED <<episode, candidate, events>>,
         UNCHANGED ui,
         Carries(t, script[b]), DraftsCarry(t, script[b])
  PROVE  UInv'
<1>1. UNCHANGED <<browser, flag, script>>
  BY DEF ui
<1>2. tx'[b] = t /\ t # NoTx /\ t.key = CommandKey(script[b].key) /\ t.key[1] = script[b].key
  BY DEF Carries, CommandKey, UInv, IInv, TypeOK
<1>3. Carries(tx[b], script[b])' /\ DraftsCarry(tx[b], script[b])'
  BY <1>1, <1>2 DEF Carries, DraftsCarry
<1>4. RunInv(b)'
  BY <1>1, <1>2, <1>3, UnderWay DEF RunInv, Fired, Pending
<1>5. /\ flag' = [flag EXCEPT ![b] = flag[b]]
      /\ script' = [script EXCEPT ![b] = script[b]]
      /\ flag[b] \in BOOLEAN
  BY <1>1, Parts DEF UInv, UiTypeOK
<1>6. /\ \A v \in events : v.key[1] # t.key[1]
      /\ \A r \in Sessions \ {b} : tx[r] # NoTx => tx[r].key[1] # t.key[1]
  BY <1>2, UnderWay
<1> QED
  BY <1>1, <1>2, <1>4, <1>5, <1>6, UnderWay, TxStep

LEMMA FindActiveKeeps ==
  ASSUME UInv, NEW b \in Sessions, FindActiveEpisode(b), UNCHANGED ui
  PROVE  UInv' /\ [Next]_vars
<1>1. PICK r : r = script[b]
  OBVIOUS
<1>2. PICK t : t = tx[b]
  OBVIOUS
<1>3. t.phase = "candidate" /\ t \in Transactions /\ t # NoTx
  <2>1. t.phase = "candidate"
    BY <1>2 DEF FindActiveEpisode
  <2> QED
    BY <1>2, <2>1 DEF UInv, IInv, TypeOK, NoTx
<1>4. Carries(t, r) /\ r.button = "open" /\ t.op \in {"open", "link"} /\ t.candidate = r.target
      /\ t.key = CommandKey(r.key) /\ t.key[1] = r.key
  BY <1>1, <1>2, <1>3, UnderWay DEF Carries, CommandKey
<1>5. [Next]_vars
  BY DEF Next
<1>6. ASSUME NEW e, tx' = [tx EXCEPT ![b] =
                             [Load("link", e, t.key[1]) EXCEPT !.candidate = t.candidate]]
      PROVE  UInv'
  <2>1. PICK u : u = [Load("link", e, t.key[1]) EXCEPT !.candidate = t.candidate]
    OBVIOUS
  <2>2. /\ u.phase = "read" /\ u.op = "link" /\ u.candidate = r.target
        /\ u.key = CommandKey(r.key)
    BY <1>4, <2>1, Loaded
  <2>3. Carries(u, r) /\ DraftsCarry(u, r)
    BY <1>4, <2>2 DEF Carries, DraftsCarry, NoTx
  <2>4. UNCHANGED <<episode, candidate, events>>
    BY DEF FindActiveEpisode
  <2> QED
    BY <1>1, <1>2, <1>3, <1>5, <1>6, <2>1, <2>3, <2>4, CommandGoesOn
<1>7. ASSUME NEW e, tx' = [tx EXCEPT ![b] = [t EXCEPT !.phase = "read", !.episode = e,
                                                      !.to = "open"]]
      PROVE  UInv'
  <2>1. PICK u : u = [t EXCEPT !.phase = "read", !.episode = e, !.to = "open"]
    OBVIOUS
  <2>2. u.phase = "read" /\ u.op = t.op /\ u.candidate = t.candidate /\ u.key = t.key
    BY <1>3, <2>1 DEF Transactions
  <2>3. Carries(u, r) /\ DraftsCarry(u, r)
    BY <1>4, <2>2 DEF Carries, DraftsCarry, NoTx
  <2>4. UNCHANGED <<episode, candidate, events>>
    BY DEF FindActiveEpisode
  <2> QED
    BY <1>1, <1>2, <1>3, <1>5, <1>7, <2>1, <2>3, <2>4, CommandGoesOn
<1> QED
  BY <1>2, <1>5, <1>6, <1>7 DEF FindActiveEpisode

LEMMA EventFields ==
  ASSUME NEW t, NEW key, NEW type
  PROVE  /\ Event(t, key, type).key = key
         /\ Event(t, key, type).to = None
         /\ StateEvent(t, key).key = key
         /\ StateEvent(t, key).to = t.to
         /\ ActionEvent(t).key = t.key
         /\ ActionEvent(t).category = t.category
         /\ OwnershipEvent(t).key = t.key
         /\ OwnershipEvent(t).owner = t.owner
BY DEF Event, StateEvent, ActionEvent, OwnershipEvent

\* What the flush prepares carries the key of the click, and does what the
\* button asks for.
LEMMA FlushedCarry ==
  ASSUME NEW t, NEW r, Carries(t, r), t.phase = "read", r.button \in Buttons,
         Keyed(t.episode, t.key) = {}, NEW u, u.phase = "flushed", u.key = t.key,
         u.drafts = Drafts(t)
  PROVE  DraftsCarry(u, r)
<1>0. t.key[1] = r.key /\ t.key = CommandKey(r.key)
  BY DEF Carries, CommandKey
<1>1. CASE r.button = "open"
  <2>1. t.op = "link" => Drafts(t) = <<Event(t, t.key, "candidate_linked")>>
    BY DEF Drafts
  <2>2. t.op = "open" => Drafts(t) = <<StateEvent(t, t.key)>>
    BY DEF Drafts
  <2>3. \E d : Drafts(t) = <<d>> /\ d.key = t.key
    <3>1. CASE t.op = "link"
      <4>1. Event(t, t.key, "candidate_linked").key = t.key
        BY EventFields
      <4> QED
        BY <2>1, <3>1, <4>1
    <3>2. CASE t.op = "open"
      <4>1. StateEvent(t, t.key).key = t.key
        BY EventFields
      <4> QED
        BY <2>2, <3>2, <4>1
    <3> QED
      BY <1>1, <3>1, <3>2 DEF Carries
  <2> QED
    BY <1>1, <2>3 DEF DraftsCarry
<1>2. CASE r.button # "open" /\ t.op # "agreement"
  <2>1. Performs(t, r.button, r.user)
    BY <1>2 DEF Carries
  <2>2. \E d : Drafts(t) = <<d>> /\ d.key = t.key /\ DoneBy(d, r.button, r.user)
    <3>1. CASE r.button = "assign"
      <4>1. Drafts(t) = <<OwnershipEvent(t)>>
        BY <2>1, <3>1 DEF Performs, Drafts
      <4> QED
        BY <2>1, <3>1, <4>1, EventFields DEF Performs, DoneBy
    <3>2. CASE r.button \in {"note", "revise", "observe"}
      <4>1. Drafts(t) = <<ActionEvent(t)>>
        BY <2>1, <3>2 DEF Performs, Drafts
      <4> QED
        BY <2>1, <3>2, <4>1, EventFields DEF Performs, DoneBy
    <3>3. CASE r.button = "suppress"
      <4>1. Drafts(t) = <<StateEvent(t, t.key)>> /\ t.to = "suppressed"
        BY <2>1, <3>3 DEF Performs, Drafts
      <4> QED
        BY <3>3, <4>1, EventFields DEF DoneBy
    <3>4. CASE r.button \notin {"assign", "note", "revise", "observe", "agree", "suppress"}
      <4>1. Drafts(t) = <<StateEvent(t, t.key)>> /\ t.to = TargetState(r.button)
        BY <2>1, <3>4 DEF Performs, Drafts
      <4>2. StateEvent(t, t.key).key = t.key /\ StateEvent(t, t.key).to = t.to
        BY EventFields
      <4>3. DoneBy(StateEvent(t, t.key), r.button, r.user)
        BY <3>4, <4>1, <4>2 DEF DoneBy
      <4> QED
        BY <4>1, <4>2, <4>3
    <3>5. r.button # "agree"
      BY <1>2, <2>1 DEF Performs
    <3> QED
      BY <3>1, <3>2, <3>3, <3>4, <3>5
  <2> QED
    BY <1>2, <2>2 DEF DraftsCarry
<1>3. CASE r.button # "open" /\ t.op = "agreement"
  <2>1. r.button = "agree" /\ t.category = "action_agreement"
    BY <1>3 DEF Carries, Performs
  <2>2. Drafts(t) = <<StateEvent(t, StateKey(t.key[1])), ActionEvent(t)>>
    BY <1>3 DEF Drafts
  <2>3. \E c, d : /\ Drafts(t) = <<c, d>> /\ c.key[1] = t.key[1] /\ d.key = t.key
                  /\ DoneBy(d, r.button, r.user)
    <3>1. StateKey(t.key[1])[1] = t.key[1]
      BY DEF StateKey
    <3> QED
      BY <2>1, <2>2, <3>1, EventFields DEF DoneBy
  <2> QED
    BY <1>3, <2>3 DEF DraftsCarry
<1> QED
  BY <1>1, <1>2, <1>3

LEMMA FlushKeeps ==
  ASSUME UInv, NEW b \in Sessions, Flush(b), UNCHANGED ui
  PROVE  UInv' /\ [Next]_vars
<1>1. PICK r : r = script[b]
  OBVIOUS
<1>2. PICK t : t = tx[b]
  OBVIOUS
<1>3. t.phase = "read" /\ t \in Transactions /\ t # NoTx
  BY <1>2 DEF Flush, UInv, IInv, TypeOK, NoTx
<1>4. /\ Carries(t, r) /\ t.key = CommandKey(r.key) /\ t.key[1] = r.key
      /\ r.button \in Buttons
      /\ \A v \in events : v.key[1] # t.key[1]
  BY <1>1, <1>2, <1>3, UnderWay, FiredTarget DEF Carries, CommandKey
<1>5. [Next]_vars
  BY DEF Next
<1>6. PICK n, m : tx' = [tx EXCEPT ![b] = [t EXCEPT !.phase = "flushed", !.drafts = Drafts(t),
                                                    !.seq = n, !.number = m]]
  BY <1>2 DEF Flush
<1>7. PICK u : u = [t EXCEPT !.phase = "flushed", !.drafts = Drafts(t),
                             !.seq = n, !.number = m]
  OBVIOUS
<1>8. /\ u.phase = "flushed" /\ u.drafts = Drafts(t) /\ u.key = t.key /\ u.op = t.op
      /\ u.episode = t.episode /\ u.candidate = t.candidate /\ u.owner = t.owner
      /\ u.category = t.category /\ u.to = t.to
  BY <1>3, <1>7 DEF Transactions
<1>9. Carries(u, r)
  BY <1>3, <1>4, <1>8 DEF Carries, Performs, NoTx
<1>10. Keyed(t.episode, t.key) = {}
  BY <1>4 DEF Keyed, EventsOf
<1>11. DraftsCarry(u, r)
  BY <1>3, <1>4, <1>8, <1>10, FlushedCarry
<1>12. UNCHANGED <<episode, candidate, events>>
  BY DEF Flush
<1> QED
  BY <1>1, <1>2, <1>3, <1>5, <1>6, <1>7, <1>9, <1>11, <1>12, CommandGoesOn

LEMMA EventRowFields ==
  ASSUME NEW d \in EventRows, NEW n, NEW v, v = [d EXCEPT !.seq = n]
  PROVE  /\ v.key = d.key /\ v.to = d.to /\ v.owner = d.owner
         /\ v.category = d.category /\ v.episode = d.episode
BY DEF EventRows

\* The run after its command has succeeded.
LEMMA SucceededRun ==
  ASSUME UInv, NEW b \in Sessions, tx[b] # NoTx, NEW q,
         q = [script[b] EXCEPT !.phase = "succeeded"],
         script' = [script EXCEPT ![b].phase = "succeeded"]
  PROVE  /\ q \in ScriptRuns
         /\ q.phase = "succeeded"
         /\ q.button = script[b].button /\ q.target = script[b].target
         /\ q.user = script[b].user /\ q.key = script[b].key /\ q.again = script[b].again
         /\ q.pending = script[b].pending
         /\ script' = [script EXCEPT ![b] = q] /\ script'[b] = q
<1>1. script \in [Sessions -> ScriptRuns]
  BY DEF UInv, UiTypeOK
<1>2. script' = [script EXCEPT ![b] = q] /\ script'[b] = q
  BY <1>1
<1> QED
  BY <1>1, <1>2 DEF ScriptRuns

LEMMA CommitKeeps ==
  ASSUME UInv, NEW b \in Sessions, Commit(b),
         script' = [script EXCEPT ![b].phase = "succeeded"],
         UNCHANGED <<browser, flag>>
  PROVE  UInv' /\ [Next]_vars
<1>1. PICK r : r = script[b]
  OBVIOUS
<1>2. PICK t : t = tx[b]
  OBVIOUS
<1>3. t.phase = "flushed" /\ t # NoTx
  <2>1. t.phase = "flushed"
    BY <1>2 DEF Commit
  <2> QED
    BY <2>1 DEF NoTx
<1>4. PICK q : q = [script[b] EXCEPT !.phase = "succeeded"]
  OBVIOUS
<1>5. /\ q \in ScriptRuns
      /\ q.phase = "succeeded" /\ q.button = r.button /\ q.target = r.target
      /\ q.user = r.user /\ q.key = r.key /\ q.again = r.again /\ q.pending = r.pending
      /\ script' = [script EXCEPT ![b] = q] /\ script'[b] = q
  <2>1. tx[b] # NoTx
    BY <1>2, <1>3
  <2>2. /\ q \in ScriptRuns
        /\ q.phase = "succeeded"
        /\ q.button = script[b].button /\ q.target = script[b].target
        /\ q.user = script[b].user /\ q.key = script[b].key /\ q.again = script[b].again
        /\ q.pending = script[b].pending
        /\ script' = [script EXCEPT ![b] = q] /\ script'[b] = q
    BY <1>4, <2>1, SucceededRun
  <2> QED
    BY <1>1, <2>2
<1>6. /\ Carries(t, r) /\ DraftsCarry(t, r)
      /\ t.key = CommandKey(r.key) /\ t.key[1] = r.key
      /\ Fired(b) /\ flag[b] /\ ~ r.again /\ r.key \in Keys /\ (r.pending => Pending(b))
      /\ \A s \in Sessions \ {b} : tx[s] # NoTx => tx[s].key[1] # r.key
  BY <1>1, <1>2, <1>3, UnderWay DEF CommandKey
<1>7. IInv /\ TypeOK /\ Validated(t) /\ Drafted(t)
  BY <1>2, <1>3 DEF UInv, IInv, TxInv, Working
<1>8. /\ Opened' = Opened \cup {t.episode}
      /\ tx'[b] = NoTx
      /\ \A s \in Sessions \ {b} : tx'[s] = tx[s]
  BY <1>2, <1>7, CommitTables
<1>9. /\ events' = events \cup NewEvents(t)
      /\ candidate' = IF t.op \in {"open", "link"}
                      THEN [candidate EXCEPT ![t.candidate] = CandidateAfter(t)]
                      ELSE candidate
  BY <1>2 DEF Commit
<1>10. ASSUME NEW i \in 1 .. Len(t.drafts)
       PROVE  \E v \in NewEvents(t) :
                /\ v.key = t.drafts[i].key /\ v.to = t.drafts[i].to
                /\ v.owner = t.drafts[i].owner /\ v.category = t.drafts[i].category
                /\ v.episode = t.episode
  <2>1. t.drafts[i] \in EventRows /\ t.drafts[i].episode = t.episode
    BY <1>7 DEF Drafted
  <2>2. PICK v : v = [t.drafts[i] EXCEPT !.seq = t.seq + i - 1]
    OBVIOUS
  <2>3. v \in NewEvents(t)
    BY <2>2 DEF NewEvents
  <2>4. /\ v.key = t.drafts[i].key /\ v.to = t.drafts[i].to
        /\ v.owner = t.drafts[i].owner /\ v.category = t.drafts[i].category
        /\ v.episode = t.drafts[i].episode
    BY <2>1, <2>2, EventRowFields
  <2> QED
    BY <2>1, <2>3, <2>4
<1>11. \A v \in NewEvents(t) : v.key[1] = r.key
  <2> SUFFICES ASSUME NEW v \in NewEvents(t) PROVE v.key[1] = r.key
    OBVIOUS
  <2>1. PICK i \in 1 .. Len(t.drafts) : v = [t.drafts[i] EXCEPT !.seq = t.seq + i - 1]
    BY DEF NewEvents
  <2>2. t.drafts[i] \in EventRows
    BY <1>7 DEF Drafted
  <2>3. v.key = t.drafts[i].key
    BY <2>1, <2>2, EventRowFields
  <2> QED
    BY <1>3, <1>6, <2>3 DEF DraftsCarry
<1>12. \A c \in Candidates : \/ candidate'[c] = candidate[c]
                             \/ candidate'[c].linked = t.episode
  <2>1. CandidateAfter(t).linked = t.episode
    BY DEF CandidateAfter
  <2> QED
    BY <1>7, <1>9, <2>1 DEF TypeOK
<1>13. Grows
  BY <1>8, <1>9, <1>12 DEF Grows
<1>14. LinksOpened'
  BY <1>8, <1>12 DEF LinksOpened, UInv
<1>15. KeysFresh'
  <2>1. KeysFresh
    BY DEF UInv
  <2>2. \A s \in Sessions : tx'[s] # NoTx => \A v \in events' : v.key[1] # tx'[s].key[1]
    BY <1>6, <1>8, <1>9, <1>11, <2>1 DEF KeysFresh
  <2>3. ASSUME NEW s \in Sessions, NEW p \in Sessions, s # p, tx'[s] # NoTx, tx'[p] # NoTx
        PROVE  tx'[s].key[1] # tx'[p].key[1]
    BY <1>8, <2>1, <2>3 DEF KeysFresh
  <2> QED
    BY <2>2, <2>3 DEF KeysFresh
<1>16. Recorded(q)'
  <2>1. CASE r.button = "open"
    <3>1. t.op \in {"open", "link"} /\ t.candidate = r.target /\ t.candidate \in Candidates
      BY <1>6, <1>7, <2>1 DEF Carries, Validated
    <3>2. candidate'[r.target] = CandidateAfter(t)
      BY <1>7, <1>9, <3>1 DEF TypeOK
    <3> QED
      BY <1>5, <1>8, <2>1, <3>2 DEF Recorded, CandidateAfter
  <2>2. CASE r.button # "open"
    <3>1. PICK i \in 1 .. Len(t.drafts) :
            t.drafts[i].key = t.key /\ DoneBy(t.drafts[i], r.button, r.user)
      BY <1>3, <1>6, <2>2 DEF DraftsCarry
    <3>2. PICK v \in NewEvents(t) :
            /\ v.key = t.drafts[i].key /\ v.to = t.drafts[i].to
            /\ v.owner = t.drafts[i].owner /\ v.category = t.drafts[i].category
            /\ v.episode = t.episode
      BY <1>10
    <3>3. DoneBy(v, r.button, r.user)
      BY <3>1, <3>2 DEF DoneBy
    <3>4. v \in events' /\ v.episode = r.target /\ v.key = CommandKey(r.key)
      BY <1>6, <1>9, <2>2, <3>1, <3>2 DEF Carries
    <3> QED
      BY <1>5, <2>2, <3>3, <3>4 DEF Recorded, Keyed, EventsOf
  <2> QED
    BY <2>1, <2>2
<1>17. Recorded(script[b])'
  BY <1>5, <1>16
<1>18. RunInv(b)'
  BY <1>1, <1>5, <1>6, <1>8, <1>17 DEF RunInv, Fired, Pending
<1>19. [Next]_vars
  BY DEF Next
<1>20. /\ browser' = [browser EXCEPT ![b] = browser[b]]
       /\ flag' = [flag EXCEPT ![b] = flag[b]]
       /\ browser[b] \in Pages /\ PageInv(browser[b]) /\ flag[b] \in BOOLEAN
       /\ q.phase = "running" <=> tx'[b] # NoTx
  BY <1>5, <1>8, Parts
<1> QED
  BY <1>5, <1>8, <1>13, <1>14, <1>15, <1>18, <1>19, <1>20, OneStep

LEMMA AnswerKeeps ==
  ASSUME UInv, NEW b \in Sessions, Answer(b),
         script' = [script EXCEPT ![b].phase = "succeeded"],
         UNCHANGED <<browser, flag>>
  PROVE  UInv' /\ [Next]_vars
<1>1. PICK r : r = script[b]
  OBVIOUS
<1>2. tx[b].phase = "replayed" /\ tx[b] # NoTx
  <2>1. tx[b].phase = "replayed"
    BY DEF Answer
  <2> QED
    BY <2>1 DEF NoTx
<1>3. PICK q : q = [script[b] EXCEPT !.phase = "succeeded"]
  OBVIOUS
<1>4. /\ q \in ScriptRuns
      /\ q.phase = "succeeded" /\ q.button = r.button /\ q.target = r.target
      /\ q.user = r.user /\ q.key = r.key /\ q.again = r.again /\ q.pending = r.pending
      /\ script' = [script EXCEPT ![b] = q] /\ script'[b] = q
  <2>1. tx[b] # NoTx
    BY <1>2
  <2>2. /\ q \in ScriptRuns
        /\ q.phase = "succeeded"
        /\ q.button = script[b].button /\ q.target = script[b].target
        /\ q.user = script[b].user /\ q.key = script[b].key /\ q.again = script[b].again
        /\ q.pending = script[b].pending
        /\ script' = [script EXCEPT ![b] = q] /\ script'[b] = q
    BY <1>3, <2>1, SucceededRun
  <2> QED
    BY <1>1, <2>2
<1>5. /\ Carries(tx[b], r) /\ Fired(b) /\ flag[b] /\ ~ r.again /\ r.key \in Keys
      /\ r.pending => Pending(b)
      /\ r.phase = "running"
  BY <1>1, <1>2, UnderWay
<1>6. r.button = "open" /\ candidate[r.target].linked # None /\ r.target \in Candidates
  BY <1>1, <1>2, <1>5, FiredTarget DEF Carries
<1>7. /\ tx' = [tx EXCEPT ![b] = NoTx] /\ tx'[b] = NoTx
      /\ UNCHANGED <<episode, candidate, events>>
  BY DEF Answer, UInv, IInv, TypeOK
<1>8. candidate[r.target].linked \in Opened
  BY <1>6 DEF UInv, LinksOpened
<1>9. Recorded(script[b])'
  BY <1>4, <1>6, <1>7, <1>8 DEF Recorded, Opened
<1>10. RunInv(b)'
  BY <1>1, <1>4, <1>5, <1>7, <1>9 DEF RunInv, Fired, Pending
<1>11. [Next]_vars
  BY DEF Next
<1>12. /\ flag' = [flag EXCEPT ![b] = flag[b]] /\ flag[b] \in BOOLEAN
       /\ UNCHANGED browser
       /\ q.phase = "running" <=> NoTx # NoTx
  BY <1>4, Parts
<1> QED
  BY <1>4, <1>7, <1>10, <1>11, <1>12, TxStep

LEMMA FailKeeps ==
  ASSUME UInv, NEW b \in Sessions, Fail(b)
  PROVE  UInv' /\ [Next]_vars
<1>1. /\ Rollback(b)
      /\ tx' = [tx EXCEPT ![b] = NoTx] /\ tx'[b] = NoTx
      /\ UNCHANGED <<episode, candidate, events>>
      /\ script' = [script EXCEPT ![b] = NoRun] /\ script'[b] = NoRun
      /\ UNCHANGED <<browser, flag>>
  BY DEF Fail, Rollback, UInv, IInv, TypeOK, UiTypeOK
<1>2. [Next]_vars
  BY <1>1 DEF Next
<1>3. RunInv(b)'
  BY <1>1, NoRunType DEF RunInv
<1>4. flag' = [flag EXCEPT ![b] = flag[b]] /\ (NoRun.phase = "running" <=> NoTx # NoTx)
  BY <1>1, NoRunType, Parts
<1> QED
  BY <1>1, <1>2, <1>3, <1>4, NoRunType, Parts, TxStep

LEMMA ReportKeeps ==
  ASSUME UInv, NEW b \in Sessions, Report(b)
  PROVE  UInv' /\ UNCHANGED vars
<1>1. PICK r : r = script[b]
  OBVIOUS
<1>2. /\ r.phase \in {"succeeded", "refused"} /\ r \in ScriptRuns /\ tx[b] = NoTx
      /\ Fired(b) /\ ~ r.again /\ ~ r.pending
      /\ UNCHANGED <<vars, browser>>
      /\ flag' = [flag EXCEPT ![b] = FALSE]
  BY <1>1, Parts DEF Report, UInv, RunInv
<1>3. PICK q : q = [r EXCEPT !.phase = IF r.phase = "succeeded" THEN "rerunning"
                                       ELSE "finishing"]
  OBVIOUS
<1>4. /\ q \in ScriptRuns /\ q.phase \in {"rerunning", "finishing"}
      /\ q.button = r.button /\ q.target = r.target /\ q.user = r.user
      /\ ~ q.again /\ ~ q.pending
  BY <1>2, <1>3 DEF ScriptRuns
<1>5. script' = [script EXCEPT ![b] = q] /\ script'[b] = q /\ tx'[b] = NoTx
  BY <1>1, <1>2, <1>3 DEF Report, UInv, UiTypeOK, vars
<1>6. RunInv(b)'
  BY <1>1, <1>2, <1>4, <1>5 DEF RunInv, Fired
<1>7. /\ browser' = [browser EXCEPT ![b] = browser[b]]
      /\ q.phase = "running" <=> tx[b] # NoTx
      /\ FALSE \in BOOLEAN
  BY <1>2, <1>4, Parts
<1> QED
  BY <1>2, <1>4, <1>5, <1>6, <1>7, Parts, PageStep

LEMMA FinishKeeps ==
  ASSUME UInv, NEW b \in Sessions, Finish(b)
  PROVE  UInv' /\ UNCHANGED vars
<1>1. /\ script[b].phase \in {"rerunning", "finishing"} /\ tx[b] = NoTx
      /\ script' = [script EXCEPT ![b] = NoRun]
      /\ flag' = [flag EXCEPT ![b] = flag[b]]
      /\ UNCHANGED vars
  BY Parts DEF Finish
<1>2. PICK old : old = browser[b]
  OBVIOUS
<1>3. PICK new : new = RenderPage(b, old.view, old.target, old.form)
  OBVIOUS
<1>4. new \in Pages /\ PageInv(new)
  <2>1. old.view \in Views /\ old.form \in Forms
    BY <1>2, Parts DEF Pages, Views
  <2> QED
    BY <1>2, <1>3, <2>1, Rendering
<1>5. PICK p : p = IF script[b].phase = "rerunning" THEN new ELSE old
  OBVIOUS
<1>6. p \in Pages /\ PageInv(p) /\ browser' = [browser EXCEPT ![b] = p]
  BY <1>2, <1>3, <1>4, <1>5, Parts DEF Finish
<1> QED
  BY <1>1, <1>6, Parts, RunEnds

LEMMA InterruptKeeps ==
  ASSUME UInv, NEW b \in Sessions, Interrupt(b)
  PROVE  UInv' /\ UNCHANGED vars
<1>1. PICK r : r = script[b]
  OBVIOUS
<1>2. PICK again : again = (r.phase \in {"succeeded", "refused"})
  OBVIOUS
<1>3. /\ RunScript(b, r.button, r.user, browser[b].form, again)
      /\ UNCHANGED <<vars, flag>>
      /\ again \in BOOLEAN
      /\ r.phase \in {"succeeded", "refused", "rerunning", "finishing"} /\ r.pending
  BY <1>1, <1>2 DEF Interrupt
<1>4. /\ Fired(b) /\ Pending(b) /\ tx[b] = NoTx
      /\ again => flag[b]
  BY <1>1, <1>2, <1>3, Parts DEF UInv, RunInv
<1>5. /\ r.button \in Rendered(browser[b])
      /\ NeedsUser(r.button) => r.user \in Approvers
      /\ r.button \in MaterialButtons => r.user # ActorOf[b]
      /\ r.button \in FormButtons => browser[b].form = "complete"
  BY <1>1, <1>3, <1>4 DEF Fired, Pending
<1>6. browser[b].form \in Forms
  BY Parts DEF UInv, UiTypeOK, Pages
<1>7. UInv'
  BY <1>3, <1>4, <1>5, <1>6, Firing
<1> QED
  BY <1>3, <1>7
------------------------------------------------------------------------------
(* The invariant *)

LEMMA UiInitStep == UiInit => UInv
<1> SUFFICES ASSUME UiInit PROVE UInv
  OBVIOUS
<1>1. Init /\ InterfaceInit
  BY DEF UiInit
<1>2. IInv
  BY <1>1, InitStep
<1>3. /\ \A b \in Sessions : tx[b] = NoTx
      /\ browser = [b \in Sessions |-> NoPage]
      /\ flag = [b \in Sessions |-> FALSE]
      /\ script = [b \in Sessions |-> NoRun]
  BY <1>1 DEF Init, InterfaceInit
<1>4. UiTypeOK
  BY <1>3, NoRunType, NoPageType DEF UiTypeOK
<1>5. LinksOpened /\ KeysFresh
  BY <1>1, <1>3 DEF Init, LinksOpened, KeysFresh
<1>6. \A b \in Sessions : PageInv(browser[b])
  BY <1>3, NoPageType
<1>7. \A b \in Sessions : RunInv(b)
  BY <1>3, NoRunType DEF RunInv
<1> QED
  BY <1>2, <1>4, <1>5, <1>6, <1>7 DEF UInv

\* Every step of the pages keeps the invariant, and is one of the service's.
LEMMA UiNextStep == UInv /\ [UiNext]_uivars => UInv' /\ [Next]_vars
<1> SUFFICES ASSUME UInv, [UiNext]_uivars PROVE UInv' /\ [Next]_vars
  OBVIOUS
<1>1. CASE UNCHANGED uivars
  <2>1. /\ UNCHANGED vars /\ UNCHANGED <<browser, flag, script>>
        /\ UNCHANGED <<episode, candidate, events, tx>>
    BY <1>1 DEF uivars, ui, vars
  <2>2. IInv' /\ UiTypeOK' /\ LinksOpened' /\ KeysFresh'
    <3>1. IInv'
      BY <2>1, NextStep DEF UInv
    <3> QED
      BY <2>1, <3>1 DEF UInv, UiTypeOK, LinksOpened, KeysFresh, Opened
  <2>3. \A b \in Sessions : PageInv(browser'[b])
    BY <2>1 DEF UInv
  <2>4. Grows
    BY <2>1 DEF Grows, Opened
  <2>5. \A b \in Sessions : RunInv(b)'
    BY <2>1, <2>4, OthersKeep
  <2> QED
    BY <2>1, <2>2, <2>3, <2>5 DEF UInv
<1>2. ASSUME NEW b \in Sessions, UserStep(b)
      PROVE  UInv' /\ [Next]_vars
  BY <1>2, UserKeeps
<1>3. ASSUME NEW b \in Sessions, ScriptStep(b)
      PROVE  UInv' /\ [Next]_vars
  <2>1. CASE Warn(b)
    BY <2>1, WarnKeeps
  <2>2. CASE RunCommand(b)
    BY <2>2, RunCommandKeeps
  <2>3. CASE Proceed(b)
    BY <2>3, FindActiveKeeps, FlushKeeps DEF Proceed
  <2>4. CASE Succeed(b)
    BY <2>4, CommitKeeps, AnswerKeeps DEF Succeed
  <2>5. CASE Fail(b)
    BY <2>5, FailKeeps
  <2>6. CASE Report(b)
    BY <2>6, ReportKeeps
  <2>7. CASE Finish(b)
    BY <2>7, FinishKeeps
  <2>8. CASE Interrupt(b)
    BY <2>8, InterruptKeeps
  <2> QED
    BY <1>3, <2>1, <2>2, <2>3, <2>4, <2>5, <2>6, <2>7, <2>8 DEF ScriptStep
<1> QED
  BY <1>1, <1>2, <1>3 DEF UiNext

\* Every reachable state of the pages satisfies the strengthened invariant.
THEOREM UiInvariance == UiSpec => []UInv
BY UiInitStep, UiNextStep, PTL DEF UiSpec

\* README, "lifecycle writes call the workflow service": whatever the users do
\* to stale pages, the tables and transactions move by steps of the service, so
\* that everything proved of the service holds under the pages.
THEOREM PagesUseService == UiSpec => Init /\ WritesUseService
<1>1. UiInit => Init
  BY DEF UiInit
<1>2. UInv /\ [UiNext]_uivars => [Next]_vars
  BY UiNextStep
<1> QED
  BY <1>1, <1>2, UiInvariance, PTL DEF UiSpec, WritesUseService

\* Pages, flags and script runs are of their types, and a run is in its command
\* exactly while its database session is open.
THEOREM UiTypeCorrect == UiSpec => []UiTypeOK
<1>1. UInv => UiTypeOK
  BY DEF UInv
<1> QED
  BY <1>1, UiInvariance, PTL

\* A click never reaches another episode than the one the page showed, however
\* the lists have changed between the rendering and the click.
THEOREM ClicksActOnShown == UiSpec => []ActsOnShown
<1>1. UInv => ActsOnShown
  BY DEF UInv, RunInv, Shown, ActsOnShown
<1> QED
  BY <1>1, UiInvariance, PTL

\* A second click that waits for the outcome of the first never runs the command.
THEOREM EarlyClicksNeverRun == UiSpec => []EarlyClickNeverRuns
<1>1. UInv => EarlyClickNeverRuns
  BY DEF UInv, RunInv, EarlyClickNeverRuns
<1> QED
  BY <1>1, UiInvariance, PTL

\* A success the page reports is in the tables: the fresh key rules a replay of
\* another command out, and an answered candidate has its link.
THEOREM ReportedIsRecorded == UiSpec => []SuccessIsRecorded
<1>1. UInv => SuccessIsRecorded
  BY DEF UInv, RunInv, Recorded, SuccessIsRecorded
<1> QED
  BY <1>1, UiInvariance, PTL
------------------------------------------------------------------------------
(* Refusals *)

\* The page's availability rules imply the service's validation of the state the
\* page has read.
LEMMA OfferedIsAccepted ==
  ASSUME UInv, NEW b \in Sessions, NEW r, r = script[b], r.phase = "fired",
         NEW form \in FieldsAtService(r), ~ Accepts(b, r.button, r.target, r.user, form)
  PROVE  /\ r.button # "open"
         /\ \/ episode[r.target].state # r.seen
            \/ r.button = "suppress" /\ r.offered = "complete" /\ form = "void"
<1>1. /\ browser[b] \in Pages /\ PageInv(browser[b])
      /\ r.button \in Rendered(browser[b])
      /\ NeedsUser(r.button) => r.user \in Approvers
      /\ r.button \in MaterialButtons => r.user # ActorOf[b]
      /\ r.seen = browser[b].state
      /\ r.button \in FormButtons => r.offered = "complete"
      /\ r.button = "open" => OpenableOrLinked(r.target)
  BY Parts DEF UInv, RunInv, Fired, Shown
<1>2. r.button # "open"
  BY <1>1 DEF Accepts, OpenableOrLinked, CandidateOpenAvailable
<1>3. ASSUME episode[r.target].state = r.seen, ~ (r.button = "suppress" /\ form = "void")
      PROVE  FALSE
  <2>1. PICK state : state = browser[b].state
    OBVIOUS
  <2>2. PICK x : x = r.button
    OBVIOUS
  <2>3. x \in AvailabilityForState(state, browser[b].agreed) /\ x \in Buttons /\ x # "open"
    BY <1>1, <1>2, <2>1, <2>2, RenderedButton DEF GovernedActions
  <2>4. /\ x = "assign" => state \in ActiveStates
        /\ x = "investigate" => state = "assigned"
        /\ x \in {"note", "agree"} => state = "investigating"
        /\ x = "revise" => state \in {"action_agreed", "monitoring"}
        /\ x = "monitor" => state = "action_agreed"
        /\ x \in {"observe", "resolve"} => state = "monitoring"
        /\ x \in {"close", "reopen"} => state = "resolved"
        /\ x = "suppress" => state \in ActiveStates \ {"suppressed"}
    BY <2>3 DEF AvailabilityForState
  <2>5. x \in MaterialButtons => IndependentApproval(<<ActorOf[b], r.user>>)
    BY <1>1, <2>2 DEF NeedsUser, IndependentApproval
  <2>6. /\ episode[r.target].state = state /\ ~ Accepts(b, x, r.target, r.user, form)
        /\ ~ (x = "suppress" /\ form = "void")
    BY <1>1, <1>3, <2>1, <2>2
  <2>7. CASE x \in {"assign", "agree", "suppress"}
    BY <2>4, <2>5, <2>6, <2>7
    DEF Accepts, StateTransitions, SuppressibleStates, MaterialButtons
  <2>8. CASE x \in {"note", "revise", "observe"}
    BY <2>4, <2>6, <2>8 DEF Accepts, AllowedStates, Category
  <2>9. CASE x \in {"investigate", "reopen", "monitor", "resolve", "close"}
    <3>1. <<state, TargetState(x)>> \in StateTransitions
      BY <2>4, <2>9 DEF TargetState, StateTransitions
    <3> QED
      BY <2>5, <2>6, <2>9, <3>1 DEF Accepts
  <2> QED
    BY <2>3, <2>7, <2>8, <2>9 DEF Buttons
<1> QED
  BY <1>1, <1>2, <1>3 DEF FormButtons

\* Only a script's own first step can refuse it.
LEMMA RefusedByService ==
  ASSUME UInv, UiNext, NEW b \in Sessions,
         script[b].phase = "fired", script'[b].phase = "refused"
  PROVE  \E form \in FieldsAtService(script[b]) :
           /\ ~ Accepts(b, script[b].button, script[b].target, script[b].user, form)
           /\ script'[b].form = form
<1>1. script \in [Sessions -> ScriptRuns]
  BY DEF UInv, UiTypeOK
<1>2. PICK c \in Sessions : UserStep(c) \/ ScriptStep(c)
  BY DEF UiNext
<1>3. script[c] # NoRun \/ c # b
  BY NoRunType
<1>4. CASE UserStep(c)
  <2>1. \/ UNCHANGED script
        \/ script[c] = NoRun /\ \E q : script' = [script EXCEPT ![c] = q]
        \/ script[c].phase # "fired" /\ \E q : script' = [script EXCEPT ![c] = q]
    BY <1>4 DEF UserStep, Show, Click, ClickAgain, Reload, RunScript
  <2> QED
    BY <1>1, <1>3, <2>1, NoRunType
<1>5. CASE ScriptStep(c)
  <2>1. CASE Warn(c)
    BY <1>1, <2>1, NoRunType DEF Warn
  <2>2. CASE RunCommand(c)
    <3>1. \/ \E form \in FieldsAtService(script[c]) :
               /\ ~ Accepts(c, script[c].button, script[c].target, script[c].user, form)
               /\ script' = [script EXCEPT ![c] =
                              [Running(script[c]) EXCEPT !.phase = "refused", !.form = form]]
          \/ \E k : script' = [script EXCEPT ![c] = [Running(script[c]) EXCEPT !.key = k]]
      BY <2>2 DEF RunCommand
    <3>2. c = b
      <4>1. \E q : script' = [script EXCEPT ![c] = q]
        BY <2>2 DEF RunCommand
      <4> QED
        BY <1>1, <4>1
    <3>3. ASSUME NEW k, script' = [script EXCEPT ![c] = [Running(script[c]) EXCEPT !.key = k]]
          PROVE  FALSE
      <4>1. PICK q : q = [Running(script[c]) EXCEPT !.key = k]
        OBVIOUS
      <4>2. q.phase = "running"
        BY <1>1, <4>1 DEF Running, ScriptRuns
      <4> QED
        BY <1>1, <3>2, <3>3, <4>1, <4>2
    <3>4. ASSUME NEW form \in FieldsAtService(script[c]),
                 script' = [script EXCEPT ![c] =
                             [Running(script[c]) EXCEPT !.phase = "refused", !.form = form]]
          PROVE  script'[b].form = form
      <4>1. PICK q : q = [Running(script[c]) EXCEPT !.phase = "refused", !.form = form]
        OBVIOUS
      <4>2. q.form = form
        BY <1>1, <4>1 DEF Running, ScriptRuns
      <4> QED
        BY <1>1, <3>2, <3>4, <4>1, <4>2
    <3> QED
      BY <3>1, <3>2, <3>3, <3>4
  <2>3. CASE Proceed(c)
    BY <2>3 DEF Proceed, ui
  <2>4. CASE Succeed(c)
    <3>1. \E q : script' = [script EXCEPT ![c] = q] /\ (c = b => q.phase = "succeeded")
      <4>1. PICK q : q = [script[c] EXCEPT !.phase = "succeeded"]
        OBVIOUS
      <4>2. script' = [script EXCEPT ![c] = q] /\ q.phase = "succeeded"
        BY <1>1, <2>4, <4>1 DEF Succeed, ScriptRuns
      <4> QED
        BY <4>2
    <3> QED
      BY <1>1, <3>1
  <2>5. CASE Fail(c)
    BY <1>1, <2>5, NoRunType DEF Fail
  <2>6. CASE Report(c) \/ Finish(c) \/ Interrupt(c)
    <3>1. script[c].phase # "fired" /\ \E q : script' = [script EXCEPT ![c] = q]
      BY <2>6 DEF Report, Finish, Interrupt, RunScript
    <3> QED
      BY <1>1, <3>1
  <2> QED
    BY <1>5, <2>1, <2>2, <2>3, <2>4, <2>5, <2>6 DEF ScriptStep
<1> QED
  BY <1>2, <1>4, <1>5

\* A command the page offered is refused only when the episode has changed since
\* the run that fired it had read it, or the fields of a suppression since the
\* page was rendered; an opening is never refused.
THEOREM RefusalsNeedChange == UiSpec => RefusalNeedsChange
<1>1. ASSUME UInv, UiNext, NEW b \in Sessions,
             script[b].phase = "fired", script'[b].phase = "refused"
      PROVE  /\ script[b].button # "open"
             /\ \/ episode[script[b].target].state # script[b].seen
                \/ /\ script[b].button = "suppress"
                   /\ script[b].offered = "complete"
                   /\ script'[b].form = "void"
  BY <1>1, RefusedByService, OfferedIsAccepted
<1>2. UInv /\ [UiNext]_uivars =>
        [\A b \in Sessions :
            LET r == script[b] IN
            r.phase = "fired" /\ script'[b].phase = "refused" =>
              /\ r.button # "open"
              /\ \/ episode[r.target].state # r.seen
                 \/ r.button = "suppress" /\ r.offered = "complete" /\ script'[b].form = "void"]_uivars
  BY <1>1
<1> QED
  BY <1>2, UiInvariance, PTL DEF UiSpec, RefusalNeedsChange
==============================================================================
