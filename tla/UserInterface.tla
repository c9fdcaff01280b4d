---------------------------- MODULE UserInterface ----------------------------
(***************************************************************************)
(* The Streamlit application over the workflow service.                    *)
(*                                                                         *)
(* A browser session shows a page that was rendered from committed rows.   *)
(* Any interaction runs the script again from the top: it reads the        *)
(* database anew, and the button that was clicked fires if this run renders *)
(* it.  _run_command then calls the service in a database session of its   *)
(* own, which is named after the browser session: a session runs one       *)
(* command at a time.                                                      *)
(*                                                                         *)
(* Streamlit itself is not in the repository.  What is used of it: a button *)
(* is identified by its label, a selectbox without a key by its options and *)
(* default, so that one whose options changed is a new one and forgets the *)
(* selection; "disabled" is up to the browser; and an interaction during a *)
(* run ends that run at its next call of Streamlit.                        *)
(***************************************************************************)
EXTENDS WorkflowService

CONSTANTS
  ActorOf,  \* browser session -> the simulated actor chosen in its sidebar
  Rank,     \* the place of candidates and episodes in the lists (by score)
  PageKeys  \* the keys a uuid4 may give to the commands of the pages

ASSUME InterfaceAssumption ==
  /\ ActorOf \in [Sessions -> Approvers]
  /\ Rank \in [Candidates \cup Episodes -> Nat]
  /\ PageKeys \subseteq Keys

VARIABLES
  browser,  \* the page each browser session shows, and its selected_episode_id
  flag,     \* st.session_state["scecs_command_processing"]
  script    \* the script run that a click has started

ui == <<browser, flag, script>>
uivars == <<vars, ui>>
------------------------------------------------------------------------------
(* Buttons *)

Buttons == {"open", "assign", "investigate", "note", "agree", "revise", "monitor",
            "observe", "resolve", "close", "reopen", "suppress"}

MaterialButtons == {"resolve", "close", "suppress"}

\* Buttons next to fields that must not be blank.
FormButtons ==
  {"note", "agree", "revise", "observe", "resolve", "close", "reopen", "suppress"}

\* What is in those fields: texts and a future expiry; a text of spaces only,
\* which the page takes for blank and the service does not; or an empty text or
\* an expiry that has passed.
Forms == {"complete", "spaces", "void"}

\* Fault: an investigation is offered before anybody owns the exception.
EagerAvailability(state, agreed) ==
  {x \in Buttons :
     \/ x = "assign" /\ state \in ActiveStates
     \/ x = "investigate" /\ state \in {"open", "assigned"}}

AvailabilityForState(state, agreed) ==
  {x \in Buttons :
     \/ x = "assign" /\ state \in ActiveStates
     \/ x = "investigate" /\ state = "assigned"
     \/ x \in {"note", "agree"} /\ state = "investigating"
     \/ x = "revise" /\ state \in {"action_agreed", "monitoring"} /\ agreed
     \/ x = "monitor" /\ state = "action_agreed"
     \/ x \in {"observe", "resolve"} /\ state = "monitoring"
     \/ x \in {"close", "reopen"} /\ state = "resolved"
     \/ x = "suppress" /\ state \in ActiveStates \ {"suppressed"}}

\* Closed and suppressed exceptions are read-only, whatever is available.
GovernedActions(state, agreed) ==
  IF state \in {"closed", "suppressed"} THEN {} ELSE AvailabilityForState(state, agreed)

Rendered(page) ==
  CASE page.view = "tower" -> IF page.labels = {} THEN {} ELSE {"open"}
    [] page.view = "detail" -> IF page.target = None THEN {}
                               ELSE GovernedActions(page.state, page.agreed)

IndependentApproverAvailable(actor, approver) == approver # actor

AssignmentOwnerChanged(current, selected) == current # selected

\* Fault: the suppression button ignores the fields next to it.
EnabledUnfilled(b, x, u) ==
  LET page == browser[b] IN
  /\ x \in Rendered(page)
  /\ ~ page.locked
  /\ x \in FormButtons \ {"suppress"} => page.form = "complete"
  /\ x = "assign" => AssignmentOwnerChanged(page.owner, u)
  /\ x \in MaterialButtons => IndependentApproverAvailable(ActorOf[b], u)

\* The browser lets a button be clicked; u is the owner or approver selected.
Enabled(b, x, u) ==
  LET page == browser[b] IN
  /\ x \in Rendered(page)
  /\ ~ page.locked
  /\ x \in FormButtons => page.form = "complete"
  /\ x = "assign" => AssignmentOwnerChanged(page.owner, u)
  /\ x \in MaterialButtons => IndependentApproverAvailable(ActorOf[b], u)
------------------------------------------------------------------------------
(* Reading and rendering *)

CandidateOpenAvailable(c) ==
  candidate[c].disposition = "opening-eligible-no-workflow" /\ candidate[c].linked = None

HasActionAgreement(e) == \E v \in EventsOf(e) : v.category = "action_agreement"

\* What the options of a page's selectbox say: candidates, or every episode
\* with its state.
Options(view) ==
  IF view = "tower" THEN {c \in Candidates : CandidateOpenAvailable(c)}
  ELSE {<<e, episode[e].state>> : e \in Opened}

Listed(view, labels) == IF view = "tower" THEN labels ELSE {l[1] : l \in labels}

First(view, labels) ==
  IF labels = {} THEN None
  ELSE CHOOSE x \in Listed(view, labels) : \A y \in Listed(view, labels) : Rank[x] <= Rank[y]

\* Fault: the detail page starts at the first exception of its queue, too.
ForgetfulDefault(view, labels, selected) == First(view, labels)

\* The detail page keeps its exception in the session state.
Default(view, labels, selected) ==
  IF view = "detail" /\ selected # None THEN selected ELSE First(view, labels)

NoPage == [view |-> "tower", labels |-> {}, target |-> None, selected |-> None,
           state |-> None, owner |-> None, agreed |-> FALSE, form |-> "complete",
           locked |-> FALSE]

\* A run that renders view for a user who has selected wanted on the old page
\* and filled its fields in with form.  The default index of the detail page is
\* part of the selectbox's identity, too; it is that of the remembered exception,
\* so that a selection it makes the page forget shows that exception again, as
\* when wanted is the exception on the old page.
RenderPage(b, view, wanted, form) ==
  LET old == browser[b]
      labels == Options(view)
      target == IF view = old.view /\ labels = old.labels THEN wanted
                ELSE Default(view, labels, old.selected)
      page == [NoPage EXCEPT !.view = view, !.labels = labels, !.target = target,
                             !.selected = old.selected, !.locked = flag[b]]
  IN IF view = "tower" \/ target = None THEN page
     ELSE [page EXCEPT !.selected = target, !.state = episode[target].state,
                       !.owner = episode[target].owner, !.form = form,
                       !.agreed = HasActionAgreement(target)]

NoRun == [phase |-> "idle", button |-> None, target |-> None, user |-> None,
          form |-> "complete", key |-> None, shown |-> None, kept |-> TRUE,
          offered |-> "complete", seen |-> None, again |-> FALSE, pending |-> FALSE]

TakenKeys == {v.key[1] : v \in events} \cup {tx[s].key[1] : s \in {r \in Sessions : tx[r] # NoTx}}

\* Fault: a key without the random part.
RepeatedKeys == PageKeys

\* Every command gets a key with a fresh uuid4.
FreshKeys == PageKeys \ TakenKeys

\* Bound: users act only while there is a key left for one more command.
KeyLeft ==
  Cardinality({s \in Sessions : script[s].phase = "fired" \/ script[s].pending})
    < Cardinality(FreshKeys)

\* The user opens a page, selects an entry of the one that is open or fills in
\* its fields.
Show(b, view, wanted, form) ==
  /\ script[b] = NoRun
  /\ KeyLeft
  /\ wanted \in IF view = browser[b].view
                THEN Listed(view, browser[b].labels) \cup {browser[b].target} ELSE {None}
  /\ browser' = [browser EXCEPT ![b] = RenderPage(b, view, wanted, form)]
  /\ UNCHANGED <<vars, flag, script>>

\* A run for a click on x: the button fires if this run renders it, be it as one
\* the browser will not let anybody click any more.
RunScript(b, x, u, form, again) ==
  LET old == browser[b]
      page == RenderPage(b, old.view, old.target, form)
  IN /\ browser' = [browser EXCEPT ![b] = page]
     /\ script' = [script EXCEPT ![b] =
          IF x \in Rendered(page)
          THEN [NoRun EXCEPT !.phase = "fired", !.button = x, !.target = page.target,
                             !.user = IF x = "assign" \/ x \in MaterialButtons THEN u ELSE None,
                             !.form = form, !.shown = old.target, !.offered = old.form,
                             !.seen = page.state, !.kept = page.labels = old.labels,
                             !.again = again]
          ELSE NoRun]

\* The fields may have changed since the page was rendered: the user has emptied
\* one and clicked at once, or the expiry has passed.
Click(b, x, u, form) ==
  /\ script[b] = NoRun
  /\ KeyLeft
  /\ Enabled(b, x, u)
  /\ x \notin FormButtons => form = browser[b].form
  /\ RunScript(b, x, u, form, FALSE)
  /\ UNCHANGED <<vars, flag>>

\* A second click on the button, while the run of the first one goes on.
ClickAgain(b) ==
  /\ script[b].phase \in {"running", "succeeded", "refused", "rerunning", "finishing"}
  /\ KeyLeft
  /\ Enabled(b, script[b].button, script[b].user)
  /\ script' = [script EXCEPT ![b].pending = TRUE]
  /\ UNCHANGED <<vars, browser, flag>>
------------------------------------------------------------------------------
(* Commands *)

TargetState(x) ==
  CASE x \in {"investigate", "reopen"} -> "investigating"
    [] x = "monitor" -> "monitoring"
    [] x = "resolve" -> "resolved"
    [] x = "close"   -> "closed"

Category(x) ==
  CASE x = "note"    -> "investigation_note"
    [] x = "revise"  -> "action_update"
    [] x = "observe" -> "monitoring_observation"

\* What the service validates in its first step; it raises a WorkflowError else.
\* Of the fields it looks at those of a suppression only.
Accepts(b, x, target, u, form) ==
  CASE x = "open" -> CandidateOpenAvailable(target) \/ candidate[target].linked # None
    [] x = "assign" -> episode[target].state \in ActiveStates
    [] x \in {"note", "revise", "observe"} -> episode[target].state \in AllowedStates(Category(x))
    [] x = "agree" -> <<episode[target].state, "action_agreed">> \in StateTransitions
    [] x = "suppress" -> /\ episode[target].state \in SuppressibleStates
                         /\ form # "void"
                         /\ IndependentApproval(<<ActorOf[b], u>>)
    [] OTHER -> /\ <<episode[target].state, TargetState(x)>> \in StateTransitions
                /\ x \in MaterialButtons => IndependentApproval(<<ActorOf[b], u>>)

Submit(b, x, target, u, k) ==
  \/ x = "open" /\ OpenEpisodeFromCandidate(b, target, k)
  \/ x = "assign" /\ AssignEpisode(b, target, u, k)
  \/ x \in {"note", "revise", "observe"} /\ AppendAction(b, target, Category(x), k)
  \/ x = "agree" /\ CreateActionAgreement(b, target, k)
  \/ x = "suppress" /\ SuppressEpisode(b, target, <<ActorOf[b], u>>, k)
  \/ x \in {"resolve", "close"} /\ TransitionEpisode(b, target, TargetState(x), <<ActorOf[b], u>>, k)
  \/ x \in {"investigate", "reopen", "monitor"} /\ TransitionEpisode(b, target, TargetState(x), None, k)

\* _run_command while the flag is on: "A transaction is already processing."
Warn(b) ==
  /\ script[b].phase = "fired"
  /\ flag[b]
  /\ script' = [script EXCEPT ![b] = NoRun]
  /\ UNCHANGED <<vars, browser, flag>>

\* What of a run its command still depends on.
Running(r) ==
  [r EXCEPT !.phase = "running", !.form = "complete", !.shown = None, !.kept = TRUE,
            !.offered = "complete", !.seen = None]

\* The fields when the service looks at them: an expiry may pass on the way.
FieldsAtService(r) == IF r.button = "suppress" THEN {r.form, "void"} ELSE {r.form}

\* _run_command up to the service's first step.
RunCommand(b) ==
  LET r == script[b] IN
  /\ r.phase = "fired"
  /\ ~ flag[b]
  /\ flag' = [flag EXCEPT ![b] = TRUE]
  /\ \E form \in FieldsAtService(r) :
       \/ /\ Accepts(b, r.button, r.target, r.user, form)
          /\ \E k \in FreshKeys :
               /\ Submit(b, r.button, r.target, r.user, k)
               /\ script' = [script EXCEPT ![b] = [Running(r) EXCEPT !.key = k]]
       \/ /\ ~ Accepts(b, r.button, r.target, r.user, form)
          /\ script' = [script EXCEPT ![b] =
                          [Running(r) EXCEPT !.phase = "refused", !.form = form]]
          /\ UNCHANGED vars
  /\ UNCHANGED browser

\* The command goes on in the service.
Proceed(b) ==
  /\ FindActiveEpisode(b) \/ Flush(b)
  /\ UNCHANGED ui

Succeed(b) ==
  /\ Commit(b) \/ Answer(b)
  /\ script' = [script EXCEPT ![b].phase = "succeeded"]
  /\ UNCHANGED <<browser, flag>>

\* Fault: the run survives its transaction.
KeepRunning(b) ==
  /\ Rollback(b)
  /\ UNCHANGED ui

\* A database error is neither a WorkflowError nor a ValueError: it ends the
\* run, and the flag stays on.
Fail(b) ==
  /\ Rollback(b)
  /\ script' = [script EXCEPT ![b] = NoRun]
  /\ UNCHANGED <<browser, flag>>

\* st.success or st.error, after which the flag is reset ...
Report(b) ==
  /\ script[b].phase \in {"succeeded", "refused"}
  /\ ~ script[b].pending
  /\ flag' = [flag EXCEPT ![b] = FALSE]
  /\ script' = [script EXCEPT ![b].phase =
                  IF @ = "succeeded" THEN "rerunning" ELSE "finishing"]
  /\ UNCHANGED <<vars, browser>>

\* ... and st.rerun(), which reads the database again; after an error the run
\* goes on with the page it has read.
Finish(b) ==
  /\ script[b].phase \in {"rerunning", "finishing"}
  /\ ~ script[b].pending
  /\ script' = [script EXCEPT ![b] = NoRun]
  /\ browser' = [browser EXCEPT ![b] =
       IF script[b].phase = "rerunning" THEN RenderPage(b, @.view, @.target, @.form) ELSE @]
  /\ UNCHANGED <<vars, flag>>

\* Fault: the flag is reset however the run ends.
InterruptResets(b) ==
  /\ script[b].phase \in {"succeeded", "refused", "rerunning", "finishing"}
  /\ script[b].pending
  /\ RunScript(b, script[b].button, script[b].user, browser[b].form,
               script[b].phase \in {"succeeded", "refused"})
  /\ flag' = [flag EXCEPT ![b] = FALSE]
  /\ UNCHANGED vars

\* A click that waits ends the run at its next call of Streamlit, with the flag
\* as it is there, and starts the next one.
Interrupt(b) ==
  /\ script[b].phase \in {"succeeded", "refused", "rerunning", "finishing"}
  /\ script[b].pending
  /\ RunScript(b, script[b].button, script[b].user, browser[b].form,
               script[b].phase \in {"succeeded", "refused"})
  /\ UNCHANGED <<vars, flag>>

\* The user reloads the page in the browser: a new session state.  Bound: only
\* a user whose page is stuck does so.
Reload(b) ==
  /\ script[b] = NoRun
  /\ flag[b]
  /\ KeyLeft
  /\ browser' = [browser EXCEPT ![b] = NoPage]
  /\ flag' = [flag EXCEPT ![b] = FALSE]
  /\ UNCHANGED <<vars, script>>
------------------------------------------------------------------------------
InterfaceInit ==
  /\ browser = [b \in Sessions |-> NoPage]
  /\ flag = [b \in Sessions |-> FALSE]
  /\ script = [b \in Sessions |-> NoRun]

UiInit == Init /\ InterfaceInit

UserStep(b) ==
  \/ \E view \in {"tower", "detail"}, x \in Candidates \cup Episodes \cup {None}, form \in Forms :
       Show(b, view, x, form)
  \/ \E x \in Buttons, u \in Approvers, form \in Forms : Click(b, x, u, form)
  \/ ClickAgain(b)
  \/ Reload(b)

ScriptStep(b) ==
  \/ Warn(b) \/ RunCommand(b) \/ Proceed(b) \/ Succeed(b) \/ Fail(b)
  \/ Report(b) \/ Finish(b) \/ Interrupt(b)

UiNext == \E b \in Sessions : UserStep(b) \/ ScriptStep(b)

UiSpec == UiInit /\ [][UiNext]_uivars

\* The steps of a run that wait for no other session.  Of the failures only the
\* one that is certain to come is among them.
Unhindered(b) ==
  \/ Warn(b) \/ RunCommand(b) \/ Report(b) \/ Finish(b) \/ Interrupt(b)
  \/ Proceed(b) /\ FindActiveEpisode(b)
  \/ Succeed(b) /\ Answer(b)
  \/ Fail(b) /\ Refuse(b)

\* The server runs each script on until it ends, and the database grants row
\* locks in the order of the requests, so that one that is free again and again
\* is obtained.  Nothing makes a user act, or a database fail.
UiFairness ==
  \A b \in Sessions :
    /\ WF_uivars(Unhindered(b))
    /\ SF_uivars(Proceed(b) /\ Flush(b))
    /\ SF_uivars(Succeed(b) /\ Commit(b))
==============================================================================
