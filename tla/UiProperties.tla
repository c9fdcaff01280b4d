----------------------------- MODULE UiProperties -----------------------------
(***************************************************************************)
(* What must hold of the application, whatever its users click and when.   *)
(***************************************************************************)
EXTENDS UserInterface

Names == Candidates \cup Episodes \cup {None}

Pages ==
  [view : {"tower", "detail"}, labels : SUBSET (Candidates \cup (Episodes \X SupportedStates)),
   target : Names, selected : Episodes \cup {None}, state : SupportedStates \cup {None},
   owner : Users \cup {None}, agreed : BOOLEAN, form : Forms, locked : BOOLEAN]

ScriptRuns ==
  [phase : {"idle", "fired", "running", "succeeded", "refused", "rerunning", "finishing"},
   button : Buttons \cup {None}, target : Names, user : Users \cup {None},
   form : Forms, key : Keys \cup {None}, shown : Names, kept : BOOLEAN, offered : Forms,
   seen : SupportedStates \cup {None}, again : BOOLEAN, pending : BOOLEAN]

\* Every page and every script run has the parts of its type, and a run is in
\* its command exactly while its database session is open.
UiTypeOK ==
  /\ browser \in [Sessions -> Pages]
  /\ flag \in [Sessions -> BOOLEAN]
  /\ script \in [Sessions -> ScriptRuns]
  /\ \A b \in Sessions : script[b].phase = "running" <=> tx[b] # NoTx

\* README: lifecycle writes call the workflow service.  Whatever users do to a
\* stale page, the tables and transactions move by steps of the service only.
WritesUseService == [][Next]_vars

\* The rules of the pages (availability, independent approver, the fields of a
\* suppression) and the validation of the service (service.py 418-424, 690-714)
\* are written twice: a command is refused only if, after the page that offered
\* it was rendered, another session changed the episode, or a field of the
\* suppression was emptied or its expiry passed.
RefusalNeedsChange ==
  [][\A b \in Sessions :
        LET r == script[b] IN
        r.phase = "fired" /\ script'[b].phase = "refused" =>
          /\ r.button # "open"
          /\ \/ episode[r.target].state # r.seen
             \/ r.button = "suppress" /\ r.offered = "complete" /\ script'[b].form = "void"]_uivars

\* A command goes to what the page showed when its button was clicked, although
\* the lists are read again before it fires.  Candidates are the exception: the
\* selection is forgotten when the list has changed.
ActsOnShown ==
  \A b \in Sessions :
    script[b].phase = "fired" =>
      \/ script[b].target = script[b].shown
      \/ script[b].button = "open" /\ ~ script[b].kept

\* Event v does what button x asks for, with u the owner selected.
DoneBy(v, x, u) ==
  CASE x = "assign" -> v.owner = u
    [] x \in {"note", "revise", "observe"} -> v.category = Category(x)
    [] x = "agree" -> v.category = "action_agreement"
    [] x = "suppress" -> v.to = "suppressed"
    [] OTHER -> v.to = TargetState(x)

\* What the page reports as done was done: the event under the key of the click
\* is one of the command that was clicked, although the service answers a known
\* key with whatever it recorded; a candidate has its link.
SuccessIsRecorded ==
  \A b \in Sessions :
    LET r == script[b] IN
    r.phase = "succeeded" =>
      IF r.button = "open" THEN candidate[r.target].linked \in Opened
      ELSE \E v \in Keyed(r.target, CommandKey(r.key)) : DoneBy(v, r.button, r.user)

\* A second click that waits for the outcome of the first never runs the command
\* again: its run finds the flag on (app.py 577-595).  One that comes when the
\* outcome has been reported does, if its run still renders the button.
EarlyClickNeverRuns ==
  \A b \in Sessions : script[b].again => script[b].phase = "fired"

\* A click is answered: its run is warned, fails or reports the outcome of its
\* command, although the command waits for rows of other sessions and the user
\* goes on clicking.
ClicksAnswered ==
  \A b \in Sessions :
    script[b].phase = "fired" ~> script[b].phase \in {"idle", "rerunning", "finishing"}
==============================================================================
