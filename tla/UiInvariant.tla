------------------------------ MODULE UiInvariant ------------------------------
(***************************************************************************)
(* The inductive invariant behind the safety properties of the pages: how  *)
(* a page, the script run it has started and the transaction of that run's *)
(* command fit together, while other sessions change the tables.           *)
(***************************************************************************)
EXTENDS UiProperties, WorkflowInvariant

NeedsUser(x) == x = "assign" \/ x \in MaterialButtons

\* A tower page with candidates has one of them selected, and the detail page
\* shows what the session state remembers.
PageInv(page) ==
  IF page.view = "tower"
  THEN /\ page.labels \subseteq Candidates
       /\ page.labels # {} => page.target \in page.labels
  ELSE /\ page.labels \subseteq Episodes \X SupportedStates
       /\ page.target = page.selected

\* A candidate that was once offered is, or has since been linked.
OpenableOrLinked(c) ==
  candidate[c].disposition = "opening-eligible-no-workflow" \/ candidate[c].linked # None

LinksOpened == \A c \in Candidates : candidate[c].linked \in Opened \cup {None}

\* The key of a command under way is in no event and no other session.
KeysFresh ==
  /\ \A s \in Sessions : tx[s] # NoTx => \A v \in events : v.key[1] # tx[s].key[1]
  /\ \A s, r \in Sessions :
       s # r /\ tx[s] # NoTx /\ tx[r] # NoTx => tx[s].key[1] # tx[r].key[1]

\* The operation of transaction t is the one of button x.
Performs(t, x, u) ==
  CASE x = "assign" -> t.op = "assign" /\ t.owner = u
    [] x \in {"note", "revise", "observe"} -> t.op = "action" /\ t.category = Category(x)
    [] x = "agree" -> t.op = "agreement" /\ t.category = "action_agreement"
    [] x = "suppress" -> t.op = "suppress" /\ t.to = "suppressed"
    [] OTHER -> t.op = "transition" /\ t.to = TargetState(x)

\* The transaction is that of the button.
Carries(t, r) ==
  /\ t # NoTx
  /\ t.key = CommandKey(r.key)
  /\ IF r.button = "open"
     THEN /\ t.op \in {"open", "link"}
          /\ t.candidate = r.target
          /\ t.phase = "replayed" => candidate[r.target].linked # None
     ELSE /\ t.phase \in {"read", "flushed"}
          /\ t.episode = r.target
          /\ t.op \notin {"open", "link"}
          /\ Performs(t, r.button, r.user)

\* The rows to insert have the key of the command, one of them as its own.
DraftsCarry(t, r) ==
  t.phase = "flushed" =>
    /\ \A i \in 1 .. Len(t.drafts) : t.drafts[i].key[1] = t.key[1]
    /\ r.button # "open" =>
         \E i \in 1 .. Len(t.drafts) :
           t.drafts[i].key = t.key /\ DoneBy(t.drafts[i], r.button, r.user)

Recorded(r) ==
  IF r.button = "open" THEN candidate[r.target].linked \in Opened
  ELSE \E v \in Keyed(r.target, CommandKey(r.key)) : DoneBy(v, r.button, r.user)

\* A run keeps to the page it has rendered.
Fired(b) ==
  LET r == script[b] IN
  /\ r.button \in Rendered(browser[b])
  /\ r.target = browser[b].target
  /\ NeedsUser(r.button) => r.user \in Approvers
  /\ r.button \in MaterialButtons => r.user # ActorOf[b]

Shown(b) ==
  LET r == script[b] IN
  /\ r.seen = browser[b].state
  /\ r.target = r.shown \/ (r.button = "open" /\ ~ r.kept)
  /\ r.button \in FormButtons => r.offered = "complete"
  /\ r.button = "open" => OpenableOrLinked(r.target)

\* A click is on a button that the browser lets be clicked.
Pending(b) == script[b].button \in FormButtons => browser[b].form = "complete"

RunInv(b) ==
  LET r == script[b] IN
  /\ r.phase # "idle" => Fired(b)
  /\ r.phase = "fired" => Shown(b)
  /\ r.again => r.phase = "fired" /\ flag[b]
  /\ r.pending => Pending(b)
  /\ r.phase \in {"running", "succeeded", "refused"} => flag[b]
  /\ r.phase \in {"running", "succeeded"} => r.key \in Keys
  /\ r.phase = "running" => Carries(tx[b], r) /\ DraftsCarry(tx[b], r)
  /\ r.phase # "running" => tx[b] = NoTx
  /\ r.phase = "succeeded" => Recorded(r)

UInv ==
  /\ IInv
  /\ UiTypeOK
  /\ LinksOpened
  /\ KeysFresh
  /\ \A b \in Sessions : PageInv(browser[b])
  /\ \A b \in Sessions : RunInv(b)
==============================================================================
