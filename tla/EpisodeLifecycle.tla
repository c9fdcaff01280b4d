--------------------------- MODULE EpisodeLifecycle ---------------------------
(***************************************************************************)
(* What the exception workflow promises, one episode at a time: a history  *)
(* of states that starts at "open" and only ever grows along the           *)
(* transition matrix or into a suppression, a history of owners, and at    *)
(* most one unfinished episode for a purchase-order line and site.  No     *)
(* sessions, no keys, no rows: WorkflowService implements this when its    *)
(* commands run one at a time.                                             *)
(***************************************************************************)
EXTENDS EpisodeStates, Sequences

CONSTANTS
  Episodes,   \* identifiers an episode can get
  Lines,      \* a purchase-order line at a site
  Owners      \* users an episode can be assigned to

VARIABLES
  line,       \* the set of <<episode, line>> pairs opened so far
  states,     \* episode -> the states it has been in, oldest first
  owners      \* episode -> the users it was assigned to, oldest first

vars == <<line, states, owners>>

Opened(e) == states[e] # << >>
Current(e) == states[e][Len(states[e])]
Unfinished(e) == Opened(e) /\ Current(e) # "closed"

Init ==
  /\ line = {}
  /\ states = [e \in Episodes |-> << >>]
  /\ owners = [e \in Episodes |-> << >>]

Enter(e, to) == states' = [states EXCEPT ![e] = Append(@, to)]

\* An episode opens on a line that has no unfinished episode.
Open(e, l) ==
  /\ ~ Opened(e)
  /\ \A opened \in line : opened[2] = l => ~ Unfinished(opened[1])
  /\ line' = line \cup {<<e, l>>}
  /\ Enter(e, "open")
  /\ UNCHANGED owners

\* A step of the matrix, from the state the episode really is in.
Advance(e, to) ==
  /\ Opened(e)
  /\ <<Current(e), to>> \in StateTransitions
  /\ Enter(e, to)
  /\ UNCHANGED <<line, owners>>

Suppress(e) ==
  /\ Opened(e)
  /\ Current(e) \in SuppressibleStates
  /\ Enter(e, "suppressed")
  /\ UNCHANGED <<line, owners>>

\* Assigning an open episode also moves it to "assigned", in the same step.
Assign(e, o) ==
  /\ Unfinished(e)
  /\ owners' = [owners EXCEPT ![e] = Append(@, o)]
  /\ IF Current(e) = "open" THEN Enter(e, "assigned") ELSE UNCHANGED states
  /\ UNCHANGED line

Next ==
  \E e \in Episodes :
    \/ \E l \in Lines : Open(e, l)
    \/ \E to \in SupportedStates : Advance(e, to)
    \/ Suppress(e)
    \/ \E o \in Owners : Assign(e, o)

Spec == Init /\ [][Next]_vars
==============================================================================
