---------------------------- MODULE EpisodeStates ----------------------------
(***************************************************************************)
(* The lifecycle vocabulary of an exception episode: the states the        *)
(* database accepts and the transition matrix the workflow service         *)
(* enforces.  Shared by the abstract lifecycle and by the service model.   *)
(***************************************************************************)

\* Fault: closed counts as active.
AllStates == {"open", "assigned", "investigating", "action_agreed",
              "monitoring", "resolved", "suppressed", "closed"}

\* Every state but closed counts as active, suppressed and resolved included.
ActiveStates == {"open", "assigned", "investigating", "action_agreed",
                 "monitoring", "resolved", "suppressed"}

TerminalStates == {"closed"}

SupportedStates == ActiveStates \cup TerminalStates

\* The matrix transition_episode checks.  It has no pair that starts or ends
\* in "suppressed": suppress_episode enters that state on its own authority.
StateTransitions ==
  { <<"open", "assigned">>, <<"assigned", "investigating">>,
    <<"investigating", "action_agreed">>, <<"action_agreed", "monitoring">>,
    <<"monitoring", "resolved">>, <<"resolved", "closed">>,
    <<"resolved", "investigating">> }

\* The states suppress_episode accepts as the prior state.
SuppressibleStates == ActiveStates \ {"suppressed"}

\* Transitions that need the approval of a second person.
MaterialStates == {"resolved", "closed", "suppressed"}
==============================================================================
