---------------------------- MODULE EpisodeJournal ----------------------------
(***************************************************************************)
(* What is left of EpisodeLifecycle when commands overlap.  A command      *)
(* decides by the state it has read, and other commands may write before   *)
(* it does: the histories grow by steps that were allowed from a state the *)
(* episode is in or has been in, but they still start with "open", nothing *)
(* but a second closing follows "closed", and a line has one unfinished    *)
(* episode.  WorkflowService implements this for any number of sessions.   *)
(***************************************************************************)
EXTENDS EpisodeLifecycle, Naturals

\* What a command may have seen.
Been(e) == {states[e][i] : i \in 1 .. Len(states[e])}

Record(e, to) == Enter(e, to) /\ (Current(e) = "closed" => to = "closed")

\* A step of the matrix, from the state the command has seen.
AdvanceFrom(e, from, to) ==
  /\ <<from, to>> \in StateTransitions
  /\ Record(e, to)
  /\ UNCHANGED <<line, owners>>

SuppressFrom(e, from) ==
  /\ from \in SuppressibleStates
  /\ Record(e, "suppressed")
  /\ UNCHANGED <<line, owners>>

\* Who has seen an episode that was not closed may assign it when it is closed.
AssignFrom(e, from, o) ==
  /\ from \in ActiveStates
  /\ owners' = [owners EXCEPT ![e] = Append(@, o)]
  /\ IF from = "open" THEN Record(e, "assigned") ELSE UNCHANGED states
  /\ UNCHANGED line

JournalNext ==
  \E e \in Episodes :
    \/ \E l \in Lines : Open(e, l)
    \/ \E from \in Been(e) :
         \/ \E to \in SupportedStates : AdvanceFrom(e, from, to)
         \/ SuppressFrom(e, from)
         \/ \E o \in Owners : AssignFrom(e, from, o)

JournalSpec == Init /\ [][JournalNext]_vars
==============================================================================
