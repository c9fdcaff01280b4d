----------------------------- MODULE OpeningDesk -----------------------------
(***************************************************************************)
(* Where scoring and the workflow meet: scoring inserts candidates, the    *)
(* workflow opens episodes for them and closes these again.  ScoringRun    *)
(* and WorkflowService each know one side in detail and implement this.    *)
(*                                                                         *)
(* A command decides by what it has read.  What it may have read is an     *)
(* offer: a candidate that had no episode, together with the active        *)
(* episode of its line or None.  An offer is good for ever, so that a      *)
(* candidate may get a second link and a closed episode another candidate. *)
(* What is not offered never happens: a candidate below the threshold, or  *)
(* one that scoring linked, opens nothing, and an episode that was closed  *)
(* before a candidate came is not linked to it.                            *)
(***************************************************************************)
CONSTANTS
  Candidates,
  Lines,
  LineOf,    \* candidate -> its line
  Episodes,
  None

VARIABLES
  disposition,  \* of each candidate, "absent" before it is inserted
  link,         \* the episode a candidate is linked to, or None
  line,         \* the line of each episode that was opened, as a set of pairs
  active,       \* the episodes that are not closed
  offers

vars == <<disposition, link, line, active, offers>>
------------------------------------------------------------------------------
Unlinked == {"opening-eligible-no-workflow", "below-opening-threshold"}
Dispositions ==
  {"absent", "linked-existing-active-episode", "opened-new-episode"} \cup Unlinked

On(l) == {e \in Episodes : <<e, l>> \in line}

\* What may be read of these candidates, as things are.
OffersOf(C) ==
  {o \in C \X (Episodes \cup {None}) : o[2] \in (On(LineOf[o[1]]) \cap active) \cup {None}}

Eligible(dispositions) ==
  {c \in Candidates : dispositions[c] = "opening-eligible-no-workflow"}
------------------------------------------------------------------------------
\* A scoring run commits.  An episode it links may have been closed since the
\* candidate was scored.
Insert ==
  /\ disposition' \in [Candidates -> Dispositions]
  /\ link' \in [Candidates -> Episodes \cup {None}]
  /\ \A c \in Candidates :
       \/ disposition'[c] = disposition[c] /\ link'[c] = link[c]
       \/ /\ disposition[c] = "absent"
          /\ \/ disposition'[c] \in Unlinked /\ link'[c] = None
             \/ /\ disposition'[c] = "linked-existing-active-episode"
                /\ link'[c] \in On(LineOf[c])
  /\ offers' = offers \cup OffersOf(Eligible(disposition') \ Eligible(disposition))
  /\ UNCHANGED <<line, active>>

\* The episode was active when the command looked for it.
LinkTo(c, e) ==
  /\ <<c, e>> \in offers
  /\ disposition' = [disposition EXCEPT ![c] = "linked-existing-active-episode"]
  /\ link' = [link EXCEPT ![c] = e]
  /\ UNCHANGED <<line, active, offers>>

\* There was no active episode, and there still is none.
OpenNew(c, e) ==
  /\ <<c, None>> \in offers
  /\ On(LineOf[c]) \cap active = {}
  /\ \A l \in Lines : e \notin On(l)
  /\ line' = line \cup {<<e, LineOf[c]>>}
  /\ active' = active \cup {e}
  /\ disposition' = [disposition EXCEPT ![c] = "opened-new-episode"]
  /\ link' = [link EXCEPT ![c] = e]
  /\ offers' = offers \cup {o \in Candidates \X {e} :
                              LineOf[o[1]] = LineOf[c] /\ <<o[1], None>> \in offers}

Close(e) ==
  /\ e \in active
  /\ active' = active \ {e}
  /\ UNCHANGED <<disposition, link, line, offers>>

Init ==
  /\ disposition \in [Candidates -> {"absent"} \cup Unlinked]
  /\ link = [c \in Candidates |-> None]
  /\ line = {} /\ active = {}
  /\ offers = OffersOf(Eligible(disposition))

Next ==
  \/ Insert
  \/ \E e \in Episodes :
       \/ \E c \in Candidates : LinkTo(c, e) \/ OpenNew(c, e)
       \/ Close(e)

Spec == Init /\ [][Next]_vars
==============================================================================
