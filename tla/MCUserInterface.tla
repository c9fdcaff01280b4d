--------------------------- MODULE MCUserInterface ---------------------------
(***************************************************************************)
(* UserInterface for TLC: two browsers, one of each user, over the starts  *)
(* of MCWorkflow: empty tables and two candidates of different lines, or an *)
(* episode in the middle of its lifecycle and a candidate of another line. *)
(***************************************************************************)
EXTENDS UiProperties, MCWorkflow

MCTwoLines == {"line", "other"}
MCLineEach == [c \in Candidates |-> IF c = "c1" THEN "line" ELSE "other"]
MCBothUsers == {u1, u2}
MCActorOf == [b \in Sessions |-> IF b = s1 THEN u1 ELSE u2]
MCRank == [x \in Candidates \cup Episodes |-> IF x \in {"c2", "e2"} THEN 1 ELSE 2]

MCUiInit ==
  /\ MCInit
  /\ InterfaceInit
  /\ \A c \in Candidates : candidate[c].disposition # "below-opening-threshold"

\* Bounds.  A command takes the smallest fresh key; identifiers of episodes are
\* interchangeable, too.
MCPageKeys == 8 .. 7 + NewCommands

TakenEpisodes == Opened \cup {tx[s].episode : s \in Sessions}

NewInOrder ==
  /\ Chosen({k \in FreshKeys : \A l \in FreshKeys : k <= l})
  /\ \A s \in Sessions :
       tx'[s].episode = "e2" /\ "e2" \notin TakenEpisodes => "e1" \in TakenEpisodes

\* Users fill fields in; one of them empties those of a suppression.
FilledIn ==
  \A b \in Sessions :
    LET form == browser'[b].form IN
    script[b] = NoRun /\ form # browser[b].form /\ form # "complete" =>
      script'[b].button = "suppress" /\ b = s1

MCUiFairSpec == MCUiInit /\ [][UiNext /\ NewInOrder /\ FilledIn]_uivars /\ UiFairness
==============================================================================
