------------------------------ MODULE MCWorkflow ------------------------------
(***************************************************************************)
(* WorkflowService for TLC.  A behaviour starts either with empty tables   *)
(* or with an episode e1 that was taken through the first n steps of the   *)
(* ordinary lifecycle (StartAfter), so that the races around resolution,   *)
(* closure and suppression are within a few commands of the start.         *)
(***************************************************************************)
EXTENDS WorkflowRefinement, TLC

CONSTANTS
  s1, s2,      \* sessions
  u1, u2,      \* a requester and the only authorised approver
  StartAfter,  \* how many events e1 may have at the start (0: not opened)
  NewCommands  \* bound on the commands a behaviour can record

MCEpisodes == {"e1", "e2"}
MCLines == {"line"}
MCOpenedCandidate == {"c1"}
MCOtherCandidate == {"c2"}
MCTwoCandidates == {"c1", "c2"}
MCLineOf == [c \in Candidates |-> "line"]
MCUsers == {u1, u2}
MCApprovers == {u2}
StartKeys == 1 .. 7
MCKeys == 1 .. 7 + NewCommands
MCOneSession == {s1}
MCTwoSessions == {s1, s2}

\* Sessions are interchangeable: nothing but tx names them.
SessionSymmetry == Permutations(MCTwoSessions)

Step(n, key, from, to) ==
  [episode |-> "e1", seq |-> n, key |-> key, type |-> "state_changed",
   from |-> from, to |-> to, previous |-> None, owner |-> None, category |-> None,
   approval |-> IF to \in MaterialStates THEN <<u1, u2>> ELSE None]

\* Opened, assigned to u1, investigated, agreed (two events of one command),
\* monitored, resolved and closed.
Lifecycle ==
  << Step(1, CommandKey(1), None, "open"),
     [Step(2, CommandKey(2), "open", "assigned") EXCEPT
        !.type = "ownership_changed", !.owner = u1],
     Step(3, CommandKey(3), "assigned", "investigating"),
     Step(4, StateKey(4), "investigating", "action_agreed"),
     [Step(5, CommandKey(4), None, None) EXCEPT
        !.type = "action_recorded", !.category = "action_agreement"],
     Step(6, CommandKey(5), "action_agreed", "monitoring"),
     Step(7, CommandKey(6), "monitoring", "resolved"),
     Step(8, CommandKey(7), "resolved", "closed") >>

StateAfter(n) == IF n = 5 THEN "action_agreed" ELSE Lifecycle[n].to

MCInit ==
  \E n \in StartAfter :
    IF n = 0 THEN Init
    ELSE /\ events = {Lifecycle[i] : i \in 1 .. n}
         /\ episode = [e \in Episodes |->
              IF e = "e1"
              THEN [line |-> "line", number |-> 1, state |-> StateAfter(n),
                    owner |-> IF n > 1 THEN u1 ELSE None, closed |-> n = 8]
              ELSE Absent]
         /\ candidate = [c \in Candidates |->
              IF c = "c1"
              THEN [disposition |-> "opened-new-episode", linked |-> "e1"]
              ELSE [disposition |-> "opening-eligible-no-workflow", linked |-> None]]
         /\ tx = [s \in Sessions |-> NoTx]

MCSpec == MCInit /\ [][Next]_vars

\* Bounds.  Keys are interchangeable: a new one is always the smallest that is
\* free, a retry reuses any key that was used.
UsedKeys == {v.key[1] : v \in events} \cup {tx[s].key[1] : s \in {r \in Sessions : tx[r].key # None}}
NewKey == 1 + MaxOr0(UsedKeys \cup StartKeys)

Chosen(keys) ==
  \A s \in Sessions : (tx[s] = NoTx /\ tx'[s] # NoTx) => tx'[s].key[1] \in keys

RetriesOrNew == Chosen(UsedKeys \cup {NewKey})
OnlyNew == Chosen({NewKey})

\* The constraint as part of the step: properties of steps are not asked about
\* those it excludes.
MCNewKeyFairSpec == MCInit /\ [][Next /\ OnlyNew]_vars /\ Fairness
==============================================================================
