-------------------------- MODULE ScoringProperties --------------------------
(***************************************************************************)
(* What scoring has to keep true while runs overlap, are repeated and are  *)
(* overtaken by loads and by the workflow.                                 *)
(***************************************************************************)
EXTENDS ScoringRun

TxTyped(p) ==
  /\ pc[p] \in InTransaction => tx[p].ref \in References /\ tx[p].asOf \in AsOfTimes
  /\ tx[p].creates \in BOOLEAN /\ tx[p].approves \in BOOLEAN
  /\ tx[p].todo \subseteq Lines
  /\ tx[p].draft \in CandidateType \cup {None}
  /\ tx[p].new \in [Lines -> CandidateType \cup {None}]

\* The tables hold rows of their types, and each open transaction has named its
\* run (service.py 45-84).
ScoringTypeOK ==
  /\ facts \subseteq Facts
  /\ runs \in [References -> Nat \cup {None}]
  /\ approved \in BOOLEAN
  /\ candidates \in [References -> [Lines -> CandidateType \cup {None}]]
  /\ episodes \in [EpisodeIds -> EpisodeType \cup {None}]
  /\ offers \subseteq (References \X Lines) \X (EpisodeIds \cup {None})
  /\ pc \in [Scorers -> {"idle", "done", "failed"} \cup InTransaction]
  /\ \A p \in Scorers : TxTyped(p)

Explains(result) ==
  /\ \A f \in DOMAIN FamilyCaps : result.points[f] \in 0 .. FamilyCaps[f]
  /\ result.score = Larger(0, result.points.delivery + result.points.inventory
                              + result.points.visibility_data + result.points.supplier
                              + result.points.consequence + result.mitigation)

\* The stored contributions explain the stored score, whatever facts a run met: the
\* points of each family stay within its cap, no family is negative, and together
\* with the mitigation they are the score, from which the clamp at 100 has taken
\* nothing (rules.py 115-117, 564-596; service.py 293-335).
ScoresAreExplained ==
  \A r \in References, l \in Lines :
    candidates[r][l] # None => Explains(candidates[r][l].result)

\* A run that is there is a success, has its rule version, and has a candidate
\* for every line it counts, also when it has been repeated over other facts
\* (service.py 72-84, 274-336).
RunsAreComplete ==
  \A r \in References :
    IF runs[r] = None
    THEN \A l \in Lines : candidates[r][l] = None
    ELSE /\ approved
         /\ runs[r] <= Cardinality({l \in Lines : candidates[r][l] # None})

Linked(c) == c.disposition \in {"linked-existing-active-episode", "opened-new-episode"}

\* What an episode goes back to; it may be linked to a later one by now.
Opens(c) == c # None /\ c.result.basis # None /\ Linked(c)

LinkFollows(c, ref, line) ==
  /\ Linked(c) <=> c.link # None
  /\ Linked(c) => episodes[c.link] # None /\ episodes[c.link].line = line
  /\ c.disposition = "opened-new-episode" => episodes[c.link].opener = ref

\* Only what met an opening rule is opened: an episode goes back to a linked
\* candidate of its line with an opening basis, a candidate is linked exactly when
\* its disposition says so, to an episode of its own line, and the one that is said
\* to have opened its episode did (service.py 59-60, 348-355; rules.py 127-132;
\* workflow/service.py 101-168).
LinksAreJustified ==
  /\ \A e \in EpisodeIds :
       episodes[e] # None => Opens(candidates[episodes[e].opener][episodes[e].line])
  /\ \A r \in References, l \in Lines :
       candidates[r][l] # None => LinkFollows(candidates[r][l], r, l)

\* "Repeating the same scoring run reference should not duplicate candidates or
\* contributions" (test_risk_priority_engine_postgresql.py:76): nor does it, or
\* the workflow, rewrite what a candidate was evaluated to or take its link away,
\* and another link is given only to a candidate that met an opening rule.
CandidatesAreKept ==
  [][\A r \in References, l \in Lines :
       LET c == candidates[r][l]
           d == candidates'[r][l]
       IN  c # None =>
             /\ d # None
             /\ d.result = c.result /\ d.asOf = c.asOf
             /\ d.link # c.link => d.link # None /\ c.result.basis # None]_vars

DeskCandidates == References \X Lines
OfRun(c) == candidates[c[1]][c[2]]

DeskDisposition ==
  [c \in DeskCandidates |-> IF OfRun(c) = None THEN "absent" ELSE OfRun(c).disposition]
DeskLink == [c \in DeskCandidates |-> IF OfRun(c) = None THEN None ELSE OfRun(c).link]
DeskLine == {x \in EpisodeIds \X Lines : episodes[x[1]] # None /\ episodes[x[1]].line = x[2]}
DeskActive == {e \in EpisodeIds : episodes[e] # None /\ episodes[e].active}

Desk == INSTANCE OpeningDesk WITH
  Candidates <- DeskCandidates, LineOf <- [c \in DeskCandidates |-> c[2]],
  Episodes <- EpisodeIds, disposition <- DeskDisposition, link <- DeskLink,
  line <- DeskLine, active <- DeskActive

\* What scoring and the workflow, as it is taken for granted here, make of
\* candidates and episodes is what the desk allows (service.py 274-336).
ImplementsDesk == Desk!Spec

\* Runs that wait for each other's rows do not wait in a circle, because every run
\* inserts its rows in the same order (service.py 190, 204-209, 219-232, 308-309).
NoCircularWait ==
  \A waiting \in (SUBSET Scorers) \ {{}} :
    \E p \in waiting : \A q \in waiting \ {p} : ~ WaitsFor(p, q)

==============================================================================
