---------------------------- MODULE ScoringProofs ----------------------------
(***************************************************************************)
(* Safety of scoring for every number of calls, lines, runs and episodes,  *)
(* and whatever is loaded in between.                                      *)
(***************************************************************************)
EXTENDS ScoringInvariant, RiskRulesProofs, FiniteSetTheorems, WellFoundedInduction, TLAPS

LEMMA MinOfNaturals ==
  ASSUME NEW S, S \subseteq Nat, S # {}
  PROVE  Min(S) \in S /\ \A n \in S : Min(S) <= n
<1> DEFINE R == OpToRel(<, Nat)
<1>1. IsWellFoundedOn(R, Nat)
  BY NatLessThanWellFounded
<1>2. \A m, n \in Nat : m < n <=> <<m, n>> \in R
  BY DEF OpToRel
<1> HIDE DEF R
<1>3. PICK m \in S : \A n \in S : ~ (<<n, m>> \in R)
  BY <1>1, WFMin, Zenon
<1>4. ASSUME NEW n \in S
      PROVE  m <= n
  <2>1. m \in Nat /\ n \in Nat
    OBVIOUS
  <2>2. ~ (n < m)
    BY <1>2, <1>3, <2>1, Zenon
  <2> QED
    BY <2>1, <2>2
<1> QED
  BY <1>4 DEF Min

LEMMA NextLineFirst ==
  ASSUME NEW p, tx[p].todo \subseteq Lines, tx[p].todo # {}
  PROVE  /\ NextLine(p) \in tx[p].todo /\ NextLine(p) \in Lines
         /\ \A k \in tx[p].todo \ {NextLine(p)} : NextLine(p) < k
<1>1. tx[p].todo \subseteq Nat
  BY ScoringAssumption DEF Lines
<1>2. NextLine(p) \in tx[p].todo /\ \A k \in tx[p].todo : NextLine(p) <= k
  BY <1>1, MinOfNaturals DEF NextLine
<1> QED
  BY <1>1, <1>2

LEMMA LinesFinite == IsFiniteSet(Lines)
BY ScoringAssumption, FS_Interval DEF Lines

LEMMA NoneIsNoRow ==
  /\ \A e \in EpisodeIds : e # None
  /\ \A n \in Nat : n # None
  /\ \A c \in CandidateType : c # None
  /\ \A e \in EpisodeType : e # None
  /\ \A r \in References : r # None
BY ScoringAssumption

LEMMA NewTxFacts ==
  /\ NewTx.ref = None /\ NewTx.creates = FALSE /\ NewTx.approves = FALSE
  /\ NewTx.todo = {} /\ NewTx.draft = None
  /\ NewTx.new = [l \in Lines |-> None]
  /\ \A l \in Lines : NewTx.new[l] = None
  /\ NewTx.new \in [Lines -> CandidateType \cup {None}]
BY DEF NewTx
------------------------------------------------------------------------------
(* What is scored is sound *)

LEMMA ScoredResult ==
  ASSUME NEW x
  PROVE  ScoreCandidate(x) \in ResultType /\ Explains(ScoreCandidate(x))
<1> DEFINE result == ScoreCandidate(x)
<1>1. /\ result = [score |-> Score(x), band |-> ScoreBand(Score(x)),
                   points |-> AppliedPoints(x), mitigation |-> Mit01(x).gross,
                   qualified |-> HasMissingSignals(x), basis |-> OpeningBasis(x)]
      /\ result.score = Score(x) /\ result.points = AppliedPoints(x)
      /\ result.mitigation = Mit01(x).gross
  BY DEF ScoreCandidate
<1>2. Score(x) \in 0 .. 100 /\ Score(x) = Larger(0, RawTotal(x))
  BY ScoreNeedsNoUpperClamp
<1>3. \A f \in DOMAIN FamilyCaps : AppliedPoints(x)[f] \in 0 .. FamilyCaps[f]
  BY FamilyPoints
<1>4. AppliedPoints(x) \in [DOMAIN FamilyCaps -> 0 .. 40]
  <2>1. \A f \in DOMAIN FamilyCaps : AppliedPoints(x)[f] \in 0 .. 40
    BY <1>3, CapNames
  <2>2. AppliedPoints(x) = [f \in DOMAIN FamilyCaps |-> AppliedPoints(x)[f]]
    BY DEF AppliedPoints
  <2> QED
    BY <2>1, <2>2, Zenon
<1>5. HasMissingSignals(x) \in BOOLEAN
  BY DEF HasMissingSignals
<1>6. ScoreBand(Score(x)) \in {"monitor", "medium", "high", "critical"}
  BY DEF ScoreBand
<1>7. OpeningBasis(x)
        \in {"OPEN_SCORE", "OPEN_CRITICAL_DATA_GAP", "OPEN_CONTROLLED_ORDER", None}
  BY DEF OpeningBasis
<1>8. Mit01(x).gross \in {0, -15}
  BY ComponentPoints
<1>9. Score(x) = Larger(0, AppliedPoints(x).delivery + AppliedPoints(x).inventory
                           + AppliedPoints(x).visibility_data + AppliedPoints(x).supplier
                           + AppliedPoints(x).consequence + Mit01(x).gross)
  BY <1>2 DEF RawTotal
<1> HIDE DEF result
<1>10. result \in ResultType
  BY <1>1, <1>2, <1>4, <1>5, <1>6, <1>7, <1>8, Zenon DEF ResultType
<1>11. Explains(result)
  BY <1>1, <1>3, <1>9, Zenon DEF Explains
<1> QED
  BY <1>10, <1>11 DEF result

LEMMA ActiveEpisodeFacts ==
  ASSUME NEW line
  PROVE  /\ ActiveEpisode(line) \in EpisodeIds \cup {None}
         /\ ActiveEpisode(line) # None =>
              /\ ActiveEpisode(line) \in EpisodeIds
              /\ episodes[ActiveEpisode(line)] # None
              /\ episodes[ActiveEpisode(line)].line = line
BY DEF ActiveEpisode, ActiveEpisodes

LEMMA ScoredIsSound ==
  ASSUME NEW x, NEW asOf \in AsOfTimes, NEW ref, NEW line \in Lines
  PROVE  Fresh(Candidate(x, asOf, ActiveEpisode(line)), ref, line)
<1> DEFINE link == ActiveEpisode(line)
           c == Candidate(x, asOf, link)
<1>1. /\ c = [result |-> ScoreCandidate(x), asOf |-> asOf,
              disposition |-> Disposition(x, link # None), link |-> link]
      /\ c.result = ScoreCandidate(x) /\ c.link = link
      /\ c.disposition = Disposition(x, link # None)
  BY DEF Candidate
<1>2. link \in EpisodeIds \cup {None}
  BY ActiveEpisodeFacts
<1>3. ScoreCandidate(x).basis = OpeningBasis(x)
  BY DEF ScoreCandidate
<1> HIDE DEF link, c
<1>4. Disposition(x, link # None) \in {"below-opening-threshold", "opening-eligible-no-workflow",
                                       "linked-existing-active-episode"}
  BY DEF Disposition
<1>5. c \in CandidateType
  BY <1>1, <1>2, <1>4, ScoredResult DEF CandidateType
<1>6. LinkFollows(c, ref, line)
  BY <1>1, ActiveEpisodeFacts DEF LinkFollows, Linked, Disposition, link
<1>7. Eligible(c) => c.result.basis # None
  BY <1>1, <1>3 DEF Eligible, Disposition
<1> QED
  BY <1>1, <1>4, <1>5, <1>6, <1>7, ScoredResult DEF Fresh, Sound, c, link
------------------------------------------------------------------------------
(* What others do leaves a call's invariant alone *)

EpisodesGrow ==
  \A e \in EpisodeIds :
    episodes[e] # None => /\ episodes'[e] # None
                          /\ episodes'[e].line = episodes[e].line
                          /\ episodes'[e].opener = episodes[e].opener

CandidatesGrow ==
  \A r \in References, l \in Lines :
    candidates[r][l] # None => /\ candidates'[r][l] # None
                               /\ candidates'[r][l].result = candidates[r][l].result

LEMMA SoundStays ==
  ASSUME NEW c, NEW r, NEW l, Sound(c, r, l), EpisodesGrow
  PROVE  Sound(c, r, l)'
<1>1. c.link # None => c.link \in EpisodeIds
  BY DEF Sound, CandidateType
<1>2. c.disposition = "opened-new-episode" => Linked(c)
  BY DEF Linked
<1>3. LinkFollows(c, r, l)'
  BY <1>1, <1>2 DEF Sound, LinkFollows, Linked, EpisodesGrow
<1> QED
  BY <1>3 DEF Sound, Eligible, Explains

\* An offer that was sound still is.
LEMMA OfferStays ==
  ASSUME OffersAreSound, EpisodesGrow, CandidatesGrow,
         NEW r \in References, NEW l \in Lines, NEW e \in EpisodeIds \cup {None},
         <<<<r, l>>, e>> \in offers
  PROVE  /\ candidates'[r][l] # None /\ candidates'[r][l].result.basis # None
         /\ e # None => episodes'[e] # None /\ episodes'[e].line = l
BY DEF OffersAreSound, EpisodesGrow, CandidatesGrow

LEMMA OffersStay ==
  ASSUME OffersAreSound, EpisodesGrow, CandidatesGrow, offers' = offers
  PROVE  OffersAreSound'
BY OfferStays DEF OffersAreSound

LEMMA CallStays ==
  ASSUME IInv, NEW p \in Scorers, pc'[p] = pc[p], tx'[p] = tx[p],
         EpisodesGrow, CandidatesGrow, approved => approved',
         \A l \in Lines : tx[p].new[l] # None => candidates'[tx[p].ref][l] = None
  PROVE  CallInv(p)'
<1>1. CallInv(p) /\ TxTyped(p)
  BY DEF IInv, ScoringTypeOK
<1>2. NextLine(p)' = NextLine(p) /\ Evaluated(p)' = Evaluated(p)
  BY DEF NextLine, Evaluated
<1>3. ASSUME pc'[p] = "inserting"
      PROVE  tx'[p].todo # {} /\ Fresh(tx[p].draft, tx[p].ref, NextLine(p))'
  <2>1. PICK c, r, l : c = tx[p].draft /\ r = tx[p].ref /\ l = NextLine(p)
    OBVIOUS
  <2>2. tx[p].todo # {} /\ Fresh(c, r, l)
    BY <1>1, <1>3, <2>1 DEF CallInv, TxFollows
  <2>3. Fresh(c, r, l)'
    BY <2>2, SoundStays DEF Fresh
  <2> QED
    BY <1>2, <2>1, <2>2, <2>3
<1>4. TxFollows(p)'
  BY <1>1, <1>2, <1>3 DEF CallInv, TxFollows
<1>5. InsertsFollow(p)'
  <2> SUFFICES ASSUME NEW l \in Lines, tx'[p].new[l] # None
               PROVE  /\ pc'[p] \in {"scoring", "inserting"}
                      /\ Fresh(tx[p].new[l], tx[p].ref, l)'
                      /\ candidates'[tx'[p].ref][l] = None
                      /\ \A k \in tx'[p].todo : l < k
    BY DEF InsertsFollow
  <2>1. PICK c, r : c = tx[p].new[l] /\ r = tx[p].ref
    OBVIOUS
  <2>2. /\ pc[p] \in {"scoring", "inserting"} /\ Fresh(c, r, l)
        /\ \A k \in tx[p].todo : l < k
    BY <1>1, <2>1 DEF CallInv, InsertsFollow
  <2>3. Fresh(c, r, l)'
    BY <2>2, SoundStays DEF Fresh
  <2> QED
    BY <2>1, <2>2, <2>3
<1>6. LinesFollow(p)'
  <2> SUFFICES ASSUME pc'[p] \in {"scoring", "inserting"}, NEW l \in Evaluated(p)
               PROVE  l \in tx[p].todo \/ tx[p].new[l] # None \/ candidates'[tx[p].ref][l] # None
    BY <1>2 DEF LinesFollow
  <2>1. tx[p].ref \in References /\ l \in Lines
    BY <1>1 DEF TxTyped, InTransaction, Evaluated
  <2>2. l \in tx[p].todo \/ tx[p].new[l] # None \/ candidates[tx[p].ref][l] # None
    BY <1>1 DEF CallInv, LinesFollow
  <2> QED
    BY <2>1, <2>2 DEF CandidatesGrow
<1> QED
  BY <1>4, <1>5, <1>6 DEF CallInv

Tables == <<runs, approved, candidates, episodes, offers>>

OnlyCall(p) == \A q \in Scorers \ {p} : pc'[q] = pc[q] /\ tx'[q] = tx[q]

LEMMA TablesStay ==
  ASSUME TablesInv, UNCHANGED Tables
  PROVE  TablesInv'
BY DEF TablesInv, Tables, RunsAreComplete, CandidatesAreSound, EpisodesAreOpened,
       OffersAreSound, Opens, Sound, LinkFollows

\* A step of a call within its transaction.
LEMMA InnerStep ==
  ASSUME IInv, NEW p \in Scorers, UNCHANGED Tables, UNCHANGED facts, OnlyCall(p),
         pc' \in [Scorers -> {"idle", "done", "failed"} \cup InTransaction],
         TxShape', TxTyped(p)', CallInv(p)',
         \A q \in Scorers \ {p}, l \in Lines :
           tx[q].ref = tx'[p].ref /\ tx'[p].new[l] # None => tx[q].new[l] = None
  PROVE  IInv'
<1>1. ASSUME NEW q \in Scorers, q # p
      PROVE  TxTyped(q)' /\ CallInv(q)'
  <2>1. pc'[q] = pc[q] /\ tx'[q] = tx[q]
    BY <1>1 DEF OnlyCall
  <2>2. TxTyped(q)'
    BY <2>1 DEF IInv, ScoringTypeOK, TxTyped
  <2>3. EpisodesGrow /\ CandidatesGrow /\ (approved => approved')
    BY DEF EpisodesGrow, CandidatesGrow, Tables
  <2>4. \A l \in Lines : tx[q].new[l] # None => candidates'[tx[q].ref][l] = None
    BY DEF IInv, CallInv, InsertsFollow, Tables
  <2> QED
    BY <2>1, <2>2, <2>3, <2>4, CallStays
<1>2. ScoringTypeOK'
  BY <1>1 DEF IInv, ScoringTypeOK, Tables
<1>3. TablesInv'
  BY TablesStay DEF IInv
<1>4. ExclusiveInserts'
  <2> SUFFICES ASSUME NEW q \in Scorers, NEW r \in Scorers, NEW l \in Lines, q # r,
                      tx'[q].ref = tx'[r].ref, tx'[q].new[l] # None, tx'[r].new[l] # None
               PROVE  FALSE
    BY DEF ExclusiveInserts
  <2>1. CASE q = p
    BY <2>1 DEF OnlyCall
  <2>2. CASE r = p
    BY <2>2 DEF OnlyCall
  <2>3. CASE q # p /\ r # p
    BY <2>3 DEF OnlyCall, IInv, ExclusiveInserts
  <2> QED
    BY <2>1, <2>2, <2>3
<1> QED
  BY <1>1, <1>2, <1>3, <1>4 DEF IInv
------------------------------------------------------------------------------
(* The steps of a call *)

Places == {"idle", "done", "failed"} \cup InTransaction

LEMMA Goes ==
  ASSUME ScoringTypeOK, NEW p \in Scorers, NEW place \in Places, Go(p, place)
  PROVE  /\ pc' \in [Scorers -> Places] /\ pc'[p] = place
         /\ \A q \in Scorers \ {p} : pc'[q] = pc[q]
BY DEF ScoringTypeOK, Go, Places

LEMMA TxGoes ==
  ASSUME TxShape, NEW p \in Scorers, NEW u, DOMAIN u = DOMAIN NewTx,
         tx' = [tx EXCEPT ![p] = u]
  PROVE  TxShape' /\ tx'[p] = u /\ \A q \in Scorers \ {p} : tx'[q] = tx[q]
<1>1. \A q \in Scorers : tx'[q] = IF q = p THEN u ELSE tx[q]
  BY DEF TxShape
<1>2. tx' = [q \in Scorers |-> tx'[q]]
  BY DEF TxShape
<1> QED
  BY <1>1, <1>2 DEF TxShape

LEMMA NewTxFields ==
  DOMAIN NewTx = {"ref", "asOf", "creates", "approves", "versions", "inputs", "todo",
                  "draft", "new"}
BY DEF NewTx

LEMMA AbortKeeps ==
  ASSUME IInv, NEW p \in Scorers, Abort(p), UNCHANGED Tables, UNCHANGED facts
  PROVE  IInv'
<1>0. ScoringTypeOK /\ TxShape
  BY DEF IInv
<1>1. pc' \in [Scorers -> Places] /\ pc'[p] = "failed" /\ \A q \in Scorers \ {p} : pc'[q] = pc[q]
  BY <1>0, Goes DEF Abort, Places
<1>2. TxShape' /\ tx'[p] = NewTx /\ \A q \in Scorers \ {p} : tx'[q] = tx[q]
  BY <1>0, TxGoes DEF Abort
<1>3. TxTyped(p)'
  BY <1>1, <1>2, NewTxFacts DEF TxTyped, InTransaction
<1>4. CallInv(p)'
  BY <1>1, <1>2, NewTxFacts DEF CallInv, TxFollows, InsertsFollow, LinesFollow, InTransaction, Selected
<1> QED
  BY <1>1, <1>2, <1>3, <1>4, NewTxFacts, InnerStep DEF OnlyCall, Places

LEMMA StartKeeps ==
  ASSUME IInv, NEW p \in Scorers, Start(p)
  PROVE  IInv'
<1>0. ScoringTypeOK /\ TxShape /\ CallInv(p) /\ TxTyped(p) /\ pc[p] = "idle"
      /\ UNCHANGED Tables /\ UNCHANGED facts
  BY DEF IInv, ScoringTypeOK, Start, Tables
<1>1. PICK ref \in References, asOf \in AsOfTimes :
        /\ tx' = [tx EXCEPT ![p].ref = ref, ![p].asOf = asOf]
        /\ Go(p, IF runs[ref] = None THEN "creating" ELSE "finding")
  BY DEF Start
<1>2. /\ pc' \in [Scorers -> Places] /\ pc'[p] \in {"creating", "finding"}
      /\ \A q \in Scorers \ {p} : pc'[q] = pc[q]
  BY <1>0, <1>1, Goes DEF Places, InTransaction
<1> DEFINE u == [tx[p] EXCEPT !.ref = ref, !.asOf = asOf]
<1>3. /\ DOMAIN u = DOMAIN NewTx /\ u.ref = ref /\ u.asOf = asOf
      /\ u.creates = FALSE /\ u.approves = FALSE /\ u.todo = {} /\ u.draft = None
      /\ u.new = NewTx.new
  BY <1>0, NewTxFacts, NewTxFields DEF TxShape, CallInv, TxFollows, InTransaction
<1>4. tx' = [tx EXCEPT ![p] = u]
  BY <1>0, <1>1 DEF TxShape
<1> HIDE DEF u
<1>5. TxShape' /\ tx'[p] = u /\ \A q \in Scorers \ {p} : tx'[q] = tx[q]
  BY <1>0, <1>3, <1>4, TxGoes
<1>6. TxTyped(p)'
  BY <1>2, <1>3, <1>5, NewTxFacts DEF TxTyped
<1>7. CallInv(p)'
  BY <1>2, <1>3, <1>5, NewTxFacts
  DEF CallInv, TxFollows, InsertsFollow, LinesFollow, InTransaction, Selected
<1> QED
  BY <1>0, <1>2, <1>3, <1>5, <1>6, <1>7, NewTxFacts, InnerStep DEF OnlyCall, Places

\* Before the scoring nothing has been inserted.
Early == {"creating", "finding", "approving", "selecting", "collecting"}

LEMMA EarlyStep ==
  ASSUME IInv, NEW p \in Scorers, pc[p] \in Early, UNCHANGED Tables, UNCHANGED facts,
         NEW u, DOMAIN u = DOMAIN NewTx, tx' = [tx EXCEPT ![p] = u],
         u.ref = tx[p].ref, u.asOf = tx[p].asOf, u.new = tx[p].new, u.draft = tx[p].draft,
         u.todo \subseteq Lines, u.creates \in BOOLEAN, u.approves \in BOOLEAN,
         NEW place \in InTransaction \ {"creating", "inserting"}, Go(p, place),
         u.approves => place \in Selected,
         place \in Selected => approved \/ u.approves,
         place = "scoring" => \A l \in Lines : u.inputs[l] # None => l \in u.todo
  PROVE  IInv'
<1>0. ScoringTypeOK /\ TxShape /\ CallInv(p) /\ TxTyped(p)
  BY DEF IInv, ScoringTypeOK
<1>1. pc' \in [Scorers -> Places] /\ pc'[p] = place /\ \A q \in Scorers \ {p} : pc'[q] = pc[q]
  BY <1>0, Goes DEF Places
<1>2. TxShape' /\ tx'[p] = u /\ \A q \in Scorers \ {p} : tx'[q] = tx[q]
  BY <1>0, TxGoes
<1>3. \A l \in Lines : u.new[l] = None
  BY <1>0 DEF CallInv, InsertsFollow, Early
<1>4. TxTyped(p)'
  BY <1>0, <1>2 DEF TxTyped, Early, InTransaction
<1>5. TxFollows(p)'
  BY <1>1, <1>2 DEF TxFollows, Tables
<1>6. InsertsFollow(p)'
  BY <1>2, <1>3 DEF InsertsFollow
<1>7. LinesFollow(p)'
  BY <1>1, <1>2 DEF LinesFollow, Evaluated
<1> QED
  BY <1>1, <1>2, <1>3, <1>4, <1>5, <1>6, <1>7, InnerStep DEF OnlyCall, Places, CallInv

LEMMA InsertRunKeeps ==
  ASSUME IInv, NEW p \in Scorers, InsertRun(p)
  PROVE  IInv'
<1>0. TxShape /\ TxTyped(p) /\ CallInv(p) /\ pc[p] = "creating"
      /\ UNCHANGED Tables /\ UNCHANGED facts
  BY DEF IInv, ScoringTypeOK, InsertRun, Tables
<1>1. CASE runs[tx[p].ref] # None
  BY <1>0, <1>1, AbortKeeps DEF InsertRun
<1>2. CASE runs[tx[p].ref] = None
  <2> DEFINE u == [tx[p] EXCEPT !.creates = TRUE]
  <2>1. /\ DOMAIN u = DOMAIN NewTx /\ u.creates = TRUE /\ u.approves = tx[p].approves
        /\ u.ref = tx[p].ref /\ u.asOf = tx[p].asOf /\ u.new = tx[p].new
        /\ u.draft = tx[p].draft /\ u.todo = tx[p].todo
    BY <1>0, NewTxFields DEF TxShape
  <2>2. tx' = [tx EXCEPT ![p] = u] /\ Go(p, "finding")
    BY <1>0, <1>2 DEF InsertRun, TxShape
  <2> HIDE DEF u
  <2>3. tx[p].approves = FALSE /\ tx[p].todo \subseteq Lines
    BY <1>0 DEF CallInv, TxFollows, Selected, TxTyped
  <2> QED
    BY <1>0, <2>1, <2>2, <2>3, EarlyStep DEF Early, InTransaction, Selected
<1> QED
  BY <1>1, <1>2

LEMMA FindRulesKeeps ==
  ASSUME IInv, NEW p \in Scorers, FindRules(p)
  PROVE  IInv'
<1>0. TxShape /\ TxTyped(p) /\ CallInv(p) /\ pc[p] = "finding" /\ DOMAIN tx[p] = DOMAIN NewTx
      /\ UNCHANGED Tables /\ UNCHANGED facts
  BY DEF IInv, ScoringTypeOK, FindRules, Tables, TxShape
<1>1. tx' = [tx EXCEPT ![p] = tx[p]]
  BY <1>0 DEF FindRules, TxShape
<1>2. /\ tx[p].approves = FALSE /\ tx[p].creates \in BOOLEAN /\ tx[p].todo \subseteq Lines
  BY <1>0 DEF CallInv, TxFollows, Selected, TxTyped
<1>3. PICK place \in {"selecting", "approving"} :
        Go(p, place) /\ (place = "selecting" => approved)
  BY DEF FindRules
<1> QED
  BY <1>0, <1>1, <1>2, <1>3, EarlyStep DEF Early, InTransaction, Selected

LEMMA InsertRulesKeeps ==
  ASSUME IInv, NEW p \in Scorers, InsertRules(p)
  PROVE  IInv'
<1>0. TxShape /\ TxTyped(p) /\ pc[p] = "approving" /\ UNCHANGED Tables /\ UNCHANGED facts
  BY DEF IInv, ScoringTypeOK, InsertRules, Tables
<1>1. CASE approved
  BY <1>0, <1>1, AbortKeeps DEF InsertRules
<1>2. CASE ~ approved
  <2> DEFINE u == [tx[p] EXCEPT !.approves = TRUE]
  <2>1. /\ DOMAIN u = DOMAIN NewTx /\ u.approves = TRUE /\ u.creates = tx[p].creates
        /\ u.ref = tx[p].ref /\ u.asOf = tx[p].asOf /\ u.new = tx[p].new
        /\ u.draft = tx[p].draft /\ u.todo = tx[p].todo
    BY <1>0, NewTxFields DEF TxShape
  <2>2. tx' = [tx EXCEPT ![p] = u] /\ Go(p, "selecting")
    BY <1>0, <1>2 DEF InsertRules, TxShape
  <2> HIDE DEF u
  <2>3. tx[p].creates \in BOOLEAN /\ tx[p].todo \subseteq Lines
    BY <1>0 DEF TxTyped
  <2> QED
    BY <1>0, <2>1, <2>2, <2>3, EarlyStep DEF Early, InTransaction, Selected
<1> QED
  BY <1>1, <1>2

LEMMA SelectLinesKeeps ==
  ASSUME IInv, NEW p \in Scorers, SelectLines(p)
  PROVE  IInv'
<1>0. TxShape /\ TxTyped(p) /\ CallInv(p) /\ pc[p] = "selecting"
      /\ UNCHANGED Tables /\ UNCHANGED facts
  BY DEF IInv, ScoringTypeOK, SelectLines, Tables
<1> DEFINE versions == [l \in Lines |-> OpenVersion(l, facts)]
           todo == {l \in Lines : OpenVersion(l, facts) # None}
           u == [tx[p] EXCEPT !.versions = versions, !.todo = todo]
<1>1. tx' = [tx EXCEPT ![p].versions = versions, ![p].todo = todo] /\ Go(p, "collecting")
  BY DEF SelectLines
<1>2. todo \subseteq Lines
  OBVIOUS
<1> HIDE DEF versions, todo
<1>3. tx' = [tx EXCEPT ![p] = u]
  BY <1>0, <1>1 DEF TxShape
<1>4. /\ DOMAIN u = DOMAIN NewTx /\ u.creates = tx[p].creates /\ u.approves = tx[p].approves
      /\ u.ref = tx[p].ref /\ u.asOf = tx[p].asOf /\ u.new = tx[p].new
      /\ u.draft = tx[p].draft /\ u.todo = todo
  BY <1>0, NewTxFields DEF TxShape
<1> HIDE DEF u
<1>5. /\ tx[p].creates \in BOOLEAN /\ tx[p].approves \in BOOLEAN
      /\ approved \/ tx[p].approves
  BY <1>0 DEF TxTyped, CallInv, TxFollows, Selected
<1> QED
  BY <1>0, <1>1, <1>2, <1>3, <1>4, <1>5, EarlyStep DEF Early, InTransaction, Selected

LEMMA CollectLineKeeps ==
  ASSUME IInv, NEW p \in Scorers, CollectLine(p)
  PROVE  IInv'
<1>0. TxShape /\ TxTyped(p) /\ CallInv(p) /\ pc[p] = "collecting" /\ pc' = pc
      /\ UNCHANGED Tables /\ UNCHANGED facts /\ pc \in [Scorers -> Places]
  BY DEF IInv, ScoringTypeOK, CollectLine, Tables, Places
<1> DEFINE line == NextLine(p)
           x == RiskInput(line, tx[p].versions[line], facts, tx[p].asOf)
           input == IF x.residual > 0 THEN x ELSE None
           u == [tx[p] EXCEPT !.todo = @ \ {line}, !.inputs[line] = input]
<1>1. tx' = [tx EXCEPT ![p].todo = @ \ {line}, ![p].inputs[line] = input]
  BY DEF CollectLine
<1> HIDE DEF x, line, input
<1>2. tx' = [tx EXCEPT ![p] = u]
  BY <1>0, <1>1, NewTxFields DEF TxShape
<1>3. /\ DOMAIN u = DOMAIN NewTx /\ u.creates = tx[p].creates /\ u.approves = tx[p].approves
      /\ u.ref = tx[p].ref /\ u.asOf = tx[p].asOf /\ u.new = tx[p].new
      /\ u.draft = tx[p].draft /\ u.todo = tx[p].todo \ {line}
  BY <1>0, NewTxFields DEF TxShape
<1> HIDE DEF u
<1>4. /\ tx[p].creates \in BOOLEAN /\ tx[p].approves \in BOOLEAN /\ tx[p].todo \subseteq Lines
      /\ approved \/ tx[p].approves
  BY <1>0 DEF TxTyped, CallInv, TxFollows, Selected
<1>5. Go(p, "collecting")
  BY <1>0 DEF Go
<1> QED
  BY <1>0, <1>2, <1>3, <1>4, <1>5, EarlyStep DEF Early, InTransaction, Selected

LEMMA BeginScoringKeeps ==
  ASSUME IInv, NEW p \in Scorers, BeginScoring(p)
  PROVE  IInv'
<1>0. TxShape /\ TxTyped(p) /\ CallInv(p) /\ pc[p] = "collecting"
      /\ UNCHANGED Tables /\ UNCHANGED facts
  BY DEF IInv, ScoringTypeOK, BeginScoring, Tables
<1> DEFINE todo == {l \in Lines : tx[p].inputs[l] # None}
           u == [tx[p] EXCEPT !.todo = todo]
<1>1. tx' = [tx EXCEPT ![p].todo = todo] /\ Go(p, "scoring")
  BY DEF BeginScoring
<1>2. todo \subseteq Lines /\ \A l \in Lines : tx[p].inputs[l] # None => l \in todo
  OBVIOUS
<1> HIDE DEF todo
<1>3. tx' = [tx EXCEPT ![p] = u]
  BY <1>0, <1>1 DEF TxShape
<1>4. /\ DOMAIN u = DOMAIN NewTx /\ u.creates = tx[p].creates /\ u.approves = tx[p].approves
      /\ u.ref = tx[p].ref /\ u.asOf = tx[p].asOf /\ u.new = tx[p].new
      /\ u.draft = tx[p].draft /\ u.inputs = tx[p].inputs /\ u.todo = todo
  BY <1>0, NewTxFields DEF TxShape
<1> HIDE DEF u
<1>5. /\ tx[p].creates \in BOOLEAN /\ tx[p].approves \in BOOLEAN
      /\ approved \/ tx[p].approves
  BY <1>0 DEF TxTyped, CallInv, TxFollows, Selected
<1> QED
  BY <1>0, <1>1, <1>2, <1>3, <1>4, <1>5, EarlyStep DEF Early, InTransaction, Selected

LEMMA ScoreLineKeeps ==
  ASSUME IInv, NEW p \in Scorers, ScoreLine(p)
  PROVE  IInv'
<1>0. ScoringTypeOK /\ TxShape /\ TxTyped(p) /\ CallInv(p) /\ pc[p] = "scoring"
      /\ UNCHANGED Tables /\ UNCHANGED facts /\ pc \in [Scorers -> Places]
  BY DEF IInv, ScoringTypeOK, ScoreLine, Tables, Places
<1> DEFINE line == NextLine(p)
<1>1. line \in tx[p].todo /\ line \in Lines /\ tx[p].todo # {} /\ tx[p].todo \subseteq Lines
  BY <1>0, NextLineFirst DEF TxTyped, ScoreLine
<1>2. tx[p].ref \in References /\ tx[p].asOf \in AsOfTimes
  BY <1>0 DEF TxTyped, InTransaction
<1>3. \A l \in Evaluated(p) :
        l \in tx[p].todo \/ tx[p].new[l] # None \/ candidates[tx[p].ref][l] # None
  BY <1>0 DEF CallInv, LinesFollow
<1>4. \A q \in Scorers \ {p}, l \in Lines :
        tx[q].ref = tx[p].ref /\ tx[p].new[l] # None => tx[q].new[l] = None
  BY DEF IInv, ExclusiveInserts
<1>5. CASE candidates[tx[p].ref][line] # None
  <2> DEFINE u == [tx[p] EXCEPT !.todo = @ \ {line}]
  <2>1. tx' = [tx EXCEPT ![p].todo = @ \ {line}] /\ pc' = pc
    BY <1>5 DEF ScoreLine
  <2> HIDE DEF line
  <2>2. tx' = [tx EXCEPT ![p] = u]
    BY <1>0, <2>1 DEF TxShape
  <2>3. /\ DOMAIN u = DOMAIN NewTx /\ u.creates = tx[p].creates /\ u.approves = tx[p].approves
        /\ u.ref = tx[p].ref /\ u.asOf = tx[p].asOf /\ u.new = tx[p].new
        /\ u.draft = tx[p].draft /\ u.inputs = tx[p].inputs /\ u.todo = tx[p].todo \ {line}
    BY <1>0, NewTxFields DEF TxShape
  <2> HIDE DEF u
  <2>4. TxShape' /\ tx'[p] = u /\ \A q \in Scorers \ {p} : tx'[q] = tx[q]
    BY <1>0, <2>2, <2>3, TxGoes
  <2>5. TxTyped(p)'
    BY <1>0, <2>1, <2>3, <2>4 DEF TxTyped
  <2>6. TxFollows(p)'
    BY <1>0, <2>1, <2>3, <2>4 DEF CallInv, TxFollows, Tables, InTransaction, Selected
  <2>7. InsertsFollow(p)'
    <3> SUFFICES ASSUME NEW l \in Lines, tx[p].new[l] # None
                 PROVE  /\ Fresh(tx[p].new[l], tx[p].ref, l)' /\ candidates'[tx[p].ref][l] = None
                        /\ \A k \in tx[p].todo : l < k
      BY <1>0, <2>1, <2>3, <2>4 DEF InsertsFollow
    <3>1. /\ Fresh(tx[p].new[l], tx[p].ref, l) /\ candidates[tx[p].ref][l] = None
          /\ \A k \in tx[p].todo : l < k
      BY <1>0 DEF CallInv, InsertsFollow
    <3> QED
      BY <1>0, <2>3, <2>4, <3>1 DEF Fresh, Sound, LinkFollows, Tables
  <2>8. LinesFollow(p)'
    BY <1>0, <1>3, <1>5, <2>1, <2>3, <2>4 DEF LinesFollow, Evaluated, Tables, line
  <2> QED
    BY <1>0, <1>4, <2>1, <2>3, <2>4, <2>5, <2>6, <2>7, <2>8, InnerStep
    DEF OnlyCall, Places, CallInv
<1>6. CASE candidates[tx[p].ref][line] = None
  <2> DEFINE c == Candidate(tx[p].inputs[line], tx[p].asOf, ActiveEpisode(line))
             u == [tx[p] EXCEPT !.draft = c]
  <2>1. tx' = [tx EXCEPT ![p].draft = c] /\ Go(p, "inserting")
    BY <1>6 DEF ScoreLine
  <2>2. Fresh(c, tx[p].ref, line)
    BY <1>1, <1>2, ScoredIsSound
  <2>3. c \in CandidateType
    BY <2>2 DEF Fresh, Sound
  <2>4. tx' = [tx EXCEPT ![p] = u]
    BY <1>0, <2>1 DEF TxShape
  <2> HIDE DEF c
  <2>5. /\ DOMAIN u = DOMAIN NewTx /\ u.creates = tx[p].creates /\ u.approves = tx[p].approves
        /\ u.ref = tx[p].ref /\ u.asOf = tx[p].asOf /\ u.new = tx[p].new
        /\ u.draft = c /\ u.inputs = tx[p].inputs /\ u.todo = tx[p].todo
    BY <1>0, NewTxFields DEF TxShape
  <2> HIDE DEF u
  <2>6. TxShape' /\ tx'[p] = u /\ \A q \in Scorers \ {p} : tx'[q] = tx[q]
    BY <1>0, <2>4, <2>5, TxGoes
  <2>7. pc' \in [Scorers -> Places] /\ pc'[p] = "inserting" /\ \A q \in Scorers \ {p} : pc'[q] = pc[q]
    BY <1>0, <2>1, Goes DEF Places, InTransaction
  <2>8. TxTyped(p)'
    BY <1>0, <1>2, <2>3, <2>5, <2>6 DEF TxTyped
  <2>9. Fresh(tx[p].draft, tx[p].ref, NextLine(p))'
    <3>1. PICK d, r, n : d = c /\ r = tx[p].ref /\ n = line
      OBVIOUS
    <3>2. tx'[p].draft = d /\ tx'[p].ref = r
      BY <2>5, <2>6, <3>1
    <3>3. NextLine(p)' = n
      BY <2>5, <2>6, <3>1 DEF NextLine
    <3>4. Fresh(d, r, n)
      BY <2>2, <3>1
    <3>5. Fresh(d, r, n)'
      BY <1>0, <3>4 DEF Fresh, Sound, LinkFollows, Tables
    <3> QED
      BY <3>2, <3>3, <3>5
  <2>10. TxFollows(p)'
    BY <1>0, <1>1, <2>5, <2>6, <2>7, <2>9 DEF CallInv, TxFollows, Tables, InTransaction, Selected
  <2>11. InsertsFollow(p)'
    <3> SUFFICES ASSUME NEW l \in Lines, tx[p].new[l] # None
                 PROVE  /\ Fresh(tx[p].new[l], tx[p].ref, l)' /\ candidates'[tx[p].ref][l] = None
                        /\ \A k \in tx[p].todo : l < k
      BY <1>0, <2>5, <2>6, <2>7 DEF InsertsFollow
    <3>1. /\ Fresh(tx[p].new[l], tx[p].ref, l) /\ candidates[tx[p].ref][l] = None
          /\ \A k \in tx[p].todo : l < k
      BY <1>0 DEF CallInv, InsertsFollow
    <3> QED
      BY <1>0, <2>5, <2>6, <3>1 DEF Fresh, Sound, LinkFollows, Tables
  <2>12. LinesFollow(p)'
    BY <1>0, <1>3, <2>5, <2>6 DEF LinesFollow, Evaluated, Tables
  <2> QED
    BY <1>0, <1>4, <2>5, <2>6, <2>7, <2>8, <2>10, <2>11, <2>12, InnerStep
    DEF OnlyCall, Places, CallInv
<1> QED
  BY <1>5, <1>6

LEMMA InsertCandidateKeeps ==
  ASSUME IInv, NEW p \in Scorers, InsertCandidate(p)
  PROVE  IInv'
<1>0. ScoringTypeOK /\ TxShape /\ TxTyped(p) /\ CallInv(p) /\ pc[p] = "inserting"
      /\ UNCHANGED Tables /\ UNCHANGED facts
  BY DEF IInv, ScoringTypeOK, InsertCandidate, Tables
<1> DEFINE line == NextLine(p)
           c == tx[p].draft
           u == [tx[p] EXCEPT !.new[line] = c, !.draft = None, !.todo = @ \ {line}]
<1>1. CASE Taken(p)
  BY <1>0, <1>1, AbortKeeps DEF InsertCandidate
<1>2. CASE ~ Taken(p)
  <2>1. /\ tx' = [tx EXCEPT ![p].new[line] = c, ![p].draft = None, ![p].todo = @ \ {line}]
        /\ Go(p, "scoring")
        /\ candidates[tx[p].ref][line] = None
    BY <1>2 DEF InsertCandidate, Taken
  <2>2. /\ tx[p].todo # {} /\ tx[p].todo \subseteq Lines /\ Fresh(c, tx[p].ref, line)
        /\ tx[p].new \in [Lines -> CandidateType \cup {None}]
    BY <1>0 DEF CallInv, TxFollows, TxTyped
  <2>3. line \in Lines /\ \A k \in tx[p].todo \ {line} : line < k
    BY <2>2, NextLineFirst
  <2>4. c \in CandidateType /\ c # None
    BY <2>2, NoneIsNoRow DEF Fresh, Sound
  <2>5. \A q \in Scorers \ {p} : tx[q].ref = tx[p].ref => tx[q].new[line] = None
    BY <1>0 DEF InsertCandidate, Waits, WaitsFor
  <2> HIDE DEF c, line
  <2>6. tx' = [tx EXCEPT ![p] = u]
    BY <1>0, <2>1, NewTxFields DEF TxShape
  <2>7. /\ DOMAIN u = DOMAIN NewTx /\ u.creates = tx[p].creates /\ u.approves = tx[p].approves
        /\ u.ref = tx[p].ref /\ u.asOf = tx[p].asOf /\ u.inputs = tx[p].inputs
        /\ u.draft = None /\ u.todo = tx[p].todo \ {line}
        /\ u.new = [tx[p].new EXCEPT ![line] = c]
    BY <1>0, NewTxFields DEF TxShape
  <2>8. /\ u.new[line] = c
        /\ \A l \in Lines : l # line => u.new[l] = tx[p].new[l]
        /\ u.new \in [Lines -> CandidateType \cup {None}]
    BY <2>2, <2>3, <2>4, <2>7
  <2> HIDE DEF u
  <2>9. TxShape' /\ tx'[p] = u /\ \A q \in Scorers \ {p} : tx'[q] = tx[q]
    BY <1>0, <2>6, <2>7, TxGoes
  <2>10. pc' \in [Scorers -> Places] /\ pc'[p] = "scoring" /\ \A q \in Scorers \ {p} : pc'[q] = pc[q]
    BY <1>0, <2>1, Goes DEF Places, InTransaction
  <2>11. TxTyped(p)'
    BY <1>0, <2>2, <2>7, <2>8, <2>9 DEF TxTyped, InTransaction
  <2>12. TxFollows(p)'
    BY <1>0, <2>7, <2>9, <2>10 DEF CallInv, TxFollows, Tables, InTransaction, Selected
  <2>13. InsertsFollow(p)'
    <3> SUFFICES ASSUME NEW l \in Lines, u.new[l] # None
                 PROVE  /\ Fresh(tx[p].new[l], tx[p].ref, l)' /\ candidates'[tx[p].ref][l] = None
                        /\ \A k \in tx[p].todo \ {line} : l < k
      BY <1>0, <2>7, <2>9, <2>10 DEF InsertsFollow
    <3>1. PICK d, r, n : d = u.new[l] /\ r = tx[p].ref /\ n = l
      OBVIOUS
    <3>2. /\ Fresh(d, r, n) /\ candidates[tx[p].ref][l] = None
          /\ \A k \in tx[p].todo \ {line} : l < k
      <4>1. CASE l = line
        BY <2>1, <2>2, <2>3, <2>8, <3>1, <4>1
      <4>2. CASE l # line
        BY <1>0, <2>8, <3>1, <4>2 DEF CallInv, InsertsFollow
      <4> QED
        BY <4>1, <4>2
    <3>3. Fresh(d, r, n)'
      BY <1>0, <3>2 DEF Fresh, Sound, LinkFollows, Tables
    <3>4. tx'[p].new[l] = d /\ tx'[p].ref = r
      BY <2>7, <2>9, <3>1
    <3> QED
      BY <1>0, <3>1, <3>2, <3>3, <3>4 DEF Tables
  <2>14. LinesFollow(p)'
    <3> SUFFICES ASSUME NEW l \in Evaluated(p)
                 PROVE  l \in tx[p].todo \ {line} \/ u.new[l] # None
                        \/ candidates[tx[p].ref][l] # None
      BY <1>0, <2>7, <2>9 DEF LinesFollow, Evaluated, Tables
    <3>1. l \in Lines
          /\ (l \in tx[p].todo \/ tx[p].new[l] # None \/ candidates[tx[p].ref][l] # None)
      BY <1>0 DEF CallInv, LinesFollow, Evaluated
    <3> QED
      BY <2>4, <2>8, <3>1
  <2>15. \A q \in Scorers \ {p}, l \in Lines :
           tx[q].ref = u.ref /\ u.new[l] # None => tx[q].new[l] = None
    BY <2>5, <2>7, <2>8 DEF IInv, ExclusiveInserts
  <2> QED
    BY <1>0, <2>9, <2>10, <2>11, <2>12, <2>13, <2>14, <2>15, InnerStep
    DEF OnlyCall, Places, CallInv
<1> QED
  BY <1>1, <1>2
------------------------------------------------------------------------------
(* The commit of a call *)

LEMMA CountOfLines ==
  ASSUME NEW S, NEW T, S \subseteq T, T \subseteq Lines
  PROVE  /\ Cardinality(S) \in Nat /\ Cardinality(T) \in Nat
         /\ Cardinality(S) <= Cardinality(T)
<1>1. IsFiniteSet(T)
  BY LinesFinite, FS_Subset
<1> QED
  BY <1>1, FS_Subset, FS_CardinalityType

LEMMA CommitRunKeeps ==
  ASSUME IInv, NEW p \in Scorers, CommitRun(p)
  PROVE  IInv'
<1>0. /\ ScoringTypeOK /\ TxShape /\ TxTyped(p) /\ CallInv(p) /\ pc[p] = "scoring"
      /\ tx[p].todo = {} /\ episodes' = episodes /\ facts' = facts
      /\ tx[p].ref \in References /\ TablesInv
  BY DEF IInv, ScoringTypeOK, CommitRun, TxTyped, InTransaction
<1> DEFINE ref == tx[p].ref
           count == Cardinality(Evaluated(p))
<1>1. /\ runs' = [runs EXCEPT ![ref] = count]
      /\ candidates' = [candidates EXCEPT ![ref] =
                          [l \in Lines |-> IF tx[p].new[l] # None THEN tx[p].new[l] ELSE @[l]]]
      /\ approved' = (approved \/ tx[p].approves) /\ offers' = offers \cup NewOffers(p)
      /\ tx' = [tx EXCEPT ![p] = NewTx] /\ Go(p, "done")
  BY DEF CommitRun
<1>2. count \in Nat
  BY CountOfLines DEF Evaluated
<1> HIDE DEF count
<1>3. candidates \in [References -> [Lines -> CandidateType \cup {None}]]
      /\ tx[p].new \in [Lines -> CandidateType \cup {None}]
  BY <1>0 DEF ScoringTypeOK, TxTyped
<1>4. /\ candidates' \in [References -> [Lines -> CandidateType \cup {None}]]
      /\ \A r \in References \ {ref} : candidates'[r] = candidates[r]
      /\ \A l \in Lines : candidates'[ref][l] =
            IF tx[p].new[l] # None THEN tx[p].new[l] ELSE candidates[ref][l]
  <2> DEFINE row == [l \in Lines |-> IF tx[p].new[l] # None THEN tx[p].new[l]
                                     ELSE candidates[ref][l]]
  <2>1. row \in [Lines -> CandidateType \cup {None}]
    BY <1>0, <1>3
  <2>2. candidates' = [candidates EXCEPT ![ref] = row]
    BY <1>1
  <2>3. \A l \in Lines : row[l] = IF tx[p].new[l] # None THEN tx[p].new[l]
                                  ELSE candidates[ref][l]
    OBVIOUS
  <2> HIDE DEF row
  <2> QED
    BY <1>0, <1>3, <2>1, <2>2, <2>3
<1>5. \A l \in Lines : tx[p].new[l] # None => candidates[ref][l] = None
  BY <1>0 DEF CallInv, InsertsFollow
<1>6. \A r \in References, l \in Lines :
        candidates[r][l] # None => candidates'[r][l] = candidates[r][l]
  BY <1>4, <1>5
<1>7. CandidatesGrow /\ EpisodesGrow
  <2>1. \A r \in References, l \in Lines : candidates[r][l] # None => candidates'[r][l] # None
    BY <1>6
  <2> QED
    BY <1>0, <1>6, <2>1 DEF CandidatesGrow, EpisodesGrow
<1>8. approved \/ tx[p].approves
  BY <1>0 DEF CallInv, TxFollows, Selected
<1>9. /\ pc' \in [Scorers -> Places] /\ pc'[p] = "done"
      /\ \A q \in Scorers \ {p} : pc'[q] = pc[q]
  BY <1>0, <1>1, Goes DEF Places
<1>10. TxShape' /\ tx'[p] = NewTx /\ \A q \in Scorers \ {p} : tx'[q] = tx[q]
  BY <1>0, <1>1, TxGoes
<1>11. TxTyped(p)' /\ CallInv(p)'
  BY <1>9, <1>10, NewTxFacts
  DEF TxTyped, CallInv, TxFollows, InsertsFollow, LinesFollow, InTransaction, Selected
<1>12. ASSUME NEW q \in Scorers, q # p
       PROVE  TxTyped(q)' /\ CallInv(q)'
  <2>1. pc'[q] = pc[q] /\ tx'[q] = tx[q]
    BY <1>9, <1>10, <1>12
  <2>2. TxTyped(q)'
    BY <1>0, <2>1 DEF ScoringTypeOK, TxTyped
  <2>3. \A l \in Lines : tx[q].new[l] # None =>
          candidates[tx[q].ref][l] = None /\ tx[q].ref \in References
    BY <1>0 DEF IInv, CallInv, InsertsFollow, ScoringTypeOK, TxTyped, InTransaction
  <2>4. \A l \in Lines : tx[q].new[l] # None /\ tx[q].ref = ref => tx[p].new[l] = None
    BY <1>12 DEF IInv, ExclusiveInserts
  <2>5. \A l \in Lines : tx[q].new[l] # None => candidates'[tx[q].ref][l] = None
    BY <1>4, <2>3, <2>4
  <2> QED
    BY <1>1, <1>7, <2>1, <2>2, <2>5, CallStays
<1>13. ScoringTypeOK'
  <2>1. runs' \in [References -> Nat \cup {None}] /\ approved' \in BOOLEAN
    BY <1>0, <1>1, <1>2 DEF ScoringTypeOK, TxTyped
  <2>2. offers' \subseteq (References \X Lines) \X (EpisodeIds \cup {None})
    BY <1>0, <1>1 DEF ScoringTypeOK, NewOffers
  <2> QED
    BY <1>0, <1>4, <1>9, <1>11, <1>12, <2>1, <2>2 DEF ScoringTypeOK, Places
<1>14. RunsAreComplete'
  <2> SUFFICES ASSUME NEW r \in References
               PROVE  IF runs'[r] = None
                      THEN \A l \in Lines : candidates'[r][l] = None
                      ELSE /\ approved'
                           /\ runs'[r] <= Cardinality({l \in Lines : candidates'[r][l] # None})
    BY DEF RunsAreComplete
  <2>1. CASE r # ref
    BY <1>0, <1>1, <1>4, <2>1 DEF ScoringTypeOK, TablesInv, RunsAreComplete
  <2>2. CASE r = ref
    <3>1. runs'[r] = count /\ count # None /\ approved'
      BY <1>0, <1>1, <1>2, <1>8, <2>2, NoneIsNoRow DEF ScoringTypeOK
    <3>2. \A l \in Evaluated(p) : l \in Lines /\ candidates'[ref][l] # None
      BY <1>0, <1>4 DEF CallInv, LinesFollow, Evaluated
    <3>3. Evaluated(p) \subseteq {l \in Lines : candidates'[r][l] # None}
      BY <2>2, <3>2
    <3>4. count <= Cardinality({l \in Lines : candidates'[r][l] # None})
      BY <3>3, CountOfLines DEF count
    <3> QED
      BY <3>1, <3>4
  <2> QED
    BY <2>1, <2>2
<1>15. CandidatesAreSound'
  <2> SUFFICES ASSUME NEW r \in References, NEW l \in Lines, candidates'[r][l] # None
               PROVE  Sound(candidates[r][l], r, l)'
    BY DEF CandidatesAreSound
  <2>1. PICK c : c = candidates'[r][l]
    OBVIOUS
  <2>2. Sound(c, r, l)
    <3>1. CASE candidates[r][l] # None
      BY <1>0, <1>6, <2>1, <3>1 DEF TablesInv, CandidatesAreSound
    <3>2. CASE candidates[r][l] = None
      BY <1>0, <1>4, <2>1, <3>2 DEF CallInv, InsertsFollow, Fresh
    <3> QED
      BY <3>1, <3>2
  <2>3. Sound(c, r, l)'
    BY <1>7, <2>2, SoundStays
  <2> QED
    BY <2>1, <2>3
<1>16. EpisodesAreOpened'
  <2> SUFFICES ASSUME NEW e \in EpisodeIds, episodes[e] # None
               PROVE  Opens(candidates'[episodes[e].opener][episodes[e].line])
    BY <1>0 DEF EpisodesAreOpened, Opens
  <2>1. episodes[e].opener \in References /\ episodes[e].line \in Lines
    BY <1>0 DEF ScoringTypeOK, EpisodeType
  <2>2. Opens(candidates[episodes[e].opener][episodes[e].line])
    BY <1>0 DEF TablesInv, EpisodesAreOpened
  <2> QED
    BY <1>6, <2>1, <2>2 DEF Opens
<1>17. ExclusiveInserts'
  <2> SUFFICES ASSUME NEW q \in Scorers, NEW r \in Scorers, NEW l \in Lines, q # r,
                      tx'[q].ref = tx'[r].ref, tx'[q].new[l] # None, tx'[r].new[l] # None
               PROVE  FALSE
    BY DEF ExclusiveInserts
  <2>1. q # p /\ r # p
    BY <1>10, NewTxFacts
  <2> QED
    BY <1>10, <2>1 DEF IInv, ExclusiveInserts
<1>18. OffersAreSound'
  <2> SUFFICES ASSUME NEW r \in References, NEW l \in Lines, NEW e \in EpisodeIds \cup {None},
                      <<<<r, l>>, e>> \in offers'
               PROVE  /\ candidates'[r][l] # None /\ candidates'[r][l].result.basis # None
                      /\ e # None => episodes'[e] # None /\ episodes'[e].line = l
    BY DEF OffersAreSound
  <2>1. CASE <<<<r, l>>, e>> \in offers
    BY <1>0, <1>7, <2>1, OfferStays DEF TablesInv
  <2>2. CASE <<<<r, l>>, e>> \in NewOffers(p)
    <3>1. r = ref /\ Eligible(tx[p].new[l]) /\ e \in ActiveEpisodes(l) \cup {None}
      BY <2>2 DEF NewOffers
    <3>2. tx[p].new[l] # None /\ Sound(tx[p].new[l], ref, l)
      BY <1>0, <3>1 DEF CallInv, InsertsFollow, Eligible, Fresh
    <3>3. candidates'[r][l] = tx[p].new[l]
      BY <1>4, <3>1, <3>2
    <3>4. tx[p].new[l].result.basis # None
      BY <3>1, <3>2 DEF Sound
    <3> QED
      BY <1>0, <3>1, <3>2, <3>3, <3>4 DEF ActiveEpisodes
  <2> QED
    BY <1>1, <2>1, <2>2
<1> QED
  BY <1>10, <1>11, <1>12, <1>13, <1>14, <1>15, <1>16, <1>17, <1>18 DEF IInv, TablesInv
------------------------------------------------------------------------------
(* Loads and the workflow *)

\* A step of the others: the calls stay where they are.
LEMMA OuterStep ==
  ASSUME IInv, UNCHANGED <<pc, tx, runs, approved>>, EpisodesGrow, CandidatesGrow,
         facts' \subseteq Facts,
         candidates' \in [References -> [Lines -> CandidateType \cup {None}]],
         episodes' \in [EpisodeIds -> EpisodeType \cup {None}],
         \A r \in References, l \in Lines : candidates[r][l] = None => candidates'[r][l] = None,
         offers' \subseteq (References \X Lines) \X (EpisodeIds \cup {None}),
         CandidatesAreSound', EpisodesAreOpened', OffersAreSound'
  PROVE  IInv'
<1>0. ScoringTypeOK /\ TxShape /\ TablesInv /\ ExclusiveInserts
  BY DEF IInv
<1>1. ASSUME NEW q \in Scorers
      PROVE  CallInv(q)'
  <2>1. \A l \in Lines : tx[q].new[l] # None =>
          candidates[tx[q].ref][l] = None /\ tx[q].ref \in References
    BY <1>0 DEF IInv, CallInv, InsertsFollow, ScoringTypeOK, TxTyped, InTransaction
  <2> QED
    BY <2>1, CallStays
<1>2. ScoringTypeOK' /\ TxShape' /\ ExclusiveInserts'
  BY <1>0 DEF ScoringTypeOK, TxTyped, TxShape, ExclusiveInserts
<1>3. RunsAreComplete'
  <2>1. \A r \in References :
          {l \in Lines : candidates'[r][l] # None} = {l \in Lines : candidates[r][l] # None}
    BY DEF CandidatesGrow
  <2>2. \A r \in References : runs[r] = None => \A l \in Lines : candidates'[r][l] = None
    BY <1>0 DEF TablesInv, RunsAreComplete
  <2> QED
    BY <1>0, <2>1, <2>2 DEF TablesInv, RunsAreComplete
<1> QED
  BY <1>1, <1>2, <1>3 DEF IInv, TablesInv

LEMMA LoadKeeps ==
  ASSUME IInv, NEW rows \in Loads, Load(rows)
  PROVE  IInv'
<1>1. /\ UNCHANGED <<pc, tx, runs, approved, candidates, episodes, offers>> /\ facts' = facts \cup rows
      /\ ScoringTypeOK /\ TablesInv
  BY DEF Load, IInv
<1>2. facts' \subseteq Facts
  BY <1>1, ScoringAssumption DEF ScoringTypeOK
<1>3. EpisodesGrow /\ CandidatesGrow
  BY <1>1 DEF EpisodesGrow, CandidatesGrow
<1>4. CandidatesAreSound' /\ EpisodesAreOpened' /\ OffersAreSound'
  BY <1>1 DEF TablesInv, CandidatesAreSound, EpisodesAreOpened, OffersAreSound, Opens, Sound,
              LinkFollows
<1> QED
  BY <1>1, <1>2, <1>3, <1>4, OuterStep DEF ScoringTypeOK

LEMMA CloseEpisodeKeeps ==
  ASSUME IInv, NEW e \in EpisodeIds, CloseEpisode(e)
  PROVE  IInv'
<1>1. /\ UNCHANGED <<pc, tx, runs, approved, candidates, offers, facts>>
      /\ episodes' = [episodes EXCEPT ![e].active = FALSE] /\ episodes[e] # None
      /\ ScoringTypeOK /\ TablesInv
  BY DEF CloseEpisode, IInv
<1>2. episodes \in [EpisodeIds -> EpisodeType \cup {None}] /\ episodes[e] \in EpisodeType
  BY <1>1 DEF ScoringTypeOK
<1>3. PICK row : row = [episodes[e] EXCEPT !.active = FALSE]
  OBVIOUS
<1>4. row \in EpisodeType /\ row.line = episodes[e].line /\ row.opener = episodes[e].opener
      /\ row # None
  BY <1>2, <1>3, NoneIsNoRow DEF EpisodeType
<1>5. episodes' = [episodes EXCEPT ![e] = row]
  BY <1>1, <1>2, <1>3
<1>6. /\ episodes' \in [EpisodeIds -> EpisodeType \cup {None}]
      /\ \A d \in EpisodeIds : (episodes'[d] = None <=> episodes[d] = None)
      /\ \A d \in EpisodeIds : episodes[d] # None =>
           episodes'[d].line = episodes[d].line /\ episodes'[d].opener = episodes[d].opener
  BY <1>1, <1>2, <1>4, <1>5
<1>7. EpisodesGrow /\ CandidatesGrow
  BY <1>1, <1>6 DEF EpisodesGrow, CandidatesGrow
<1>8. CandidatesAreSound'
  <2> SUFFICES ASSUME NEW r \in References, NEW l \in Lines, candidates[r][l] # None
               PROVE  Sound(candidates[r][l], r, l)'
    BY <1>1 DEF CandidatesAreSound
  <2>1. PICK c : c = candidates[r][l]
    OBVIOUS
  <2>2. Sound(c, r, l)
    BY <1>1, <2>1 DEF TablesInv, CandidatesAreSound
  <2>3. Sound(c, r, l)'
    BY <1>7, <2>2, SoundStays
  <2> QED
    BY <1>1, <2>1, <2>3
<1>9. EpisodesAreOpened'
  BY <1>1, <1>6 DEF TablesInv, EpisodesAreOpened, Opens
<1>10. OffersAreSound'
  BY <1>1, <1>7, OffersStay DEF TablesInv
<1> QED
  BY <1>1, <1>6, <1>7, <1>8, <1>9, <1>10, OuterStep DEF ScoringTypeOK

\* A candidate that is linked changes in its link and its disposition.
LEMMA LinkFacts ==
  ASSUME ScoringTypeOK, NEW ref \in References, NEW line \in Lines, NEW e \in EpisodeIds,
         NEW disposition \in {"linked-existing-active-episode", "opened-new-episode"},
         candidates[ref][line] # None, Link(ref, line, e, disposition)
  PROVE  /\ candidates' \in [References -> [Lines -> CandidateType \cup {None}]]
         /\ \A r \in References, l \in Lines :
              r # ref \/ l # line => candidates'[r][l] = candidates[r][l]
         /\ candidates'[ref][line] \in CandidateType
         /\ candidates'[ref][line].link = e
         /\ candidates'[ref][line].disposition = disposition
         /\ candidates'[ref][line].result = candidates[ref][line].result
         /\ candidates'[ref][line].asOf = candidates[ref][line].asOf
<1>1. /\ candidates \in [References -> [Lines -> CandidateType \cup {None}]]
      /\ candidates[ref] \in [Lines -> CandidateType \cup {None}]
      /\ candidates[ref][line] \in CandidateType
  BY DEF ScoringTypeOK
<1>2. PICK c : c = [candidates[ref][line] EXCEPT !.link = e, !.disposition = disposition]
  OBVIOUS
<1>3. /\ c \in CandidateType /\ c.link = e /\ c.disposition = disposition
      /\ c.result = candidates[ref][line].result /\ c.asOf = candidates[ref][line].asOf
  BY <1>1, <1>2 DEF CandidateType
<1>4. candidates' = [candidates EXCEPT ![ref][line] = c]
  BY <1>1, <1>2 DEF Link, CandidateType
<1> QED
  BY <1>1, <1>3, <1>4

\* What linking and opening have in common: an offered candidate gets a link to an
\* episode of its line that is there now.
LEMMA LinkKeeps ==
  ASSUME IInv, UNCHANGED <<pc, tx, runs, approved, facts>>,
         NEW ref \in References, NEW line \in Lines, NEW e \in EpisodeIds,
         NEW disposition \in {"linked-existing-active-episode", "opened-new-episode"},
         NEW seen \in EpisodeIds \cup {None}, <<<<ref, line>>, seen>> \in offers,
         Link(ref, line, e, disposition),
         episodes' \in [EpisodeIds -> EpisodeType \cup {None}], EpisodesGrow,
         episodes'[e] # None, episodes'[e].line = line,
         disposition = "opened-new-episode" => episodes'[e].opener = ref,
         \A d \in EpisodeIds :
           episodes'[d] # None =>
             \/ episodes[d] # None
             \/ episodes'[d].opener = ref /\ episodes'[d].line = line,
         offers' \subseteq (References \X Lines) \X (EpisodeIds \cup {None}),
         \A r \in References, l \in Lines, d \in EpisodeIds \cup {None} :
           <<<<r, l>>, d>> \in offers' =>
             \/ <<<<r, l>>, d>> \in offers
             \/ l = line /\ d = e /\ <<<<r, l>>, None>> \in offers
  PROVE  IInv'
<1>0. ScoringTypeOK /\ TablesInv
  BY DEF IInv
<1>1. candidates[ref][line] # None /\ candidates[ref][line].result.basis # None
  BY <1>0 DEF TablesInv, OffersAreSound
<1>2. Sound(candidates[ref][line], ref, line)
  BY <1>0, <1>1 DEF TablesInv, CandidatesAreSound
<1>3. /\ candidates' \in [References -> [Lines -> CandidateType \cup {None}]]
      /\ \A r \in References, l \in Lines :
           r # ref \/ l # line => candidates'[r][l] = candidates[r][l]
      /\ candidates'[ref][line] \in CandidateType
      /\ candidates'[ref][line].link = e
      /\ candidates'[ref][line].disposition = disposition
      /\ candidates'[ref][line].result = candidates[ref][line].result
  BY <1>0, <1>1, LinkFacts
<1>4. candidates'[ref][line] # None /\ Opens(candidates'[ref][line])
  BY <1>1, <1>3, NoneIsNoRow DEF Opens, Linked
<1>5. CandidatesGrow
  BY <1>3, <1>4 DEF CandidatesGrow
<1>6. \A r \in References, l \in Lines : candidates[r][l] = None => candidates'[r][l] = None
  BY <1>1, <1>3
<1>7. CandidatesAreSound'
  <2> SUFFICES ASSUME NEW r \in References, NEW l \in Lines, candidates'[r][l] # None
               PROVE  Sound(candidates[r][l], r, l)'
    BY DEF CandidatesAreSound
  <2>1. PICK c : c = candidates'[r][l]
    OBVIOUS
  <2>2. CASE r # ref \/ l # line
    <3>1. Sound(c, r, l)
      BY <1>0, <1>3, <2>1, <2>2 DEF TablesInv, CandidatesAreSound
    <3>2. Sound(c, r, l)'
      BY <3>1, SoundStays
    <3> QED
      BY <2>1, <3>2
  <2>3. CASE r = ref /\ l = line
    <3>1. /\ c \in CandidateType /\ c.link = e /\ c.disposition = disposition
          /\ c.result = candidates[ref][line].result
      BY <1>3, <2>1, <2>3
    <3>2. Explains(c.result)
      BY <1>2, <3>1 DEF Sound
    <3>3. LinkFollows(c, r, l)'
      BY <2>3, <3>1, NoneIsNoRow DEF LinkFollows, Linked
    <3>4. Sound(c, r, l)'
      BY <1>1, <3>1, <3>2, <3>3 DEF Sound
    <3> QED
      BY <2>1, <3>4
  <2> QED
    BY <2>2, <2>3
<1>8. EpisodesAreOpened'
  <2> SUFFICES ASSUME NEW d \in EpisodeIds, episodes'[d] # None
               PROVE  Opens(candidates'[episodes'[d].opener][episodes'[d].line])
    BY DEF EpisodesAreOpened, Opens
  <2>1. CASE episodes[d] # None
    <3>1. /\ episodes'[d].opener = episodes[d].opener /\ episodes'[d].line = episodes[d].line
          /\ Opens(candidates[episodes[d].opener][episodes[d].line])
      BY <1>0, <2>1 DEF EpisodesGrow, TablesInv, EpisodesAreOpened
    <3>2. episodes[d].opener \in References /\ episodes[d].line \in Lines
      BY <1>0, <2>1 DEF ScoringTypeOK, EpisodeType
    <3>3. CASE episodes[d].opener = ref /\ episodes[d].line = line
      BY <1>4, <3>1, <3>3
    <3>4. CASE episodes[d].opener # ref \/ episodes[d].line # line
      BY <1>3, <3>1, <3>2, <3>4
    <3> QED
      BY <3>3, <3>4
  <2>2. CASE episodes[d] = None
    BY <1>4, <2>2
  <2> QED
    BY <2>1, <2>2
<1>9. OffersAreSound'
  <2> SUFFICES ASSUME NEW r \in References, NEW l \in Lines, NEW d \in EpisodeIds \cup {None},
                      <<<<r, l>>, d>> \in offers'
               PROVE  /\ candidates'[r][l] # None /\ candidates'[r][l].result.basis # None
                      /\ d # None => episodes'[d] # None /\ episodes'[d].line = l
    BY DEF OffersAreSound
  <2>1. CASE <<<<r, l>>, d>> \in offers
    BY <1>0, <1>5, <2>1, OfferStays DEF TablesInv
  <2>2. CASE l = line /\ d = e /\ <<<<r, l>>, None>> \in offers
    BY <1>0, <1>5, <2>2, OfferStays DEF TablesInv
  <2> QED
    BY <2>1, <2>2
<1> QED
  BY <1>0, <1>3, <1>5, <1>6, <1>7, <1>8, <1>9, OuterStep DEF ScoringTypeOK

LEMMA LinkCandidateKeeps ==
  ASSUME IInv, NEW ref \in References, NEW line \in Lines, NEW e \in EpisodeIds,
         LinkCandidate(ref, line, e)
  PROVE  IInv'
<1>1. /\ UNCHANGED <<pc, tx, runs, approved, facts, episodes, offers>>
      /\ ScoringTypeOK /\ TablesInv /\ <<<<ref, line>>, e>> \in offers
      /\ Link(ref, line, e, "linked-existing-active-episode")
  BY DEF LinkCandidate, IInv
<1>2. episodes[e] # None /\ episodes[e].line = line
  BY <1>1, NoneIsNoRow DEF TablesInv, OffersAreSound
<1>3. EpisodesGrow
  BY <1>1 DEF EpisodesGrow
<1>4. /\ episodes \in [EpisodeIds -> EpisodeType \cup {None}]
      /\ offers \subseteq (References \X Lines) \X (EpisodeIds \cup {None})
  BY <1>1 DEF ScoringTypeOK
<1> QED
  BY <1>1, <1>2, <1>3, <1>4, LinkKeeps

LEMMA OpenFromCandidateKeeps ==
  ASSUME IInv, NEW ref \in References, NEW line \in Lines, NEW e \in EpisodeIds,
         OpenFromCandidate(ref, line, e)
  PROVE  IInv'
<1>1. /\ UNCHANGED <<pc, tx, runs, approved, facts>> /\ ScoringTypeOK
      /\ <<<<ref, line>>, None>> \in offers /\ episodes[e] = None
      /\ episodes' = [episodes EXCEPT ![e] =
                        [line |-> line, opener |-> ref, active |-> TRUE]]
      /\ Link(ref, line, e, "opened-new-episode")
      /\ offers' = offers \cup {o \in (References \X {line}) \X {e} : <<o[1], None>> \in offers}
  BY DEF OpenFromCandidate, IInv
<1>2. PICK row : row = [line |-> line, opener |-> ref, active |-> TRUE]
  OBVIOUS
<1>3. row \in EpisodeType /\ row # None /\ row.line = line /\ row.opener = ref
  BY <1>2, NoneIsNoRow DEF EpisodeType
<1>4. /\ episodes' \in [EpisodeIds -> EpisodeType \cup {None}]
      /\ episodes'[e] = row
      /\ \A d \in EpisodeIds \ {e} : episodes'[d] = episodes[d]
  BY <1>1, <1>2, <1>3 DEF ScoringTypeOK
<1>5. EpisodesGrow
  BY <1>1, <1>4 DEF EpisodesGrow
<1>6. \A d \in EpisodeIds :
        episodes'[d] # None =>
          \/ episodes[d] # None
          \/ episodes'[d].opener = ref /\ episodes'[d].line = line
  BY <1>3, <1>4
<1>7. /\ offers' \subseteq (References \X Lines) \X (EpisodeIds \cup {None})
      /\ \A r \in References, l \in Lines, d \in EpisodeIds \cup {None} :
           <<<<r, l>>, d>> \in offers' =>
             \/ <<<<r, l>>, d>> \in offers
             \/ l = line /\ d = e /\ <<<<r, l>>, None>> \in offers
  BY <1>1 DEF ScoringTypeOK
<1>8. episodes'[e] # None /\ episodes'[e].line = line /\ episodes'[e].opener = ref
  BY <1>3, <1>4
<1>9. PICK seen \in EpisodeIds \cup {None} : seen = None /\ <<<<ref, line>>, seen>> \in offers
  BY <1>1
<1>10. /\ UNCHANGED <<pc, tx, runs, approved, facts>>
       /\ Link(ref, line, e, "opened-new-episode")
       /\ episodes' \in [EpisodeIds -> EpisodeType \cup {None}]
  BY <1>1, <1>4
<1> QED
  BY <1>5, <1>6, <1>7, <1>8, <1>9, <1>10, LinkKeeps
------------------------------------------------------------------------------
(* Theorems *)

LEMMA InitHolds == Init => IInv
<1> SUFFICES ASSUME Init PROVE IInv
  OBVIOUS
<1>1. PICK earlier \in Histories :
        /\ runs = [r \in References |-> IF r \in earlier THEN 0 ELSE None]
        /\ approved = (earlier # {})
  BY DEF Init
<1>2. /\ facts = Opening /\ episodes = [e \in EpisodeIds |-> None] /\ offers = {}
      /\ candidates = [r \in References |-> [l \in Lines |-> None]]
      /\ pc = [p \in Scorers |-> "idle"] /\ tx = [p \in Scorers |-> NewTx]
  BY DEF Init
<1>3. ASSUME NEW p \in Scorers
      PROVE  TxTyped(p) /\ CallInv(p) /\ tx[p] = NewTx
  BY <1>2, NewTxFacts
  DEF TxTyped, CallInv, TxFollows, InsertsFollow, LinesFollow, InTransaction, Selected
<1>4. ScoringTypeOK
  <2>1. runs \in [References -> Nat \cup {None}] /\ approved \in BOOLEAN
    BY <1>1
  <2>2. candidates \in [References -> [Lines -> CandidateType \cup {None}]]
    BY <1>2
  <2> QED
    BY <1>2, <1>3, <2>1, <2>2, ScoringAssumption DEF ScoringTypeOK
<1>5. TxShape
  BY <1>2 DEF TxShape
<1>6. RunsAreComplete
  <2> SUFFICES ASSUME NEW r \in References, runs[r] # None
               PROVE  approved /\ runs[r] <= Cardinality({l \in Lines : candidates[r][l] # None})
    BY <1>2 DEF RunsAreComplete
  <2>1. runs[r] = 0 /\ approved
    BY <1>1
  <2>2. Cardinality({l \in Lines : candidates[r][l] # None}) \in Nat
    BY CountOfLines
  <2> QED
    BY <2>1, <2>2
<1>7. CandidatesAreSound /\ EpisodesAreOpened /\ OffersAreSound
  BY <1>2 DEF CandidatesAreSound, EpisodesAreOpened, OffersAreSound
<1>8. ExclusiveInserts
  BY <1>3, NewTxFacts DEF ExclusiveInserts
<1> QED
  BY <1>3, <1>4, <1>5, <1>6, <1>7, <1>8 DEF IInv, TablesInv

LEMMA StepKeeps == IInv /\ [Next]_vars => IInv'
<1> SUFFICES ASSUME IInv, [Next]_vars PROVE IInv'
  OBVIOUS
<1>1. ASSUME NEW p \in Scorers, Start(p) \/ Proceed(p) \/ RollBack(p)
      PROVE  IInv'
  <2>1. CASE Start(p)
    BY <2>1, StartKeeps
  <2>2. CASE Proceed(p)
    BY <2>2, InsertRunKeeps, FindRulesKeeps, InsertRulesKeeps, SelectLinesKeeps,
       CollectLineKeeps, BeginScoringKeeps, ScoreLineKeeps, InsertCandidateKeeps,
       CommitRunKeeps DEF Proceed
  <2>3. CASE RollBack(p)
    BY <2>3, AbortKeeps DEF RollBack, Tables
  <2> QED
    BY <1>1, <2>1, <2>2, <2>3
<1>2. CASE \E rows \in Loads : Load(rows)
  BY <1>2, LoadKeeps
<1>3. ASSUME NEW ref \in References, NEW line \in Lines, NEW e \in EpisodeIds,
             LinkCandidate(ref, line, e) \/ OpenFromCandidate(ref, line, e)
      PROVE  IInv'
  BY <1>3, LinkCandidateKeeps, OpenFromCandidateKeeps
<1>4. CASE \E e \in EpisodeIds : CloseEpisode(e)
  BY <1>4, CloseEpisodeKeeps
<1>5. CASE UNCHANGED vars
  <2>1. UNCHANGED <<pc, tx, runs, approved, candidates, episodes, offers, facts>>
    BY <1>5 DEF vars
  <2>2. EpisodesGrow /\ CandidatesGrow
    BY <2>1 DEF EpisodesGrow, CandidatesGrow
  <2>3. CandidatesAreSound' /\ EpisodesAreOpened' /\ OffersAreSound'
    BY <2>1 DEF IInv, TablesInv, CandidatesAreSound, EpisodesAreOpened, OffersAreSound, Opens,
                Sound, LinkFollows
  <2> QED
    BY <2>1, <2>2, <2>3, OuterStep DEF IInv, ScoringTypeOK
<1> QED
  BY <1>1, <1>2, <1>3, <1>4, <1>5 DEF Next

THEOREM InvariantHolds == Spec => []IInv
BY InitHolds, StepKeeps, PTL DEF Spec

\* Every row and every open transaction is of its type (the tables of
\* models/scoring.py and the locals of score_operational_candidates).
THEOREM TypeCorrect == Spec => []ScoringTypeOK
<1>1. IInv => ScoringTypeOK
  BY DEF IInv
<1> QED
  BY <1>1, InvariantHolds, PTL

\* The points that are stored with a candidate are its score (rules.py 115-117,
\* 564-596), for every content of the operational tables.
THEOREM ScoresAlwaysExplained == Spec => []ScoresAreExplained
<1>1. IInv => ScoresAreExplained
  BY DEF IInv, TablesInv, CandidatesAreSound, Sound, ScoresAreExplained
<1> QED
  BY <1>1, InvariantHolds, PTL

\* A run that was committed has a candidate for every line it counts, and its rule
\* version (service.py 45-84).
THEOREM RunsAlwaysComplete == Spec => []RunsAreComplete
<1>1. IInv => RunsAreComplete
  BY DEF IInv, TablesInv
<1> QED
  BY <1>1, InvariantHolds, PTL

\* Every episode goes back to a candidate that met an opening rule, and every link
\* of a candidate to an episode of its line, however commands of the workflow
\* overlap (service.py 59-60, 348-355; workflow/service.py 101-168).
THEOREM LinksAlwaysJustified == Spec => []LinksAreJustified
<1>1. IInv => LinksAreJustified
  BY DEF IInv, TablesInv, CandidatesAreSound, EpisodesAreOpened, Sound, LinksAreJustified
<1> QED
  BY <1>1, InvariantHolds, PTL
------------------------------------------------------------------------------
KeptAt(r, l) ==
  candidates[r][l] # None =>
    /\ candidates'[r][l] # None
    /\ candidates'[r][l].result = candidates[r][l].result
    /\ candidates'[r][l].asOf = candidates[r][l].asOf
    /\ candidates'[r][l].link # candidates[r][l].link =>
         candidates'[r][l].link # None /\ candidates[r][l].result.basis # None

LEMMA SameIsKept ==
  ASSUME NEW r, NEW l, candidates[r][l] # None => candidates'[r][l] = candidates[r][l]
  PROVE  KeptAt(r, l)
BY DEF KeptAt

LEMMA StepKeepsCandidates ==
  ASSUME IInv, [Next]_vars, NEW r \in References, NEW l \in Lines
  PROVE  KeptAt(r, l)
<1>0. ScoringTypeOK /\ TablesInv
  BY DEF IInv
<1>1. CASE candidates' = candidates
  BY <1>0, <1>1, SameIsKept
<1>2. ASSUME NEW p \in Scorers, CommitRun(p)
      PROVE  KeptAt(r, l)
  <2>1. candidates' = [candidates EXCEPT ![tx[p].ref] =
                         [k \in Lines |-> IF tx[p].new[k] # None THEN tx[p].new[k] ELSE @[k]]]
    BY <1>2 DEF CommitRun
  <2>2. candidates \in [References -> [Lines -> CandidateType \cup {None}]]
    BY <1>0 DEF ScoringTypeOK
  <2>3. tx[p].new[l] # None => candidates[tx[p].ref][l] = None
    BY DEF IInv, CallInv, InsertsFollow
  <2>4. candidates[r][l] # None => candidates'[r][l] = candidates[r][l]
    BY <2>1, <2>2, <2>3
  <2> QED
    BY <1>0, <2>4, SameIsKept
<1>3. ASSUME NEW ref \in References, NEW line \in Lines, NEW e \in EpisodeIds,
             LinkCandidate(ref, line, e) \/ OpenFromCandidate(ref, line, e)
      PROVE  KeptAt(r, l)
  <2>1. PICK d \in {"linked-existing-active-episode", "opened-new-episode"},
             seen \in {e, None} :
          Link(ref, line, e, d) /\ <<<<ref, line>>, seen>> \in offers
    BY <1>3 DEF LinkCandidate, OpenFromCandidate
  <2>2. candidates[ref][line] # None /\ candidates[ref][line].result.basis # None
    BY <1>0, <2>1 DEF TablesInv, OffersAreSound
  <2>3. /\ r # ref \/ l # line => candidates'[r][l] = candidates[r][l]
        /\ candidates'[ref][line] \in CandidateType
        /\ candidates'[ref][line].link = e
        /\ candidates'[ref][line].result = candidates[ref][line].result
        /\ candidates'[ref][line].asOf = candidates[ref][line].asOf
    BY <1>0, <2>1, <2>2, LinkFacts
  <2>4. CASE r # ref \/ l # line
    BY <2>3, <2>4, SameIsKept
  <2>5. CASE r = ref /\ l = line
    BY <2>2, <2>3, <2>5, NoneIsNoRow DEF KeptAt
  <2> QED
    BY <2>4, <2>5
<1> QED
  BY <1>1, <1>2, <1>3
  DEF Next, Proceed, Start, InsertRun, FindRules, InsertRules, SelectLines, CollectLine,
      BeginScoring, ScoreLine, InsertCandidate, RollBack, Load, CloseEpisode, vars

\* No step rewrites what a candidate was evaluated to, removes it or its link, or
\* links one again that met no opening rule, whatever runs and commands overlap
\* (service.py 284-292; workflow/service.py 101-168).
THEOREM CandidatesAlwaysKept == Spec => CandidatesAreKept
<1>1. IInv /\ [Next]_vars =>
        [\A r \in References, l \in Lines :
           LET c == candidates[r][l]
               d == candidates'[r][l]
           IN  c # None =>
                 /\ d # None
                 /\ d.result = c.result /\ d.asOf = c.asOf
                 /\ d.link # c.link => d.link # None /\ c.result.basis # None]_vars
  BY StepKeepsCandidates DEF KeptAt
<1> QED
  BY <1>1, InvariantHolds, PTL DEF Spec, CandidatesAreKept
------------------------------------------------------------------------------
(* Calls wait upwards only: from the run to the rule version to the lines in *)
(* their order.                                                              *)

Rank(p) ==
  IF pc[p] = "creating" THEN 0 ELSE IF pc[p] = "approving" THEN 1 ELSE 2 + NextLine(p)

LEMMA RankBounds ==
  ASSUME IInv, NEW p \in Scorers, NEW q \in Scorers, WaitsFor(p, q)
  PROVE  /\ pc[p] \in {"creating", "approving", "inserting"}
         /\ Rank(p) \in 0 .. LineCount + 2
         /\ pc[p] = "inserting" => NextLine(p) \in tx[p].todo /\ NextLine(p) \in 1 .. LineCount
<1>1. pc[p] \in {"creating", "approving", "inserting"}
  BY DEF WaitsFor
<1>2. TxTyped(p) /\ CallInv(p) /\ LineCount \in Nat
  BY ScoringAssumption DEF IInv, ScoringTypeOK
<1>3. pc[p] = "inserting" => NextLine(p) \in tx[p].todo /\ NextLine(p) \in 1 .. LineCount
  BY <1>2, NextLineFirst DEF TxTyped, CallInv, TxFollows, Lines
<1> QED
  BY <1>1, <1>2, <1>3 DEF Rank

LEMMA WaitsUpwards ==
  ASSUME IInv, NEW p \in Scorers, NEW q \in Scorers, NEW r \in Scorers,
         WaitsFor(p, q), WaitsFor(q, r)
  PROVE  Rank(p) < Rank(q)
<1>1. /\ pc[q] \in {"creating", "approving", "inserting"}
      /\ pc[q] = "inserting" => NextLine(q) \in tx[q].todo /\ NextLine(q) \in 1 .. LineCount
  BY RankBounds
<1>2. CallInv(q) /\ LineCount \in Nat
  BY ScoringAssumption DEF IInv
<1>3. CASE pc[p] = "creating" /\ tx[q].creates
  BY <1>1, <1>2, <1>3 DEF Rank, CallInv, TxFollows
<1>4. CASE pc[p] = "approving" /\ tx[q].approves
  BY <1>1, <1>2, <1>4 DEF Rank, CallInv, TxFollows, Selected
<1>5. CASE pc[p] = "inserting" /\ tx[q].new[NextLine(p)] # None
  <2>1. NextLine(p) \in 1 .. LineCount /\ NextLine(p) \in Lines
    BY <1>5, RankBounds DEF Lines
  <2>2. pc[q] = "inserting" /\ \A k \in tx[q].todo : NextLine(p) < k
    BY <1>1, <1>2, <1>5, <2>1 DEF CallInv, InsertsFollow
  <2>3. NextLine(p) < NextLine(q) /\ NextLine(q) \in 1 .. LineCount
    BY <1>1, <2>2
  <2> QED
    BY <1>2, <1>5, <2>1, <2>2, <2>3 DEF Rank
<1> QED
  BY <1>3, <1>4, <1>5 DEF WaitsFor

\* However many calls overlap, and on however many lines, there is always one among
\* any that wait that does not wait for the others: the database never has to break
\* a deadlock between scoring runs (service.py 190, 204-209, 219-232, 308-309).
THEOREM NeverCircularWait == Spec => []NoCircularWait
<1>1. IInv => NoCircularWait
  <2> SUFFICES ASSUME IInv, NEW waiting \in (SUBSET Scorers) \ {{}},
                      \A p \in waiting : \E q \in waiting : WaitsFor(p, q)
               PROVE  FALSE
    BY DEF NoCircularWait
  <2>1. \A p \in waiting : p \in Scorers
    OBVIOUS
  <2>2. \A p \in waiting : Rank(p) \in 0 .. LineCount + 2
    BY <2>1, RankBounds
  <2>3. \A p, q \in waiting : WaitsFor(p, q) => Rank(p) < Rank(q)
    BY <2>1, WaitsUpwards
  <2>4. LineCount \in Nat
    BY ScoringAssumption
  <2> DEFINE S == {LineCount + 2 - Rank(p) : p \in waiting}
  <2>5. S \subseteq Nat /\ S # {}
    BY <2>2, <2>4
  <2>6. Min(S) \in S /\ \A n \in S : Min(S) <= n
    BY <2>5, MinOfNaturals
  <2>7. PICK p \in waiting : Min(S) = LineCount + 2 - Rank(p)
    BY <2>6
  <2>8. PICK q \in waiting : WaitsFor(p, q)
    OBVIOUS
  <2>9. LineCount + 2 - Rank(q) \in S
    OBVIOUS
  <2> HIDE DEF S
  <2>10. LineCount + 2 - Rank(p) <= LineCount + 2 - Rank(q)
    BY <2>6, <2>7, <2>9
  <2>11. Rank(p) < Rank(q)
    BY <2>3, <2>8
  <2> QED
    BY <2>2, <2>4, <2>10, <2>11
<1> QED
  BY <1>1, InvariantHolds, PTL
------------------------------------------------------------------------------
(* Scoring and the workflow, as it is taken here, keep to the desk *)

LEMMA DeskPairs ==
  ASSUME NEW c \in DeskCandidates
  PROVE  \E r \in References, l \in Lines : c = <<r, l>> /\ c[1] = r /\ c[2] = l
BY DEF DeskCandidates

\* How the desk reads the table of candidates.
DeskReads ==
  \A r \in References, l \in Lines :
    /\ <<r, l>> \in DeskCandidates
    /\ [c \in DeskCandidates |-> c[2]][<<r, l>>] = l
    /\ DeskDisposition[<<r, l>>] =
         IF candidates[r][l] = None THEN "absent" ELSE candidates[r][l].disposition
    /\ DeskLink[<<r, l>>] = IF candidates[r][l] = None THEN None ELSE candidates[r][l].link

LEMMA DeskFacts == DeskReads
BY DEF DeskReads, DeskCandidates, DeskDisposition, DeskLink, OfRun

LEMMA DeskFactsAfter == DeskReads'
BY DeskFacts, PTL

LEMMA DeskOn ==
  ASSUME NEW l \in Lines
  PROVE  /\ Desk!On(l) = {e \in EpisodeIds : episodes[e] # None /\ episodes[e].line = l}
         /\ Desk!On(l) \cap DeskActive = ActiveEpisodes(l)
<1>1. Desk!On(l) = {e \in EpisodeIds : episodes[e] # None /\ episodes[e].line = l}
  BY DEF Desk!On, DeskLine
<1> QED
  BY <1>1 DEF DeskActive, ActiveEpisodes

DeskTyped ==
  /\ DeskDisposition \in [DeskCandidates -> Desk!Dispositions]
  /\ DeskLink \in [DeskCandidates -> EpisodeIds \cup {None}]

LEMMA DeskTypes == ScoringTypeOK => DeskTyped
<1> SUFFICES ASSUME ScoringTypeOK PROVE DeskTyped
  OBVIOUS
<1>1. ASSUME NEW c \in DeskCandidates
      PROVE  /\ DeskDisposition[c] \in Desk!Dispositions
             /\ DeskLink[c] \in EpisodeIds \cup {None}
  <2>1. PICK r \in References, l \in Lines : c = <<r, l>>
    BY DeskPairs
  <2>2. candidates[r][l] \in CandidateType \cup {None}
    BY DEF ScoringTypeOK
  <2>3. candidates[r][l] # None =>
          /\ candidates[r][l].disposition \in Desk!Dispositions
          /\ candidates[r][l].link \in EpisodeIds \cup {None}
    BY <2>2 DEF CandidateType, Desk!Dispositions, Desk!Unlinked
  <2>4. "absent" \in Desk!Dispositions
    BY DEF Desk!Dispositions
  <2> QED
    BY <2>1, <2>3, <2>4, DeskFacts DEF DeskReads
<1> QED
  BY <1>1 DEF DeskTyped, DeskDisposition, DeskLink

LEMMA DeskTypesAfter == ScoringTypeOK' => DeskTyped'
BY DeskTypes, PTL

LEMMA DeskEligible ==
  ASSUME NEW r \in References, NEW l \in Lines
  PROVE  <<r, l>> \in Desk!Eligible(DeskDisposition) <=> Eligible(candidates[r][l])
<1>1. <<r, l>> \in Desk!Eligible(DeskDisposition) <=>
        DeskDisposition[<<r, l>>] = "opening-eligible-no-workflow"
  BY DeskFacts DEF DeskReads, Desk!Eligible
<1> QED
  BY <1>1, DeskFacts DEF DeskReads, Eligible

\* A commit inserts what it has scored.
LEMMA CommitRunInserts ==
  ASSUME IInv, IInv', NEW p \in Scorers, CommitRun(p)
  PROVE  Desk!Insert
<1> DEFINE ref == tx[p].ref
<1>0. /\ ScoringTypeOK /\ CallInv(p) /\ ref \in References /\ episodes' = episodes
      /\ ScoringTypeOK' /\ offers' = offers \cup NewOffers(p)
  BY DEF IInv, ScoringTypeOK, TxTyped, InTransaction, CommitRun
<1>1. /\ \A r \in References \ {ref}, l \in Lines : candidates'[r][l] = candidates[r][l]
      /\ \A l \in Lines : candidates'[ref][l] =
            IF tx[p].new[l] # None THEN tx[p].new[l] ELSE candidates[ref][l]
  <2>1. candidates' = [candidates EXCEPT ![ref] =
                         [l \in Lines |-> IF tx[p].new[l] # None THEN tx[p].new[l] ELSE @[l]]]
    BY DEF CommitRun
  <2> QED
    BY <1>0, <2>1 DEF ScoringTypeOK
<1>2. \A l \in Lines : tx[p].new[l] # None =>
        candidates[ref][l] = None /\ Fresh(tx[p].new[l], ref, l)
  BY <1>0 DEF CallInv, InsertsFollow
<1> HIDE DEF ref
<1>3. ASSUME NEW c \in DeskCandidates
      PROVE  \/ DeskDisposition'[c] = DeskDisposition[c] /\ DeskLink'[c] = DeskLink[c]
             \/ /\ DeskDisposition[c] = "absent"
                /\ \/ DeskDisposition'[c] \in Desk!Unlinked /\ DeskLink'[c] = None
                   \/ /\ DeskDisposition'[c] = "linked-existing-active-episode"
                      /\ DeskLink'[c] \in Desk!On([x \in DeskCandidates |-> x[2]][c])
  <2>1. PICK r \in References, l \in Lines : c = <<r, l>>
    BY DeskPairs
  <2>2. /\ DeskDisposition'[c] =
             IF candidates'[r][l] = None THEN "absent" ELSE candidates'[r][l].disposition
        /\ DeskLink'[c] = IF candidates'[r][l] = None THEN None ELSE candidates'[r][l].link
    BY <2>1, DeskFactsAfter DEF DeskReads
  <2>3. CASE candidates'[r][l] = candidates[r][l]
    <3>1. /\ DeskDisposition[c] =
               IF candidates[r][l] = None THEN "absent" ELSE candidates[r][l].disposition
          /\ DeskLink[c] = IF candidates[r][l] = None THEN None ELSE candidates[r][l].link
      BY <2>1, DeskFacts DEF DeskReads
    <3> QED
      BY <2>2, <2>3, <3>1
  <2>4. CASE r = ref /\ tx[p].new[l] # None
    <3>1. PICK n : n = tx[p].new[l]
      OBVIOUS
    <3>2. candidates'[r][l] = n /\ n # None /\ candidates[r][l] = None /\ Fresh(n, r, l)
      BY <1>1, <1>2, <2>4, <3>1
    <3>3. /\ n.disposition \in Desk!Unlinked \/ n.disposition = "linked-existing-active-episode"
          /\ n.disposition \in Desk!Unlinked => n.link = None
          /\ n.disposition = "linked-existing-active-episode" =>
               n.link # None /\ episodes[n.link] # None /\ episodes[n.link].line = l
          /\ n.link \in EpisodeIds \cup {None}
      BY <3>2 DEF Fresh, Sound, CandidateType, LinkFollows, Linked, Desk!Unlinked
    <3>4. DeskDisposition[c] = "absent" /\ [x \in DeskCandidates |-> x[2]][c] = l
      BY <2>1, <3>2, DeskFacts DEF DeskReads
    <3>5. DeskDisposition'[c] = n.disposition /\ DeskLink'[c] = n.link
      BY <2>2, <3>2
    <3>6. CASE n.disposition \in Desk!Unlinked
      BY <3>3, <3>4, <3>5, <3>6
    <3>7. CASE n.disposition = "linked-existing-active-episode"
      <4>1. n.link \in Desk!On(l)
        BY <3>3, <3>7, DeskOn
      <4> QED
        BY <3>4, <3>5, <3>7, <4>1
    <3> QED
      BY <3>3, <3>6, <3>7
  <2> QED
    BY <1>1, <2>3, <2>4
<1>4. DeskLine' = DeskLine /\ DeskActive' = DeskActive
  BY <1>0 DEF DeskLine, DeskActive
<1>5. ASSUME NEW c \in DeskCandidates, NEW r \in References, NEW l \in Lines, c = <<r, l>>
      PROVE  c \in Desk!Eligible(DeskDisposition') \ Desk!Eligible(DeskDisposition)
               <=> r = ref /\ Eligible(tx[p].new[l])
  <2>1. c \in Desk!Eligible(DeskDisposition') <=> Eligible(candidates'[r][l])
    <3>1. c \in Desk!Eligible(DeskDisposition') <=>
            DeskDisposition'[c] = "opening-eligible-no-workflow"
      BY DEF Desk!Eligible
    <3> QED
      BY <1>5, <3>1, DeskFactsAfter DEF DeskReads, Eligible
  <2>2. c \in Desk!Eligible(DeskDisposition) <=> Eligible(candidates[r][l])
    BY <1>5, DeskEligible
  <2>3. CASE r # ref
    BY <1>1, <2>1, <2>2, <2>3
  <2>4. CASE r = ref /\ tx[p].new[l] = None
    BY <1>1, <2>1, <2>2, <2>4 DEF Eligible
  <2>5. CASE r = ref /\ tx[p].new[l] # None
    BY <1>1, <1>2, <2>1, <2>2, <2>5 DEF Eligible
  <2> QED
    BY <2>3, <2>4, <2>5
<1>6. NewOffers(p)
        = Desk!OffersOf(Desk!Eligible(DeskDisposition') \ Desk!Eligible(DeskDisposition))
  <2> DEFINE E == Desk!Eligible(DeskDisposition') \ Desk!Eligible(DeskDisposition)
  <2>1. E \subseteq DeskCandidates
    BY DEF Desk!Eligible
  <2>2. \A c \in DeskCandidates :
          c \in E <=> c[1] = ref /\ Eligible(tx[p].new[c[2]])
    BY <1>5, DeskPairs
  <2> HIDE DEF E
  <2>3. \A c \in DeskCandidates :
          (Desk!On([x \in DeskCandidates |-> x[2]][c]) \cap DeskActive) = ActiveEpisodes(c[2])
    <3> SUFFICES ASSUME NEW c \in DeskCandidates
                 PROVE  (Desk!On([x \in DeskCandidates |-> x[2]][c]) \cap DeskActive)
                           = ActiveEpisodes(c[2])
      OBVIOUS
    <3>1. PICK r \in References, l \in Lines : c = <<r, l>> /\ c[2] = l
      BY DeskPairs
    <3>2. [x \in DeskCandidates |-> x[2]][c] = l
      BY <3>1
    <3> QED
      BY <3>1, <3>2, DeskOn
  <2>4. NewOffers(p) = {o \in E \X (EpisodeIds \cup {None}) :
          o[2] \in ActiveEpisodes(o[1][2]) \cup {None}}
    <3>1. \A c, e : <<c, e>> \in NewOffers(p) <=>
            /\ c \in DeskCandidates /\ c[1] = ref /\ Eligible(tx[p].new[c[2]])
            /\ e \in EpisodeIds \cup {None} /\ e \in ActiveEpisodes(c[2]) \cup {None}
      BY <1>0 DEF NewOffers, DeskCandidates, ref
    <3> QED
      BY <2>1, <2>2, <3>1 DEF NewOffers
  <2>5. Desk!OffersOf(E) = {o \in E \X (EpisodeIds \cup {None}) :
          o[2] \in ActiveEpisodes(o[1][2]) \cup {None}}
    BY <2>1, <2>3 DEF Desk!OffersOf
  <2> QED
    BY <2>4, <2>5 DEF E
<1> QED
  BY <1>0, <1>3, <1>4, <1>6, DeskTypesAfter DEF DeskTyped, Desk!Insert

\* A link is entered in the row of its candidate and in no other.
LEMMA DeskLinked ==
  ASSUME ScoringTypeOK, NEW ref \in References, NEW line \in Lines, NEW e \in EpisodeIds,
         NEW d \in {"linked-existing-active-episode", "opened-new-episode"},
         candidates[ref][line] # None, Link(ref, line, e, d)
  PROVE  /\ DeskDisposition' = [DeskDisposition EXCEPT ![<<ref, line>>] = d]
         /\ DeskLink' = [DeskLink EXCEPT ![<<ref, line>>] = e]
<1>1. /\ \A r \in References, l \in Lines :
           r # ref \/ l # line => candidates'[r][l] = candidates[r][l]
      /\ candidates'[ref][line] # None
      /\ candidates'[ref][line].link = e /\ candidates'[ref][line].disposition = d
  BY LinkFacts, NoneIsNoRow
<1>2. ASSUME NEW c \in DeskCandidates
      PROVE  /\ DeskDisposition'[c] = IF c = <<ref, line>> THEN d ELSE DeskDisposition[c]
             /\ DeskLink'[c] = IF c = <<ref, line>> THEN e ELSE DeskLink[c]
  <2>1. PICK r \in References, l \in Lines : c = <<r, l>>
    BY DeskPairs
  <2>2. /\ DeskDisposition'[c] =
             IF candidates'[r][l] = None THEN "absent" ELSE candidates'[r][l].disposition
        /\ DeskLink'[c] = IF candidates'[r][l] = None THEN None ELSE candidates'[r][l].link
    BY <2>1, DeskFactsAfter DEF DeskReads
  <2>3. CASE r = ref /\ l = line
    BY <1>1, <2>1, <2>2, <2>3
  <2>4. CASE r # ref \/ l # line
    <3>1. /\ DeskDisposition[c] =
               IF candidates[r][l] = None THEN "absent" ELSE candidates[r][l].disposition
          /\ DeskLink[c] = IF candidates[r][l] = None THEN None ELSE candidates[r][l].link
      BY <2>1, DeskFacts DEF DeskReads
    <3>2. c # <<ref, line>> /\ candidates'[r][l] = candidates[r][l]
      BY <1>1, <2>1, <2>4
    <3> QED
      BY <2>2, <3>1, <3>2
  <2> QED
    BY <2>3, <2>4
<1> QED
  BY <1>2 DEF DeskDisposition, DeskLink

LEMMA LinkCandidateLinks ==
  ASSUME IInv, NEW ref \in References, NEW line \in Lines, NEW e \in EpisodeIds,
         LinkCandidate(ref, line, e)
  PROVE  Desk!LinkTo(<<ref, line>>, e)
<1>1. /\ ScoringTypeOK /\ OffersAreSound /\ <<<<ref, line>>, e>> \in offers
      /\ Link(ref, line, e, "linked-existing-active-episode") /\ UNCHANGED <<episodes, offers>>
  BY DEF IInv, TablesInv, LinkCandidate
<1>2. candidates[ref][line] # None
  BY <1>1 DEF OffersAreSound
<1>3. UNCHANGED <<DeskLine, DeskActive>>
  BY <1>1 DEF DeskLine, DeskActive
<1> QED
  BY <1>1, <1>2, <1>3, DeskLinked DEF Desk!LinkTo

LEMMA OpenFromCandidateOpens ==
  ASSUME IInv, NEW ref \in References, NEW line \in Lines, NEW e \in EpisodeIds,
         OpenFromCandidate(ref, line, e)
  PROVE  Desk!OpenNew(<<ref, line>>, e)
<1> DEFINE row == [line |-> line, opener |-> ref, active |-> TRUE]
           LineOf == [c \in DeskCandidates |-> c[2]]
<1>1. /\ ScoringTypeOK /\ OffersAreSound /\ <<<<ref, line>>, None>> \in offers
      /\ Link(ref, line, e, "opened-new-episode")
      /\ ActiveEpisodes(line) = {} /\ episodes[e] = None
      /\ episodes' = [episodes EXCEPT ![e] = row]
      /\ offers' = offers \cup {o \in (References \X {line}) \X {e} : <<o[1], None>> \in offers}
  BY DEF IInv, TablesInv, OpenFromCandidate
<1>2. candidates[ref][line] # None
  BY <1>1 DEF OffersAreSound
<1>3. row \in EpisodeType /\ row # None /\ row.line = line /\ row.active
  BY NoneIsNoRow DEF EpisodeType
<1> HIDE DEF row
<1>4. /\ episodes'[e] = row
      /\ \A d \in EpisodeIds \ {e} : episodes'[d] = episodes[d]
  BY <1>1 DEF ScoringTypeOK
<1>5. DeskLine' = DeskLine \cup {<<e, line>>}
  BY <1>1, <1>3, <1>4 DEF DeskLine
<1>6. DeskActive' = DeskActive \cup {e}
  BY <1>3, <1>4 DEF DeskActive
<1>7. LineOf[<<ref, line>>] = line /\ <<ref, line>> \in DeskCandidates
  BY DEF DeskCandidates
<1>8. Desk!On(line) \cap DeskActive = {} /\ \A l \in Lines : e \notin Desk!On(l)
  BY <1>1, DeskOn
<1>9. {o \in (References \X {line}) \X {e} : <<o[1], None>> \in offers}
        = {o \in DeskCandidates \X {e} : LineOf[o[1]] = line /\ <<o[1], None>> \in offers}
  BY DEF DeskCandidates
<1>10. offers' = offers \cup {o \in DeskCandidates \X {e} :
                    LineOf[o[1]] = LineOf[<<ref, line>>] /\ <<o[1], None>> \in offers}
  BY <1>1, <1>7, <1>9
<1>11. /\ DeskDisposition' = [DeskDisposition EXCEPT ![<<ref, line>>] = "opened-new-episode"]
       /\ DeskLink' = [DeskLink EXCEPT ![<<ref, line>>] = e]
  BY <1>1, <1>2, DeskLinked
<1> QED
  BY <1>1, <1>5, <1>6, <1>7, <1>8, <1>10, <1>11, Zenon DEF Desk!OpenNew

LEMMA CloseEpisodeCloses ==
  ASSUME IInv, NEW e \in EpisodeIds, CloseEpisode(e)
  PROVE  Desk!Close(e)
<1>1. /\ ScoringTypeOK /\ UNCHANGED <<candidates, offers>>
      /\ episodes[e] # None /\ episodes[e].active
      /\ episodes' = [episodes EXCEPT ![e].active = FALSE]
  BY DEF IInv, CloseEpisode
<1>2. episodes[e] \in EpisodeType /\ episodes \in [EpisodeIds -> EpisodeType \cup {None}]
  BY <1>1 DEF ScoringTypeOK
<1>3. PICK row : row = [episodes[e] EXCEPT !.active = FALSE]
  OBVIOUS
<1>4. row \in EpisodeType /\ row # None /\ row.line = episodes[e].line /\ row.active = FALSE
  BY <1>2, <1>3, NoneIsNoRow DEF EpisodeType
<1>5. /\ episodes'[e] = row
      /\ \A d \in EpisodeIds \ {e} : episodes'[d] = episodes[d]
  BY <1>1, <1>2, <1>3
<1>6. DeskLine' = DeskLine
  BY <1>1, <1>4, <1>5 DEF DeskLine
<1>7. e \in DeskActive /\ DeskActive' = DeskActive \ {e}
  BY <1>1, <1>4, <1>5 DEF DeskActive
<1>8. UNCHANGED <<DeskDisposition, DeskLink>>
  BY <1>1 DEF DeskDisposition, DeskLink, OfRun
<1> QED
  BY <1>1, <1>6, <1>7, <1>8 DEF Desk!Close

LEMMA DeskStep == IInv /\ IInv' /\ [Next]_vars => [Desk!Next]_(Desk!vars)
<1> SUFFICES ASSUME IInv, IInv', [Next]_vars PROVE [Desk!Next]_(Desk!vars)
  OBVIOUS
<1>1. CASE UNCHANGED <<candidates, episodes, offers>>
  BY <1>1 DEF Desk!vars, DeskDisposition, DeskLink, DeskLine, DeskActive, OfRun
<1>2. ASSUME NEW p \in Scorers, CommitRun(p)
      PROVE  Desk!Next
  BY <1>2, CommitRunInserts DEF Desk!Next
<1>3. ASSUME NEW e \in EpisodeIds, NEW ref \in References, NEW line \in Lines,
             LinkCandidate(ref, line, e) \/ OpenFromCandidate(ref, line, e)
      PROVE  Desk!Next
  <2>1. <<ref, line>> \in DeskCandidates
    BY DEF DeskCandidates
  <2> QED
    BY <1>3, <2>1, LinkCandidateLinks, OpenFromCandidateOpens DEF Desk!Next
<1>4. ASSUME NEW e \in EpisodeIds, CloseEpisode(e)
      PROVE  Desk!Next
  BY <1>4, CloseEpisodeCloses DEF Desk!Next
<1> QED
  BY <1>1, <1>2, <1>3, <1>4
  DEF Next, Proceed, Start, InsertRun, FindRules, InsertRules, SelectLines, CollectLine,
      BeginScoring, ScoreLine, InsertCandidate, RollBack, Load, vars

LEMMA DeskInit == Init => Desk!Init
<1> SUFFICES ASSUME Init PROVE Desk!Init
  OBVIOUS
<1>1. /\ episodes = [e \in EpisodeIds |-> None] /\ offers = {}
      /\ candidates = [r \in References |-> [l \in Lines |-> None]]
  BY DEF Init
<1>2. \A c \in DeskCandidates : OfRun(c) = None
  BY <1>1, DeskPairs DEF OfRun
<1>3. /\ DeskDisposition = [c \in DeskCandidates |-> "absent"]
      /\ DeskLink = [c \in DeskCandidates |-> None]
  BY <1>2 DEF DeskDisposition, DeskLink
<1>4. DeskLine = {} /\ DeskActive = {}
  BY <1>1 DEF DeskLine, DeskActive
<1>5. Desk!Eligible(DeskDisposition) = {}
  BY <1>3 DEF Desk!Eligible
<1>6. offers = Desk!OffersOf(Desk!Eligible(DeskDisposition))
  BY <1>1, <1>5 DEF Desk!OffersOf
<1> QED
  BY <1>3, <1>4, <1>6 DEF Desk!Init

\* However runs, loads and commands overlap, candidates and episodes change as the
\* desk allows, and WorkflowService keeps to the same desk (service.py 274-336;
\* workflow/service.py 89-168).
THEOREM DeskImplemented == Spec => ImplementsDesk
BY DeskInit, DeskStep, InvariantHolds, PTL DEF Spec, ImplementsDesk, Desk!Spec
==============================================================================
