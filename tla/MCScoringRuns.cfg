SPECIFICATION Spec
CONSTANTS
  None = None
  p1 = p1
  p2 = p2
  r1 = r1
  r2 = r2
  e1 = e1
  e2 = e2
  Scorers <- MCScorers
  References <- MCReferences
  AsOfTimes <- MCTwoTimes
  LineCount = 2
  Facts <- MCFacts
  Loads <- MCLoads
  Opening <- MCOpening
  Histories <- MCHistories
  EpisodeIds <- MCEpisodes
SYMMETRY ScorerSymmetry
INVARIANTS
  ScoringTypeOK
  ScoresAreExplained
  RunsAreComplete
  LinksAreJustified
  NoCircularWait
PROPERTIES
  CandidatesAreKept
  ImplementsDesk
CHECK_DEADLOCK FALSE
