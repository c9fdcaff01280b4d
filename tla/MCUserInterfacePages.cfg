SPECIFICATION MCUiFairSpec
CONSTANTS
  None = None
  u1 = u1
  u2 = u2
  s1 = s1
  s2 = s2
  Episodes <- MCEpisodes
  Candidates <- MCTwoCandidates
  Lines <- MCTwoLines
  LineOf <- MCLineEach
  Users <- MCUsers
  Approvers <- MCBothUsers
  Keys <- MCKeys
  Sessions <- MCTwoSessions
  ActorOf <- MCActorOf
  Rank <- MCRank
  PageKeys <- MCPageKeys
  StartAfter = {0, 6}
  NewCommands = 2
INVARIANTS
  UiTypeOK
  ActsOnShown
  SuccessIsRecorded
  EarlyClickNeverRuns
PROPERTIES
  RefusalNeedsChange
  ClicksAnswered
CHECK_DEADLOCK FALSE
