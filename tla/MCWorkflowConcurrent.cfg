SPECIFICATION MCNewKeyFairSpec
CONSTANTS
  None = None
  u1 = u1
  u2 = u2
  s1 = s1
  s2 = s2
  Episodes <- MCEpisodes
  Candidates <- MCTwoCandidates
  Lines <- MCLines
  LineOf <- MCLineOf
  Users <- MCUsers
  Approvers <- MCApprovers
  Keys <- MCKeys
  Sessions <- MCTwoSessions
  StartAfter = {0, 7}
  NewCommands = 3
INVARIANTS
  TypeOK
  HistoryStartsWithOpening
  HistoryGapless
  StateIsProjection
  MaterialStateApproved
  OneActiveEpisode
  CandidateLinkConsistent
  OnlyOverlapsFollowClosure
PROPERTIES
  ImplementsJournal
  ImplementsDesk
  ClosedIsFinal
  CommandsEnd
CHECK_DEADLOCK FALSE
