SPECIFICATION MCSpec
CONSTANTS
  None = None
  u1 = u1
  u2 = u2
  s1 = s1
  s2 = s2
  Episodes <- MCEpisodes
  Candidates <- MCOtherCandidate
  Lines <- MCLines
  LineOf <- MCLineOf
  Users <- MCUsers
  Approvers <- MCApprovers
  Keys <- MCKeys
  Sessions <- MCTwoSessions
  StartAfter = {7}
  NewCommands = 2
SYMMETRY SessionSymmetry
ACTION_CONSTRAINT OnlyNew
PROPERTY ChangesFollowMatrix
CHECK_DEADLOCK FALSE
