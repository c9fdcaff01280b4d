SPECIFICATION MCSpec
CONSTANTS
  None = None
  u1 = u1
  u2 = u2
  s1 = s1
  s2 = s2
  Episodes <- MCEpisodes
  Candidates <- MCOpenedCandidate
  Lines <- MCLines
  LineOf <- MCLineOf
  Users <- MCUsers
  Approvers <- MCApprovers
  Keys <- MCKeys
  Sessions <- MCOneSession
  StartAfter = {0, 3, 5, 6, 7}
  NewCommands = 3
ACTION_CONSTRAINT RetriesOrNew
INVARIANT OwnerIsProjection
PROPERTY ImplementsLifecycle
CHECK_DEADLOCK FALSE
