CONSTANTS
  owner = owner
  boss = boss
  s1 = s1
  k1 = k1
  a1 = a1
  a2 = a2
  v1 = v1
  v2 = v2
  Users = {owner}
  Admins = {boss}
  Requests = {s1, k1, a1, a2, v1, v2}
  Handler <- MCHandler
  MaxInFlight = 3
  Faults = TRUE
  Configured = TRUE
  Required = TRUE
  Apart = TRUE
  None = None
SPECIFICATION DeskSpec
SYMMETRY Symmetry
INVARIANTS DeskAgrees ProofMatchesLedger RevokedIsPublished ApprovedMeansRevoked
PROPERTY VerdictStays
CHECK_DEADLOCK FALSE
