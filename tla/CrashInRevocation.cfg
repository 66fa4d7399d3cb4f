CONSTANTS
  owner = owner
  signer = signer
  s1 = s1
  s2 = s2
  k1 = k1
  k2 = k2
  a1 = a1
  a2 = a2
  v1 = v1
  v2 = v2
  Users = {owner, signer}
  Requests = {s1, k1, k2}
  Handler <- MCHandler
  MaxInFlight = 1
  Faults = TRUE
  Configured = TRUE
  Required = TRUE
  None = None
SPECIFICATION Spec
SYMMETRY Symmetry
INVARIANT VerifiedIsActive
CHECK_DEADLOCK FALSE
