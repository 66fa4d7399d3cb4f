CONSTANTS
  owner = owner
  lecturer = lecturer
  dean = dean
  r1 = r1
  r2 = r2
  r3 = r3
  r4 = r4
  r5 = r5
  Users = {owner, dean}
  Owner = owner
  Rank <- MCRank
  Requests = {r1, r2, r3, r4}
  Handlers <- AllHandlers
  MaxInFlight = 2
  Faults = TRUE
  None = None
SPECIFICATION Spec
SYMMETRY Symmetry
INVARIANTS GapFreeOrders SignedRowHasSignature
CHECK_DEADLOCK FALSE
