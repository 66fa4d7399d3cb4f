CONSTANTS
  owner = owner
  lecturer = lecturer
  dean = dean
  r1 = r1
  r2 = r2
  r3 = r3
  r4 = r4
  r5 = r5
  Users = {owner, lecturer, dean}
  Owner = owner
  Rank <- MCRank
  Requests = {r1, r2, r3, r4, r5}
  Handlers <- AllHandlers
  MaxInFlight = 1
  Faults = TRUE
  None = None
SPECIFICATION Spec
SYMMETRY Symmetry
INVARIANTS RowsAgree FinalFileIsRecorded ViewsAgree ServedFileHasAllSignatures
PROPERTY ImplementsWorkflow
CHECK_DEADLOCK FALSE
