CONSTANTS
  thesis = thesis
  alike = alike
  Users = {u1, u2}
  Words = {thesis, alike}
  Signed = Signed
  PreRendered = PreRendered
  Plain <- MCPlain
  Names <- AlikeNames
  Requests = {r1, r2, r3, r4}
  MaxInFlight = 1
  Faults = TRUE
  Null = Null
SPECIFICATION FilesSpec
SYMMETRY Symmetry
INVARIANTS FilesAgree VersionsAreServed AdminPreviewsTheSame
CHECK_DEADLOCK FALSE
