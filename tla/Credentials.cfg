CONSTANTS
  ani = ani
  ANI = ANI
  budi = budi
  s1 = s1
  s2 = s2
  i1 = i1
  i2 = i2
  Users = {u1}
  Names = {ani, ANI, budi}
  Email <- MCEmail
  Normal <- MCNormal
  Authorities = {a1, a2}
  Secrets = {k1, k2}
  Extensions = {png, jpg}
  Requests = {s1, s2, i1, i2}
  Handler <- MCHandler
  MaxInFlight = 2
  MaxChanges = 2
  wide = wide
  tall = tall
  Pictures = {wide, tall}
  Size <- MCSize
  Drags <- MCDrags
  Visitor = u1
  None = None
SPECIFICATION SetupSpec
SYMMETRY Symmetry
INVARIANTS CredentialsAgree UploadsAgree
PROPERTY CredentialsStay
CHECK_DEADLOCK FALSE
