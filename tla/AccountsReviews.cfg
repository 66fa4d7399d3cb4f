CONSTANTS
  root = root
  admin = admin
  student = student
  lecturer = lecturer
  newcomer = newcomer
  informatics = informatics
  systems = systems
  technology = technology
  n1 = n1
  Users = {root, admin, student, lecturer, newcomer}
  Seed <- MCSeed
  Prodi = {informatics, systems}
  Jurusan = {technology}
  Founded = {informatics, systems, technology}
  Nims = {n1, n2}
  Requests = {r1, r2, r3}
  MaxInFlight = 1
  None = None
  Absent = Absent
SPECIFICATION Spec
SYMMETRY Symmetry
INVARIANT AccountsAgree
PROPERTIES ScopeIsKept MembersJoinActiveUnits DecisionsStay
CHECK_DEADLOCK FALSE
