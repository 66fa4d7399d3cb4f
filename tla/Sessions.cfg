CONSTANTS
  lecturer = lecturer
  superadmin = superadmin
  p1 = p1
  p2 = p2
  Users = {lecturer, superadmin}
  Passwords = {p1, p2, p3}
  Initial <- MCInitial
  Tabs = {t1, t2}
  Calls = {c1, c2, c3}
  None = None
SPECIFICATION Spec
SYMMETRY Symmetry
INVARIANT StorageAgrees
PROPERTIES IdleSessionIsOver ResetStays
CHECK_DEADLOCK FALSE
