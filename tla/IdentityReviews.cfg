CONSTANTS
  student = student
  head = head
  lecturer = lecturer
  superadmin = superadmin
  adminProdi = adminProdi
  n1 = n1
  n2 = n2
  n3 = n3
  s1 = s1
  s2 = s2
  v1 = v1
  v2 = v2
  w1 = w1
  w2 = w2
  Users = {student, lecturer, head}
  Enrolled <- MCEnrolled
  Earlier = Earlier
  Niks = {n1, n2, n3}
  Reviewers = {superadmin, adminProdi}
  Reviews <- MCReviews
  Requests = {s1, s2, v1, v2, w1, w2}
  Handler <- MCHandler
  MaxInFlight = 2
  Fresh = TRUE
  None = None
SPECIFICATION DeskSpec
SYMMETRY Symmetry
INVARIANTS ChangesAgree IdentityHasKtp DecisionsNameReviewers RejectedIsNotApplied
PROPERTY ApprovedAsShown
CHECK_DEADLOCK FALSE
