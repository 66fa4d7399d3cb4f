--------------------------- MODULE AccountsProofs ---------------------------
(***************************************************************************)
(* What holds of Accounts for any accounts, units, numbers and requests:   *)
(* the types of the rows whatever overlaps, and, of a server that handles  *)
(* one request at a time, that profiles fit roles, that a student has one  *)
(* open request, that an ADMIN_PRODI keeps to the unit administered, that  *)
(* nobody joins an inactive unit, and that decisions stay.                 *)
(*                                                                         *)
(* Well says what a handler carries at each await, however requests        *)
(* overlap; StillSo what it has read that is still so, because with a      *)
(* limit of one nothing was written since.  Forms may be as old as they    *)
(* like: an open form is no request, and StillSo says nothing of it.       *)
(***************************************************************************)
EXTENDS Accounts, FiniteSetTheorems, TLAPS

CreateSteps == {"createUnits", "createNim", "createCommit"}

CheckedUpdate == {"updateNim", "updateUnits", "updateCommit"}

ScopedUpdate == {"updateTarget", "updateAccess"} \cup CheckedUpdate

UpdateSteps == {"updateScope"} \cup ScopedUpdate

DeleteSteps == {"deleteRole", "deleteCount", "deleteUpdate"}

CheckedAsk == {"askProdi", "askNim", "askPendingNim", "askCreate"}

AskSteps == {"askPending"} \cup CheckedAsk

DecidingSteps == {"approveUnit", "approveNim", "approveCommit", "rejectUpdate"}

OpenedSteps == {"reviewScope", "reviewAccess"} \cup DecidingSteps

ReviewSteps == {"reviewRead"} \cup OpenedSteps

\* A form that was filled from a row.
Draft ==
  [role : Roles, status : UserStatus, student : StudentProfile \cup {None},
   home : Units \cup {None}, post : Units \cup {None}]

\* What a handler that waits at step carries.
Well(step, s) ==
  /\ s \in Snapshot
  /\ step \in CreateSteps => s.user \in Users /\ s.payload \in CreatePayloads
  /\ step = "editing" => s.by \in Accounts /\ s.user \in Accounts /\ s.payload \in Draft
  /\ step \in UpdateSteps => s.by \in Accounts /\ s.user \in Accounts
  /\ step \in DeleteSteps => s.user \in Accounts
  /\ step \in AskSteps => s.user \in Accounts /\ s.payload.student \in StudentProfile
  /\ step \in ReviewSteps =>
       s.by \in Accounts /\ s.change \in Requests /\ changes[s.change] # None
  /\ step \in OpenedSteps => s.user = changes[s.change].user

HandlersAreWell == \A r \in Requests : Well(pc[r], snap[r])

\* A request to change a profile is of an account, and its handler is done.
ChangesAreWell ==
  \A c \in Requests : changes[c] # None => changes[c].user \in Accounts /\ pc[c] = "done"

OneAtATime ==
  /\ IsFiniteSet(InFlight)
  /\ limit = 1 => \A q, r \in InFlight : q = r

\* Whatever the row was, it fits its role once the payload is saved.
Shaped(p) == \A row \in Account : FitsRole(UpdatedAccount(row, p))

\* What a handler that waits at step has read is still so.
So(step, s) ==
  /\ step \in {"createNim", "createCommit", "updateCommit"} => UnitsOfPayload(s.payload)
  /\ step \in UpdateSteps /\ users[s.by].role = "SUPERADMIN" => Shaped(s.payload)
  /\ step \in ScopedUpdate => s.scope = AccessScope(s.by)
  /\ step \in {"updateAccess"} \cup CheckedUpdate => s.role = users[s.user].role
  /\ step \in CheckedUpdate => "all" \in s.scope \/ AdminProdiCanUpdateUser(s)
  /\ step = "deleteUpdate" /\ users[s.user].role = "SUPERADMIN" => SuperadminsLeft
  /\ step \in CheckedAsk => NoOpenRequest(s.user)
  /\ step = "askCreate" => NimNotRequested(s.payload.student.nim, s.user)
  /\ step \in OpenedSteps /\ s.verdict # None => StillOpen(s.change)
  /\ step \in {"reviewAccess"} \cup DecidingSteps => s.scope = AccessScope(s.by)
  /\ step \in DecidingSteps => InScope(s.user, s.scope) /\ s.verdict # None
  /\ step \in {"approveNim", "approveCommit"} =>
       EnsureUnit(changes[s.change].profile.prodi, Prodi)

StillSo == limit = 1 => \A r \in Requests : So(pc[r], snap[r])

IInv ==
  /\ TypeOK
  /\ HandlersAreWell
  /\ ChangesAreWell
  /\ OneAtATime
  /\ StillSo
  /\ ProfileFitsRole
  /\ OneOpenRequest

-----------------------------------------------------------------------------
(* Facts about rows and payloads *)

\* The forms send payloads, and a new account is a row that fits its role.
LEMMA CreateTypes ==
  ASSUME NEW p \in CreatePayloads
  PROVE  p \in Payload /\ NewAccount(p) \in Account /\ FitsRole(NewAccount(p))
<1>1. /\ p \in Payload /\ p.role \in Roles /\ p.student \in StudentProfile \cup {None}
      /\ p.home \in Units \cup {None} /\ p.post \in Units \cup {None}
      /\ p.student # None => p.role = "MAHASISWA"
      /\ p.role \in {"MAHASISWA", "SUPERADMIN"} => p.home = None /\ p.post = None
  <2>. DEFINE Form(role, student, home, post) ==
                [NoPayload EXCEPT !.role = role, !.student = student, !.home = home,
                                  !.post = post]
  <2>1. CASE p = Form("SUPERADMIN", None, None, None)
    BY <2>1 DEF NoPayload, Payload, Roles
  <2>2. ASSUME NEW q \in StudentProfile, p = Form("MAHASISWA", q, None, None)
        PROVE  <1>1!:
    BY <2>2 DEF NoPayload, Payload, Roles
  <2>3. ASSUME NEW n \in Units, p = Form("DOSEN", None, n, None)
        PROVE  <1>1!:
    BY <2>3 DEF NoPayload, Payload, Roles
  <2>4. ASSUME NEW role \in StructuralRoles, NEW n \in Units, p = Form(role, None, n, n)
        PROVE  <1>1!:
    BY <2>4 DEF NoPayload, Payload, Roles, StructuralRoles
  <2>5. \A role \in StructuralRoles : PostsOf(role) \subseteq Units
    BY DEF PostsOf, Units
  <2>6. \/ p = Form("SUPERADMIN", None, None, None)
        \/ \E q \in StudentProfile : p = Form("MAHASISWA", q, None, None)
        \/ \E n \in Units : p = Form("DOSEN", None, n, None)
        \/ \E role \in StructuralRoles : \E n \in PostsOf(role) : p = Form(role, None, n, n)
    BY Zenon DEF CreatePayloads
  <2>. HIDE DEF Form
  <2>. QED
    BY <2>1, <2>2, <2>3, <2>4, <2>5, <2>6
<1>. QED
  BY <1>1 DEF NewAccount, Account, UserStatus, FitsRole

\* What is saved is of the type of the row.
LEMMA UpdatedTypes ==
  ASSUME NEW row \in Account, NEW p \in Payload
  PROVE  UpdatedAccount(row, p) \in Account
<1>1. /\ Sent(p.role, row.role) \in Roles
      /\ Sent(p.status, row.status) \in UserStatus
      /\ Sent(p.student, row.student) \in StudentProfile \cup {None}
      /\ Sent(p.home, row.home) \in Units \cup {None}
      /\ Sent(p.post, row.post) \in Units \cup {None}
  BY DEF Sent, Account, Payload
<1>. QED
  BY <1>1 DEF UpdatedAccount, Account

\* A form as it was opened, edited, is a form.
LEMMA EditTypes ==
  ASSUME NEW d \in Draft, NEW e \in Edits(d)
  PROVE  e \in Draft
<1>1. ASSUME NEW f \in Draft, NEW n \in Units
      PROVE  WithPost(f, n) \in Draft
  BY DEF WithPost, Draft
<1>2. \A role \in StructuralRoles : PostsOf(role) \subseteq Units /\ role \in Roles
  BY DEF StructuralRoles, PostsOf, Units, Roles
<1>3. ASSUME NEW role \in Roles
      PROVE  [d EXCEPT !.role = role] \in Draft
  BY DEF Draft
<1>. DEFINE single == {d} \cup {[d EXCEPT !.role = role] : role \in Roles}
                          \cup {[d EXCEPT !.status = status] : status \in UserStatus}
                          \cup {[d EXCEPT !.student = p] : p \in StudentProfile}
                          \cup {[d EXCEPT !.home = n] : n \in Units}
            posts == {WithPost(d, n) : n \in Units}
            Posts(role) == {WithPost([d EXCEPT !.role = role], n) : n \in PostsOf(role)}
<1>4. single \subseteq Draft
  BY DEF Draft
<1>5. posts \subseteq Draft
  BY <1>1
<1>6. \A role \in StructuralRoles : Posts(role) \subseteq Draft
  BY <1>1, <1>2, <1>3
<1>7. e \in single \cup posts \cup UNION {Posts(role) : role \in StructuralRoles}
  BY DEF Edits
<1>. HIDE DEF single, posts, Posts
<1>. QED
  BY <1>4, <1>5, <1>6, <1>7

\* What handleSave sends of a form is a payload; what it sends for a superadmin
\* makes any row fit the role in the form.
LEMMA SavedTypes ==
  ASSUME NEW d \in Draft
  PROVE  /\ \A b \in BOOLEAN : SavedPayload(d, b) \in Payload
         /\ Shaped(SavedPayload(d, TRUE))
<1>1. /\ d.role \in Roles /\ d.status \in UserStatus /\ d.student \in StudentProfile \cup {None}
      /\ d.home \in Units \cup {None} /\ d.post \in Units \cup {None}
  BY DEF Draft
<1>2. ASSUME NEW b \in BOOLEAN
      PROVE  SavedPayload(d, b) \in Payload
  BY <1>1 DEF SavedPayload, Payload
<1>3. ASSUME NEW row \in Account
      PROVE  FitsRole(UpdatedAccount(row, SavedPayload(d, TRUE)))
  <2>. DEFINE p == SavedPayload(d, TRUE)
  <2>0. Absent # None /\ Absent \notin Roles /\ Absent \notin StudentProfile
    BY AccountsAssumption
  <2>1. p.role = d.role
    BY DEF SavedPayload
  <2>2. d.role # "MAHASISWA" => p.student = None
    BY DEF SavedPayload
  <2>3. d.role \in {"MAHASISWA", "SUPERADMIN"} => p.home = None /\ p.post = None
    BY DEF SavedPayload
  <2>4. p.student \in StudentProfile \cup {None}
    BY <1>1 DEF SavedPayload
  <2>. HIDE DEF p
  <2>. DEFINE new == UpdatedAccount(row, p)
  <2>5. /\ new.role = p.role
        /\ p.student # Absent => new.student = p.student
        /\ p.home = None => new.home = None
        /\ p.post = None => new.post = None
    BY <1>1, <2>0, <2>1 DEF UpdatedAccount, Sent, Account
  <2>. HIDE DEF new
  <2>6. FitsRole(new)
    BY <1>1, <2>0, <2>1, <2>2, <2>3, <2>4, <2>5 DEF FitsRole
  <2>. QED
    BY <2>6 DEF new, p
<1>. QED
  BY <1>2, <1>3 DEF Shaped

\* Only a superadmin's scope is everybody's; an ADMIN_PRODI's is a PRODI.
LEMMA ScopeTypes ==
  ASSUME NEW by
  PROVE  /\ AccessScope(by) \in Scopes
         /\ "all" \in AccessScope(by) <=> users[by].role = "SUPERADMIN"
         /\ users[by].role # "SUPERADMIN" => AccessScope(by) \subseteq Prodi
  BY AccountsAssumption DEF AccessScope, Scopes, Units

-----------------------------------------------------------------------------
(* Handlers *)

\* A handler that is done carries nothing, and has read nothing.
LEMMA BlankWell ==
  /\ Blank \in Snapshot /\ Well("done", Blank)
  /\ So("done", Blank)
<1>1. NoPayload \in Payload /\ {} \in Scopes
  BY DEF NoPayload, Payload, Scopes
<1>2. Blank \in Snapshot
  BY <1>1 DEF Blank, Snapshot
<1>. QED
  BY <1>2
  DEF Well, So, CreateSteps, UpdateSteps, ScopedUpdate, CheckedUpdate, DeleteSteps, AskSteps,
      CheckedAsk, ReviewSteps, OpenedSteps, DecidingSteps

\* What a handler that does nothing between two awaits has read needs no proof.
LEMMA RestsSo ==
  ASSUME NEW step \in {"idle", "editing", "done"}, NEW s
  PROVE  So(step, s)
  BY DEF So, UpdateSteps, ScopedUpdate, CheckedUpdate, CheckedAsk, OpenedSteps, DecidingSteps

\* One handler goes on; the others are where they were.
LEMMA GotoOne ==
  ASSUME TypeOK, NEW r \in Requests, NEW step \in Awaits, NEW s \in Snapshot, Goto(r, step, s)
  PROVE  /\ pc' \in [Requests -> Awaits] /\ snap' \in [Requests -> Snapshot]
         /\ pc'[r] = step /\ snap'[r] = s
         /\ \A q \in Requests \ {r} : pc'[q] = pc[q] /\ snap'[q] = snap[q]
  BY DEF Goto, TypeOK

\* What is under way after the step.
LEMMA InFlightAfter ==
  ASSUME OneAtATime, NEW r \in Requests, UNCHANGED limit,
         \A q \in Requests \ {r} : pc'[q] = pc[q],
         \/ pc'[r] \in {"editing", "done"} \/ r \in InFlight
         \/ limit = 1 => InFlight = {}
  PROVE  /\ OneAtATime'
         /\ limit = 1 /\ (r \in InFlight \/ r \in InFlight') =>
              \A q \in Requests \ {r} : pc'[q] \in {"idle", "editing", "done"}
<1>1. InFlight' \subseteq InFlight \cup {r}
  BY DEF InFlight
<1>2. IsFiniteSet(InFlight')
  <2>1. IsFiniteSet(InFlight \cup {r})
    BY FS_AddElement DEF OneAtATime
  <2>. QED
    BY <1>1, <2>1, FS_Subset
<1>. QED
  BY <1>1, <1>2 DEF OneAtATime, InFlight

\* A step that only reads: what the handler carries and has found to its next
\* await is all there is to show.
LEMMA GotoKeeps ==
  ASSUME IInv, NEW r \in Requests, NEW step \in Awaits, NEW s, Goto(r, step, s),
         pc[r] # "done", UNCHANGED <<users, units, changes, limit>>,
         Well(step, s), limit = 1 => So(step, s),
         step \in {"editing", "done"} \/ r \in InFlight \/ (limit = 1 => InFlight = {})
  PROVE  IInv'
<1>1. /\ pc' \in [Requests -> Awaits] /\ snap' \in [Requests -> Snapshot]
      /\ pc'[r] = step /\ snap'[r] = s
      /\ \A q \in Requests \ {r} : pc'[q] = pc[q] /\ snap'[q] = snap[q]
  BY GotoOne DEF IInv, Well
<1>2. TypeOK'
  BY <1>1 DEF IInv, TypeOK
<1>3. HandlersAreWell'
  <2>1. \A q \in Requests : Well(pc'[q], snap'[q])
    BY <1>1 DEF IInv, HandlersAreWell
  <2>. QED
    BY <2>1 DEF HandlersAreWell, Well, Accounts
<1>4. ChangesAreWell'
  BY <1>1 DEF IInv, ChangesAreWell, Accounts
<1>5. OneAtATime'
  BY <1>1, InFlightAfter DEF IInv
<1>6. ASSUME limit = 1, NEW q \in Requests
      PROVE  So(pc'[q], snap'[q])
  BY <1>1, <1>6 DEF IInv, StillSo
<1>7. StillSo'
  <2>. SUFFICES ASSUME limit = 1, NEW q \in Requests PROVE So(pc[q], snap[q])'
    BY DEF StillSo
  <2>1. So(pc'[q], snap'[q])
    BY <1>6
  <2>2. Accounts' = Accounts /\ ActiveUnits' = ActiveUnits /\ PendingChanges' = PendingChanges
    BY DEF Accounts, ActiveUnits, PendingChanges
  <2>. QED
    BY <2>1, <2>2
    DEF So, UnitsOfPayload, EnsureUnit, AccessScope, AdminProdiCanUpdateUser, InScope,
        SuperadminsLeft, ActiveSuperadmins, NoOpenRequest, NimNotRequested, StillOpen
<1>8. ProfileFitsRole' /\ OneOpenRequest'
  BY DEF IInv, ProfileFitsRole, Accounts, OneOpenRequest, PendingChanges
<1>. QED
  BY <1>2, <1>3, <1>4, <1>5, <1>7, <1>8 DEF IInv

\* A check that may end the handler.
LEMMA CheckKeeps ==
  ASSUME IInv, NEW r \in Requests, NEW step \in Awaits, NEW s, NEW passed,
         Check(r, step, s, passed), r \in InFlight,
         passed => Well(step, s) /\ (limit = 1 => So(step, s))
  PROVE  IInv'
<1>1. pc[r] # "done" /\ "done" \in Awaits
  BY DEF InFlight, Awaits
<1>2. CASE passed
  BY <1>1, <1>2, GotoKeeps DEF Check
<1>3. CASE ~passed
  BY <1>1, <1>3, GotoKeeps, BlankWell DEF Check, Finish
<1>. QED
  BY <1>2, <1>3

\* A step that writes, at the end of the handler: no account and no request of
\* a student goes, so that the other handlers are as well as before.
LEMMA WriteKeeps ==
  ASSUME IInv, NEW r \in Requests, Finish(r), r \in InFlight, UNCHANGED limit,
         users' \in [Users -> Account \cup {None}],
         units' \in [Units -> {"absent", "active", "inactive"}],
         changes' \in [Requests -> ChangeRequest \cup {None}],
         Accounts \subseteq Accounts',
         \A c \in Requests :
           /\ changes[c] # None => changes'[c] # None /\ changes'[c].user = changes[c].user
           /\ changes'[c] # None => changes'[c].user \in Accounts' /\ (changes[c] # None \/ c = r),
         limit = 1 => ProfileFitsRole' /\ OneOpenRequest'
  PROVE  IInv'
<1>0. TypeOK /\ "done" \in Awaits
  BY DEF IInv, Awaits
<1>1. /\ pc' \in [Requests -> Awaits] /\ snap' \in [Requests -> Snapshot]
      /\ pc'[r] = "done" /\ snap'[r] = Blank
      /\ \A q \in Requests \ {r} : pc'[q] = pc[q] /\ snap'[q] = snap[q]
  BY <1>0, GotoOne, BlankWell DEF Finish
<1>2. TypeOK'
  BY <1>0, <1>1 DEF TypeOK
<1>3. HandlersAreWell'
  <2>1. ASSUME NEW q \in Requests \ {r}
        PROVE  Well(pc[q], snap[q])'
    <3>1. Well(pc[q], snap[q]) /\ pc'[q] = pc[q] /\ snap'[q] = snap[q]
      BY <1>1 DEF IInv, HandlersAreWell
    <3>. QED
      BY <3>1 DEF Well, OpenedSteps, ReviewSteps
  <2>2. Well(pc[r], snap[r])'
    BY <1>1, BlankWell
    DEF Well, CreateSteps, UpdateSteps, ScopedUpdate, CheckedUpdate, DeleteSteps, AskSteps,
        CheckedAsk, ReviewSteps, OpenedSteps, DecidingSteps
  <2>. QED
    BY <2>1, <2>2 DEF HandlersAreWell
<1>4. ChangesAreWell'
  BY <1>1 DEF IInv, ChangesAreWell
<1>5. /\ OneAtATime'
      /\ limit = 1 => \A q \in Requests \ {r} : pc'[q] \in {"idle", "editing", "done"}
  BY <1>1, InFlightAfter DEF IInv
<1>6. StillSo'
  BY <1>1, <1>5
  DEF StillSo, So, UpdateSteps, ScopedUpdate, CheckedUpdate, CheckedAsk, OpenedSteps,
      DecidingSteps
<1>. QED
  BY <1>2, <1>3, <1>4, <1>5, <1>6 DEF IInv, ProfileFitsRole, OneOpenRequest

-----------------------------------------------------------------------------
(* Requests that arrive *)

LEMMA ArrivesAlone ==
  ASSUME IInv, NEW by, NEW roles, Arrives(by, roles)
  PROVE  limit = 1 => InFlight = {}
<1>1. IsFiniteSet(InFlight) /\ Cardinality(InFlight) \in Nat
  BY FS_CardinalityType DEF IInv, OneAtATime
<1>2. limit = 1 => Cardinality(InFlight) = 0
  BY <1>1 DEF Arrives
<1>. QED
  BY <1>1, <1>2, FS_EmptySet

\* A handler starts with what the request brought.
LEMMA ReceiveKeeps ==
  ASSUME IInv, NEW r \in Requests, Receive(r)
  PROVE  IInv'
<1>. USE DEF CreateSteps, UpdateSteps, ScopedUpdate, CheckedUpdate, DeleteSteps, AskSteps,
             CheckedAsk, ReviewSteps, OpenedSteps, DecidingSteps
<1>0. TypeOK /\ Blank \in Snapshot /\ pc[r] # "done" /\ Well(pc[r], snap[r])
  BY BlankWell DEF IInv, Receive, HandlersAreWell
<1>. DEFINE Begun(step, s) ==
              /\ Goto(r, step, s) /\ UNCHANGED <<users, units, changes, limit>>
              /\ Well(step, s) /\ (limit = 1 => So(step, s))
              /\ step = "editing" \/ (limit = 1 => InFlight = {})
<1>1. ASSUME NEW step \in Awaits, NEW s, Begun(step, s)
      PROVE  IInv'
  BY <1>0, <1>1, GotoKeeps
<1>2. ASSUME NEW by \in Accounts, NEW u \in Users, NEW p \in CreatePayloads,
             CreateReadEmail(r, by, u, p)
      PROVE  IInv'
  <2>. DEFINE s == [Blank EXCEPT !.by = by, !.user = u, !.payload = p]
  <2>1. s \in Snapshot /\ s.user = u /\ s.payload = p
    BY <1>0, CreateTypes DEF Snapshot, Accounts
  <2>2. Goto(r, "createUnits", s) /\ UNCHANGED <<users, units, changes, limit>>
    BY <1>2 DEF CreateReadEmail
  <2>3. limit = 1 => InFlight = {}
    BY <1>2, ArrivesAlone DEF CreateReadEmail
  <2>. HIDE DEF s
  <2>4. Well("createUnits", s) /\ So("createUnits", s)
    BY <2>1 DEF Well, So
  <2>. QED
    BY <2>2, <2>3, <2>4, <1>1 DEF Awaits
<1>3. ASSUME NEW by \in Accounts, NEW u \in Accounts, OpenDraft(r, by, u)
      PROVE  IInv'
  <2>. DEFINE d == [role |-> users[u].role, status |-> users[u].status,
                    student |-> users[u].student,
                    home |-> IF users[u].home = None THEN users[u].post ELSE users[u].home,
                    post |-> users[u].post]
              s == [Blank EXCEPT !.by = by, !.user = u, !.payload = d]
  <2>1. users[u] \in Account
    BY <1>0 DEF TypeOK, Accounts
  <2>2. d \in Draft /\ d \in Payload
    BY <2>1 DEF Account, Draft, Payload
  <2>3. Goto(r, "editing", s) /\ UNCHANGED <<users, units, changes, limit>>
    BY <1>3 DEF OpenDraft
  <2>. HIDE DEF d
  <2>4. s \in Snapshot /\ s.by = by /\ s.user = u /\ s.payload = d
    BY <1>0, <2>2 DEF Snapshot, Accounts
  <2>. HIDE DEF s
  <2>5. Well("editing", s) /\ So("editing", s)
    BY <2>2, <2>4, RestsSo DEF Well
  <2>. QED
    BY <2>3, <2>5, <1>1 DEF Awaits
<1>4. ASSUME NEW by \in Accounts, NEW u \in Accounts, DeleteArrives(r, by, u)
      PROVE  IInv'
  <2>. DEFINE s == [Blank EXCEPT !.by = by, !.user = u]
  <2>1. s \in Snapshot /\ s.user = u
    BY <1>0 DEF Snapshot, Accounts
  <2>2. Goto(r, "deleteRole", s) /\ UNCHANGED <<users, units, changes, limit>>
    BY <1>4 DEF DeleteArrives
  <2>3. limit = 1 => InFlight = {}
    BY <1>4, ArrivesAlone DEF DeleteArrives
  <2>. HIDE DEF s
  <2>4. Well("deleteRole", s) /\ So("deleteRole", s)
    BY <2>1 DEF Well, So
  <2>. QED
    BY <2>2, <2>3, <2>4, <1>1 DEF Awaits
<1>5. ASSUME NEW u \in Accounts, NEW p \in StudentProfile, AskRead(r, u, p)
      PROVE  IInv'
  <2>. DEFINE s == [Blank EXCEPT !.user = u, !.payload.student = p]
  <2>1. s \in Snapshot /\ s.user = u /\ s.payload.student = p
    BY <1>0 DEF Snapshot, Accounts, Payload
  <2>2. Goto(r, "askPending", s) /\ UNCHANGED <<users, units, changes, limit>>
    BY <1>5 DEF AskRead
  <2>3. limit = 1 => InFlight = {}
    BY <1>5, ArrivesAlone DEF AskRead
  <2>. HIDE DEF s
  <2>4. Well("askPending", s) /\ So("askPending", s)
    BY <2>1 DEF Well, So
  <2>. QED
    BY <2>2, <2>3, <2>4, <1>1 DEF Awaits
<1>6. ASSUME NEW by \in Accounts, NEW c \in Requests, NEW verdict \in {"APPROVED", "REJECTED"},
             ReviewArrives(r, by, c, verdict)
      PROVE  IInv'
  <2>. DEFINE s == [Blank EXCEPT !.by = by, !.change = c, !.verdict = verdict]
  <2>1. s \in Snapshot /\ s.by = by /\ s.change = c
    BY <1>0 DEF Snapshot, Accounts, VerificationStatus
  <2>2. Goto(r, "reviewRead", s) /\ UNCHANGED <<users, units, changes, limit>>
        /\ changes[c] # None
    BY <1>6 DEF ReviewArrives
  <2>3. limit = 1 => InFlight = {}
    BY <1>6, ArrivesAlone DEF ReviewArrives
  <2>. HIDE DEF s
  <2>4. Well("reviewRead", s) /\ So("reviewRead", s)
    BY <2>1, <2>2 DEF Well, So
  <2>. QED
    BY <2>2, <2>3, <2>4, <1>1 DEF Awaits
<1>7. ASSUME NEW by \in Accounts, UnitArrives(r, by)
      PROVE  IInv'
  <2>. DEFINE s == [Blank EXCEPT !.by = by]
  <2>1. s \in Snapshot
    BY <1>0 DEF Snapshot, Accounts
  <2>2. Goto(r, "unitUpdate", s) /\ UNCHANGED <<users, units, changes, limit>>
    BY <1>7 DEF UnitArrives
  <2>3. limit = 1 => InFlight = {}
    BY <1>7, ArrivesAlone DEF UnitArrives
  <2>. HIDE DEF s
  <2>4. Well("unitUpdate", s) /\ So("unitUpdate", s)
    BY <2>1 DEF Well, So
  <2>. QED
    BY <2>2, <2>3, <2>4, <1>1 DEF Awaits
<1>8. ASSUME NEW d \in Edits(snap[r].payload), UpdateArrives(r, d), pc[r] = "editing"
      PROVE  IInv'
  <2>. DEFINE super == users[snap[r].by].role = "SUPERADMIN"
              p == SavedPayload(d, super)
              s == [snap[r] EXCEPT !.payload = p]
  <2>1. /\ snap[r] \in Snapshot /\ snap[r].by \in Accounts /\ snap[r].user \in Accounts
        /\ snap[r].payload \in Draft
    BY <1>0, <1>8 DEF Well
  <2>2. d \in Draft /\ super \in BOOLEAN
    BY <2>1, EditTypes
  <2>3. p \in Payload /\ (super => Shaped(p))
    BY <2>2, SavedTypes
  <2>4. Goto(r, "updateScope", s) /\ UNCHANGED <<users, units, changes, limit>>
    BY <1>8 DEF UpdateArrives
  <2>5. limit = 1 => InFlight = {}
    BY <1>8, ArrivesAlone DEF UpdateArrives
  <2>. HIDE DEF p
  <2>6. /\ s \in Snapshot /\ s.by = snap[r].by /\ s.user = snap[r].user /\ s.payload = p
    BY <2>1, <2>3 DEF Snapshot
  <2>. HIDE DEF s
  <2>7. Well("updateScope", s) /\ So("updateScope", s)
    BY <2>1, <2>3, <2>6 DEF Well, So
  <2>. QED
    BY <2>4, <2>5, <2>7, <1>1 DEF Awaits
<1>. QED
  BY <1>2, <1>3, <1>4, <1>5, <1>6, <1>7, <1>8 DEF Receive

-----------------------------------------------------------------------------
(* The reads of a handler *)

\* What a handler knows at its await.
LEMMA AtAwait ==
  ASSUME IInv, NEW r \in Requests
  PROVE  /\ snap[r] \in Snapshot /\ Well(pc[r], snap[r])
         /\ limit = 1 => So(pc[r], snap[r])
         /\ pc[r] \notin {"idle", "editing", "done"} => r \in InFlight
  BY DEF IInv, TypeOK, HandlersAreWell, StillSo, InFlight

\* createUser finds its units active, and the number free.
LEMMA CreateReads ==
  ASSUME IInv, NEW r \in Requests, CreateReadUnits(r) \/ CreateReadNim(r)
  PROVE  IInv'
<1>. USE DEF CreateSteps, UpdateSteps, ScopedUpdate, CheckedUpdate, DeleteSteps, AskSteps,
             CheckedAsk, ReviewSteps, OpenedSteps, DecidingSteps
<1>. DEFINE s == snap[r]
<1>1. ASSUME CreateReadUnits(r) PROVE IInv'
  <2>1. pc[r] = "createUnits" /\ Check(r, "createNim", s, UnitsOfPayload(s.payload))
    BY <1>1 DEF CreateReadUnits
  <2>2. Well("createNim", s) /\ r \in InFlight
    BY <2>1, AtAwait DEF Well
  <2>3. UnitsOfPayload(s.payload) => So("createNim", s)
    BY DEF So
  <2>. QED
    BY <2>1, <2>2, <2>3, CheckKeeps DEF Awaits
<1>2. ASSUME CreateReadNim(r) PROVE IInv'
  <2>1. pc[r] = "createNim" /\ Check(r, "createCommit", s, NimOfPayload(s.payload, s.user))
    BY <1>2 DEF CreateReadNim
  <2>2. Well("createCommit", s) /\ r \in InFlight
    BY <2>1, AtAwait DEF Well
  <2>3. limit = 1 => So("createCommit", s)
    BY <2>1, AtAwait DEF So
  <2>. QED
    BY <2>1, <2>2, <2>3, CheckKeeps DEF Awaits
<1>. QED
  BY <1>1, <1>2

\* updateUser finds who asks, whom it changes, that this is allowed, and as above.
LEMMA UpdateReads ==
  ASSUME IInv, NEW r \in Requests,
         \/ UpdateReadScope(r) \/ UpdateReadUser(r) \/ UpdateReadAccess(r)
         \/ UpdateReadNim(r) \/ UpdateReadUnits(r)
  PROVE  IInv'
<1>. USE DEF CreateSteps, UpdateSteps, ScopedUpdate, CheckedUpdate, DeleteSteps, AskSteps,
             CheckedAsk, ReviewSteps, OpenedSteps, DecidingSteps
<1>. DEFINE s == snap[r]
<1>1. ASSUME UpdateReadScope(r) PROVE IInv'
  <2>. DEFINE t == [s EXCEPT !.scope = AccessScope(s.by)]
  <2>1. pc[r] = "updateScope" /\ Check(r, "updateTarget", t, users[s.by].role \in Admins)
    BY <1>1 DEF UpdateReadScope
  <2>2. /\ t \in Snapshot /\ t.by = s.by /\ t.user = s.user /\ t.payload = s.payload
        /\ t.scope = AccessScope(s.by)
    BY AtAwait, ScopeTypes DEF Snapshot
  <2>. HIDE DEF t
  <2>3. Well("updateTarget", t) /\ r \in InFlight
    BY <2>1, <2>2, AtAwait DEF Well
  <2>4. limit = 1 => So("updateTarget", t)
    BY <2>1, <2>2, AtAwait DEF So
  <2>. QED
    BY <2>1, <2>3, <2>4, CheckKeeps DEF Awaits
<1>2. ASSUME UpdateReadUser(r) PROVE IInv'
  <2>. DEFINE t == [s EXCEPT !.role = users[s.user].role]
              step == IF "all" \in s.scope THEN "updateNim" ELSE "updateAccess"
  <2>1. pc[r] = "updateTarget" /\ Check(r, step, t, TRUE)
    BY <1>2 DEF UpdateReadUser
  <2>2. s.by \in Accounts /\ s.user \in Accounts /\ s \in Snapshot /\ r \in InFlight
    BY <2>1, AtAwait DEF Well
  <2>3. users[s.user].role \in Roles
    BY <2>2 DEF IInv, TypeOK, Accounts, Account
  <2>4. /\ t \in Snapshot /\ t.by = s.by /\ t.user = s.user /\ t.payload = s.payload
        /\ t.scope = s.scope /\ t.role = users[s.user].role
    BY <2>2, <2>3 DEF Snapshot
  <2>. HIDE DEF t
  <2>5. Well(step, t)
    BY <2>2, <2>4 DEF Well
  <2>6. limit = 1 => So(step, t)
    BY <2>1, <2>4, AtAwait DEF So
  <2>7. step \in Awaits
    BY DEF Awaits
  <2>. HIDE DEF step
  <2>. QED
    BY <2>1, <2>2, <2>5, <2>6, <2>7, CheckKeeps
<1>3. ASSUME UpdateReadAccess(r) PROVE IInv'
  <2>1. pc[r] = "updateAccess" /\ Check(r, "updateNim", s, AdminProdiCanUpdateUser(s))
    BY <1>3 DEF UpdateReadAccess
  <2>2. Well("updateNim", s) /\ r \in InFlight
    BY <2>1, AtAwait DEF Well
  <2>3. limit = 1 /\ AdminProdiCanUpdateUser(s) => So("updateNim", s)
    BY <2>1, AtAwait DEF So
  <2>. QED
    BY <2>1, <2>2, <2>3, CheckKeeps DEF Awaits
<1>4. ASSUME UpdateReadNim(r) PROVE IInv'
  <2>1. pc[r] = "updateNim" /\ Check(r, "updateUnits", s, NimOfPayload(s.payload, s.user))
    BY <1>4 DEF UpdateReadNim
  <2>2. Well("updateUnits", s) /\ r \in InFlight
    BY <2>1, AtAwait DEF Well
  <2>3. limit = 1 => So("updateUnits", s)
    BY <2>1, AtAwait DEF So
  <2>. QED
    BY <2>1, <2>2, <2>3, CheckKeeps DEF Awaits
<1>5. ASSUME UpdateReadUnits(r) PROVE IInv'
  <2>1. pc[r] = "updateUnits" /\ Check(r, "updateCommit", s, UnitsOfPayload(s.payload))
    BY <1>5 DEF UpdateReadUnits
  <2>2. Well("updateCommit", s) /\ r \in InFlight
    BY <2>1, AtAwait DEF Well
  <2>3. limit = 1 /\ UnitsOfPayload(s.payload) => So("updateCommit", s)
    BY <2>1, AtAwait DEF So
  <2>. QED
    BY <2>1, <2>2, <2>3, CheckKeeps DEF Awaits
<1>. QED
  BY <1>1, <1>2, <1>3, <1>4, <1>5

\* deleteUser finds the role, and counts the superadmins if need be.
LEMMA DeleteReads ==
  ASSUME IInv, NEW r \in Requests, DeleteReadRole(r) \/ DeleteCount(r)
  PROVE  IInv'
<1>. USE DEF CreateSteps, UpdateSteps, ScopedUpdate, CheckedUpdate, DeleteSteps, AskSteps,
             CheckedAsk, ReviewSteps, OpenedSteps, DecidingSteps
<1>. DEFINE s == snap[r]
<1>1. ASSUME DeleteReadRole(r) PROVE IInv'
  <2>. DEFINE step == IF users[s.user].role = "SUPERADMIN" THEN "deleteCount" ELSE "deleteUpdate"
  <2>1. pc[r] = "deleteRole" /\ Check(r, step, s, TRUE)
    BY <1>1 DEF DeleteReadRole
  <2>2. Well(step, s) /\ r \in InFlight
    BY <2>1, AtAwait DEF Well
  <2>3. So(step, s) /\ step \in Awaits
    BY DEF So, Awaits
  <2>. HIDE DEF step
  <2>. QED
    BY <2>1, <2>2, <2>3, CheckKeeps
<1>2. ASSUME DeleteCount(r) PROVE IInv'
  <2>1. pc[r] = "deleteCount" /\ Check(r, "deleteUpdate", s, SuperadminsLeft)
    BY <1>2 DEF DeleteCount
  <2>2. Well("deleteUpdate", s) /\ r \in InFlight
    BY <2>1, AtAwait DEF Well
  <2>3. SuperadminsLeft => So("deleteUpdate", s)
    BY DEF So
  <2>. QED
    BY <2>1, <2>2, <2>3, CheckKeeps DEF Awaits
<1>. QED
  BY <1>1, <1>2

\* requestAcademicProfileChange finds that nothing is open, of the student or for
\* the number, the unit active and the number free.
LEMMA AskReads ==
  ASSUME IInv, NEW r \in Requests,
         AskReadPending(r) \/ AskReadProdi(r) \/ AskReadNim(r) \/ AskReadPendingNim(r)
  PROVE  IInv'
<1>. USE DEF CreateSteps, UpdateSteps, ScopedUpdate, CheckedUpdate, DeleteSteps, AskSteps,
             CheckedAsk, ReviewSteps, OpenedSteps, DecidingSteps
<1>. DEFINE s == snap[r]
<1>1. ASSUME AskReadPending(r) PROVE IInv'
  <2>1. pc[r] = "askPending" /\ Check(r, "askProdi", s, NoOpenRequest(s.user))
    BY <1>1 DEF AskReadPending
  <2>2. Well("askProdi", s) /\ r \in InFlight
    BY <2>1, AtAwait DEF Well
  <2>3. NoOpenRequest(s.user) => So("askProdi", s)
    BY DEF So
  <2>. QED
    BY <2>1, <2>2, <2>3, CheckKeeps DEF Awaits
<1>2. ASSUME AskReadProdi(r) PROVE IInv'
  <2>1. pc[r] = "askProdi" /\ Check(r, "askNim", s, EnsureUnit(s.payload.student.prodi, Prodi))
    BY <1>2 DEF AskReadProdi
  <2>2. Well("askNim", s) /\ r \in InFlight
    BY <2>1, AtAwait DEF Well
  <2>3. limit = 1 => So("askNim", s)
    BY <2>1, AtAwait DEF So
  <2>. QED
    BY <2>1, <2>2, <2>3, CheckKeeps DEF Awaits
<1>3. ASSUME AskReadNim(r) PROVE IInv'
  <2>1. pc[r] = "askNim" /\ Check(r, "askPendingNim", s, NimOfPayload(s.payload, s.user))
    BY <1>3 DEF AskReadNim
  <2>2. Well("askPendingNim", s) /\ r \in InFlight
    BY <2>1, AtAwait DEF Well
  <2>3. limit = 1 => So("askPendingNim", s)
    BY <2>1, AtAwait DEF So
  <2>. QED
    BY <2>1, <2>2, <2>3, CheckKeeps DEF Awaits
<1>4. ASSUME AskReadPendingNim(r) PROVE IInv'
  <2>1. pc[r] = "askPendingNim"
        /\ Check(r, "askCreate", s, NimNotRequested(s.payload.student.nim, s.user))
    BY <1>4 DEF AskReadPendingNim
  <2>2. Well("askCreate", s) /\ r \in InFlight
    BY <2>1, AtAwait DEF Well
  <2>3. limit = 1 /\ NimNotRequested(s.payload.student.nim, s.user) => So("askCreate", s)
    BY <2>1, AtAwait DEF So
  <2>. QED
    BY <2>1, <2>2, <2>3, CheckKeeps DEF Awaits
<1>. QED
  BY <1>1, <1>2, <1>3, <1>4

\* A review finds the request and whether it is open, who reviews, whether the
\* student is in that scope, and, to approve it, as above.
LEMMA ReviewReads ==
  ASSUME IInv, NEW r \in Requests,
         \/ ReviewRead(r) \/ ReviewReadScope(r) \/ ReviewReadAccess(r)
         \/ ApproveReadUnit(r) \/ ApproveReadNim(r)
  PROVE  IInv'
<1>. USE DEF CreateSteps, UpdateSteps, ScopedUpdate, CheckedUpdate, DeleteSteps, AskSteps,
             CheckedAsk, ReviewSteps, OpenedSteps, DecidingSteps
<1>. DEFINE s == snap[r]
            c == snap[r].change
<1>1. ASSUME ReviewRead(r) PROVE IInv'
  <2>. DEFINE t == [s EXCEPT !.user = changes[c].user,
                             !.verdict = IF StillOpen(c) THEN @ ELSE None]
  <2>1. pc[r] = "reviewRead" /\ Check(r, "reviewScope", t, TRUE)
    BY <1>1 DEF ReviewRead
  <2>2. /\ s \in Snapshot /\ r \in InFlight /\ s.by \in Accounts /\ c \in Requests
        /\ changes[c] # None
    BY <2>1, AtAwait DEF Well
  <2>3. changes[c].user \in Users
    BY <2>2 DEF IInv, ChangesAreWell, Accounts
  <2>4. /\ t \in Snapshot /\ t.by = s.by /\ t.user = changes[c].user /\ t.change = c
        /\ t.verdict # None => StillOpen(c)
    BY <2>2, <2>3 DEF Snapshot
  <2>. HIDE DEF t
  <2>5. Well("reviewScope", t)
    BY <2>2, <2>4 DEF Well
  <2>6. So("reviewScope", t)
    BY <2>4 DEF So
  <2>. QED
    BY <2>1, <2>2, <2>5, <2>6, CheckKeeps DEF Awaits
<1>2. ASSUME ReviewReadScope(r) PROVE IInv'
  <2>. DEFINE t == [s EXCEPT !.scope = AccessScope(s.by)]
  <2>1. pc[r] = "reviewScope" /\ Check(r, "reviewAccess", t, users[s.by].role \in Admins)
    BY <1>2 DEF ReviewReadScope
  <2>2. /\ t \in Snapshot /\ t.by = s.by /\ t.user = s.user /\ t.change = s.change
        /\ t.verdict = s.verdict /\ t.scope = AccessScope(s.by)
    BY AtAwait, ScopeTypes DEF Snapshot
  <2>. HIDE DEF t
  <2>3. Well("reviewAccess", t) /\ r \in InFlight
    BY <2>1, <2>2, AtAwait DEF Well
  <2>4. limit = 1 => So("reviewAccess", t)
    BY <2>1, <2>2, AtAwait DEF So
  <2>. QED
    BY <2>1, <2>3, <2>4, CheckKeeps DEF Awaits
<1>3. ASSUME ReviewReadAccess(r) PROVE IInv'
  <2>. DEFINE step == IF s.verdict = "APPROVED" THEN "approveUnit" ELSE "rejectUpdate"
              passed == InScope(s.user, s.scope) /\ s.verdict # None
  <2>1. pc[r] = "reviewAccess" /\ Check(r, step, s, passed)
    BY <1>3 DEF ReviewReadAccess
  <2>2. Well(step, s) /\ r \in InFlight
    BY <2>1, AtAwait DEF Well
  <2>3. limit = 1 /\ passed => So(step, s)
    BY <2>1, AtAwait DEF So
  <2>4. step \in Awaits
    BY DEF Awaits
  <2>. HIDE DEF step, passed
  <2>. QED
    BY <2>1, <2>2, <2>3, <2>4, CheckKeeps
<1>4. ASSUME ApproveReadUnit(r) PROVE IInv'
  <2>. DEFINE passed == EnsureUnit(changes[c].profile.prodi, Prodi)
  <2>1. pc[r] = "approveUnit" /\ Check(r, "approveNim", s, passed)
    BY <1>4 DEF ApproveReadUnit
  <2>2. Well("approveNim", s) /\ r \in InFlight
    BY <2>1, AtAwait DEF Well
  <2>3. limit = 1 /\ passed => So("approveNim", s)
    BY <2>1, AtAwait DEF So
  <2>. HIDE DEF passed
  <2>. QED
    BY <2>1, <2>2, <2>3, CheckKeeps DEF Awaits
<1>5. ASSUME ApproveReadNim(r) PROVE IInv'
  <2>. DEFINE passed == NimIsFree(changes[c].profile.nim, changes[c].user)
  <2>1. pc[r] = "approveNim" /\ Check(r, "approveCommit", s, passed)
    BY <1>5 DEF ApproveReadNim
  <2>2. Well("approveCommit", s) /\ r \in InFlight
    BY <2>1, AtAwait DEF Well
  <2>3. limit = 1 => So("approveCommit", s)
    BY <2>1, AtAwait DEF So
  <2>. HIDE DEF passed
  <2>. QED
    BY <2>1, <2>2, <2>3, CheckKeeps DEF Awaits
<1>. QED
  BY <1>1, <1>2, <1>3, <1>4, <1>5

-----------------------------------------------------------------------------
(* The writes of a handler *)

\* What an ADMIN_PRODI may save of a member of the unit leaves a member of it,
\* with the same role, status and assignments, whose profile fits the role.
LEMMA MemberStays ==
  ASSUME NEW r \in Requests, snap[r].user \in Accounts, users[snap[r].user] \in Account,
         FitsRole(users[snap[r].user]), snap[r] \in Snapshot, snap[r].scope \subseteq Prodi,
         snap[r].role = users[snap[r].user].role, AdminProdiCanUpdateUser(snap[r])
  PROVE  LET row == users[snap[r].user]
             new == UpdatedAccount(row, snap[r].payload) IN
         /\ row.role \in {"MAHASISWA", "DOSEN"} /\ InScope(snap[r].user, snap[r].scope)
         /\ \A field \in {"role", "status", "deleted", "post"} : new[field] = row[field]
         /\ FitsRole(new) /\ RowInScope(new, snap[r].scope)
<1>. DEFINE s == snap[r]
            row == users[s.user]
            p == s.payload
            new == UpdatedAccount(row, p)
<1>0. /\ row \in Account /\ FitsRole(row) /\ s.scope \subseteq Prodi /\ p \in Payload
      /\ Absent # None /\ None \notin s.scope /\ "all" \notin s.scope
  BY AccountsAssumption DEF Snapshot, Units
<1>1. /\ row.role \in {"MAHASISWA", "DOSEN"} /\ RowInScope(row, s.scope)
      /\ p.role = Absent /\ p.status = Absent /\ p.post = Absent
      /\ row.role = "MAHASISWA" =>
           /\ p.home = Absent /\ p.student # None
           /\ p.student # Absent => p.student.prodi \in s.scope
      /\ row.role = "DOSEN" =>
           /\ p.student = Absent /\ p.home # None
           /\ p.home # Absent => p.home \in s.scope
  BY DEF AdminProdiCanUpdateUser, InScope
<1>. HIDE DEF row, p, s
<1>2. /\ new.role = row.role /\ new.status = row.status /\ new.deleted = row.deleted
      /\ new.post = row.post
      /\ new.student = Sent(p.student, row.student) /\ new.home = Sent(p.home, row.home)
  BY <1>0, <1>1 DEF UpdatedAccount, Sent, Account
<1>. HIDE DEF new
<1>3. ASSUME row.role = "MAHASISWA"
      PROVE  FitsRole(new) /\ RowInScope(new, s.scope)
  <2>1. new.home = None /\ new.post = None /\ row.home = None /\ row.post = None
    BY <1>0, <1>1, <1>2, <1>3 DEF Sent, FitsRole
  <2>2. row.student # None /\ row.student.prodi \in s.scope
    BY <1>0, <1>1, <2>1 DEF RowInScope
  <2>3. new.student # None /\ new.student.prodi \in s.scope
    BY <1>1, <1>2, <1>3, <2>2 DEF Sent
  <2>. QED
    BY <1>2, <1>3, <2>1, <2>3 DEF FitsRole, RowInScope
<1>4. ASSUME row.role = "DOSEN"
      PROVE  FitsRole(new) /\ RowInScope(new, s.scope)
  <2>1. new.student = None /\ row.student = None
    BY <1>0, <1>1, <1>2, <1>4 DEF Sent, FitsRole
  <2>2. {row.home, row.post} \cap s.scope # {}
    BY <1>0, <1>1, <2>1 DEF RowInScope
  <2>3. {new.home, new.post} \cap s.scope # {}
    BY <1>1, <1>2, <1>4, <2>2 DEF Sent
  <2>. QED
    BY <1>2, <1>4, <2>1, <2>3 DEF FitsRole, RowInScope
<1>5. InScope(s.user, s.scope)
  BY <1>1 DEF InScope, row
<1>6. \A field \in {"role", "status", "deleted", "post"} : new[field] = row[field]
  BY <1>2
<1>. QED
  BY <1>1, <1>3, <1>4, <1>5, <1>6 DEF new, row, p, s

\* With a limit of one, a row fits its role after the update.
LEMMA UpdateFits ==
  ASSUME IInv, limit = 1, NEW r \in Requests, pc[r] = "updateCommit"
  PROVE  /\ FitsRole(UpdatedAccount(users[snap[r].user], snap[r].payload))
         /\ users[snap[r].by].role # "SUPERADMIN" =>
              snap[r].scope \subseteq Prodi /\ AdminProdiCanUpdateUser(snap[r])
<1>. DEFINE s == snap[r]
<1>0. /\ s \in Snapshot /\ s.user \in Accounts /\ s.by \in Accounts
      /\ users[s.user] \in Account /\ FitsRole(users[s.user])
  BY AtAwait DEF Well, UpdateSteps, ScopedUpdate, CheckedUpdate, IInv, TypeOK, ProfileFitsRole,
                 Accounts
<1>1. /\ users[s.by].role = "SUPERADMIN" => Shaped(s.payload)
      /\ s.scope = AccessScope(s.by) /\ s.role = users[s.user].role
      /\ "all" \in s.scope \/ AdminProdiCanUpdateUser(s)
  BY AtAwait DEF So, UpdateSteps, ScopedUpdate, CheckedUpdate
<1>2. CASE users[s.by].role = "SUPERADMIN"
  BY <1>0, <1>1, <1>2 DEF Shaped
<1>3. CASE users[s.by].role # "SUPERADMIN"
  <2>1. s.scope \subseteq Prodi /\ "all" \notin s.scope
    BY <1>1, <1>3, ScopeTypes
  <2>. QED
    BY <1>0, <1>1, <1>3, <2>1, MemberStays
<1>. QED
  BY <1>2, <1>3

\* One account is written, and fits its role.
LEMMA AccountWritten ==
  ASSUME IInv, NEW r \in Requests, r \in InFlight, Finish(r), UNCHANGED <<units, changes, limit>>,
         NEW u \in Users, NEW row \in Account, limit = 1 => FitsRole(row),
         users' \in {users, [users EXCEPT ![u] = row]}
  PROVE  IInv'
<1>0. /\ users \in [Users -> Account \cup {None}] /\ None \notin Account
      /\ units \in [Units -> {"absent", "active", "inactive"}]
      /\ changes \in [Requests -> ChangeRequest \cup {None}]
  BY AccountsAssumption DEF IInv, TypeOK
<1>1. /\ users' \in [Users -> Account \cup {None}]
      /\ \A v \in Users : users'[v] = users[v] \/ users'[v] = row
      /\ \A v \in Users : users[v] # None => users'[v] # None
  BY <1>0
<1>2. Accounts \subseteq Accounts'
  BY <1>1 DEF Accounts
<1>3. limit = 1 => ProfileFitsRole'
  BY <1>0, <1>1 DEF IInv, ProfileFitsRole, Accounts
<1>4. OneOpenRequest'
  BY DEF IInv, OneOpenRequest, PendingChanges
<1>5. \A c \in Requests : changes[c] # None => changes[c].user \in Accounts'
  BY <1>2 DEF IInv, ChangesAreWell
<1>. QED
  BY <1>0, <1>1, <1>2, <1>3, <1>4, <1>5, WriteKeeps

\* createUser, updateUser and deleteUser.
LEMMA AccountWrites ==
  ASSUME IInv, NEW r \in Requests, CreateCommit(r) \/ UpdateCommit(r) \/ DeleteUpdate(r)
  PROVE  IInv'
<1>. DEFINE s == snap[r]
<1>1. ASSUME CreateCommit(r) PROVE IInv'
  <2>1. /\ pc[r] = "createCommit" /\ Finish(r) /\ UNCHANGED <<units, changes, limit>>
        /\ users' \in {users, [users EXCEPT ![s.user] = NewAccount(s.payload)]}
    BY <1>1 DEF CreateCommit
  <2>2. s.user \in Users /\ s.payload \in CreatePayloads /\ r \in InFlight
    BY <2>1, AtAwait DEF Well, CreateSteps
  <2>3. NewAccount(s.payload) \in Account /\ FitsRole(NewAccount(s.payload))
    BY <2>2, CreateTypes
  <2>. QED
    BY <2>1, <2>2, <2>3, AccountWritten
<1>2. ASSUME UpdateCommit(r) PROVE IInv'
  <2>1. /\ pc[r] = "updateCommit" /\ Finish(r) /\ UNCHANGED <<units, changes, limit>>
        /\ users' \in {users, [users EXCEPT ![s.user] = UpdatedAccount(@, s.payload)]}
    BY <1>2 DEF UpdateCommit
  <2>2. s.user \in Accounts /\ s.payload \in Payload /\ r \in InFlight
    BY <2>1, AtAwait DEF Well, UpdateSteps, ScopedUpdate, CheckedUpdate, Snapshot
  <2>3. s.user \in Users /\ users[s.user] \in Account
    BY <2>2 DEF IInv, TypeOK, Accounts
  <2>4. UpdatedAccount(users[s.user], s.payload) \in Account
    BY <2>2, <2>3, UpdatedTypes
  <2>. QED
    BY <2>1, <2>2, <2>3, <2>4, UpdateFits, AccountWritten
<1>3. ASSUME DeleteUpdate(r) PROVE IInv'
  <2>. DEFINE row == [users[s.user] EXCEPT !.status = "DISABLED", !.deleted = TRUE]
  <2>1. /\ pc[r] = "deleteUpdate" /\ Finish(r) /\ UNCHANGED <<units, changes, limit>>
        /\ users' = [users EXCEPT ![s.user] = row]
    BY <1>3 DEF DeleteUpdate
  <2>2. s.user \in Accounts /\ r \in InFlight
    BY <2>1, AtAwait DEF Well, DeleteSteps
  <2>3. s.user \in Users /\ users[s.user] \in Account
        /\ (limit = 1 => FitsRole(users[s.user]))
    BY <2>2 DEF IInv, TypeOK, Accounts, ProfileFitsRole
  <2>4. row \in Account /\ (limit = 1 => FitsRole(row))
    BY <2>3 DEF Account, UserStatus, FitsRole
  <2>. HIDE DEF row
  <2>. QED
    BY <2>1, <2>2, <2>3, <2>4, AccountWritten
<1>. QED
  BY <1>1, <1>2, <1>3

\* A request of a student is created: the only one that is open.
LEMMA AskWrites ==
  ASSUME IInv, NEW r \in Requests, AskCreate(r)
  PROVE  IInv'
<1>. DEFINE s == snap[r]
            row == [user |-> s.user, profile |-> s.payload.student, status |-> "PENDING"]
<1>0. /\ users \in [Users -> Account \cup {None}]
      /\ units \in [Units -> {"absent", "active", "inactive"}]
      /\ changes \in [Requests -> ChangeRequest \cup {None}] /\ None \notin ChangeRequest
  BY AccountsAssumption DEF IInv, TypeOK
<1>1. /\ pc[r] = "askCreate" /\ Finish(r) /\ UNCHANGED <<users, units, limit>>
      /\ changes' = [changes EXCEPT ![r] = row]
  BY DEF AskCreate
<1>2. s.user \in Accounts /\ s.payload.student \in StudentProfile /\ r \in InFlight
  BY <1>1, AtAwait DEF Well, AskSteps, CheckedAsk
<1>3. row \in ChangeRequest
  BY <1>2 DEF ChangeRequest, VerificationStatus, Accounts
<1>4. /\ changes' \in [Requests -> ChangeRequest \cup {None}]
      /\ changes'[r] = row /\ \A c \in Requests \ {r} : changes'[c] = changes[c]
  BY <1>0, <1>1, <1>3
<1>5. changes[r] = None /\ Accounts' = Accounts
  BY <1>1 DEF IInv, ChangesAreWell, Accounts
<1>6. limit = 1 => ProfileFitsRole' /\ OneOpenRequest'
  <2>. SUFFICES ASSUME limit = 1 PROVE ProfileFitsRole' /\ OneOpenRequest'
    OBVIOUS
  <2>1. /\ NoOpenRequest(s.user) /\ NimNotRequested(s.payload.student.nim, s.user)
    BY <1>1, AtAwait DEF So, CheckedAsk
  <2>2. \A c \in PendingChanges : changes[c].user # s.user
                                  /\ changes[c].profile.nim # s.payload.student.nim
    BY <2>1 DEF NoOpenRequest, NimNotRequested
  <2>3. PendingChanges' = PendingChanges \cup {r} /\ r \notin PendingChanges
    BY <1>0, <1>3, <1>4, <1>5 DEF PendingChanges
  <2>4. OneOpenRequest'
    <3>. SUFFICES ASSUME NEW c \in PendingChanges', NEW d \in PendingChanges',
                         \/ changes'[c].user = changes'[d].user
                         \/ changes'[c].profile.nim = changes'[d].profile.nim
                  PROVE  c = d
      BY DEF OneOpenRequest
    <3>1. CASE c = r /\ d = r
      BY <3>1
    <3>2. CASE c # r /\ d # r
      BY <1>4, <2>3, <3>2 DEF IInv, OneOpenRequest, PendingChanges
    <3>3. CASE c = r /\ d # r
      BY <1>4, <2>2, <2>3, <3>3 DEF PendingChanges
    <3>4. CASE c # r /\ d = r
      BY <1>4, <2>2, <2>3, <3>4 DEF PendingChanges
    <3>. QED
      BY <3>1, <3>2, <3>3, <3>4
  <2>5. ProfileFitsRole'
    BY <1>1 DEF IInv, ProfileFitsRole, Accounts
  <2>. QED
    BY <2>4, <2>5
<1>7. \A c \in Requests :
        /\ changes[c] # None => changes'[c] # None /\ changes'[c].user = changes[c].user
        /\ changes'[c] # None => changes'[c].user \in Accounts' /\ (changes[c] # None \/ c = r)
  BY <1>0, <1>2, <1>4, <1>5 DEF IInv, ChangesAreWell
<1>. HIDE DEF row
<1>. QED
  BY <1>0, <1>1, <1>2, <1>4, <1>5, <1>6, <1>7, WriteKeeps

\* A verdict is given, and the profile that was asked for is put in its place.
LEMMA ReviewWrites ==
  ASSUME IInv, NEW r \in Requests, ApproveCommit(r) \/ RejectUpdate(r)
  PROVE  IInv'
<1>. DEFINE s == snap[r]
            c == snap[r].change
<1>0. /\ users \in [Users -> Account \cup {None}] /\ None \notin Account
      /\ units \in [Units -> {"absent", "active", "inactive"}]
      /\ changes \in [Requests -> ChangeRequest \cup {None}] /\ None \notin ChangeRequest
  BY AccountsAssumption DEF IInv, TypeOK
<1>1. /\ pc[r] \in {"approveCommit", "rejectUpdate"} /\ Finish(r) /\ UNCHANGED <<units, limit>>
  BY DEF ApproveCommit, RejectUpdate
<1>2. /\ c \in Requests /\ changes[c] # None /\ s.user = changes[c].user /\ r \in InFlight
  BY <1>1, AtAwait DEF Well, ReviewSteps, OpenedSteps, DecidingSteps
<1>3. /\ s.user \in Accounts /\ s.user \in Users /\ users[s.user] \in Account
      /\ changes[c] \in ChangeRequest
  BY <1>0, <1>2 DEF IInv, ChangesAreWell, Accounts
<1>4. PICK verdict \in {"PENDING", "APPROVED", "REJECTED"} :
        /\ changes' = [changes EXCEPT ![c] = [changes[c] EXCEPT !.status = verdict]]
        /\ verdict = "PENDING" => UNCHANGED changes
  <2>1. CASE UNCHANGED changes /\ changes[c].status = "PENDING"
    <3>1. changes' = [changes EXCEPT ![c] = [changes[c] EXCEPT !.status = "PENDING"]]
      BY <1>0, <1>3, <2>1 DEF ChangeRequest
    <3>. QED
      BY <2>1, <3>1
  <2>2. CASE UNCHANGED changes /\ changes[c].status # "PENDING"
    <3>1. changes[c].status \in {"APPROVED", "REJECTED"}
      BY <1>3, <2>2 DEF ChangeRequest, VerificationStatus
    <3>2. changes' = [changes EXCEPT ![c] = [changes[c] EXCEPT !.status = changes[c].status]]
      BY <1>0, <1>3, <2>2 DEF ChangeRequest
    <3>. QED
      BY <3>1, <3>2
  <2>3. CASE changes' = [changes EXCEPT ![c] = [changes[c] EXCEPT !.status = "APPROVED"]]
    BY <2>3
  <2>4. CASE changes' = [changes EXCEPT ![c] = [changes[c] EXCEPT !.status = "REJECTED"]]
    BY <2>4
  <2>. QED
    BY <2>1, <2>2, <2>3, <2>4 DEF ApproveCommit, RejectUpdate
<1>5. /\ changes' \in [Requests -> ChangeRequest \cup {None}]
      /\ \A d \in Requests \ {c} : changes'[d] = changes[d]
      /\ changes'[c] \in ChangeRequest /\ changes'[c].user = changes[c].user
      /\ changes'[c].profile = changes[c].profile
      /\ changes'[c].status = verdict
  BY <1>0, <1>2, <1>3, <1>4 DEF ChangeRequest, VerificationStatus
<1>6. OneOpenRequest'
  <2>1. PendingChanges' \subseteq PendingChanges
    BY <1>0, <1>4, <1>5 DEF PendingChanges
  <2>2. \A d \in PendingChanges' : /\ changes'[d].user = changes[d].user
                                   /\ changes'[d].profile = changes[d].profile
    BY <1>5 DEF PendingChanges
  <2>. QED
    BY <1>1, <2>1, <2>2 DEF IInv, OneOpenRequest
<1>7. PICK row \in Account : /\ users' \in {users, [users EXCEPT ![s.user] = row]}
                             /\ limit = 1 => FitsRole(row)
  <2>1. CASE UNCHANGED users
    BY <1>3, <2>1 DEF IInv, ProfileFitsRole
  <2>2. CASE ~UNCHANGED users
    <3>. DEFINE row == [users[s.user] EXCEPT !.student = changes[c].profile]
    <3>1. /\ users' = [users EXCEPT ![s.user] = row]
          /\ users[s.user].student # None
      BY <2>2 DEF ApproveCommit, RejectUpdate
    <3>2. row \in Account /\ (limit = 1 => FitsRole(row))
      BY <1>3, <3>1 DEF Account, ChangeRequest, FitsRole, IInv, ProfileFitsRole
    <3>. QED
      BY <3>1, <3>2
  <2>. QED
    BY <2>1, <2>2
<1>8. /\ users' \in [Users -> Account \cup {None}]
      /\ \A v \in Users : users'[v] = users[v] \/ users'[v] = row
      /\ \A v \in Users : users[v] # None => users'[v] # None
  BY <1>0, <1>7
<1>9. Accounts \subseteq Accounts'
  BY <1>8 DEF Accounts
<1>10. limit = 1 => ProfileFitsRole'
  BY <1>0, <1>7, <1>8 DEF IInv, ProfileFitsRole, Accounts
<1>11. \A d \in Requests :
         /\ changes[d] # None => changes'[d] # None /\ changes'[d].user = changes[d].user
         /\ changes'[d] # None => changes'[d].user \in Accounts' /\ (changes[d] # None \/ d = r)
  BY <1>0, <1>2, <1>5, <1>9 DEF IInv, ChangesAreWell
<1>. QED
  BY <1>0, <1>1, <1>2, <1>5, <1>6, <1>8, <1>9, <1>10, <1>11, WriteKeeps

\* A unit is created, activated or deactivated.
LEMMA UnitWrites ==
  ASSUME IInv, NEW r \in Requests, UnitUpdate(r)
  PROVE  IInv'
<1>0. TypeOK
  BY DEF IInv
<1>1. pc[r] = "unitUpdate" /\ Finish(r) /\ UNCHANGED <<users, changes, limit>>
  BY DEF UnitUpdate
<1>2. units' \in [Units -> {"absent", "active", "inactive"}]
  BY <1>0 DEF UnitUpdate, TypeOK
<1>3. r \in InFlight
  BY <1>1, AtAwait
<1>4. /\ Accounts' = Accounts /\ ProfileFitsRole' /\ OneOpenRequest'
      /\ users' \in [Users -> Account \cup {None}]
      /\ changes' \in [Requests -> ChangeRequest \cup {None}]
  BY <1>0, <1>1 DEF IInv, Accounts, ProfileFitsRole, OneOpenRequest, PendingChanges, TypeOK
<1>5. \A c \in Requests :
        /\ changes[c] # None => changes'[c] # None /\ changes'[c].user = changes[c].user
        /\ changes'[c] # None => changes'[c].user \in Accounts' /\ (changes[c] # None \/ c = r)
  BY <1>1, <1>4 DEF IInv, ChangesAreWell
<1>. QED
  BY <1>1, <1>2, <1>3, <1>4, <1>5, WriteKeeps

-----------------------------------------------------------------------------
(* The theorems *)

\* The seeded accounts fit their roles, and nothing is under way.
LEMMA InitHolds == Init => IInv
<1>. SUFFICES ASSUME Init PROVE IInv
  OBVIOUS
<1>. USE DEF CreateSteps, UpdateSteps, ScopedUpdate, CheckedUpdate, DeleteSteps, AskSteps,
             CheckedAsk, ReviewSteps, OpenedSteps, DecidingSteps
<1>1. \A u \in Users : users[u] \in Account \cup {None} /\ (users[u] # None => FitsRole(users[u]))
  BY SeedAssumption, CreateTypes DEF Init, SeedRows
<1>2. TypeOK
  <2>1. users \in [Users -> Account \cup {None}]
    BY <1>1, SeedAssumption DEF Init
  <2>. QED
    BY <2>1, BlankWell DEF Init, TypeOK, Awaits
<1>3. HandlersAreWell /\ StillSo
  <2>1. \A r \in Requests : Well("idle", Blank) /\ So("idle", Blank)
    BY BlankWell, RestsSo DEF Well
  <2>. QED
    BY <2>1 DEF Init, HandlersAreWell, StillSo
<1>4. ChangesAreWell /\ OneOpenRequest
  BY DEF Init, ChangesAreWell, OneOpenRequest, PendingChanges
<1>5. OneAtATime
  <2>1. InFlight = {}
    BY DEF Init, InFlight
  <2>. QED
    BY <2>1, FS_EmptySet DEF OneAtATime
<1>6. ProfileFitsRole
  BY <1>1 DEF ProfileFitsRole, Accounts
<1>. QED
  BY <1>2, <1>3, <1>4, <1>5, <1>6 DEF IInv

\* Every step keeps the invariant.
LEMMA StepHolds == IInv /\ [Next]_vars => IInv'
<1>. SUFFICES ASSUME IInv, [Next]_vars PROVE IInv'
  OBVIOUS
<1>1. CASE UNCHANGED vars
  <2>. USE <1>1 DEF vars
  <2>1. Accounts' = Accounts /\ ActiveUnits' = ActiveUnits /\ PendingChanges' = PendingChanges
    BY DEF Accounts, ActiveUnits, PendingChanges
  <2>2. HandlersAreWell'
    BY <2>1 DEF IInv, HandlersAreWell, Well
  <2>3. ASSUME limit = 1, NEW q \in Requests
        PROVE  So(pc[q], snap[q])'
    <3>1. So(pc[q], snap[q])
      BY <2>3 DEF IInv, StillSo
    <3>. QED
      BY <2>1, <3>1
      DEF So, UnitsOfPayload, EnsureUnit, AccessScope, AdminProdiCanUpdateUser, InScope,
          SuperadminsLeft, ActiveSuperadmins, NoOpenRequest, NimNotRequested, StillOpen
  <2>4. TypeOK' /\ ChangesAreWell' /\ OneAtATime' /\ ProfileFitsRole' /\ OneOpenRequest'
    BY <2>1 DEF IInv, TypeOK, ChangesAreWell, OneAtATime, InFlight, ProfileFitsRole,
                OneOpenRequest
  <2>. QED
    BY <2>2, <2>3, <2>4 DEF IInv, StillSo
<1>2. CASE Next
  BY <1>2, ReceiveKeeps, CreateReads, UpdateReads, DeleteReads, AskReads, ReviewReads,
     AccountWrites, AskWrites, ReviewWrites, UnitWrites
  DEF Next, Step
<1>. QED
  BY <1>1, <1>2

\* The invariant of which the properties are consequences.
THEOREM InvariantHolds == Spec => []IInv
<1>. QED
  BY InitHolds, StepHolds, PTL DEF Spec

(* Rows and handlers have their types however requests overlap; one at a   *)
(* time, from whatever old form, profiles fit roles (handleSave,           *)
(* updateUser), and a student and a number have one open request           *)
(* (requestAcademicProfileChange).                                         *)
THEOREM AccountsAgreeHolds == Spec => []AccountsAgree
<1>1. IInv => AccountsAgree
  BY DEF IInv, AccountsAgree
<1>. QED
  BY <1>1, InvariantHolds, PTL

-----------------------------------------------------------------------------
(* What a step may not do *)

\* A step is of one handler, and writes as one of six do.
LEMMA WhoWrites ==
  ASSUME IInv, Next
  PROVE  \E r \in Requests :
           /\ \A q \in Requests \ {r} : pc'[q] = pc[q]
           /\ \/ UNCHANGED users
              \/ CreateCommit(r) \/ UpdateCommit(r) \/ DeleteUpdate(r) \/ ApproveCommit(r)
           /\ UNCHANGED changes \/ AskCreate(r) \/ ApproveCommit(r) \/ RejectUpdate(r)
<1>0. TypeOK
  BY DEF IInv
<1>1. ASSUME NEW r \in Requests, Receive(r)
      PROVE  (\E step, s : Goto(r, step, s)) /\ UNCHANGED <<users, changes>>
  BY <1>1 DEF Receive, CreateReadEmail, OpenDraft, DeleteArrives, AskRead, ReviewArrives,
              UnitArrives, UpdateArrives
<1>2. ASSUME NEW r \in Requests, NEW step, NEW s, NEW passed, Check(r, step, s, passed)
      PROVE  (\E to, t : Goto(r, to, t)) /\ UNCHANGED <<users, changes>>
  BY <1>2 DEF Check, Finish
<1>3. ASSUME NEW r \in Requests, Step(r)
      PROVE  /\ \E step, s : Goto(r, step, s)
             /\ \/ UNCHANGED users
                \/ CreateCommit(r) \/ UpdateCommit(r) \/ DeleteUpdate(r) \/ ApproveCommit(r)
             /\ UNCHANGED changes \/ AskCreate(r) \/ ApproveCommit(r) \/ RejectUpdate(r)
  <2>1. CASE CreateReadUnits(r) \/ CreateReadNim(r) \/ UpdateReadScope(r) \/ UpdateReadUser(r)
    BY <2>1, <1>2 DEF CreateReadUnits, CreateReadNim, UpdateReadScope, UpdateReadUser
  <2>2. CASE UpdateReadAccess(r) \/ UpdateReadNim(r) \/ UpdateReadUnits(r)
    BY <2>2, <1>2 DEF UpdateReadAccess, UpdateReadNim, UpdateReadUnits
  <2>3. CASE DeleteReadRole(r) \/ DeleteCount(r) \/ AskReadPending(r) \/ AskReadProdi(r)
    BY <2>3, <1>2 DEF DeleteReadRole, DeleteCount, AskReadPending, AskReadProdi
  <2>4. CASE AskReadNim(r) \/ AskReadPendingNim(r) \/ ReviewRead(r) \/ ReviewReadScope(r)
    BY <2>4, <1>2 DEF AskReadNim, AskReadPendingNim, ReviewRead, ReviewReadScope
  <2>5. CASE ReviewReadAccess(r) \/ ApproveReadUnit(r) \/ ApproveReadNim(r)
    BY <2>5, <1>2 DEF ReviewReadAccess, ApproveReadUnit, ApproveReadNim
  <2>6. CASE \/ CreateCommit(r) \/ UpdateCommit(r) \/ DeleteUpdate(r) \/ AskCreate(r)
             \/ ApproveCommit(r) \/ RejectUpdate(r) \/ UnitUpdate(r)
    BY <2>6 DEF CreateCommit, UpdateCommit, DeleteUpdate, AskCreate, ApproveCommit,
                RejectUpdate, UnitUpdate, Finish
  <2>. QED
    BY <2>1, <2>2, <2>3, <2>4, <2>5, <2>6, <1>3 DEF Step
<1>4. ASSUME NEW r \in Requests, \E step, s : Goto(r, step, s)
      PROVE  \A q \in Requests \ {r} : pc'[q] = pc[q]
  BY <1>0, <1>4 DEF Goto, TypeOK
<1>. QED
  BY <1>1, <1>3, <1>4 DEF Next

(* One request at a time: an ADMIN_PRODI changes students and lecturers of *)
(* the unit administered only, who stay in it unless they asked to move    *)
(* (ensureAdminProdiCanUpdateUser, however old the form).                  *)
THEOREM ScopeIsKeptHolds == Spec => ScopeIsKept
<1>1. IInv /\ [Next]_vars => [AdminKeepsToScope]_vars
  <2>. SUFFICES ASSUME IInv, Next, limit = 1, NEW r \in Requests, NEW u \in Accounts,
                       pc[r] \in {"updateCommit", "approveCommit"}, pc'[r] = "done",
                       ~Unchanged(u), users[snap[r].by].role = "ADMIN_PRODI"
                PROVE  /\ users[u].role \in {"MAHASISWA", "DOSEN"}
                       /\ InScope(u, AccessScope(snap[r].by))
                       /\ \A field \in {"role", "status", "deleted", "post"} :
                            users'[u][field] = users[u][field]
                       /\ pc[r] = "updateCommit" =>
                            RowInScope(users'[u], AccessScope(snap[r].by))
    BY DEF AdminKeepsToScope, vars
  <2>. DEFINE s == snap[r]
  <2>1. UpdateCommit(r) \/ ApproveCommit(r)
    <3>1. PICK q \in Requests :
            /\ \A p \in Requests \ {q} : pc'[p] = pc[p]
            /\ \/ UNCHANGED users
               \/ CreateCommit(q) \/ UpdateCommit(q) \/ DeleteUpdate(q) \/ ApproveCommit(q)
      BY WhoWrites
    <3>2. q = r /\ ~UNCHANGED users
      BY <3>1 DEF Unchanged
    <3>. QED
      BY <3>1, <3>2 DEF CreateCommit, DeleteUpdate
  <2>2. users \in [Users -> Account \cup {None}] /\ s \in Snapshot
    BY DEF IInv, TypeOK
  <2>3. CASE UpdateCommit(r)
    <3>. DEFINE new == UpdatedAccount(users[s.user], s.payload)
    <3>1. pc[r] = "updateCommit" /\ users' \in {users, [users EXCEPT ![s.user] = new]}
      BY <2>3 DEF UpdateCommit
    <3>2. u = s.user /\ users'[u] = new
      BY <3>1, <2>2 DEF Unchanged, Accounts
    <3>3. s.scope \subseteq Prodi /\ AdminProdiCanUpdateUser(s)
      BY <3>1, UpdateFits
    <3>4. s.scope = AccessScope(s.by) /\ s.role = users[s.user].role
      BY <3>1, AtAwait DEF So, ScopedUpdate, CheckedUpdate
    <3>5. users[u] \in Account /\ FitsRole(users[u])
      BY <2>2 DEF IInv, ProfileFitsRole, Accounts
    <3>6. /\ users[s.user].role \in {"MAHASISWA", "DOSEN"} /\ InScope(s.user, s.scope)
          /\ \A field \in {"role", "status", "deleted", "post"} :
               new[field] = users[s.user][field]
          /\ RowInScope(new, s.scope)
      BY <2>2, <3>2, <3>3, <3>4, <3>5, MemberStays
    <3>. HIDE DEF new
    <3>. QED
      BY <3>2, <3>4, <3>6
  <2>4. CASE ApproveCommit(r)
    <3>. DEFINE profile == changes[s.change].profile
    <3>1. /\ pc[r] = "approveCommit"
          /\ \/ UNCHANGED users
             \/ /\ users[s.user].student # None
                /\ users' = [users EXCEPT ![s.user] = [@ EXCEPT !.student = profile]]
      BY <2>4 DEF ApproveCommit
    <3>2. /\ u = s.user /\ users[u] \in Account /\ users[u].student # None
          /\ users'[u] = [users[u] EXCEPT !.student = profile]
      BY <2>2, <3>1, AccountsAssumption DEF Unchanged, Accounts
    <3>3. users[u].role = "MAHASISWA"
      BY <3>2 DEF IInv, ProfileFitsRole, FitsRole
    <3>4. s.scope = AccessScope(s.by) /\ InScope(s.user, s.scope)
      BY <3>1, AtAwait DEF So, DecidingSteps
    <3>5. \A field \in {"role", "status", "deleted", "post"} :
            users'[u][field] = users[u][field]
      BY <3>2 DEF Account
    <3>. QED
      BY <3>1, <3>2, <3>3, <3>4, <3>5
  <2>. QED
    BY <2>1, <2>3, <2>4
<1>. QED
  BY <1>1, InvariantHolds, PTL DEF Spec, ScopeIsKept

(* One request at a time: whoever is created in a unit, moved to it or     *)
(* approved for it finds it active (ensureUnit).                           *)
THEOREM MembersJoinActiveUnitsHolds == Spec => MembersJoinActiveUnits
<1>1. IInv /\ [Next]_vars => [NewUnitsAreActive]_vars
  <2>. SUFFICES ASSUME IInv, Next, limit = 1, NEW u \in Users, users'[u] # None,
                       users'[u] # users[u],
                       NEW n \in UnitsOf(users'[u]),
                       users[u] # None => n \notin UnitsOf(users[u])
                PROVE  n \in ActiveUnits
    BY DEF NewUnitsAreActive, vars
  <2>1. PICK r \in Requests :
          CreateCommit(r) \/ UpdateCommit(r) \/ DeleteUpdate(r) \/ ApproveCommit(r)
    BY WhoWrites
  <2>. DEFINE s == snap[r]
              p == s.payload
  <2>2. /\ users \in [Users -> Account \cup {None}] /\ s \in Snapshot /\ p \in Payload
        /\ None \notin StudentProfile /\ Absent # None /\ None \notin Account
    BY AccountsAssumption DEF IInv, TypeOK, Snapshot
  <2>3. ASSUME UnitsOfPayload(p), n \in Units,
               \/ p.student \in StudentProfile /\ n = p.student.prodi
               \/ n = p.home \/ n = p.post
        PROVE  n \in ActiveUnits
    BY <2>3 DEF UnitsOfPayload, EnsureUnit
  <2>4. CASE CreateCommit(r)
    <3>1. /\ pc[r] = "createCommit" /\ u = s.user /\ users'[u] = NewAccount(p)
      BY <2>2, <2>4 DEF CreateCommit
    <3>2. UnitsOfPayload(p) /\ p \in CreatePayloads
      BY <3>1, AtAwait DEF So, Well, CreateSteps
    <3>3. NewAccount(p) \in Account
      BY <3>2, CreateTypes
    <3>4. /\ p.student \in StudentProfile \cup {None}
          /\ p.home \in Units \cup {None} /\ p.post \in Units \cup {None}
      BY <3>3 DEF NewAccount, Account
    <3>5. \/ p.student # None /\ n = p.student.prodi
          \/ n = p.home \/ n = p.post
      BY <3>1 DEF UnitsOf, NewAccount
    <3>6. n # None
      BY DEF UnitsOf
    <3>7. n \in Units
      BY <3>4, <3>5, <3>6 DEF StudentProfile, Units
    <3>. QED
      BY <2>3, <3>2, <3>4, <3>5, <3>7
  <2>5. CASE UpdateCommit(r)
    <3>. DEFINE row == users[u]
                new == UpdatedAccount(row, p)
    <3>1. /\ pc[r] = "updateCommit" /\ u = s.user /\ users'[u] = new
      BY <2>2, <2>5 DEF UpdateCommit
    <3>2. UnitsOfPayload(p) /\ s.user \in Accounts
      BY <3>1, AtAwait DEF So, Well, UpdateSteps, ScopedUpdate, CheckedUpdate
    <3>3. row \in Account /\ row # None /\ new \in Account
      BY <2>2, <3>1, <3>2, UpdatedTypes DEF Accounts
    <3>4. /\ new.student \in {p.student, row.student} /\ new.home \in {p.home, row.home}
          /\ new.post \in {None, p.post, row.post}
      BY <3>3 DEF UpdatedAccount, Sent, Account
    <3>5. /\ new.student \in StudentProfile \cup {None}
          /\ new.home \in Units \cup {None} /\ new.post \in Units \cup {None}
      BY <3>3 DEF Account
    <3>. HIDE DEF new, row
    <3>6. /\ n # None
          /\ \/ new.student # None /\ n = new.student.prodi
             \/ n = new.home \/ n = new.post
      BY <3>1 DEF UnitsOf
    <3>7. n \notin UnitsOf(row)
      BY <3>3 DEF row
    <3>8. /\ row.student # None => n # row.student.prodi
          /\ n # row.home /\ n # row.post
      BY <3>6, <3>7 DEF UnitsOf
    <3>9. n \in Units
      BY <3>5, <3>6 DEF StudentProfile, Units
    <3>. QED
      BY <2>3, <3>2, <3>4, <3>5, <3>6, <3>8, <3>9
  <2>6. CASE DeleteUpdate(r)
    <3>. DEFINE row == users[u]
    <3>1. /\ pc[r] = "deleteUpdate" /\ u = s.user
          /\ users'[u] = [row EXCEPT !.status = "DISABLED", !.deleted = TRUE]
      BY <2>2, <2>6 DEF DeleteUpdate
    <3>2. u \in Accounts /\ row \in Account /\ row # None
      BY <2>2, <3>1, AtAwait DEF Well, DeleteSteps, Accounts
    <3>3. UnitsOf(users'[u]) = UnitsOf(row)
      BY <3>1, <3>2 DEF UnitsOf, Account
    <3>. QED
      BY <3>2, <3>3
  <2>7. CASE ApproveCommit(r)
    <3>. DEFINE row == users[u]
                profile == changes[s.change].profile
    <3>1. /\ pc[r] = "approveCommit" /\ u = s.user
          /\ users'[u] = [row EXCEPT !.student = profile]
      BY <2>2, <2>7 DEF ApproveCommit
    <3>2. EnsureUnit(profile.prodi, Prodi) /\ s.user = changes[s.change].user
          /\ changes[s.change] # None /\ s.change \in Requests
      BY <3>1, AtAwait DEF So, Well, ReviewSteps, OpenedSteps, DecidingSteps
    <3>3. u \in Accounts /\ row \in Account /\ row # None
      BY <2>2, <3>1, <3>2 DEF IInv, ChangesAreWell, Accounts
    <3>4. UnitsOf(users'[u]) \subseteq UnitsOf(row) \cup {profile.prodi}
      BY <3>1, <3>3 DEF UnitsOf, Account
    <3>. QED
      BY <3>2, <3>3, <3>4 DEF EnsureUnit
  <2>. QED
    BY <2>1, <2>4, <2>5, <2>6, <2>7
<1>. QED
  BY <1>1, InvariantHolds, PTL DEF Spec, MembersJoinActiveUnits

\* Of more than one there is one other than whoever is deleted.
LEMMA OneIsLeft ==
  ASSUME SuperadminsLeft, NEW u
  PROVE  \E v \in ActiveSuperadmins : v # u
<1>1. IsFiniteSet(ActiveSuperadmins)
  BY AccountsAssumption, FS_Subset DEF ActiveSuperadmins, Accounts
<1>2. CASE ActiveSuperadmins \subseteq {u}
  <2>1. IsFiniteSet({u}) /\ Cardinality({u}) = 1
    BY FS_Singleton
  <2>2. Cardinality(ActiveSuperadmins) <= Cardinality({u})
    BY <1>2, <2>1, FS_Subset
  <2>3. Cardinality(ActiveSuperadmins) \in Nat
    BY <1>1, FS_CardinalityType
  <2>. QED
    BY <2>1, <2>2, <2>3 DEF SuperadminsLeft
<1>. QED
  BY <1>2

(* One request at a time: a verdict on a request of a student is the last, *)
(* and deleting accounts leaves an active superadmin (deleteUser).         *)
THEOREM DecisionsStayHolds == Spec => DecisionsStay
<1>1. IInv /\ [Next]_vars => [DecidedStays /\ DeletionKeepsOne]_vars
  <2>. SUFFICES ASSUME IInv, Next PROVE DecidedStays /\ DeletionKeepsOne
    BY DEF vars
  <2>0. /\ users \in [Users -> Account \cup {None}]
        /\ changes \in [Requests -> ChangeRequest \cup {None}]
    BY DEF IInv, TypeOK
  <2>1. ASSUME limit = 1, NEW c \in Requests, changes[c] # None, changes[c].status # "PENDING"
        PROVE  changes'[c] = changes[c]
    <3>1. PICK r \in Requests :
            UNCHANGED changes \/ AskCreate(r) \/ ApproveCommit(r) \/ RejectUpdate(r)
      BY WhoWrites
    <3>2. CASE UNCHANGED changes
      BY <3>2
    <3>3. CASE AskCreate(r)
      <4>1. pc[r] # "done" /\ \A d \in Requests \ {r} : changes'[d] = changes[d]
        BY <2>0, <3>3 DEF AskCreate
      <4>. QED
        BY <2>1, <4>1 DEF IInv, ChangesAreWell
    <3>4. CASE ApproveCommit(r) \/ RejectUpdate(r)
      <4>1. /\ pc[r] \in {"approveCommit", "rejectUpdate"}
            /\ \A d \in Requests \ {snap[r].change} : changes'[d] = changes[d]
        BY <2>0, <3>4 DEF ApproveCommit, RejectUpdate
      <4>2. StillOpen(snap[r].change)
        BY <2>1, <4>1, AtAwait DEF So, OpenedSteps, DecidingSteps
      <4>. QED
        BY <2>1, <4>1, <4>2 DEF StillOpen
    <3>. QED
      BY <3>1, <3>2, <3>3, <3>4
  <2>2. ASSUME limit = 1, NEW r \in Requests, pc[r] = "deleteUpdate", pc'[r] = "done",
               ActiveSuperadmins # {}
        PROVE  ActiveSuperadmins' # {}
    <3>1. UNCHANGED users \/ DeleteUpdate(r)
      <4>1. PICK q \in Requests :
              /\ \A p \in Requests \ {q} : pc'[p] = pc[p]
              /\ \/ UNCHANGED users
                 \/ CreateCommit(q) \/ UpdateCommit(q) \/ DeleteUpdate(q) \/ ApproveCommit(q)
        BY WhoWrites
      <4>2. q = r
        BY <2>2, <4>1
      <4>. QED
        BY <2>2, <4>1, <4>2 DEF CreateCommit, UpdateCommit, ApproveCommit
    <3>2. CASE UNCHANGED users
      BY <2>2, <3>2 DEF ActiveSuperadmins, Accounts
    <3>3. CASE DeleteUpdate(r)
      <4>. DEFINE u == snap[r].user
      <4>1. \A v \in Users \ {u} : users'[v] = users[v]
        BY <2>0, <3>3 DEF DeleteUpdate
      <4>2. \E v \in ActiveSuperadmins : v # u
        <5>1. CASE users[u].role = "SUPERADMIN"
          BY <2>2, <5>1, AtAwait, OneIsLeft DEF So
        <5>2. CASE users[u].role # "SUPERADMIN"
          BY <2>2, <5>2 DEF ActiveSuperadmins
        <5>. QED
          BY <5>1, <5>2
      <4>. QED
        BY <4>1, <4>2 DEF ActiveSuperadmins, Accounts
    <3>. QED
      BY <3>1, <3>2, <3>3
  <2>. QED
    BY <2>1, <2>2 DEF DecidedStays, DeletionKeepsOne
<1>. QED
  BY <1>1, InvariantHolds, PTL DEF Spec, DecisionsStay
=============================================================================
