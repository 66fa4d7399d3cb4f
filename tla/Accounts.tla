------------------------------ MODULE Accounts ------------------------------
(***************************************************************************)
(* The accounts that administrators keep and the academic units they       *)
(* belong to: AdminService, the requests of students to change their       *)
(* profile (AuthService, reviewed by AdminService), and the form in which  *)
(* the web client edits an account, which holds the account as it was when *)
(* the page was opened.                                                    *)
(*                                                                         *)
(* Requests are handled as in Signing: a handler runs alone between two    *)
(* awaits, and one action is one database call.  It writes once, at its    *)
(* end, so that one that fails leaves what one leaves that is never        *)
(* resumed.  A token outlives the account's being disabled (JwtStrategy,   *)
(* RolesGuard), so that a request may come from any account.               *)
(***************************************************************************)
EXTENDS Integers, FiniteSets

CONSTANTS
  Users,        \* the accounts, by their e-mail address
  Seed,         \* the accounts there are at first (prisma/seed.ts)
  Prodi,        \* units of type PRODI
  Jurusan,      \* and of type JURUSAN
  Founded,      \* the units there are at first
  Nims,         \* students' numbers, digits only as the forms have it
  Requests,     \* the requests that may be received, each once
  MaxInFlight,  \* how many requests the server handles at a time, at most
  None,         \* SQL NULL, or an empty field
  Absent        \* undefined: a field that is not sent, so that it stays as it is

Units == Prodi \cup Jurusan

Roles == {"SUPERADMIN", "JURUSAN", "PRODI", "ADMIN_PRODI", "DOSEN", "MAHASISWA"}

UserStatus == {"ACTIVE", "SUSPENDED", "DISABLED"}

StudentProfile == [nim : Nims, prodi : Prodi]

\* The employee's home unit; the unit of the one structural assignment that the
\* forms allow, whose position follows from the role (structuralPositionByRole).
Account ==
  [role : Roles, status : UserStatus, deleted : BOOLEAN,
   student : StudentProfile \cup {None},
   home : Units \cup {None}, post : Units \cup {None}]

VerificationStatus == {"PENDING", "APPROVED", "REJECTED"}

ChangeRequest == [user : Users, profile : StudentProfile, status : VerificationStatus]

ASSUME AccountsAssumption ==
  /\ IsFiniteSet(Users)
  /\ Founded \subseteq Units /\ "all" \notin Units
  /\ None \notin Users \cup Units \cup Nims \cup Requests \cup StudentProfile \cup Account
                 \cup ChangeRequest
  /\ Absent \notin Roles \cup UserStatus \cup StudentProfile \cup Units \cup {None}
  /\ MaxInFlight \in Nat

VARIABLES
  users,    \* the User row of each address with its profiles and assignment
  units,    \* whether each AcademicUnit exists and is active
  changes,  \* the AcademicProfileChangeRequest each request created
  limit,    \* how many requests the server handles at a time
  pc,       \* the await each request is at, or the form it will come from
  snap      \* what each request brought or has read

vars == <<users, units, changes, limit, pc, snap>>

Payload ==
  [role : Roles \cup {Absent}, status : UserStatus \cup {Absent},
   student : StudentProfile \cup {None, Absent},
   home : Units \cup {None, Absent}, post : Units \cup {None, Absent}]

NoPayload ==
  [role |-> Absent, status |-> Absent, student |-> Absent, home |-> Absent, post |-> Absent]

Scopes == SUBSET (Prodi \cup {"all"})

Snapshot ==
  [by : Users \cup {None}, user : Users \cup {None}, payload : Payload,
   scope : Scopes, role : Roles \cup {None}, change : Requests \cup {None},
   verdict : VerificationStatus \cup {None}]

Blank ==
  [by |-> None, user |-> None, payload |-> NoPayload, scope |-> {}, role |-> None,
   change |-> None, verdict |-> None]

-----------------------------------------------------------------------------
Init ==
  /\ users = Seed
  /\ units = [n \in Units |-> IF n \in Founded THEN "active" ELSE "absent"]
  /\ changes = [r \in Requests |-> None]
  /\ limit \in 1..MaxInFlight
  /\ pc = [r \in Requests |-> "idle"]
  /\ snap = [r \in Requests |-> Blank]

Goto(r, step, s) ==
  /\ pc' = [pc EXCEPT ![r] = step]
  /\ snap' = [snap EXCEPT ![r] = s]

Finish(r) == Goto(r, "done", Blank)

\* A read, after which the handler goes on to a step or ends.
Check(r, step, s, passed) ==
  /\ IF passed THEN Goto(r, step, s) ELSE Finish(r)
  /\ UNCHANGED <<users, units, changes, limit>>

InFlight == {r \in Requests : pc[r] \notin {"idle", "editing", "done"}}

Accounts == {u \in Users : users[u] # None}

\* RolesGuard reads the role of the account the token names.
Arrives(by, roles) ==
  /\ Cardinality(InFlight) < limit
  /\ users[by].role \in roles

Admins == {"SUPERADMIN", "ADMIN_PRODI"}

ActiveUnits == {n \in Units : units[n] = "active"}

\* Mutant: units that were deactivated are not looked at.
EnsureUnitMutant(unit, type) == unit \in type

EnsureUnit(unit, type) == unit \in type \cap ActiveUnits

\* The unique index on nim, as a check sees it and as a write enforces it.
NimIsFree(nim, u) ==
  \A v \in Accounts : users[v].student # None /\ users[v].student.nim = nim => v = u

\* getAccessScope; the superadmin's is everybody.
AccessScope(by) ==
  IF users[by].role = "SUPERADMIN" THEN {"all"}
  ELSE {users[by].post} \cap Prodi \cap ActiveUnits

\* userScopeWhere
RowInScope(row, scope) ==
  \/ "all" \in scope
  \/ row.student # None /\ row.student.prodi \in scope
  \/ {row.home, row.post} \cap scope # {}

InScope(u, scope) == RowInScope(users[u], scope)

-----------------------------------------------------------------------------
(* createUser, with what the form of the web client sends *)

StructuralRoles == {"JURUSAN", "PRODI", "ADMIN_PRODI"}

PostsOf(role) == IF role = "JURUSAN" THEN Jurusan ELSE Prodi

\* handleCreate: the parts of the payload that go with the role.
CreatePayloads ==
  {[NoPayload EXCEPT !.role = "SUPERADMIN", !.student = None, !.home = None, !.post = None]}
  \cup {[NoPayload EXCEPT !.role = "MAHASISWA", !.student = p, !.home = None, !.post = None] :
          p \in StudentProfile}
  \cup {[NoPayload EXCEPT !.role = "DOSEN", !.student = None, !.home = n, !.post = None] :
          n \in Units}
  \cup UNION {{[NoPayload EXCEPT !.role = role, !.student = None, !.home = n, !.post = n] :
                 n \in PostsOf(role)} : role \in StructuralRoles}

NewAccount(p) ==
  [role |-> p.role, status |-> "ACTIVE", deleted |-> FALSE, student |-> p.student,
   home |-> p.home, post |-> p.post]

\* What prisma/seed.ts writes is of the same form.
SeedRows == {NewAccount(p) : p \in CreatePayloads}

ASSUME SeedAssumption == Seed \in [Users -> SeedRows \cup {None}]

CreateReadEmail(r, by, u, p) ==
  /\ Arrives(by, {"SUPERADMIN"})
  /\ u \notin Accounts
  /\ Goto(r, "createUnits", [Blank EXCEPT !.by = by, !.user = u, !.payload = p])
  /\ UNCHANGED <<users, units, changes, limit>>

\* validateCreateUserAcademicFlow, of a payload composed by the form.
UnitsOfPayload(p) ==
  /\ p.student \in StudentProfile => EnsureUnit(p.student.prodi, Prodi)
  /\ p.home \in Units => EnsureUnit(p.home, Units)
  /\ p.post \in Units => EnsureUnit(p.post, Units)

CreateReadUnits(r) ==
  /\ pc[r] = "createUnits"
  /\ Check(r, "createNim", snap[r], UnitsOfPayload(snap[r].payload))

\* ensureUniqueAcademicIdentifiers
NimOfPayload(p, u) == p.student \in StudentProfile => NimIsFree(p.student.nim, u)

CreateReadNim(r) ==
  /\ pc[r] = "createNim"
  /\ Check(r, "createCommit", snap[r], NimOfPayload(snap[r].payload, snap[r].user))

\* The unique indexes on the address and on the number may abort it.
CreateCommit(r) ==
  LET s == snap[r] IN
  /\ pc[r] = "createCommit"
  /\ users' = IF s.user \notin Accounts /\ NimOfPayload(s.payload, s.user)
              THEN [users EXCEPT ![s.user] = NewAccount(s.payload)] ELSE users
  /\ Finish(r)
  /\ UNCHANGED <<units, changes, limit>>

-----------------------------------------------------------------------------
(* The page that edits an account, and updateUser *)

\* createDraftFromUser: the form is filled from the row as it is now.
OpenDraft(r, by, u) ==
  /\ users[by].role \in Admins /\ InScope(u, AccessScope(by))
  /\ Goto(r, "editing", [Blank EXCEPT !.by = by, !.user = u, !.payload =
       [role |-> users[u].role, status |-> users[u].status, student |-> users[u].student,
        home |-> IF users[u].home = None THEN users[u].post ELSE users[u].home,
        post |-> users[u].post]])
  /\ UNCHANGED <<users, units, changes, limit>>

\* Choosing the unit of the structural assignment fills in an empty home unit.
WithPost(d, n) == [d EXCEPT !.post = n, !.home = IF @ = None THEN n ELSE @]

\* The bound on the inputs: one field, or one group of fields, per save.
Edits(d) ==
  {d} \cup {[d EXCEPT !.role = role] : role \in Roles}
      \cup {[d EXCEPT !.status = status] : status \in UserStatus}
      \cup {[d EXCEPT !.student = p] : p \in StudentProfile}
      \cup {[d EXCEPT !.home = n] : n \in Units}
      \cup {WithPost(d, n) : n \in Units}
      \cup UNION {{WithPost([d EXCEPT !.role = role], n) : n \in PostsOf(role)} :
                    role \in StructuralRoles}

\* Mutant: the profile of the earlier role is left in the account.
SavedPayloadMutant(d, superadmin) ==
  [role |-> IF superadmin THEN d.role ELSE Absent,
   status |-> IF superadmin THEN d.status ELSE Absent,
   student |-> IF d.role = "MAHASISWA" THEN d.student ELSE Absent,
   home |-> IF d.role \notin {"MAHASISWA", "SUPERADMIN"} /\ d.home # None THEN d.home ELSE Absent,
   post |-> IF superadmin /\ d.role \in StructuralRoles THEN d.post ELSE Absent]

\* handleSave: what is sent for the role in the form.
SavedPayload(d, superadmin) ==
  [role |-> IF superadmin THEN d.role ELSE Absent,
   status |-> IF superadmin THEN d.status ELSE Absent,
   student |-> IF d.role = "MAHASISWA" THEN d.student
               ELSE IF superadmin \/ d.role = "SUPERADMIN" THEN None ELSE Absent,
   home |-> CASE d.role = "MAHASISWA" -> IF superadmin THEN None ELSE Absent
              [] d.role = "SUPERADMIN" -> None
              [] OTHER -> IF {d.home, d.post} = {None} THEN Absent
                          ELSE IF d.home # None THEN d.home ELSE d.post,
   post |-> CASE d.role = "MAHASISWA" -> IF superadmin THEN None ELSE Absent
              [] d.role = "SUPERADMIN" -> None
              [] OTHER -> IF ~superadmin THEN Absent
                          ELSE IF d.role \in StructuralRoles THEN d.post ELSE None]

UpdateArrives(r, d) ==
  LET s == snap[r] IN
  /\ Arrives(s.by, Admins)
  /\ d.role \in Roles /\ d \in Edits(s.payload)
  /\ Goto(r, "updateScope",
       [s EXCEPT !.payload = SavedPayload(d, users[s.by].role = "SUPERADMIN")])
  /\ UNCHANGED <<users, units, changes, limit>>

UpdateReadScope(r) ==
  LET by == snap[r].by IN
  /\ pc[r] = "updateScope"
  /\ Check(r, "updateTarget", [snap[r] EXCEPT !.scope = AccessScope(by)],
           users[by].role \in Admins)

UpdateReadUser(r) ==
  LET s == snap[r] IN
  /\ pc[r] = "updateTarget"
  /\ Check(r, IF "all" \in s.scope THEN "updateNim" ELSE "updateAccess",
           [s EXCEPT !.role = users[s.user].role], TRUE)

\* Mutant: the unit a member is moved to is not compared with the scope.
AdminProdiCanUpdateUserMutant(s) ==
  /\ s.role \in {"MAHASISWA", "DOSEN"}
  /\ s.payload.role = Absent /\ s.payload.status = Absent /\ s.payload.post = Absent
  /\ InScope(s.user, s.scope)

\* ensureAdminProdiCanUpdateUser
AdminProdiCanUpdateUser(s) ==
  /\ s.role \in {"MAHASISWA", "DOSEN"}
  /\ s.payload.role = Absent /\ s.payload.status = Absent /\ s.payload.post = Absent
  /\ InScope(s.user, s.scope)
  /\ s.role = "MAHASISWA" =>
       /\ s.payload.home = Absent
       /\ s.payload.student # None
       /\ s.payload.student # Absent => s.payload.student.prodi \in s.scope
  /\ s.role = "DOSEN" =>
       /\ s.payload.student = Absent
       /\ s.payload.home # None
       /\ s.payload.home # Absent => s.payload.home \in s.scope

UpdateReadAccess(r) ==
  /\ pc[r] = "updateAccess"
  /\ Check(r, "updateNim", snap[r], AdminProdiCanUpdateUser(snap[r]))

UpdateReadNim(r) ==
  /\ pc[r] = "updateNim"
  /\ Check(r, "updateUnits", snap[r], NimOfPayload(snap[r].payload, snap[r].user))

\* ensureUnit, called within the transaction but on a connection of its own.
UpdateReadUnits(r) ==
  /\ pc[r] = "updateUnits"
  /\ Check(r, "updateCommit", snap[r], UnitsOfPayload(snap[r].payload))

Sent(value, old) == IF value = Absent THEN old ELSE value

\* Without an employee profile no assignment stays, unless one is sent.
UpdatedAccount(row, p) ==
  [row EXCEPT !.role = Sent(p.role, @), !.status = Sent(p.status, @),
              !.student = Sent(p.student, @), !.home = Sent(p.home, @),
              !.post = IF p.post = Absent /\ p.home = None THEN None ELSE Sent(p.post, @)]

UpdateCommit(r) ==
  LET s == snap[r] IN
  /\ pc[r] = "updateCommit"
  /\ users' = IF NimOfPayload(s.payload, s.user)
              THEN [users EXCEPT ![s.user] = UpdatedAccount(@, s.payload)] ELSE users
  /\ Finish(r)
  /\ UNCHANGED <<units, changes, limit>>

-----------------------------------------------------------------------------
(* deleteUser *)

DeleteArrives(r, by, u) ==
  /\ Arrives(by, {"SUPERADMIN"})
  /\ Goto(r, "deleteRole", [Blank EXCEPT !.by = by, !.user = u])
  /\ UNCHANGED <<users, units, changes, limit>>

DeleteReadRole(r) ==
  /\ pc[r] = "deleteRole"
  /\ Check(r, IF users[snap[r].user].role = "SUPERADMIN" THEN "deleteCount" ELSE "deleteUpdate",
           snap[r], TRUE)

ActiveSuperadmins ==
  {u \in Accounts : users[u].role = "SUPERADMIN" /\ users[u].status = "ACTIVE"}

\* Mutant: the account to be deleted is not counted with the others.
SuperadminsLeftMutant == Cardinality(ActiveSuperadmins) >= 1

SuperadminsLeft == Cardinality(ActiveSuperadmins) > 1

DeleteCount(r) ==
  /\ pc[r] = "deleteCount"
  /\ Check(r, "deleteUpdate", snap[r], SuperadminsLeft)

DeleteUpdate(r) ==
  /\ pc[r] = "deleteUpdate"
  /\ users' = [users EXCEPT ![snap[r].user] = [@ EXCEPT !.status = "DISABLED", !.deleted = TRUE]]
  /\ Finish(r)
  /\ UNCHANGED <<units, changes, limit>>

-----------------------------------------------------------------------------
(* requestAcademicProfileChange *)

PendingChanges == {c \in Requests : changes[c] # None /\ changes[c].status = "PENDING"}

AskRead(r, u, p) ==
  /\ Arrives(u, {"MAHASISWA"})
  /\ users[u].student # None
  /\ Goto(r, "askPending", [Blank EXCEPT !.user = u, !.payload.student = p])
  /\ UNCHANGED <<users, units, changes, limit>>

NoOpenRequest(u) == \A c \in PendingChanges : changes[c].user # u

AskReadPending(r) ==
  /\ pc[r] = "askPending"
  /\ Check(r, "askProdi", snap[r], NoOpenRequest(snap[r].user))

AskReadProdi(r) ==
  /\ pc[r] = "askProdi"
  /\ Check(r, "askNim", snap[r], EnsureUnit(snap[r].payload.student.prodi, Prodi))

AskReadNim(r) ==
  /\ pc[r] = "askNim"
  /\ Check(r, "askPendingNim", snap[r], NimOfPayload(snap[r].payload, snap[r].user))

NimNotRequested(nim, u) ==
  \A c \in PendingChanges : changes[c].profile.nim = nim => changes[c].user = u

AskReadPendingNim(r) ==
  /\ pc[r] = "askPendingNim"
  /\ Check(r, "askCreate", snap[r],
           NimNotRequested(snap[r].payload.student.nim, snap[r].user))

AskCreate(r) ==
  LET s == snap[r] IN
  /\ pc[r] = "askCreate"
  /\ changes' = [changes EXCEPT ![r] =
       [user |-> s.user, profile |-> s.payload.student, status |-> "PENDING"]]
  /\ Finish(r)
  /\ UNCHANGED <<users, units, limit>>

-----------------------------------------------------------------------------
(* reviewAcademicProfileChangeRequest *)

ReviewArrives(r, by, c, verdict) ==
  /\ Arrives(by, Admins)
  /\ changes[c] # None
  /\ Goto(r, "reviewRead", [Blank EXCEPT !.by = by, !.change = c, !.verdict = verdict])
  /\ UNCHANGED <<users, units, changes, limit>>

StillOpen(c) == changes[c].status = "PENDING"

\* The status is read here; a request that was decided already ends below.
ReviewRead(r) ==
  LET c == snap[r].change IN
  /\ pc[r] = "reviewRead"
  /\ Check(r, "reviewScope",
           [snap[r] EXCEPT !.user = changes[c].user,
                           !.verdict = IF StillOpen(c) THEN @ ELSE None],
           TRUE)

ReviewReadScope(r) ==
  LET by == snap[r].by IN
  /\ pc[r] = "reviewScope"
  /\ Check(r, "reviewAccess", [snap[r] EXCEPT !.scope = AccessScope(by)],
           users[by].role \in Admins)

ReviewReadAccess(r) ==
  LET s == snap[r] IN
  /\ pc[r] = "reviewAccess"
  /\ Check(r, IF s.verdict = "APPROVED" THEN "approveUnit" ELSE "rejectUpdate", s,
           InScope(s.user, s.scope) /\ s.verdict # None)

ApproveReadUnit(r) ==
  /\ pc[r] = "approveUnit"
  /\ Check(r, "approveNim", snap[r], EnsureUnit(changes[snap[r].change].profile.prodi, Prodi))

ApproveReadNim(r) ==
  LET c == snap[r].change IN
  /\ pc[r] = "approveNim"
  /\ Check(r, "approveCommit", snap[r], NimIsFree(changes[c].profile.nim, changes[c].user))

\* A profile deleted meanwhile, or the unique index on its number, aborts it.
ApproveCommit(r) ==
  LET c == snap[r].change u == snap[r].user IN
  /\ pc[r] = "approveCommit"
  /\ IF users[u].student # None /\ NimIsFree(changes[c].profile.nim, u)
     THEN /\ users' = [users EXCEPT ![u] = [@ EXCEPT !.student = changes[c].profile]]
          /\ changes' = [changes EXCEPT ![c] = [@ EXCEPT !.status = "APPROVED"]]
     ELSE UNCHANGED <<users, changes>>
  /\ Finish(r)
  /\ UNCHANGED <<units, limit>>

RejectUpdate(r) ==
  /\ pc[r] = "rejectUpdate"
  /\ changes' = [changes EXCEPT ![snap[r].change] = [@ EXCEPT !.status = "REJECTED"]]
  /\ Finish(r)
  /\ UNCHANGED <<users, units, limit>>

-----------------------------------------------------------------------------
(* createAcademicUnit, updateAcademicUnit, deleteAcademicUnit *)

UnitArrives(r, by) ==
  /\ Arrives(by, {"SUPERADMIN"})
  /\ Goto(r, "unitUpdate", [Blank EXCEPT !.by = by])
  /\ UNCHANGED <<users, units, changes, limit>>

\* A PRODI needs an active JURUSAN as its parent; any unit may be deactivated.
UnitUpdate(r) ==
  /\ pc[r] = "unitUpdate"
  /\ \E n \in Units, state \in {"active", "inactive"} :
       /\ units[n] = "absent" =>
            state = "active" /\ (n \in Prodi => \E j \in Jurusan : EnsureUnit(j, Jurusan))
       /\ units' = [units EXCEPT ![n] = state]
  /\ Finish(r)
  /\ UNCHANGED <<users, changes, limit>>

-----------------------------------------------------------------------------
Receive(r) ==
  \/ /\ pc[r] = "idle"
     /\ \E by \in Accounts :
          \/ \E u \in Users, p \in CreatePayloads : CreateReadEmail(r, by, u, p)
          \/ \E u \in Accounts : OpenDraft(r, by, u) \/ DeleteArrives(r, by, u)
          \/ \E p \in StudentProfile : AskRead(r, by, p)
          \/ \E c \in Requests, verdict \in {"APPROVED", "REJECTED"} :
               ReviewArrives(r, by, c, verdict)
          \/ UnitArrives(r, by)
  \/ pc[r] = "editing" /\ \E d \in Edits(snap[r].payload) : UpdateArrives(r, d)

Step(r) ==
  \/ CreateReadUnits(r) \/ CreateReadNim(r) \/ CreateCommit(r)
  \/ UpdateReadScope(r) \/ UpdateReadUser(r) \/ UpdateReadAccess(r)
  \/ UpdateReadNim(r) \/ UpdateReadUnits(r) \/ UpdateCommit(r)
  \/ DeleteReadRole(r) \/ DeleteCount(r) \/ DeleteUpdate(r)
  \/ AskReadPending(r) \/ AskReadProdi(r) \/ AskReadNim(r) \/ AskReadPendingNim(r)
  \/ AskCreate(r)
  \/ ReviewRead(r) \/ ReviewReadScope(r) \/ ReviewReadAccess(r)
  \/ ApproveReadUnit(r) \/ ApproveReadNim(r) \/ ApproveCommit(r) \/ RejectUpdate(r)
  \/ UnitUpdate(r)

Next == \E r \in Requests : Receive(r) \/ Step(r)

Spec == Init /\ [][Next]_vars

-----------------------------------------------------------------------------
Awaits ==
  {"idle", "editing", "createUnits", "createNim", "createCommit", "updateScope",
   "updateTarget", "updateAccess", "updateNim", "updateUnits", "updateCommit",
   "deleteRole", "deleteCount", "deleteUpdate", "askPending", "askProdi", "askNim",
   "askPendingNim", "askCreate", "reviewRead", "reviewScope", "reviewAccess",
   "approveUnit", "approveNim", "approveCommit", "rejectUpdate", "unitUpdate", "done"}

\* Every row and snapshot has the type of its columns or variables.
TypeOK ==
  /\ users \in [Users -> Account \cup {None}]
  /\ units \in [Units -> {"absent", "active", "inactive"}]
  /\ changes \in [Requests -> ChangeRequest \cup {None}]
  /\ limit \in 1..MaxInFlight
  /\ pc \in [Requests -> Awaits]
  /\ snap \in [Requests -> Snapshot]

FitsRole(row) ==
  /\ row.student # None => row.role = "MAHASISWA"
  /\ row.role \in {"MAHASISWA", "SUPERADMIN"} => row.home = None /\ row.post = None

(* One request at a time, from whatever old form: only a student has a     *)
(* student's profile, no student a home unit or an assignment, and a       *)
(* superadmin neither ("Superadmin tidak membutuhkan profil akademik").    *)
(* The handler of the update does not look at the role: it relies on what  *)
(* the form sends, on its own checks of what an ADMIN_PRODI may send, and  *)
(* on the review of a request that finds the profile gone.                 *)
ProfileFitsRole == limit = 1 => \A u \in Accounts : FitsRole(users[u])

(* One request at a time: a student has one open request ("Masih ada       *)
(* request perubahan profil akademik yang menunggu review admin"), and no  *)
(* two ask for one number ("NIM sedang diajukan oleh mahasiswa lain").     *)
OneOpenRequest ==
  limit = 1 => \A c, d \in PendingChanges :
    changes[c].user = changes[d].user \/ changes[c].profile.nim = changes[d].profile.nim
      => c = d

(* Every account and every request is as its columns and the forms say.    *)
AccountsAgree == TypeOK /\ ProfileFitsRole /\ OneOpenRequest

Unchanged(u) == users'[u] = users[u]

(* One request at a time: what an ADMIN_PRODI changes is a student or a    *)
(* lecturer of the unit administered, who stays in it and keeps role,      *)
(* status and assignments, unless the member asked to move ("Program studi *)
(* berada di luar prodi yang dikelola").                                   *)
AdminKeepsToScope ==
  limit = 1 => \A r \in Requests, u \in Accounts :
    LET by == snap[r].by IN
    pc[r] \in {"updateCommit", "approveCommit"} /\ pc'[r] = "done" /\ ~Unchanged(u)
      /\ users[by].role = "ADMIN_PRODI" =>
        /\ users[u].role \in {"MAHASISWA", "DOSEN"} /\ InScope(u, AccessScope(by))
        /\ \A field \in {"role", "status", "deleted", "post"} : users'[u][field] = users[u][field]
        /\ pc[r] = "updateCommit" => RowInScope(users'[u], AccessScope(by))

ScopeIsKept == [][AdminKeepsToScope]_vars

UnitsOf(row) ==
  ({row.home, row.post} \cup (IF row.student = None THEN {} ELSE {row.student.prodi})) \ {None}

(* One request at a time: whoever comes to a unit finds it active, whether *)
(* created, moved or approved ("Unit akademik tidak valid").               *)
NewUnitsAreActive ==
  limit = 1 => \A u \in Users :
    users'[u] # None =>
      UnitsOf(users'[u]) \ (IF users[u] = None THEN {} ELSE UnitsOf(users[u])) \subseteq ActiveUnits

MembersJoinActiveUnits == [][NewUnitsAreActive]_vars

(* One request at a time: a verdict on a request is the last ("Request     *)
(* perubahan profil akademik sudah diproses").                             *)
DecidedStays ==
  limit = 1 => \A c \in Requests :
    changes[c] # None /\ changes[c].status # "PENDING" => changes'[c] = changes[c]

(* One request at a time: deleting accounts leaves an active superadmin.   *)
DeletionKeepsOne ==
  limit = 1 /\ (\E r \in Requests : pc[r] = "deleteUpdate" /\ pc'[r] = "done")
    /\ ActiveSuperadmins # {} => ActiveSuperadmins' # {}

(* What was decided stays decided, and somebody stays to decide.           *)
DecisionsStay == [][DecidedStays /\ DeletionKeepsOne]_vars
=============================================================================
