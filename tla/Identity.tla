------------------------------ MODULE Identity ------------------------------
(***************************************************************************)
(* The identities of users and the reviews they pass before a user may     *)
(* sign: IdentityService, and the review that AdminService offers as well. *)
(* (The full name, which updateUser may set for a certificate, is part of  *)
(* the personal data and not told apart.)                                  *)
(*                                                                         *)
(* Requests are handled as in Signing: a handler runs alone between two    *)
(* awaits, and one action is one database call.  A handler here writes     *)
(* once, at its end, so that one that fails leaves what one leaves that    *)
(* is never resumed.  A request names the personal data and the photograph *)
(* of the identity card (KTP) it uploads.                                  *)
(***************************************************************************)
EXTENDS Integers, FiniteSets

CONSTANTS
  Users,        \* who has an identity to prove
  Enrolled,     \* the NIK of those whose identity is approved already
  Earlier,      \* the request that submitted it
  Niks,         \* numbers of identity cards
  Reviewers,
  Reviews,      \* the users in the review scope of each reviewer
  Requests,     \* the requests that may be received, each once
  Handler,      \* the handler each request calls
  MaxInFlight,  \* how many requests the server handles at a time, at most
  None          \* SQL NULL

ASSUME IdentityAssumption ==
  /\ Reviews \in [Reviewers -> SUBSET Users]
  /\ Enrolled \in [Users -> Niks \cup {None}]
  /\ \A u, v \in Users : Enrolled[u] # None /\ Enrolled[u] = Enrolled[v] => u = v
  /\ Handler \in [Requests -> {"submit", "review", "reviewChange"}]
  /\ None \notin Users \cup Niks \cup Reviewers \cup Requests \cup {Earlier}
  /\ Earlier \notin Requests
  /\ MaxInFlight \in Nat

VARIABLES
  identity,  \* the Identity row of each user
  changes,   \* the IdentityChangeRequest row each request created
  limit,     \* how many requests the server handles at a time
  pc,        \* the await each request is at
  snap       \* what each request brought or has read

vars == <<identity, changes, limit, pc, snap>>

Verdicts == {"APPROVED", "REJECTED"}

VerificationStatus == {"PENDING"} \cup Verdicts

Uploads == Requests \cup {Earlier}

IdentityRow ==
  [nik : Niks, data : Uploads, ktp : Uploads \cup {None},
   status : VerificationStatus, verifiedBy : Reviewers \cup {None}]

ChangeRow ==
  [user : Users, nik : Niks, ktp : Requests \cup {None},
   status : VerificationStatus, reviewedBy : Reviewers \cup {None}]

ASSUME NoneIsNoIdentity == None \notin IdentityRow \cup ChangeRow

Snapshot ==
  [user : Users \cup {None}, nik : Niks \cup {None}, ktp : Requests \cup {None},
   change : Requests \cup {None}, by : Reviewers \cup {None},
   verdict : Verdicts \cup {None}]

Blank ==
  [user |-> None, nik |-> None, ktp |-> None, change |-> None, by |-> None,
   verdict |-> None]

-----------------------------------------------------------------------------
EnrolledRow(u, v) ==
  [nik |-> Enrolled[u], data |-> Earlier, ktp |-> Earlier,
   status |-> "APPROVED", verifiedBy |-> v]

\* Users that createUser has just made have no identity.
Init ==
  /\ \E by \in [Users -> Reviewers] :
       /\ \A u \in Users : Enrolled[u] # None => u \in Reviews[by[u]]
       /\ identity = [u \in Users |-> IF Enrolled[u] = None THEN None
                                     ELSE EnrolledRow(u, by[u])]
  /\ changes = [r \in Requests |-> None]
  /\ limit \in 1..MaxInFlight
  /\ pc = [r \in Requests |-> "idle"]
  /\ snap = [r \in Requests |-> Blank]

Goto(r, step, s) ==
  /\ pc' = [pc EXCEPT ![r] = step]
  /\ snap' = [snap EXCEPT ![r] = s]

Finish(r) == Goto(r, "done", Blank)

\* A check that lets the handler go on to its next step, or ends it.
Check(r, step, passed) ==
  /\ IF passed THEN Goto(r, step, snap[r]) ELSE Finish(r)
  /\ UNCHANGED <<identity, changes, limit>>

InFlight == {r \in Requests : pc[r] \notin {"idle", "done"}}

Arrives(r, handler) ==
  /\ Handler[r] = handler
  /\ pc[r] = "idle"
  /\ Cardinality(InFlight) < limit

\* The unique index on nik, as a check sees it and as a write enforces it.
NikIsFree(nik, u) == \A v \in Users : identity[v] # None /\ identity[v].nik = nik => v = u

PendingChanges == {c \in Requests : changes[c] # None /\ changes[c].status = "PENDING"}

-----------------------------------------------------------------------------
(* submitIdentity *)

SubmitReadNik(r, u, nik, ktp) ==
  /\ Arrives(r, "submit")
  /\ NikIsFree(nik, u)
  /\ Goto(r, "submitIdentity", [Blank EXCEPT !.user = u, !.nik = nik, !.ktp = ktp])
  /\ UNCHANGED <<identity, changes, limit>>

\* Mutant: a submission under review is replaced.
MaySubmitMutant(row, ktp) == row # None \/ ktp # None

\* Mutant: the first submission needs no photograph.
MaySubmitBare(row, ktp) == row # None => row.status # "PENDING"

\* Not while it is under review, nor the first time without a photograph.
MaySubmit(row, ktp) ==
  /\ row # None => row.status # "PENDING"
  /\ row = None => ktp # None

SubmitReadIdentity(r) ==
  LET row == identity[snap[r].user] IN
  /\ pc[r] = "submitIdentity"
  /\ Check(r, IF row # None /\ row.status = "APPROVED" THEN "changePending"
              ELSE "submitUpsert",
           MaySubmit(row, snap[r].ktp))

\* Mutant: the verifier of the earlier submission stays.
SubmittedMutant(r) ==
  LET row == identity[snap[r].user] IN
  [nik |-> snap[r].nik, data |-> r,
   ktp |-> IF snap[r].ktp = None /\ row # None THEN row.ktp ELSE snap[r].ktp,
   status |-> "PENDING", verifiedBy |-> IF row = None THEN None ELSE row.verifiedBy]

\* Without a new photograph the earlier one stays.
Submitted(r) ==
  LET row == identity[snap[r].user] IN
  [nik |-> snap[r].nik, data |-> r,
   ktp |-> IF snap[r].ktp = None /\ row # None THEN row.ktp ELSE snap[r].ktp,
   status |-> "PENDING", verifiedBy |-> None]

SubmitUpsert(r) ==
  LET s == snap[r] IN
  /\ pc[r] = "submitUpsert"
  /\ identity' = IF NikIsFree(s.nik, s.user)
                 THEN [identity EXCEPT ![s.user] = Submitted(r)] ELSE identity
  /\ Finish(r)
  /\ UNCHANGED <<changes, limit>>

-----------------------------------------------------------------------------
(* createIdentityChangeRequest, when the identity is APPROVED *)

\* Mutant: any number of change requests.
NoOpenChangeMutant(u) == TRUE

NoOpenChange(u) == \A c \in PendingChanges : changes[c].user # u

ChangeReadPending(r) ==
  /\ pc[r] = "changePending"
  /\ Check(r, "changeNik", NoOpenChange(snap[r].user))

ChangeReadNik(r) ==
  /\ pc[r] = "changeNik"
  /\ Check(r, "changePendingNik", NikIsFree(snap[r].nik, snap[r].user))

NikNotRequested(nik, u) ==
  \A c \in PendingChanges : changes[c].nik = nik => changes[c].user = u

ChangeReadPendingNik(r) ==
  /\ pc[r] = "changePendingNik"
  /\ Check(r, "changeCreate", NikNotRequested(snap[r].nik, snap[r].user))

ChangeCreate(r) ==
  LET s == snap[r] IN
  /\ pc[r] = "changeCreate"
  /\ changes' = [changes EXCEPT ![r] =
       [user |-> s.user, nik |-> s.nik, ktp |-> s.ktp, status |-> "PENDING",
        reviewedBy |-> None]]
  /\ Finish(r)
  /\ UNCHANGED <<identity, limit>>

-----------------------------------------------------------------------------
(* reviewIdentity, of IdentityService and of AdminService *)

ReviewScope(r, v, u, verdict) ==
  /\ Arrives(r, "review")
  /\ u \in Reviews[v]
  /\ Goto(r, "reviewIdentity", [Blank EXCEPT !.user = u, !.by = v, !.verdict = verdict])
  /\ UNCHANGED <<identity, changes, limit>>

ReviewReadIdentity(r) ==
  /\ pc[r] = "reviewIdentity"
  /\ Check(r, "reviewUpdate", identity[snap[r].user] # None)

\* Whatever the status of the row has become.
Decided(row, s) == [row EXCEPT !.status = s.verdict, !.verifiedBy = s.by]

ReviewUpdate(r) ==
  /\ pc[r] = "reviewUpdate"
  /\ identity' = [identity EXCEPT ![snap[r].user] = Decided(@, snap[r])]
  /\ Finish(r)
  /\ UNCHANGED <<changes, limit>>

-----------------------------------------------------------------------------
(* reviewIdentityChangeRequest *)

\* Mutant: a request that was decided is decided again.
OpenMutant(c) == changes[c] # None

Open(c) == c \in PendingChanges

ReviewChangeRead(r, v, c, verdict) ==
  /\ Arrives(r, "reviewChange")
  /\ Open(c)
  /\ changes[c].user \in Reviews[v]
  /\ Goto(r, IF verdict = "APPROVED" THEN "approveNik" ELSE "rejectUpdate",
          [Blank EXCEPT !.user = changes[c].user, !.change = c, !.by = v])
  /\ UNCHANGED <<identity, changes, limit>>

ApproveReadNik(r) ==
  /\ pc[r] = "approveNik"
  /\ Check(r, "approveCommit", NikIsFree(changes[snap[r].change].nik, snap[r].user))

\* What the request asked for, as it was read; without a photograph in it the
\* one of the row stays.
Changed(row, c, by) ==
  [nik |-> changes[c].nik, data |-> c,
   ktp |-> IF changes[c].ktp = None THEN row.ktp ELSE changes[c].ktp,
   status |-> "APPROVED", verifiedBy |-> by]

Verdict(row, verdict, by) == [row EXCEPT !.status = verdict, !.reviewedBy = by]

\* Identity and request in one transaction; the unique index may abort it.
ApproveCommit(r) ==
  LET s == snap[r] IN
  /\ pc[r] = "approveCommit"
  /\ IF NikIsFree(changes[s.change].nik, s.user)
     THEN /\ identity' = [identity EXCEPT ![s.user] = Changed(@, s.change, s.by)]
          /\ changes' = [changes EXCEPT ![s.change] = Verdict(@, "APPROVED", s.by)]
     ELSE UNCHANGED <<identity, changes>>
  /\ Finish(r)
  /\ UNCHANGED limit

RejectUpdate(r) ==
  LET s == snap[r] IN
  /\ pc[r] = "rejectUpdate"
  /\ changes' = [changes EXCEPT ![s.change] = Verdict(@, "REJECTED", s.by)]
  /\ Finish(r)
  /\ UNCHANGED <<identity, limit>>

-----------------------------------------------------------------------------
Receive(r) ==
  \/ \E u \in Users : \/ \E nik \in Niks, ktp \in {r, None} : SubmitReadNik(r, u, nik, ktp)
                      \/ \E v \in Reviewers, verdict \in Verdicts : ReviewScope(r, v, u, verdict)
  \/ \E v \in Reviewers, c \in Requests, verdict \in Verdicts :
       ReviewChangeRead(r, v, c, verdict)

Step(r) ==
  \/ SubmitReadIdentity(r) \/ SubmitUpsert(r)
  \/ ChangeReadPending(r) \/ ChangeReadNik(r) \/ ChangeReadPendingNik(r) \/ ChangeCreate(r)
  \/ ReviewReadIdentity(r) \/ ReviewUpdate(r)
  \/ ApproveReadNik(r) \/ ApproveCommit(r) \/ RejectUpdate(r)

Next == \E r \in Requests : Receive(r) \/ Step(r)

Spec == Init /\ [][Next]_vars

-----------------------------------------------------------------------------
Awaits ==
  {"idle", "submitIdentity", "submitUpsert", "changePending", "changeNik",
   "changePendingNik", "changeCreate", "reviewIdentity", "reviewUpdate",
   "approveNik", "approveCommit", "rejectUpdate", "done"}

\* Every row and snapshot has the type of its columns or variables.
TypeOK ==
  /\ identity \in [Users -> IdentityRow \cup {None}]
  /\ changes \in [Requests -> ChangeRow \cup {None}]
  /\ limit \in 1..MaxInFlight
  /\ pc \in [Requests -> Awaits]
  /\ snap \in [Requests -> Snapshot]

(* However the requests interleave: an identity is never without the       *)
(* photograph it is verified by ("File KTP wajib diunggah saat submit      *)
(* identitas pertama kali"), and only a user with one asks for a change,   *)
(* so that approving the change finds a row to update.                     *)
IdentityHasKtp ==
  /\ \A u \in Users : identity[u] # None => identity[u].ktp # None
  /\ \A c \in Requests : changes[c] # None => identity[changes[c].user] # None

(* However they interleave: an identity or a request is undecided exactly  *)
(* when it names no reviewer, and a reviewer it names may review its user; *)
(* no submission inherits the verifier of the one it replaces.             *)
DecisionsNameReviewers ==
  /\ \A u \in Users : identity[u] # None =>
       IF identity[u].status = "PENDING" THEN identity[u].verifiedBy = None
       ELSE identity[u].verifiedBy # None /\ u \in Reviews[identity[u].verifiedBy]
  /\ \A c \in Requests : changes[c] # None =>
       IF changes[c].status = "PENDING" THEN changes[c].reviewedBy = None
       ELSE changes[c].reviewedBy # None /\ changes[c].user \in Reviews[changes[c].reviewedBy]

(* One request at a time: a user has one open change request ("Masih ada   *)
(* request perubahan identitas yang menunggu review admin"), and no two    *)
(* users ask for one number ("NIK sedang diajukan oleh user lain").        *)
OneOpenChange ==
  limit = 1 => \A c, d \in PendingChanges : changes[c].user = changes[d].user => c = d

OneRequestPerNik ==
  limit = 1 => \A c, d \in PendingChanges :
                 changes[c].nik = changes[d].nik => changes[c].user = changes[d].user

(* One request at a time: what a rejected request asked for is not in the  *)
(* identity, so that a verdict on it was the last ("Request perubahan      *)
(* identitas sudah diproses").                                             *)
RejectedIsNotApplied ==
  limit = 1 => \A c \in Requests :
    changes[c] # None /\ changes[c].status = "REJECTED" =>
      c \notin {identity[changes[c].user].data, identity[changes[c].user].ktp}

(* One request at a time: what is under review stays as it was submitted   *)
(* until the verdict ("Perubahan baru bisa diajukan setelah admin memberi  *)
(* keputusan").                                                            *)
UnderReviewStays ==
  limit = 1 => \A u \in Users :
    identity[u] # None /\ identity[u].status = "PENDING" /\ identity'[u].status = "PENDING" =>
      \A field \in {"nik", "data", "ktp"} : identity'[u][field] = identity[u][field]

ReviewedAsSubmitted == [][UnderReviewStays]_vars
=============================================================================
