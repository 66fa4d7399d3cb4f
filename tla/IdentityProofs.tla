--------------------------- MODULE IdentityProofs ----------------------------
(***************************************************************************)
(* Theorems about the reviews of identities: those about types, photos and *)
(* reviewers hold for any number of requests in flight, the others for     *)
(* a server that handles one request at a time, whatever it is sent.  Then *)
(* the pages in front of it: they make only steps of Identity, and with    *)
(* lists loaded after every verdict, what is approved is what was shown.   *)
(***************************************************************************)
EXTENDS IdentityDesk, FiniteSetTheorems, TLAPS

Submitting ==
  {"submitIdentity", "submitUpsert", "changePending", "changeNik",
   "changePendingNik", "changeCreate"}

Deciding == {"approveNik", "approveCommit", "rejectUpdate"}

\* What a handler that waits at step has read.
Ready(step, s) ==
  /\ step \in Submitting => s.user \in Users /\ s.nik \in Niks
  /\ step \in {"reviewIdentity", "reviewUpdate"} =>
       s.by \in Reviewers /\ s.user \in Reviews[s.by] /\ s.verdict \in Verdicts
  /\ step \in Deciding =>
       s.by \in Reviewers /\ s.user \in Reviews[s.by] /\ s.change \in Requests

RequestTypes ==
  /\ pc \in [Requests -> Awaits] /\ snap \in [Requests -> Snapshot]
  /\ \A r \in Requests : Ready(pc[r], snap[r])

RowTypes ==
  /\ identity \in [Users -> IdentityRow \cup {None}]
  /\ changes \in [Requests -> ChangeRow \cup {None}]
  /\ limit \in 1..MaxInFlight

\* What a handler found stays there until it uses it.
Found(r) ==
  /\ pc[r] # "done" => changes[r] = None
  /\ pc[r] = "submitUpsert" => identity[snap[r].user] # None \/ snap[r].ktp # None
  /\ pc[r] \in {"changePending", "changeNik", "changePendingNik", "changeCreate",
                "reviewUpdate"} => identity[snap[r].user] # None
  /\ pc[r] \in Deciding =>
       changes[snap[r].change] # None /\ changes[snap[r].change].user = snap[r].user

RowInv ==
  /\ IdentityHasKtp
  /\ DecisionsNameReviewers
  /\ \A r \in Requests : Found(r)

-----------------------------------------------------------------------------
(* One request at a time *)

OneAtATime ==
  /\ IsFiniteSet(InFlight)
  /\ limit = 1 => \A q, r \in InFlight : q = r

\* What the one handler found is still so when it writes.
StillSo(r) ==
  /\ pc[r] \in Submitting => snap[r].ktp \in {r, None}
  /\ pc[r] = "submitUpsert" /\ identity[snap[r].user] # None =>
       identity[snap[r].user].status # "PENDING"
  /\ pc[r] \in {"changeNik", "changePendingNik", "changeCreate"} => NoOpenChange(snap[r].user)
  /\ pc[r] = "changeCreate" => NikNotRequested(snap[r].nik, snap[r].user)
  /\ pc[r] \in Deciding => snap[r].change \in PendingChanges

Uses(u, r) == identity[u] # None /\ (identity[u].data = r \/ identity[u].ktp = r)

\* What a request uploads appears nowhere before it is done, and what a change
\* request asks for in no identity before it is approved.
UploadsInv ==
  /\ \A r \in Requests : pc[r] # "done" => \A u \in Users : ~Uses(u, r)
  /\ \A c \in Requests : changes[c] # None => changes[c].ktp \in {c, None}
  /\ \A u \in Users, c \in Requests :
       changes[c] # None /\ Uses(u, c) => changes[c].status = "APPROVED"

Serial ==
  /\ \A r \in Requests : StillSo(r)
  /\ UploadsInv
  /\ OneOpenChange
  /\ OneRequestPerNik

-----------------------------------------------------------------------------
(* Types *)

LEMMA GotoType ==
  ASSUME RequestTypes, NEW r \in Requests, NEW step \in Awaits, NEW s \in Snapshot,
         Ready(step, s), Goto(r, step, s)
  PROVE  RequestTypes'
BY DEF Goto, RequestTypes

LEMMA FinishType ==
  ASSUME RequestTypes, NEW r \in Requests, Finish(r)
  PROVE  RequestTypes'
<1>1. Blank \in Snapshot
  BY DEF Blank, Snapshot
<1>2. Ready("done", Blank)
  BY DEF Ready, Submitting, Deciding
<1> QED
  BY <1>1, <1>2, GotoType DEF Finish, Awaits

LEMMA CheckType ==
  ASSUME RowTypes, RequestTypes, NEW r \in Requests, NEW step \in Awaits, NEW passed,
         Check(r, step, passed), passed => Ready(step, snap[r])
  PROVE  RowTypes' /\ RequestTypes'
<1>1. snap[r] \in Snapshot
  BY DEF RequestTypes
<1> QED
  BY <1>1, GotoType, FinishType DEF Check, RowTypes

LEMMA ArrivalTypes ==
  ASSUME RowTypes, RequestTypes, NEW r \in Requests, Receive(r)
  PROVE  RowTypes' /\ RequestTypes'
<1>1. RowTypes'
  BY DEF Receive, SubmitReadNik, ReviewScope, ReviewChangeRead, RowTypes
<1>2. ASSUME NEW u \in Users, NEW nik \in Niks, NEW ktp \in {r, None},
             SubmitReadNik(r, u, nik, ktp)
      PROVE  RequestTypes'
  <2> DEFINE s == [Blank EXCEPT !.user = u, !.nik = nik, !.ktp = ktp]
  <2>1. s \in Snapshot /\ s.user = u /\ s.nik = nik
    BY DEF Blank, Snapshot
  <2>2. Ready("submitIdentity", s)
    BY <2>1 DEF Ready, Submitting, Deciding
  <2> QED
    BY <1>2, <2>1, <2>2, GotoType DEF SubmitReadNik, Awaits
<1>3. ASSUME NEW v \in Reviewers, NEW u \in Users, NEW verdict \in Verdicts,
             ReviewScope(r, v, u, verdict)
      PROVE  RequestTypes'
  <2> DEFINE s == [Blank EXCEPT !.user = u, !.by = v, !.verdict = verdict]
  <2>1. s \in Snapshot /\ s.user = u /\ s.by = v /\ s.verdict = verdict
    BY DEF Blank, Snapshot
  <2>2. Ready("reviewIdentity", s)
    BY <1>3, <2>1 DEF ReviewScope, Ready, Submitting, Deciding
  <2> QED
    BY <1>3, <2>1, <2>2, GotoType DEF ReviewScope, Awaits
<1>4. ASSUME NEW v \in Reviewers, NEW c \in Requests, NEW verdict \in Verdicts,
             ReviewChangeRead(r, v, c, verdict)
      PROVE  RequestTypes'
  <2> DEFINE s == [Blank EXCEPT !.user = changes[c].user, !.change = c, !.by = v]
             step == IF verdict = "APPROVED" THEN "approveNik" ELSE "rejectUpdate"
  <2>1. changes[c].user \in Reviews[v] /\ changes[c].user \in Users
    BY <1>4, IdentityAssumption DEF ReviewChangeRead
  <2>2. s \in Snapshot /\ s.user = changes[c].user /\ s.by = v /\ s.change = c
    BY <2>1 DEF Blank, Snapshot
  <2>3. Ready(step, s)
    BY <2>1, <2>2 DEF Ready, Submitting, Deciding
  <2>4. step \in Awaits /\ Goto(r, step, s)
    BY <1>4 DEF ReviewChangeRead, Awaits
  <2> QED
    BY <2>2, <2>3, <2>4, GotoType
<1> QED
  BY <1>1, <1>2, <1>3, <1>4 DEF Receive

\* The rows that the steps write are rows.
LEMMA WrittenTypes ==
  ASSUME RowTypes, RequestTypes, RowInv, NEW r \in Requests
  PROVE  /\ SubmitUpsert(r) => snap[r].user \in Users /\ Submitted(r) \in IdentityRow
         /\ ReviewUpdate(r) =>
              /\ snap[r].user \in Users /\ identity[snap[r].user] \in IdentityRow
              /\ Decided(identity[snap[r].user], snap[r]) \in IdentityRow
         /\ ApproveCommit(r) =>
              /\ snap[r].user \in Users /\ identity[snap[r].user] \in IdentityRow
              /\ Changed(identity[snap[r].user], snap[r].change, snap[r].by) \in IdentityRow
         /\ ApproveCommit(r) \/ RejectUpdate(r) =>
              /\ snap[r].change \in Requests /\ changes[snap[r].change] \in ChangeRow
              /\ changes[snap[r].change].user = snap[r].user
              /\ snap[r].by \in Reviewers /\ snap[r].user \in Reviews[snap[r].by]
<1>0. snap[r] \in Snapshot /\ Ready(pc[r], snap[r]) /\ Found(r) /\ IdentityHasKtp
  BY DEF RequestTypes, RowInv
<1>1. ASSUME SubmitUpsert(r)
      PROVE  snap[r].user \in Users /\ Submitted(r) \in IdentityRow
  <2>1. snap[r].user \in Users /\ snap[r].nik \in Niks /\ snap[r].ktp \in Requests \cup {None}
    BY <1>0, <1>1 DEF SubmitUpsert, Ready, Submitting, Snapshot
  <2> QED
    BY <2>1 DEF Submitted, IdentityRow, RowTypes, VerificationStatus, Uploads
<1>2. ASSUME ReviewUpdate(r)
      PROVE  /\ snap[r].user \in Users /\ identity[snap[r].user] \in IdentityRow
             /\ Decided(identity[snap[r].user], snap[r]) \in IdentityRow
  <2>1. /\ snap[r].by \in Reviewers /\ snap[r].user \in Users /\ snap[r].verdict \in Verdicts
    BY <1>0, <1>2, IdentityAssumption DEF ReviewUpdate, Ready
  <2>2. identity[snap[r].user] \in IdentityRow
    BY <1>0, <1>2, <2>1 DEF ReviewUpdate, Found, RowTypes
  <2> QED
    BY <2>1, <2>2 DEF Decided, IdentityRow, VerificationStatus
<1>3. ASSUME ApproveCommit(r) \/ RejectUpdate(r)
      PROVE  /\ snap[r].change \in Requests /\ changes[snap[r].change] \in ChangeRow
             /\ changes[snap[r].change].user = snap[r].user
             /\ snap[r].by \in Reviewers /\ snap[r].user \in Reviews[snap[r].by]
  BY <1>0, <1>3 DEF ApproveCommit, RejectUpdate, Ready, Found, Deciding, RowTypes
<1>4. ASSUME ApproveCommit(r)
      PROVE  /\ snap[r].user \in Users /\ identity[snap[r].user] \in IdentityRow
             /\ Changed(identity[snap[r].user], snap[r].change, snap[r].by) \in IdentityRow
  <2>1. snap[r].user \in Users
    BY <1>3, <1>4, IdentityAssumption
  <2>2. identity[snap[r].user] \in IdentityRow
    BY <1>0, <1>3, <1>4, <2>1, NoneIsNoIdentity DEF IdentityHasKtp, RowTypes
  <2> QED
    BY <1>3, <1>4, <2>1, <2>2
    DEF Changed, ChangeRow, IdentityRow, VerificationStatus, Verdicts, Uploads
<1> QED
  BY <1>1, <1>2, <1>3, <1>4

\* A verdict on a change request keeps what it asked for.
LEMMA VerdictRow ==
  ASSUME NEW row \in ChangeRow, NEW by \in Reviewers, NEW verdict \in Verdicts
  PROVE  LET new == Verdict(row, verdict, by) IN
         /\ new \in ChangeRow /\ new # None
         /\ new.user = row.user /\ new.nik = row.nik /\ new.ktp = row.ktp
         /\ new.status = verdict /\ new.reviewedBy = by
BY NoneIsNoIdentity DEF Verdict, ChangeRow, VerificationStatus

LEMMA StepTypes ==
  ASSUME RowTypes, RequestTypes, RowInv, NEW r \in Requests, Step(r)
  PROVE  RowTypes' /\ RequestTypes'
<1>0. snap[r] \in Snapshot /\ Ready(pc[r], snap[r])
  BY DEF RequestTypes
<1>1. CASE SubmitReadIdentity(r)
  <2> DEFINE row == identity[snap[r].user]
             step == IF row # None /\ row.status = "APPROVED" THEN "changePending"
                     ELSE "submitUpsert"
  <2>1. step \in Awaits /\ Ready(step, snap[r])
    BY <1>0, <1>1 DEF SubmitReadIdentity, Awaits, Ready, Submitting, Deciding
  <2>2. Check(r, step, MaySubmit(row, snap[r].ktp))
    BY <1>1 DEF SubmitReadIdentity
  <2> HIDE DEF step
  <2> QED
    BY <2>1, <2>2, CheckType
<1>2. CASE SubmitUpsert(r)
  <2>1. RowTypes'
    BY <1>2, WrittenTypes DEF SubmitUpsert, RowTypes
  <2> QED
    BY <1>2, <2>1, FinishType DEF SubmitUpsert
<1>3. CASE ChangeReadPending(r)
  BY <1>0, <1>3, CheckType DEF ChangeReadPending, Awaits, Ready, Submitting, Deciding
<1>4. CASE ChangeReadNik(r)
  BY <1>0, <1>4, CheckType DEF ChangeReadNik, Awaits, Ready, Submitting, Deciding
<1>5. CASE ChangeReadPendingNik(r)
  BY <1>0, <1>5, CheckType DEF ChangeReadPendingNik, Awaits, Ready, Submitting, Deciding
<1>6. CASE ChangeCreate(r)
  <2>1. snap[r].user \in Users /\ snap[r].nik \in Niks /\ snap[r].ktp \in Requests \cup {None}
    BY <1>0, <1>6 DEF ChangeCreate, Ready, Submitting, Snapshot
  <2>2. RowTypes'
    BY <1>6, <2>1 DEF ChangeCreate, RowTypes, ChangeRow, VerificationStatus
  <2> QED
    BY <1>6, <2>2, FinishType DEF ChangeCreate
<1>7. CASE ReviewReadIdentity(r)
  BY <1>0, <1>7, CheckType DEF ReviewReadIdentity, Awaits, Ready, Submitting, Deciding
<1>8. CASE ReviewUpdate(r)
  <2>1. RowTypes'
    BY <1>8, WrittenTypes DEF ReviewUpdate, RowTypes
  <2> QED
    BY <1>8, <2>1, FinishType DEF ReviewUpdate
<1>9. CASE ApproveReadNik(r)
  BY <1>0, <1>9, CheckType DEF ApproveReadNik, Awaits, Ready, Submitting, Deciding
<1>10. CASE ApproveCommit(r)
  <2>1. RowTypes'
    BY <1>10, WrittenTypes, VerdictRow DEF ApproveCommit, RowTypes, Verdicts
  <2> QED
    BY <1>10, <2>1, FinishType DEF ApproveCommit
<1>11. CASE RejectUpdate(r)
  <2>1. RowTypes'
    BY <1>11, WrittenTypes, VerdictRow DEF RejectUpdate, RowTypes, Verdicts
  <2> QED
    BY <1>11, <2>1, FinishType DEF RejectUpdate
<1> QED
  BY <1>1, <1>2, <1>3, <1>4, <1>5, <1>6, <1>7, <1>8, <1>9, <1>10, <1>11 DEF Step

-----------------------------------------------------------------------------
(* Photographs, reviewers, and what a handler found *)

\* A step of r is no step of another request.
LEMMA OthersWait ==
  ASSUME RequestTypes, NEW r \in Requests, Receive(r) \/ Step(r), NEW q \in Requests, q # r
  PROVE  pc'[q] = pc[q] /\ snap'[q] = snap[q]
<1>1. \E step, s : Goto(r, step, s)
  <2>1. CASE Receive(r)
    BY <2>1 DEF Receive, SubmitReadNik, ReviewScope, ReviewChangeRead
  <2>2. CASE Step(r)
    BY <2>2 DEF Step, Check, Finish, SubmitReadIdentity, SubmitUpsert, ChangeReadPending,
                ChangeReadNik, ChangeReadPendingNik, ChangeCreate, ReviewReadIdentity,
                ReviewUpdate, ApproveReadNik, ApproveCommit, RejectUpdate
  <2> QED
    BY <2>1, <2>2
<1> QED
  BY <1>1 DEF Goto, RequestTypes

\* What a step writes: one identity, one change request, both or none.
LEMMA Writes ==
  ASSUME RowTypes, RequestTypes, RowInv, NEW r \in Requests, Receive(r) \/ Step(r)
  PROVE  \/ UNCHANGED <<identity, changes>>
         \/ /\ SubmitUpsert(r) /\ UNCHANGED changes
            /\ identity' = [identity EXCEPT ![snap[r].user] = Submitted(r)]
         \/ ChangeCreate(r)
         \/ ReviewUpdate(r)
         \/ /\ ApproveCommit(r)
            /\ identity' = [identity EXCEPT ![snap[r].user] =
                               Changed(@, snap[r].change, snap[r].by)]
            /\ changes' = [changes EXCEPT ![snap[r].change] =
                              Verdict(@, "APPROVED", snap[r].by)]
         \/ RejectUpdate(r)
<1>1. CASE Receive(r)
  BY <1>1 DEF Receive, SubmitReadNik, ReviewScope, ReviewChangeRead
<1>2. CASE Step(r)
  BY <1>2 DEF Step, Check, SubmitReadIdentity, SubmitUpsert, ChangeReadPending,
              ChangeReadNik, ChangeReadPendingNik, ReviewReadIdentity, ApproveReadNik,
              ApproveCommit
<1> QED
  BY <1>1, <1>2

LEMMA RowsStay ==
  ASSUME RowTypes, RequestTypes, RowInv, NEW r \in Requests, Receive(r) \/ Step(r)
  PROVE  /\ \A u \in Users : identity[u] # None => identity'[u] # None
         /\ \A c \in Requests : changes[c] # None =>
              /\ changes'[c] # None /\ changes'[c].user = changes[c].user
              /\ changes'[c].nik = changes[c].nik /\ changes'[c].ktp = changes[c].ktp
         /\ \A c \in Requests : changes'[c] # None => changes[c] # None \/ c = r
<1>1. CASE UNCHANGED <<identity, changes>>
  BY <1>1
<1>2. CASE SubmitUpsert(r) /\ UNCHANGED changes
           /\ identity' = [identity EXCEPT ![snap[r].user] = Submitted(r)]
  BY <1>2, WrittenTypes, NoneIsNoIdentity DEF RowTypes
<1>3. CASE ChangeCreate(r)
  <2>1. changes[r] = None
    BY <1>3 DEF ChangeCreate, RowInv, Found
  <2> QED
    BY <1>3, <2>1 DEF ChangeCreate, RowTypes
<1>4. CASE ReviewUpdate(r)
  BY <1>4, WrittenTypes, NoneIsNoIdentity DEF ReviewUpdate, RowTypes
<1>5. CASE /\ ApproveCommit(r)
           /\ identity' = [identity EXCEPT ![snap[r].user] =
                              Changed(@, snap[r].change, snap[r].by)]
           /\ changes' = [changes EXCEPT ![snap[r].change] =
                             Verdict(@, "APPROVED", snap[r].by)]
  BY <1>5, WrittenTypes, VerdictRow, NoneIsNoIdentity DEF RowTypes, Verdicts
<1>6. CASE RejectUpdate(r)
  <2>1. UNCHANGED identity
    BY <1>6 DEF RejectUpdate
  <2>2. changes' = [changes EXCEPT ![snap[r].change] =
                      Verdict(changes[snap[r].change], "REJECTED", snap[r].by)]
    BY <1>6 DEF RejectUpdate
  <2> QED
    BY <1>6, <2>1, <2>2, WrittenTypes, VerdictRow, NoneIsNoIdentity DEF RowTypes, Verdicts
<1> QED
  BY <1>1, <1>2, <1>3, <1>4, <1>5, <1>6, Writes

LEMMA OthersFound ==
  ASSUME RowTypes, RequestTypes, RowInv, NEW r \in Requests, Receive(r) \/ Step(r),
         NEW q \in Requests, q # r
  PROVE  Found(q)'
<1>1. Found(q) /\ pc'[q] = pc[q] /\ snap'[q] = snap[q] /\ Ready(pc[q], snap[q])
  BY OthersWait DEF RowInv, RequestTypes
<1>2. pc[q] \in {"changePending", "changeNik", "changePendingNik", "changeCreate",
                 "reviewUpdate", "submitUpsert"} => snap[q].user \in Users
  BY <1>1, IdentityAssumption DEF Ready, Submitting
<1>3. pc[q] \in Deciding => snap[q].change \in Requests
  BY <1>1 DEF Ready
<1> QED
  BY <1>1, <1>2, <1>3, RowsStay DEF Found

LEMMA ArrivalFound ==
  ASSUME RowTypes, RequestTypes, RowInv, NEW r \in Requests, Receive(r)
  PROVE  Found(r)'
<1>1. UNCHANGED <<identity, changes>> /\ pc[r] = "idle" /\ changes[r] = None
  BY DEF Receive, SubmitReadNik, ReviewScope, ReviewChangeRead, Arrives, RowInv, Found
<1>2. CASE \E u \in Users, nik \in Niks, ktp \in {r, None} : SubmitReadNik(r, u, nik, ktp)
  BY <1>1, <1>2 DEF SubmitReadNik, Goto, Found, Deciding, RequestTypes
<1>3. CASE \E u \in Users, v \in Reviewers, verdict \in Verdicts : ReviewScope(r, v, u, verdict)
  BY <1>1, <1>3 DEF ReviewScope, Goto, Found, Deciding, RequestTypes
<1>4. ASSUME NEW v \in Reviewers, NEW c \in Requests, NEW verdict \in Verdicts,
             ReviewChangeRead(r, v, c, verdict)
      PROVE  Found(r)'
  <2> DEFINE s == [Blank EXCEPT !.user = changes[c].user, !.change = c, !.by = v]
  <2>1. s.user = changes[c].user /\ s.change = c
    BY DEF Blank
  <2>2. changes[c] # None
    BY <1>4 DEF ReviewChangeRead, Open, PendingChanges
  <2>3. snap'[r] = s /\ pc'[r] \in {"approveNik", "rejectUpdate"}
    BY <1>4 DEF ReviewChangeRead, Goto, RequestTypes
  <2> QED
    BY <1>1, <2>1, <2>2, <2>3 DEF Found, Deciding
<1> QED
  BY <1>2, <1>3, <1>4 DEF Receive

\* A check that does not end the handler leaves everything it read.
LEMMA CheckFound ==
  ASSUME RequestTypes, RowInv, NEW r \in Requests, NEW step, NEW passed,
         Check(r, step, passed), pc[r] # "done",
         passed => /\ step = "submitUpsert" =>
                        identity[snap[r].user] # None \/ snap[r].ktp # None
                   /\ step \in {"changePending", "changeNik", "changePendingNik",
                                "changeCreate", "reviewUpdate"} =>
                        identity[snap[r].user] # None
                   /\ step \in Deciding => pc[r] \in Deciding
  PROVE  Found(r)'
<1>1. Found(r) /\ UNCHANGED <<identity, changes>>
  BY DEF RowInv, Check
<1>2. CASE passed
  <2>1. pc'[r] = step /\ snap'[r] = snap[r]
    BY <1>2 DEF Check, Goto, RequestTypes
  <2> QED
    BY <1>1, <1>2, <2>1 DEF Found
<1>3. CASE ~passed
  <2>1. pc'[r] = "done"
    BY <1>3 DEF Check, Finish, Goto, RequestTypes
  <2> QED
    BY <2>1 DEF Found, Deciding
<1> QED
  BY <1>2, <1>3

LEMMA StepFound ==
  ASSUME RowTypes, RequestTypes, RowInv, NEW r \in Requests, Step(r)
  PROVE  Found(r)'
<1>0. Found(r)
  BY DEF RowInv
<1>1. CASE SubmitReadIdentity(r)
  BY <1>1, CheckFound DEF SubmitReadIdentity, MaySubmit, Deciding
<1>2. CASE ChangeReadPending(r)
  BY <1>0, <1>2, CheckFound DEF ChangeReadPending, Found, Deciding
<1>3. CASE ChangeReadNik(r)
  BY <1>0, <1>3, CheckFound DEF ChangeReadNik, Found, Deciding
<1>4. CASE ChangeReadPendingNik(r)
  BY <1>0, <1>4, CheckFound DEF ChangeReadPendingNik, Found, Deciding
<1>5. CASE ReviewReadIdentity(r)
  BY <1>5, CheckFound DEF ReviewReadIdentity, Deciding
<1>6. CASE ApproveReadNik(r)
  BY <1>6, CheckFound DEF ApproveReadNik, Deciding
<1>7. CASE SubmitUpsert(r) \/ ChangeCreate(r) \/ ReviewUpdate(r) \/ ApproveCommit(r)
           \/ RejectUpdate(r)
  <2>1. pc'[r] = "done"
    BY <1>7 DEF SubmitUpsert, ChangeCreate, ReviewUpdate, ApproveCommit, RejectUpdate,
                Finish, Goto, RequestTypes
  <2> QED
    BY <2>1 DEF Found, Deciding
<1> QED
  BY <1>1, <1>2, <1>3, <1>4, <1>5, <1>6, <1>7 DEF Step

LEMMA KtpStays ==
  ASSUME RowTypes, RequestTypes, RowInv, NEW r \in Requests, Receive(r) \/ Step(r)
  PROVE  IdentityHasKtp'
<1>1. Found(r) /\ IdentityHasKtp /\ snap[r] \in Snapshot /\ Ready(pc[r], snap[r])
  BY DEF RowInv, RequestTypes
<1>2. \A c \in Requests : changes'[c] # None => identity'[changes'[c].user] # None
  <2>1. ASSUME NEW c \in Requests, changes'[c] # None, changes[c] # None
        PROVE  identity'[changes'[c].user] # None
    <3>1. changes[c].user \in Users /\ identity[changes[c].user] # None
      BY <1>1, <2>1 DEF IdentityHasKtp, RowTypes, ChangeRow
    <3> QED
      BY <2>1, <3>1, RowsStay
  <2>2. ASSUME changes'[r] # None, changes[r] = None
        PROVE  identity'[changes'[r].user] # None
    <3>1. CASE ChangeCreate(r)
      <4>1. snap[r].user \in Users /\ identity[snap[r].user] # None
        BY <1>1, <3>1 DEF ChangeCreate, Ready, Submitting, Found
      <4>2. changes'[r].user = snap[r].user /\ UNCHANGED identity
        BY <3>1 DEF ChangeCreate, RowTypes
      <4> QED
        BY <4>1, <4>2
    <3>2. CASE ~ChangeCreate(r)
      BY <2>2, <3>2, Writes, WrittenTypes, NoneIsNoIdentity DEF RowTypes, ReviewUpdate, RejectUpdate
    <3> QED
      BY <3>1, <3>2
  <2> QED
    BY <2>1, <2>2, RowsStay
<1>3. \A u \in Users : identity'[u] # None => identity'[u].ktp # None
  <2>1. CASE UNCHANGED identity
    BY <1>1, <2>1 DEF IdentityHasKtp
  <2>2. CASE SubmitUpsert(r) /\ identity' = [identity EXCEPT ![snap[r].user] = Submitted(r)]
    <3>1. snap[r].user \in Users /\ Submitted(r).ktp # None
      BY <1>1, <2>2, WrittenTypes DEF SubmitUpsert, Submitted, Found, IdentityHasKtp
    <3> QED
      BY <1>1, <2>2, <3>1 DEF IdentityHasKtp, RowTypes
  <2>3. CASE ReviewUpdate(r)
    <3>1. snap[r].user \in Users /\ identity[snap[r].user] \in IdentityRow
      BY <2>3, WrittenTypes
    <3>2. Decided(identity[snap[r].user], snap[r]).ktp = identity[snap[r].user].ktp
      BY <3>1 DEF Decided, IdentityRow
    <3> QED
      BY <1>1, <2>3, <3>1, <3>2, NoneIsNoIdentity DEF ReviewUpdate, IdentityHasKtp, RowTypes
  <2>4. CASE /\ ApproveCommit(r)
             /\ identity' = [identity EXCEPT ![snap[r].user] =
                                Changed(@, snap[r].change, snap[r].by)]
    <3>1. snap[r].user \in Users /\ identity[snap[r].user] \in IdentityRow
      BY <2>4, WrittenTypes
    <3>2. Changed(identity[snap[r].user], snap[r].change, snap[r].by).ktp # None
      BY <1>1, <3>1, NoneIsNoIdentity DEF Changed, IdentityHasKtp
    <3> QED
      BY <1>1, <2>4, <3>1, <3>2 DEF IdentityHasKtp, RowTypes
  <2> QED
    BY <2>1, <2>2, <2>3, <2>4, Writes DEF ChangeCreate, RejectUpdate
<1> QED
  BY <1>2, <1>3 DEF IdentityHasKtp

SignedRow(u) ==
  identity[u] # None =>
    IF identity[u].status = "PENDING" THEN identity[u].verifiedBy = None
    ELSE identity[u].verifiedBy # None /\ u \in Reviews[identity[u].verifiedBy]

SignedChange(c) ==
  changes[c] # None =>
    IF changes[c].status = "PENDING" THEN changes[c].reviewedBy = None
    ELSE changes[c].reviewedBy # None /\ changes[c].user \in Reviews[changes[c].reviewedBy]

LEMMA ReviewersStay ==
  ASSUME RowTypes, RequestTypes, RowInv, NEW r \in Requests, Receive(r) \/ Step(r)
  PROVE  DecisionsNameReviewers'
<1>1. /\ \A u \in Users : SignedRow(u)
      /\ \A c \in Requests : SignedChange(c)
  BY DEF RowInv, DecisionsNameReviewers, SignedRow, SignedChange
<1>2. snap[r] \in Snapshot /\ Ready(pc[r], snap[r])
  BY DEF RequestTypes
<1>3. ASSUME NEW u \in Users PROVE SignedRow(u)'
  <2>1. CASE identity'[u] = identity[u]
    BY <1>1, <2>1 DEF SignedRow
  <2>2. CASE SubmitUpsert(r) /\ identity' = [identity EXCEPT ![snap[r].user] = Submitted(r)]
    <3>1. Submitted(r).status = "PENDING" /\ Submitted(r).verifiedBy = None
      BY DEF Submitted
    <3> QED
      BY <1>1, <2>2, <3>1 DEF RowTypes, SignedRow
  <2>3. CASE ReviewUpdate(r)
    <3> DEFINE new == Decided(identity[snap[r].user], snap[r])
    <3>1. snap[r].user \in Users /\ identity[snap[r].user] \in IdentityRow
      BY <2>3, WrittenTypes
    <3>2. snap[r].by \in Reviewers /\ snap[r].user \in Reviews[snap[r].by]
          /\ snap[r].verdict \in Verdicts
      BY <1>2, <2>3 DEF ReviewUpdate, Ready
    <3>3. new.status = snap[r].verdict /\ new.verifiedBy = snap[r].by
      BY <3>1 DEF Decided, IdentityRow
    <3>4. new.status # "PENDING" /\ new.verifiedBy # None
      BY <3>2, <3>3, IdentityAssumption DEF Verdicts
    <3>5. identity' = [identity EXCEPT ![snap[r].user] = new]
      BY <2>3 DEF ReviewUpdate
    <3> HIDE DEF new
    <3> QED
      BY <1>1, <3>1, <3>2, <3>3, <3>4, <3>5 DEF RowTypes, SignedRow
  <2>4. CASE ApproveCommit(r)
             /\ identity' = [identity EXCEPT ![snap[r].user] =
                                Changed(@, snap[r].change, snap[r].by)]
    <3> DEFINE new == Changed(identity[snap[r].user], snap[r].change, snap[r].by)
    <3>1. /\ snap[r].user \in Users /\ snap[r].by \in Reviewers
          /\ snap[r].user \in Reviews[snap[r].by]
      BY <2>4, WrittenTypes
    <3>2. new.status = "APPROVED" /\ new.verifiedBy = snap[r].by
      BY DEF Changed
    <3>3. new.verifiedBy # None
      BY <3>1, <3>2, IdentityAssumption
    <3>4. identity' = [identity EXCEPT ![snap[r].user] = new]
      BY <2>4
    <3> HIDE DEF new
    <3> QED
      BY <1>1, <3>1, <3>2, <3>3, <3>4 DEF RowTypes, SignedRow
  <2> QED
    BY <2>1, <2>2, <2>3, <2>4, Writes DEF ChangeCreate, RejectUpdate
<1>4. ASSUME NEW c \in Requests PROVE SignedChange(c)'
  <2>1. CASE changes'[c] = changes[c]
    BY <1>1, <2>1 DEF SignedChange
  <2>2. CASE ChangeCreate(r)
    <3>1. changes'[c] = changes[c] \/
          (changes'[c].status = "PENDING" /\ changes'[c].reviewedBy = None)
      BY <2>2 DEF ChangeCreate, RowTypes
    <3> QED
      BY <2>1, <3>1 DEF SignedChange
  <2>3. ASSUME NEW verdict \in Verdicts, ApproveCommit(r) \/ RejectUpdate(r),
               changes' = [changes EXCEPT ![snap[r].change] =
                             Verdict(changes[snap[r].change], verdict, snap[r].by)]
        PROVE  SignedChange(c)'
    <3> DEFINE new == Verdict(changes[snap[r].change], verdict, snap[r].by)
    <3>1. /\ snap[r].change \in Requests /\ changes[snap[r].change] \in ChangeRow
          /\ changes[snap[r].change].user = snap[r].user
          /\ snap[r].by \in Reviewers /\ snap[r].user \in Reviews[snap[r].by]
      BY <2>3, WrittenTypes
    <3>2. new.user = snap[r].user /\ new.status = verdict /\ new.reviewedBy = snap[r].by
      BY <3>1, VerdictRow
    <3>3. new.status # "PENDING" /\ new.reviewedBy # None
      BY <3>1, <3>2, IdentityAssumption DEF Verdicts
    <3>4. changes' = [changes EXCEPT ![snap[r].change] = new]
      BY <2>3
    <3> HIDE DEF new
    <3> QED
      BY <1>1, <3>1, <3>2, <3>3, <3>4 DEF RowTypes, SignedChange
  <2>4. CASE RejectUpdate(r)
    BY <2>3, <2>4 DEF RejectUpdate, Verdicts
  <2>5. CASE ApproveCommit(r)
             /\ changes' = [changes EXCEPT ![snap[r].change] =
                               Verdict(@, "APPROVED", snap[r].by)]
    BY <2>3, <2>5 DEF Verdicts
  <2> QED
    BY <2>1, <2>2, <2>4, <2>5, Writes DEF ReviewUpdate
<1> QED
  BY <1>3, <1>4 DEF DecisionsNameReviewers, SignedRow, SignedChange

-----------------------------------------------------------------------------
RowsInv == RowTypes /\ RequestTypes /\ RowInv

LEMMA InitRows == Init => RowsInv
<1> SUFFICES ASSUME Init PROVE RowsInv
  OBVIOUS
<1>1. PICK by \in [Users -> Reviewers] :
        /\ \A u \in Users : Enrolled[u] # None => u \in Reviews[by[u]]
        /\ identity = [u \in Users |-> IF Enrolled[u] = None THEN None
                                      ELSE EnrolledRow(u, by[u])]
  BY DEF Init
<1>2. ASSUME NEW u \in Users, Enrolled[u] # None
      PROVE  /\ EnrolledRow(u, by[u]) \in IdentityRow
             /\ EnrolledRow(u, by[u]).ktp # None
             /\ EnrolledRow(u, by[u]).status = "APPROVED"
             /\ EnrolledRow(u, by[u]).verifiedBy = by[u]
  <2>1. Enrolled[u] \in Niks /\ by[u] \in Reviewers /\ Earlier # None
    BY <1>2, IdentityAssumption
  <2> QED
    BY <2>1 DEF EnrolledRow, IdentityRow, Uploads, VerificationStatus, Verdicts
<1>3. /\ changes = [r \in Requests |-> None] /\ limit \in 1..MaxInFlight
      /\ pc = [r \in Requests |-> "idle"] /\ snap = [r \in Requests |-> Blank]
  BY DEF Init
<1>4. RowTypes
  BY <1>1, <1>2, <1>3 DEF RowTypes
<1>5. Blank \in Snapshot /\ Ready("idle", Blank)
  BY DEF Blank, Snapshot, Ready, Submitting, Deciding
<1>6. RequestTypes
  BY <1>3, <1>5 DEF RequestTypes, Awaits
<1>7. IdentityHasKtp
  BY <1>1, <1>2, <1>3 DEF IdentityHasKtp
<1>8. DecisionsNameReviewers
  <2>1. \A u \in Users : identity[u] # None =>
          /\ identity[u].status # "PENDING" /\ identity[u].verifiedBy \in Reviewers
          /\ u \in Reviews[identity[u].verifiedBy]
    BY <1>1, <1>2
  <2> QED
    BY <1>3, <2>1, IdentityAssumption DEF DecisionsNameReviewers
<1>9. \A r \in Requests : Found(r)
  BY <1>3 DEF Found, Deciding
<1> QED
  BY <1>4, <1>6, <1>7, <1>8, <1>9 DEF RowsInv, RowInv

LEMMA NextRows == RowsInv /\ [Next]_vars => RowsInv'
<1> SUFFICES ASSUME RowsInv, [Next]_vars PROVE RowsInv'
  OBVIOUS
<1>0. RowTypes /\ RequestTypes /\ RowInv
  BY DEF RowsInv
<1>1. ASSUME NEW r \in Requests, Receive(r) \/ Step(r) PROVE RowsInv'
  <2>1. RowTypes' /\ RequestTypes'
    BY <1>0, <1>1, ArrivalTypes, StepTypes
  <2>2. \A q \in Requests : Found(q)'
    BY <1>0, <1>1, OthersFound, ArrivalFound, StepFound
  <2>3. IdentityHasKtp' /\ DecisionsNameReviewers'
    BY <1>0, <1>1, KtpStays, ReviewersStay
  <2> QED
    BY <2>1, <2>2, <2>3 DEF RowsInv, RowInv
<1>2. CASE UNCHANGED vars
  BY <1>2 DEF vars, RowsInv, RowTypes, RequestTypes, RowInv, IdentityHasKtp,
              DecisionsNameReviewers, Found, Ready
<1> QED
  BY <1>1, <1>2 DEF Next

LEMMA RowsAlways == Spec => []RowsInv
BY InitRows, NextRows, PTL DEF Spec

\* Rows, snapshots and awaits keep their types, whatever is sent and however
\* many requests are in flight.
THEOREM IdentityTypes == Spec => []TypeOK
<1>1. RowsInv => TypeOK
  BY DEF RowsInv, RowTypes, RequestTypes, TypeOK
<1> QED
  BY <1>1, RowsAlways, PTL

\* No identity loses or lacks its photograph, and no change request its
\* identity, in any interleaving of submitIdentity and the two reviews.
THEOREM PhotographsStay == Spec => []IdentityHasKtp
<1>1. RowsInv => IdentityHasKtp
  BY DEF RowsInv, RowInv
<1> QED
  BY <1>1, RowsAlways, PTL

\* A decided identity or change request names a reviewer in whose scope its
\* user is, and an undecided one names none, in any interleaving.
THEOREM DecisionsAreSigned == Spec => []DecisionsNameReviewers
<1>1. RowsInv => DecisionsNameReviewers
  BY DEF RowsInv, RowInv
<1> QED
  BY <1>1, RowsAlways, PTL

-----------------------------------------------------------------------------
(* One request at a time: what a step finds is what the handler found.     *)

LEMMA StepIsInFlight ==
  ASSUME RequestTypes, NEW r \in Requests, Step(r)
  PROVE  r \in InFlight /\ UNCHANGED limit
BY DEF Step, Check, Finish, SubmitReadIdentity, SubmitUpsert, ChangeReadPending,
       ChangeReadNik, ChangeReadPendingNik, ChangeCreate, ReviewReadIdentity, ReviewUpdate,
       ApproveReadNik, ApproveCommit, RejectUpdate, InFlight

LEMMA ArrivesWithRoom ==
  ASSUME NEW r \in Requests, Receive(r)
  PROVE  pc[r] = "idle" /\ Cardinality(InFlight) < limit /\ UNCHANGED limit
BY DEF Receive, SubmitReadNik, ReviewScope, ReviewChangeRead, Arrives

\* With room for one request, the others wait to be received or are done.
LEMMA Alone ==
  ASSUME RowTypes, RequestTypes, OneAtATime, limit = 1,
         NEW r \in Requests, Receive(r) \/ Step(r), NEW q \in Requests, q # r
  PROVE  pc[q] \in {"idle", "done"}
<1>1. CASE Receive(r)
  <2>1. Cardinality(InFlight) < 1 /\ Cardinality(InFlight) \in Nat
    BY <1>1, ArrivesWithRoom, FS_CardinalityType DEF OneAtATime
  <2>2. InFlight = {}
    BY <2>1, FS_EmptySet DEF OneAtATime
  <2> QED
    BY <2>2 DEF InFlight
<1>2. CASE Step(r)
  BY <1>2, StepIsInFlight DEF OneAtATime, InFlight
<1> QED
  BY <1>1, <1>2

LEMMA OneStays ==
  ASSUME RowTypes, RequestTypes, OneAtATime, NEW r \in Requests, Receive(r) \/ Step(r)
  PROVE  OneAtATime'
<1>1. InFlight' \subseteq InFlight \cup {r} /\ UNCHANGED limit
  BY OthersWait, StepIsInFlight, ArrivesWithRoom DEF InFlight
<1>2. IsFiniteSet(InFlight')
  <2>1. IsFiniteSet(InFlight \cup {r})
    BY FS_AddElement DEF OneAtATime
  <2> QED
    BY <1>1, <2>1, FS_Subset
<1>3. limit' = 1 => \A p, q \in InFlight' : p = q
  <2>1. ASSUME limit = 1, NEW q \in InFlight' PROVE q = r
    BY <1>1, <2>1, Alone, OthersWait DEF InFlight
  <2> QED
    BY <1>1, <2>1
<1> QED
  BY <1>2, <1>3 DEF OneAtATime

\* What a step does to one identity, and to one change request.
LEMMA IdentityWrites ==
  ASSUME RowsInv, NEW r \in Requests, Receive(r) \/ Step(r),
         NEW u \in Users, identity'[u] # identity[u]
  PROVE  /\ u = snap[r].user
         /\ \/ /\ SubmitUpsert(r) /\ identity'[u].status = "PENDING"
               /\ identity'[u].data = r
               /\ \/ identity'[u].ktp = snap[r].ktp
                  \/ identity[u] # None /\ identity'[u].ktp = identity[u].ktp
            \/ /\ ReviewUpdate(r) /\ identity[u] # None /\ identity'[u].status \in Verdicts
               /\ identity'[u].data = identity[u].data /\ identity'[u].ktp = identity[u].ktp
            \/ /\ ApproveCommit(r) /\ identity[u] # None /\ identity'[u].status = "APPROVED"
               /\ changes'[snap[r].change].status = "APPROVED"
               /\ identity'[u].data = snap[r].change
               /\ identity'[u].ktp \in {changes[snap[r].change].ktp, identity[u].ktp}
<1>0. RowTypes /\ RequestTypes /\ RowInv /\ snap[r] \in Snapshot /\ Ready(pc[r], snap[r])
  BY DEF RowsInv, RequestTypes
<1>1. CASE SubmitUpsert(r) /\ identity' = [identity EXCEPT ![snap[r].user] = Submitted(r)]
  BY <1>0, <1>1 DEF RowTypes, Submitted
<1>2. CASE ReviewUpdate(r)
  <2> DEFINE new == Decided(identity[snap[r].user], snap[r])
  <2>1. snap[r].user \in Users /\ identity[snap[r].user] \in IdentityRow
    BY <1>0, <1>2, WrittenTypes
  <2>2. snap[r].verdict \in Verdicts
    BY <1>0, <1>2 DEF ReviewUpdate, Ready
  <2>3. /\ new.status = snap[r].verdict /\ new.data = identity[snap[r].user].data
        /\ new.ktp = identity[snap[r].user].ktp
    BY <2>1 DEF Decided, IdentityRow
  <2>4. identity' = [identity EXCEPT ![snap[r].user] = new]
    BY <1>2 DEF ReviewUpdate
  <2> HIDE DEF new
  <2> QED
    BY <1>0, <1>2, <2>1, <2>2, <2>3, <2>4, NoneIsNoIdentity DEF RowTypes
<1>3. CASE /\ ApproveCommit(r)
           /\ identity' = [identity EXCEPT ![snap[r].user] =
                              Changed(@, snap[r].change, snap[r].by)]
           /\ changes' = [changes EXCEPT ![snap[r].change] =
                             Verdict(@, "APPROVED", snap[r].by)]
  <2>1. snap[r].user \in Users /\ identity[snap[r].user] \in IdentityRow
    BY <1>0, <1>3, WrittenTypes
  <2>2. /\ snap[r].change \in Requests /\ changes[snap[r].change] \in ChangeRow
        /\ snap[r].by \in Reviewers
    BY <1>0, <1>3, WrittenTypes
  <2>3. changes'[snap[r].change].status = "APPROVED"
    BY <1>0, <1>3, <2>2, VerdictRow DEF RowTypes, Verdicts
  <2>4. u = snap[r].user
        /\ identity'[u] = Changed(identity[u], snap[r].change, snap[r].by)
    BY <1>0, <1>3, <2>1 DEF RowTypes
  <2> QED
    BY <1>3, <2>1, <2>3, <2>4, NoneIsNoIdentity DEF Changed
<1> QED
  BY <1>0, <1>1, <1>2, <1>3, Writes DEF ChangeCreate, RejectUpdate

LEMMA ChangeWrites ==
  ASSUME RowsInv, NEW r \in Requests, Receive(r) \/ Step(r),
         NEW c \in Requests, changes'[c] # changes[c]
  PROVE  \/ /\ ChangeCreate(r) /\ c = r /\ changes[r] = None
            /\ changes'[c].user = snap[r].user /\ changes'[c].nik = snap[r].nik
            /\ changes'[c].ktp = snap[r].ktp
         \/ ApproveCommit(r) /\ c = snap[r].change /\ changes'[c].status = "APPROVED"
         \/ RejectUpdate(r) /\ c = snap[r].change /\ changes'[c].status = "REJECTED"
<1>0. RowTypes /\ RequestTypes /\ RowInv
  BY DEF RowsInv
<1>1. CASE ChangeCreate(r)
  <2>1. changes[r] = None
    BY <1>0, <1>1 DEF ChangeCreate, RowInv, Found
  <2> QED
    BY <1>0, <1>1, <2>1 DEF ChangeCreate, RowTypes
<1>2. ASSUME NEW verdict \in Verdicts, ApproveCommit(r) \/ RejectUpdate(r),
             changes' = [changes EXCEPT ![snap[r].change] =
                           Verdict(changes[snap[r].change], verdict, snap[r].by)]
      PROVE  c = snap[r].change /\ changes'[c].status = verdict
  <2>1. /\ snap[r].change \in Requests /\ changes[snap[r].change] \in ChangeRow
        /\ snap[r].by \in Reviewers
    BY <1>0, <1>2, WrittenTypes
  <2> QED
    BY <1>0, <1>2, <2>1, VerdictRow DEF RowTypes
<1>3. CASE RejectUpdate(r)
  BY <1>2, <1>3 DEF RejectUpdate, Verdicts
<1>4. CASE ApproveCommit(r)
           /\ changes' = [changes EXCEPT ![snap[r].change] =
                             Verdict(@, "APPROVED", snap[r].by)]
  BY <1>2, <1>4 DEF Verdicts
<1> QED
  BY <1>0, <1>1, <1>3, <1>4, Writes DEF ReviewUpdate

LEMMA StillSoStays ==
  ASSUME RowsInv, OneAtATime, limit = 1, \A q \in Requests : StillSo(q),
         NEW r \in Requests, Receive(r) \/ Step(r), NEW q \in Requests
  PROVE  StillSo(q)'
<1>0. RowTypes /\ RequestTypes /\ RowInv
  BY DEF RowsInv
<1>1. CASE q # r
  <2>1. pc'[q] \in {"idle", "done"}
    BY <1>0, <1>1, Alone, OthersWait
  <2> QED
    BY <2>1 DEF StillSo, Submitting, Deciding
<1>2. CASE pc'[r] \in {"reviewIdentity", "reviewUpdate", "done"} /\ q = r
  BY <1>2 DEF StillSo, Submitting, Deciding
<1>3. ASSUME q = r, pc'[r] \notin {"reviewIdentity", "reviewUpdate", "done"},
             UNCHANGED <<identity, changes>>
      PROVE  StillSo(r)'
  <2>1. CASE \E u \in Users, nik \in Niks, ktp \in {r, None} : SubmitReadNik(r, u, nik, ktp)
    BY <1>0, <2>1 DEF SubmitReadNik, Goto, RequestTypes, StillSo, Deciding, Blank
  <2>2. ASSUME NEW v \in Reviewers, NEW c \in Requests, NEW verdict \in Verdicts,
               ReviewChangeRead(r, v, c, verdict)
        PROVE  StillSo(r)'
    <3>1. snap'[r].change = c /\ pc'[r] \in {"approveNik", "rejectUpdate"}
      BY <1>0, <2>2 DEF ReviewChangeRead, Goto, RequestTypes, Blank
    <3>2. c \in PendingChanges'
      BY <1>3, <2>2 DEF ReviewChangeRead, Open, PendingChanges
    <3> QED
      BY <3>1, <3>2 DEF StillSo, Submitting
  <2>3. ASSUME NEW u \in Users, NEW v \in Reviewers, NEW verdict \in Verdicts,
               ReviewScope(r, v, u, verdict)
        PROVE  FALSE
    BY <1>0, <1>3, <2>3 DEF ReviewScope, Goto, RequestTypes
  <2>4. CASE SubmitReadIdentity(r)
    BY <1>0, <1>3, <2>4
    DEF SubmitReadIdentity, Check, MaySubmit, Finish, Goto, RequestTypes, StillSo,
        Submitting, Deciding
  <2>5. CASE ChangeReadPending(r)
    BY <1>0, <1>3, <2>5
    DEF ChangeReadPending, Check, Finish, Goto, RequestTypes, StillSo, Submitting, Deciding,
        NoOpenChange, PendingChanges
  <2>6. CASE ChangeReadNik(r)
    BY <1>0, <1>3, <2>6
    DEF ChangeReadNik, Check, Finish, Goto, RequestTypes, StillSo, Submitting, Deciding,
        NoOpenChange, PendingChanges
  <2>7. CASE ChangeReadPendingNik(r)
    BY <1>0, <1>3, <2>7
    DEF ChangeReadPendingNik, Check, Finish, Goto, RequestTypes, StillSo, Submitting,
        Deciding, NoOpenChange, NikNotRequested, PendingChanges
  <2>8. CASE ApproveReadNik(r)
    BY <1>0, <1>3, <2>8
    DEF ApproveReadNik, Check, Finish, Goto, RequestTypes, StillSo, Submitting, Deciding,
        PendingChanges
  <2>9. ~ReviewReadIdentity(r) /\ ~SubmitUpsert(r) /\ ~ChangeCreate(r) /\ ~ReviewUpdate(r)
        /\ ~ApproveCommit(r) /\ ~RejectUpdate(r)
    BY <1>0, <1>3 DEF ReviewReadIdentity, SubmitUpsert, ChangeCreate, ReviewUpdate,
        ApproveCommit, RejectUpdate, Check, Finish, Goto, RequestTypes
  <2>10. Receive(r) => StillSo(r)'
    BY <2>1, <2>2, <2>3 DEF Receive
  <2>11. Step(r) => StillSo(r)'
    BY <2>4, <2>5, <2>6, <2>7, <2>8, <2>9 DEF Step
  <2> QED
    BY <2>10, <2>11
<1>4. CASE pc'[r] = "done" \/ UNCHANGED <<identity, changes>>
  BY <1>1, <1>2, <1>3, <1>4
<1>5. pc'[r] = "done" \/ UNCHANGED <<identity, changes>>
  BY <1>0, Writes DEF SubmitUpsert, ChangeCreate, ReviewUpdate, ApproveCommit, RejectUpdate,
      Finish, Goto, RequestTypes
<1> QED
  BY <1>4, <1>5

LEMMA UploadsStay ==
  ASSUME RowsInv, Serial, NEW r \in Requests, Receive(r) \/ Step(r)
  PROVE  UploadsInv'
<1>0. /\ RowTypes /\ RequestTypes /\ RowInv /\ UploadsInv /\ Found(r) /\ StillSo(r)
      /\ Ready(pc[r], snap[r]) /\ None \notin Requests
  BY IdentityAssumption DEF RowsInv, RowInv, Serial, RequestTypes
<1>1. ASSUME NEW c \in Requests, changes'[c] # None
      PROVE  changes'[c].ktp \in {c, None}
  <2>1. CASE changes[c] # None
    BY <1>0, <1>1, <2>1, RowsStay DEF UploadsInv
  <2>2. CASE changes[c] = None
    BY <1>0, <1>1, <2>2, ChangeWrites DEF ChangeCreate, StillSo, Submitting, ApproveCommit,
        RejectUpdate, Found, Deciding
  <2> QED
    BY <2>1, <2>2
\* An identity that comes to use q does so because r submitted it, or because r
\* approved the change request q.
<1>2. ASSUME NEW u \in Users, NEW q \in Requests, Uses(u, q)', ~Uses(u, q)
      PROVE  \/ q = r /\ SubmitUpsert(r)
             \/ ApproveCommit(r) /\ q = snap[r].change /\ changes'[q].status = "APPROVED"
                /\ changes[q] # None
  <2>1. identity'[u] # identity[u] /\ identity'[u] # None
    BY <1>2 DEF Uses
  <2>2. /\ SubmitUpsert(r) => ~ReviewUpdate(r) /\ ~ApproveCommit(r)
        /\ ReviewUpdate(r) => ~ApproveCommit(r)
    BY DEF SubmitUpsert, ReviewUpdate, ApproveCommit
  <2>3. CASE SubmitUpsert(r)
    <3>1. snap[r].ktp \in {r, None}
      BY <1>0, <2>3 DEF SubmitUpsert, StillSo, Submitting
    <3>2. /\ u = snap[r].user /\ identity'[u].data = r
          /\ \/ identity'[u].ktp = snap[r].ktp
             \/ identity[u] # None /\ identity'[u].ktp = identity[u].ktp
      BY <2>1, <2>3, <2>2, IdentityWrites
    <3> QED
      BY <1>0, <1>2, <2>3, <3>1, <3>2 DEF Uses
  <2>4. CASE ReviewUpdate(r)
    <3>1. /\ identity[u] # None /\ identity'[u].data = identity[u].data
          /\ identity'[u].ktp = identity[u].ktp
      BY <2>1, <2>4, <2>2, IdentityWrites
    <3> QED
      BY <1>2, <3>1 DEF Uses
  <2>5. CASE ApproveCommit(r)
    <3>1. changes[snap[r].change] # None /\ snap[r].change \in Requests
      BY <1>0, <2>5 DEF ApproveCommit, Found, Deciding, Ready
    <3>2. changes[snap[r].change].ktp \in {snap[r].change, None}
      BY <1>0, <3>1 DEF UploadsInv
    <3> QED
      BY <1>0, <1>2, <2>1, <2>5, <3>1, <3>2, IdentityWrites
      DEF Uses, SubmitUpsert, ReviewUpdate, ApproveCommit
  <2> QED
    BY <2>1, <2>3, <2>4, <2>5, IdentityWrites
<1>3. ASSUME NEW q \in Requests, pc'[q] # "done", NEW u \in Users
      PROVE  ~Uses(u, q)'
  <2>1. pc[q] # "done"
    BY <1>0, <1>3, OthersWait, StepIsInFlight, ArrivesWithRoom DEF InFlight
  <2>2. ~Uses(u, q) /\ changes[q] = None
    BY <1>0, <2>1 DEF UploadsInv, RowInv, Found
  <2>3. ~(q = r /\ SubmitUpsert(r))
    BY <1>0, <1>3 DEF SubmitUpsert, Finish, Goto, RequestTypes
  <2> QED
    BY <1>2, <2>2, <2>3
<1>4. ASSUME NEW u \in Users, NEW c \in Requests, changes'[c] # None, Uses(u, c)'
      PROVE  changes'[c].status = "APPROVED"
  <2>1. CASE ~Uses(u, c)
    <3>1. ~(c = r /\ SubmitUpsert(r))
      BY <1>0, <1>4 DEF SubmitUpsert, Found
    <3> QED
      BY <1>2, <1>4, <2>1, <3>1
  <2>2. CASE Uses(u, c)
    <3>1. pc[c] = "done"
      BY <1>0, <2>2 DEF UploadsInv
    <3>2. changes[c] # None
      <4>1. c # r
        BY <3>1, <1>0, StepIsInFlight, ArrivesWithRoom DEF InFlight
      <4> QED
        BY <1>0, <1>4, <4>1, RowsStay
    <3>3. changes[c].status = "APPROVED"
      BY <1>0, <2>2, <3>2 DEF UploadsInv
    <3>4. ~(RejectUpdate(r) /\ c = snap[r].change)
      BY <1>0, <3>3 DEF RejectUpdate, StillSo, Deciding, PendingChanges
    <3> QED
      BY <3>2, <3>3, <3>4, ChangeWrites
  <2> QED
    BY <2>1, <2>2
<1> QED
  BY <1>1, <1>3, <1>4 DEF UploadsInv

\* A request is pending because it was, or because r has just created it.
LEMMA PendingCameFrom ==
  ASSUME RowsInv, Serial, NEW r \in Requests, Receive(r) \/ Step(r),
         NEW c \in PendingChanges'
  PROVE  \/ /\ c \in PendingChanges /\ changes'[c].user = changes[c].user
            /\ changes'[c].nik = changes[c].nik
         \/ /\ c = r /\ ChangeCreate(r) /\ changes'[c].user = snap[r].user
            /\ changes'[c].nik = snap[r].nik
<1>0. RowTypes /\ RequestTypes /\ RowInv /\ c \in Requests
  BY DEF RowsInv, PendingChanges
<1>1. CASE changes'[c] = changes[c]
  BY <1>0, <1>1 DEF PendingChanges
<1>2. CASE changes'[c] # changes[c]
  BY <1>0, <1>2, ChangeWrites DEF PendingChanges
<1> QED
  BY <1>1, <1>2

LEMMA SerialStays ==
  ASSUME RowsInv, OneAtATime, limit = 1, Serial, NEW r \in Requests, Receive(r) \/ Step(r)
  PROVE  Serial'
<1>0. StillSo(r) /\ OneOpenChange /\ OneRequestPerNik /\ limit' = 1
  BY StepIsInFlight, ArrivesWithRoom DEF Serial, RowsInv
<1>1. \A q \in Requests : StillSo(q)'
  BY StillSoStays DEF Serial
<1>2. UploadsInv'
  BY UploadsStay
<1>3. ChangeCreate(r) =>
        /\ \A c \in PendingChanges : changes[c].user # snap[r].user
        /\ \A c \in PendingChanges : changes[c].nik # snap[r].nik
                                     \/ changes[c].user = snap[r].user
  BY <1>0 DEF ChangeCreate, StillSo, NoOpenChange, NikNotRequested
<1>4. OneOpenChange'
  <2> SUFFICES ASSUME NEW c \in PendingChanges', NEW d \in PendingChanges',
                      changes'[c].user = changes'[d].user
               PROVE  c = d
    BY DEF OneOpenChange
  <2> QED
    BY <1>0, <1>3, PendingCameFrom DEF OneOpenChange
<1>5. OneRequestPerNik'
  <2> SUFFICES ASSUME NEW c \in PendingChanges', NEW d \in PendingChanges',
                      changes'[c].nik = changes'[d].nik
               PROVE  changes'[c].user = changes'[d].user
    BY DEF OneRequestPerNik
  <2> QED
    BY <1>0, <1>3, PendingCameFrom DEF OneRequestPerNik
<1> QED
  BY <1>1, <1>2, <1>4, <1>5 DEF Serial

-----------------------------------------------------------------------------
\* The inductive invariant.
ReviewsInv == RowsInv /\ OneAtATime /\ (limit = 1 => Serial)

LEMMA InitReviews == Init => ReviewsInv
<1> SUFFICES ASSUME Init PROVE ReviewsInv
  OBVIOUS
<1>1. /\ changes = [r \in Requests |-> None] /\ pc = [r \in Requests |-> "idle"]
      /\ snap = [r \in Requests |-> Blank]
  BY DEF Init
<1>2. OneAtATime
  <2>1. InFlight = {}
    BY <1>1 DEF InFlight
  <2> QED
    BY <2>1, FS_EmptySet DEF OneAtATime
<1>3. PendingChanges = {}
  BY <1>1 DEF PendingChanges
<1>4. \A r \in Requests : StillSo(r)
  BY <1>1 DEF StillSo, Submitting, Deciding
<1>5. UploadsInv
  <2>1. ASSUME NEW u \in Users, NEW r \in Requests, Uses(u, r) PROVE FALSE
    <3>1. identity[u].data = Earlier /\ identity[u].ktp = Earlier
      BY <2>1 DEF Init, Uses, EnrolledRow
    <3> QED
      BY <2>1, <3>1, IdentityAssumption DEF Uses
  <2> QED
    BY <1>1, <2>1 DEF UploadsInv
<1> QED
  BY InitRows, <1>2, <1>3, <1>4, <1>5 DEF ReviewsInv, Serial, OneOpenChange, OneRequestPerNik

LEMMA NextReviews == ReviewsInv /\ [Next]_vars => ReviewsInv'
<1> SUFFICES ASSUME ReviewsInv, [Next]_vars PROVE ReviewsInv'
  OBVIOUS
<1>0. RowsInv /\ RowTypes /\ RequestTypes /\ OneAtATime /\ RowsInv'
  BY NextRows DEF ReviewsInv, RowsInv
<1>1. ASSUME NEW r \in Requests, Receive(r) \/ Step(r) PROVE ReviewsInv'
  <2>1. limit' = limit
    BY <1>0, <1>1, StepIsInFlight, ArrivesWithRoom
  <2>2. OneAtATime'
    BY <1>0, <1>1, OneStays
  <2>3. limit = 1 => Serial'
    BY <1>0, <1>1, SerialStays DEF ReviewsInv
  <2> QED
    BY <1>0, <2>1, <2>2, <2>3 DEF ReviewsInv
<1>2. CASE UNCHANGED vars
  <2>1. InFlight' = InFlight /\ PendingChanges' = PendingChanges
    BY <1>2 DEF vars, InFlight, PendingChanges
  <2>2. OneAtATime'
    BY <1>0, <1>2, <2>1 DEF vars, OneAtATime
  <2>3. ASSUME limit = 1 PROVE Serial'
    <3>1. Serial
      BY <2>3 DEF ReviewsInv
    <3>2. (\A r \in Requests : StillSo(r))'
      BY <1>2, <2>1, <3>1 DEF vars, Serial, StillSo, NoOpenChange, NikNotRequested
    <3>3. UploadsInv'
      BY <1>2, <3>1 DEF vars, Serial, UploadsInv, Uses
    <3>4. OneOpenChange' /\ OneRequestPerNik'
      BY <1>2, <2>1, <3>1 DEF vars, Serial, OneOpenChange, OneRequestPerNik
    <3> QED
      BY <3>2, <3>3, <3>4 DEF Serial
  <2> QED
    BY <1>0, <1>2, <2>2, <2>3 DEF ReviewsInv, vars
<1> QED
  BY <1>1, <1>2 DEF Next

LEMMA ReviewsAlways == Spec => []ReviewsInv
BY InitReviews, NextReviews, PTL DEF Spec

\* One request at a time, submitIdentity never leaves a user with two change
\* requests under review.
THEOREM OneChangeAtATime == Spec => []OneOpenChange
<1>1. ReviewsInv => OneOpenChange
  BY DEF ReviewsInv, Serial, OneOpenChange
<1> QED
  BY <1>1, ReviewsAlways, PTL

\* Nor does it let two users ask for one NIK.
THEOREM NiksAreAskedForOnce == Spec => []OneRequestPerNik
<1>1. ReviewsInv => OneRequestPerNik
  BY DEF ReviewsInv, Serial, OneRequestPerNik
<1> QED
  BY <1>1, ReviewsAlways, PTL

\* One request at a time, what reviewIdentityChangeRequest rejected never gets
\* into an identity, neither its data nor its photograph.
THEOREM RejectionIsFinal == Spec => []RejectedIsNotApplied
<1>1. ReviewsInv => RejectedIsNotApplied
  <2> SUFFICES ASSUME ReviewsInv, limit = 1, NEW c \in Requests, changes[c] # None,
                      changes[c].status = "REJECTED"
               PROVE  c \notin {identity[changes[c].user].data, identity[changes[c].user].ktp}
    BY DEF RejectedIsNotApplied
  <2>1. changes[c].user \in Users /\ identity[changes[c].user] # None
    BY NoneIsNoIdentity DEF ReviewsInv, RowsInv, RowTypes, RowInv, IdentityHasKtp, ChangeRow
  <2>2. ~Uses(changes[c].user, c)
    BY <2>1 DEF ReviewsInv, Serial, UploadsInv
  <2> QED
    BY <2>1, <2>2 DEF Uses
<1> QED
  BY <1>1, ReviewsAlways, PTL

LEMMA ReviewIsOfTheSubmission ==
  ASSUME ReviewsInv, [Next]_vars
  PROVE  UnderReviewStays
<1> SUFFICES ASSUME limit = 1, NEW u \in Users, identity[u] # None,
                    identity[u].status = "PENDING", identity'[u].status = "PENDING"
             PROVE  identity'[u] = identity[u]
  BY DEF UnderReviewStays
<1>1. CASE UNCHANGED vars
  BY <1>1 DEF vars
<1>2. CASE Next
  <2>1. PICK r \in Requests : Receive(r) \/ Step(r)
    BY <1>2 DEF Next
  <2>2. RowsInv /\ StillSo(r)
    BY DEF ReviewsInv, Serial
  <2>3. SubmitUpsert(r) => u # snap[r].user
    BY <2>2 DEF SubmitUpsert, StillSo
  <2>4. "PENDING" \notin Verdicts /\ "PENDING" # "APPROVED"
    BY DEF Verdicts
  <2> QED
    BY <2>1, <2>2, <2>3, <2>4, IdentityWrites
<1> QED
  BY <1>1, <1>2

\* One request at a time, a submission under review is what the reviewer
\* decides on: neither it nor its photograph is replaced before the verdict.
THEOREM SubmissionStays == Spec => ReviewedAsSubmitted
<1>1. ReviewsInv /\ [Next]_vars => [UnderReviewStays]_vars
  BY ReviewIsOfTheSubmission
<1> QED
  BY <1>1, ReviewsAlways, PTL DEF Spec, ReviewedAsSubmitted

-----------------------------------------------------------------------------
(* The page and the server *)

\* A list is loaded without a call that the server handles as a step.
LEMMA DeskStep ==
  ASSUME NEW r \in Requests,
         (\E v \in Reviewers, u \in Users : OpenReviewDialog(r, v, u))
           \/ HandleReview(r) \/ CallApi(r) \/ Serve(r),
         DeskTypeOK
  PROVE  UNCHANGED vars \/ Receive(r) \/ Step(r)
<1>1. CASE \E v \in Reviewers, u \in Users : OpenReviewDialog(r, v, u)
  BY <1>1 DEF OpenReviewDialog
<1>2. CASE HandleReview(r)
  <2>1. shown[r] \in Shown
    BY <1>2 DEF HandleReview, DeskTypeOK
  <2>2. shown[r].by \in Reviewers /\ shown[r].user \in Users
    BY <2>1 DEF Shown
  <2>3. Offered(shown[r]) \subseteq Verdicts
    BY DEF Offered
  <2> QED
    BY <1>2, <2>2, <2>3 DEF HandleReview, Receive
<1>3. CASE CallApi(r)
  BY <1>3 DEF CallApi, Receive
<1>4. CASE Serve(r)
  BY <1>4 DEF Serve
<1> QED
  BY <1>1, <1>2, <1>3, <1>4

LEMMA DeskRefines == DeskTypeOK /\ [DeskNext]_deskVars => [Next]_vars
<1> SUFFICES ASSUME DeskTypeOK, DeskNext PROVE [Next]_vars
  BY DEF deskVars
<1> QED
  BY DeskStep DEF DeskNext, Next

LEMMA DeskTypes == ReviewsInv /\ DeskTypeOK /\ [DeskNext]_deskVars => DeskTypeOK'
<1> SUFFICES ASSUME ReviewsInv, DeskTypeOK, [DeskNext]_deskVars PROVE DeskTypeOK'
  OBVIOUS
<1>1. CASE UNCHANGED deskVars
  BY <1>1 DEF deskVars, DeskTypeOK
<1>2. ASSUME NEW r \in Requests, NEW v \in Reviewers, NEW u \in Users, OpenReviewDialog(r, v, u)
      PROVE  DeskTypeOK'
  <2>1. identity[u] \in IdentityRow
    BY <1>2 DEF OpenReviewDialog, Listed, ReviewsInv, RowsInv, RowTypes
  <2>2. Row(v, u) \in Shown
    BY <2>1 DEF Row, Shown, IdentityRow
  <2> QED
    BY <1>2, <2>2 DEF OpenReviewDialog, DeskTypeOK
<1>3. ASSUME NEW r \in Requests, HandleReview(r) \/ CallApi(r) \/ Serve(r) PROVE DeskTypeOK'
  BY <1>3 DEF HandleReview, CallApi, Serve, DeskTypeOK
<1> QED
  BY <1>1, <1>2, <1>3 DEF DeskNext

-----------------------------------------------------------------------------
\* The inductive invariant of both.
DeskInv == ReviewsInv /\ DeskTypeOK

LEMMA InitDesk == DeskInit => DeskInv
  BY InitReviews DEF DeskInit, DeskInv, DeskTypeOK

LEMMA NextDesk == DeskInv /\ [DeskNext]_deskVars => DeskInv'
  BY DeskRefines, DeskTypes, NextReviews DEF DeskInv

LEMMA DeskAlways == DeskSpec => []DeskInv
  BY InitDesk, NextDesk, PTL DEF DeskSpec

\* Whatever is clicked, on lists of any age: the server of Identity sees only
\* requests it may see, and what is proved of it holds.
THEOREM DeskImplementsIdentity == DeskSpec => Spec
<1>1. DeskInit => Init
  BY DEF DeskInit
<1>2. DeskInv /\ [DeskNext]_deskVars => [Next]_vars
  BY DeskRefines DEF DeskInv
<1> QED
  BY <1>1, <1>2, DeskAlways, PTL DEF DeskSpec, Spec

\* Rows, lists and snapshots keep their types, and one request at a time no
\* two change requests of one user or for one NIK are open.
THEOREM ChangesAgreeAlways == DeskSpec => []ChangesAgree
<1>1. DeskInv => ChangesAgree
  BY DEF DeskInv, ReviewsInv, RowsInv, RowTypes, RequestTypes, TypeOK, ChangesAgree, Serial,
         OneOpenChange, OneRequestPerNik
<1> QED
  BY <1>1, DeskAlways, PTL

-----------------------------------------------------------------------------
(* What is approved is what was shown *)

\* A call reviews the row that the dialog of its reviewer shows.
DialogOf(r) ==
  /\ shown[r] # None =>
       Handler[r] = "review" /\ pc[r] \in {"idle", "reviewIdentity", "reviewUpdate"}
  /\ pc[r] \in {"reviewIdentity", "reviewUpdate"} =>
       shown[r] # None /\ snap[r].by = shown[r].by /\ snap[r].user = shown[r].user
  /\ pc[r] \in Deciding => Handler[r] = "reviewChange"

Modal == \A v \in Reviewers : \A p, q \in UnderWay(v) : p = q

InCharge(v, u) == {w \in Reviewers : u \in Reviews[w]} = {v}

\* What waits for its only reviewer is still what is shown to them.
AsShown(r) ==
  shown[r] # None /\ shown[r].status = "PENDING" /\ InCharge(shown[r].by, shown[r].user) =>
    /\ identity[shown[r].user] # None
    /\ identity[shown[r].user].status = "PENDING"
    /\ identity[shown[r].user].data = shown[r].data

DialogInv ==
  /\ DeskInv
  /\ \A r \in Requests : DialogOf(r)
  /\ Modal
  /\ limit = 1 => \A r \in Requests : AsShown(r)

LEMMA ShownRow ==
  ASSUME DeskTypeOK, NEW r \in Requests, shown[r] # None
  PROVE  shown[r].by \in Reviewers /\ shown[r].user \in Users
  BY DEF DeskTypeOK, Shown

\* A step of the server keeps what its handler has read, until it is done.
LEMMA StepKeeps ==
  ASSUME RequestTypes, NEW r \in Requests, Step(r)
  PROVE  /\ pc'[r] = "done" \/ snap'[r] = snap[r]
         /\ pc[r] \notin {"idle", "done"} /\ pc'[r] # "idle"
         /\ pc'[r] = "reviewUpdate" => pc[r] = "reviewIdentity"
         /\ pc'[r] \in Deciding => pc[r] \in Deciding
         /\ pc'[r] # "reviewIdentity"
<1>1. ASSUME NEW step \in Awaits, NEW passed, Check(r, step, passed)
      PROVE  /\ pc'[r] = "done" \/ (pc'[r] = step /\ snap'[r] = snap[r])
  BY <1>1 DEF Check, Finish, Goto, RequestTypes
<1>2. Finish(r) => pc'[r] = "done"
  BY DEF Finish, Goto, RequestTypes
<1> QED
  BY <1>1, <1>2 DEF Step, SubmitReadIdentity, SubmitUpsert, ChangeReadPending, ChangeReadNik,
     ChangeReadPendingNik, ChangeCreate, ReviewReadIdentity, ReviewUpdate, ApproveReadNik,
     ApproveCommit, RejectUpdate, Awaits, Deciding

\* Opening a dialog
LEMMA OpenKeeps ==
  ASSUME Fresh, DialogInv, DeskTypeOK', NEW r \in Requests, NEW v \in Reviewers, NEW u \in Users,
         OpenReviewDialog(r, v, u)
  PROVE  /\ \A q \in Requests : DialogOf(q)'
         /\ Modal'
         /\ (limit = 1 => \A q \in Requests : AsShown(q))'
<1>1. /\ shown' = [shown EXCEPT ![r] = Row(v, u)] /\ UNCHANGED vars
      /\ Handler[r] = "review" /\ pc[r] = "idle" /\ UnderWay(v) \subseteq {r} /\ identity[u] # None
      /\ DeskTypeOK /\ Row(v, u).by = v
  BY DEF OpenReviewDialog, DialogInv, DeskInv, Listed, Row
<1>2. ASSUME NEW q \in Requests PROVE shown'[q] = IF q = r THEN Row(v, u) ELSE shown[q]
  BY <1>1 DEF DeskTypeOK
<1>3. \A q \in Requests : DialogOf(q)'
  BY <1>1, <1>2 DEF DialogInv, DialogOf, vars, Deciding
<1>4. Modal'
  <2>1. InFlight' = InFlight /\ snap' = snap
    BY <1>1 DEF vars, InFlight
  <2>2. UnderWay(v)' \subseteq {r}
    BY <1>1, <1>2, <2>1 DEF UnderWay
  <2>3. ASSUME NEW w \in Reviewers, w # v PROVE UnderWay(w)' \subseteq UnderWay(w)
    BY <1>1, <1>2, <2>1, <2>3 DEF UnderWay
  <2> QED
    BY <2>2, <2>3 DEF Modal, DialogInv
<1>5. ASSUME limit = 1, NEW q \in Requests PROVE AsShown(q)'
  <2>1. CASE q = r
    BY <1>1, <1>2, <2>1 DEF AsShown, Row, vars
  <2>2. CASE q # r
    BY <1>1, <1>2, <1>5, <2>2 DEF AsShown, DialogInv, vars
  <2> QED
    BY <2>1, <2>2
<1> QED
  BY <1>1, <1>3, <1>4, <1>5 DEF vars

\* What the server does with r leaves the dialogs of the others alone.
LEMMA ServerStep ==
  ASSUME DeskInv, NEW r \in Requests, HandleReview(r) \/ CallApi(r) \/ Serve(r)
  PROVE  /\ Receive(r) \/ Step(r)
         /\ \A q \in Requests \ {r} :
              shown'[q] = shown[q] /\ pc'[q] = pc[q] /\ snap'[q] = snap[q]
         /\ shown'[r] = shown[r] \/ (shown'[r] = None /\ pc'[r] = "done")
         /\ limit' = limit
<1>1. Receive(r) \/ Step(r)
  <2>1. HandleReview(r) => Receive(r)
    <3> SUFFICES ASSUME HandleReview(r) PROVE Receive(r)
      OBVIOUS
    <3>1. shown[r].by \in Reviewers /\ shown[r].user \in Users
      BY ShownRow DEF HandleReview, DeskInv
    <3>2. Offered(shown[r]) \subseteq Verdicts
      BY DEF Offered
    <3> QED
      BY <3>1, <3>2 DEF HandleReview, Receive
  <2> QED
    BY <2>1 DEF CallApi, Serve, Receive
<1>2. RequestTypes /\ DeskTypeOK
  BY DEF DeskInv, ReviewsInv, RowsInv
<1>3. limit' = limit
  BY <1>1, <1>2, StepIsInFlight, ArrivesWithRoom
<1> QED
  BY <1>1, <1>2, <1>3, OthersWait DEF HandleReview, CallApi, Serve, DeskTypeOK

LEMMA DialogStays ==
  ASSUME DialogInv, NEW r \in Requests, HandleReview(r) \/ CallApi(r) \/ Serve(r)
  PROVE  \A q \in Requests : DialogOf(q)'
<1>0. RequestTypes /\ DeskTypeOK /\ DeskInv /\ DialogOf(r) /\ pc[r] \in Awaits
  BY DEF DialogInv, DeskInv, ReviewsInv, RowsInv, RequestTypes
<1>1. ASSUME NEW q \in Requests, q # r PROVE DialogOf(q)'
  BY <1>0, <1>1, ServerStep DEF DialogInv, DialogOf
<1>2. ASSUME HandleReview(r) PROVE DialogOf(r)'
  <2>1. shown' = shown /\ shown[r] # None /\ Handler[r] = "review"
    BY <1>2 DEF HandleReview, ReviewScope, Arrives
  <2>2. PICK verdict : ReviewScope(r, shown[r].by, shown[r].user, verdict)
    BY <1>2 DEF HandleReview
  <2>3. pc'[r] = "reviewIdentity" /\ snap'[r].by = shown[r].by /\ snap'[r].user = shown[r].user
    BY <1>0, <2>2 DEF ReviewScope, Goto, RequestTypes, Blank
  <2> QED
    BY <2>1, <2>3 DEF DialogOf, Deciding
<1>3. ASSUME CallApi(r) PROVE DialogOf(r)'
  <2>1. shown' = shown /\ Handler[r] # "review" /\ pc'[r] \notin {"reviewIdentity", "reviewUpdate"}
        /\ (pc'[r] \in Deciding => Handler[r] = "reviewChange")
    BY <1>0, <1>3 DEF CallApi, SubmitReadNik, ReviewChangeRead, Arrives, Goto, RequestTypes,
                      Deciding
  <2> QED
    BY <1>0, <2>1 DEF DialogOf
<1>4. ASSUME Serve(r) PROVE DialogOf(r)'
  <2>1. Step(r)
    BY <1>4 DEF Serve
  <2>2. shown'[r] = IF pc'[r] = "done" THEN None ELSE shown[r]
    BY <1>0, <1>4 DEF Serve, DeskTypeOK
  <2>3. pc'[r] = "done" => DialogOf(r)'
    BY <2>2 DEF DialogOf, Deciding
  <2>4. ASSUME pc'[r] # "done" PROVE DialogOf(r)'
    <3>1. /\ snap'[r] = snap[r] /\ shown'[r] = shown[r] /\ pc[r] # "idle" /\ pc'[r] # "idle"
          /\ pc'[r] = "reviewUpdate" => pc[r] = "reviewIdentity"
          /\ pc'[r] \in Deciding => pc[r] \in Deciding
          /\ pc'[r] # "reviewIdentity"
      BY <1>0, <2>1, <2>2, <2>4, StepKeeps
    <3>2. ASSUME pc[r] \in {"reviewIdentity", "reviewUpdate"} PROVE pc'[r] = "reviewUpdate"
      BY <1>0, <2>1, <2>4, <3>2
      DEF Step, SubmitReadIdentity, SubmitUpsert, ChangeReadPending, ChangeReadNik,
          ChangeReadPendingNik, ChangeCreate, ReviewReadIdentity, ReviewUpdate,
          ApproveReadNik, ApproveCommit, RejectUpdate, Check, Finish, Goto, RequestTypes
    <3> QED
      BY <1>0, <3>1, <3>2 DEF DialogOf
  <2> QED
    BY <2>3, <2>4
<1> QED
  BY <1>1, <1>2, <1>3, <1>4

LEMMA ModalStays ==
  ASSUME Fresh, DialogInv, NEW r \in Requests, HandleReview(r) \/ CallApi(r) \/ Serve(r)
  PROVE  Modal'
<1>0. RequestTypes /\ DeskTypeOK /\ DeskInv /\ DialogOf(r) /\ Modal
  BY DEF DialogInv, DeskInv, ReviewsInv, RowsInv
\* The others are in the same reviews, and r in one of the same reviewer, or
\* in the only one of a reviewer who had none.
<1>1. ASSUME NEW v \in Reviewers, NEW q \in Requests, q # r
      PROVE  q \in UnderWay(v)' => q \in UnderWay(v)
  BY <1>0, <1>1, ServerStep DEF UnderWay, InFlight
<1>2. ASSUME NEW v \in Reviewers, r \in UnderWay(v)', r \notin UnderWay(v)
      PROVE  UnderWay(v) = {}
  <2>1. Handler[r] = "reviewChange" /\ snap'[r].by = v /\ r \in InFlight'
    BY <1>0, <1>2, ServerStep DEF UnderWay
  <2>2. CASE HandleReview(r)
    BY <2>1, <2>2 DEF HandleReview, ReviewScope, Arrives
  <2>3. CASE CallApi(r)
    <3>1. PICK w \in Reviewers, c \in Requests, verdict \in Verdicts :
            UnderWay(w) = {} /\ ReviewChangeRead(r, w, c, verdict)
      BY <2>1, <2>3 DEF CallApi, SubmitReadNik, Arrives
    <3>2. snap'[r].by = w
      BY <1>0, <3>1 DEF ReviewChangeRead, Goto, RequestTypes, Blank
    <3> QED
      BY <2>1, <3>1, <3>2
  <2>4. CASE Serve(r)
    <3>1. Step(r) /\ pc'[r] # "done"
      BY <2>1, <2>4 DEF Serve, InFlight
    <3>2. snap'[r] = snap[r] /\ pc[r] \notin {"idle", "done"}
      BY <1>0, <3>1, StepKeeps
    <3> QED
      BY <1>2, <2>1, <3>2 DEF UnderWay, InFlight
  <2> QED
    BY <2>2, <2>3, <2>4
<1>3. ASSUME NEW v \in Reviewers PROVE UnderWay(v)' \subseteq Requests
  BY DEF UnderWay, InFlight
<1> SUFFICES ASSUME NEW v \in Reviewers, NEW p \in UnderWay(v)', NEW q \in UnderWay(v)'
             PROVE  p = q
  BY DEF Modal
<1> QED
  BY <1>0, <1>1, <1>2, <1>3 DEF Modal

\* Nobody but its reviewer decides on what is shown, and its user does not
\* submit while it waits.
LEMMA ShownStays ==
  ASSUME Fresh, DialogInv, limit = 1, NEW r \in Requests,
         HandleReview(r) \/ CallApi(r) \/ Serve(r), NEW q \in Requests
  PROVE  AsShown(q)'
<1>0. /\ RowsInv /\ RowTypes /\ RequestTypes /\ DeskTypeOK /\ DeskInv /\ DialogOf(q)
      /\ DialogOf(r) /\ Modal /\ AsShown(q) /\ StillSo(r) /\ Ready(pc[r], snap[r])
  BY DEF DialogInv, DeskInv, ReviewsInv, RowsInv, RequestTypes, Serial
<1> SUFFICES ASSUME shown'[q] # None, shown'[q].status = "PENDING",
                    InCharge(shown'[q].by, shown'[q].user)
             PROVE  /\ identity'[shown'[q].user] # None
                    /\ identity'[shown'[q].user].status = "PENDING"
                    /\ identity'[shown'[q].user].data = shown'[q].data
  BY DEF AsShown, InCharge
<1> DEFINE u == shown[q].user
           v == shown[q].by
<1>1. shown'[q] = shown[q] /\ u \in Users /\ v \in Reviewers
  <2>1. shown'[q] = shown[q]
    BY <1>0, ServerStep
  <2> QED
    BY <1>0, <2>1, ShownRow
<1>2. identity[u] # None /\ identity[u].status = "PENDING" /\ identity[u].data = shown[q].data
      /\ InCharge(v, u)
  BY <1>0, <1>1 DEF AsShown
<1>3. identity'[u] = identity[u]
  <2> SUFFICES ASSUME identity'[u] # identity[u] PROVE FALSE
    OBVIOUS
  <2>1. Receive(r) \/ Step(r)
    BY <1>0, ServerStep
  <2>2. u = snap[r].user /\ (SubmitUpsert(r) \/ ReviewUpdate(r) \/ ApproveCommit(r))
    BY <1>0, <1>1, <2>1, IdentityWrites
  <2>3. ~SubmitUpsert(r)
    BY <1>0, <1>2, <2>2 DEF SubmitUpsert, StillSo
  <2>4. snap[r].by = v
    BY <1>0, <1>2, <2>2, <2>3 DEF ReviewUpdate, ApproveCommit, Ready, Deciding, InCharge
  <2>5. q \in UnderWay(v)
    BY <1>1 DEF UnderWay
  <2>6. r \in UnderWay(v)
    <3>1. CASE ReviewUpdate(r)
      BY <1>0, <2>4, <3>1 DEF ReviewUpdate, DialogOf, UnderWay
    <3>2. CASE ApproveCommit(r)
      BY <1>0, <2>4, <3>2 DEF ApproveCommit, DialogOf, Deciding, UnderWay, InFlight
    <3> QED
      BY <2>2, <2>3, <3>1, <3>2
  <2>7. q = r
    BY <1>0, <1>1, <2>5, <2>6 DEF Modal
  <2>8. pc'[r] = "done"
    BY <1>0, <2>2, <2>3 DEF ReviewUpdate, ApproveCommit, Finish, Goto, RequestTypes
  <2>9. DialogOf(q)'
    BY DialogStays DEF DialogInv
  <2> QED
    BY <2>7, <2>8, <2>9 DEF DialogOf
<1> QED
  BY <1>1, <1>2, <1>3

LEMMA NextDialog == Fresh /\ DialogInv /\ [DeskNext]_deskVars => DialogInv'
<1> SUFFICES ASSUME Fresh, DialogInv, [DeskNext]_deskVars PROVE DialogInv'
  OBVIOUS
<1>0. DeskInv /\ DeskInv' /\ DeskTypeOK'
  BY NextDesk DEF DialogInv, DeskInv
<1>1. CASE UNCHANGED deskVars
  BY <1>0, <1>1
  DEF deskVars, vars, DialogInv, DialogOf, Modal, UnderWay, InFlight, AsShown
<1>2. ASSUME NEW r \in Requests, NEW v \in Reviewers, NEW u \in Users, OpenReviewDialog(r, v, u)
      PROVE  DialogInv'
  BY <1>0, <1>2, OpenKeeps DEF DialogInv
<1>3. ASSUME NEW r \in Requests, HandleReview(r) \/ CallApi(r) \/ Serve(r) PROVE DialogInv'
  <2>1. limit' = limit
    BY <1>0, <1>3, ServerStep
  <2> QED
    BY <1>0, <1>3, <2>1, DialogStays, ModalStays, ShownStays DEF DialogInv
<1> QED
  BY <1>1, <1>2, <1>3 DEF DeskNext

LEMMA InitDialog == DeskInit => DialogInv
<1> SUFFICES ASSUME DeskInit PROVE DialogInv
  OBVIOUS
<1>1. Init /\ shown = [r \in Requests |-> None] /\ pc = [r \in Requests |-> "idle"]
  BY DEF DeskInit, Init
<1>2. \A v \in Reviewers : UnderWay(v) = {}
  BY <1>1 DEF UnderWay, InFlight
<1> QED
  BY <1>1, <1>2, InitDesk DEF DialogInv, DialogOf, Modal, AsShown, Deciding

\* With lists loaded after every verdict and one request at a time: data that
\* were shown as waiting to the one reviewer in charge are what their verdict
\* approves, and nothing under review is replaced.
THEOREM ApprovedIsWhatWasShown ==
  ASSUME Fresh
  PROVE  DeskSpec => ApprovedAsShown
<1>1. DialogInv /\ [DeskNext]_deskVars => [ApprovesWhatWasShown /\ UnderReviewStays]_deskVars
  <2> SUFFICES ASSUME DialogInv, DeskNext, ~UNCHANGED deskVars
               PROVE  ApprovesWhatWasShown /\ UnderReviewStays
    OBVIOUS
  <2>0. DeskInv /\ RowsInv /\ RequestTypes /\ DeskTypeOK
    BY DEF DialogInv, DeskInv, ReviewsInv, RowsInv
  <2>1. UnderReviewStays
    <3>1. [Next]_vars /\ ReviewsInv
      BY <2>0, DeskRefines DEF DeskInv
    <3> QED
      BY <3>1, ReviewIsOfTheSubmission
  <2>2. ASSUME limit = 1, NEW r \in Requests, pc[r] = "reviewUpdate", pc'[r] = "done",
               shown[r].status = "PENDING",
               {v \in Reviewers : shown[r].user \in Reviews[v]} = {shown[r].by}
        PROVE  identity'[shown[r].user].data = shown[r].data
    <3>1. DialogOf(r) /\ AsShown(r)
      BY <2>2 DEF DialogInv
    <3>2. shown[r] # None /\ shown[r].user \in Users
      BY <2>0, <2>2, <3>1, ShownRow DEF DialogOf
    <3>3. identity[shown[r].user] # None /\ identity[shown[r].user].data = shown[r].data
      BY <2>2, <3>1, <3>2 DEF AsShown, InCharge
    <3>4. PICK q \in Requests : \/ \E v \in Reviewers, u \in Users : OpenReviewDialog(q, v, u)
                                \/ HandleReview(q) \/ CallApi(q) \/ Serve(q)
      BY DEF DeskNext
    <3>5. CASE \E v \in Reviewers, u \in Users : OpenReviewDialog(q, v, u)
      BY <2>2, <3>5 DEF OpenReviewDialog, vars
    <3>6. CASE HandleReview(q) \/ CallApi(q) \/ Serve(q)
      <4>1. q = r /\ (Receive(q) \/ Step(q))
        BY <2>0, <2>2, <3>6, ServerStep
      <4>2. ~SubmitUpsert(r) /\ ~ApproveCommit(r)
        BY <2>2 DEF SubmitUpsert, ApproveCommit
      <4> QED
        BY <2>0, <3>2, <3>3, <4>1, <4>2, IdentityWrites
    <3> QED
      BY <3>4, <3>5, <3>6
  <2> QED
    BY <2>1, <2>2 DEF ApprovesWhatWasShown
<1> QED
  BY <1>1, InitDialog, NextDialog, PTL DEF DeskSpec, ApprovedAsShown
==============================================================================
