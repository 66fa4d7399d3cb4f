---------------------------- MODULE IdentityDesk ----------------------------
(***************************************************************************)
(* The page /admin/identities in front of Identity: its reviewers decide   *)
(* on a row of the list their page loaded last, while the call that they   *)
(* send names the user and nothing of what was shown.                      *)
(*                                                                         *)
(* A call reaches the server at once: one that travels is one on an older  *)
(* list.  What a change request asks for never changes, so that the list   *)
(* of those is left out, and so are the filters and the dialogs that only  *)
(* show photographs.                                                       *)
(***************************************************************************)
EXTENDS Identity

CONSTANT Fresh  \* whether a reviewer decides on a list loaded since the last verdict

ASSUME DeskAssumption == Fresh \in BOOLEAN

VARIABLE shown  \* the row each review is decided on

deskVars == <<vars, shown>>

Shown == [by : Reviewers, user : Users, data : Uploads, status : VerificationStatus]

ASSUME NoneIsNotShown == None \notin Shown

DeskInit == Init /\ shown = [r \in Requests |-> None]

-----------------------------------------------------------------------------
\* Of each reviewer one review is under way at a time, from list to answer:
\* the dialogs are modal.
UnderWay(v) ==
  {r \in Requests : shown[r] # None /\ shown[r].by = v}
    \cup {r \in InFlight : Handler[r] = "reviewChange" /\ snap[r].by = v}

\* listIdentities
Listed(v) == {u \in Reviews[v] : identity[u] # None}

Row(v, u) == [by |-> v, user |-> u, data |-> identity[u].data, status |-> identity[u].status]

\* loadData, refreshData, openReviewDialog: a row of the list comes into view.
OpenReviewDialog(r, v, u) ==
  /\ Handler[r] = "review" /\ pc[r] = "idle"
  /\ Fresh => UnderWay(v) \subseteq {r}
  /\ u \in Listed(v)
  /\ shown' = [shown EXCEPT ![r] = Row(v, u)]
  /\ UNCHANGED vars

\* The buttons of a row: both verdicts of one that waits, the other verdict
\* of one that is decided ("Review Ulang").
Offered(row) == IF row.status = "PENDING" THEN Verdicts ELSE Verdicts \ {row.status}

HandleReview(r) ==
  /\ shown[r] # None
  /\ \E verdict \in Offered(shown[r]) : ReviewScope(r, shown[r].by, shown[r].user, verdict)
  /\ UNCHANGED shown

\* The handlers whose calls no list stands behind.
CallApi(r) ==
  /\ pc[r] = "idle"
  /\ \/ \E u \in Users, nik \in Niks, ktp \in {r, None} : SubmitReadNik(r, u, nik, ktp)
     \/ \E v \in Reviewers :
          /\ Fresh => UnderWay(v) = {}
          /\ \E c \in Requests, verdict \in Verdicts : ReviewChangeRead(r, v, c, verdict)
  /\ UNCHANGED shown

\* With the answer the dialog is closed.
Serve(r) ==
  /\ Step(r)
  /\ shown' = IF pc'[r] = "done" THEN [shown EXCEPT ![r] = None] ELSE shown

DeskNext ==
  \E r \in Requests :
    \/ \E v \in Reviewers, u \in Users : OpenReviewDialog(r, v, u)
    \/ HandleReview(r)
    \/ CallApi(r)
    \/ Serve(r)

DeskSpec == DeskInit /\ [][DeskNext]_deskVars

\* What was shown has the type of a row.
DeskTypeOK == shown \in [Requests -> Shown \cup {None}]

-----------------------------------------------------------------------------
(* One request at a time, with one reviewer in charge of the user and a    *)
(* list loaded after every verdict: an identity that was shown as waiting  *)
(* is approved with the data that were shown ("Pastikan data dan foto KTP  *)
(* sudah sesuai sebelum menyetujui identitas ini"), although the review    *)
(* names the user only.                                                    *)
ApprovesWhatWasShown ==
  limit = 1 => \A r \in Requests :
    pc[r] = "reviewUpdate" /\ pc'[r] = "done"
      /\ snap[r].verdict = "APPROVED" /\ shown[r].status = "PENDING"
      /\ {v \in Reviewers : shown[r].user \in Reviews[v]} = {shown[r].by} =>
        identity'[shown[r].user].data = shown[r].data

(* And what is under review is not replaced.                               *)
ApprovedAsShown == [][ApprovesWhatWasShown /\ UnderReviewStays]_deskVars

(* Every row and every list has its type, and the open change requests are *)
(* of different users and for different numbers.                           *)
ChangesAgree == TypeOK /\ DeskTypeOK /\ OneOpenChange /\ OneRequestPerNik
=============================================================================
