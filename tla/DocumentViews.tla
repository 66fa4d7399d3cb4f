--------------------------- MODULE DocumentViews ---------------------------
(***************************************************************************)
(* What the users of the signing workflow are shown of its document: the   *)
(* handlers that read it and what the pages of the web client conclude     *)
(* from their answers.  Each is an operator on the state of Signing; the   *)
(* properties relate them to each other and to SigningWorkflow.            *)
(***************************************************************************)
EXTENDS Signing

AskedUsers == {u \in Users : signers[u] # None}

DeclinedUsers == {u \in AskedUsers : signers[u].status = "DECLINED"}

\* listMyDocuments, getDocumentDetail and the files: the owner and the signers.
HasAccess(u) == doc.exists /\ (u = Owner \/ u \in AskedUsers)

\* The row of listMyDocuments; a file without signatures is not a final one.
MyDocument(u) ==
  [accessType |-> IF u = Owner THEN "OWNER" ELSE "SIGNER",
   status |-> doc.status,
   finalFileName |-> IF signatures # {} THEN doc.final ELSE None,
   requiredSignerCount |-> Cardinality(AskedUsers)]

\* The rows of listAssignedDocuments, whatever the document has become.
Assignments(u) ==
  {[signerStatus |-> signers[v].status, document |-> doc.status] :
     v \in AskedUsers \cap {u}}

-----------------------------------------------------------------------------
(* listNotifications *)

\* Mutant: documents that are already partially signed are left out.
AwaitingStatusesMutant == {"PENDING_SIGNATURES"}

AwaitingStatuses == {"PENDING_SIGNATURES", "PARTIALLY_SIGNED"}

\* Who is told SIGN_REQUIRED: no other signer of a lower order is unsigned.
SignRequired ==
  {u \in PendingUsers :
     /\ doc.exists /\ doc.status \in AwaitingStatuses
     /\ \A v \in AskedUsers :
          v = u \/ signers[v].order >= signers[u].order \/ signers[v].status = "SIGNED"}

Notices == {"DOCUMENT_DECLINED", "DOCUMENT_REVOKED", "DOCUMENT_FINAL"}

ASSUME NoneIsNoNotice == None \notin Notices

\* What the owner is told: a refusal first, then a revocation, then the end.
OwnerNotice ==
  CASE ~doc.exists -> None
    [] doc.exists /\ DeclinedUsers # {} -> "DOCUMENT_DECLINED"
    [] doc.exists /\ DeclinedUsers = {} /\ doc.status = "REVOKED" -> "DOCUMENT_REVOKED"
    [] doc.exists /\ DeclinedUsers = {} /\ doc.status = "FULLY_SIGNED" -> "DOCUMENT_FINAL"
    [] OTHER -> None

-----------------------------------------------------------------------------
(* getEligibility, getSignerPlaceholders, getDocumentDetail *)

CanSignCertification(u) ==
  IF AskedUsers # {} THEN u \in AskedUsers ELSE u = Owner

\* The signers of the review page: the owner alone is answered.
Placeholders(u) == IF u = Owner THEN AskedUsers ELSE {}

\* What the page of the document counts: signatures, signers, SIGNED rows.
Progress ==
  [signatures |-> Cardinality(signatures), signers |-> Cardinality(AskedUsers),
   signed |-> Cardinality(SignedUsers)]

-----------------------------------------------------------------------------
(* getDocumentFileByVariant: where the file that is sent may be read. *)

\* Mutant: the signed variant falls back to the original file.
FileOfMutant(variant) ==
  CASE variant = "original" -> ResolveDocumentPath(None, Original)
    [] variant = "signed" ->
         IF signatures = {} THEN {} ELSE {"original"}
    [] variant = "latest" -> ResolveDocumentPath(doc.final, doc.hash)

FileOf(variant) ==
  CASE variant = "original" -> ResolveDocumentPath(None, Original)
    [] variant = "signed" ->
         IF doc.final = None \/ doc.hash = None \/ signatures = {} THEN {}
         ELSE IF disk[doc.final] # None THEN {doc.final}
         ELSE {f \in FileNames : disk[f] = doc.hash}
    [] variant = "latest" -> ResolveDocumentPath(doc.final, doc.hash)

-----------------------------------------------------------------------------
(* The pages of the web client *)

\* certification/assigned: a signer may act on a row, whosever turn it is.
\* The dashboard counts the same rows as the tasks of the user.
IsAssignmentActionable(u) ==
  \E a \in Assignments(u) :
    a.signerStatus = "PENDING" /\ a.document \notin {"REVOKED", "REJECTED"}

\* certification/review: whether the owner finds the button to sign.
CanShowSignAction(u) ==
  HasAccess(u) /\ doc.status # "FULLY_SIGNED" /\ u \in Placeholders(u)

\* getDocumentNextCertificationStep, with the number of signers.
NextCertificationStep(item) ==
  IF item.status = "DRAFT" \/ item.requiredSignerCount = 0 THEN "signers" ELSE "review"

\* Where the last button of a row of the table of documents leads.
ActionHref(u) ==
  IF MyDocument(u).accessType = "OWNER" THEN NextCertificationStep(MyDocument(u))
  ELSE "assigned"

\* Every page on which a user whose turn it is must find the document.
CanAct(u) ==
  /\ HasAccess(u)
  /\ CanSignCertification(u)
  /\ IsAssignmentActionable(u)
  /\ u = Owner => CanShowSignAction(u) /\ ActionHref(u) = "review"
  /\ u # Owner => ActionHref(u) = "assigned"

-----------------------------------------------------------------------------
(* What holds one request at a time, whatever fails between two writes.    *)

(* The bell rings for exactly those whose turn it is in SigningWorkflow,   *)
(* while the document waits it rings for somebody, and whoever follows it  *)
(* finds the document on the pages it leads to, with a button to sign:     *)
(* listNotifications, getEligibility and the client each decide this with  *)
(* a rule of their own ("menunggu tanda tangan Anda").                     *)
TurnIsShown ==
  /\ SignRequired = {u \in Users : Workflow!Open /\ Workflow!MyTurn(u)}
  /\ doc.exists /\ doc.status \in {"PENDING_SIGNATURES", "PARTIALLY_SIGNED"}
       /\ AskedUsers # {} => Cardinality(SignRequired) = 1
  /\ \A u \in SignRequired : CanAct(u)

(* What the owner is told is what happened: "selesai ditandatangani" only  *)
(* of a document that every signer signed and whose signed file can be     *)
(* fetched; "ditolak" of one that nobody is asked to sign any more, and    *)
(* always if a signer refused; and the page of the document counts as many *)
(* signatures as signers that signed.                                      *)
NoticeIsTrue ==
  /\ OwnerNotice = "DOCUMENT_FINAL" =>
       /\ Progress.signed = Progress.signers
       /\ MyDocument(Owner).finalFileName \in FileOf("signed")
  /\ OwnerNotice = "DOCUMENT_DECLINED" => doc.status = "REVOKED" /\ SignRequired = {}
  /\ DeclinedUsers # {} => OwnerNotice = "DOCUMENT_DECLINED"
  /\ doc.exists => Progress.signatures = Progress.signed

(* Lists, notices and pages tell the truth about the document.             *)
ViewsAgree == TurnIsShown /\ NoticeIsTrue

(* A document with a signature can be read by each of its signers, and the *)
(* file sent as its signed version, found by its name or else by its hash, *)
(* carries every recorded signature, also after handlers that failed       *)
(* between writing the file and the row.                                   *)
ServedFileHasAllSignatures ==
  \A s \in signatures :
    /\ HasAccess(s.signer)
    /\ FileOf("signed") # {}
    /\ \A f \in FileOf("signed") \cup FileOf("latest") : s.id \in disk[f].sigs
=============================================================================
