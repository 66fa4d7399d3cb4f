---------------------------- MODULE Publication ----------------------------
(***************************************************************************)
(* What is published of one document from its last signature on: the       *)
(* background task that stores the final file on IPFS and its hash on the  *)
(* ledger, the revocation by an administrator, the revocations asked for   *)
(* and reviewed, and what the public pages conclude from the database and  *)
(* from the ledger.                                                        *)
(*                                                                         *)
(* As in Signing one action is one await, and the identifier of a request  *)
(* names what it creates: the final file (and its hash and CID) of a last  *)
(* signature, a revoke request, a transaction.  The ledger is the module   *)
(* DocumentHashRegistry; a transaction is first sent, when the node checks *)
(* that it would succeed, and takes effect when it is mined, even if the   *)
(* server is gone by then.                                                 *)
(***************************************************************************)
EXTENDS Naturals, FiniteSets

CONSTANTS
  Users,        \* the owner and the signers of the document
  Requests,     \* the requests that may be received, each once
  Handler,      \* the handler each request calls
  MaxInFlight,  \* how many requests the server handles at a time
  Faults,       \* whether a call may fail, or the server crash, at any await
  Configured,   \* whether the settings of the ledger are complete
  Required,     \* BLOCKCHAIN_RECORD_REQUIRED
  None          \* SQL NULL, or the empty CID

ASSUME PublicationAssumption ==
  /\ None \notin Users \cup Requests \cup {"earlier"}
  /\ "earlier" \notin Requests
  /\ Handler \in [Requests -> {"sign", "revoke", "ask", "review"}]
  /\ MaxInFlight \in Nat
  /\ Faults \in BOOLEAN /\ Configured \in BOOLEAN /\ Required \in BOOLEAN

VARIABLES
  doc,            \* the Document row
  asked,          \* the DocumentRevokeRequest rows
  pc,             \* the await each request, or its background task, is at
  snap,           \* what each has read so far
  txs,            \* the transaction each has sent
  issuers, recordsByHash, now   \* the ledger

ledger == <<issuers, recordsByHash, now>>

vars == <<doc, asked, pc, snap, txs, issuers, recordsByHash, now>>

\* The file before the last signature has a hash too; it is never registered.
Earlier == "earlier"

FileHashes == Requests \cup {Earlier}

\* One account, of the server, and one block time: see DocumentHashRegistry
\* for the others.
Ledger == INSTANCE DocumentHashRegistry WITH
  Accounts <- {"server"}, Deployer <- "server", Hashes <- FileHashes \cup {None},
  ZeroHash <- None, Cids <- Requests \cup {None}, Reasons <- {"reason"},
  Unset <- "unset", MaxTime <- 1

Tx == [kind : {"register", "revoke"}, hash : FileHashes, cid : Requests \cup {None},
       state : {"sent", "mined", "reverted"}]

Ask == [by : Users, status : {"PENDING", "APPROVED", "REJECTED"}]

ASSUME NoneIsNoRow == None \notin Tx \cup Ask

\* The hash to publish or revoke, the CID of the upload, whether there is a
\* transaction hash, who asks, and the row under review.
Snapshot ==
  [hash : FileHashes \cup {None}, cid : Requests \cup {None}, recorded : BOOLEAN,
   user : Users \cup {None}, review : Requests \cup {None}]

Blank == [hash |-> None, cid |-> None, recorded |-> FALSE, user |-> None, review |-> None]

-----------------------------------------------------------------------------
\* Of several signers all but the last have signed.
Init ==
  /\ doc = [status |-> "PARTIALLY_SIGNED", hash |-> Earlier, ipfs |-> None, tx |-> None]
  /\ asked = [r \in Requests |-> None]
  /\ pc = [r \in Requests |-> "idle"]
  /\ snap = [r \in Requests |-> Blank]
  /\ txs = [r \in Requests |-> None]
  /\ Ledger!Constructor

Goto(r, step, s) ==
  /\ pc' = [pc EXCEPT ![r] = step]
  /\ snap' = [snap EXCEPT ![r] = s]

Finish(r) == Goto(r, "done", Blank)

\* The background task is no longer a request.
Background == {"proofIpfs", "proofSend", "proofReceipt", "proofUpdate"}

Running == {r \in Requests : pc[r] \notin {"idle", "done"}}

InFlight == {r \in Running : pc[r] \notin Background}

Arrives(r, handler) ==
  /\ Handler[r] = handler
  /\ pc[r] = "idle"
  /\ Cardinality(InFlight) < MaxInFlight

-----------------------------------------------------------------------------
(* The ledger as BlockchainService calls it. *)

Acceptable(t) ==
  /\ "server" \in issuers
  /\ IF t.kind = "register" THEN Ledger!NeverRecorded(t.hash) ELSE Ledger!Revocable(t.hash)

\* Sending estimates the gas first, and is refused if the call would revert.
Send(r, t, sent, refused) ==
  IF Configured /\ Acceptable(t)
  THEN /\ txs' = [txs EXCEPT ![r] = t]
       /\ sent
  ELSE UNCHANGED txs /\ refused

Mine(r) ==
  /\ txs[r] # None /\ txs[r].state = "sent"
  /\ IF Acceptable(txs[r])
     THEN /\ txs' = [txs EXCEPT ![r].state = "mined"]
          /\ IF txs[r].kind = "register"
             THEN Ledger!RegisterDocument("server", txs[r].hash, txs[r].cid)
             ELSE Ledger!RevokeDocument("server", txs[r].hash, "reason")
     ELSE /\ txs' = [txs EXCEPT ![r].state = "reverted"]
          /\ UNCHANGED ledger
  /\ UNCHANGED <<doc, asked, pc, snap>>

-----------------------------------------------------------------------------
(* The last signature: signDocument as far as it concerns publication. *)

SignRead(r) ==
  /\ Arrives(r, "sign")
  /\ doc.status = "PARTIALLY_SIGNED"
  /\ Goto(r, "signCommit", Blank)
  /\ UNCHANGED <<doc, asked, txs, issuers, recordsByHash, now>>

\* The unique order may abort a signature that another one overtook.
SignCommit(r) ==
  /\ pc[r] = "signCommit"
  /\ \/ /\ doc' = [status |-> "FULLY_SIGNED", hash |-> r, ipfs |-> None, tx |-> None]
        /\ Goto(r, "proofIpfs", [Blank EXCEPT !.hash = r])
     \/ doc.hash # Earlier /\ Finish(r) /\ UNCHANGED doc
  /\ UNCHANGED <<asked, txs, issuers, recordsByHash, now>>

(* recordFinalDocumentProof, in the background; each call is caught. *)

ProofIpfs(r) ==
  /\ pc[r] = "proofIpfs"
  /\ \E cid \in IF Faults THEN {r, None} ELSE {r} :
       Goto(r, "proofSend", [snap[r] EXCEPT !.cid = cid])
  /\ UNCHANGED <<doc, asked, txs, issuers, recordsByHash, now>>

Registration(r) ==
  [kind |-> "register", hash |-> snap[r].hash, cid |-> snap[r].cid, state |-> "sent"]

ProofSend(r) ==
  /\ pc[r] = "proofSend"
  /\ Send(r, Registration(r), Goto(r, "proofReceipt", snap[r]), Goto(r, "proofUpdate", snap[r]))
  /\ UNCHANGED <<doc, asked, issuers, recordsByHash, now>>

ProofReceipt(r) ==
  /\ pc[r] = "proofReceipt" /\ txs[r].state # "sent"
  /\ Goto(r, "proofUpdate", [snap[r] EXCEPT !.recorded = txs[r].state = "mined"])
  /\ UNCHANGED <<doc, asked, txs, issuers, recordsByHash, now>>

\* The node refuses, or answers no more: there is no transaction hash.
ProofFails(r) ==
  /\ Faults
  /\ pc[r] \in {"proofSend", "proofReceipt"}
  /\ Goto(r, "proofUpdate", snap[r])
  /\ UNCHANGED <<doc, asked, txs, issuers, recordsByHash, now>>

\* Mutant: the hash of a transaction is stored whether or not it succeeded.
ProvenDocumentMutant(r) == [doc EXCEPT !.ipfs = snap[r].cid, !.tx = r]

\* Mutant: only the CID is stored.
ProvenDocumentForgotten(r) == [doc EXCEPT !.ipfs = snap[r].cid]

\* The CID and the transaction hash, each NULL when the call failed.
ProvenDocument(r) ==
  [doc EXCEPT !.ipfs = snap[r].cid, !.tx = IF snap[r].recorded THEN r ELSE None]

ProofUpdate(r) ==
  /\ pc[r] = "proofUpdate"
  /\ doc' = ProvenDocument(r)
  /\ Finish(r)
  /\ UNCHANGED <<asked, txs, issuers, recordsByHash, now>>

-----------------------------------------------------------------------------
(* AdminService.revokeDocument, called directly or by a review. *)

RevocableDocument == doc.status # "REVOKED" /\ doc.hash # None

RevokeRead(r) ==
  /\ Arrives(r, "revoke")
  /\ RevocableDocument
  /\ Goto(r, "revokeSend", [Blank EXCEPT !.hash = doc.hash])
  /\ UNCHANGED <<doc, asked, txs, issuers, recordsByHash, now>>

\* The same first step when a review calls it.
ReviewRevoke(r) ==
  /\ pc[r] = "reviewRevoke"
  /\ IF RevocableDocument
     THEN Goto(r, "revokeSend", [snap[r] EXCEPT !.hash = doc.hash])
     ELSE Finish(r)
  /\ UNCHANGED <<doc, asked, txs, issuers, recordsByHash, now>>

\* Mutant: a failure is only logged, although the record is required.
LedgerFailedMutant(r) == Goto(r, "revokeUpdate", snap[r])

\* Mutant: a review whose revocation failed is approved all the same.
LedgerFailedApproved(r) ==
  IF snap[r].review = None THEN Finish(r) ELSE Goto(r, "reviewApprove", snap[r])

\* The call to the ledger failed: rethrown if the record is required.
LedgerFailed(r) == IF Required THEN Finish(r) ELSE Goto(r, "revokeUpdate", snap[r])

Revocation(r) ==
  [kind |-> "revoke", hash |-> snap[r].hash, cid |-> None, state |-> "sent"]

RevokeSend(r) ==
  /\ pc[r] = "revokeSend"
  /\ Send(r, Revocation(r), Goto(r, "revokeReceipt", snap[r]), LedgerFailed(r))
  /\ UNCHANGED <<doc, asked, issuers, recordsByHash, now>>

RevokeReceipt(r) ==
  /\ pc[r] = "revokeReceipt" /\ txs[r].state # "sent"
  /\ IF txs[r].state = "mined" THEN Goto(r, "revokeUpdate", snap[r]) ELSE LedgerFailed(r)
  /\ UNCHANGED <<doc, asked, txs, issuers, recordsByHash, now>>

RevokeFails(r) ==
  /\ Faults
  /\ pc[r] \in {"revokeSend", "revokeReceipt"}
  /\ LedgerFailed(r)
  /\ UNCHANGED <<doc, asked, txs, issuers, recordsByHash, now>>

\* Mutant: a document whose proof is still under way stays as it is.
RevokedDocumentMutant == IF doc.tx = None THEN doc ELSE [doc EXCEPT !.status = "REVOKED"]

RevokedDocument == [doc EXCEPT !.status = "REVOKED"]

RevokeUpdate(r) ==
  /\ pc[r] = "revokeUpdate"
  /\ doc' = RevokedDocument
  /\ IF snap[r].review = None THEN Finish(r) ELSE Goto(r, "reviewApprove", snap[r])
  /\ UNCHANGED <<asked, txs, issuers, recordsByHash, now>>

-----------------------------------------------------------------------------
(* requestDocumentRevoke *)

Askable == doc.status = "FULLY_SIGNED"

AskRead(r, u) ==
  /\ Arrives(r, "ask")
  /\ Askable
  /\ Goto(r, "askPending", [Blank EXCEPT !.user = u])
  /\ UNCHANGED <<doc, asked, txs, issuers, recordsByHash, now>>

PendingOf(u) == {r \in Requests : asked[r] # None /\ asked[r] = [by |-> u, status |-> "PENDING"]}

\* Mutant: it is left to the page.
MayAskMutant(u) == TRUE

MayAsk(u) == PendingOf(u) = {}

AskPending(r) ==
  /\ pc[r] = "askPending"
  /\ IF MayAsk(snap[r].user) THEN Goto(r, "askCreate", snap[r]) ELSE Finish(r)
  /\ UNCHANGED <<doc, asked, txs, issuers, recordsByHash, now>>

AskCreate(r) ==
  /\ pc[r] = "askCreate"
  /\ asked' = [asked EXCEPT ![r] = [by |-> snap[r].user, status |-> "PENDING"]]
  /\ Finish(r)
  /\ UNCHANGED <<doc, txs, issuers, recordsByHash, now>>

-----------------------------------------------------------------------------
(* reviewDocumentRevokeRequest *)

\* Mutant: whether it was reviewed before is left to the page.
ReviewableMutant(q) == asked[q] # None

Reviewable(q) == asked[q] # None /\ asked[q].status = "PENDING"

ReviewRead(r, q) ==
  /\ Arrives(r, "review")
  /\ Reviewable(q)
  /\ \/ Goto(r, "reviewReject", [Blank EXCEPT !.review = q])
     \/ /\ doc.status # "REVOKED"
        /\ Goto(r, "reviewRevoke", [Blank EXCEPT !.review = q])
  /\ UNCHANGED <<doc, asked, txs, issuers, recordsByHash, now>>

ReviewReject(r) ==
  /\ pc[r] = "reviewReject"
  /\ asked' = [asked EXCEPT ![snap[r].review].status = "REJECTED"]
  /\ Finish(r)
  /\ UNCHANGED <<doc, txs, issuers, recordsByHash, now>>

ReviewApprove(r) ==
  /\ pc[r] = "reviewApprove"
  /\ asked' = [asked EXCEPT ![snap[r].review].status = "APPROVED"]
  /\ Finish(r)
  /\ UNCHANGED <<doc, txs, issuers, recordsByHash, now>>

-----------------------------------------------------------------------------
\* An await rejects in a handler, or the server goes down with its tasks;
\* nothing resumes them, a transaction already sent is still mined.
Fail(r) ==
  /\ Faults
  /\ r \in Running
  /\ Finish(r)
  /\ UNCHANGED <<doc, asked, txs, issuers, recordsByHash, now>>

Receive(r) ==
  \/ SignRead(r)
  \/ RevokeRead(r)
  \/ \E u \in Users : AskRead(r, u)
  \/ \E q \in Requests : ReviewRead(r, q)

Step(r) ==
  \/ SignCommit(r)
  \/ ProofIpfs(r) \/ ProofSend(r) \/ ProofReceipt(r) \/ ProofUpdate(r)
  \/ ReviewRevoke(r)
  \/ RevokeSend(r) \/ RevokeReceipt(r) \/ RevokeUpdate(r)
  \/ AskPending(r) \/ AskCreate(r)
  \/ ReviewReject(r) \/ ReviewApprove(r)

Work == \E r \in Requests : Receive(r) \/ Step(r) \/ Mine(r)

Failure == \E r \in Requests : ProofFails(r) \/ RevokeFails(r) \/ Fail(r)

Next == Work \/ Failure

Spec == Init /\ [][Next]_vars

\* The event loop resumes every handler whose call was answered, and the
\* validators mine every transaction.  Nobody is obliged to send a request.
Fairness == \A r \in Requests : WF_vars(Step(r)) /\ WF_vars(Mine(r))

\* What happens as long as nothing fails.
FairSpec == Init /\ [][Work]_vars /\ Fairness

-----------------------------------------------------------------------------
Awaits ==
  {"idle", "signCommit", "revokeSend", "revokeReceipt", "revokeUpdate",
   "askPending", "askCreate", "reviewRevoke", "reviewReject", "reviewApprove",
   "done"} \cup Background

\* Every row, snapshot and transaction has its type, and so has the ledger.
TypeOK ==
  /\ doc \in [status : {"PARTIALLY_SIGNED", "FULLY_SIGNED", "REVOKED"}, hash : FileHashes,
              ipfs : Requests \cup {None}, tx : Requests \cup {None}]
  /\ asked \in [Requests -> Ask \cup {None}]
  /\ pc \in [Requests -> Awaits]
  /\ snap \in [Requests -> Snapshot]
  /\ txs \in [Requests -> Tx \cup {None}]
  /\ Ledger!RegTypeOK

-----------------------------------------------------------------------------
(* What the two public pages say.  verifyDocument judges by the status in  *)
(* the database; inspectDocument, of the final file with all its           *)
(* signatures intact, by the ledger alone.                                 *)

VerifiedValid == doc.status = "FULLY_SIGNED"

VerifiedRevoked == doc.status = "REVOKED"

Inspected(hash) ==
  IF ~recordsByHash[hash].exists THEN "NOT_RECORDED"
  ELSE IF recordsByHash[hash].revoked THEN "REVOKED" ELSE "VALID"

-----------------------------------------------------------------------------
(* The proof shown with the document is that of its final file: a          *)
(* transaction hash only if the ledger has the hash of that file, with the *)
(* CID the database names.  A crash, a failed upload or a failed call may  *)
(* leave no proof, never a wrong one (recordFinalDocumentProof).           *)
ProofMatchesLedger ==
  doc.tx # None =>
    /\ recordsByHash[doc.hash].exists
    /\ recordsByHash[doc.hash].ipfsCid = doc.ipfs

(* With the record required the database never runs ahead of the ledger: a *)
(* document shown as revoked is revoked for whoever inspects its file,     *)
(* although the registration may still be under way when the administrator *)
(* revokes and every step may fail.                                        *)
RevokedIsPublished == VerifiedRevoked => Inspected(doc.hash) = "REVOKED"

(* An approved revoke request is never found with a document that is not   *)
(* revoked, whatever reviews, direct revocations and crashes go on.        *)
ApprovedMeansRevoked ==
  \A q \in Requests :
    asked[q] # None /\ asked[q].status = "APPROVED" => VerifiedRevoked

Quiet == Running = {} /\ \A r \in Requests : txs[r] = None \/ txs[r].state # "sent"

(* Once nothing is under way, a document shown as valid ("Dokumen final    *)
(* tercatat pada sistem DOCChain dan statusnya masih aktif") is not        *)
(* revoked on the ledger.                                                  *)
VerifiedIsActive == Quiet /\ VerifiedValid => ~recordsByHash[doc.hash].revoked

(* Without failures every final document is published: its hash on the     *)
(* ledger, the transaction in the database (the background task ends).     *)
FinalIsPublished ==
  VerifiedValid ~> recordsByHash[doc.hash].exists /\ doc.tx = doc.hash

(* Without failures a revocation that reached the ledger reaches the       *)
(* database, and with a review its verdict.                                *)
RevocationCompletes ==
  \A r \in Requests :
    (txs[r] # None /\ txs[r].kind = "revoke" /\ txs[r].state = "mined")
      ~> VerifiedRevoked /\ pc[r] = "done"
=============================================================================
