-------------------------- MODULE PublicationProofs --------------------------
(***************************************************************************)
(* Proofs about the publication of a document, for any number of users,    *)
(* requests, requests in flight and failures; then about the pages in      *)
(* front of it, which make only steps of Publication and keep what the     *)
(* server alone would not: one revoke request of a user waits at a time,   *)
(* and no verdict is overwritten while superadmins review one at a time.   *)
(***************************************************************************)
EXTENDS RevocationDesk, FiniteSetTheorems, TLAPS

\* What a handler has read before the await that uses it.
Ready(r) ==
  /\ pc[r] \in {"askPending", "askCreate"} => snap[r].user \in Users
  /\ pc[r] \in {"reviewRevoke", "reviewReject", "reviewApprove"} => snap[r].review # None
  /\ snap[r].review # None => asked[snap[r].review] \in Ask
  /\ pc[r] \in Background \cup {"revokeSend", "revokeReceipt", "revokeUpdate"} =>
       snap[r].hash # None
  /\ pc[r] \in {"proofReceipt", "revokeReceipt"} => txs[r] \in Tx

TypeInv == TypeOK /\ \A r \in Requests : Ready(r)

\* Its parts: the document, the revoke requests, and what goes on.
DocType ==
  doc \in [status : {"PARTIALLY_SIGNED", "FULLY_SIGNED", "REVOKED"}, hash : FileHashes,
          ipfs : Requests \cup {None}, tx : Requests \cup {None}]

AskedType == asked \in [Requests -> Ask \cup {None}]

RequestTypes ==
  /\ pc \in [Requests -> Awaits] /\ snap \in [Requests -> Snapshot]
  /\ txs \in [Requests -> Tx \cup {None}]
  /\ \A r \in Requests : Ready(r)

USE PublicationAssumption DEF Earlier

LEMMA Parts == TypeInv <=> DocType /\ AskedType /\ RequestTypes /\ Ledger!RegTypeOK
BY DEF TypeInv, TypeOK, DocType, AskedType, RequestTypes

LEMMA PartsNext ==
  TypeInv' <=> DocType' /\ AskedType' /\ RequestTypes' /\ (Ledger!RegTypeOK)'
BY DEF TypeInv, TypeOK, DocType, AskedType, RequestTypes

LEMMA BlankType ==
  /\ Blank \in Snapshot
  /\ Blank.hash = None /\ Blank.review = None /\ Blank.user = None
BY DEF Blank, Snapshot, FileHashes

(* The transactions of the ledger keep the types of its storage. *)
LEMMA LedgerTypes ==
  ASSUME Ledger!RegTypeOK, NEW h \in FileHashes, NEW cid \in Requests \cup {None},
         \/ Ledger!RegisterDocument("server", h, cid)
         \/ Ledger!RevokeDocument("server", h, "reason")
  PROVE  Ledger!RegTypeOK'
<1>1. CASE Ledger!RegisterDocument("server", h, cid)
  BY <1>1 DEF Ledger!RegTypeOK, Ledger!RegisterDocument, Ledger!EmptyRecord,
              Ledger!DocumentRecord, FileHashes
<1>2. CASE Ledger!RevokeDocument("server", h, "reason")
  <2>1. recordsByHash[h] \in Ledger!DocumentRecord
    BY DEF Ledger!RegTypeOK
  <2>2. [recordsByHash[h] EXCEPT !.revoked = TRUE, !.revokedAt = now,
                                 !.revokeReasonHash = "reason"] \in Ledger!DocumentRecord
    BY <2>1 DEF Ledger!RegTypeOK, Ledger!DocumentRecord
  <2> QED
    BY <1>2, <2>2 DEF Ledger!RegTypeOK, Ledger!RevokeDocument
<1> QED
  BY <1>1, <1>2

LEMMA InitTypes == Init => TypeInv
<1> SUFFICES ASSUME Init PROVE TypeInv
  OBVIOUS
<1>1. Ledger!RegTypeOK
  BY DEF Init, Ledger!Constructor, Ledger!RegTypeOK, Ledger!EmptyRecord,
         Ledger!DocumentRecord, FileHashes
<1> QED
  BY <1>1, BlankType DEF Init, TypeInv, TypeOK, Ready, FileHashes, Awaits, Background

\* Going on to an await with what it needs.
LEMMA GotoTypes ==
  ASSUME RequestTypes, NEW r \in Requests, NEW step \in Awaits, NEW s \in Snapshot,
         Goto(r, step, s), \A q \in Requests : asked[q] \in Ask => asked'[q] \in Ask,
         \/ UNCHANGED txs /\ (step \in {"proofReceipt", "revokeReceipt"} => txs[r] \in Tx)
         \/ \E t \in Tx : txs' = [txs EXCEPT ![r] = t],
         step \in {"askPending", "askCreate"} => s.user \in Users,
         step \in {"reviewRevoke", "reviewReject", "reviewApprove"} => s.review # None,
         s.review # None => asked[s.review] \in Ask,
         step \in Background \cup {"revokeSend", "revokeReceipt", "revokeUpdate"} =>
           s.hash # None
  PROVE  RequestTypes'
<1>1. /\ pc' \in [Requests -> Awaits] /\ snap' \in [Requests -> Snapshot]
      /\ txs' \in [Requests -> Tx \cup {None}]
  BY DEF Goto, RequestTypes
<1>2. pc'[r] = step /\ snap'[r] = s
  BY DEF Goto, RequestTypes
<1>3. ASSUME NEW q \in Requests, q # r
      PROVE  pc'[q] = pc[q] /\ snap'[q] = snap[q] /\ txs'[q] = txs[q]
  BY <1>3 DEF Goto, RequestTypes
<1>4. step \in {"proofReceipt", "revokeReceipt"} => txs'[r] \in Tx
  BY DEF RequestTypes
<1>5. Ready(r)'
  BY <1>2, <1>4 DEF Ready, Snapshot
<1>6. ASSUME NEW q \in Requests, q # r PROVE Ready(q)'
  <2>1. snap[q].review \in Requests \cup {None}
    BY DEF RequestTypes, Snapshot
  <2> QED
    BY <1>3, <1>6, <2>1 DEF Ready, RequestTypes
<1> QED
  BY <1>1, <1>5, <1>6 DEF RequestTypes

LEMMA FinishTypes ==
  ASSUME RequestTypes, NEW r \in Requests, Finish(r), UNCHANGED txs,
         \A q \in Requests : asked[q] \in Ask => asked'[q] \in Ask
  PROVE  RequestTypes'
BY BlankType, GotoTypes DEF Finish, Awaits, Background

\* Each handler reads what its next await needs.
LEMMA ReceiveTypes ==
  ASSUME DocType, AskedType, RequestTypes, NEW r \in Requests, Receive(r)
  PROVE  RequestTypes'
<1>0. UNCHANGED <<asked, txs>>
  BY DEF Receive, SignRead, RevokeRead, AskRead, ReviewRead
<1>1. CASE SignRead(r)
  BY <1>0, <1>1, BlankType, GotoTypes DEF SignRead, Awaits, Background
<1>2. CASE RevokeRead(r)
  <2>1. /\ [Blank EXCEPT !.hash = doc.hash] \in Snapshot
        /\ [Blank EXCEPT !.hash = doc.hash].hash # None
        /\ [Blank EXCEPT !.hash = doc.hash].review = None
    BY DEF DocType, Snapshot, Blank, FileHashes
  <2> QED
    BY <1>0, <1>2, <2>1, GotoTypes DEF RevokeRead, Awaits, Background
<1>3. ASSUME NEW u \in Users, AskRead(r, u) PROVE RequestTypes'
  <2>1. /\ [Blank EXCEPT !.user = u] \in Snapshot /\ [Blank EXCEPT !.user = u].user = u
        /\ [Blank EXCEPT !.user = u].review = None
    BY DEF Snapshot, Blank
  <2> QED
    BY <1>0, <1>3, <2>1, GotoTypes DEF AskRead, Awaits, Background
<1>4. ASSUME NEW q \in Requests, ReviewRead(r, q) PROVE RequestTypes'
  <2>1. /\ [Blank EXCEPT !.review = q] \in Snapshot /\ [Blank EXCEPT !.review = q].review = q
        /\ asked[q] \in Ask
    BY <1>4 DEF Snapshot, Blank, ReviewRead, Reviewable, AskedType
  <2> QED
    BY <1>0, <1>4, <2>1, GotoTypes DEF ReviewRead, Awaits, Background
<1> QED
  BY <1>1, <1>2, <1>3, <1>4 DEF Receive

\* Sending, and going on either way.
LEMMA SendTypes ==
  ASSUME DocType, RequestTypes, NEW r \in Requests, UNCHANGED asked,
         ProofSend(r) \/ RevokeSend(r)
  PROVE  RequestTypes'
<1>0. snap[r] \in Snapshot /\ Ready(r)
  BY DEF RequestTypes
<1>1. CASE ProofSend(r)
  <2>1. Registration(r) \in Tx
    BY <1>0, <1>1 DEF ProofSend, Ready, Background, Registration, Tx, Snapshot
  <2> QED
    BY <1>0, <1>1, <2>1, GotoTypes DEF ProofSend, Send, Ready, Awaits, Background
<1>2. CASE RevokeSend(r)
  <2>1. Revocation(r) \in Tx
    BY <1>0, <1>2 DEF RevokeSend, Ready, Revocation, Tx, Snapshot
  <2> QED
    BY <1>0, <1>2, <2>1, GotoTypes, FinishTypes
    DEF RevokeSend, Send, LedgerFailed, Ready, Awaits, Background
<1> QED
  BY <1>1, <1>2

LEMMA StepTypes ==
  ASSUME DocType, AskedType, RequestTypes, NEW r \in Requests,
         Step(r) \/ ProofFails(r) \/ RevokeFails(r) \/ Fail(r)
  PROVE  RequestTypes'
<1>0. snap[r] \in Snapshot /\ Ready(r) /\ pc[r] \in Awaits
  BY DEF RequestTypes
<1>1. CASE SignCommit(r)
  <2>1. /\ [Blank EXCEPT !.hash = r] \in Snapshot /\ [Blank EXCEPT !.hash = r].hash = r
        /\ [Blank EXCEPT !.hash = r].review = None
    BY DEF Snapshot, Blank, FileHashes
  <2> QED
    BY <1>1, <2>1, GotoTypes, FinishTypes DEF SignCommit, Awaits, Background
<1>2. CASE ProofIpfs(r)
  <2>1. ASSUME NEW cid \in {r, None}
        PROVE  /\ [snap[r] EXCEPT !.cid = cid] \in Snapshot
               /\ [snap[r] EXCEPT !.cid = cid].hash = snap[r].hash
               /\ [snap[r] EXCEPT !.cid = cid].review = snap[r].review
    BY <1>0, <2>1 DEF Snapshot
  <2> QED
    BY <1>0, <1>2, <2>1, GotoTypes DEF ProofIpfs, Ready, Awaits, Background
<1>3. CASE ProofSend(r) \/ RevokeSend(r)
  BY <1>3, SendTypes DEF ProofSend, RevokeSend
<1>4. CASE ProofReceipt(r)
  <2>1. ASSUME NEW b \in BOOLEAN
        PROVE  /\ [snap[r] EXCEPT !.recorded = b] \in Snapshot
               /\ [snap[r] EXCEPT !.recorded = b].hash = snap[r].hash
               /\ [snap[r] EXCEPT !.recorded = b].review = snap[r].review
    BY <1>0, <2>1 DEF Snapshot
  <2> QED
    BY <1>0, <1>4, <2>1, GotoTypes DEF ProofReceipt, Ready, Awaits, Background
<1>5. CASE ProofFails(r) \/ RevokeFails(r) \/ RevokeReceipt(r)
  BY <1>0, <1>5, GotoTypes, FinishTypes
  DEF ProofFails, RevokeFails, RevokeReceipt, LedgerFailed, Ready, Awaits, Background
<1>6. CASE ProofUpdate(r) \/ Fail(r)
  BY <1>6, FinishTypes DEF ProofUpdate, Fail
<1>7. CASE ReviewRevoke(r)
  <2>1. /\ [snap[r] EXCEPT !.hash = doc.hash] \in Snapshot
        /\ [snap[r] EXCEPT !.hash = doc.hash].hash # None
        /\ [snap[r] EXCEPT !.hash = doc.hash].review = snap[r].review
    BY <1>0 DEF Snapshot, DocType, FileHashes
  <2> QED
    BY <1>0, <1>7, <2>1, GotoTypes, FinishTypes DEF ReviewRevoke, Ready, Awaits, Background
<1>8. CASE RevokeUpdate(r)
  BY <1>0, <1>8, GotoTypes, FinishTypes DEF RevokeUpdate, Ready, Awaits, Background
<1>9. CASE AskPending(r)
  BY <1>0, <1>9, GotoTypes, FinishTypes DEF AskPending, Ready, Awaits, Background
<1>10. CASE AskCreate(r)
  <2>1. [by |-> snap[r].user, status |-> "PENDING"] \in Ask
    BY <1>0, <1>10 DEF AskCreate, Ready, Ask
  <2> QED
    BY <1>10, <2>1, FinishTypes DEF AskCreate, AskedType
<1>11. CASE ReviewReject(r) \/ ReviewApprove(r)
  <2>1. snap[r].review \in Requests /\ asked[snap[r].review] \in Ask
    BY <1>0, <1>11 DEF ReviewReject, ReviewApprove, Ready, Snapshot
  <2>2. \A v \in {"APPROVED", "REJECTED"} :
          [asked[snap[r].review] EXCEPT !.status = v] \in Ask
    BY <2>1 DEF Ask
  <2>3. \A q \in Requests : asked[q] \in Ask => asked'[q] \in Ask
    BY <1>11, <2>1, <2>2 DEF ReviewReject, ReviewApprove, AskedType
  <2> QED
    BY <1>11, <2>3, FinishTypes DEF ReviewReject, ReviewApprove
<1> QED
  BY <1>1, <1>2, <1>3, <1>4, <1>5, <1>6, <1>7, <1>8, <1>9, <1>10, <1>11 DEF Step

\* The document and the revoke requests.
LEMMA RowTypes ==
  ASSUME DocType, AskedType, RequestTypes, NEW r \in Requests,
         Receive(r) \/ Step(r) \/ ProofFails(r) \/ RevokeFails(r) \/ Fail(r)
  PROVE  DocType' /\ AskedType'
<1>0. snap[r] \in Snapshot /\ Ready(r)
  BY DEF RequestTypes
<1>1. CASE SignCommit(r)
  BY <1>1 DEF SignCommit, DocType, AskedType, FileHashes
<1>2. CASE ProofUpdate(r)
  BY <1>0, <1>2 DEF ProofUpdate, ProvenDocument, DocType, AskedType, Snapshot
<1>3. CASE RevokeUpdate(r)
  BY <1>3 DEF RevokeUpdate, RevokedDocument, DocType, AskedType
<1>4. CASE AskCreate(r)
  BY <1>0, <1>4 DEF AskCreate, Ready, Ask, DocType, AskedType
<1>5. CASE ReviewReject(r) \/ ReviewApprove(r)
  <2>1. asked[snap[r].review] \in Ask
    BY <1>0, <1>5 DEF ReviewReject, ReviewApprove, Ready
  <2>2. \A v \in {"APPROVED", "REJECTED"} :
          [asked[snap[r].review] EXCEPT !.status = v] \in Ask
    BY <2>1 DEF Ask
  <2> QED
    BY <1>5, <2>2 DEF ReviewReject, ReviewApprove, DocType, AskedType
<1>6. CASE UNCHANGED <<doc, asked>>
  BY <1>6 DEF DocType, AskedType
<1>7. CASE Receive(r) \/ ProofFails(r) \/ RevokeFails(r) \/ Fail(r)
  BY <1>6, <1>7
  DEF Receive, SignRead, RevokeRead, AskRead, ReviewRead, ProofFails, RevokeFails, Fail
<1> QED
  BY <1>1, <1>2, <1>3, <1>4, <1>5, <1>6, <1>7
  DEF Step, ProofIpfs, ProofSend, ProofReceipt, ReviewRevoke, RevokeSend, RevokeReceipt,
      AskPending

LEMMA MineTypes ==
  ASSUME TypeInv, NEW r \in Requests, Mine(r)
  PROVE  TypeInv'
<1>0. DocType /\ AskedType /\ RequestTypes /\ Ledger!RegTypeOK
  BY Parts
<1>1. txs[r] \in Tx
  BY <1>0 DEF Mine, RequestTypes
<1>2. \A v \in {"mined", "reverted"} : [txs[r] EXCEPT !.state = v] \in Tx
  BY <1>1 DEF Tx
<1>3. txs' \in [Requests -> Tx \cup {None}] /\ \A q \in Requests : txs[q] \in Tx => txs'[q] \in Tx
  BY <1>0, <1>2 DEF Mine, RequestTypes
<1>4. RequestTypes'
  BY <1>0, <1>3 DEF Mine, RequestTypes, Ready
<1>5. Ledger!RegTypeOK'
  <2>1. txs[r].hash \in FileHashes /\ txs[r].cid \in Requests \cup {None}
    BY <1>1 DEF Tx
  <2>2. CASE UNCHANGED ledger
    BY <1>0, <2>2 DEF ledger, Ledger!RegTypeOK
  <2> QED
    BY <1>0, <2>1, <2>2, LedgerTypes DEF Mine
<1> QED
  BY <1>0, <1>4, <1>5, PartsNext DEF Mine, DocType, AskedType

LEMMA TypesInductive ==
  ASSUME TypeInv, [Next]_vars
  PROVE  TypeInv'
<1>1. CASE UNCHANGED vars
  BY <1>1 DEF vars, TypeInv, TypeOK, Ready, Ledger!RegTypeOK
<1>2. ASSUME NEW r \in Requests,
             Receive(r) \/ Step(r) \/ ProofFails(r) \/ RevokeFails(r) \/ Fail(r)
      PROVE  TypeInv'
  <2>1. UNCHANGED <<issuers, recordsByHash, now>>
    BY <1>2
    DEF Receive, SignRead, RevokeRead, AskRead, ReviewRead, ProofFails, RevokeFails, Fail,
        Step, SignCommit, ProofIpfs, ProofSend, ProofReceipt, ProofUpdate, ReviewRevoke,
        RevokeSend, RevokeReceipt, RevokeUpdate, AskPending, AskCreate, ReviewReject,
        ReviewApprove
  <2>2. (Ledger!RegTypeOK)'
    BY <2>1, Parts DEF Ledger!RegTypeOK
  <2> QED
    BY <1>2, <2>2, Parts, PartsNext, ReceiveTypes, StepTypes, RowTypes
<1> QED
  BY <1>1, <1>2, MineTypes DEF Next, Work, Failure

\* The rows, the snapshots, the transactions and the ledger keep their types
\* whatever requests, failures and crashes interleave.
THEOREM PublicationTypes == Spec => []TypeOK
<1>1. TypeInv => TypeOK
  BY DEF TypeInv
<1> QED
  BY <1>1, InitTypes, TypesInductive, PTL DEF Spec

-----------------------------------------------------------------------------
(* The inductive invariant behind the two safety theorems.  They hold when *)
(* the document has one last signature (of two, each computed without the  *)
(* other, the first publishes a file the second replaces), and, for the    *)
(* revocation, when the record is required.                                *)

OneSigning == \A r, s \in Requests : Handler[r] = "sign" /\ Handler[s] = "sign" => r = s

\* Only the signing request publishes, its own file, which is the final one;
\* until it commits the final file is the earlier one.
SigningInv ==
  \A r \in Requests :
    /\ pc[r] \in Background \cup {"signCommit"} => Handler[r] = "sign"
    /\ pc[r] \in Background => snap[r].hash = r /\ doc.hash = r
    /\ Handler[r] = "sign" /\ pc[r] \in {"idle", "signCommit"} => doc.hash = Earlier

\* What a transaction that was mined left on the ledger, where the earlier
\* file never is.
LedgerInv ==
  /\ ~recordsByHash[Earlier].exists
  /\ \A r \in Requests : txs[r] # None =>
       /\ txs[r].kind = "register" => txs[r].hash # Earlier
       /\ txs[r].state = "mined" => recordsByHash[txs[r].hash].exists
       /\ txs[r].state = "mined" /\ txs[r].kind = "register" =>
            recordsByHash[txs[r].hash].ipfsCid = txs[r].cid
       /\ txs[r].state = "mined" /\ txs[r].kind = "revoke" =>
            recordsByHash[txs[r].hash].revoked

\* The receipt a task waits for is that of its own registration.
ProofInv ==
  \A r \in Requests :
    /\ pc[r] = "proofReceipt" =>
         txs[r].kind = "register" /\ txs[r].hash = r /\ txs[r].cid = snap[r].cid
    /\ pc[r] \in {"proofIpfs", "proofSend", "proofReceipt"} => ~snap[r].recorded
    /\ pc[r] = "proofUpdate" /\ snap[r].recorded =>
         recordsByHash[r].exists /\ recordsByHash[r].ipfsCid = snap[r].cid

\* A revocation that got to the database was made on the ledger, of the hash
\* the document still has.
RevocationInv ==
  \A r \in Requests :
    /\ pc[r] = "revokeReceipt" => txs[r].kind = "revoke" /\ txs[r].hash = snap[r].hash
    /\ pc[r] \in {"revokeSend", "revokeReceipt", "revokeUpdate"} /\ snap[r].hash # Earlier =>
         snap[r].hash = doc.hash
    /\ Required /\ pc[r] = "revokeUpdate" =>
         recordsByHash[snap[r].hash].exists /\ recordsByHash[snap[r].hash].revoked

PublishedInv == ProofMatchesLedger /\ (Required => RevokedIsPublished)

SafetyInv == SigningInv /\ LedgerInv /\ ProofInv /\ RevocationInv /\ PublishedInv

LEMMA InitSafety == Init => SafetyInv
<1> SUFFICES ASSUME Init PROVE SafetyInv
  OBVIOUS
<1>1. recordsByHash = [h \in FileHashes \cup {None} |-> Ledger!EmptyRecord]
  BY DEF Init, Ledger!Constructor
<1>2. ~recordsByHash[Earlier].exists
  BY <1>1 DEF FileHashes, Ledger!EmptyRecord
<1> QED
  BY <1>2 DEF Init, SafetyInv, SigningInv, LedgerInv, ProofInv, RevocationInv, PublishedInv,
              ProofMatchesLedger, RevokedIsPublished, VerifiedRevoked, Background

Handle(r) == Receive(r) \/ Step(r) \/ ProofFails(r) \/ RevokeFails(r) \/ Fail(r)

\* What a step of one handler leaves alone.
LEMMA Isolated ==
  ASSUME RequestTypes, NEW r \in Requests, Handle(r)
  PROVE  /\ UNCHANGED recordsByHash
         /\ \A q \in Requests \ {r} :
              pc'[q] = pc[q] /\ snap'[q] = snap[q] /\ txs'[q] = txs[q]
<1>1. CASE Receive(r)
  BY <1>1 DEF Receive, SignRead, RevokeRead, AskRead, ReviewRead, Goto, RequestTypes
<1>2. CASE ProofSend(r) \/ RevokeSend(r)
  BY <1>2 DEF ProofSend, RevokeSend, Send, LedgerFailed, Finish, Goto, RequestTypes
<1>3. CASE ProofFails(r) \/ RevokeFails(r) \/ Fail(r) \/ RevokeReceipt(r) \/ RevokeUpdate(r)
  BY <1>3 DEF ProofFails, RevokeFails, Fail, RevokeReceipt, RevokeUpdate, LedgerFailed,
              Finish, Goto, RequestTypes
<1>4. CASE SignCommit(r) \/ ProofIpfs(r) \/ ProofReceipt(r) \/ ProofUpdate(r)
  BY <1>4 DEF SignCommit, ProofIpfs, ProofReceipt, ProofUpdate, Finish, Goto, RequestTypes
<1>5. CASE ReviewRevoke(r) \/ AskPending(r) \/ AskCreate(r) \/ ReviewReject(r)
           \/ ReviewApprove(r)
  BY <1>5 DEF ReviewRevoke, AskPending, AskCreate, ReviewReject, ReviewApprove, Finish, Goto,
              RequestTypes
<1> QED
  BY <1>1, <1>2, <1>3, <1>4, <1>5 DEF Handle, Step

\* The file of the document changes with its last signature only.
LEMMA HashKept ==
  ASSUME DocType, NEW r \in Requests, Handle(r), ~SignCommit(r)
  PROVE  doc'.hash = doc.hash
<1>1. CASE ProofUpdate(r)
  BY <1>1 DEF ProofUpdate, ProvenDocument, DocType
<1>2. CASE RevokeUpdate(r)
  BY <1>2 DEF RevokeUpdate, RevokedDocument, DocType
<1> QED
  BY <1>1, <1>2 DEF Handle, Receive, SignRead, RevokeRead, AskRead, ReviewRead, ProofFails,
    RevokeFails, Fail, Step, ProofIpfs, ProofSend, ProofReceipt, ReviewRevoke, RevokeSend,
    RevokeReceipt, AskPending, AskCreate, ReviewReject, ReviewApprove

\* The ledger is append-only, and the transaction mined is on it.
LEMMA LedgerGrown ==
  ASSUME TypeInv, NEW r \in Requests, Mine(r)
  PROVE  /\ \A h \in FileHashes : recordsByHash[h].exists =>
              /\ recordsByHash'[h].exists
              /\ recordsByHash'[h].ipfsCid = recordsByHash[h].ipfsCid
              /\ recordsByHash[h].revoked => recordsByHash'[h].revoked
         /\ \A h \in FileHashes : recordsByHash'[h].exists =>
              recordsByHash[h].exists \/ (txs[r].kind = "register" /\ txs[r].hash = h)
         /\ txs'[r].state = "mined" =>
              /\ recordsByHash'[txs[r].hash].exists
              /\ txs[r].kind = "register" =>
                   recordsByHash'[txs[r].hash].ipfsCid = txs[r].cid
              /\ txs[r].kind = "revoke" => recordsByHash'[txs[r].hash].revoked
<1>0. txs[r] \in Tx /\ txs \in [Requests -> Tx \cup {None}]
  BY DEF TypeInv, TypeOK, Mine
<1>1. recordsByHash \in [FileHashes \cup {None} -> Ledger!DocumentRecord]
  BY DEF TypeInv, TypeOK, Ledger!RegTypeOK
<1>2. txs[r].hash \in FileHashes /\ recordsByHash[txs[r].hash] \in Ledger!DocumentRecord
  BY <1>0, <1>1 DEF Tx
<1>3. CASE ~Acceptable(txs[r])
  <2>1. txs'[r].state = "reverted" /\ UNCHANGED recordsByHash
    BY <1>0, <1>3 DEF Mine, ledger, Tx
  <2> QED
    BY <2>1
<1>4. CASE Acceptable(txs[r]) /\ txs[r].kind = "register"
  <2>1. recordsByHash' = [recordsByHash EXCEPT ![txs[r].hash] =
          [Ledger!EmptyRecord EXCEPT !.ipfsCid = txs[r].cid, !.issuer = "server",
                                     !.issuedAt = now, !.exists = TRUE]]
    BY <1>4 DEF Mine, Ledger!RegisterDocument
  <2>2. /\ recordsByHash'[txs[r].hash].exists
        /\ recordsByHash'[txs[r].hash].ipfsCid = txs[r].cid
        /\ \A h \in FileHashes \ {txs[r].hash} : recordsByHash'[h] = recordsByHash[h]
    BY <1>1, <1>2, <2>1 DEF Ledger!EmptyRecord
  <2>3. ~recordsByHash[txs[r].hash].exists
    BY <1>4 DEF Acceptable, Ledger!NeverRecorded
  <2> QED
    BY <1>2, <1>4, <2>2, <2>3
<1>5. CASE Acceptable(txs[r]) /\ txs[r].kind # "register"
  <2>1. recordsByHash' = [recordsByHash EXCEPT
          ![txs[r].hash].revoked = TRUE, ![txs[r].hash].revokedAt = now,
          ![txs[r].hash].revokeReasonHash = "reason"]
    BY <1>5 DEF Mine, Ledger!RevokeDocument
  <2>2. /\ recordsByHash'[txs[r].hash].exists = recordsByHash[txs[r].hash].exists
        /\ recordsByHash'[txs[r].hash].ipfsCid = recordsByHash[txs[r].hash].ipfsCid
        /\ recordsByHash'[txs[r].hash].revoked
        /\ \A h \in FileHashes \ {txs[r].hash} : recordsByHash'[h] = recordsByHash[h]
    BY <1>1, <1>2, <2>1 DEF Ledger!DocumentRecord
  <2>3. recordsByHash[txs[r].hash].exists
    BY <1>5 DEF Acceptable, Ledger!Revocable
  <2> QED
    BY <1>2, <1>5, <2>2, <2>3
<1> QED
  BY <1>3, <1>4, <1>5

\* The last signer publishes what it signed.
LEMMA SigningKept ==
  ASSUME OneSigning, TypeInv, SigningInv, NEW r \in Requests, Handle(r)
  PROVE  SigningInv'
<1>0. DocType /\ RequestTypes /\ snap[r] \in Snapshot /\ pc[r] \in Awaits
  BY Parts DEF RequestTypes
<1>1. ASSUME NEW q \in Requests, q # r
      PROVE  /\ pc'[q] \in Background \cup {"signCommit"} => Handler[q] = "sign"
             /\ pc'[q] \in Background => snap'[q].hash = q /\ doc'.hash = q
             /\ Handler[q] = "sign" /\ pc'[q] \in {"idle", "signCommit"} => doc'.hash = Earlier
  <2>1. pc'[q] = pc[q] /\ snap'[q] = snap[q]
    BY <1>0, <1>1, Isolated
  <2>2. CASE SignCommit(r)
    <3>1. Handler[r] = "sign"
      BY <2>2 DEF SignCommit, SigningInv
    <3>2. Handler[q] # "sign"
      BY <1>1, <3>1 DEF OneSigning
    <3> QED
      BY <2>1, <3>2 DEF SigningInv
  <2>3. CASE ~SignCommit(r)
    BY <1>0, <2>1, <2>3, HashKept DEF SigningInv
  <2> QED
    BY <2>2, <2>3
<1>2. /\ pc'[r] \in Background \cup {"signCommit"} => Handler[r] = "sign"
      /\ pc'[r] \in Background => snap'[r].hash = r /\ doc'.hash = r
      /\ Handler[r] = "sign" /\ pc'[r] \in {"idle", "signCommit"} => doc'.hash = Earlier
  <2>1. CASE SignRead(r)
    BY <1>0, <2>1 DEF SignRead, Arrives, Goto, RequestTypes, SigningInv, Background
  <2>2. CASE SignCommit(r)
    <3>1. CASE Finish(r)
      BY <1>0, <3>1 DEF Finish, Goto, RequestTypes, Background
    <3>2. CASE ~Finish(r)
      <4>1. /\ doc'.hash = r /\ pc'[r] = "proofIpfs"
            /\ snap'[r] = [Blank EXCEPT !.hash = r]
        BY <1>0, <2>2, <3>2 DEF SignCommit, Goto, RequestTypes
      <4> QED
        BY <2>2, <4>1 DEF SignCommit, Blank, SigningInv, Background
    <3> QED
      BY <3>1, <3>2
  <2>3. CASE ProofIpfs(r) \/ ProofSend(r) \/ ProofReceipt(r) \/ ProofFails(r)
    <3>1. pc[r] \in Background /\ pc'[r] \in Background /\ snap'[r].hash = snap[r].hash
      BY <1>0, <2>3
      DEF ProofIpfs, ProofSend, ProofReceipt, ProofFails, Send, Goto, RequestTypes, Background,
          Snapshot
    <3>2. ~SignCommit(r)
      BY <3>1 DEF SignCommit, Background
    <3> QED
      BY <1>0, <3>1, <3>2, HashKept DEF SigningInv, Background
  <2>4. CASE pc'[r] \notin Background \cup {"idle", "signCommit"}
    BY <2>4
  <2>5. pc'[r] \in Background \cup {"idle", "signCommit"} =>
          SignRead(r) \/ SignCommit(r) \/ ProofIpfs(r) \/ ProofSend(r) \/ ProofReceipt(r)
            \/ ProofFails(r)
    BY <1>0
    DEF Handle, Receive, RevokeRead, AskRead, ReviewRead, Step, ProofUpdate, ReviewRevoke,
        RevokeSend, RevokeReceipt, RevokeUpdate, RevokeFails, AskPending, AskCreate,
        ReviewReject, ReviewApprove, Fail, LedgerFailed, Send, Finish, Goto, RequestTypes,
        Background
  <2> QED
    BY <2>1, <2>2, <2>3, <2>4, <2>5
<1> QED
  BY <1>1, <1>2 DEF SigningInv

\* No handler changes the ledger; the transactions it sends are new ones.
LEMMA LedgerKept ==
  ASSUME TypeInv, SigningInv, LedgerInv, NEW r \in Requests, Handle(r)
  PROVE  LedgerInv'
<1>0. RequestTypes /\ snap[r] \in Snapshot
  BY Parts DEF RequestTypes
<1>1. UNCHANGED recordsByHash /\ \A q \in Requests \ {r} : txs'[q] = txs[q]
  BY <1>0, Isolated
<1>2. \/ txs'[r] = txs[r]
      \/ ProofSend(r) /\ txs'[r] = Registration(r)
      \/ RevokeSend(r) /\ txs'[r] = Revocation(r)
  <2>1. CASE ProofSend(r) \/ RevokeSend(r)
    BY <1>0, <2>1 DEF ProofSend, RevokeSend, Send, RequestTypes
  <2>2. CASE ~ProofSend(r) /\ ~RevokeSend(r)
    BY <2>2
    DEF Handle, Receive, SignRead, RevokeRead, AskRead, ReviewRead, Step, SignCommit, ProofIpfs,
        ProofReceipt, ProofUpdate, ProofFails, ReviewRevoke, RevokeReceipt, RevokeUpdate,
        RevokeFails, AskPending, AskCreate, ReviewReject, ReviewApprove, Fail
  <2> QED
    BY <2>1, <2>2
<1>3. CASE txs'[r] = txs[r]
  BY <1>1, <1>3 DEF LedgerInv
<1>4. CASE ProofSend(r) /\ txs'[r] = Registration(r)
  <2>1. snap[r].hash # Earlier
    BY <1>4 DEF ProofSend, SigningInv, Background
  <2> QED
    BY <1>1, <1>4, <2>1 DEF LedgerInv, Registration
<1>5. CASE RevokeSend(r) /\ txs'[r] = Revocation(r)
  BY <1>1, <1>5 DEF LedgerInv, Revocation
<1> QED
  BY <1>2, <1>3, <1>4, <1>5

\* What a task was told of its registration is on the ledger.
LEMMA ProofKept ==
  ASSUME TypeInv, SigningInv, LedgerInv, ProofInv, NEW r \in Requests, Handle(r)
  PROVE  ProofInv'
<1> DEFINE Told(q) ==
      /\ pc[q] = "proofReceipt" =>
           txs[q].kind = "register" /\ txs[q].hash = q /\ txs[q].cid = snap[q].cid
      /\ pc[q] \in {"proofIpfs", "proofSend", "proofReceipt"} => ~snap[q].recorded
      /\ pc[q] = "proofUpdate" /\ snap[q].recorded =>
           recordsByHash[q].exists /\ recordsByHash[q].ipfsCid = snap[q].cid
<1>0. RequestTypes /\ snap[r] \in Snapshot /\ Ready(r) /\ Told(r)
  BY Parts DEF RequestTypes, ProofInv
<1>1. /\ UNCHANGED recordsByHash
      /\ \A q \in Requests \ {r} : pc'[q] = pc[q] /\ snap'[q] = snap[q] /\ txs'[q] = txs[q]
  BY <1>0, Isolated
<1>2. ASSUME NEW q \in Requests, q # r PROVE Told(q)'
  BY <1>1, <1>2 DEF ProofInv
<1>3. Told(r)'
  <2>1. CASE SignCommit(r)
    BY <1>0, <2>1 DEF SignCommit, Finish, Goto, Blank, RequestTypes
  <2>2. CASE ProofIpfs(r)
    BY <1>0, <2>2 DEF ProofIpfs, Goto, RequestTypes, Snapshot
  <2>3. CASE ProofSend(r)
    <3>1. snap[r].hash = r
      BY <2>3 DEF ProofSend, SigningInv, Background
    <3>2. /\ snap'[r] = snap[r] /\ ~snap[r].recorded
          /\ \/ pc'[r] = "proofReceipt" /\ txs'[r] = Registration(r)
             \/ pc'[r] = "proofUpdate"
      BY <1>0, <2>3 DEF ProofSend, Send, Goto, RequestTypes
    <3> QED
      BY <3>1, <3>2 DEF Registration
  <2>4. CASE ProofReceipt(r)
    <3>1. /\ pc'[r] = "proofUpdate" /\ snap'[r].cid = snap[r].cid
          /\ snap'[r].recorded = (txs[r].state = "mined")
      BY <1>0, <2>4 DEF ProofReceipt, Goto, RequestTypes, Snapshot
    <3>2. txs[r] # None /\ txs[r].kind = "register" /\ txs[r].hash = r /\ txs[r].cid = snap[r].cid
      BY <1>0, <2>4, NoneIsNoRow DEF ProofReceipt, Ready
    <3>3. txs[r].state = "mined" =>
            recordsByHash[r].exists /\ recordsByHash[r].ipfsCid = snap[r].cid
      BY <3>2 DEF LedgerInv
    <3> QED
      BY <1>1, <3>1, <3>3
  <2>5. CASE ProofFails(r)
    BY <1>0, <2>5 DEF ProofFails, Goto, RequestTypes
  <2>6. CASE pc'[r] \notin Background
    BY <2>6 DEF Background
  <2>7. pc'[r] \in Background =>
          SignCommit(r) \/ ProofIpfs(r) \/ ProofSend(r) \/ ProofReceipt(r) \/ ProofFails(r)
    BY <1>0
    DEF Handle, Receive, SignRead, RevokeRead, AskRead, ReviewRead, Step, ProofUpdate,
        ReviewRevoke, RevokeSend, RevokeReceipt, RevokeUpdate, RevokeFails, AskPending,
        AskCreate, ReviewReject, ReviewApprove, Fail, LedgerFailed, Send, Finish, Goto,
        RequestTypes, Background
  <2> QED
    BY <2>1, <2>2, <2>3, <2>4, <2>5, <2>6, <2>7
<1> QED
  BY <1>2, <1>3 DEF ProofInv

\* Nothing undoes what a revocation did on the ledger, and no signature
\* replaces the file of the document it was done for.
LEMMA RevocationKept ==
  ASSUME TypeInv, SigningInv, LedgerInv, RevocationInv, NEW r \in Requests, Handle(r)
  PROVE  RevocationInv'
<1> DEFINE Revoking(q) ==
      /\ pc[q] = "revokeReceipt" => txs[q].kind = "revoke" /\ txs[q].hash = snap[q].hash
      /\ pc[q] \in {"revokeSend", "revokeReceipt", "revokeUpdate"} /\ snap[q].hash # Earlier =>
           snap[q].hash = doc.hash
      /\ Required /\ pc[q] = "revokeUpdate" =>
           recordsByHash[snap[q].hash].exists /\ recordsByHash[snap[q].hash].revoked
<1>0. DocType /\ RequestTypes /\ snap[r] \in Snapshot /\ Ready(r) /\ Revoking(r)
  BY Parts DEF RequestTypes, RevocationInv
<1>1. /\ UNCHANGED recordsByHash
      /\ \A q \in Requests \ {r} : pc'[q] = pc[q] /\ snap'[q] = snap[q] /\ txs'[q] = txs[q]
  BY <1>0, Isolated
<1>2. ASSUME NEW q \in Requests, q # r PROVE Revoking(q)'
  <2>1. CASE SignCommit(r)
    <3>1. doc.hash = Earlier \/ doc' = doc
      BY <2>1 DEF SignCommit, SigningInv
    <3> QED
      BY <1>1, <1>2, <3>1 DEF RevocationInv
  <2>2. CASE ~SignCommit(r)
    BY <1>0, <1>1, <1>2, <2>2, HashKept DEF RevocationInv
  <2> QED
    BY <2>1, <2>2
<1>3. Revoking(r)'
  <2>1. CASE RevokeRead(r)
    <3>1. pc'[r] = "revokeSend" /\ snap'[r].hash = doc.hash /\ doc' = doc
      BY <1>0, <2>1 DEF RevokeRead, Goto, Blank, RequestTypes
    <3> QED
      BY <3>1
  <2>2. CASE ReviewRevoke(r)
    BY <1>0, <2>2 DEF ReviewRevoke, Finish, Goto, RequestTypes, Snapshot
  <2>3. CASE RevokeSend(r)
    <3>1. /\ snap'[r] = snap[r] \/ pc'[r] = "done"
          /\ \/ pc'[r] = "revokeReceipt" /\ txs'[r] = Revocation(r)
             \/ pc'[r] = "revokeUpdate" /\ ~Required
             \/ pc'[r] = "done"
          /\ doc' = doc
      BY <1>0, <2>3 DEF RevokeSend, Send, LedgerFailed, Finish, Goto, RequestTypes
    <3> QED
      BY <1>0, <2>3, <3>1 DEF RevokeSend, Revocation
  <2>4. CASE RevokeReceipt(r)
    <3>1. /\ snap'[r] = snap[r] \/ pc'[r] = "done"
          /\ \/ pc'[r] = "revokeUpdate" /\ (~Required \/ txs[r].state = "mined")
             \/ pc'[r] = "done"
          /\ doc' = doc
      BY <1>0, <2>4 DEF RevokeReceipt, LedgerFailed, Finish, Goto, RequestTypes
    <3>2. txs[r] # None /\ txs[r].kind = "revoke" /\ txs[r].hash = snap[r].hash
      BY <1>0, <2>4, NoneIsNoRow DEF RevokeReceipt, Ready
    <3>3. txs[r].state = "mined" =>
            recordsByHash[snap[r].hash].exists /\ recordsByHash[snap[r].hash].revoked
      BY <3>2 DEF LedgerInv
    <3> QED
      BY <1>0, <1>1, <2>4, <3>1, <3>3 DEF RevokeReceipt
  <2>5. CASE RevokeFails(r)
    BY <1>0, <1>1, <2>5 DEF RevokeFails, LedgerFailed, Finish, Goto, RequestTypes
  <2>6. CASE pc'[r] \notin {"revokeSend", "revokeReceipt", "revokeUpdate"}
    BY <2>6
  <2>7. pc'[r] \in {"revokeSend", "revokeReceipt", "revokeUpdate"} =>
          RevokeRead(r) \/ ReviewRevoke(r) \/ RevokeSend(r) \/ RevokeReceipt(r) \/ RevokeFails(r)
    BY <1>0
    DEF Handle, Receive, SignRead, AskRead, ReviewRead, Step, SignCommit, ProofIpfs, ProofSend,
        ProofReceipt, ProofUpdate, ProofFails, RevokeUpdate, AskPending, AskCreate,
        ReviewReject, ReviewApprove, Fail, Send, Finish, Goto, RequestTypes
  <2> QED
    BY <2>1, <2>2, <2>3, <2>4, <2>5, <2>6, <2>7
<1> QED
  BY <1>2, <1>3 DEF RevocationInv

\* The three steps that write the document.
LEMMA PublishedKept ==
  ASSUME TypeInv, SafetyInv, NEW r \in Requests, Handle(r)
  PROVE  PublishedInv'
<1>0. /\ DocType /\ RequestTypes /\ snap[r] \in Snapshot
      /\ UNCHANGED recordsByHash
  BY Parts, Isolated DEF RequestTypes
<1>1. CASE UNCHANGED doc
  BY <1>0, <1>1 DEF SafetyInv, PublishedInv, ProofMatchesLedger, RevokedIsPublished,
                    VerifiedRevoked, Inspected
<1>2. CASE SignCommit(r) /\ ~UNCHANGED doc
  <2>1. doc'.tx = None /\ doc'.status = "FULLY_SIGNED"
    BY <1>2 DEF SignCommit
  <2> QED
    BY <2>1 DEF PublishedInv, ProofMatchesLedger, RevokedIsPublished, VerifiedRevoked
<1>3. CASE ProofUpdate(r)
  <2>1. /\ doc'.hash = doc.hash /\ doc'.status = doc.status /\ doc'.ipfs = snap[r].cid
        /\ doc'.tx = IF snap[r].recorded THEN r ELSE None
    BY <1>0, <1>3 DEF ProofUpdate, ProvenDocument, DocType
  <2>2. doc.hash = r
    BY <1>3 DEF ProofUpdate, SafetyInv, SigningInv, Background
  <2>3. snap[r].recorded => recordsByHash[r].exists /\ recordsByHash[r].ipfsCid = snap[r].cid
    BY <1>3 DEF ProofUpdate, SafetyInv, ProofInv
  <2> QED
    BY <1>0, <2>1, <2>2, <2>3 DEF SafetyInv, PublishedInv, ProofMatchesLedger,
                                  RevokedIsPublished, VerifiedRevoked, Inspected
<1>4. CASE RevokeUpdate(r)
  <2>1. doc'.hash = doc.hash /\ doc'.ipfs = doc.ipfs /\ doc'.tx = doc.tx
    BY <1>4 DEF RevokeUpdate, RevokedDocument, DocType
  <2>2. Required => /\ recordsByHash[snap[r].hash].exists
                    /\ recordsByHash[snap[r].hash].revoked
    BY <1>4 DEF RevokeUpdate, SafetyInv, RevocationInv
  <2>3. Required => snap[r].hash = doc.hash
    BY <1>4, <2>2 DEF RevokeUpdate, SafetyInv, RevocationInv, LedgerInv
  <2> QED
    BY <1>0, <2>1, <2>2, <2>3 DEF SafetyInv, PublishedInv, ProofMatchesLedger,
                                  RevokedIsPublished, Inspected
<1>5. doc' = doc \/ SignCommit(r) \/ ProofUpdate(r) \/ RevokeUpdate(r)
  BY DEF Handle, Receive, SignRead, RevokeRead, AskRead, ReviewRead, ProofFails, RevokeFails,
    Fail, Step, ProofIpfs, ProofSend, ProofReceipt, ReviewRevoke, RevokeSend, RevokeReceipt,
    AskPending, AskCreate, ReviewReject, ReviewApprove
<1> QED
  BY <1>1, <1>2, <1>3, <1>4, <1>5

\* A transaction is mined: the ledger only grows.
LEMMA MineKept ==
  ASSUME TypeInv, SafetyInv, NEW r \in Requests, Mine(r)
  PROVE  SafetyInv'
<1>0. /\ UNCHANGED <<doc, asked, pc, snap>>
      /\ DocType /\ RequestTypes /\ txs[r] # None /\ txs[r] \in Tx
  BY Parts DEF Mine, RequestTypes
<1>1. /\ txs' \in [Requests -> Tx \cup {None}]
      /\ \A q \in Requests \ {r} : txs'[q] = txs[q]
      /\ txs'[r].kind = txs[r].kind /\ txs'[r].hash = txs[r].hash /\ txs'[r].cid = txs[r].cid
  <2>1. \E v \in {"mined", "reverted"} : txs' = [txs EXCEPT ![r].state = v]
    BY DEF Mine
  <2> QED
    BY <1>0, <2>1 DEF RequestTypes, Tx
<1>2. \A q \in Requests : txs[q] # None => txs[q].hash \in FileHashes
  BY <1>0 DEF RequestTypes, Tx
<1>3. \A q \in Requests : snap[q].hash \in FileHashes \cup {None}
  BY <1>0 DEF RequestTypes, Snapshot
<1>4. Requests \subseteq FileHashes /\ Earlier \in FileHashes
  BY DEF FileHashes
<1>5. SigningInv'
  BY <1>0 DEF SafetyInv, SigningInv
<1>6. LedgerInv'
  <2>1. ~recordsByHash'[Earlier].exists
    BY <1>0, <1>4, LedgerGrown DEF SafetyInv, LedgerInv
  <2>2. ASSUME NEW q \in Requests, txs'[q] # None
        PROVE  /\ txs'[q].kind = "register" => txs'[q].hash # Earlier
               /\ txs'[q].state = "mined" => recordsByHash'[txs'[q].hash].exists
               /\ txs'[q].state = "mined" /\ txs'[q].kind = "register" =>
                    recordsByHash'[txs'[q].hash].ipfsCid = txs'[q].cid
               /\ txs'[q].state = "mined" /\ txs'[q].kind = "revoke" =>
                    recordsByHash'[txs'[q].hash].revoked
    <3>1. CASE q = r
      BY <1>0, <1>1, <3>1, LedgerGrown DEF SafetyInv, LedgerInv
    <3>2. CASE q # r
      BY <1>1, <1>2, <2>2, <3>2, LedgerGrown DEF SafetyInv, LedgerInv
    <3> QED
      BY <3>1, <3>2
  <2> QED
    BY <2>1, <2>2 DEF LedgerInv
<1>7. ProofInv'
  BY <1>0, <1>1, <1>4, LedgerGrown DEF SafetyInv, ProofInv
<1>8. RevocationInv'
  <2>1. \A q \in Requests : pc[q] = "revokeUpdate" => snap[q].hash \in FileHashes
    BY <1>0, <1>3 DEF RequestTypes, Ready
  <2> QED
    BY <1>0, <1>1, <2>1, LedgerGrown DEF SafetyInv, RevocationInv
<1>9. PublishedInv'
  <2>1. doc.hash \in FileHashes
    BY <1>0 DEF DocType
  <2> QED
    BY <1>0, <2>1, LedgerGrown DEF SafetyInv, PublishedInv, ProofMatchesLedger,
                                   RevokedIsPublished, VerifiedRevoked, Inspected
<1> QED
  BY <1>5, <1>6, <1>7, <1>8, <1>9 DEF SafetyInv

LEMMA SafetyInductive ==
  ASSUME OneSigning, TypeInv, SafetyInv, [Next]_vars
  PROVE  SafetyInv'
<1>1. CASE UNCHANGED vars
  BY <1>1 DEF vars, SafetyInv, SigningInv, LedgerInv, ProofInv, RevocationInv, PublishedInv,
              ProofMatchesLedger, RevokedIsPublished, VerifiedRevoked, Inspected
<1>2. ASSUME NEW r \in Requests, Handle(r) PROVE SafetyInv'
  BY <1>2, SigningKept, LedgerKept, ProofKept, RevocationKept, PublishedKept DEF SafetyInv
<1> QED
  BY <1>1, <1>2, MineKept DEF Next, Work, Failure, Handle

LEMMA SafetyAlways ==
  ASSUME OneSigning
  PROVE  Spec => [](TypeInv /\ SafetyInv)
BY InitTypes, TypesInductive, InitSafety, SafetyInductive, PTL DEF Spec

\* The transaction hash stored with a document is that of the registration of
\* its final file, under the CID stored with it: for any requests, failures
\* and crashes, of a document with one last signature.
THEOREM ProofIsOfFinalFile == OneSigning => (Spec => []ProofMatchesLedger)
<1> SUFFICES ASSUME OneSigning PROVE Spec => []ProofMatchesLedger
  OBVIOUS
<1>1. SafetyInv => ProofMatchesLedger
  BY DEF SafetyInv, PublishedInv
<1>2. Spec => [](TypeInv /\ SafetyInv)
  BY SafetyAlways
<1> QED
  BY <1>1, <1>2, PTL

\* With BLOCKCHAIN_RECORD_REQUIRED no document is revoked in the database that
\* is not revoked on the ledger.
THEOREM RevocationIsPublished == OneSigning /\ Required => (Spec => []RevokedIsPublished)
<1> SUFFICES ASSUME OneSigning, Required PROVE Spec => []RevokedIsPublished
  OBVIOUS
<1>1. SafetyInv => RevokedIsPublished
  BY DEF SafetyInv, PublishedInv
<1>2. Spec => [](TypeInv /\ SafetyInv)
  BY SafetyAlways
<1> QED
  BY <1>1, <1>2, PTL

-----------------------------------------------------------------------------
(* Revoke requests.  Only of a fully signed document may a revocation be   *)
(* asked for, and its last signature is the last step that makes a status  *)
(* other than REVOKED: what a review revoked stays so.                     *)

AskedOfFinal ==
  /\ doc.status = "FULLY_SIGNED" => doc.hash # Earlier
  /\ \A r \in Requests :
       pc[r] \in {"askPending", "askCreate"} \/ asked[r] # None => doc.hash # Earlier

RevokedFirst ==
  \A r \in Requests : pc[r] = "reviewApprove" => doc.hash # Earlier /\ VerifiedRevoked

ApprovedInv == AskedOfFinal /\ RevokedFirst /\ ApprovedMeansRevoked

\* The last signature finds no revoke request.
LEMMA SignApproved ==
  ASSUME TypeInv, SigningInv, ApprovedInv, NEW r \in Requests, SignCommit(r)
  PROVE  ApprovedInv'
<1>1. doc.hash = Earlier
  BY DEF SignCommit, SigningInv
<1>2. /\ \A q \in Requests : asked[q] = None /\ asked'[q] = None
      /\ \A q \in Requests : pc[q] \notin {"askPending", "askCreate", "reviewApprove"}
  BY <1>1 DEF SignCommit, ApprovedInv, AskedOfFinal, RevokedFirst
<1>3. \A q \in Requests : pc'[q] \notin {"askPending", "askCreate", "reviewApprove"}
  BY <1>2 DEF SignCommit, Finish, Goto, TypeInv, TypeOK
<1>4. doc'.hash # Earlier
  BY <1>1 DEF SignCommit
<1> QED
  BY <1>2, <1>3, <1>4 DEF ApprovedInv, AskedOfFinal, RevokedFirst, ApprovedMeansRevoked

\* The steps that neither set the status nor decide on a revoke request.
LEMMA QuietApproved ==
  ASSUME TypeInv, ApprovedInv, NEW r \in Requests, doc'.hash = doc.hash,
         doc'.status = doc.status, UNCHANGED asked,
         \A q \in Requests \ {r} : pc'[q] = pc[q],
         pc'[r] # "reviewApprove",
         pc'[r] \in {"askPending", "askCreate"} => doc.hash # Earlier
  PROVE  ApprovedInv'
BY DEF ApprovedInv, AskedOfFinal, RevokedFirst, ApprovedMeansRevoked, VerifiedRevoked

LEMMA HandleApproved ==
  ASSUME TypeInv, SigningInv, ApprovedInv, NEW r \in Requests, Handle(r)
  PROVE  ApprovedInv'
<1>0. /\ DocType /\ AskedType /\ RequestTypes
      /\ \A q \in Requests \ {r} : pc'[q] = pc[q]
  BY Parts, Isolated
<1>1. ~SignCommit(r) => doc'.hash = doc.hash
  BY <1>0, HashKept
<1>2. CASE SignCommit(r)
  BY <1>2, SignApproved
<1>3. CASE RevokeUpdate(r)
  <2>1. doc'.status = "REVOKED" /\ doc'.hash = doc.hash /\ UNCHANGED asked
    BY <1>0, <1>3 DEF RevokeUpdate, RevokedDocument, DocType
  <2>2. pc'[r] \in {"done", "reviewApprove"}
    BY <1>0, <1>3 DEF RevokeUpdate, Finish, Goto, RequestTypes
  <2>3. pc'[r] = "reviewApprove" => doc.hash # Earlier
    <3>1. SUFFICES ASSUME snap[r].review # None PROVE doc.hash # Earlier
      BY <1>0, <1>3 DEF RevokeUpdate, Finish, Goto, RequestTypes
    <3>2. snap[r].review \in Requests /\ asked[snap[r].review] \in Ask
      BY <1>0, <3>1 DEF RequestTypes, Ready, Snapshot
    <3> QED
      BY <3>2, NoneIsNoRow DEF ApprovedInv, AskedOfFinal
  <2> QED
    BY <1>0, <2>1, <2>2, <2>3
    DEF ApprovedInv, AskedOfFinal, RevokedFirst, ApprovedMeansRevoked, VerifiedRevoked
<1>4. CASE AskCreate(r)
  <2>1. /\ pc[r] = "askCreate" /\ pc'[r] = "done" /\ UNCHANGED doc
        /\ asked'[r].status = "PENDING"
        /\ \A q \in Requests \ {r} : asked'[q] = asked[q]
    BY <1>0, <1>4 DEF AskCreate, Finish, Goto, RequestTypes, AskedType
  <2> QED
    BY <1>0, <2>1
    DEF ApprovedInv, AskedOfFinal, RevokedFirst, ApprovedMeansRevoked, VerifiedRevoked
<1>5. CASE ReviewReject(r) \/ ReviewApprove(r)
  <2> DEFINE v == snap[r].review
  <2>1. /\ pc[r] \in {"reviewReject", "reviewApprove"} /\ pc'[r] = "done" /\ UNCHANGED doc
        /\ v \in Requests /\ asked[v] \in Ask
    BY <1>0, <1>5
    DEF ReviewReject, ReviewApprove, Finish, Goto, RequestTypes, Ready, Snapshot
  <2>2. /\ \A q \in Requests \ {v} : asked'[q] = asked[q]
        /\ asked'[v].status = "APPROVED" => pc[r] = "reviewApprove"
    BY <1>0, <1>5, <2>1 DEF ReviewReject, ReviewApprove, AskedType, Ask
  <2>3. doc.hash # Earlier
    BY <2>1, NoneIsNoRow DEF ApprovedInv, AskedOfFinal
  <2> QED
    BY <1>0, <2>1, <2>2, <2>3
    DEF ApprovedInv, AskedOfFinal, RevokedFirst, ApprovedMeansRevoked, VerifiedRevoked
<1>6. CASE ProofUpdate(r)
  <2>1. /\ doc'.status = doc.status /\ UNCHANGED asked /\ pc'[r] = "done"
    BY <1>0, <1>6 DEF ProofUpdate, ProvenDocument, Finish, Goto, RequestTypes, DocType
  <2> QED
    BY <1>0, <1>1, <1>6, <2>1, QuietApproved DEF ProofUpdate, SignCommit, RequestTypes
<1>7. CASE Receive(r)
  <2>1. /\ UNCHANGED <<doc, asked>> /\ pc'[r] # "reviewApprove"
        /\ pc'[r] = "askPending" => doc.status = "FULLY_SIGNED"
        /\ pc'[r] # "askCreate"
    BY <1>0, <1>7
    DEF Receive, SignRead, RevokeRead, AskRead, Askable, ReviewRead, Goto, RequestTypes
  <2> QED
    BY <1>0, <2>1, QuietApproved DEF ApprovedInv, AskedOfFinal
<1>8. CASE AskPending(r)
  <2>1. UNCHANGED <<doc, asked>> /\ pc[r] = "askPending" /\ pc'[r] \in {"askCreate", "done"}
    BY <1>0, <1>8 DEF AskPending, Finish, Goto, RequestTypes
  <2> QED
    BY <1>0, <2>1, QuietApproved DEF ApprovedInv, AskedOfFinal
<1>9. CASE \/ ProofIpfs(r) \/ ProofSend(r) \/ ProofReceipt(r) \/ ReviewRevoke(r)
           \/ RevokeSend(r) \/ RevokeReceipt(r) \/ ProofFails(r) \/ RevokeFails(r) \/ Fail(r)
  <2>1. /\ UNCHANGED <<doc, asked>>
        /\ pc'[r] \notin {"askPending", "askCreate", "reviewApprove"}
    BY <1>0, <1>9
    DEF ProofIpfs, ProofSend, ProofReceipt, ReviewRevoke, RevokeSend, RevokeReceipt, Send,
        ProofFails, RevokeFails, Fail, LedgerFailed, Finish, Goto, RequestTypes
  <2> QED
    BY <1>0, <2>1, QuietApproved
<1> QED
  BY <1>2, <1>3, <1>4, <1>5, <1>6, <1>7, <1>8, <1>9 DEF Handle, Step

\* No approved revoke request is found with a document that is not revoked,
\* for any asks, reviews, direct revocations, failures and crashes.
THEOREM ApprovedIsRevoked == OneSigning => (Spec => []ApprovedMeansRevoked)
<1> SUFFICES ASSUME OneSigning PROVE Spec => []ApprovedMeansRevoked
  OBVIOUS
<1>1. Init => ApprovedInv
  BY DEF Init, ApprovedInv, AskedOfFinal, RevokedFirst, ApprovedMeansRevoked
<1>2. TypeInv /\ SafetyInv /\ ApprovedInv /\ [Next]_vars => ApprovedInv'
  <2>1. ASSUME ApprovedInv, UNCHANGED <<doc, asked, pc>> PROVE ApprovedInv'
    BY <2>1
    DEF ApprovedInv, AskedOfFinal, RevokedFirst, ApprovedMeansRevoked, VerifiedRevoked
  <2>2. ASSUME NEW r \in Requests, Mine(r) PROVE UNCHANGED <<doc, asked, pc>>
    BY <2>2 DEF Mine
  <2> QED
    BY <2>1, <2>2, HandleApproved DEF SafetyInv, Next, Work, Failure, Handle, vars
<1>3. ApprovedInv => ApprovedMeansRevoked
  BY DEF ApprovedInv
<1>4. Spec => [](TypeInv /\ SafetyInv)
  BY SafetyAlways
<1> QED
  BY <1>1, <1>2, <1>3, <1>4, PTL DEF Spec

-----------------------------------------------------------------------------
(* The pages and the server *)

\* What the server does for the pages.
Server ==
  \/ \E u \in Users : ReceiveAsk(u)
  \/ \E a \in Admins : ReceiveRevoke(a) \/ ReceiveReview(a)
  \/ \E r \in Requests : \/ SignRead(r) /\ UNCHANGED pages
                         \/ Mine(r) /\ UNCHANGED pages
                         \/ Serve(r) \/ Break(r)

Click ==
  \/ \E u \in Users :
       \/ LoadDetail(u) \/ RequestAnswered(u)
       \/ \E r \in Requests : SubmitRevokeRequest(u, r)
  \/ \E a \in Admins :
       \/ LoadDesk(a) \/ OpenRevokeDialog(a) \/ CloseDialog(a)
       \/ ReviewAnswered(a) \/ RefreshAdminDocuments(a) \/ RevokeAnswered(a)
       \/ \E q \in Requests, verdict \in {"APPROVED", "REJECTED"} :
            OpenReviewDialog(a, q, verdict)
       \/ \E r \in Requests : HandleReviewRevokeRequest(a, r) \/ HandleRevoke(a, r)

LEMMA DeskSteps == DeskNext <=> Click \/ Server
  BY DEF DeskNext, Click, Server

LEMMA ClickStutters == Click => UNCHANGED <<vars, answer, created>>
  BY DEF Click, LoadDetail, RequestAnswered, SubmitRevokeRequest, LoadDesk, OpenRevokeDialog,
         CloseDialog, ReviewAnswered, RefreshAdminDocuments, RevokeAnswered,
         OpenReviewDialog, HandleReviewRevokeRequest, HandleRevoke, OnForm, OnDesk

LEMMA FormRow ==
  ASSUME DeskTypeOK, NEW u \in Users
  PROVE  forms[u] \in Form /\ forms[u].call \in Requests \cup {None}
  BY DEF DeskTypeOK, Form

LEMMA DeskRow ==
  ASSUME DeskTypeOK, NEW a \in Admins
  PROVE  /\ desks[a] \in Desk
         /\ desks[a].revoking \in Requests \cup {None}
         /\ desks[a].reviewing # None =>
              desks[a].reviewing.call \in Requests /\ desks[a].reviewing.of \in Requests
  BY DEF DeskTypeOK, Desk, Verdict

LEMMA ServerSteps ==
  ASSUME DeskTypeOK, Server
  PROVE  /\ UNCHANGED <<forms, desks>>
         /\ \/ UNCHANGED vars
            \/ \E r \in Requests : Handle(r) \/ Mine(r)
<1>1. ASSUME NEW u \in Users, ReceiveAsk(u)
      PROVE  UNCHANGED <<forms, desks>>
             /\ (UNCHANGED vars \/ \E r \in Requests : Handle(r))
  BY <1>1, FormRow DEF ReceiveAsk, Refuse, Accept, pages, Handle, Receive
<1>2. ASSUME NEW a \in Admins, ReceiveRevoke(a)
      PROVE  UNCHANGED <<forms, desks>>
             /\ (UNCHANGED vars \/ \E r \in Requests : Handle(r))
  BY <1>2, DeskRow DEF ReceiveRevoke, Refuse, Accept, pages, Handle, Receive
<1>3. ASSUME NEW a \in Admins, ReceiveReview(a)
      PROVE  UNCHANGED <<forms, desks>>
             /\ (UNCHANGED vars \/ \E r \in Requests : Handle(r))
  BY <1>3, DeskRow DEF ReceiveReview, Refuse, Accept, pages, Handle, Receive
<1> QED
  BY <1>1, <1>2, <1>3 DEF Server, Serve, Break, pages, Handle, Receive

LEMMA DeskRefines == DeskTypeOK /\ [DeskNext]_deskVars => [Next]_vars
<1> SUFFICES ASSUME DeskTypeOK, DeskNext PROVE [Next]_vars
  BY DEF deskVars
<1>1. CASE Click
  BY <1>1, ClickStutters
<1>2. CASE Server
  BY <1>2, ServerSteps DEF Next, Work, Failure, Handle
<1> QED
  BY <1>1, <1>2, DeskSteps

-----------------------------------------------------------------------------
(* Types *)

LEMMA OnFormTypes ==
  ASSUME DeskTypeOK, NEW u \in Users, NEW next \in Form, OnForm(u, next)
  PROVE  DeskTypeOK'
  BY DEF DeskTypeOK, OnForm

LEMMA OnDeskTypes ==
  ASSUME DeskTypeOK, NEW a \in Admins, NEW next \in Desk, OnDesk(a, next)
  PROVE  DeskTypeOK'
  BY DEF DeskTypeOK, OnDesk

LEMMA LoadedType ==
  ASSUME DeskTypeOK, NEW a \in Admins
  PROVE  /\ Loaded(a) \in Desk
         /\ Loaded(a).reviewing = desks[a].reviewing /\ Loaded(a).revoking = desks[a].revoking
<1> DEFINE list == {q \in ToSet(created) : asked[q].status = "PENDING"}
           revoked == doc.status = "REVOKED"
           Dialog == [of : Requests, verdict : {"APPROVED", "REJECTED"}] \cup {None}
           Review == Verdict \cup {None}
<1>1. Desk = [revoked : BOOLEAN, list : SUBSET Requests, dialog : Dialog, revoke : BOOLEAN,
              reviewing : Review, refreshing : BOOLEAN, revoking : Requests \cup {None}]
  BY DEF Desk
<1>2. list \in SUBSET Requests
  BY DEF DeskTypeOK, ToSet
<1>3. Loaded(a) = [desks[a] EXCEPT !.revoked = revoked, !.list = list]
  BY DEF Loaded
<1>4. revoked = TRUE \/ revoked = FALSE
  OBVIOUS
<1>5. desks[a] \in Desk
  BY DeskRow
<1> HIDE DEF Dialog, Review, list, revoked
<1>6. CASE revoked = TRUE
  BY <1>1, <1>2, <1>3, <1>5, <1>6
<1>7. CASE revoked = FALSE
  BY <1>1, <1>2, <1>3, <1>5, <1>7
<1> QED
  BY <1>4, <1>6, <1>7

\* What the buttons write into the page of a superadmin.
LEMMA DeskFields ==
  ASSUME NEW d \in Desk
  PROVE  /\ [d EXCEPT !.dialog = None, !.revoke = FALSE] \in Desk
         /\ [d EXCEPT !.revoke = TRUE] \in Desk
         /\ [d EXCEPT !.dialog = None, !.refreshing = TRUE] \in Desk
         /\ [d EXCEPT !.reviewing = None] \in Desk
         /\ [d EXCEPT !.refreshing = FALSE, !.reviewing = None] \in Desk
         /\ [d EXCEPT !.revoking = None] \in Desk
         /\ [d EXCEPT !.revoked = TRUE, !.revoke = FALSE, !.revoking = None] \in Desk
<1> DEFINE Dialog == [of : Requests, verdict : {"APPROVED", "REJECTED"}] \cup {None}
           Review == Verdict \cup {None}
           Call == Requests \cup {None}
<1>1. Desk = [revoked : BOOLEAN, list : SUBSET Requests, dialog : Dialog, revoke : BOOLEAN,
              reviewing : Review, refreshing : BOOLEAN, revoking : Call]
  BY DEF Desk
<1>2. None \in Dialog /\ None \in Review /\ None \in Call
  OBVIOUS
<1> HIDE DEF Dialog, Review, Call
<1> QED
  BY <1>1, <1>2

LEMMA DeskCalls ==
  ASSUME NEW d \in Desk, NEW r \in Requests, NEW q \in Requests,
         NEW verdict \in {"APPROVED", "REJECTED"}
  PROVE  /\ [d EXCEPT !.dialog = [of |-> q, verdict |-> verdict]] \in Desk
         /\ [d EXCEPT !.reviewing = [call |-> r, of |-> q, verdict |-> verdict]] \in Desk
         /\ [d EXCEPT !.revoking = r] \in Desk
<1> DEFINE Dialog == [of : Requests, verdict : {"APPROVED", "REJECTED"}] \cup {None}
           Review == Verdict \cup {None}
           Call == Requests \cup {None}
           dialog == [of |-> q, verdict |-> verdict]
           review == [call |-> r, of |-> q, verdict |-> verdict]
<1>1. Desk = [revoked : BOOLEAN, list : SUBSET Requests, dialog : Dialog, revoke : BOOLEAN,
              reviewing : Review, refreshing : BOOLEAN, revoking : Call]
  BY DEF Desk
<1>2. dialog \in Dialog /\ review \in Review /\ r \in Call
  BY DEF Verdict
<1> HIDE DEF Dialog, Review, Call, dialog, review
<1>3. /\ [d EXCEPT !.dialog = dialog] \in Desk
      /\ [d EXCEPT !.reviewing = review] \in Desk
      /\ [d EXCEPT !.revoking = r] \in Desk
  BY <1>1, <1>2
<1> QED
  BY <1>3 DEF dialog, review

LEMMA FormTypes ==
  ASSUME DeskTypeOK, NEW u \in Users,
         \/ LoadDetail(u) \/ RequestAnswered(u)
         \/ \E r \in Requests : SubmitRevokeRequest(u, r)
  PROVE  DeskTypeOK'
<1>0. forms[u] \in Form /\ forms[u].offered \in BOOLEAN
  BY FormRow DEF Form
<1>1. Offered(u) \in BOOLEAN
  BY DEF Offered
<1>2. CASE LoadDetail(u)
  <2>1. [forms[u] EXCEPT !.offered = Offered(u)] \in Form
    BY <1>0, <1>1 DEF Form
  <2> QED
    BY <1>2, <2>1, OnFormTypes DEF LoadDetail
<1>3. CASE RequestAnswered(u)
  <2>1. PICK fresh : OnForm(u, [offered |-> IF fresh THEN Offered(u) ELSE forms[u].offered,
                                call |-> None])
    BY <1>3 DEF RequestAnswered
  <2>2. [offered |-> IF fresh THEN Offered(u) ELSE forms[u].offered, call |-> None] \in Form
    BY <1>0, <1>1 DEF Form
  <2> QED
    BY <2>1, <2>2, OnFormTypes
<1>4. ASSUME NEW r \in Requests, SubmitRevokeRequest(u, r) PROVE DeskTypeOK'
  <2>1. [forms[u] EXCEPT !.call = r] \in Form
    BY <1>0 DEF Form
  <2> QED
    BY <1>4, <2>1, OnFormTypes DEF SubmitRevokeRequest
<1> QED
  BY <1>2, <1>3, <1>4

LEMMA ClickTypes == ASSUME DeskTypeOK, Click PROVE DeskTypeOK'
<1>1. ASSUME NEW a \in Admins,
             \/ LoadDesk(a) \/ OpenRevokeDialog(a) \/ CloseDialog(a)
             \/ ReviewAnswered(a) \/ RefreshAdminDocuments(a) \/ RevokeAnswered(a)
             \/ \E q \in Requests, verdict \in {"APPROVED", "REJECTED"} :
                  OpenReviewDialog(a, q, verdict)
             \/ \E r \in Requests : HandleReviewRevokeRequest(a, r) \/ HandleRevoke(a, r)
      PROVE  DeskTypeOK'
  <2>0. desks[a] \in Desk /\ Loaded(a) \in Desk
    BY DeskRow, LoadedType
  <2>1. CASE LoadDesk(a) \/ OpenRevokeDialog(a) \/ CloseDialog(a)
    BY <2>0, <2>1, DeskFields, OnDeskTypes DEF LoadDesk, OpenRevokeDialog, CloseDialog
  <2>2. CASE ReviewAnswered(a) \/ RevokeAnswered(a)
    BY <2>0, <2>2, DeskFields, OnDeskTypes DEF ReviewAnswered, RevokeAnswered
  <2>3. CASE RefreshAdminDocuments(a)
    <3>1. PICK next \in {Loaded(a), desks[a]} :
            OnDesk(a, [next EXCEPT !.refreshing = FALSE, !.reviewing = None])
      BY <2>3 DEF RefreshAdminDocuments
    <3> QED
      BY <2>0, <3>1, DeskFields, OnDeskTypes
  <2>4. ASSUME NEW q \in Requests, NEW verdict \in {"APPROVED", "REJECTED"},
               OpenReviewDialog(a, q, verdict)
        PROVE  DeskTypeOK'
    BY <2>0, <2>4, DeskCalls, OnDeskTypes DEF OpenReviewDialog
  <2>5. ASSUME NEW r \in Requests, HandleReviewRevokeRequest(a, r) PROVE DeskTypeOK'
    <3>1. desks[a].dialog.of \in Requests /\ desks[a].dialog.verdict \in {"APPROVED", "REJECTED"}
      BY <2>0, <2>5 DEF HandleReviewRevokeRequest, Desk
    <3> QED
      BY <2>0, <2>5, <3>1, DeskCalls, OnDeskTypes DEF HandleReviewRevokeRequest
  <2>6. ASSUME NEW r \in Requests, HandleRevoke(a, r) PROVE DeskTypeOK'
    <3>1. [desks[a] EXCEPT !.revoking = r] \in Desk
      BY <2>0, DeskCalls
    <3> QED
      BY <2>6, <3>1, OnDeskTypes DEF HandleRevoke
  <2> QED
    BY <1>1, <2>1, <2>2, <2>3, <2>4, <2>5, <2>6
<1> QED
  BY <1>1, FormTypes DEF Click

\* The handlers answer once, and what is created is a request.
LEMMA ServerTypes == ASSUME DeskTypeOK, Server PROVE DeskTypeOK'
<1>1. forms' = forms /\ desks' = desks
  BY ServerSteps
<1>2. answer' \in [Requests -> {"ok", "error", None}] /\ created' \in Seq(Requests)
  <2>1. answer \in [Requests -> {"ok", "error", None}] /\ created \in Seq(Requests)
    BY DEF DeskTypeOK
  <2>2. ASSUME NEW r \in Requests, Refuse(r) PROVE <1>2!1 /\ <1>2!2
    BY <2>1, <2>2 DEF Refuse
  <2>3. ASSUME NEW r \in Requests, Serve(r) \/ Break(r) PROVE <1>2!1 /\ <1>2!2
    <3>1. Append(created, r) \in Seq(Requests)
      BY <2>1
    <3>2. created' \in Seq(Requests)
      BY <2>1, <2>3, <3>1 DEF Serve, Break
    <3>3. ASSUME NEW how \in {"ok", "error"}, Answered(r, how) PROVE <1>2!1
      BY <2>1, <3>3 DEF Answered
    <3> QED
      BY <2>3, <3>2, <3>3 DEF Serve, Break
  <2>4. ASSUME NEW u \in Users, ReceiveAsk(u) PROVE <1>2!1 /\ <1>2!2
    BY <2>1, <2>2, <2>4, FormRow DEF ReceiveAsk, Accept, pages
  <2>5. ASSUME NEW a \in Admins, ReceiveRevoke(a) \/ ReceiveReview(a) PROVE <1>2!1 /\ <1>2!2
    BY <2>1, <2>2, <2>5, DeskRow DEF ReceiveRevoke, ReceiveReview, Accept, pages
  <2> QED
    BY <2>1, <2>3, <2>4, <2>5 DEF Server, pages
<1> QED
  BY <1>1, <1>2 DEF DeskTypeOK

-----------------------------------------------------------------------------
(* What a page waits for *)

\* A call ends with its handler, and a call that ended is not handled.
Answering(r) ==
  /\ pc[r] \in {"idle", "done"} => snap[r] = Blank
  /\ answer[r] # None /\ Handler[r] # "sign" => pc[r] \in {"idle", "done"}

\* The form of the user waits for the request they make, and until it is made
\* nothing else of them waits for a review.
Asking(r) ==
  pc[r] \in {"askPending", "askCreate"} =>
    /\ Handler[r] = "ask"
    /\ forms[snap[r].user].call = r
    /\ pc[r] = "askCreate" => PendingOf(snap[r].user) = {}

Made(r) ==
  /\ asked[r] # None => pc[r] = "done"
  /\ r \in ToSet(created) => asked[r] # None

\* A superadmin waits for the review, of a request that still waits for it.
UnderReview(r) ==
  snap[r].review # None =>
    /\ Handler[r] = "review"
    /\ \E a \in Admins : desks[a].reviewing # None /\ desks[a].reviewing.call = r
    /\ Apart => asked[snap[r].review].status = "PENDING"

OneAsk == \A u \in Users : \A p, q \in PendingOf(u) : p = q

OneReview ==
  /\ Apart => \A a, b \in Reviewing : a = b
  /\ \A a \in Admins : desks[a].refreshing =>
       desks[a].reviewing # None /\ answer[desks[a].reviewing.call] # None

CallsInv ==
  /\ \A r \in Requests : Answering(r) /\ Asking(r) /\ Made(r) /\ UnderReview(r)
  /\ OneAsk
  /\ OneReview

\* The inductive invariant.
DeskInv == TypeInv /\ DeskTypeOK /\ CallsInv

LEMMA InitDesk == DeskInit => DeskInv
<1> SUFFICES ASSUME DeskInit PROVE DeskInv
  OBVIOUS
<1>1. /\ Init /\ answer = [r \in Requests |-> None] /\ created = <<>>
      /\ asked = [r \in Requests |-> None] /\ pc = [r \in Requests |-> "idle"]
      /\ snap = [r \in Requests |-> Blank]
      /\ forms = [u \in Users |-> [offered |-> FALSE, call |-> None]]
      /\ desks = [a \in Admins |->
                    [revoked |-> FALSE, list |-> {}, dialog |-> None, revoke |-> FALSE,
                     reviewing |-> None, refreshing |-> FALSE, revoking |-> None]]
  BY DEF DeskInit, Init
<1>2. DeskTypeOK
  BY <1>1 DEF DeskTypeOK, Form, Desk
<1>3. ToSet(created) = {} /\ \A u \in Users : PendingOf(u) = {}
  BY <1>1 DEF ToSet, PendingOf
<1>4. Reviewing = {}
  BY <1>1 DEF Reviewing
<1>5. CallsInv
  BY <1>1, <1>3, <1>4, BlankType
  DEF CallsInv, Answering, Asking, Made, UnderReview, OneAsk, OneReview
<1> QED
  BY <1>1, <1>2, <1>5, InitTypes DEF DeskInv

-----------------------------------------------------------------------------
(* The clicks: a page does not stop waiting for a call before the answer.  *)

FormWaits(u) == forms[u].call = None \/ answer[forms[u].call] # None

LEMMA FormClicks ==
  ASSUME NEW u \in Users,
         \/ LoadDetail(u) \/ RequestAnswered(u)
         \/ \E r \in Requests : SubmitRevokeRequest(u, r)
  PROVE  /\ FormWaits(u) /\ desks' = desks
         /\ \E next : forms' = [forms EXCEPT ![u] = next]
  BY DEF LoadDetail, RequestAnswered, SubmitRevokeRequest, OnForm, FormWaits

LEMMA FormKeeps ==
  ASSUME DeskTypeOK, CallsInv, UNCHANGED <<vars, answer, created, desks>>,
         NEW u \in Users, FormWaits(u), NEW next, forms' = [forms EXCEPT ![u] = next]
  PROVE  CallsInv'
<1>1. ASSUME NEW r \in Requests PROVE Asking(r)'
  <2> SUFFICES ASSUME pc[r] \in {"askPending", "askCreate"}
               PROVE  /\ Handler[r] = "ask"
                      /\ forms'[snap[r].user].call = r
                      /\ pc[r] = "askCreate" => PendingOf(snap[r].user) = {}
    BY DEF Asking, vars, PendingOf
  <2>1. Asking(r) /\ Answering(r)
    BY DEF CallsInv
  <2>2. snap[r].user # u
    BY <2>1 DEF Asking, Answering, FormWaits
  <2> QED
    BY <2>1, <2>2 DEF Asking, DeskTypeOK
<1>2. ASSUME NEW r \in Requests PROVE Answering(r)' /\ Made(r)' /\ UnderReview(r)'
  BY DEF CallsInv, Answering, Made, UnderReview, vars
<1>3. OneAsk' /\ OneReview'
  BY DEF CallsInv, OneAsk, OneReview, PendingOf, Reviewing, vars
<1> QED
  BY <1>1, <1>2, <1>3 DEF CallsInv

DeskWaits(a, next) ==
  /\ \/ next.reviewing = desks[a].reviewing
     \/ desks[a].reviewing = None /\ (Apart => Reviewing = {})
     \/ /\ next.reviewing = None /\ desks[a].reviewing # None
        /\ answer[desks[a].reviewing.call] # None
  /\ next.refreshing => next.reviewing # None /\ answer[next.reviewing.call] # None

LEMMA DeskClicks ==
  ASSUME DeskTypeOK, OneReview, NEW a \in Admins,
         \/ LoadDesk(a) \/ OpenRevokeDialog(a) \/ CloseDialog(a)
         \/ ReviewAnswered(a) \/ RefreshAdminDocuments(a) \/ RevokeAnswered(a)
         \/ \E q \in Requests, verdict \in {"APPROVED", "REJECTED"} :
              OpenReviewDialog(a, q, verdict)
         \/ \E r \in Requests : HandleReviewRevokeRequest(a, r) \/ HandleRevoke(a, r)
  PROVE  \E next : OnDesk(a, next) /\ DeskWaits(a, next)
<1>0. /\ desks[a] \in Desk /\ Loaded(a) \in Desk
      /\ Loaded(a).reviewing = desks[a].reviewing /\ Loaded(a).refreshing = desks[a].refreshing
      /\ desks[a].refreshing =>
           desks[a].reviewing # None /\ answer[desks[a].reviewing.call] # None
  BY DeskRow, LoadedType DEF OneReview, Loaded, Desk
<1> DEFINE Waiting == \E next : OnDesk(a, next) /\ DeskWaits(a, next)
\* Most clicks leave what a page waits for as it is.
<1>1. ASSUME NEW next, OnDesk(a, next), next.reviewing = desks[a].reviewing,
             next.refreshing = desks[a].refreshing
      PROVE  Waiting
  BY <1>0, <1>1 DEF DeskWaits
<1>2. CASE LoadDesk(a) \/ OpenRevokeDialog(a) \/ CloseDialog(a)
  <2>1. PICK next : /\ OnDesk(a, next) /\ next.reviewing = desks[a].reviewing
                    /\ next.refreshing = desks[a].refreshing
    <3> SUFFICES
          LET loaded == [Loaded(a) EXCEPT !.dialog = None, !.revoke = FALSE]
              opened == [desks[a] EXCEPT !.revoke = TRUE]
              closed == [desks[a] EXCEPT !.dialog = None, !.revoke = FALSE]
          IN  \A next \in {loaded, opened, closed} :
                /\ next.reviewing = desks[a].reviewing
                /\ next.refreshing = desks[a].refreshing
      BY <1>2 DEF LoadDesk, OpenRevokeDialog, CloseDialog
    <3> QED
      BY <1>0 DEF Desk
  <2> QED
    BY <1>1, <2>1
<1>3. CASE ReviewAnswered(a)
  <2> DEFINE ok == [desks[a] EXCEPT !.dialog = None, !.refreshing = TRUE]
             error == [desks[a] EXCEPT !.reviewing = None]
  <2>1. /\ ok.reviewing = desks[a].reviewing
        /\ error.reviewing = None /\ error.refreshing = desks[a].refreshing
    BY <1>0 DEF Desk
  <2>2. desks[a].reviewing # None /\ ~desks[a].refreshing
        /\ answer[desks[a].reviewing.call] # None /\ (OnDesk(a, ok) \/ OnDesk(a, error))
    BY <1>3 DEF ReviewAnswered
  <2> HIDE DEF ok, error
  <2>3. DeskWaits(a, ok) /\ DeskWaits(a, error)
    BY <2>1, <2>2 DEF DeskWaits
  <2> QED
    BY <2>2, <2>3
<1>6. CASE RefreshAdminDocuments(a)
  <2>1. PICK next \in {Loaded(a), desks[a]} :
          OnDesk(a, [next EXCEPT !.refreshing = FALSE, !.reviewing = None])
    BY <1>6 DEF RefreshAdminDocuments
  <2> DEFINE new == [next EXCEPT !.refreshing = FALSE, !.reviewing = None]
  <2>2. new.reviewing = None /\ new.refreshing = FALSE
    BY <1>0 DEF Desk
  <2>3. desks[a].refreshing /\ OnDesk(a, new)
    BY <1>6, <2>1 DEF RefreshAdminDocuments
  <2> HIDE DEF new
  <2>4. DeskWaits(a, new)
    BY <1>0, <2>2, <2>3 DEF DeskWaits
  <2> QED
    BY <2>3, <2>4
<1>7. CASE RevokeAnswered(a)
  <2> DEFINE ok == [desks[a] EXCEPT !.revoked = TRUE, !.revoke = FALSE, !.revoking = None]
             error == [desks[a] EXCEPT !.revoking = None]
  <2>1. \A next \in {ok, error} : next.reviewing = desks[a].reviewing
                                  /\ next.refreshing = desks[a].refreshing
    BY <1>0 DEF Desk
  <2>2. OnDesk(a, ok) \/ OnDesk(a, error)
    BY <1>7 DEF RevokeAnswered
  <2> HIDE DEF ok, error
  <2> QED
    BY <1>1, <2>1, <2>2
<1>4. ASSUME NEW q \in Requests, NEW verdict \in {"APPROVED", "REJECTED"},
             OpenReviewDialog(a, q, verdict)
      PROVE  \E next : OnDesk(a, next) /\ DeskWaits(a, next)
  BY <1>0, <1>4 DEF OpenReviewDialog, DeskWaits, Desk
<1>5. ASSUME NEW r \in Requests, HandleReviewRevokeRequest(a, r) \/ HandleRevoke(a, r)
      PROVE  \E next : OnDesk(a, next) /\ DeskWaits(a, next)
  BY <1>0, <1>5 DEF HandleReviewRevokeRequest, HandleRevoke, DeskWaits, Desk
<1> QED
  BY <1>2, <1>3, <1>4, <1>5, <1>6, <1>7

LEMMA DeskKeeps ==
  ASSUME DeskTypeOK, TypeInv, CallsInv, UNCHANGED <<vars, answer, created, forms>>,
         NEW a \in Admins, NEW next, desks' = [desks EXCEPT ![a] = next], DeskWaits(a, next)
  PROVE  CallsInv'
<1>0. desks'[a] = next /\ \A b \in Admins \ {a} : desks'[b] = desks[b]
  BY DEF DeskTypeOK
<1>1. ASSUME NEW r \in Requests PROVE UnderReview(r)'
  <2> SUFFICES ASSUME snap[r].review # None
               PROVE  /\ Handler[r] = "review"
                      /\ \E b \in Admins : desks'[b].reviewing # None /\ desks'[b].reviewing.call = r
                      /\ Apart => asked[snap[r].review].status = "PENDING"
    BY DEF UnderReview, vars
  <2>1. UnderReview(r) /\ Answering(r)
    BY DEF CallsInv
  <2>2. PICK b \in Admins : desks[b].reviewing # None /\ desks[b].reviewing.call = r
    BY <2>1 DEF UnderReview
  <2>3. pc[r] \notin {"idle", "done"}
    BY <2>1, BlankType DEF Answering
  <2>4. answer[r] = None
    BY <2>1, <2>3 DEF Answering, UnderReview
  <2>5. desks'[b].reviewing = desks[b].reviewing
    BY <1>0, <2>2, <2>4 DEF DeskWaits
  <2> QED
    BY <2>1, <2>2, <2>5 DEF UnderReview
<1>2. ASSUME NEW r \in Requests PROVE Answering(r)' /\ Made(r)' /\ Asking(r)'
  BY DEF CallsInv, Answering, Made, Asking, PendingOf, vars
<1>3. OneAsk'
  BY DEF CallsInv, OneAsk, PendingOf, vars
<1>4. OneReview'
  <2>1. OneReview
    BY DEF CallsInv
  <2>2. \A b \in Admins : desks'[b].refreshing =>
          desks'[b].reviewing # None /\ answer[desks'[b].reviewing.call] # None
    BY <1>0, <2>1 DEF OneReview, DeskWaits
  <2>3. ASSUME Apart, NEW b \in Reviewing', NEW c \in Reviewing' PROVE b = c
    BY <1>0, <2>1, <2>3 DEF OneReview, DeskWaits, Reviewing
  <2> QED
    BY <2>2, <2>3 DEF OneReview
<1> QED
  BY <1>1, <1>2, <1>3, <1>4 DEF CallsInv

LEMMA ClickKeeps ==
  ASSUME DeskTypeOK, TypeInv, CallsInv, Click
  PROVE  CallsInv'
<1>0. UNCHANGED <<vars, answer, created>> /\ OneReview
  BY ClickStutters DEF CallsInv
<1>1. ASSUME NEW u \in Users,
             \/ LoadDetail(u) \/ RequestAnswered(u)
             \/ \E r \in Requests : SubmitRevokeRequest(u, r)
      PROVE  CallsInv'
  BY <1>0, <1>1, FormClicks, FormKeeps
<1>2. ASSUME NEW a \in Admins,
             \/ LoadDesk(a) \/ OpenRevokeDialog(a) \/ CloseDialog(a)
             \/ ReviewAnswered(a) \/ RefreshAdminDocuments(a) \/ RevokeAnswered(a)
             \/ \E q \in Requests, verdict \in {"APPROVED", "REJECTED"} :
                  OpenReviewDialog(a, q, verdict)
             \/ \E r \in Requests : HandleReviewRevokeRequest(a, r) \/ HandleRevoke(a, r)
      PROVE  CallsInv'
  <2>1. PICK next : OnDesk(a, next) /\ DeskWaits(a, next)
    BY <1>0, <1>2, DeskClicks
  <2> QED
    BY <1>0, <2>1, DeskKeeps DEF OnDesk
<1> QED
  BY <1>1, <1>2 DEF Click

-----------------------------------------------------------------------------
(* The server: what a handler does with what is asked.                     *)

LEMMA HandlerStep ==
  ASSUME TypeInv, NEW r \in Requests, Step(r) \/ ProofFails(r) \/ RevokeFails(r) \/ Fail(r)
  PROVE  /\ pc[r] \notin {"idle", "done"} /\ pc'[r] # "idle"
         /\ pc'[r] = "done" => snap'[r] = Blank
         /\ snap'[r].review \in {None, snap[r].review}
         /\ pc'[r] # "askPending"
         /\ pc'[r] = "askCreate" =>
              pc[r] = "askPending" /\ MayAsk(snap[r].user) /\ snap'[r] = snap[r]
<1>0. RequestTypes /\ snap[r] \in Snapshot /\ pc[r] \in Awaits /\ Blank.review = None
  BY Parts, BlankType DEF RequestTypes
<1>1. CASE SignCommit(r) \/ ProofIpfs(r) \/ ProofSend(r) \/ ProofReceipt(r) \/ ProofUpdate(r)
  <2>1. CASE SignCommit(r) \/ ProofUpdate(r)
    <3>1. [Blank EXCEPT !.hash = r].review = None
      BY DEF Blank
    <3> QED
      BY <1>0, <2>1, <3>1 DEF SignCommit, ProofUpdate, Finish, Goto, RequestTypes
  <2>2. CASE ProofIpfs(r)
    <3>1. PICK cid : Goto(r, "proofSend", [snap[r] EXCEPT !.cid = cid]) /\ pc[r] = "proofIpfs"
      BY <2>2 DEF ProofIpfs
    <3>2. [snap[r] EXCEPT !.cid = cid].review = snap[r].review
      BY <1>0 DEF Snapshot
    <3> QED
      BY <1>0, <3>1, <3>2 DEF Goto, RequestTypes
  <2>3. CASE ProofSend(r)
    BY <1>0, <2>3 DEF ProofSend, Send, Goto, RequestTypes
  <2>4. CASE ProofReceipt(r)
    <3>1. PICK recorded : Goto(r, "proofUpdate", [snap[r] EXCEPT !.recorded = recorded])
                          /\ pc[r] = "proofReceipt"
      BY <2>4 DEF ProofReceipt
    <3>2. [snap[r] EXCEPT !.recorded = recorded].review = snap[r].review
      BY <1>0 DEF Snapshot
    <3> QED
      BY <1>0, <3>1, <3>2 DEF Goto, RequestTypes
  <2> QED
    BY <1>1, <2>1, <2>2, <2>3, <2>4
<1>2. CASE ReviewRevoke(r) \/ RevokeSend(r) \/ RevokeReceipt(r) \/ RevokeUpdate(r) \/ RevokeFails(r)
  BY <1>0, <1>2 DEF ReviewRevoke, RevokeSend, RevokeReceipt, RevokeUpdate, RevokeFails,
                    LedgerFailed, Send, Finish, Goto, RequestTypes, Snapshot
<1>3. CASE AskPending(r) \/ AskCreate(r) \/ ReviewReject(r) \/ ReviewApprove(r)
  BY <1>0, <1>3 DEF AskPending, AskCreate, ReviewReject, ReviewApprove, Finish, Goto, RequestTypes
<1>4. CASE ProofFails(r) \/ Fail(r)
  BY <1>0, <1>4 DEF ProofFails, Fail, Running, Finish, Goto, RequestTypes
<1> QED
  BY <1>1, <1>2, <1>3, <1>4 DEF Step

\* Who asks is written when a request is created, and a review sets a verdict.
LEMMA AskedStep ==
  ASSUME TypeInv, NEW r \in Requests, Handle(r)
  PROVE  \/ UNCHANGED asked
         \/ AskCreate(r)
         \/ /\ pc[r] \in {"reviewReject", "reviewApprove"}
            /\ snap[r].review \in Requests /\ asked[snap[r].review] \in Ask
            /\ \E verdict \in {"APPROVED", "REJECTED"} :
                 asked' = [asked EXCEPT ![snap[r].review] = [@ EXCEPT !.status = verdict]]
<1>0. snap[r] \in Snapshot /\ Ready(r)
  BY DEF TypeInv, TypeOK
<1>1. CASE ReviewReject(r) \/ ReviewApprove(r)
  <2>1. pc[r] \in {"reviewReject", "reviewApprove"}
    BY <1>1 DEF ReviewReject, ReviewApprove
  <2>2. snap[r].review \in Requests /\ asked[snap[r].review] \in Ask
    BY <1>0, <2>1 DEF Ready, Snapshot
  <2> QED
    BY <1>1, <2>1, <2>2 DEF ReviewReject, ReviewApprove
<1>2. CASE ~ReviewReject(r) /\ ~ReviewApprove(r)
  BY <1>2 DEF Handle, Receive, SignRead, RevokeRead, AskRead, ReviewRead, Step, SignCommit,
     ProofIpfs, ProofSend, ProofReceipt, ProofUpdate, ReviewRevoke, RevokeSend,
     RevokeReceipt, RevokeUpdate, AskPending, ProofFails, RevokeFails, Fail
<1> QED
  BY <1>1, <1>2

LEMMA VerdictType ==
  ASSUME NEW row \in Ask, NEW verdict \in {"APPROVED", "REJECTED"}
  PROVE  /\ [row EXCEPT !.status = verdict] \in Ask
         /\ [row EXCEPT !.status = verdict].status # "PENDING"
  BY DEF Ask

LEMMA AskedRows ==
  ASSUME TypeInv, NEW r \in Requests, Handle(r)
  PROVE  /\ \A q \in Requests : asked[q] # None => asked'[q] # None
         /\ \A q \in Requests : asked'[q] # None => asked[q] # None \/ (q = r /\ AskCreate(r))
         /\ \A u \in Users, q \in Requests : q \in PendingOf(u)' =>
              q \in PendingOf(u) \/ (q = r /\ AskCreate(r) /\ u = snap[r].user)
<1>0. asked \in [Requests -> Ask \cup {None}] /\ None \notin Ask /\ snap[r] \in Snapshot /\ Ready(r)
  BY NoneIsNoRow DEF TypeInv, TypeOK
<1>1. CASE UNCHANGED asked
  BY <1>1 DEF PendingOf
<1>2. CASE AskCreate(r)
  <2> DEFINE row == [by |-> snap[r].user, status |-> "PENDING"]
  <2>1. snap[r].user \in Users
    BY <1>0, <1>2 DEF AskCreate, Ready
  <2>2. row \in Ask
    BY <2>1 DEF Ask
  <2>3. asked' = [asked EXCEPT ![r] = row]
    BY <1>2 DEF AskCreate
  <2>4. \A u \in Users : row = [by |-> u, status |-> "PENDING"] => u = snap[r].user
    OBVIOUS
  <2> HIDE DEF row
  <2>5. \A u \in Users, q \in Requests : q \in PendingOf(u)' =>
          q \in PendingOf(u) \/ (q = r /\ u = snap[r].user)
    BY <1>0, <2>3, <2>4 DEF PendingOf
  <2> QED
    BY <1>0, <1>2, <2>2, <2>3, <2>5
<1>3. ASSUME NEW verdict \in {"APPROVED", "REJECTED"},
             snap[r].review \in Requests, asked[snap[r].review] \in Ask,
             asked' = [asked EXCEPT ![snap[r].review] = [@ EXCEPT !.status = verdict]]
      PROVE  /\ \A q \in Requests : asked[q] # None => asked'[q] # None
             /\ \A q \in Requests : asked'[q] # None => asked[q] # None
             /\ \A u \in Users, q \in Requests : q \in PendingOf(u)' => q \in PendingOf(u)
  <2> DEFINE row == [asked[snap[r].review] EXCEPT !.status = verdict]
  <2>1. row \in Ask /\ row.status # "PENDING"
    BY <1>3, VerdictType
  <2>2. asked' = [asked EXCEPT ![snap[r].review] = row]
    BY <1>3
  <2> HIDE DEF row
  <2>3. \A u \in Users : row # [by |-> u, status |-> "PENDING"]
    BY <2>1
  <2> QED
    BY <1>0, <1>3, <2>1, <2>2, <2>3 DEF PendingOf
<1> QED
  BY <1>1, <1>2, <1>3, AskedStep

\* A superadmin reviews one request, and one superadmin at a time.
LEMMA OneReviewer ==
  ASSUME CallsInv, Apart, NEW r \in Requests, NEW q \in Requests,
         snap[r].review # None, snap[q].review # None
  PROVE  r = q
<1>1. PICK a \in Admins : desks[a].reviewing # None /\ desks[a].reviewing.call = r
  BY DEF CallsInv, UnderReview
<1>2. PICK b \in Admins : desks[b].reviewing # None /\ desks[b].reviewing.call = q
  BY DEF CallsInv, UnderReview
<1>3. a = b
  BY <1>1, <1>2 DEF CallsInv, OneReview, Reviewing
<1> QED
  BY <1>1, <1>2, <1>3

\* What is created is appended when it is.
Grows(r) ==
  /\ forms' = forms /\ desks' = desks
  /\ \A q \in ToSet(created') : q \in ToSet(created) \/ (q = r /\ asked'[q] # None)
  /\ \A q \in Requests \ {r} : answer'[q] = answer[q]
  /\ answer'[r] = answer[r] \/ (answer'[r] # None /\ pc'[r] = "done")

LEMMA OthersKeep ==
  ASSUME TypeInv, CallsInv, NEW r \in Requests, Handle(r), Grows(r),
         NEW q \in Requests, q # r
  PROVE  Answering(q)' /\ Asking(q)' /\ Made(q)' /\ UnderReview(q)'
<1>0. /\ pc'[q] = pc[q] /\ snap'[q] = snap[q] /\ answer'[q] = answer[q]
      /\ forms' = forms /\ desks' = desks
      /\ Answering(q) /\ Asking(q) /\ Made(q) /\ UnderReview(q)
      /\ snap[q] \in Snapshot /\ Ready(q)
  BY Isolated, Parts DEF Grows, CallsInv, TypeInv, TypeOK
<1>1. Answering(q)'
  BY <1>0 DEF Answering
<1>2. Asking(q)'
  <2> SUFFICES ASSUME NEW u \in Users, u = snap[q].user, pc[q] = "askCreate"
               PROVE  PendingOf(u)' = {}
    BY <1>0 DEF Asking, Ready, PendingOf
  <2>1. forms[u].call = q /\ PendingOf(u) = {}
    BY <1>0 DEF Asking
  <2>2. ~(AskCreate(r) /\ snap[r].user = u)
    BY <2>1 DEF AskCreate, CallsInv, Asking
  <2>3. \A p \in Requests : p \notin PendingOf(u)'
    BY <2>1, <2>2, AskedRows
  <2> QED
    BY <2>3 DEF PendingOf
<1>3. Made(q)'
  BY <1>0, AskedRows DEF Made, Grows
<1>4. UnderReview(q)'
  <2> SUFFICES ASSUME snap[q].review # None, Apart
               PROVE  asked'[snap[q].review].status = "PENDING"
    BY <1>0 DEF UnderReview
  <2>1. /\ snap[q].review \in Requests /\ asked[snap[q].review] \in Ask
        /\ asked[snap[q].review].status = "PENDING"
    BY <1>0 DEF Ready, Snapshot, UnderReview
  <2>2. snap[r].review = None
    BY OneReviewer
  <2>3. snap[q].review # r \/ ~AskCreate(r)
    BY <2>1, NoneIsNoRow DEF CallsInv, Made, AskCreate
  <2>4. asked'[snap[q].review] = asked[snap[q].review]
    BY <2>1, <2>2, <2>3, AskedStep, PublicationAssumption DEF AskCreate, TypeInv, TypeOK
  <2> QED
    BY <2>1, <2>4
<1> QED
  BY <1>1, <1>2, <1>3, <1>4

LEMMA RowsKeep ==
  ASSUME TypeInv, DeskTypeOK, CallsInv, NEW r \in Requests, Handle(r), Grows(r)
  PROVE  OneAsk' /\ OneReview'
<1>1. OneAsk'
  <2> SUFFICES ASSUME NEW u \in Users, NEW p \in PendingOf(u)', NEW q \in PendingOf(u)'
               PROVE  p = q
    BY DEF OneAsk
  <2>1. p \in Requests /\ q \in Requests
    BY DEF PendingOf
  <2>2. AskCreate(r) => PendingOf(snap[r].user) = {}
    BY DEF AskCreate, CallsInv, Asking
  <2> QED
    BY <2>1, <2>2, AskedRows DEF CallsInv, OneAsk
<1>2. OneReview'
  <2>1. \A a \in Admins : desks[a].reviewing # None /\ answer[desks[a].reviewing.call] # None =>
          answer'[desks[a].reviewing.call] # None
    <3> SUFFICES ASSUME NEW a \in Admins, desks[a].reviewing # None,
                        answer[desks[a].reviewing.call] # None
                 PROVE  answer'[desks[a].reviewing.call] # None
      OBVIOUS
    <3> QED
      BY DeskRow DEF Grows
  <2> QED
    BY <2>1 DEF CallsInv, OneReview, Reviewing, Grows
<1> QED
  BY <1>1, <1>2

\* A handler that goes on, fails or ends.
LEMMA ServedKeeps ==
  ASSUME TypeInv, DeskTypeOK, CallsInv, NEW r \in Requests, Serve(r) \/ Break(r)
  PROVE  CallsInv'
<1>0. /\ Answering(r) /\ Asking(r) /\ Made(r) /\ UnderReview(r) /\ snap[r] \in Snapshot
      /\ Step(r) \/ ProofFails(r) \/ RevokeFails(r) \/ Fail(r)
  BY DEF CallsInv, TypeInv, TypeOK, Serve, Break
<1>1. Handle(r)
  BY <1>0 DEF Handle
<1>2. Grows(r)
  <2>1. /\ \A q \in Requests \ {r} : answer'[q] = answer[q]
        /\ answer'[r] = answer[r] \/ (answer'[r] # None /\ pc'[r] = "done")
    BY DeskAssumption DEF Serve, Break, Answered, DeskTypeOK
  <2>2. \A q \in ToSet(created') : q \in ToSet(created) \/ (q = r /\ asked'[q] # None)
    <3>1. CASE created' = created
      BY <3>1
    <3>2. CASE pc[r] = "askCreate" /\ Step(r) /\ created' = Append(created, r)
      <4>1. AskCreate(r)
        BY <3>2 DEF Step, SignCommit, ProofIpfs, ProofSend, ProofReceipt, ProofUpdate,
           ReviewRevoke, RevokeSend, RevokeReceipt, RevokeUpdate, AskPending, ReviewReject,
           ReviewApprove
      <4>2. asked'[r] # None
        <5>1. [by |-> snap[r].user, status |-> "PENDING"] \in Ask
          BY <4>1 DEF AskCreate, TypeInv, Ready, Ask
        <5> QED
          BY <4>1, <5>1, NoneIsNoRow DEF AskCreate, TypeInv, TypeOK
      <4>3. ToSet(created') \subseteq ToSet(created) \cup {r}
        BY <3>2 DEF ToSet, DeskTypeOK
      <4> QED
        BY <4>2, <4>3
    <3> QED
      BY <3>1, <3>2 DEF Serve, Break
  <2> QED
    BY <2>1, <2>2 DEF Grows, Serve, Break
<1>3. Answering(r)'
  BY <1>0, <1>2, HandlerStep DEF Answering, Grows
<1>4. Asking(r)'
  <2> SUFFICES ASSUME pc'[r] = "askCreate" PROVE Asking(r)'
    BY <1>0, HandlerStep DEF Asking
  <2>1. /\ pc[r] = "askPending" /\ MayAsk(snap[r].user) /\ snap'[r] = snap[r]
        /\ snap[r].user \in Users
    BY <1>0, HandlerStep DEF TypeInv, Ready
  <2>2. PICK u \in Users : u = snap[r].user /\ PendingOf(u) = {}
    BY <2>1 DEF MayAsk
  <2>3. \A q \in Requests : q \notin PendingOf(u)'
    BY <1>1, <2>1, <2>2, AskedRows DEF AskCreate
  <2>4. PendingOf(u)' = {}
    BY <2>3 DEF PendingOf
  <2> QED
    BY <1>0, <1>2, <2>1, <2>2, <2>4 DEF Asking, Grows, PendingOf
<1>5. Made(r)'
  <2>1. asked[r] = None
    BY <1>0, HandlerStep DEF Made
  <2>2. AskCreate(r) => pc'[r] = "done"
    BY DEF AskCreate, Finish, Goto, TypeInv, TypeOK
  <2> QED
    BY <1>0, <1>1, <1>2, <2>1, <2>2, AskedRows DEF Made, Grows
<1>6. UnderReview(r)'
  <2> SUFFICES ASSUME snap'[r].review # None PROVE UnderReview(r)'
    BY DEF UnderReview
  <2>1. snap'[r].review = snap[r].review /\ pc'[r] # "done"
    BY <1>0, HandlerStep, BlankType
  <2>2. \/ ~AskCreate(r) /\ pc[r] \notin {"reviewReject", "reviewApprove"}
        \/ UNCHANGED asked
    BY <1>0, <2>1 DEF Step, SignCommit, ProofIpfs, ProofSend, ProofReceipt, ProofUpdate,
       ReviewRevoke, RevokeSend, RevokeReceipt, RevokeUpdate, AskPending, AskCreate,
       ReviewReject, ReviewApprove, ProofFails, RevokeFails, Fail, Finish, Goto, TypeInv, TypeOK
  <2>3. UNCHANGED asked
    BY <1>1, <2>2, AskedStep
  <2> QED
    BY <1>0, <1>2, <2>1, <2>3 DEF UnderReview, Grows
<1> QED
  BY <1>1, <1>2, <1>3, <1>4, <1>5, <1>6, OthersKeep, RowsKeep DEF CallsInv

\* A call that arrives, from a page that waits for it.
LEMMA ReceivedKeeps ==
  ASSUME TypeInv, DeskTypeOK, CallsInv, NEW r \in Requests, UNCHANGED pages,
         \/ SignRead(r)
         \/ RevokeRead(r) /\ answer[r] = None
         \/ \E u \in Users : AskRead(r, u) /\ answer[r] = None /\ forms[u].call = r
         \/ \E q \in Requests, a \in Admins :
              /\ ReviewRead(r, q) /\ answer[r] = None
              /\ desks[a].reviewing # None /\ desks[a].reviewing.call = r
  PROVE  CallsInv'
<1>0. /\ Answering(r) /\ Asking(r) /\ Made(r) /\ UnderReview(r)
      /\ pc \in [Requests -> Awaits] /\ snap \in [Requests -> Snapshot]
  BY DEF CallsInv, TypeInv, TypeOK
<1>1. Handle(r) /\ Grows(r) /\ pc[r] = "idle" /\ UNCHANGED asked
  BY DEF Handle, Receive, SignRead, RevokeRead, AskRead, ReviewRead, Arrives, Grows, pages
<1>2. Answering(r)' /\ Asking(r)' /\ Made(r)' /\ UnderReview(r)'
  <2>1. CASE SignRead(r)
    BY <1>0, <1>1, <2>1, BlankType
    DEF SignRead, Arrives, Goto, pages, Answering, Asking, Made, UnderReview
  <2>2. CASE RevokeRead(r) /\ answer[r] = None
    <3>1. [Blank EXCEPT !.hash = doc.hash].review = None
      BY DEF Blank
    <3> QED
      BY <1>0, <1>1, <2>2, <3>1
      DEF RevokeRead, Goto, pages, Answering, Asking, Made, UnderReview
  <2>3. ASSUME NEW u \in Users, AskRead(r, u), answer[r] = None, forms[u].call = r
        PROVE  Answering(r)' /\ Asking(r)' /\ Made(r)' /\ UnderReview(r)'
    <3>1. [Blank EXCEPT !.user = u].review = None /\ [Blank EXCEPT !.user = u].user = u
      BY DEF Blank
    <3> QED
      BY <1>0, <1>1, <2>3, <3>1
      DEF AskRead, Arrives, Goto, pages, Answering, Asking, Made, UnderReview
  <2>4. ASSUME NEW q \in Requests, NEW a \in Admins, ReviewRead(r, q), answer[r] = None,
               desks[a].reviewing # None, desks[a].reviewing.call = r
        PROVE  Answering(r)' /\ Asking(r)' /\ Made(r)' /\ UnderReview(r)'
    <3>1. [Blank EXCEPT !.review = q].review = q
      BY DEF Blank
    <3>2. snap'[r].review = q /\ pc'[r] \in {"reviewReject", "reviewRevoke"}
          /\ asked[q].status = "PENDING" /\ Handler[r] = "review"
      BY <1>0, <2>4, <3>1 DEF ReviewRead, Reviewable, Arrives, Goto
    <3> QED
      BY <1>0, <1>1, <2>4, <3>2 DEF pages, Answering, Asking, Made, UnderReview
  <2> QED
    BY <2>1, <2>2, <2>3, <2>4
<1> QED
  BY <1>1, <1>2, OthersKeep, RowsKeep DEF CallsInv

\* A call that is refused, and a transaction that is mined.
LEMMA RefusedKeeps ==
  ASSUME TypeInv, DeskTypeOK, CallsInv, NEW r \in Requests,
         Refuse(r) \/ (Mine(r) /\ UNCHANGED pages)
  PROVE  CallsInv'
<1>1. /\ UNCHANGED <<asked, pc, snap, forms, desks, created>>
      /\ \A q \in Requests : answer'[q] = answer[q] \/ (answer'[q] # None /\ pc[q] = "idle")
  BY DeskAssumption DEF Refuse, Mine, vars, pages, DeskTypeOK
<1>2. ASSUME NEW q \in Requests PROVE Answering(q)' /\ Asking(q)' /\ Made(q)' /\ UnderReview(q)'
  BY <1>1 DEF CallsInv, Answering, Asking, Made, UnderReview, PendingOf
<1>3. OneAsk'
  BY <1>1 DEF CallsInv, OneAsk, PendingOf
<1>4. OneReview'
  BY <1>1, DeskRow DEF CallsInv, OneReview, Reviewing
<1> QED
  BY <1>2, <1>3, <1>4 DEF CallsInv

LEMMA ServerKeeps == ASSUME TypeInv, DeskTypeOK, CallsInv, Server PROVE CallsInv'
<1>1. ASSUME NEW u \in Users, ReceiveAsk(u) PROVE CallsInv'
  <2>1. forms[u].call \in Requests /\ answer[forms[u].call] = None
    BY <1>1, FormRow DEF ReceiveAsk
  <2> QED
    BY <1>1, <2>1, ReceivedKeeps, RefusedKeeps DEF ReceiveAsk, Accept
<1>2. ASSUME NEW a \in Admins, ReceiveRevoke(a) PROVE CallsInv'
  <2>1. desks[a].revoking \in Requests /\ answer[desks[a].revoking] = None
    BY <1>2, DeskRow DEF ReceiveRevoke
  <2> QED
    BY <1>2, <2>1, ReceivedKeeps, RefusedKeeps DEF ReceiveRevoke, Accept
<1>3. ASSUME NEW a \in Admins, ReceiveReview(a) PROVE CallsInv'
  <2>1. /\ desks[a].reviewing # None /\ desks[a].reviewing.call \in Requests
        /\ desks[a].reviewing.of \in Requests /\ answer[desks[a].reviewing.call] = None
    BY <1>3, DeskRow DEF ReceiveReview
  <2> QED
    BY <1>3, <2>1, ReceivedKeeps, RefusedKeeps DEF ReceiveReview, Accept
<1> QED
  BY <1>1, <1>2, <1>3, ReceivedKeeps, RefusedKeeps, ServedKeeps DEF Server

LEMMA NextDesk == DeskInv /\ [DeskNext]_deskVars => DeskInv'
<1> SUFFICES ASSUME DeskInv, [DeskNext]_deskVars PROVE DeskInv'
  OBVIOUS
<1>0. TypeInv /\ DeskTypeOK /\ CallsInv /\ TypeInv'
  BY DeskRefines, TypesInductive DEF DeskInv
<1>1. CASE Click
  BY <1>0, <1>1, ClickTypes, ClickKeeps DEF DeskInv
<1>2. CASE Server
  BY <1>0, <1>2, ServerTypes, ServerKeeps DEF DeskInv
<1>3. CASE UNCHANGED deskVars
  <2>1. DeskTypeOK'
    BY <1>0, <1>3 DEF deskVars, pages, DeskTypeOK
  <2>2. ASSUME NEW r \in Requests PROVE Answering(r)' /\ Asking(r)' /\ Made(r)' /\ UnderReview(r)'
    BY <1>0, <1>3
    DEF deskVars, vars, pages, CallsInv, Answering, Asking, Made, UnderReview, PendingOf
  <2>3. OneAsk' /\ OneReview'
    BY <1>0, <1>3 DEF deskVars, vars, pages, CallsInv, OneAsk, OneReview, PendingOf, Reviewing
  <2> QED
    BY <1>0, <2>1, <2>2, <2>3 DEF DeskInv, CallsInv
<1> QED
  BY <1>1, <1>2, <1>3, DeskSteps

LEMMA DeskAlways == DeskSpec => []DeskInv
  BY InitDesk, NextDesk, PTL DEF DeskSpec

-----------------------------------------------------------------------------
\* Whatever is clicked, whenever calls arrive and are answered: the server of
\* Publication sees only requests it may see, and what is proved of it holds.
THEOREM DeskImplementsPublication == DeskSpec => Spec
<1>1. DeskInit => Init
  BY DEF DeskInit
<1>2. DeskInv /\ [DeskNext]_deskVars => [Next]_vars
  BY DeskRefines DEF DeskInv
<1> QED
  BY <1>1, <1>2, DeskAlways, PTL DEF DeskSpec, Spec

\* Rows and pages keep their types, and of no user do two revoke requests wait:
\* requestDocumentRevoke looks and creates in two steps, and the page makes one
\* request at a time.
THEOREM DeskAgreesAlways == DeskSpec => []DeskAgrees
<1>1. DeskInv => DeskAgrees
  <2> SUFFICES ASSUME DeskInv PROVE OneOpenAsk
    BY DEF DeskInv, TypeInv, DeskAgrees
  <2> SUFFICES ASSUME NEW u \in Users PROVE Cardinality(PendingOf(u)) <= 1
    BY DEF OneOpenAsk
  <2>1. \A p, q \in PendingOf(u) : p = q
    BY DEF DeskInv, CallsInv, OneAsk
  <2>2. CASE PendingOf(u) = {}
    BY <2>2, FS_EmptySet
  <2>3. CASE PendingOf(u) # {}
    <3>1. PICK p : p \in PendingOf(u)
      BY <2>3
    <3>2. PendingOf(u) = {p}
      BY <2>1, <3>1
    <3>3. Cardinality({p}) = 1
      BY FS_Singleton
    <3> QED
      BY <3>2, <3>3
  <2> QED
    BY <2>2, <2>3
<1> QED
  BY <1>1, DeskAlways, PTL

\* While superadmins review one at a time no verdict is overwritten, however
\* old their lists are: the review that waits for the ledger is the only one.
THEOREM VerdictsAreFinal ==
  ASSUME Apart
  PROVE  DeskSpec => VerdictStays
<1>1. DeskInv /\ [DeskNext]_deskVars =>
        [\A q \in ToSet(created) : asked[q].status # "PENDING" => asked'[q] = asked[q]]_deskVars
  <2> SUFFICES ASSUME DeskInv, DeskNext, NEW q \in ToSet(created), asked[q].status # "PENDING"
               PROVE  asked'[q] = asked[q]
    OBVIOUS
  <2>0. TypeInv /\ DeskTypeOK /\ CallsInv
    BY DEF DeskInv
  <2>1. q \in Requests /\ asked[q] # None
    BY <2>0 DEF DeskTypeOK, ToSet, CallsInv, Made
  <2>2. ASSUME NEW r \in Requests, Handle(r) PROVE asked'[q] = asked[q]
    <3>1. AskCreate(r) => q # r
      BY <2>0, <2>1 DEF AskCreate, CallsInv, Made
    <3>2. ASSUME pc[r] \in {"reviewReject", "reviewApprove"} PROVE q # snap[r].review
      <4>1. snap[r].review # None
        BY <2>0, <3>2 DEF TypeInv, Ready
      <4> QED
        BY <2>0, <4>1 DEF CallsInv, UnderReview
    <3>3. asked \in [Requests -> Ask \cup {None}]
      BY <2>0 DEF TypeInv, TypeOK
    <3>4. CASE AskCreate(r)
      BY <2>1, <3>1, <3>3, <3>4 DEF AskCreate
    <3>5. CASE ~AskCreate(r)
      <4>1. \/ UNCHANGED asked
            \/ /\ pc[r] \in {"reviewReject", "reviewApprove"}
               /\ \E row : asked' = [asked EXCEPT ![snap[r].review] = row]
        BY <2>0, <2>2, <3>5, AskedStep
      <4> QED
        BY <2>1, <3>2, <3>3, <4>1
    <3> QED
      BY <3>4, <3>5
  <2>3. CASE Click
    BY <2>3, ClickStutters DEF vars
  <2>4. CASE Server
    BY <2>0, <2>2, <2>4, ServerSteps DEF Mine, vars
  <2> QED
    BY <2>3, <2>4, DeskSteps
<1> QED
  BY <1>1, DeskAlways, PTL DEF DeskSpec, VerdictStays
==============================================================================
