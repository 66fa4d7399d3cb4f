------------------------------ MODULE Signing ------------------------------
(***************************************************************************)
(* The signing workflow of one document, from its upload: every handler of *)
(* CertificationService that writes the document, its signers, its         *)
(* signatures or its files, and the administrator's revocation.            *)
(*                                                                         *)
(* A handler runs alone between two awaits and interleaves with the others *)
(* at each of them.  One action is one database call (a $transaction takes *)
(* effect at its commit) or the file access of the code between two calls. *)
(* What a handler read stays in its snapshot until it uses it.             *)
(*                                                                         *)
(* A request is one HTTP call.  Its identifier also names the signer row   *)
(* it creates for a user, the signature it creates and the bytes it        *)
(* writes, so that no counter is needed.  A hash is the content hashed.    *)
(***************************************************************************)
EXTENDS Integers, FiniteSets

CONSTANTS
  Users, Owner,   \* users whose identity is approved; the uploader of the document
  Rank,           \* SIGNER_ROLE_RANK of each user's role
  Requests,       \* the requests that may be received, each once
  Handlers,       \* the handlers the requests may call
  MaxInFlight,    \* how many requests the server handles at a time
  Faults,         \* whether a handler may fail, or the server crash, at any await
  None            \* SQL NULL, or a file that does not exist

ASSUME SigningAssumption ==
  /\ IsFiniteSet(Users) /\ Owner \in Users /\ None \notin Users
  /\ Rank \in [Users -> Nat]
  /\ None \notin Requests
  /\ MaxInFlight \in Nat /\ Faults \in BOOLEAN

VARIABLES
  doc,         \* the Document row
  signers,     \* its DocumentSigner rows, at most one per user (@@unique)
  signatures,  \* its Signature rows
  disk,        \* the files stored for it
  pc,          \* the await each request is at
  snap         \* what each request has read so far

vars == <<doc, signers, signatures, disk, pc, snap>>

Statuses == {"DRAFT", "PENDING_SIGNATURES", "PARTIALLY_SIGNED", "FULLY_SIGNED", "REVOKED"}

FileNames == {"original", "prerendered", "signed"}

\* The request that last rewrote the pages of a PDF, and the signatures
\* embedded in it that a later rewrite of the pages has not broken.
Content == [pages : Requests \cup {None}, sigs : SUBSET Requests]

Original == [pages |-> None, sigs |-> {}]

SignerRow ==
  [id : Requests, status : {"PENDING", "SIGNED", "DECLINED"}, order : Nat,
   sig : Requests \cup {None}]

Signature == [id : Requests, signer : Users, order : Nat]

ASSUME NoneIsNoValue == None \notin SignerRow \cup Content \cup FileNames \cup Nat

Snapshot ==
  [user : Users \cup {None}, draft : BOOLEAN, unsigned : BOOLEAN, qr : BOOLEAN,
   order : [Users -> Nat], rows : [Users -> SignerRow \cup {None}],
   existing : SignerRow \cup {None}, required : Nat \cup {None},
   pending : Nat \cup {None}, last : Nat,
   file : FileNames \cup {None}, hash : Content \cup {None},
   source : Content \cup {None}]

Blank ==
  [user |-> None, draft |-> FALSE, unsigned |-> FALSE, qr |-> FALSE,
   order |-> [u \in Users |-> 0], rows |-> [u \in Users |-> None],
   existing |-> None, required |-> None, pending |-> None, last |-> 0,
   file |-> None, hash |-> None, source |-> None]

\* What the handlers read of the Document row.
ReadDocument(u) ==
  [Blank EXCEPT !.user = u, !.draft = doc.status = "DRAFT",
                !.unsigned = signatures = {}, !.qr = doc.qr,
                !.file = doc.final, !.hash = doc.hash]

-----------------------------------------------------------------------------
\* uploadDocument has just created the row and stored the file.
Init ==
  /\ doc = [exists |-> TRUE, status |-> "DRAFT", qr |-> FALSE, final |-> None, hash |-> None]
  /\ signers = [u \in Users |-> None]
  /\ signatures = {}
  /\ disk = [f \in FileNames |-> IF f = "original" THEN Original ELSE None]
  /\ pc = [r \in Requests |-> "idle"]
  /\ snap = [r \in Requests |-> Blank]

Goto(r, step, s) ==
  /\ pc' = [pc EXCEPT ![r] = step]
  /\ snap' = [snap EXCEPT ![r] = s]

Finish(r) == Goto(r, "done", Blank)

InFlight == {r \in Requests : pc[r] \notin {"idle", "done", "failed"}}

Arrives(r, handler) ==
  /\ handler \in Handlers
  /\ pc[r] = "idle"
  /\ Cardinality(InFlight) < MaxInFlight
  /\ doc.exists

PendingUsers == {u \in Users : signers[u] # None /\ signers[u].status = "PENDING"}

\* The rows "status = PENDING order by order asc" may return first.
NextPending ==
  {u \in PendingUsers : \A v \in PendingUsers : signers[u].order <= signers[v].order}

\* resolveDocumentPath: the final file if it is there, else the original,
\* else any stored file with one of the two hashes.
ResolveDocumentPath(final, hash) ==
  IF final # None /\ disk[final] # None THEN {final}
  ELSE IF disk["original"] # None THEN {"original"}
  ELSE {f \in FileNames : disk[f] # None /\ disk[f] \in {hash, Original}}

\* The row a handler saw is still the row of its user (update by row id).
StillThere(row, u) == signers[u] # None /\ signers[u].id = row.id

-----------------------------------------------------------------------------
(* startCertification *)

StartRead(r, u) ==
  /\ Arrives(r, "start")
  /\ u = Owner /\ doc.status = "DRAFT"
  /\ Goto(r, "startUpdate", ReadDocument(u))
  /\ UNCHANGED <<doc, signers, signatures, disk>>

StartUpdate(r) ==
  /\ pc[r] = "startUpdate"
  /\ doc' = IF doc.exists THEN [doc EXCEPT !.status = "PENDING_SIGNATURES"] ELSE doc
  /\ Finish(r)
  /\ UNCHANGED <<signers, signatures, disk>>

-----------------------------------------------------------------------------
(* requestSigners *)

SignerLists ==
  {l \in UNION {[1..n -> Users] : n \in 1..Cardinality(Users)} :
     \A i, j \in DOMAIN l : l[i] = l[j] => i = j}

\* Mutant: signers sign in the order they were named.
OrderOfMutant(list) ==
  [u \in Users |-> Cardinality({i \in DOMAIN list :
                     \E j \in DOMAIN list : list[j] = u /\ i <= j})]

\* Signers sign by role rank, then in the order they were named; 0: not named.
OrderOf(list) ==
  LET before(i, j) == \/ Rank[list[i]] < Rank[list[j]]
                      \/ Rank[list[i]] = Rank[list[j]] /\ i <= j
  IN [u \in Users |-> Cardinality({i \in DOMAIN list :
                        \E j \in DOMAIN list : list[j] = u /\ before(i, j)})]

\* Mutant: signers may be changed after the first signature.
MayRequestSignersMutant(u) == u = Owner /\ doc.status # "REVOKED"

MayRequestSigners(u) == u = Owner /\ doc.status # "REVOKED" /\ signatures = {}

RequestRead(r, u, list) ==
  /\ Arrives(r, "request")
  /\ MayRequestSigners(u)
  /\ Goto(r, "requestExisting", [ReadDocument(u) EXCEPT !.order = OrderOf(list)])
  /\ UNCHANGED <<doc, signers, signatures, disk>>

Named(r, u) == snap[r].order[u] # 0

RequestReadExisting(r) ==
  /\ pc[r] = "requestExisting"
  /\ Goto(r, "requestOmitted", [snap[r] EXCEPT !.rows =
       [u \in Users |-> IF Named(r, u) THEN signers[u] ELSE None]])
  /\ UNCHANGED <<doc, signers, signatures, disk>>

\* The first query of the transaction; the signed may not be omitted.
RequestReadOmitted(r) ==
  /\ pc[r] = "requestOmitted"
  /\ \/ /\ \A u \in Users : signers[u] # None /\ signers[u].status = "SIGNED" => Named(r, u)
        /\ Goto(r, "requestCommit", [snap[r] EXCEPT !.rows =
             [u \in Users |-> IF Named(r, u) THEN @[u] ELSE signers[u]]])
     \/ /\ \E u \in Users : signers[u] # None /\ signers[u].status = "SIGNED" /\ ~Named(r, u)
        /\ Finish(r)
  /\ UNCHANGED <<doc, signers, signatures, disk>>

\* The row of u after the writes of the transaction, that act on the rows
\* read before: a signer not named is deleted, whatever it became since.
RequestedRow(r, u) ==
  LET seen == snap[r].rows[u] n == snap[r].order[u] IN
  CASE ~Named(r, u) ->
         IF seen # None /\ StillThere(seen, u) THEN None ELSE signers[u]
    [] Named(r, u) /\ seen = None ->
         [id |-> r, status |-> "PENDING", order |-> n, sig |-> None]
    [] Named(r, u) /\ seen # None ->
         IF seen.status = "DECLINED"
         THEN [signers[u] EXCEPT !.status = "PENDING", !.sig = None, !.order = n]
         ELSE IF seen.status = "PENDING" THEN [signers[u] EXCEPT !.order = n]
         ELSE signers[u]

\* A unique or a missing row, or a signed row that would move, aborts.
RequestMayCommit(r) ==
  /\ doc.exists
  /\ \A u \in Users : Named(r, u) =>
       LET seen == snap[r].rows[u] IN
       IF seen = None THEN signers[u] = None
       ELSE IF seen.status = "SIGNED" THEN seen.order = snap[r].order[u]
       ELSE StillThere(seen, u)

RequestCommit(r) ==
  /\ pc[r] = "requestCommit"
  /\ IF RequestMayCommit(r)
     THEN /\ signers' = [u \in Users |-> RequestedRow(r, u)]
          /\ doc' = IF snap[r].draft THEN [doc EXCEPT !.status = "PENDING_SIGNATURES"] ELSE doc
          /\ Goto(r, "requestSource", snap[r])
     ELSE Finish(r) /\ UNCHANGED <<doc, signers>>
  /\ UNCHANGED <<signatures, disk>>

\* After the commit: QR code and signature images drawn over the original.
RequestReadSource(r) ==
  /\ pc[r] = "requestSource"
  /\ IF ResolveDocumentPath(None, Original) # {}
     THEN Goto(r, "requestPreRender", snap[r])
     ELSE Finish(r)
  /\ UNCHANGED <<doc, signers, signatures, disk>>

RequestPreRender(r) ==
  /\ pc[r] = "requestPreRender"
  /\ disk' = [disk EXCEPT !["prerendered"] = [pages |-> r, sigs |-> {}]]
  /\ Goto(r, "requestFinal", snap[r])
  /\ UNCHANGED <<doc, signers, signatures>>

RequestUpdateFinal(r) ==
  /\ pc[r] = "requestFinal"
  /\ doc' = IF doc.exists
            THEN [doc EXCEPT !.final = "prerendered", !.qr = TRUE,
                             !.hash = [pages |-> r, sigs |-> {}]]
            ELSE doc
  /\ Finish(r)
  /\ UNCHANGED <<signers, signatures, disk>>

-----------------------------------------------------------------------------
(* signDocument *)

\* The document is not revoked; with signers required, u is one that has
\* neither signed nor declined; with none, u is the owner.
MaySign(u) ==
  /\ doc.status # "REVOKED"
  /\ IF \A v \in Users : signers[v] = None THEN u = Owner
     ELSE signers[u] # None /\ signers[u].status = "PENDING"

SignRead(r, u) ==
  /\ Arrives(r, "sign")
  /\ MaySign(u)
  /\ Goto(r, IF signers[u] = None THEN "signExisting" ELSE "signNext", ReadDocument(u))
  /\ UNCHANGED <<doc, signers, signatures, disk>>

\* Mutant: the order of signing is not enforced.
TurnMutant(r, next) == TRUE

\* No signer is pending, or the first of them is the caller.
Turn(r, next) == next = None \/ next = snap[r].user

\* findFirst of the pending signers; equal orders leave the choice open.
ReadNext(r, step, then) ==
  /\ pc[r] = step
  /\ \E next \in IF PendingUsers = {} THEN {None} ELSE NextPending :
       IF Turn(r, next) THEN Goto(r, then, snap[r]) ELSE Finish(r)
  /\ UNCHANGED <<doc, signers, signatures, disk>>

SignReadNext(r) == ReadNext(r, "signNext", "signExisting")

\* The path of the source is resolved, then the caller's signer row is read.
SignReadExisting(r) ==
  LET paths == ResolveDocumentPath(snap[r].file, snap[r].hash)
      row == signers[snap[r].user] IN
  /\ pc[r] = "signExisting"
  /\ IF paths # {} /\ (row # None => row.status # "SIGNED")
     THEN \E path \in paths :
            Goto(r, "signCount", [snap[r] EXCEPT !.file = path, !.existing = row])
     ELSE Finish(r)
  /\ UNCHANGED <<doc, signers, signatures, disk>>

\* The two counts are sent together and answered in either order.
SignCountRequired(r) ==
  /\ pc[r] = "signCount" /\ snap[r].required = None
  /\ Goto(r, "signCount", [snap[r] EXCEPT !.required =
       Cardinality({u \in Users : signers[u] # None})])
  /\ UNCHANGED <<doc, signers, signatures, disk>>

SignCountPending(r) ==
  /\ pc[r] = "signCount" /\ snap[r].pending = None
  /\ Goto(r, "signCount", [snap[r] EXCEPT !.pending =
       Cardinality({u \in Users : signers[u] # None /\ signers[u].status # "SIGNED"})])
  /\ UNCHANGED <<doc, signers, signatures, disk>>

\* The source is read where its path was; without a QR code it must be unsigned.
SignReadSource(r) ==
  LET s == snap[r] IN
  /\ pc[r] = "signCount" /\ s.required # None /\ s.pending # None
  /\ IF disk[s.file] # None /\ (s.qr \/ s.unsigned)
     THEN Goto(r, IF s.qr THEN "signSave" ELSE "signQr",
               [s EXCEPT !.source = disk[s.file]])
     ELSE Finish(r)
  /\ UNCHANGED <<doc, signers, signatures, disk>>

SignPlaceQr(r) ==
  /\ pc[r] = "signQr"
  /\ IF doc.exists
     THEN doc' = [doc EXCEPT !.qr = TRUE] /\ Goto(r, "signSave", snap[r])
     ELSE Finish(r) /\ UNCHANGED doc
  /\ UNCHANGED <<signers, signatures, disk>>

\* The first signature draws on the pages; the later ones append a revision.
SignedContent(r) ==
  IF snap[r].unsigned
  THEN [pages |-> r, sigs |-> {r}]
  ELSE [snap[r].source EXCEPT !.sigs = @ \cup {r}]

SignSaveFile(r) ==
  /\ pc[r] = "signSave"
  /\ disk' = [disk EXCEPT !["signed"] = SignedContent(r)]
  /\ Goto(r, "signOrder", [snap[r] EXCEPT !.source = SignedContent(r)])
  /\ UNCHANGED <<doc, signers, signatures>>

Orders == {s.order : s \in signatures}

SignReadOrder(r) ==
  /\ pc[r] = "signOrder"
  /\ \E n \in Orders \cup {0} :
       /\ \A m \in Orders : m <= n
       /\ Goto(r, "signCommit", [snap[r] EXCEPT !.last = n])
  /\ UNCHANGED <<doc, signers, signatures, disk>>

\* Mutant: the order of the caller's row instead of the order of signatures.
NextOrderMutant(r) == IF snap[r].existing = None THEN 1 ELSE snap[r].existing.order

NextOrder(r) == snap[r].last + 1

\* A signature of that order, a second row of the user or a missing row or
\* document aborts the transaction.
SignMayCommit(r) ==
  LET s == snap[r] IN
  /\ doc.exists
  /\ NextOrder(r) \notin Orders
  /\ IF s.existing = None THEN signers[s.user] = None ELSE StillThere(s.existing, s.user)

\* Mutant: a new signer row does not name the signature.
SignedRowMutant(r) ==
  IF snap[r].existing = None
  THEN [id |-> r, status |-> "SIGNED", order |-> NextOrder(r), sig |-> None]
  ELSE [signers[snap[r].user] EXCEPT !.status = "SIGNED", !.sig = r]

SignedRow(r) ==
  IF snap[r].existing = None
  THEN [id |-> r, status |-> "SIGNED", order |-> NextOrder(r), sig |-> r]
  ELSE [signers[snap[r].user] EXCEPT !.status = "SIGNED", !.sig = r]

\* No signer was required, or the caller's row was the only one not signed.
LastToSign(r) ==
  LET s == snap[r] IN
  s.required = 0 \/ s.pending - (IF s.existing = None THEN 0 ELSE 1) = 0

SignCommit(r) ==
  /\ pc[r] = "signCommit"
  /\ IF SignMayCommit(r)
     THEN /\ signatures' = signatures \cup
               {[id |-> r, signer |-> snap[r].user, order |-> NextOrder(r)]}
          /\ signers' = [signers EXCEPT ![snap[r].user] = SignedRow(r)]
          /\ doc' = [doc EXCEPT !.status = IF LastToSign(r) THEN "FULLY_SIGNED"
                                           ELSE "PARTIALLY_SIGNED",
                                !.final = "signed", !.hash = snap[r].source]
     ELSE UNCHANGED <<doc, signers, signatures>>
  /\ Finish(r)
  /\ UNCHANGED disk

-----------------------------------------------------------------------------
(* declineDocument *)

DeclineRead(r, u) ==
  /\ Arrives(r, "decline")
  /\ doc.status # "REVOKED"
  /\ signers[u] # None /\ signers[u].status = "PENDING"
  /\ Goto(r, "declineNext", [ReadDocument(u) EXCEPT !.existing = signers[u]])
  /\ UNCHANGED <<doc, signers, signatures, disk>>

DeclineReadNext(r) == ReadNext(r, "declineNext", "declineCommit")

DeclinedStatus == "REVOKED"

DeclineCommit(r) ==
  LET s == snap[r] IN
  /\ pc[r] = "declineCommit"
  /\ IF doc.exists /\ StillThere(s.existing, s.user)
     THEN /\ signers' = [signers EXCEPT ![s.user].status = "DECLINED"]
          /\ doc' = [doc EXCEPT !.status = DeclinedStatus]
     ELSE UNCHANGED <<doc, signers>>
  /\ Finish(r)
  /\ UNCHANGED <<signatures, disk>>

-----------------------------------------------------------------------------
(* finalizeQr *)

QrRead(r, u) ==
  /\ Arrives(r, "finalizeQr")
  /\ u = Owner /\ signatures = {} /\ ~doc.qr
  /\ doc.status \in {"DRAFT", "PENDING_SIGNATURES"}
  /\ Goto(r, "qrSource", ReadDocument(u))
  /\ UNCHANGED <<doc, signers, signatures, disk>>

QrReadSource(r) ==
  /\ pc[r] = "qrSource"
  /\ IF ResolveDocumentPath(snap[r].file, snap[r].hash) # {}
     THEN Goto(r, "qrSave", snap[r])
     ELSE Finish(r)
  /\ UNCHANGED <<doc, signers, signatures, disk>>

\* Drawing the QR code rewrites the pages, whatever they were.
QrSaveFile(r) ==
  /\ pc[r] = "qrSave"
  /\ disk' = [disk EXCEPT !["signed"] = [pages |-> r, sigs |-> {}]]
  /\ Goto(r, "qrUpdate", snap[r])
  /\ UNCHANGED <<doc, signers, signatures>>

QrUpdate(r) ==
  /\ pc[r] = "qrUpdate"
  /\ doc' = IF doc.exists
            THEN [doc EXCEPT !.final = "signed", !.qr = TRUE,
                             !.hash = [pages |-> r, sigs |-> {}]]
            ELSE doc
  /\ Finish(r)
  /\ UNCHANGED <<signers, signatures, disk>>

-----------------------------------------------------------------------------
(* deleteDraftDocument *)

Deletable == doc.status = "DRAFT"

DeleteRead(r, u) ==
  /\ Arrives(r, "delete")
  /\ u = Owner /\ Deletable
  /\ Goto(r, "deleteFile", ReadDocument(u))
  /\ UNCHANGED <<doc, signers, signatures, disk>>

DeleteFile(r) ==
  LET paths == ResolveDocumentPath(snap[r].file, snap[r].hash) IN
  /\ pc[r] = "deleteFile"
  /\ \/ paths = {} /\ UNCHANGED disk
     \/ \E path \in paths : disk' = [disk EXCEPT ![path] = None]
  /\ Goto(r, "deleteRow", snap[r])
  /\ UNCHANGED <<doc, signers, signatures>>

\* The signers and the signatures go with the document (onDelete: Cascade).
DeleteRow(r) ==
  /\ pc[r] = "deleteRow"
  /\ doc' = [exists |-> FALSE, status |-> "DRAFT", qr |-> FALSE, final |-> None, hash |-> None]
  /\ signers' = [u \in Users |-> None]
  /\ signatures' = {}
  /\ Finish(r)
  /\ UNCHANGED disk

-----------------------------------------------------------------------------
(* AdminService.revokeDocument; the call to the contract between its two    *)
(* steps changes nothing here.                                             *)

RevokeRead(r) ==
  /\ Arrives(r, "revoke")
  /\ doc.status # "REVOKED" /\ doc.hash # None
  /\ Goto(r, "revokeUpdate", Blank)
  /\ UNCHANGED <<doc, signers, signatures, disk>>

RevokeUpdate(r) ==
  /\ pc[r] = "revokeUpdate"
  /\ doc' = IF doc.exists THEN [doc EXCEPT !.status = "REVOKED"] ELSE doc
  /\ Finish(r)
  /\ UNCHANGED <<signers, signatures, disk>>

-----------------------------------------------------------------------------
\* An await rejects, a later check throws, or the server goes down: what was
\* written stays and nothing resumes the handler.
Fail(r) ==
  /\ Faults
  /\ r \in InFlight
  /\ Goto(r, "failed", Blank)
  /\ UNCHANGED <<doc, signers, signatures, disk>>

Receive(r) ==
  \/ \E u \in Users :
       \/ StartRead(r, u) \/ SignRead(r, u) \/ DeclineRead(r, u)
       \/ QrRead(r, u) \/ DeleteRead(r, u)
       \/ \E list \in SignerLists : RequestRead(r, u, list)
  \/ RevokeRead(r)

Step(r) ==
  \/ StartUpdate(r)
  \/ RequestReadExisting(r) \/ RequestReadOmitted(r) \/ RequestCommit(r)
  \/ RequestReadSource(r) \/ RequestPreRender(r) \/ RequestUpdateFinal(r)
  \/ SignReadNext(r) \/ SignReadExisting(r) \/ SignCountRequired(r)
  \/ SignCountPending(r) \/ SignReadSource(r) \/ SignPlaceQr(r)
  \/ SignSaveFile(r) \/ SignReadOrder(r) \/ SignCommit(r)
  \/ DeclineReadNext(r) \/ DeclineCommit(r)
  \/ QrReadSource(r) \/ QrSaveFile(r) \/ QrUpdate(r)
  \/ DeleteFile(r) \/ DeleteRow(r)
  \/ RevokeUpdate(r)

Next == \E r \in Requests : Receive(r) \/ Step(r) \/ Fail(r)

Spec == Init /\ [][Next]_vars

-----------------------------------------------------------------------------
Awaits ==
  {"idle", "startUpdate", "requestExisting", "requestOmitted", "requestCommit",
   "requestSource", "requestPreRender", "requestFinal", "signNext", "signExisting",
   "signCount", "signQr", "signSave", "signOrder", "signCommit", "declineNext",
   "declineCommit", "qrSource", "qrSave", "qrUpdate", "deleteFile", "deleteRow",
   "revokeUpdate", "done", "failed"}

\* Every row, file and snapshot has the type of its column or variable.
TypeOK ==
  /\ doc \in [exists : BOOLEAN, status : Statuses, qr : BOOLEAN,
              final : FileNames \cup {None}, hash : Content \cup {None}]
  /\ signers \in [Users -> SignerRow \cup {None}]
  /\ signatures \subseteq Signature
  /\ disk \in [FileNames -> Content \cup {None}]
  /\ pc \in [Requests -> Awaits]
  /\ snap \in [Requests -> Snapshot]

-----------------------------------------------------------------------------
(* What holds however the requests interleave and fail. *)

(* The signatures are numbered 1, 2, 3, ... without a gap or a repetition, *)
(* although the number is computed from a maximum read before the          *)
(* transaction (signDocument): the unique index turns each race into an    *)
(* abort, and no abort may leave a hole.                                   *)
GapFreeOrders ==
  /\ \A s, t \in signatures : s.order = t.order => s = t
  /\ \A s \in signatures : \A k \in 1..s.order : k \in Orders

(* A signer row is SIGNED only with a signature of that same user behind   *)
(* it, whatever the races between signing, asking again, declining and     *)
(* deleting the document do to the row.                                    *)
SignedRowHasSignature ==
  \A u \in Users : signers[u] # None /\ signers[u].status = "SIGNED" =>
    \E s \in signatures : s.id = signers[u].sig /\ s.signer = u

-----------------------------------------------------------------------------
(* What holds when the server handles one request at a time, even if       *)
(* handlers fail between two writes.  Concurrent requests break each of    *)
(* these, as the README lists.                                             *)

SignedUsers == {u \in Users : signers[u] # None /\ signers[u].status = "SIGNED"}

(* FULLY_SIGNED means that every signer signed ("Semua pihak telah         *)
(* menandatangani"), PARTIALLY_SIGNED that some did and that another is    *)
(* still to sign, and a signature leaves no other status than these and    *)
(* REVOKED.                                                                *)
StatusMatchesSigners ==
  /\ doc.status = "FULLY_SIGNED" =>
       signatures # {} /\ \A u \in Users : signers[u] # None => u \in SignedUsers
  /\ doc.status = "PARTIALLY_SIGNED" => SignedUsers # {} /\ PendingUsers # {}
  /\ signatures # {} => doc.status \in {"PARTIALLY_SIGNED", "FULLY_SIGNED", "REVOKED"}

(* A signer signs only after every signer of a lower order, and the        *)
(* signatures are numbered in that order ("Dokumen harus ditandatangani    *)
(* sesuai urutan").                                                        *)
SigningFollowsOrder ==
  \A u, v \in Users :
    signers[u] # None /\ signers[v] # None /\ signers[u].order < signers[v].order
      /\ v \in SignedUsers =>
      /\ u \in SignedUsers
      /\ \A s, t \in signatures : s.signer = u /\ t.signer = v => s.order < t.order

(* Every signature is the one its signer's row names: nobody signs twice,  *)
(* and no signer who signed is removed or reset.                           *)
OneSignaturePerSigner ==
  \A s \in signatures : s.signer \in SignedUsers /\ signers[s.signer].sig = s.id

(* All rows have their types, and those of the document, of its signers    *)
(* and of its signatures agree.                                            *)
RowsAgree ==
  TypeOK /\ StatusMatchesSigners /\ SigningFollowsOrder /\ OneSignaturePerSigner

(* The file whose hash the document publishes carries every signature the  *)
(* database lists.                                                         *)
FinalFileHasAllSignatures ==
  \A s \in signatures : doc.hash # None /\ s.id \in doc.hash.sigs

Undisturbed == \A r \in Requests : pc[r] \in {"idle", "done"}

(* As long as no request failed it carries no other, and the stored file   *)
(* is the one that was hashed.                                             *)
FinalFileIsRecorded ==
  /\ FinalFileHasAllSignatures
  /\ Undisturbed /\ doc.exists /\ doc.final # None =>
       /\ doc.hash.sigs = {s.id : s \in signatures}
       /\ disk[doc.final] = doc.hash

-----------------------------------------------------------------------------
Workflow == INSTANCE SigningWorkflow WITH
  status <- IF doc.exists THEN doc.status ELSE "DELETED",
  turn <- [u \in Users |-> IF signers[u] = None THEN 0 ELSE signers[u].order],
  signed <- {s.signer : s \in signatures}

(* One request at a time, with failures and crashes at any await, the      *)
(* handlers together implement the workflow: no sequence of calls shows    *)
(* the users a step that the workflow does not have; REVOKED is final, and *)
(* no signed document is deleted.                                          *)
ImplementsWorkflow == Workflow!WfSpec
=============================================================================
