------------------------- MODULE PublicVerification -------------------------
(***************************************************************************)
(* The two public pages and what they are told: verifyDocument, which      *)
(* reads a document and then its record on the ledger, and                 *)
(* inspectDocument, which reads the record of a file and then has its      *)
(* signatures judged by two validators, while anybody may transact with    *)
(* the ledger, the final file is uploaded and an administrator revokes.    *)
(*                                                                         *)
(* A PDF is what the validators find in it.  Answers change nothing, so    *)
(* that one visitor at a time stands for any number.                       *)
(***************************************************************************)
EXTENDS DocumentHashRegistry, Ipfs

CONSTANTS
  FinalHash,    \* the hash of the final file of the document, signed by all
  Pdfs          \* the PDF files there are, as the validators see them

VARIABLES
  doc,          \* the Document row
  revoking,     \* whether AdminService.revokeDocument was answered by the ledger
  visit         \* what the visitor has been told so far

vars == <<issuers, recordsByHash, now, stored, upload, doc, revoking, visit>>

server == <<stored, upload, doc, revoking>>

-----------------------------------------------------------------------------
(* The signatures of a PDF *)

Integrity == {"INTACT", "MODIFIED", "CANNOT_VERIFY"}

\* Whether its names mention DOCChain (isDocchainSignature).
Signature == [integrity : Integrity, docchain : BOOLEAN]

\* What the parser finds between the brackets of a /ByteRange.
Entry == [readable : BOOLEAN, digest : {"none", "same", "other"}, docchain : BOOLEAN]

\* What verify-pdf says of a signature.
Verdict == [integrity : {"true", "false", "undefined"}, docchain : BOOLEAN]

ASSUME VerificationAssumption ==
  /\ FinalHash \in Hashes \ {ZeroHash} /\ FinalHash \in Files
  /\ Pdfs \subseteq [entries : Seq(Entry), verdicts : Seq(Verdict)]

UnreadableSignature == [integrity |-> "CANNOT_VERIFY", docchain |-> FALSE]

ParseSignatureContent(e) ==
  [integrity |-> CASE e.digest = "same" -> "INTACT" [] e.digest = "other" -> "MODIFIED"
                   [] e.digest = "none" -> "CANNOT_VERIFY",
   docchain |-> e.docchain]

ExtractPdfSignatures(pdf) ==
  [i \in DOMAIN pdf.entries |->
     IF pdf.entries[i].readable THEN ParseSignatureContent(pdf.entries[i]) ELSE UnreadableSignature]

\* mapIntegrity
Validate(pdf) ==
  [i \in DOMAIN pdf.verdicts |->
     [integrity |-> CASE pdf.verdicts[i].integrity = "true" -> "INTACT"
                      [] pdf.verdicts[i].integrity = "false" -> "MODIFIED"
                      [] OTHER -> "CANNOT_VERIFY",
      docchain |-> pdf.verdicts[i].docchain]]

\* Mutant: the second validator has the last word whenever it has one.
MergedIntegrityMutant(internal, verified) ==
  IF verified = "CANNOT_VERIFY" THEN internal ELSE verified

MergedIntegrity(internal, verified) ==
  IF verified = "MODIFIED" \/ (internal = "CANNOT_VERIFY" /\ verified = "INTACT")
  THEN verified ELSE internal

\* mergeSignatureValidationDetails
Merge(internal, verified) ==
  IF verified = <<>> THEN internal
  ELSE IF internal = <<>> THEN verified
  ELSE [i \in DOMAIN internal \cup DOMAIN verified |->
          IF i > Len(internal) THEN verified[i]
          ELSE IF i > Len(verified) THEN internal[i]
          ELSE [internal[i] EXCEPT !.integrity = MergedIntegrity(@, verified[i].integrity)]]

SignaturesOf(pdf) == Merge(ExtractPdfSignatures(pdf), Validate(pdf))

-----------------------------------------------------------------------------
(* The decision of inspectDocument *)

Record == [exists : BOOLEAN, revoked : BOOLEAN]

\* What getRecordByHash makes of a call that failed looks like no record.
NoRecord == [exists |-> FALSE, revoked |-> FALSE]

Modified(signatures) == \E s \in Range(signatures) : s.integrity = "MODIFIED"

Intact(signatures) == \A s \in Range(signatures) : s.integrity = "INTACT"

ProblematicDocchain(signatures) ==
  \E s \in Range(signatures) : s.docchain /\ s.integrity # "INTACT"

OverallStatus(record, signatures) ==
  IF record.exists /\ Modified(signatures) THEN "MODIFIED"
  ELSE IF ~record.exists /\ ProblematicDocchain(signatures) THEN "MODIFIED"
  ELSE IF ~record.exists THEN "NOT_RECORDED"
  ELSE IF record.revoked THEN "REVOKED"
  ELSE IF signatures = <<>> THEN "NO_SIGNATURES"
  ELSE IF Intact(signatures) THEN "VALID"
  ELSE "PARTIAL"

Verified(status, record) == status = "VALID" /\ record.exists /\ ~record.revoked

-----------------------------------------------------------------------------
(* What the page of inspections shows: the decision and four tiles *)

Decisions ==
  [VALID |-> "Valid", MODIFIED |-> "Tidak valid", NO_SIGNATURES |-> "Belum lengkap",
   PARTIAL |-> "Perlu pemeriksaan", NOT_RECORDED |-> "Tidak terdaftar", REVOKED |-> "Dicabut"]

OnChain(record, absent) ==
  IF ~record.exists THEN absent ELSE IF record.revoked THEN "Dicabut" ELSE "Aktif"

ShouldShowDetails(record, found, signatures) ==
  record.exists \/ found \/ \E s \in Range(signatures) : s.docchain

SignatureTile(signatures, details) ==
  IF signatures = <<>> THEN "Tidak ada"
  ELSE IF ~details THEN "eksternal"
  ELSE IF Modified(signatures) THEN "Bermasalah"
  ELSE IF Intact(signatures) THEN "Utuh" ELSE "Perlu cek"

SourceTile(record, found, details) ==
  IF found \/ record.exists THEN "DOCChain"
  ELSE IF details THEN "Terindikasi DOCChain" ELSE "Bukan DOCChain"

Inspection(record, found, signatures) ==
  LET status == OverallStatus(record, signatures)
      details == ShouldShowDetails(record, found, signatures)
  IN [page |-> "inspect", decision |-> Decisions[status], verified |-> Verified(status, record),
      onChain |-> OnChain(record, "Tidak tercatat"),
      hash |-> IF record.exists THEN "Cocok" ELSE "Tidak ditemukan",
      signature |-> SignatureTile(signatures, details),
      source |-> SourceTile(record, found, details),
      external |-> signatures # <<>> /\ ~details]

\* And the page of the QR code: the banner and two of its tiles.
Verification(status, ipfs, record) ==
  [page |-> "verify",
   decision |-> CASE status = "REVOKED" -> "Tidak berlaku" [] status = "FULLY_SIGNED" -> "Valid"
                  [] OTHER -> "Belum valid",
   onChain |-> OnChain(record, "Belum tercatat"),
   ipfs |-> IF ipfs = None THEN "Belum tersedia" ELSE "Tersedia"]

-----------------------------------------------------------------------------
Nothing == [page |-> "none"]

Blank ==
  [step |-> "idle", hash |-> FinalHash, found |-> FALSE, status |-> "none", ipfs |-> None,
   before |-> NoRecord, record |-> NoRecord, evidence |-> "none", shown |-> Nothing]

Init ==
  /\ Constructor
  /\ IpfsInit
  /\ doc = [status |-> "PARTIALLY_SIGNED", ipfs |-> None]
  /\ revoking = FALSE
  /\ visit = Blank

RecordOf(h) == [exists |-> recordsByHash[h].exists, revoked |-> recordsByHash[h].revoked]

\* Without settings, a node or an ABI there is no answer.
GetRecordByHash(h) == {RecordOf(h), NoRecord}

\* verifyDocument
VerifyRead ==
  /\ visit.step = "idle"
  /\ visit' = [Blank EXCEPT !.step = "verifyRecord", !.status = doc.status, !.ipfs = doc.ipfs]
  /\ UNCHANGED <<regVars, server>>

VerifyReadRecord ==
  /\ visit.step = "verifyRecord"
  /\ \E record \in GetRecordByHash(FinalHash) :
       visit' = [Blank EXCEPT !.step = "shown",
                              !.shown = Verification(visit.status, visit.ipfs, record)]
  /\ UNCHANGED <<regVars, server>>

\* inspectDocument; the file may be known to the database as an original, as
\* one of the signed files or as the final one (crossCheckDatabase).
InspectReadMatch ==
  /\ visit.step = "idle"
  /\ \E h \in Hashes \ {ZeroHash}, found \in BOOLEAN :
       visit' = [Blank EXCEPT !.step = "inspectRecord", !.hash = h, !.found = found,
                              !.before = RecordOf(h)]
  /\ UNCHANGED <<regVars, server>>

InspectReadRecord ==
  /\ visit.step = "inspectRecord"
  /\ \E record \in GetRecordByHash(visit.hash) :
       visit' = [visit EXCEPT !.step = "inspectSignatures", !.record = record]
  /\ UNCHANGED <<regVars, server>>

\* What the two validators found, before the merge, at each place.
FoundAt(pdf, i) ==
  {signatures[i].integrity : signatures \in
     {s \in {ExtractPdfSignatures(pdf), Validate(pdf)} : i \in DOMAIN s}}

Places(pdf) == DOMAIN pdf.entries \cup DOMAIN pdf.verdicts

Evidence(pdf) ==
  IF \E i \in Places(pdf) : "MODIFIED" \in FoundAt(pdf, i) THEN "damaged"
  ELSE IF Places(pdf) # {} /\ \A i \in Places(pdf) : "INTACT" \in FoundAt(pdf, i) THEN "intact"
  ELSE "unclear"

Findings ==
  {[signatures |-> SignaturesOf(pdf), evidence |-> Evidence(pdf)] : pdf \in Pdfs}

InspectSignatures ==
  /\ visit.step = "inspectSignatures"
  /\ \E f \in Findings :
       visit' = [visit EXCEPT !.step = "shown", !.evidence = f.evidence,
                              !.shown = Inspection(visit.record, visit.found, f.signatures)]
  /\ UNCHANGED <<regVars, server>>

Leave ==
  /\ visit.step = "shown"
  /\ visit' = Blank
  /\ UNCHANGED <<regVars, server>>

-----------------------------------------------------------------------------
(* Meanwhile on the server (see Publication for the details), with         *)
(* BLOCKCHAIN_RECORD_REQUIRED                                              *)

SignLast ==
  /\ doc.status = "PARTIALLY_SIGNED"
  /\ doc' = [doc EXCEPT !.status = "FULLY_SIGNED"]
  /\ UNCHANGED <<regVars, stored, upload, revoking, visit>>

UploadFinal ==
  /\ doc.status # "PARTIALLY_SIGNED"
  /\ IpfsStep(FinalHash)
  /\ UNCHANGED <<regVars, doc, revoking, visit>>

StoreProof ==
  /\ upload[FinalHash].step = "done" /\ doc.ipfs = None
  /\ doc' = [doc EXCEPT !.ipfs = upload[FinalHash].cid]
  /\ UNCHANGED <<regVars, stored, upload, revoking, visit>>

RevokeOnLedger ==
  /\ doc.status = "FULLY_SIGNED" /\ ~revoking
  /\ \E reason \in Reasons : RevokeDocument(Deployer, FinalHash, reason)
  /\ revoking' = TRUE
  /\ UNCHANGED <<stored, upload, doc, visit>>

\* Mutant: the row is updated without waiting for the ledger.
MayRevokeRowMutant == doc.status = "FULLY_SIGNED"

MayRevokeRow == revoking

RevokeRow ==
  /\ MayRevokeRow
  /\ doc' = [doc EXCEPT !.status = "REVOKED"]
  /\ revoking' = FALSE
  /\ UNCHANGED <<regVars, stored, upload, visit>>

Next ==
  \/ RegNext /\ UNCHANGED <<server, visit>>
  \/ SignLast \/ UploadFinal \/ StoreProof \/ RevokeOnLedger \/ RevokeRow
  \/ VerifyRead \/ VerifyReadRecord
  \/ InspectReadMatch \/ InspectReadRecord \/ InspectSignatures \/ Leave

Spec == Init /\ [][Next]_vars

-----------------------------------------------------------------------------
VisitState ==
  [step : {"idle", "verifyRecord", "inspectRecord", "inspectSignatures", "shown"},
   hash : Hashes, found : BOOLEAN,
   status : {"none", "PARTIALLY_SIGNED", "FULLY_SIGNED", "REVOKED"}, ipfs : Files \cup {None},
   before : Record, record : Record, evidence : {"none", "damaged", "intact", "unclear"},
   shown : {Nothing}
     \cup {Verification(s, c, r) : s \in {"PARTIALLY_SIGNED", "FULLY_SIGNED", "REVOKED"},
                                  c \in Files \cup {None}, r \in Record}
     \cup {Inspection(r, found, f.signatures) : r \in Record, found \in BOOLEAN, f \in Findings}]

\* What the nodes keep, how far the uploads are, the row and the visit.
TypeOK ==
  /\ RegTypeOK /\ IpfsTypeOK
  /\ doc \in [status : {"PARTIALLY_SIGNED", "FULLY_SIGNED", "REVOKED"},
              ipfs : Files \cup {None}]
  /\ revoking \in BOOLEAN
  /\ visit \in VisitState

Shown(page) == visit.step = "shown" /\ visit.shown.page = page

(* A file is called valid ("hash file cocok dengan blockchain, belum       *)
(* dicabut, dan tanda tangan digital utuh") only if its hash is on the     *)
(* ledger, was not revoked when the file was handed in, and every          *)
(* signature was found intact by one validator and damaged by neither,     *)
(* however the two disagree and whichever finds more signatures.           *)
ValidIsProven ==
  Shown("inspect") /\ (visit.shown.verified \/ visit.shown.decision = "Valid") =>
    /\ recordsByHash[visit.hash].exists
    /\ ~visit.before.revoked
    /\ visit.evidence = "intact"

(* The tiles of the page, computed from the parts of the answer, never     *)
(* contradict the decision, computed by the server: a valid file is good   *)
(* in every tile, a revoked one is revoked on the ledger, a file that is   *)
(* not of DOCChain is only called unregistered, and damage of a registered *)
(* file is never left out of the decision (getDecisionSummary and the      *)
(* other summaries).                                                       *)
TilesAgree ==
  Shown("inspect") => LET s == visit.shown IN
    /\ s.decision = "Valid" =>
         s.verified /\ s.onChain = "Aktif" /\ s.hash = "Cocok" /\ s.signature = "Utuh"
           /\ s.source = "DOCChain"
    /\ s.decision = "Dicabut" => s.onChain = "Dicabut" /\ s.signature # "Bermasalah"
    /\ s.external \/ s.source = "Bukan DOCChain" => s.decision = "Tidak terdaftar"
    /\ visit.evidence = "damaged" /\ s.hash = "Cocok" => s.decision = "Tidak valid"

(* A page that says a document is revoked does not show an active record   *)
(* beside it: the ledger is revoked before the row, and the page reads the *)
(* row before the ledger.                                                  *)
RevokedPageAgrees ==
  Shown("verify") /\ visit.shown.decision = "Tidak berlaku" => visit.shown.onChain # "Aktif"

(* Each of the two public pages agrees with itself.                        *)
PagesAgree == TypeOK /\ TilesAgree /\ RevokedPageAgrees

(* With the replicas required and two of them, a final file whose CID is   *)
(* stored with the document can be fetched after the loss of any one node, *)
(* whichever nodes refused or timed out while it was uploaded.             *)
UploadSurvivesLoss ==
  doc.ipfs # None /\ ReplicaRequired /\ Len(Replicas) >= 2 /\ OwnHeader = {} =>
    \A n \in Nodes : Fetchable(FinalHash, Nodes \ {n})
=============================================================================
