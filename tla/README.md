# Formal model of DoChain

DoChain lets the members of a university sign PDF documents one after the
other, publishes the final file on IPFS and its hash on a permissioned
Ethereum ledger, and lets anybody check a file against that ledger. This
directory holds TLA+ models of the parts where ordering, failure and
concurrency matter, the TLC configurations that check them, and proofs about
them. Every definition is translated from the source; `PROJECT.json` names the
lines behind each one.

## 1. The system

| component | state it keeps | operations | talks to |
|---|---|---|---|
| **DocumentHashRegistry** (`dochain-contract`) | issuers, one record per hash | `setIssuer`, `registerDocument`, `revokeDocument`, getters | called by BlockchainService; read by PublicService |
| **CertificationService** (backend) | rows `Document`, `DocumentSigner`, `Signature`, `SignatureCertificate`; files and images on disk | upload, `startCertification`, `requestSigners`, `signDocument`, `declineDocument`, `finalizeQr`, `deleteDraftDocument`, `requestDocumentRevoke`, `getOrCreateCertificate`, `uploadSignatureImage`, reads | Postgres through Prisma, the disk, IpfsService, BlockchainService |
| **Final proof** (`recordFinalDocumentProof`) | a task of the server process, nothing persistent until its end | upload, register, store CID and transaction hash | IpfsService, BlockchainService, Postgres |
| **AdminService** | documents, users, identities, academic profiles and units | `revokeDocument`, `reviewDocumentRevokeRequest`, users, units, reviews | Postgres, BlockchainService |
| **PublicService** | none | `verifyDocument` (database), `inspectDocument` (ledger and signatures) | Postgres, ledger, two validators of PDF signatures |
| **IpfsService** | none (the nodes keep the files) | `addPdf`, `fetchFile`, replication | IPFS nodes |
| **AuthService** | users, academic profile change requests | login, change of password, request a change of the academic profile | Postgres |
| **RateLimitService, EmailService** | `EmailVerification` rows, Redis keys, a mail queue | one-time passwords and registration, disabled at the controller; clean-up jobs | Postgres, Redis, BullMQ |
| **IdentityService** | identity and identity-change rows | submit, review, change requests | Postgres, disk |
| **Frontend** (`docfides-frontend`) | per tab: what each page loaded, open dialogs, forms, drafts of signers and places; per browser: the stored session | the pages of owner, signer, administrator and visitor | the backend's HTTP interface, the storage shared by the tabs |

How they interact. An HTTP request runs one handler. Node runs a handler alone
between two `await`s; at each of them any other handler may run. Postgres
runs at READ COMMITTED; `$transaction([...])` makes a group of writes atomic,
but what they write was computed from reads made before. The final proof is
not awaited by the request that starts it. A ledger transaction is sent
(after the node estimated its gas, which fails if it would revert) and takes
effect when mined, whatever became of its sender. The server is restarted
after a crash (`restart: unless-stopped`), and nothing resumes what it was
doing. A page decides by what it loaded last, which may be out of date when
its call arrives.

What is hard, then: decisions on snapshots that other requests made stale;
files written before the transaction that records them; a background task that
races with a revocation; two stores, database and ledger, updated one after
the other with a failure or crash in between; answers that reach a page which
shows something else by then. The list, each with its source line and the
property that covers it, is under `hazards` in `PROJECT.json`.

What makes each component correct:

- *Registry*: append-only; a revocation follows a registration.
- *Signing*: everybody signs once, in order; the status says what the signer
  rows say; the published hash is that of a file with all signatures; numbers
  of signatures have no gap; revoked is final; signed documents stay; whoever's
  turn it is, and nobody else, is told so.
- *Publication*: the stored proof is that of the final file; database and
  ledger never contradict each other on a revocation; verdicts stay; without
  failures the proof and each revocation complete.
- *Files, placement, certificates*: every document is served its own file;
  signatures are drawn where their owner put them and the signer saw them; who
  signs does so with an active certificate in their own name.
- *Identity, accounts*: one verdict per request, on what the reviewer saw;
  administrators keep to their scope; always one active superadmin.
- *IPFS, verification*: an upload outlives the loss of a node when replicas are
  required; what is called valid is proven.
- *Sessions*: a browser shows the account its token names; an idle session is
  over; an administrator's reset is not undone.

## 2. Modules

| module | what it is |
|---|---|
| `DocumentHashRegistry` | the contract; a transaction is an action, a revert an action that is not enabled |
| `Signing` | one document from its upload to its last signature, await by await |
| `SigningWorkflow` | abstract: who is asked to sign and when, who signed, what the status says; `Signing` implements it |
| `DocumentViews` | extends `Signing`: what its users are shown, by the server's reads and the pages' conclusions |
| `Files` | where the files of all documents lie and how they are found again |
| `Placement` | where signatures and QR code are drawn, as the server sees it |
| `Wizard`, `Portal`, `Pages` | the owner's pages and those of the signers in front of `Placement`; `Pages` composes the two |
| `Credentials`, `SignatureSetup` | certificates and signature images; the page that crops an image, in front of it |
| `Publication` | from the last signature on: proof, revocation, revoke requests, reviews; composes `DocumentHashRegistry` by `INSTANCE` |
| `RevocationDesk` | the two pages from which a document is revoked, in front of `Publication`, which it implements |
| `Ipfs` | the nodes, uploads and replicas |
| `PublicVerification` | composes `DocumentHashRegistry` and `Ipfs` with the two public pages |
| `Identity`, `IdentityDesk` | submissions, change requests and reviews, await by await; the reviewer's page in front of it, which implements it |
| `Accounts` | users, profiles, units, scopes of administrators, and the form that edits an account |
| `Sessions` | passwords, tokens and the storage of a browser with several tabs |
| `...Proofs` | theorems about the module of that name and those it extends: `SigningProofs` also about `DocumentViews`, `PublicationProofs` about `RevocationDesk`, `IdentityProofs` about `IdentityDesk`, `SignatureSetupProofs` about `Credentials`, `PublicVerificationProofs` about `DocumentHashRegistry`, `Ipfs` and `Files`, `PagesProofs` about `Placement`, `Wizard` and `Portal` |
| `MC...` | model values, ranks, handlers and symmetry for TLC |

Three conventions are common to the server's modules. One action is one
database call, or the file access between two of them; `pc[r]` is the await
the request `r` is at and `snap[r]` what it has read. A request's identifier
also names the rows and bytes it creates, so nothing needs a counter. A check
that throws before anything was written is the guard of the action that reads
what it checks; where a handler writes once, at its end, a failure before that
leaves what a request leaves that is never resumed, and needs no action.

### DocumentHashRegistry

`issuers`, `recordsByHash` and `now` are the contract's mappings and
`block.timestamp`. A mapping is total, so an unwritten slot is `EmptyRecord`.
`msg.sender` is a parameter. The owner is a constant: nothing in the contract
changes it. `NextBlock` is the environment.

### Signing, DocumentViews

`doc`, `signers`, `signatures` are the rows of one document, `disk` its three
files. A `$transaction` takes effect at its commit, and its unique indexes may
abort it (`SignMayCommit`, `RequestMayCommit`). The handlers:

| handler | actions |
|---|---|
| `startCertification` | StartRead, StartUpdate |
| `requestSigners` | RequestRead, RequestReadExisting, RequestReadOmitted, RequestCommit, RequestReadSource, RequestPreRender, RequestUpdateFinal |
| `signDocument` | SignRead, SignReadNext, SignReadExisting, SignCountRequired, SignCountPending, SignReadSource, SignPlaceQr, SignSaveFile, SignReadOrder, SignCommit |
| `declineDocument` | DeclineRead, DeclineReadNext, DeclineCommit |
| `finalizeQr` | QrRead, QrReadSource, QrSaveFile, QrUpdate |
| `deleteDraftDocument` | DeleteRead, DeleteFile, DeleteRow |
| `AdminService.revokeDocument` | RevokeRead, RevokeUpdate (the ledger is in Publication) |
| any | Fail: an await rejects, or the process stops |

A PDF is abstracted to who last rewrote its pages and which signatures a later
rewrite has not broken; a hash is the content hashed. That is what tells a
damaged final file from a good one. Roles appear only as `Rank`, the order
they give.

`DocumentViews` adds no state: `SignRequired`, `OwnerNotice`, `FileOf`,
`CanAct` and the others are what `listNotifications`, the file handlers and
the pages make of the rows, each from other fields than `signDocument` reads.

### Files

`docs` are the rows of all documents, `disk` maps a path to bytes. A name is a
sequence of words with the number that made it unique or the suffix of a
stored file; `Plain` is what sanitising makes of a word, and may make two words
one. `collided` remembers the documents whose signed file would have the name of
another's, or whose own name is like that of a stored file. Uploads are
`UploadReadNames` and `UploadCreate`; pre-rendering, signing and `finalizeQr`
are `Open`, `ReadSource`, `SaveFile`, `RecordFile`, whose `Target` differs;
`DeleteFile`, `DeleteRow` delete. `ResolveDocumentPath` is `FirstOf` what
`ByName` and `ByHash` find, in the order of the code; `Latest`, `OriginalOf` and
`SignedVersion` are its callers. `AdminResolved` is AdminService's other one,
which looks in the owner's two directories before those of others.

### Placement, Wizard, Portal, Pages

Whole points, and pages without rotation. `Placement` has one action per
request: `RequestSigners`, `SignDocument`, `Decline`. `Wizard` holds what the
owner's tab holds (the step, the order and the places it shows, whether stored
signers are still loading), `Portal` each signer's list (of it what may be acted
on), dialog, previews under way (that of the open dialog, `own`, and those of
dialogs closed meanwhile, `late`) and the one shown. The effect that loads a
preview has no flag for a dialog that was closed, which may be done while it
loads: `LatePreviewArrives` draws it in whichever dialog is open by then, and
`mixed` remembers that one did. The call to sign is one step: that Escape may
close the dialog under it is left out.

### Credentials, SignatureSetup

`certs` are the certificate rows in their order, each with the name, the
authority and the key it was made with. `getOrCreateCertificate` is
`FindCertificate`, `RetireCertificate`, `CreateCertificate`; `Rename`,
`Reconfigure` and `Expire` are the environment. Images are files per user and
extension: `StoreImage` (or `RefuseImage`, by multer), then `RemoveOthers`.
`SignatureSetup` is the crop area in pixels of the picture, `stale` a history
variable: the area was made for another picture.

### Publication, RevocationDesk

`doc` and `asked` are the rows that matter here, `txs[r]` the transaction the
request `r` sent, and the ledger is that of `DocumentHashRegistry`
(`Ledger!RegisterDocument`, `Ledger!RevokeDocument`). Signing is cut down to
its last signature: `SignRead` and `SignCommit`, after which the request is
the background task `proofIpfs`, `proofSend`, `proofReceipt`, `proofUpdate`.
`revokeDocument` is `RevokeRead`, `RevokeSend`, `RevokeReceipt`, `RevokeUpdate`
and `LedgerFailed`, its rethrow under `BLOCKCHAIN_RECORD_REQUIRED`; a review
calls the same steps by `ReviewRevoke` and ends in `ReviewApprove`. `Send` is
the gas estimate and the submission, `Mine` the chain. `Work` is the steps
without the failures.

`RevocationDesk` puts `/documents/[id]` (`forms`) and `/admin/documents`
(`desks`) in front: a call is sent from what the page shows, then received by
the server or refused (`Refuse`), and `answer` is what comes back. `Apart`
says that the superadmins review one at a time.

### Ipfs, PublicVerification

`stored[n]` is what the node `n` has pinned, `upload[f]` how far the upload of
`f` has come; an upload or a pin that timed out may have been stored all the
same. The nodes that are up are chosen anew at each step.
`PublicVerification` reads row, ledger and signatures one await after the
other (`VerifyRead`, `VerifyReadRecord`; `InspectReadMatch`,
`InspectReadRecord`, `InspectSignatures`) while the others transact, upload and
revoke. A PDF is what the two validators find in it; `Merge` is how their
verdicts are combined, by position.

### Identity, IdentityDesk

`identity[u]` is the row of a user, `changes[r]` the change request that the
request `r` created. Personal data and a photograph of the identity card (KTP)
are named by the request that uploaded them, which is how a property can say
which upload a row shows.

| handler | actions |
|---|---|
| `submitIdentity` | SubmitReadNik, SubmitReadIdentity, SubmitUpsert |
| `createIdentityChangeRequest`, which it calls when the identity is APPROVED | ChangeReadPending, ChangeReadNik, ChangeReadPendingNik, ChangeCreate |
| `reviewIdentity`, of IdentityService and of AdminService | ReviewScope, ReviewReadIdentity, ReviewUpdate |
| `reviewIdentityChangeRequest` | ReviewChangeRead, ApproveReadNik, ApproveCommit, RejectUpdate |

The scope of a reviewer is the constant `Reviews`: all users for a superadmin,
those of its study programmes for an ADMIN_PRODI. The unique index on `nik`
is `NikIsFree` at the write, which otherwise aborts. `IdentityDesk` adds
`shown`, the row of the list each review is decided on; the call names only
the user. `Fresh` says that the list was loaded after the last verdict.

### Accounts

`users`, `units`, `changes` are the rows. `createUser`, `updateUser`,
`deleteUser`, the profile change request of a student and its review are
await by await as above; `OpenDraft`, `Edits` and `SavedPayload` are the form,
which sends all it shows, as it was when opened. `AccessScope` and `InScope`
are the scope of an ADMIN_PRODI. The unit of the structural assignment fills in an
empty home unit, in the form (`WithPost`) and in what is sent; a save changes one
field, or the role with its unit.

### Sessions

`accounts` are the rows, `stored` is the browser's localStorage, `page[t]`
what each tab shows. A token names its user and the login that issued it.
Calls are sent from a tab (`Ask...`, `Submit...`), served (`ServeMe`,
`ServeLogin`, `ServePassword`, `WritePassword`) and answered (`Answered`, with
the interceptor's reaction to a 401). `HourPasses` and `DayPasses` are time:
a call is answered within the hour. `overlap`, chosen at the start, says
whether anything is begun while a call is under way.

## 3. What TLC checks

| run | what it shows | states |
|---|---|---|
| `SigningSerial` | five requests of three users, one at a time, any of them failing anywhere: the workflow keeps all its promises, implements `SigningWorkflow`, and lists, notices and files agree with it | 197,568 |
| `SigningConcurrent` | four requests of two users, two in flight, failures anywhere: what the unique indexes and transactions do protect | 1,115,879 |
| `Revocation` | one last signature with its proof, a revocation, two asks and two reviews, made from pages that may be out of date, three in flight, failures and crashes anywhere | 844,440 |
| `PublicationLive` | as long as nothing fails and under fairness, the proof and every revocation that reached the ledger complete | 6,333 |
| `IdentityReviews` | two submissions, two reviews and two reviews of changes, with one and with two in flight, by two reviewers of different scope | 775,838 |
| `AccountsReviews` | three requests of a superadmin, an ADMIN_PRODI, a student and a lecturer, from forms that may be out of date | 1,646,099 |
| `PublicVerification` | three nodes that come and go, a ledger on which two accounts transact, files with up to two signatures of any kind, and a visitor | about 480,000 |
| `Files` | four requests on the documents of two users, under names that are equal, equal once sanitised, or like a signed file's, any of them failing between two writes | 182,561 |
| `Credentials` | two signatures and two uploads of one signer, two changes of the environment, any two crops of two pictures | 1,449,285 |
| `Pages` | an owner in the wizard and a signer with two documents in the portal, whose dialogs are closed while they load and whose previews arrive in any order, a portrait and a landscape sheet | 1,741,757 |
| `Sessions` | two accounts, two tabs of one browser, three calls, an hour passing, a reset | 776,098 |
| `CrashInRevocation` | a violation, see section 6 | |

A property of a run is often the conjunction of parts with names of their own
and a comment each: `RowsAgree` is `TypeOK` with `StatusMatchesSigners`,
`SigningFollowsOrder` and `OneSignaturePerSigner`; `ViewsAgree` is
`TurnIsShown` and `NoticeIsTrue`; `DeskAgrees`, `ChangesAgree`,
`AccountsAgree`, `CredentialsAgree` and `StorageAgrees` are the types with the
invariants on rows; `ApprovedAsShown` is `ApprovesWhatWasShown` with
`UnderReviewStays`.

`SigningSerial` is worth having beside `SigningConcurrent` because the two
answer different questions: the first, whether a *failure* between two writes
can break the workflow when nothing else runs (it cannot, as long as the file
is not read between the failed write and the next one, which is what
`Undisturbed` says); the second, which promises survive *concurrency*.

Three refinements. `ImplementsWorkflow`: `SigningWorkflow` has no rows, files,
snapshots or awaits, only the turn of each user, the set of those who signed
and the status, and one step per decision (`Ask`, `Sign`, `Decline`, `Revoke`,
...). The mapping reads the turn off the signer rows and the signatures off
their table; a deleted document is `DELETED`. Every commit of `Signing` must be
one of those steps and every other action a stutter. It holds with failures and
crashes, and not with two requests in flight (section 6). The other two are
`RevocationDesk` of `Publication` and `IdentityDesk` of `Identity`. All three
are proved.

`IdentityReviews`, `AccountsReviews` and `Credentials` start with any `limit`
up to `MaxInFlight`, and the properties that need it say `limit = 1 =>`: one run
answers both questions. What concurrency breaks is in section 6.

Bounds, and why they suffice.

- *Signing*: three users give a first, a middle and a last signer, with an
  order to respect, to skip and to tie. Five serial requests are enough to ask
  for signatures, sign twice, and disturb the result twice. Two in flight are
  what a race between two handlers needs; four let one precede and one follow it.
- *Revocation*: three in flight let the background proof overlap with a direct
  revocation and a reviewed one; two asks and two reviews let the second
  contradict the first. One superadmin, as `Apart` would have it anyway.
- *Identity*: one user enrolled with an approved identity in nobody's narrower
  scope, one inside it, one without an identity; of three NIKs two are taken and
  one can be fought over; two of each request let one be made, replaced,
  contradicted.
- *Accounts*: two study programmes and a department, all open at first, with an
  account of each kind; a third request can act on what two others left.
- *Verification*: two hashes, of which one is the zero hash the contract
  refuses; two positions let the validators disagree on how many signatures
  there are; three nodes let the failover end on any of them, with replicas left.
- *Files*: an upload is called `thesis`, `thesis-1` (what a second `thesis` is
  renamed to), `alike` (which sanitising turns into `thesis`) or `thesis-signed`
  (what the signed `thesis` is stored as); four requests upload two or three
  times, rewrite and delete. What is checked of the last two names is that they
  harm nobody but the documents that met.
- *Credentials, pages*: two writings of one name; two extensions; a wide and a
  tall picture of few pixels, with drags beyond the border on each side. A
  corner of the landscape sheet is where a click is moved inside; three saves let
  places be changed after they were shown to a signer, and an order after it was
  sent. The second document was sent by another owner and waits for somebody
  else's signature: the preview of one can arrive in the dialog of the other, and
  one late preview of each (`MaxLate`) is enough to draw one over the other, before
  or after its own.
- *Sessions*: two tabs, two accounts; a call that overlaps another, and one
  after both.

`MaxTime`, `MaxChanges`, `MaxSigners`, `MaxSaves`, `MaxLate` bound what would otherwise
grow. Requests are interchangeable where they may call any handler, so
`Symmetry` permutes them; elsewhere it permutes requests of the same handler,
free NIKs, tabs or authorities. No symmetry is used for the liveness run.
`CHECK_DEADLOCK FALSE`: every request is received at most once, so the system
stops when all have been; the public verification never stops and is checked
for deadlock.

Fairness (`PublicationLive` only). `WF(Step(r))`: Node resumes a handler whose
call was answered. `WF(Mine(r))`: the validators of the chain mine what is in
the pool. Nothing obliges a client to send a request, so `Receive` has none.
`FairSpec` takes the steps of `Work`, those without the failures: of a process
that stops nothing can be promised. Weak fairness suffices: a step once
enabled stays enabled until it is taken.

## 4. What is proved

TLAPS checks the theorems for all values of the constants: any users, any
number of requests and of requests in flight, with and without failures. The
assumptions are those on the constants (`...Assumption`, `NoneIsNo...`), which
say that the constants have their types and that `None` (`Null` in `Files`) is not a user, a
request, a row, a file, a number, a notice, a place or a dialog;
`IdentityAssumption` also that the users who start with an identity have
different NIKs, `SeedAssumption` that the seed's accounts are of the form
`createUser` writes, `IpfsAssumption` that no replica is named twice.

| theorem | says |
|---|---|
| `RegistryTypes`, `RevocationOrder`, `LedgerIsAppendOnly` | the registry, for any accounts, hashes and CIDs |
| `TypeCorrect` | rows, files and snapshots keep their types |
| `SignaturesAreNumbered` | 1, 2, 3, ... without gap or repetition |
| `SignedRowsAreBacked` | a SIGNED row has a signature of its user |
| `SerialImplementsWorkflow` | one request at a time, with failures and crashes, `Signing` implements `SigningWorkflow` |
| `SerialRowsAgree` | one request at a time: status, rows, order and signatures agree |
| `SerialFileHasAllSignatures`, `SerialFileIsRecorded` | one request at a time: the published file has all signatures; if none failed it is the stored one, with no other |
| `SerialViewsAgree`, `SerialServedFile` | one request at a time: notices, pages and served files agree with the workflow |
| `PublicationTypes` | rows, tasks, transactions and ledger keep their types |
| `ProofIsOfFinalFile` | the stored transaction registered the final file, under the stored CID |
| `RevocationIsPublished` | with the record required, REVOKED in the database is revoked on the ledger |
| `ApprovedIsRevoked` | an approved revoke request has a revoked document |
| `DeskImplementsPublication` | every step of the two pages and their server is one of `Publication` or changes nothing there |
| `DeskAgreesAlways` | types, and no user has two open revoke requests, although the server alone does not prevent it |
| `VerdictsAreFinal` | with the superadmins apart, a verdict on a revoke request is never changed |
| `IdentityTypes` | identities, change requests and snapshots keep their types |
| `PhotographsStay` | every identity has a photograph, every change request an identity |
| `DecisionsAreSigned` | what is decided names a reviewer of that user, what is not names none |
| `OneChangeAtATime`, `NiksAreAskedForOnce` | one request at a time: one open change request per user, one user per NIK asked for |
| `RejectionIsFinal` | one request at a time: nothing of a rejected request is in the identity |
| `SubmissionStays` | one request at a time: a submission under review is not replaced |
| `DeskImplementsIdentity`, `ChangesAgreeAlways` | the reviewer's page implements `Identity`, with its types and the two above |
| `ApprovedIsWhatWasShown` | from fresh lists and one request at a time, what is approved is what the reviewer saw |
| `NothingBlankIsUploaded`, `UploadsAreRight` | the area cut from a picture lies in it and keeps its shape, for any sizes and drags |
| `CredentialsAgreeHolds` | types; signatures in their signer's name; unless an upload failed, one image is left; one request at a time: one active certificate each |
| `CredentialsStayHolds` | one request at a time: no signature with a retired certificate, no image lost but by an upload that fails |
| `SetupIsCredentials` | the setup page implements `Credentials` |
| `LedgerBehindThePages` | server, nodes and pages make only steps of the contract on it |
| `ValidIsProvenHolds` | what is called valid is on the ledger, was not revoked before, and has only intact signatures, for any file |
| `PagesAgreeHolds` | types, and neither public page contradicts itself or the ledger |
| `FilesTypes` | rows and files keep their types, for any names and any requests at once |
| `AdminPreviewsTheSameHolds` | likewise: AdminService and CertificationService find files with the same contents |
| `FilesAgreeHolds` | one request at a time, any names, whatever failed: what is served was made from its own upload, but for documents whose stored names met |
| `VersionsAreServedHolds` | and unless something failed or names met: both versions of every document are served |
| `UploadSurvivesLossHolds` | with two required replicas a final file outlives the loss of any node |
| `DrawnAlways` | types; who signed is seen and signed where the owner put them, on sheets of any size |
| `DrawingsAgreeHolds` | and inside the sheet, if it has room for as many as may be listed (`HasRoom`) |
| `QrIsFoundHolds` | a signed document has its code, clear of the first signature if a corner is |
| `ConfirmedUnlessLateHolds` | a confirmation is for the open dialog and, unless a late preview arrived in it, for what it shows, for any number of late previews |
| `LayoutStaysHolds` | the order stored is the one seen; after the first signature the layout stays |
| `StorageAgreesHolds` | types; unless calls overlap, the stored user is the token's |
| `IdleSessionIsOverHolds` | an idle session is never revived, however calls overlap |
| `ResetStaysHolds` | unless calls overlap, a password is changed by who knows it or an administrator |
| `AccountsAgreeHolds` | types; one request at a time: profiles fit roles, one open request per student and number |
| `ScopeIsKeptHolds`, `MembersJoinActiveUnitsHolds` | one request at a time: administrators keep to their scope, nobody joins a closed unit |
| `DecisionsStayHolds` | one request at a time: verdicts stay, and deletions leave a superadmin |

The arguments.

*Types.* A type invariant alone is not inductive: the snapshot of an idle
request is blank, and an action that uses `snap[r].user` needs to know that
its handler has read it. `Ready` says so for each await; `TypeInv` is `TypeOK`
with it.

*Numbering.* The number is one more than a maximum read earlier.
`MaximumWasReached` says of a request past that read that all numbers up to
what it read are used, by signatures that no step removes; the unique index
excludes a repetition, so the next number extends a gap-free list.

*Signed rows.* A commit writes row and signature in one transaction. No later
step deletes a signature but the deletion of the document, which cascades to
its rows.

*Signing, one request at a time* (`MaxInFlight = 1`, any users, ranks, requests
and failures). `OneAtATime`: the others are idle, done or failed. `StillSo`
says for each await what its handler has read and is still so: `RequestSo` (no
signatures; the rows it saw), `SignSo` (the caller may sign, all before them
have, both counts are right, the source has every signature), `DeclineSo`,
`OtherSo`. `RowsInv` is what the rows are between requests: `RowsAgree` with
what it rests on, orders that differ, a draft nobody is asked to sign, a
decline that revoked, and files that have every signature. Each needs the
other: `SigningCommits` (the transaction cannot abort), `BeforeSigning` and
`LastIsLast` (the two counts tell the last signer) take from both what the
commit writes, and from that come `RowsInv'` and the step of `SigningWorkflow`. A failure only forgets a snapshot,
so no step is lost; what it leaves on disk is why `FilesInv` speaks of
`signed` alone, and why `RecordInv`, for `FinalFileIsRecorded`, assumes that
nothing failed. That the bell rings for one signer needs a first among the
pending ones: the sets of those before each are finite and strictly included in
one another, hence well-founded (`SomeoneIsFirst`).

*Publication.* `SafetyInv` has five parts. `SigningInv`: only the signing
request publishes, its own file, and while it has not committed the document
has the earlier file. `LedgerInv`: what a mined transaction did is still on
the ledger, on which the earlier file never is. `ProofInv`: the receipt a task
waits for is of its own registration, and what it was told is true.
`RevocationInv`: what a revocation revoked is the file the document still has.
`PublishedInv`: the properties. The step that needs all of them is a
revocation that commits after a signature replaced the file: with the record
required it would have revoked the earlier file on the ledger, which was never
registered. `ApprovedIsRevoked` needs that only a fully signed document can be
asked for (`AskedOfFinal`), so that no signature follows a verdict, and that a
review approves after its own revocation (`RevokedFirst`). The three theorems
assume `OneSigning`, a document with one last signature: two of them, each
computed without the other, publish a file that is then replaced (section 6).

*Revocation desk.* The refinement needs no invariant but the types: each
action names the step of `Publication` it takes. For `DeskAgreesAlways`,
`CallsInv` follows a call from the click to the answer: as long as an ask is
handled the user's page waits for it (`Asking`), so that of one user one ask is
handled at a time, and past the look for an open one there still is none.
`VerdictsAreFinal` does the same for a desk: a review under way is the one its
superadmin waits for (`UnderReview`), apart it is the only one (`OneReview`),
and the request it decides on stays open until its own write.

*Identity.* Two invariants. `RowsInv` holds for any number of requests in
flight: `Found` says what a handler read and nobody can take away (a row is
never deleted, and a change request never changes its user, NIK or
photograph). `Serial` holds when `limit = 1`: by `OneAtATime` the others are
idle or done, so what the one handler checked is still so when it writes
(`StillSo`). `RejectionIsFinal` also needs `UploadsInv`: an upload is in no
identity before its request is done, and that of a change request only after
its approval, which a request read as PENDING has not had. `DialogInv`
(`Modal`, `AsShown`) adds that a row in an open dialog is still the user's:
nobody else reviews meanwhile, and a submission under review is not replaced.

*Cropping.* `SetupInv`: the area lies in the picture it is drawn over, and
`Locked` that its height is the one its width gives; clamping keeps both as
long as the area was made for that picture.

*Certificates and images.* `CredentialsInv`. Rows are only appended and only
ever retired, so what a handler has found is still a row of its user
(`ReadBeforeUse`), which is all that a signature in the right name needs,
whatever overlaps. With one request at a time (`NothingChanged`) the
certificate found is still active at the commit, and where none was found
there still is none: `OneActiveCertificate`. `OneImage` needs no such
assumption: each upload removes the other extensions, and the last one to do so
leaves what it stored. The refinement by the page needs only that its steps on
`Credentials` are the uploads of what was cut.

*Verification.* `PublicInv`. The contract's part is `RegSpec`, refined by every
action, so its theorems hold here. `RecordWasRead` is the race: a visitor reads
a record, and by the time the signatures are read it may be revoked, never the
other way round. `ShownIsMade` says that each page was made from one record and
one PDF. The rest is about the operators: `MergeSays` (the merge by position
reports damage if either validator does, and calls intact only what one of
them called so), `DecisionIs` (the decision against each tile). `IpfsInv`
(`UploadIsStored`) follows an upload: the nodes that answered have the file, no
step unpins, so a CID returned with replicas required means that every replica
has it; two different replicas leave one when a node is lost.

*Files.* The search takes the first of several sets that is not empty
(`FirstOfTwo`, `FirstOfFour`: a set of numbers has a least one), by name, then
by hash. The two resolvers try the directories in different orders, but by name
only one of a user's two directories can decide, and by hash all that is found
has the same contents: hence `AdminPreviewsTheSame`, without any assumption.
The others assume `OneByOne` (`MaxInFlight = 1`), and nothing of the names:
`collided` grows at the upload, by the documents whose signed files would have
one name and by an upload that is called like a stored file, and the promise is
made to all others. `NamesDiffer` says that these have names of their own, and
that a document under such a name shares it with none of them. Section 6 has what
happens to those that met.
`UniqueName` counts: an owner with `n` names has one of `n` numbers free, since
one of the names is that without a number. From it come different names of
signed files (`TargetIsNoOther`), and with them `OwnInv`: what a row calls its
file was made from its upload, whichever step failed. For `VersionsAreServed`
an invariant that says which file serves which version cannot be kept: the
deletion of a draft looks for its file by hash and may unlink another document's
of the same contents. `ClaimsAreMet` says that there are as many as are needed:
an injection from the versions that must be found to the files that last, with
the right contents. A deletion gives up a claim to what it unlinks, so that
whoever was met by that file is met by the other (`ClaimsSwapped`); saving a
file gives up the old version until `RecordFile` claims the new one
(`ClaimsAdded`).

*Pages.* The page sorts the signers by role and the server sorts them again,
each by a rule of its own. `Sorting` (any finite set can be listed along a
strict total order) gives both their lists; a sorted list of different signers
is left alone by either (`SortedStays`, `NormalizedStays`: positions that only
grow and leave none out are the identity), and all that the page does keeps it
sorted. So what is stored is what was seen. `RowIs` says that those who signed
are the first of the list, drawn where they were put, and that the code is
where it was found for the first of them that has a place (`CodeIsClear`).
`RoomInv` follows the places from the click or the default to the row; it needs
`HasRoom`, since ten default places fill an A4 sheet. `PortalInv` says that only
an open dialog is confirmed, and that one in which no late preview arrived either
shows nothing and is not confirmed, or shows its own document and awaits nothing:
so its own preview cannot take away what was confirmed.

*Sessions.* `IInv`: `Well` says what a call carries at each step; with
`overlap` false there is one call (`OneCall`) and its token is the stored one
(`CallHasToken`), hence an answer is stored under the token it was asked with;
`OldStillMatches` says the row is still what `changePassword` compared.
`IdleSessionIsOver` holds with overlapping calls as well, since an hour passes
only when no call is under way (`IdleIsQuiet`).

*Accounts.* `IInv`: `Well` for types, `StillSo` for what one request at a time
has read and is still so. Forms may be older than any of it. `ProfileFitsRole`
rests on `Shaped`: whatever row a form was opened on, and whatever row it is
saved over, what comes out fits its role, except where the approval of a
request checks it again. `ScopeIsKept` compares the row written with the scope
read at the start, which nobody changed meanwhile.


Only model-checked are the liveness properties of `PublicationLive`: fairness is
outside what the prover can do. The finding `CrashInRevocation` is a
counterexample, so there is nothing to prove. Every invariant of the other runs
is stated by a theorem.

## 5. Plan

Done: the modules of section 2. What is left: the deletion of a user in
`Identity` and `Files`, which only `Accounts` has.

Not modelled, and why:

- one-time passwords and self-registration: the controller answers each of
  these calls with a ForbiddenException;
- decoding PKCS#7, PDF and the details of a certificate (`public.service.ts`
  from 769): pure parsing of given formats; `PublicVerification` takes what the
  parsers say as given. The cryptography of certificates is an opaque key;
- roles and JWT guards beyond what `Sessions` and `Accounts` have of them, lists
  with their filters, sorting and wording, static pages, the texts of forms;
- the full name that `updateUser` may set and the deletion of a user, as to
  `Identity`; names and e-mail addresses in `Accounts`;
- deployment scripts: one-shot tooling.

## 6. What was found

One finding is a run that TLC must find violated. `CrashInRevocation`: the
ledger is revoked, then the server stops or the update fails. The document
stays valid for `verifyDocument`, whose page says that it is active; with the
record required, each later revocation is refused by the ledger and cannot
repair it.

The rest are behaviours of the same models outside the promises above, seen by
raising a bound, dropping an assumption (`limit`, `Fresh`, `Apart`,
`overlap`) or reading the code beside them.

*Signing, with two requests in flight* (one cause: a decision on a stale read).
Two sign requests of one signer pass the checks together, and the second reads
its number after the first committed, so the unique index does not stop it:
one person signs twice. A signature in flight writes its status over the
REVOKED of a decline or of an administrator. `StatusMatchesSigners` and
`SigningFollowsOrder` fail when a signer is added or declines while another
signs; `OneSignaturePerSigner` when `requestSigners` removes a signer who signs
meanwhile; `FinalFileHasAllSignatures` when `finalizeQr` or the pre-rendering
replaces a file just signed; a draft may be signed while it is deleted.

*Views.* `dashboard/page.tsx` (90, 172) counts documents of a status
`PENDING_SIGNATURE`, which does not exist: those waiting are not counted.

*Publication.* A crash loses the proof for good. Of two last signatures the
proof of the first may be stored with the second. With the record not
required, a revocation that comes before the registration fails on the ledger,
which is only logged; the registration then makes the file valid for
`inspectDocument`.

*Revocation pages.* Two superadmins at once may overwrite each other's verdict.
After a direct revocation the page still offers to approve the requests of
that document, which is refused; and after a crash between ledger and database
such a request can only be rejected. Escape closes a dialog while its call is
under way, and the answer closes whichever is open then; a late preview may
replace that of another document.

*Files.* Two uploads at once get the same name. Without any race names that
differ only in illegal characters collide, so that two documents share one signed
file. A
document uploaded as `X-signed.pdf` beside the owner's `X.pdf` is looked up by
its name first: once that is signed, both are served its signed file, and
deleting the draft unlinks it. A
deletion that crashed between file and row, repeated, unlinks another
document's identical copy, and since the file is looked up by its hash it may
be a signed one.

*Certificates and images.* Two first signatures at once leave two active
certificates; a certificate just revoked may still be signed with. Changing
`CERT_SECRET_KEY` makes unexpired certificates unusable. An upload that multer
refuses for its size has already removed the earlier image of that extension;
two uploads of different extensions remove each other's. On the setup page the
area drawn on one picture is kept for the next, loses its shape in it, and is
not the one shown; a picture saved before its size is known is not cropped.

*Placement.* An owner may open `/certification/review` directly and sign before
the places of the others are stored: `requestSigners` is refused from then on
and their dialogs have no area to confirm. The signature of a second signer may
cover the QR code. The default places of many signers leave the page (the 11th
on A4, the 8th on a landscape sheet). Saving the signers again resets the
places. A request that fails after its rows were committed leaves the marks of
an earlier one in the file. `preparePdfForSigning` is never called.

*Previews.* A signer opens a document, closes the dialog while its preview is
loading and opens another one. The first preview arrives, is drawn in the dialog
of the second and ends its loading; a click on the marked area confirms, and the
second document is signed with the first on the screen, although the dialog asks
to review the document first (`assigned/page.tsx:858`). Its own preview replaces
it when it arrives, and leaves the confirmation. TLC shows such dialogs when
`~portal[u].mixed =>` is dropped from `ConfirmedUnlessLate`.

*Verification, IPFS.* A ledger that does not answer is taken for one without
the record, and a genuine file is called modified. `fetchFile` sends the
primary's header to every node, whatever header that node asks for. A failover
leaves the primary without the file. `.env.example:43` says that signing fails
when a replica does; the background proof only logs it. The card of the
database's match may call a file final and active that is neither.

*Identity, with two requests in flight*: `OneOpenChange`, `OneRequestPerNik`
and `RejectedIsNotApplied` fail (the second reviewer records as rejected what
the first applied). With a second reviewer, or a list that could not be
refreshed, a verdict falls on data its reviewer never saw: the call names only
the user. Without any race: approving a change request while a resubmission is
PENDING approves the resubmission with it, unseen, and a rejected identity with
an open change request keeps its form locked.

*Accounts.* A form opened earlier writes back what others have changed since.
With two requests at once the last two superadmins may delete each other, and a
member may join a unit that is being closed. `updateUser` leaves it to the form
that role and profile fit, and takes NIMs with blanks. A superadmin who was
deleted and enabled again counts as active but cannot log in.

*Sessions, when calls overlap.* A profile that arrives late is stored under the
token of whoever has logged in since, or undoes a logout; a late 401 ends a new
session; a password change in flight overwrites an administrator's reset. A
token outlives a new password, a reset and the account's being disabled. The
first login in a second tab after an idle hour is cancelled by the interceptor.
