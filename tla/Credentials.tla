---------------------------- MODULE Credentials ----------------------------
(***************************************************************************)
(* What a signer signs with: the certificate that getOrCreateCertificate   *)
(* finds, rotates or creates, and the image of the handwritten signature   *)
(* kept on disk.  (Which documents may be signed is the matter of Signing; *)
(* here a request to sign goes from reading the signer to the signature.)  *)
(*                                                                         *)
(* Requests are handled as in Signing: a handler runs alone between two    *)
(* awaits, and one action is one database call with the file accesses next *)
(* to it.  Keys, PKCS#12 and validity dates are abstracted to what decides *)
(* whether a certificate is used again.                                    *)
(***************************************************************************)
EXTENDS Naturals, Sequences, SequencesExt, FiniteSets

CONSTANTS
  Users,        \* the signers
  Names,        \* full names, display names and e-mail addresses
  Email,        \* that of each user
  Normal,       \* a name without capitals, blanks and commas
  Authorities,  \* the names of the authorities that may be configured
  Secrets,      \* the keys that may be configured to seal passphrases with
  Extensions,   \* of image files
  Requests,     \* the requests that may be received, each once
  Handler,      \* what each request calls: "sign" or "upload"
  MaxInFlight,  \* how many requests the server handles at a time, at most
  MaxChanges,   \* how often names, authority and key change and certificates expire
  None          \* SQL NULL

ASSUME CredentialsAssumption ==
  /\ Email \in [Users -> Names] /\ DOMAIN Normal = Names
  /\ Handler \in [Requests -> {"sign", "upload"}]
  /\ MaxInFlight \in Nat /\ MaxChanges \in Nat
  /\ None \notin Users \cup Names \cup Requests

VARIABLES
  profile,     \* the full and the display name of each user
  authority,   \* the configured certificate authority
  secret,      \* the configured key, CERT_SECRET_KEY
  certs,       \* the Certificate rows, in the order of createdAt
  images,      \* the image files of each user: who uploaded the one there is
  signatures,  \* the Signature rows
  changes,     \* how often something of the environment has changed
  limit,       \* how many requests the server handles at a time
  pc,          \* the await each request is at
  snap         \* what each request has read

rows == <<certs, signatures>>
world == <<profile, authority, secret, changes>>
vars == <<profile, authority, secret, certs, images, signatures, changes, limit, pc, snap>>

Profile == [full : Names \cup {None}, display : Names \cup {None}]

CertificateStatus == {"ACTIVE", "EXPIRED", "REVOKED"}

Certificate ==
  [user : Users, subject : Names, issuer : Authorities, sealed : Secrets,
   expired : BOOLEAN, status : CertificateStatus, active : BOOLEAN]

Signature == [by : Requests, signer : Users, cert : Nat \ {0}, name : Names, image : Requests]

Snapshot ==
  [user : Users \cup {None}, name : Names \cup {None}, issuer : Authorities \cup {None},
   cert : Nat, rotate : BOOLEAN, ext : Extensions \cup {None}]

Blank ==
  [user |-> None, name |-> None, issuer |-> None, cert |-> 0, rotate |-> FALSE, ext |-> None]

-----------------------------------------------------------------------------
Init ==
  /\ profile \in [Users -> [full : {None}, display : Names \cup {None}]]
  /\ authority \in Authorities /\ secret \in Secrets
  /\ certs = <<>>
  /\ images = [u \in Users |-> [e \in Extensions |-> None]]
  /\ signatures = {}
  /\ changes = 0
  /\ limit \in 1..MaxInFlight
  /\ pc = [r \in Requests |-> "idle"]
  /\ snap = [r \in Requests |-> Blank]

Goto(r, step, s) ==
  /\ pc' = [pc EXCEPT ![r] = step]
  /\ snap' = [snap EXCEPT ![r] = s]

Finish(r) == Goto(r, "done", Blank)

InFlight == {r \in Requests : pc[r] \notin {"idle", "done", "failed"}}

Arrives(r, handler) ==
  /\ Handler[r] = handler
  /\ pc[r] = "idle"
  /\ Cardinality(InFlight) < limit

-----------------------------------------------------------------------------
(* getOrCreateCertificate *)

CommonName(u) ==
  IF profile[u].full # None THEN profile[u].full
  ELSE IF profile[u].display # None THEN profile[u].display ELSE Email[u]

\* The files of the authority are read each time, and its name compared.
LoadCertificateAuthority == authority

ReadProfile(r, u) ==
  /\ Arrives(r, "sign")
  /\ Goto(r, "find", [Blank EXCEPT !.user = u, !.name = CommonName(u),
                              !.issuer = LoadCertificateAuthority])
  /\ UNCHANGED <<rows, world, images, limit>>

\* The number of the newest active certificate of a user, or 0.
Existing(u) ==
  SelectLastInSeq(certs, LAMBDA c : c.user = u /\ c.active /\ c.status = "ACTIVE")

\* Mutant: a certificate is kept whatever name it is for.
ShouldRotateCertificateMutant(cert, name, issuer) == cert.issuer # issuer

\* Every row has its issuer; one without would not be rotated for that alone.
ShouldRotateCertificate(cert, name, issuer) ==
  Normal[cert.subject] # Normal[name] \/ cert.issuer # issuer

\* Encryption is authenticated: with another key than it was sealed with, the
\* passphrase does not open.
UnsealSecret(cert) == cert.sealed = secret

FindCertificate(r) ==
  LET s == snap[r]
      n == Existing(s.user)
      rotate == n # 0 /\ ShouldRotateCertificate(certs[n], s.name, s.issuer)
      found == [s EXCEPT !.cert = n, !.rotate = rotate] IN
  /\ pc[r] = "find"
  /\ \/ n = 0 /\ Goto(r, "create", s)
     \/ n # 0 /\ (rotate \/ certs[n].expired) /\ Goto(r, "retire", found)
     \/ /\ n # 0 /\ ~rotate /\ ~certs[n].expired
        /\ IF UnsealSecret(certs[n]) THEN Goto(r, "commit", found) ELSE Finish(r)
  /\ UNCHANGED <<rows, world, images, limit>>

Retired(cert, rotate) ==
  [cert EXCEPT !.status = IF rotate THEN "REVOKED" ELSE "EXPIRED", !.active = FALSE]

RetireCertificate(r) ==
  /\ pc[r] = "retire"
  /\ certs' = [certs EXCEPT ![snap[r].cert] = Retired(@, snap[r].rotate)]
  /\ Goto(r, "create", snap[r])
  /\ UNCHANGED <<signatures, world, images, limit>>

Created(s) == [s EXCEPT !.cert = Len(certs) + 1]

CreateCertificate(r) ==
  LET s == snap[r] IN
  /\ pc[r] = "create"
  /\ certs' = Append(certs,
       [user |-> s.user, subject |-> s.name, issuer |-> s.issuer, sealed |-> secret,
        expired |-> FALSE, status |-> "ACTIVE", active |-> TRUE])
  /\ Goto(r, "commit", Created(s))
  /\ UNCHANGED <<signatures, world, images, limit>>

\* The image files a user has, and who uploaded them.
Images(u) == {images[u][e] : e \in Extensions} \ {None}

\* The rest of signDocument: without an image it ends.
CommitSignature(r) ==
  LET s == snap[r] IN
  /\ pc[r] = "commit"
  /\ \/ Images(s.user) = {} /\ UNCHANGED signatures
     \/ \E image \in Images(s.user) :
          signatures' = signatures \cup
            {[by |-> r, signer |-> s.user, cert |-> s.cert, name |-> s.name, image |-> image]}
  /\ Finish(r)
  /\ UNCHANGED <<certs, world, images, limit>>

-----------------------------------------------------------------------------
(* uploadSignatureImage: multer stores the file under the user's id and    *)
(* its extension, and the handler removes the user's other files           *)

StoreImage(r, u, e) ==
  /\ Arrives(r, "upload")
  /\ images' = [images EXCEPT ![u][e] = r]
  /\ Goto(r, "tidy", [Blank EXCEPT !.user = u, !.ext = e])
  /\ UNCHANGED <<rows, world, limit>>

\* Mutant: every file of the user is removed.
OthersRemovedMutant(u, e) == [f \in Extensions |-> None]

OthersRemoved(u, e) == [f \in Extensions |-> IF f = e THEN images[u][f] ELSE None]

RemoveOthers(r) ==
  /\ pc[r] = "tidy"
  /\ images' = [images EXCEPT ![snap[r].user] = OthersRemoved(snap[r].user, snap[r].ext)]
  /\ Finish(r)
  /\ UNCHANGED <<rows, world, limit>>

\* A file over the size limit, or cut off: multer removes what it has written,
\* in the place of a file of that name.
RefuseImage(r) ==
  /\ pc[r] = "tidy"
  /\ images' = [images EXCEPT ![snap[r].user][snap[r].ext] = None]
  /\ Goto(r, "failed", snap[r])
  /\ UNCHANGED <<rows, world, limit>>

-----------------------------------------------------------------------------
\* An await rejects, or the server goes down.
Fail(r) ==
  /\ r \in InFlight
  /\ Goto(r, "failed", snap[r])
  /\ UNCHANGED <<rows, world, images, limit>>

Changes ==
  /\ changes < MaxChanges /\ changes' = changes + 1
  /\ UNCHANGED <<images, signatures, limit, pc, snap>>

\* A reviewer approves an identity, or an administrator edits a user.
Rename(u) ==
  /\ Changes
  /\ \E n \in Names, f \in {"full", "display"} : profile' = [profile EXCEPT ![u][f] = n]
  /\ UNCHANGED <<authority, secret, certs>>

\* The server is configured anew.
Reconfigure ==
  /\ Changes
  /\ authority' \in Authorities /\ secret' \in Secrets
  /\ UNCHANGED <<profile, certs>>

\* A year has passed since a certificate was made.
Expire(n) ==
  /\ Changes
  /\ certs' = [certs EXCEPT ![n].expired = TRUE]
  /\ UNCHANGED <<profile, authority, secret>>

Receive(r) ==
  \/ \E u \in Users : ReadProfile(r, u)
  \/ \E u \in Users, e \in Extensions : StoreImage(r, u, e)

Step(r) ==
  \/ FindCertificate(r) \/ RetireCertificate(r) \/ CreateCertificate(r) \/ CommitSignature(r)
  \/ RemoveOthers(r) \/ RefuseImage(r)

Next ==
  \/ \E r \in Requests : Receive(r) \/ Step(r) \/ Fail(r)
  \/ \E u \in Users : Rename(u)
  \/ Reconfigure
  \/ \E n \in DOMAIN certs : Expire(n)

Spec == Init /\ [][Next]_vars

-----------------------------------------------------------------------------
\* Every row, file and snapshot has the type of its columns or variables.
TypeOK ==
  /\ profile \in [Users -> Profile] /\ authority \in Authorities /\ secret \in Secrets
  /\ certs \in Seq(Certificate)
  /\ images \in [Users -> [Extensions -> Requests \cup {None}]]
  /\ signatures \subseteq Signature
  /\ changes \in 0..MaxChanges /\ limit \in 1..MaxInFlight
  /\ pc \in [Requests -> {"idle", "find", "retire", "create", "commit", "tidy", "done", "failed"}]
  /\ snap \in [Requests -> Snapshot]

(* Whatever requests, renewals, renamings and failures overlap, a signature *)
(* is made with a certificate of its signer, for the name the signer had    *)
(* when the request was received (getOrCreateCertificate).                  *)
SignedUnderOwnName ==
  \A s \in signatures :
    /\ s.cert \in DOMAIN certs /\ certs[s.cert].user = s.signer
    /\ Normal[certs[s.cert].subject] = Normal[s.name]

Alone == limit = 1

(* One request at a time, no user ever has two active certificates, what-  *)
(* ever fails between retiring one and creating the next.                  *)
OneActiveCertificate ==
  Alone => \A m, n \in DOMAIN certs :
    certs[m].user = certs[n].user /\ certs[m].active /\ certs[n].active => m = n

(* Nor is a signature made with a certificate that was retired before.     *)
RetiredIsNotUsed ==
  Alone => \A s \in signatures' \ signatures :
    certs[s.cert].active /\ certs[s.cert].status = "ACTIVE"

Uploading(u) == \E r \in Requests : Handler[r] = "upload" /\ snap[r].user = u

(* Whatever uploads overlap, unless one failed, a user without an upload   *)
(* under way has at most one image, so that the one drawn is never an      *)
(* older one left beside it.                                               *)
OneImage == \A u \in Users : ~Uploading(u) => Cardinality(Images(u)) <= 1

(* A signer who has set up an image keeps one: one request at a time, only *)
(* an upload of the user that fails removes it (uploadSignatureImage).     *)
ImageStays ==
  Alone => \A u \in Users : Images(u) # {} /\ Images(u)' = {} =>
    \E r \in Requests : snap[r].user = u /\ pc[r] = "tidy" /\ pc'[r] = "failed"

(* What a user signs with: the rows, the certificates and the images.      *)
CredentialsAgree == TypeOK /\ SignedUnderOwnName /\ OneActiveCertificate /\ OneImage

CredentialsStay == [][RetiredIsNotUsed /\ ImageStays]_vars
=============================================================================
