------------------------------- MODULE Files -------------------------------
(***************************************************************************)
(* Where CertificationService keeps the files of all documents: uploads    *)
(* and pre-rendered files in one directory per user, files with a QR code  *)
(* or signatures in another, named after the document, and found again by  *)
(* their name or, failing that, by the hash of what they contain.          *)
(*                                                                         *)
(* Who may sign and when is the matter of Signing.  A handler runs alone   *)
(* between two awaits, and one action is one database call with the file   *)
(* accesses next to it.  A document is named by the request that uploaded  *)
(* it, as is the random name under which its file is stored.               *)
(***************************************************************************)
EXTENDS Naturals, Sequences, SequencesExt, FiniteSets

CONSTANTS
  Users,        \* the owners
  Words,        \* what file names are made of; the extension .pdf is left out
  Plain,        \* a word with its illegal characters and spaces replaced
  Signed,       \* what the name of a signed file ends in
  PreRendered,  \* and that of a pre-rendered one
  Names,        \* the names under which files are uploaded
  Requests,     \* the requests that may be received, each once
  MaxInFlight,  \* how many requests the server handles at a time, at most
  Faults,       \* whether a request may fail
  Null          \* SQL NULL, or nothing

VARIABLES
  docs,   \* the Document row each request created
  disk,   \* what each file there is contains
  pc,     \* the await each request is at
  snap,   \* what each request has read
  collided  \* history: the documents whose stored names were another's, too

filesVars == <<docs, disk, pc, snap, collided>>

\* A name is its words, followed by the number that made it unique, or, if it
\* is that of a stored file, by the suffix it was given.
Tokens == Words \cup Nat \cup {Signed, PreRendered} \cup Requests

\* What a file contains: which upload it was, and which requests rewrote it.
Bytes == Seq(Requests)

Path == [dir : {"documents", "signed"}, user : Users, name : Seq(Tokens)]

Document ==
  [owner : Users, name : Seq(Tokens), original : Bytes, draft : BOOLEAN,
   signed : BOOLEAN, qr : BOOLEAN, final : Seq(Tokens) \cup {Null},
   hash : Bytes \cup {Null}]

ASSUME FilesAssumption ==
  /\ Names \subseteq Seq(Tokens)
  /\ (Words \cup {Signed, PreRendered}) \cap (Nat \cup Requests) = {}
  /\ {Signed, PreRendered} \cap Words = {} /\ Signed # PreRendered
  /\ Requests \cap Nat = {}
  /\ Plain \in [Words -> Words]
  /\ MaxInFlight \in Nat /\ Faults \in BOOLEAN

ASSUME NullIsNoFile == Null \notin Seq(Tokens) \cup Document

Handlers == {"start", "request", "sign", "finalizeQr", "delete"}

Snapshot ==
  [handler : Handlers \cup {"upload", Null}, doc : Requests \cup {Null},
   row : Document \cup {Null}, bytes : Bytes \cup {Null}]

NothingRead == [handler |-> Null, doc |-> Null, row |-> Null, bytes |-> Null]

-----------------------------------------------------------------------------
(* The files *)

InDocuments(u, name) == [dir |-> "documents", user |-> u, name |-> name]
InSigned(u, name) == [dir |-> "signed", user |-> u, name |-> name]

Write(path, bytes) ==
  disk' = [p \in DOMAIN disk \cup {path} |-> IF p = path THEN bytes ELSE disk[p]]

Unlink(path) == disk' = [p \in DOMAIN disk \ {path} |-> disk[p]]

\* The first of these sets of files in which there is one.
FirstOf(sets) ==
  LET i == SelectInSeq(sets, LAMBDA files : files # {})
  IN IF i = 0 THEN {} ELSE sets[i]

At(path) == {path} \cap DOMAIN disk

ByName(u, name) ==
  IF name = Null THEN {} ELSE FirstOf(<<At(InSigned(u, name)), At(InDocuments(u, name))>>)

\* findDocumentPathByHash: entries come in any order.
WithHash(dir, users, bytes) ==
  {p \in DOMAIN disk : p.dir = dir /\ p.user \in users /\ disk[p] = bytes}

\* The two roots hold the directories of all users.
ByHash(u, bytes) ==
  IF bytes = Null THEN {}
  ELSE FirstOf(<<WithHash("signed", {u}, bytes), WithHash("signed", Users, bytes),
                 WithHash("documents", {u}, bytes), WithHash("documents", Users, bytes)>>)

\* The paths resolveDocumentPath may return, none if it throws.
ResolveDocumentPath(u, names) ==
  FirstOf(<<ByName(u, names.final), ByName(u, names.name),
            ByHash(u, names.hash), ByHash(u, names.original)>>)

\* The file as it is now, its original and its signed version.
Latest(row) == ResolveDocumentPath(row.owner, row)

OriginalOf(row) == ResolveDocumentPath(row.owner, [row EXCEPT !.final = Null, !.hash = Null])

SignedVersion(row) ==
  IF row.final = Null \/ row.hash = Null \/ ~row.signed THEN {}
  ELSE ResolveDocumentPath(row.owner, [row EXCEPT !.name = Null, !.original = Null])

\* What AdminService looks for on its own, in another order.
AdminByHash(u, bytes) ==
  IF bytes = Null THEN {}
  ELSE FirstOf(<<WithHash("signed", {u}, bytes), WithHash("documents", {u}, bytes),
                 WithHash("signed", Users, bytes), WithHash("documents", Users, bytes)>>)

AdminResolved(u, names) ==
  FirstOf(<<ByName(u, names.final), ByName(u, names.name),
            AdminByHash(u, names.hash), AdminByHash(u, names.original)>>)

\* Mutant: the hash of the original goes first.
AdminFileMutant(row) ==
  AdminResolved(row.owner,
    [row EXCEPT !.final = Null, !.hash = row.original, !.original = row.hash])

\* getDocumentFile
AdminFile(row) == AdminResolved(row.owner, row)

\* Mutant: the number that tells two uploads apart is dropped.
BuildSignedPdfFileNameMutant(name) == <<Plain[Head(name)], Signed>>

Sanitised(name) ==
  [i \in DOMAIN name |-> IF name[i] \in Words THEN Plain[name[i]] ELSE name[i]]

BuildSignedPdfFileName(name) == Append(Sanitised(name), Signed)

PreRenderedName(d) == <<d, PreRendered>>

\* An upload named as files are stored, such as thesis-signed.pdf, may be taken
\* for one of them.
IsStoredName(name) ==
  name # <<>> /\ name[Len(name)] \in {Signed, PreRendered} \cup Requests

-----------------------------------------------------------------------------
FilesInit ==
  /\ docs = [r \in Requests |-> Null]
  /\ disk = <<>>
  /\ pc = [r \in Requests |-> "idle"]
  /\ snap = [r \in Requests |-> NothingRead]
  /\ collided = {}

Goto(r, step, s) ==
  /\ pc' = [pc EXCEPT ![r] = step]
  /\ snap' = [snap EXCEPT ![r] = s]

Finish(r) == Goto(r, "done", NothingRead)

InFlight == {r \in Requests : pc[r] \notin {"idle", "done", "failed"}}

Documents == {d \in Requests : docs[d] # Null}

Arrives(r) == pc[r] = "idle" /\ Cardinality(InFlight) < MaxInFlight

\* Whose name is another, but not that of the signed file.
Namesakes(row) ==
  {d \in Documents : /\ docs[d].owner = row.owner /\ docs[d].name # row.name
                     /\ Sanitised(docs[d].name) = Sanitised(row.name)}

\* A row deleted meanwhile aborts the update.
Update(d, row) == docs' = IF docs[d] = Null THEN docs ELSE [docs EXCEPT ![d] = row]

-----------------------------------------------------------------------------
(* uploadDocument *)

NamesOf(u) == {docs[d].name : d \in {c \in Documents : docs[c].owner = u}}

\* Mutant: a name that was used is used again.
BuildUniqueOriginalFileNameMutant(u, name) == name

\* The name itself, or with the least number not used yet.
BuildUniqueOriginalFileName(u, name) ==
  IF name \notin NamesOf(u) THEN name
  ELSE Append(name, Min({i \in 1..Cardinality(NamesOf(u)) : Append(name, i) \notin NamesOf(u)}))

\* Fresh bytes, or those of a file that was downloaded before.
Uploads(r) == {<<r>>} \cup {disk[p] : p \in DOMAIN disk}

UploadReadNames(r, u, name, bytes) ==
  /\ Arrives(r)
  /\ Write(InDocuments(u, <<r>>), bytes)
  /\ Goto(r, "uploadCreate", [NothingRead EXCEPT !.handler = "upload", !.doc = r, !.row =
       [owner |-> u, name |-> BuildUniqueOriginalFileName(u, name), original |-> bytes,
        draft |-> TRUE, signed |-> FALSE, qr |-> FALSE, final |-> Null, hash |-> Null]])
  /\ UNCHANGED <<docs, collided>>

UploadCreate(r) ==
  LET row == snap[r].row IN
  /\ pc[r] = "uploadCreate"
  /\ docs' = [docs EXCEPT ![r] = row]
  /\ collided' = collided \cup Namesakes(row)
                 \cup {d \in {r} : Namesakes(row) # {} \/ IsStoredName(row.name)}
  /\ Finish(r)
  /\ UNCHANGED disk

-----------------------------------------------------------------------------
(* startCertification, requestSigners, signDocument and finalizeQr: a row  *)
(* is read, a file rewritten, its name and its hash recorded               *)

May(handler, row) ==
  CASE handler \in {"start", "delete"} -> row.draft
    [] handler = "request" -> ~row.signed
    [] handler = "sign" -> TRUE
    [] handler = "finalizeQr" -> ~row.signed /\ ~row.qr

Read(r, handler, d) ==
  /\ Arrives(r)
  /\ May(handler, docs[d])
  /\ Goto(r, IF handler \in {"start", "request"} THEN "open"
             ELSE IF handler = "delete" THEN "deleteFile" ELSE "source",
          [NothingRead EXCEPT !.handler = handler, !.doc = d, !.row = docs[d]])
  /\ UNCHANGED <<docs, disk, collided>>

\* The status becomes PENDING_SIGNATURES.
Open(r) ==
  LET d == snap[r].doc IN
  /\ pc[r] = "open"
  /\ Update(d, [docs[d] EXCEPT !.draft = FALSE])
  /\ IF snap[r].handler = "request" /\ docs[d] # Null THEN Goto(r, "source", snap[r])
     ELSE Finish(r)
  /\ UNCHANGED <<disk, collided>>

\* requestSigners always starts from the original; signDocument places the QR
\* code of a document that has none.
ReadSource(r) ==
  LET s == snap[r] IN
  /\ pc[r] = "source"
  /\ LET paths == IF s.handler = "request" THEN OriginalOf(s.row) ELSE Latest(s.row) IN
     \/ paths = {} /\ Finish(r) /\ UNCHANGED docs
     \/ \E path \in paths :
          /\ Goto(r, "save", [s EXCEPT !.bytes = disk[path]])
          /\ IF s.handler = "sign" /\ ~s.row.qr
             THEN Update(s.doc, [docs[s.doc] EXCEPT !.qr = TRUE]) ELSE UNCHANGED docs
  /\ UNCHANGED <<disk, collided>>

\* The path of the pre-rendered file, or that of saveSignedDocument.
Target(s) ==
  IF s.handler = "request" THEN InDocuments(s.row.owner, PreRenderedName(s.doc))
  ELSE InSigned(s.row.owner, BuildSignedPdfFileName(s.row.name))

SaveFile(r) ==
  LET bytes == Append(snap[r].bytes, r) IN
  /\ pc[r] = "save"
  /\ Write(Target(snap[r]), bytes)
  /\ Goto(r, "record", [snap[r] EXCEPT !.bytes = bytes])
  /\ UNCHANGED <<docs, collided>>

RecordFile(r) ==
  LET s == snap[r] IN
  /\ pc[r] = "record"
  /\ Update(s.doc, [docs[s.doc] EXCEPT
       !.final = Target(s).name, !.hash = s.bytes, !.qr = TRUE,
       !.signed = @ \/ s.handler = "sign", !.draft = @ /\ s.handler # "sign"])
  /\ Finish(r)
  /\ UNCHANGED <<disk, collided>>

-----------------------------------------------------------------------------
(* deleteDraftDocument *)

DeleteFile(r) ==
  LET paths == Latest(snap[r].row) IN
  /\ pc[r] = "deleteFile"
  /\ \/ paths = {} /\ UNCHANGED disk
     \/ \E path \in paths : Unlink(path)
  /\ Goto(r, "deleteRow", snap[r])
  /\ UNCHANGED <<docs, collided>>

DeleteRow(r) ==
  /\ pc[r] = "deleteRow"
  /\ docs' = [docs EXCEPT ![snap[r].doc] = Null]
  /\ Finish(r)
  /\ UNCHANGED <<disk, collided>>

-----------------------------------------------------------------------------
\* An await rejects, a later check throws, or the server goes down.
Fail(r) ==
  /\ Faults
  /\ r \in InFlight
  /\ Goto(r, "failed", NothingRead)
  /\ UNCHANGED <<docs, disk, collided>>

Receive(r) ==
  \/ \E u \in Users, name \in Names, bytes \in Uploads(r) : UploadReadNames(r, u, name, bytes)
  \/ \E handler \in Handlers, d \in Documents : Read(r, handler, d)

Step(r) ==
  \/ UploadCreate(r) \/ Open(r) \/ ReadSource(r) \/ SaveFile(r) \/ RecordFile(r)
  \/ DeleteFile(r) \/ DeleteRow(r)

FilesNext == \E r \in Requests : Receive(r) \/ Step(r) \/ Fail(r)

FilesSpec == FilesInit /\ [][FilesNext]_filesVars

-----------------------------------------------------------------------------
\* Every row, file and snapshot has the type of its columns or variables.
FilesTypeOK ==
  /\ docs \in [Requests -> Document \cup {Null}]
  /\ DOMAIN disk \subseteq Path /\ \A p \in DOMAIN disk : disk[p] \in Bytes
  /\ pc \in [Requests -> {"idle", "uploadCreate", "open", "source", "save", "record",
                          "deleteFile", "deleteRow", "done", "failed"}]
  /\ snap \in [Requests -> Snapshot]
  /\ collided \in SUBSET Requests

(* What is signed, drawn upon or sent as a document's file was made from   *)
(* what its owner uploaded, whatever the contents of other documents are,  *)
(* whichever of them were deleted, and whatever failed between writing a   *)
(* file and recording it.  Documents of equal names are kept apart by      *)
(* buildUniqueOriginalFileName.  Not so those of which only the sanitised  *)
(* names are equal: they share one signed file.  And an upload whose name  *)
(* is like that of a stored file may be taken for that file.  The promise  *)
(* is made to every document to which neither happened: those that were    *)
(* confused with each other take nobody else's file with them.             *)
FilesAreOwn ==
  \A d \in Documents \ collided : \A p \in Latest(docs[d]) \cup OriginalOf(docs[d]) :
    IsPrefix(docs[d].original, disk[p])

(* Rows and files agree.                                                   *)
FilesAgree == FilesTypeOK /\ FilesAreOwn

NothingFailed == \A r \in Requests : pc[r] \in {"idle", "done"}

(* As long as no request failed and no stored names met, the signed       *)
(* version of a document is found and is what was recorded last, although  *)
(* the deletion of a draft may unlink any file with the same contents      *)
(* (resolveDocumentPath): each copy that is gone has left another.         *)
SignedVersionIsServed ==
  NothingFailed /\ collided = {} => \A d \in Documents :
    docs[d].signed =>
      /\ SignedVersion(docs[d]) # {}
      /\ \A p \in SignedVersion(docs[d]) \cup Latest(docs[d]) : disk[p] = docs[d].hash

(* What an administrator previews is what the owner and the signers are    *)
(* served, although AdminService has a resolver of its own that searches   *)
(* the directories in another order, whatever was lost or left over.       *)
AdminPreviewsTheSame ==
  \A d \in Documents :
    {disk[p] : p \in AdminFile(docs[d])} = {disk[p] : p \in Latest(docs[d])}

(* Nor is an upload lost: the original of every document can be read.      *)
OriginalIsServed ==
  NothingFailed /\ collided = {} => \A d \in Documents :
    OriginalOf(docs[d]) # {} /\ \A p \in OriginalOf(docs[d]) : disk[p] = docs[d].original

(* Both versions of every document are served.                             *)
VersionsAreServed == SignedVersionIsServed /\ OriginalIsServed
=============================================================================
