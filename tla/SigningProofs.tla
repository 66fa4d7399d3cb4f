---------------------------- MODULE SigningProofs ----------------------------
(***************************************************************************)
(* Theorems about the signing workflow: first what holds for every number  *)
(* of users, requests and requests in flight, with and without failures;   *)
(* then for a server that handles one request at a time, where what a      *)
(* handler has read is still so when it writes, so that Signing implements *)
(* SigningWorkflow, and its rows, its files and what its users are shown   *)
(* of them agree.                                                          *)
(***************************************************************************)
EXTENDS DocumentViews, FiniteSetTheorems, TLAPS

\* What a handler that waits at step has read: TypeOK alone is not
\* inductive, because the snapshot of a request not being handled is blank.
Ready(step, s) ==
  /\ step \notin {"idle", "done", "failed", "revokeUpdate"} => s.user \in Users
  /\ step \in {"signCount", "signQr", "signSave", "signOrder", "signCommit"} =>
       s.file \in FileNames
  /\ step \in {"signQr", "signSave", "signOrder", "signCommit"} => s.source \in Content
  /\ step \in {"declineNext", "declineCommit"} => s.existing \in SignerRow

ReadBeforeUse == \A r \in Requests : Ready(pc[r], snap[r])

TypeInv == TypeOK /\ ReadBeforeUse

\* Its two halves: the rows and files, and the requests.
DataTypes ==
  /\ doc \in [exists : BOOLEAN, status : Statuses, qr : BOOLEAN,
              final : FileNames \cup {None}, hash : Content \cup {None}]
  /\ signers \in [Users -> SignerRow \cup {None}]
  /\ signatures \subseteq Signature
  /\ disk \in [FileNames -> Content \cup {None}]

RequestTypes ==
  /\ pc \in [Requests -> Awaits] /\ snap \in [Requests -> Snapshot]
  /\ \A r \in Requests : Ready(pc[r], snap[r])

LEMMA Halves == TypeInv <=> DataTypes /\ RequestTypes
BY DEF TypeInv, TypeOK, ReadBeforeUse, DataTypes, RequestTypes

LEMMA HalvesNext == TypeInv' <=> DataTypes' /\ RequestTypes'
BY DEF TypeInv, TypeOK, ReadBeforeUse, DataTypes, RequestTypes

\* Going on to an await with what it needs keeps the requests typed.
LEMMA GotoType ==
  ASSUME RequestTypes, NEW r \in Requests, NEW step \in Awaits, NEW s \in Snapshot,
         Ready(step, s), Goto(r, step, s)
  PROVE  RequestTypes'
BY DEF Goto, RequestTypes

LEMMA BlankType == Blank \in Snapshot
BY DEF Blank, Snapshot

LEMMA FinishType ==
  ASSUME RequestTypes, NEW r \in Requests, Finish(r) \/ Goto(r, "failed", Blank)
  PROVE  RequestTypes'
<1>1. Ready("done", Blank) /\ Ready("failed", Blank)
  BY DEF Ready
<1> QED
  BY <1>1, GotoType, BlankType DEF Finish, Awaits

LEMMA ReadDocumentType ==
  ASSUME DataTypes, NEW u \in Users
  PROVE  ReadDocument(u) \in Snapshot /\ ReadDocument(u).user = u
<1>1. /\ doc.qr \in BOOLEAN /\ doc.final \in FileNames \cup {None}
      /\ doc.hash \in Content \cup {None}
  BY DEF DataTypes
<1> DEFINE Read(d, e) == [Blank EXCEPT !.user = u, !.draft = d, !.unsigned = e,
                            !.qr = doc.qr, !.file = doc.final, !.hash = doc.hash]
<1>2. ASSUME NEW d \in BOOLEAN, NEW e \in BOOLEAN
      PROVE  Read(d, e) \in Snapshot /\ Read(d, e).user = u
  <2>1. Read(d, e) \in Snapshot
    BY <1>1, BlankType DEF Snapshot
  <2>2. Read(d, e).user = u
    BY DEF Blank
  <2> QED
    BY <2>1, <2>2
<1>3. (doc.status = "DRAFT") \in BOOLEAN /\ (signatures = {}) \in BOOLEAN
  OBVIOUS
<1>4. ReadDocument(u) = Read(doc.status = "DRAFT", signatures = {})
  BY DEF ReadDocument
<1> HIDE DEF Read
<1> QED
  BY <1>2, <1>3, <1>4, Zenon

\* The number of users with some property is a natural number.
LEMMA UserCount ==
  ASSUME NEW S \in SUBSET Users
  PROVE  Cardinality(S) \in Nat
BY SigningAssumption, FS_Subset, FS_CardinalityType

\* The order a list gives to a user is a natural number.
LEMMA OrderOfType ==
  ASSUME NEW list \in SignerLists
  PROVE  OrderOf(list) \in [Users -> Nat]
<1>1. Cardinality(Users) \in Nat
  BY UserCount
<1>2. PICK n \in 1..Cardinality(Users) : list \in [1..n -> Users]
  BY DEF SignerLists
<1>3. IsFiniteSet(1..n) /\ DOMAIN list = 1..n
  BY <1>1, <1>2, FS_Interval
<1>4. ASSUME NEW T, T \subseteq DOMAIN list PROVE Cardinality(T) \in Nat
  BY <1>3, <1>4, FS_Subset, FS_CardinalityType
<1> QED
  BY <1>4 DEF OrderOf

-----------------------------------------------------------------------------
(* Type correctness, one lemma per group of handlers *)

LEMMA ArrivalTypes ==
  ASSUME DataTypes, RequestTypes, NEW r \in Requests, Receive(r)
  PROVE  DataTypes' /\ RequestTypes'
<1>1. ASSUME NEW u \in Users, NEW step \in Awaits, step \notin {"signCount", "signQr",
               "signSave", "signOrder", "signCommit", "declineNext", "declineCommit"},
             Goto(r, step, ReadDocument(u))
      PROVE  RequestTypes'
  <2>1. Ready(step, ReadDocument(u))
    BY <1>1, ReadDocumentType DEF Ready
  <2> QED
    BY <1>1, <2>1, ReadDocumentType, GotoType
<1>2. UNCHANGED <<doc, signers, signatures, disk>>
  BY DEF Receive, StartRead, SignRead, DeclineRead, QrRead, DeleteRead, RequestRead, RevokeRead
<1>3. DataTypes'
  BY <1>2 DEF DataTypes
<1>4. ASSUME NEW u \in Users,
             StartRead(r, u) \/ SignRead(r, u) \/ QrRead(r, u) \/ DeleteRead(r, u)
      PROVE  RequestTypes'
  BY <1>1, <1>4 DEF StartRead, SignRead, QrRead, DeleteRead, Awaits
<1>5. ASSUME NEW u \in Users, DeclineRead(r, u) PROVE RequestTypes'
  <2> DEFINE s == [ReadDocument(u) EXCEPT !.existing = signers[u]]
  <2>1. signers[u] \in SignerRow
    BY <1>5 DEF DeclineRead, DataTypes
  <2>2. s \in Snapshot /\ s.user = u /\ s.existing \in SignerRow
    BY <2>1, ReadDocumentType DEF Snapshot
  <2>3. Ready("declineNext", s)
    BY <2>2 DEF Ready
  <2> QED
    BY <1>5, <2>2, <2>3, GotoType DEF DeclineRead, Awaits
<1>6. ASSUME NEW u \in Users, NEW list \in SignerLists, RequestRead(r, u, list)
      PROVE  RequestTypes'
  <2> DEFINE s == [ReadDocument(u) EXCEPT !.order = OrderOf(list)]
  <2>1. s \in Snapshot /\ s.user = u
    BY ReadDocumentType, OrderOfType DEF Snapshot
  <2>2. Ready("requestExisting", s)
    BY <2>1 DEF Ready
  <2> QED
    BY <1>6, <2>1, <2>2, GotoType DEF RequestRead, Awaits
<1>7. ASSUME RevokeRead(r) PROVE RequestTypes'
  <2>1. Ready("revokeUpdate", Blank)
    BY DEF Ready
  <2> QED
    BY <1>7, <2>1, GotoType, BlankType DEF RevokeRead, Awaits
<1> QED
  BY <1>3, <1>4, <1>5, <1>6, <1>7 DEF Receive

\* A step that keeps the snapshot and needs nothing new.
LEMMA PassOn ==
  ASSUME RequestTypes, NEW r \in Requests, NEW step \in Awaits, Goto(r, step, snap[r]),
         Ready(pc[r], snap[r]) => Ready(step, snap[r])
  PROVE  RequestTypes'
BY GotoType DEF RequestTypes

LEMMA RequestSignersTypes ==
  ASSUME DataTypes, RequestTypes, NEW r \in Requests,
         \/ StartUpdate(r) \/ RequestReadExisting(r) \/ RequestReadOmitted(r)
         \/ RequestCommit(r) \/ RequestReadSource(r) \/ RequestPreRender(r)
         \/ RequestUpdateFinal(r)
  PROVE  DataTypes' /\ RequestTypes'
<1>0. snap[r] \in Snapshot /\ Ready(pc[r], snap[r])
  BY DEF RequestTypes
<1>1. CASE StartUpdate(r)
  BY <1>1, FinishType DEF StartUpdate, DataTypes, Statuses
<1>2. CASE RequestReadExisting(r)
  <2> DEFINE s == [snap[r] EXCEPT !.rows =
                     [u \in Users |-> IF Named(r, u) THEN signers[u] ELSE None]]
  <2>1. s \in Snapshot /\ s.user = snap[r].user
    BY <1>0 DEF DataTypes, Snapshot
  <2>2. Ready("requestOmitted", s)
    BY <1>0, <1>2, <2>1 DEF RequestReadExisting, Ready
  <2> QED
    BY <1>2, <2>1, <2>2, GotoType DEF RequestReadExisting, Awaits, DataTypes
<1>3. CASE RequestReadOmitted(r)
  <2> DEFINE s == [snap[r] EXCEPT !.rows =
                     [u \in Users |-> IF Named(r, u) THEN @[u] ELSE signers[u]]]
  <2>1. s \in Snapshot /\ s.user = snap[r].user
    BY <1>0 DEF DataTypes, Snapshot
  <2>2. Ready("requestCommit", s)
    BY <1>0, <1>3, <2>1 DEF RequestReadOmitted, Ready
  <2> QED
    BY <1>3, <2>1, <2>2, GotoType, FinishType DEF RequestReadOmitted, Awaits, DataTypes
<1>4. CASE RequestCommit(r)
  <2>1. ASSUME RequestMayCommit(r), NEW u \in Users
        PROVE  RequestedRow(r, u) \in SignerRow \cup {None}
    <3>1. /\ signers[u] \in SignerRow \cup {None}
          /\ snap[r].rows[u] \in SignerRow \cup {None}
          /\ snap[r].order[u] \in Nat
      BY <1>0 DEF DataTypes, Snapshot
    <3>2. CASE ~Named(r, u)
      BY <3>1, <3>2 DEF RequestedRow
    <3>3. CASE Named(r, u) /\ snap[r].rows[u] = None
      BY <3>1, <3>3 DEF RequestedRow, SignerRow
    <3>4. CASE Named(r, u) /\ snap[r].rows[u] # None
      <4>1. CASE snap[r].rows[u].status = "SIGNED"
        BY <3>1, <3>4, <4>1 DEF RequestedRow, SignerRow
      <4>2. CASE snap[r].rows[u].status # "SIGNED"
        <5>1. signers[u] \in SignerRow
          BY <2>1, <3>1, <3>4, <4>2 DEF RequestMayCommit, StillThere
        <5> QED
          BY <3>1, <3>4, <4>2, <5>1 DEF RequestedRow, SignerRow
      <4> QED
        BY <4>1, <4>2
    <3> QED
      BY <3>2, <3>3, <3>4
  <2>2. CASE RequestMayCommit(r)
    <3>1. signers' \in [Users -> SignerRow \cup {None}]
      BY <1>4, <2>1, <2>2 DEF RequestCommit
    <3>2. DataTypes'
      BY <1>4, <2>2, <3>1 DEF RequestCommit, DataTypes, Statuses
    <3>3. RequestTypes'
      BY <1>4, <2>2, PassOn DEF RequestCommit, Awaits, Ready
    <3> QED
      BY <3>2, <3>3
  <2>3. CASE ~RequestMayCommit(r)
    BY <1>4, <2>3, FinishType DEF RequestCommit, DataTypes
  <2> QED
    BY <2>2, <2>3
<1>5. CASE RequestReadSource(r)
  BY <1>5, PassOn, FinishType DEF RequestReadSource, Awaits, Ready, DataTypes
<1>6. CASE RequestPreRender(r)
  BY <1>6, PassOn DEF RequestPreRender, Awaits, Ready, DataTypes, Content, FileNames
<1>7. CASE RequestUpdateFinal(r)
  BY <1>7, FinishType DEF RequestUpdateFinal, DataTypes, Content, FileNames
<1> QED
  BY <1>1, <1>2, <1>3, <1>4, <1>5, <1>6, <1>7

LEMMA ReadNextTypes ==
  ASSUME DataTypes, RequestTypes, NEW r \in Requests, NEW step, NEW then \in Awaits,
         ReadNext(r, step, then), Ready(step, snap[r]) => Ready(then, snap[r])
  PROVE  DataTypes' /\ RequestTypes'
BY PassOn, FinishType DEF ReadNext, DataTypes

LEMMA SignTypes ==
  ASSUME DataTypes, RequestTypes, NEW r \in Requests,
         \/ SignReadNext(r) \/ SignReadExisting(r) \/ SignCountRequired(r)
         \/ SignCountPending(r) \/ SignReadSource(r) \/ SignPlaceQr(r)
         \/ SignSaveFile(r) \/ SignReadOrder(r) \/ SignCommit(r)
  PROVE  DataTypes' /\ RequestTypes'
<1>0. snap[r] \in Snapshot /\ Ready(pc[r], snap[r])
  BY DEF RequestTypes
<1>1. CASE SignReadNext(r)
  BY <1>1, ReadNextTypes DEF SignReadNext, Awaits, Ready
<1>2. CASE SignReadExisting(r)
  <2> DEFINE row == signers[snap[r].user]
  <2>1. DataTypes'
    BY <1>2 DEF SignReadExisting, DataTypes
  <2>2. ASSUME NEW path \in ResolveDocumentPath(snap[r].file, snap[r].hash),
               Goto(r, "signCount", [snap[r] EXCEPT !.file = path, !.existing = row])
        PROVE  RequestTypes'
    <3> DEFINE s == [snap[r] EXCEPT !.file = path, !.existing = row]
    <3>1. path \in FileNames
      BY <1>0 DEF ResolveDocumentPath, Snapshot, FileNames
    <3>2. snap[r].user \in Users
      BY <1>0, <1>2 DEF SignReadExisting, Ready
    <3>3. row \in SignerRow \cup {None}
      BY <3>2 DEF DataTypes
    <3>4. s \in Snapshot /\ s.user = snap[r].user /\ s.file = path
      BY <1>0, <3>1, <3>3 DEF Snapshot
    <3>5. Ready("signCount", s)
      BY <3>1, <3>2, <3>4 DEF Ready
    <3> QED
      BY <2>2, <3>4, <3>5, GotoType DEF Awaits
  <2> QED
    BY <1>2, <2>1, <2>2, FinishType DEF SignReadExisting
<1>3. CASE SignCountRequired(r)
  <2> DEFINE n == Cardinality({u \in Users : signers[u] # None})
             s == [snap[r] EXCEPT !.required = n]
  <2>1. n \in Nat
    BY UserCount
  <2>2. s \in Snapshot /\ s.user = snap[r].user /\ s.file = snap[r].file
    BY <1>0, <2>1 DEF Snapshot
  <2>3. Ready("signCount", s)
    BY <1>0, <1>3, <2>2 DEF SignCountRequired, Ready
  <2> QED
    BY <1>3, <2>2, <2>3, GotoType DEF SignCountRequired, Awaits, DataTypes
<1>4. CASE SignCountPending(r)
  <2> DEFINE n == Cardinality({u \in Users : signers[u] # None /\ signers[u].status # "SIGNED"})
             s == [snap[r] EXCEPT !.pending = n]
  <2>1. n \in Nat
    BY UserCount
  <2>2. s \in Snapshot /\ s.user = snap[r].user /\ s.file = snap[r].file
    BY <1>0, <2>1 DEF Snapshot
  <2>3. Ready("signCount", s)
    BY <1>0, <1>4, <2>2 DEF SignCountPending, Ready
  <2> QED
    BY <1>4, <2>2, <2>3, GotoType DEF SignCountPending, Awaits, DataTypes
<1>5. CASE SignReadSource(r)
  <2> DEFINE s == [snap[r] EXCEPT !.source = disk[snap[r].file]]
             then == IF snap[r].qr THEN "signSave" ELSE "signQr"
  <2>1. snap[r].file \in FileNames /\ snap[r].user \in Users
    BY <1>0, <1>5 DEF SignReadSource, Ready
  <2>2. disk[snap[r].file] \in Content \cup {None}
    BY <2>1 DEF DataTypes
  <2>3. ASSUME disk[snap[r].file] # None
        PROVE  s \in Snapshot /\ Ready("signSave", s) /\ Ready("signQr", s)
    BY <1>0, <2>1, <2>2, <2>3 DEF Snapshot, Ready
  <2> QED
    BY <1>5, <2>3, GotoType, FinishType DEF SignReadSource, Awaits, DataTypes
<1>6. CASE SignPlaceQr(r)
  BY <1>6, PassOn, FinishType DEF SignPlaceQr, Awaits, Ready, DataTypes
<1>7. CASE SignSaveFile(r)
  <2> DEFINE s == [snap[r] EXCEPT !.source = SignedContent(r)]
  <2>1. snap[r].source \in Content
    BY <1>0, <1>7 DEF SignSaveFile, Ready
  <2>2. SignedContent(r) \in Content
    BY <2>1 DEF SignedContent, Content
  <2>3. s \in Snapshot /\ Ready("signOrder", s)
    BY <1>0, <1>7, <2>2 DEF SignSaveFile, Snapshot, Ready
  <2> QED
    BY <1>7, <2>2, <2>3, GotoType DEF SignSaveFile, Awaits, DataTypes
<1>8. CASE SignReadOrder(r)
  <2>1. ASSUME NEW n \in Orders \cup {0}
        PROVE  /\ [snap[r] EXCEPT !.last = n] \in Snapshot
               /\ Ready("signCommit", [snap[r] EXCEPT !.last = n])
    <3>1. n \in Nat
      BY <2>1 DEF Orders, DataTypes, Signature
    <3> QED
      BY <1>0, <1>8, <3>1 DEF SignReadOrder, Snapshot, Ready
  <2> QED
    BY <1>8, <2>1, GotoType DEF SignReadOrder, Awaits, DataTypes
<1>9. CASE SignCommit(r)
  <2>1. RequestTypes'
    BY <1>9, FinishType DEF SignCommit
  <2>2. /\ snap[r].user \in Users /\ snap[r].last \in Nat
        /\ snap[r].source \in Content /\ snap[r].existing \in SignerRow \cup {None}
    BY <1>0, <1>9 DEF SignCommit, Ready, Snapshot
  <2>3. NextOrder(r) \in Nat
    BY <2>2 DEF NextOrder
  <2>4. CASE ~SignMayCommit(r)
    BY <1>9, <2>1, <2>4 DEF SignCommit, DataTypes
  <2>5. CASE SignMayCommit(r)
    <3>1. SignedRow(r) \in SignerRow
      <4>1. CASE snap[r].existing = None
        BY <2>3, <4>1 DEF SignedRow, SignerRow
      <4>2. CASE snap[r].existing # None
        <5>1. signers[snap[r].user] \in SignerRow
          BY <2>2, <2>5, <4>2 DEF SignMayCommit, StillThere, DataTypes
        <5> QED
          BY <4>2, <5>1 DEF SignedRow, SignerRow
      <4> QED
        BY <4>1, <4>2
    <3>2. signers' \in [Users -> SignerRow \cup {None}]
      BY <1>9, <2>5, <3>1 DEF SignCommit, DataTypes
    <3>3. signatures' \subseteq Signature
      BY <1>9, <2>2, <2>3, <2>5 DEF SignCommit, DataTypes, Signature
    <3>4. disk' = disk /\ doc' \in [exists : BOOLEAN, status : Statuses, qr : BOOLEAN,
                              final : FileNames \cup {None}, hash : Content \cup {None}]
      BY <1>9, <2>2, <2>5 DEF SignCommit, DataTypes, Statuses, FileNames
    <3> QED
      BY <2>1, <3>2, <3>3, <3>4 DEF DataTypes
  <2> QED
    BY <2>4, <2>5
<1> QED
  BY <1>1, <1>2, <1>3, <1>4, <1>5, <1>6, <1>7, <1>8, <1>9

LEMMA OtherTypes ==
  ASSUME DataTypes, RequestTypes, NEW r \in Requests,
         \/ DeclineReadNext(r) \/ DeclineCommit(r) \/ QrReadSource(r) \/ QrSaveFile(r)
         \/ QrUpdate(r) \/ DeleteFile(r) \/ DeleteRow(r) \/ RevokeUpdate(r) \/ Fail(r)
  PROVE  DataTypes' /\ RequestTypes'
<1>0. snap[r] \in Snapshot /\ Ready(pc[r], snap[r])
  BY DEF RequestTypes
<1>1. CASE DeclineReadNext(r)
  BY <1>1, ReadNextTypes DEF DeclineReadNext, Awaits, Ready
<1>2. CASE DeclineCommit(r)
  <2>1. snap[r].user \in Users /\ snap[r].existing \in SignerRow
    BY <1>0, <1>2 DEF DeclineCommit, Ready
  <2> QED
    BY <1>2, <2>1, FinishType
    DEF DeclineCommit, DeclinedStatus, StillThere, DataTypes, SignerRow, Statuses
<1>3. CASE QrReadSource(r)
  BY <1>3, PassOn, FinishType DEF QrReadSource, Awaits, Ready, DataTypes
<1>4. CASE QrSaveFile(r)
  BY <1>4, PassOn DEF QrSaveFile, Awaits, Ready, DataTypes, Content, FileNames
<1>5. CASE QrUpdate(r)
  BY <1>5, FinishType DEF QrUpdate, DataTypes, Content, FileNames
<1>6. CASE DeleteFile(r)
  BY <1>6, PassOn DEF DeleteFile, Awaits, Ready, DataTypes
<1>7. CASE DeleteRow(r)
  BY <1>7, FinishType DEF DeleteRow, DataTypes, Statuses
<1>8. CASE RevokeUpdate(r)
  BY <1>8, FinishType DEF RevokeUpdate, DataTypes, Statuses
<1>9. CASE Fail(r)
  BY <1>9, FinishType DEF Fail, DataTypes
<1> QED
  BY <1>1, <1>2, <1>3, <1>4, <1>5, <1>6, <1>7, <1>8, <1>9

LEMMA TypeInvariant == Spec => []TypeInv
<1>1. Init => TypeInv
  <2>1. Init => TypeOK
    BY BlankType DEF Init, TypeOK, Statuses, Content, Original, FileNames, Awaits
  <2>2. Init => ReadBeforeUse
    BY DEF Init, ReadBeforeUse, Ready
  <2> QED
    BY <2>1, <2>2 DEF TypeInv
<1>2. TypeInv /\ [Next]_vars => TypeInv'
  <2>1. ASSUME TypeInv, NEW r \in Requests, Receive(r) \/ Step(r) \/ Fail(r)
        PROVE  TypeInv'
    BY <2>1, Halves, HalvesNext, ArrivalTypes, RequestSignersTypes, SignTypes, OtherTypes
    DEF Step
  <2>2. ASSUME TypeInv, UNCHANGED vars PROVE TypeInv'
    BY <2>2 DEF TypeInv, TypeOK, ReadBeforeUse, vars
  <2> QED
    BY <2>1, <2>2 DEF Next
<1> QED
  BY <1>1, <1>2, PTL DEF Spec

\* Every row, file and snapshot keeps its type, in every handler.
THEOREM TypeCorrect == Spec => []TypeOK
<1>1. TypeInv => TypeOK
  BY DEF TypeInv
<1> QED
  BY <1>1, TypeInvariant, PTL

-----------------------------------------------------------------------------
(* The numbering of signatures *)

\* The maximum a signer read before its transaction may be stale, but every
\* number up to it is taken: signatures are never removed while the document
\* exists, and the transaction fails once it does not.
MaximumWasReached ==
  \A r \in Requests : pc[r] = "signCommit" /\ doc.exists =>
    \A k \in 1..snap[r].last : k \in Orders

GapInv == GapFreeOrders /\ MaximumWasReached

\* What every step but three leaves alone.
Quiet ==
  /\ signatures' = signatures
  /\ doc'.exists => doc.exists
  /\ \A q \in Requests : pc'[q] = "signCommit" => pc[q] = "signCommit" /\ snap'[q] = snap[q]

LEMMA GotoQuiet ==
  ASSUME TypeInv, NEW r \in Requests, NEW step, NEW s, step # "signCommit", Goto(r, step, s)
  PROVE  \A q \in Requests : pc'[q] = "signCommit" => pc[q] = "signCommit" /\ snap'[q] = snap[q]
BY DEF Goto, TypeInv, TypeOK

LEMMA FinishQuiet ==
  ASSUME TypeInv, NEW r \in Requests, Finish(r)
  PROVE  \A q \in Requests : pc'[q] = "signCommit" => pc[q] = "signCommit" /\ snap'[q] = snap[q]
BY GotoQuiet DEF Finish

LEMMA QuietSteps ==
  ASSUME TypeInv, NEW r \in Requests, Receive(r) \/ Step(r) \/ Fail(r),
         ~SignReadOrder(r), ~SignCommit(r), ~DeleteRow(r)
  PROVE  Quiet
<1>0. doc.exists \in BOOLEAN /\ doc \in [exists : BOOLEAN, status : Statuses, qr : BOOLEAN,
              final : FileNames \cup {None}, hash : Content \cup {None}]
  BY DEF TypeInv, TypeOK
<1>1. CASE Receive(r)
  BY <1>1, GotoQuiet
  DEF Receive, StartRead, SignRead, DeclineRead, QrRead, DeleteRead, RequestRead, RevokeRead,
      Quiet
<1>2. CASE StartUpdate(r) \/ RequestUpdateFinal(r) \/ QrUpdate(r) \/ RevokeUpdate(r)
  BY <1>0, <1>2, FinishQuiet
  DEF StartUpdate, RequestUpdateFinal, QrUpdate, RevokeUpdate, Quiet
<1>3. CASE RequestReadExisting(r) \/ RequestReadOmitted(r) \/ RequestReadSource(r)
             \/ RequestPreRender(r)
  BY <1>3, GotoQuiet, FinishQuiet
  DEF RequestReadExisting, RequestReadOmitted, RequestReadSource, RequestPreRender, Quiet
<1>4. CASE RequestCommit(r)
  BY <1>0, <1>4, GotoQuiet, FinishQuiet DEF RequestCommit, Quiet
<1>5. CASE SignReadNext(r) \/ DeclineReadNext(r)
  BY <1>5, GotoQuiet, FinishQuiet DEF SignReadNext, DeclineReadNext, ReadNext, Quiet
<1>6. CASE SignReadExisting(r) \/ SignCountRequired(r) \/ SignCountPending(r)
             \/ SignReadSource(r) \/ SignSaveFile(r)
  BY <1>6, GotoQuiet, FinishQuiet
  DEF SignReadExisting, SignCountRequired, SignCountPending, SignReadSource, SignSaveFile, Quiet
<1>7. CASE SignPlaceQr(r)
  BY <1>0, <1>7, GotoQuiet, FinishQuiet DEF SignPlaceQr, Quiet
<1>8. CASE DeclineCommit(r)
  BY <1>0, <1>8, FinishQuiet DEF DeclineCommit, Quiet
<1>9. CASE QrReadSource(r) \/ QrSaveFile(r) \/ DeleteFile(r) \/ Fail(r)
  BY <1>9, GotoQuiet, FinishQuiet DEF QrReadSource, QrSaveFile, DeleteFile, Fail, Quiet
<1> QED
  BY <1>1, <1>2, <1>3, <1>4, <1>5, <1>6, <1>7, <1>8, <1>9 DEF Step

LEMMA GapStep ==
  ASSUME TypeInv, GapInv, NEW r \in Requests, Receive(r) \/ Step(r) \/ Fail(r)
  PROVE  GapInv'
<1>1. CASE SignReadOrder(r)
  <2>1. PICK n \in Orders \cup {0} : Goto(r, "signCommit", [snap[r] EXCEPT !.last = n])
    BY <1>1 DEF SignReadOrder
  <2>2. UNCHANGED <<doc, signatures>>
    BY <1>1 DEF SignReadOrder
  <2>3. \A k \in 1..n : k \in Orders
    BY DEF GapInv, GapFreeOrders, Orders
  <2>4. snap'[r].last = n /\ \A q \in Requests : q # r => pc'[q] = pc[q] /\ snap'[q] = snap[q]
    BY <2>1 DEF Goto, TypeInv, TypeOK, Snapshot
  <2> QED
    BY <2>2, <2>3, <2>4 DEF GapInv, GapFreeOrders, MaximumWasReached, Orders
<1>2. CASE SignCommit(r)
  <2>1. \A q \in Requests : pc'[q] = "signCommit" => pc[q] = "signCommit" /\ snap'[q] = snap[q]
    BY <1>2, FinishQuiet DEF SignCommit
  <2>2. CASE ~SignMayCommit(r)
    BY <1>2, <2>1, <2>2 DEF SignCommit, GapInv, GapFreeOrders, MaximumWasReached, Orders
  <2>3. CASE SignMayCommit(r)
    <3> DEFINE n == NextOrder(r)
               new == [id |-> r, signer |-> snap[r].user, order |-> n]
    <3>1. /\ signatures' = signatures \cup {new} /\ pc[r] = "signCommit"
          /\ doc.exists /\ n \notin Orders
      BY <1>2, <2>3 DEF SignCommit, SignMayCommit
    <3>2. Orders' = Orders \cup {n}
      <4>1. new.order = n
        OBVIOUS
      <4> HIDE DEF new, n
      <4> QED
        BY <3>1, <4>1 DEF Orders
    <3>3. snap[r].last \in Nat /\ n = snap[r].last + 1
      BY DEF NextOrder, TypeInv, TypeOK, Snapshot
    <3>4. \A k \in 1..n : k \in Orders'
      BY <3>1, <3>2, <3>3 DEF GapInv, MaximumWasReached
    <3>5. \A s \in signatures' : \A k \in 1..s.order : k \in Orders'
      BY <3>1, <3>2, <3>4 DEF GapInv, GapFreeOrders
    <3>6. \A s, t \in signatures' : s.order = t.order => s = t
      BY <3>1 DEF GapInv, GapFreeOrders, Orders
    <3>7. MaximumWasReached'
      BY <2>1, <3>1, <3>2 DEF GapInv, MaximumWasReached
    <3> QED
      BY <3>5, <3>6, <3>7 DEF GapInv, GapFreeOrders
  <2> QED
    BY <2>2, <2>3
<1>3. CASE DeleteRow(r)
  BY <1>3 DEF DeleteRow, GapInv, GapFreeOrders, MaximumWasReached
<1>4. CASE ~SignReadOrder(r) /\ ~SignCommit(r) /\ ~DeleteRow(r)
  BY <1>4, QuietSteps DEF Quiet, GapInv, GapFreeOrders, MaximumWasReached, Orders
<1> QED
  BY <1>1, <1>2, <1>3, <1>4

\* However many signers race and fail, the signatures of a document are
\* numbered 1, 2, 3, ... (signDocument: maximum, then unique index).
THEOREM SignaturesAreNumbered == Spec => []GapFreeOrders
<1>1. Init => GapInv
  BY DEF Init, GapInv, GapFreeOrders, MaximumWasReached
<1>2. TypeInv /\ GapInv /\ [Next]_vars => GapInv'
  <2>1. ASSUME GapInv, UNCHANGED vars PROVE GapInv'
    BY <2>1 DEF GapInv, GapFreeOrders, MaximumWasReached, Orders, vars
  <2> QED
    BY <2>1, GapStep DEF Next
<1>3. GapInv => GapFreeOrders
  BY DEF GapInv
<1> QED
  BY <1>1, <1>2, <1>3, TypeInvariant, PTL DEF Spec

-----------------------------------------------------------------------------
(* The signature behind every SIGNED row *)

\* A row that requestSigners leaves SIGNED keeps the signature it had.
LEMMA RequestedRowKeepsSignature ==
  ASSUME TypeInv, NEW r \in Requests, RequestMayCommit(r), NEW u \in Users,
         RequestedRow(r, u) # None, RequestedRow(r, u).status = "SIGNED"
  PROVE  /\ signers[u] # None /\ signers[u].status = "SIGNED"
         /\ RequestedRow(r, u).sig = signers[u].sig
<1>1. /\ signers[u] \in SignerRow \cup {None}
      /\ snap[r].rows[u] \in SignerRow \cup {None}
  BY DEF TypeInv, TypeOK, Snapshot
<1>2. CASE ~Named(r, u)
  BY <1>1, <1>2 DEF RequestedRow
<1>3. CASE Named(r, u) /\ snap[r].rows[u] = None
  BY <1>1, <1>3 DEF RequestedRow
<1>4. CASE Named(r, u) /\ snap[r].rows[u] # None /\ snap[r].rows[u].status = "SIGNED"
  BY <1>1, <1>4 DEF RequestedRow
<1>5. CASE Named(r, u) /\ snap[r].rows[u] # None /\ snap[r].rows[u].status # "SIGNED"
  <2>1. signers[u] \in SignerRow
    BY <1>1, <1>5 DEF RequestMayCommit, StillThere
  <2>2. \/ RequestedRow(r, u) = [signers[u] EXCEPT !.status = "PENDING", !.sig = None,
                                                   !.order = snap[r].order[u]]
        \/ RequestedRow(r, u) = [signers[u] EXCEPT !.order = snap[r].order[u]]
    BY <1>1, <1>5 DEF RequestedRow, SignerRow
  <2>3. RequestedRow(r, u) = [signers[u] EXCEPT !.order = snap[r].order[u]]
    <3>1. [signers[u] EXCEPT !.status = "PENDING", !.sig = None,
                             !.order = snap[r].order[u]].status = "PENDING"
      BY <2>1 DEF SignerRow
    <3> QED
      BY <2>2, <3>1
  <2>4. RequestedRow(r, u).status = signers[u].status /\ RequestedRow(r, u).sig = signers[u].sig
    BY <2>1, <2>3 DEF SignerRow
  <2>5. signers[u] # None
    BY <1>1, <1>5 DEF RequestMayCommit, StillThere
  <2> QED
    BY <2>4, <2>5
<1> QED
  BY <1>2, <1>3, <1>4, <1>5

LEMMA SignedRowStep ==
  ASSUME TypeInv, SignedRowHasSignature, NEW r \in Requests, Receive(r) \/ Step(r) \/ Fail(r)
  PROVE  SignedRowHasSignature'
<1>1. CASE RequestCommit(r)
  <2>1. CASE RequestMayCommit(r)
    <3>1. signers' = [u \in Users |-> RequestedRow(r, u)] /\ signatures' = signatures
      BY <1>1, <2>1 DEF RequestCommit
    <3> QED
      BY <2>1, <3>1, RequestedRowKeepsSignature DEF SignedRowHasSignature
  <2>2. CASE ~RequestMayCommit(r)
    BY <1>1, <2>2 DEF RequestCommit, SignedRowHasSignature
  <2> QED
    BY <2>1, <2>2
<1>2. CASE SignCommit(r)
  <2>1. CASE SignMayCommit(r)
    <3> DEFINE me == snap[r].user
               new == [id |-> r, signer |-> me, order |-> NextOrder(r)]
    <3>1. me \in Users /\ signers \in [Users -> SignerRow \cup {None}]
      BY <1>2 DEF SignCommit, TypeInv, TypeOK, ReadBeforeUse, Ready
    <3>2. signers' = [signers EXCEPT ![me] = SignedRow(r)] /\ signatures' = signatures \cup {new}
      BY <1>2, <2>1 DEF SignCommit
    <3>3. SignedRow(r).sig = r
      <4>1. CASE snap[r].existing = None
        BY <4>1 DEF SignedRow
      <4>2. CASE snap[r].existing # None
        <5>1. signers[me] \in SignerRow
          BY <2>1, <3>1, <4>2 DEF SignMayCommit, StillThere
        <5> QED
          BY <4>2, <5>1 DEF SignedRow, SignerRow
      <4> QED
        BY <4>1, <4>2
    <3>4. new \in signatures' /\ new.id = signers'[me].sig /\ new.signer = me
      BY <3>1, <3>2, <3>3
    <3>5. ASSUME NEW u \in Users, u # me PROVE signers'[u] = signers[u]
      BY <3>1, <3>2, <3>5
    <3>6. ASSUME NEW u \in Users, signers'[u] # None, signers'[u].status = "SIGNED"
          PROVE  \E s \in signatures' : s.id = signers'[u].sig /\ s.signer = u
      <4>1. CASE u = me
        BY <3>4, <4>1
      <4>2. CASE u # me
        <5>1. PICK s \in signatures : s.id = signers[u].sig /\ s.signer = u
          BY <3>5, <3>6, <4>2 DEF SignedRowHasSignature
        <5> QED
          BY <3>2, <3>5, <4>2, <5>1
      <4> QED
        BY <4>1, <4>2
    <3> QED
      BY <3>6 DEF SignedRowHasSignature
  <2>2. CASE ~SignMayCommit(r)
    BY <1>2, <2>2 DEF SignCommit, SignedRowHasSignature
  <2> QED
    BY <2>1, <2>2
<1>3. CASE DeclineCommit(r)
  <2> DEFINE me == snap[r].user
  <2>1. signatures' = signatures
    BY <1>3 DEF DeclineCommit
  <2>2. CASE StillThere(snap[r].existing, me) /\ doc.exists
    <3>1. me \in Users /\ signers[me] \in SignerRow
      BY <1>3, <2>2
      DEF DeclineCommit, TypeInv, TypeOK, ReadBeforeUse, Ready, StillThere
    <3>2. signers' = [signers EXCEPT ![me].status = "DECLINED"]
      BY <1>3, <2>2 DEF DeclineCommit
    <3>3. signers'[me].status = "DECLINED" /\ \A u \in Users : u # me => signers'[u] = signers[u]
      BY <3>1, <3>2 DEF TypeInv, TypeOK, SignerRow
    <3> QED
      BY <2>1, <3>3 DEF SignedRowHasSignature
  <2>3. CASE ~(StillThere(snap[r].existing, me) /\ doc.exists)
    BY <1>3, <2>1, <2>3 DEF DeclineCommit, SignedRowHasSignature
  <2> QED
    BY <2>2, <2>3
<1>4. CASE DeleteRow(r)
  BY <1>4 DEF DeleteRow, SignedRowHasSignature
<1>5. CASE UNCHANGED <<signers, signatures>>
  BY <1>5 DEF SignedRowHasSignature
<1> QED
  BY <1>1, <1>2, <1>3, <1>4, <1>5
  DEF Receive, StartRead, SignRead, DeclineRead, QrRead, DeleteRead, RequestRead, RevokeRead,
      Step, StartUpdate, RequestReadExisting, RequestReadOmitted, RequestReadSource,
      RequestPreRender, RequestUpdateFinal, SignReadNext, ReadNext, SignReadExisting,
      SignCountRequired, SignCountPending, SignReadSource, SignPlaceQr, SignSaveFile,
      SignReadOrder, DeclineReadNext, QrReadSource, QrSaveFile, QrUpdate, DeleteFile,
      RevokeUpdate, Fail

\* No race makes a row SIGNED, or keeps it so, without the signature of its user.
THEOREM SignedRowsAreBacked == Spec => []SignedRowHasSignature
<1>1. Init => SignedRowHasSignature
  BY DEF Init, SignedRowHasSignature
<1>2. TypeInv /\ SignedRowHasSignature /\ [Next]_vars => SignedRowHasSignature'
  <2>1. ASSUME SignedRowHasSignature, UNCHANGED vars PROVE SignedRowHasSignature'
    BY <2>1 DEF SignedRowHasSignature, vars
  <2> QED
    BY <2>1, SignedRowStep DEF Next
<1> QED
  BY <1>1, <1>2, TypeInvariant, PTL DEF Spec

data == <<doc, signers, signatures, disk>>

OneAtATime == \A q, r \in InFlight : q = r

\* The users whose row is not SIGNED.
UnsignedUsers == {u \in Users : signers[u] # None /\ signers[u].status # "SIGNED"}

\* The file has every signature of the document.
Carries(file) == file # None /\ \A s \in signatures : s.id \in file.sigs

\* What OrderOf makes of a list: turns of their own, by rank.
Turns(order) ==
  /\ order \in [Users -> Nat]
  /\ \E u \in Users : order[u] # 0
  /\ \A u, v \in Users : u # v /\ order[u] # 0 /\ order[v] # 0 =>
       order[u] # order[v] /\ (Rank[u] < Rank[v] => order[u] < order[v])

\* All before u have signed.
ItsTurn(u) ==
  signers[u] # None =>
    \A v \in AskedUsers : signers[v].order < signers[u].order => v \in SignedUsers

-----------------------------------------------------------------------------
(* The rows and files *)

OrdersDiffer ==
  \A u \in AskedUsers :
    /\ signers[u].order # 0
    /\ \A v \in AskedUsers : u # v => signers[u].order # signers[v].order

DeclinedIsRevoked ==
  \A u \in AskedUsers : signers[u].status = "DECLINED" => doc.status = "REVOKED"

DraftIsEmpty ==
  ~doc.exists \/ doc.status = "DRAFT" => signatures = {} /\ AskedUsers = {}

OneSignatureEach == \A s, t \in signatures : s.signer = t.signer => s = t

FilesInv ==
  signatures # {} => doc.final = "signed" /\ Carries(doc.hash) /\ Carries(disk["signed"])

RowsInv ==
  /\ DraftIsEmpty /\ OneSignatureEach /\ OrdersDiffer /\ DeclinedIsRevoked
  /\ StatusMatchesSigners /\ SigningFollowsOrder /\ OneSignaturePerSigner
  /\ FilesInv

-----------------------------------------------------------------------------
(* What a handler that waits at step has read, in s, and is still so *)

RequestSo(step, s) ==
  step \in {"requestExisting", "requestOmitted", "requestCommit", "requestSource",
            "requestPreRender", "requestFinal"} =>
    /\ signatures = {} /\ doc.status # "REVOKED"
    /\ step \in {"requestExisting", "requestOmitted", "requestCommit"} =>
         Turns(s.order) /\ (s.draft <=> doc.status = "DRAFT")
    /\ step = "requestOmitted" =>
         \A u \in Users : s.rows[u] = IF s.order[u] # 0 THEN signers[u] ELSE None
    /\ step = "requestCommit" => \A u \in Users : s.rows[u] = signers[u]

\* Both counts, or those already made.
Counted(step, s) ==
  /\ s.existing = signers[s.user]
  /\ s.required # None => s.required = Cardinality(AskedUsers)
  /\ s.pending # None => s.pending = Cardinality(UnsignedUsers)
  /\ step # "signCount" => s.required # None /\ s.pending # None

SourceSo(r, step, s) ==
  /\ step = "signCount" /\ signatures # {} => s.file = "signed"
  /\ step \in {"signQr", "signSave"} /\ signatures # {} => Carries(s.source)
  /\ step \in {"signOrder", "signCommit"} =>
       Carries(s.source) /\ r \in s.source.sigs /\ disk["signed"] = s.source
  /\ step = "signCommit" =>
       s.last \in Orders \cup {0} /\ \A m \in Orders : m <= s.last

SignSo(r, step, s) ==
  step \in {"signNext", "signExisting", "signCount", "signQr", "signSave", "signOrder",
            "signCommit"} =>
    /\ MaySign(s.user) /\ (s.unsigned <=> signatures = {})
    /\ step # "signNext" => ItsTurn(s.user)
    /\ IF step \in {"signNext", "signExisting"} THEN
         /\ s.file = doc.final /\ s.required = None /\ s.pending = None
         /\ step = "signNext" => signers[s.user] # None
       ELSE Counted(step, s) /\ SourceSo(r, step, s)

DeclineSo(step, s) ==
  step \in {"declineNext", "declineCommit"} =>
    /\ doc.status # "REVOKED" /\ s.existing = signers[s.user]
    /\ signers[s.user] # None /\ signers[s.user].status = "PENDING"
    /\ step = "declineCommit" => ItsTurn(s.user)

OtherSo(step) ==
  /\ step \notin {"idle", "done", "failed"} => doc.exists
  /\ step \in {"startUpdate", "deleteFile", "deleteRow"} => doc.status = "DRAFT"
  /\ step \in {"qrSource", "qrSave", "qrUpdate"} => signatures = {}
  /\ step = "revokeUpdate" => doc.status # "REVOKED"

So(r, step, s) ==
  RequestSo(step, s) /\ SignSo(r, step, s) /\ DeclineSo(step, s) /\ OtherSo(step)

StillSo == \A r \in Requests : So(r, pc[r], snap[r])

-----------------------------------------------------------------------------
(* Turns *)

\* The orders of a list of signers are turns.
LEMMA OrderOfTurns ==
  ASSUME NEW list \in SignerLists
  PROVE  Turns(OrderOf(list))
<1> DEFINE before(i, j) == \/ Rank[list[i]] < Rank[list[j]]
                           \/ Rank[list[i]] = Rank[list[j]] /\ i <= j
           B(j) == {i \in DOMAIN list : before(i, j)}
           O(u) == {i \in DOMAIN list : \E j \in DOMAIN list : list[j] = u /\ before(i, j)}
<1>1. PICK n \in 1..Cardinality(Users) : list \in [1..n -> Users]
  BY DEF SignerLists
<1>2. /\ Cardinality(Users) \in Nat /\ n \in Nat /\ n >= 1
      /\ DOMAIN list = 1..n /\ IsFiniteSet(1..n)
      /\ \A i, j \in 1..n : list[i] = list[j] => i = j
  BY <1>1, UserCount, FS_Interval DEF SignerLists
<1>3. \A j \in 1..n : list[j] \in Users /\ Rank[list[j]] \in Nat
  BY <1>1, SigningAssumption
<1>4. \A j \in 1..n : O(list[j]) = B(j)
  BY <1>2
<1>5. \A u \in Users : (\A j \in 1..n : list[j] # u) => O(u) = {}
  BY <1>2
<1>6. ASSUME NEW j \in 1..n
      PROVE  /\ j \in B(j) /\ B(j) \subseteq 1..n
             /\ IsFiniteSet(B(j)) /\ Cardinality(B(j)) \in Nat \ {0}
  <2>1. j \in B(j) /\ B(j) \subseteq 1..n
    BY <1>2, <1>3
  <2>2. IsFiniteSet(B(j)) /\ Cardinality(B(j)) \in Nat
    BY <1>2, <2>1, FS_Subset, FS_CardinalityType
  <2>3. Cardinality(B(j)) # 0
    BY <2>1, <2>2, FS_EmptySet
  <2> QED
    BY <2>1, <2>2, <2>3
<1>7. ASSUME NEW j \in 1..n, NEW k \in 1..n, j # k, before(j, k)
      PROVE  Cardinality(B(j)) < Cardinality(B(k))
  <2>1. B(j) \subseteq B(k)
    BY <1>2, <1>3, <1>7
  <2>2. k \notin B(j)
    BY <1>2, <1>3, <1>7
  <2>3. Cardinality(B(j)) <= Cardinality(B(k)) /\ Cardinality(B(j)) # Cardinality(B(k))
    <3>1. B(j) # B(k)
      BY <1>6, <2>2
    <3> QED
      BY <1>6, <2>1, <3>1, FS_Subset
  <2> QED
    BY <1>6, <2>3
<1>8. \A j, k \in 1..n : j = k \/ before(j, k) \/ before(k, j)
  BY <1>3
<1>9. \A u \in Users : OrderOf(list)[u] = Cardinality(O(u))
  BY DEF OrderOf
<1>10. \A u \in Users : OrderOf(list)[u] # 0 => \E j \in 1..n : list[j] = u
  BY <1>5, <1>9, FS_EmptySet
<1>11. \A j \in 1..n : OrderOf(list)[list[j]] = Cardinality(B(j))
  BY <1>3, <1>4, <1>9
<1>12. \E u \in Users : OrderOf(list)[u] # 0
  <2>1. 1 \in 1..n
    BY <1>2
  <2> QED
    BY <1>3, <1>6, <1>11, <2>1
<1>13. ASSUME NEW u \in Users, NEW v \in Users, u # v,
              OrderOf(list)[u] # 0, OrderOf(list)[v] # 0
       PROVE  /\ OrderOf(list)[u] # OrderOf(list)[v]
              /\ Rank[u] < Rank[v] => OrderOf(list)[u] < OrderOf(list)[v]
  <2>1. PICK j \in 1..n : list[j] = u
    BY <1>10, <1>13
  <2>2. PICK k \in 1..n : list[k] = v
    BY <1>10, <1>13
  <2>3. j # k
    BY <1>13, <2>1, <2>2
  <2>4. OrderOf(list)[u] = Cardinality(B(j)) /\ OrderOf(list)[v] = Cardinality(B(k))
    BY <1>11, <2>1, <2>2
  <2>5. Cardinality(B(j)) # Cardinality(B(k))
    <3>1. before(j, k) => Cardinality(B(j)) < Cardinality(B(k))
      BY <1>7, <2>3
    <3>2. before(k, j) => Cardinality(B(k)) < Cardinality(B(j))
      BY <1>7, <2>3
    <3>3. Cardinality(B(j)) \in Nat /\ Cardinality(B(k)) \in Nat
      BY <1>6
    <3>4. before(j, k) \/ before(k, j)
      BY <1>8, <2>3
    <3> HIDE DEF before, B
    <3> QED
      BY <3>1, <3>2, <3>3, <3>4
  <2>6. Rank[u] < Rank[v] => Cardinality(B(j)) < Cardinality(B(k))
    <3>1. Rank[u] < Rank[v] => before(j, k)
      BY <2>1, <2>2
    <3> QED
      BY <1>7, <2>3, <3>1
  <2> QED
    BY <2>4, <2>5, <2>6
<1> QED
  BY <1>12, <1>13, OrderOfType DEF Turns

-----------------------------------------------------------------------------
(* With room for one request, the others wait to be received or are over.  *)

LEMMA StepIsInFlight ==
  ASSUME NEW r \in Requests, Step(r) \/ Fail(r)
  PROVE  r \in InFlight
BY DEF Step, StartUpdate, RequestReadExisting, RequestReadOmitted, RequestCommit,
       RequestReadSource, RequestPreRender, RequestUpdateFinal, SignReadNext, ReadNext,
       SignReadExisting, SignCountRequired, SignCountPending, SignReadSource, SignPlaceQr,
       SignSaveFile, SignReadOrder, SignCommit, DeclineReadNext, DeclineCommit, QrReadSource,
       QrSaveFile, QrUpdate, DeleteFile, DeleteRow, RevokeUpdate, Fail, InFlight

LEMMA GotoOthers ==
  ASSUME TypeInv, NEW r \in Requests, NEW step, NEW s, Goto(r, step, s)
  PROVE  /\ pc'[r] = step /\ snap'[r] = s
         /\ \A q \in Requests \ {r} : pc'[q] = pc[q] /\ snap'[q] = snap[q]
BY DEF Goto, TypeInv, TypeOK

LEMMA OthersWait ==
  ASSUME TypeInv, OneAtATime, MaxInFlight = 1,
         NEW r \in Requests, Receive(r) \/ Step(r) \/ Fail(r)
  PROVE  \A q \in Requests \ {r} : /\ pc[q] \in {"idle", "done", "failed"}
                                   /\ pc'[q] = pc[q] /\ snap'[q] = snap[q]
<1>1. \A q \in Requests \ {r} : pc[q] \in {"idle", "done", "failed"}
  <2>1. CASE Receive(r)
    <3>1. Cardinality(InFlight) < 1
      BY <2>1 DEF Receive, StartRead, SignRead, DeclineRead, QrRead, DeleteRead, RequestRead,
                  RevokeRead, Arrives
    <3>2. InFlight = {} \/ \E q : InFlight = {q}
      BY DEF OneAtATime
    <3>3. InFlight = {}
      BY <3>1, <3>2, FS_Singleton
    <3> QED
      BY <3>3 DEF InFlight
  <2>2. CASE Step(r) \/ Fail(r)
    BY <2>2, StepIsInFlight DEF OneAtATime, InFlight
  <2> QED
    BY <2>1, <2>2
<1>2. \E step, s : Goto(r, step, s)
  BY DEF Receive, StartRead, SignRead, DeclineRead, QrRead, DeleteRead, RequestRead,
         RevokeRead, Step, StartUpdate, RequestReadExisting, RequestReadOmitted, RequestCommit,
         RequestReadSource, RequestPreRender, RequestUpdateFinal, SignReadNext, ReadNext,
         SignReadExisting, SignCountRequired, SignCountPending, SignReadSource, SignPlaceQr,
         SignSaveFile, SignReadOrder, SignCommit, DeclineReadNext, DeclineCommit, QrReadSource,
         QrSaveFile, QrUpdate, DeleteFile, DeleteRow, RevokeUpdate, Fail, Finish
<1> QED
  BY <1>1, <1>2, GotoOthers

LEMMA OneStays ==
  ASSUME TypeInv, OneAtATime, MaxInFlight = 1,
         NEW r \in Requests, Receive(r) \/ Step(r) \/ Fail(r)
  PROVE  OneAtATime'
BY OthersWait DEF OneAtATime, InFlight

-----------------------------------------------------------------------------
(* What was read is still so *)

LEMMA WaitingSo ==
  ASSUME NEW r, NEW step \in {"idle", "done", "failed"}, NEW s
  PROVE  So(r, step, s)
BY DEF So, RequestSo, SignSo, DeclineSo, OtherSo

\* All that has to be shown of a step is what its own request knows after it.
LEMMA OwnSo ==
  ASSUME TypeInv, OneAtATime, MaxInFlight = 1,
         NEW r \in Requests, Receive(r) \/ Step(r) \/ Fail(r), So(r, pc[r], snap[r])'
  PROVE  StillSo'
<1>1. ASSUME NEW q \in Requests \ {r} PROVE So(q, pc[q], snap[q])'
  BY OthersWait DEF So, RequestSo, SignSo, DeclineSo, OtherSo
<1> QED
  BY <1>1 DEF StillSo

LEMMA FinishSo ==
  ASSUME TypeInv, NEW r \in Requests, Finish(r) \/ Goto(r, "failed", Blank)
  PROVE  So(r, pc[r], snap[r])'
<1>1. pc'[r] \in {"done", "failed"}
  BY GotoOthers DEF Finish
<1> QED
  BY <1>1 DEF So, RequestSo, SignSo, DeclineSo, OtherSo

LEMMA GotoSo ==
  ASSUME TypeInv, NEW r \in Requests, NEW step, NEW s,
         Goto(r, step, s), UNCHANGED data, So(r, step, s)
  PROVE  So(r, pc[r], snap[r])'
<1>1. pc'[r] = step /\ snap'[r] = s
  BY GotoOthers
<1>2. RequestSo(step, s) => RequestSo(pc[r], snap[r])'
  BY <1>1 DEF RequestSo, data
<1>3. SignSo(r, step, s) => SignSo(r, pc[r], snap[r])'
  BY <1>1 DEF SignSo, MaySign, ItsTurn, Counted, SourceSo, Carries, AskedUsers,
              UnsignedUsers, SignedUsers, Orders, data
<1>4. DeclineSo(step, s) => DeclineSo(pc[r], snap[r])'
  BY <1>1 DEF DeclineSo, ItsTurn, AskedUsers, SignedUsers, data
<1>5. OtherSo(step) => OtherSo(pc[r])'
  BY <1>1 DEF OtherSo, data
<1> QED
  BY <1>2, <1>3, <1>4, <1>5 DEF So

LEMMA ReadFields ==
  ASSUME TypeInv, NEW u \in Users
  PROVE  LET s == ReadDocument(u) IN
         /\ s \in Snapshot /\ s.user = u /\ s.file = doc.final
         /\ s.required = None /\ s.pending = None
         /\ (s.draft <=> doc.status = "DRAFT") /\ (s.unsigned <=> signatures = {})
<1> DEFINE Read(d, e) == [Blank EXCEPT !.user = u, !.draft = d, !.unsigned = e,
                            !.qr = doc.qr, !.file = doc.final, !.hash = doc.hash]
<1>1. ASSUME NEW d \in BOOLEAN, NEW e \in BOOLEAN
      PROVE  /\ Read(d, e).draft = d /\ Read(d, e).unsigned = e
             /\ Read(d, e).file = doc.final
             /\ Read(d, e).required = None /\ Read(d, e).pending = None
  BY DEF Blank
<1>2. (doc.status = "DRAFT") \in BOOLEAN /\ (signatures = {}) \in BOOLEAN
  OBVIOUS
<1>3. ReadDocument(u) = Read(doc.status = "DRAFT", signatures = {})
  BY DEF ReadDocument
<1>4. ReadDocument(u) \in Snapshot /\ ReadDocument(u).user = u
  BY Halves, ReadDocumentType
<1> HIDE DEF Read
<1> QED
  BY <1>1, <1>2, <1>3, <1>4, Zenon

\* Whom findFirst returns has no unsigned signer before them.
LEMMA NextIsTurn ==
  ASSUME TypeInv, RowsInv, doc.status # "REVOKED", NEW r \in Requests, NEW next,
         next \in (IF PendingUsers = {} THEN {None} ELSE NextPending), Turn(r, next),
         snap[r].user \in Users,
         signers[snap[r].user] # None, signers[snap[r].user].status = "PENDING"
  PROVE  ItsTurn(snap[r].user)
<1> DEFINE u == snap[r].user
<1>1. u \in PendingUsers
  BY DEF PendingUsers
<1>2. u \in NextPending
  <2>1. next \in NextPending /\ next \in Users
    BY <1>1 DEF NextPending, PendingUsers
  <2>2. next = u
    BY <2>1, SigningAssumption DEF Turn
  <2> QED
    BY <2>1, <2>2
<1>3. ASSUME NEW v \in AskedUsers, signers[v].order < signers[u].order
      PROVE  v \in SignedUsers
  <2>1. v \in Users /\ signers[v] \in SignerRow /\ signers[u] \in SignerRow
    BY <1>1 DEF AskedUsers, PendingUsers, TypeInv, TypeOK
  <2>2. v \notin PendingUsers
    BY <1>2, <1>3, <2>1 DEF NextPending, SignerRow
  <2>3. signers[v].status # "DECLINED"
    BY DEF RowsInv, DeclinedIsRevoked
  <2> QED
    BY <2>1, <2>2, <2>3 DEF PendingUsers, SignedUsers, AskedUsers, SignerRow
<1> QED
  BY <1>3 DEF ItsTurn

LEMMA ArrivalSo ==
  ASSUME TypeInv, RowsInv, NEW r \in Requests, Receive(r)
  PROVE  So(r, pc[r], snap[r])'
<1>0. UNCHANGED data /\ doc.exists
  BY DEF Receive, StartRead, SignRead, DeclineRead, QrRead, DeleteRead, RequestRead,
         RevokeRead, Arrives, data
<1>1. ASSUME NEW u \in Users, StartRead(r, u) PROVE So(r, pc[r], snap[r])'
  <2>1. So(r, "startUpdate", ReadDocument(u))
    BY <1>0, <1>1 DEF StartRead, So, RequestSo, SignSo, DeclineSo, OtherSo
  <2> QED
    BY <1>0, <1>1, <2>1, GotoSo DEF StartRead
<1>2. ASSUME NEW u \in Users, SignRead(r, u) PROVE So(r, pc[r], snap[r])'
  <2> DEFINE step == IF signers[u] = None THEN "signExisting" ELSE "signNext"
  <2>1. SignSo(r, step, ReadDocument(u))
    BY <1>2, ReadFields DEF SignRead, SignSo, MaySign, ItsTurn
  <2>2. So(r, step, ReadDocument(u))
    BY <1>0, <2>1 DEF So, RequestSo, DeclineSo, OtherSo
  <2> QED
    BY <1>0, <1>2, <2>2, GotoSo DEF SignRead
<1>3. ASSUME NEW u \in Users, DeclineRead(r, u) PROVE So(r, pc[r], snap[r])'
  <2> DEFINE s == [ReadDocument(u) EXCEPT !.existing = signers[u]]
  <2>1. s.user = u /\ s.existing = signers[u]
    BY ReadFields DEF Snapshot
  <2>2. So(r, "declineNext", s)
    BY <1>0, <1>3, <2>1 DEF DeclineRead, So, RequestSo, SignSo, DeclineSo, OtherSo
  <2> QED
    BY <1>0, <1>3, <2>2, GotoSo DEF DeclineRead
<1>4. ASSUME NEW u \in Users, QrRead(r, u) PROVE So(r, pc[r], snap[r])'
  <2>1. So(r, "qrSource", ReadDocument(u))
    BY <1>0, <1>4 DEF QrRead, So, RequestSo, SignSo, DeclineSo, OtherSo
  <2> QED
    BY <1>0, <1>4, <2>1, GotoSo DEF QrRead
<1>5. ASSUME NEW u \in Users, DeleteRead(r, u) PROVE So(r, pc[r], snap[r])'
  <2>1. So(r, "deleteFile", ReadDocument(u))
    BY <1>0, <1>5 DEF DeleteRead, Deletable, So, RequestSo, SignSo, DeclineSo, OtherSo
  <2> QED
    BY <1>0, <1>5, <2>1, GotoSo DEF DeleteRead
<1>6. ASSUME NEW u \in Users, NEW list \in SignerLists, RequestRead(r, u, list)
      PROVE  So(r, pc[r], snap[r])'
  <2> DEFINE s == [ReadDocument(u) EXCEPT !.order = OrderOf(list)]
  <2>1. s.order = OrderOf(list) /\ (s.draft <=> doc.status = "DRAFT")
    BY ReadFields DEF Snapshot
  <2>2. So(r, "requestExisting", s)
    BY <1>0, <1>6, <2>1, OrderOfTurns
    DEF RequestRead, MayRequestSigners, So, RequestSo, SignSo, DeclineSo, OtherSo
  <2> QED
    BY <1>0, <1>6, <2>2, GotoSo DEF RequestRead
<1>7. ASSUME RevokeRead(r) PROVE So(r, pc[r], snap[r])'
  <2>1. So(r, "revokeUpdate", Blank)
    BY <1>0, <1>7 DEF RevokeRead, So, RequestSo, SignSo, DeclineSo, OtherSo
  <2> QED
    BY <1>0, <1>7, <2>1, GotoSo DEF RevokeRead
<1> QED
  BY <1>1, <1>2, <1>3, <1>4, <1>5, <1>6, <1>7 DEF Receive

-----------------------------------------------------------------------------
(* requestSigners, finalizeQr and deleteDraftDocument, up to their writes *)

LEMMA RequestStaysSo ==
  ASSUME TypeInv, RowsInv, NEW r \in Requests, So(r, pc[r], snap[r]),
         \/ RequestReadExisting(r) \/ RequestReadOmitted(r) \/ RequestCommit(r)
         \/ RequestReadSource(r) \/ RequestPreRender(r) \/ RequestUpdateFinal(r)
  PROVE  So(r, pc[r], snap[r])'
<1>0. snap[r] \in Snapshot /\ RequestSo(pc[r], snap[r]) /\ OtherSo(pc[r])
  BY DEF So, TypeInv, TypeOK
<1>1. CASE RequestReadExisting(r)
  <2> DEFINE s == [snap[r] EXCEPT !.rows =
                     [u \in Users |-> IF Named(r, u) THEN signers[u] ELSE None]]
  <2>1. /\ s.order = snap[r].order /\ s.draft = snap[r].draft
        /\ \A u \in Users : s.rows[u] = IF snap[r].order[u] # 0 THEN signers[u] ELSE None
    BY <1>0 DEF Snapshot, Named
  <2>2. So(r, "requestOmitted", s)
    BY <1>0, <1>1, <2>1
    DEF RequestReadExisting, So, RequestSo, SignSo, DeclineSo, OtherSo
  <2> QED
    BY <1>1, <2>2, GotoSo DEF RequestReadExisting, data
<1>2. CASE RequestReadOmitted(r)
  <2> DEFINE s == [snap[r] EXCEPT !.rows =
                     [u \in Users |-> IF Named(r, u) THEN @[u] ELSE signers[u]]]
  <2>1. /\ s.order = snap[r].order /\ s.draft = snap[r].draft
        /\ \A u \in Users : s.rows[u] = IF Named(r, u) THEN snap[r].rows[u] ELSE signers[u]
    BY <1>0 DEF Snapshot
  <2>2. \A u \in Users : s.rows[u] = signers[u]
    BY <1>0, <1>2, <2>1 DEF RequestReadOmitted, RequestSo, Named
  <2>3. So(r, "requestCommit", s)
    BY <1>0, <1>2, <2>1, <2>2
    DEF RequestReadOmitted, So, RequestSo, SignSo, DeclineSo, OtherSo
  <2> QED
    BY <1>2, <2>3, GotoSo, FinishSo DEF RequestReadOmitted, data
<1>3. CASE RequestCommit(r)
  <2>1. CASE RequestMayCommit(r)
    <3>1. /\ pc'[r] = "requestSource" /\ signatures' = signatures
          /\ doc'.exists = doc.exists /\ doc'.status # "REVOKED"
      BY <1>0, <1>3, <2>1, GotoOthers
      DEF RequestCommit, RequestSo, TypeInv, TypeOK
    <3> QED
      BY <1>0, <1>3, <3>1 DEF RequestCommit, So, RequestSo, SignSo, DeclineSo, OtherSo
  <2>2. CASE ~RequestMayCommit(r)
    BY <1>3, <2>2, FinishSo DEF RequestCommit
  <2> QED
    BY <2>1, <2>2
<1>4. CASE RequestReadSource(r)
  <2>1. So(r, "requestPreRender", snap[r])
    BY <1>0, <1>4 DEF RequestReadSource, So, RequestSo, SignSo, DeclineSo, OtherSo
  <2> QED
    BY <1>4, <2>1, GotoSo, FinishSo DEF RequestReadSource, data
<1>5. CASE RequestPreRender(r)
  <2>1. pc'[r] = "requestFinal"
    BY <1>5, GotoOthers DEF RequestPreRender
  <2> QED
    BY <1>0, <1>5, <2>1 DEF RequestPreRender, So, RequestSo, SignSo, DeclineSo, OtherSo
<1>6. CASE RequestUpdateFinal(r)
  BY <1>6, FinishSo DEF RequestUpdateFinal
<1> QED
  BY <1>1, <1>2, <1>3, <1>4, <1>5, <1>6

LEMMA OtherStaysSo ==
  ASSUME TypeInv, RowsInv, NEW r \in Requests, So(r, pc[r], snap[r]),
         \/ StartUpdate(r) \/ DeclineReadNext(r) \/ DeclineCommit(r)
         \/ QrReadSource(r) \/ QrSaveFile(r) \/ QrUpdate(r)
         \/ DeleteFile(r) \/ DeleteRow(r) \/ RevokeUpdate(r) \/ Fail(r)
  PROVE  So(r, pc[r], snap[r])'
<1>0. DeclineSo(pc[r], snap[r]) /\ OtherSo(pc[r])
  BY DEF So
<1>1. CASE \/ StartUpdate(r) \/ DeclineCommit(r) \/ QrUpdate(r) \/ DeleteRow(r)
           \/ RevokeUpdate(r) \/ Fail(r)
  BY <1>1, FinishSo DEF StartUpdate, DeclineCommit, QrUpdate, DeleteRow, RevokeUpdate, Fail
<1>2. CASE DeclineReadNext(r)
  <2>1. PICK next \in IF PendingUsers = {} THEN {None} ELSE NextPending :
          IF Turn(r, next) THEN Goto(r, "declineCommit", snap[r]) ELSE Finish(r)
    BY <1>2 DEF DeclineReadNext, ReadNext
  <2>2. ASSUME Turn(r, next) PROVE So(r, "declineCommit", snap[r])
    <3>1. pc[r] = "declineNext" /\ snap[r].user \in Users
      BY <1>2 DEF DeclineReadNext, ReadNext, TypeInv, ReadBeforeUse, Ready
    <3>2. ItsTurn(snap[r].user)
      BY <1>0, <2>1, <2>2, <3>1, NextIsTurn DEF DeclineSo
    <3> QED
      BY <1>0, <3>1, <3>2 DEF So, RequestSo, SignSo, DeclineSo, OtherSo
  <2> QED
    BY <1>2, <2>1, <2>2, GotoSo, FinishSo DEF DeclineReadNext, ReadNext, data
<1>3. CASE QrReadSource(r)
  <2>1. So(r, "qrSave", snap[r])
    BY <1>0, <1>3 DEF QrReadSource, So, RequestSo, SignSo, DeclineSo, OtherSo
  <2> QED
    BY <1>3, <2>1, GotoSo, FinishSo DEF QrReadSource, data
<1>4. CASE QrSaveFile(r)
  <2>1. pc'[r] = "qrUpdate"
    BY <1>4, GotoOthers DEF QrSaveFile
  <2> QED
    BY <1>0, <1>4, <2>1 DEF QrSaveFile, So, RequestSo, SignSo, DeclineSo, OtherSo
<1>5. CASE DeleteFile(r)
  <2>1. pc'[r] = "deleteRow"
    BY <1>5, GotoOthers DEF DeleteFile
  <2> QED
    BY <1>0, <1>5, <2>1 DEF DeleteFile, So, RequestSo, SignSo, DeclineSo, OtherSo
<1> QED
  BY <1>1, <1>2, <1>3, <1>4, <1>5

-----------------------------------------------------------------------------
(* signDocument, up to its commit *)

LEMMA SignReadsSo ==
  ASSUME TypeInv, RowsInv, NEW r \in Requests, So(r, pc[r], snap[r]),
         \/ SignReadNext(r) \/ SignReadExisting(r) \/ SignCountRequired(r)
         \/ SignCountPending(r) \/ SignReadSource(r) \/ SignReadOrder(r)
  PROVE  So(r, pc[r], snap[r])'
<1> USE NoneIsNoValue DEF FileNames
<1>0. snap[r] \in Snapshot /\ SignSo(r, pc[r], snap[r]) /\ OtherSo(pc[r])
  BY DEF So, TypeInv, TypeOK
<1>1. UNCHANGED data /\ snap[r].user \in Users
  BY DEF SignReadNext, ReadNext, SignReadExisting, SignCountRequired, SignCountPending,
         SignReadSource, SignReadOrder, data, TypeInv, ReadBeforeUse, Ready
<1>2. ASSUME NEW step \in {"signExisting", "signCount", "signQr", "signSave", "signOrder",
                           "signCommit"},
             NEW s, SignSo(r, step, s), doc.exists
      PROVE  So(r, step, s)
  BY <1>2 DEF So, RequestSo, DeclineSo, OtherSo
<1>3. doc.exists
  BY <1>0 DEF SignReadNext, ReadNext, SignReadExisting, SignCountRequired, SignCountPending,
         SignReadSource, SignReadOrder, OtherSo
<1>4. CASE SignReadNext(r)
  <2>1. PICK next \in IF PendingUsers = {} THEN {None} ELSE NextPending :
          IF Turn(r, next) THEN Goto(r, "signExisting", snap[r]) ELSE Finish(r)
    BY <1>4 DEF SignReadNext, ReadNext
  <2>2. ASSUME Turn(r, next) PROVE SignSo(r, "signExisting", snap[r])
    <3>1. pc[r] = "signNext"
      BY <1>4 DEF SignReadNext, ReadNext
    <3>2. ItsTurn(snap[r].user)
      BY <1>0, <1>1, <2>1, <2>2, <3>1, NextIsTurn DEF SignSo, MaySign
    <3> QED
      BY <1>0, <3>1, <3>2 DEF SignSo
  <2> QED
    BY <1>1, <1>2, <1>3, <2>1, <2>2, GotoSo, FinishSo
<1>5. CASE SignReadExisting(r)
  <2>1. ASSUME NEW path \in ResolveDocumentPath(snap[r].file, snap[r].hash)
        PROVE  SignSo(r, "signCount", [snap[r] EXCEPT !.file = path,
                                         !.existing = signers[snap[r].user]])
    <3> DEFINE s == [snap[r] EXCEPT !.file = path, !.existing = signers[snap[r].user]]
    <3>1. /\ s.user = snap[r].user /\ s.unsigned = snap[r].unsigned
          /\ s.file = path /\ s.existing = signers[snap[r].user]
          /\ s.required = snap[r].required /\ s.pending = snap[r].pending
      BY <1>0 DEF Snapshot
    <3>2. pc[r] = "signExisting"
      BY <1>5 DEF SignReadExisting
    <3>3. signatures # {} => path = "signed"
      BY <1>0, <3>2 DEF SignSo, RowsInv, FilesInv, Carries, ResolveDocumentPath
    <3> QED
      BY <1>0, <3>1, <3>2, <3>3 DEF SignSo, Counted, SourceSo
  <2> QED
    BY <1>1, <1>2, <1>3, <1>5, <2>1, GotoSo, FinishSo DEF SignReadExisting
<1>6. CASE SignCountRequired(r)
  <2> DEFINE s == [snap[r] EXCEPT !.required = Cardinality(AskedUsers)]
  <2>1. /\ s.user = snap[r].user /\ s.unsigned = snap[r].unsigned
        /\ s.file = snap[r].file /\ s.existing = snap[r].existing
        /\ s.required = Cardinality(AskedUsers) /\ s.pending = snap[r].pending
    BY <1>0 DEF Snapshot
  <2>2. SignSo(r, "signCount", s)
    BY <1>0, <1>6, <2>1 DEF SignCountRequired, SignSo, Counted, SourceSo
  <2> QED
    BY <1>1, <1>2, <1>3, <1>6, <2>2, GotoSo DEF SignCountRequired, AskedUsers
<1>7. CASE SignCountPending(r)
  <2> DEFINE s == [snap[r] EXCEPT !.pending = Cardinality(UnsignedUsers)]
  <2>1. /\ s.user = snap[r].user /\ s.unsigned = snap[r].unsigned
        /\ s.file = snap[r].file /\ s.existing = snap[r].existing
        /\ s.pending = Cardinality(UnsignedUsers) /\ s.required = snap[r].required
    BY <1>0 DEF Snapshot
  <2>2. SignSo(r, "signCount", s)
    BY <1>0, <1>7, <2>1 DEF SignCountPending, SignSo, Counted, SourceSo
  <2> QED
    BY <1>1, <1>2, <1>3, <1>7, <2>2, GotoSo DEF SignCountPending, UnsignedUsers
<1>8. CASE SignReadSource(r)
  <2> DEFINE s == [snap[r] EXCEPT !.source = disk[snap[r].file]]
             step == IF snap[r].qr THEN "signSave" ELSE "signQr"
  <2>1. /\ s.user = snap[r].user /\ s.unsigned = snap[r].unsigned
        /\ s.existing = snap[r].existing /\ s.source = disk[snap[r].file]
        /\ s.required = snap[r].required /\ s.pending = snap[r].pending
    BY <1>0 DEF Snapshot
  <2>2. signatures # {} => Carries(s.source)
    BY <1>0, <1>8, <2>1 DEF SignReadSource, SignSo, SourceSo, RowsInv, FilesInv
  <2>3. SignSo(r, step, s)
    BY <1>0, <1>8, <2>1, <2>2 DEF SignReadSource, SignSo, Counted, SourceSo
  <2> QED
    BY <1>1, <1>2, <1>3, <1>8, <2>3, GotoSo, FinishSo DEF SignReadSource
<1>9. CASE SignReadOrder(r)
  <2>1. PICK n \in Orders \cup {0} : /\ \A m \in Orders : m <= n
                                     /\ Goto(r, "signCommit", [snap[r] EXCEPT !.last = n])
    BY <1>9 DEF SignReadOrder
  <2> DEFINE s == [snap[r] EXCEPT !.last = n]
  <2>2. /\ s.user = snap[r].user /\ s.unsigned = snap[r].unsigned
        /\ s.existing = snap[r].existing /\ s.source = snap[r].source
        /\ s.required = snap[r].required /\ s.pending = snap[r].pending /\ s.last = n
    BY <1>0 DEF Snapshot
  <2>3. SignSo(r, "signCommit", s)
    BY <1>0, <1>9, <2>1, <2>2 DEF SignReadOrder, SignSo, Counted, SourceSo
  <2> QED
    BY <1>1, <1>2, <1>3, <2>1, <2>3, GotoSo
<1> QED
  BY <1>4, <1>5, <1>6, <1>7, <1>8, <1>9

LEMMA SignWritesSo ==
  ASSUME TypeInv, RowsInv, NEW r \in Requests, So(r, pc[r], snap[r]),
         SignPlaceQr(r) \/ SignSaveFile(r) \/ SignCommit(r)
  PROVE  So(r, pc[r], snap[r])'
<1> USE NoneIsNoValue DEF FileNames
<1>0. /\ snap[r] \in Snapshot /\ SignSo(r, pc[r], snap[r]) /\ OtherSo(pc[r])
      /\ doc.exists /\ snap[r].user \in Users
  BY DEF So, TypeInv, TypeOK, ReadBeforeUse, Ready, SignPlaceQr, SignSaveFile, SignCommit, OtherSo
<1>1. ASSUME NEW step \in {"signSave", "signOrder"}, pc'[r] = step,
             doc'.exists, SignSo(r, pc[r], snap[r])'
      PROVE  So(r, pc[r], snap[r])'
  BY <1>1 DEF So, RequestSo, DeclineSo, OtherSo
<1>2. CASE SignPlaceQr(r)
  <2>1. /\ pc'[r] = "signSave" /\ snap'[r] = snap[r]
        /\ doc'.exists /\ doc'.status = doc.status
        /\ UNCHANGED <<signers, signatures, disk>>
    BY <1>0, <1>2, GotoOthers DEF SignPlaceQr, TypeInv, TypeOK
  <2>2. SignSo(r, "signSave", snap[r])
    BY <1>0, <1>2 DEF SignPlaceQr, SignSo, Counted, SourceSo
  <2>3. SignSo(r, pc[r], snap[r])'
    BY <2>1, <2>2 DEF SignSo, MaySign, ItsTurn, Counted, SourceSo, Carries, AskedUsers,
                      UnsignedUsers, SignedUsers, Orders
  <2> QED
    BY <1>1, <2>1, <2>3
<1>3. CASE SignSaveFile(r)
  <2> DEFINE s == [snap[r] EXCEPT !.source = SignedContent(r)]
  <2>1. /\ pc'[r] = "signOrder" /\ snap'[r] = s /\ UNCHANGED <<doc, signers, signatures>>
        /\ disk' = [disk EXCEPT !["signed"] = SignedContent(r)]
    BY <1>3, GotoOthers DEF SignSaveFile
  <2>2. /\ s.user = snap[r].user /\ s.unsigned = snap[r].unsigned
        /\ s.existing = snap[r].existing /\ s.source = SignedContent(r)
        /\ s.required = snap[r].required /\ s.pending = snap[r].pending
    BY <1>0 DEF Snapshot
  <2>3. pc[r] = "signSave" /\ snap[r].source \in Content
    BY <1>3 DEF SignSaveFile, TypeInv, ReadBeforeUse, Ready
  <2>4. SignedContent(r) # None /\ r \in SignedContent(r).sigs
    BY <2>3 DEF SignedContent, Content
  <2>5. Carries(SignedContent(r))
    BY <1>0, <2>3, <2>4 DEF SignSo, SourceSo, Carries, SignedContent, Content
  <2>6. disk'["signed"] = SignedContent(r)
    BY <2>1 DEF TypeInv, TypeOK
  <2>7. /\ MaySign(s.user) /\ (s.unsigned <=> signatures = {}) /\ ItsTurn(s.user)
        /\ Counted("signOrder", s) /\ Carries(s.source) /\ r \in s.source.sigs
    BY <1>0, <2>2, <2>3, <2>4, <2>5 DEF SignSo, Counted
  <2> HIDE DEF s
  <2>8. SignSo(r, pc[r], snap[r])'
    <3>1. MaySign(snap[r].user)' /\ ItsTurn(snap[r].user)'
      BY <2>1, <2>7 DEF MaySign, ItsTurn, AskedUsers, SignedUsers
    <3>2. Counted(pc[r], snap[r])'
      BY <2>1, <2>7 DEF Counted, AskedUsers, UnsignedUsers
    <3>3. SourceSo(r, pc[r], snap[r])'
      BY <2>1, <2>2, <2>6, <2>7 DEF SourceSo, Carries
    <3> QED
      BY <2>1, <2>7, <3>1, <3>2, <3>3 DEF SignSo
  <2> QED
    BY <1>0, <1>1, <2>1, <2>8
<1>4. CASE SignCommit(r)
  BY <1>4, FinishSo DEF SignCommit
<1> QED
  BY <1>2, <1>3, <1>4

LEMMA StillSoStays ==
  ASSUME TypeInv, RowsInv, OneAtATime, StillSo, MaxInFlight = 1,
         NEW r \in Requests, Receive(r) \/ Step(r) \/ Fail(r)
  PROVE  StillSo'
<1>1. So(r, pc[r], snap[r])
  BY DEF StillSo
<1>2. So(r, pc[r], snap[r])'
  BY <1>1, ArrivalSo, RequestStaysSo, OtherStaysSo, SignReadsSo, SignWritesSo DEF Step
<1> QED
  BY <1>2, OwnSo

-----------------------------------------------------------------------------
(* What the writes make of the rows *)

\* The signer rows once requestSigners has committed.
LEMMA RequestedRows ==
  ASSUME TypeInv, RowsInv, SignedRowHasSignature, NEW r \in Requests, So(r, pc[r], snap[r]),
         RequestCommit(r), RequestMayCommit(r)
  PROVE  \A u \in Users :
           IF snap[r].order[u] = 0 THEN signers'[u] = None
           ELSE /\ signers'[u] \in SignerRow /\ signers'[u].status = "PENDING"
                /\ signers'[u].order = snap[r].order[u]
<1>1. /\ signers' = [u \in Users |-> RequestedRow(r, u)]
      /\ signatures = {} /\ doc.status # "REVOKED"
      /\ \A u \in Users : snap[r].rows[u] = signers[u] /\ snap[r].order[u] \in Nat
  BY DEF RequestCommit, So, RequestSo, Turns
<1>2. SUFFICES ASSUME NEW u \in Users
               PROVE  IF snap[r].order[u] = 0 THEN signers'[u] = None
                      ELSE /\ signers'[u] \in SignerRow /\ signers'[u].status = "PENDING"
                           /\ signers'[u].order = snap[r].order[u]
  OBVIOUS
<1>3. signers[u] # None => signers[u] \in SignerRow /\ signers[u].status = "PENDING"
  <2>1. signers[u] # None => signers[u] \in SignerRow
    BY DEF TypeInv, TypeOK
  <2>2. signers[u] # None => signers[u].status # "SIGNED"
    BY <1>1 DEF SignedRowHasSignature
  <2>3. signers[u] # None => signers[u].status # "DECLINED"
    BY <1>1 DEF RowsInv, DeclinedIsRevoked, AskedUsers
  <2> QED
    BY <2>1, <2>2, <2>3 DEF SignerRow
<1>4. CASE snap[r].order[u] = 0
  BY <1>1, <1>4 DEF RequestedRow, Named, StillThere
<1>5. CASE snap[r].order[u] # 0 /\ signers[u] = None
  BY <1>1, <1>5 DEF RequestedRow, Named, SignerRow
<1>6. CASE snap[r].order[u] # 0 /\ signers[u] # None
  <2>1. signers'[u] = [signers[u] EXCEPT !.order = snap[r].order[u]]
    BY <1>1, <1>3, <1>6 DEF RequestedRow, Named
  <2> QED
    BY <1>1, <1>3, <1>6, <2>1 DEF SignerRow
<1> QED
  BY <1>4, <1>5, <1>6

\* Before it commits, the caller of signDocument is still to sign, all before
\* them have signed, and its number is greater than all others.
LEMMA BeforeSigning ==
  ASSUME TypeInv, RowsInv, NEW r \in Requests, So(r, pc[r], snap[r]), SignCommit(r)
  PROVE  /\ snap[r].user \in Users /\ snap[r].user \notin SignedUsers
         /\ snap[r].existing = signers[snap[r].user]
         /\ doc.exists /\ doc.status # "REVOKED"
         /\ IF signers[snap[r].user] = None
            THEN AskedUsers = {} /\ signatures = {} /\ snap[r].user = Owner /\ NextOrder(r) = 1
            ELSE /\ signers[snap[r].user] \in SignerRow
                 /\ signers[snap[r].user].status = "PENDING"
         /\ \A v \in AskedUsers : signers[snap[r].user] # None /\
              signers[v].order < signers[snap[r].user].order => v \in SignedUsers
         /\ \A s \in signatures : s.order < NextOrder(r)
         /\ \A s \in signatures : s.signer # snap[r].user
         /\ NextOrder(r) \in Nat \ {0}
<1> DEFINE u == snap[r].user
<1>1. /\ pc[r] = "signCommit" /\ u \in Users /\ snap[r].last \in Nat
      /\ signers[u] \in SignerRow \cup {None}
  BY DEF SignCommit, TypeInv, TypeOK, ReadBeforeUse, Ready, Snapshot
<1>2. /\ MaySign(u) /\ ItsTurn(u) /\ snap[r].existing = signers[u]
      /\ snap[r].last \in Orders \cup {0} /\ \A m \in Orders : m <= snap[r].last
      /\ doc.exists
  BY <1>1 DEF So, SignSo, Counted, SourceSo, OtherSo
<1>3. u \notin SignedUsers
  BY <1>1, <1>2 DEF MaySign, SignedUsers
<1>4. \A s \in signatures : s.signer # u
  BY <1>3 DEF RowsInv, OneSignaturePerSigner
<1>5. signers[u] = None => AskedUsers = {} /\ signatures = {} /\ u = Owner /\ snap[r].last = 0
  <2> SUFFICES ASSUME signers[u] = None
               PROVE  AskedUsers = {} /\ signatures = {} /\ u = Owner /\ snap[r].last = 0
    OBVIOUS
  <2>1. AskedUsers = {} /\ u = Owner
    BY <1>2 DEF MaySign, AskedUsers
  <2>2. signatures = {}
    BY <2>1 DEF RowsInv, OneSignaturePerSigner, SignedUsers, AskedUsers
  <2> QED
    BY <1>2, <2>1, <2>2 DEF Orders
<1>6. \A s \in signatures : s.order < NextOrder(r)
  <2>1. \A s \in signatures : s.order \in Orders /\ s.order \in Nat
    BY DEF Orders, TypeInv, TypeOK, Signature
  <2>2. \A s \in signatures : s.order <= snap[r].last
    BY <1>2, <2>1
  <2>3. NextOrder(r) = snap[r].last + 1
    BY DEF NextOrder
  <2> QED
    BY <1>1, <2>1, <2>2, <2>3
<1>7. signers[u] # None => signers[u] \in SignerRow /\ signers[u].status = "PENDING"
  BY <1>1, <1>2 DEF MaySign
<1> QED
  BY <1>1, <1>2, <1>3, <1>4, <1>5, <1>6, <1>7 DEF MaySign, ItsTurn, NextOrder

\* The counts tell whether the caller is the last to sign.
LEMMA LastIsLast ==
  ASSUME TypeInv, RowsInv, NEW r \in Requests, So(r, pc[r], snap[r]), SignCommit(r)
  PROVE  LastToSign(r) <=> \A v \in AskedUsers : v = snap[r].user \/ v \in SignedUsers
<1> DEFINE u == snap[r].user
<1>1. /\ snap[r].required = Cardinality(AskedUsers)
      /\ snap[r].pending = Cardinality(UnsignedUsers)
  BY DEF SignCommit, So, SignSo, Counted
<1>2. /\ IsFiniteSet(AskedUsers) /\ IsFiniteSet(UnsignedUsers)
      /\ Cardinality(UnsignedUsers) \in Nat
  <2>1. AskedUsers \in SUBSET Users /\ UnsignedUsers \in SUBSET Users
    BY DEF AskedUsers, UnsignedUsers
  <2> QED
    BY <2>1, SigningAssumption, FS_Subset, FS_CardinalityType
<1>3. UnsignedUsers = {v \in AskedUsers : v \notin SignedUsers}
  BY DEF UnsignedUsers, AskedUsers, SignedUsers
<1>4. CASE signers[u] = None
  <2>1. AskedUsers = {}
    BY <1>4, BeforeSigning
  <2>2. snap[r].required = 0
    BY <1>1, <2>1, FS_EmptySet
  <2> QED
    BY <2>1, <2>2 DEF LastToSign
<1>5. CASE signers[u] # None
  <2>1. u \in AskedUsers /\ u \in UnsignedUsers /\ snap[r].existing # None
    BY <1>3, <1>5, BeforeSigning DEF AskedUsers
  <2>2. Cardinality(AskedUsers) # 0
    BY <1>2, <2>1, FS_EmptySet
  <2>3. LastToSign(r) <=> Cardinality(UnsignedUsers) = 1
    BY <1>1, <1>2, <2>1, <2>2 DEF LastToSign
  <2>4. Cardinality(UnsignedUsers) = 1 <=> UnsignedUsers = {u}
    BY <1>2, <2>1, FS_Singleton
  <2>5. UnsignedUsers = {u} <=> \A v \in AskedUsers : v = u \/ v \in SignedUsers
    BY <1>3, <2>1
  <2> QED
    BY <2>3, <2>4, <2>5
<1> QED
  BY <1>4, <1>5

\* One request at a time, the transaction of signDocument never aborts.
LEMMA SigningCommits ==
  ASSUME TypeInv, RowsInv, NEW r \in Requests, So(r, pc[r], snap[r]), SignCommit(r)
  PROVE  SignMayCommit(r)
<1>1. NextOrder(r) \notin Orders
  <2>1. \A s \in signatures : s.order < NextOrder(r) /\ s.order \in Nat
    BY BeforeSigning DEF TypeInv, TypeOK, Signature
  <2> QED
    BY <2>1, BeforeSigning DEF Orders
<1> QED
  BY <1>1, BeforeSigning DEF SignMayCommit, StillThere

\* The rows once it has.
LEMMA SignedRows ==
  ASSUME TypeInv, RowsInv, NEW r \in Requests, So(r, pc[r], snap[r]), SignCommit(r)
  PROVE  LET u == snap[r].user
             new == [id |-> r, signer |-> u, order |-> NextOrder(r)] IN
         /\ signatures' = signatures \cup {new}
         /\ signers'[u] \in SignerRow /\ signers'[u] # None
         /\ signers'[u].status = "SIGNED" /\ signers'[u].sig = r
         /\ signers'[u].order = IF signers[u] = None THEN 1 ELSE signers[u].order
         /\ \A v \in Users : v # u => signers'[v] = signers[v]
         /\ doc'.exists
         /\ doc'.status = IF LastToSign(r) THEN "FULLY_SIGNED" ELSE "PARTIALLY_SIGNED"
         /\ doc'.final = "signed" /\ doc'.hash = snap[r].source
         /\ UNCHANGED disk
<1> DEFINE u == snap[r].user
<1>1. SignMayCommit(r)
  BY SigningCommits
<1>2. /\ signatures' = signatures \cup {[id |-> r, signer |-> u, order |-> NextOrder(r)]}
      /\ signers' = [signers EXCEPT ![u] = SignedRow(r)]
      /\ doc' = [doc EXCEPT !.status = IF LastToSign(r) THEN "FULLY_SIGNED"
                                       ELSE "PARTIALLY_SIGNED",
                            !.final = "signed", !.hash = snap[r].source]
      /\ UNCHANGED disk
  BY <1>1 DEF SignCommit
<1>3. /\ SignedRow(r) \in SignerRow /\ SignedRow(r).status = "SIGNED" /\ SignedRow(r).sig = r
      /\ SignedRow(r).order = IF signers[u] = None THEN 1 ELSE signers[u].order
  <2>1. CASE signers[u] = None
    BY <2>1, BeforeSigning DEF SignedRow, SignerRow
  <2>2. CASE signers[u] # None
    <3>1. /\ signers[u] \in SignerRow
          /\ SignedRow(r) = [signers[u] EXCEPT !.status = "SIGNED", !.sig = r]
      BY <2>2, BeforeSigning DEF SignedRow
    <3> QED
      BY <2>2, <3>1 DEF SignerRow
  <2> QED
    BY <2>1, <2>2
<1>4. signers'[u] = SignedRow(r) /\ \A v \in Users : v # u => signers'[v] = signers[v]
  BY <1>2, BeforeSigning DEF TypeInv, TypeOK
<1>5. /\ doc'.exists /\ doc'.final = "signed" /\ doc'.hash = snap[r].source
      /\ doc'.status = IF LastToSign(r) THEN "FULLY_SIGNED" ELSE "PARTIALLY_SIGNED"
  BY <1>2, BeforeSigning DEF TypeInv, TypeOK
<1> QED
  BY <1>2, <1>3, <1>4, <1>5, NoneIsNoValue

-----------------------------------------------------------------------------
(* The rows agree after every write *)

\* Whoever signed is listed.
LEMMA SignedAreListed ==
  ASSUME RowsInv, SignedRowHasSignature
  PROVE  /\ SignedUsers = {s.signer : s \in signatures}
         /\ SignedUsers \subseteq AskedUsers
BY DEF RowsInv, OneSignaturePerSigner, SignedRowHasSignature, SignedUsers, AskedUsers

\* A document on which nobody signed is a draft, waits, or was revoked.
LEMMA UnsignedStatus ==
  ASSUME TypeInv, RowsInv, SignedRowHasSignature, signatures = {}
  PROVE  doc.status \in {"DRAFT", "PENDING_SIGNATURES", "REVOKED"} /\ SignedUsers = {}
BY SignedAreListed DEF RowsInv, StatusMatchesSigners, TypeInv, TypeOK, Statuses

\* Steps that change neither rows nor status.
LEMMA RowsKept ==
  ASSUME RowsInv, UNCHANGED <<signers, signatures>>,
         doc'.exists = doc.exists, doc'.status = doc.status, FilesInv'
  PROVE  RowsInv'
BY DEF RowsInv, DraftIsEmpty, OneSignatureEach, OrdersDiffer, DeclinedIsRevoked,
       StatusMatchesSigners,
       SigningFollowsOrder, OneSignaturePerSigner, AskedUsers, SignedUsers, PendingUsers

\* Steps that change the status of an existing document without signatures,
\* or revoke one.
LEMMA StatusSet ==
  ASSUME TypeInv, RowsInv, UNCHANGED <<signers, signatures, disk>>, doc.exists,
         NEW status, doc' = [doc EXCEPT !.status = status],
         \/ status = "REVOKED"
         \/ status = "PENDING_SIGNATURES" /\ doc.status = "DRAFT"
  PROVE  RowsInv'
<1>1. /\ doc'.status = status /\ doc'.exists /\ doc'.final = doc.final
      /\ doc'.hash = doc.hash
  BY DEF TypeInv, TypeOK
<1>2. FilesInv'
  BY <1>1 DEF RowsInv, FilesInv, Carries
<1>3. StatusMatchesSigners'
  BY <1>1 DEF RowsInv, StatusMatchesSigners
<1>4. OrdersDiffer' /\ SigningFollowsOrder' /\ OneSignaturePerSigner'
  BY DEF RowsInv, OrdersDiffer, SigningFollowsOrder, OneSignaturePerSigner, AskedUsers,
         SignedUsers
<1>5. DeclinedIsRevoked' /\ DraftIsEmpty' /\ OneSignatureEach'
  BY <1>1 DEF RowsInv, DeclinedIsRevoked, DraftIsEmpty, OneSignatureEach, AskedUsers
<1> QED
  BY <1>2, <1>3, <1>4, <1>5 DEF RowsInv

LEMMA RequestCommitRows ==
  ASSUME TypeInv, RowsInv, SignedRowHasSignature, NEW r \in Requests,
         So(r, pc[r], snap[r]), RequestCommit(r), RequestMayCommit(r)
  PROVE  RowsInv'
<1> DEFINE o == snap[r].order
<1>1. /\ signatures = {} /\ signatures' = {} /\ doc.exists /\ doc.status # "REVOKED"
      /\ doc' = IF snap[r].draft THEN [doc EXCEPT !.status = "PENDING_SIGNATURES"] ELSE doc
      /\ (snap[r].draft <=> doc.status = "DRAFT") /\ Turns(o)
  BY DEF RequestCommit, So, RequestSo, OtherSo
<1>2. doc'.status = "PENDING_SIGNATURES" /\ doc'.exists
  BY <1>1, UnsignedStatus DEF TypeInv, TypeOK
<1>3. \A u \in Users : IF o[u] = 0 THEN signers'[u] = None
                       ELSE signers'[u].status = "PENDING" /\ signers'[u].order = o[u]
  BY RequestedRows
<1>4. OrdersDiffer' /\ DeclinedIsRevoked' /\ SignedUsers' = {}
  BY <1>1, <1>2, <1>3 DEF OrdersDiffer, DeclinedIsRevoked, AskedUsers, SignedUsers, Turns
<1>5. StatusMatchesSigners' /\ SigningFollowsOrder' /\ OneSignaturePerSigner'
  BY <1>1, <1>2, <1>4 DEF StatusMatchesSigners, SigningFollowsOrder, OneSignaturePerSigner
<1> QED
  BY <1>1, <1>2, <1>4, <1>5 DEF RowsInv, FilesInv, DraftIsEmpty, OneSignatureEach

LEMMA SignCommitRows ==
  ASSUME TypeInv, RowsInv, SignedRowHasSignature, NEW r \in Requests,
         So(r, pc[r], snap[r]), SignCommit(r)
  PROVE  RowsInv'
<1> DEFINE u == snap[r].user
           new == [id |-> r, signer |-> u, order |-> NextOrder(r)]
<1>1. /\ signatures' = signatures \cup {new}
      /\ signers'[u] # None /\ signers'[u] \in SignerRow
      /\ signers'[u].status = "SIGNED" /\ signers'[u].sig = r
      /\ signers'[u].order = IF signers[u] = None THEN 1 ELSE signers[u].order
      /\ \A v \in Users : v # u => signers'[v] = signers[v]
      /\ doc'.exists /\ doc'.status = IF LastToSign(r) THEN "FULLY_SIGNED" ELSE "PARTIALLY_SIGNED"
      /\ doc'.final = "signed" /\ doc'.hash = snap[r].source /\ UNCHANGED disk
  BY SignedRows
<1>2. new.id = r /\ new.signer = u /\ new.order = NextOrder(r)
  OBVIOUS
<1> HIDE DEF new
<1>3. /\ u \in Users /\ u \notin SignedUsers /\ doc.exists /\ doc.status # "REVOKED"
      /\ signers[u] = None => AskedUsers = {}
      /\ \A v \in AskedUsers : signers[u] # None /\ signers[v].order < signers[u].order =>
           v \in SignedUsers
      /\ \A s \in signatures : s.order < NextOrder(r) /\ s.signer # u
  BY BeforeSigning
<1>4. /\ SignedUsers' = SignedUsers \cup {u} /\ AskedUsers' = AskedUsers \cup {u}
  BY <1>1, <1>3 DEF SignedUsers, AskedUsers
<1>5. OrdersDiffer'
  <2>1. CASE signers[u] = None
    BY <1>1, <1>3, <1>4, <2>1 DEF OrdersDiffer
  <2>2. CASE signers[u] # None
    BY <1>1, <1>3, <1>4, <2>2 DEF OrdersDiffer, RowsInv, AskedUsers
  <2> QED
    BY <2>1, <2>2
<1>6. DeclinedIsRevoked'
  <2>1. \A v \in AskedUsers : signers[v].status # "DECLINED"
    BY <1>3 DEF RowsInv, DeclinedIsRevoked
  <2> QED
    BY <1>1, <1>4, <2>1 DEF DeclinedIsRevoked, AskedUsers
<1>7. OneSignaturePerSigner'
  BY <1>1, <1>2, <1>3, <1>4 DEF RowsInv, OneSignaturePerSigner, SignedUsers
<1>8. SigningFollowsOrder'
  <2>1. SUFFICES ASSUME NEW a \in Users, NEW b \in Users, a \in AskedUsers', b \in AskedUsers',
                        signers'[a].order < signers'[b].order, b \in SignedUsers'
                 PROVE  /\ a \in SignedUsers'
                        /\ \A s, t \in signatures' : s.signer = a /\ t.signer = b =>
                             s.order < t.order
    BY DEF SigningFollowsOrder, AskedUsers
  <2>2. a # b
    <3>1. signers'[b].order \in Nat
      BY <1>1, <2>1 DEF AskedUsers, TypeInv, TypeOK, SignerRow
    <3> QED
      BY <2>1, <3>1
  <2>3. CASE b = u
    <3>1. a \in AskedUsers /\ signers[u] # None /\ signers[a].order < signers[u].order
      BY <1>1, <1>3, <1>4, <2>1, <2>2, <2>3
    <3>2. a \in SignedUsers
      BY <1>3, <3>1
    <3> QED
      BY <1>1, <1>2, <1>3, <1>4, <2>2, <2>3, <3>2
  <2>4. CASE b # u
    <3>1. b \in SignedUsers /\ b \in AskedUsers /\ signers[b].order = signers'[b].order
      BY <1>1, <1>4, <2>1, <2>4
    <3>2. a # u
      <4>1. CASE signers[u] = None
        BY <1>3, <3>1, <4>1
      <4>2. CASE signers[u] # None
        BY <1>1, <1>3, <2>1, <3>1, <4>2 DEF RowsInv, SigningFollowsOrder, AskedUsers
      <4> QED
        BY <4>1, <4>2
    <3>3. a \in AskedUsers /\ signers[a].order < signers[b].order
      BY <1>1, <1>4, <2>1, <3>1, <3>2
    <3>4. /\ a \in SignedUsers
          /\ \A s, t \in signatures : s.signer = a /\ t.signer = b => s.order < t.order
      BY <3>1, <3>3 DEF RowsInv, SigningFollowsOrder, AskedUsers
    <3> QED
      BY <1>1, <1>2, <1>4, <2>4, <3>2, <3>4
  <2> QED
    BY <2>3, <2>4
<1>9. StatusMatchesSigners'
  <2>1. CASE LastToSign(r)
    <3>1. \A v \in AskedUsers' : v \in SignedUsers'
      BY <1>4, <2>1, LastIsLast
    <3> QED
      BY <1>1, <2>1, <3>1 DEF StatusMatchesSigners, AskedUsers
  <2>2. CASE ~LastToSign(r)
    <3>1. PICK v \in AskedUsers : v # u /\ v \notin SignedUsers
      BY <2>2, LastIsLast
    <3>2. v \in Users /\ signers[v] \in SignerRow /\ signers[v].status # "DECLINED"
      BY <1>3 DEF RowsInv, DeclinedIsRevoked, AskedUsers, TypeInv, TypeOK
    <3>3. signers[v].status = "PENDING"
      BY <3>1, <3>2 DEF SignedUsers, AskedUsers, SignerRow
    <3>4. v \in PendingUsers'
      BY <1>1, <3>1, <3>2, <3>3 DEF PendingUsers, AskedUsers
    <3> QED
      BY <1>1, <1>4, <2>2, <3>4 DEF StatusMatchesSigners
  <2> QED
    BY <2>1, <2>2
<1>10. FilesInv'
  <2>1. Carries(snap[r].source) /\ r \in snap[r].source.sigs /\ disk["signed"] = snap[r].source
    BY DEF SignCommit, So, SignSo, SourceSo
  <2> QED
    BY <1>1, <1>2, <2>1 DEF FilesInv, Carries
<1>11. OneSignatureEach'
  BY <1>1, <1>2, <1>3 DEF RowsInv, OneSignatureEach
<1> QED
  BY <1>1, <1>5, <1>6, <1>7, <1>8, <1>9, <1>10, <1>11 DEF RowsInv, DraftIsEmpty

LEMMA DeclineCommitRows ==
  ASSUME TypeInv, RowsInv, NEW r \in Requests, So(r, pc[r], snap[r]), DeclineCommit(r)
  PROVE  LET u == snap[r].user IN
         /\ RowsInv'
         /\ u \in Users /\ signers[u] # None /\ signers[u].status = "PENDING" /\ ItsTurn(u)
         /\ doc.exists /\ doc.status # "REVOKED" /\ doc'.exists /\ doc'.status = "REVOKED"
         /\ \A v \in Users : (signers'[v] = None <=> signers[v] = None)
                             /\ signers'[v].order = signers[v].order
<1> DEFINE u == snap[r].user
<1>1. /\ pc[r] = "declineCommit" /\ u \in Users
  BY DEF DeclineCommit, TypeInv, ReadBeforeUse, Ready
<1>2. /\ doc.exists /\ doc.status # "REVOKED" /\ snap[r].existing = signers[u]
      /\ signers[u] # None /\ signers[u].status = "PENDING" /\ ItsTurn(u)
  BY <1>1 DEF So, DeclineSo, OtherSo
<1>3. /\ signers' = [signers EXCEPT ![u].status = "DECLINED"]
      /\ doc' = [doc EXCEPT !.status = "REVOKED"] /\ UNCHANGED <<signatures, disk>>
  BY <1>2 DEF DeclineCommit, StillThere, DeclinedStatus
<1>4. signers[u] \in SignerRow
  BY <1>1, <1>2 DEF TypeInv, TypeOK
<1>5. /\ signers'[u] \in SignerRow /\ signers'[u].status = "DECLINED"
      /\ signers'[u].order = signers[u].order
      /\ \A v \in Users : v # u => signers'[v] = signers[v]
  BY <1>1, <1>3, <1>4 DEF TypeInv, TypeOK, SignerRow
<1>6. /\ doc'.status = "REVOKED" /\ doc'.exists /\ doc'.final = doc.final /\ doc'.hash = doc.hash
  BY <1>2, <1>3 DEF TypeInv, TypeOK
<1>7. SignedUsers' = SignedUsers /\ AskedUsers' = AskedUsers /\ u \notin SignedUsers
  BY <1>1, <1>2, <1>5, NoneIsNoValue DEF SignedUsers, AskedUsers
<1>8. OrdersDiffer' /\ DeclinedIsRevoked'
  BY <1>5, <1>6, <1>7 DEF RowsInv, OrdersDiffer, DeclinedIsRevoked, AskedUsers
<1>9. OneSignaturePerSigner'
  BY <1>3, <1>5, <1>7 DEF RowsInv, OneSignaturePerSigner, SignedUsers
<1>10. SigningFollowsOrder'
  BY <1>3, <1>5, <1>7 DEF RowsInv, SigningFollowsOrder, AskedUsers
<1>11. StatusMatchesSigners' /\ FilesInv' /\ DraftIsEmpty' /\ OneSignatureEach'
  BY <1>3, <1>6
  DEF RowsInv, StatusMatchesSigners, FilesInv, Carries, DraftIsEmpty, OneSignatureEach
<1>12. RowsInv'
  BY <1>8, <1>9, <1>10, <1>11 DEF RowsInv
<1>13. \A v \in Users : (signers'[v] = None <=> signers[v] = None)
                        /\ signers'[v].order = signers[v].order
  BY <1>2, <1>5, NoneIsNoValue
<1> QED
  BY <1>1, <1>2, <1>6, <1>12, <1>13

\* The writes that change neither rows nor status.
LEMMA QuietRows ==
  ASSUME TypeInv, RowsInv, NEW r \in Requests, So(r, pc[r], snap[r]),
         \/ RequestPreRender(r) \/ RequestUpdateFinal(r) \/ SignPlaceQr(r) \/ SignSaveFile(r)
         \/ QrSaveFile(r) \/ QrUpdate(r) \/ DeleteFile(r)
  PROVE  /\ RowsInv' /\ UNCHANGED <<signers, signatures>>
         /\ doc'.exists = doc.exists /\ doc'.status = doc.status
<1>1. CASE RequestPreRender(r) \/ QrSaveFile(r) \/ DeleteFile(r)
  <2>1. signatures' = {} /\ UNCHANGED <<doc, signers, signatures>>
    BY <1>1
    DEF RequestPreRender, QrSaveFile, DeleteFile, So, RequestSo, OtherSo, RowsInv,
        StatusMatchesSigners
  <2> QED
    BY <2>1, RowsKept DEF FilesInv
<1>2. CASE RequestUpdateFinal(r) \/ QrUpdate(r)
  <2>1. /\ signatures' = {} /\ UNCHANGED <<signers, signatures>>
        /\ doc'.exists = doc.exists /\ doc'.status = doc.status
    BY <1>2 DEF RequestUpdateFinal, QrUpdate, So, RequestSo, OtherSo, TypeInv, TypeOK
  <2> QED
    BY <2>1, RowsKept DEF FilesInv
<1>3. CASE SignPlaceQr(r)
  <2>1. /\ UNCHANGED <<signers, signatures, disk>>
        /\ doc'.exists = doc.exists /\ doc'.status = doc.status
        /\ doc'.final = doc.final /\ doc'.hash = doc.hash
    BY <1>3 DEF SignPlaceQr, TypeInv, TypeOK
  <2>2. FilesInv'
    BY <2>1 DEF RowsInv, FilesInv, Carries
  <2> QED
    BY <2>1, <2>2, RowsKept
<1>4. CASE SignSaveFile(r)
  <2>1. /\ UNCHANGED <<doc, signers, signatures>>
        /\ disk' = [disk EXCEPT !["signed"] = SignedContent(r)]
    BY <1>4 DEF SignSaveFile
  <2>2. disk'["signed"] = SignedContent(r)
    BY <2>1 DEF TypeInv, TypeOK, FileNames
  <2>3. /\ pc[r] = "signSave" /\ snap[r].source \in Content
        /\ signatures # {} => Carries(snap[r].source) /\ ~snap[r].unsigned
    BY <1>4 DEF SignSaveFile, TypeInv, ReadBeforeUse, Ready, So, SignSo, SourceSo
  <2>4. signatures # {} => Carries(SignedContent(r))
    BY <2>3, NoneIsNoValue DEF Carries, SignedContent, Content
  <2>5. FilesInv'
    BY <2>1, <2>2, <2>4 DEF RowsInv, FilesInv, Carries
  <2> QED
    BY <2>1, <2>5, RowsKept
<1> QED
  BY <1>1, <1>2, <1>3, <1>4

\* Deleting the row of a draft leaves nothing.
LEMMA DeleteRowRows ==
  ASSUME NEW r \in Requests, DeleteRow(r)
  PROVE  RowsInv'
<1>1. /\ ~doc'.exists /\ doc'.status = "DRAFT" /\ signatures' = {}
      /\ \A u \in Users : signers'[u] = None
  BY DEF DeleteRow
<1> QED
  BY <1>1 DEF RowsInv, DraftIsEmpty, OneSignatureEach, OrdersDiffer, DeclinedIsRevoked,
              StatusMatchesSigners,
              SigningFollowsOrder, OneSignaturePerSigner, FilesInv, AskedUsers, SignedUsers

\* The steps that only read.
ReadStep(r) ==
  \/ Receive(r) \/ Fail(r)
  \/ RequestReadExisting(r) \/ RequestReadOmitted(r) \/ RequestReadSource(r)
  \/ SignReadNext(r) \/ SignReadExisting(r) \/ SignCountRequired(r)
  \/ SignCountPending(r) \/ SignReadSource(r) \/ SignReadOrder(r)
  \/ DeclineReadNext(r) \/ QrReadSource(r)

LEMMA ReadsKeepData ==
  ASSUME NEW r \in Requests, ReadStep(r)
  PROVE  UNCHANGED data
BY DEF ReadStep, Receive, StartRead, SignRead, DeclineRead, QrRead, DeleteRead, RequestRead,
       RevokeRead, Fail, RequestReadExisting, RequestReadOmitted, RequestReadSource,
       SignReadNext, ReadNext, SignReadExisting, SignCountRequired, SignCountPending,
       SignReadSource, SignReadOrder, DeclineReadNext, QrReadSource, data

LEMMA DataKept ==
  ASSUME RowsInv, UNCHANGED data
  PROVE  RowsInv'
<1>1. FilesInv'
  BY DEF RowsInv, FilesInv, Carries, data
<1> QED
  BY <1>1, RowsKept DEF data

LEMMA RowsStay ==
  ASSUME TypeInv, RowsInv, SignedRowHasSignature, StillSo,
         NEW r \in Requests, Receive(r) \/ Step(r) \/ Fail(r)
  PROVE  RowsInv'
<1>0. So(r, pc[r], snap[r])
  BY DEF StillSo
<1>1. CASE ReadStep(r)
  BY <1>1, ReadsKeepData, DataKept
<1>2. CASE \/ RequestPreRender(r) \/ RequestUpdateFinal(r) \/ SignPlaceQr(r)
           \/ SignSaveFile(r) \/ QrSaveFile(r) \/ QrUpdate(r) \/ DeleteFile(r)
  BY <1>0, <1>2, QuietRows
<1>3. CASE StartUpdate(r)
  BY <1>0, <1>3, StatusSet DEF StartUpdate, So, OtherSo
<1>4. CASE RevokeUpdate(r)
  BY <1>0, <1>4, StatusSet DEF RevokeUpdate, So, OtherSo
<1>5. CASE RequestCommit(r)
  BY <1>0, <1>5, RequestCommitRows, DataKept DEF RequestCommit, data
<1>6. CASE SignCommit(r)
  BY <1>0, <1>6, SignCommitRows
<1>7. CASE DeclineCommit(r)
  BY <1>0, <1>7, DeclineCommitRows
<1>8. CASE DeleteRow(r)
  BY <1>8, DeleteRowRows
<1> QED
  BY <1>1, <1>2, <1>3, <1>4, <1>5, <1>6, <1>7, <1>8 DEF Step, ReadStep

-----------------------------------------------------------------------------
(* The invariant *)

SerialInv == TypeInv /\ SignedRowHasSignature /\ OneAtATime /\ StillSo /\ RowsInv

LEMMA SerialInvariant ==
  ASSUME MaxInFlight = 1
  PROVE  Spec => []SerialInv
<1>1. Init => OneAtATime /\ StillSo /\ RowsInv /\ SignedRowHasSignature
  <2> SUFFICES ASSUME Init PROVE OneAtATime /\ StillSo /\ RowsInv /\ SignedRowHasSignature
    OBVIOUS
  <2>1. OneAtATime /\ StillSo
    BY WaitingSo DEF Init, OneAtATime, InFlight, StillSo
  <2>2. /\ doc.exists /\ doc.status = "DRAFT" /\ signatures = {}
        /\ \A u \in Users : signers[u] = None
    BY DEF Init
  <2> QED
    BY <2>1, <2>2
    DEF RowsInv, DraftIsEmpty, OneSignatureEach, OrdersDiffer, DeclinedIsRevoked,
        StatusMatchesSigners,
        SigningFollowsOrder, OneSignaturePerSigner, FilesInv, AskedUsers, SignedUsers,
        SignedRowHasSignature
<1>2. TypeInv /\ SerialInv /\ [Next]_vars /\ TypeInv' => SerialInv'
  <2> SUFFICES ASSUME SerialInv, [Next]_vars, TypeInv' PROVE SerialInv'
    OBVIOUS
  <2>1. ASSUME NEW r \in Requests, Receive(r) \/ Step(r) \/ Fail(r) PROVE SerialInv'
    BY <2>1, SignedRowStep, OneStays, StillSoStays, RowsStay DEF SerialInv
  <2>2. ASSUME UNCHANGED vars PROVE SerialInv'
    <3>1. OneAtATime'
      BY <2>2 DEF SerialInv, OneAtATime, InFlight, vars
    <3>2. SignedRowHasSignature'
      BY <2>2 DEF SerialInv, SignedRowHasSignature, vars
    <3>3. RowsInv'
      BY <2>2, DataKept DEF SerialInv, vars, data
    <3>4. StillSo'
      <4>1. ASSUME NEW r \in Requests PROVE So(r, pc[r], snap[r])'
        <5>1. So(r, pc[r], snap[r])
          BY DEF SerialInv, StillSo
        <5> QED
          BY <2>2, <5>1
          DEF vars, So, RequestSo, SignSo, DeclineSo, OtherSo, MaySign, ItsTurn, Counted,
              SourceSo, Carries, AskedUsers, UnsignedUsers, SignedUsers, Orders
      <4> QED
        BY <4>1 DEF StillSo
    <3> QED
      BY <3>1, <3>2, <3>3, <3>4 DEF SerialInv
  <2> QED
    BY <2>1, <2>2 DEF Next
<1>3. Init /\ TypeInv => SerialInv
  BY <1>1 DEF SerialInv
<1> QED
  BY <1>2, <1>3, TypeInvariant, PTL DEF Spec

\* One request at a time, the status, the signer rows and the signatures of
\* the document agree after every write of every handler.
THEOREM SerialRowsAgree ==
  ASSUME MaxInFlight = 1
  PROVE  Spec => []RowsAgree
<1>1. SerialInv => RowsAgree
  BY DEF SerialInv, RowsInv, RowsAgree, TypeInv
<1> QED
  BY <1>1, SerialInvariant, PTL

\* One request at a time, the file whose hash the document publishes carries
\* all its signatures, although signDocument and finalizeQr rewrite the file
\* before the row and a handler may fail in between.
THEOREM SerialFileHasAllSignatures ==
  ASSUME MaxInFlight = 1
  PROVE  Spec => []FinalFileHasAllSignatures
<1>1. SerialInv => FinalFileHasAllSignatures
  BY DEF SerialInv, RowsInv, FilesInv, Carries, FinalFileHasAllSignatures
<1> QED
  BY <1>1, SerialInvariant, PTL

-----------------------------------------------------------------------------
(* Signing implements SigningWorkflow *)

\* What the workflow sees of the rows.
LEMMA Mapped ==
  ASSUME TypeInv, RowsInv, SignedRowHasSignature
  PROVE  /\ Workflow!Asked = AskedUsers
         /\ {s.signer : s \in signatures} = SignedUsers
         /\ Workflow!Open <=> doc.exists /\ doc.status # "REVOKED"
         /\ \A u \in AskedUsers : signers[u].order \in Nat \ {0}
<1>1. \A u \in AskedUsers : u \in Users /\ signers[u].order \in Nat \ {0}
  BY DEF AskedUsers, TypeInv, TypeOK, SignerRow, RowsInv, OrdersDiffer
<1>2. Workflow!Asked = AskedUsers
  BY <1>1 DEF Workflow!Asked, AskedUsers
<1>3. Workflow!Open <=> doc.exists /\ doc.status # "REVOKED"
  BY DEF Workflow!Open, TypeInv, TypeOK, Statuses
<1> QED
  BY <1>1, <1>2, <1>3, SignedAreListed

\* A step that changes neither rows nor status is not seen.
LEMMA Unseen ==
  ASSUME UNCHANGED <<signers, signatures>>, doc'.exists = doc.exists, doc'.status = doc.status
  PROVE  UNCHANGED Workflow!wfVars
BY DEF Workflow!wfVars

LEMMA AskIsSeen ==
  ASSUME TypeInv, RowsInv, SignedRowHasSignature, NEW r \in Requests,
         So(r, pc[r], snap[r]), RequestCommit(r), RequestMayCommit(r)
  PROVE  Workflow!Ask
<1> DEFINE o == snap[r].order
           turnNext == [u \in Users |-> IF signers'[u] = None THEN 0 ELSE signers'[u].order]
<1>1. /\ signatures = {} /\ signatures' = {} /\ doc.exists /\ doc.status # "REVOKED"
      /\ doc' = IF snap[r].draft THEN [doc EXCEPT !.status = "PENDING_SIGNATURES"] ELSE doc
      /\ (snap[r].draft <=> doc.status = "DRAFT") /\ Turns(o)
  BY DEF RequestCommit, So, RequestSo, OtherSo
<1>2. doc'.exists /\ doc'.status = IF doc.status = "DRAFT" THEN "PENDING_SIGNATURES" ELSE doc.status
  BY <1>1 DEF TypeInv, TypeOK
<1>3. \A u \in Users : turnNext[u] = o[u]
  BY RequestedRows, NoneIsNoValue
<1>4. /\ turnNext \in [Users -> Nat] /\ \E u \in Users : turnNext[u] # 0
      /\ \A u, v \in Users : u # v /\ turnNext[u] # 0 /\ turnNext[v] # 0 =>
           turnNext[u] # turnNext[v] /\ (Rank[u] < Rank[v] => turnNext[u] < turnNext[v])
  <2>1. turnNext \in [Users -> Nat]
    BY <1>1, <1>3 DEF Turns
  <2> HIDE DEF turnNext
  <2> QED
    BY <1>1, <1>3, <2>1 DEF Turns
<1>5. turnNext # Workflow!NoTurns
  BY <1>4 DEF Workflow!NoTurns
<1> HIDE DEF turnNext
<1>6. Workflow!Open /\ {s.signer : s \in signatures} = {} /\ {s.signer : s \in signatures'} = {}
  <2>1. {s.signer : s \in {}} = {}
    OBVIOUS
  <2> QED
    BY <1>1, <2>1, Mapped
<1> QED
  BY <1>1, <1>2, <1>4, <1>5, <1>6 DEF Workflow!Ask, turnNext

LEMMA SignIsSeen ==
  ASSUME TypeInv, RowsInv, SignedRowHasSignature, NEW r \in Requests,
         So(r, pc[r], snap[r]), SignCommit(r)
  PROVE  Workflow!Sign(snap[r].user)
<1> DEFINE u == snap[r].user
           new == [id |-> r, signer |-> u, order |-> NextOrder(r)]
           turnNow == [v \in Users |-> IF signers[v] = None THEN 0 ELSE signers[v].order]
           turnNext == [v \in Users |-> IF signers'[v] = None THEN 0 ELSE signers'[v].order]
           signedNext == {s.signer : s \in signatures'}
<1>1. /\ signatures' = signatures \cup {new} /\ signers'[u] # None
      /\ signers'[u].order = IF signers[u] = None THEN 1 ELSE signers[u].order
      /\ \A v \in Users : v # u => signers'[v] = signers[v]
      /\ doc'.exists
      /\ doc'.status = IF LastToSign(r) THEN "FULLY_SIGNED" ELSE "PARTIALLY_SIGNED"
  BY SignedRows
<1>2. /\ u \in Users /\ u \notin SignedUsers /\ doc.exists /\ doc.status # "REVOKED"
      /\ IF signers[u] = None THEN AskedUsers = {} /\ u = Owner
         ELSE \A v \in AskedUsers : signers[v].order < signers[u].order => v \in SignedUsers
  BY BeforeSigning
<1>3. signedNext = SignedUsers \cup {u}
  <2>1. new.signer = u
    OBVIOUS
  <2> HIDE DEF new
  <2> QED
    BY <1>1, <2>1, Mapped
<1>4. Workflow!Open /\ Workflow!Asked = AskedUsers
  BY <1>2, Mapped
<1>5. IF AskedUsers = {} THEN u = Owner /\ turnNext = [turnNow EXCEPT ![u] = 1]
      ELSE Workflow!MyTurn(u) /\ turnNext = turnNow
  <2>1. CASE signers[u] = None
    BY <1>1, <1>2, <2>1
  <2>2. CASE signers[u] # None
    <3>1. u \in AskedUsers /\ turnNext = turnNow
      BY <1>1, <1>2, <2>2 DEF AskedUsers
    <3>2. \A v \in AskedUsers : v \in Users /\ turnNow[v] = signers[v].order
      BY DEF AskedUsers
    <3>3. Workflow!MyTurn(u)
      BY <1>2, <1>4, <2>2, <3>1, <3>2, Mapped DEF Workflow!MyTurn
    <3> QED
      BY <3>1, <3>3
  <2> QED
    BY <2>1, <2>2
<1>6. LastToSign(r) <=> AskedUsers \subseteq signedNext
  BY <1>3, LastIsLast
<1> HIDE DEF new, turnNow, turnNext, signedNext
<1> QED
  BY <1>1, <1>3, <1>4, <1>5, <1>6, Mapped
  DEF Workflow!Sign, turnNow, turnNext, signedNext

LEMMA DeclineIsSeen ==
  ASSUME TypeInv, RowsInv, SignedRowHasSignature, NEW r \in Requests,
         So(r, pc[r], snap[r]), DeclineCommit(r)
  PROVE  Workflow!Decline(snap[r].user)
<1> DEFINE u == snap[r].user
<1>1. /\ u \in Users /\ signers[u] # None /\ signers[u].status = "PENDING" /\ ItsTurn(u)
      /\ doc.exists /\ doc.status # "REVOKED" /\ doc'.exists /\ doc'.status = "REVOKED"
      /\ \A v \in Users : (signers'[v] = None <=> signers[v] = None)
                          /\ signers'[v].order = signers[v].order
  BY DeclineCommitRows
<1>2. signatures' = signatures
  BY DEF DeclineCommit
<1>3. \A v \in AskedUsers : v \in Users
  BY DEF AskedUsers
<1>4. u \in AskedUsers /\ u \notin SignedUsers
  BY <1>1 DEF AskedUsers, SignedUsers
<1>5. Workflow!MyTurn(u)
  BY <1>1, <1>3, <1>4, Mapped DEF Workflow!MyTurn, ItsTurn, AskedUsers
<1> QED
  BY <1>1, <1>2, <1>5, Mapped DEF Workflow!Decline

LEMMA WorkflowStep ==
  ASSUME TypeInv, RowsInv, SignedRowHasSignature, StillSo,
         NEW r \in Requests, Receive(r) \/ Step(r) \/ Fail(r)
  PROVE  [Workflow!WfNext]_(Workflow!wfVars)
<1>0. So(r, pc[r], snap[r])
  BY DEF StillSo
<1>1. CASE ReadStep(r)
  BY <1>1, ReadsKeepData, Unseen DEF data
<1>2. CASE \/ RequestPreRender(r) \/ RequestUpdateFinal(r) \/ SignPlaceQr(r)
           \/ SignSaveFile(r) \/ QrSaveFile(r) \/ QrUpdate(r) \/ DeleteFile(r)
  BY <1>0, <1>2, QuietRows, Unseen
<1>3. CASE StartUpdate(r)
  <2>1. /\ doc.exists /\ doc.status = "DRAFT" /\ UNCHANGED <<signers, signatures>>
        /\ doc'.exists /\ doc'.status = "PENDING_SIGNATURES"
    BY <1>0, <1>3 DEF StartUpdate, So, OtherSo, TypeInv, TypeOK
  <2>2. Workflow!Start
    BY <2>1 DEF Workflow!Start
  <2> QED
    BY <2>2 DEF Workflow!WfNext
<1>4. CASE RevokeUpdate(r)
  <2>1. /\ doc.exists /\ doc.status # "REVOKED" /\ UNCHANGED <<signers, signatures>>
        /\ doc'.exists /\ doc'.status = "REVOKED"
    BY <1>0, <1>4 DEF RevokeUpdate, So, OtherSo, TypeInv, TypeOK
  <2>2. Workflow!Revoke
    BY <2>1, Mapped DEF Workflow!Revoke
  <2> QED
    BY <2>2 DEF Workflow!WfNext
<1>5. CASE RequestCommit(r)
  <2>1. CASE RequestMayCommit(r)
    BY <1>0, <1>5, <2>1, AskIsSeen DEF Workflow!WfNext
  <2>2. CASE ~RequestMayCommit(r)
    BY <1>5, <2>2, Unseen DEF RequestCommit
  <2> QED
    BY <2>1, <2>2
<1>6. CASE SignCommit(r)
  <2>1. Workflow!Sign(snap[r].user)
    BY <1>0, <1>6, SignIsSeen
  <2>2. snap[r].user \in Users
    BY <1>0, <1>6, BeforeSigning
  <2>3. \E u \in Users : Workflow!Sign(u)
    BY <2>1, <2>2 DEF Workflow!Sign
  <2> QED
    BY <2>3 DEF Workflow!WfNext
<1>7. CASE DeclineCommit(r)
  BY <1>0, <1>7, DeclineIsSeen, DeclineCommitRows DEF Workflow!WfNext
<1>8. CASE DeleteRow(r)
  <2>1. /\ doc.exists /\ doc.status = "DRAFT" /\ ~doc'.exists
        /\ signatures' = {} /\ \A u \in Users : signers'[u] = None
    BY <1>0, <1>8 DEF DeleteRow, So, OtherSo
  <2>2. Workflow!Delete
    BY <2>1 DEF Workflow!Delete, Workflow!NoTurns
  <2> QED
    BY <2>2 DEF Workflow!WfNext
<1> QED
  BY <1>1, <1>2, <1>3, <1>4, <1>5, <1>6, <1>7, <1>8 DEF Step, ReadStep

\* One request at a time, with handlers that fail and a server that stops at
\* any await, no sequence of calls shows the users a step that the workflow
\* does not have.
THEOREM SerialImplementsWorkflow ==
  ASSUME MaxInFlight = 1
  PROVE  Spec => ImplementsWorkflow
<1>1. Init => Workflow!WfInit
  BY DEF Init, Workflow!WfInit, Workflow!NoTurns
<1>2. SerialInv /\ [Next]_vars => [Workflow!WfNext]_(Workflow!wfVars)
  <2>1. ASSUME UNCHANGED vars PROVE UNCHANGED Workflow!wfVars
    BY <2>1, Unseen DEF vars
  <2> QED
    BY <2>1, WorkflowStep DEF SerialInv, Next
<1> QED
  BY <1>1, <1>2, SerialInvariant, PTL DEF Spec, ImplementsWorkflow, Workflow!WfSpec

-----------------------------------------------------------------------------
(* The published file, as long as no request failed *)

Ids == {s.id : s \in signatures}

Drawn(r) == [pages |-> r, sigs |-> {}]

\* The final file is the one hashed, with these signatures and no other.
Recorded ==
  doc.exists /\ doc.final # None => doc.hash.sigs = Ids /\ disk[doc.final] = doc.hash

\* Between the rewriting of a file and that of the row the two differ.
Rewriting == {"requestFinal", "qrUpdate", "signOrder", "signCommit", "deleteRow"}

\* What the handler has read or written, of the files.
FileSo(r, step, s) ==
  /\ step \in {"signQr", "signSave"} /\ signatures # {} => s.source.sigs = Ids
  /\ step \in {"signOrder", "signCommit"} => s.source.sigs = Ids \cup {r}
  /\ step = "requestFinal" => disk["prerendered"] = Drawn(r)
  /\ step = "qrUpdate" => disk["signed"] = Drawn(r)

OwnRecord(r) == (pc[r] \notin Rewriting => Recorded) /\ FileSo(r, pc[r], snap[r])

NoFailure == \A r \in Requests : pc[r] # "failed"

RecordInv ==
  NoFailure =>
    /\ (\A r \in Requests : pc[r] \notin Rewriting) => Recorded
    /\ \A r \in Requests : FileSo(r, pc[r], snap[r])

LEMMA RecordedKept ==
  ASSUME NEW r \in Requests, OwnRecord(r), pc[r] \notin Rewriting,
         UNCHANGED <<signatures, disk>>, doc'.exists = doc.exists,
         doc'.final = doc.final, doc'.hash = doc.hash
  PROVE  Recorded'
BY DEF OwnRecord, Recorded, Ids

\* The steps that neither read nor write a file.
LEMMA FilesUntouched ==
  ASSUME TypeInv, NEW r \in Requests, OwnRecord(r),
         \/ Receive(r) \/ StartUpdate(r) \/ RequestReadExisting(r) \/ RequestReadOmitted(r)
         \/ RequestCommit(r) \/ RequestReadSource(r) \/ SignReadNext(r) \/ SignReadExisting(r)
         \/ SignCountRequired(r) \/ SignCountPending(r) \/ DeclineReadNext(r)
         \/ DeclineCommit(r) \/ QrReadSource(r) \/ RevokeUpdate(r)
  PROVE  OwnRecord(r)'
<1>1. /\ pc[r] \notin Rewriting /\ UNCHANGED <<signatures, disk>>
      /\ doc'.exists = doc.exists /\ doc'.final = doc.final /\ doc'.hash = doc.hash
  BY DEF Receive, StartRead, SignRead, DeclineRead, QrRead, DeleteRead, RequestRead,
         RevokeRead, Arrives, StartUpdate, RequestReadExisting, RequestReadOmitted,
         RequestCommit, RequestReadSource, SignReadNext, ReadNext, SignReadExisting,
         SignCountRequired, SignCountPending, DeclineReadNext, DeclineCommit, QrReadSource,
         RevokeUpdate, Rewriting, TypeInv, TypeOK
<1>2. PICK step \in {"startUpdate", "signExisting", "signNext", "declineNext", "qrSource",
                     "deleteFile", "requestExisting", "revokeUpdate", "done", "requestOmitted",
                     "requestCommit", "requestSource", "requestPreRender", "signCount",
                     "declineCommit", "qrSave"} :
        \E s : Goto(r, step, s)
  BY DEF Receive, StartRead, SignRead, DeclineRead, QrRead, DeleteRead, RequestRead,
         RevokeRead, StartUpdate, RequestReadExisting, RequestReadOmitted,
         RequestCommit, RequestReadSource, SignReadNext, ReadNext, SignReadExisting,
         SignCountRequired, SignCountPending, DeclineReadNext, DeclineCommit, QrReadSource,
         RevokeUpdate, Finish
<1>3. pc'[r] = step
  BY <1>2, GotoOthers
<1>4. Recorded'
  BY <1>1, RecordedKept
<1> QED
  BY <1>2, <1>3, <1>4 DEF OwnRecord, FileSo

LEMMA SignFilesSo ==
  ASSUME TypeInv, RowsInv, NEW r \in Requests, So(r, pc[r], snap[r]), OwnRecord(r),
         SignReadSource(r) \/ SignPlaceQr(r) \/ SignSaveFile(r) \/ SignReadOrder(r)
  PROVE  OwnRecord(r)'
<1> USE NoneIsNoValue DEF FileNames
<1>0. snap[r] \in Snapshot /\ SignSo(r, pc[r], snap[r]) /\ FileSo(r, pc[r], snap[r]) /\ doc.exists
  BY DEF So, OtherSo, TypeInv, TypeOK, OwnRecord, SignReadSource, SignPlaceQr, SignSaveFile,
         SignReadOrder
<1>1. CASE SignReadSource(r)
  <2> DEFINE s == [snap[r] EXCEPT !.source = disk[snap[r].file]]
             step == IF snap[r].qr THEN "signSave" ELSE "signQr"
  <2>1. /\ pc[r] = "signCount" /\ UNCHANGED <<doc, signers, signatures, disk>>
        /\ Goto(r, step, s) \/ Finish(r)
    BY <1>1 DEF SignReadSource
  <2>2. Recorded /\ Recorded'
    BY <2>1, RecordedKept DEF OwnRecord, Rewriting
  <2>3. signatures # {} => s.source.sigs = Ids
    <3>1. signatures # {} => snap[r].file = "signed" /\ doc.final = "signed"
      BY <1>0, <2>1 DEF SignSo, SourceSo, RowsInv, FilesInv
    <3>2. s.source = disk[snap[r].file]
      BY <1>0 DEF Snapshot
    <3> QED
      BY <1>0, <2>2, <3>1, <3>2 DEF Recorded
  <2>4. \/ pc'[r] = "done"
        \/ pc'[r] \in {"signQr", "signSave"} /\ snap'[r] = s
    BY <2>1, GotoOthers DEF Finish
  <2> HIDE DEF s
  <2> QED
    BY <2>1, <2>2, <2>3, <2>4 DEF OwnRecord, FileSo, Ids
<1>2. CASE SignPlaceQr(r)
  <2>1. /\ pc[r] = "signQr" /\ pc'[r] = "signSave" /\ snap'[r] = snap[r]
        /\ UNCHANGED <<signatures, disk>> /\ doc'.exists = doc.exists
        /\ doc'.final = doc.final /\ doc'.hash = doc.hash
    <3>1. pc[r] = "signQr" /\ Goto(r, "signSave", snap[r]) /\ UNCHANGED <<signatures, disk>>
          /\ doc' = [doc EXCEPT !.qr = TRUE]
      BY <1>0, <1>2 DEF SignPlaceQr
    <3>2. pc'[r] = "signSave" /\ snap'[r] = snap[r]
      BY <3>1, GotoOthers
    <3>3. doc'.exists = doc.exists /\ doc'.final = doc.final /\ doc'.hash = doc.hash
      BY <3>1 DEF TypeInv, TypeOK
    <3> QED
      BY <3>1, <3>2, <3>3
  <2>2. Recorded'
    BY <2>1, RecordedKept DEF Rewriting
  <2> QED
    BY <1>0, <2>1, <2>2 DEF OwnRecord, FileSo, Ids
<1>3. CASE SignSaveFile(r)
  <2> DEFINE s == [snap[r] EXCEPT !.source = SignedContent(r)]
  <2>1. pc[r] = "signSave" /\ pc'[r] = "signOrder" /\ snap'[r] = s /\ UNCHANGED signatures
    BY <1>3, GotoOthers DEF SignSaveFile
  <2>2. s.source = SignedContent(r)
    BY <1>0 DEF Snapshot
  <2>3. snap[r].source \in Content
    BY <2>1 DEF TypeInv, ReadBeforeUse, Ready
  <2>4. CASE signatures = {}
    <3>1. snap[r].unsigned
      BY <1>0, <2>1, <2>4 DEF SignSo
    <3>2. SignedContent(r).sigs = {r} /\ Ids = {}
      BY <2>4, <3>1 DEF SignedContent, Ids
    <3> QED
      BY <2>1, <2>2, <3>2 DEF OwnRecord, FileSo, Rewriting, Ids
  <2>5. CASE signatures # {}
    <3>1. ~snap[r].unsigned
      BY <1>0, <2>1, <2>5 DEF SignSo
    <3>2. SignedContent(r).sigs = Ids \cup {r}
      BY <1>0, <2>1, <2>3, <2>5, <3>1 DEF SignedContent, FileSo, Content
    <3> QED
      BY <2>1, <2>2, <3>2 DEF OwnRecord, FileSo, Rewriting, Ids
  <2> QED
    BY <2>4, <2>5
<1>4. CASE SignReadOrder(r)
  <2>1. PICK n : Goto(r, "signCommit", [snap[r] EXCEPT !.last = n])
    BY <1>4 DEF SignReadOrder
  <2>2. /\ pc[r] = "signOrder" /\ pc'[r] = "signCommit" /\ snap'[r].source = snap[r].source
        /\ UNCHANGED signatures
    BY <1>0, <1>4, <2>1, GotoOthers DEF SignReadOrder, Snapshot
  <2> QED
    BY <1>0, <2>2 DEF OwnRecord, FileSo, Rewriting, Ids
<1> QED
  BY <1>1, <1>2, <1>3, <1>4

\* The writes of the final file and of its name and hash.
LEMMA FinalWritesSo ==
  ASSUME TypeInv, RowsInv, NEW r \in Requests, So(r, pc[r], snap[r]), OwnRecord(r),
         \/ RequestPreRender(r) \/ RequestUpdateFinal(r) \/ QrSaveFile(r) \/ QrUpdate(r)
         \/ SignCommit(r) \/ DeleteFile(r) \/ DeleteRow(r)
  PROVE  OwnRecord(r)'
<1> USE DEF FileNames
<1>1. CASE RequestPreRender(r)
  <2>1. pc'[r] = "requestFinal" /\ disk'["prerendered"] = Drawn(r)
    BY <1>1, GotoOthers DEF RequestPreRender, Drawn, TypeInv, TypeOK
  <2> QED
    BY <2>1 DEF OwnRecord, FileSo, Rewriting
<1>2. CASE RequestUpdateFinal(r)
  <2>1. /\ pc[r] = "requestFinal" /\ pc'[r] = "done" /\ UNCHANGED <<signatures, disk>>
        /\ doc' = [doc EXCEPT !.final = "prerendered", !.qr = TRUE, !.hash = Drawn(r)]
    BY <1>2, GotoOthers DEF RequestUpdateFinal, Drawn, Finish, So, OtherSo
  <2>2. /\ doc'.final = "prerendered" /\ doc'.hash = Drawn(r) /\ Drawn(r).sigs = {}
        /\ disk["prerendered"] = Drawn(r) /\ signatures = {}
    BY <2>1 DEF OwnRecord, FileSo, So, RequestSo, Drawn, TypeInv, TypeOK
  <2>3. Ids' = {}
    BY <2>1, <2>2 DEF Ids
  <2> QED
    BY <2>1, <2>2, <2>3 DEF OwnRecord, FileSo, Recorded
<1>3. CASE QrSaveFile(r)
  <2>1. pc'[r] = "qrUpdate" /\ disk'["signed"] = Drawn(r)
    BY <1>3, GotoOthers DEF QrSaveFile, Drawn, TypeInv, TypeOK
  <2> QED
    BY <2>1 DEF OwnRecord, FileSo, Rewriting
<1>4. CASE QrUpdate(r)
  <2>1. /\ pc[r] = "qrUpdate" /\ pc'[r] = "done" /\ UNCHANGED <<signatures, disk>>
        /\ doc' = [doc EXCEPT !.final = "signed", !.qr = TRUE, !.hash = Drawn(r)]
    BY <1>4, GotoOthers DEF QrUpdate, Drawn, Finish, So, OtherSo
  <2>2. /\ doc'.final = "signed" /\ doc'.hash = Drawn(r) /\ Drawn(r).sigs = {}
        /\ disk["signed"] = Drawn(r) /\ signatures = {}
    BY <2>1 DEF OwnRecord, FileSo, So, OtherSo, Drawn, TypeInv, TypeOK
  <2>3. Ids' = {}
    BY <2>1, <2>2 DEF Ids
  <2> QED
    BY <2>1, <2>2, <2>3 DEF OwnRecord, FileSo, Recorded
<1>5. CASE SignCommit(r)
  <2> DEFINE new == [id |-> r, signer |-> snap[r].user, order |-> NextOrder(r)]
  <2>1. /\ signatures' = signatures \cup {new}
        /\ doc'.final = "signed" /\ doc'.hash = snap[r].source /\ UNCHANGED disk
    BY <1>5, SignedRows
  <2>2. pc[r] = "signCommit" /\ pc'[r] = "done"
    BY <1>5, GotoOthers DEF SignCommit, Finish
  <2>3. disk["signed"] = snap[r].source /\ snap[r].source.sigs = Ids \cup {r}
    BY <2>2 DEF OwnRecord, FileSo, So, SignSo, SourceSo
  <2>4. Ids' = Ids \cup {r}
    <3>1. new.id = r
      OBVIOUS
    <3> HIDE DEF new
    <3> QED
      BY <2>1, <3>1 DEF Ids
  <2> QED
    BY <2>1, <2>2, <2>3, <2>4 DEF OwnRecord, FileSo, Recorded
<1>6. CASE DeleteFile(r)
  <2>1. pc'[r] = "deleteRow"
    BY <1>6, GotoOthers DEF DeleteFile
  <2> QED
    BY <2>1 DEF OwnRecord, FileSo, Rewriting
<1>7. CASE DeleteRow(r)
  <2>1. pc'[r] = "done" /\ ~doc'.exists
    BY <1>7, GotoOthers DEF DeleteRow, Finish
  <2> QED
    BY <2>1 DEF OwnRecord, FileSo, Recorded
<1> QED
  BY <1>1, <1>2, <1>3, <1>4, <1>5, <1>6, <1>7

LEMMA RecordStep ==
  ASSUME SerialInv, RecordInv, MaxInFlight = 1,
         NEW r \in Requests, Receive(r) \/ Step(r) \/ Fail(r)
  PROVE  RecordInv'
<1> SUFFICES ASSUME NoFailure'
             PROVE  /\ (\A q \in Requests : pc'[q] \notin Rewriting) => Recorded'
                    /\ \A q \in Requests : FileSo(q, pc[q], snap[q])'
  BY DEF RecordInv
<1>1. \A q \in Requests \ {r} : pc[q] \in {"idle", "done", "failed"} /\ pc'[q] = pc[q]
  BY OthersWait DEF SerialInv
<1>2. pc[r] # "failed" /\ ~Fail(r)
  <2>1. ~Fail(r)
    BY GotoOthers DEF Fail, NoFailure, SerialInv
  <2>2. pc[r] # "failed"
    <3>1. Receive(r) => pc[r] = "idle"
      BY DEF Receive, StartRead, SignRead, DeclineRead, QrRead, DeleteRead, RequestRead,
             RevokeRead, Arrives
    <3>2. Step(r) => pc[r] # "failed"
      BY StepIsInFlight DEF InFlight
    <3> QED
      BY <2>1, <3>1, <3>2
  <2> QED
    BY <2>1, <2>2
<1>3. NoFailure
  BY <1>1, <1>2 DEF NoFailure
<1>4. OwnRecord(r)
  BY <1>1, <1>3 DEF RecordInv, OwnRecord, Rewriting
<1>5. So(r, pc[r], snap[r]) /\ TypeInv /\ RowsInv
  BY DEF SerialInv, StillSo
<1>6. OwnRecord(r)'
  BY <1>2, <1>4, <1>5, FilesUntouched, SignFilesSo, FinalWritesSo DEF Step
<1>7. \A q \in Requests \ {r} : FileSo(q, pc[q], snap[q])'
  BY <1>1 DEF FileSo
<1> QED
  BY <1>6, <1>7 DEF OwnRecord

\* One request at a time, and as long as none failed, the file the document
\* points to is the one whose hash it publishes, with the signatures the
\* database lists and no other.
THEOREM SerialFileIsRecorded ==
  ASSUME MaxInFlight = 1
  PROVE  Spec => []FinalFileIsRecorded
<1>1. Init => RecordInv
  BY DEF Init, RecordInv, Recorded, FileSo
<1>2. SerialInv /\ RecordInv /\ [Next]_vars => RecordInv'
  <2>1. ASSUME RecordInv, UNCHANGED vars PROVE RecordInv'
    BY <2>1 DEF RecordInv, NoFailure, Recorded, FileSo, Ids, vars
  <2> QED
    BY <2>1, RecordStep DEF Next
<1>3. SerialInv /\ RecordInv => FinalFileIsRecorded
  <2> SUFFICES ASSUME SerialInv, RecordInv PROVE FinalFileIsRecorded
    OBVIOUS
  <2>1. FinalFileHasAllSignatures
    BY DEF SerialInv, RowsInv, FilesInv, Carries, FinalFileHasAllSignatures
  <2>2. Undisturbed => Recorded
    BY DEF RecordInv, Undisturbed, NoFailure, Rewriting
  <2> QED
    BY <2>1, <2>2 DEF FinalFileIsRecorded, Recorded, Ids
<1> QED
  BY <1>1, <1>2, <1>3, SerialInvariant, PTL DEF Spec

-----------------------------------------------------------------------------
(* What the users are shown *)

\* Of the pending signers one has the lowest order.
LEMMA SomeoneIsFirst ==
  ASSUME TypeInv, RowsInv, PendingUsers # {}
  PROVE  \E u \in PendingUsers : \A v \in PendingUsers :
           v = u \/ signers[u].order < signers[v].order
<1> DEFINE Before(u) == {v \in PendingUsers : signers[v].order < signers[u].order}
           T == {Before(u) : u \in PendingUsers}
<1>1. PendingUsers \subseteq Users /\ \A u \in PendingUsers : signers[u].order \in Nat
  BY DEF PendingUsers, TypeInv, TypeOK, SignerRow
<1>2. FiniteSubsetsOf(Users) = SUBSET Users
  BY SigningAssumption, FS_FiniteSubsetsOfFinite
<1>3. T \subseteq FiniteSubsetsOf(Users) /\ T # {}
  <2>1. \A u \in PendingUsers : Before(u) \in SUBSET Users
    BY <1>1
  <2> HIDE DEF Before
  <2> QED
    BY <1>2, <2>1
<1>4. \E x \in T : \A y \in T : ~ (<<y, x>> \in StrictSubsetOrdering(Users))
  <2>1. IsWellFoundedOn(StrictSubsetOrdering(Users), FiniteSubsetsOf(Users))
    BY FS_StrictSubsetOrderingWellFounded
  <2> HIDE DEF T
  <2> QED
    BY <1>3, <2>1, WFMin
<1>5. PICK u \in PendingUsers :
        \A v \in PendingUsers : <<Before(v), Before(u)>> \notin StrictSubsetOrdering(Users)
  BY <1>4
<1>6. ASSUME NEW v \in PendingUsers, signers[v].order < signers[u].order PROVE FALSE
  <2>1. v \in Before(u) /\ v \notin Before(v)
    BY <1>1, <1>6
  <2>2. Before(v) \subseteq Before(u) /\ Before(u) \subseteq Users
    BY <1>1, <1>6
  <2> HIDE DEF Before
  <2>3. <<Before(v), Before(u)>> \in StrictSubsetOrdering(Users)
    BY <2>1, <2>2 DEF StrictSubsetOrdering
  <2> QED
    BY <1>5, <2>3
<1>7. \A v \in PendingUsers : v = u \/ signers[u].order # signers[v].order
  BY DEF PendingUsers, RowsInv, OrdersDiffer, AskedUsers
<1> QED
  BY <1>1, <1>6, <1>7

\* As long as the document is open its signers are pending or have signed.
LEMMA PendingOrSigned ==
  ASSUME TypeInv, RowsInv, doc.status # "REVOKED"
  PROVE  /\ PendingUsers = AskedUsers \ SignedUsers
         /\ \A u \in AskedUsers : u \in SignedUsers <=> signers[u].status = "SIGNED"
<1>1. \A u \in AskedUsers : u \in Users /\ signers[u].status \in {"PENDING", "SIGNED"}
  BY DEF RowsInv, DeclinedIsRevoked, AskedUsers, TypeInv, TypeOK, SignerRow
<1> QED
  BY <1>1 DEF PendingUsers, AskedUsers, SignedUsers

\* The bell rings for those whose turn it is.
LEMMA BellRingsInTurn ==
  ASSUME TypeInv, RowsInv, SignedRowHasSignature
  PROVE  SignRequired = {u \in Users : Workflow!Open /\ Workflow!MyTurn(u)}
<1> DEFINE InTurn(u) == /\ u \in AskedUsers \ SignedUsers
                        /\ \A v \in AskedUsers : signers[v].order < signers[u].order =>
                             v \in SignedUsers
<1>1. \A u \in AskedUsers : u \in Users /\ signers[u].order \in Nat
  BY Mapped DEF AskedUsers
<1>2. \A u \in Users : Workflow!MyTurn(u) <=> InTurn(u)
  BY <1>1, Mapped DEF Workflow!MyTurn, AskedUsers
<1>3. ASSUME NEW u \in Users
      PROVE  u \in SignRequired <=> doc.exists /\ doc.status # "REVOKED" /\ InTurn(u)
  <2>1. ASSUME u \in SignRequired PROVE doc.exists /\ doc.status # "REVOKED" /\ InTurn(u)
    <3>1. doc.exists /\ doc.status # "REVOKED" /\ u \in AskedUsers \ SignedUsers
      BY <2>1, PendingOrSigned DEF SignRequired, AwaitingStatuses
    <3>2. ASSUME NEW v \in AskedUsers, signers[v].order < signers[u].order
          PROVE  v \in SignedUsers
      <4>1. v # u /\ ~(signers[v].order >= signers[u].order)
        BY <1>1, <3>1, <3>2
      <4>2. signers[v].status = "SIGNED"
        BY <2>1, <4>1 DEF SignRequired
      <4> QED
        BY <3>1, <4>2, PendingOrSigned
    <3> QED
      BY <3>1, <3>2
  <2>2. ASSUME doc.exists, doc.status # "REVOKED", InTurn(u) PROVE u \in SignRequired
    <3>1. u \in PendingUsers
      BY <2>2, PendingOrSigned
    <3>2. doc.status \in AwaitingStatuses
      BY <2>2 DEF AwaitingStatuses, RowsInv, DraftIsEmpty, StatusMatchesSigners, AskedUsers,
                  TypeInv, TypeOK, Statuses
    <3>3. ASSUME NEW v \in AskedUsers
          PROVE  v = u \/ signers[v].order >= signers[u].order \/ signers[v].status = "SIGNED"
      <4>1. signers[v].order < signers[u].order => signers[v].status = "SIGNED"
        BY <2>2, PendingOrSigned
      <4> QED
        BY <1>1, <2>2, <4>1
    <3> QED
      BY <2>2, <3>1, <3>2, <3>3 DEF SignRequired
  <2> QED
    BY <2>1, <2>2
<1> HIDE DEF InTurn
<1>4. \A u \in Users : u \in SignRequired <=> Workflow!Open /\ Workflow!MyTurn(u)
  BY <1>2, <1>3, Mapped
<1>5. SignRequired \subseteq Users
  BY DEF SignRequired, PendingUsers
<1> QED
  BY <1>4, <1>5

\* While the document waits it rings for one signer.
LEMMA BellRings ==
  ASSUME TypeInv, RowsInv, SignedRowHasSignature, doc.exists, AskedUsers # {},
         doc.status \in {"PENDING_SIGNATURES", "PARTIALLY_SIGNED"}
  PROVE  Cardinality(SignRequired) = 1
<1>1. PendingUsers # {}
  <2>1. CASE doc.status = "PENDING_SIGNATURES"
    <3>1. SignedUsers = {}
      BY <2>1, UnsignedStatus DEF RowsInv, StatusMatchesSigners
    <3> QED
      BY <2>1, <3>1, PendingOrSigned
  <2>2. CASE doc.status = "PARTIALLY_SIGNED"
    BY <2>2 DEF RowsInv, StatusMatchesSigners
  <2> QED
    BY <2>1, <2>2
<1>2. PICK u \in PendingUsers : \A v \in PendingUsers :
        v = u \/ signers[u].order < signers[v].order
  BY <1>1, SomeoneIsFirst
<1>3. /\ PendingUsers = AskedUsers \ SignedUsers
      /\ \A v \in AskedUsers : v \in SignedUsers <=> signers[v].status = "SIGNED"
  BY PendingOrSigned
<1>4. \A v \in AskedUsers : signers[v].order \in Nat
  BY Mapped
<1>5. u \in SignRequired
  <2>1. ASSUME NEW v \in AskedUsers
        PROVE  v = u \/ signers[v].order >= signers[u].order \/ signers[v].status = "SIGNED"
    BY <1>2, <1>3, <1>4
  <2> QED
    BY <2>1 DEF SignRequired, AwaitingStatuses
<1>6. ASSUME NEW w \in SignRequired PROVE w = u
  <2>1. w \in PendingUsers /\ (u = w \/ signers[u].order >= signers[w].order
                                     \/ signers[u].status = "SIGNED")
    BY <1>2, <1>3, <1>6 DEF SignRequired
  <2> QED
    BY <1>2, <1>3, <1>4, <2>1
<1>7. SignRequired = {u}
  BY <1>5, <1>6
<1> QED
  BY <1>7, FS_Singleton

\* Whoever follows the bell finds the document, with a button to sign.
LEMMA BellLeadsToTheButton ==
  ASSUME TypeInv, RowsInv, NEW u \in SignRequired
  PROVE  CanAct(u)
<1>1. /\ doc.exists /\ doc.status \in {"PENDING_SIGNATURES", "PARTIALLY_SIGNED"}
      /\ u \in Users /\ u \in AskedUsers /\ signers[u].status = "PENDING"
  BY DEF SignRequired, PendingUsers, AwaitingStatuses, AskedUsers
<1>2. HasAccess(u) /\ CanSignCertification(u)
  BY <1>1 DEF HasAccess, CanSignCertification
<1>3. IsAssignmentActionable(u)
  <2>1. [signerStatus |-> signers[u].status, document |-> doc.status] \in Assignments(u)
    BY <1>1 DEF Assignments
  <2> QED
    BY <1>1, <2>1 DEF IsAssignmentActionable
<1>4. Cardinality(AskedUsers) # 0
  <2>1. IsFiniteSet(AskedUsers)
    <3>1. AskedUsers \in SUBSET Users
      BY DEF AskedUsers
    <3> QED
      BY <3>1, SigningAssumption, FS_Subset
  <2> QED
    BY <1>1, <2>1, FS_EmptySet
<1>5. /\ u = Owner => CanShowSignAction(u) /\ ActionHref(u) = "review"
      /\ u # Owner => ActionHref(u) = "assigned"
  BY <1>1, <1>2, <1>4
  DEF CanShowSignAction, Placeholders, ActionHref, MyDocument, NextCertificationStep
<1> QED
  BY <1>2, <1>3, <1>5 DEF CanAct

\* The page counts as many signatures as signers that signed.
LEMMA CountsAgree ==
  ASSUME TypeInv, RowsInv, SignedRowHasSignature
  PROVE  Cardinality(signatures) = Cardinality(SignedUsers)
<1> DEFINE f == [u \in SignedUsers |-> CHOOSE s \in signatures : s.signer = u]
<1>1. \A u \in SignedUsers : \E s \in signatures : s.signer = u
  BY DEF SignedRowHasSignature, SignedUsers
<1>2. \A u \in SignedUsers : f[u] \in signatures /\ f[u].signer = u
  BY <1>1
<1>3. ASSUME NEW s \in signatures PROVE s.signer \in SignedUsers /\ f[s.signer] = s
  <2>1. s.signer \in SignedUsers
    BY DEF RowsInv, OneSignaturePerSigner
  <2> HIDE DEF f
  <2> QED
    BY <1>2, <2>1 DEF RowsInv, OneSignatureEach
<1>4. f \in [SignedUsers -> signatures]
  BY <1>2
<1> HIDE DEF f
<1>5. f \in Injection(SignedUsers, signatures)
  BY <1>2, <1>4 DEF Injection, IsInjective
<1>6. f \in Surjection(SignedUsers, signatures)
  BY <1>3, <1>4 DEF Surjection
<1>7. ExistsBijection(SignedUsers, signatures)
  BY <1>5, <1>6 DEF ExistsBijection, Bijection
<1>8. IsFiniteSet(SignedUsers)
  <2>1. SignedUsers \in SUBSET Users
    BY DEF SignedUsers
  <2> QED
    BY <2>1, SigningAssumption, FS_Subset
<1> QED
  BY <1>7, <1>8, FS_Bijection

\* The signed and the latest version of a signed document are the signed file.
LEMMA SignedFileIsServed ==
  ASSUME RowsInv, signatures # {}
  PROVE  /\ FileOf("signed") = {"signed"} /\ FileOf("latest") = {"signed"}
         /\ Carries(disk["signed"]) /\ doc.final = "signed"
<1>1. doc.final = "signed" /\ Carries(doc.hash) /\ Carries(disk["signed"])
  BY DEF RowsInv, FilesInv
<1>2. doc.final # None /\ doc.hash # None /\ disk["signed"] # None
  BY <1>1, NoneIsNoValue DEF Carries, FileNames
<1>3. FileOf("signed") = {"signed"}
  BY <1>1, <1>2 DEF FileOf
<1>4. FileOf("latest") = {"signed"}
  BY <1>1, <1>2 DEF FileOf, ResolveDocumentPath
<1> QED
  BY <1>1, <1>3, <1>4

LEMMA NoticesAreTrue ==
  ASSUME TypeInv, RowsInv, SignedRowHasSignature
  PROVE  NoticeIsTrue
<1> USE NoneIsNoNotice DEF Notices
<1>1. ASSUME OwnerNotice = "DOCUMENT_FINAL"
      PROVE  /\ Progress.signed = Progress.signers
             /\ MyDocument(Owner).finalFileName \in FileOf("signed")
  <2>1. doc.status = "FULLY_SIGNED"
    BY <1>1 DEF OwnerNotice
  <2>2. signatures # {} /\ AskedUsers = SignedUsers
    BY <2>1 DEF RowsInv, StatusMatchesSigners, AskedUsers, SignedUsers
  <2>3. MyDocument(Owner).finalFileName = "signed" /\ FileOf("signed") = {"signed"}
    BY <2>2, SignedFileIsServed DEF MyDocument
  <2> QED
    BY <2>2, <2>3 DEF Progress
<1>2. DeclinedUsers # {} => doc.exists /\ doc.status = "REVOKED"
  BY DEF DeclinedUsers, RowsInv, DeclinedIsRevoked, DraftIsEmpty
<1>3. OwnerNotice = "DOCUMENT_DECLINED" => DeclinedUsers # {}
  BY DEF OwnerNotice
<1>4. DeclinedUsers # {} => OwnerNotice = "DOCUMENT_DECLINED"
  BY <1>2 DEF OwnerNotice
<1>5. doc.status = "REVOKED" => SignRequired = {}
  BY DEF SignRequired, AwaitingStatuses
<1>6. Progress.signatures = Progress.signed
  BY CountsAgree DEF Progress
<1> QED
  BY <1>1, <1>2, <1>3, <1>4, <1>5, <1>6 DEF NoticeIsTrue

\* One request at a time, the bell rings for exactly those whose turn it is,
\* one of them while the document waits, and leads to a button to sign; and
\* what the owner is told is what happened.
THEOREM SerialViewsAgree ==
  ASSUME MaxInFlight = 1
  PROVE  Spec => []ViewsAgree
<1>1. SerialInv => ViewsAgree
  BY BellRingsInTurn, BellRings, BellLeadsToTheButton, NoticesAreTrue
  DEF SerialInv, ViewsAgree, TurnIsShown
<1> QED
  BY <1>1, SerialInvariant, PTL

\* One request at a time, whatever failed before, each signer can read the
\* document, and the file sent as its signed version has every signature.
THEOREM SerialServedFile ==
  ASSUME MaxInFlight = 1
  PROVE  Spec => []ServedFileHasAllSignatures
<1>1. SerialInv => ServedFileHasAllSignatures
  <2> SUFFICES ASSUME SerialInv, NEW s \in signatures
               PROVE  /\ HasAccess(s.signer) /\ FileOf("signed") # {}
                      /\ \A f \in FileOf("signed") \cup FileOf("latest") : s.id \in disk[f].sigs
    BY DEF ServedFileHasAllSignatures
  <2>1. FileOf("signed") = {"signed"} /\ FileOf("latest") = {"signed"} /\ Carries(disk["signed"])
    BY SignedFileIsServed DEF SerialInv
  <2>2. doc.exists /\ s.signer \in AskedUsers
    BY DEF SerialInv, RowsInv, DraftIsEmpty, OneSignaturePerSigner, SignedUsers, AskedUsers
  <2> QED
    BY <2>1, <2>2 DEF HasAccess, Carries
<1> QED
  BY <1>1, SerialInvariant, PTL
==============================================================================
