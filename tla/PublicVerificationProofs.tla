---------------------- MODULE PublicVerificationProofs ----------------------
(***************************************************************************)
(* Theorems about what is stored: about the registry contract, for every   *)
(* set of accounts, hashes and every number of blocks; about the two       *)
(* public pages in front of it, for every set of files, PDFs, nodes and    *)
(* replicas; and about the files on the disk of the server, for every set  *)
(* of users, names and requests.  The last share no state with the others. *)
(***************************************************************************)
EXTENDS PublicVerification, Files, FiniteSetTheorems, SequenceTheorems, WellFoundedInduction,
        TLAPS

-----------------------------------------------------------------------------
(* The registry contract *)

\* The contract's storage is well typed (constructor, setIssuer,
\* registerDocument, revokeDocument).
THEOREM RegistryTypes == RegSpec => []RegTypeOK
<1>1. Constructor => RegTypeOK
  BY RegistryAssumption
  DEF Constructor, RegTypeOK, EmptyRecord, DocumentRecord
<1>2. RegTypeOK /\ [RegNext]_regVars => RegTypeOK'
  <2> SUFFICES ASSUME RegTypeOK, [RegNext]_regVars PROVE RegTypeOK'
    OBVIOUS
  <2>1. CASE NextBlock
    BY <2>1 DEF RegTypeOK, NextBlock
  <2>2. ASSUME NEW sender \in Accounts, NEW a \in Accounts, NEW allowed \in BOOLEAN,
               SetIssuer(sender, a, allowed)
        PROVE RegTypeOK'
    BY <2>2 DEF RegTypeOK, SetIssuer
  <2>3. ASSUME NEW sender \in Accounts, NEW h \in Hashes, NEW cid \in Cids,
               RegisterDocument(sender, h, cid)
        PROVE RegTypeOK'
    BY <2>3 DEF RegTypeOK, RegisterDocument, EmptyRecord, DocumentRecord
  <2>4. ASSUME NEW sender \in Accounts, NEW h \in Hashes, NEW reason \in Reasons,
               RevokeDocument(sender, h, reason)
        PROVE RegTypeOK'
    <3>1. recordsByHash[h] \in DocumentRecord
      BY DEF RegTypeOK
    <3>2. [recordsByHash[h] EXCEPT !.revoked = TRUE, !.revokedAt = now,
                                   !.revokeReasonHash = reason] \in DocumentRecord
      BY <3>1 DEF RegTypeOK, DocumentRecord
    <3> QED
      BY <2>4, <3>2 DEF RegTypeOK, RevokeDocument
  <2>5. CASE UNCHANGED regVars
    BY <2>5 DEF RegTypeOK, regVars
  <2> QED
    BY <2>1, <2>2, <2>3, <2>4, <2>5 DEF RegNext, Transact
<1> QED
  BY <1>1, <1>2, PTL DEF RegSpec

\* A revocation never precedes, and never lacks, its registration.
THEOREM RevocationOrder == RegSpec => []RevocationFollowsRegistration
<1>1. Constructor => RevocationFollowsRegistration
  BY RegistryAssumption
  DEF Constructor, RevocationFollowsRegistration, InOrder, EmptyRecord
<1>2. RegTypeOK /\ RevocationFollowsRegistration /\ [RegNext]_regVars
        => RevocationFollowsRegistration'
  <2> SUFFICES ASSUME RegTypeOK, RevocationFollowsRegistration, [RegNext]_regVars,
                      NEW k \in Hashes
               PROVE  InOrder(recordsByHash'[k], now')
    BY DEF RevocationFollowsRegistration
  <2> DEFINE rec == recordsByHash[k]
  <2>0. rec \in DocumentRecord /\ now \in Nat /\ InOrder(rec, now)
    BY DEF RegTypeOK, RevocationFollowsRegistration
  <2>1. CASE recordsByHash'[k] = rec /\ now' \in {now, now + 1}
    BY <2>0, <2>1 DEF InOrder, DocumentRecord
  <2>2. ASSUME NEW sender \in Accounts, NEW cid \in Cids, RegisterDocument(sender, k, cid)
        PROVE  InOrder(recordsByHash'[k], now')
    <3>1. /\ now' = now
          /\ recordsByHash'[k] = [EmptyRecord EXCEPT !.ipfsCid = cid, !.issuer = sender,
                                    !.issuedAt = now, !.exists = TRUE]
      BY <2>2 DEF RegisterDocument, RegTypeOK
    <3> QED
      BY <2>0, <3>1 DEF InOrder, EmptyRecord
  <2>3. ASSUME NEW sender \in Accounts, NEW reason \in Reasons,
               RevokeDocument(sender, k, reason)
        PROVE  InOrder(recordsByHash'[k], now')
    <3>1. /\ now' = now /\ rec.exists /\ reason # Unset
          /\ recordsByHash'[k] = [rec EXCEPT !.revoked = TRUE, !.revokedAt = now,
                                             !.revokeReasonHash = reason]
      BY <2>3, RegistryAssumption DEF RevokeDocument, RegTypeOK, Revocable
    <3> QED
      BY <2>0, <3>1 DEF InOrder, DocumentRecord
  <2>4. ASSUME NEW sender \in Accounts, NEW h \in Hashes, k # h,
               \/ \E cid \in Cids : RegisterDocument(sender, h, cid)
               \/ \E reason \in Reasons : RevokeDocument(sender, h, reason)
        PROVE  recordsByHash'[k] = rec /\ now' = now
    BY <2>4 DEF RegisterDocument, RevokeDocument, RegTypeOK
  <2>5. CASE NextBlock \/ UNCHANGED regVars
             \/ \E sender \in Accounts, a \in Accounts, allowed \in BOOLEAN :
                  SetIssuer(sender, a, allowed)
    BY <2>1, <2>5 DEF NextBlock, SetIssuer, regVars
  <2> QED
    BY <2>1, <2>2, <2>3, <2>4, <2>5 DEF RegNext, Transact
<1> QED
  BY <1>1, <1>2, RegistryTypes, PTL DEF RegSpec

\* What a transaction leaves of a record.
LEMMA LedgerStep ==
  ASSUME RegTypeOK, RevocationFollowsRegistration, [RegNext]_regVars
  PROVE  LedgerGrows
<1> SUFFICES ASSUME NEW k \in Hashes
             PROVE  LET rec == recordsByHash[k] new == recordsByHash'[k] IN
                      /\ rec.exists =>
                           /\ new.exists
                           /\ new.ipfsCid = rec.ipfsCid /\ new.issuer = rec.issuer
                           /\ new.issuedAt = rec.issuedAt
                      /\ rec.revoked => new = rec
  BY DEF LedgerGrows
<1>0. recordsByHash[k] \in DocumentRecord
  BY DEF RegTypeOK
<1>1. CASE recordsByHash' = recordsByHash
  BY <1>1
<1>2. ASSUME NEW sender \in Accounts, NEW h \in Hashes, NEW cid \in Cids,
             RegisterDocument(sender, h, cid)
      PROVE  \/ recordsByHash'[k] = recordsByHash[k]
             \/ ~recordsByHash[k].exists /\ ~recordsByHash[k].revoked
  BY <1>2 DEF RegisterDocument, NeverRecorded, RegTypeOK,
     RevocationFollowsRegistration, InOrder
<1>3. ASSUME NEW sender \in Accounts, NEW h \in Hashes, NEW reason \in Reasons,
             RevokeDocument(sender, h, reason)
      PROVE  \/ recordsByHash'[k] = recordsByHash[k]
             \/ /\ ~recordsByHash[k].revoked
                /\ recordsByHash'[k] = [recordsByHash[k] EXCEPT !.revoked = TRUE,
                     !.revokedAt = now, !.revokeReasonHash = reason]
  BY <1>3 DEF RevokeDocument, Revocable, RegTypeOK
<1>4. CASE \E sender \in Accounts, h \in Hashes, cid \in Cids :
             RegisterDocument(sender, h, cid)
  BY <1>2, <1>4
<1>5. CASE \E sender \in Accounts, h \in Hashes, reason \in Reasons :
             RevokeDocument(sender, h, reason)
  BY <1>0, <1>3, <1>5 DEF DocumentRecord
<1> QED
  BY <1>1, <1>4, <1>5 DEF RegNext, Transact, NextBlock, SetIssuer, regVars

\* No transaction rewrites a registration or takes back a revocation.
THEOREM LedgerIsAppendOnly == RegSpec => LedgerAppendOnly
<1>1. RegTypeOK /\ RevocationFollowsRegistration /\ [RegNext]_regVars => [LedgerGrows]_regVars
  BY LedgerStep
<1> QED
  BY <1>1, RegistryTypes, RevocationOrder, PTL DEF RegSpec, LedgerAppendOnly

-----------------------------------------------------------------------------
(* The nodes and the replicas *)

\* Without the only element that is equal to e.
LEMMA RemovedAt ==
  ASSUME NEW S, NEW s \in Seq(S), IsInjective(s), NEW i \in 1..Len(s), NEW e, s[i] = e
  PROVE  RemoveFirst(s, e) = SubSeq(s, 1, i - 1) \o SubSeq(s, i + 1, Len(s))
<1> DEFINE I == {j \in 1..Len(s) : s[j] = e}
<1>1. I = {i}
  <2>1. DOMAIN s = 1..Len(s)
    OBVIOUS
  <2> QED BY <2>1 DEF IsInjective
<1>2. RemoveFirst(s, e) = RemoveAt(s, IF I # {} THEN Min(I) ELSE 0)
  BY DEF RemoveFirst, SelectInSeq
<1>3. Min({i}) = i
  BY DEF Min
<1> QED BY <1>1, <1>2, <1>3 DEF RemoveAt

\* Every node that may be written is one, and every replica is written.
LEMMA ApiUrlsAreNodes ==
  /\ ApiUrls \in Seq(Nodes) /\ Len(ApiUrls) \in Nat
  /\ \A i \in 1..Len(ApiUrls) : ApiUrls[i] \in Nodes
  /\ Range(Replicas) \subseteq Range(ApiUrls)
<1>0. Replicas \in Seq(Nodes) /\ IsInjective(Replicas) /\ Primary \in Nodes \cup {None}
  BY IpfsAssumption
<1>1. DOMAIN Replicas = 1..Len(Replicas) /\ Len(Replicas) \in Nat
  BY <1>0
<1>2. ASSUME Primary # None PROVE ApiUrls \in Seq(Nodes) /\ Range(Replicas) \subseteq Range(ApiUrls)
  <2> DEFINE others == RemoveFirst(Replicas, Primary)
  <2>1. others \in Seq(Nodes) /\ Range(Replicas) \ {Primary} \subseteq Range(others)
    <3>1. ASSUME NEW i \in 1..Len(Replicas), Replicas[i] = Primary
          PROVE  others \in Seq(Nodes) /\ Range(Replicas) \ {Primary} \subseteq Range(others)
      <4> DEFINE left == SubSeq(Replicas, 1, i - 1)
      <4> DEFINE right == SubSeq(Replicas, i + 1, Len(Replicas))
      <4>2. others = left \o right
        BY <1>0, <3>1, RemovedAt
      <4>0. i \in Int /\ Len(Replicas) \in Int /\ 1 <= i /\ i <= Len(Replicas)
            /\ \A j \in 1..Len(Replicas) : Replicas[j] \in Nodes
        BY <1>0, <1>1
      <4>3. /\ left \in Seq(Nodes) /\ Len(left) = i - 1
            /\ \A j \in 1..(i - 1) : left[j] = Replicas[j]
        BY <4>0, SubSeqProperties
      <4>4. /\ right \in Seq(Nodes) /\ Len(right) = Len(Replicas) - i
            /\ \A j \in 1..(Len(Replicas) - i) : right[j] = Replicas[j + i]
        <5> DEFINE m == i + 1
        <5>1. m \in Int /\ \A j \in m..Len(Replicas) : Replicas[j] \in Nodes
          BY <4>0
        <5>2. /\ SubSeq(Replicas, m, Len(Replicas)) \in Seq(Nodes)
              /\ Len(SubSeq(Replicas, m, Len(Replicas))) =
                   IF m <= Len(Replicas) THEN Len(Replicas) - m + 1 ELSE 0
              /\ \A j \in 1..(Len(Replicas) - m + 1) :
                   SubSeq(Replicas, m, Len(Replicas))[j] = Replicas[m + j - 1]
          <6> HIDE DEF m
          <6> QED BY <4>0, <5>1, SubSeqProperties
        <5>3. Len(right) = Len(Replicas) - i
          BY <4>0, <5>2
        <5>4. ASSUME NEW j \in 1..(Len(Replicas) - i) PROVE right[j] = Replicas[j + i]
          <6>1. m + j - 1 = j + i /\ j \in 1..(Len(Replicas) - m + 1)
            BY <4>0
          <6> QED BY <5>2, <6>1
        <5> QED BY <5>2, <5>3, <5>4
      <4> HIDE DEF left, right, others
      <4>5. /\ others \in Seq(Nodes) /\ DOMAIN others = 1..(Len(Replicas) - 1)
            /\ \A j \in 1..(Len(Replicas) - 1) :
                 others[j] = IF j < i THEN left[j] ELSE right[j - i + 1]
        <5>1. /\ others \in Seq(Nodes) /\ Len(others) = Len(Replicas) - 1
              /\ \A j \in 1..(Len(Replicas) - 1) :
                   others[j] = IF j <= i - 1 THEN left[j] ELSE right[j - (i - 1)]
          <6>1. /\ left \o right \in Seq(Nodes)
                /\ Len(left \o right) = Len(left) + Len(right)
                /\ \A j \in 1..(Len(left) + Len(right)) :
                     (left \o right)[j] = IF j <= Len(left) THEN left[j] ELSE right[j - Len(left)]
            BY <4>3, <4>4, ConcatProperties
          <6>2. Len(left) + Len(right) = Len(Replicas) - 1
            BY <4>0, <4>3, <4>4
          <6> QED BY <4>2, <4>3, <6>1, <6>2
        <5>2. DOMAIN others = 1..(Len(Replicas) - 1)
          BY <5>1
        <5>3. ASSUME NEW j \in 1..(Len(Replicas) - 1)
              PROVE  others[j] = IF j < i THEN left[j] ELSE right[j - i + 1]
          <6>1. j - (i - 1) = j - i + 1 /\ (j <= i - 1 <=> j < i)
            BY <4>0
          <6> QED BY <5>1, <6>1
        <5> QED BY <5>1, <5>2, <5>3
      <4>6. ASSUME NEW n \in Range(Replicas) \ {Primary} PROVE n \in Range(others)
        <5>1. PICK j \in 1..Len(Replicas) : n = Replicas[j]
          BY <1>1 DEF Range
        <5>2. j # i
          BY <3>1, <5>1
        <5>3. CASE j < i
          <6>1. j \in DOMAIN others /\ others[j] = n
            BY <1>1, <4>3, <4>5, <5>1, <5>3
          <6> QED BY <6>1 DEF Range
        <5>4. CASE j > i
          <6>1. j - 1 \in DOMAIN others /\ others[j - 1] = right[j - i]
            BY <1>1, <4>5, <5>4
          <6>2. right[j - i] = n
            BY <1>1, <4>4, <5>1, <5>4
          <6> QED BY <6>1, <6>2 DEF Range
        <5> QED BY <1>1, <5>2, <5>3, <5>4
      <4> QED BY <4>5, <4>6
    <3>2. CASE ~\E i \in 1..Len(Replicas) : Replicas[i] = Primary
      BY <1>0, <3>2 DEF RemoveFirst
    <3> QED BY <3>1, <3>2
  <2> HIDE DEF others
  <2>2. <<Primary>> \in Seq(Nodes) /\ Len(<<Primary>>) = 1
    BY <1>0, <1>2
  <2>3. /\ ApiUrls \in Seq(Nodes) /\ DOMAIN ApiUrls = 1..(Len(others) + 1)
        /\ ApiUrls[1] = Primary
        /\ \A j \in 1..Len(others) : ApiUrls[j + 1] = others[j]
    BY <1>2, <2>1, <2>2 DEF ApiUrls, others
  <2>4. ASSUME NEW n \in Range(Replicas) PROVE n \in Range(ApiUrls)
    <3>1. CASE n = Primary
      <4>1. 1 \in DOMAIN ApiUrls
        BY <2>1, <2>3
      <4> QED BY <2>3, <3>1, <4>1 DEF Range
    <3>2. CASE n # Primary
      <4>1. PICK j \in 1..Len(others) : n = others[j]
        <5>1. DOMAIN others = 1..Len(others) /\ n \in Range(others)
          BY <2>1, <3>2
        <5> QED BY <5>1 DEF Range
      <4>2. j + 1 \in DOMAIN ApiUrls /\ ApiUrls[j + 1] = n
        BY <2>1, <2>3, <4>1
      <4> QED BY <4>2 DEF Range
    <3> QED BY <3>1, <3>2
  <2> QED BY <2>3, <2>4
<1>3. CASE Primary = None
  BY <1>0, <1>3 DEF ApiUrls
<1>4. ApiUrls \in Seq(Nodes)
  BY <1>0, <1>2, <1>3 DEF ApiUrls
<1> QED BY <1>2, <1>3, <1>4 DEF ApiUrls

\* How far the upload of a file is, and where the file is by then.
UploadIsStored(f) == LET u == upload[f] IN
  /\ u.step \in {"add", "pin"} => u.at \in 1..Len(ApiUrls)
  /\ u.step = "pin" => f \in stored[ApiUrls[u.at]]
  /\ u.step # "done" => u.cid = None
  /\ u.cid # None /\ ReplicaRequired => \A n \in Range(Replicas) : f \in stored[n]

IpfsInv == IpfsTypeOK /\ \A f \in Files : UploadIsStored(f)

NothingUnpinned == \A n \in Nodes : stored[n] \subseteq stored'[n]

LEMMA IpfsInitInv == IpfsInit => IpfsInv
  BY ApiUrlsAreNodes, IpfsAssumption
     DEF IpfsInit, IpfsInv, IpfsTypeOK, Upload, UploadIsStored

\* What is stored stays, and the file of the step is where the upload says.
LEMMA UploadMoves ==
  ASSUME IpfsInv, NEW f \in Files, NEW u \in Upload, NEW nodes \in SUBSET Nodes,
         upload' = [upload EXCEPT ![f] = u], Keep(f, nodes) \/ stored' = stored,
         u.step \in {"add", "pin"} => u.at \in 1..Len(ApiUrls),
         u.step = "pin" => f \in stored'[ApiUrls[u.at]],
         u.step # "done" => u.cid = None,
         u.cid # None /\ ReplicaRequired => \A n \in Range(Replicas) : f \in stored'[n]
  PROVE  IpfsInv' /\ NothingUnpinned
<1>0. IpfsTypeOK /\ \A g \in Files : UploadIsStored(g)
  BY DEF IpfsInv
<1>1. stored' \in [Nodes -> SUBSET Files] /\ NothingUnpinned
  BY <1>0 DEF IpfsTypeOK, Keep, NothingUnpinned
<1>2. /\ upload' \in [Files -> Upload] /\ upload'[f] = u
      /\ \A g \in Files \ {f} : upload'[g] = upload[g]
  BY <1>0 DEF IpfsTypeOK
<1>3. ASSUME NEW g \in Files PROVE UploadIsStored(g)'
  <2>1. CASE g = f
    BY <1>2, <2>1 DEF UploadIsStored
  <2>2. CASE g # f
    <3>1. upload'[g] = upload[g] /\ UploadIsStored(g)
      BY <1>0, <1>2, <2>2
    <3>2. \A i \in 1..Len(ApiUrls) : ApiUrls[i] \in Nodes
      BY ApiUrlsAreNodes
    <3>3. Range(Replicas) \subseteq Nodes
      BY IpfsAssumption DEF Range
    <3> QED BY <1>1, <3>1, <3>2, <3>3 DEF UploadIsStored, NothingUnpinned
  <2> QED BY <2>1, <2>2
<1> QED BY <1>1, <1>2, <1>3 DEF IpfsInv, IpfsTypeOK

LEMMA NextNode ==
  ASSUME NEW f \in Files, NEW i \in Nat \ {0}, TryFrom(f, i)
  PROVE  \E u \in Upload :
           /\ upload' = [upload EXCEPT ![f] = u] /\ u.cid = None
           /\ u.step = "done" \/ (u.step = "add" /\ u.at \in 1..Len(ApiUrls))
<1> DEFINE last == [step |-> "done", at |-> 0, cid |-> None]
<1> DEFINE tried == [step |-> "add", at |-> i, cid |-> None]
<1>0. Len(ApiUrls) \in Nat
  BY ApiUrlsAreNodes
<1>1. CASE i > Len(ApiUrls)
  <2>1. upload' = [upload EXCEPT ![f] = last] /\ last \in Upload
    BY <1>0, <1>1 DEF TryFrom, Return, Upload
  <2> QED BY <2>1
<1>2. CASE ~(i > Len(ApiUrls))
  <2>1. upload' = [upload EXCEPT ![f] = tried] /\ tried \in Upload /\ i \in 1..Len(ApiUrls)
    BY <1>0, <1>2 DEF TryFrom, Upload
  <2> QED BY <2>1
<1> QED BY <1>1, <1>2

LEMMA IpfsStepKeeps ==
  ASSUME IpfsInv, NEW f \in Files, IpfsStep(f)
  PROVE  IpfsInv' /\ NothingUnpinned
<1> DEFINE i == upload[f].at
<1>0. upload[f] \in Upload /\ UploadIsStored(f)
  BY DEF IpfsInv, IpfsTypeOK
<1>1. ASSUME NEW nodes \in SUBSET Nodes, Keep(f, nodes) \/ stored' = stored,
             NEW j \in Nat \ {0}, TryFrom(f, j)
      PROVE  IpfsInv' /\ NothingUnpinned
  <2>1. PICK u \in Upload :
           /\ upload' = [upload EXCEPT ![f] = u] /\ u.cid = None
           /\ u.step = "done" \/ (u.step = "add" /\ u.at \in 1..Len(ApiUrls))
    BY <1>1, NextNode
  <2> QED BY <1>1, <2>1, UploadMoves
<1>2. CASE AddPdf(f)
  <2>1. TryFrom(f, 1) /\ stored' = stored
    BY <1>2 DEF AddPdf
  <2> QED BY <1>1, <2>1
<1>3. ASSUME upload[f].step \in {"add", "pin"}
      PROVE  i \in 1..Len(ApiUrls) /\ ApiUrls[i] \in Nodes /\ i + 1 \in Nat \ {0}
  BY <1>0, <1>3, ApiUrlsAreNodes DEF UploadIsStored
<1>4. CASE AddPdfToApi(f)
  <2>0. upload[f].step = "add" /\ ApiUrls[i] \in Nodes /\ i \in 1..Len(ApiUrls) /\ i + 1 \in Nat \ {0}
    BY <1>3, <1>4 DEF AddPdfToApi
  <2>1. ASSUME Keep(f, {ApiUrls[i]}), upload' = [upload EXCEPT ![f].step = "pin"]
        PROVE  IpfsInv' /\ NothingUnpinned
    <3> DEFINE u == [upload[f] EXCEPT !.step = "pin"]
    <3>1. /\ u \in Upload /\ u.step = "pin" /\ u.at = i /\ u.cid = None
          /\ upload' = [upload EXCEPT ![f] = u]
      BY <1>0, <2>0, <2>1 DEF Upload, UploadIsStored
    <3>2. f \in stored'[ApiUrls[i]]
      BY <2>0, <2>1 DEF Keep
    <3> HIDE DEF u, i
    <3>3. u.step = "pin" => f \in stored'[ApiUrls[u.at]]
      BY <3>1, <3>2
    <3>4. PICK nodes \in SUBSET Nodes : Keep(f, nodes)
      BY <2>0, <2>1
    <3>5. u.at \in 1..Len(ApiUrls)
      BY <2>0, <3>1
    <3> QED BY <3>1, <3>3, <3>4, <3>5, UploadMoves
  <2>2. ASSUME NEW nodes \in {{}, {ApiUrls[i]}}, Keep(f, nodes), TryFrom(f, i + 1)
        PROVE  IpfsInv' /\ NothingUnpinned
    <3>1. nodes \in SUBSET Nodes
      BY <2>0
    <3> QED BY <1>1, <2>0, <2>2, <3>1
  <2> QED BY <1>4, <2>1, <2>2 DEF AddPdfToApi
<1>5. CASE PinToReplicas(f)
  <2> DEFINE others == Range(Replicas) \ {ApiUrls[i]}
  <2>0. /\ upload[f].step = "pin" /\ ApiUrls[i] \in Nodes /\ i + 1 \in Nat \ {0}
        /\ f \in stored[ApiUrls[i]]
    BY <1>0, <1>3, <1>5 DEF PinToReplicas, UploadIsStored
  <2>1. PICK pinned \in SUBSET others : \E told \in SUBSET pinned :
          /\ Keep(f, pinned)
          /\ IF ReplicationSucceeds(told, others) THEN Return(f, f) ELSE TryFrom(f, i + 1)
    BY <1>5, Zenon DEF PinToReplicas
  <2>2. PICK told \in SUBSET pinned :
          /\ Keep(f, pinned)
          /\ IF ReplicationSucceeds(told, others) THEN Return(f, f) ELSE TryFrom(f, i + 1)
    BY <2>1
  <2>3. others \subseteq Nodes
    BY IpfsAssumption DEF Range
  <2>4. ASSUME ReplicationSucceeds(told, others), Return(f, f)
        PROVE  IpfsInv' /\ NothingUnpinned
    <3> DEFINE u == [step |-> "done", at |-> 0, cid |-> f]
    <3>1. /\ u \in Upload /\ upload' = [upload EXCEPT ![f] = u]
          /\ u.step = "done"
      BY <2>4, ApiUrlsAreNodes DEF Return, Upload
    <3>2. ASSUME ReplicaRequired, NEW n \in Range(Replicas) PROVE f \in stored'[n]
      <4>1. pinned = others
        BY <2>4, <3>2 DEF ReplicationSucceeds
      <4>2. n \in Nodes /\ (n \in pinned \/ n = ApiUrls[i])
        BY <2>0, <2>3, <4>1
      <4> QED BY <2>0, <2>2, <4>2 DEF Keep
    <3> HIDE DEF u
    <3>3. pinned \in SUBSET Nodes
      BY <2>1, <2>3
    <3> QED BY <2>2, <3>1, <3>2, <3>3, UploadMoves
  <2>5. ASSUME TryFrom(f, i + 1)
        PROVE  IpfsInv' /\ NothingUnpinned
    BY <1>1, <2>0, <2>3, <2>5, <2>2
  <2> QED BY <2>4, <2>5, <2>2
<1> QED BY <1>2, <1>4, <1>5 DEF IpfsStep

\* What all replicas have is left when any one node is lost.
LEMMA TwoReplicas ==
  ASSUME IpfsInv, NEW f \in Files, \A n \in Range(Replicas) : f \in stored[n],
         Len(Replicas) >= 2, OwnHeader = {}, NEW lost \in Nodes
  PROVE  Fetchable(f, Nodes \ {lost})
<1>1. Replicas \in Seq(Nodes) /\ IsInjective(Replicas) /\ DOMAIN Replicas = 1..Len(Replicas)
  BY IpfsAssumption
<1>2. /\ Replicas[1] # Replicas[2]
      /\ {Replicas[1], Replicas[2]} \subseteq Range(Replicas) \cap Nodes
  BY <1>1 DEF IsInjective, Range
<1>3. PICK n \in {Replicas[1], Replicas[2]} : n # lost
  BY <1>2
<1>4. n \in Range(ApiUrls) \ OwnHeader
  BY <1>2, ApiUrlsAreNodes
<1> QED BY <1>2, <1>3, <1>4 DEF Fetchable

-----------------------------------------------------------------------------
(* Signatures and the decision *)

LEMMA SignatureLists ==
  ASSUME NEW pdf \in Pdfs
  PROVE  /\ ExtractPdfSignatures(pdf) \in Seq(Signature)
         /\ DOMAIN ExtractPdfSignatures(pdf) = DOMAIN pdf.entries
         /\ Validate(pdf) \in Seq(Signature)
         /\ DOMAIN Validate(pdf) = DOMAIN pdf.verdicts
<1>1. pdf.entries \in Seq(Entry) /\ pdf.verdicts \in Seq(Verdict)
  BY VerificationAssumption
<1>2. ASSUME NEW i \in DOMAIN pdf.entries PROVE ExtractPdfSignatures(pdf)[i] \in Signature
  <2>1. pdf.entries[i] \in Entry
    BY <1>1
  <2> QED
    BY <2>1 DEF ExtractPdfSignatures, ParseSignatureContent, UnreadableSignature, Signature,
                Integrity, Entry
<1>3. ASSUME NEW i \in DOMAIN pdf.verdicts PROVE Validate(pdf)[i] \in Signature
  <2>1. pdf.verdicts[i] \in Verdict
    BY <1>1
  <2> QED BY <2>1 DEF Validate, Signature, Integrity, Verdict
<1>4. /\ DOMAIN ExtractPdfSignatures(pdf) = DOMAIN pdf.entries
      /\ DOMAIN Validate(pdf) = DOMAIN pdf.verdicts
  BY DEF ExtractPdfSignatures, Validate
<1>5. /\ DOMAIN pdf.entries = 1..Len(pdf.entries) /\ Len(pdf.entries) \in Nat
      /\ DOMAIN pdf.verdicts = 1..Len(pdf.verdicts) /\ Len(pdf.verdicts) \in Nat
  BY <1>1
<1>6. ExtractPdfSignatures(pdf) \in [1..Len(pdf.entries) -> Signature]
  BY <1>2, <1>5 DEF ExtractPdfSignatures
<1>7. Validate(pdf) \in [1..Len(pdf.verdicts) -> Signature]
  BY <1>3, <1>5 DEF Validate
<1> QED BY <1>4, <1>5, <1>6, <1>7

LEMMA NotEmpty ==
  ASSUME NEW S, NEW s \in Seq(S), s # <<>>
  PROVE  DOMAIN s # {}
<1>1. DOMAIN s = 1..Len(s) /\ Len(s) \in Nat
  OBVIOUS
<1>2. Len(s) # 0
  BY EmptySeq
<1>3. 1 \in 1..Len(s)
  BY <1>1, <1>2
<1> QED BY <1>1, <1>3

\* At each place: damage found by one validator stays, and what is intact
\* afterwards was found intact by one of them.
LEMMA MergeSays ==
  ASSUME NEW internal \in Seq(Signature), NEW verified \in Seq(Signature)
  PROVE  /\ DOMAIN Merge(internal, verified) = DOMAIN internal \cup DOMAIN verified
         /\ Merge(internal, verified) # <<>> => DOMAIN internal \cup DOMAIN verified # {}
         /\ \A i \in DOMAIN internal :
              internal[i].integrity = "MODIFIED" => Merge(internal, verified)[i].integrity = "MODIFIED"
         /\ \A i \in DOMAIN verified :
              verified[i].integrity = "MODIFIED" => Merge(internal, verified)[i].integrity = "MODIFIED"
         /\ \A i \in DOMAIN internal \cup DOMAIN verified :
              Merge(internal, verified)[i].integrity = "INTACT" =>
                \/ i \in DOMAIN internal /\ internal[i].integrity = "INTACT"
                \/ i \in DOMAIN verified /\ verified[i].integrity = "INTACT"
<1>1. /\ DOMAIN internal = 1..Len(internal) /\ Len(internal) \in Nat
      /\ DOMAIN verified = 1..Len(verified) /\ Len(verified) \in Nat
  OBVIOUS
<1>2. CASE verified = <<>>
  <2>1. Merge(internal, verified) = internal /\ DOMAIN verified = {}
    BY <1>2 DEF Merge
  <2>2. internal # <<>> => DOMAIN internal # {}
    BY NotEmpty
  <2> QED BY <2>1, <2>2
<1>3. CASE verified # <<>> /\ internal = <<>>
  <2>1. Merge(internal, verified) = verified /\ DOMAIN internal = {}
    BY <1>3 DEF Merge
  <2>2. DOMAIN verified # {}
    BY <1>3, NotEmpty
  <2> QED BY <2>1, <2>2
<1>4. CASE verified # <<>> /\ internal # <<>>
  <2> DEFINE all == DOMAIN internal \cup DOMAIN verified
  <2> DEFINE merged(i) ==
        IF i > Len(internal) THEN verified[i]
        ELSE IF i > Len(verified) THEN internal[i]
        ELSE [internal[i] EXCEPT !.integrity = MergedIntegrity(@, verified[i].integrity)]
  <2>1. Merge(internal, verified) = [i \in all |-> merged(i)]
    BY <1>4 DEF Merge
  <2>2. DOMAIN verified # {}
    BY <1>4, NotEmpty
  <2>3. ASSUME NEW i \in all
        PROVE  /\ i \in DOMAIN internal /\ internal[i].integrity = "MODIFIED" =>
                    merged(i).integrity = "MODIFIED"
               /\ i \in DOMAIN verified /\ verified[i].integrity = "MODIFIED" =>
                    merged(i).integrity = "MODIFIED"
               /\ merged(i).integrity = "INTACT" =>
                    \/ i \in DOMAIN internal /\ internal[i].integrity = "INTACT"
                    \/ i \in DOMAIN verified /\ verified[i].integrity = "INTACT"
    <3>1. CASE i > Len(internal)
      BY <1>1, <3>1
    <3>2. CASE ~(i > Len(internal)) /\ i > Len(verified)
      BY <1>1, <3>2
    <3>3. CASE ~(i > Len(internal)) /\ ~(i > Len(verified))
      <4>1. i \in DOMAIN internal /\ i \in DOMAIN verified
        BY <1>1, <3>3
      <4>2. internal[i] \in Signature /\ verified[i] \in Signature
        BY <4>1
      <4>3. merged(i).integrity = MergedIntegrity(internal[i].integrity, verified[i].integrity)
        BY <3>3, <4>2 DEF Signature
      <4> HIDE DEF merged
      <4> QED BY <4>1, <4>2, <4>3 DEF MergedIntegrity, Signature, Integrity
    <3> QED BY <3>1, <3>2, <3>3
  <2> HIDE DEF merged
  <2> QED BY <2>1, <2>2, <2>3
<1> QED BY <1>2, <1>3, <1>4

LEMMA EvidenceIs ==
  ASSUME NEW pdf \in Pdfs
  PROVE  /\ SignaturesOf(pdf) # <<>> /\ Intact(SignaturesOf(pdf)) => Evidence(pdf) = "intact"
         /\ Evidence(pdf) = "damaged" => Modified(SignaturesOf(pdf))
         /\ Evidence(pdf) \in {"damaged", "intact", "unclear"}
<1> DEFINE internal == ExtractPdfSignatures(pdf)
<1> DEFINE verified == Validate(pdf)
<1> DEFINE all == SignaturesOf(pdf)
<1>1. internal \in Seq(Signature) /\ verified \in Seq(Signature)
  BY SignatureLists
<1>2. Places(pdf) = DOMAIN internal \cup DOMAIN verified
  BY SignatureLists DEF Places
<1>3. \A i : FoundAt(pdf, i) =
        {s[i].integrity : s \in {t \in {internal, verified} : i \in DOMAIN t}}
  BY DEF FoundAt
<1>4. all = Merge(internal, verified)
  BY DEF SignaturesOf
<1> HIDE DEF internal, verified, all
<1>5. \A i, c : c \in FoundAt(pdf, i) <=>
        \/ i \in DOMAIN internal /\ internal[i].integrity = c
        \/ i \in DOMAIN verified /\ verified[i].integrity = c
  BY <1>3
<1>0. /\ DOMAIN Merge(internal, verified) = DOMAIN internal \cup DOMAIN verified
      /\ Merge(internal, verified) # <<>> => DOMAIN internal \cup DOMAIN verified # {}
      /\ \A i \in DOMAIN internal :
           internal[i].integrity = "MODIFIED" => Merge(internal, verified)[i].integrity = "MODIFIED"
      /\ \A i \in DOMAIN verified :
           verified[i].integrity = "MODIFIED" => Merge(internal, verified)[i].integrity = "MODIFIED"
      /\ \A i \in DOMAIN internal \cup DOMAIN verified :
           Merge(internal, verified)[i].integrity = "INTACT" =>
             \/ i \in DOMAIN internal /\ internal[i].integrity = "INTACT"
             \/ i \in DOMAIN verified /\ verified[i].integrity = "INTACT"
  BY <1>1, MergeSays, Zenon
<1>6. DOMAIN all = Places(pdf) /\ (all # <<>> => Places(pdf) # {})
  BY <1>0, <1>2, <1>4
<1>7. ASSUME NEW i \in Places(pdf)
      PROVE  /\ "MODIFIED" \in FoundAt(pdf, i) => all[i].integrity = "MODIFIED"
             /\ all[i].integrity = "INTACT" => "INTACT" \in FoundAt(pdf, i)
  <2>1. "MODIFIED" \in FoundAt(pdf, i) => all[i].integrity = "MODIFIED"
    BY <1>0, <1>4, <1>5
  <2>2. all[i].integrity = "INTACT" => "INTACT" \in FoundAt(pdf, i)
    BY <1>0, <1>2, <1>4, <1>5
  <2> QED BY <2>1, <2>2
<1>8. ASSUME all # <<>>, Intact(all) PROVE Evidence(pdf) = "intact"
  <2>1. \A i \in Places(pdf) : all[i].integrity = "INTACT"
    BY <1>6, <1>8 DEF Intact, Range
  <2>2. \A i \in Places(pdf) : "MODIFIED" \notin FoundAt(pdf, i) /\ "INTACT" \in FoundAt(pdf, i)
    BY <1>7, <2>1
  <2> QED BY <1>6, <1>8, <2>2 DEF Evidence
<1>9. ASSUME Evidence(pdf) = "damaged" PROVE Modified(all)
  <2>1. PICK i \in Places(pdf) : "MODIFIED" \in FoundAt(pdf, i)
    BY <1>9 DEF Evidence
  <2> QED BY <1>6, <1>7, <2>1 DEF Modified, Range
<1>10. Evidence(pdf) \in {"damaged", "intact", "unclear"}
  BY DEF Evidence
<1> QED BY <1>8, <1>9, <1>10 DEF all

\* The decision of the server, and what the tiles make of the same parts.
SaysOf(s, record, signatures) ==
  /\ s.page = "inspect"
  /\ s.decision = "Valid" \/ s.verified =>
       record.exists /\ ~record.revoked /\ signatures # <<>> /\ Intact(signatures)
  /\ s.decision = "Valid" =>
       s.verified /\ s.onChain = "Aktif" /\ s.hash = "Cocok" /\ s.signature = "Utuh"
         /\ s.source = "DOCChain"
  /\ s.decision = "Dicabut" => s.onChain = "Dicabut" /\ s.signature # "Bermasalah"
  /\ s.external \/ s.source = "Bukan DOCChain" => s.decision = "Tidak terdaftar"
  /\ Modified(signatures) /\ s.hash = "Cocok" => s.decision = "Tidak valid"

LEMMA DecisionIs ==
  ASSUME NEW record \in Record, NEW found \in BOOLEAN, NEW signatures, NEW s,
         s = Inspection(record, found, signatures)
  PROVE  SaysOf(s, record, signatures)
<1> DEFINE status == OverallStatus(record, signatures)
<1> DEFINE details == ShouldShowDetails(record, found, signatures)
<1>1. /\ s.page = "inspect" /\ s.decision = Decisions[status]
      /\ s.verified = Verified(status, record) /\ s.onChain = OnChain(record, "Tidak tercatat")
      /\ s.hash = (IF record.exists THEN "Cocok" ELSE "Tidak ditemukan")
      /\ s.signature = SignatureTile(signatures, details)
      /\ s.source = SourceTile(record, found, details)
      /\ s.external = (signatures # <<>> /\ ~details)
  BY DEF Inspection
<1>2. status \in {"VALID", "MODIFIED", "NO_SIGNATURES", "PARTIAL", "NOT_RECORDED", "REVOKED"}
  BY DEF OverallStatus
<1>3. /\ s.decision = "Valid" <=> status = "VALID"
      /\ s.decision = "Tidak valid" <=> status = "MODIFIED"
      /\ s.decision = "Tidak terdaftar" <=> status = "NOT_RECORDED"
      /\ s.decision = "Dicabut" <=> status = "REVOKED"
  <2>1. /\ Decisions["VALID"] = "Valid" /\ Decisions["MODIFIED"] = "Tidak valid"
        /\ Decisions["NO_SIGNATURES"] = "Belum lengkap"
        /\ Decisions["PARTIAL"] = "Perlu pemeriksaan"
        /\ Decisions["NOT_RECORDED"] = "Tidak terdaftar" /\ Decisions["REVOKED"] = "Dicabut"
    BY DEF Decisions
  <2> HIDE DEF status
  <2> QED BY <1>1, <1>2, <2>1
<1>4. /\ status = "VALID" =>
           /\ record.exists /\ ~record.revoked /\ signatures # <<>> /\ Intact(signatures)
           /\ ~Modified(signatures)
      /\ status = "REVOKED" => record.exists /\ record.revoked /\ ~Modified(signatures)
      /\ record.exists /\ Modified(signatures) => status = "MODIFIED"
      /\ ~record.exists /\ ~ProblematicDocchain(signatures) => status = "NOT_RECORDED"
  BY DEF OverallStatus
<1>5. ~details => ~record.exists /\ ~ProblematicDocchain(signatures)
  BY DEF ShouldShowDetails, ProblematicDocchain
<1>6. record.exists => details
  BY DEF ShouldShowDetails
<1>7. s.hash = "Cocok" => record.exists
  BY <1>1
<1> HIDE DEF status, details
<1>8. s.decision = "Valid" \/ s.verified =>
        record.exists /\ ~record.revoked /\ signatures # <<>> /\ Intact(signatures)
  BY <1>1, <1>3, <1>4 DEF Verified
<1>9. s.decision = "Valid" =>
        s.verified /\ s.onChain = "Aktif" /\ s.hash = "Cocok" /\ s.signature = "Utuh"
          /\ s.source = "DOCChain"
  BY <1>1, <1>3, <1>4, <1>6 DEF Verified, OnChain, SignatureTile, SourceTile
<1>10. s.decision = "Dicabut" => s.onChain = "Dicabut" /\ s.signature # "Bermasalah"
  BY <1>1, <1>3, <1>4 DEF OnChain, SignatureTile
<1>11. s.external \/ s.source = "Bukan DOCChain" => s.decision = "Tidak terdaftar"
  BY <1>1, <1>3, <1>4, <1>5 DEF SourceTile
<1>12. Modified(signatures) /\ s.hash = "Cocok" => s.decision = "Tidak valid"
  BY <1>3, <1>4, <1>7
<1> QED BY <1>1, <1>8, <1>9, <1>10, <1>11, <1>12 DEF SaysOf

-----------------------------------------------------------------------------
(* The row, the ledger and the visitor                                     *)

RegInv == RegTypeOK /\ RevocationFollowsRegistration

OnLedger(h) == recordsByHash[h].exists

Revoked(h) == recordsByHash[h].revoked

\* The ledger is revoked before the row, and the row is read before the ledger.
RevokedRowIsOnLedger ==
  (doc.status = "REVOKED" \/ revoking
     \/ (visit.step = "verifyRecord" /\ visit.status = "REVOKED")) => Revoked(FinalHash)

\* What is known of a file whose record was read, and of one before that.
RecordWasRead ==
  /\ visit.step = "inspectRecord" /\ visit.before.revoked => Revoked(visit.hash)
  /\ (visit.step = "inspectSignatures" \/ Shown("inspect")) /\ visit.record.exists =>
       /\ OnLedger(visit.hash)
       /\ visit.before.revoked => visit.record.revoked

\* What a page shows was made from one record, and one PDF.
ShownIsMade ==
  /\ visit.step = "verifyRecord" =>
       visit.status \in {"PARTIALLY_SIGNED", "FULLY_SIGNED", "REVOKED"}
  /\ Shown("inspect") => \E pdf \in Pdfs :
       /\ visit.evidence = Evidence(pdf)
       /\ visit.shown = Inspection(visit.record, visit.found, SignaturesOf(pdf))

\* A CID in the row was returned for a file that every replica has.
StoredIsPinned ==
  doc.ipfs # None /\ ReplicaRequired => \A n \in Range(Replicas) : FinalHash \in stored[n]

\* The pages a visitor can be shown.
ShownPages ==
  {Nothing}
    \cup {Verification(s, c, r) : s \in {"PARTIALLY_SIGNED", "FULLY_SIGNED", "REVOKED"},
                                 c \in Files \cup {None}, r \in Record}
    \cup {Inspection(r, found, f.signatures) : r \in Record, found \in BOOLEAN, f \in Findings}

DocTypes ==
  /\ doc \in [status : {"PARTIALLY_SIGNED", "FULLY_SIGNED", "REVOKED"},
              ipfs : Files \cup {None}]
  /\ revoking \in BOOLEAN
  /\ visit \in VisitState

PublicInv ==
  /\ RegInv /\ IpfsInv /\ DocTypes
  /\ RevokedRowIsOnLedger /\ RecordWasRead /\ ShownIsMade /\ RevokedPageAgrees /\ StoredIsPinned

\* Whatever else is done, the contract goes on as a contract.
LEMMA LedgerSteps ==
  ASSUME [Next]_vars
  PROVE  [RegNext]_regVars
<1>1. ASSUME RevokeOnLedger PROVE RegNext
  BY <1>1, RegistryAssumption, VerificationAssumption DEF RevokeOnLedger, RegNext, Transact
<1>2. ASSUME SignLast \/ UploadFinal \/ StoreProof \/ RevokeRow PROVE UNCHANGED regVars
  BY <1>2 DEF SignLast, UploadFinal, StoreProof, RevokeRow
<1>3. ASSUME VerifyRead \/ VerifyReadRecord \/ InspectReadMatch \/ InspectReadRecord
               \/ InspectSignatures \/ Leave
      PROVE  UNCHANGED regVars
  BY <1>3 DEF VerifyRead, VerifyReadRecord, InspectReadMatch, InspectReadRecord,
              InspectSignatures, Leave
<1>4. UNCHANGED vars => UNCHANGED regVars
  BY DEF vars, regVars
<1> QED BY <1>1, <1>2, <1>3, <1>4 DEF Next

\* What a page says is of no matter for the other fields of a visit.
LEMMA VisitStateIs ==
  VisitState =
    [step : {"idle", "verifyRecord", "inspectRecord", "inspectSignatures", "shown"},
     hash : Hashes, found : BOOLEAN,
     status : {"none", "PARTIALLY_SIGNED", "FULLY_SIGNED", "REVOKED"}, ipfs : Files \cup {None},
     before : Record, record : Record, evidence : {"none", "damaged", "intact", "unclear"},
     shown : ShownPages]
BY DEF VisitState, ShownPages

LEMMA FinalIsHash ==
  FinalHash \in Hashes /\ FinalHash \in Files
  BY VerificationAssumption

LEMMA RevokedStays ==
  ASSUME LedgerGrows, NEW h \in Hashes
  PROVE  /\ Revoked(h) => Revoked(h)'
         /\ OnLedger(h) => OnLedger(h)'
  BY DEF LedgerGrows, Revoked, OnLedger

\* What the visitor has read and seen stays true.
LEMMA VisitorWaits ==
  ASSUME PublicInv, LedgerGrows, visit' = visit
  PROVE  /\ visit' \in VisitState
         /\ RecordWasRead' /\ ShownIsMade' /\ RevokedPageAgrees'
         /\ visit.step = "verifyRecord" /\ visit.status = "REVOKED" => Revoked(FinalHash)'
<1>1. visit.hash \in Hashes /\ visit \in VisitState
  BY DEF PublicInv, DocTypes, VisitState
<1>2. RecordWasRead'
  <2>1. /\ Revoked(visit.hash) => Revoked(visit.hash)'
        /\ OnLedger(visit.hash) => OnLedger(visit.hash)'
    <3>1. \A h \in Hashes : Revoked(h) => Revoked(h)'
      BY RevokedStays
    <3>2. \A h \in Hashes : OnLedger(h) => OnLedger(h)'
      BY RevokedStays
    <3> QED BY <1>1, <3>1, <3>2 DEF Revoked, OnLedger
  <2> QED BY <2>1 DEF PublicInv, RecordWasRead, Shown
<1>3. ShownIsMade' /\ RevokedPageAgrees'
  BY DEF PublicInv, ShownIsMade, RevokedPageAgrees, Shown
<1>4. visit.step = "verifyRecord" /\ visit.status = "REVOKED" => Revoked(FinalHash)'
  BY FinalIsHash, RevokedStays DEF PublicInv, RevokedRowIsOnLedger
<1> QED BY <1>1, <1>2, <1>3, <1>4

\* The visitor changes nothing of what is not its own.
LEMMA ServerWaits ==
  ASSUME PublicInv, RegInv', UNCHANGED <<regVars, server>>, visit' \in VisitState,
         RecordWasRead', ShownIsMade', RevokedPageAgrees',
         visit'.step = "verifyRecord" => visit'.status = doc.status
  PROVE  PublicInv'
<1>1. /\ recordsByHash' = recordsByHash /\ stored' = stored /\ upload' = upload
      /\ doc' = doc /\ revoking' = revoking
  BY DEF regVars, server
<1>2. IpfsInv'
  BY <1>1 DEF PublicInv, IpfsInv, IpfsTypeOK, UploadIsStored
<1>3. DocTypes'
  BY <1>1 DEF PublicInv, DocTypes
<1>4. StoredIsPinned'
  BY <1>1 DEF PublicInv, StoredIsPinned
<1>5. RevokedRowIsOnLedger'
  BY <1>1 DEF PublicInv, RevokedRowIsOnLedger, Revoked
<1> QED BY <1>2, <1>3, <1>4, <1>5 DEF PublicInv

LEMMA RecordIs ==
  ASSUME RegTypeOK, NEW h \in Hashes
  PROVE  /\ RecordOf(h) \in Record /\ NoRecord \in Record
         /\ RecordOf(h).exists = OnLedger(h) /\ RecordOf(h).revoked = Revoked(h)
         /\ ~NoRecord.exists /\ ~NoRecord.revoked
  BY DEF RegTypeOK, DocumentRecord, RecordOf, NoRecord, Record, OnLedger, Revoked

LEMMA BlankIs ==
  /\ Blank \in VisitState /\ Blank.step = "idle" /\ Blank.shown = Nothing
  /\ Blank.record = NoRecord
<1>1. NoRecord \in Record
  BY DEF NoRecord, Record
<1> QED BY <1>1, FinalIsHash DEF Blank, VisitState

LEMMA VerifyReadKeeps ==
  ASSUME PublicInv, RegInv', VerifyRead
  PROVE  PublicInv'
<1>1. /\ visit' = [Blank EXCEPT !.step = "verifyRecord", !.status = doc.status, !.ipfs = doc.ipfs]
      /\ UNCHANGED <<regVars, server>>
  BY DEF VerifyRead
<1>2. /\ doc.status \in {"PARTIALLY_SIGNED", "FULLY_SIGNED", "REVOKED"}
      /\ doc.ipfs \in Files \cup {None}
  BY DEF PublicInv, DocTypes
<1>3. visit' \in VisitState /\ visit'.step = "verifyRecord" /\ visit'.status = doc.status
  BY <1>1, <1>2, BlankIs, VisitStateIs
<1>4. RecordWasRead' /\ ShownIsMade' /\ RevokedPageAgrees'
  BY <1>2, <1>3 DEF RecordWasRead, ShownIsMade, RevokedPageAgrees, Shown
<1> QED BY <1>1, <1>3, <1>4, ServerWaits

LEMMA VerifyReadRecordKeeps ==
  ASSUME PublicInv, RegInv', VerifyReadRecord
  PROVE  PublicInv'
<1>0. RegTypeOK /\ visit \in VisitState /\ RevokedRowIsOnLedger /\ ShownIsMade
  BY DEF PublicInv, RegInv, DocTypes
<1>1. PICK record \in {RecordOf(FinalHash), NoRecord} :
        visit' = [Blank EXCEPT !.step = "shown",
                               !.shown = Verification(visit.status, visit.ipfs, record)]
  BY DEF VerifyReadRecord, GetRecordByHash
<1>2. visit.step = "verifyRecord" /\ UNCHANGED <<regVars, server>>
  BY DEF VerifyReadRecord
<1>3. /\ record \in Record
      /\ record.exists => record = RecordOf(FinalHash)
      /\ RecordOf(FinalHash).revoked = Revoked(FinalHash)
  BY <1>0, RecordIs, FinalIsHash
<1>4. /\ visit.status \in {"PARTIALLY_SIGNED", "FULLY_SIGNED", "REVOKED"}
      /\ visit.ipfs \in Files \cup {None}
  BY <1>0, <1>2 DEF ShownIsMade, VisitState
<1> DEFINE s == Verification(visit.status, visit.ipfs, record)
<1>5. s \in {Verification(t, c, r) : t \in {"PARTIALLY_SIGNED", "FULLY_SIGNED", "REVOKED"},
                                    c \in Files \cup {None}, r \in Record}
  BY <1>3, <1>4
<1>6. /\ s.page = "verify"
      /\ s.decision = "Tidak berlaku" => visit.status = "REVOKED"
      /\ s.onChain = "Aktif" => record.exists /\ ~record.revoked
  BY <1>4 DEF Verification, OnChain
<1> HIDE DEF s
<1>7. visit' \in VisitState /\ visit'.step = "shown" /\ visit'.shown = s
  <2>1. visit' = [Blank EXCEPT !.step = "shown", !.shown = s]
    BY <1>1 DEF s
  <2>2. s \in ShownPages
    BY <1>5 DEF ShownPages
  <2> QED BY <2>1, <2>2, BlankIs, VisitStateIs
<1>8. RecordWasRead' /\ ShownIsMade'
  BY <1>6, <1>7 DEF RecordWasRead, ShownIsMade, Shown
<1>9. RevokedPageAgrees'
  <2>1. visit.status = "REVOKED" => Revoked(FinalHash)
    BY <1>0, <1>2 DEF RevokedRowIsOnLedger
  <2> QED BY <1>3, <1>6, <1>7, <2>1 DEF RevokedPageAgrees
<1> QED BY <1>2, <1>7, <1>8, <1>9, ServerWaits

LEMMA InspectReadMatchKeeps ==
  ASSUME PublicInv, RegInv', InspectReadMatch
  PROVE  PublicInv'
<1>0. RegTypeOK
  BY DEF PublicInv, RegInv
<1>1. PICK h \in Hashes \ {ZeroHash}, found \in BOOLEAN :
        visit' = [Blank EXCEPT !.step = "inspectRecord", !.hash = h, !.found = found,
                               !.before = RecordOf(h)]
  BY DEF InspectReadMatch
<1>2. RecordOf(h) \in Record /\ RecordOf(h).revoked = Revoked(h)
  BY <1>0, RecordIs
<1>3. UNCHANGED <<regVars, server>>
  BY DEF InspectReadMatch
<1>4. /\ visit' \in VisitState /\ visit'.step = "inspectRecord"
      /\ visit'.hash = h /\ visit'.before = RecordOf(h)
  BY <1>1, <1>2, BlankIs, VisitStateIs
<1>5. recordsByHash' = recordsByHash
  BY <1>3 DEF regVars
<1>6. RecordWasRead' /\ ShownIsMade' /\ RevokedPageAgrees'
  BY <1>2, <1>4, <1>5 DEF RecordWasRead, ShownIsMade, RevokedPageAgrees, Shown, Revoked
<1> QED BY <1>3, <1>4, <1>6, ServerWaits

LEMMA InspectReadRecordKeeps ==
  ASSUME PublicInv, RegInv', InspectReadRecord
  PROVE  PublicInv'
<1>0. RegTypeOK /\ visit \in VisitState /\ RecordWasRead /\ visit.hash \in Hashes
  BY DEF PublicInv, RegInv, DocTypes, VisitState
<1>1. PICK record \in {RecordOf(visit.hash), NoRecord} :
        visit' = [visit EXCEPT !.step = "inspectSignatures", !.record = record]
  BY DEF InspectReadRecord, GetRecordByHash
<1>2. visit.step = "inspectRecord" /\ UNCHANGED <<regVars, server>>
  BY DEF InspectReadRecord
<1>3. /\ record \in Record
      /\ record.exists => OnLedger(visit.hash) /\ record.revoked = Revoked(visit.hash)
  BY <1>0, RecordIs
<1>4. /\ visit' \in VisitState /\ visit'.step = "inspectSignatures" /\ visit'.record = record
      /\ visit'.hash = visit.hash /\ visit'.before = visit.before
  BY <1>0, <1>1, <1>3, VisitStateIs
<1>5. recordsByHash' = recordsByHash
  BY <1>2 DEF regVars
<1>6. RecordWasRead'
  BY <1>0, <1>2, <1>3, <1>4, <1>5 DEF RecordWasRead, Shown, Revoked, OnLedger
<1>7. ShownIsMade' /\ RevokedPageAgrees'
  BY <1>4 DEF ShownIsMade, RevokedPageAgrees, Shown
<1> QED BY <1>2, <1>4, <1>6, <1>7, ServerWaits

LEMMA InspectSignaturesKeeps ==
  ASSUME PublicInv, RegInv', InspectSignatures
  PROVE  PublicInv'
<1>0. visit \in VisitState /\ RecordWasRead
  BY DEF PublicInv, DocTypes
<1>1. PICK f \in Findings :
        visit' = [visit EXCEPT !.step = "shown", !.evidence = f.evidence,
                               !.shown = Inspection(visit.record, visit.found, f.signatures)]
  BY DEF InspectSignatures
<1>2. visit.step = "inspectSignatures" /\ UNCHANGED <<regVars, server>>
  BY DEF InspectSignatures
<1>3. PICK pdf \in Pdfs : f = [signatures |-> SignaturesOf(pdf), evidence |-> Evidence(pdf)]
  BY DEF Findings
<1>4. f.signatures = SignaturesOf(pdf) /\ f.evidence = Evidence(pdf)
  BY <1>3
<1> DEFINE s == Inspection(visit.record, visit.found, f.signatures)
<1>5. s \in {Inspection(r, found, g.signatures) : r \in Record, found \in BOOLEAN, g \in Findings}
  BY <1>0 DEF VisitState
<1>6. s.page = "inspect"
  BY DEF Inspection
<1>7. s = Inspection(visit.record, visit.found, SignaturesOf(pdf))
  BY <1>4
<1> HIDE DEF s
<1>8. f.evidence \in {"damaged", "intact", "unclear"}
  BY <1>4, EvidenceIs
<1>9. /\ visit' \in VisitState /\ visit'.step = "shown" /\ visit'.shown = s
      /\ visit'.evidence = f.evidence /\ visit'.hash = visit.hash
      /\ visit'.before = visit.before /\ visit'.record = visit.record
      /\ visit'.found = visit.found
  <2>1. visit' = [visit EXCEPT !.step = "shown", !.evidence = f.evidence, !.shown = s]
    BY <1>1 DEF s
  <2>2. s \in ShownPages
    BY <1>5 DEF ShownPages
  <2> QED BY <1>0, <1>8, <2>1, <2>2, VisitStateIs
<1>10. recordsByHash' = recordsByHash
  BY <1>2 DEF regVars
<1>11. RecordWasRead'
  BY <1>0, <1>2, <1>9, <1>10 DEF RecordWasRead, Shown, Revoked, OnLedger
<1>12. ShownIsMade' /\ RevokedPageAgrees'
  BY <1>4, <1>6, <1>7, <1>9 DEF ShownIsMade, RevokedPageAgrees, Shown
<1> QED BY <1>2, <1>9, <1>11, <1>12, ServerWaits

LEMMA LeaveKeeps ==
  ASSUME PublicInv, RegInv', Leave
  PROVE  PublicInv'
<1>1. visit' = Blank /\ UNCHANGED <<regVars, server>>
  BY DEF Leave
<1>2. visit' \in VisitState /\ visit'.step = "idle"
  BY <1>1, BlankIs
<1>3. RecordWasRead' /\ ShownIsMade' /\ RevokedPageAgrees'
  BY <1>2 DEF RecordWasRead, ShownIsMade, RevokedPageAgrees, Shown
<1> QED BY <1>1, <1>2, <1>3, ServerWaits

-----------------------------------------------------------------------------
(* Meanwhile on the server *)

\* What the server does, or anybody who transacts with the contract.
LEMMA ServerMoves ==
  ASSUME PublicInv, RegInv', LedgerGrows, visit' = visit, IpfsInv',
         doc' \in [status : {"PARTIALLY_SIGNED", "FULLY_SIGNED", "REVOKED"},
                   ipfs : Files \cup {None}],
         revoking' \in BOOLEAN,
         doc'.status = "REVOKED" \/ revoking' =>
           doc.status = "REVOKED" \/ revoking \/ Revoked(FinalHash)',
         StoredIsPinned'
  PROVE  PublicInv'
<1>1. /\ visit' \in VisitState /\ RecordWasRead' /\ ShownIsMade' /\ RevokedPageAgrees'
      /\ visit.step = "verifyRecord" /\ visit.status = "REVOKED" => Revoked(FinalHash)'
  BY VisitorWaits
<1>2. Revoked(FinalHash) => Revoked(FinalHash)'
  BY FinalIsHash, RevokedStays
<1>3. RevokedRowIsOnLedger'
  BY <1>1, <1>2 DEF PublicInv, RevokedRowIsOnLedger
<1> QED BY <1>1, <1>3 DEF PublicInv, DocTypes

LEMMA ServerKeeps ==
  ASSUME PublicInv, RegInv', LedgerGrows,
         \/ RegNext /\ UNCHANGED <<server, visit>>
         \/ SignLast \/ UploadFinal \/ StoreProof \/ RevokeOnLedger \/ RevokeRow
         \/ UNCHANGED vars
  PROVE  PublicInv'
<1>0. /\ IpfsInv /\ StoredIsPinned /\ revoking \in BOOLEAN
      /\ doc \in [status : {"PARTIALLY_SIGNED", "FULLY_SIGNED", "REVOKED"},
                  ipfs : Files \cup {None}]
  BY DEF PublicInv, DocTypes
<1>1. ASSUME stored' = stored, upload' = upload PROVE IpfsInv'
  BY <1>0, <1>1 DEF IpfsInv, IpfsTypeOK, UploadIsStored
<1>2. ASSUME stored' = stored, doc'.ipfs = doc.ipfs PROVE StoredIsPinned'
  BY <1>0, <1>2 DEF StoredIsPinned
<1>3. CASE (RegNext /\ UNCHANGED <<server, visit>>) \/ UNCHANGED vars
  <2>1. /\ stored' = stored /\ upload' = upload /\ doc' = doc /\ revoking' = revoking
        /\ visit' = visit
    BY <1>3 DEF server, vars
  <2> QED BY <1>0, <1>1, <1>2, <2>1, ServerMoves
<1>4. CASE SignLast
  <2>1. /\ stored' = stored /\ upload' = upload /\ revoking' = revoking /\ visit' = visit
        /\ doc' = [doc EXCEPT !.status = "FULLY_SIGNED"]
    BY <1>4 DEF SignLast
  <2>2. /\ doc' \in [status : {"PARTIALLY_SIGNED", "FULLY_SIGNED", "REVOKED"},
                     ipfs : Files \cup {None}]
        /\ doc'.ipfs = doc.ipfs /\ doc'.status = "FULLY_SIGNED"
    BY <1>0, <2>1
  <2> QED BY <1>0, <1>1, <1>2, <2>1, <2>2, ServerMoves
<1>5. CASE UploadFinal
  <2>1. IpfsStep(FinalHash) /\ doc' = doc /\ revoking' = revoking /\ visit' = visit
    BY <1>5 DEF UploadFinal
  <2>2. IpfsInv' /\ NothingUnpinned
    BY <1>0, <2>1, FinalIsHash, IpfsStepKeeps
  <2>3. StoredIsPinned'
    <3>1. Range(Replicas) \subseteq Nodes
      BY IpfsAssumption DEF Range
    <3> QED BY <1>0, <2>1, <2>2, <3>1 DEF StoredIsPinned, NothingUnpinned
  <2> QED BY <1>0, <2>1, <2>2, <2>3, ServerMoves
<1>6. CASE StoreProof
  <2>1. /\ stored' = stored /\ upload' = upload /\ revoking' = revoking /\ visit' = visit
        /\ doc' = [doc EXCEPT !.ipfs = upload[FinalHash].cid]
    BY <1>6 DEF StoreProof
  <2>2. upload[FinalHash] \in Upload /\ UploadIsStored(FinalHash)
    BY <1>0, FinalIsHash DEF IpfsInv, IpfsTypeOK
  <2>3. /\ doc' \in [status : {"PARTIALLY_SIGNED", "FULLY_SIGNED", "REVOKED"},
                     ipfs : Files \cup {None}]
        /\ doc'.ipfs = upload[FinalHash].cid /\ doc'.status = doc.status
    BY <1>0, <2>1, <2>2 DEF Upload
  <2>4. StoredIsPinned'
    BY <2>1, <2>2, <2>3 DEF StoredIsPinned, UploadIsStored
  <2> QED BY <1>0, <1>1, <2>1, <2>3, <2>4, ServerMoves
<1>7. CASE RevokeOnLedger
  <2>1. /\ stored' = stored /\ upload' = upload /\ doc' = doc /\ visit' = visit
        /\ revoking' = TRUE
    BY <1>7 DEF RevokeOnLedger
  <2>2. Revoked(FinalHash)'
    <3>1. PICK reason \in Reasons : RevokeDocument(Deployer, FinalHash, reason)
      BY <1>7 DEF RevokeOnLedger
    <3>2. recordsByHash[FinalHash] \in DocumentRecord
      BY FinalIsHash DEF PublicInv, RegInv, RegTypeOK
    <3>3. recordsByHash'[FinalHash] = [recordsByHash[FinalHash] EXCEPT
            !.revoked = TRUE, !.revokedAt = now, !.revokeReasonHash = reason]
      BY <3>1, FinalIsHash DEF RevokeDocument, PublicInv, RegInv, RegTypeOK
    <3> QED BY <3>2, <3>3 DEF Revoked, DocumentRecord
  <2> QED BY <1>0, <1>1, <1>2, <2>1, <2>2, ServerMoves
<1>8. CASE RevokeRow
  <2>1. /\ stored' = stored /\ upload' = upload /\ visit' = visit
        /\ revoking' = FALSE /\ revoking /\ doc' = [doc EXCEPT !.status = "REVOKED"]
    BY <1>8 DEF RevokeRow, MayRevokeRow
  <2>2. /\ doc' \in [status : {"PARTIALLY_SIGNED", "FULLY_SIGNED", "REVOKED"},
                     ipfs : Files \cup {None}]
        /\ doc'.ipfs = doc.ipfs
    BY <1>0, <2>1
  <2> QED BY <1>0, <1>1, <1>2, <2>1, <2>2, ServerMoves
<1> QED BY <1>3, <1>4, <1>5, <1>6, <1>7, <1>8

LEMMA PublicStep == PublicInv /\ RegInv' /\ [Next]_vars => PublicInv'
<1> SUFFICES ASSUME PublicInv, RegInv', [Next]_vars PROVE PublicInv'
  OBVIOUS
<1>1. LedgerGrows
  BY LedgerSteps, LedgerStep DEF PublicInv, RegInv
<1>2. CASE \/ VerifyRead \/ VerifyReadRecord \/ InspectReadMatch \/ InspectReadRecord
           \/ InspectSignatures \/ Leave
  BY <1>2, VerifyReadKeeps, VerifyReadRecordKeeps, InspectReadMatchKeeps,
     InspectReadRecordKeeps, InspectSignaturesKeeps, LeaveKeeps
<1>3. CASE \/ RegNext /\ UNCHANGED <<server, visit>>
           \/ SignLast \/ UploadFinal \/ StoreProof \/ RevokeOnLedger \/ RevokeRow
           \/ UNCHANGED vars
  BY <1>1, <1>3, ServerKeeps
<1> QED BY <1>2, <1>3 DEF Next

LEMMA PublicInit == Init /\ RegInv => PublicInv
<1> SUFFICES ASSUME Init, RegInv PROVE PublicInv
  OBVIOUS
<1>1. IpfsInv
  BY IpfsInitInv DEF Init
<1>2. /\ doc = [status |-> "PARTIALLY_SIGNED", ipfs |-> None]
      /\ revoking = FALSE /\ visit = Blank
  BY DEF Init
<1>3. DocTypes
  BY <1>2, BlankIs DEF DocTypes
<1>4. RevokedRowIsOnLedger /\ StoredIsPinned
  BY <1>2, BlankIs DEF RevokedRowIsOnLedger, StoredIsPinned
<1>5. RecordWasRead /\ ShownIsMade /\ RevokedPageAgrees
  BY <1>2, BlankIs DEF RecordWasRead, ShownIsMade, RevokedPageAgrees, Shown
<1> QED BY <1>1, <1>3, <1>4, <1>5 DEF PublicInv

-----------------------------------------------------------------------------
(* Whatever the server, the nodes and the visitors do, the contract makes  *)
(* only steps of its own: what is proved of it holds here.                 *)
THEOREM LedgerBehindThePages == Spec => RegSpec
<1>1. Init => Constructor
  BY DEF Init
<1> QED BY <1>1, LedgerSteps, PTL DEF Spec, RegSpec

\* The inductive invariant of the contract, the nodes, the row and a visit.
THEOREM PublicAlwaysInv == Spec => []PublicInv
<1>1. Spec => []RegInv
  BY LedgerBehindThePages, RegistryTypes, RevocationOrder, PTL DEF RegInv
<1> QED BY <1>1, PublicInit, PublicStep, PTL DEF Spec

(* A file is only called valid if its hash is on the ledger, was not       *)
(* revoked when it was handed in, and every signature in it was found      *)
(* intact by a validator and damaged by none, whatever the PDF, and        *)
(* whatever is registered and revoked meanwhile.                           *)
THEOREM ValidIsProvenHolds == Spec => []ValidIsProven
<1>1. PublicInv => ValidIsProven
  <2> SUFFICES ASSUME PublicInv, Shown("inspect"),
                      visit.shown.verified \/ visit.shown.decision = "Valid"
               PROVE  /\ recordsByHash[visit.hash].exists
                      /\ ~visit.before.revoked
                      /\ visit.evidence = "intact"
    BY DEF ValidIsProven
  <2>1. PICK pdf \in Pdfs :
          /\ visit.evidence = Evidence(pdf)
          /\ visit.shown = Inspection(visit.record, visit.found, SignaturesOf(pdf))
    BY DEF PublicInv, ShownIsMade
  <2>2. visit.record \in Record /\ visit.found \in BOOLEAN
    BY DEF PublicInv, DocTypes, VisitState
  <2>3. /\ visit.record.exists /\ ~visit.record.revoked
        /\ SignaturesOf(pdf) # <<>> /\ Intact(SignaturesOf(pdf))
    <3>1. SaysOf(visit.shown, visit.record, SignaturesOf(pdf))
      BY <2>1, <2>2, DecisionIs
    <3> QED BY <3>1 DEF SaysOf
  <2>4. visit.evidence = "intact"
    BY <2>1, <2>3, EvidenceIs
  <2> QED BY <2>3, <2>4 DEF PublicInv, RecordWasRead, OnLedger
<1> QED BY <1>1, PublicAlwaysInv, PTL

(* Neither page contradicts itself: the tiles and the decision of an       *)
(* inspection, and the banner and the record behind a QR code.             *)
THEOREM PagesAgreeHolds == Spec => []PagesAgree
<1>1. PublicInv => TilesAgree
  <2> SUFFICES ASSUME PublicInv, Shown("inspect") PROVE TilesAgree
    BY DEF TilesAgree
  <2>1. PICK pdf \in Pdfs :
          /\ visit.evidence = Evidence(pdf)
          /\ visit.shown = Inspection(visit.record, visit.found, SignaturesOf(pdf))
    BY DEF PublicInv, ShownIsMade
  <2>2. visit.record \in Record /\ visit.found \in BOOLEAN
    BY DEF PublicInv, DocTypes, VisitState
  <2>3. visit.evidence = "damaged" => Modified(SignaturesOf(pdf))
    BY <2>1, EvidenceIs
  <2>4. SaysOf(visit.shown, visit.record, SignaturesOf(pdf))
    BY <2>1, <2>2, DecisionIs
  <2> QED BY <2>3, <2>4, Zenon DEF TilesAgree, SaysOf
<1>2. PublicInv => TypeOK /\ RevokedPageAgrees
  BY DEF PublicInv, RegInv, IpfsInv, DocTypes, TypeOK
<1>3. PublicInv => PagesAgree
  BY <1>1, <1>2 DEF PagesAgree
<1> QED BY <1>3, PublicAlwaysInv, PTL

(* With two replicas, all required, a final file whose CID is stored can   *)
(* be fetched after the loss of any one of any number of nodes.            *)
THEOREM UploadSurvivesLossHolds == Spec => []UploadSurvivesLoss
<1>1. PublicInv => UploadSurvivesLoss
  BY TwoReplicas, FinalIsHash DEF PublicInv, StoredIsPinned, UploadSurvivesLoss
<1> QED BY <1>1, PublicAlwaysInv, PTL

-----------------------------------------------------------------------------
(* Files on the disk of the server: the definitions the proofs need *)

OneByOne == MaxInFlight = 1

NoneFailed == \A r \in Requests : pc[r] # "failed"

\* The steps of a request that has read a row.
Working == {"open", "source", "save", "record", "deleteFile", "deleteRow"}

\* What a request carries at each step.
Carries(step, s) ==
  /\ step = "uploadCreate" => s.row \in Document
  /\ step \in Working => s.doc \in Requests /\ s.row \in Document
  /\ step \in {"source", "save", "record"} => s.handler \in {"request", "sign", "finalizeQr"}
  /\ step \in {"save", "record"} => s.bytes \in Bytes

EveryoneCarries == \A r \in Requests : Carries(pc[r], snap[r])

\* The names of an owner's documents can be counted.
FewDocuments == IsFiniteSet(Documents)

TypesInv == FilesTypeOK /\ EveryoneCarries /\ FewDocuments

-----------------------------------------------------------------------------
(* One request at a time *)

NobodyElse == \A r, s \in InFlight : r = s

\* The path of the file a row says it has now.
PathOf(d, row) ==
  IF row.final = PreRenderedName(d) THEN InDocuments(row.owner, row.final)
  ELSE InSigned(row.owner, row.final)

FinalPath(d) == PathOf(d, docs[d])

Finals == {d \in Documents : docs[d].final # Null}

\* The file of a document is named after the document.
RowIs(d, row) ==
  /\ row.final \in {Null, BuildSignedPdfFileName(row.name), PreRenderedName(d)}
  /\ row.final = Null <=> row.hash = Null
  /\ row.signed => row.final # Null

RowsAre == \A d \in Documents : RowIs(d, docs[d])

\* No two documents of one owner have the same name.  One that never met another
\* has a sanitised name of its own, too, which is that of no stored file.
NamesDiffer ==
  /\ \A d, e \in Documents :
       docs[d].owner = docs[e].owner /\ docs[d].name = docs[e].name => d = e
  /\ \A d \in Documents \ collided :
       /\ ~IsStoredName(docs[d].name)
       /\ \A e \in Documents :
            docs[e].owner = docs[d].owner /\ Sanitised(docs[e].name) = Sanitised(docs[d].name)
              => docs[e].name = docs[d].name

\* A request that is not yet received has no row and no file.
NotYet ==
  \A r \in Requests :
    /\ docs[r] # Null => pc[r] = "done"
    /\ pc[r] = "idle" => \A u \in Users : InDocuments(u, <<r>>) \notin DOMAIN disk

\* There are no other files than uploads, pre-rendered and signed ones.
KnownFiles ==
  \A p \in DOMAIN disk :
    \/ p.dir = "documents" /\ \E r \in Requests : p.name \in {<<r>>, PreRenderedName(r)}
    \/ p.dir = "signed" /\ p.name # <<>> /\ p.name[Len(p.name)] = Signed

\* An upload about to be recorded.
UploadIs(r, s) ==
  /\ RowIs(r, s.row) /\ s.row.final = Null
  /\ s.row.name \notin NamesOf(s.row.owner)
  /\ InDocuments(s.row.owner, <<r>>) \in DOMAIN disk
  /\ disk[InDocuments(s.row.owner, <<r>>)] = s.row.original

\* What was read is still so, as to the files.
SameFiles(row, new) ==
  /\ new.owner = row.owner /\ new.name = row.name /\ new.original = row.original
  /\ new.final = row.final /\ new.hash = row.hash

WorkIs(step, s) ==
  /\ s.doc \in Documents /\ SameFiles(s.row, docs[s.doc])
  /\ step \in {"save", "record"} /\ s.doc \notin collided =>
       IsPrefix(s.row.original, s.bytes)
  /\ step = "record" => Target(s) \in DOMAIN disk /\ disk[Target(s)] = s.bytes

StepsAre ==
  \A r \in Requests :
    /\ pc[r] = "uploadCreate" => UploadIs(r, snap[r])
    /\ pc[r] \in Working => WorkIs(pc[r], snap[r])

\* The file a row names was made from its document's upload, and so was what it
\* was when that was recorded.
FinalsAreOwn ==
  \A d \in Finals \ collided :
    /\ IsPrefix(docs[d].original, docs[d].hash)
    /\ FinalPath(d) \in DOMAIN disk => IsPrefix(docs[d].original, disk[FinalPath(d)])

OwnInv ==
  NobodyElse /\ RowsAre /\ NamesDiffer /\ NotYet /\ KnownFiles /\ StepsAre /\ FinalsAreOwn

-----------------------------------------------------------------------------
(* As long as nothing failed *)

\* The documents being deleted, and those being rewritten: their file is gone,
\* or is another one than recorded.
Leaving == {snap[r].doc : r \in {s \in Requests : pc[s] = "deleteRow"}}
Rewritten == {snap[r].doc : r \in {s \in Requests : pc[s] = "record"}}

Settled == Finals \ (Leaving \cup Rewritten)

FinalsAreRecorded ==
  \A d \in Finals \ Rewritten :
    FinalPath(d) \in DOMAIN disk => disk[FinalPath(d)] = docs[d].hash

\* What must be found: the upload of each document and its file as it is now.
Claims ==
  {<<d, "original">> : d \in Documents \ Leaving} \cup {<<d, "final">> : d \in Settled}

Content(c) == IF c[2] = "original" THEN docs[c[1]].original ELSE docs[c[1]].hash

\* Files that are not written again, unless their row says so at the same time.
Lasting ==
  {p \in DOMAIN disk :
     \/ \E u \in Users, r \in Requests : pc[r] = "done" /\ p = InDocuments(u, <<r>>)
     \/ \E d \in Settled : p = FinalPath(d)}

\* Each claim is met by a file of its own.  Which one changes: the deletion of
\* a draft unlinks any file of the same contents.
ClaimsAreMet ==
  \E f \in [Claims -> Lasting] :
    /\ \A c \in Claims : disk[f[c]] = Content(c)
    /\ \A c, e \in Claims : f[c] = f[e] => c = e

KeptInv == NoneFailed /\ collided = {} => FinalsAreRecorded /\ ClaimsAreMet

-----------------------------------------------------------------------------
(* Sequences, and the first of several sets of files *)

\* A set of natural numbers has a least one.
LEMMA LeastIs ==
  ASSUME NEW I \in SUBSET Nat, I # {}
  PROVE  Min(I) \in I /\ \A i \in I : Min(I) <= i
<1> DEFINE Below == OpToRel(<, Nat)
<1>1. \A a, b \in Nat : a < b => <<a, b>> \in Below
  BY DEF OpToRel
<1>2. IsWellFoundedOn(Below, Nat)
  BY NatLessThanWellFounded
<1> HIDE DEF Below
<1>3. PICK x \in I : \A y \in I : ~(<<y, x>> \in Below)
  BY <1>2, WFMin
<1>4. ASSUME NEW y \in I PROVE x <= y
  <2>1. x \in Nat /\ y \in Nat
    OBVIOUS
  <2>2. ~(y < x)
    BY <1>1, <1>3, <2>1
  <2> QED BY <2>1, <2>2
<1> QED BY <1>4 DEF Min

\* A sequence is a prefix of itself,
LEMMA PrefixOfItself ==
  ASSUME NEW S, NEW s \in Seq(S)
  PROVE  IsPrefix(s, s)
BY DEF IsPrefix

\* and a prefix of one is a prefix of what that grows to.
LEMMA PrefixGrows ==
  ASSUME NEW S, NEW s \in Seq(S), NEW t \in Seq(S), NEW x \in S, IsPrefix(s, t)
  PROVE  IsPrefix(s, Append(t, x))
<1>1. Len(s) \in Nat /\ Len(t) \in Nat /\ Len(s) <= Len(t)
  BY DEF IsPrefix
<1>2. Append(t, x) \in Seq(S) /\ Len(Append(t, x)) = Len(t) + 1
  OBVIOUS
<1>3. \A i \in 1..Len(s) : Append(t, x)[i] = t[i]
  BY <1>1
<1>4. SubSeq(t, 1, Len(s)) = SubSeq(Append(t, x), 1, Len(s))
  BY <1>1, <1>2, <1>3
<1> QED BY <1>1, <1>2, <1>4 DEF IsPrefix

\* resolveDocumentPath returns the first path that exists: of two,
LEMMA FirstOfTwo ==
  ASSUME NEW a, NEW b
  PROVE  FirstOf(<<a, b>>) = IF a # {} THEN a ELSE b
<1> DEFINE sets == <<a, b>>
<1> DEFINE I == {i \in 1..Len(sets) : sets[i] # {}}
<1>1. sets[1] = a /\ sets[2] = b /\ Len(sets) = 2
  OBVIOUS
<1>2. I \in SUBSET Nat /\ I \subseteq {1, 2}
  BY <1>1
<1>3. (1 \in I <=> a # {}) /\ (2 \in I <=> b # {})
  BY <1>1
<1>4. FirstOf(sets) = IF I # {} THEN IF Min(I) = 0 THEN {} ELSE sets[Min(I)] ELSE {}
  BY DEF FirstOf, SelectInSeq
<1> HIDE DEF I, sets
<1>5. I # {} => Min(I) \in I /\ \A i \in I : Min(I) <= i
  BY <1>2, LeastIs
<1>6. CASE a # {}
  <2>1. Min(I) \in {1, 2} /\ Min(I) <= 1
    BY <1>2, <1>3, <1>5, <1>6
  <2>2. Min(I) = 1
    BY <2>1
  <2> QED BY <1>1, <1>3, <1>4, <1>6, <2>2 DEF sets
<1>7. CASE a = {} /\ b # {}
  <2>1. Min(I) = 2
    BY <1>2, <1>3, <1>5, <1>7
  <2> QED BY <1>1, <1>3, <1>4, <1>7, <2>1 DEF sets
<1>8. CASE a = {} /\ b = {}
  <2>1. I = {}
    BY <1>2, <1>3, <1>8
  <2> QED BY <1>4, <1>8, <2>1 DEF sets
<1> QED BY <1>6, <1>7, <1>8

\* and of four.
LEMMA FirstOfFour ==
  ASSUME NEW a, NEW b, NEW c, NEW d
  PROVE  FirstOf(<<a, b, c, d>>) =
           IF a # {} THEN a ELSE IF b # {} THEN b ELSE IF c # {} THEN c ELSE d
<1> DEFINE sets == <<a, b, c, d>>
<1> DEFINE I == {i \in 1..Len(sets) : sets[i] # {}}
<1>1. sets[1] = a /\ sets[2] = b /\ sets[3] = c /\ sets[4] = d /\ Len(sets) = 4
  OBVIOUS
<1>2. I \in SUBSET Nat /\ I \subseteq {1, 2, 3, 4}
  BY <1>1
<1>3. (1 \in I <=> a # {}) /\ (2 \in I <=> b # {}) /\ (3 \in I <=> c # {}) /\ (4 \in I <=> d # {})
  BY <1>1
<1>4. FirstOf(sets) = IF I # {} THEN IF Min(I) = 0 THEN {} ELSE sets[Min(I)] ELSE {}
  BY DEF FirstOf, SelectInSeq
<1> HIDE DEF I, sets
<1>5. I # {} => Min(I) \in I /\ \A i \in I : Min(I) <= i
  BY <1>2, LeastIs
<1>6. ASSUME NEW k \in 1..4, k \in I, \A j \in 1..4 : j < k => j \notin I
      PROVE  FirstOf(sets) = sets[k]
  <2> DEFINE m == Min(I)
  <2>1. m \in I /\ m \in {1, 2, 3, 4} /\ m <= k
    BY <1>2, <1>5, <1>6
  <2> HIDE DEF m
  <2>2. m = k
    BY <1>6, <2>1
  <2> QED BY <1>4, <1>6, <2>2 DEF m
<1>7. CASE a # {}
  BY <1>1, <1>3, <1>6, <1>7 DEF sets
<1>8. CASE a = {} /\ b # {}
  <2>1. FirstOf(sets) = sets[2]
    BY <1>3, <1>6, <1>8
  <2> QED BY <1>1, <1>8, <2>1 DEF sets
<1>9. CASE a = {} /\ b = {} /\ c # {}
  <2>1. FirstOf(sets) = sets[3]
    BY <1>3, <1>6, <1>9
  <2> QED BY <1>1, <1>9, <2>1 DEF sets
<1>10. CASE a = {} /\ b = {} /\ c = {} /\ d # {}
  <2>1. FirstOf(sets) = sets[4]
    BY <1>3, <1>6, <1>10
  <2> QED BY <1>1, <1>10, <2>1 DEF sets
<1>11. CASE a = {} /\ b = {} /\ c = {} /\ d = {}
  <2>1. I = {}
    BY <1>2, <1>3, <1>11
  <2> QED BY <1>4, <1>11, <2>1 DEF sets
<1> HIDE DEF sets
<1> QED BY <1>7, <1>8, <1>9, <1>10, <1>11 DEF sets

-----------------------------------------------------------------------------
(* Names *)

\* A signed file has a name, which ends in the suffix.
LEMMA SignedNameIs ==
  ASSUME NEW name \in Seq(Tokens)
  PROVE  LET signed == BuildSignedPdfFileName(name)
         IN  /\ signed \in Seq(Tokens) /\ Len(signed) = Len(name) + 1
             /\ signed # <<>> /\ signed[Len(signed)] = Signed
             /\ \A i \in 1..Len(name) :
                  signed[i] = IF name[i] \in Words THEN Plain[name[i]] ELSE name[i]
<1> DEFINE plain == [i \in DOMAIN name |-> IF name[i] \in Words THEN Plain[name[i]] ELSE name[i]]
<1>1. DOMAIN name = 1..Len(name) /\ Len(name) \in Nat
  OBVIOUS
<1>2. \A i \in 1..Len(name) : plain[i] \in Tokens
  BY <1>1, FilesAssumption DEF Tokens
<1>3. plain \in Seq(Tokens) /\ Len(plain) = Len(name)
  BY <1>1, <1>2
<1>4. \A i \in 1..Len(name) :
        plain[i] = IF name[i] \in Words THEN Plain[name[i]] ELSE name[i]
  BY <1>1
<1>5. Signed \in Tokens
  BY DEF Tokens
<1> HIDE DEF plain
<1>6. /\ Append(plain, Signed) \in Seq(Tokens)
      /\ Len(Append(plain, Signed)) = Len(name) + 1
      /\ Append(plain, Signed)[Len(name) + 1] = Signed
      /\ \A i \in 1..Len(name) : Append(plain, Signed)[i] = plain[i]
  BY <1>1, <1>3, <1>5
<1>7. BuildSignedPdfFileName(name) = Append(plain, Signed)
  BY DEF BuildSignedPdfFileName, Sanitised, plain
<1>8. Append(plain, Signed) # <<>>
  BY <1>1, <1>6
<1> QED BY <1>1, <1>4, <1>6, <1>7, <1>8

\* A pre-rendered file is named after its document.
LEMMA PreRenderedNameIs ==
  ASSUME NEW d \in Requests
  PROVE  /\ PreRenderedName(d) \in Seq(Tokens) /\ Len(PreRenderedName(d)) = 2
         /\ PreRenderedName(d)[1] = d /\ PreRenderedName(d)[2] = PreRendered
         /\ \A e \in Requests : PreRenderedName(d) = PreRenderedName(e) => d = e
BY DEF PreRenderedName, Tokens

\* A name that is not like one is no name of a stored file,
LEMMA OtherNameIsNoFile ==
  ASSUME NEW name \in Seq(Tokens), ~IsStoredName(name)
  PROVE  /\ \A r \in Requests : name # <<r>> /\ name # PreRenderedName(r)
         /\ name # <<>> => name[Len(name)] # Signed
<1>1. ASSUME NEW r \in Requests PROVE name # <<r>> /\ name # PreRenderedName(r)
  <2>1. <<r>> # <<>> /\ Len(<<r>>) = 1 /\ <<r>>[1] = r
    OBVIOUS
  <2>2. PreRenderedName(r) # <<>> /\ PreRenderedName(r)[Len(PreRenderedName(r))] = PreRendered
    BY PreRenderedNameIs
  <2>3. IsStoredName(<<r>>) /\ IsStoredName(PreRenderedName(r))
    BY <2>1, <2>2 DEF IsStoredName
  <2> QED BY <2>3
<1> QED BY <1>1 DEF IsStoredName

\* and what names have one signed file are the same when sanitised.
LEMMA SignedNamesAlike ==
  ASSUME NEW m \in Seq(Tokens), NEW n \in Seq(Tokens),
         BuildSignedPdfFileName(m) = BuildSignedPdfFileName(n)
  PROVE  Sanitised(m) = Sanitised(n)
<1>1. Len(m) \in Nat /\ Len(n) \in Nat /\ Len(m) + 1 = Len(n) + 1
  BY SignedNameIs
<1>2. Len(m) = Len(n) /\ DOMAIN m = 1..Len(m) /\ DOMAIN n = 1..Len(m)
  BY <1>1
<1>3. \A i \in 1..Len(m) : Sanitised(m)[i] = Sanitised(n)[i]
  BY <1>2, SignedNameIs DEF Sanitised
<1> QED BY <1>2, <1>3 DEF Sanitised

\* A signed file is no pre-rendered one, nor an upload.
LEMMA SignedIsNoOther ==
  ASSUME NEW name \in Seq(Tokens), NEW d \in Requests
  PROVE  BuildSignedPdfFileName(name) \notin {PreRenderedName(d), <<d>>}
<1>1. BuildSignedPdfFileName(name) # PreRenderedName(d)
  BY SignedNameIs, PreRenderedNameIs, FilesAssumption
<1>2. BuildSignedPdfFileName(name) # <<d>>
  <2>1. Signed # d
    BY FilesAssumption
  <2>2. Len(<<d>>) = 1 /\ <<d>>[1] = d
    OBVIOUS
  <2> QED BY <2>1, <2>2, SignedNameIs
<1> QED BY <1>1, <1>2

\* Among as many numbers as there are names one is free: the name itself is
\* one of them.  The least of them makes a name of this owner unique.
LEMMA UniqueName ==
  ASSUME FewDocuments, NEW u, NEW S, Nat \subseteq S, NEW name \in Seq(S)
  PROVE  /\ BuildUniqueOriginalFileName(u, name) \in Seq(S)
         /\ BuildUniqueOriginalFileName(u, name) \notin NamesOf(u)
<1> DEFINE used == NamesOf(u)
<1> DEFINE n == Cardinality(used)
<1> DEFINE free == {i \in 1..n : Append(name, i) \notin used}
<1>1. CASE name \notin used
  BY <1>1 DEF BuildUniqueOriginalFileName
<1>2. CASE name \in used
  <2> DEFINE own == {c \in Documents : docs[c].owner = u}
  <2>1. IsFiniteSet(own)
    BY FS_Subset DEF FewDocuments
  <2> DEFINE names == [c \in own |-> docs[c].name]
  <2>2. names \in Surjection(own, used)
    BY DEF Surjection, NamesOf
  <2>3. IsFiniteSet(used) /\ n \in Nat
    BY <2>1, <2>2, FS_Surjection, FS_CardinalityType
  <2> HIDE DEF own, names, used
  <2>4. free # {}
    <3>1. SUFFICES ASSUME free = {} PROVE FALSE
      OBVIOUS
    <3>2. \A i \in 1..n : Append(name, i) \in used \ {name}
      <4>1. ASSUME NEW i \in 1..n PROVE Append(name, i) # name
        <5>1. Len(Append(name, i)) = Len(name) + 1 /\ Len(name) \in Nat
          OBVIOUS
        <5> QED BY <5>1
      <4> QED BY <3>1, <4>1
    <3> DEFINE numbered == [i \in 1..n |-> Append(name, i)]
    <3>3. \A i, j \in 1..n : Append(name, i) = Append(name, j) => i = j
      <4>1. ASSUME NEW i \in 1..n PROVE Append(name, i)[Len(name) + 1] = i
        BY <2>3
      <4> QED BY <4>1
    <3>4. numbered \in Injection(1..n, used \ {name})
      BY <3>2, <3>3 DEF Injection, IsInjective
    <3>5. IsFiniteSet(used \ {name}) /\ Cardinality(used \ {name}) = n - 1
      BY <1>2, <2>3, FS_RemoveElement
    <3>6. Cardinality(1..n) = n
      BY <2>3, FS_Interval
    <3>7. n <= n - 1
      <4> HIDE DEF numbered, n
      <4> QED BY <3>4, <3>5, <3>6, FS_Injection
    <3> QED BY <2>3, <3>7
  <2>5. free \in SUBSET Nat
    BY <2>3
  <2>6. Min(free) \in free
    <3> HIDE DEF free
    <3> QED BY <2>4, <2>5, LeastIs
  <2>7. BuildUniqueOriginalFileName(u, name) = Append(name, Min(free))
    BY <1>2 DEF BuildUniqueOriginalFileName, used
  <2>8. Min(free) \in S /\ Append(name, Min(free)) \notin used
    BY <2>5, <2>6
  <2>9. Append(name, Min(free)) \in Seq(S)
    BY <2>8
  <2> QED BY <2>7, <2>8, <2>9 DEF used
<1> QED BY <1>1, <1>2

-----------------------------------------------------------------------------
(* What is found on the disk *)

\* A file is found by its name in the directory of signed files, or of others.
LEMMA ByNameIs ==
  ASSUME NEW u, NEW name
  PROVE  ByName(u, name) =
           IF name = Null THEN {}
           ELSE IF InSigned(u, name) \in DOMAIN disk THEN {InSigned(u, name)}
           ELSE IF InDocuments(u, name) \in DOMAIN disk THEN {InDocuments(u, name)} ELSE {}
<1>1. FirstOf(<<At(InSigned(u, name)), At(InDocuments(u, name))>>) =
        IF At(InSigned(u, name)) # {} THEN At(InSigned(u, name)) ELSE At(InDocuments(u, name))
  BY FirstOfTwo
<1>2. \A p : At(p) = IF p \in DOMAIN disk THEN {p} ELSE {}
  BY DEF At
<1> QED BY <1>1, <1>2 DEF ByName

WithBytes(bytes) == {p \in DOMAIN disk : disk[p] = bytes}

\* By its hash any file may be found that has these contents, and some is.
LEMMA ByHashIs ==
  ASSUME FilesTypeOK, NEW u \in Users, NEW bytes
  PROVE  LET found == ByHash(u, bytes)
             admins == AdminByHash(u, bytes)
         IN  /\ found \subseteq WithBytes(bytes) /\ admins \subseteq WithBytes(bytes)
             /\ bytes = Null => found = {} /\ admins = {}
             /\ bytes # Null /\ WithBytes(bytes) # {} => found # {} /\ admins # {}
<1> DEFINE a == WithHash("signed", {u}, bytes)
           b == WithHash("signed", Users, bytes)
           c == WithHash("documents", {u}, bytes)
           d == WithHash("documents", Users, bytes)
<1>1. /\ a \subseteq WithBytes(bytes) /\ b \subseteq WithBytes(bytes)
      /\ c \subseteq WithBytes(bytes) /\ d \subseteq WithBytes(bytes)
  BY DEF WithHash, WithBytes
<1>2. WithBytes(bytes) \subseteq b \cup d
  BY DEF WithHash, WithBytes, FilesTypeOK, Path
<1>3. FirstOf(<<a, b, c, d>>) =
        IF a # {} THEN a ELSE IF b # {} THEN b ELSE IF c # {} THEN c ELSE d
  <2> HIDE DEF a, b, c, d
  <2> QED BY FirstOfFour
<1>4. FirstOf(<<a, c, b, d>>) =
        IF a # {} THEN a ELSE IF c # {} THEN c ELSE IF b # {} THEN b ELSE d
  <2> HIDE DEF a, b, c, d
  <2> QED BY FirstOfFour
<1>5. ByHash(u, bytes) = IF bytes = Null THEN {} ELSE FirstOf(<<a, b, c, d>>)
  BY DEF ByHash
<1>6. AdminByHash(u, bytes) = IF bytes = Null THEN {} ELSE FirstOf(<<a, c, b, d>>)
  BY DEF AdminByHash
<1> HIDE DEF a, b, c, d
<1> QED BY <1>1, <1>2, <1>3, <1>4, <1>5, <1>6

\* The names go before the hashes.
LEMMA ResolvedIs ==
  ASSUME NEW u, NEW names
  PROVE  ResolveDocumentPath(u, names) =
           IF ByName(u, names.final) # {} THEN ByName(u, names.final)
           ELSE IF ByName(u, names.name) # {} THEN ByName(u, names.name)
           ELSE IF ByHash(u, names.hash) # {} THEN ByHash(u, names.hash)
           ELSE ByHash(u, names.original)
BY FirstOfFour DEF ResolveDocumentPath

\* What resolveDocumentPath returns exists.
LEMMA FoundExists ==
  ASSUME FilesTypeOK, NEW row \in Document, NEW p \in Latest(row) \cup OriginalOf(row)
  PROVE  p \in DOMAIN disk
<1>1. row.owner \in Users
  BY DEF Document
<1>2. \A name : ByName(row.owner, name) \subseteq DOMAIN disk
  BY ByNameIs
<1>3. \A bytes : ByHash(row.owner, bytes) \subseteq DOMAIN disk
  BY <1>1, ByHashIs DEF WithBytes
<1> QED BY <1>2, <1>3, ResolvedIs DEF Latest, OriginalOf

-----------------------------------------------------------------------------
(* Types *)

Steps == {"idle", "uploadCreate", "open", "source", "save", "record",
          "deleteFile", "deleteRow", "done", "failed"}

\* A request moves on to a step for which it has read what that needs.
LEMMA GotoTypes ==
  ASSUME FilesTypeOK, EveryoneCarries, NEW r \in Requests, NEW step \in Steps,
         NEW s \in Snapshot, Goto(r, step, s), Carries(step, s)
  PROVE  pc' \in [Requests -> Steps] /\ snap' \in [Requests -> Snapshot] /\ EveryoneCarries'
<1>1. pc \in [Requests -> Steps] /\ snap \in [Requests -> Snapshot]
  BY DEF FilesTypeOK, Steps
<1>2. \A q \in Requests :
        /\ pc'[q] = IF q = r THEN step ELSE pc[q]
        /\ snap'[q] = IF q = r THEN s ELSE snap[q]
  BY <1>1 DEF Goto
<1>3. \A q \in Requests : Carries(pc'[q], snap'[q])
  BY <1>2 DEF EveryoneCarries
<1> QED BY <1>1, <1>3 DEF Goto, EveryoneCarries

\* Who has finished carries nothing.
LEMMA NothingCarried ==
  NothingRead \in Snapshot /\ Carries("done", NothingRead)
BY DEF NothingRead, Snapshot, Carries, Working

\* A file that is written has a type, a row that is updated too.
LEMMA WriteTypes ==
  ASSUME FilesTypeOK, NEW path \in Path, NEW bytes \in Bytes, Write(path, bytes)
  PROVE  DOMAIN disk' \subseteq Path /\ \A p \in DOMAIN disk' : disk'[p] \in Bytes
BY DEF FilesTypeOK, Write

LEMMA UpdateTypes ==
  ASSUME FilesTypeOK, FewDocuments, NEW d \in Requests, NEW row,
         docs[d] # Null => row \in Document, Update(d, row)
  PROVE  docs' \in [Requests -> Document \cup {Null}] /\ FewDocuments'
<1>1. docs' \in [Requests -> Document \cup {Null}]
  BY DEF FilesTypeOK, Update
<1>2. Documents' \subseteq Documents
  BY DEF FilesTypeOK, Update, Documents
<1> QED BY <1>1, <1>2, FS_Subset DEF FewDocuments

\* At first there are no rows and no files.
LEMMA FilesTypesInit == FilesInit => TypesInv
<1> SUFFICES ASSUME FilesInit PROVE TypesInv
  OBVIOUS
<1>1. Documents = {}
  BY DEF FilesInit, Documents
<1>2. FewDocuments
  BY <1>1, FS_EmptySet DEF FewDocuments
<1>3. FilesTypeOK
  BY NothingCarried DEF FilesInit, FilesTypeOK
<1>4. EveryoneCarries
  BY DEF FilesInit, EveryoneCarries, Carries, Working
<1> QED BY <1>2, <1>3, <1>4 DEF TypesInv

\* An upload makes a row of the right type, with a name of its own,
LEMMA UploadReadNamesTypes ==
  ASSUME TypesInv, NEW r \in Requests, NEW u \in Users, NEW name \in Names,
         NEW bytes \in Uploads(r), UploadReadNames(r, u, name, bytes)
  PROVE  TypesInv'
<1> DEFINE unique == BuildUniqueOriginalFileName(u, name)
<1> DEFINE row == [owner |-> u, name |-> unique, original |-> bytes, draft |-> TRUE,
                   signed |-> FALSE, qr |-> FALSE, final |-> Null, hash |-> Null]
<1> DEFINE s == [NothingRead EXCEPT !.handler = "upload", !.doc = r, !.row = row]
<1>1. bytes \in Bytes
  <2>1. <<r>> \in Bytes
    BY DEF Bytes
  <2> QED BY <2>1 DEF Uploads, TypesInv, FilesTypeOK
<1>2. unique \in Seq(Tokens)
  <2>1. Nat \subseteq Tokens /\ name \in Seq(Tokens)
    BY FilesAssumption DEF Tokens
  <2> QED BY <2>1, UniqueName DEF TypesInv
<1>3. row \in Document
  <2> HIDE DEF unique
  <2> QED BY <1>1, <1>2 DEF Document
<1>4. s \in Snapshot /\ s.row = row
  <2> HIDE DEF row
  <2> QED BY <1>3 DEF NothingRead, Snapshot
<1>5. Goto(r, "uploadCreate", s) /\ Write(InDocuments(u, <<r>>), bytes)
      /\ UNCHANGED <<docs, collided>>
  BY DEF UploadReadNames
<1> HIDE DEF s, row
<1>6. Carries("uploadCreate", s)
  BY <1>3, <1>4 DEF Carries, Working
<1>7. InDocuments(u, <<r>>) \in Path
  BY DEF InDocuments, Path, Tokens
<1>8. DOMAIN disk' \subseteq Path /\ \A p \in DOMAIN disk' : disk'[p] \in Bytes
  BY <1>1, <1>5, <1>7, WriteTypes DEF TypesInv
<1>9. pc' \in [Requests -> Steps] /\ snap' \in [Requests -> Snapshot] /\ EveryoneCarries'
  BY <1>4, <1>5, <1>6, GotoTypes DEF TypesInv, Steps
<1>10. FewDocuments' /\ docs' \in [Requests -> Document \cup {Null}]
  BY <1>5 DEF TypesInv, FewDocuments, Documents, FilesTypeOK
<1> QED BY <1>5, <1>8, <1>9, <1>10 DEF TypesInv, FilesTypeOK, Steps

\* which becomes one row more.
LEMMA UploadCreateTypes ==
  ASSUME TypesInv, NEW r \in Requests, UploadCreate(r)
  PROVE  TypesInv'
<1>1. pc[r] = "uploadCreate" /\ Finish(r) /\ UNCHANGED disk
      /\ docs' = [docs EXCEPT ![r] = snap[r].row]
  BY DEF UploadCreate
<1>2. snap[r].row \in Document
  BY <1>1 DEF TypesInv, EveryoneCarries, Carries
<1>3. docs' \in [Requests -> Document \cup {Null}]
  BY <1>1, <1>2 DEF TypesInv, FilesTypeOK
<1>4. Documents' \subseteq Documents \cup {r}
  BY <1>1 DEF Documents, TypesInv, FilesTypeOK
<1>5. FewDocuments'
  BY <1>4, FS_AddElement, FS_Subset DEF TypesInv, FewDocuments
<1>6. pc' \in [Requests -> Steps] /\ snap' \in [Requests -> Snapshot] /\ EveryoneCarries'
  BY <1>1, NothingCarried, GotoTypes DEF TypesInv, Steps, Finish
<1>7. collided' \subseteq collided \cup Documents \cup {r}
  BY DEF UploadCreate, Namesakes
<1>8. collided' \in SUBSET Requests
  BY <1>7 DEF TypesInv, FilesTypeOK, Documents
<1> QED BY <1>1, <1>3, <1>5, <1>6, <1>8 DEF TypesInv, FilesTypeOK, Steps

\* A handler goes to a step that needs no more than the row it has read.
LEMMA ReadTypes ==
  ASSUME TypesInv, NEW r \in Requests, NEW handler \in Handlers, NEW d \in Documents,
         Read(r, handler, d)
  PROVE  TypesInv'
<1> DEFINE s == [NothingRead EXCEPT !.handler = handler, !.doc = d, !.row = docs[d]]
<1> DEFINE step == IF handler \in {"start", "request"} THEN "open"
                   ELSE IF handler = "delete" THEN "deleteFile" ELSE "source"
<1>1. Goto(r, step, s) /\ UNCHANGED <<docs, disk, collided>>
  BY DEF Read
<1>2. d \in Requests /\ docs[d] \in Document
  BY DEF Documents, TypesInv, FilesTypeOK
<1>3. s \in Snapshot /\ s.doc = d /\ s.row = docs[d]
  BY <1>2 DEF NothingRead, Snapshot
<1>4. /\ step \in {"open", "deleteFile", "source"}
      /\ step = "source" => s.handler \in {"request", "sign", "finalizeQr"}
  BY DEF Handlers, NothingRead
<1> HIDE DEF s, step
<1>5. Carries(step, s)
  BY <1>2, <1>3, <1>4 DEF Carries
<1>6. pc' \in [Requests -> Steps] /\ snap' \in [Requests -> Snapshot] /\ EveryoneCarries'
  BY <1>1, <1>3, <1>4, <1>5, GotoTypes DEF TypesInv, Steps
<1> QED BY <1>1, <1>6 DEF TypesInv, FilesTypeOK, Steps, FewDocuments, Documents

\* An update of a column leaves a row a row.
LEMMA OpenTypes ==
  ASSUME TypesInv, NEW r \in Requests, Open(r)
  PROVE  TypesInv'
<1> DEFINE d == snap[r].doc
<1>1. pc[r] = "open" /\ UNCHANGED <<disk, collided>>
  BY DEF Open
<1>2. d \in Requests /\ snap[r].row \in Document /\ snap[r] \in Snapshot
  BY <1>1 DEF TypesInv, EveryoneCarries, Carries, Working, FilesTypeOK
<1>3. Update(d, [docs[d] EXCEPT !.draft = FALSE])
  BY DEF Open
<1>4. docs[d] # Null => [docs[d] EXCEPT !.draft = FALSE] \in Document
  BY <1>2 DEF TypesInv, FilesTypeOK, Document
<1>5. docs' \in [Requests -> Document \cup {Null}] /\ FewDocuments'
  BY <1>2, <1>3, <1>4, UpdateTypes DEF TypesInv
<1>6. \/ snap[r].handler = "request" /\ Goto(r, "source", snap[r])
      \/ Goto(r, "done", NothingRead)
  BY DEF Open, Finish
<1>7. snap[r].handler = "request" => Carries("source", snap[r])
  BY <1>2 DEF Carries, Working
<1>8. pc' \in [Requests -> Steps] /\ snap' \in [Requests -> Snapshot] /\ EveryoneCarries'
  BY <1>2, <1>6, <1>7, NothingCarried, GotoTypes DEF TypesInv, Steps
<1> QED BY <1>1, <1>5, <1>8 DEF TypesInv, FilesTypeOK, Steps

\* What is read to be rewritten exists, hence has contents.
LEMMA ReadSourceTypes ==
  ASSUME TypesInv, NEW r \in Requests, ReadSource(r)
  PROVE  TypesInv'
<1> DEFINE t == snap[r]
<1>1. pc[r] = "source" /\ UNCHANGED <<disk, collided>>
  BY DEF ReadSource
<1>2. t.doc \in Requests /\ t.row \in Document /\ t \in Snapshot
  BY <1>1 DEF TypesInv, EveryoneCarries, Carries, Working, FilesTypeOK
<1> DEFINE paths == IF t.handler = "request" THEN OriginalOf(t.row) ELSE Latest(t.row)
<1>3. CASE Finish(r) /\ UNCHANGED docs
  <2>1. pc' \in [Requests -> Steps] /\ snap' \in [Requests -> Snapshot] /\ EveryoneCarries'
    BY <1>3, NothingCarried, GotoTypes DEF TypesInv, Steps, Finish
  <2> QED BY <1>1, <1>3, <2>1 DEF TypesInv, FilesTypeOK, Steps, FewDocuments, Documents
<1>4. ASSUME NEW path \in paths, Goto(r, "save", [t EXCEPT !.bytes = disk[path]]),
             \/ UNCHANGED docs
             \/ Update(t.doc, [docs[t.doc] EXCEPT !.qr = TRUE])
      PROVE  TypesInv'
  <2> DEFINE s == [t EXCEPT !.bytes = disk[path]]
  <2>1. disk[path] \in Bytes
    BY <1>2, <1>4, FoundExists DEF TypesInv, FilesTypeOK
  <2>2. s \in Snapshot /\ s.doc = t.doc /\ s.row = t.row /\ s.bytes = disk[path]
        /\ s.handler = t.handler
    BY <1>2, <2>1 DEF Snapshot
  <2>3. t.handler \in {"request", "sign", "finalizeQr"}
    BY <1>1 DEF TypesInv, EveryoneCarries, Carries
  <2>4. Carries("save", s)
    BY <1>2, <2>1, <2>2, <2>3 DEF Carries, Working
  <2>5. Goto(r, "save", s)
    BY <1>4
  <2> HIDE DEF s
  <2>6. pc' \in [Requests -> Steps] /\ snap' \in [Requests -> Snapshot] /\ EveryoneCarries'
    BY <2>2, <2>4, <2>5, GotoTypes DEF TypesInv, Steps
  <2>7. docs[t.doc] # Null => [docs[t.doc] EXCEPT !.qr = TRUE] \in Document
    BY <1>2 DEF TypesInv, FilesTypeOK, Document
  <2>8. docs' \in [Requests -> Document \cup {Null}] /\ FewDocuments'
    <3>1. CASE UNCHANGED docs
      BY <3>1 DEF TypesInv, FilesTypeOK, FewDocuments, Documents
    <3>2. CASE Update(t.doc, [docs[t.doc] EXCEPT !.qr = TRUE])
      BY <1>2, <2>7, <3>2, UpdateTypes DEF TypesInv
    <3> QED BY <1>4, <3>1, <3>2
  <2> QED BY <1>1, <2>6, <2>8 DEF TypesInv, FilesTypeOK, Steps
<1> QED BY <1>3, <1>4 DEF ReadSource

\* Where a file is written there is a path.
LEMMA TargetTypes ==
  ASSUME NEW s \in Snapshot, s.row \in Document, s.doc \in Requests
  PROVE  /\ Target(s) \in Path /\ Target(s).name \in Seq(Tokens)
         /\ Target(s).user = s.row.owner
<1>1. s.row.owner \in Users /\ s.row.name \in Seq(Tokens)
  BY DEF Document
<1>2. /\ BuildSignedPdfFileName(s.row.name) \in Seq(Tokens)
      /\ PreRenderedName(s.doc) \in Seq(Tokens)
  BY <1>1, SignedNameIs, PreRenderedNameIs
<1> QED BY <1>1, <1>2 DEF Target, InDocuments, InSigned, Path

\* A request adds itself to what it saves.
LEMMA SaveFileTypes ==
  ASSUME TypesInv, NEW r \in Requests, SaveFile(r)
  PROVE  TypesInv'
<1> DEFINE t == snap[r]
           bytes == Append(t.bytes, r)
           s == [t EXCEPT !.bytes = bytes]
<1>1. pc[r] = "save" /\ Write(Target(t), bytes) /\ Goto(r, "record", s)
      /\ UNCHANGED <<docs, collided>>
  BY DEF SaveFile
<1>2. /\ t.doc \in Requests /\ t.row \in Document /\ t \in Snapshot /\ t.bytes \in Bytes
      /\ t.handler \in {"request", "sign", "finalizeQr"}
  BY <1>1 DEF TypesInv, EveryoneCarries, Carries, Working, FilesTypeOK
<1>3. bytes \in Bytes
  BY <1>2 DEF Bytes
<1> HIDE DEF bytes
<1>4. s \in Snapshot /\ s.doc = t.doc /\ s.row = t.row /\ s.bytes = bytes
      /\ s.handler = t.handler
  BY <1>2, <1>3 DEF Snapshot
<1> HIDE DEF s
<1>5. Carries("record", s)
  BY <1>2, <1>3, <1>4 DEF Carries, Working
<1>6. pc' \in [Requests -> Steps] /\ snap' \in [Requests -> Snapshot] /\ EveryoneCarries'
  BY <1>1, <1>4, <1>5, GotoTypes DEF TypesInv, Steps
<1>7. Target(t) \in Path
  BY <1>2, TargetTypes
<1>8. DOMAIN disk' \subseteq Path /\ \A p \in DOMAIN disk' : disk'[p] \in Bytes
  BY <1>1, <1>3, <1>7, WriteTypes DEF TypesInv
<1> QED BY <1>1, <1>6, <1>8 DEF TypesInv, FilesTypeOK, Steps, FewDocuments, Documents

\* The row once the file is recorded.
Recorded(s) ==
  [docs[s.doc] EXCEPT
     !.final = Target(s).name, !.hash = s.bytes, !.qr = TRUE,
     !.signed = @ \/ s.handler = "sign", !.draft = @ /\ s.handler # "sign"]

\* It differs from the old one in what finalizeQr and signDocument write.
LEMMA RecordedIs ==
  ASSUME FilesTypeOK, NEW s \in Snapshot, s.row \in Document, s.doc \in Documents,
         s.bytes \in Bytes
  PROVE  LET row == docs[s.doc]
             new == Recorded(s)
         IN  /\ new \in Document /\ row \in Document
             /\ new.owner = row.owner /\ new.name = row.name /\ new.original = row.original
             /\ new.final = Target(s).name /\ new.hash = s.bytes
<1>1. s.doc \in Requests /\ docs[s.doc] \in Document
  BY DEF FilesTypeOK, Documents
<1>2. Target(s).name \in Seq(Tokens)
  BY <1>1, TargetTypes
<1> DEFINE row == docs[s.doc]
           signed == row.signed \/ s.handler = "sign"
           draft == row.draft /\ s.handler # "sign"
<1>3. /\ row \in Document /\ row.signed \in BOOLEAN /\ row.draft \in BOOLEAN
      /\ signed \in BOOLEAN /\ draft \in BOOLEAN
  BY <1>1 DEF Document
<1>4. Recorded(s) = [row EXCEPT !.final = Target(s).name, !.hash = s.bytes, !.qr = TRUE,
                                !.signed = signed, !.draft = draft]
  BY DEF Recorded
<1> HIDE DEF row, signed, draft
<1>5. LET new == Recorded(s)
      IN  /\ new \in Document /\ new.owner = row.owner /\ new.name = row.name
          /\ new.original = row.original /\ new.final = Target(s).name /\ new.hash = s.bytes
  BY <1>2, <1>3, <1>4 DEF Document
<1> QED BY <1>1, <1>5 DEF row

\* Recording writes a row of the right type.
LEMMA RecordFileTypes ==
  ASSUME TypesInv, NEW r \in Requests, RecordFile(r)
  PROVE  TypesInv'
<1> DEFINE t == snap[r]
<1>1. pc[r] = "record" /\ Finish(r) /\ UNCHANGED <<disk, collided>> /\ Update(t.doc, Recorded(t))
  BY DEF RecordFile, Recorded
<1>2. /\ t.doc \in Requests /\ t.row \in Document /\ t \in Snapshot /\ t.bytes \in Bytes
  BY <1>1 DEF TypesInv, EveryoneCarries, Carries, Working, FilesTypeOK
<1>3. docs[t.doc] # Null => Recorded(t) \in Document
  BY <1>2, RecordedIs DEF TypesInv, Documents
<1>4. docs' \in [Requests -> Document \cup {Null}] /\ FewDocuments'
  BY <1>1, <1>2, <1>3, UpdateTypes DEF TypesInv
<1>5. pc' \in [Requests -> Steps] /\ snap' \in [Requests -> Snapshot] /\ EveryoneCarries'
  BY <1>1, NothingCarried, GotoTypes DEF TypesInv, Steps, Finish
<1> QED BY <1>1, <1>4, <1>5 DEF TypesInv, FilesTypeOK, Steps

\* Deletions leave fewer files,
LEMMA DeleteFileTypes ==
  ASSUME TypesInv, NEW r \in Requests, DeleteFile(r)
  PROVE  TypesInv'
<1>1. pc[r] = "deleteFile" /\ Goto(r, "deleteRow", snap[r]) /\ UNCHANGED <<docs, collided>>
  BY DEF DeleteFile
<1>2. snap[r].doc \in Requests /\ snap[r].row \in Document /\ snap[r] \in Snapshot
  BY <1>1 DEF TypesInv, EveryoneCarries, Carries, Working, FilesTypeOK
<1>3. Carries("deleteRow", snap[r])
  BY <1>2 DEF Carries, Working
<1>4. pc' \in [Requests -> Steps] /\ snap' \in [Requests -> Snapshot] /\ EveryoneCarries'
  BY <1>1, <1>2, <1>3, GotoTypes DEF TypesInv, Steps
<1>5. UNCHANGED disk \/ \E path : Unlink(path)
  BY DEF DeleteFile
<1>6. DOMAIN disk' \subseteq Path /\ \A p \in DOMAIN disk' : disk'[p] \in Bytes
  BY <1>5 DEF Unlink, TypesInv, FilesTypeOK
<1> QED BY <1>1, <1>4, <1>6 DEF TypesInv, FilesTypeOK, Steps, FewDocuments, Documents

\* and fewer rows.
LEMMA DeleteRowTypes ==
  ASSUME TypesInv, NEW r \in Requests, DeleteRow(r)
  PROVE  TypesInv'
<1>1. pc[r] = "deleteRow" /\ Finish(r) /\ UNCHANGED <<disk, collided>>
      /\ docs' = [docs EXCEPT ![snap[r].doc] = Null]
  BY DEF DeleteRow
<1>2. docs' \in [Requests -> Document \cup {Null}]
  BY <1>1 DEF TypesInv, FilesTypeOK
<1>3. Documents' \subseteq Documents
  BY <1>1 DEF TypesInv, FilesTypeOK, Documents
<1>4. pc' \in [Requests -> Steps] /\ snap' \in [Requests -> Snapshot] /\ EveryoneCarries'
  BY <1>1, NothingCarried, GotoTypes DEF TypesInv, Steps, Finish
<1> QED BY <1>1, <1>2, <1>3, <1>4, FS_Subset DEF TypesInv, FilesTypeOK, Steps, FewDocuments

\* Who fails carries nothing either.
LEMMA FilesFailTypes ==
  ASSUME TypesInv, NEW r \in Requests, Fail(r)
  PROVE  TypesInv'
<1>1. Goto(r, "failed", NothingRead) /\ UNCHANGED <<docs, disk, collided>>
  BY DEF Fail
<1>2. NothingRead \in Snapshot /\ Carries("failed", NothingRead)
  BY NothingCarried DEF Carries, Working
<1>3. pc' \in [Requests -> Steps] /\ snap' \in [Requests -> Snapshot] /\ EveryoneCarries'
  BY <1>1, <1>2, GotoTypes DEF TypesInv, Steps
<1> QED BY <1>1, <1>3 DEF TypesInv, FilesTypeOK, Steps, FewDocuments, Documents

\* No step breaks a type.
LEMMA FilesTypesStep == TypesInv /\ [FilesNext]_filesVars => TypesInv'
<1> SUFFICES ASSUME TypesInv, [FilesNext]_filesVars PROVE TypesInv'
  OBVIOUS
<1>1. ASSUME NEW r \in Requests, Receive(r) PROVE TypesInv'
  BY <1>1, UploadReadNamesTypes, ReadTypes DEF Receive
<1>2. ASSUME NEW r \in Requests, Step(r) PROVE TypesInv'
  BY <1>2, UploadCreateTypes, OpenTypes, ReadSourceTypes, SaveFileTypes, RecordFileTypes,
     DeleteFileTypes, DeleteRowTypes DEF Step
<1>3. ASSUME NEW r \in Requests, Fail(r) PROVE TypesInv'
  BY <1>3, FilesFailTypes
<1>4. CASE UNCHANGED filesVars
  BY <1>4 DEF filesVars, TypesInv, FilesTypeOK, EveryoneCarries, FewDocuments, Documents
<1> QED BY <1>1, <1>2, <1>3, <1>4 DEF FilesNext

\* However many requests are handled at once, and whatever the names are: rows,
\* files and snapshots keep their types.
THEOREM FilesTypes == FilesSpec => []TypesInv
BY FilesTypesInit, FilesTypesStep, PTL DEF FilesSpec

\* So are the previews of AdminService those of CertificationService: where its
\* search goes another way it ends at a file with the same contents.
THEOREM AdminPreviewsTheSameHolds == FilesSpec => []AdminPreviewsTheSame
<1>1. ASSUME TypesInv, NEW d \in Documents
      PROVE  {disk[p] : p \in AdminFile(docs[d])} = {disk[p] : p \in Latest(docs[d])}
  <2> DEFINE row == docs[d]
             u == row.owner
  <2>1. FilesTypeOK /\ row \in Document /\ u \in Users
    BY <1>1 DEF TypesInv, FilesTypeOK, Documents, Document
  <2>2. \A bytes : {disk[p] : p \in AdminByHash(u, bytes)}
                       = {disk[p] : p \in ByHash(u, bytes)}
                   /\ (AdminByHash(u, bytes) = {} <=> ByHash(u, bytes) = {})
    <3> SUFFICES ASSUME NEW bytes
                 PROVE  /\ {disk[p] : p \in AdminByHash(u, bytes)}
                             = {disk[p] : p \in ByHash(u, bytes)}
                        /\ AdminByHash(u, bytes) = {} <=> ByHash(u, bytes) = {}
      OBVIOUS
    <3>1. CASE bytes = Null \/ WithBytes(bytes) = {}
      <4>1. AdminByHash(u, bytes) = {} /\ ByHash(u, bytes) = {}
        BY <2>1, <3>1, ByHashIs
      <4> QED BY <4>1
    <3>2. CASE bytes # Null /\ WithBytes(bytes) # {}
      <4>1. /\ AdminByHash(u, bytes) # {} /\ ByHash(u, bytes) # {}
            /\ \A p \in AdminByHash(u, bytes) \cup ByHash(u, bytes) : disk[p] = bytes
        BY <2>1, <3>2, ByHashIs DEF WithBytes
      <4> QED BY <4>1
    <3> QED BY <3>1, <3>2
  <2>3. AdminFile(row) =
          IF ByName(u, row.final) # {} THEN ByName(u, row.final)
          ELSE IF ByName(u, row.name) # {} THEN ByName(u, row.name)
          ELSE IF AdminByHash(u, row.hash) # {} THEN AdminByHash(u, row.hash)
          ELSE AdminByHash(u, row.original)
    BY FirstOfFour DEF AdminFile, AdminResolved
  <2>4. Latest(row) =
          IF ByName(u, row.final) # {} THEN ByName(u, row.final)
          ELSE IF ByName(u, row.name) # {} THEN ByName(u, row.name)
          ELSE IF ByHash(u, row.hash) # {} THEN ByHash(u, row.hash)
          ELSE ByHash(u, row.original)
    BY ResolvedIs DEF Latest
  <2> HIDE DEF row, u
  <2>5. CASE ByName(u, row.final) # {} \/ ByName(u, row.name) # {}
    BY <2>3, <2>4, <2>5 DEF row
  <2>6. CASE ByName(u, row.final) = {} /\ ByName(u, row.name) = {}
    <3>1. CASE ByHash(u, row.hash) # {}
      <4>1. AdminFile(row) = AdminByHash(u, row.hash) /\ Latest(row) = ByHash(u, row.hash)
        BY <2>2, <2>3, <2>4, <2>6, <3>1
      <4> QED BY <2>2, <4>1 DEF row
    <3>2. CASE ByHash(u, row.hash) = {}
      <4>1. AdminFile(row) = AdminByHash(u, row.original)
            /\ Latest(row) = ByHash(u, row.original)
        BY <2>2, <2>3, <2>4, <2>6, <3>2
      <4> QED BY <2>2, <4>1 DEF row
    <3> QED BY <3>1, <3>2
  <2> QED BY <2>5, <2>6
<1>2. TypesInv => AdminPreviewsTheSame
  BY <1>1 DEF AdminPreviewsTheSame
<1> QED BY <1>2, FilesTypes, PTL

-----------------------------------------------------------------------------
(* Paths of files *)

\* Paths are the same when they have the same parts.
LEMMA PathsEqual ==
  ASSUME NEW u, NEW v, NEW m, NEW n
  PROVE  /\ InDocuments(u, m) # InSigned(v, n)
         /\ InDocuments(u, m) = InDocuments(v, n) <=> u = v /\ m = n
         /\ InSigned(u, m) = InSigned(v, n) <=> u = v /\ m = n
BY DEF InDocuments, InSigned

\* The file of a row is its pre-rendered or its signed one.
LEMMA PathIs ==
  ASSUME NEW d \in Requests, NEW row \in Document, RowIs(d, row), row.final # Null
  PROVE  \/ PathOf(d, row) = InDocuments(row.owner, PreRenderedName(d))
         \/ PathOf(d, row) = InSigned(row.owner, BuildSignedPdfFileName(row.name))
BY DEF RowIs, PathOf

\* Two documents whose file is the same are one, or have names that are alike.
LEMMA PathsDiffer ==
  ASSUME NEW d \in Requests, NEW e \in Requests,
         NEW row \in Document, NEW new \in Document, RowIs(d, row), RowIs(e, new),
         row.final # Null, new.final # Null, PathOf(d, row) = PathOf(e, new)
  PROVE  d = e \/ (row.owner = new.owner /\ Sanitised(row.name) = Sanitised(new.name))
<1>1. row.name \in Seq(Tokens) /\ new.name \in Seq(Tokens)
  BY DEF Document
<1>2. /\ \/ PathOf(d, row) = InDocuments(row.owner, PreRenderedName(d))
         \/ PathOf(d, row) = InSigned(row.owner, BuildSignedPdfFileName(row.name))
      /\ \/ PathOf(d, row) = InDocuments(new.owner, PreRenderedName(e))
         \/ PathOf(d, row) = InSigned(new.owner, BuildSignedPdfFileName(new.name))
  <2>1. \/ PathOf(e, new) = InDocuments(new.owner, PreRenderedName(e))
        \/ PathOf(e, new) = InSigned(new.owner, BuildSignedPdfFileName(new.name))
    BY PathIs
  <2> QED BY <2>1, PathIs
<1>3. \/ PreRenderedName(d) = PreRenderedName(e)
      \/ row.owner = new.owner
         /\ BuildSignedPdfFileName(row.name) = BuildSignedPdfFileName(new.name)
  BY <1>2, PathsEqual
<1>4. PreRenderedName(d) = PreRenderedName(e) => d = e
  BY PreRenderedNameIs
<1>5. BuildSignedPdfFileName(row.name) = BuildSignedPdfFileName(new.name) =>
        Sanitised(row.name) = Sanitised(new.name)
  BY <1>1, SignedNamesAlike
<1> QED BY <1>3, <1>4, <1>5

\* None of them is an upload.
LEMMA PathIsNoUpload ==
  ASSUME NEW d \in Requests, NEW row \in Document, RowIs(d, row), row.final # Null,
         NEW u \in Users, NEW r \in Requests
  PROVE  PathOf(d, row) # InDocuments(u, <<r>>)
<1>1. PreRenderedName(d) # <<r>>
  BY PreRenderedNameIs
<1> QED BY <1>1, PathIs DEF InDocuments, InSigned

\* What a request writes is the file its document will have.
LEMMA TargetIs ==
  ASSUME NEW d \in Requests, NEW s \in Snapshot, s.doc = d, NEW row \in Document,
         row.owner = s.row.owner, row.name = s.row.name, row.final = Target(s).name
  PROVE  /\ PathOf(d, row) = Target(s)
         /\ row.final \in {BuildSignedPdfFileName(row.name), PreRenderedName(d)}
<1>1. row.name \in Seq(Tokens)
  BY DEF Document
<1>2. BuildSignedPdfFileName(row.name) # PreRenderedName(d)
  BY <1>1, SignedIsNoOther
<1> QED BY <1>2 DEF Target, PathOf, InDocuments, InSigned

\* It is the file of no document of another name, nor an upload.
LEMMA TargetIsNoOther ==
  ASSUME NEW s \in Snapshot, s.doc \in Requests, s.row \in Document
  PROVE  /\ \A e \in Requests, new \in Document :
              RowIs(e, new) /\ new.final # Null /\ PathOf(e, new) = Target(s)
                => \/ e = s.doc
                   \/ new.owner = s.row.owner /\ Sanitised(new.name) = Sanitised(s.row.name)
         /\ \A u \in Users, r \in Requests : Target(s) # InDocuments(u, <<r>>)
<1> DEFINE row == [s.row EXCEPT !.final = Target(s).name, !.hash = s.row.original,
                                !.signed = FALSE]
<1>1. row \in Document /\ row.owner = s.row.owner /\ row.name = s.row.name
      /\ row.final = Target(s).name /\ row.hash = s.row.original /\ ~row.signed
      /\ row.original = s.row.original
  BY TargetTypes DEF Document
<1>2. s.row.original \in Seq(Requests)
  BY DEF Document, Bytes
<1> HIDE DEF row
<1>3. PathOf(s.doc, row) = Target(s)
      /\ row.final \in {BuildSignedPdfFileName(row.name), PreRenderedName(s.doc)}
  BY <1>1, TargetIs
<1>4. row.final \in Seq(Tokens)
  BY <1>1, TargetTypes
<1>5. row.final # Null /\ row.hash # Null
  <2>1. Requests \subseteq Tokens
    BY DEF Tokens
  <2>2. s.row.original \in Seq(Tokens)
    BY <1>2, <2>1, SeqMonotonic
  <2> QED BY <1>1, <1>4, <2>2, NullIsNoFile
<1>6. RowIs(s.doc, row)
  BY <1>1, <1>3, <1>5 DEF RowIs
<1>7. ASSUME NEW e \in Requests, NEW new \in Document, RowIs(e, new), new.final # Null,
             PathOf(e, new) = Target(s)
      PROVE  e = s.doc \/ (new.owner = s.row.owner /\ Sanitised(new.name) = Sanitised(s.row.name))
  BY <1>1, <1>3, <1>5, <1>6, <1>7, PathsDiffer
<1>8. \A u \in Users, r \in Requests : Target(s) # InDocuments(u, <<r>>)
  BY <1>1, <1>3, <1>5, <1>6, PathIsNoUpload
<1> QED BY <1>7, <1>8

-----------------------------------------------------------------------------
(* One request at a time *)

Sole(r) == \A q \in Requests \ {r} : pc[q] \in {"idle", "done", "failed"}

\* While a request is handled, or begins to be, no other one is.
LEMMA FilesAlone ==
  ASSUME OneByOne, NobodyElse, NEW r \in Requests, r \in InFlight \/ Arrives(r)
  PROVE  Sole(r)
<1>1. CASE r \in InFlight
  BY <1>1 DEF NobodyElse, Sole, InFlight
<1>2. CASE Arrives(r)
  <2>1. IsFiniteSet(InFlight)
    <3>1. CASE InFlight = {}
      BY <3>1, FS_EmptySet
    <3>2. ASSUME NEW q \in InFlight PROVE IsFiniteSet(InFlight)
      <4>1. InFlight = {q}
        BY DEF NobodyElse
      <4> QED BY <4>1, FS_Singleton
    <3> QED BY <3>1, <3>2
  <2>2. Cardinality(InFlight) = 0
    <3>1. Cardinality(InFlight) < 1
      BY <1>2 DEF Arrives, OneByOne
    <3> QED BY <2>1, <3>1, FS_CardinalityType
  <2>3. InFlight = {}
    BY <2>1, <2>2, FS_EmptySet
  <2> QED BY <2>3 DEF Sole, InFlight
<1> QED BY <1>1, <1>2

\* The step of one leaves the others where they were, which is nowhere.
LEMMA SoleMoves ==
  ASSUME FilesTypeOK, NEW r \in Requests, Sole(r), NEW step, NEW s, Goto(r, step, s)
  PROVE  /\ NobodyElse' /\ pc'[r] = step /\ snap'[r] = s
         /\ \A q \in Requests \ {r} :
              pc'[q] = pc[q] /\ snap'[q] = snap[q] /\ pc'[q] \in {"idle", "done", "failed"}
<1>1. pc'[r] = step /\ snap'[r] = s
      /\ \A q \in Requests \ {r} : pc'[q] = pc[q] /\ snap'[q] = snap[q]
  BY DEF FilesTypeOK, Goto
<1> QED BY <1>1 DEF Sole, NobodyElse, InFlight

\* So it is enough that what this one carries fits its next step.
LEMMA StepsKept ==
  ASSUME FilesTypeOK, NEW r \in Requests, Sole(r), NEW step, NEW s, Goto(r, step, s),
         step = "uploadCreate" => UploadIs(r, s)', step \in Working => WorkIs(step, s)'
  PROVE  StepsAre'
<1>1. /\ pc'[r] = step /\ snap'[r] = s
      /\ \A q \in Requests \ {r} : pc'[q] \in {"idle", "done", "failed"}
  BY SoleMoves
<1>2. (pc[r] = "uploadCreate" => UploadIs(r, snap[r]))'
  BY <1>1 DEF UploadIs, NamesOf, Documents
<1>3. (pc[r] \in Working => WorkIs(pc[r], snap[r]))'
  BY <1>1 DEF WorkIs, Documents
<1>4. \A q \in Requests \ {r} : pc'[q] # "uploadCreate" /\ pc'[q] \notin Working
  BY <1>1 DEF Working
<1> QED BY <1>2, <1>3, <1>4 DEF StepsAre

\* No row and no file comes before its upload is done.
LEMMA NotYetKept ==
  ASSUME FilesTypeOK, NotYet, NEW r \in Requests, NEW step, NEW s, Goto(r, step, s),
         pc[r] # "done", step # "idle",
         \A d \in Requests : docs'[d] # Null => docs[d] # Null,
         \A q \in Requests \ {r}, u \in Users :
           InDocuments(u, <<q>>) \in DOMAIN disk' => InDocuments(u, <<q>>) \in DOMAIN disk
  PROVE  NotYet'
<1>1. /\ pc'[r] = step
      /\ \A q \in Requests \ {r} : pc'[q] = pc[q]
  BY DEF FilesTypeOK, Goto
<1> QED BY <1>1 DEF NotYet

\* Rows of which only the status changes.
OnlyStatus ==
  /\ Documents' = Documents
  /\ \A d \in Documents : SameFiles(docs[d], docs'[d]) /\ docs'[d].signed = docs[d].signed

\* They keep all that is about names and files.
LEMMA StatusKeepsRows ==
  ASSUME RowsAre, NamesDiffer, FinalsAreOwn, KnownFiles, OnlyStatus, UNCHANGED <<disk, collided>>
  PROVE  /\ RowsAre' /\ NamesDiffer' /\ FinalsAreOwn' /\ KnownFiles'
         /\ Finals' = Finals /\ \A d \in Finals : FinalPath(d)' = FinalPath(d)
<1>1. Finals' = Finals
  BY DEF OnlyStatus, Finals, SameFiles
<1>2. \A d \in Finals : FinalPath(d)' = FinalPath(d)
  BY DEF OnlyStatus, Finals, SameFiles, FinalPath, PathOf
<1>3. RowsAre'
  BY DEF OnlyStatus, SameFiles, RowsAre, RowIs
<1>4. NamesDiffer'
  BY DEF OnlyStatus, SameFiles, NamesDiffer
<1>5. FinalsAreOwn'
  <2>1. \A d \in Finals : docs'[d].original = docs[d].original /\ docs'[d].hash = docs[d].hash
    BY DEF OnlyStatus, SameFiles, Finals
  <2> QED BY <1>1, <1>2, <2>1 DEF FinalsAreOwn
<1>6. KnownFiles'
  BY DEF KnownFiles
<1> QED BY <1>1, <1>2, <1>3, <1>4, <1>5, <1>6

-----------------------------------------------------------------------------
(* Which files are found *)

\* Nothing is found by a name under which no file is stored.
LEMMA OtherNameNotFound ==
  ASSUME KnownFiles, NEW u, NEW name \in Seq(Tokens), ~IsStoredName(name)
  PROVE  ByName(u, name) = {}
<1>1. InSigned(u, name) \notin DOMAIN disk
  BY OtherNameIsNoFile DEF KnownFiles, InSigned
<1>2. InDocuments(u, name) \notin DOMAIN disk
  BY OtherNameIsNoFile DEF KnownFiles, InDocuments
<1> QED BY <1>1, <1>2, ByNameIs

\* By its final name a document's file is found, if it is there.
LEMMA FinalFound ==
  ASSUME KnownFiles, NEW d \in Requests, NEW row \in Document, RowIs(d, row),
         row.final # Null
  PROVE  ByName(row.owner, row.final) =
           IF PathOf(d, row) \in DOMAIN disk THEN {PathOf(d, row)} ELSE {}
<1> DEFINE u == row.owner
<1>1. row.name \in Seq(Tokens)
  BY DEF Document
<1>2. CASE row.final = PreRenderedName(d)
  <2>1. PathOf(d, row) = InDocuments(u, row.final)
    BY <1>2 DEF PathOf
  <2>2. InSigned(u, row.final) \notin DOMAIN disk
    <3>1. row.final[Len(row.final)] = PreRendered /\ PreRendered # Signed
      BY <1>2, PreRenderedNameIs, FilesAssumption
    <3> QED BY <3>1 DEF KnownFiles, InSigned
  <2> QED BY <2>1, <2>2, ByNameIs
<1>3. CASE row.final = BuildSignedPdfFileName(row.name)
  <2>1. \A e \in Requests : row.final \notin {PreRenderedName(e), <<e>>}
    BY <1>1, <1>3, SignedIsNoOther
  <2>2. PathOf(d, row) = InSigned(u, row.final)
    BY <2>1 DEF PathOf
  <2>3. InDocuments(u, row.final) \notin DOMAIN disk
    BY <2>1 DEF KnownFiles, InDocuments
  <2> QED BY <2>2, <2>3, ByNameIs
<1> QED BY <1>2, <1>3 DEF RowIs

\* The three variants of a document that are served.
LEMMA VariantsAre ==
  ASSUME KnownFiles, NEW d \in Requests, NEW row \in Document, RowIs(d, row),
         ~IsStoredName(row.name)
  PROVE  /\ Latest(row) =
              IF row.final # Null /\ PathOf(d, row) \in DOMAIN disk THEN {PathOf(d, row)}
              ELSE IF ByHash(row.owner, row.hash) # {} THEN ByHash(row.owner, row.hash)
              ELSE ByHash(row.owner, row.original)
         /\ OriginalOf(row) = ByHash(row.owner, row.original)
         /\ SignedVersion(row) =
              IF row.final = Null \/ row.hash = Null \/ ~row.signed THEN {}
              ELSE IF PathOf(d, row) \in DOMAIN disk THEN {PathOf(d, row)}
              ELSE ByHash(row.owner, row.hash)
<1> DEFINE u == row.owner
<1>1. ByName(u, row.name) = {} /\ ByName(u, Null) = {} /\ ByHash(u, Null) = {}
  <2>1. ByName(u, row.name) = {}
    BY OtherNameNotFound DEF Document
  <2> QED BY <2>1, ByNameIs DEF ByHash
<1>2. ByName(u, row.final) =
        IF row.final # Null /\ PathOf(d, row) \in DOMAIN disk THEN {PathOf(d, row)} ELSE {}
  BY <1>1, FinalFound
<1>3. Latest(row) =
        IF ByName(u, row.final) # {} THEN ByName(u, row.final)
        ELSE IF ByName(u, row.name) # {} THEN ByName(u, row.name)
        ELSE IF ByHash(u, row.hash) # {} THEN ByHash(u, row.hash)
        ELSE ByHash(u, row.original)
  BY ResolvedIs DEF Latest
<1>4. OriginalOf(row) = ByHash(u, row.original)
  <2> DEFINE names == [row EXCEPT !.final = Null, !.hash = Null]
  <2>1. names.final = Null /\ names.hash = Null /\ names.name = row.name
        /\ names.original = row.original
    BY DEF Document
  <2>2. OriginalOf(row) = ResolveDocumentPath(u, names)
    BY DEF OriginalOf
  <2> HIDE DEF names
  <2> QED BY <1>1, <2>1, <2>2, ResolvedIs
<1>5. SignedVersion(row) =
        IF row.final = Null \/ row.hash = Null \/ ~row.signed THEN {}
        ELSE IF ByName(u, row.final) # {} THEN ByName(u, row.final) ELSE ByHash(u, row.hash)
  <2> DEFINE names == [row EXCEPT !.name = Null, !.original = Null]
  <2>1. names.final = row.final /\ names.hash = row.hash /\ names.name = Null
        /\ names.original = Null
    BY DEF Document
  <2>2. SignedVersion(row) =
          IF row.final = Null \/ row.hash = Null \/ ~row.signed THEN {}
          ELSE ResolveDocumentPath(u, names)
    BY DEF SignedVersion
  <2> HIDE DEF names
  <2> QED BY <1>1, <2>1, <2>2, ResolvedIs
<1> QED BY <1>1, <1>2, <1>3, <1>4, <1>5

\* The search knows only the columns about files.
LEMMA SameFilesFound ==
  ASSUME NEW row \in Document, NEW new \in Document, SameFiles(row, new)
  PROVE  Latest(row) = Latest(new) /\ OriginalOf(row) = OriginalOf(new)
<1>1. Latest(row) = Latest(new)
  BY ResolvedIs DEF Latest, SameFiles
<1>2. OriginalOf(row) = OriginalOf(new)
  <2> DEFINE old == [row EXCEPT !.final = Null, !.hash = Null]
             other == [new EXCEPT !.final = Null, !.hash = Null]
  <2>1. old.final = other.final /\ old.name = other.name /\ old.hash = other.hash
        /\ old.original = other.original
    BY DEF Document, SameFiles
  <2>2. OriginalOf(row) = ResolveDocumentPath(row.owner, old)
        /\ OriginalOf(new) = ResolveDocumentPath(new.owner, other)
    BY DEF OriginalOf
  <2> HIDE DEF old, other
  <2> QED BY <2>1, <2>2 DEF SameFiles, ResolveDocumentPath
<1> QED BY <1>1, <1>2

\* What is found was made from the upload, if the file by that name was, and
\* what was recorded.
LEMMA FoundIsOwn ==
  ASSUME FilesTypeOK, KnownFiles, NEW d \in Requests, NEW row \in Document, RowIs(d, row),
         ~IsStoredName(row.name), row.hash # Null => IsPrefix(row.original, row.hash),
         row.final # Null /\ PathOf(d, row) \in DOMAIN disk =>
           IsPrefix(row.original, disk[PathOf(d, row)])
  PROVE  \A p \in Latest(row) \cup OriginalOf(row) : IsPrefix(row.original, disk[p])
<1>1. row.owner \in Users /\ row.original \in Bytes
  BY DEF Document
<1>2. \A p \in ByHash(row.owner, row.original) : IsPrefix(row.original, disk[p])
  <2>1. IsPrefix(row.original, row.original)
    BY <1>1, PrefixOfItself DEF Bytes
  <2> QED BY <1>1, <2>1, ByHashIs DEF WithBytes
<1>3. \A p \in ByHash(row.owner, row.hash) : IsPrefix(row.original, disk[p])
  <2>1. row.hash = Null => ByHash(row.owner, row.hash) = {}
    BY <1>1, ByHashIs
  <2> QED BY <1>1, <2>1, ByHashIs DEF WithBytes
<1> QED BY <1>2, <1>3, VariantsAre

\* FilesAreOwn is that for every document that never met another.
LEMMA OwnFilesAreFound ==
  ASSUME TypesInv, OwnInv
  PROVE  FilesAreOwn
<1>1. ASSUME NEW d \in Documents \ collided
      PROVE  \A p \in Latest(docs[d]) \cup OriginalOf(docs[d]) :
               IsPrefix(docs[d].original, disk[p])
  <2>1. d \in Requests /\ docs[d] \in Document
    BY DEF TypesInv, FilesTypeOK, Documents
  <2>2. RowIs(d, docs[d]) /\ KnownFiles /\ FilesTypeOK /\ ~IsStoredName(docs[d].name)
    BY DEF OwnInv, RowsAre, NamesDiffer, TypesInv
  <2>3. docs[d].final # Null =>
          /\ IsPrefix(docs[d].original, docs[d].hash)
          /\ PathOf(d, docs[d]) \in DOMAIN disk =>
               IsPrefix(docs[d].original, disk[PathOf(d, docs[d])])
    BY DEF OwnInv, FinalsAreOwn, Finals, FinalPath
  <2>4. docs[d].hash # Null => docs[d].final # Null
    BY <2>2 DEF RowIs
  <2> QED BY <2>1, <2>2, <2>3, <2>4, FoundIsOwn
<1> QED BY <1>1 DEF FilesAreOwn

-----------------------------------------------------------------------------
(* Files are made from the uploads of their documents *)

\* At first there is nothing to be mixed up.
LEMMA OwnInit == FilesInit => OwnInv
<1> SUFFICES ASSUME FilesInit PROVE OwnInv
  OBVIOUS
<1>1. Documents = {} /\ DOMAIN disk = {} /\ Finals = {} /\ \A r \in Requests : pc[r] = "idle"
  BY DEF FilesInit, Documents, Finals
<1>2. NobodyElse
  BY <1>1 DEF NobodyElse, InFlight
<1>3. NotYet
  BY <1>1 DEF NotYet, Documents
<1>4. StepsAre
  BY <1>1 DEF StepsAre, Working
<1> QED BY <1>1, <1>2, <1>3, <1>4 DEF OwnInv, RowsAre, NamesDiffer, KnownFiles, FinalsAreOwn

\* A new name, a new file.
LEMMA UploadReadNamesOwn ==
  ASSUME OneByOne, TypesInv, OwnInv, NEW r \in Requests, NEW u \in Users,
         NEW name \in Names, NEW bytes \in Uploads(r), UploadReadNames(r, u, name, bytes)
  PROVE  OwnInv'
<1> DEFINE unique == BuildUniqueOriginalFileName(u, name)
<1> DEFINE path == InDocuments(u, <<r>>)
<1>1. PICK s :
        /\ Goto(r, "uploadCreate", s)
        /\ s.row.owner = u /\ s.row.name = unique /\ s.row.original = bytes
        /\ s.row.final = Null /\ s.row.hash = Null /\ ~s.row.signed
  <2> DEFINE row == [owner |-> u, name |-> unique, original |-> bytes, draft |-> TRUE,
                     signed |-> FALSE, qr |-> FALSE, final |-> Null, hash |-> Null]
  <2> DEFINE t == [NothingRead EXCEPT !.handler = "upload", !.doc = r, !.row = row]
  <2>1. Goto(r, "uploadCreate", t)
    BY DEF UploadReadNames
  <2>2. t.row = row
    BY DEF NothingRead
  <2>3. row.owner = u /\ row.name = unique /\ row.original = bytes
        /\ row.final = Null /\ row.hash = Null /\ ~row.signed
    OBVIOUS
  <2> HIDE DEF t, row, unique
  <2> QED BY <2>1, <2>2, <2>3
<1>2. unique \notin NamesOf(u)
  <2>1. Nat \subseteq Tokens /\ name \in Seq(Tokens)
    BY FilesAssumption DEF Tokens
  <2> QED BY <2>1, UniqueName DEF TypesInv
<1> HIDE DEF unique
<1>3. Arrives(r) /\ Write(path, bytes) /\ UNCHANGED <<docs, collided>>
  BY DEF UploadReadNames
<1>4. DOMAIN disk' = DOMAIN disk \cup {path} /\ disk'[path] = bytes
      /\ \A p \in DOMAIN disk \ {path} : disk'[p] = disk[p]
  BY <1>3 DEF Write
<1>5. FilesTypeOK /\ Sole(r)
  BY <1>3, FilesAlone DEF TypesInv, OwnInv
<1>6. UploadIs(r, s)'
  <2>1. RowIs(r, s.row)
    BY <1>1, <1>2 DEF RowIs
  <2>2. NamesOf(u)' = NamesOf(u)
    BY <1>3 DEF NamesOf, Documents
  <2> QED BY <1>1, <1>2, <1>4, <2>1, <2>2 DEF UploadIs, RowIs
<1>7. StepsAre' /\ NobodyElse'
  BY <1>1, <1>5, <1>6, StepsKept, SoleMoves DEF Working
<1>8. NotYet'
  <2>1. \A q \in Requests \ {r}, v \in Users : InDocuments(v, <<q>>) # path
    BY PathsEqual
  <2>2. pc[r] # "done"
    BY <1>3 DEF Arrives
  <2>3. \A q \in Requests \ {r}, v \in Users :
          InDocuments(v, <<q>>) \in DOMAIN disk' => InDocuments(v, <<q>>) \in DOMAIN disk
    BY <1>4, <2>1
  <2>4. \A d \in Requests : docs'[d] # Null => docs[d] # Null
    BY <1>3
  <2> HIDE DEF path
  <2> QED BY <1>1, <1>5, <2>2, <2>3, <2>4, NotYetKept DEF OwnInv
<1>9. KnownFiles'
  BY <1>4 DEF OwnInv, KnownFiles, InDocuments
<1>10. RowsAre' /\ NamesDiffer' /\ Finals' = Finals
  BY <1>3 DEF OwnInv, RowsAre, NamesDiffer, Finals, Documents
<1>11. FinalsAreOwn'
  <2>1. \A d \in Finals : FinalPath(d)' = FinalPath(d) /\ FinalPath(d) # path
    <3>1. \A d \in Finals : d \in Requests /\ docs[d] \in Document /\ RowIs(d, docs[d])
                            /\ docs[d].final # Null
      BY <1>5 DEF Finals, Documents, OwnInv, RowsAre, FilesTypeOK
    <3>2. \A d \in Finals : FinalPath(d) # path
      BY <3>1, PathIsNoUpload DEF FinalPath
    <3> QED BY <1>3, <3>2 DEF FinalPath
  <2> QED BY <1>3, <1>4, <1>10, <2>1 DEF OwnInv, FinalsAreOwn
<1> QED BY <1>7, <1>8, <1>9, <1>10, <1>11 DEF OwnInv

\* The new document has no file of its own yet.
LEMMA UploadCreateOwn ==
  ASSUME OneByOne, TypesInv, OwnInv, NEW r \in Requests, UploadCreate(r)
  PROVE  OwnInv'
<1> DEFINE row == snap[r].row
<1>1. pc[r] = "uploadCreate" /\ Goto(r, "done", NothingRead) /\ UNCHANGED disk
      /\ docs' = [docs EXCEPT ![r] = row]
      /\ collided' = collided \cup Namesakes(row)
                     \cup {d \in {r} : Namesakes(row) # {} \/ IsStoredName(row.name)}
  BY DEF UploadCreate, Finish
<1>2. row \in Document /\ FilesTypeOK /\ r \in InFlight
  BY <1>1 DEF TypesInv, EveryoneCarries, Carries, InFlight
<1>3. docs[r] = Null /\ row # Null /\ UploadIs(r, snap[r])
  BY <1>1, <1>2, NullIsNoFile DEF OwnInv, NotYet, StepsAre
<1>4. Sole(r)
  BY <1>2, FilesAlone DEF OwnInv
<1> HIDE DEF row
<1>5. /\ Documents' = Documents \cup {r} /\ r \notin Documents /\ docs'[r] = row
      /\ \A d \in Documents : docs'[d] = docs[d] /\ d # r
  BY <1>1, <1>2, <1>3 DEF Documents, FilesTypeOK
<1>6. RowIs(r, row) /\ row.final = Null /\ row.name \notin NamesOf(row.owner)
  BY <1>3 DEF UploadIs, row
<1>7. StepsAre' /\ NobodyElse'
  BY <1>1, <1>2, <1>4, StepsKept, SoleMoves DEF Working
<1>8. NotYet'
  <2>1. \A q \in Requests : pc'[q] = IF q = r THEN "done" ELSE pc[q]
    BY <1>1, <1>2 DEF FilesTypeOK, Goto
  <2>2. \A q \in Requests \ {r} : docs'[q] = docs[q]
    BY <1>1, <1>2 DEF FilesTypeOK
  <2> QED BY <1>1, <2>1, <2>2 DEF OwnInv, NotYet
<1>9. RowsAre'
  BY <1>5, <1>6 DEF OwnInv, RowsAre, RowIs
<1>10. NamesDiffer'
  <2>1. \A d \in Documents : docs[d].owner = row.owner => docs[d].name # row.name
    BY <1>6 DEF NamesOf
  <2>2. \A d, e \in Documents' :
          docs'[d].owner = docs'[e].owner /\ docs'[d].name = docs'[e].name => d = e
    BY <1>5, <2>1 DEF OwnInv, NamesDiffer
  <2>3. ASSUME NEW d \in Documents, d \notin collided'
        PROVE  /\ ~IsStoredName(docs[d].name)
               /\ docs[d].owner = row.owner => Sanitised(docs[d].name) # Sanitised(row.name)
               /\ \A e \in Documents :
                    docs[e].owner = docs[d].owner
                      /\ Sanitised(docs[e].name) = Sanitised(docs[d].name)
                      => docs[e].name = docs[d].name
    <3>1. d \in Documents \ collided /\ d \notin Namesakes(row)
      BY <1>1, <2>3
    <3>2. docs[d].owner = row.owner => Sanitised(docs[d].name) # Sanitised(row.name)
      BY <2>1, <3>1 DEF Namesakes
    <3> QED BY <3>1, <3>2 DEF OwnInv, NamesDiffer
  <2>4. ASSUME r \notin collided'
        PROVE  /\ ~IsStoredName(row.name)
               /\ \A e \in Documents :
                    docs[e].owner = row.owner => Sanitised(docs[e].name) # Sanitised(row.name)
    <3>1. Namesakes(row) = {} /\ ~IsStoredName(row.name)
      BY <1>1, <2>4
    <3> QED BY <2>1, <3>1 DEF Namesakes
  <2>5. ASSUME NEW d \in Documents' \ collided'
        PROVE  /\ ~IsStoredName(docs'[d].name)
               /\ \A e \in Documents' :
                    docs'[e].owner = docs'[d].owner
                      /\ Sanitised(docs'[e].name) = Sanitised(docs'[d].name)
                      => docs'[e].name = docs'[d].name
    <3>1. CASE d = r
      BY <1>5, <2>4, <2>5, <3>1
    <3>2. CASE d # r
      BY <1>5, <2>3, <2>5, <3>2
    <3> QED BY <3>1, <3>2
  <2> QED BY <2>2, <2>5 DEF NamesDiffer, IsStoredName, Sanitised
<1>11. KnownFiles'
  BY <1>1 DEF OwnInv, KnownFiles
<1>12. FinalsAreOwn'
  <2>1. Finals' = Finals
    BY <1>5, <1>6 DEF Finals
  <2>2. \A d \in Finals : FinalPath(d)' = FinalPath(d) /\ docs'[d] = docs[d]
    BY <1>5 DEF Finals, FinalPath, PathOf
  <2>3. collided \subseteq collided'
    BY <1>1
  <2> QED BY <1>1, <2>1, <2>2, <2>3 DEF OwnInv, FinalsAreOwn, Finals
<1> QED BY <1>7, <1>8, <1>9, <1>10, <1>11, <1>12 DEF OwnInv

\* A handler starts from the row as it is.
LEMMA ReadOwn ==
  ASSUME OneByOne, TypesInv, OwnInv, NEW r \in Requests,
         NEW handler \in Handlers, NEW d \in Documents, Read(r, handler, d)
  PROVE  OwnInv'
<1>1. Arrives(r) /\ UNCHANGED docs /\ UNCHANGED <<disk, collided>>
  BY DEF Read
<1>2. FilesTypeOK /\ Sole(r)
  BY <1>1, FilesAlone DEF TypesInv, OwnInv
<1>3. PICK step, s :
        /\ step \in {"open", "deleteFile", "source"} /\ Goto(r, step, s)
        /\ s.doc = d /\ s.row = docs[d]
  <2> DEFINE t == [NothingRead EXCEPT !.handler = handler, !.doc = d, !.row = docs[d]]
  <2> DEFINE next == IF handler \in {"start", "request"} THEN "open"
                     ELSE IF handler = "delete" THEN "deleteFile" ELSE "source"
  <2>1. Goto(r, next, t)
    BY DEF Read
  <2>2. t.doc = d /\ t.row = docs[d] /\ next \in {"open", "deleteFile", "source"}
    BY DEF NothingRead
  <2> HIDE DEF t, next
  <2> QED BY <2>1, <2>2
<1>4. WorkIs(step, s)'
  BY <1>1, <1>3 DEF WorkIs, SameFiles, Documents
<1>5. StepsAre' /\ NobodyElse'
  BY <1>1, <1>2, <1>3, <1>4, StepsKept, SoleMoves
<1>6. NotYet'
  BY <1>1, <1>2, <1>3, NotYetKept DEF OwnInv, Arrives
<1>7. OnlyStatus
  BY <1>1 DEF OnlyStatus, SameFiles, Documents
<1> QED BY <1>1, <1>5, <1>6, <1>7, StatusKeepsRows DEF OwnInv

\* The request at work has read a document that is still there.
LEMMA AtWork ==
  ASSUME OneByOne, TypesInv, OwnInv, NEW r \in Requests, pc[r] \in Working
  PROVE  /\ FilesTypeOK /\ Sole(r) /\ WorkIs(pc[r], snap[r])
         /\ snap[r] \in Snapshot /\ snap[r].row \in Document
         /\ snap[r].doc \in Documents /\ snap[r].doc \in Requests
         /\ docs[snap[r].doc] \in Document /\ SameFiles(snap[r].row, docs[snap[r].doc])
         /\ RowIs(snap[r].doc, docs[snap[r].doc])
<1>1. r \in InFlight
  BY DEF Working, InFlight
<1>2. FilesTypeOK /\ Sole(r)
  BY <1>1, FilesAlone DEF TypesInv, OwnInv
<1>3. WorkIs(pc[r], snap[r]) /\ snap[r].row \in Document /\ snap[r] \in Snapshot
  BY DEF OwnInv, StepsAre, TypesInv, EveryoneCarries, Carries, FilesTypeOK
<1>4. snap[r].doc \in Documents /\ SameFiles(snap[r].row, docs[snap[r].doc])
  BY <1>3 DEF WorkIs
<1>5. snap[r].doc \in Requests /\ docs[snap[r].doc] \in Document
  BY <1>2, <1>4 DEF Documents, FilesTypeOK
<1>6. RowIs(snap[r].doc, docs[snap[r].doc])
  BY <1>4 DEF OwnInv, RowsAre
<1> QED BY <1>2, <1>3, <1>4, <1>5, <1>6

\* An update of the row of a document that is there, of its status only.
LEMMA StatusUpdated ==
  ASSUME FilesTypeOK, NEW d \in Documents, NEW row,
         Update(d, row), row \in Document, SameFiles(docs[d], row),
         row.signed = docs[d].signed
  PROVE  OnlyStatus
<1>1. \A e \in Requests : docs'[e] = IF e = d THEN row ELSE docs[e]
  BY DEF Update, Documents, FilesTypeOK
<1>2. Documents' = Documents
  BY <1>1, NullIsNoFile DEF Documents
<1> QED BY <1>1, <1>2 DEF OnlyStatus, SameFiles, Documents

\* Opening a document for signatures is such an update,
LEMMA OpenStatus ==
  ASSUME OneByOne, TypesInv, OwnInv, NEW r \in Requests, Open(r)
  PROVE  OnlyStatus
<1> DEFINE d == snap[r].doc
<1> DEFINE row == [docs[d] EXCEPT !.draft = FALSE]
<1>1. pc[r] \in Working /\ Update(d, row)
  BY DEF Open, Working
<1>2. FilesTypeOK /\ d \in Documents /\ docs[d] \in Document
  BY <1>1, AtWork
<1>3. row \in Document /\ SameFiles(docs[d], row) /\ row.signed = docs[d].signed
  BY <1>2 DEF SameFiles, Document
<1> HIDE DEF d, row
<1> QED BY <1>1, <1>2, <1>3, StatusUpdated

\* so files stay the documents' own.
LEMMA OpenOwn ==
  ASSUME OneByOne, TypesInv, OwnInv, NEW r \in Requests, Open(r)
  PROVE  OwnInv'
<1>1. pc[r] = "open" /\ pc[r] \in Working /\ UNCHANGED <<disk, collided>>
  BY DEF Open, Working
<1>2. FilesTypeOK /\ Sole(r) /\ WorkIs(pc[r], snap[r])
  BY <1>1, AtWork
<1>3. OnlyStatus
  BY OpenStatus
<1>4. PICK step, s :
        step \in {"source", "done"} /\ Goto(r, step, s) /\ (step = "source" => s = snap[r])
  BY DEF Open, Finish
<1>5. step \in Working => WorkIs(step, s)'
  BY <1>2, <1>3, <1>4 DEF WorkIs, Working, OnlyStatus, SameFiles
<1>6. StepsAre' /\ NobodyElse'
  BY <1>2, <1>4, <1>5, StepsKept, SoleMoves
<1>7. NotYet'
  <2>1. \A d \in Requests : docs'[d] # Null => docs[d] # Null
    BY <1>3 DEF OnlyStatus, Documents
  <2> QED BY <1>1, <1>2, <1>4, <2>1, NotYetKept DEF OwnInv
<1> QED BY <1>1, <1>3, <1>6, <1>7, StatusKeepsRows DEF OwnInv

\* Placing the QR code is one too.
LEMMA ReadSourceStatus ==
  ASSUME OneByOne, TypesInv, OwnInv, NEW r \in Requests, ReadSource(r)
  PROVE  OnlyStatus
<1> DEFINE d == snap[r].doc
<1> DEFINE row == [docs[d] EXCEPT !.qr = TRUE]
<1>1. pc[r] \in Working /\ (UNCHANGED docs \/ Update(d, row))
  BY DEF ReadSource, Working, Update
<1>2. FilesTypeOK /\ d \in Documents /\ docs[d] \in Document
  BY <1>1, AtWork
<1>3. row \in Document /\ SameFiles(docs[d], row) /\ row.signed = docs[d].signed
  BY <1>2 DEF SameFiles, Document
<1>4. UNCHANGED docs => OnlyStatus
  BY DEF OnlyStatus, SameFiles, Documents
<1> HIDE DEF d, row
<1> QED BY <1>1, <1>2, <1>3, <1>4, StatusUpdated

\* What is read to be rewritten was made from the upload.
LEMMA ReadSourceOwn ==
  ASSUME OneByOne, TypesInv, OwnInv, NEW r \in Requests, ReadSource(r)
  PROVE  OwnInv'
<1> DEFINE t == snap[r]
           paths == IF t.handler = "request" THEN OriginalOf(t.row) ELSE Latest(t.row)
<1>1. pc[r] = "source" /\ pc[r] \in Working /\ UNCHANGED <<disk, collided>>
  BY DEF ReadSource, Working
<1>2. /\ FilesTypeOK /\ Sole(r) /\ WorkIs(pc[r], t) /\ t \in Snapshot /\ t.row \in Document
      /\ t.doc \in Requests /\ SameFiles(t.row, docs[t.doc]) /\ docs[t.doc] \in Document
      /\ t.doc \in Documents
  BY <1>1, AtWork
<1>3. OnlyStatus
  BY ReadSourceStatus
<1>4. t.doc \notin collided => \A p \in paths : IsPrefix(t.row.original, disk[p])
  <2>1. t.doc \notin collided => \A p \in Latest(docs[t.doc]) \cup OriginalOf(docs[t.doc]) :
          IsPrefix(docs[t.doc].original, disk[p])
    BY <1>2, OwnFilesAreFound DEF FilesAreOwn
  <2> QED BY <1>2, <2>1, SameFilesFound DEF SameFiles
<1>5. PICK step, s :
        /\ step \in {"save", "done"}
        /\ Goto(r, step, s)
        /\ step = "save" =>
             /\ s.doc = t.doc /\ s.row = t.row
             /\ s.doc \notin collided => IsPrefix(s.row.original, s.bytes)
  <2>1. CASE Finish(r)
    BY <2>1 DEF Finish
  <2>2. CASE \E path \in paths : Goto(r, "save", [t EXCEPT !.bytes = disk[path]])
    <3>1. PICK path \in paths : Goto(r, "save", [t EXCEPT !.bytes = disk[path]])
      BY <2>2
    <3> DEFINE new == [t EXCEPT !.bytes = disk[path]]
    <3>2. new.doc = t.doc /\ new.row = t.row /\ new.bytes = disk[path]
      BY <1>2 DEF Snapshot
    <3>3. Goto(r, "save", new) /\ (t.doc \notin collided => IsPrefix(t.row.original, disk[path]))
      BY <1>4, <3>1
    <3> HIDE DEF new
    <3> QED BY <3>2, <3>3
  <2> QED BY <2>1, <2>2 DEF ReadSource
<1> HIDE DEF t, paths
<1>6. step \in Working => WorkIs(step, s)'
  <2> SUFFICES ASSUME step \in Working PROVE WorkIs(step, s)'
    OBVIOUS
  <2>1. /\ step = "save" /\ s.doc = t.doc /\ s.row = t.row
        /\ s.doc \notin collided => IsPrefix(s.row.original, s.bytes)
    BY <1>5 DEF Working
  <2>2. s.doc \in Documents' /\ SameFiles(s.row, docs'[s.doc])
    BY <1>2, <1>3, <2>1 DEF OnlyStatus, SameFiles
  <2> QED BY <1>1, <2>1, <2>2 DEF WorkIs, SameFiles
<1>7. StepsAre' /\ NobodyElse'
  BY <1>2, <1>5, <1>6, StepsKept, SoleMoves
<1>8. NotYet'
  <2>1. \A d \in Requests : docs'[d] # Null => docs[d] # Null
    BY <1>3 DEF OnlyStatus, Documents
  <2> QED BY <1>1, <1>2, <1>5, <2>1, NotYetKept DEF OwnInv
<1> QED BY <1>1, <1>3, <1>7, <1>8, StatusKeepsRows DEF OwnInv

\* What a request writes is the file of no other document that never met one, and
\* no upload.
LEMMA TargetAtWork ==
  ASSUME OneByOne, TypesInv, OwnInv, NEW r \in Requests, pc[r] \in Working
  PROVE  /\ \A d \in Finals \ collided : FinalPath(d) = Target(snap[r]) => d = snap[r].doc
         /\ \A u \in Users, q \in Requests : Target(snap[r]) # InDocuments(u, <<q>>)
<1> DEFINE t == snap[r]
<1>1. /\ FilesTypeOK /\ t \in Snapshot /\ t.row \in Document /\ t.doc \in Requests
      /\ t.doc \in Documents /\ SameFiles(t.row, docs[t.doc]) /\ RowIs(t.doc, docs[t.doc])
  BY AtWork
<1>3. ASSUME NEW d \in Finals \ collided, FinalPath(d) = Target(t)
      PROVE  d = t.doc
  <2>1. d \in Requests /\ docs[d] \in Document /\ RowIs(d, docs[d]) /\ docs[d].final # Null
        /\ d \in Documents
    BY <1>1 DEF Finals, Documents, FilesTypeOK, OwnInv, RowsAre
  <2>2. \/ d = t.doc
        \/ docs[d].owner = t.row.owner /\ Sanitised(docs[d].name) = Sanitised(t.row.name)
    BY <1>1, <1>3, <2>1, TargetIsNoOther DEF FinalPath
  <2> QED BY <1>1, <2>1, <2>2 DEF SameFiles, OwnInv, NamesDiffer
<1> QED BY <1>1, <1>3, TargetIsNoOther

\* So what is saved changes only the file of its own document.
LEMMA SaveFileOwn ==
  ASSUME OneByOne, TypesInv, OwnInv, NEW r \in Requests, SaveFile(r)
  PROVE  OwnInv'
<1> DEFINE t == snap[r]
           path == Target(t)
<1>1. pc[r] = "save" /\ pc[r] \in Working /\ UNCHANGED <<docs, collided>>
  BY DEF SaveFile, Working
<1>2. /\ FilesTypeOK /\ Sole(r) /\ WorkIs("save", t) /\ t \in Snapshot /\ t.row \in Document
      /\ t.doc \in Documents /\ SameFiles(t.row, docs[t.doc]) /\ t.doc \in Requests
      /\ RowIs(t.doc, docs[t.doc])
  BY <1>1, AtWork
<1>3. t.bytes \in Bytes
  BY <1>1 DEF TypesInv, EveryoneCarries, Carries
<1>4. PICK bytes, s :
        /\ bytes \in Bytes
        /\ Goto(r, "record", s) /\ Write(path, bytes)
        /\ s.bytes = bytes /\ s.doc = t.doc /\ s.row = t.row /\ s.handler = t.handler
        /\ t.doc \notin collided => IsPrefix(t.row.original, bytes)
  <2> DEFINE new == Append(t.bytes, r)
             u == [t EXCEPT !.bytes = new]
  <2>1. new \in Bytes
    BY <1>3 DEF Bytes
  <2>2. t.doc \notin collided => IsPrefix(t.row.original, new)
    <3> SUFFICES ASSUME t.doc \notin collided PROVE IsPrefix(t.row.original, new)
      OBVIOUS
    <3>1. t.row.original \in Seq(Requests) /\ t.bytes \in Seq(Requests)
      BY <1>2, <1>3 DEF Document, Bytes
    <3>2. IsPrefix(t.row.original, t.bytes)
      BY <1>2 DEF WorkIs
    <3> QED BY <3>1, <3>2, PrefixGrows
  <2> HIDE DEF new
  <2>3. u.bytes = new /\ u.doc = t.doc /\ u.row = t.row /\ u.handler = t.handler
    BY <1>2 DEF Snapshot
  <2>4. Goto(r, "record", u) /\ Write(path, new)
    BY DEF SaveFile, new
  <2> HIDE DEF u
  <2> QED BY <2>1, <2>2, <2>3, <2>4
<1>5. /\ \A d \in Finals \ collided : FinalPath(d) = path => d = t.doc
      /\ \A u \in Users, q \in Requests : path # InDocuments(u, <<q>>)
  BY <1>1, TargetAtWork
<1>6. DOMAIN disk' = DOMAIN disk \cup {path} /\ disk'[path] = bytes
      /\ \A p \in DOMAIN disk \ {path} : disk'[p] = disk[p]
  BY <1>4 DEF Write
<1>7. Target(s) = path
  BY <1>4 DEF Target
<1>8. \/ path.dir = "documents" /\ path.name = PreRenderedName(t.doc)
      \/ path.dir = "signed" /\ path.name # <<>> /\ path.name[Len(path.name)] = Signed
  <2>1. t.row.name \in Seq(Tokens)
    BY <1>2 DEF Document
  <2> QED BY <2>1, SignedNameIs DEF Target, InDocuments, InSigned
<1> HIDE DEF path
<1>10. WorkIs("record", s)'
  <2>1. s.doc \in Documents' /\ SameFiles(s.row, docs'[s.doc])
    BY <1>1, <1>2, <1>4 DEF Documents
  <2>2. Target(s) \in DOMAIN disk' /\ disk'[Target(s)] = s.bytes
    BY <1>4, <1>6, <1>7
  <2> QED BY <1>1, <1>4, <2>1, <2>2 DEF WorkIs, SameFiles
<1>11. StepsAre' /\ NobodyElse'
  BY <1>2, <1>4, <1>10, StepsKept, SoleMoves
<1>12. NotYet'
  <2>1. \A q \in Requests \ {r}, v \in Users :
          InDocuments(v, <<q>>) \in DOMAIN disk' => InDocuments(v, <<q>>) \in DOMAIN disk
    BY <1>5, <1>6
  <2>2. \A d \in Requests : docs'[d] # Null => docs[d] # Null
    BY <1>1
  <2> QED BY <1>1, <1>2, <1>4, <2>1, <2>2, NotYetKept DEF OwnInv
<1>13. KnownFiles'
  BY <1>2, <1>6, <1>8 DEF OwnInv, KnownFiles
<1>14. RowsAre' /\ NamesDiffer' /\ Finals' = Finals
       /\ \A d \in Finals : FinalPath(d)' = FinalPath(d)
  BY <1>1 DEF OwnInv, RowsAre, NamesDiffer, Finals, Documents, FinalPath
<1>15. FinalsAreOwn'
  <2>1. ASSUME NEW d \in Finals \ collided, FinalPath(d) \in DOMAIN disk'
        PROVE  IsPrefix(docs[d].original, disk'[FinalPath(d)])
    <3>1. CASE FinalPath(d) = path
      BY <1>2, <1>4, <1>5, <1>6, <3>1 DEF SameFiles
    <3>2. CASE FinalPath(d) # path
      BY <1>6, <2>1, <3>2 DEF OwnInv, FinalsAreOwn
    <3> QED BY <3>1, <3>2
  <2> QED BY <1>1, <1>14, <2>1 DEF OwnInv, FinalsAreOwn
<1> QED BY <1>11, <1>12, <1>13, <1>14, <1>15 DEF OwnInv

\* The row then names the file that was saved.
LEMMA RecordFileIs ==
  ASSUME OneByOne, TypesInv, OwnInv, NEW r \in Requests, RecordFile(r)
  PROVE  LET t == snap[r]
             d == t.doc
         IN  /\ pc[r] = "record" /\ pc[r] \in Working /\ Goto(r, "done", NothingRead)
             /\ UNCHANGED <<disk, collided>> /\ Documents' = Documents /\ d \in Documents
             /\ \A e \in Requests \ {d} : docs'[e] = docs[e]
             /\ docs'[d].owner = docs[d].owner /\ docs'[d].name = docs[d].name
             /\ docs'[d].original = docs[d].original
             /\ docs'[d].final # Null /\ docs'[d].hash = t.bytes /\ RowIs(d, docs'[d])
             /\ PathOf(d, docs'[d]) = Target(t) /\ Target(t) \in DOMAIN disk
             /\ disk[Target(t)] = t.bytes
             /\ d \notin collided => IsPrefix(docs[d].original, t.bytes)
<1> DEFINE t == snap[r]
           d == t.doc
           row == Recorded(t)
<1>1. /\ pc[r] = "record" /\ pc[r] \in Working /\ Goto(r, "done", NothingRead)
      /\ UNCHANGED <<disk, collided>> /\ Update(d, row)
  BY DEF RecordFile, Recorded, Working, Finish
<1>2. /\ FilesTypeOK /\ WorkIs("record", t) /\ t \in Snapshot /\ t.row \in Document
      /\ d \in Documents /\ SameFiles(t.row, docs[d]) /\ d \in Requests
      /\ RowIs(d, docs[d])
  BY <1>1, AtWork
<1>3. t.bytes \in Bytes
  BY <1>1 DEF TypesInv, EveryoneCarries, Carries
<1>4. /\ row \in Document /\ docs[d] \in Document
      /\ row.owner = docs[d].owner /\ row.name = docs[d].name
      /\ row.original = docs[d].original
      /\ row.final = Target(t).name /\ row.hash = t.bytes
  BY <1>2, <1>3, RecordedIs
<1>5. row.final # Null /\ row.hash # Null
  <2>1. Requests \subseteq Tokens
    BY DEF Tokens
  <2>2. t.bytes \in Seq(Tokens)
    BY <1>3, <2>1, SeqMonotonic DEF Bytes
  <2>3. Target(t).name \in Seq(Tokens)
    BY <1>2, TargetTypes
  <2> HIDE DEF row, t
  <2> QED BY <1>4, <2>2, <2>3, NullIsNoFile
<1> HIDE DEF row
<1>6. \A e \in Requests : docs'[e] = IF e = d THEN row ELSE docs[e]
  BY <1>1, <1>2 DEF Update, Documents, FilesTypeOK
<1>7. Documents' = Documents
  BY <1>2, <1>4, <1>6, NullIsNoFile DEF Documents
<1>8. /\ Target(t) \in DOMAIN disk /\ disk[Target(t)] = t.bytes
      /\ d \notin collided => IsPrefix(docs[d].original, t.bytes)
  BY <1>2 DEF WorkIs, SameFiles
<1>9. PathOf(d, row) = Target(t)
      /\ row.final \in {BuildSignedPdfFileName(row.name), PreRenderedName(d)}
  BY <1>2, <1>4, TargetIs DEF SameFiles
<1>10. RowIs(d, row)
  BY <1>2, <1>4, <1>5, <1>8, <1>9 DEF RowIs
<1>11. docs'[d] = row
  BY <1>2, <1>6
<1> QED BY <1>1, <1>2, <1>4, <1>5, <1>6, <1>7, <1>8, <1>9, <1>10, <1>11

\* Hence the file it names was made from its upload.
LEMMA RecordFileOwn ==
  ASSUME OneByOne, TypesInv, OwnInv, NEW r \in Requests, RecordFile(r)
  PROVE  OwnInv'
<1>1. PICK t, d : t = snap[r] /\ d = t.doc
  OBVIOUS
<1>2. /\ pc[r] = "record" /\ pc[r] \in Working /\ Goto(r, "done", NothingRead)
      /\ UNCHANGED <<disk, collided>> /\ Documents' = Documents /\ d \in Documents
      /\ \A e \in Requests \ {d} : docs'[e] = docs[e]
      /\ docs'[d].owner = docs[d].owner /\ docs'[d].name = docs[d].name
      /\ docs'[d].original = docs[d].original
      /\ docs'[d].final # Null /\ docs'[d].hash = t.bytes /\ RowIs(d, docs'[d])
      /\ PathOf(d, docs'[d]) = Target(t) /\ Target(t) \in DOMAIN disk
      /\ disk[Target(t)] = t.bytes
      /\ d \notin collided => IsPrefix(docs[d].original, t.bytes)
  BY <1>1, RecordFileIs
<1>3. FilesTypeOK /\ Sole(r)
  BY <1>2, AtWork
<1>4. StepsAre' /\ NobodyElse'
  BY <1>2, <1>3, StepsKept, SoleMoves DEF Working
<1>5. \A e \in Documents : e \in Requests /\ (e # d => docs'[e] = docs[e])
  BY <1>2 DEF Documents
<1>6. RowsAre'
  BY <1>2, <1>5 DEF OwnInv, RowsAre, RowIs
<1>7. NamesDiffer'
  BY <1>2, <1>5 DEF OwnInv, NamesDiffer
<1>8. NotYet'
  <2>1. \A e \in Requests : docs'[e] # Null => docs[e] # Null
    BY <1>2 DEF Documents
  <2> QED BY <1>2, <1>3, <2>1, NotYetKept DEF OwnInv
<1>9. KnownFiles'
  BY <1>2 DEF OwnInv, KnownFiles
<1>10. FinalsAreOwn'
  <2>1. ASSUME NEW e \in Finals' \ collided
        PROVE  /\ IsPrefix(docs'[e].original, docs'[e].hash)
               /\ PathOf(e, docs'[e]) \in DOMAIN disk =>
                    IsPrefix(docs'[e].original, disk[PathOf(e, docs'[e])])
    <3>1. CASE e = d
      BY <1>2, <3>1
    <3>2. CASE e # d
      <4>1. e \in Finals /\ docs'[e] = docs[e]
        BY <1>2, <1>5, <3>2 DEF Finals
      <4> QED BY <2>1, <4>1 DEF OwnInv, FinalsAreOwn, FinalPath
    <3> QED BY <3>1, <3>2
  <2> QED BY <1>2, <2>1 DEF FinalsAreOwn, FinalPath, PathOf
<1> QED BY <1>4, <1>6, <1>7, <1>8, <1>9, <1>10 DEF OwnInv

\* The deletion of a draft unlinks what is found, or nothing,
LEMMA DeleteFileIs ==
  ASSUME OneByOne, TypesInv, OwnInv, NEW r \in Requests, DeleteFile(r)
  PROVE  LET found == Latest(docs[snap[r].doc])
         IN  /\ pc[r] = "deleteFile" /\ pc[r] \in Working /\ UNCHANGED <<docs, collided>>
             /\ Goto(r, "deleteRow", snap[r])
             /\ \/ found = {} /\ UNCHANGED disk
                \/ \E path \in found : Unlink(path)
<1>1. pc[r] = "deleteFile" /\ pc[r] \in Working
  BY DEF DeleteFile, Working
<1>2. Latest(snap[r].row) = Latest(docs[snap[r].doc])
  BY <1>1, AtWork, SameFilesFound
<1> QED BY <1>1, <1>2 DEF DeleteFile

\* which leaves the others' files theirs,
LEMMA DeleteFileOwn ==
  ASSUME OneByOne, TypesInv, OwnInv, NEW r \in Requests, DeleteFile(r)
  PROVE  OwnInv'
<1>1. /\ pc[r] = "deleteFile" /\ pc[r] \in Working /\ UNCHANGED <<docs, collided>>
      /\ Goto(r, "deleteRow", snap[r])
  BY DeleteFileIs
<1>2. DOMAIN disk' \subseteq DOMAIN disk /\ \A p \in DOMAIN disk' : disk'[p] = disk[p]
  BY DEF DeleteFile, Unlink
<1>3. PICK s : s = snap[r]
  OBVIOUS
<1>4. FilesTypeOK /\ Sole(r) /\ WorkIs("deleteFile", s)
  BY <1>1, <1>3, AtWork
<1>5. WorkIs("deleteRow", s)'
  BY <1>1, <1>4 DEF WorkIs, SameFiles, Documents
<1>6. StepsAre' /\ NobodyElse'
  BY <1>1, <1>3, <1>4, <1>5, StepsKept, SoleMoves
<1>7. NotYet'
  BY <1>1, <1>2, <1>4, NotYetKept DEF OwnInv
<1>8. RowsAre' /\ NamesDiffer' /\ KnownFiles'
  BY <1>1, <1>2 DEF OwnInv, RowsAre, NamesDiffer, KnownFiles, Documents
<1>9. FinalsAreOwn'
  BY <1>1, <1>2 DEF OwnInv, FinalsAreOwn, Finals, FinalPath, Documents
<1> QED BY <1>6, <1>7, <1>8, <1>9 DEF OwnInv

\* and then its row.
LEMMA DeleteRowOwn ==
  ASSUME OneByOne, TypesInv, OwnInv, NEW r \in Requests, DeleteRow(r)
  PROVE  OwnInv'
<1>1. PICK d : d = snap[r].doc
  OBVIOUS
<1>2. /\ pc[r] = "deleteRow" /\ pc[r] \in Working /\ UNCHANGED <<disk, collided>>
      /\ Goto(r, "done", NothingRead) /\ docs' = [docs EXCEPT ![d] = Null]
  BY <1>1 DEF DeleteRow, Finish, Working
<1>3. FilesTypeOK /\ Sole(r) /\ d \in Requests
  BY <1>1, <1>2, AtWork
<1>4. \A e \in Requests : docs'[e] = IF e = d THEN Null ELSE docs[e]
  BY <1>2, <1>3 DEF FilesTypeOK
<1>5. Documents' = Documents \ {d} /\ \A e \in Documents' : docs'[e] = docs[e] /\ e \in Documents
  BY <1>4 DEF Documents
<1>6. StepsAre' /\ NobodyElse'
  BY <1>2, <1>3, StepsKept, SoleMoves DEF Working
<1>7. NotYet'
  BY <1>2, <1>3, <1>4, NotYetKept DEF OwnInv
<1>8. RowsAre'
  BY <1>5 DEF OwnInv, RowsAre, RowIs
<1>9. NamesDiffer'
  BY <1>2, <1>5 DEF OwnInv, NamesDiffer
<1>10. KnownFiles'
  BY <1>2 DEF OwnInv, KnownFiles
<1>11. FinalsAreOwn'
  <2>1. \A e \in Finals' : e \in Finals /\ docs'[e] = docs[e]
    BY <1>5 DEF Finals
  <2> QED BY <1>2, <2>1 DEF OwnInv, FinalsAreOwn, FinalPath, PathOf
<1> QED BY <1>6, <1>7, <1>8, <1>9, <1>10, <1>11 DEF OwnInv

\* A failure changes no row and no file.
LEMMA FilesFailOwn ==
  ASSUME OneByOne, TypesInv, OwnInv, NEW r \in Requests, Fail(r)
  PROVE  OwnInv'
<1>1. PICK s : s = NothingRead
  OBVIOUS
<1>2. r \in InFlight /\ Goto(r, "failed", s) /\ UNCHANGED docs /\ UNCHANGED <<disk, collided>>
  BY <1>1 DEF Fail
<1>3. FilesTypeOK /\ Sole(r)
  BY <1>2, FilesAlone DEF TypesInv, OwnInv
<1>4. StepsAre' /\ NobodyElse'
  BY <1>2, <1>3, StepsKept, SoleMoves DEF Working
<1>5. NotYet'
  BY <1>2, <1>3, NotYetKept DEF OwnInv, InFlight
<1>6. OnlyStatus
  BY <1>2 DEF OnlyStatus, SameFiles, Documents
<1> QED BY <1>2, <1>4, <1>5, <1>6, StatusKeepsRows DEF OwnInv

\* Nor does a stutter.
LEMMA OwnStutter ==
  ASSUME OwnInv, UNCHANGED filesVars
  PROVE  OwnInv'
<1>1. UNCHANGED docs /\ UNCHANGED disk /\ UNCHANGED pc /\ UNCHANGED snap
      /\ UNCHANGED collided
  BY DEF filesVars
<1>2. NobodyElse' /\ NotYet' /\ KnownFiles'
  BY <1>1 DEF OwnInv, NobodyElse, InFlight, NotYet, KnownFiles
<1>3. RowsAre' /\ NamesDiffer' /\ FinalsAreOwn'
  BY <1>1 DEF OwnInv, RowsAre, NamesDiffer, FinalsAreOwn, Finals, FinalPath, Documents
<1>4. StepsAre'
  BY <1>1 DEF OwnInv, StepsAre, UploadIs, NamesOf, WorkIs, Documents
<1> QED BY <1>2, <1>3, <1>4 DEF OwnInv

\* Files stay their documents' own in every step.
LEMMA OwnStep ==
  ASSUME OneByOne
  PROVE  TypesInv /\ OwnInv /\ [FilesNext]_filesVars => OwnInv'
<1> SUFFICES ASSUME TypesInv, OwnInv, [FilesNext]_filesVars PROVE OwnInv'
  OBVIOUS
<1>1. ASSUME NEW r \in Requests, Receive(r) PROVE OwnInv'
  BY <1>1, UploadReadNamesOwn, ReadOwn DEF Receive
<1>2. ASSUME NEW r \in Requests, Step(r) PROVE OwnInv'
  BY <1>2, UploadCreateOwn, OpenOwn, ReadSourceOwn, SaveFileOwn, RecordFileOwn,
     DeleteFileOwn, DeleteRowOwn DEF Step
<1>3. ASSUME NEW r \in Requests, Fail(r) PROVE OwnInv'
  BY <1>3, FilesFailOwn
<1>4. CASE UNCHANGED filesVars
  BY <1>4, OwnStutter
<1> QED BY <1>1, <1>2, <1>3, <1>4 DEF FilesNext

\* One request at a time: whichever requests failed, what is served and rewritten
\* as a document's file was made from its own upload, unless its sanitised name
\* was also another's, or its name like that of a stored file.
THEOREM FilesAgreeHolds ==
  ASSUME OneByOne
  PROVE  FilesSpec => []FilesAgree
<1>1. TypesInv /\ OwnInv => FilesAgree
  BY OwnFilesAreFound DEF FilesAgree, TypesInv
<1>2. FilesInit => OwnInv
  BY OwnInit
<1>3. TypesInv /\ OwnInv /\ [FilesNext]_filesVars => OwnInv'
  BY OwnStep
<1> QED BY <1>1, <1>2, <1>3, FilesTypes, PTL DEF FilesSpec

-----------------------------------------------------------------------------
(* As long as nothing failed, each version of a document has a file *)

\* Claims that remain are met when the files remain that met them,
LEMMA ClaimsKept ==
  ASSUME ClaimsAreMet, Claims' \subseteq Claims,
         \A c \in Claims' : Content(c)' = Content(c),
         \A p \in Lasting : p \in Lasting' /\ disk'[p] = disk[p]
  PROVE  ClaimsAreMet'
<1>1. PICK f \in [Claims -> Lasting] :
        /\ \A c \in Claims : disk[f[c]] = Content(c)
        /\ \A c, e \in Claims : f[c] = f[e] => c = e
  BY DEF ClaimsAreMet
<1>2. PICK C, g : C = Claims' /\ g = [c \in C |-> f[c]]
  OBVIOUS
<1>3. \A c \in C : c \in Claims /\ f[c] \in Lasting /\ g[c] = f[c] /\ Content(c)' = Content(c)
  BY <1>2
<1>4. g \in [C -> Lasting']
  BY <1>2, <1>3
<1>5. \A c \in C : disk'[g[c]] = Content(c)'
  BY <1>1, <1>3
<1>6. \A c, e \in C : g[c] = g[e] => c = e
  BY <1>1, <1>3
<1> QED BY <1>2, <1>4, <1>5, <1>6 DEF ClaimsAreMet

\* when one claim is given up and one file of the same contents is gone: what
\* met the one meets whatever claim the other met,
LEMMA ClaimsSwapped ==
  ASSUME ClaimsAreMet, NEW lost \in Claims, NEW path,
         Claims' \subseteq Claims \ {lost},
         \A c \in Claims' : Content(c)' = Content(c),
         path \in Lasting => disk[path] = Content(lost),
         \A p \in Lasting \ {path} : p \in Lasting' /\ disk'[p] = disk[p]
  PROVE  ClaimsAreMet'
<1>1. PICK f \in [Claims -> Lasting] :
        /\ \A c \in Claims : disk[f[c]] = Content(c)
        /\ \A c, e \in Claims : f[c] = f[e] => c = e
  BY DEF ClaimsAreMet
<1>2. PICK C, g : C = Claims' /\ g = [c \in C |-> IF f[c] = path THEN f[lost] ELSE f[c]]
  OBVIOUS
<1>3. \A c \in C : /\ c \in Claims /\ c # lost /\ f[c] \in Lasting /\ f[c] # f[lost]
                   /\ g[c] = IF f[c] = path THEN f[lost] ELSE f[c]
                   /\ Content(c)' = Content(c)
  BY <1>1, <1>2
<1>4. \A c \in C : g[c] \in Lasting \ {path} /\ disk[g[c]] = Content(c)
  <2>1. f[lost] \in Lasting
    OBVIOUS
  <2> QED BY <1>1, <1>3, <2>1
<1>5. g \in [C -> Lasting']
  BY <1>2, <1>4
<1>6. \A c \in C : disk'[g[c]] = Content(c)'
  BY <1>3, <1>4
<1>7. \A c, e \in C : g[c] = g[e] => c = e
  BY <1>1, <1>3
<1> QED BY <1>2, <1>5, <1>6, <1>7 DEF ClaimsAreMet

\* and when one is added with a file of its own.
LEMMA ClaimsAdded ==
  ASSUME ClaimsAreMet, NEW new, NEW path,
         Claims' \subseteq Claims \cup {new},
         \A c \in Claims' \ {new} : Content(c)' = Content(c),
         path \notin Lasting, path \in Lasting', disk'[path] = Content(new)',
         \A p \in Lasting : p \in Lasting' /\ disk'[p] = disk[p]
  PROVE  ClaimsAreMet'
<1>1. PICK f \in [Claims -> Lasting] :
        /\ \A c \in Claims : disk[f[c]] = Content(c)
        /\ \A c, e \in Claims : f[c] = f[e] => c = e
  BY DEF ClaimsAreMet
<1>2. PICK C, g : C = Claims' /\ g = [c \in C |-> IF c = new THEN path ELSE f[c]]
  OBVIOUS
<1>3. \A c \in C : /\ g[c] = IF c = new THEN path ELSE f[c]
                   /\ c # new => c \in Claims /\ f[c] \in Lasting /\ Content(c)' = Content(c)
  BY <1>2
<1>4. g \in [C -> Lasting']
  BY <1>2, <1>3
<1>5. \A c \in C : disk'[g[c]] = Content(c)'
  BY <1>1, <1>3
<1>6. \A c, e \in C : g[c] = g[e] => c = e
  BY <1>1, <1>3
<1> QED BY <1>2, <1>4, <1>5, <1>6 DEF ClaimsAreMet

\* A claim is about a document.
LEMMA ClaimIs ==
  /\ \A c \in Claims : c[1] \in Documents
  /\ \A d : Content(<<d, "original">>) = docs[d].original
            /\ Content(<<d, "final">>) = docs[d].hash
<1>1. Settled \subseteq Documents
  BY DEF Settled, Finals
<1> QED BY <1>1 DEF Claims, Content

\* The request at work is the one that leaves a row, or rewrites a file.
LEMMA SoleLeaves ==
  ASSUME FilesTypeOK, NEW r \in Requests, Sole(r)
  PROVE  /\ Leaving = IF pc[r] = "deleteRow" THEN {snap[r].doc} ELSE {}
         /\ Rewritten = IF pc[r] = "record" THEN {snap[r].doc} ELSE {}
BY DEF Sole, Leaving, Rewritten

\* So it is after its step.
LEMMA SoleLeavesNext ==
  ASSUME FilesTypeOK, NEW r \in Requests, Sole(r), NEW step, NEW s, Goto(r, step, s)
  PROVE  /\ Leaving' = IF step = "deleteRow" THEN {s.doc} ELSE {}
         /\ Rewritten' = IF step = "record" THEN {s.doc} ELSE {}
<1>1. /\ pc'[r] = step /\ snap'[r] = s
      /\ \A q \in Requests \ {r} : pc'[q] \in {"idle", "done", "failed"}
  BY SoleMoves
<1>2. Leaving' = IF step = "deleteRow" THEN {s.doc} ELSE {}
  BY <1>1 DEF Leaving
<1>3. Rewritten' = IF step = "record" THEN {s.doc} ELSE {}
  BY <1>1 DEF Rewritten
<1> QED BY <1>2, <1>3

\* Nobody had failed if nobody has now.
LEMMA NoneHadFailed ==
  ASSUME FilesTypeOK, NEW r \in Requests, NEW step, NEW s, Goto(r, step, s),
         pc[r] # "failed", NoneFailed'
  PROVE  NoneFailed
<1>1. \A q \in Requests \ {r} : pc'[q] = pc[q]
  BY DEF FilesTypeOK, Goto
<1> QED BY <1>1 DEF NoneFailed

\* Uploads stay uploads.
LEMMA DoneStays ==
  ASSUME FilesTypeOK, NEW r \in Requests, NEW step, NEW s, Goto(r, step, s),
         pc[r] # "done" \/ step = "done"
  PROVE  \A q \in Requests : pc[q] = "done" => pc'[q] = "done"
BY DEF FilesTypeOK, Goto

\* At first there is nothing to be found.
LEMMA KeptInit == FilesInit => KeptInv
<1> SUFFICES ASSUME FilesInit PROVE FinalsAreRecorded /\ ClaimsAreMet
  BY DEF KeptInv
<1>1. Documents = {} /\ Finals = {}
  BY DEF FilesInit, Documents, Finals
<1>2. Claims = {}
  BY <1>1 DEF Claims, Settled
<1>3. ClaimsAreMet
  <2> DEFINE f == [c \in {} |-> c]
  <2>1. f \in [Claims -> Lasting]
    BY <1>2
  <2> QED BY <1>2, <2>1 DEF ClaimsAreMet
<1> QED BY <1>1, <1>3 DEF FinalsAreRecorded

\* Steps that change the status of rows, or add a file, leave all as it is.
LEMMA ClaimsUntouched ==
  ASSUME ClaimsAreMet, OnlyStatus, Leaving' = Leaving, Rewritten' = Rewritten,
         \A q \in Requests : pc[q] = "done" => pc'[q] = "done",
         \A p \in DOMAIN disk : p \in DOMAIN disk' /\ disk'[p] = disk[p]
  PROVE  ClaimsAreMet'
<1>1. Finals' = Finals /\ \A d \in Finals : FinalPath(d)' = FinalPath(d)
  BY DEF OnlyStatus, Finals, SameFiles, FinalPath, PathOf
<1>2. Settled' = Settled /\ Settled \subseteq Finals
  BY <1>1 DEF Settled
<1>3. Claims' = Claims
  BY <1>2 DEF Claims, OnlyStatus
<1>4. \A c \in Claims' : Content(c)' = Content(c)
  BY <1>3, ClaimIs DEF Content, OnlyStatus, SameFiles
<1>5. \A p \in Lasting : p \in Lasting' /\ disk'[p] = disk[p]
  BY <1>1, <1>2 DEF Lasting
<1> QED BY <1>3, <1>4, <1>5, ClaimsKept

\* An upload is a file more.
LEMMA UploadReadNamesKept ==
  ASSUME OneByOne, TypesInv, OwnInv, KeptInv, NEW r \in Requests,
         NEW u \in Users, NEW name \in Names, NEW bytes \in Uploads(r),
         UploadReadNames(r, u, name, bytes)
  PROVE  KeptInv'
<1> SUFFICES ASSUME NoneFailed', collided' = {} PROVE FinalsAreRecorded' /\ ClaimsAreMet'
  BY DEF KeptInv
<1> DEFINE path == InDocuments(u, <<r>>)
<1>1. Arrives(r) /\ pc[r] = "idle" /\ Write(path, bytes)
      /\ UNCHANGED <<docs, collided>>
      /\ \E s : Goto(r, "uploadCreate", s)
  BY DEF UploadReadNames, Arrives
<1>2. PICK s : Goto(r, "uploadCreate", s)
  BY <1>1
<1>3. FilesTypeOK /\ Sole(r)
  BY <1>1, FilesAlone DEF TypesInv, OwnInv
<1>4. FinalsAreRecorded /\ ClaimsAreMet
  BY <1>1, <1>2, <1>3, NoneHadFailed DEF KeptInv
<1>5. Leaving = {} /\ Rewritten = {} /\ Leaving' = {} /\ Rewritten' = {}
  BY <1>1, <1>2, <1>3, SoleLeaves, SoleLeavesNext
<1>6. path \notin DOMAIN disk
  BY <1>1 DEF OwnInv, NotYet
<1>7. /\ DOMAIN disk' = DOMAIN disk \cup {path}
      /\ \A p \in DOMAIN disk : p \in DOMAIN disk' /\ disk'[p] = disk[p]
  BY <1>1, <1>6 DEF Write
<1> HIDE DEF path
<1>8. OnlyStatus
  BY <1>1 DEF OnlyStatus, SameFiles, Documents
<1>9. ClaimsAreMet'
  <2>1. \A q \in Requests : pc[q] = "done" => pc'[q] = "done"
    BY <1>1, <1>2, <1>3, DoneStays
  <2> QED BY <1>4, <1>5, <1>7, <1>8, <2>1, ClaimsUntouched
<1>10. FinalsAreRecorded'
  <2>1. \A d \in Finals : FinalPath(d) # path
    <3>1. \A d \in Finals : d \in Requests /\ docs[d] \in Document /\ RowIs(d, docs[d])
                            /\ docs[d].final # Null
      BY <1>3 DEF Finals, Documents, OwnInv, RowsAre, FilesTypeOK
    <3> QED BY <3>1, PathIsNoUpload DEF FinalPath, path
  <2>2. Finals' = Finals /\ \A d \in Finals : FinalPath(d)' = FinalPath(d)
    BY <1>1 DEF Finals, FinalPath, Documents
  <2> QED BY <1>1, <1>4, <1>5, <1>7, <2>1, <2>2 DEF FinalsAreRecorded
<1> QED BY <1>9, <1>10

\* Nor does a change of status matter:
LEMMA StatusKept ==
  ASSUME KeptInv, NoneFailed, collided = {}, OnlyStatus, UNCHANGED disk, Leaving' = Leaving,
         Rewritten' = Rewritten, \A q \in Requests : pc[q] = "done" => pc'[q] = "done"
  PROVE  KeptInv'
<1>1. FinalsAreRecorded /\ ClaimsAreMet
  BY DEF KeptInv
<1>2. ClaimsAreMet'
  BY <1>1, ClaimsUntouched
<1>3. Finals' = Finals /\ \A d \in Finals : FinalPath(d)' = FinalPath(d)
  BY DEF OnlyStatus, Finals, SameFiles, FinalPath, PathOf
<1>4. FinalsAreRecorded'
  <2>1. \A d \in Finals : docs'[d].hash = docs[d].hash
    BY DEF OnlyStatus, SameFiles, Finals
  <2> QED BY <1>1, <1>3, <2>1 DEF FinalsAreRecorded
<1> QED BY <1>2, <1>4 DEF KeptInv

\* reading a row,
LEMMA ReadKept ==
  ASSUME OneByOne, TypesInv, OwnInv, KeptInv, NEW r \in Requests,
         NEW handler \in Handlers, NEW d \in Documents, Read(r, handler, d)
  PROVE  KeptInv'
<1> SUFFICES ASSUME NoneFailed', collided' = {} PROVE KeptInv'
  BY DEF KeptInv
<1>1. Arrives(r) /\ pc[r] = "idle" /\ UNCHANGED docs /\ UNCHANGED <<disk, collided>>
  BY DEF Read, Arrives
<1>2. PICK step, s : step \in {"open", "deleteFile", "source"} /\ Goto(r, step, s)
  BY DEF Read
<1>3. FilesTypeOK /\ Sole(r)
  BY <1>1, FilesAlone DEF TypesInv, OwnInv
<1>4. NoneFailed
  BY <1>1, <1>2, <1>3, NoneHadFailed
<1>5. Leaving = {} /\ Rewritten = {} /\ Leaving' = {} /\ Rewritten' = {}
  BY <1>1, <1>2, <1>3, SoleLeaves, SoleLeavesNext
<1>6. OnlyStatus
  BY <1>1 DEF OnlyStatus, SameFiles, Documents
<1>7. \A q \in Requests : pc[q] = "done" => pc'[q] = "done"
  BY <1>1, <1>2, <1>3, DoneStays
<1> QED BY <1>1, <1>4, <1>5, <1>6, <1>7, StatusKept

\* opening it for signatures,
LEMMA OpenKept ==
  ASSUME OneByOne, TypesInv, OwnInv, KeptInv, NEW r \in Requests, Open(r)
  PROVE  KeptInv'
<1> SUFFICES ASSUME NoneFailed', collided' = {} PROVE KeptInv'
  BY DEF KeptInv
<1>1. pc[r] = "open" /\ pc[r] \in Working /\ UNCHANGED <<disk, collided>>
  BY DEF Open, Working
<1>2. PICK step, s : step \in {"source", "done"} /\ Goto(r, step, s)
  BY DEF Open, Finish
<1>3. FilesTypeOK /\ Sole(r)
  BY <1>1, AtWork
<1>4. NoneFailed
  BY <1>1, <1>2, <1>3, NoneHadFailed
<1>5. Leaving = {} /\ Rewritten = {} /\ Leaving' = {} /\ Rewritten' = {}
  BY <1>1, <1>2, <1>3, SoleLeaves, SoleLeavesNext
<1>6. \A q \in Requests : pc[q] = "done" => pc'[q] = "done"
  BY <1>1, <1>2, <1>3, DoneStays
<1> QED BY <1>1, <1>4, <1>5, <1>6, OpenStatus, StatusKept

\* placing the QR code.
LEMMA ReadSourceKept ==
  ASSUME OneByOne, TypesInv, OwnInv, KeptInv, NEW r \in Requests,
         ReadSource(r)
  PROVE  KeptInv'
<1> SUFFICES ASSUME NoneFailed', collided' = {} PROVE KeptInv'
  BY DEF KeptInv
<1>1. pc[r] = "source" /\ pc[r] \in Working /\ UNCHANGED <<disk, collided>>
  BY DEF ReadSource, Working
<1>2. PICK step, s : step \in {"save", "done"} /\ Goto(r, step, s)
  <2>1. Goto(r, "done", NothingRead) \/ \E s : Goto(r, "save", s)
    BY DEF ReadSource, Finish
  <2> QED BY <2>1
<1>3. FilesTypeOK /\ Sole(r)
  BY <1>1, AtWork
<1>4. NoneFailed
  BY <1>1, <1>2, <1>3, NoneHadFailed
<1>5. Leaving = {} /\ Rewritten = {} /\ Leaving' = {} /\ Rewritten' = {}
  BY <1>1, <1>2, <1>3, SoleLeaves, SoleLeavesNext
<1>6. \A q \in Requests : pc[q] = "done" => pc'[q] = "done"
  BY <1>1, <1>2, <1>3, DoneStays
<1> QED BY <1>1, <1>4, <1>5, <1>6, ReadSourceStatus, StatusKept

\* The upload of a new document meets its claim, and met none before.
LEMMA UploadCreateKept ==
  ASSUME OneByOne, TypesInv, OwnInv, KeptInv, NEW r \in Requests,
         UploadCreate(r)
  PROVE  KeptInv'
<1> SUFFICES ASSUME NoneFailed', collided' = {} PROVE FinalsAreRecorded' /\ ClaimsAreMet'
  BY DEF KeptInv
<1>1. PICK row : row = snap[r].row
  OBVIOUS
<1>2. pc[r] = "uploadCreate" /\ Goto(r, "done", NothingRead) /\ UNCHANGED disk
      /\ docs' = [docs EXCEPT ![r] = row] /\ collided \subseteq collided'
  BY <1>1 DEF UploadCreate, Finish
<1>3. row \in Document /\ FilesTypeOK /\ r \in InFlight
  BY <1>1, <1>2 DEF TypesInv, EveryoneCarries, Carries, InFlight
<1>4. docs[r] = Null /\ row # Null /\ UploadIs(r, snap[r])
  BY <1>2, <1>3, NullIsNoFile DEF OwnInv, NotYet, StepsAre
<1>5. Sole(r)
  BY <1>3, FilesAlone DEF OwnInv
<1>6. FinalsAreRecorded /\ ClaimsAreMet
  BY <1>2, <1>3, NoneHadFailed DEF KeptInv
<1>7. Leaving = {} /\ Rewritten = {} /\ Leaving' = {} /\ Rewritten' = {}
  BY <1>2, <1>3, <1>5, SoleLeaves, SoleLeavesNext
<1>8. /\ Documents' = Documents \cup {r} /\ r \notin Documents /\ docs'[r] = row
      /\ \A d \in Documents : docs'[d] = docs[d] /\ d # r
  BY <1>2, <1>3, <1>4 DEF Documents, FilesTypeOK
<1>9. row.final = Null
  BY <1>1, <1>4 DEF UploadIs
<1>10. Finals' = Finals /\ \A d \in Finals : FinalPath(d)' = FinalPath(d)
  BY <1>8, <1>9 DEF Finals, FinalPath, PathOf
<1>11. FinalsAreRecorded'
  <2>1. \A d \in Finals : docs'[d] = docs[d]
    BY <1>8 DEF Finals
  <2> QED BY <1>2, <1>6, <1>7, <1>10, <2>1 DEF FinalsAreRecorded
<1>12. Settled' = Settled /\ Settled = Finals
  BY <1>7, <1>10 DEF Settled
<1>13. PICK new, path : new = <<r, "original">> /\ path = InDocuments(row.owner, <<r>>)
  OBVIOUS
<1>14. Claims' \subseteq Claims \cup {new}
  BY <1>7, <1>8, <1>12, <1>13 DEF Claims
<1>15. \A c \in Claims' \ {new} : Content(c)' = Content(c)
  BY <1>8, <1>14, ClaimIs DEF Content
<1>16. path \in DOMAIN disk /\ disk[path] = row.original /\ row.owner \in Users
  BY <1>1, <1>3, <1>4, <1>13 DEF UploadIs, Document
<1>17. pc'[r] = "done" /\ \A q \in Requests : pc[q] = "done" => pc'[q] = "done"
  BY <1>2, <1>3, DoneStays DEF FilesTypeOK, Goto
<1>18. path \notin Lasting
  <2>1. \A v \in Users, q \in Requests : path = InDocuments(v, <<q>>) => q = r
    BY <1>13, PathsEqual
  <2>2. \A d \in Finals : FinalPath(d) # path
    <3>1. \A d \in Finals : d \in Requests /\ docs[d] \in Document /\ RowIs(d, docs[d])
                            /\ docs[d].final # Null
      BY <1>3 DEF Finals, Documents, OwnInv, RowsAre, FilesTypeOK
    <3> QED BY <1>13, <1>16, <3>1, PathIsNoUpload DEF FinalPath
  <2> QED BY <1>2, <1>12, <2>1, <2>2 DEF Lasting
<1>19. path \in Lasting' /\ disk'[path] = Content(new)'
  <2>1. path \in Lasting'
    BY <1>2, <1>13, <1>16, <1>17 DEF Lasting
  <2>2. Content(new)' = row.original
    BY <1>8, <1>13 DEF Content
  <2> QED BY <1>2, <1>16, <2>1, <2>2
<1>20. \A p \in Lasting : p \in Lasting' /\ disk'[p] = disk[p]
  BY <1>2, <1>10, <1>12, <1>17 DEF Lasting
<1>21. ClaimsAreMet'
  BY <1>6, <1>14, <1>15, <1>18, <1>19, <1>20, ClaimsAdded
<1> QED BY <1>11, <1>21

\* The file that is rewritten leaves the claim to it open until it is recorded;
\* if it had met another claim, the others have files enough.
LEMMA SaveFileKept ==
  ASSUME OneByOne, TypesInv, OwnInv, KeptInv, NEW r \in Requests,
         SaveFile(r)
  PROVE  KeptInv'
<1> SUFFICES ASSUME NoneFailed', collided' = {} PROVE FinalsAreRecorded' /\ ClaimsAreMet'
  BY DEF KeptInv
<1>1. PICK t, d, path : t = snap[r] /\ d = t.doc /\ path = Target(t)
  OBVIOUS
<1>2. pc[r] = "save" /\ pc[r] \in Working /\ UNCHANGED <<docs, collided>>
  BY DEF SaveFile, Working
<1>3. FilesTypeOK /\ Sole(r) /\ t \in Snapshot /\ d \in Documents
  BY <1>1, <1>2, AtWork
<1>4. PICK bytes, s : Goto(r, "record", s) /\ Write(path, bytes) /\ s.doc = d
  <2> DEFINE new == Append(t.bytes, r)
             u == [t EXCEPT !.bytes = new]
  <2>1. Goto(r, "record", u) /\ Write(path, new)
    BY <1>1 DEF SaveFile
  <2>2. u.doc = d
    BY <1>1, <1>3 DEF Snapshot
  <2> HIDE DEF new, u
  <2> QED BY <2>1, <2>2
<1>5. FinalsAreRecorded /\ ClaimsAreMet
  BY <1>2, <1>3, <1>4, NoneHadFailed DEF KeptInv
<1>6. Leaving = {} /\ Rewritten = {} /\ Leaving' = {} /\ Rewritten' = {d}
  BY <1>2, <1>3, <1>4, SoleLeaves, SoleLeavesNext
<1>7. /\ \A e \in Finals : FinalPath(e) = path => e = d
      /\ \A u \in Users, q \in Requests : path # InDocuments(u, <<q>>)
  BY <1>1, <1>2, TargetAtWork
<1>8. DOMAIN disk' = DOMAIN disk \cup {path}
      /\ \A p \in DOMAIN disk \ {path} : disk'[p] = disk[p]
  BY <1>4 DEF Write
<1>9. Finals' = Finals /\ Documents' = Documents
      /\ \A e \in Finals : FinalPath(e)' = FinalPath(e)
  BY <1>2 DEF Finals, FinalPath, Documents
<1>10. FinalsAreRecorded'
  BY <1>2, <1>5, <1>6, <1>7, <1>8, <1>9 DEF FinalsAreRecorded
<1>11. Settled = Finals /\ Settled' = Finals \ {d}
  BY <1>6, <1>9 DEF Settled
<1>12. PICK lost : lost = <<d, "final">>
  OBVIOUS
<1>13. Claims' \subseteq Claims \ {lost}
  BY <1>6, <1>9, <1>11, <1>12 DEF Claims
<1>14. \A c \in Claims' : Content(c)' = Content(c)
  BY <1>2 DEF Content
<1>15. \A q \in Requests : pc[q] = "done" => pc'[q] = "done"
  BY <1>2, <1>3, <1>4, DoneStays
<1>16. \A p \in Lasting : (d \in Finals => p # FinalPath(d)) => p \in Lasting' /\ disk'[p] = disk[p]
  <2> SUFFICES ASSUME NEW p \in Lasting, d \in Finals => p # FinalPath(d)
               PROVE  p \in Lasting' /\ disk'[p] = disk[p]
    OBVIOUS
  <2>1. CASE \E u \in Users, q \in Requests : pc[q] = "done" /\ p = InDocuments(u, <<q>>)
    <3>1. p # path /\ p \in DOMAIN disk
      BY <1>7, <2>1 DEF Lasting
    <3> QED BY <1>8, <1>15, <2>1, <3>1 DEF Lasting
  <2>2. CASE \E e \in Settled : p = FinalPath(e)
    <3>1. PICK e \in Finals : p = FinalPath(e)
      BY <1>11, <2>2
    <3>2. e # d /\ p # path /\ p \in DOMAIN disk
      BY <1>7, <3>1 DEF Lasting
    <3>3. e \in Settled' /\ p = FinalPath(e)'
      BY <1>9, <1>11, <3>1, <3>2
    <3> QED BY <1>8, <3>2, <3>3 DEF Lasting
  <2> QED BY <2>1, <2>2 DEF Lasting
<1>17. ClaimsAreMet'
  <2>1. CASE d \in Finals
    <3>1. PICK gone : gone = FinalPath(d)
      OBVIOUS
    <3>2. lost \in Claims
      BY <1>11, <1>12, <2>1 DEF Claims
    <3>3. gone \in Lasting => disk[gone] = Content(lost)
      BY <1>5, <1>6, <1>12, <2>1, <3>1, ClaimIs DEF FinalsAreRecorded, Lasting
    <3>4. \A p \in Lasting \ {gone} : p \in Lasting' /\ disk'[p] = disk[p]
      BY <1>16, <3>1
    <3> QED BY <1>5, <1>13, <1>14, <3>2, <3>3, <3>4, ClaimsSwapped
  <2>2. CASE d \notin Finals
    <3>1. \A p \in Lasting : p \in Lasting' /\ disk'[p] = disk[p]
      BY <1>16, <2>2
    <3> QED BY <1>5, <1>13, <1>14, <3>1, ClaimsKept
  <2> QED BY <2>1, <2>2
<1> QED BY <1>10, <1>17

\* Then the recorded file meets it.
LEMMA RecordFileKept ==
  ASSUME OneByOne, TypesInv, OwnInv, KeptInv, NEW r \in Requests,
         RecordFile(r)
  PROVE  KeptInv'
<1> SUFFICES ASSUME NoneFailed', collided' = {} PROVE FinalsAreRecorded' /\ ClaimsAreMet'
  BY DEF KeptInv
<1>1. PICK t, d, path : t = snap[r] /\ d = t.doc /\ path = Target(t)
  OBVIOUS
<1>2. /\ pc[r] = "record" /\ pc[r] \in Working /\ Goto(r, "done", NothingRead)
      /\ UNCHANGED <<disk, collided>> /\ Documents' = Documents /\ d \in Documents
      /\ \A e \in Requests \ {d} : docs'[e] = docs[e]
      /\ docs'[d].original = docs[d].original
      /\ docs'[d].final # Null /\ docs'[d].hash = t.bytes
      /\ PathOf(d, docs'[d]) = path /\ path \in DOMAIN disk
      /\ disk[path] = t.bytes
  BY <1>1, RecordFileIs
<1>3. FilesTypeOK /\ Sole(r)
  BY <1>2, AtWork
<1>4. FinalsAreRecorded /\ ClaimsAreMet
  BY <1>2, <1>3, NoneHadFailed DEF KeptInv
<1>5. Leaving = {} /\ Rewritten = {d} /\ Leaving' = {} /\ Rewritten' = {}
  BY <1>1, <1>2, <1>3, SoleLeaves, SoleLeavesNext
<1>6. /\ \A e \in Finals : FinalPath(e) = path => e = d
      /\ \A u \in Users, q \in Requests : path # InDocuments(u, <<q>>)
  BY <1>1, <1>2, TargetAtWork
<1>7. /\ Finals' = Finals \cup {d}
      /\ \A e \in Documents \ {d} : docs'[e] = docs[e]
      /\ \A e \in Finals \ {d} : FinalPath(e)' = FinalPath(e)
      /\ FinalPath(d)' = path
  <2>1. \A e \in Documents \ {d} : docs'[e] = docs[e]
    BY <1>2 DEF Documents
  <2>2. Finals' = Finals \cup {d}
    BY <1>2, <2>1 DEF Finals
  <2>3. \A e \in Finals \ {d} : FinalPath(e)' = FinalPath(e)
    BY <2>1 DEF Finals, FinalPath, PathOf
  <2>4. FinalPath(d)' = path
    BY <1>2 DEF FinalPath, PathOf
  <2> QED BY <2>1, <2>2, <2>3, <2>4
<1>8. FinalsAreRecorded'
  <2>1. ASSUME NEW e \in Finals', FinalPath(e)' \in DOMAIN disk
        PROVE  disk[FinalPath(e)'] = docs'[e].hash
    <3>1. CASE e = d
      BY <1>2, <1>7, <3>1
    <3>2. CASE e # d
      <4>1. e \in Finals \ Rewritten /\ FinalPath(e)' = FinalPath(e) /\ docs'[e] = docs[e]
        BY <1>5, <1>7, <3>2 DEF Finals
      <4> QED BY <1>4, <2>1, <4>1 DEF FinalsAreRecorded
    <3> QED BY <3>1, <3>2
  <2> QED BY <1>2, <2>1 DEF FinalsAreRecorded
<1>9. Settled = Finals \ {d} /\ Settled' = Finals \cup {d}
  BY <1>5, <1>7 DEF Settled
<1>10. PICK new : new = <<d, "final">>
  OBVIOUS
<1>11. Claims' \subseteq Claims \cup {new}
  BY <1>2, <1>5, <1>9, <1>10 DEF Claims
<1>12. \A c \in Claims' \ {new} : Content(c)' = Content(c)
  <2> SUFFICES ASSUME NEW c \in Claims' \ {new} PROVE Content(c)' = Content(c)
    OBVIOUS
  <2>1. CASE \E e \in Documents : c = <<e, "original">>
    <3>1. PICK e \in Documents : c = <<e, "original">>
      BY <2>1
    <3>2. docs'[e].original = docs[e].original
      BY <1>2, <1>7
    <3> QED BY <3>1, <3>2 DEF Content
  <2>2. CASE \E e \in Finals \ {d} : c = <<e, "final">>
    <3>1. PICK e \in Finals \ {d} : c = <<e, "final">>
      BY <2>2
    <3>2. docs'[e] = docs[e]
      BY <1>7 DEF Finals
    <3> QED BY <3>1, <3>2 DEF Content
  <2> QED BY <1>2, <1>5, <1>9, <1>10, <2>1, <2>2 DEF Claims
<1>13. \A q \in Requests : pc[q] = "done" => pc'[q] = "done"
  BY <1>2, <1>3, DoneStays
<1>14. path \notin Lasting
  BY <1>6, <1>9 DEF Lasting
<1>15. path \in Lasting' /\ disk'[path] = Content(new)'
  <2>1. path \in Lasting'
    BY <1>2, <1>7, <1>9 DEF Lasting
  <2> QED BY <1>2, <1>10, <2>1 DEF Content
<1>16. \A p \in Lasting : p \in Lasting' /\ disk'[p] = disk[p]
  BY <1>2, <1>7, <1>9, <1>13 DEF Lasting
<1>17. ClaimsAreMet'
  BY <1>4, <1>11, <1>12, <1>14, <1>15, <1>16, ClaimsAdded
<1> QED BY <1>8, <1>17

\* The file that is unlinked is what one of the claims of its document is about.
LEMMA DeleteFileKept ==
  ASSUME OneByOne, TypesInv, OwnInv, KeptInv, NEW r \in Requests,
         DeleteFile(r)
  PROVE  KeptInv'
<1> SUFFICES ASSUME NoneFailed', collided' = {} PROVE FinalsAreRecorded' /\ ClaimsAreMet'
  BY DEF KeptInv
<1>1. PICK s, d, row, found : s = snap[r] /\ d = s.doc /\ row = docs[d] /\ found = Latest(row)
  OBVIOUS
<1>2. /\ pc[r] = "deleteFile" /\ pc[r] \in Working /\ UNCHANGED <<docs, collided>>
      /\ Goto(r, "deleteRow", s)
      /\ (found = {} /\ UNCHANGED disk) \/ \E path \in found : Unlink(path)
  BY <1>1, DeleteFileIs
<1>3. FilesTypeOK /\ Sole(r) /\ d \in Documents /\ d \in Requests /\ row \in Document
      /\ RowIs(d, row) /\ KnownFiles /\ row.owner \in Users /\ ~IsStoredName(row.name)
  BY <1>1, <1>2, AtWork DEF OwnInv, NamesDiffer, Document
<1>4. FinalsAreRecorded /\ ClaimsAreMet
  BY <1>2, <1>3, NoneHadFailed DEF KeptInv
<1>5. Leaving = {} /\ Rewritten = {} /\ Leaving' = {d} /\ Rewritten' = {}
  BY <1>1, <1>2, <1>3, SoleLeaves, SoleLeavesNext
<1>6. Finals' = Finals /\ Documents' = Documents
      /\ \A e \in Finals : FinalPath(e)' = FinalPath(e)
  BY <1>2 DEF Finals, FinalPath, Documents
<1>7. PICK path :
        /\ (found = {} /\ UNCHANGED disk) \/ (path \in found /\ Unlink(path))
  BY <1>2
<1>8. /\ DOMAIN disk' \subseteq DOMAIN disk /\ \A p \in DOMAIN disk' : disk'[p] = disk[p]
      /\ \A p \in DOMAIN disk : found = {} \/ p # path => p \in DOMAIN disk'
  BY <1>7 DEF Unlink
<1>9. FinalsAreRecorded'
  BY <1>2, <1>4, <1>5, <1>6, <1>8 DEF FinalsAreRecorded
<1>10. Settled = Finals /\ Settled' = Finals \ {d}
  BY <1>5, <1>6 DEF Settled
<1>11. Claims' \subseteq Claims \ {<<d, "original">>, <<d, "final">>}
  BY <1>5, <1>6, <1>10 DEF Claims
<1>12. \A c \in Claims' : Content(c)' = Content(c)
  BY <1>2 DEF Content
<1>13. \A q \in Requests : pc[q] = "done" => pc'[q] = "done"
  BY <1>2, <1>3, DoneStays
<1>14. found =
         IF row.final # Null /\ PathOf(d, row) \in DOMAIN disk THEN {PathOf(d, row)}
         ELSE IF ByHash(row.owner, row.hash) # {} THEN ByHash(row.owner, row.hash)
         ELSE ByHash(row.owner, row.original)
  BY <1>1, <1>3, VariantsAre
<1>15. d \in Finals => FinalPath(d) = PathOf(d, row)
  BY <1>1 DEF FinalPath
<1>16. d \in Finals <=> row.final # Null
  BY <1>1, <1>3 DEF Finals
<1>17. \A p \in Lasting : found = {} \/ p # path => p \in Lasting' /\ disk'[p] = disk[p]
  <2> SUFFICES ASSUME NEW p \in Lasting, found = {} \/ p # path
               PROVE  p \in Lasting' /\ disk'[p] = disk[p]
    OBVIOUS
  <2>1. p \in DOMAIN disk /\ p \in DOMAIN disk' /\ disk'[p] = disk[p]
    BY <1>8 DEF Lasting
  <2>2. CASE \E u \in Users, q \in Requests : pc[q] = "done" /\ p = InDocuments(u, <<q>>)
    BY <1>13, <2>1, <2>2 DEF Lasting
  <2>3. CASE \E e \in Settled : p = FinalPath(e)
    <3>1. PICK e \in Finals : p = FinalPath(e)
      BY <1>10, <2>3
    <3>2. e # d
      <4>1. SUFFICES ASSUME e = d PROVE FALSE
        OBVIOUS
      <4>2. row.final # Null /\ PathOf(d, row) \in DOMAIN disk /\ p = PathOf(d, row)
        BY <1>15, <1>16, <2>1, <3>1, <4>1
      <4>3. found = {p}
        BY <1>14, <4>2
      <4> QED BY <1>7, <4>3
    <3>3. e \in Settled' /\ p = FinalPath(e)'
      BY <1>6, <1>10, <3>1, <3>2
    <3> QED BY <2>1, <3>3 DEF Lasting
  <2> QED BY <2>2, <2>3 DEF Lasting
<1>18. CASE found = {}
  <2>1. Claims' \subseteq Claims
    BY <1>11
  <2> QED BY <1>4, <1>9, <1>12, <1>17, <1>18, <2>1, ClaimsKept
<1>19. CASE path \in found
  <2>1. PICK lost \in Claims :
          /\ lost \in {<<d, "original">>, <<d, "final">>}
          /\ disk[path] = Content(lost)
    <3>1. <<d, "original">> \in Claims /\ Content(<<d, "original">>) = row.original
      BY <1>1, <1>3, <1>5, ClaimIs DEF Claims
    <3>2. row.final # Null =>
            <<d, "final">> \in Claims /\ Content(<<d, "final">>) = row.hash
      BY <1>1, <1>10, <1>16, ClaimIs DEF Claims
    <3>3. CASE row.final # Null /\ PathOf(d, row) \in DOMAIN disk
      <4>1. path = FinalPath(d) /\ d \in Finals
        BY <1>14, <1>15, <1>16, <1>19, <3>3
      <4>2. disk[path] = row.hash
        BY <1>1, <1>4, <1>5, <1>15, <3>3, <4>1 DEF FinalsAreRecorded
      <4> QED BY <3>2, <3>3, <4>2
    <3>4. CASE path \in ByHash(row.owner, row.hash)
      <4>1. row.hash # Null /\ disk[path] = row.hash
        BY <1>3, <3>4, ByHashIs DEF WithBytes
      <4>2. row.final # Null
        BY <1>3, <4>1 DEF RowIs
      <4> QED BY <3>2, <4>1, <4>2
    <3>5. CASE path \in ByHash(row.owner, row.original)
      <4>1. disk[path] = row.original
        BY <1>3, <3>5, ByHashIs DEF WithBytes
      <4> QED BY <3>1, <4>1
    <3> QED BY <1>14, <1>19, <3>3, <3>4, <3>5
  <2>2. Claims' \subseteq Claims \ {lost}
    BY <1>11, <2>1
  <2>3. \A p \in Lasting \ {path} : p \in Lasting' /\ disk'[p] = disk[p]
    BY <1>17
  <2> QED BY <1>4, <1>9, <1>12, <2>1, <2>2, <2>3, ClaimsSwapped
<1> QED BY <1>7, <1>18, <1>19

\* With the row nothing goes that was still claimed.
LEMMA DeleteRowKept ==
  ASSUME OneByOne, TypesInv, OwnInv, KeptInv, NEW r \in Requests,
         DeleteRow(r)
  PROVE  KeptInv'
<1> SUFFICES ASSUME NoneFailed', collided' = {} PROVE FinalsAreRecorded' /\ ClaimsAreMet'
  BY DEF KeptInv
<1>1. PICK d : d = snap[r].doc
  OBVIOUS
<1>2. /\ pc[r] = "deleteRow" /\ pc[r] \in Working /\ UNCHANGED <<disk, collided>>
      /\ Goto(r, "done", NothingRead) /\ docs' = [docs EXCEPT ![d] = Null]
  BY <1>1 DEF DeleteRow, Finish, Working
<1>3. FilesTypeOK /\ Sole(r) /\ d \in Requests
  BY <1>1, <1>2, AtWork
<1>4. FinalsAreRecorded /\ ClaimsAreMet
  BY <1>2, <1>3, NoneHadFailed DEF KeptInv
<1>5. Leaving = {d} /\ Rewritten = {} /\ Leaving' = {} /\ Rewritten' = {}
  BY <1>1, <1>2, <1>3, SoleLeaves, SoleLeavesNext
<1>6. Documents' = Documents \ {d} /\ \A e \in Documents' : docs'[e] = docs[e]
  BY <1>2, <1>3 DEF Documents, FilesTypeOK
<1>7. /\ Finals' = Finals \ {d}
      /\ \A e \in Finals' : docs'[e] = docs[e] /\ FinalPath(e)' = FinalPath(e)
  BY <1>6 DEF Finals, FinalPath, PathOf
<1>8. FinalsAreRecorded'
  BY <1>2, <1>4, <1>5, <1>7 DEF FinalsAreRecorded
<1>9. Settled' = Settled /\ Settled = Finals'
  BY <1>5, <1>7 DEF Settled
<1>10. Claims' = Claims
  BY <1>5, <1>6, <1>9 DEF Claims
<1>11. \A c \in Claims' : Content(c)' = Content(c)
  <2>1. \A c \in Claims' : c[1] \in Documents'
    BY <1>7, <1>9, <1>5 DEF Claims, Finals
  <2> QED BY <1>6, <2>1 DEF Content
<1>12. \A q \in Requests : pc[q] = "done" => pc'[q] = "done"
  BY <1>2, <1>3, DoneStays
<1>13. \A p \in Lasting : p \in Lasting' /\ disk'[p] = disk[p]
  BY <1>2, <1>7, <1>9, <1>12 DEF Lasting
<1>14. ClaimsAreMet'
  BY <1>4, <1>10, <1>11, <1>13, ClaimsKept
<1> QED BY <1>8, <1>14

\* A stutter keeps everything.
LEMMA KeptStutter ==
  ASSUME KeptInv, UNCHANGED filesVars
  PROVE  KeptInv'
<1> SUFFICES ASSUME NoneFailed', collided' = {} PROVE KeptInv'
  BY DEF KeptInv
<1>1. UNCHANGED docs /\ UNCHANGED disk /\ UNCHANGED pc /\ UNCHANGED snap
      /\ UNCHANGED collided
  BY DEF filesVars
<1>2. NoneFailed /\ OnlyStatus
  BY <1>1 DEF NoneFailed, OnlyStatus, SameFiles, Documents
<1>3. Leaving' = Leaving /\ Rewritten' = Rewritten
  BY <1>1 DEF Leaving, Rewritten
<1> QED BY <1>1, <1>2, <1>3, StatusKept

\* Each version keeps a file in every step.
LEMMA KeptStep ==
  ASSUME OneByOne
  PROVE  TypesInv /\ OwnInv /\ KeptInv /\ [FilesNext]_filesVars => KeptInv'
<1> SUFFICES ASSUME TypesInv, OwnInv, KeptInv, [FilesNext]_filesVars PROVE KeptInv'
  OBVIOUS
<1>1. ASSUME NEW r \in Requests, Receive(r) PROVE KeptInv'
  BY <1>1, UploadReadNamesKept, ReadKept DEF Receive
<1>2. ASSUME NEW r \in Requests, Step(r) PROVE KeptInv'
  BY <1>2, UploadCreateKept, OpenKept, ReadSourceKept, SaveFileKept, RecordFileKept,
     DeleteFileKept, DeleteRowKept DEF Step
<1>3. ASSUME NEW r \in Requests, Fail(r) PROVE KeptInv'
  <2>1. pc'[r] = "failed"
    BY <1>3 DEF Fail, Goto, TypesInv, FilesTypeOK
  <2> QED BY <2>1 DEF KeptInv, NoneFailed
<1>4. CASE UNCHANGED filesVars
  BY <1>4, KeptStutter
<1> QED BY <1>1, <1>2, <1>3, <1>4 DEF FilesNext

\* When all is done and nothing failed, each version has contents on the disk.
LEMMA KeptFilesAreServed ==
  ASSUME TypesInv, OwnInv, KeptInv
  PROVE  VersionsAreServed
<1> SUFFICES ASSUME NothingFailed, collided = {}, NEW d \in Documents
             PROVE  /\ docs[d].signed =>
                         /\ SignedVersion(docs[d]) # {}
                         /\ \A p \in SignedVersion(docs[d]) \cup Latest(docs[d]) :
                              disk[p] = docs[d].hash
                    /\ OriginalOf(docs[d]) # {}
                    /\ \A p \in OriginalOf(docs[d]) : disk[p] = docs[d].original
  BY DEF VersionsAreServed, SignedVersionIsServed, OriginalIsServed
<1> DEFINE row == docs[d]
<1>1. /\ FilesTypeOK /\ d \in Requests /\ row \in Document /\ row.owner \in Users
      /\ RowIs(d, row) /\ KnownFiles /\ ~IsStoredName(row.name)
  BY DEF TypesInv, FilesTypeOK, Documents, OwnInv, RowsAre, NamesDiffer, Document
<1>2. FinalsAreRecorded /\ ClaimsAreMet
  BY DEF KeptInv, NoneFailed, NothingFailed
<1>3. Leaving = {} /\ Rewritten = {}
  BY DEF Leaving, Rewritten, NothingFailed
<1>4. <<d, "original">> \in Claims /\ (row.final # Null => <<d, "final">> \in Claims)
  BY <1>3 DEF Claims, Settled, Finals
<1>5. \A c \in Claims : WithBytes(Content(c)) # {}
  <2>1. PICK f \in [Claims -> Lasting] : \A c \in Claims : disk[f[c]] = Content(c)
    BY <1>2 DEF ClaimsAreMet
  <2>2. \A c \in Claims : f[c] \in DOMAIN disk
    BY DEF Lasting
  <2> QED BY <2>1, <2>2 DEF WithBytes
<1>6. WithBytes(row.original) # {} /\ (row.final # Null => WithBytes(row.hash) # {})
  BY <1>4, <1>5, ClaimIs
<1>7. row.original # Null
  <2>1. Requests \subseteq Tokens
    BY DEF Tokens
  <2>2. row.original \in Seq(Requests)
    BY <1>1 DEF Document, Bytes
  <2>3. row.original \in Seq(Tokens)
    BY <2>1, <2>2, SeqMonotonic
  <2> QED BY <2>3, NullIsNoFile
<1> HIDE DEF row
<1>8. OriginalOf(row) # {} /\ \A p \in OriginalOf(row) : disk[p] = row.original
  BY <1>1, <1>6, <1>7, VariantsAre, ByHashIs DEF WithBytes
<1>9. ASSUME row.signed
      PROVE  /\ SignedVersion(row) # {}
             /\ \A p \in SignedVersion(row) \cup Latest(row) : disk[p] = row.hash
  <2>1. row.final # Null /\ row.hash # Null
    BY <1>1, <1>9 DEF RowIs
  <2>2. CASE PathOf(d, row) \in DOMAIN disk
    <3>1. disk[PathOf(d, row)] = row.hash
      BY <1>2, <1>3, <2>1, <2>2 DEF FinalsAreRecorded, Finals, FinalPath, row
    <3>2. SignedVersion(row) = {PathOf(d, row)} /\ Latest(row) = {PathOf(d, row)}
      BY <1>1, <1>9, <2>1, <2>2, VariantsAre
    <3> QED BY <3>1, <3>2
  <2>3. CASE PathOf(d, row) \notin DOMAIN disk
    <3>1. ByHash(row.owner, row.hash) # {}
          /\ \A p \in ByHash(row.owner, row.hash) : disk[p] = row.hash
      BY <1>1, <1>6, <2>1, ByHashIs DEF WithBytes
    <3>2. SignedVersion(row) = ByHash(row.owner, row.hash)
          /\ Latest(row) = ByHash(row.owner, row.hash)
      BY <1>1, <1>9, <2>1, <2>3, <3>1, VariantsAre
    <3> QED BY <3>1, <3>2
  <2> QED BY <2>2, <2>3
<1> QED BY <1>8, <1>9 DEF row

\* One request at a time: as long as nothing failed and no document met another or
\* a stored file by its name, both versions of every document are served, however
\* many drafts were deleted whose files had the same contents.
THEOREM VersionsAreServedHolds ==
  ASSUME OneByOne
  PROVE  FilesSpec => []VersionsAreServed
<1>1. FilesInit => OwnInv /\ KeptInv
  BY OwnInit, KeptInit
<1>2. TypesInv /\ OwnInv /\ [FilesNext]_filesVars => OwnInv'
  BY OwnStep
<1>3. TypesInv /\ OwnInv /\ KeptInv /\ [FilesNext]_filesVars => KeptInv'
  BY KeptStep
<1>4. TypesInv /\ OwnInv /\ KeptInv => VersionsAreServed
  BY KeptFilesAreServed
<1> QED BY <1>1, <1>2, <1>3, <1>4, FilesTypes, PTL DEF FilesSpec
=============================================================================
