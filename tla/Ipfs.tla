-------------------------------- MODULE Ipfs --------------------------------
(***************************************************************************)
(* IpfsService: the upload of a final file to the first node that takes it *)
(* and has it pinned by the replicas, and the reads, from the gateways and *)
(* then from the nodes.  An upload that timed out may have been stored all *)
(* the same, and so may a pin.                                             *)
(*                                                                         *)
(* A file names its own CID: content addressing.                           *)
(***************************************************************************)
EXTENDS Naturals, Sequences, SequencesExt, FiniteSets, Functions

CONSTANTS
  Files,            \* the files that may be uploaded
  Nodes,            \* the IPFS nodes
  Primary,          \* that of IPFS_API_URL, if any
  Replicas,         \* those of IPFS_REPLICA_API_URLS, in order
  Gateways,         \* those with a gateway in IPFS_GATEWAY_URL or _URLS
  OwnHeader,        \* the replicas that ask for IPFS_REPLICA_API_AUTH_HEADER
  ReplicaRequired,  \* IPFS_REPLICA_REQUIRED
  None              \* no node, or no CID

ASSUME IpfsAssumption ==
  /\ Primary \in Nodes \cup {None} /\ None \notin Nodes \cup Files
  /\ Replicas \in Seq(Nodes) /\ IsInjective(Replicas)
  /\ Gateways \subseteq Nodes /\ OwnHeader \subseteq Nodes
  /\ ReplicaRequired \in BOOLEAN

VARIABLES
  stored,   \* the files that each node has pinned
  upload    \* how far the upload of each file has come, and what it returned

ipfsVars == <<stored, upload>>

\* getReadableApiUrls and getWritableApiUrls, which are the same.
ApiUrls ==
  IF Primary = None THEN Replicas
  ELSE <<Primary>> \o RemoveFirst(Replicas, Primary)

Upload ==
  [step : {"idle", "add", "pin", "done"}, at : 0..Len(ApiUrls), cid : Files \cup {None}]

IpfsInit ==
  /\ stored = [n \in Nodes |-> {}]
  /\ upload = [f \in Files |-> [step |-> "idle", at |-> 0, cid |-> None]]

-----------------------------------------------------------------------------
(* addPdf.  When every node has failed it throws or returns null; its      *)
(* caller catches the former, which comes to the same.                     *)

Return(f, cid) == upload' = [upload EXCEPT ![f] = [step |-> "done", at |-> 0, cid |-> cid]]

TryFrom(f, i) ==
  IF i > Len(ApiUrls) THEN Return(f, None)
  ELSE upload' = [upload EXCEPT ![f] = [step |-> "add", at |-> i, cid |-> None]]

Keep(f, nodes) ==
  stored' = [n \in Nodes |-> IF n \in nodes THEN stored[n] \cup {f} ELSE stored[n]]

AddPdf(f) ==
  /\ upload[f].step = "idle"
  /\ TryFrom(f, 1)
  /\ UNCHANGED stored

AddPdfToApi(f) ==
  LET i == upload[f].at IN
  /\ upload[f].step = "add"
  /\ \/ /\ Keep(f, {ApiUrls[i]})
        /\ upload' = [upload EXCEPT ![f].step = "pin"]
     \/ \E nodes \in {{}, {ApiUrls[i]}} : Keep(f, nodes) /\ TryFrom(f, i + 1)

\* Mutant: a pin that failed is only logged.
ReplicationSucceedsMutant(told, others) == TRUE

ReplicationSucceeds(told, others) == told = others \/ ~ReplicaRequired

\* All replicas at once; the node that has the file is left out.
PinToReplicas(f) ==
  LET i == upload[f].at others == Range(Replicas) \ {ApiUrls[i]} IN
  /\ upload[f].step = "pin"
  /\ \E pinned \in SUBSET others : \E told \in SUBSET pinned :
       /\ Keep(f, pinned)
       /\ IF ReplicationSucceeds(told, others) THEN Return(f, f) ELSE TryFrom(f, i + 1)

IpfsStep(f) == AddPdf(f) \/ AddPdfToApi(f) \/ PinToReplicas(f)

-----------------------------------------------------------------------------
\* fetchFile, with the nodes that are up: each in turn, and cat is sent the
\* header of the primary node whatever the node.
Fetchable(f, up) ==
  \E n \in up : f \in stored[n] /\ n \in Gateways \cup (Range(ApiUrls) \ OwnHeader)

IpfsTypeOK ==
  /\ stored \in [Nodes -> SUBSET Files]
  /\ upload \in [Files -> Upload]
=============================================================================
