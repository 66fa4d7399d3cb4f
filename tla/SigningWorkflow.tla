-------------------------- MODULE SigningWorkflow --------------------------
(***************************************************************************)
(* What the signing workflow promises its users, without rows, files,      *)
(* snapshots or awaits: who is asked to sign a document and when it is     *)
(* whose turn, who has signed, and what the status of the document says.   *)
(* Signing implements it when it handles one request at a time.            *)
(***************************************************************************)
EXTENDS Naturals

CONSTANTS Users, Owner, Rank   \* see Signing

VARIABLES
  status,  \* of the document, or "DELETED"
  turn,    \* when each user signs, those of a lower turn first; 0: not asked
  signed   \* those who have signed

wfVars == <<status, turn, signed>>

Asked == {u \in Users : turn[u] # 0}

Open == status \notin {"REVOKED", "DELETED"}

NoTurns == [u \in Users |-> 0]

WfInit == status = "DRAFT" /\ turn = NoTurns /\ signed = {}

Start == status = "DRAFT" /\ status' = "PENDING_SIGNATURES" /\ UNCHANGED <<turn, signed>>

\* Before anybody signed the owner asks some users, each to sign at a turn of
\* its own, a lower rank first; whom an earlier call asked is asked no more.
Ask ==
  /\ Open /\ signed = {}
  /\ turn' \in [Users -> Nat] /\ turn' # NoTurns
  /\ \A u, v \in Users : u # v /\ turn'[u] # 0 /\ turn'[v] # 0 =>
       turn'[u] # turn'[v] /\ (Rank[u] < Rank[v] => turn'[u] < turn'[v])
  /\ status' = IF status = "DRAFT" THEN "PENDING_SIGNATURES" ELSE status
  /\ UNCHANGED signed

\* All before u, and not u, have signed.
MyTurn(u) ==
  /\ u \in Asked \ signed
  /\ \A v \in Asked : turn[v] < turn[u] => v \in signed

\* Of a document nobody was asked to sign the owner is the only signer.
Sign(u) ==
  /\ Open
  /\ IF Asked = {} THEN u = Owner /\ turn' = [turn EXCEPT ![u] = 1]
     ELSE MyTurn(u) /\ UNCHANGED turn
  /\ signed' = signed \cup {u}
  /\ status' = IF Asked \subseteq signed' THEN "FULLY_SIGNED" ELSE "PARTIALLY_SIGNED"

Decline(u) == Open /\ MyTurn(u) /\ status' = "REVOKED" /\ UNCHANGED <<turn, signed>>

Revoke == Open /\ status' = "REVOKED" /\ UNCHANGED <<turn, signed>>

Delete == status = "DRAFT" /\ status' = "DELETED" /\ turn' = NoTurns /\ signed' = {}

WfNext == Start \/ Ask \/ (\E u \in Users : Sign(u) \/ Decline(u)) \/ Revoke \/ Delete

WfSpec == WfInit /\ [][WfNext]_wfVars
=============================================================================
