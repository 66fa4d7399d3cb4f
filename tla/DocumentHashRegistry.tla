------------------------ MODULE DocumentHashRegistry ------------------------
(***************************************************************************)
(* The DocumentHashRegistry contract: a ledger of document hashes.  A      *)
(* transaction is atomic; one that reverts changes nothing, so a revert is *)
(* an action that is not enabled.                                          *)
(***************************************************************************)
EXTENDS Naturals

CONSTANTS
  Accounts,     \* addresses that send transactions
  Deployer,     \* the account that runs the constructor
  Hashes,       \* bytes32 document hashes
  ZeroHash,     \* bytes32(0)
  Cids,         \* IPFS content identifiers
  Reasons,      \* hashes of revocation reasons
  Unset,        \* the default value of a storage slot that was never written
  MaxTime       \* bound on the modelled block.timestamp

ASSUME RegistryAssumption ==
  /\ Deployer \in Accounts
  /\ ZeroHash \in Hashes
  /\ MaxTime \in Nat
  /\ Unset \notin Reasons

VARIABLES
  issuers,        \* the accounts with issuers[account] = true
  recordsByHash,  \* the mapping, total as every Solidity mapping is
  now             \* block.timestamp of the current block

regVars == <<issuers, recordsByHash, now>>

DocumentRecord ==
  [ipfsCid : Cids \cup {Unset}, issuer : Accounts \cup {Unset}, issuedAt : Nat,
   revoked : BOOLEAN, revokedAt : Nat, revokeReasonHash : Reasons \cup {Unset},
   exists : BOOLEAN]

EmptyRecord ==
  [ipfsCid |-> Unset, issuer |-> Unset, issuedAt |-> 0, revoked |-> FALSE,
   revokedAt |-> 0, revokeReasonHash |-> Unset, exists |-> FALSE]

-----------------------------------------------------------------------------
Constructor ==
  /\ issuers = {Deployer}
  /\ recordsByHash = [h \in Hashes |-> EmptyRecord]
  /\ now = 1

\* onlyOwner: the owner is set by the constructor and never changes.
SetIssuer(sender, issuer, allowed) ==
  /\ sender = Deployer
  /\ issuers' = IF allowed THEN issuers \cup {issuer} ELSE issuers \ {issuer}
  /\ UNCHANGED <<recordsByHash, now>>

\* Mutant: a hash may be registered again.
NeverRecordedMutant(h) == h # ZeroHash

NeverRecorded(h) ==
  /\ h # ZeroHash
  /\ ~recordsByHash[h].exists

RegisterDocument(sender, h, cid) ==
  /\ sender \in issuers
  /\ NeverRecorded(h)
  /\ recordsByHash' = [recordsByHash EXCEPT ![h] =
       [EmptyRecord EXCEPT !.ipfsCid = cid, !.issuer = sender,
                           !.issuedAt = now, !.exists = TRUE]]
  /\ UNCHANGED <<issuers, now>>

Revocable(h) ==
  /\ recordsByHash[h].exists
  /\ ~recordsByHash[h].revoked

RevokeDocument(sender, h, reason) ==
  /\ sender \in issuers
  /\ Revocable(h)
  /\ recordsByHash' = [recordsByHash EXCEPT
       ![h].revoked = TRUE, ![h].revokedAt = now, ![h].revokeReasonHash = reason]
  /\ UNCHANGED <<issuers, now>>

\* The next block carries a later timestamp.
NextBlock ==
  /\ now < MaxTime
  /\ now' = now + 1
  /\ UNCHANGED <<issuers, recordsByHash>>

Transact(sender) ==
  \/ \E a \in Accounts, allowed \in BOOLEAN : SetIssuer(sender, a, allowed)
  \/ \E h \in Hashes, cid \in Cids : RegisterDocument(sender, h, cid)
  \/ \E h \in Hashes, reason \in Reasons : RevokeDocument(sender, h, reason)

RegNext == NextBlock \/ \E sender \in Accounts : Transact(sender)

RegSpec == Constructor /\ [][RegNext]_regVars

-----------------------------------------------------------------------------
\* Every storage slot keeps the type the contract declares for it.
RegTypeOK ==
  /\ issuers \subseteq Accounts
  /\ recordsByHash \in [Hashes -> DocumentRecord]
  /\ now \in Nat

\* The dates of a record at time t, and a revocation only of what exists.
InOrder(rec, t) ==
  /\ rec.issuedAt <= t
  /\ rec.revoked =>
       /\ rec.exists /\ rec.revokeReasonHash # Unset
       /\ rec.issuedAt <= rec.revokedAt /\ rec.revokedAt <= t
  /\ ~rec.revoked => rec.revokedAt = 0 /\ rec.revokeReasonHash = Unset

(* A revocation refers to a registration that came no later: no sequence   *)
(* of transactions of any accounts leaves a revoked hash that was never    *)
(* registered, a revocation dated before the registration, or a revocation *)
(* date or reason on a record that is not revoked (registerDocument,       *)
(* revokeDocument).                                                        *)
RevocationFollowsRegistration ==
  \A h \in Hashes : InOrder(recordsByHash[h], now)

(* The ledger only grows: what is recorded of a hash (CID, issuer, date)   *)
(* is never rewritten, not even by the owner or after the issuer lost its  *)
(* right, and a revocation, with its date and reason, is final.            *)
LedgerGrows ==
  \A h \in Hashes : LET rec == recordsByHash[h] new == recordsByHash'[h] IN
    /\ rec.exists =>
         /\ new.exists
         /\ new.ipfsCid = rec.ipfsCid /\ new.issuer = rec.issuer
         /\ new.issuedAt = rec.issuedAt
    /\ rec.revoked => new = rec

LedgerAppendOnly == [][LedgerGrows]_regVars
=============================================================================
