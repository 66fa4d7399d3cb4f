------------------------ MODULE MCPublicVerification ------------------------
(* Accounts, nodes and files of the public verification for TLC. *)
EXTENDS PublicVerification, TLC

CONSTANTS primary, replica1, replica2

MCReplicas == <<replica1, replica2>>

\* Up to two signatures for the parser and for verify-pdf, which may find
\* fewer or more; they agree on whether the names mention DOCChain.
SeqsUpTo2(S) == {<<>>} \cup {<<a>> : a \in S} \cup {<<a, b>> : a, b \in S}

MCPdfs ==
  UNION {
    [entries : SeqsUpTo2([readable : {TRUE}, digest : {"none", "same", "other"}, docchain : {d}]
                           \cup [readable : {FALSE}, digest : {"none"}, docchain : {d}]),
     verdicts : SeqsUpTo2([integrity : {"true", "false", "undefined"}, docchain : {d}])] :
    d \in BOOLEAN}
=============================================================================
