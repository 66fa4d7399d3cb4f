----------------------------- MODULE MCSigning -----------------------------
(* Model values and ranks of the signing workflow for TLC. *)
EXTENDS DocumentViews, TLC

CONSTANTS owner, lecturer, dean, r1, r2, r3, r4, r5

\* A student owns the document, a lecturer and the dean may sign after it.
MCRank == [u \in Users |-> IF u = owner THEN 1 ELSE IF u = lecturer THEN 3 ELSE 5]

AllHandlers ==
  {"start", "request", "sign", "decline", "finalizeQr", "delete", "revoke"}

Symmetry == Permutations(Requests)
=============================================================================
