--------------------------- MODULE MCPublication ---------------------------
(* Model values of the publication of a document for TLC. *)
EXTENDS Publication, TLC

CONSTANTS owner, signer, s1, s2, k1, k2, a1, a2, v1, v2

\* s: last signatures, k: revocations, a: revoke requests, v: reviews.
MCHandler ==
  [r \in Requests |-> IF r \in {s1, s2} THEN "sign" ELSE IF r \in {k1, k2} THEN "revoke"
                      ELSE IF r \in {a1, a2} THEN "ask" ELSE "review"]

Calling(handler) == {r \in Requests : Handler[r] = handler}

Symmetry ==
  Permutations(Users)
    \cup UNION {Permutations(Calling(h)) : h \in {"revoke", "ask", "review"}}
=============================================================================
