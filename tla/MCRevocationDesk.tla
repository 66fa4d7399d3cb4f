------------------------- MODULE MCRevocationDesk -------------------------
(* Model values of the pages in front of a publication for TLC. *)
EXTENDS RevocationDesk

CONSTANTS owner, boss, s1, k1, a1, a2, v1, v2

\* s: last signatures, k: revocations, a: revoke requests, v: reviews.
MCHandler ==
  [r \in Requests |-> IF r = s1 THEN "sign" ELSE IF r = k1 THEN "revoke"
                      ELSE IF r \in {a1, a2} THEN "ask" ELSE "review"]

Calling(handler) == {r \in Requests : Handler[r] = handler}

Symmetry ==
  Permutations(Calling("ask")) \cup Permutations(Calling("review"))
=============================================================================
