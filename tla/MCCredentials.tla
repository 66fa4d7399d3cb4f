--------------------------- MODULE MCCredentials ---------------------------
(* Names, users, requests and pictures for TLC. *)
EXTENDS SignatureSetup, TLC

CONSTANTS ani, ANI, budi, s1, s2, i1, i2, wide, tall

MCEmail == [u \in Users |-> budi]

\* Two ways to write one name.
MCNormal == [n \in Names |-> IF n = ANI THEN ani ELSE n]

\* s: signing, i: uploads of images.
MCHandler == [r \in Requests |-> IF r \in {i1, i2} THEN "upload" ELSE "sign"]

MCDrags == {-4, 1, 5}

MCSize == [p \in Pictures |-> IF p = wide THEN [w |-> 15, h |-> 4] ELSE [w |-> 7, h |-> 11]]

Symmetry ==
  Permutations(Requests \cap {s1, s2}) \cup Permutations(Requests \cap {i1, i2})
    \cup Permutations(Authorities) \cup Permutations(Secrets) \cup Permutations(Extensions)
=============================================================================
