--------------------------- MODULE MCIdentityDesk ---------------------------
(* Model values and scopes of the reviews of identities for TLC. *)
EXTENDS IdentityDesk, TLC

CONSTANTS student, lecturer, head, superadmin, adminProdi,
  n1, n2, n3, s1, s2, v1, v2, w1, w2

\* s: submissions, v: reviews, w: reviews of change requests.
MCHandler ==
  [r \in Requests |-> IF r \in {s1, s2} THEN "submit"
                      ELSE IF r \in {v1, v2} THEN "review" ELSE "reviewChange"]

MCReviews == [v \in Reviewers |-> IF v = superadmin THEN Users ELSE {lecturer}]

MCEnrolled == [u \in Users |-> IF u = lecturer THEN n1 ELSE IF u = head THEN n2 ELSE None]

Calling(handler) == {r \in Requests : Handler[r] = handler}

Symmetry ==
  UNION {Permutations(Calling(h)) : h \in {"submit", "review", "reviewChange"}}
=============================================================================
