------------------------------ MODULE MCFiles ------------------------------
(* Names of files for TLC: one alike after sanitising, and one of a signed file. *)
EXTENDS Files, TLC

CONSTANTS thesis, alike

AlikeNames == {<<thesis>>, <<thesis, 1>>, <<alike>>, <<thesis, Signed>>}

\* A character of the second word is not allowed in a file name.
MCPlain == [w \in Words |-> thesis]

Symmetry == Permutations(Users) \cup Permutations(Requests)
=============================================================================
