----------------------------- MODULE MCSessions -----------------------------
(* Accounts, tabs and calls for TLC. *)
EXTENDS Sessions, TLC

CONSTANTS lecturer, superadmin, p1, p2

MCInitial == [u \in Users |-> IF u = superadmin THEN p1 ELSE p2]

Symmetry == Permutations(Calls) \cup Permutations(Tabs)
=============================================================================
