----------------------------- MODULE MCAccounts -----------------------------
(* Accounts, units and requests for TLC. *)
EXTENDS Accounts, TLC

CONSTANTS root, admin, student, lecturer, newcomer, informatics, systems, technology, n1

Row(role, profile, unit, post) ==
  [role |-> role, status |-> "ACTIVE", deleted |-> FALSE, student |-> profile,
   home |-> unit, post |-> post]

MCSeed ==
  [u \in Users |->
     CASE u = root -> Row("SUPERADMIN", None, None, None)
       [] u = admin -> Row("ADMIN_PRODI", None, informatics, informatics)
       [] u = student -> Row("MAHASISWA", [nim |-> n1, prodi |-> informatics], None, None)
       [] u = lecturer -> Row("DOSEN", None, informatics, None)
       [] u = newcomer -> None]

Symmetry == Permutations(Requests) \cup Permutations(Nims \ {n1})
=============================================================================
