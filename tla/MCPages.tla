------------------------------ MODULE MCPages ------------------------------
(* Users, sheets of paper and clicks for TLC. *)
EXTENDS Pages, TLC

CONSTANTS owner, lecturer, colleague, d1, d2

MCRank == [u \in Users |-> IF u = Owner THEN 1 ELSE 2]

A4 == [w |-> 595, h |-> 842]
Landscape == [w |-> 842, h |-> 595]

TwoSheets == <<A4, Landscape>>

\* A corner of the second sheet.
MCClicks == {[page |-> 2, x |-> 835, y |-> 10]}

\* A document of another owner, whose first signer has not signed yet.
MCSentTo == [d \in Docs |-> IF d = d1 THEN <<>> ELSE <<colleague, lecturer>>]
=============================================================================
