------------------------------ MODULE MCLeases ------------------------------
(* Instances of Leases for TLC. *)
EXTENDS Leases

CONSTANTS n1, n2, n3

(* Two machines behind one router, and one that never said where it is. *)
OneRouter == [n \in Nodes |-> IF n = n3 THEN NoSite ELSE 0]

FitsAll == [j \in Jobs |-> Nodes]

OneRank == [j \in Jobs |-> 1]
TwoRanks == [j \in Jobs |-> 2]

(* A first job that needs the memory only one of the machines has. *)
FirstIsPicky == [j \in Jobs |-> IF j = 1 THEN {n1} ELSE Nodes]
=============================================================================
