-------------------------- MODULE MCMigrationEngine --------------------------
(* Small instances of MigrationEngine for TLC: a VM with a root volume and  *)
(* two data volumes (so that a loop over data volumes can stop half-way),   *)
(* and two NICs.                                                            *)
EXTENDS MigrationEngine

CONSTANTS root, d1, d2, n1, n2, c1

MCVolumes == {root, d1, d2}
MCNics == {n1, n2}
OneCancel == {c1}
NoCancel == {}
AnyFault == {"refused", "timeout"}
=============================================================================
