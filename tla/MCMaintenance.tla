--------------------------- MODULE MCMaintenance ---------------------------
(* Small instances of the maintenance controller for TLC.                  *)
EXTENDS Maintenance, TLC

CONSTANTS v1, v2

Symmetry == Permutations(VMs)
=============================================================================
