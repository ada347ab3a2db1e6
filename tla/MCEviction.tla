----------------------------- MODULE MCEviction -----------------------------
(* Small instances of the eviction controller for TLC.                     *)
EXTENDS Eviction

CONSTANTS v1, v2, v3

\* Two traits, one of them limited; the unlimited one must not matter.
MCTraitConcurrency == [hana |-> 1, gpu |-> 2]
MCHanaTraits == {"hana", "other"}
MCGpuTraits == {"gpu", "other"}
MCNoTraits == {"other"}

Symmetry == Permutations(Instances)
=============================================================================
