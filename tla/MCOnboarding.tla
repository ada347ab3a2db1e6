---------------------------- MODULE MCOnboarding ----------------------------
(* Model values and sets for TLC. *)
EXTENDS Onboarding

\* Two values of spec.aggregates, with nothing in common but the zone.
MCSpecs == {{"zone", "a"}, {"zone", "b"}}
\* Without tests there are no volumes to be shared with other hosts.
MCFaults == FaultKinds \ {"neighbour"}
=============================================================================
