---------------------------- MODULE MCOffboarding ----------------------------
(* Model values and sets for TLC. *)
EXTENDS Offboarding

MCEndings == {"condition", "deletion"}
MCFaults == FaultKinds
=============================================================================
