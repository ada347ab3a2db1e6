------------------------------- MODULE Drain -------------------------------
(***************************************************************************)
(* What an Eviction promises, without passes, conditions or Nova's states: *)
(* a host is listed once it is closed to newcomers, an instance is struck  *)
(* off the list only after it has left the host, and the drain is done     *)
(* when nothing is left on the list.                                       *)
(***************************************************************************)
CONSTANT Instances

VARIABLES
    phase,     \* "absent", "pending", "draining", "done" or "failed"
    remaining, \* the instances still on the list
    onHost,    \* the instances on the host
    closed     \* does the scheduler keep away from the host?

drainVars == <<phase, remaining, onHost, closed>>

DrainTypeOK == /\ phase \in {"absent", "pending", "draining", "done", "failed"}
               /\ remaining \subseteq Instances
               /\ onHost \subseteq Instances
               /\ closed \in BOOLEAN

DrainInit == /\ phase = "absent"
             /\ remaining = {}
             /\ onHost \subseteq Instances
             /\ closed = FALSE

Request == /\ phase = "absent"
           /\ phase' = "pending"
           /\ UNCHANGED <<remaining, onHost, closed>>

\* The host is listed; nothing on a closed host may be missed.
Admit == /\ phase = "pending"
         /\ phase' = "draining"
         /\ remaining' \in SUBSET Instances
         /\ closed => onHost \subseteq remaining'
         /\ UNCHANGED <<onHost, closed>>

Strike == /\ phase = "draining"
          /\ remaining' \in SUBSET remaining
          /\ (remaining \ remaining') \cap onHost = {}
          /\ UNCHANGED <<phase, onHost, closed>>

Finish == /\ phase = "draining"
          /\ remaining = {}
          /\ phase' = "done"
          /\ UNCHANGED <<remaining, onHost, closed>>

\* There is no such host: an error, or all there is to do.
NoHost == /\ phase = "pending"
          /\ onHost = {}
          /\ phase' \in {"done", "failed"}
          /\ UNCHANGED <<remaining, onHost, closed>>

Withdraw == /\ phase # "absent"
            /\ phase' = "absent"
            /\ remaining' = {}
            /\ UNCHANGED <<onHost, closed>>

Leave == /\ \E i \in onHost : onHost' = onHost \ {i}
         /\ UNCHANGED <<phase, remaining, closed>>

Arrive == /\ ~ closed
          /\ \E i \in Instances : onHost' = onHost \cup {i}
          /\ UNCHANGED <<phase, remaining, closed>>

\* A host may be opened at any time; it is closed again only for a new drain.
Open == /\ closed' = FALSE
        /\ UNCHANGED <<phase, remaining, onHost>>

Close == /\ phase \in {"absent", "pending"}
         /\ closed' = TRUE
         /\ UNCHANGED <<phase, remaining, onHost>>

DrainNext == \/ Request \/ Admit \/ Strike \/ Finish \/ NoHost \/ Withdraw
             \/ Leave \/ Arrive \/ Open \/ Close

DrainSpec == DrainInit /\ [][DrainNext]_drainVars

\* The promise: a drain that is done has emptied a host that stayed closed.
DoneMeansEmpty == phase = "done" /\ closed => onHost = {}
=============================================================================
