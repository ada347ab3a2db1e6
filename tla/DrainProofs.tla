---------------------------- MODULE DrainProofs ----------------------------
(***************************************************************************)
(* The abstract drain keeps its promise, for any set of instances.         *)
(***************************************************************************)
EXTENDS Drain, TLAPS

\* The list of a closed host covers it from its admission on.
DrainInv == /\ DrainTypeOK
            /\ phase = "draining" /\ closed => onHost \subseteq remaining
            /\ DoneMeansEmpty

\* A drain that is done has emptied a host that stayed closed: the host is
\* admitted with all that is on it, only what has left is struck off, nothing
\* arrives on a closed host, and one that was opened is not closed again
\* before the next drain.
THEOREM DrainKeepsPromise == DrainSpec => []DoneMeansEmpty
<1>1. DrainInit => DrainInv
  BY DEF DrainInit, DrainInv, DrainTypeOK, DoneMeansEmpty
<1>2. DrainInv /\ [DrainNext]_drainVars => DrainInv'
  <2> SUFFICES ASSUME DrainInv, [DrainNext]_drainVars PROVE DrainInv'
    OBVIOUS
  <2> USE DEF DrainInv, DrainTypeOK, DoneMeansEmpty
  <2>1. CASE Request \/ Admit
    BY <2>1 DEF Request, Admit
  <2>2. CASE Strike
    BY <2>2 DEF Strike
  <2>3. CASE Finish \/ NoHost \/ Withdraw
    BY <2>3 DEF Finish, NoHost, Withdraw
  <2>4. CASE Leave \/ Arrive
    BY <2>4 DEF Leave, Arrive
  <2>5. CASE Open \/ Close
    BY <2>5 DEF Open, Close
  <2>6. CASE UNCHANGED drainVars
    BY <2>6 DEF drainVars
  <2> QED BY <2>1, <2>2, <2>3, <2>4, <2>5, <2>6 DEF DrainNext
<1>3. DrainInv => DoneMeansEmpty
  BY DEF DrainInv
<1> QED BY <1>1, <1>2, <1>3, PTL DEF DrainSpec
=============================================================================
