------------------------- MODULE EvictionRefinement -------------------------
(***************************************************************************)
(* The eviction controller implements the abstract drain, for any set of   *)
(* instances, any limit and any number of disturbances.                    *)
(***************************************************************************)
EXTENDS EvictionListProofs

-----------------------------------------------------------------------------
(* The refinement mapping.                                                 *)

\* The phase of an Eviction as a value: pr tells whether it exists, e is its
\* status.
PhaseOf(pr, e) ==
    IF ~ pr THEN "absent"
    ELSE IF e.evicting = "Succeeded" THEN "done"
    ELSE IF e.evicting = "Failed" THEN "failed"
    ELSE IF e.preflight = "True" THEN "draining" ELSE "pending"

\* The phase is that of the stored status.
LEMMA PhaseIs == TypeOK => phase = PhaseOf(present, ev)
BY DEF phase, PhaseOf, TypeOK, EvStatus

\* The same after a step.
LEMMA PhaseIsNext == TypeOK' => phase' = PhaseOf(present', ev')
BY DEF phase, PhaseOf, TypeOK, EvStatus

\* What the abstract drain sees of a state.
DrainUnchanged == /\ UNCHANGED <<present, ev>>
                  /\ OnSrc' = OnSrc
                  /\ hv'.disabled = hv.disabled

\* A step that touches none of it stutters.
LEMMA Stutters == DrainUnchanged => UNCHANGED Abstract!drainVars
BY DEF DrainUnchanged, Abstract!drainVars, phase

-----------------------------------------------------------------------------
(* Step simulation.                                                        *)

\* The write-back is the only step of a pass the abstract drain sees.
LEMMA SaveRefines ==
    ASSUME ListInv, TypeOK', updateStatus
    PROVE  Abstract!DrainNext \/ UNCHANGED Abstract!drainVars
<1>0. /\ ev \in EvStatus /\ pass.st \in EvStatus /\ TypeOK /\ OnSrc' = OnSrc /\ UNCHANGED <<nova, hv, present>>
      /\ OnSrc \subseteq Instances /\ pass.pc = "save"
  BY OnSrcUnchanged DEF ListInv, IndInv, TypeOK, Pass, updateStatus, OnSrc
<1>1. CASE ~ present
  <2>1. UNCHANGED ev
    BY <1>1 DEF updateStatus
  <2> QED BY <1>0, <2>1, Stutters DEF DrainUnchanged
<1>2. CASE present
  <2>1. ev' = merge(ev, pass.st) /\ Copy(ev, pass, OnSrc) /\ Honest(ev, nova, hv.known) /\ Honest(pass.st, nova, hv.known)
    BY <1>0, <1>2 DEF updateStatus, ListInv
  <2>2. /\ ev.evicting \in {"None", "Running"} /\ pass.st.evicting # "None"
        /\ ev.preflight = "True" => pass.st.preflight = "True"
        /\ hv.disabled => SafeStatus(pass.st, OnSrc)
    BY <1>0, <1>2 DEF ListInv, IndInv
  <2>3. /\ ev'.outstanding = pass.st.outstanding
        /\ ev'.evicting = pass.st.evicting
        /\ ev'.preflight = "True" <=> pass.st.preflight = "True"
    BY <1>0, <2>1, <2>2, mergeKeeps
  <2>4. /\ ToSet(ev'.outstanding) \subseteq Instances
        /\ pass.st.evicting \in {"Running", "Succeeded", "Failed"}
    <3>1. ev'.outstanding \in Seq(Instances)
      BY DEF TypeOK, EvStatus
    <3> QED BY <1>0, <2>2, <3>1, ElementOfSeq, LenProperties DEF ToSet, EvStatus
  <2>5. /\ phase = IF ev.preflight = "True" THEN "draining" ELSE "pending"
        /\ phase' = PhaseOf(TRUE, ev')
    <3>1. phase = PhaseOf(present, ev) /\ phase' = PhaseOf(present', ev')
      BY <1>0, PhaseIs, PhaseIsNext
    <3> QED BY <1>0, <1>2, <2>2, <3>1 DEF PhaseOf
  <2> DEFINE rem  == ToSet(ev.outstanding)
             rem2 == ToSet(ev'.outstanding)
  <2>6. rem' = rem2
    OBVIOUS
  <2>7. CASE ev.preflight = "True" /\ pass.st.evicting = "Running"
    <3>1. phase = "draining" /\ phase' = "draining"
      BY <2>2, <2>3, <2>5, <2>7 DEF PhaseOf
    <3>2. rem2 \subseteq rem /\ (rem \ rem2) \cap OnSrc = {}
      BY <2>1, <2>3, <2>7 DEF Copy
    <3>3. Abstract!Strike
      BY <1>0, <3>1, <3>2 DEF Abstract!Strike
    <3> QED BY <3>3 DEF Abstract!DrainNext
  <2>8. CASE ev.preflight = "True" /\ pass.st.evicting = "Succeeded"
    <3>1. phase = "draining" /\ phase' = "done"
      BY <2>3, <2>5, <2>8 DEF PhaseOf
    <3>2. rem = {} /\ rem2 = {}
      BY <2>1, <2>3, <2>8, EmptyDistinct DEF Copy, Honest
    <3>3. Abstract!Finish
      BY <1>0, <3>1, <3>2 DEF Abstract!Finish
    <3> QED BY <3>3 DEF Abstract!DrainNext
  <2>9. CASE ev.preflight # "True" /\ pass.st.preflight = "True"
    <3>1. phase = "pending" /\ phase' = "draining"
      BY <2>1, <2>3, <2>5, <2>9 DEF PhaseOf, Copy
    <3>2. hv.disabled => OnSrc \subseteq rem2
      BY <2>2, <2>3, <2>9 DEF SafeStatus
    <3>3. Abstract!Admit
      BY <1>0, <2>4, <3>1, <3>2 DEF Abstract!Admit
    <3> QED BY <3>3 DEF Abstract!DrainNext
  <2>10. CASE ev.preflight # "True" /\ pass.st.preflight # "True"
    <3>1. ev.outstanding = <<>> /\ ev'.outstanding = <<>>
      BY <2>1, <2>3, <2>10 DEF Honest
    <3>2. CASE pass.st.evicting = "Running"
      <4>1. phase' = phase
        BY <2>3, <2>5, <2>10, <3>2 DEF PhaseOf
      <4> QED BY <1>0, <3>1, <4>1 DEF Abstract!drainVars
    <3>3. CASE pass.st.evicting \in {"Succeeded", "Failed"}
      <4>1. phase = "pending" /\ phase' \in {"done", "failed"}
        BY <2>3, <2>5, <2>10, <3>3 DEF PhaseOf
      <4>2. OnSrc = {}
        BY <2>1, <2>10, <3>3 DEF Honest, ListInv, IndInv
      <4>3. Abstract!NoHost
        BY <1>0, <3>1, <4>1, <4>2 DEF Abstract!NoHost
      <4> QED BY <4>3 DEF Abstract!DrainNext
    <3> QED BY <2>4, <3>2, <3>3
  <2>11. ~ (ev.preflight = "True" /\ pass.st.evicting = "Failed")
    BY <2>1, <2>2 DEF Honest
  <2> QED BY <2>4, <2>7, <2>8, <2>9, <2>10, <2>11
<1> QED BY <1>0, <1>1, <1>2 DEF TypeOK

\* The other steps of a pass are invisible: they change the working copy and
\* Nova's task states.
LEMMA PassStutters == ListInv /\ Controller => updateStatus \/ DrainUnchanged
<1> SUFFICES ASSUME ListInv, Controller, ~ updateStatus PROVE DrainUnchanged
  OBVIOUS
<1>0. nova \in [Instances -> VM] /\ pass \in Pass /\ TypeOK
  BY DEF ListInv, IndInv, TypeOK
<1>1. UNCHANGED <<hv, present, ev>>
  BY DEF Controller, Start, PreflightBlocked, PreflightBegin, EvictNextBegin, Succeed, Begin,
         PreflightList, PreflightNotFound, PreflightError, ScanInstance, ScanError, ScanEnd, Scanning,
         ConfirmResize, ConfirmError, Migrate, MigrateError, Starting, StartEnd, InPass,
         updateStatusError, Crash
<1>2. OnSrc' = OnSrc
  <2>1. CASE UNCHANGED nova
    BY <2>1, OnSrcUnchanged
  <2>2. CASE ConfirmResize
    <3> DEFINE i == Head(pass.queue)
    <3>1. i \in Instances
      BY <1>0, <2>2, HeadTailProperties DEF ConfirmResize, InPass, TypeOK, Pass
    <3>2. CASE nova[i].status = "VERIFY_RESIZE" /\ nova' = [nova EXCEPT ![i].status = "SHUTOFF"]
      <4>1. \A j \in Instances : (Exists(j) /\ nova[j].host = "src")' <=> (Exists(j) /\ nova[j].host = "src")
        BY <1>0, <3>1, <3>2 DEF Exists, VM
      <4> QED BY <4>1 DEF OnSrc
    <3> QED BY <2>1, <2>2, <3>2 DEF ConfirmResize
  <2>3. CASE Migrate
    <3> DEFINE c == Head(pass.cands)
    <3>1. c.id \in Instances
      <4>1. c \in Candidate
        BY <1>0, <2>3, HeadTailProperties DEF Migrate, Starting, Pass
      <4> QED BY <4>1 DEF Candidate
    <3>2. CASE nova' = [nova EXCEPT ![c.id].task = IF c.live THEN "migrating" ELSE "resize_prep"]
      <4>1. \A j \in Instances : nova'[j].status = nova[j].status /\ nova'[j].host = nova[j].host
        BY <1>0, <3>1, <3>2 DEF VM
      <4> QED BY <4>1 DEF OnSrc, Exists
    <3> QED BY <2>1, <2>3, <3>2 DEF Migrate
  <2> QED BY <2>1, <2>2, <2>3
    DEF Controller, Start, PreflightBlocked, PreflightBegin, EvictNextBegin, Succeed, Begin,
        PreflightList, PreflightNotFound, PreflightError, ScanInstance, ScanError, ScanEnd,
        ConfirmError, MigrateError, StartEnd, updateStatusError, Crash
<1> QED BY <1>1, <1>2 DEF DrainUnchanged

\* Nova takes an instance off the host, or places one on an open host.
LEMMA NovaRefines ==
    ASSUME ListInv, Nova
    PROVE  Abstract!DrainNext \/ UNCHANGED Abstract!drainVars
<1>0. /\ nova \in [Instances -> VM] /\ hv \in [registered : BOOLEAN, disabled : BOOLEAN, known : BOOLEAN]
      /\ OnSrc \subseteq Instances
  BY DEF ListInv, IndInv, TypeOK, OnSrc
<1>1. UNCHANGED <<present, ev>> /\ hv'.disabled = hv.disabled
  <2>1. CASE HypervisorVanishes
    BY <1>0, <2>1 DEF HypervisorVanishes
  <2>2. CASE ~ HypervisorVanishes
    BY <2>2 DEF Nova, NovaTakesUp, NovaCompletes, NovaFails, NovaFailsAfterMove, UserDeletes,
                NovaDeletes, UserToggles, NovaPlaces, Become
  <2> QED BY <2>1, <2>2
<1>2. UNCHANGED <<phase, ToSet(ev.outstanding)>>
  BY <1>1 DEF phase
<1>3. CASE HypervisorVanishes
  <2>1. OnSrc' = OnSrc
    BY <1>3, OnSrcUnchanged DEF HypervisorVanishes
  <2> QED BY <1>1, <2>1, Stutters DEF DrainUnchanged
<1>4. ASSUME NEW i \in Instances,
             \/ NovaTakesUp(i) \/ NovaCompletes(i) \/ NovaFails(i) \/ NovaFailsAfterMove(i)
             \/ UserDeletes(i) \/ NovaDeletes(i) \/ UserToggles(i) \/ NovaPlaces(i)
      PROVE  Abstract!DrainNext \/ UNCHANGED Abstract!drainVars
  <2>1. \A j \in Instances \ {i} : nova'[j] = nova[j]
    BY <1>0, <1>4
    DEF NovaTakesUp, NovaCompletes, NovaFails, NovaFailsAfterMove, UserDeletes,
        NovaDeletes, UserToggles, NovaPlaces, Become
  <2>2. OnSrc' \ {i} = OnSrc \ {i} /\ OnSrc' \subseteq Instances
    BY <2>1 DEF OnSrc, Exists
  <2>3. i \in OnSrc' => i \in OnSrc \/ ~ hv.disabled
    BY <1>0, <1>4
    DEF NovaTakesUp, NovaCompletes, NovaFails, NovaFailsAfterMove, UserDeletes,
        NovaDeletes, UserToggles, NovaPlaces, Become, OnSrc, Exists, Gone
  <2>4. CASE i \in OnSrc <=> i \in OnSrc'
    <3>1. OnSrc' = OnSrc
      BY <2>2, <2>4
    <3> QED BY <1>1, <3>1, Stutters DEF DrainUnchanged
  <2>5. CASE i \in OnSrc /\ i \notin OnSrc'
    <3>1. OnSrc' = OnSrc \ {i}
      BY <2>2, <2>5
    <3>2. Abstract!Leave
      BY <1>1, <1>2, <2>5, <3>1 DEF Abstract!Leave
    <3> QED BY <3>2 DEF Abstract!DrainNext
  <2>6. CASE i \notin OnSrc /\ i \in OnSrc'
    <3>1. OnSrc' = OnSrc \cup {i} /\ ~ hv.disabled
      BY <2>2, <2>3, <2>6
    <3>2. Abstract!Arrive
      BY <1>1, <1>2, <3>1 DEF Abstract!Arrive
    <3> QED BY <3>2 DEF Abstract!DrainNext
  <2> QED BY <2>4, <2>5, <2>6
<1> QED BY <1>3, <1>4 DEF Nova

\* The maintenance controller requests, withdraws, opens and closes.
LEMMA MaintenanceRefines ==
    ASSUME ListInv, TypeOK', Maintenance
    PROVE  Abstract!DrainNext \/ UNCHANGED Abstract!drainVars
<1>0. /\ hv \in [registered : BOOLEAN, disabled : BOOLEAN, known : BOOLEAN] /\ TypeOK
      /\ OnSrc' = OnSrc /\ present \in BOOLEAN
  BY OnSrcUnchanged
  DEF ListInv, IndInv, TypeOK, Maintenance, MaintenanceDisables, MaintenanceCreates,
      MaintenanceEnables, MaintenanceDeletes
<1>1. phase = PhaseOf(present, ev) /\ phase' = PhaseOf(present', ev')
  BY <1>0, PhaseIs, PhaseIsNext
<1>2. CASE MaintenanceDisables
  <2>1. UNCHANGED <<present, ev>> /\ hv'.disabled = TRUE
    BY <1>0, <1>2 DEF MaintenanceDisables
  <2>2. present => Claimless(ev)
    BY <1>2 DEF MaintenanceDisables, ListInv, IndInv
  <2>3. phase \in {"absent", "pending"} /\ phase' = phase
    BY <1>0, <1>1, <2>1, <2>2 DEF PhaseOf, Claimless
  <2>4. Abstract!Close
    BY <1>0, <2>1, <2>3 DEF Abstract!Close
  <2> QED BY <2>4 DEF Abstract!DrainNext
<1>3. CASE MaintenanceCreates
  <2>1. ~ present /\ present' = TRUE /\ UNCHANGED <<hv, ev>> /\ ev = NoStatus
    BY <1>3 DEF MaintenanceCreates, ListInv, IndInv
  <2>2. phase = "absent" /\ phase' = "pending"
    BY <1>1, <2>1 DEF PhaseOf, NoStatus
  <2>3. Abstract!Request
    BY <1>0, <2>1, <2>2 DEF Abstract!Request
  <2> QED BY <2>3 DEF Abstract!DrainNext
<1>4. CASE MaintenanceEnables
  <2>1. UNCHANGED <<present, ev>> /\ hv'.disabled = FALSE
    BY <1>0, <1>4 DEF MaintenanceEnables
  <2>2. phase' = phase
    BY <1>1, <2>1
  <2>3. Abstract!Open
    BY <1>0, <2>1, <2>2 DEF Abstract!Open
  <2> QED BY <2>3 DEF Abstract!DrainNext
<1>5. CASE MaintenanceDeletes
  <2>1. present /\ present' = FALSE /\ UNCHANGED hv /\ ev' = NoStatus
    BY <1>0, <1>5 DEF MaintenanceDeletes, ListInv, IndInv
  <2>2. phase # "absent" /\ phase' = "absent"
    BY <1>1, <2>1 DEF PhaseOf
  <2>3. ToSet(ev'.outstanding) = {}
    BY <2>1, EmptyDistinct DEF NoStatus
  <2>4. Abstract!Withdraw
    BY <1>0, <2>1, <2>2, <2>3 DEF Abstract!Withdraw
  <2> QED BY <2>4 DEF Abstract!DrainNext
<1> QED BY <1>2, <1>3, <1>4, <1>5 DEF Maintenance

\* The eviction controller implements the abstract drain: whatever pass, Nova
\* and maintenance controller do in whatever order, the stored status strikes
\* off only instances that left the host, is done only with an empty list, or
\* without a host, and a re-opened host is not closed for it again.
THEOREM EvictionImplementsDrain ==
    ASSUME "recreate_in_pass" \notin Faults
    PROVE  Spec => ImplementsDrain
<1>1. Init => Abstract!DrainInit
  <2> SUFFICES ASSUME Init PROVE Abstract!DrainInit
    OBVIOUS
  <2>1. phase = "absent" /\ ToSet(ev.outstanding) = {} /\ hv.disabled = FALSE /\ OnSrc \subseteq Instances
    BY EmptyDistinct DEF Init, phase, NoStatus, OnSrc
  <2> QED BY <2>1 DEF Abstract!DrainInit
<1>2. ListInv /\ ListInv' /\ [Next]_vars => [Abstract!DrainNext]_(Abstract!drainVars)
  <2> SUFFICES ASSUME ListInv, ListInv', [Next]_vars
               PROVE  Abstract!DrainNext \/ UNCHANGED Abstract!drainVars
    OBVIOUS
  <2>1. TypeOK'
    BY DEF ListInv, IndInv
  <2>2. CASE UNCHANGED vars
    <3>1. DrainUnchanged
      BY <2>2, OnSrcUnchanged DEF vars, DrainUnchanged
    <3> QED BY <3>1, Stutters
  <2>3. CASE Controller
    BY <2>1, <2>3, PassStutters, SaveRefines, Stutters
  <2>4. CASE Nova
    BY <2>4, NovaRefines
  <2>5. CASE Maintenance
    BY <2>1, <2>5, MaintenanceRefines
  <2> QED BY <2>2, <2>3, <2>4, <2>5 DEF Next
<1>3. Spec => Abstract!DrainSpec
  BY <1>1, <1>2, ListInductive, PTL DEF Spec, Abstract!DrainSpec
<1> QED BY <1>3 DEF ImplementsDrain
=============================================================================
