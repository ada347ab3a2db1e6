------------------------- MODULE MaintenanceProofs -------------------------
(***************************************************************************)
(* Proofs about the maintenance controller: it never rests with a drain    *)
(* nobody works on, whatever fails, lags or is restarted; and as long as   *)
(* its reports arrive, an Eviction is created for a closed host only, and  *)
(* a hypervisor that rests as evicted is empty.                            *)
(***************************************************************************)
EXTENDS Maintenance, FiniteSetTheorems, TLAPS

-----------------------------------------------------------------------------
(* Types.                                                                  *)

\* The places in the code between which a pass can be interrupted.
Pcs == {"idle", "service", "evict", "delete", "settle", "abort", "ensure", "read", "apply"}

\* A report stays one whichever of its conditions is set.
LEMMA ReportTyped ==
    ASSUME NEW r \in Report, NEW d \in {"None", "True", "False", "Unknown"},
           NEW e \in {"None", "Running", "Succeeded"},
           NEW s \in {"None", "Settled", "Waiting", "Aborting", "Unknown"}, NEW b \in BOOLEAN
    PROVE  /\ [r EXCEPT !.disabled = d] \in Report
           /\ [r EXCEPT !.settled = s] \in Report
           /\ [r EXCEPT !.evicted = b] \in Report
           /\ [r EXCEPT !.evicting = e, !.settled = s] \in Report
           /\ [r EXCEPT !.settled = s, !.evicting = e] \in Report
           /\ [r EXCEPT !.evicted = b, !.evicting = e] \in Report
           /\ [r EXCEPT !.evicted = b, !.disabled = d] \in Report
           /\ [r EXCEPT !.settled = s, !.evicted = b, !.evicting = e] \in Report
BY Zenon DEF Report

\* What a pass starts from is well typed.
LEMMA StartTyped == NoReport \in Report /\ Blank \in Hypervisor /\ Idle \in Pass
<1>1. NoReport \in Report
  BY DEF NoReport, Report
<1>2. Blank \in Hypervisor
  BY <1>1 DEF Blank, Hypervisor, AllModes
<1>3. Unlisted \in [VMs -> {"none", "running", "post", "aborted"}]
  BY DEF Unlisted
<1>4. Idle \in Pass
  BY <1>1, <1>2, <1>3 DEF Idle, Pass
<1> QED
  BY <1>1, <1>2, <1>4

\* A pass stays one when it moves on with a report.
LEMMA PassTyped ==
    ASSUME NEW p \in Pass, NEW pc \in Pcs, NEW r \in Report
    PROVE  /\ [p EXCEPT !.pc = pc, !.out = r] \in Pass
           /\ [p EXCEPT !.pc = pc, !.out = r, !.again = TRUE] \in Pass
           /\ [p EXCEPT !.pc = pc, !.then = r] \in Pass
BY Zenon DEF Pass, Pcs

\* A pass stays one when it takes its snapshot.
LEMMA PassReads ==
    ASSUME NEW p \in Pass, NEW pc \in Pcs, NEW r \in Report, NEW h \in Hypervisor
    PROVE  [p EXCEPT !.pc = pc, !.seen = h, !.out = r] \in Pass
BY Zenon DEF Pass, Pcs

\* A pass stays one when it notes what becomes of the migrations.
LEMMA PassLists ==
    ASSUME NEW p \in Pass, NEW pc \in Pcs,
           NEW a \in [VMs -> {"none", "running", "post", "aborted"}]
    PROVE  [p EXCEPT !.pc = pc, !.active = a] \in Pass /\ [p EXCEPT !.active = a] \in Pass
BY Zenon DEF Pass, Pcs

\* The number of instances on the host is a number.
LEMMA HereCounts == Cardinality(Here) \in Nat
<1>1. IsFiniteSet(Here)
  BY ConstantsAssumption, FS_Subset DEF Here
<1> QED
  BY <1>1, FS_CardinalityType

\* Every step keeps the types.
LEMMA TypeStep == TypeOK /\ [Next]_vars => TypeOK'
<1> SUFFICES ASSUME TypeOK, [Next]_vars PROVE TypeOK'
  OBVIOUS
<1> DEFINE Places == {"none", "running", "post", "aborted"}
           Services == [enabled : BOOLEAN, forcedDown : BOOLEAN]
           Evictions == [state : EvictionStates, listed : SUBSET VMs]
           Typed == /\ hv' \in Hypervisor /\ service' \in Services
                    /\ eviction' \in Evictions /\ vm' \in [VMs -> Place]
                    /\ pass' \in Pass /\ queued' \in BOOLEAN /\ faults' \in 0..MaxFaults
<1>t. /\ hv \in Hypervisor /\ prev \in Hypervisor /\ service \in Services
      /\ eviction \in Evictions /\ vm \in [VMs -> Place] /\ pass \in Pass
      /\ queued \in BOOLEAN /\ faults \in 0..MaxFaults
  BY DEF TypeOK
<1>f. ASSUME NEW k, Disturb(k) PROVE faults' \in 0..MaxFaults
  BY ConstantsAssumption, <1>t, <1>f DEF Disturb
<1>p. /\ pass.out \in Report /\ pass.then \in Report /\ pass.seen \in Hypervisor
      /\ pass.active \in [VMs -> Places] /\ pass.again \in BOOLEAN
  BY <1>t DEF Pass
<1>q. ASSUME NEW h \in Hypervisor
      PROVE /\ h.report \in Report /\ h.maintenance \in AllModes /\ h.registered \in BOOLEAN
            /\ h.report.disabled \in {"None", "True", "False", "Unknown"}
            /\ h.report.evicting \in {"None", "Running", "Succeeded"}
            /\ h.report.settled \in {"None", "Settled", "Waiting", "Aborting", "Unknown"}
            /\ h.report.evicted \in BOOLEAN
  BY <1>q DEF Hypervisor, Report
<1>g. ASSUME NEW pc \in Pcs, NEW r \in Report
      PROVE Goto(pc, r) \/ Again(r) \/ Delete(r) => pass' \in Pass
  <2>1. "apply" \in Pcs /\ "delete" \in Pcs
    BY DEF Pcs
  <2>2. /\ [pass EXCEPT !.pc = pc, !.out = r] \in Pass
        /\ [pass EXCEPT !.pc = "apply", !.out = r, !.again = TRUE] \in Pass
        /\ [pass EXCEPT !.pc = "delete", !.then = r] \in Pass
    BY <1>g, <1>t, <2>1, PassTyped
  <2> QED
    BY <2>2, Zenon DEF Goto, Again, Delete
<1>u. ASSUME NEW s \in {"Waiting", "Aborting", "Unknown"} PROVE unsettled(s) \in Report
  BY <1>p, <1>q, ReportTyped, Zenon DEF unsettled
<1>r. ASSUME NEW r \in Report PROVE retain(r) \in Report /\ redrain(r) \in Report
  <2>1. retain(r) \in Report
    BY <1>r, <1>p, <1>q, ReportTyped, Zenon DEF retain
  <2>2. redrain(r) \in Report
    BY <1>r, ReportTyped, Zenon DEF redrain
  <2> QED
    BY <2>1, <2>2
<1> HIDE DEF Places, Services, Evictions
<1>1. ASSUME PassSteps PROVE Typed
  <2>1. CASE \E h \in {hv, prev} : Reconcile(h)
    <3>1. PICK h \in {hv, prev} : Reconcile(h)
      BY <2>1
    <3>2. h \in Hypervisor
      BY <1>t
    <3>3. [NoReport EXCEPT !.evicted = h.report.evicted, !.disabled = h.report.disabled] \in Report
      BY <3>2, <1>q, StartTyped, ReportTyped, Zenon
    <3>p. "service" \in Pcs
      BY DEF Pcs
    <3>4. pass' \in Pass
      BY <3>1, <3>2, <3>3, <3>p, StartTyped, PassReads, Zenon DEF Reconcile
    <3>5. faults' \in 0..MaxFaults
      BY <1>t, <3>1, <1>f, Zenon DEF Reconcile, Snapshot
    <3>6. queued' \in BOOLEAN
      BY <3>1 DEF Reconcile
    <3> QED
      BY <1>t, <3>1, <3>4, <3>5, <3>6, Zenon DEF Reconcile
  <2>2. CASE reconcileComputeService
    <3>1. pass.seen.registered /\ pass.seen.maintenance # "ha" =>
             wanted(pass.seen.maintenance) \in {"None", "True", "False", "Unknown"}
      BY <1>p, <1>q DEF wanted, AllModes
    <3>2. pass' \in Pass
      BY <2>2, <3>1, <1>p, <1>g, ReportTyped, Zenon DEF reconcileComputeService, Pcs
    <3>3. service' \in Services
      BY <2>2, <1>t, Zenon DEF reconcileComputeService, Services
    <3> QED
      BY <1>t, <2>2, <3>2, <3>3, Zenon DEF reconcileComputeService, At
  <2>3. CASE leaveMaintenance
    <3>1. pass' \in Pass
      BY <2>3, <1>p, <1>g, ReportTyped, Zenon DEF leaveMaintenance, Pcs
    <3> QED
      BY <1>t, <2>3, <3>1, Zenon DEF leaveMaintenance, At
  <2>4. CASE leaveToHA
    <3>1. pass' \in Pass
      BY <2>4, <1>p, <1>g, Zenon DEF leaveToHA, Pcs
    <3> QED
      BY <1>t, <2>4, <3>1, Zenon DEF leaveToHA, At
  <2>5. CASE enterMaintenance
    <3>1. [redrain(pass.out) EXCEPT !.settled = pass.seen.report.settled] \in Report
      BY <1>p, <1>q, <1>r, ReportTyped, Zenon
    <3>2. pass' \in Pass
      BY <2>5, <3>1, <1>p, <1>g, <1>r, Zenon DEF enterMaintenance, Pcs
    <3> QED
      BY <1>t, <2>5, <3>2, Zenon DEF enterMaintenance, At
  <2>6. CASE deleteEviction
    <3>1. pass' \in Pass
      BY <2>6, <1>p, <1>g, Zenon DEF deleteEviction, Pcs
    <3>2. eviction' \in Evictions
      BY <2>6 DEF deleteEviction, Evictions, Absent, EvictionStates
    <3>3. queued' \in BOOLEAN
      BY <2>6 DEF deleteEviction
    <3> QED
      BY <1>t, <2>6, <3>1, <3>2, <3>3, Zenon DEF deleteEviction
  <2>7. CASE ListActiveIncomingMigrations
    <3>1. [v \in VMs |-> IF v \in Incoming THEN vm[v] ELSE "none"] \in [VMs -> Places]
      BY DEF Incoming, Places
    <3>p. "abort" \in Pcs
      BY DEF Pcs
    <3>2. pass' \in Pass
      BY <2>7, <3>1, <3>p, <1>t, PassLists, Zenon DEF ListActiveIncomingMigrations, Places
    <3> QED
      BY <1>t, <2>7, <3>2, Zenon DEF ListActiveIncomingMigrations, At
  <2>8. CASE \E v \in VMs : AbortMigration(v)
    <3>1. PICK v \in VMs : AbortMigration(v)
      BY <2>8
    <3>2. [pass.active EXCEPT ![v] = "aborted"] \in [VMs -> Places]
      BY <1>p DEF Places
    <3>p. "abort" \in Pcs
      BY DEF Pcs
    <3>3. pass' \in Pass
      BY <3>1, <3>2, <3>p, <1>t, PassLists, Zenon DEF AbortMigration, Places
    <3>4. vm' \in [VMs -> Place]
      BY <1>t, <3>1 DEF AbortMigration, Place
    <3> QED
      BY <1>t, <3>1, <3>3, <3>4, Zenon DEF AbortMigration
  <2>9. CASE settleIncomingMigrations
    <3>1. pass' \in Pass
      BY <2>9, <1>p, <1>g, <1>u, ReportTyped, Zenon DEF settleIncomingMigrations, Pcs
    <3> QED
      BY <1>t, <2>9, <3>1, Zenon DEF settleIncomingMigrations, At
  <2>10. CASE ensureEviction
    <3>1. pass' \in Pass
      BY <2>10, <1>p, <1>g, Zenon DEF ensureEviction, Pcs
    <3>2. eviction' \in Evictions
      BY <2>10, <1>t DEF ensureEviction, Evictions, Absent, EvictionStates
    <3>3. queued' \in BOOLEAN
      BY <2>10 DEF ensureEviction
    <3> QED
      BY <1>t, <2>10, <3>1, <3>2, <3>3, Zenon DEF ensureEviction
  <2>11. CASE readEviction
    <3>1. \A b \in BOOLEAN, e \in {"Running", "Succeeded"} :
             [pass.out EXCEPT !.evicted = b, !.evicting = e] \in Report
      BY <1>p, ReportTyped, Zenon
    <3>2. pass' \in Pass
      BY <2>11, <3>1, <1>p, <1>g, <1>r, Zenon DEF readEviction, Pcs
    <3> QED
      BY <1>t, <2>11, <3>2, Zenon DEF readEviction, At
  <2>12. CASE applyStatus
    <3>1. hv' \in Hypervisor
      BY <2>12, <1>t, <1>p, Zenon DEF applyStatus, Hypervisor
    <3>2. pass' \in Pass
      BY <2>12, StartTyped DEF applyStatus
    <3>3. queued' \in BOOLEAN
      BY <2>12 DEF applyStatus
    <3> QED
      BY <1>t, <2>12, <3>1, <3>2, <3>3, Zenon DEF applyStatus
  <2> HIDE DEF Typed
  <2> QED
    BY <1>1, <2>1, <2>2, <2>3, <2>4, <2>5, <2>6, <2>7, <2>8, <2>9, <2>10, <2>11, <2>12
       DEF PassSteps
<1>2. ASSUME PassErrors PROVE Typed
  <2>1. CASE reconcileComputeServiceError
    <3>1. [pass.out EXCEPT !.disabled = "Unknown"] \in Report
      BY <1>p, ReportTyped, Zenon
    <3>2. pass' \in Pass
      BY <2>1, <3>1, <1>r, <1>g, Zenon DEF reconcileComputeServiceError, Pcs
    <3> QED
      BY <1>t, <2>1, <3>2, <1>f, Zenon DEF reconcileComputeServiceError, At
  <2>2. CASE deleteEvictionError
    <3>1. pass' \in Pass
      BY <2>2, <1>p, <1>g, Zenon DEF deleteEvictionError, Pcs
    <3> QED
      BY <1>t, <2>2, <3>1, <1>f, Zenon DEF deleteEvictionError, At
  <2>3. CASE ListError
    <3>1. pass' \in Pass
      BY <2>3, <1>u, <1>g, Zenon DEF ListError, Pcs
    <3> QED
      BY <1>t, <2>3, <3>1, <1>f, Zenon DEF ListError, At
  <2>4. CASE \E v \in VMs : AbortError(v)
    <3>1. pass' \in Pass
      BY <2>4, <1>u, <1>g, Zenon DEF AbortError, Pcs
    <3> QED
      BY <1>t, <2>4, <3>1, <1>f, Zenon DEF AbortError, At
  <2>5. CASE ensureEvictionError
    <3>1. pass' \in Pass
      BY <2>5, <1>p, <1>g, Zenon DEF ensureEvictionError, Pcs
    <3> QED
      BY <1>t, <2>5, <3>1, <1>f, Zenon DEF ensureEvictionError, At
  <2>6. CASE readEvictionError
    <3>1. pass' \in Pass
      BY <2>6, <1>p, <1>g, Zenon DEF readEvictionError, Pcs
    <3> QED
      BY <1>t, <2>6, <3>1, <1>f, Zenon DEF readEvictionError, At
  <2>7. CASE applyStatusError
    BY <1>t, <2>7, <1>f, StartTyped, Zenon DEF applyStatusError
  <2>8. CASE Crash
    BY <1>t, <2>8, <1>f, StartTyped, Zenon DEF Crash
  <2> HIDE DEF Typed
  <2> QED
    BY <1>2, <2>1, <2>2, <2>3, <2>4, <2>5, <2>6, <2>7, <2>8 DEF PassErrors
<1>3. ASSUME Environment PROVE Typed
  <2>1. CASE evictionPreflight
    <3>1. eviction' \in Evictions
      BY <2>1 DEF evictionPreflight, Evicting, Here, Evictions, EvictionStates
    <3> QED
      BY <1>t, <2>1, <3>1, Zenon DEF evictionPreflight, Evicting
  <2>2. CASE evictionMigrates
    <3>1. vm' \in [VMs -> Place]
      BY <1>t, <2>2 DEF evictionMigrates, Place
    <3> QED
      BY <1>t, <2>2, <3>1, Zenon DEF evictionMigrates
  <2>3. CASE evictionSucceeds
    <3>1. eviction' \in Evictions
      BY <1>t, <2>3 DEF evictionSucceeds, Evicting, Evictions, EvictionStates
    <3> QED
      BY <1>t, <2>3, <3>1, Zenon DEF evictionSucceeds, Evicting
  <2>4. CASE evictionFails
    <3>1. eviction' \in Evictions
      BY <1>t, <2>4 DEF evictionFails, Evicting, Evictions, EvictionStates
    <3> QED
      BY <1>t, <2>4, <3>1, <1>f, Zenon DEF evictionFails, Evicting
  <2>5. CASE \E mode \in Modes : setMaintenance(mode)
    <3>1. PICK mode \in Modes : setMaintenance(mode)
      BY <2>5
    <3>2. mode \in AllModes
      BY ConstantsAssumption
    <3>3. hv' \in Hypervisor
      BY <1>t, <3>1, <3>2, Zenon DEF setMaintenance, Hypervisor
    <3>4. service' \in Services
      BY <1>t, <3>1, Zenon DEF setMaintenance, Services
    <3> QED
      BY <1>t, <3>1, <3>3, <3>4, <1>f, Zenon DEF setMaintenance
  <2>6. CASE onboardingEnds
    <3>1. hv' \in Hypervisor
      BY <1>t, <2>6, Zenon DEF onboardingEnds, Hypervisor
    <3> QED
      BY <1>t, <2>6, <3>1, Zenon DEF onboardingEnds
  <2>7. CASE \E v \in VMs : novaSchedules(v)
    <3>1. vm' \in [VMs -> Place]
      BY <1>t, <2>7 DEF novaSchedules, Place
    <3> QED
      BY <1>t, <2>7, <3>1, <1>f, Zenon DEF novaSchedules
  <2>8. CASE \E v \in VMs : novaMigrates(v)
    <3>1. vm' \in [VMs -> Place]
      BY <1>t, <2>8 DEF novaMigrates, Place
    <3> QED
      BY <1>t, <2>8, <3>1, Zenon DEF novaMigrates
  <2>9. CASE agentReports
    <3>1. hv' \in Hypervisor
      BY <1>t, <2>9, HereCounts, Zenon DEF agentReports, Hypervisor
    <3> QED
      BY <1>t, <2>9, <3>1, Zenon DEF agentReports
  <2> HIDE DEF Typed
  <2> QED
    BY <1>3, <2>1, <2>2, <2>3, <2>4, <2>5, <2>6, <2>7, <2>8, <2>9 DEF Environment
<1>4. ASSUME Next PROVE Typed /\ prev' \in {hv, prev}
  <2>1. PassSteps \/ PassErrors \/ Environment
    BY <1>4 DEF Next, Versioned
  <2>2. prev' \in {hv, prev}
    BY <1>4 DEF Next, Versioned
  <2> HIDE DEF Typed
  <2> QED
    BY <1>1, <1>2, <1>3, <2>1, <2>2
<1>5. CASE Next
  BY <1>4, <1>5, <1>t, Zenon DEF TypeOK, Services, Evictions
<1>6. CASE UNCHANGED vars
  BY <1>6 DEF TypeOK, vars
<1> QED
  BY <1>5, <1>6

\* Every initial state is well typed.
LEMMA TypeInit == Init => TypeOK
<1> SUFFICES ASSUME Init PROVE TypeOK
  OBVIOUS
<1>1. hv \in Hypervisor
  <2>1. PICK b, c \in BOOLEAN : hv = [maintenance |-> "unset", registered |-> b,
            onboarding |-> c, numInstances |-> 0, report |-> NoReport]
    BY DEF Init
  <2>2. "unset" \in AllModes /\ 0 \in Nat
    BY DEF AllModes
  <2> QED
    BY <2>1, <2>2, StartTyped, Zenon DEF Hypervisor
<1>2. service \in [enabled : BOOLEAN, forcedDown : BOOLEAN]
  BY DEF Init
<1>3. eviction \in [state : EvictionStates, listed : SUBSET VMs]
  BY DEF Init, Absent, EvictionStates
<1>4. vm \in [VMs -> Place]
  BY DEF Init, Nowhere, Place
<1>5. faults \in 0..MaxFaults
  BY ConstantsAssumption DEF Init
<1> QED
  BY <1>1, <1>2, <1>3, <1>4, <1>5, StartTyped DEF Init, TypeOK

\* THEOREM.  The state of the maintenance controller is well typed (TypeOK),
\* for any number of instances, any modes and any number of disturbances.
THEOREM TypesHold == Spec => []TypeOK
BY TypeInit, TypeStep, PTL DEF Spec

-----------------------------------------------------------------------------
(* What the steps of a pass do, field by field.                            *)

\* The pass goes on at pc, over the same snapshot.
On(pc) == pass'.pc = pc /\ pass'.seen = pass.seen

\* The report under construction becomes: HypervisorDisabled, Evicting,
\* IncomingMigrationsSettled and status.evicted.
Reports(d, e, s, b) == /\ pass'.out.disabled = d /\ pass'.out.evicting = e
                       /\ pass'.out.settled = s /\ pass'.out.evicted = b

\* The pass ends, and asks for the next one.
Repeats == On("apply") /\ pass'.again = TRUE

\* What is in the fields of a pass after it has moved on.
LEMMA PassFields ==
    ASSUME TypeOK, NEW pc, NEW r
    PROVE  /\ Goto(pc, r) => /\ On(pc) /\ pass'.out = r /\ pass'.again = pass.again
                             /\ pass'.then = pass.then
           /\ Again(r) => Repeats /\ pass'.out = r
           /\ Delete(r) => /\ On("delete") /\ pass'.out = pass.out /\ pass'.again = pass.again
                           /\ pass'.then = r
<1>1. pass \in Pass
  BY DEF TypeOK
<1> QED
  BY <1>1, Zenon DEF Goto, Again, Delete, On, Repeats, Pass

\* The report to use once the Eviction is deleted is to be.
Plans(d, e, s, b) == /\ pass'.then.disabled = d /\ pass'.then.evicting = e
                     /\ pass'.then.settled = s /\ pass'.then.evicted = b

\* A report says something about a drain.
Mentions(r) == r.evicted \/ r.evicting # "None" \/ r.settled # "None"

\* The fields of a pass are well typed.
LEMMA PassParts ==
    ASSUME TypeOK
    PROVE  /\ pass.out \in Report /\ pass.then \in Report /\ pass.seen \in Hypervisor
           /\ pass.seen.report \in Report /\ hv.report \in Report /\ prev.report \in Report
BY Zenon DEF TypeOK, Pass, Hypervisor

\* A pass begins over a version of the Hypervisor, unless it is onboarding.
LEMMA ReconcileDoes ==
    ASSUME TypeOK, NEW h \in {hv, prev}, Reconcile(h)
    PROVE  /\ queued /\ pass.pc = "idle" /\ UNCHANGED <<hv, service, eviction, vm>>
           /\ h # hv => queued' /\ "stale_read" \in Faults
           /\ \/ pass' = Idle /\ h.onboarding
              \/ /\ pass'.pc = "service" /\ pass'.seen = h /\ ~ h.onboarding
                 /\ pass'.again = FALSE
                 /\ Reports(h.report.disabled, "None", "None", h.report.evicted)
<1> DEFINE r == [NoReport EXCEPT !.evicted = h.report.evicted, !.disabled = h.report.disabled]
<1>1. /\ r.disabled = h.report.disabled /\ r.evicting = NoReport.evicting
      /\ r.settled = NoReport.settled /\ r.evicted = h.report.evicted
  BY StartTyped, Zenon DEF Report
<1>2. NoReport.evicting = "None" /\ NoReport.settled = "None"
  BY DEF NoReport
<1>3. pass' = IF h.onboarding THEN Idle
              ELSE [Idle EXCEPT !.pc = "service", !.seen = h, !.out = r]
  BY Zenon DEF Reconcile
<1> HIDE DEF r
<1>4. ASSUME NEW p, p = [Idle EXCEPT !.pc = "service", !.seen = h, !.out = r]
      PROVE  p.pc = "service" /\ p.seen = h /\ p.out = r /\ p.again = Idle.again
  BY <1>4, StartTyped, Zenon DEF Pass
<1>5. Idle.again = FALSE
  BY Zenon DEF Idle
<1>6. CASE h.onboarding
  BY <1>3, <1>6, Zenon DEF Reconcile, Snapshot, Disturb
<1>7. CASE ~ h.onboarding
  <2>1. pass' = [Idle EXCEPT !.pc = "service", !.seen = h, !.out = r]
    BY <1>3, <1>7, Zenon
  <2>2. pass'.pc = "service" /\ pass'.seen = h /\ pass'.out = r /\ pass'.again = FALSE
    BY <2>1, <1>4, <1>5, Zenon
  <2>3. Reports(h.report.disabled, "None", "None", h.report.evicted)
    BY <2>2, <1>1, <1>2, Zenon DEF Reports
  <2> QED
    BY <2>2, <2>3, <1>7, Zenon DEF Reconcile, Snapshot, Disturb
<1> QED
  BY <1>6, <1>7

\* The service is switched as spec.maintenance wants, if the condition does
\* not say so already, and the report says so from then on.
LEMMA ServiceDoes ==
    ASSUME TypeOK, reconcileComputeService
    PROVE  /\ pass.pc = "service" /\ On("evict") /\ pass'.again = pass.again
           /\ UNCHANGED <<hv, eviction, vm, queued>>
           /\ IF pass.seen.registered /\ pass.seen.maintenance # "ha"
              THEN Reports(wanted(pass.seen.maintenance), pass.out.evicting, pass.out.settled, pass.out.evicted)
              ELSE Reports(pass.out.disabled, pass.out.evicting, pass.out.settled, pass.out.evicted)
           /\ ~ needsCall => service' = service
           /\ needsCall => service'.enabled = (pass.seen.maintenance = "unset")
<1>1. LET r == [pass.out EXCEPT !.disabled = wanted(pass.seen.maintenance)]
      IN  /\ r.disabled = wanted(pass.seen.maintenance) /\ r.evicting = pass.out.evicting
          /\ r.settled = pass.out.settled /\ r.evicted = pass.out.evicted
  BY PassParts, Zenon DEF Report
<1>2. /\ On("evict") /\ pass'.again = pass.again
      /\ pass'.out = IF pass.seen.registered /\ pass.seen.maintenance # "ha"
                     THEN [pass.out EXCEPT !.disabled = wanted(pass.seen.maintenance)]
                     ELSE pass.out
  BY PassFields, Zenon DEF reconcileComputeService
<1>3. needsCall => service'.enabled = (pass.seen.maintenance = "unset")
  <2> SUFFICES ASSUME needsCall PROVE service'.enabled = (pass.seen.maintenance = "unset")
    OBVIOUS
  <2>1. CASE pass.seen.maintenance = "unset"
    BY <2>1 DEF reconcileComputeService
  <2>2. CASE pass.seen.maintenance # "unset"
    BY <2>2 DEF reconcileComputeService, TypeOK
  <2> QED
    BY <2>1, <2>2
<1> QED
  BY <1>1, <1>2, <1>3, Zenon DEF reconcileComputeService, At, Reports

\* Leaving maintenance, the Eviction is deleted if the report mentions one.
LEMMA LeaveDoes ==
    ASSUME TypeOK, leaveMaintenance
    PROVE  /\ pass.pc = "evict" /\ pass.seen.maintenance = "unset"
           /\ UNCHANGED <<hv, service, eviction, vm, queued>>
           /\ pass'.out = pass.out /\ pass'.again = pass.again
           /\ \/ On("apply") /\ ~ Mentions(pass.seen.report)
              \/ On("delete") /\ Plans(pass.out.disabled, pass.out.evicting, pass.out.settled, FALSE)
<1>1. LET r == [pass.out EXCEPT !.evicted = FALSE]
      IN  /\ r.disabled = pass.out.disabled /\ r.evicting = pass.out.evicting
          /\ r.settled = pass.out.settled /\ r.evicted = FALSE
  BY PassParts, Zenon DEF Report
<1>2. CASE Mentions(pass.seen.report)
  <2>1. Delete([pass.out EXCEPT !.evicted = FALSE])
    BY <1>2, Zenon DEF leaveMaintenance, Mentions
  <2> QED
    BY <2>1, <1>1, PassFields, Zenon DEF leaveMaintenance, At, Plans
<1>3. CASE ~ Mentions(pass.seen.report)
  <2>1. Goto("apply", pass.out)
    BY <1>3, Zenon DEF leaveMaintenance, Mentions
  <2> QED
    BY <2>1, <1>3, PassFields, Zenon DEF leaveMaintenance, At
<1> QED
  BY <1>2, <1>3

\* In HA mode nothing more is done.
LEMMA HADoes ==
    ASSUME TypeOK, leaveToHA
    PROVE  /\ pass.pc = "evict" /\ pass.seen.maintenance = "ha"
           /\ UNCHANGED <<hv, service, eviction, vm, queued>>
           /\ pass'.out = pass.out /\ pass'.again = pass.again /\ On("apply")
BY PassFields, Zenon DEF leaveToHA, At

\* A finished drain is kept, or repeated if instances are reported; otherwise
\* the incoming migrations are looked at.
LEMMA EnterDoes ==
    ASSUME TypeOK, enterMaintenance
    PROVE  /\ pass.pc = "evict" /\ pass.seen.maintenance \in DrainModes
           /\ UNCHANGED <<hv, service, eviction, vm, queued>> /\ pass'.again = pass.again
           /\ LET r == pass.seen.report
              IN  \/ On("settle") /\ pass'.out = pass.out
                     /\ (r.evicting # "Succeeded" \/ ~ r.evicted \/ r.settled # "Settled")
                  \/ /\ On("delete") /\ pass'.out = pass.out /\ r.evicting = "Succeeded"
                     /\ Plans(pass.out.disabled, "Running", r.settled, FALSE)
                  \/ /\ On("apply") /\ r.evicting = "Succeeded" /\ r.evicted /\ r.settled = "Settled"
                     /\ Reports(pass.out.disabled, "Succeeded", "Settled", pass.out.evicted)
<1> DEFINE r == pass.seen.report
           x == redrain(pass.out)
           y == [x EXCEPT !.settled = r.settled]
           z == retain(pass.out)
<1>1. /\ x \in Report /\ x.disabled = pass.out.disabled /\ x.evicting = "Running" /\ x.evicted = FALSE
  <2>1. x \in Report
    BY PassParts, ReportTyped, Zenon DEF redrain
  <2>2. x.disabled = pass.out.disabled /\ x.evicting = "Running" /\ x.evicted = FALSE
    BY PassParts, Zenon DEF redrain, Report
  <2> QED
    BY <2>1, <2>2
<1>2. /\ z.disabled = pass.out.disabled /\ z.evicting = r.evicting /\ z.settled = r.settled
      /\ z.evicted = pass.out.evicted
  BY PassParts, Zenon DEF retain, Report
<1> HIDE DEF x, z
<1>3. y.disabled = x.disabled /\ y.evicting = x.evicting /\ y.settled = r.settled /\ y.evicted = x.evicted
  BY <1>1, Zenon DEF Report
<1> HIDE DEF y
<1>4. \/ Goto("settle", pass.out) /\ (r.evicting # "Succeeded" \/ ~ r.evicted \/ r.settled # "Settled")
      \/ Delete(y) /\ r.evicting = "Succeeded"
      \/ Goto("apply", z) /\ r.evicting = "Succeeded" /\ r.evicted /\ r.settled = "Settled"
  BY Zenon DEF enterMaintenance, x, y, z
<1>5. /\ pass.pc = "evict" /\ pass.seen.maintenance \in DrainModes
      /\ UNCHANGED <<hv, service, eviction, vm, queued>>
  BY Zenon DEF enterMaintenance, At
<1> HIDE DEF r
<1>6. CASE Goto("settle", pass.out) /\ (r.evicting # "Succeeded" \/ ~ r.evicted \/ r.settled # "Settled")
  BY <1>5, <1>6, PassFields, Zenon DEF r
<1>7. CASE Delete(y) /\ r.evicting = "Succeeded"
  <2>1. On("delete") /\ pass'.out = pass.out /\ pass'.again = pass.again /\ pass'.then = y
    BY <1>7, PassFields, Zenon
  <2>2. Plans(pass.out.disabled, "Running", r.settled, FALSE)
    BY <2>1, <1>1, <1>3, Zenon DEF Plans
  <2> QED
    BY <1>5, <1>7, <2>1, <2>2, Zenon DEF r
<1>8. CASE Goto("apply", z) /\ r.evicting = "Succeeded" /\ r.evicted /\ r.settled = "Settled"
  <2>1. On("apply") /\ pass'.out = z /\ pass'.again = pass.again
    BY <1>8, PassFields, Zenon
  <2>2. Reports(pass.out.disabled, "Succeeded", "Settled", pass.out.evicted)
    BY <1>8, <2>1, <1>2, Zenon DEF Reports
  <2> QED
    BY <1>5, <1>8, <2>1, <2>2, Zenon DEF r
<1> QED
  BY <1>4, <1>6, <1>7, <1>8

\* The Eviction is gone, and if there was one its end is an event.
LEMMA DeleteDoes ==
    ASSUME TypeOK, deleteEviction
    PROVE  /\ pass.pc = "delete" /\ On("apply") /\ pass'.out = pass.then
           /\ pass'.again = pass.again /\ eviction' = Absent
           /\ (~ queued' => ~ queued /\ eviction = Absent) /\ UNCHANGED <<hv, service, vm>>
BY PassFields, Zenon DEF deleteEviction

\* The migrations on their way to the host are listed.
LEMMA ListDoes ==
    ASSUME TypeOK, ListActiveIncomingMigrations
    PROVE  /\ pass.pc = "settle" /\ On("abort") /\ pass'.out = pass.out
           /\ pass'.again = pass.again /\ UNCHANGED <<hv, service, eviction, vm, queued>>
           /\ \A v \in Incoming : pass'.active[v] # "none"
<1> DEFINE a == [v \in VMs |-> IF v \in Incoming THEN vm[v] ELSE "none"]
<1>1. pass' = [pass EXCEPT !.pc = "abort", !.active = a]
  BY Zenon DEF ListActiveIncomingMigrations
<1>2. \A v \in Incoming : a[v] # "none"
  BY DEF Incoming
<1> HIDE DEF a
<1>3. /\ pass'.pc = "abort" /\ pass'.seen = pass.seen /\ pass'.out = pass.out
      /\ pass'.again = pass.again /\ pass'.active = a
  BY <1>1, Zenon DEF TypeOK, Pass
<1> QED
  BY <1>2, <1>3, Zenon DEF ListActiveIncomingMigrations, At, On

\* One of them is aborted, unless it is past that; it stays on the list.
LEMMA AbortDoes ==
    ASSUME TypeOK, NEW v \in VMs, AbortMigration(v)
    PROVE  /\ pass.pc = "abort" /\ On("abort") /\ pass'.out = pass.out
           /\ pass'.again = pass.again /\ UNCHANGED <<hv, service, eviction, queued>>
           /\ \A w \in VMs : pass'.active[w] = "none" <=> pass.active[w] = "none"
           /\ \A w \in VMs : vm'[w] \in {vm[w], "away"}
<1> DEFINE a == [pass.active EXCEPT ![v] = "aborted"]
<1>1. pass' = [pass EXCEPT !.active = a]
  BY Zenon DEF AbortMigration
<1>2. pass.active \in [VMs -> {"none", "running", "post", "aborted"}]
  BY DEF TypeOK, Pass
<1>3. \A w \in VMs : a[w] = "none" <=> pass.active[w] = "none"
  BY <1>2 DEF AbortMigration
<1> HIDE DEF a
<1>4. /\ pass'.pc = pass.pc /\ pass'.seen = pass.seen /\ pass'.out = pass.out
      /\ pass'.again = pass.again /\ pass'.active = a
  BY <1>1, Zenon DEF TypeOK, Pass
<1>5. \A w \in VMs : vm'[w] \in {vm[w], "away"}
  BY DEF AbortMigration, TypeOK
<1> QED
  BY <1>3, <1>4, <1>5, Zenon DEF AbortMigration, On

\* The pass is repeated while a migration is on the list; settled, it goes on
\* to the Eviction, unless the drain is already complete.
LEMMA SettleDoes ==
    ASSUME TypeOK, settleIncomingMigrations
    PROVE  /\ pass.pc = "abort" /\ UNCHANGED <<hv, service, eviction, vm, queued>>
           /\ LET e == pass.seen.report.evicting
              IN  \/ /\ Repeats
                     /\ \E s \in {"Waiting", "Aborting"} : Reports(pass.out.disabled, e, s, FALSE)
                  \/ /\ On("apply") /\ pass'.again = pass.again /\ e = "Succeeded"
                     /\ Reports(pass.out.disabled, "Succeeded", "Settled", pass.out.evicted)
                     /\ \A v \in VMs : pass.active[v] = "none"
                  \/ /\ On("ensure") /\ pass'.again = pass.again /\ e # "Succeeded"
                     /\ Reports(pass.out.disabled, pass.out.evicting, "Settled", pass.out.evicted)
                     /\ \A v \in VMs : pass.active[v] = "none"
<1> DEFINE e == pass.seen.report.evicting
           x == [pass.out EXCEPT !.settled = "Settled", !.evicting = "Succeeded"]
           y == [pass.out EXCEPT !.settled = "Settled"]
<1>1. /\ x.disabled = pass.out.disabled /\ x.evicting = "Succeeded" /\ x.settled = "Settled"
      /\ x.evicted = pass.out.evicted
  BY PassParts, Zenon DEF Report
<1>2. /\ y.disabled = pass.out.disabled /\ y.evicting = pass.out.evicting /\ y.settled = "Settled"
      /\ y.evicted = pass.out.evicted
  BY PassParts, Zenon DEF Report
<1>3. ASSUME NEW s
      PROVE /\ unsettled(s).disabled = pass.out.disabled /\ unsettled(s).evicting = e
            /\ unsettled(s).settled = s /\ unsettled(s).evicted = FALSE
  BY PassParts, Zenon DEF unsettled, Report
<1> HIDE DEF x, y
<1>4. /\ pass.pc = "abort" /\ UNCHANGED <<hv, service, eviction, vm, queued>>
  BY Zenon DEF settleIncomingMigrations, At
<1>5. CASE \E s \in {"Waiting", "Aborting"} : Again(unsettled(s))
  <2>1. PICK s \in {"Waiting", "Aborting"} : Again(unsettled(s))
    BY <1>5
  <2>2. Repeats /\ pass'.out = unsettled(s)
    BY <2>1, PassFields, Zenon
  <2>3. Reports(pass.out.disabled, e, s, FALSE)
    BY <2>2, <1>3, Zenon DEF Reports
  <2> QED
    BY <1>4, <2>2, <2>3, Zenon
<1>6. CASE ~ \E s \in {"Waiting", "Aborting"} : Again(unsettled(s))
  <2>1. ~ (\E v \in VMs : pass.active[v] = "post") /\ ~ (\E v \in VMs : pass.active[v] = "aborted")
    BY <1>6, Zenon DEF settleIncomingMigrations
  <2>2. \A v \in VMs : pass.active[v] # "running"
    BY Zenon DEF settleIncomingMigrations
  <2>3. \A v \in VMs : pass.active[v] \in {"none", "running", "post", "aborted"}
    BY DEF TypeOK, Pass
  <2>4. \A v \in VMs : pass.active[v] = "none"
    BY <2>1, <2>2, <2>3, Zenon
  <2>5. IF e = "Succeeded" THEN Goto("apply", x) ELSE Goto("ensure", y)
    BY <2>1, Zenon DEF settleIncomingMigrations, x, y
  <2>6. CASE e = "Succeeded"
    <3>1. On("apply") /\ pass'.again = pass.again /\ pass'.out = x
      BY <2>5, <2>6, PassFields, Zenon
    <3>2. Reports(pass.out.disabled, "Succeeded", "Settled", pass.out.evicted)
      BY <3>1, <1>1, Zenon DEF Reports
    <3> QED
      BY <1>4, <2>4, <2>6, <3>1, <3>2, Zenon
  <2>7. CASE e # "Succeeded"
    <3>1. On("ensure") /\ pass'.again = pass.again /\ pass'.out = y
      BY <2>5, <2>7, PassFields, Zenon
    <3>2. Reports(pass.out.disabled, pass.out.evicting, "Settled", pass.out.evicted)
      BY <3>1, <1>2, Zenon DEF Reports
    <3> QED
      BY <1>4, <2>4, <2>7, <3>1, <3>2, Zenon
  <2> QED
    BY <2>6, <2>7
<1> QED
  BY <1>5, <1>6

\* There is an Eviction, and if there was none its creation is an event.
LEMMA EnsureDoes ==
    ASSUME TypeOK, ensureEviction
    PROVE  /\ pass.pc = "ensure" /\ On("read") /\ pass'.out = pass.out
           /\ pass'.again = pass.again /\ UNCHANGED <<hv, service, vm>>
           /\ (~ queued' => ~ queued)
           /\ \/ eviction.state = "absent" /\ eviction' = [state |-> "new", listed |-> {}]
              \/ eviction.state # "absent" /\ eviction' = eviction
<1>1. [Absent EXCEPT !.state = "new"] = [state |-> "new", listed |-> {}]
  BY DEF Absent
<1> QED
  BY <1>1, PassFields, Zenon DEF ensureEviction

\* An Eviction that has ended completes the drain, or has it repeated if
\* instances are reported; until then the drain is running.
LEMMA ReadDoes ==
    ASSUME TypeOK, readEviction
    PROVE  /\ pass.pc = "read" /\ eviction.state # "absent" /\ pass'.again = pass.again
           /\ UNCHANGED <<hv, service, eviction, vm, queued>>
           /\ \/ /\ On("delete") /\ pass'.out = pass.out
                 /\ eviction.state \in {"succeeded", "failed"}
                 /\ Plans(pass.out.disabled, "Running", pass.out.settled, FALSE)
              \/ /\ On("apply") /\ eviction.state \in {"succeeded", "failed"}
                 /\ Reports(pass.out.disabled, "Succeeded", pass.out.settled, TRUE)
              \/ /\ On("apply") /\ eviction.state \notin {"succeeded", "failed"}
                 /\ Reports(pass.out.disabled, "Running", pass.out.settled, FALSE)
<1> DEFINE x == redrain(pass.out)
           y == [pass.out EXCEPT !.evicted = TRUE, !.evicting = "Succeeded"]
           z == [pass.out EXCEPT !.evicted = FALSE, !.evicting = "Running"]
<1>1. /\ x.disabled = pass.out.disabled /\ x.evicting = "Running" /\ x.settled = pass.out.settled
      /\ x.evicted = FALSE
  BY PassParts, Zenon DEF redrain, Report
<1>2. /\ y.disabled = pass.out.disabled /\ y.evicting = "Succeeded" /\ y.settled = pass.out.settled
      /\ y.evicted = TRUE
  BY PassParts, Zenon DEF Report
<1>3. /\ z.disabled = pass.out.disabled /\ z.evicting = "Running" /\ z.settled = pass.out.settled
      /\ z.evicted = FALSE
  BY PassParts, Zenon DEF Report
<1> HIDE DEF x, y, z
<1>4. /\ pass.pc = "read" /\ eviction.state # "absent"
      /\ UNCHANGED <<hv, service, eviction, vm, queued>>
  BY Zenon DEF readEviction, At
<1>5. \/ Delete(x) /\ eviction.state \in {"succeeded", "failed"}
      \/ Goto("apply", y) /\ eviction.state \in {"succeeded", "failed"}
      \/ Goto("apply", z) /\ eviction.state \notin {"succeeded", "failed"}
  BY Zenon DEF readEviction, x, y, z
<1>6. CASE Delete(x) /\ eviction.state \in {"succeeded", "failed"}
  <2>1. On("delete") /\ pass'.out = pass.out /\ pass'.again = pass.again /\ pass'.then = x
    BY <1>6, PassFields, Zenon
  <2>2. Plans(pass.out.disabled, "Running", pass.out.settled, FALSE)
    BY <2>1, <1>1, Zenon DEF Plans
  <2> QED
    BY <1>4, <1>6, <2>1, <2>2, Zenon
<1>7. CASE Goto("apply", y) /\ eviction.state \in {"succeeded", "failed"}
  <2>1. On("apply") /\ pass'.again = pass.again /\ pass'.out = y
    BY <1>7, PassFields, Zenon
  <2>2. Reports(pass.out.disabled, "Succeeded", pass.out.settled, TRUE)
    BY <2>1, <1>2, Zenon DEF Reports
  <2> QED
    BY <1>4, <1>7, <2>1, <2>2, Zenon
<1>8. CASE Goto("apply", z) /\ eviction.state \notin {"succeeded", "failed"}
  <2>1. On("apply") /\ pass'.again = pass.again /\ pass'.out = z
    BY <1>8, PassFields, Zenon
  <2>2. Reports(pass.out.disabled, "Running", pass.out.settled, FALSE)
    BY <2>1, <1>3, Zenon DEF Reports
  <2> QED
    BY <1>4, <1>8, <2>1, <2>2, Zenon
<1> QED
  BY <1>5, <1>6, <1>7, <1>8

\* The calls of a pass that can fail, other than the Apply at its end.
Fails == \/ reconcileComputeServiceError \/ deleteEvictionError \/ ListError
         \/ (\E v \in VMs : AbortError(v)) \/ ensureEvictionError \/ readEvictionError

\* A call that fails ends the pass, which is repeated; the report keeps what
\* is known about the drain, or gives it up.
LEMMA FailsDoes ==
    ASSUME TypeOK, Fails
    PROVE  /\ Repeats /\ UNCHANGED <<hv, service, eviction, vm, queued>>
           /\ LET r == pass.seen.report
              IN  \/ /\ pass.pc = "service" /\ needsCall
                     /\ Reports("Unknown", r.evicting, r.settled, pass.out.evicted)
                  \/ pass.pc = "delete" /\ pass'.out = pass.out /\ "delete_error" \in Faults
                  \/ /\ pass.pc \in {"settle", "abort"}
                     /\ Reports(pass.out.disabled, r.evicting, "Unknown", FALSE)
                  \/ pass.pc \in {"ensure", "read"} /\ pass'.out = pass.out
<1> DEFINE r == pass.seen.report
           x == [pass.out EXCEPT !.disabled = "Unknown"]
<1>1. CASE reconcileComputeServiceError
  <2>1. x \in Report /\ x.disabled = "Unknown" /\ x.evicted = pass.out.evicted
    <3>1. x.disabled = "Unknown" /\ x.evicted = pass.out.evicted
      BY PassParts, Zenon DEF Report
    <3>2. x \in Report
      BY PassParts, ReportTyped, Zenon
    <3> QED
      BY <3>1, <3>2
  <2> HIDE DEF x
  <2>2. /\ retain(x).disabled = "Unknown" /\ retain(x).evicting = r.evicting
        /\ retain(x).settled = r.settled /\ retain(x).evicted = pass.out.evicted
    BY <2>1, Zenon DEF retain, Report
  <2>3. Again(retain(x))
    BY <1>1, Zenon DEF reconcileComputeServiceError, x
  <2>4. Repeats /\ pass'.out = retain(x)
    BY <2>3, PassFields, Zenon
  <2>5. Reports("Unknown", r.evicting, r.settled, pass.out.evicted)
    BY <2>2, <2>4, Zenon DEF Reports
  <2> QED
    BY <1>1, <2>4, <2>5, Zenon DEF reconcileComputeServiceError, At
<1>2. CASE deleteEvictionError
  BY <1>2, PassFields, Zenon DEF deleteEvictionError, At, Disturb
<1>3. CASE ListError \/ (\E v \in VMs : AbortError(v))
  <2>1. LET u == unsettled("Unknown")
        IN  /\ u.disabled = pass.out.disabled /\ u.evicting = r.evicting
            /\ u.settled = "Unknown" /\ u.evicted = FALSE
    BY PassParts, Zenon DEF unsettled, Report
  <2>2. Again(unsettled("Unknown"))
    BY <1>3, Zenon DEF ListError, AbortError
  <2>3. Repeats /\ pass'.out = unsettled("Unknown")
    BY <2>2, PassFields, Zenon
  <2>4. Reports(pass.out.disabled, r.evicting, "Unknown", FALSE)
    BY <2>1, <2>3, Zenon DEF Reports
  <2>5. pass.pc \in {"settle", "abort"} /\ UNCHANGED <<hv, service, eviction, vm, queued>>
    BY <1>3, Zenon DEF ListError, AbortError, At
  <2> QED
    BY <2>3, <2>4, <2>5, Zenon
<1>4. CASE ensureEvictionError
  BY <1>4, PassFields, Zenon DEF ensureEvictionError, At
<1>5. CASE readEvictionError
  BY <1>5, PassFields, Zenon DEF readEvictionError, At
<1> QED
  BY <1>1, <1>2, <1>3, <1>4, <1>5 DEF Fails

\* The report is applied; the pass is repeated if it asked for that or if the
\* status changed.
LEMMA ApplyDoes ==
    ASSUME TypeOK, applyStatus
    PROVE  /\ pass.pc = "apply" /\ hv'.report = pass.out /\ hv'.maintenance = hv.maintenance
           /\ hv'.registered = hv.registered /\ pass' = Idle
           /\ (~ queued' => ~ queued /\ ~ pass.again /\ hv' = hv /\ pass.out = hv.report)
           /\ UNCHANGED <<service, eviction, vm>>
<1>1. /\ hv'.report = pass.out /\ hv'.maintenance = hv.maintenance
      /\ hv'.registered = hv.registered
  BY Zenon DEF applyStatus, TypeOK, Hypervisor
<1>2. ~ queued' => ~ queued /\ ~ pass.again /\ hv' = hv
  BY Zenon DEF applyStatus
<1>3. hv' = hv => pass.out = hv.report
  BY <1>1, Zenon
<1> QED
  BY <1>1, <1>2, <1>3, Zenon DEF applyStatus

\* Whoever writes the Hypervisor besides.
HvChanges == (\E mode \in Modes : setMaintenance(mode)) \/ onboardingEnds \/ agentReports

\* They wake the controller and leave its report alone.
LEMMA HvChangesDoes ==
    ASSUME TypeOK, HvChanges
    PROVE  /\ hv'.report = hv.report /\ hv'.registered = hv.registered
           /\ hv'.maintenance \in Modes \cup {hv.maintenance}
           /\ queued' /\ service'.enabled = service.enabled /\ UNCHANGED <<eviction, vm, pass>>
<1>1. CASE \E mode \in Modes : setMaintenance(mode)
  <2>1. PICK mode \in Modes : setMaintenance(mode)
    BY <1>1
  <2>2. hv'.report = hv.report /\ hv'.registered = hv.registered /\ hv'.maintenance = mode
    BY <2>1, Zenon DEF setMaintenance, TypeOK, Hypervisor
  <2>3. service'.enabled = service.enabled
    BY <2>1, Zenon DEF setMaintenance, TypeOK
  <2> QED
    BY <2>1, <2>2, <2>3, Zenon DEF setMaintenance
<1>2. CASE onboardingEnds
  <2>1. /\ hv'.report = hv.report /\ hv'.registered = hv.registered
        /\ hv'.maintenance = hv.maintenance
    BY <1>2, Zenon DEF onboardingEnds, TypeOK, Hypervisor
  <2> QED
    BY <1>2, <2>1, Zenon DEF onboardingEnds
<1>3. CASE agentReports
  <2>1. /\ hv'.report = hv.report /\ hv'.registered = hv.registered
        /\ hv'.maintenance = hv.maintenance
    BY <1>3, Zenon DEF agentReports, TypeOK, Hypervisor
  <2> QED
    BY <1>3, <2>1, Zenon DEF agentReports
<1> QED
  BY <1>1, <1>2, <1>3 DEF HvChanges

\* The steps of the eviction controller that the controller is told of.
EvictionChanges == evictionPreflight \/ evictionSucceeds \/ evictionFails

\* An Eviction is started, succeeds or fails.
LEMMA EvictionChangesDoes ==
    ASSUME TypeOK, EvictionChanges
    PROVE  /\ queued' /\ UNCHANGED <<hv, service, vm, pass>>
           /\ \/ eviction.state = "new" /\ eviction' = [state |-> "running", listed |-> Here]
              \/ /\ eviction.state = "running" /\ eviction'.state = "succeeded"
                 /\ eviction.listed \cap Here = {}
              \/ eviction.state = "new" /\ eviction'.state = "failed" /\ Here = {}
<1>1. CASE evictionPreflight
  BY <1>1, Zenon DEF evictionPreflight, Evicting
<1>2. CASE evictionSucceeds
  <2>1. eviction'.state = "succeeded"
    BY <1>2 DEF evictionSucceeds, Evicting, TypeOK
  <2> QED
    BY <1>2, <2>1, Zenon DEF evictionSucceeds, Evicting
<1>3. CASE evictionFails
  <2>1. eviction'.state = "failed"
    BY <1>3 DEF evictionFails, Evicting, TypeOK
  <2> QED
    BY <1>3, <2>1, Zenon DEF evictionFails, Evicting
<1> QED
  BY <1>1, <1>2, <1>3 DEF EvictionChanges

\* The steps of an instance: to the host, on its way there, and from it.
Moves == evictionMigrates \/ \E v \in VMs : novaSchedules(v) \/ novaMigrates(v)

\* One instance moves: to the host only if the service is enabled, on only if
\* it was on its way, away only if the Eviction lists it.
LEMMA MovesDoes ==
    ASSUME TypeOK, Moves
    PROVE  /\ UNCHANGED <<hv, service, eviction, pass, queued>>
           /\ \A v \in VMs : \/ vm'[v] = vm[v] \/ vm'[v] = "away"
                             \/ vm[v] = "away" /\ service.enabled
                             \/ v \in Incoming
<1>1. UNCHANGED <<hv, service, eviction, pass, queued>>
  BY Zenon DEF Moves, evictionMigrates, novaSchedules, novaMigrates
<1>2. CASE evictionMigrates
  BY <1>1, <1>2 DEF evictionMigrates, TypeOK
<1>3. CASE \E v \in VMs : novaSchedules(v)
  BY <1>1, <1>3 DEF novaSchedules, TypeOK
<1>4. CASE \E v \in VMs : novaMigrates(v)
  BY <1>1, <1>4 DEF novaMigrates, TypeOK
<1> QED
  BY <1>2, <1>3, <1>4 DEF Moves

-----------------------------------------------------------------------------
(* The controller rests only when there is nothing to do.                  *)

\* A report that claims a finished drain claims all of it.
Whole(r) == r.evicting = "Succeeded" => r.evicted /\ r.settled = "Settled"

\* At rest h needs nobody, while the Eviction is in state.
Served(h, state) ==
    /\ h.registered /\ h.maintenance # "ha" => h.report.disabled = wanted(h.maintenance)
    /\ h.maintenance \in DrainModes =>
          \/ h.report.evicted /\ h.report.evicting = "Succeeded" /\ h.report.settled = "Settled"
          \/ ~ h.report.evicted /\ h.report.evicting = "Running" /\ state \in {"new", "running"}

\* A pass has read a whole report and writes one; it looks at migrations and
\* at the Eviction only for a drain that is not finished; and once it has
\* called the service its report says what spec.maintenance wants.
PassInv ==
    pass.pc # "idle" =>
        /\ Whole(pass.seen.report) /\ Whole(pass.out)
        /\ pass.pc # "apply" => ~ pass.again
        /\ pass.pc \in {"service", "evict"} =>
              pass.out.evicting = "None" /\ pass.out.evicted = pass.seen.report.evicted
        /\ pass.pc \in {"settle", "abort", "ensure", "read"} =>
              /\ pass.seen.maintenance \in DrainModes /\ pass.out.evicting = "None"
              /\ pass.seen.report.evicting # "Succeeded"
        /\ pass.pc = "read" => pass.out.settled = "Settled"
        /\ pass.pc = "ensure" => pass.out.settled = "Settled"
        /\ pass.pc # "service" /\ ~ pass.again /\ pass.seen.registered /\ pass.seen.maintenance # "ha" =>
              pass.out.disabled = wanted(pass.seen.maintenance)
        /\ pass.pc = "delete" =>
              pass.then.disabled = pass.out.disabled /\ pass.then.evicting # "Succeeded"

\* A drain is begun anew only when it was reported as finished, or when its
\* Eviction has ended.
AnewInv ==
    pass.pc = "delete" /\ pass.seen.maintenance \in DrainModes =>
        \/ pass.seen.report.evicting = "Succeeded" /\ pass.then.evicting = "Running"
        \/ eviction.state \in {"succeeded", "failed"}

\* With an empty queue a pass is on the last version, and what it is about to
\* report is new, which wakes the controller again, or leaves nothing to do.
WakeInv ==
    ~ queued =>
        IF pass.pc = "idle"
        THEN ~ hv.onboarding => Served(hv, eviction.state)
        ELSE /\ pass.seen = hv
             /\ pass.pc = "apply" /\ ~ pass.again /\ pass.out = hv.report => Served(hv, eviction.state)

RestInv == /\ Whole(hv.report) /\ Whole(prev.report)
           /\ PassInv /\ AnewInv /\ WakeInv

\* Every step is one of those described above.
LEMMA StepIs ==
    ASSUME TypeOK, [Next]_vars
    PROVE  /\ prev' \in {hv, prev}
           /\ prev' # prev => "stale_read" \in Faults
           /\ \/ \E h \in {hv, prev} : Reconcile(h)
              \/ reconcileComputeService \/ leaveMaintenance \/ leaveToHA \/ enterMaintenance
              \/ deleteEviction \/ ListActiveIncomingMigrations
              \/ \E v \in VMs : AbortMigration(v)
              \/ settleIncomingMigrations \/ ensureEviction \/ readEviction \/ applyStatus
              \/ Fails \/ applyStatusError \/ Crash
              \/ HvChanges \/ EvictionChanges \/ Moves \/ UNCHANGED vars
<1>1. CASE UNCHANGED vars
  BY <1>1 DEF vars
<1>2. CASE Next
  <2>1. prev' \in {hv, prev} /\ (prev' # prev => "stale_read" \in Faults)
    BY <1>2, Zenon DEF Next, Versioned
  <2>2. PassSteps \/ PassErrors \/ Environment
    BY <1>2, Zenon DEF Next, Versioned
  <2>3. CASE PassSteps
    BY <2>1, <2>3, Zenon DEF PassSteps
  <2>4. CASE PassErrors
    BY <2>1, <2>4, Zenon DEF PassErrors, Fails
  <2>5. CASE Environment
    BY <2>1, <2>5, Zenon DEF Environment, HvChanges, EvictionChanges, Moves
  <2> QED
    BY <2>2, <2>3, <2>4, <2>5
<1> QED
  BY <1>1, <1>2

\* Between two passes there is nothing to remember.
LEMMA IdleFields == Idle.pc = "idle" /\ Idle.seen = Blank /\ Blank.maintenance = "unset"
BY DEF Idle, Blank

\* The reports stay whole: only a pass writes one.
LEMMA WholeStep ==
    ASSUME TypeOK, Whole(hv.report), Whole(prev.report), PassInv, [Next]_vars
    PROVE  Whole(hv.report)' /\ Whole(prev.report)'
<1>1. hv' = hv \/ hv'.report = hv.report \/ (pass.pc = "apply" /\ hv'.report = pass.out)
  BY StepIs, ReconcileDoes, ServiceDoes, LeaveDoes, HADoes, EnterDoes, DeleteDoes, ListDoes,
     AbortDoes, SettleDoes, EnsureDoes, ReadDoes, ApplyDoes, FailsDoes, HvChangesDoes,
     EvictionChangesDoes, MovesDoes, Zenon DEF applyStatusError, Crash, vars
<1>2. Whole(hv'.report)
  BY <1>1 DEF PassInv
<1>3. Whole(prev'.report)
  BY StepIs, Zenon
<1> QED
  BY <1>2, <1>3, Zenon DEF Whole

\* The pass knows what it does.
LEMMA PassStep ==
    ASSUME TypeOK, Whole(hv.report), Whole(prev.report), PassInv, [Next]_vars
    PROVE  PassInv'
<1>b. pass.out.evicted \in BOOLEAN /\ pass.seen.report.evicted \in BOOLEAN /\ pass.again \in BOOLEAN
  BY PassParts, Zenon DEF Report, TypeOK, Pass
<1>1. CASE \E h \in {hv, prev} : Reconcile(h)
  <2>1. PICK h \in {hv, prev} : Reconcile(h)
    BY <1>1
  <2>2. CASE pass' = Idle
    BY <2>2, IdleFields, Zenon DEF PassInv
  <2>3. CASE /\ pass'.pc = "service" /\ pass'.seen = h /\ pass'.again = FALSE
             /\ Reports(h.report.disabled, "None", "None", h.report.evicted)
    <3>1. Whole(h.report)
      BY <2>1, Zenon
    <3> QED
      BY <2>3, <3>1, Zenon DEF PassInv, Reports, Whole
  <2> QED
    BY <2>1, <2>2, <2>3, ReconcileDoes, Zenon
<1>2. CASE reconcileComputeService
  BY <1>2, <1>b, ServiceDoes DEF PassInv, Reports, On, Whole
<1>3. CASE leaveMaintenance
  BY <1>3, <1>b, LeaveDoes DEF PassInv, Plans, On, Whole, DrainModes
<1>4. CASE leaveToHA
  BY <1>4, <1>b, HADoes DEF PassInv, On, Whole
<1>5. CASE enterMaintenance
  BY <1>5, <1>b, EnterDoes DEF PassInv, Plans, Reports, On, Whole
<1>6. CASE deleteEviction
  BY <1>6, <1>b, DeleteDoes DEF PassInv, On, Whole
<1>7. CASE ListActiveIncomingMigrations
  BY <1>7, <1>b, ListDoes DEF PassInv, On, Whole
<1>8. CASE \E v \in VMs : AbortMigration(v)
  BY <1>8, <1>b, AbortDoes DEF PassInv, On, Whole
<1>9. CASE settleIncomingMigrations
  BY <1>9, <1>b, SettleDoes DEF PassInv, Reports, Repeats, On, Whole
<1>10. CASE ensureEviction
  BY <1>10, <1>b, EnsureDoes DEF PassInv, On, Whole
<1>11. CASE readEviction
  BY <1>11, <1>b, ReadDoes DEF PassInv, Reports, Plans, On, Whole
<1>12. CASE Fails
  BY <1>12, <1>b, FailsDoes DEF PassInv, Reports, Repeats, On, Whole
<1>13. CASE applyStatus \/ applyStatusError \/ Crash
  BY <1>13, IdleFields, Zenon DEF applyStatus, applyStatusError, Crash, PassInv
<1>14. CASE HvChanges \/ EvictionChanges \/ Moves \/ UNCHANGED vars
  <2>1. pass' = pass
    BY <1>14, HvChangesDoes, EvictionChangesDoes, MovesDoes, Zenon DEF vars
  <2> QED
    BY <2>1, Zenon DEF PassInv
<1> QED
  BY StepIs, <1>1, <1>2, <1>3, <1>4, <1>5, <1>6, <1>7, <1>8, <1>9, <1>10, <1>11, <1>12,
     <1>13, <1>14, Zenon

\* A drain is begun anew for a reason, and the reason stands.
LEMMA AnewStep ==
    ASSUME TypeOK, PassInv, AnewInv, [Next]_vars
    PROVE  AnewInv'
<1>1. CASE \E h \in {hv, prev} : Reconcile(h)
  BY <1>1, ReconcileDoes, IdleFields, Zenon DEF AnewInv
<1>2. CASE leaveMaintenance
  BY <1>2, LeaveDoes DEF AnewInv, On, DrainModes
<1>3. CASE enterMaintenance
  BY <1>3, EnterDoes DEF AnewInv, On, Plans
<1>4. CASE readEviction
  BY <1>4, ReadDoes DEF AnewInv, On
<1>5. CASE reconcileComputeService \/ leaveToHA \/ deleteEviction
  BY <1>5, ServiceDoes, HADoes, DeleteDoes DEF AnewInv, On
<1>6. CASE ListActiveIncomingMigrations \/ (\E v \in VMs : AbortMigration(v))
  BY <1>6, ListDoes, AbortDoes DEF AnewInv, On
<1>7. CASE settleIncomingMigrations \/ ensureEviction \/ Fails
  BY <1>7, SettleDoes, EnsureDoes, FailsDoes DEF AnewInv, Repeats, On
<1>8. CASE applyStatus \/ applyStatusError \/ Crash
  BY <1>8, IdleFields DEF applyStatus, applyStatusError, Crash, AnewInv
<1>9. CASE HvChanges \/ Moves \/ UNCHANGED vars
  <2>1. pass' = pass /\ eviction' = eviction
    BY <1>9, HvChangesDoes, MovesDoes, Zenon DEF vars
  <2> QED
    BY <2>1, Zenon DEF AnewInv
<1>10. CASE EvictionChanges
  BY <1>10, EvictionChangesDoes DEF AnewInv
<1> QED
  BY StepIs, <1>1, <1>2, <1>3, <1>4, <1>5, <1>6, <1>7, <1>8, <1>9, <1>10, Zenon

\* No wakeup is lost.
LEMMA WakeStep ==
    ASSUME TypeOK, PassInv, AnewInv, WakeInv, [Next]_vars
    PROVE  WakeInv'
<1> SUFFICES ASSUME ~ queued' PROVE WakeInv'
  BY DEF WakeInv
<1>b. /\ pass.out.evicted \in BOOLEAN /\ pass.seen.report.evicted \in BOOLEAN
      /\ pass.again \in BOOLEAN
  BY PassParts, Zenon DEF Report, TypeOK, Pass
<1>q. queued' = queued => ~ queued
  OBVIOUS
<1>f. ASSUME hv' = hv, ~ queued, pass.pc # "idle", pass'.seen = pass.seen, pass'.pc # "idle",
             pass'.pc = "apply" /\ ~ pass'.again /\ pass'.out = hv.report => Served(hv, eviction'.state)
      PROVE  WakeInv'
  BY <1>f, Zenon DEF WakeInv
<1>1. CASE \E h \in {hv, prev} : Reconcile(h)
  <2>1. PICK h \in {hv, prev} : Reconcile(h)
    BY <1>1
  <2>2. h = hv /\ hv' = hv
    BY <2>1, ReconcileDoes, Zenon
  <2>3. CASE pass' = Idle /\ h.onboarding
    BY <2>2, <2>3, IdleFields, Zenon DEF WakeInv
  <2>4. CASE pass'.pc = "service" /\ pass'.seen = h
    BY <2>2, <2>4 DEF WakeInv
  <2> QED
    BY <2>1, <2>3, <2>4, ReconcileDoes, Zenon
<1>2. CASE reconcileComputeService
  BY <1>2, <1>f, ServiceDoes DEF On
<1>3. CASE leaveMaintenance
  <2>1. hv' = hv /\ ~ queued /\ pass.pc = "evict" /\ pass'.seen = pass.seen /\ pass'.pc # "idle"
    BY <1>3, <1>q, LeaveDoes, Zenon DEF On
  <2>2. pass.seen = hv
    BY <2>1 DEF WakeInv
  <2>3. ASSUME pass'.out = hv.report PROVE Served(hv, eviction'.state)
    BY <1>3, <2>1, <2>2, <2>3, <1>b, LeaveDoes DEF Served, PassInv, DrainModes
  <2> QED
    BY <2>1, <2>3, <1>f
<1>4. CASE leaveToHA
  <2>1. hv' = hv /\ ~ queued /\ pass.pc = "evict" /\ pass'.seen = pass.seen /\ pass'.pc # "idle"
    BY <1>4, HADoes DEF On
  <2>2. pass.seen = hv
    BY <2>1 DEF WakeInv
  <2>3. Served(hv, eviction'.state)
    BY <1>4, <2>2, HADoes DEF Served, DrainModes
  <2> QED
    BY <2>1, <2>3, <1>f
<1>5. CASE enterMaintenance
  <2>1. hv' = hv /\ ~ queued /\ pass.pc = "evict" /\ pass'.seen = pass.seen /\ pass'.pc # "idle"
    BY <1>5, <1>q, EnterDoes, Zenon DEF On
  <2>2. pass.seen = hv
    BY <2>1 DEF WakeInv
  <2>3. ASSUME pass'.pc = "apply", pass'.out = hv.report PROVE Served(hv, eviction'.state)
    BY <1>5, <2>1, <2>2, <2>3, <1>b, EnterDoes DEF Served, PassInv, DrainModes, Reports, On
  <2> QED
    BY <2>1, <2>3, <1>f
<1>6. CASE deleteEviction
  <2>1. /\ hv' = hv /\ ~ queued /\ pass.pc = "delete" /\ pass'.seen = pass.seen /\ pass'.pc # "idle"
        /\ eviction = Absent
    BY <1>6, DeleteDoes DEF On
  <2>2. pass.seen = hv
    BY <2>1 DEF WakeInv
  <2>3. ASSUME pass'.out = hv.report PROVE Served(hv, eviction'.state)
    <3>1. pass.then = hv.report
      BY <1>6, <2>3, DeleteDoes
    <3>2. eviction.state \notin {"succeeded", "failed"}
      BY <2>1 DEF Absent
    <3>3. hv.maintenance \notin DrainModes
      BY <2>1, <2>2, <3>1, <3>2 DEF AnewInv
    <3> QED
      BY <2>1, <2>2, <3>1, <3>3, <1>b DEF Served, PassInv
  <2> QED
    BY <2>1, <2>3, <1>f
<1>7. CASE ListActiveIncomingMigrations
  BY <1>7, <1>f, ListDoes DEF On
<1>8. CASE \E v \in VMs : AbortMigration(v)
  BY <1>8, <1>f, AbortDoes DEF On
<1>9. CASE settleIncomingMigrations
  <2>1. hv' = hv /\ ~ queued /\ pass.pc = "abort" /\ pass'.seen = pass.seen /\ pass'.pc # "idle"
    BY <1>9, <1>q, SettleDoes, Zenon DEF On, Repeats
  <2>2. pass'.pc = "apply" => pass'.again
    BY <1>9, <2>1, SettleDoes DEF On, Repeats, PassInv
  <2> QED
    BY <2>1, <2>2, <1>f
<1>10. CASE ensureEviction
  BY <1>10, <1>f, EnsureDoes DEF On
<1>11. CASE readEviction
  <2>1. hv' = hv /\ ~ queued /\ pass.pc = "read" /\ pass'.seen = pass.seen /\ pass'.pc # "idle"
    BY <1>11, <1>q, ReadDoes, Zenon DEF On
  <2>2. pass.seen = hv
    BY <2>1 DEF WakeInv
  <2>3. eviction'.state = eviction.state /\ eviction.state \in EvictionStates
    BY <1>11, ReadDoes DEF TypeOK
  <2>4. ASSUME pass'.pc = "apply", pass'.out = hv.report PROVE Served(hv, eviction'.state)
    BY <1>11, <2>1, <2>2, <2>3, <2>4, <1>b, ReadDoes
       DEF Served, PassInv, Reports, On, EvictionStates
  <2> QED
    BY <2>1, <2>4, <1>f
<1>12. CASE Fails
  <2>1. hv' = hv /\ ~ queued /\ pass'.seen = pass.seen /\ pass'.pc # "idle" /\ pass'.again
    BY <1>12, <1>q, FailsDoes, Zenon DEF On, Repeats
  <2>2. pass.pc # "idle"
    BY <1>12, FailsDoes
  <2> QED
    BY <2>1, <2>2, <1>f
<1>13. CASE applyStatus
  <2>1. /\ pass.pc = "apply" /\ ~ queued /\ ~ pass.again /\ hv' = hv /\ pass.out = hv.report
        /\ pass' = Idle /\ eviction' = eviction
    BY <1>13, ApplyDoes, Zenon
  <2>2. Served(hv, eviction.state)
    BY <2>1 DEF WakeInv
  <2> QED
    BY <2>1, <2>2, IdleFields, Zenon DEF WakeInv
<1>14. CASE applyStatusError \/ Crash
  BY <1>14, Zenon DEF applyStatusError, Crash
<1>15. CASE HvChanges \/ EvictionChanges
  BY <1>15, HvChangesDoes, EvictionChangesDoes, Zenon
<1>16. CASE Moves \/ UNCHANGED vars
  <2>1. hv' = hv /\ eviction' = eviction /\ pass' = pass /\ queued' = queued
    BY <1>16, MovesDoes, Zenon DEF vars
  <2> QED
    BY <2>1, <1>q, Zenon DEF WakeInv
<1> QED
  BY StepIs, <1>1, <1>2, <1>3, <1>4, <1>5, <1>6, <1>7, <1>8, <1>9, <1>10, <1>11, <1>12,
     <1>13, <1>14, <1>15, <1>16, Zenon

\* RestInv holds at the start and is kept by every step.
LEMMA RestInductive == Spec => [](TypeOK /\ RestInv)
<1>1. Init => TypeOK /\ RestInv
  <2> SUFFICES ASSUME Init PROVE TypeOK /\ RestInv
    OBVIOUS
  <2>1. TypeOK
    BY TypeInit
  <2>2. pass = Idle /\ queued = TRUE /\ prev = hv /\ hv.report = NoReport
    BY DEF Init
  <2>3. Whole(NoReport)
    BY DEF NoReport, Whole
  <2> QED
    BY <2>1, <2>2, <2>3, IdleFields DEF RestInv, PassInv, AnewInv, WakeInv
<1>2. TypeOK /\ RestInv /\ [Next]_vars => (TypeOK /\ RestInv)'
  BY TypeStep, WholeStep, PassStep, AnewStep, WakeStep, Zenon DEF RestInv
<1> QED
  BY <1>1, <1>2, PTL DEF Spec

\* THEOREM.  The maintenance controller never comes to rest with something
\* left to do (RestIsEarned): the service is reported as wished, and a drain is
\* complete or has an Eviction somebody works on.  For any number of instances
\* and any number of failed calls, restarts, changes of mind and old reads.
THEOREM RestStaysEarned == Spec => []RestIsEarned
<1>1. RestInv => RestIsEarned
  BY Zenon DEF RestInv, WakeInv, RestIsEarned, Quiet, Served
<1> QED
  BY <1>1, RestInductive, PTL

-----------------------------------------------------------------------------
(* An Eviction is created for a closed host only.                          *)

\* No report is lost and no pass starts from an old one.  Otherwise the
\* condition by which the controller decides whether to call the service may
\* say what is no longer so.
ReportsArrive == Faults \cap {"crash", "apply_error", "stale_read"} = {}

\* Past its call to the service.
Past == pass.pc \notin {"idle", "service"}

\* About to report that the service is enabled.
Opening == Past /\ pass.out.disabled = "False"

\* A pass is over the report that stands, and the service is what the report
\* says, or will say when the pass is done; past the settling no migration is
\* on its way.
ServiceInv ==
    /\ pass.pc # "idle" => pass.seen.report = hv.report /\ pass.seen.registered = hv.registered
    /\ pass.pc = "service" => pass.out.disabled = hv.report.disabled
    /\ hv.registered /\ hv.report.disabled = "True" /\ ~ Opening => ~ service.enabled
    /\ hv.registered /\ Past /\ pass.out.disabled = "True" => ~ service.enabled
    /\ hv.registered /\ pass.pc = "abort" /\ (\A v \in VMs : pass.active[v] = "none") => Incoming = {}
    /\ hv.registered /\ pass.pc = "ensure" => Incoming = {}

\* Nobody comes to a host that is closed.
LEMMA ClosedStays ==
    ASSUME TypeOK, Moves, ~ service.enabled, Incoming = {}
    PROVE  Incoming' = {} /\ Here' \subseteq Here
<1>1. \A v \in VMs : vm'[v] = vm[v] \/ vm'[v] = "away"
  BY MovesDoes
<1> QED
  BY <1>1 DEF Incoming, Here

\* A pass that looks at the migrations of a registered host has closed it.
LEMMA SettlingIsClosed ==
    ASSUME PassInv, ServiceInv, hv.registered, pass.pc \in {"settle", "abort", "ensure", "read"}
    PROVE  ~ service.enabled
<1>1. wanted(pass.seen.maintenance) = "True" /\ pass.seen.maintenance # "ha"
  BY DEF PassInv, wanted, DrainModes
<1>2. pass.out.disabled = "True"
  BY <1>1 DEF PassInv, ServiceInv
<1> QED
  BY <1>2 DEF ServiceInv, Past

\* The service stays what is or will be reported.
LEMMA ServiceStep ==
    ASSUME TypeOK, PassInv, ServiceInv, ReportsArrive, [Next]_vars
    PROVE  ServiceInv'
<1>1. CASE \E h \in {hv, prev} : Reconcile(h)
  <2>1. PICK h \in {hv, prev} : Reconcile(h)
    BY <1>1
  <2>2. h = hv /\ hv' = hv /\ service' = service /\ pass.pc = "idle"
    BY <2>1, ReconcileDoes, Zenon DEF ReportsArrive
  <2>3. CASE pass' = Idle
    BY <2>2, <2>3, IdleFields DEF ServiceInv, Past, Opening
  <2>4. CASE /\ pass'.pc = "service" /\ pass'.seen = h
             /\ Reports(h.report.disabled, "None", "None", h.report.evicted)
    BY <2>2, <2>4 DEF ServiceInv, Past, Opening, Reports
  <2> QED
    BY <2>1, <2>3, <2>4, ReconcileDoes, Zenon
<1>2. CASE reconcileComputeService
  <2>1. /\ pass.pc = "service" /\ On("evict") /\ hv' = hv
    BY <1>2, ServiceDoes
  <2>2. CASE ~ hv.registered
    BY <2>1, <2>2 DEF ServiceInv, On
  <2>3. CASE hv.registered /\ pass.seen.maintenance = "ha"
    <3>1. pass.seen.registered /\ wanted("ha") = "Leave"
      BY <2>1, <2>3 DEF ServiceInv, wanted, DrainModes
    <3>2. ~ needsCall
      BY <2>3, <3>1 DEF needsCall
    <3>3. service' = service /\ pass'.out.disabled = pass.out.disabled
      BY <1>2, <2>3, <3>2, ServiceDoes DEF Reports
    <3> QED
      BY <2>1, <2>3, <3>3 DEF ServiceInv, Past, Opening, On
  <2>4. CASE hv.registered /\ pass.seen.maintenance = "unset"
    <3>1. pass.seen.registered /\ wanted("unset") = "False"
      BY <2>1, <2>4 DEF ServiceInv, wanted, DrainModes
    <3>2. pass'.out.disabled = "False"
      BY <1>2, <2>4, <3>1, ServiceDoes DEF Reports
    <3> QED
      BY <2>1, <2>4, <3>2 DEF ServiceInv, Past, Opening, On
  <2>5. CASE hv.registered /\ pass.seen.maintenance \in DrainModes
    <3>1. pass.seen.registered /\ wanted(pass.seen.maintenance) = "True"
      BY <2>1, <2>5 DEF ServiceInv, wanted, DrainModes
    <3>2. pass'.out.disabled = "True"
      BY <1>2, <2>5, <3>1, ServiceDoes DEF Reports, DrainModes
    <3>3. ~ service'.enabled
      <4>1. CASE needsCall
        <5>1. pass.seen.maintenance # "unset"
          BY <2>5 DEF DrainModes
        <5> QED
          BY <1>2, <4>1, <5>1, ServiceDoes
      <4>2. CASE ~ needsCall
        <5>1. pass.seen.report.disabled = "True"
          BY <3>1, <4>2 DEF needsCall
        <5> QED
          BY <1>2, <2>1, <2>5, <4>2, <5>1, ServiceDoes DEF ServiceInv, Opening, Past
      <4> QED
        BY <4>1, <4>2
    <3> QED
      BY <2>1, <2>5, <3>2, <3>3 DEF ServiceInv, Past, Opening, On
  <2>6. pass.seen.maintenance \in {"ha", "unset"} \cup DrainModes
    BY DEF TypeOK, Pass, Hypervisor, AllModes
  <2> QED
    BY <2>2, <2>3, <2>4, <2>5, <2>6
<1>3. CASE leaveMaintenance
  BY <1>3, LeaveDoes DEF ServiceInv, Past, Opening, On
<1>4. CASE leaveToHA
  BY <1>4, HADoes DEF ServiceInv, Past, Opening, On
<1>5. CASE enterMaintenance
  BY <1>5, EnterDoes DEF ServiceInv, Past, Opening, On, Reports
<1>6. CASE deleteEviction
  BY <1>6, DeleteDoes DEF ServiceInv, Past, Opening, On, PassInv
<1>7. CASE ListActiveIncomingMigrations
  <2>1. Incoming' = Incoming
    BY <1>7, ListDoes DEF Incoming
  <2>2. (\A v \in VMs : pass'.active[v] = "none") => Incoming = {}
    BY <1>7, ListDoes DEF Incoming
  <2> QED
    BY <1>7, <2>1, <2>2, ListDoes DEF ServiceInv, Past, Opening, On
<1>8. CASE \E v \in VMs : AbortMigration(v)
  <2>1. PICK v \in VMs : AbortMigration(v)
    BY <1>8
  <2>2. (\A w \in VMs : pass'.active[w] = "none") => \A w \in VMs : pass.active[w] = "none"
    BY <2>1, AbortDoes
  <2>3. Incoming = {} => Incoming' = {}
    BY <2>1, AbortDoes DEF Incoming
  <2> QED
    BY <2>1, <2>2, <2>3, AbortDoes DEF ServiceInv, Past, Opening, On
<1>9. CASE settleIncomingMigrations
  <2>1. Incoming' = Incoming
    BY <1>9, SettleDoes DEF Incoming
  <2> QED
    BY <1>9, <2>1, SettleDoes DEF ServiceInv, Past, Opening, On, Repeats, Reports
<1>10. CASE ensureEviction
  BY <1>10, EnsureDoes DEF ServiceInv, Past, Opening, On
<1>11. CASE readEviction
  BY <1>11, ReadDoes DEF ServiceInv, Past, Opening, On, Reports
<1>12. CASE Fails
  BY <1>12, FailsDoes DEF ServiceInv, Past, Opening, On, Repeats, Reports
<1>13. CASE applyStatus
  BY <1>13, ApplyDoes, IdleFields DEF ServiceInv, Past, Opening
<1>14. ~ (applyStatusError \/ Crash)
  BY DEF applyStatusError, Crash, Disturb, ReportsArrive
<1>15. CASE HvChanges
  <2>1. Incoming' = Incoming /\ (service'.enabled => service.enabled)
    BY <1>15, HvChangesDoes DEF Incoming
  <2> QED
    BY <1>15, <2>1, HvChangesDoes DEF ServiceInv, Past, Opening
<1>16. CASE EvictionChanges
  <2>1. Incoming' = Incoming
    BY <1>16, EvictionChangesDoes DEF Incoming
  <2> QED
    BY <1>16, <2>1, EvictionChangesDoes DEF ServiceInv, Past, Opening
<1>17. CASE Moves
  <2>1. hv.registered /\ pass.pc \in {"abort", "ensure"} /\ Incoming = {} => Incoming' = {}
    BY <1>17, ClosedStays, SettlingIsClosed
  <2> QED
    BY <1>17, <2>1, MovesDoes DEF ServiceInv, Past, Opening
<1>18. CASE UNCHANGED vars
  BY <1>18 DEF vars, ServiceInv, Past, Opening, Incoming
<1> QED
  BY StepIs, <1>1, <1>2, <1>3, <1>4, <1>5, <1>6, <1>7, <1>8, <1>9, <1>10, <1>11, <1>12,
     <1>13, <1>14, <1>15, <1>16, <1>17, <1>18, Zenon

\* ServiceInv holds at the start and is kept as long as reports arrive.
LEMMA ServiceInductive == ReportsArrive => (Spec => [](TypeOK /\ RestInv /\ ServiceInv))
<1> SUFFICES ASSUME ReportsArrive PROVE Spec => [](TypeOK /\ RestInv /\ ServiceInv)
  OBVIOUS
<1>1. Init => ServiceInv
  BY IdleFields DEF Init, NoReport, ServiceInv, Past, Opening
<1>2. TypeOK /\ RestInv /\ ServiceInv /\ [Next]_vars => ServiceInv'
  BY ServiceStep, Zenon DEF RestInv
<1> QED
  BY <1>1, <1>2, RestInductive, PTL DEF Spec

\* THEOREM.  As long as no report of the controller is lost and its informer
\* keeps up, an Eviction is created only for a registered host that is disabled
\* and that no migration is heading for (NoEvictionBeforeSettled).  Without
\* that the report may say "disabled" of a service that is enabled.
THEOREM GateHolds == ReportsArrive => (Spec => NoEvictionBeforeSettled)
<1> SUFFICES ASSUME ReportsArrive PROVE Spec => NoEvictionBeforeSettled
  OBVIOUS
<1> DEFINE Gate == eviction.state = "absent" /\ eviction'.state = "new" /\ hv.registered
                      => ~ service.enabled /\ Incoming = {}
<1>1. TypeOK /\ RestInv /\ ServiceInv /\ [Next]_vars => Gate
  <2> SUFFICES ASSUME TypeOK, PassInv, ServiceInv, [Next]_vars, eviction.state = "absent",
                      eviction'.state = "new", hv.registered
               PROVE  ~ service.enabled /\ Incoming = {}
    BY DEF RestInv
  <2>1. ensureEviction
    <3>1. ensureEviction \/ eviction' \in {eviction, Absent} \/ eviction.state # "absent"
      <4>1. CASE EvictionChanges
        BY <4>1, EvictionChangesDoes
      <4>2. CASE ~ EvictionChanges
        BY <4>2, StepIs, ReconcileDoes, ServiceDoes, LeaveDoes, HADoes, EnterDoes, DeleteDoes,
           ListDoes, AbortDoes, SettleDoes, ReadDoes, ApplyDoes, FailsDoes, HvChangesDoes,
           MovesDoes, Zenon DEF applyStatusError, Crash, vars
      <4> QED
        BY <4>1, <4>2
    <3> QED
      BY <3>1 DEF Absent
  <2>2. pass.pc = "ensure"
    BY <2>1, EnsureDoes
  <2> QED
    BY <2>2, SettlingIsClosed DEF ServiceInv
<1>2. TypeOK /\ RestInv /\ ServiceInv /\ [Next]_vars => [Gate]_vars
  BY <1>1
<1> QED
  BY <1>2, ServiceInductive, PTL DEF Spec, NoEvictionBeforeSettled

-----------------------------------------------------------------------------
(* A hypervisor that rests as evicted is empty.                            *)

\* Besides, an Eviction that is to be deleted is deleted, and no host goes into
\* HA mode, which leaves the service alone and forgets the Eviction.
EvictionsEnd == ReportsArrive /\ "delete_error" \notin Faults /\ "ha" \notin Modes

\* The host has left maintenance, and the pass has opened its service.
Leaving == /\ pass.seen.maintenance = "unset"
           /\ pass.pc \in {"evict", "delete"} \/ (pass.pc = "apply" /\ ~ pass.again)

\* What the pass has in hand: nothing about the drain before it has looked,
\* and no claim to be evicted together with a deletion.
HandInv ==
    /\ hv.maintenance # "ha" /\ pass.seen.maintenance # "ha"
    /\ pass.pc \in {"service", "evict"} => pass.out.settled = "None"
    /\ pass.pc = "delete" => ~ pass.then.evicted
    /\ pass.pc = "apply" /\ Leaving => ~ pass.out.evicted /\ eviction.state = "absent"

\* An Eviction that exists is mentioned in the report that stands, in the one
\* to come, or is about to be: so whoever leaves maintenance deletes it.
MentionInv ==
    eviction.state # "absent" =>
        /\ pass.pc \in {"read", "delete", "apply"} \/ Mentions(hv.report)
        /\ pass.pc = "apply" => Mentions(pass.out)

\* Unless the host has left maintenance, an Eviction is about a closed host and
\* everything on it, and so is a claim to be evicted.
ClosedInv ==
    hv.registered /\ ~ Leaving =>
        /\ eviction.state # "absent" =>
              /\ ~ service.enabled /\ Incoming = {}
              /\ eviction.state = "running" => Here \subseteq eviction.listed
              /\ eviction.state \in {"succeeded", "failed"} => Here = {}
        /\ hv.report.evicted \/ (pass.pc # "idle" /\ pass.out.evicted) =>
              ~ service.enabled /\ Here = {} /\ Incoming = {}

\* A pass in mode unset is leaving once it has called the service; one for a
\* drain is not.
LEMMA NotLeaving ==
    ASSUME PassInv
    PROVE  /\ pass.seen.maintenance \in DrainModes => ~ Leaving
           /\ pass.pc \in {"idle", "service", "settle", "abort", "ensure", "read"} => ~ Leaving
BY DEF Leaving, DrainModes

\* The pass goes on saying what it knows.
LEMMA HandStep ==
    ASSUME TypeOK, PassInv, ServiceInv, HandInv, MentionInv, EvictionsEnd, [Next]_vars
    PROVE  HandInv'
<1>b. pass.out.evicted \in BOOLEAN /\ pass.then.evicted \in BOOLEAN /\ pass.again \in BOOLEAN
  BY PassParts, Zenon DEF Report, TypeOK, Pass
<1>1. CASE \E h \in {hv, prev} : Reconcile(h)
  <2>1. PICK h \in {hv, prev} : Reconcile(h)
    BY <1>1
  <2>2. h = hv /\ hv' = hv
    BY <2>1, ReconcileDoes, Zenon DEF ReportsArrive, EvictionsEnd
  <2>3. CASE pass' = Idle
    BY <2>2, <2>3, IdleFields DEF HandInv, Leaving
  <2>4. CASE /\ pass'.pc = "service" /\ pass'.seen = h
             /\ Reports(h.report.disabled, "None", "None", h.report.evicted)
    BY <2>2, <2>4 DEF HandInv, Leaving, Reports
  <2> QED
    BY <2>1, <2>3, <2>4, ReconcileDoes, Zenon
<1>2. CASE reconcileComputeService
  BY <1>2, <1>b, ServiceDoes DEF HandInv, Leaving, Reports, On
<1>3. CASE leaveMaintenance
  <2>1. CASE On("apply") /\ ~ Mentions(pass.seen.report)
    <3>1. eviction.state = "absent" /\ ~ pass.seen.report.evicted
      BY <1>3, <2>1, LeaveDoes DEF MentionInv, ServiceInv, Mentions
    <3>2. ~ pass.out.evicted
      BY <1>3, <1>b, <3>1, LeaveDoes DEF PassInv
    <3> QED
      BY <1>3, <2>1, <3>1, <3>2, LeaveDoes DEF HandInv, On
  <2>2. CASE On("delete") /\ Plans(pass.out.disabled, pass.out.evicting, pass.out.settled, FALSE)
    BY <1>3, <2>2, LeaveDoes DEF HandInv, On, Plans
  <2> QED
    BY <1>3, <2>1, <2>2, LeaveDoes, Zenon
<1>4. CASE leaveToHA
  BY <1>4, HADoes DEF HandInv
<1>5. CASE enterMaintenance
  BY <1>5, EnterDoes DEF HandInv, Leaving, On, Plans, DrainModes
<1>6. CASE deleteEviction
  BY <1>6, DeleteDoes DEF HandInv, On, Absent
<1>7. CASE ListActiveIncomingMigrations
  BY <1>7, ListDoes DEF HandInv, On
<1>8. CASE \E v \in VMs : AbortMigration(v)
  BY <1>8, AbortDoes DEF HandInv, On
<1>9. CASE settleIncomingMigrations
  <2>1. pass'.pc = "apply" => ~ Leaving'
    BY <1>9, SettleDoes DEF PassInv, Leaving, Repeats, On, DrainModes
  <2> QED
    BY <1>9, <2>1, SettleDoes DEF HandInv, Repeats, On
<1>10. CASE ensureEviction
  BY <1>10, EnsureDoes DEF HandInv, On
<1>11. CASE readEviction
  <2>1. ~ Leaving' \/ pass'.pc # "apply"
    BY <1>11, ReadDoes DEF PassInv, Leaving, On, DrainModes
  <2> QED
    BY <1>11, <2>1, ReadDoes DEF HandInv, On, Plans
<1>12. CASE Fails
  <2>1. ~ Leaving'
    BY <1>12, FailsDoes DEF Leaving, Repeats, On
  <2> QED
    BY <1>12, <2>1, FailsDoes DEF HandInv, Repeats, On
<1>13. CASE applyStatus
  BY <1>13, ApplyDoes, IdleFields DEF HandInv
<1>14. ~ (applyStatusError \/ Crash)
  BY DEF applyStatusError, Crash, Disturb, ReportsArrive, EvictionsEnd
<1>15. CASE HvChanges
  BY <1>15, HvChangesDoes DEF HandInv, Leaving, EvictionsEnd
<1>16. CASE EvictionChanges
  BY <1>16, EvictionChangesDoes DEF HandInv, Leaving
<1>17. CASE Moves \/ UNCHANGED vars
  <2>1. hv' = hv /\ pass' = pass /\ eviction' = eviction
    BY <1>17, MovesDoes, Zenon DEF vars
  <2> QED
    BY <2>1, Zenon DEF HandInv, Leaving
<1> QED
  BY StepIs, <1>1, <1>2, <1>3, <1>4, <1>5, <1>6, <1>7, <1>8, <1>9, <1>10, <1>11, <1>12,
     <1>13, <1>14, <1>15, <1>16, <1>17, Zenon

\* No Eviction is forgotten.
LEMMA MentionStep ==
    ASSUME TypeOK, PassInv, ServiceInv, HandInv, MentionInv, EvictionsEnd, [Next]_vars
    PROVE  MentionInv'
<1>b. /\ pass.out.evicted \in BOOLEAN /\ pass.seen.report.evicted \in BOOLEAN
      /\ hv.report.evicted \in BOOLEAN
  BY PassParts, Zenon DEF Report
<1>1. CASE \E h \in {hv, prev} : Reconcile(h)
  <2>1. PICK h \in {hv, prev} : Reconcile(h)
    BY <1>1
  <2>2. hv' = hv /\ pass.pc = "idle" /\ eviction' = eviction /\ pass'.pc # "apply"
    BY <2>1, ReconcileDoes, IdleFields
  <2> QED
    BY <2>2 DEF MentionInv
<1>2. CASE reconcileComputeService
  BY <1>2, ServiceDoes DEF MentionInv, On
<1>3. CASE leaveMaintenance
  BY <1>3, LeaveDoes DEF MentionInv, ServiceInv, On
<1>4. CASE leaveToHA
  BY <1>4, HADoes DEF HandInv
<1>5. CASE enterMaintenance
  BY <1>5, EnterDoes DEF MentionInv, Mentions, Reports, On
<1>6. CASE deleteEviction
  BY <1>6, DeleteDoes DEF MentionInv, Absent
<1>7. CASE ListActiveIncomingMigrations
  BY <1>7, ListDoes DEF MentionInv, On
<1>8. CASE \E v \in VMs : AbortMigration(v)
  BY <1>8, AbortDoes DEF MentionInv, On
<1>9. CASE settleIncomingMigrations
  BY <1>9, SettleDoes DEF MentionInv, Mentions, Reports, Repeats, On
<1>10. CASE ensureEviction
  BY <1>10, EnsureDoes DEF MentionInv, On
<1>11. CASE readEviction
  BY <1>11, ReadDoes DEF MentionInv, Mentions, Reports, On
<1>12. CASE Fails
  <2>1. pass'.pc = "apply" /\ hv' = hv /\ eviction' = eviction
    BY <1>12, FailsDoes DEF Repeats, On
  <2>2. eviction.state # "absent" => Mentions(pass'.out)
    <3>1. CASE pass.pc = "service" /\ Reports("Unknown", pass.seen.report.evicting, pass.seen.report.settled, pass.out.evicted)
      <4>1. eviction.state # "absent" => Mentions(pass.seen.report)
        BY <3>1 DEF MentionInv, ServiceInv
      <4>2. pass.out.evicted = pass.seen.report.evicted
        BY <3>1 DEF PassInv
      <4>3. Mentions(pass.seen.report) => Mentions(pass'.out)
        BY <3>1, <4>2, Zenon DEF Mentions, Reports
      <4> QED
        BY <4>1, <4>3
    <3>2. CASE pass.pc \in {"settle", "abort"} /\ Reports(pass.out.disabled, pass.seen.report.evicting, "Unknown", FALSE)
      BY <3>2 DEF Mentions, Reports
    <3>3. CASE pass.pc \in {"ensure", "read"} /\ pass'.out = pass.out
      BY <3>3 DEF Mentions, PassInv
    <3> QED
      BY <1>12, <3>1, <3>2, <3>3, FailsDoes, Zenon DEF EvictionsEnd
  <2> QED
    BY <2>1, <2>2 DEF MentionInv
<1>13. CASE applyStatus
  <2>1. pass.pc = "apply" /\ hv'.report = pass.out /\ eviction' = eviction /\ pass'.pc = "idle"
    BY <1>13, ApplyDoes, IdleFields
  <2> QED
    BY <2>1 DEF MentionInv
<1>14. ~ (applyStatusError \/ Crash)
  BY DEF applyStatusError, Crash, Disturb, ReportsArrive, EvictionsEnd
<1>15. CASE HvChanges
  BY <1>15, HvChangesDoes DEF MentionInv
<1>16. CASE EvictionChanges
  BY <1>16, EvictionChangesDoes DEF MentionInv
<1>17. CASE Moves \/ UNCHANGED vars
  <2>1. hv' = hv /\ pass' = pass /\ eviction' = eviction
    BY <1>17, MovesDoes, Zenon DEF vars
  <2> QED
    BY <2>1, Zenon DEF MentionInv
<1> QED
  BY StepIs, <1>1, <1>2, <1>3, <1>4, <1>5, <1>6, <1>7, <1>8, <1>9, <1>10, <1>11, <1>12,
     <1>13, <1>14, <1>15, <1>16, <1>17, Zenon

\* A host that is closed and emptied stays so until it leaves maintenance.
LEMMA ClosedStep ==
    ASSUME TypeOK, PassInv, ServiceInv, HandInv, MentionInv, ClosedInv, EvictionsEnd, [Next]_vars
    PROVE  ClosedInv'
<1> DEFINE Claims == hv.report.evicted \/ (pass.pc # "idle" /\ pass.out.evicted)
<1>b. /\ pass.out.evicted \in BOOLEAN /\ hv.report.evicted \in BOOLEAN /\ pass.again \in BOOLEAN
      /\ pass.seen.report.evicted \in BOOLEAN
  BY PassParts, Zenon DEF Report, TypeOK, Pass
<1>f. ASSUME ~ Leaving, hv'.registered = hv.registered, service'.enabled => service.enabled,
             eviction' = eviction \/ eviction'.state = "absent", vm' = vm, Claims' => Claims
      PROVE  ClosedInv'
  <2>1. Here' = Here /\ Incoming' = Incoming
    BY <1>f DEF Here, Incoming
  <2> HIDE DEF Claims
  <2>2. hv.registered =>
          /\ eviction.state # "absent" =>
                /\ ~ service.enabled /\ Incoming = {}
                /\ eviction.state = "running" => Here \subseteq eviction.listed
                /\ eviction.state \in {"succeeded", "failed"} => Here = {}
          /\ Claims => ~ service.enabled /\ Here = {} /\ Incoming = {}
    BY <1>f DEF ClosedInv, Claims
  <2>3. hv'.registered =>
          /\ eviction'.state # "absent" =>
                /\ ~ service'.enabled /\ Incoming' = {}
                /\ eviction'.state = "running" => Here' \subseteq eviction'.listed
                /\ eviction'.state \in {"succeeded", "failed"} => Here' = {}
          /\ Claims' => ~ service'.enabled /\ Here' = {} /\ Incoming' = {}
    BY <1>f, <2>1, <2>2
  <2> QED
    BY <2>3 DEF ClosedInv, Claims
<1>1. CASE \E h \in {hv, prev} : Reconcile(h)
  <2>1. PICK h \in {hv, prev} : Reconcile(h)
    BY <1>1
  <2>2. h = hv /\ hv' = hv /\ service' = service /\ eviction' = eviction /\ vm' = vm /\ pass.pc = "idle"
    BY <2>1, ReconcileDoes, Zenon DEF ReportsArrive, EvictionsEnd
  <2>3. Claims' => Claims
    <3>1. CASE pass' = Idle
      BY <2>2, <3>1, IdleFields
    <3>2. CASE Reports(h.report.disabled, "None", "None", h.report.evicted)
      BY <2>2, <3>2, Zenon DEF Reports
    <3> QED
      BY <2>1, <3>1, <3>2, ReconcileDoes, Zenon
  <2> QED
    BY <2>2, <2>3, <1>f, NotLeaving
<1>2. CASE reconcileComputeService
  <2>1. /\ pass.pc = "service" /\ On("evict") /\ hv' = hv /\ eviction' = eviction /\ vm' = vm
        /\ pass'.out.evicted = pass.out.evicted
    BY <1>2, ServiceDoes DEF Reports
  <2>2. CASE pass.seen.maintenance = "unset"
    BY <2>1, <2>2 DEF ClosedInv, Leaving, On
  <2>3. CASE pass.seen.maintenance # "unset"
    <3>1. service'.enabled => service.enabled
      BY <1>2, <2>3, ServiceDoes
    <3>2. Claims' => Claims
      BY <2>1, Zenon DEF On
    <3> QED
      BY <2>1, <3>1, <3>2, <1>f, NotLeaving
  <2> QED
    BY <2>2, <2>3
<1>3. CASE leaveMaintenance
  <2>1. Leaving'
    BY <1>3, LeaveDoes DEF PassInv, Leaving, On
  <2> QED
    BY <2>1 DEF ClosedInv
<1>4. CASE leaveToHA
  BY <1>4, HADoes DEF HandInv
<1>5. CASE enterMaintenance
  <2>1. /\ hv' = hv /\ service' = service /\ eviction' = eviction /\ vm' = vm /\ ~ Leaving
        /\ pass.pc # "idle"
    BY <1>5, EnterDoes, NotLeaving
  <2>2. pass'.out.evicted = pass.out.evicted
    BY <1>5, EnterDoes DEF Reports
  <2>3. Claims' => Claims
    BY <2>1, <2>2, Zenon
  <2> QED
    BY <2>1, <2>3, <1>f
<1>6. CASE deleteEviction
  <2>1. /\ hv' = hv /\ service' = service /\ eviction'.state = "absent" /\ vm' = vm
        /\ pass.pc = "delete" /\ On("apply") /\ pass'.out = pass.then /\ pass'.again = pass.again
    BY <1>6, DeleteDoes DEF Absent
  <2>2. ~ pass.again /\ ~ pass.then.evicted
    BY <2>1 DEF PassInv, HandInv
  <2>3. CASE pass.seen.maintenance = "unset"
    <3>1. Leaving'
      BY <2>1, <2>2, <2>3 DEF Leaving, On
    <3> QED
      BY <3>1 DEF ClosedInv
  <2>4. CASE pass.seen.maintenance # "unset"
    <3>1. ~ Leaving
      BY <2>4 DEF Leaving
    <3>2. Claims' => Claims
      BY <2>1, <2>2, Zenon
    <3> QED
      BY <2>1, <3>1, <3>2, <1>f
  <2> QED
    BY <2>3, <2>4
<1>7. CASE ListActiveIncomingMigrations
  <2>1. /\ hv' = hv /\ service' = service /\ eviction' = eviction /\ vm' = vm /\ ~ Leaving
        /\ pass.pc # "idle" /\ pass'.out = pass.out
    BY <1>7, ListDoes, NotLeaving
  <2>2. Claims' => Claims
    BY <2>1, Zenon
  <2> QED
    BY <2>1, <2>2, <1>f
<1>8. CASE \E v \in VMs : AbortMigration(v)
  <2>1. PICK v \in VMs : AbortMigration(v)
    BY <1>8
  <2>2. /\ hv' = hv /\ service' = service /\ eviction' = eviction /\ ~ Leaving
        /\ pass.pc # "idle" /\ pass'.pc # "idle" /\ pass'.out = pass.out
    BY <2>1, AbortDoes, NotLeaving DEF On
  <2>3. Here' \subseteq Here /\ (Incoming = {} => Incoming' = {})
    BY <2>1, AbortDoes DEF Here, Incoming
  <2> QED
    BY <2>2, <2>3 DEF ClosedInv
<1>9. CASE settleIncomingMigrations
  <2>1. /\ hv' = hv /\ service' = service /\ eviction' = eviction /\ vm' = vm /\ ~ Leaving
        /\ pass.pc # "idle"
    BY <1>9, SettleDoes, NotLeaving
  <2>2. pass'.out.evicted = FALSE \/ pass'.out.evicted = pass.out.evicted
    BY <1>9, SettleDoes, Zenon DEF Reports
  <2>3. Claims' => Claims
    BY <2>1, <2>2, Zenon
  <2> QED
    BY <2>1, <2>3, <1>f
<1>10. CASE ensureEviction
  <2>1. /\ pass.pc = "ensure" /\ hv' = hv /\ service' = service /\ vm' = vm /\ ~ Leaving
        /\ pass'.out = pass.out
    BY <1>10, EnsureDoes, NotLeaving
  <2>2. Claims' => Claims
    BY <2>1, Zenon
  <2>3. CASE eviction' = eviction
    BY <2>1, <2>2, <2>3, <1>f
  <2>4. CASE eviction' = [state |-> "new", listed |-> {}]
    <3>1. Incoming' = Incoming /\ Here' = Here
      BY <2>1 DEF Here, Incoming
    <3>2. hv.registered => ~ service.enabled /\ Incoming = {}
      BY <2>1, SettlingIsClosed DEF ServiceInv
    <3>3. eviction'.state = "new"
      BY <2>4
    <3> HIDE DEF Claims
    <3>4. hv.registered /\ Claims => Here = {}
      BY <2>1 DEF ClosedInv, Claims
    <3>5. hv'.registered /\ Claims' => Here' = {}
      BY <2>1, <2>2, <3>1, <3>4
    <3>6. hv'.registered => ~ service'.enabled /\ Incoming' = {}
      BY <2>1, <3>1, <3>2
    <3> QED
      BY <3>3, <3>5, <3>6 DEF ClosedInv, Claims
  <2> QED
    BY <1>10, <2>3, <2>4, EnsureDoes
<1>11. CASE readEviction
  <2>1. /\ pass.pc = "read" /\ hv' = hv /\ service' = service /\ eviction' = eviction /\ vm' = vm
        /\ ~ Leaving /\ eviction.state # "absent"
    BY <1>11, ReadDoes, NotLeaving
  <2>2. CASE eviction.state \in {"succeeded", "failed"}
    <3>1. hv.registered => ~ service.enabled /\ Here = {} /\ Incoming = {}
      BY <2>1, <2>2 DEF ClosedInv
    <3>2. Incoming' = Incoming /\ Here' = Here
      BY <2>1 DEF Here, Incoming
    <3> QED
      BY <2>1, <3>1, <3>2 DEF ClosedInv
  <2>3. CASE eviction.state \notin {"succeeded", "failed"}
    <3>1. pass'.out.evicted = FALSE
      BY <1>11, <2>3, ReadDoes, Zenon DEF Reports
    <3>2. Claims' => Claims
      BY <2>1, <3>1, Zenon
    <3> QED
      BY <2>1, <3>2, <1>f
  <2> QED
    BY <2>2, <2>3
<1>12. CASE Fails
  <2>1. /\ hv' = hv /\ service' = service /\ eviction' = eviction /\ vm' = vm
    BY <1>12, FailsDoes
  <2>2. /\ pass'.out = pass.out \/ pass'.out.evicted = FALSE \/ pass'.out.evicted = pass.out.evicted
        /\ pass.pc \in {"service", "settle", "abort", "ensure", "read"}
    BY <1>12, FailsDoes, Zenon DEF Reports, EvictionsEnd
  <2>3. Claims' => Claims
    BY <2>1, <2>2
  <2> QED
    BY <2>1, <2>2, <2>3, <1>f, NotLeaving
<1>13. CASE applyStatus
  <2>1. /\ pass.pc = "apply" /\ hv'.report = pass.out /\ hv'.registered = hv.registered
        /\ pass'.pc = "idle" /\ service' = service /\ eviction' = eviction /\ vm' = vm
    BY <1>13, ApplyDoes, IdleFields
  <2>2. CASE Leaving
    <3>1. eviction.state = "absent" /\ ~ pass.out.evicted
      BY <2>1, <2>2 DEF HandInv
    <3> QED
      BY <2>1, <3>1 DEF ClosedInv
  <2>3. CASE ~ Leaving
    <3>1. Claims' => Claims
      BY <2>1
    <3> QED
      BY <2>1, <2>3, <3>1, <1>f
  <2> QED
    BY <2>2, <2>3
<1>14. ~ (applyStatusError \/ Crash)
  BY DEF applyStatusError, Crash, Disturb, ReportsArrive, EvictionsEnd
<1>15. CASE HvChanges
  <2>1. /\ hv'.report = hv.report /\ hv'.registered = hv.registered /\ pass' = pass
        /\ eviction' = eviction /\ vm' = vm
    BY <1>15, HvChangesDoes
  <2>2. service'.enabled => service.enabled
    BY <1>15, HvChangesDoes
  <2>3. Claims' => Claims
    BY <2>1
  <2>4. Leaving' = Leaving
    BY <2>1 DEF Leaving
  <2> QED
    BY <2>1, <2>2, <2>3, <2>4, <1>f DEF ClosedInv
<1>16. CASE EvictionChanges
  <2>1. hv' = hv /\ service' = service /\ pass' = pass /\ vm' = vm
    BY <1>16, EvictionChangesDoes
  <2>2. Here' = Here /\ Incoming' = Incoming
    BY <2>1 DEF Here, Incoming
  <2>3. Leaving' = Leaving
    BY <2>1 DEF Leaving
  <2>4. CASE eviction.state = "new" /\ eviction' = [state |-> "running", listed |-> Here]
    BY <2>1, <2>2, <2>3, <2>4 DEF ClosedInv
  <2>5. CASE eviction.state = "running" /\ eviction'.state = "succeeded" /\ eviction.listed \cap Here = {}
    BY <2>1, <2>2, <2>3, <2>5 DEF ClosedInv
  <2>6. CASE eviction.state = "new" /\ eviction'.state = "failed" /\ Here = {}
    BY <2>1, <2>2, <2>3, <2>6 DEF ClosedInv
  <2> QED
    BY <1>16, <2>4, <2>5, <2>6, EvictionChangesDoes
<1>17. CASE Moves
  <2>1. hv' = hv /\ service' = service /\ pass' = pass /\ eviction' = eviction
    BY <1>17, MovesDoes
  <2>2. Leaving' = Leaving
    BY <2>1 DEF Leaving
  <2>3. ~ service.enabled /\ Incoming = {} => Incoming' = {} /\ Here' \subseteq Here
    BY <1>17, ClosedStays
  <2> QED
    BY <2>1, <2>2, <2>3 DEF ClosedInv
<1>18. CASE UNCHANGED vars
  BY <1>18 DEF vars, ClosedInv, Leaving, Here, Incoming
<1> HIDE DEF Claims
<1> QED
  BY StepIs, <1>1, <1>2, <1>3, <1>4, <1>5, <1>6, <1>7, <1>8, <1>9, <1>10, <1>11, <1>12,
     <1>13, <1>14, <1>15, <1>16, <1>17, <1>18, Zenon

\* THEOREM.  status.evicted can be relied on (EvictedMeansEmpty): once the
\* controller has come to rest, a registered hypervisor in maintenance that is
\* reported as evicted is empty, closed to the scheduler and no migration is on
\* its way to it.  For any number of instances and arrivals, provided that no
\* report and no deletion of an Eviction is lost and that no host is in HA mode.
THEOREM EvictedStaysEmpty == EvictionsEnd => (Spec => []EvictedMeansEmpty)
<1> SUFFICES ASSUME EvictionsEnd PROVE Spec => []EvictedMeansEmpty
  OBVIOUS
<1> DEFINE Inv == HandInv /\ MentionInv /\ ClosedInv
<1>1. Init => Inv
  <2> SUFFICES ASSUME Init PROVE Inv
    OBVIOUS
  <2>1. pass = Idle /\ eviction = Absent /\ hv.report = NoReport /\ hv.maintenance = "unset"
    BY DEF Init
  <2>2. pass.pc = "idle" /\ pass.seen.maintenance = "unset" /\ eviction.state = "absent"
    BY <2>1, IdleFields DEF Absent
  <2>3. ~ hv.report.evicted
    BY <2>1 DEF NoReport
  <2> QED
    BY <2>1, <2>2, <2>3 DEF HandInv, MentionInv, ClosedInv
<1>2. TypeOK /\ RestInv /\ ServiceInv /\ Inv /\ [Next]_vars => Inv'
  BY HandStep, MentionStep, ClosedStep, Zenon DEF RestInv
<1>3. Inv => EvictedMeansEmpty
  BY DEF ClosedInv, EvictedMeansEmpty, Quiet, Leaving
<1>4. ReportsArrive
  BY DEF EvictionsEnd
<1> HIDE DEF Inv
<1>5. Spec => [](TypeOK /\ RestInv /\ ServiceInv)
  BY <1>4, ServiceInductive
<1> QED
  BY <1>1, <1>2, <1>3, <1>5, PTL DEF Spec

=============================================================================
