---------------------------- MODULE Maintenance ----------------------------
(***************************************************************************)
(* The maintenance controller (hypervisor_maintenance_controller.go): it   *)
(* turns the wish in spec.maintenance of a Hypervisor into the state of    *)
(* the nova-compute service, of the incoming migrations and of an Eviction *)
(* resource, and reports in the status.  One reconcile is a PASS over a    *)
(* snapshot of the Hypervisor, which an informer that lags makes an old    *)
(* one; every call it makes is a step of its own, and the report is        *)
(* applied as a whole at its end, whatever the version by then: what the   *)
(* report leaves out, server-side apply prunes.                            *)
(*                                                                         *)
(* The Eviction's own controller (module Eviction) is represented by what  *)
(* it promises in module Drain: it lists the host once the hypervisor is   *)
(* reported disabled, and succeeds when everything listed has left.        *)
(***************************************************************************)
EXTENDS Integers, FiniteSets

CONSTANTS
    VMs,       \* the instances that may come to the host
    Modes,     \* the values of spec.maintenance that occur
    Faults,    \* the kinds of disturbance this instance allows
    MaxFaults  \* BOUND: how many disturbances may happen

DrainModes == {"manual", "auto", "termination"}
AllModes == DrainModes \cup {"unset", "ha"}
FaultKinds == {"change_mode", "service_error", "delete_error", "list_error",
               "abort_error", "create_error", "get_error", "apply_error",
               "crash", "arrive", "eviction_fails", "stale_read"}

ASSUME ConstantsAssumption == /\ IsFiniteSet(VMs)
                              /\ Modes \subseteq AllModes /\ "unset" \in Modes
                              /\ Faults \subseteq FaultKinds
                              /\ MaxFaults \in Nat

VARIABLES
    hv,       \* the Hypervisor: its wish, its conditions, what agents report
    prev,     \* its version before that, kept where it may be read
    service,  \* the nova-compute service: [enabled, forcedDown]
    eviction, \* [state, listed]: the Eviction resource of that hypervisor
    vm,       \* [VMs -> Place]: where each instance is, seen from the host
    pass,     \* the reconcile in progress
    queued,   \* does the work queue hold the hypervisor?
    faults    \* disturbances so far

vars == <<hv, prev, service, eviction, vm, pass, queued, faults>>

-----------------------------------------------------------------------------
(* A live migration to the host can be aborted until its post phase.       *)
Place == {"away", "running", "post", "here"}
Here == {v \in VMs : vm[v] = "here"}
Incoming == {v \in VMs : vm[v] \in {"running", "post"}}

\* The part of the status this controller owns; "None" is an absent condition.
Report == [disabled : {"None", "True", "False", "Unknown"},
           evicting : {"None", "Running", "Succeeded"},
           settled  : {"None", "Settled", "Waiting", "Aborting", "Unknown"},
           evicted  : BOOLEAN]

NoReport == [disabled |-> "None", evicting |-> "None", settled |-> "None", evicted |-> FALSE]

Hypervisor == [maintenance : AllModes, registered : BOOLEAN, onboarding : BOOLEAN,
               numInstances : Nat, report : Report]

EvictionStates == {"absent", "new", "running", "succeeded", "failed"}
Absent == [state |-> "absent", listed |-> {}]

\* "out" is the report under construction, "then" the one to use if the
\* Eviction can be deleted, "active" the migrations listed, "again" whether
\* the pass asks to be repeated.
Pass == [pc     : {"idle", "service", "evict", "delete", "settle", "abort", "ensure", "read", "apply"},
         seen   : Hypervisor,
         out    : Report,
         then   : Report,
         active : [VMs -> {"none", "running", "post", "aborted"}],
         again  : BOOLEAN]

Nowhere == [v \in VMs |-> "away"]
Unlisted == [v \in VMs |-> "none"]
Blank == [maintenance |-> "unset", registered |-> FALSE, onboarding |-> FALSE,
          numInstances |-> 0, report |-> NoReport]
Idle == [pc |-> "idle", seen |-> Blank, out |-> NoReport, then |-> NoReport,
         active |-> Unlisted, again |-> FALSE]

Disturb(kind) == /\ kind \in Faults
                 /\ faults < MaxFaults
                 /\ faults' = faults + 1

Init == /\ hv \in [maintenance : {"unset"}, registered : BOOLEAN, onboarding : BOOLEAN,
                   numInstances : {0}, report : {NoReport}]
        /\ prev = hv
        /\ service \in [enabled : BOOLEAN, forcedDown : {FALSE}]
        /\ eviction = Absent
        /\ vm = Nowhere
        /\ pass = Idle
        /\ queued = TRUE
        /\ faults = 0

-----------------------------------------------------------------------------
(* Reconcile.                                                              *)

\* The informer has the last version, or not yet.
Snapshot(h) == \/ h = hv /\ UNCHANGED faults
               \/ h # hv /\ Disturb("stale_read")

\* The snapshot; the event of a later version is still to come.  Nothing is
\* done during onboarding; what the report owns is seeded with Evicted and
\* HypervisorDisabled only.
Reconcile(h) ==
    /\ queued /\ pass.pc = "idle" /\ Snapshot(h)
    /\ queued' = (h # hv)
    /\ pass' = IF h.onboarding
               THEN Idle
               ELSE [Idle EXCEPT !.pc = "service", !.seen = h,
                        !.out = [NoReport EXCEPT !.evicted  = h.report.evicted,
                                                 !.disabled = h.report.disabled]]
    /\ UNCHANGED <<hv, service, eviction, vm>>

At(pc) == pass.pc = pc /\ UNCHANGED <<hv, vm, queued>>

Goto(pc, out) == pass' = [pass EXCEPT !.pc = pc, !.out = out]

\* The pass ends with an error or a requeue; either way it is repeated.
Again(out) == pass' = [pass EXCEPT !.pc = "apply", !.out = out, !.again = TRUE]

\* Mutation: one condition is retained in the place of the other.
retainSwapped(out) == [out EXCEPT !.evicting = pass.seen.report.evicting,
                                  !.settled  = pass.seen.report.evicting]

\* The conditions about the drain are carried over from the snapshot.
retain(out) == [out EXCEPT !.evicting = pass.seen.report.evicting,
                           !.settled  = pass.seen.report.settled]

\* The state spec.maintenance asks of the service; HA leaves it alone.
wanted(mode) == CASE mode = "unset"       -> "False"
                  [] mode \in DrainModes  -> "True"
                  [] mode = "ha"          -> "Leave"

\* Mutation: a condition that was never set is taken for the wanted one.
needsCallOnChange == /\ pass.seen.registered
                     /\ pass.seen.report.disabled # "None"
                     /\ wanted(pass.seen.maintenance) \notin {"Leave", pass.seen.report.disabled}

\* A call is made only when the condition does not say so already.
needsCall == /\ pass.seen.registered
             /\ wanted(pass.seen.maintenance) \notin {"Leave", pass.seen.report.disabled}

reconcileComputeService ==
    /\ At("service")
    /\ service' = IF ~ needsCall
                  THEN service
                  ELSE IF pass.seen.maintenance = "unset"
                       THEN [enabled |-> TRUE, forcedDown |-> FALSE]
                       ELSE [service EXCEPT !.enabled = FALSE]
    /\ Goto("evict", IF pass.seen.registered /\ pass.seen.maintenance # "ha"
                     THEN [pass.out EXCEPT !.disabled = wanted(pass.seen.maintenance)]
                     ELSE pass.out)
    /\ UNCHANGED <<eviction, faults>>

reconcileComputeServiceError ==
    /\ At("service") /\ needsCall
    /\ Disturb("service_error")
    /\ Again(retain([pass.out EXCEPT !.disabled = "Unknown"]))
    /\ UNCHANGED <<service, eviction>>

-----------------------------------------------------------------------------
(* reconcileEviction.                                                      *)

Delete(then) == pass' = [pass EXCEPT !.pc = "delete", !.then = then]

\* Mutation: only a finished drain is cleaned up.
leaveMaintenanceLate ==
    /\ At("evict") /\ pass.seen.maintenance = "unset"
    /\ IF ~ pass.seen.report.evicted
       THEN Goto("apply", pass.out)
       ELSE Delete([pass.out EXCEPT !.evicted = FALSE])
    /\ UNCHANGED <<service, eviction, faults>>

\* Leaving maintenance: the Eviction goes, with the conditions about it.
\* Nothing to do when none of them is left.
leaveMaintenance ==
    /\ At("evict") /\ pass.seen.maintenance = "unset"
    /\ LET r == pass.seen.report
       IN  IF ~ r.evicted /\ r.evicting = "None" /\ r.settled = "None"
           THEN Goto("apply", pass.out)
           ELSE Delete([pass.out EXCEPT !.evicted = FALSE])
    /\ UNCHANGED <<service, eviction, faults>>

leaveToHA ==
    /\ At("evict") /\ pass.seen.maintenance = "ha"
    /\ Goto("apply", pass.out)
    /\ UNCHANGED <<service, eviction, faults>>

\* The drain starts anew; the report says so.
redrain(out) == [out EXCEPT !.evicted = FALSE, !.evicting = "Running"]

enterMaintenance ==
    /\ At("evict") /\ pass.seen.maintenance \in DrainModes
    /\ LET r == pass.seen.report
       IN  IF r.evicting # "Succeeded"
           THEN Goto("settle", pass.out)
           ELSE IF pass.seen.numInstances > 0
                THEN Delete([redrain(pass.out) EXCEPT !.settled = r.settled])
                ELSE IF r.evicted /\ r.settled = "Settled"
                     THEN Goto("apply", retain(pass.out))
                     ELSE Goto("settle", pass.out)
    /\ UNCHANGED <<service, eviction, faults>>

\* The controller also watches the Eviction it owns: its end is an event.
deleteEviction ==
    /\ pass.pc = "delete"
    /\ eviction' = Absent
    /\ queued' = (queued \/ eviction # Absent)
    /\ Goto("apply", pass.then)
    /\ UNCHANGED <<hv, service, vm, faults>>

deleteEvictionError ==
    /\ At("delete")
    /\ Disturb("delete_error")
    /\ Again(pass.out)
    /\ UNCHANGED <<service, eviction>>

-----------------------------------------------------------------------------
(* settleIncomingMigrations.                                               *)

unsettled(how) == [pass.out EXCEPT !.settled  = how, !.evicted = FALSE,
                                   !.evicting = pass.seen.report.evicting]

ListActiveIncomingMigrations ==
    /\ At("settle")
    /\ pass' = [pass EXCEPT !.pc = "abort",
                  !.active = [v \in VMs |-> IF v \in Incoming THEN vm[v] ELSE "none"]]
    /\ UNCHANGED <<service, eviction, faults>>

ListError ==
    /\ At("settle")
    /\ Disturb("list_error")
    /\ Again(unsettled("Unknown"))
    /\ UNCHANGED <<service, eviction>>

\* A migration past its abortable part answers 409, which is no error.
AbortMigration(v) ==
    /\ pass.pc = "abort" /\ pass.active[v] = "running"
    /\ vm' = IF vm[v] = "running" THEN [vm EXCEPT ![v] = "away"] ELSE vm
    /\ pass' = [pass EXCEPT !.active[v] = "aborted"]
    /\ UNCHANGED <<hv, service, eviction, queued, faults>>

AbortError(v) ==
    /\ At("abort") /\ pass.active[v] = "running"
    /\ Disturb("abort_error")
    /\ Again(unsettled("Unknown"))
    /\ UNCHANGED <<service, eviction>>

\* Mutation: nothing asks for the pass that would see the migrations end.
settleIncomingMigrationsOnce ==
    /\ At("abort") /\ \A v \in VMs : pass.active[v] # "running"
    /\ IF \E v \in VMs : pass.active[v] # "none"
       THEN Goto("apply", unsettled("Waiting"))
       ELSE IF pass.seen.report.evicting = "Succeeded"
            THEN Goto("apply", [pass.out EXCEPT !.settled = "Settled", !.evicting = "Succeeded"])
            ELSE Goto("ensure", [pass.out EXCEPT !.settled = "Settled"])
    /\ UNCHANGED <<service, eviction, faults>>

\* Mutation: a migration in its post phase counts as settled.
settleIncomingMigrationsEarly ==
    /\ At("abort") /\ \A v \in VMs : pass.active[v] # "running"
    /\ IF \E v \in VMs : pass.active[v] = "aborted"
       THEN Again(unsettled("Aborting"))
       ELSE Goto("ensure", [pass.out EXCEPT !.settled = "Settled"])
    /\ UNCHANGED <<service, eviction, faults>>

\* Waiting for what cannot be aborted, or for the aborts to take effect, the
\* pass is repeated; settled, an eviction already complete is kept.
settleIncomingMigrations ==
    /\ At("abort") /\ \A v \in VMs : pass.active[v] # "running"
    /\ IF \E v \in VMs : pass.active[v] = "post"
       THEN Again(unsettled("Waiting"))
       ELSE IF \E v \in VMs : pass.active[v] = "aborted"
            THEN Again(unsettled("Aborting"))
            ELSE IF pass.seen.report.evicting = "Succeeded"
                 THEN Goto("apply", [pass.out EXCEPT !.settled  = "Settled",
                                                     !.evicting = "Succeeded"])
                 ELSE Goto("ensure", [pass.out EXCEPT !.settled = "Settled"])
    /\ UNCHANGED <<service, eviction, faults>>

-----------------------------------------------------------------------------
(* ensureEviction.                                                         *)

ensureEviction ==
    /\ pass.pc = "ensure"
    /\ eviction' = IF eviction.state = "absent" THEN [Absent EXCEPT !.state = "new"] ELSE eviction
    /\ queued' = (queued \/ eviction' # eviction)
    /\ Goto("read", pass.out)
    /\ UNCHANGED <<hv, service, vm, faults>>

ensureEvictionError ==
    /\ At("ensure")
    /\ Disturb("create_error")
    /\ Again(pass.out)
    /\ UNCHANGED <<service, eviction>>

\* The Eviction is read back; a condition Evicting=False ends the drain
\* whatever its reason, unless instances are still reported.
readEviction ==
    /\ At("read") /\ eviction.state # "absent"
    /\ IF eviction.state \in {"succeeded", "failed"}
       THEN IF pass.seen.numInstances > 0
            THEN Delete(redrain(pass.out))
            ELSE Goto("apply", [pass.out EXCEPT !.evicted = TRUE, !.evicting = "Succeeded"])
       ELSE Goto("apply", [pass.out EXCEPT !.evicted = FALSE, !.evicting = "Running"])
    /\ UNCHANGED <<service, eviction, faults>>

\* Also the cached read of an Eviction that was created a moment ago.
readEvictionError ==
    /\ At("read")
    /\ Disturb("get_error")
    /\ Again(pass.out)
    /\ UNCHANGED <<service, eviction>>

-----------------------------------------------------------------------------
(* The end of the pass.                                                    *)

\* A status that changed is an event like any other.
applyStatus ==
    /\ pass.pc = "apply"
    /\ hv' = [hv EXCEPT !.report = pass.out]
    /\ queued' = (queued \/ pass.again \/ hv' # hv)
    /\ pass' = Idle
    /\ UNCHANGED <<service, eviction, vm, faults>>

applyStatusError ==
    /\ pass.pc = "apply"
    /\ Disturb("apply_error")
    /\ queued' = TRUE
    /\ pass' = Idle
    /\ UNCHANGED <<hv, service, eviction, vm>>

\* The operator restarts and lists every hypervisor.
Crash ==
    /\ pass.pc # "idle"
    /\ Disturb("crash")
    /\ pass' = Idle
    /\ queued' = TRUE
    /\ UNCHANGED <<hv, service, eviction, vm>>

PassSteps ==
    \/ (\E h \in {hv, prev} : Reconcile(h)) \/ reconcileComputeService
    \/ leaveMaintenance \/ leaveToHA \/ enterMaintenance \/ deleteEviction
    \/ ListActiveIncomingMigrations \/ (\E v \in VMs : AbortMigration(v))
    \/ settleIncomingMigrations \/ ensureEviction \/ readEviction \/ applyStatus

PassErrors ==
    \/ reconcileComputeServiceError \/ deleteEvictionError \/ ListError
    \/ (\E v \in VMs : AbortError(v)) \/ ensureEvictionError \/ readEvictionError
    \/ applyStatusError \/ Crash

-----------------------------------------------------------------------------
(* The eviction controller, by its promise.                                *)

Evicting(next) == /\ eviction' = next
                  /\ queued' = TRUE
                  /\ UNCHANGED <<hv, service, pass>>

evictionPreflight ==
    /\ eviction.state = "new"
    /\ hv.registered => hv.report.disabled = "True"
    /\ Evicting([state |-> "running", listed |-> Here])
    /\ UNCHANGED <<vm, faults>>

evictionMigrates ==
    /\ eviction.state = "running"
    /\ \E v \in eviction.listed \cap Here : vm' = [vm EXCEPT ![v] = "away"]
    /\ UNCHANGED <<hv, service, eviction, pass, queued, faults>>

evictionSucceeds ==
    /\ eviction.state = "running"
    /\ eviction.listed \cap Here = {}
    /\ Evicting([eviction EXCEPT !.state = "succeeded"])
    /\ UNCHANGED <<vm, faults>>

\* Nova, which removes no hypervisor with instances on it, has forgotten it.
evictionFails ==
    /\ eviction.state = "new" /\ Here = {}
    /\ hv.registered /\ hv.report.disabled = "True"
    /\ Disturb("eviction_fails")
    /\ Evicting([eviction EXCEPT !.state = "failed"])
    /\ UNCHANGED vm

-----------------------------------------------------------------------------
(* Users, Nova's scheduler and the node agent (external).                  *)

\* The validation rules of the CRD: termination may only turn into ha.
setMaintenance(mode) ==
    /\ mode # hv.maintenance
    /\ hv.maintenance = "termination" => mode = "ha"
    /\ Disturb("change_mode")
    /\ hv' = [hv EXCEPT !.maintenance = mode]
    /\ service' = IF mode = "ha" THEN [service EXCEPT !.forcedDown = TRUE] ELSE service
    /\ queued' = TRUE
    /\ UNCHANGED <<eviction, vm, pass>>

onboardingEnds ==
    /\ hv.onboarding
    /\ hv' = [hv EXCEPT !.onboarding = FALSE]
    /\ queued' = TRUE
    /\ UNCHANGED <<service, eviction, vm, pass, faults>>

\* The scheduler picks an enabled host: for a new instance, for a live
\* migration, or for a move that cannot be aborted (cold, evacuation).
novaSchedules(v) ==
    /\ service.enabled /\ vm[v] = "away"
    /\ Disturb("arrive")
    /\ \E place \in {"running", "post", "here"} : vm' = [vm EXCEPT ![v] = place]
    /\ UNCHANGED <<hv, service, eviction, pass, queued>>

novaMigrates(v) ==
    /\ v \in Incoming
    /\ vm' = [vm EXCEPT ![v] = IF vm[v] = "running" THEN "post" ELSE "here"]
    /\ UNCHANGED <<hv, service, eviction, pass, queued, faults>>

agentReports ==
    /\ hv.numInstances # Cardinality(Here)
    /\ hv' = [hv EXCEPT !.numInstances = Cardinality(Here)]
    /\ queued' = TRUE
    /\ UNCHANGED <<service, eviction, vm, pass, faults>>

Environment ==
    \/ evictionPreflight \/ evictionMigrates \/ evictionSucceeds \/ evictionFails
    \/ \E mode \in Modes : setMaintenance(mode)
    \/ onboardingEnds
    \/ \E v \in VMs : novaSchedules(v) \/ novaMigrates(v)
    \/ agentReports

\* A step, with the version of the Hypervisor it supersedes.
Versioned(A) == A /\ prev' = IF "stale_read" \in Faults /\ hv' # hv THEN hv ELSE prev

Next == Versioned(PassSteps) \/ Versioned(PassErrors) \/ Versioned(Environment)

Spec == Init /\ [][Next]_vars

\* The work queue serves what it holds, a pass runs to its end, the eviction
\* controller keeps its promise, migrations end, the agent reports and an
\* onboarding ends.  No wish and no failure is fair.
FairSpec == /\ Spec
            /\ WF_vars(Versioned(PassSteps))
            /\ WF_vars(Versioned(evictionPreflight))
            /\ WF_vars(Versioned(evictionMigrates))
            /\ WF_vars(Versioned(evictionSucceeds))
            /\ \A v \in VMs : WF_vars(Versioned(novaMigrates(v)))
            /\ WF_vars(Versioned(agentReports))
            /\ WF_vars(Versioned(onboardingEnds))

-----------------------------------------------------------------------------
(* Type invariant of the maintenance controller's state.                   *)
TypeOK == /\ hv \in Hypervisor /\ prev \in Hypervisor
          /\ service \in [enabled : BOOLEAN, forcedDown : BOOLEAN]
          /\ eviction \in [state : EvictionStates, listed : SUBSET VMs]
          /\ vm \in [VMs -> Place]
          /\ pass \in Pass
          /\ queued \in BOOLEAN
          /\ faults \in 0..MaxFaults

\* Nobody works on the hypervisor and nothing has changed since.
Quiet == pass.pc = "idle" /\ ~ queued

\* status.evicted: "no instances left with active maintenance mode".  Once
\* the controller has come to rest, a hypervisor reported as evicted is empty
\* and closed to the scheduler, with no migration on its way to it.
EvictedMeansEmpty ==
    Quiet /\ hv.maintenance \in DrainModes /\ hv.report.evicted /\ hv.registered
        => ~ service.enabled /\ Here = {} /\ Incoming = {}

\* reconcileEviction's gate: an Eviction is created only for a registered
\* host that is disabled and that no migration is heading for.
NoEvictionBeforeSettled ==
    [][ eviction.state = "absent" /\ eviction'.state = "new" /\ hv.registered
           => ~ service.enabled /\ Incoming = {} ]_vars

\* No wakeup is lost: at rest the service is reported as wished, and a drain
\* is either complete, with both conditions saying so, or there is an Eviction
\* somebody works on.  This holds through failing calls, restarts and HA.
RestIsEarned ==
    Quiet /\ ~ hv.onboarding =>
        /\ hv.registered /\ hv.maintenance # "ha" => hv.report.disabled = wanted(hv.maintenance)
        /\ hv.maintenance \in DrainModes =>
              \/ hv.report.evicted /\ hv.report.evicting = "Succeeded" /\ hv.report.settled = "Settled"
              \/ /\ ~ hv.report.evicted /\ hv.report.evicting = "Running"
                 /\ eviction.state \in {"new", "running"}

\* A wish for maintenance that stands is carried out: the hypervisor ends up
\* reported as evicted, through failures, restarts and late arrivals.
DrainCompletes ==
    hv.maintenance \in DrainModes ~> hv.maintenance \notin DrainModes \/ hv.report.evicted

\* Without maintenance the service is enabled in the end, however often the
\* wish changed in the middle of a pass.
ServiceComesBack ==
    hv.maintenance = "unset" /\ hv.registered
        ~> hv.maintenance # "unset" \/ service.enabled

\* Without maintenance the Eviction is gone in the end, with or without having
\* been finished.
EvictionIsCleanedUp ==
    hv.maintenance = "unset" ~> hv.maintenance # "unset" \/ eviction.state = "absent"

=============================================================================
