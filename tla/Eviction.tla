------------------------------ MODULE Eviction ------------------------------
(***************************************************************************)
(* The eviction controller (internal/controller/eviction): it drains one   *)
(* hypervisor, "src", by migrating the instances listed in the status of   *)
(* an Eviction resource.  One reconcile is a PASS: it reads the resource,  *)
(* talks to Nova one call at a time, and writes its working copy of the    *)
(* status back at the end.  Between any two of these steps Nova, the users *)
(* of the cloud and the maintenance controller may act.  The work queue    *)
(* runs at most one pass per Eviction at a time.                           *)
(***************************************************************************)
EXTENDS Integers, Sequences, FiniteSets, SequencesExt

CONSTANTS
    Instances,            \* the instances (VMs) that may ever live on src
    EvictionConcurrency,  \* --eviction-concurrency
    TraitConcurrency,     \* --eviction-trait-concurrency: [traits -> limits]
    HvTraits,             \* the traits in the hypervisor's status
    InitStatuses,         \* the statuses the instances start with
    Faults,               \* the kinds of disturbance this instance allows
    MaxFaults             \* BOUND: how many disturbances may happen

FaultKinds == {"get_error", "api_error", "save_error", "crash",
               "migration_fails", "post_migration_error", "user_delete",
               "power_toggle", "place", "leave", "vanish",
               "recreate_in_pass"}

ASSUME ConstantsAssumption ==
    /\ IsFiniteSet(Instances)
    /\ EvictionConcurrency \in Nat
    /\ \A t \in DOMAIN TraitConcurrency : TraitConcurrency[t] \in Nat
    /\ InitStatuses \subseteq {"ACTIVE", "SHUTOFF", "RESCUE", "UNBORN"}
    /\ Faults \subseteq FaultKinds
    /\ MaxFaults \in Nat

VARIABLES
    nova,    \* [Instances -> VM]: what Nova knows of each instance
    hv,      \* the Hypervisor resource and the service behind it
    present, \* does the Eviction resource exist?
    ev,      \* its status
    pass,    \* the reconcile in progress, if any
    leaving, \* maintenance has ended, the Eviction is about to be deleted
    faults   \* disturbances so far

vars == <<nova, hv, present, ev, pass, leaving, faults>>

-----------------------------------------------------------------------------
(* Nova's view of an instance.  An instance is UNBORN until Nova places    *)
(* it, and a deleted one is answered with 404.                             *)

Statuses == {"ACTIVE", "SHUTOFF", "RESCUE", "MIGRATING", "RESIZE",
             "VERIFY_RESIZE", "ERROR", "DELETED", "UNBORN"}
Tasks == {"none", "migrating", "resize_prep", "deleting"}
VM == [status : Statuses, task : Tasks, host : {"src", "dst"}]

Gone == [status |-> "DELETED", task |-> "none", host |-> "src"]
Exists(i) == nova[i].status \notin {"DELETED", "UNBORN"}
OnSrc == {i \in Instances : Exists(i) /\ nova[i].host = "src"}

\* Mutation: only the status is looked at, never the task state.
isMigrationTaskStateIgnored(task) == FALSE

\* The task states that mean a migration is already under way.
isMigrationTaskState(task) == task \in {"migrating", "resize_prep"}

\* PowerState = 1 is libvirt's "running"; a rescued instance runs as well.
PowerState(vm) == IF vm.status \in {"ACTIVE", "RESCUE", "MIGRATING"} THEN 1 ELSE 4

\* The instances Nova is moving.
InFlight == {i \in Instances : \/ nova[i].status \in {"MIGRATING", "RESIZE"}
                               \/ nova[i].task \in {"migrating", "resize_prep"}}

-----------------------------------------------------------------------------
(* The status of the Eviction.  A condition that was never set is "None";  *)
(* for the others the reason tells the values apart.                       *)

EvStatus == [evicting    : {"None", "Running", "Succeeded", "Failed"},
             preflight   : {"None", "False", "True"},
             migration   : {"None", "Failed", "Succeeded"},
             outstanding : Seq(Instances)]

NoStatus == [evicting |-> "None", preflight |-> "None", migration |-> "None",
             outstanding |-> <<>>]

\* Mutation: the shortened slice is computed and dropped.
removeInstanceDiscarded(instances, uuid) == instances

\* The list without the first occurrence of uuid.
removeInstance(instances, uuid) == RemoveFirst(instances, uuid)

\* Mutation: the instance is taken out and not put back.
deprioritizeDrops(instances, uuid) == RemoveFirst(instances, uuid)

\* The list with uuid moved to index 0.
deprioritize(instances, uuid) ==
    IF uuid \in ToSet(instances)
    THEN Cons(uuid, RemoveFirst(instances, uuid))
    ELSE instances

\* Mutation: the failure sticks after the last instance is gone.
setMigrationSucceededNever(st) ==
    IF st.migration = "Failed" THEN st ELSE [st EXCEPT !.migration = "Succeeded"]

\* Mutation: any success clears the failure.
setMigrationSucceededAlways(st) == [st EXCEPT !.migration = "Succeeded"]

\* Records a success, unless an earlier failure is still outstanding.
setMigrationSucceeded(st) ==
    IF st.migration = "Failed" /\ st.outstanding # <<>>
    THEN st
    ELSE [st EXCEPT !.migration = "Succeeded"]

\* An instance that left the host or is gone is struck off the list.
strike(st, uuid) ==
    setMigrationSucceeded(
        [st EXCEPT !.outstanding = removeInstance(st.outstanding, uuid)])

\* An instance in ERROR or being deleted: moved to index 0, failure recorded.
setBack(st, uuid) ==
    [st EXCEPT !.outstanding = deprioritize(st.outstanding, uuid),
               !.migration   = "Failed"]

migrationFailed(st) == [st EXCEPT !.migration = "Failed"]

\* The write-back: each condition of the working copy replaces the stored
\* one, a condition it lacks is left alone, the list is overwritten.
merge(fresh, desired) ==
    LET pick(d, f) == IF d = "None" THEN f ELSE d
    IN  [evicting    |-> pick(desired.evicting, fresh.evicting),
         preflight   |-> pick(desired.preflight, fresh.preflight),
         migration   |-> pick(desired.migration, fresh.migration),
         outstanding |-> desired.outstanding]

-----------------------------------------------------------------------------
(* The concurrency limit.                                                  *)

ResolveConcurrency(traits) ==
    LET matching == {TraitConcurrency[t] : t \in traits \cap DOMAIN TraitConcurrency}
        lowest   == Min({EvictionConcurrency} \cup matching)
    IN  IF lowest < 1 THEN 1 ELSE lowest

\* evictNext clamps once more.
Limit == IF ResolveConcurrency(HvTraits) < 1 THEN 1 ELSE ResolveConcurrency(HvTraits)

-----------------------------------------------------------------------------
(* A pass.  "queue" is the part of the snapshot not scanned yet, "cands"   *)
(* the instances to migrate with the mode decided when they were scanned.  *)

Candidate == [id : Instances, live : BOOLEAN]

Pass == [pc       : {"idle", "preflight", "scan", "confirm", "start", "save"},
         st       : EvStatus,
         queue    : Seq(Instances),
         cands    : Seq(Candidate),
         inFlight : Nat,
         started  : Nat]

Idle == [pc |-> "idle", st |-> NoStatus, queue |-> <<>>, cands |-> <<>>,
         inFlight |-> 0, started |-> 0]

Saving(st) == [Idle EXCEPT !.pc = "save", !.st = st]

Disturb(kind) == /\ kind \in Faults
                 /\ faults < MaxFaults
                 /\ faults' = faults + 1

Init == /\ \E s \in [Instances -> InitStatuses] :
              nova = [i \in Instances |-> [status |-> s[i], task |-> "none", host |-> "src"]]
        /\ hv \in [registered : BOOLEAN, disabled : {FALSE}, known : BOOLEAN]
        /\ ~ hv.known => OnSrc = {}
        /\ present = FALSE
        /\ ev = NoStatus
        /\ pass = Idle
        /\ leaving = FALSE
        /\ faults = 0

-----------------------------------------------------------------------------
(* Reconcile, up to its first call to Nova.                                *)

Begin(next) == /\ present
               /\ pass.pc = "idle"
               /\ pass' = next
               /\ UNCHANGED <<nova, hv, present, ev, leaving, faults>>

\* A fresh Eviction is marked as running.
Start == /\ ev.evicting = "None"
         /\ Begin(Saving([ev EXCEPT !.evicting = "Running"]))

\* handlePreflight: a registered hypervisor must be disabled first.  Once
\* the failing condition is recorded the pass only polls.
PreflightBlocked ==
    /\ ev.evicting = "Running"
    /\ ev.preflight = "None"
    /\ hv.registered /\ ~ hv.disabled
    /\ Begin(Saving([ev EXCEPT !.preflight = "False"]))

\* Mutation: the list is taken before the hypervisor is disabled.
PreflightBeginUnguarded ==
    /\ ev.evicting = "Running"
    /\ ev.preflight # "True"
    /\ Begin([Idle EXCEPT !.pc = "preflight", !.st = ev])

PreflightBegin ==
    /\ ev.evicting = "Running"
    /\ ev.preflight # "True"
    /\ hv.registered => hv.disabled
    /\ Begin([Idle EXCEPT !.pc = "preflight", !.st = ev])

EvictNextBegin ==
    /\ ev.evicting = "Running"
    /\ ev.preflight = "True"
    /\ ev.outstanding # <<>>
    /\ Begin([Idle EXCEPT !.pc = "scan", !.st = ev, !.queue = ev.outstanding])

Succeed ==
    /\ ev.evicting = "Running"
    /\ ev.preflight = "True"
    /\ ev.outstanding = <<>>
    /\ Begin(Saving([ev EXCEPT !.evicting = "Succeeded"]))

-----------------------------------------------------------------------------
(* The calls of a pass, one per step.                                      *)

InPass(pc) == pass.pc = pc /\ UNCHANGED <<hv, present, ev, leaving>>

\* Nova lists the servers of the hypervisor once each, in any order.
ServerLists == {list \in [1..Cardinality(OnSrc) -> OnSrc] : ToSet(list) = OnSrc}

\* GET of the hypervisor with its servers.  The list is left out of the answer
\* when there are none.
PreflightList ==
    /\ InPass("preflight")
    /\ hv.known
    /\ \E list \in ServerLists :
          pass' = Saving([pass.st EXCEPT
                     !.outstanding = IF list = <<>> THEN pass.st.outstanding ELSE list,
                     !.preflight   = "True"])
    /\ UNCHANGED <<nova, faults>>

\* 404: the hypervisor vanished, or it never registered at all.
PreflightNotFound ==
    /\ InPass("preflight")
    /\ ~ hv.known
    /\ pass' = Saving([pass.st EXCEPT
                  !.evicting = IF hv.registered THEN "Failed" ELSE "Succeeded"])
    /\ UNCHANGED <<nova, faults>>

PreflightError ==
    /\ InPass("preflight")
    /\ Disturb("api_error")
    /\ pass' = Idle
    /\ UNCHANGED nova

Scanning == /\ InPass("scan")
            /\ pass.queue # <<>>
            /\ pass.inFlight < Limit

\* Mutation: an instance with a recorded failure holds a slot.
ScannedFailureBusy(st, busy) ==
    [pass EXCEPT !.st = st, !.queue = Tail(pass.queue), !.pc = "scan",
                 !.inFlight = @ + IF st.migration = "Failed" THEN 1 ELSE busy]

\* Mutation: slots are counted down.
ScannedCountsDown(st, busy) == [pass EXCEPT !.st = st, !.queue = Tail(pass.queue),
                                            !.inFlight = @ - busy, !.pc = "scan"]

\* The scan goes on with the next instance of the snapshot.
Scanned(st, busy) == [pass EXCEPT !.st = st, !.queue = Tail(pass.queue),
                                !.inFlight = @ + busy, !.pc = "scan"]

\* GET of the instance at the head of the queue and what evictNext makes of
\* the answer; the order of the tests is the order in the code.
ScanInstance ==
    /\ Scanning
    /\ LET i  == Head(pass.queue)
           vm == nova[i]
           st == pass.st
       IN  \/ /\ ~ Exists(i)
              /\ pass' = Scanned(strike(st, i), 0)
           \/ /\ vm.status \in {"MIGRATING", "RESIZE"}
              /\ pass' = Scanned(st, 1)
           \/ /\ vm.status = "ERROR"
              /\ pass' = Scanned(setBack(st, i), 0)
           \/ /\ vm.status \in {"ACTIVE", "SHUTOFF", "RESCUE", "VERIFY_RESIZE"}
              /\ \/ /\ isMigrationTaskState(vm.task)
                    /\ pass' = Scanned(st, 1)
                 \/ /\ ~ isMigrationTaskState(vm.task)
                    /\ vm.host # "src"
                    /\ pass' = IF vm.status = "VERIFY_RESIZE"
                               THEN [pass EXCEPT !.pc = "confirm"]
                               ELSE Scanned(strike(st, i), 0)
                 \/ /\ vm.host = "src"
                    /\ vm.task = "deleting"
                    /\ pass' = Scanned(setBack(st, i), 1)
                 \/ /\ ~ isMigrationTaskState(vm.task)
                    /\ vm.host = "src"
                    /\ vm.task # "deleting"
                    /\ pass' = [Scanned(st, 0) EXCEPT !.cands = Append(@,
                          [id |-> i, live |-> vm.status = "ACTIVE" \/ PowerState(vm) = 1])]
    /\ UNCHANGED <<nova, faults>>

\* A Get that fails for another reason leaves the instance queued.
ScanError ==
    /\ Scanning
    /\ Disturb("get_error")
    /\ pass' = Scanned(pass.st, 0)
    /\ UNCHANGED nova

ScanEnd ==
    /\ InPass("scan")
    /\ pass.queue = <<>> \/ pass.inFlight >= Limit
    /\ pass' = [pass EXCEPT !.pc = "start", !.queue = <<>>]
    /\ UNCHANGED <<nova, faults>>

\* Mutation: the instance is only counted.
ConfirmResizeForgotten ==
    /\ InPass("confirm")
    /\ pass' = Scanned(pass.st, 1)
    /\ UNCHANGED <<nova, faults>>

\* ConfirmResize; accepted, refused or gone, the instance counts as busy.
ConfirmResize ==
    /\ InPass("confirm")
    /\ LET i == Head(pass.queue)
       IN  IF Exists(i)
           THEN /\ pass' = Scanned(pass.st, 1)
                /\ nova' = IF nova[i].status = "VERIFY_RESIZE" /\ nova[i].task = "none"
                           THEN [nova EXCEPT ![i].status = "SHUTOFF"]
                           ELSE nova
           ELSE /\ pass' = Scanned(strike(pass.st, i), 1)
                /\ UNCHANGED nova
    /\ UNCHANGED faults

ConfirmError ==
    /\ InPass("confirm")
    /\ Disturb("api_error")
    /\ pass' = Scanned(pass.st, 1)
    /\ UNCHANGED nova

Starting == /\ InPass("start")
            /\ pass.cands # <<>>
            /\ pass.inFlight + pass.started < Limit

\* Nova takes an order only in these statuses, 409 otherwise.
Accepts(i, live) == /\ nova[i].task = "none"
                    /\ nova[i].status \in IF live THEN {"ACTIVE"} ELSE {"ACTIVE", "SHUTOFF"}

\* liveMigrate or coldMigrate of the next candidate.
Migrate ==
    /\ Starting
    /\ LET c == Head(pass.cands)
       IN  \/ /\ Accepts(c.id, c.live)
              /\ nova' = [nova EXCEPT ![c.id].task = IF c.live THEN "migrating" ELSE "resize_prep"]
              /\ pass' = [pass EXCEPT !.cands = Tail(@), !.started = @ + 1]
           \/ /\ ~ Exists(c.id)
              /\ pass' = [pass EXCEPT !.cands = Tail(@), !.st = strike(migrationFailed(@), c.id)]
              /\ UNCHANGED nova
           \/ /\ Exists(c.id) /\ ~ Accepts(c.id, c.live)
              /\ pass' = [pass EXCEPT !.cands = Tail(@), !.st = migrationFailed(@)]
              /\ UNCHANGED nova
    /\ UNCHANGED faults

MigrateError ==
    /\ Starting
    /\ Disturb("api_error")
    /\ pass' = [pass EXCEPT !.cands = Tail(@), !.st = migrationFailed(@)]
    /\ UNCHANGED nova

StartEnd ==
    /\ InPass("start")
    /\ pass.cands = <<>> \/ pass.inFlight + pass.started >= Limit
    /\ pass' = Saving(pass.st)
    /\ UNCHANGED <<nova, faults>>

\* updateStatus: the fresh resource of that NAME takes the working copy; no
\* resource, no write.
updateStatus ==
    /\ pass.pc = "save"
    /\ ev' = IF present THEN merge(ev, pass.st) ELSE ev
    /\ pass' = Idle
    /\ UNCHANGED <<nova, hv, present, leaving, faults>>

updateStatusError ==
    /\ InPass("save")
    /\ Disturb("save_error")
    /\ pass' = Idle
    /\ UNCHANGED nova

\* The operator restarts: the working copy is lost wherever the pass was.
Crash ==
    /\ pass.pc # "idle"
    /\ Disturb("crash")
    /\ pass' = Idle
    /\ UNCHANGED <<nova, hv, present, ev, leaving>>

Controller ==
    \/ Start \/ PreflightBlocked \/ PreflightBegin \/ EvictNextBegin \/ Succeed
    \/ PreflightList \/ PreflightNotFound \/ PreflightError
    \/ ScanInstance \/ ScanError \/ ScanEnd
    \/ ConfirmResize \/ ConfirmError
    \/ Migrate \/ MigrateError \/ StartEnd
    \/ updateStatus \/ updateStatusError \/ Crash

-----------------------------------------------------------------------------
(* Nova and its users (external).                                          *)

Become(i, status, task, host) ==
    /\ nova' = [nova EXCEPT ![i] = [status |-> status, task |-> task, host |-> host]]
    /\ UNCHANGED <<hv, present, ev, pass, leaving>>

\* The order reaches the source host.
NovaTakesUp(i) ==
    /\ nova[i].status \in {"ACTIVE", "SHUTOFF"}
    /\ isMigrationTaskState(nova[i].task)
    /\ Become(i, IF nova[i].task = "migrating" THEN "MIGRATING" ELSE "RESIZE",
              nova[i].task, nova[i].host)
    /\ UNCHANGED faults

NovaCompletes(i) ==
    /\ nova[i].status \in {"MIGRATING", "RESIZE"}
    /\ Become(i, IF nova[i].status = "MIGRATING" THEN "ACTIVE" ELSE "VERIFY_RESIZE",
              "none", "dst")
    /\ UNCHANGED faults

\* Rolled back, or stuck in ERROR, where it was.
NovaFails(i) ==
    /\ nova[i].status \in {"MIGRATING", "RESIZE"}
    /\ Disturb("migration_fails")
    /\ \E s \in {IF nova[i].status = "MIGRATING" THEN "ACTIVE" ELSE "SHUTOFF", "ERROR"} :
          Become(i, s, "none", nova[i].host)

\* The instance has moved, the work after the move failed.
NovaFailsAfterMove(i) ==
    /\ nova[i].status = "MIGRATING"
    /\ Disturb("post_migration_error")
    /\ Become(i, "ERROR", "none", "dst")

UserDeletes(i) ==
    /\ Exists(i) /\ i \notin InFlight /\ nova[i].task = "none"
    /\ Disturb("user_delete")
    /\ Become(i, nova[i].status, "deleting", nova[i].host)

NovaDeletes(i) ==
    /\ nova[i].task = "deleting"
    /\ nova' = [nova EXCEPT ![i] = Gone]
    /\ UNCHANGED <<hv, present, ev, pass, leaving, faults>>

\* Started, stopped, unrescued or repaired by someone else.
UserToggles(i) ==
    /\ nova[i].status \in {"ACTIVE", "SHUTOFF", "RESCUE", "ERROR"} /\ nova[i].task = "none"
    /\ Disturb("power_toggle")
    /\ Become(i, IF nova[i].status = "ACTIVE" THEN "SHUTOFF" ELSE "ACTIVE", "none", nova[i].host)

\* The scheduler places instances on enabled hosts only.
NovaPlaces(i) ==
    /\ nova[i].status = "UNBORN"
    /\ hv.known /\ ~ hv.disabled
    /\ Disturb("place")
    /\ Become(i, "ACTIVE", "none", "src")

\* The compute service is removed; Nova refuses while it has instances.
HypervisorVanishes ==
    /\ hv.known /\ OnSrc = {}
    /\ Disturb("vanish")
    /\ hv' = [hv EXCEPT !.known = FALSE]
    /\ UNCHANGED <<nova, present, ev, pass, leaving>>

Nova == \/ \E i \in Instances : \/ NovaTakesUp(i) \/ NovaCompletes(i) \/ NovaFails(i)
                                \/ NovaFailsAfterMove(i) \/ UserDeletes(i) \/ NovaDeletes(i)
                                \/ UserToggles(i) \/ NovaPlaces(i)
        \/ HypervisorVanishes

-----------------------------------------------------------------------------
(* The maintenance controller as this one sees it; it has a module of its  *)
(* own.  It disables the service of a registered hypervisor before an      *)
(* Eviction passes its preflight, and enables it before deleting one.      *)

MaintenanceDisables ==
    /\ hv.registered /\ ~ hv.disabled
    /\ ~ leaving
    /\ hv' = [hv EXCEPT !.disabled = TRUE]
    /\ UNCHANGED <<nova, present, ev, pass, leaving, faults>>

MaintenanceCreates ==
    /\ ~ present /\ ~ leaving
    /\ pass.pc = "idle" \/ "recreate_in_pass" \in Faults
    /\ present' = TRUE
    /\ UNCHANGED <<nova, hv, ev, pass, leaving, faults>>

MaintenanceEnables ==
    /\ present /\ ~ leaving
    /\ Disturb("leave")
    /\ leaving' = TRUE
    /\ hv' = [hv EXCEPT !.disabled = FALSE]
    /\ UNCHANGED <<nova, present, ev, pass>>

MaintenanceDeletes ==
    /\ leaving
    /\ leaving' = FALSE
    /\ present' = FALSE
    /\ ev' = NoStatus
    /\ UNCHANGED <<nova, hv, pass, faults>>

Maintenance == \/ MaintenanceDisables \/ MaintenanceCreates
               \/ MaintenanceEnables \/ MaintenanceDeletes

Next == Controller \/ Nova \/ Maintenance

Spec == Init /\ [][Next]_vars

(***************************************************************************)
(* Fairness: the work queue retries and requeues a pass that is not done,  *)
(* a pass runs to its end, Nova works on what it accepted, and the         *)
(* maintenance controller acts on what it sees.  Nothing a user does and   *)
(* no failure is fair.  Nova's deletions are: an instance that hangs in    *)
(* "deleting" for good is outside of what is promised here.                *)
(***************************************************************************)
PassSteps == \/ Start \/ PreflightBlocked \/ PreflightBegin \/ EvictNextBegin \/ Succeed
             \/ PreflightList \/ PreflightNotFound \/ ScanInstance \/ ScanEnd
             \/ ConfirmResize \/ Migrate \/ StartEnd \/ updateStatus

FairSpec == /\ Spec
            /\ WF_vars(PassSteps)
            /\ \A i \in Instances :
                  WF_vars(NovaTakesUp(i)) /\ WF_vars(NovaCompletes(i)) /\ WF_vars(NovaDeletes(i))
            /\ WF_vars(MaintenanceDisables)
            /\ WF_vars(MaintenanceDeletes)

-----------------------------------------------------------------------------
(* Type invariant of the eviction controller's state.                      *)
TypeOK == /\ nova \in [Instances -> VM]
          /\ hv \in [registered : BOOLEAN, disabled : BOOLEAN, known : BOOLEAN]
          /\ present \in BOOLEAN
          /\ ev \in EvStatus
          /\ pass \in Pass
          /\ pass.pc = "confirm" => pass.queue # <<>>
          /\ leaving \in BOOLEAN
          /\ faults \in 0..MaxFaults

\* An Eviction that reports success on a disabled hypervisor has emptied it:
\* Reconcile's only road to Succeeded is an empty list after a preflight, or
\* a hypervisor Nova never knew.
SucceededMeansEmpty ==
    present /\ ev.evicting = "Succeeded" /\ hv.disabled => OnSrc = {}

\* evictNext keeps the migrations in flight within the default limit and that
\* of each trait of the host, over passes, restarts and re-created Evictions.
\* One at a time is always allowed: a limit of zero must not stall a drain.
ConcurrencyLimit ==
    Cardinality(InFlight) > 1 =>
        /\ Cardinality(InFlight) <= EvictionConcurrency
        /\ \A t \in HvTraits \cap DOMAIN TraitConcurrency :
              Cardinality(InFlight) <= TraitConcurrency[t]

\* setMigrationSucceeded: a recorded failure stands for an instance that is
\* still outstanding, so a finished Eviction never carries one.
FailureIsOutstanding ==
    present /\ ev.migration = "Failed" => ev.outstanding # <<>> /\ ev.evicting # "Succeeded"

\* A recorded failure is cleared only together with the last instance.
FailureIsSticky ==
    [][ present /\ present' /\ ev.migration = "Failed" /\ ev'.migration # "Failed"
           => ev'.outstanding = <<>> ]_vars

-----------------------------------------------------------------------------
(* The eviction controller implements the abstract drain.                  *)

phase == CASE ~ present                  -> "absent"
           [] present /\ ev.evicting = "Succeeded" -> "done"
           [] present /\ ev.evicting = "Failed"    -> "failed"
           [] present /\ ev.evicting \in {"None", "Running"} ->
                 IF ev.preflight = "True" THEN "draining" ELSE "pending"

Abstract == INSTANCE Drain WITH phase     <- phase,
                                remaining <- ToSet(ev.outstanding),
                                onHost    <- OnSrc,
                                closed    <- hv.disabled

\* Each step of a pass, of Nova and of the maintenance controller is a step
\* of the abstract drain or none: updateStatus strikes off only instances
\* that left, and a host re-opened meanwhile is never reported as drained.
ImplementsDrain == Abstract!DrainSpec

-----------------------------------------------------------------------------
(* The inductive invariant behind SucceededMeansEmpty.                     *)

\* A status, stored or being worked on, that is safe for a disabled host with
\* the instances S on it.
SafeStatus(st, S) == /\ st.preflight = "True" => S \subseteq ToSet(st.outstanding)
                     /\ st.evicting = "Succeeded" => S = {}

\* A status that claims nothing about the host yet.
Claimless(st) == st.preflight # "True" /\ st.evicting \in {"None", "Running"}

\* The stored status and a pass's working copy never miss an instance of a
\* disabled host; a host that may still be disabled has no claim made on it;
\* the working copy is never behind the status it will overwrite.
IndInv ==
    /\ TypeOK
    /\ hv.disabled => hv.registered /\ ~ leaving
    /\ ~ present => ev = NoStatus /\ ~ leaving
    /\ ~ hv.known => OnSrc = {}
    /\ pass.pc = "idle" => pass.st = NoStatus
    /\ present /\ hv.disabled => SafeStatus(ev, OnSrc) /\ SafeStatus(pass.st, OnSrc)
    /\ present /\ hv.registered /\ ~ hv.disabled /\ ~ leaving =>
          Claimless(ev) /\ Claimless(pass.st) /\ pass.pc \in {"idle", "save"}
    /\ present /\ pass.pc # "idle" =>
          /\ ev.evicting \in {"None", "Running"}
          /\ pass.st.evicting # "None"
          /\ ev.preflight = "True" => pass.st.preflight = "True"

-----------------------------------------------------------------------------
(* Progress.                                                               *)

\* An instance that no eviction can move: ERROR waits for an operator, and
\* Nova refuses to migrate a rescued one.
Stuck(i) == nova[i].status \in {"ERROR", "RESCUE"}

\* A started eviction ends, fails or is withdrawn, unless an instance needs
\* manual intervention: the passes make progress under retries and restarts.
EvictionTerminates ==
    present ~> \/ ~ present
               \/ ev.evicting \in {"Succeeded", "Failed"}
               \/ \E i \in Instances : Stuck(i)

\* "Deprioritize and record the failure, but don't hold a slot": what cannot be
\* moved holds up nobody else, even where the limit leaves a single slot.
OthersLeave ==
    \A i \in Instances :
        present /\ ev.preflight = "True" /\ i \in OnSrc ~>
            \/ i \notin OnSrc \/ Stuck(i)
            \/ ~ present \/ ev.evicting \in {"Succeeded", "Failed"}

\* A cold migration the eviction started is confirmed, never left for Nova's
\* timeout, as long as the Eviction lives.
ResizeIsConfirmed ==
    \A i \in Instances :
        present /\ nova[i].status = "VERIFY_RESIZE" /\ i \in ToSet(ev.outstanding)
            ~> nova[i].status # "VERIFY_RESIZE" \/ leaving \/ ~ present

=============================================================================
