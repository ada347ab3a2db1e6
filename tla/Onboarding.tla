----------------------------- MODULE Onboarding -----------------------------
(***************************************************************************)
(* How a host joins: the onboarding controller tests it in isolation and   *)
(* hands it over, the aggregates and the traits controller bring Nova and  *)
(* Placement in line with the spec (onboarding_controller.go,              *)
(* aggregates_controller.go, traits_controller.go and openstack/).  All    *)
(* three watch the Hypervisor, run one pass at a time over a snapshot of   *)
(* it, taken from an informer that may lag, and write fields of their own, *)
(* whatever the version by then; every call of a pass is a step.           *)
(*                                                                         *)
(* The test aggregate keeps customers' instances away from the host while  *)
(* it is tested, the aggregates of the spec keep away those it is not      *)
(* meant for; the aggregate of its zone restricts nothing.                 *)
(***************************************************************************)
EXTENDS Integers, FiniteSets

CONSTANTS
    Specs,     \* the values of spec.aggregates that occur
    Traits,    \* the custom traits that occur
    SkipTests, \* spec.skipTests
    Faults,    \* the kinds of disturbance this instance allows
    MaxFaults  \* BOUND: how many disturbances may happen

FaultKinds == {"compute_error", "cleanup_error", "smoke_error", "apply_error",
               "list_error", "add_error", "remove_error", "patch_error",
               "traits_error", "crash", "server_fails", "timeout", "stray",
               "change_aggregates", "change_traits", "lifecycle_off", "terminate",
               "sweep_error", "neighbour", "stale_read"}

Zone == "zone"
Test == "tenant_filter_tests"
TestAggregates == {Zone, Test}
Aggregates == TestAggregates \cup UNION Specs

ASSUME ConstantsAssumption == /\ IsFiniteSet(Specs) /\ Specs # {}
                              /\ \A s \in Specs : Test \notin s
                              /\ SkipTests \in BOOLEAN
                              /\ Faults \subseteq FaultKinds
                              /\ MaxFaults \in Nat

VARIABLES
    hv,      \* the Hypervisor resource
    prev,    \* its version before that, kept where it may be read
    nova,    \* Nova and Placement, as far as this host goes
    queue,   \* which controllers have something to do
    on,      \* the pass of the onboarding controller
    agg,     \* the pass of the aggregates controller
    tr,      \* the pass of the traits controller
    faults

vars == <<hv, prev, nova, queue, on, agg, tr, faults>>

\* The Onboarding condition: Status True except for the last three.
Stuck == "AbortedUnclean"
Phases == {"None", "Initial", "Testing", "Handover", Stuck,
           "Succeeded", "AbortedByLifecycle", "AbortedByTermination"}
Over == {"Succeeded", "AbortedByLifecycle", "AbortedByTermination"}

Reasons == {"None", "Failed", "TestAggregates", "WaitingForTraits", "Terminating",
            "EvictionInProgress", "Succeeded"}

Hypervisor ==
    [lifecycle : BOOLEAN, terminating : BOOLEAN, specAggregates : Specs, customTraits : SUBSET Traits,
     ids : BOOLEAN, onboarding : Phases, aggregates : SUBSET Aggregates,
     aggregatesUpdated : Reasons, traits : SUBSET Traits, traitsUpdated : {"None", "False", "True"},
     evicted : BOOLEAN, ha : BOOLEAN]

\* ha: HaEnabled, or spec.highAvailability off; evicted: Evicting is False.
\* The test server goes by its name; strays carry an older node's.
Servers == {"none", "BUILD", "ACTIVE", "BOOTED", "ERROR"}

\* The instances boot volumes are named after: the test server, that of
\* another host in the same project, and one that is no more.
Instances == {"mine", "other", "gone"}

\* volumes: those not attached to their instance.
Nova == [registered : BOOLEAN, enabled : BOOLEAN, aggregates : SUBSET Aggregates,
         traits : SUBSET Traits, server : Servers, stray : BOOLEAN,
         neighbour : {"none", "BUILD", "ACTIVE"}, volumes : SUBSET Instances]

IdleOn == [pc |-> "idle", out |-> "None", known |-> {}]
IdleAgg == [pc |-> "idle", want |-> {}, reason |-> "None", todo |-> {}, failed |-> FALSE,
            changed |-> FALSE]
IdleTr == [pc |-> "idle", want |-> {}, out |-> {}, ok |-> TRUE]

Init ==
    /\ hv \in [lifecycle : {TRUE}, terminating : {FALSE}, specAggregates : Specs,
               customTraits : {Traits}, ids : {FALSE}, onboarding : {"None"},
               aggregates : {{}}, aggregatesUpdated : {"None"}, traits : {{}},
               traitsUpdated : {"None"}, evicted : {FALSE}, ha : BOOLEAN]
    /\ prev = hv
    /\ nova = [registered |-> FALSE, enabled |-> FALSE, aggregates |-> {}, traits |-> {},
               server |-> "none", stray |-> FALSE, neighbour |-> "none", volumes |-> {}]
    /\ queue = [on |-> TRUE, agg |-> TRUE, tr |-> TRUE]
    /\ on = IdleOn /\ agg = IdleAgg /\ tr = IdleTr
    /\ faults = 0

Disturb(kind) == /\ kind \in Faults
                 /\ faults < MaxFaults
                 /\ faults' = faults + 1

\* The informer has the last version, or not yet; its event is then to come.
Snapshot(h) == \/ h = hv /\ UNCHANGED faults
               \/ h # hv /\ Disturb("stale_read")

\* The aggregates controller only hears of hypervisors under lifecycle management.
Event(new, q) ==
    IF new = hv THEN q ELSE [on |-> TRUE, agg |-> q.agg \/ new.lifecycle, tr |-> TRUE]

HvBecomes(new) == hv' = new /\ queue' = Event(new, queue)

-----------------------------------------------------------------------------
(* The onboarding controller.                                              *)

OnStep == UNCHANGED <<agg, tr>>

\* How a step of a pass ends: with the next one, with a report to apply, or
\* with an error or a wish to be called again.
Go(pc, out) == on' = [IdleOn EXCEPT !.pc = pc, !.out = out] /\ UNCHANGED queue
Apply(out) == Go("apply", out)
Retry == on' = IdleOn /\ queue' = [queue EXCEPT !.on = TRUE]

\* A pass takes the key off the queue; the rest of its first step.
Take(h, pc, out) == /\ on' = [IdleOn EXCEPT !.pc = pc, !.out = out]
                    /\ queue' = [queue EXCEPT !.on = h # hv]

\* abortOnboarding: not before the start, not after a success, and once.
abortOnboarding(h, message) ==
    IF h.onboarding \in {"None", "Succeeded", message}
    THEN Take(h, "idle", "None")
    ELSE Take(h, "cleanup", message)

\* Mutation: the handover does not wait for the aggregates.
handoverEarly(h) ==
    \/ h.traitsUpdated = "True" /\ h.ha /\ Take(h, "apply", "Succeeded")
    \/ ~ (h.traitsUpdated = "True" /\ h.ha) /\ Take(h, "idle", "None")

\* The handover waits for the aggregates, the traits and HA; only the traits
\* are polled for.
handover(h) ==
    IF h.aggregatesUpdated # "Succeeded" THEN Take(h, "idle", "None")
    ELSE IF h.traitsUpdated # "True" THEN Retry
    ELSE IF ~ h.ha THEN Take(h, "idle", "None")
    ELSE Take(h, "apply", "Succeeded")

\* The next phase of an onboarding.  Until the aggregates controller has put
\* the host into the test aggregate, the initial one is an error, retried.
onboard(h) ==
    CASE h.onboarding = "None" -> Take(h, "apply", "Initial")
      [] h.onboarding = "Initial" ->
           IF h.aggregates = TestAggregates THEN Take(h, "enable", "Testing") ELSE Retry
      [] h.onboarding = "Testing" -> Take(h, IF SkipTests THEN "cleanup" ELSE "smoke", "Handover")
      [] h.onboarding = "Handover" -> handover(h)
      [] OTHER -> Take(h, "idle", "None")

onReconcile(h) ==
    /\ on.pc = "idle" /\ queue.on /\ Snapshot(h)
    /\ \/ ~ h.lifecycle /\ abortOnboarding(h, "AbortedByLifecycle")
       \/ h.lifecycle /\ h.terminating /\ abortOnboarding(h, "AbortedByTermination")
       \/ h.lifecycle /\ ~ h.terminating /\ ~ h.ids /\ Take(h, "lookup", "Initial")
       \/ h.lifecycle /\ ~ h.terminating /\ h.ids /\ onboard(h)
    /\ OnStep /\ UNCHANGED <<hv, nova>>

lookupNovaProperties ==
    /\ on.pc = "lookup"
    /\ IF nova.registered THEN Apply("Initial") ELSE Retry
    /\ OnStep /\ UNCHANGED <<hv, nova, faults>>

initialOnboarding ==
    /\ on.pc = "enable"
    /\ nova' = [nova EXCEPT !.enabled = TRUE]
    /\ Apply("Testing")
    /\ OnStep /\ UNCHANGED <<hv, faults>>

\* The test server is deleted.  Its volume goes with it, unless a build that
\* was aborted leaks it.
Deleted(n, leak) ==
    [n EXCEPT !.server = "none",
              !.volumes = IF "mine" \in @ /\ leak THEN (@ \ {"mine"}) \cup {"gone"} ELSE @ \ {"mine"}]

Running(n) == {i \in {"mine"} : n.server # "none"} \cup {i \in {"other"} : n.neighbour # "none"}

\* Mutation: volumes are looked for after a failed build only.
createOrGetTestServerUnswept ==
    /\ on.pc = "smoke"
    /\ nova' = [nova EXCEPT !.stray = FALSE]
    /\ IF nova.server = "none" THEN Go("create", on.out)
       ELSE IF nova.server = "BUILD" THEN Retry ELSE Go("look", on.out)
    /\ OnStep /\ UNCHANGED <<hv, faults>>

\* The server of this node's name is used.  Before one is created,
\* deleteOrphanedTestVolumes lists the instances of the project.
GetTestServer ==
    CASE nova.server = "none" -> /\ on' = [pc |-> "sweep", out |-> on.out, known |-> Running(nova)]
                                 /\ UNCHANGED queue
      [] nova.server = "BUILD" -> Retry
      [] OTHER -> Go("look", on.out)

\* What else bears the host's prefix is deleted first.
createOrGetTestServer ==
    /\ on.pc = "smoke"
    /\ nova' = [nova EXCEPT !.stray = FALSE]
    /\ GetTestServer
    /\ OnStep /\ UNCHANGED <<hv, faults>>

\* Logged, and no reason not to go on.
deleteOutdatedError ==
    /\ on.pc = "smoke" /\ nova.stray
    /\ Disturb("smoke_error")
    /\ GetTestServer
    /\ OnStep /\ UNCHANGED <<hv, nova>>

Swept == IF on.out = "Testing" THEN Retry ELSE Go("create", on.out)

\* Mutation: every volume that is not attached.
deleteOrphanedTestVolumesAll ==
    /\ on.pc = "sweep"
    /\ nova' = [nova EXCEPT !.volumes = {}]
    /\ Swept
    /\ OnStep /\ UNCHANGED <<hv, faults>>

deleteOrphanedTestVolumes ==
    /\ on.pc = "sweep"
    /\ nova' = [nova EXCEPT !.volumes = @ \cap on.known]
    /\ Swept
    /\ OnStep /\ UNCHANGED <<hv, faults>>

\* Logged, and no reason not to go on.
deleteOrphanedTestVolumesError ==
    /\ on.pc = "sweep"
    /\ Disturb("sweep_error")
    /\ Swept
    /\ OnStep /\ UNCHANGED <<hv, nova>>

createTestServer ==
    /\ on.pc = "create"
    /\ nova' = [nova EXCEPT !.server = "BUILD", !.volumes = @ \cup {"mine"}]
    /\ Retry
    /\ OnStep /\ UNCHANGED <<hv, faults>>

setTestingCondition == hv' = [hv EXCEPT !.onboarding = "Testing"]

\* Mutation: nobody asks for another pass.
smokeTestOnce ==
    /\ on.pc = "look"
    /\ Go(IF nova.server = "BOOTED" THEN "cleanup" ELSE "idle", on.out)
    /\ nova' = [nova EXCEPT !.server = IF @ = "ACTIVE" THEN @ ELSE "none"]
    /\ OnStep /\ UNCHANGED <<hv, faults>>

\* A server that has booted is done with; one in ERROR, or whose console is
\* silent for too long, is deleted for the next pass to create a new one.
\* The first may still be listed when its volume is looked for.
smokeTest ==
    /\ on.pc = "look"
    /\ \/ /\ nova.server = "BOOTED"
          /\ nova' = Deleted(nova, FALSE)
          /\ Go("cleanup", on.out) /\ UNCHANGED hv
       \/ /\ nova.server = "ACTIVE"
          /\ Retry /\ UNCHANGED <<hv, nova>>
       \/ /\ nova.server = "ERROR"
          /\ setTestingCondition /\ queue' = Event(hv', queue)
          /\ \E leak \in BOOLEAN, listed \in SUBSET {"gone"} :
                /\ nova' = Deleted(nova, leak)
                /\ on' = [pc |-> "sweep", out |-> "Testing", known |-> listed \cup Running(nova')]
    /\ OnStep /\ UNCHANGED faults

smokeTestTimeout ==
    /\ on.pc = "look" /\ nova.server = "ACTIVE"
    /\ Disturb("timeout")
    /\ nova' = Deleted(nova, FALSE)
    /\ setTestingCondition
    /\ on' = IdleOn /\ queue' = [Event(hv', queue) EXCEPT !.on = TRUE]
    /\ OnStep

\* The servers cannot be listed, the console not be read, the server not be
\* deleted or created.
smokeTestError ==
    /\ on.pc \in {"smoke", "look", "create"}
    /\ Disturb("smoke_error")
    /\ Retry
    /\ OnStep /\ UNCHANGED <<hv, nova>>

\* Mutation: the servers are deleted in the background.
deleteTestServersLater ==
    /\ on.pc = "cleanup"
    /\ Apply(on.out)
    /\ OnStep /\ UNCHANGED <<hv, nova, faults>>

deleteTestServers ==
    /\ on.pc = "cleanup"
    /\ \E leak \in BOOLEAN : nova' = [Deleted(nova, leak) EXCEPT !.stray = FALSE]
    /\ Apply(on.out)
    /\ OnStep /\ UNCHANGED <<hv, faults>>

\* "No cleanup, so we are still onboarding", with reason Aborted; every
\* server is tried, and the error is returned for a retry.
deleteTestServersError ==
    /\ on.pc = "cleanup"
    /\ Disturb("cleanup_error")
    /\ \E n \in {nova, Deleted(nova, TRUE), Deleted(nova, FALSE)}, t \in {nova.stray, FALSE} :
          nova' = [n EXCEPT !.stray = t]
    /\ on' = [IdleOn EXCEPT !.pc = "apply", !.out = Stuck]
    /\ queue' = [queue EXCEPT !.on = TRUE]
    /\ OnStep /\ UNCHANGED hv

onApply ==
    /\ on.pc = "apply"
    /\ HvBecomes([hv EXCEPT !.onboarding = on.out, !.ids = @ \/ on.out = "Initial"])
    /\ on' = IdleOn
    /\ OnStep /\ UNCHANGED <<nova, faults>>

onError ==
    /\ on.pc \in {"lookup", "enable", "apply"}
    /\ Disturb(IF on.pc = "apply" THEN "apply_error" ELSE "compute_error")
    /\ Retry
    /\ OnStep /\ UNCHANGED <<hv, nova>>

-----------------------------------------------------------------------------
(* The aggregates controller.                                              *)

AggStep == UNCHANGED <<on, tr>>

fromSpec(h) == [want |-> h.specAggregates, reason |-> "Succeeded"]

\* Mutation: the aggregates do not wait for the traits.
determineDesiredStateAtOnce(h) ==
    IF h.onboarding \in {"Initial", "Testing"}
    THEN [want |-> TestAggregates, reason |-> "TestAggregates"]
    ELSE fromSpec(h)

determineDesiredState(h) ==
    CASE h.terminating /\ h.evicted -> [want |-> {}, reason |-> "Terminating"]
      [] h.terminating /\ ~ h.evicted -> [want |-> h.aggregates, reason |-> "EvictionInProgress"]
      [] ~ h.terminating /\ h.onboarding \in {"Initial", "Testing"} ->
           [want |-> TestAggregates, reason |-> "TestAggregates"]
      [] ~ h.terminating /\ h.onboarding = "Handover" /\ h.traitsUpdated # "True" ->
           [want |-> TestAggregates, reason |-> "WaitingForTraits"]
      [] OTHER -> fromSpec(h)

aggReconcile(h) ==
    /\ agg.pc = "idle" /\ queue.agg /\ Snapshot(h)
    /\ queue' = [queue EXCEPT !.agg = h # hv /\ hv.lifecycle]
    /\ LET d == determineDesiredState(h)
           to(pc) == agg' = [IdleAgg EXCEPT !.pc = pc, !.want = d.want, !.reason = d.reason]
       IN  IF ~ h.ids THEN agg' = IdleAgg
           ELSE IF d.want # h.aggregates THEN to("list")
           ELSE IF d.reason # h.aggregatesUpdated THEN to("patch")
           ELSE agg' = IdleAgg
    /\ AggStep /\ UNCHANGED <<hv, nova>>

\* Mutation: what is not wanted goes first.
listAggregatesRemoves ==
    /\ agg.pc = "list"
    /\ nova' = [nova EXCEPT !.aggregates = @ \cap agg.want]
    /\ agg' = [agg EXCEPT !.pc = "add", !.todo = agg.want \ nova.aggregates]
    /\ AggStep /\ UNCHANGED <<hv, queue, faults>>

\* ApplyAggregates: the host is added to what it lacks, one call each, then
\* removed from the rest; a call that fails is noted and the others follow.
listAggregates ==
    /\ agg.pc = "list"
    /\ agg' = [agg EXCEPT !.pc = "add", !.todo = agg.want \ nova.aggregates]
    /\ AggStep /\ UNCHANGED <<hv, nova, queue, faults>>

addHost(a) ==
    /\ agg.pc = "add" /\ a \in agg.todo
    /\ nova' = [nova EXCEPT !.aggregates = @ \cup {a}]
    /\ agg' = [agg EXCEPT !.todo = @ \ {a}]
    /\ AggStep /\ UNCHANGED <<hv, queue, faults>>

addHostError(a) ==
    /\ agg.pc = "add" /\ a \in agg.todo
    /\ Disturb("add_error")
    /\ agg' = [agg EXCEPT !.todo = @ \ {a}, !.failed = TRUE]
    /\ AggStep /\ UNCHANGED <<hv, nova, queue>>

added ==
    /\ agg.pc = "add" /\ agg.todo = {}
    /\ agg' = [agg EXCEPT !.pc = "remove", !.todo = nova.aggregates \ agg.want]
    /\ AggStep /\ UNCHANGED <<hv, nova, queue, faults>>

removeHost(a) ==
    /\ agg.pc = "remove" /\ a \in agg.todo
    /\ nova' = [nova EXCEPT !.aggregates = @ \ {a}]
    /\ agg' = [agg EXCEPT !.todo = @ \ {a}]
    /\ AggStep /\ UNCHANGED <<hv, queue, faults>>

removeHostError(a) ==
    /\ agg.pc = "remove" /\ a \in agg.todo
    /\ Disturb("remove_error")
    /\ agg' = [agg EXCEPT !.todo = @ \ {a}, !.failed = TRUE]
    /\ AggStep /\ UNCHANGED <<hv, nova, queue>>

removed ==
    /\ agg.pc = "remove" /\ agg.todo = {}
    /\ agg' = [agg EXCEPT !.pc = "patch", !.changed = ~ agg.failed]
    /\ AggStep /\ UNCHANGED <<hv, nova, queue, faults>>

listAggregatesError ==
    /\ agg.pc = "list"
    /\ Disturb("list_error")
    /\ agg' = [agg EXCEPT !.pc = "patch", !.failed = TRUE]
    /\ AggStep /\ UNCHANGED <<hv, nova, queue>>

\* Mutation: the error is in the report only.
aggPatchQuiet ==
    /\ agg.pc = "patch"
    /\ HvBecomes([hv EXCEPT !.aggregates = IF agg.changed THEN agg.want ELSE @,
                            !.aggregatesUpdated = IF agg.failed THEN "Failed" ELSE agg.reason])
    /\ agg' = IdleAgg
    /\ AggStep /\ UNCHANGED <<nova, faults>>

\* After a failure the report keeps the old aggregates and the pass is retried.
aggPatch ==
    /\ agg.pc = "patch"
    /\ LET new == [hv EXCEPT !.aggregates = IF agg.changed THEN agg.want ELSE @,
                             !.aggregatesUpdated = IF agg.failed THEN "Failed" ELSE agg.reason]
       IN  /\ hv' = new
           /\ queue' = Event(new, [queue EXCEPT !.agg = @ \/ agg.failed])
    /\ agg' = IdleAgg
    /\ AggStep /\ UNCHANGED <<nova, faults>>

aggPatchError ==
    /\ agg.pc = "patch"
    /\ Disturb("patch_error")
    /\ queue' = [queue EXCEPT !.agg = TRUE]
    /\ agg' = IdleAgg
    /\ AggStep /\ UNCHANGED <<hv, nova>>

-----------------------------------------------------------------------------
(* The traits controller.                                                  *)

TrStep == UNCHANGED <<on, agg>>

\* Under lifecycle management, with an id, from the handover on.
trApplies(h) == /\ h.lifecycle /\ h.ids /\ ~ h.terminating
                /\ h.onboarding \in Over \cup {"Handover"}

trReconcile(h) ==
    /\ tr.pc = "idle" /\ queue.tr /\ Snapshot(h)
    /\ queue' = [queue EXCEPT !.tr = h # hv \/ (h.lifecycle /\ ~ h.ids)]
    /\ IF ~ trApplies(h) \/ (h.customTraits = h.traits /\ h.traitsUpdated = "True")
       THEN tr' = IdleTr
       ELSE IF h.customTraits = h.traits
            THEN tr' = [pc |-> "apply", want |-> {}, out |-> h.traits, ok |-> TRUE]
            ELSE tr' = [pc |-> "put", want |-> h.customTraits, out |-> h.traits, ok |-> TRUE]
    /\ TrStep /\ UNCHANGED <<hv, nova>>

\* Mutation: the report lists every trait of the provider.
UpdateTraitsAll ==
    /\ tr.pc = "put"
    /\ nova' = [nova EXCEPT !.traits = tr.want]
    /\ tr' = [tr EXCEPT !.pc = "apply", !.out = tr.want \cup {"HW_CPU_X86_VMX"}]
    /\ TrStep /\ UNCHANGED <<hv, queue, faults>>

\* GetTraits and UpdateTraits: traits that are not custom stay as they are,
\* and a provider that changed in between refuses the update.
UpdateTraits ==
    /\ tr.pc = "put"
    /\ nova' = [nova EXCEPT !.traits = tr.want]
    /\ tr' = [tr EXCEPT !.pc = "apply", !.out = tr.want]
    /\ TrStep /\ UNCHANGED <<hv, queue, faults>>

UpdateTraitsError ==
    /\ tr.pc = "put"
    /\ Disturb("traits_error")
    /\ tr' = [tr EXCEPT !.pc = "apply", !.ok = FALSE]
    /\ TrStep /\ UNCHANGED <<hv, nova, queue>>

applyTraitsStatus ==
    /\ tr.pc = "apply"
    /\ LET new == [hv EXCEPT !.traits = tr.out, !.traitsUpdated = IF tr.ok THEN "True" ELSE "False"]
       IN  /\ hv' = new
           /\ queue' = Event(new, [queue EXCEPT !.tr = @ \/ ~ tr.ok])
    /\ tr' = IdleTr
    /\ TrStep /\ UNCHANGED <<nova, faults>>

applyTraitsStatusError ==
    /\ tr.pc = "apply"
    /\ Disturb("apply_error")
    /\ queue' = [queue EXCEPT !.tr = TRUE]
    /\ tr' = IdleTr
    /\ TrStep /\ UNCHANGED <<hv, nova>>

-----------------------------------------------------------------------------
\* All three run in one process; its successor lists everything.
Crash ==
    /\ on.pc # "idle" \/ agg.pc # "idle" \/ tr.pc # "idle"
    /\ Disturb("crash")
    /\ on' = IdleOn /\ agg' = IdleAgg /\ tr' = IdleTr
    /\ queue' = [on |-> TRUE, agg |-> hv.lifecycle, tr |-> TRUE]
    /\ UNCHANGED <<hv, nova>>

OnPass == \/ (\E h \in {hv, prev} : onReconcile(h)) \/ lookupNovaProperties \/ initialOnboarding
          \/ createOrGetTestServer \/ deleteOrphanedTestVolumes \/ createTestServer \/ smokeTest
          \/ deleteTestServers \/ onApply
AggPass == \/ (\E h \in {hv, prev} : aggReconcile(h)) \/ listAggregates \/ added \/ removed \/ aggPatch
           \/ \E a \in Aggregates : addHost(a) \/ removeHost(a)
TrPass == (\E h \in {hv, prev} : trReconcile(h)) \/ UpdateTraits \/ applyTraitsStatus

Errors == \/ smokeTestError \/ smokeTestTimeout \/ deleteOutdatedError
          \/ deleteOrphanedTestVolumesError \/ deleteTestServersError \/ onError \/ listAggregatesError \/ aggPatchError
          \/ (\E a \in Aggregates : addHostError(a) \/ removeHostError(a))
          \/ UpdateTraitsError \/ applyTraitsStatusError \/ Crash

-----------------------------------------------------------------------------
(* The rest of the world (external, or other controllers).                 *)

Passes == <<on, agg, tr>>

Outside(new) == HvBecomes(new) /\ UNCHANGED <<nova, Passes>>

\* The HA controller takes the host in at its handover.
haEnabled ==
    /\ ~ hv.ha /\ hv.onboarding = "Handover"
    /\ Outside([hv EXCEPT !.ha = TRUE])
    /\ UNCHANGED faults

\* Termination; the maintenance controller then drains and closes the host.
terminate ==
    /\ ~ hv.terminating
    /\ Disturb("terminate")
    /\ Outside([hv EXCEPT !.terminating = TRUE])

evicted ==
    /\ hv.terminating /\ ~ hv.evicted /\ hv.onboarding \in Over \cup {"None"}
    /\ HvBecomes([hv EXCEPT !.evicted = TRUE])
    /\ nova' = [nova EXCEPT !.enabled = FALSE]
    /\ UNCHANGED <<Passes, faults>>

lifecycleOff ==
    /\ hv.lifecycle
    /\ Disturb("lifecycle_off")
    /\ Outside([hv EXCEPT !.lifecycle = FALSE])

changeSpec ==
    \/ /\ Disturb("change_aggregates")
       /\ \E s \in Specs \ {hv.specAggregates} : Outside([hv EXCEPT !.specAggregates = s])
    \/ /\ Disturb("change_traits")
       /\ \E t \in SUBSET Traits \ {hv.customTraits} : Outside([hv EXCEPT !.customTraits = t])

NovaBecomes(new) == nova' = new /\ UNCHANGED <<hv, queue, Passes>>

agentRegisters ==
    /\ ~ nova.registered
    /\ NovaBecomes([nova EXCEPT !.registered = TRUE])
    /\ UNCHANGED faults

serverBoots ==
    /\ \/ nova.server = "BUILD" /\ "mine" \in nova.volumes
       \/ nova.server = "ACTIVE"
    /\ NovaBecomes([nova EXCEPT !.server = IF @ = "BUILD" THEN "ACTIVE" ELSE "BOOTED",
                                !.volumes = @ \ {"mine"}])
    /\ UNCHANGED faults

serverFails ==
    /\ nova.server \in {"BUILD", "ACTIVE"}
    /\ Disturb("server_fails")
    /\ NovaBecomes([nova EXCEPT !.server = "ERROR"])

\* A server an earlier onboarding of the host failed to delete.
strayServer ==
    /\ ~ nova.stray /\ hv.onboarding = "None"
    /\ Disturb("stray")
    /\ NovaBecomes([nova EXCEPT !.stray = TRUE])

\* Another host is tested: by the same worker, so between two passes.
neighbourBuilds ==
    /\ nova.neighbour = "none" /\ on.pc = "idle"
    /\ Disturb("neighbour")
    /\ NovaBecomes([nova EXCEPT !.neighbour = "BUILD", !.volumes = @ \cup {"other"}])

neighbourBoots ==
    /\ nova.neighbour = "BUILD" /\ "other" \in nova.volumes
    /\ NovaBecomes([nova EXCEPT !.neighbour = "ACTIVE", !.volumes = @ \ {"other"}])
    /\ UNCHANGED faults

Environment == \/ haEnabled \/ terminate \/ evicted \/ lifecycleOff \/ changeSpec
               \/ agentRegisters \/ serverBoots \/ serverFails \/ strayServer
               \/ neighbourBuilds \/ neighbourBoots

\* A step, with the version of the Hypervisor it supersedes.
Versioned(A) == A /\ prev' = IF "stale_read" \in Faults /\ hv' # hv THEN hv ELSE prev

Next == Versioned(OnPass \/ AggPass \/ TrPass) \/ Versioned(Errors) \/ Versioned(Environment)

Spec == Init /\ [][Next]_vars

\* Queues are served and passes run to their end; the agent registers, HA
\* follows and a server that neither fails nor is given up boots.
FairSpec == /\ Spec
            /\ WF_vars(Versioned(OnPass))
            /\ WF_vars(Versioned(AggPass))
            /\ WF_vars(Versioned(TrPass))
            /\ WF_vars(Versioned(haEnabled))
            /\ WF_vars(Versioned(agentRegisters))
            /\ WF_vars(Versioned(evicted))
            /\ WF_vars(Versioned(serverBoots))

-----------------------------------------------------------------------------
(* Type invariant of the three controllers and what they share.            *)
TypeOK ==
    /\ hv \in Hypervisor /\ prev \in Hypervisor /\ nova \in Nova
    /\ queue \in [on : BOOLEAN, agg : BOOLEAN, tr : BOOLEAN]
    /\ on \in [pc : {"idle", "lookup", "enable", "smoke", "sweep", "create", "look", "cleanup", "apply"},
              out : Phases, known : SUBSET Instances]
    /\ agg \in [pc : {"idle", "list", "add", "remove", "patch"}, want : SUBSET Aggregates,
                reason : Reasons, todo : SUBSET Aggregates, failed : BOOLEAN, changed : BOOLEAN]
    /\ tr \in [pc : {"idle", "put", "apply"}, want : SUBSET Traits, out : SUBSET Traits, ok : BOOLEAN]
    /\ faults \in 0..MaxFaults

\* An onboarding that is over, either way, leaves no test server behind: not
\* the one of a pass that was overtaken by the abort, and no stray.
NoServerLeftBehind == hv.onboarding \in Over => nova.server = "none" /\ ~ nova.stray

\* deleteOrphanedTestVolumes deletes "only when it is unattached and no
\* instance with that ID exists in the project anymore": no server that is
\* being built, here or for another host, loses the volume it boots from.
VolumesAreSafe == /\ nova.server = "BUILD" => "mine" \in nova.volumes
                  /\ nova.neighbour = "BUILD" => "other" \in nova.volumes

\* "Aborted builds can leak boot volumes, which eventually exhausts the test
\* project's volume quota": an onboarding that succeeds has left none behind,
\* unless something else failed besides the build.
OrphansAreSwept == hv.onboarding = "Succeeded" /\ "gone" \in nova.volumes => faults > 1

\* completeOnboarding waits "for aggregates and traits controllers to sync": a
\* host that is onboarded is out of the test aggregate and has its traits.
SucceededMeansHandedOver ==
    hv.onboarding = "Succeeded" => Test \notin nova.aggregates /\ nova.traits = hv.customTraits

\* ApplyAggregates adds first "because if we first drop an aggregate with a
\* filter criterion and then add a new one, we leave the host open".  Enabled,
\* and not about to be removed, a host is always in a restricting aggregate.
HostIsNeverOpen ==
    nova.enabled /\ hv.ids /\ ~ hv.evicted => nova.aggregates \ {Zone} # {}

\* "We wait for traits to be applied first to ensure sequential ordering":
\* while it is onboarding, a host gets its aggregates after its traits.
TraitsBeforeAggregates ==
    hv.onboarding \notin Over /\ nova.aggregates \ TestAggregates # {}
        => nova.traits = hv.customTraits

\* An onboarding nobody stops succeeds, through retries, timeouts and failed
\* builds, calls and writes.
OnboardingSucceeds ==
    <>(hv.onboarding = "Succeeded" \/ hv.terminating \/ ~ hv.lifecycle)

\* Nobody works on the hypervisor and nothing has changed since.
Quiet == /\ on.pc = "idle" /\ agg.pc = "idle" /\ tr.pc = "idle"
         /\ ~ queue.on /\ ~ queue.agg /\ ~ queue.tr

\* No wakeup is lost: with an onboarding behind it, a hypervisor at rest has
\* the aggregates and the traits of its spec in its report.
RestIsInSync ==
    Quiet /\ hv.lifecycle /\ ~ hv.terminating /\ hv.onboarding \in Over =>
        /\ hv.aggregates = hv.specAggregates /\ hv.aggregatesUpdated = "Succeeded"
        /\ hv.traits = hv.customTraits /\ hv.traitsUpdated = "True"

=============================================================================
