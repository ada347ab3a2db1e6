# The OpenStack hypervisor operator in TLA+

The operator runs the life of KVM hosts in an OpenStack cloud: a Kubernetes
node becomes a `Hypervisor` resource, is tested and onboarded, is drained for
maintenance by `Eviction` resources, and is offboarded before Gardener takes the
node away. Its parts are controllers that never call each other. They meet in
the conditions of two resources, and in Nova and Placement, which act on their
own. What goes wrong in such a program goes wrong *between* the controllers:
a pass decides from what it read at its start and acts, call by call, while
everything else moves on. These modules model that, check it with TLC on small
instances and prove the safety of every component with TLAPS, for instances of any
size and any number of failures.

## 1. Inventory

### 1.1 The parts

| Part | Source (under `src/internal`) | State it keeps | Operations |
|---|---|---|---|
| eviction controller | `controller/eviction/controller.go`, `global/global.go` | `Eviction.status`: conditions Evicting, Preflight, MigratingInstance and the list of outstanding instances | start, preflight, scan, confirm a resize, start migrations, write back |
| maintenance controller | `controller/hypervisor_maintenance_controller.go`, `openstack/migrations.go` | conditions HypervisorDisabled, Evicting, IncomingMigrationsSettled and `evicted`; the Eviction resource | switch the service, settle incoming migrations, create, read and delete the Eviction, apply the report |
| onboarding controller | `controller/onboarding_controller.go` | condition Onboarding, `hypervisorId`, `serviceId`; test servers and their boot volumes | look up, enable, smoke test, sweep for orphaned volumes, clean up, hand over, abort |
| aggregates controller | `controller/aggregates_controller.go`, `openstack/aggregates.go` | `status.aggregates`, condition AggregatesUpdated | decide on the aggregates, add, remove, report |
| traits controller | `controller/traits_controller.go`, `openstack/placement.go` | `status.traits`, condition TraitsUpdated | update the traits of the provider, report |
| offboarding controller | `controller/offboarding_controller.go`, `openstack/placement.go` | condition Offboarded | wait at its gates, delete the service, clean up the provider |
| Gardener node lifecycle controller | `controller/gardener_node_lifecycle_controller.go` | the node's taint, a disruption budget, a signalling deployment | taint, protect, release |
| hypervisor controller | `controller/hypervisor_controller.go`, `utils/status_patch.go` | the Hypervisor's existence; of its spec what labels and annotations of the node say; `internalIp`, conditions Terminating and AgentPodsEvicted | create, synchronise the spec, look for agent pods, patch the status |
| ready controller | `controller/ready/controller.go` | condition Ready | compute it from the other conditions, patch |
| taint controller | `controller/hypervisor_taint_controller.go` | condition Tainted with the generation it is about | look for kubectl, patch |
| certificate controller | `controller/node_certificate_controller.go` | a Certificate | collect names and addresses, apply |
| process, clients, types, generated code | `cmd/`, `openstack/service_client.go`, `api/v1/`, `applyconfigurations/` | flags, connections | wiring; the types are the records of the modules |

### 1.2 How they interact

* **Shared resources.** Nearly every controller watches the Hypervisor. A write that
  changes it wakes them; a write that changes nothing wakes nobody. Five controllers
  patch the list of conditions as a whole, with a resource version; three apply the
  fields they own, by force and without one. All of them read from informers, which lag. Some
  controllers filter what wakes them (the aggregates controller only hears of
  hypervisors under lifecycle management), some also watch Evictions or Nodes.
* **Order through conditions.** Traits come before aggregates, both before the
  end of the handover; HypervisorDisabled before the preflight; Evicting=False
  before the taint; the taint before AgentPodsEvicted; AgentPodsEvicted before the
  service is deleted; Offboarded before the node is released.
* **External actors.** Nova migrates, schedules and deletes instances; agents on
  the node register the service and report the number of instances; users and
  Gardener change `spec.maintenance` and the node; the HA service enables and
  disables HA.

### 1.3 What is hard

1. A pass is not atomic: the decision and the call, and two calls, are seconds apart.
2. A pass can end anywhere: a call fails, the operator restarts, the final write
   fails. The next pass has only the stored status to go by.
3. Wakeups: several waits ask for no requeue and rely on somebody else's write.
4. Nova answers late: a migration that was just ordered still shows as ACTIVE, an
   aborted migration may complete, an instance may be gone at the next call.
5. Conditions are claims about Nova, checked once and used later.
6. A pass may start from a copy of the resource that is older than its own last write.

`PROJECT.json` lists the single hazards with their lines.

### 1.4 What makes each part correct

* *eviction*: success means an empty host; never more migrations than the limit; a
  failure is neither forgotten nor kept for ever; the eviction ends.
* *maintenance*: "evicted" means empty, closed and not a target; no Eviction before
  the incoming migrations are settled; no drain is left unattended; a wish is
  carried out in both directions.
* *onboarding, aggregates, traits*: the host is never open to instances it is not meant
  for; traits before aggregates; nothing of the test is left behind; the onboarding
  ends; no change of the spec is missed.
* *offboarding, Gardener, hypervisor*: the agents go after the last instance; the host
  leaves Nova for good before the node is released; the node is released.
* *hypervisor, ready, taint, certificate*: at rest, what is shown agrees with what it is
  derived from; no write undoes somebody else's; the end of a node shows.

## 2. Modules

| Module | Models | Kind |
|---|---|---|
| `Drain` | what an Eviction promises | abstract specification |
| `Eviction` | the eviction controller, Nova's instances, the part of the maintenance controller that concerns them | component; refines `Drain` |
| `EvictionProofs`, `EvictionListProofs`, `EvictionRefinement`, `DrainProofs` | theorems about `Eviction` and `Drain` | proofs |
| `Maintenance` | the maintenance controller; the eviction controller appears as `Drain` promises it | component |
| `Onboarding` | onboarding, aggregates and traits controllers, composed | composition |
| `Offboarding` | offboarding, Gardener lifecycle and hypervisor controllers, composed | composition |
| `Mirror` | hypervisor, ready, taint and certificate controllers on one Node and one Hypervisor | composition |
| `MaintenanceProofs`, `OnboardingProofs`, `OffboardingProofs`, `MirrorProofs` | theorems about the four others | proofs |
| `MCEviction`, `MCMaintenance`, `MCOnboarding`, `MCOffboarding`, `MCMirror` | values of the constants | TLC |

`Drain` is the joint between two of them: `Eviction` is shown to implement it, and
`Maintenance` assumes no more of the eviction controller than it says. The other
joints are single actions that carry the name of what they stand for:
`Offboarding!evictionEnds` relies on `Maintenance!EvictedMeansEmpty`,
`Onboarding!evicted` is the same step seen from the aggregates controller. The hypervisor
controller is in two modules: in `Offboarding` with the three fields the release of a node
depends on and everybody who reads them, in `Mirror` with all it does.

### 2.1 Conventions

* A reconcile is a *pass*, a record with a program counter. Its first step reads the
  resources (a snapshot, where later steps use it) and takes the key off the queue;
  then one step per call that reads or changes something outside; then the write.
  Between two steps anybody may act. One pass per controller and resource at a time,
  as the work queue guarantees.
* `queued` or `queue` is the work queue. It is set by a write that changes the
  resource, by an error or a requeue of the pass, and by a restart. Where a controller
  is woken at any time anyway (the eviction controller polls and is requeued after
  every pass; in `Offboarding` the kubelet's heartbeats wake the two controllers that watch
  Nodes) there is no such variable, and a pass may begin whenever none is running.
* Everything that need not happen, failures and wishes alike, is a *disturbance* of a
  named kind. `Faults` selects the kinds of an instance, `MaxFaults` is the bound on
  their number; the proofs hold for every value of both. A failing call is an action
  next to the one for the successful call, under the same guard.
* **Informers.** In `Maintenance`, `Onboarding` and `Offboarding` the variable `prev` is the
  version of the Hypervisor before the last one, and a pass may take it for its snapshot: a
  disturbance, `stale_read`. The event of the version it missed is still to come, so the pass
  leaves its key on the queue. `Versioned` adds to each step what becomes of `prev` (in `Offboarding`
  it is the last version itself once no stale read can follow, which spares TLC states that differ in nothing
  that can happen). `Mirror`
  has the whole truth: `versions` is the sequence of versions from the informer's copy to the
  API server's, `WatchDelivers` moves the copy on and wakes whom its event wakes, and a patch
  is refused if its base is not the last version. `Eviction` reads the last version always.
* Conditions are abstracted to the values the code tells apart: status and reason, for
  Offboarded and two kinds of abort the message too, since the code compares it.
  Messages are left out elsewhere, and with them wakeups that only a new message causes:
  this can only make the liveness properties harder to satisfy.
* Definitions keep the names of the functions they stand for. A definition that follows
  a comment "Mutation:" is the same operation with a plausible bug. No specification
  uses it; it exists to show that a property can fail.

### 2.2 Correspondence

**Eviction.** `ev` is `Eviction.status`, `present` its existence, `pass.st` the working
copy that `updateStatus` merges into whatever Eviction has the name by then. `Start`,
`PreflightBlocked`, `PreflightBegin`, `EvictNextBegin` and `Succeed` are the branches of
`Reconcile` and `handleRunning`; `PreflightList`, `PreflightNotFound`, `PreflightError` the
answers to the listing. `evictNext` is two loops: `ScanInstance` (one GET and all its
branches, in the code's order), `ConfirmResize`, and `ScanEnd` when the queue is exhausted
or the slots are taken; then `Migrate` for each candidate with the mode decided during the
scan, and `StartEnd`. `ResolveConcurrency` is the flag with the limits by trait.

**Maintenance.** `hv.report` is the part of the status this controller owns; it is applied
as a whole, so what `pass.out` leaves out is pruned. `reconcileComputeService` is one call or
none, depending on the condition of the snapshot. `leaveMaintenance`, `leaveToHA` and
`enterMaintenance` are the cases of `reconcileEviction`; `deleteEviction`, the listing and
aborting of incoming migrations, `ensureEviction` and `readEviction` its calls.

**Onboarding.** `hv.onboarding` is status, reason and, for an abort, the message of the
condition (`AbortedUnclean` is status True with reason Aborted). `onboard` is the switch over
the phases; `createOrGetTestServer`, `createTestServer`, `smokeTest` and `deleteTestServers` are the test
server's life; a server of the host's prefix that cannot be deleted is only logged (`deleteOutdatedError`), and goes
with the clean-up at the end. `nova.volumes` are the boot volumes not attached to their instance: of the test
server while it is built, of a `neighbour` (another host's test server, in the same project) and
of an instance that is gone. `deleteOrphanedTestVolumes` lists the servers in one step
(`on.known`) and deletes in the next. `determineDesiredState` has the five cases of the code; `ApplyAggregates` is a listing
and one step per host added or removed. `trReconcile` and `UpdateTraits` are the traits.

**Offboarding.** `offReconcile` is the chain of gates, `getHypervisor`, `deleteService` and
`cleanupProvider` the calls, and the outcome is the new condition, `offPatch`. The Gardener
controller's pass is a taint, or a budget and a deployment with the same `minAvailable`.
It waits until HaEnabled is reported as False, and an absent HaEnabled is not that: `hv.ha` has three values,
`hv.highAvailability` is what the spec asks for, and `haEnabled` and `haDisabled` are the HypervisorInstanceHa controller
(section 5). The end of an onboarding, handed over or aborted, leaves `hv.ha` alone.
`hc` is a pass of the hypervisor controller, whose patch of the spec carries a resource
version and may conflict, and is refused in termination.

**Mirror.** `node` has a field for each label, annotation or part of the status that is read;
`"none"` is an absent one. `hcReconcile`, `hcPatchSpec` and `hcStatus` are the pass over an existing
Hypervisor in the order of the code, `hcCreate` its creation. `statusGet` and `statusPatch` are
`PatchHypervisorStatusWithRetry`, for all three who use it here: the copy is read, the fields of
the pass are set in it, and a conflict starts over or, after ten attempts, ends the pass with an
error. `syncLabelsAndAnnotations` is used for both creation and update. `Unmap` and `GlobalUnicast` are what
`netip` says about the spellings of addresses, `Include` and `Exclude` the names the regular expressions match.
The reports of the onboarding, maintenance and offboarding controllers are single writes that keep to the
order those controllers follow. A pass that waits for agent pods to leave asks to be repeated: `"poll"` in the
queue is its timer, and `Poll` the moment it fires.

## 3. Properties

Safety:

* `SucceededMeansEmpty`: an Eviction that reports success on a disabled host has emptied it.
* `ConcurrencyLimit`: more than one migration is in flight only where the flag and the limits of all traits of
  the host allow as many, over passes, restarts and re-created Evictions.
* `FailureIsOutstanding`, `FailureIsSticky`: a recorded failure stands as long as, and only
  as long as, an instance is outstanding.
* `ImplementsDrain`: every step is a step of `Drain` or none.
* `EvictedMeansEmpty`: at rest, a hypervisor reported as evicted is empty, closed, and no
  migration is on its way to it.
* `NoEvictionBeforeSettled`: an Eviction is only ever created for a closed host that no
  migration is heading for.
* `RestIsEarned`, `RestIsInSync`: when nobody is queued and no pass runs, everything the
  spec asks for is done, or somebody works on it. These find lost wakeups.
* `NoServerLeftBehind`, `SucceededMeansHandedOver`, `HostIsNeverOpen`,
  `TraitsBeforeAggregates`: the onboarding as described in 1.4.
* `VolumesAreSafe`, `OrphansAreSwept`: the sweep takes no volume a server is about to boot from, and
  leaves no leaked one, unless it fails itself.
* `ReadyIsCurrent`, `TaintIsObserved`, `CertificateIsCurrent`: when nobody is queued, no pass
  runs and the informer has caught up, Ready, Tainted and Certificate say what their sources say. The spec
  need not say what the node says then (section 7): that it follows in the end is `SpecFollowsNode`.
* `NoUpdateIsLost`: a step changes the fields of one owner in the status, and no others.
* `AgentsOutliveServers`, `OffboardedMeansGone`, `ReleasedMeansGone`: the order of an
  offboarding, across three controllers.

Liveness: `EvictionTerminates`, `OthersLeave` (an instance that cannot be moved takes no slot from the others), `ResizeIsConfirmed`, `DrainCompletes`, `ServiceComesBack`,
`EvictionIsCleanedUp`, `OnboardingSucceeds`, `NodeIsReleased`, `TerminationShows`, `SpecFollowsNode`. `NodeIsReleased` exempts an offboarded host
that waits for a report on HA that nobody owes (`HaUnreported`, section 7). It says nothing about what wakes the Gardener
controller, which in the model may begin a pass at any time.

## 4. Runs

| Run | Instance | Shows |
|---|---|---|
| `EvictionSafety` | 3 instances (symmetric), a trait that lowers the limit from 5 to 2, any 2 of 10 kinds of disturbance | the safety properties, the inductive invariant and the refinement; about 930 000 states |
| `EvictionLiveness` | 2 instances, a limit of 0, which counts as 1, any 2 of 9 kinds | every eviction ends unless an instance needs a human, which holds up none of the others; cold migrations are confirmed; 108 000 states |
| `MaintenanceWorks` | 2 instances, modes unset, manual, termination, any 3 of 8 kinds | "evicted" can be relied on; a wish is carried out both ways; 164 000 states |
| `MaintenanceFaults` | 1 instance, all five modes, any 3 of all 12 kinds | no drain is left unattended, and it completes; 204 000 states |
| `Onboarding` | smoke test, two disjoint specs, any 3 of 16 kinds | the host is never open, volumes are safe, nothing is left behind, the onboarding succeeds; 753 000 states |
| `OnboardingFaults` | no smoke test, any 3 of 19 kinds, stale reads included | nothing is left behind, no change is missed; 2.2 million states |
| `Offboarding` | both ways a node's end is announced, any 1 of all 11 kinds | the node is let go when its host has left Nova, and not before; 745 000 states |
| `Mirror` | five groups of controllers and of fields that change, any 2 changes, 1 failure or restart | Ready, Tainted and the certificate are current at rest, no report is lost, what a node says gets into the spec in the end, and its own end shows; 169 000 states |

Four runs show a disagreement between the code and what its comments or tests say
(section 7): `EvictionGetErrors`, `EvictionRecreated`, `MaintenanceDeleteFails`,
`OffboardingProvider`. TLC stops there at the first counterexample.

**Bounds.** Two instances are the fewest that compete for a slot, three the fewest of which
one waits while the limit of two is used up. Two disturbances allow a failure while
recovering from another one, three add a changed wish. In `Offboarding` wishes and the end
of the node are free, so that the one disturbance is a true failure. There is a single
hypervisor: controllers share nothing between two hypervisors except Nova's capacity,
which is not modelled, and the test project, where the `neighbour` stands for the others (one
worker serves all hypervisors, so that its build starts between two passes).
In `Mirror` a change is a change of a field of the node, a report of another controller or a
wish, from four initial states: no node yet, and a host in service, under test, or drained. Each
group has the controllers that can meet in the fields it lets change, and any two
writers of the status meet in one of them. All three at once (406 000 states)
were checked apart, without an error; the theorems are about every group. The kubelet reports only when everybody is done with its last report: its
period of minutes is long against that of a pass, and a heartbeat in between would enqueue a key
that the change itself has enqueued. With three changes instead of two, which takes longer than a
run should, `TerminationShows` (1.1 million states) and `SpecFollowsNode` (174 000) hold as well. No state constraint is used; all bounds are guards.

**What the passing runs leave out**, each for a reason that has a run or a hazard of its own:
`get_error` in `EvictionSafety` (`EvictionGetErrors`); `recreate_in_pass` everywhere but in
`EvictionRecreated`; `delete_error` in `MaintenanceWorks` (`MaintenanceDeleteFails`), and mode
ha, `crash` and `apply_error` there (a report lost after the service was switched leaves the
condition behind the service: section 7, and the hazard at line 138); `stale_read` in `MaintenanceWorks` (a pass
that lags behind its own report forgets the Eviction, see the hazard at line 65); `add_error` (the
host is open until the retry, see section 7),
`cleanup_error` (an onboarding then stays in Onboarding=True, Aborted, for ever),
`change_traits` (the traits of a spec that just changed are not yet applied) and `stale_read` (the smoke
test may be repeated after its end, section 7) in `Onboarding`; the neighbour in `OnboardingFaults`, which
has no smoke test and thus no volumes.

**Deadlock.** `CHECK_DEADLOCK FALSE` throughout: an eviction that is over, a hypervisor at rest
and a released node have nothing to do. That they do not stop earlier is what the liveness and
the at-rest properties say.

## 5. Fairness

* Steps of a pass, and the start of a pass that is queued, are weakly fair: controller-runtime
  serves its queue and retries errors with back-off; a call that never returns is not considered. The error
  actions next to them are not fair.
* Nova takes up, completes and deletes what it accepted; a migration may fail, as a
  disturbance. An instance that hangs in `deleting` for good is outside of what
  `EvictionTerminates` promises, like one in ERROR or RESCUE.
* Controllers that appear as single actions are weakly fair where their own modules, or the
  code, promise the same: the end of an onboarding, a drain, the clearing of aggregates.
* The node agent reports and registers, the kubelet drives out untolerated pods, HA follows. The
  HypervisorInstanceHa controller is not part of the repository. Assumed of it, from the waits at `onboarding_controller.go:348`
  and `gardener_node_lifecycle_controller.go:115` and the reasons in `api/v1/hypervisor_types.go:106`: where the spec asks for HA it
  enables it during the handover, and for a drained host it reports HaEnabled=False, also if it never reported before; a host it has
  enabled it disables whatever the spec says by then. Nothing is assumed of a host whose spec does without HA. In `Mirror` the
  watch delivers, the timer of a repeated pass fires and the kubelet reports: all are what Kubernetes is for. Timer and
  kubelet take their turn when everybody is done with the last one. Agents there need not leave.
* Users, Gardener's decision to end a node, and all failures are never fair.

## 6. Proofs

All theorems are about the specifications the runs check, for all values of the constants that
satisfy `ConstantsAssumption` of the module (TLC evaluates it in the runs): any finite number of
instances, any aggregates, traits, addresses and groups, any number of disturbances of any kind.
Where a theorem has a further hypothesis, it excludes kinds of disturbance or constants, never
states; the table names it. Each inductive invariant was an invariant of a TLC run before it
was proved.

| Theorem | States | Hypothesis |
|---|---|---|
| `EvictionProofs!TypeCorrect` | `[]TypeOK` | none |
| `EvictionProofs!Inductive`, `SucceededIsEmpty` | `[]IndInv`, `[]SucceededMeansEmpty` | no Eviction is re-created during a pass |
| `EvictionListProofs!ListInductive`, `FailureHasInstance`, `FailureSticks` | `[]ListInv`, `[]FailureIsOutstanding`, `FailureIsSticky` | the same |
| `EvictionListProofs!LimitIsKept` | `[]ConcurrencyLimit` | the same, and every GET of an instance is answered |
| `EvictionRefinement!EvictionImplementsDrain` | `ImplementsDrain` | no Eviction is re-created during a pass |
| `DrainProofs!DrainKeepsPromise` | `DrainSpec => []DoneMeansEmpty` | none |
| `MaintenanceProofs!TypesHold`, `RestStaysEarned` | `[]TypeOK`, `[]RestIsEarned` | none |
| `MaintenanceProofs!GateHolds` | `NoEvictionBeforeSettled` | `ReportsArrive`: no restart in a pass, no failed Apply, no stale read |
| `MaintenanceProofs!EvictedStaysEmpty` | `[]EvictedMeansEmpty` | `EvictionsEnd`: the same, no failed DELETE, no mode ha |
| `OnboardingProofs!TypesHold`, `VolumesStaySafe`, `NoWakeupIsLost` | `[]TypeOK`, `[]VolumesAreSafe`, `[]RestIsInSync` | none |
| `OnboardingProofs!NoServerIsLeft` | `[]NoServerLeftBehind` | `TestsAreCurrent`: no stale read, or no smoke test |
| `OnboardingProofs!OrphansAreGone` | `[]OrphansAreSwept` | no stale read |
| `OnboardingProofs!HostStaysGuarded` | `[]HostIsNeverOpen` | `SpecsRestrict`: every spec has an aggregate besides the zone; no call that adds a host fails |
| `OnboardingProofs!TraitsComeFirst` | `[]TraitsBeforeAggregates` | no stale read, the clean-up does not fail, the traits of the spec stay |
| `OnboardingProofs!HandedOver` | `[]SucceededMeansHandedOver` | no stale read, the traits of the spec stay |
| `OffboardingProofs!TypesHold`, `OffInductive`, `OffboardedIsGone`, `ReleasedIsGone`, `AgentsLeaveLast` | `[]TypeOK`, `[]OffInv`, `[]OffboardedMeansGone`, `[]ReleasedMeansGone`, `AgentsOutliveServers` | none |
| `MirrorProofs!TypesHold`, `NoReportIsLost`, `CertificateStaysCurrent`, `ReadyStaysCurrent` | `[]TypeOK`, `NoUpdateIsLost`, `[]CertificateIsCurrent`, `[]ReadyIsCurrent` | none |
| `MirrorProofs!TaintStaysObserved` | `[]TaintIsObserved` | `NodesStay`: no node is replaced under its name |

No hypothesis is an artefact of the proof. Without it the statement is false, and the reason is in
section 7 or with a hazard: `EvictionRecreated`, `EvictionGetErrors` and
`MaintenanceDeleteFails` are runs. For the others TLC finds the counterexample when the
kind is added to an instance: a crash, a failed Apply and a stale read each break both theorems about
`Maintenance`, a failed DELETE and mode ha only the second (the first three take four disturbances, the others five).

### 6.1 Eviction

`SucceededMeansEmpty` speaks of the stored status of a disabled host. It is
not inductive: the status is about to be overwritten by a working copy, and the host may have been
enabled when the copy was made. `IndInv` adds that

1. on a disabled host both the stored status and the working copy are *safe* (after the
   preflight their lists cover the host, and success is claimed for an empty host only);
2. while a registered host is not disabled yet, neither claims anything, and a pass is at
   most about to write such a status; so disabling the host breaks nothing;
3. a host is never disabled while its Eviction is on the way out; so what a pass of a
   withdrawn Eviction still holds concerns an open host;
4. a working copy is never behind the status it will overwrite, so `merge` loses no claim;
5. a hypervisor unknown to Nova has no instances.

Lemmas about the list come first: `RemoveFirst` and `deprioritize` lose nothing
but what they are told to (`removeInstanceKeeps`, `deprioritizeKeeps`); from them what `strike`,
`setBack` and `merge` preserve. Then one lemma per action and a case split over `Next`. The two
steps that carry the weight are `ScanInstance`, which strikes off an instance only when it is gone
or elsewhere and cannot return to a disabled host, and `updateStatus`.

`EvictionListProofs` strengthens this to `ListInv`: lists have no repetitions; both copies of the status are
*honest* (a failure has an instance, success an empty list); and `Copy` relates the working copy to
what it will overwrite: it lists no more, has struck off nothing that is on the host, and
dropped a failure only with the last instance. `LimitInv` adds the count: what is in flight is on
the list since the preflight (so a new Eviction finds it there), is counted when the scan passes it,
and again when it is started. `Slots` is the bookkeeping, over cardinalities of finite sets. That the limit the controller
resolves is, above one, no higher than the flag and any of the traits' limits is `LimitIsLowest`.

`EvictionRefinement` shows that every step is one of `Drain` or leaves `phase`, `remaining`, `onHost` and
`closed` alone; it needs `ListInv`, because `updateStatus` replaces the whole status, and only `Copy`
says that this strikes off nothing else. `DrainKeepsPromise` closes the circle: what
`Maintenance` takes from `Drain` follows from the abstract specification alone.

### 6.2 Maintenance

For each action a lemma (`ServiceDoes`, `EnterDoes`, ...) says once what becomes of the fields it
touches; the invariants are proved from these.

* `RestInv`: with an empty queue a pass is over the last version, and the report it is about to
  apply either differs from the one that stands, and then wakes the controller again, or leaves
  nothing to do (`WakeInv`). For the second, that a pass knows what it does (`PassInv`), and that a
  drain is begun anew only when it was finished or its Eviction has ended (`AnewInv`).
* `ServiceInv`, while reports arrive: the service is what the report says, or what the pass past its
  call to Nova is about to say. So a pass that settles migrations is over a closed host, no migration
  is added to its list, and when it creates the Eviction there is none.
* `ClosedInv`: unless the host has left maintenance, an Eviction belongs to a closed host, lists all that is
  on it once it runs, and so does a claim to be evicted. When the host is opened again, `MentionInv` has
  kept the report, or the pass, mentioning the Eviction, so that it is deleted before the pass ends.

### 6.3 Onboarding

One invariant per question, on top of what a phase implies (`IdInv`, `PhaseInv`): `ServerInv` (no phase after
the clean-up, reported or about to be, with a server), `VolInv` (who builds is in the list
of servers the sweep has read), `OrphanInv` (counts the faults a leaked volume costs), `OpenInv` (what the
aggregates controller has still to add covers what it will remove), `TraitInv` and `AheadInv` (aggregates
besides the test's come after the traits), `AggInv`, `AimInv` and `HandInv` (the handover), `WakeInv`
(a controller that is not queued is settled, or its pass has news). Frame lemmas (`OnLeaves`, `AggLeaves`, `TrLeaves`,
`WorldLeaves`) say what the steps of each controller leave to the others.

### 6.4 Offboarding

Three facts never come undone: the host is drained, its agents have left the tainted node, Nova has
forgotten it. `OffInv` says which of them every condition (in the last version and in the one
before), every pass in progress, the taint, the budget and the deployment stand for. The properties
are what it says about the last link of the chain.

### 6.5 Mirror

`NoReportIsLost` follows from who owns which field of the status (`Owned`) and from the resource version: a patch is
accepted only on the version it was computed from. The at-rest properties share one argument: if all versions the
informer has yet to deliver agree with the last in what wakes a controller, and the controller is not
queued, then its report is right or its pass is about to write the right one; a version that differs
will wake it. `Follows` says how a version may follow another; for Tainted it is also needed that generations grow, that a
mark is for a generation that has been delivered (`GenInv`) and is right about it (`RightInv`).

### 6.6 Only model-checked

* *Liveness* (section 3): TLAPS proves nothing about fairness or `ENABLED`.
* *Induction over data*: what `RemoveFirst` or `deprioritize` return is not proved from a recursive
  definition; they are defined without one, and the lemmas say what they keep.
* *The joints between modules*: that `evictionEnds` in `Offboarding` may rely on `Maintenance` is a
  reading of two theorems, not a theorem.

## 7. Where code and comments disagree

* `EvictionGetErrors`: "keeps up to `limit` migrations in flight" fails after one GET that fails:
  the migrating instance it asked about is not counted, and its slot is given away.
* `EvictionRecreated`: `updateStatus` re-reads the Eviction by name. When it was deleted and
  created anew during the pass, the new one inherits a preflight that never happened.
* `MaintenanceDeleteFails`: when the Delete of the Eviction fails, the report is applied all the same,
  without the conditions by which the retry would know that there is something to delete.
* `OffboardingProvider`: after a failed clean-up of the provider the next pass finds no hypervisor
  in Nova any more and reports success.

Found on the way and recorded with the hazards or here, without a run of their own:

* whether the service must be switched is decided by the stored condition HypervisorDisabled alone
  (`hypervisor_maintenance_controller.go:158`): when maintenance ends, the service is enabled, the report of it is lost
  to a restart or a failed Apply, and maintenance is wished for again before the next pass, the service is
  not disabled, and the host is reported as disabled and evicted while Nova may schedule to it;
* the spec is patched only if it differs from the informer's copy (`hypervisor_controller.go:113`), and no event
  of the Hypervisor wakes that controller: when an annotation changes and changes back while the watch lags, the
  second pass compares with the copy from before the first one's patch, and the spec keeps the value in
  between, which the comment in lines 107-110 means to rule out, until the node's next event;
* when a node is replaced under its name, a pass of the taint controller that began in its first life may write its
  mark into the second Hypervisor, where a later pass may take it for its own (`NodesStay` in `MirrorProofs`);
* an absent HaEnabled makes the Gardener controller wait (`gardener_node_lifecycle_controller.go:116` asks for an explicit
  False): a host whose spec does without HA and on which nobody has reported is offboarded and never released. The test
  "When node is terminating and offboarded" (`gardener_node_lifecycle_controller_test.go:163-205`) expects the release in exactly
  that case. It passes because its `Update` of the node brings back a status without the Terminating condition before the status is written.
  `NodeIsReleased` without its exemption shows it, with `ha_off` as the only disturbance;
* two equal failures in a row stall an offboarding until the informers resynchronise;
* a test server that cannot be deleted leaves the onboarding in a phase nothing resumes from;
* a failed Eviction is reported as a finished one;
* a host that cannot be added to an aggregate is removed from the others all the same, and is open until a
  retry succeeds; aggregates that were changed half way are not repaired when the spec returns to what the
  report says; and traits that a re-created provider has lost are not noticed while report and spec agree;
* a pass that lags behind its own report may repeat the smoke test after the handover has begun, and leave
  the server; or, in the maintenance controller, forget the Eviction it should delete;
* the spec of a hypervisor in termination is immutable: when its node's labels or annotations change then, the
  hypervisor controller fails at its first patch in every pass, and neither the end of the node nor the end of
  its agents is mirrored (`Refused` in `Mirror`), so the offboarding waits;
* with two internal addresses, `status.internalIp` takes turns at every report of the kubelet
  (`hypervisor_controller.go:125`): a status that changes for ever, and wakes everybody;
* an edit with kubectl that leaves the generation alone is not marked as Tainted until the spec changes;
* a limit on migrations that is lowered during a drain holds for new migrations only.

## 8. Not modelled

* **The lag of the informer in `Eviction`.** `updateStatus` reads the Eviction again, by name, right before its patch, so the version
  the patch carries does not protect against a pass that started from an old copy. What such a pass would do is open.
* **Stale reads by more than one version**, outside of `Mirror`.
* **Image, network and flavour** of the smoke test: that none is found is an error of the test.
* **Time**: time-outs, poll intervals, back-off and the six-hour window of the migrations list are nondeterministic or
  left out.
* **Labels but the zone, hardware and capacity**, messages, metrics, the constant parts of a certificate.
* **Clients, flags, logging, generated code**: I/O and wiring.

## 9. Plan

Done, in this order: `Drain` and `Eviction` (the operation that moves customers' instances),
`EvictionProofs`, `Maintenance`, `Offboarding`, `Onboarding`; then lagging informers, `Mirror` and the
boot volumes of the test project; then the proofs of section 6, which leave no safety property of a
passing run without a theorem.

Open:

1. a composition of `Maintenance` with `Eviction` in place of its promise, for one instance, with the
   informer's lag on the Eviction;
2. the other joints as theorems: `Offboarding!evictionEnds` and `Onboarding!evicted` from `Maintenance`;
3. questions that were set aside: progress when one instance hangs in `deleting` at index 0; instances that
   moved and then failed; the service after a lost report; forced_down after HA.
