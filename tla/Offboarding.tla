----------------------------- MODULE Offboarding -----------------------------
(***************************************************************************)
(* How a node leaves: three controllers that meet only in the Hypervisor   *)
(* and the Node resource.                                                  *)
(*   - the Gardener lifecycle controller taints the drained node and holds *)
(*     a disruption budget and a signalling deployment over it until the   *)
(*     host is offboarded (gardener_node_lifecycle_controller.go);         *)
(*   - the hypervisor controller mirrors the node and looks for agent pods *)
(*     (hypervisor_controller.go);                                         *)
(*   - the offboarding controller deletes the compute service and the      *)
(*     resource provider (offboarding_controller.go).                      *)
(* Each runs one pass at a time; a pass decides from the resources it read *)
(* at its start, from an informer that may lag, and every call it makes is *)
(* a step.  The first two watch the Node, whose kubelet reports all the    *)
(* time: their passes may start at any moment.  The third is woken by      *)
(* changes of the Hypervisor only.  The maintenance, aggregates and        *)
(* onboarding controllers appear as what they do to the Hypervisor.        *)
(***************************************************************************)
EXTENDS Integers

CONSTANTS
    Endings,   \* how Gardener announces the end of a node
    Faults,    \* the kinds of disturbance this instance allows
    MaxFaults  \* BOUND: how many disturbances may happen

FaultKinds == {"get_error", "delete_error", "placement_error", "held", "patch_error",
               "api_error", "list_error", "crash", "to_ha", "ha_off", "stale_read"}

ASSUME ConstantsAssumption == /\ Endings \subseteq {"condition", "deletion"}
                              /\ Faults \subseteq FaultKinds
                              /\ MaxFaults \in Nat

VARIABLES
    hv,     \* the Hypervisor resource
    prev,   \* its version before that, kept where it may be read
    node,   \* the Node, its agent pods, its budget and deployment
    nova,   \* Nova and Placement, as far as this host goes
    queued, \* the Hypervisor changed since the offboarding controller looked
    off,    \* the pass of the offboarding controller
    gard,   \* the pass of the Gardener lifecycle controller
    hc,     \* the pass of the hypervisor controller
    faults

vars == <<hv, prev, node, nova, queued, off, gard, hc, faults>>

Tri == {"None", "False", "True"}

\* The Offboarded condition: its message while False, or Done.
Offboarded == {"None", "Started", "Agents", "GetFailed", "Servers", "Aggregates",
               "DeleteFailed", "ProviderFailed", "Done"}

\* ha is the condition HaEnabled: "None" while nobody has written it.
Hypervisor == [exists : BOOLEAN, lifecycle : BOOLEAN, highAvailability : BOOLEAN,
               maintenance : {"unset", "termination", "ha"},
               onboarding : Tri, serviceId : BOOLEAN, evicting : Tri,
               agentPodsEvicted : Tri, aggregates : BOOLEAN, ha : Tri,
               offboarded : Offboarded]

NoHypervisor == [exists |-> FALSE, lifecycle |-> FALSE, highAvailability |-> FALSE,
                 maintenance |-> "unset", onboarding |-> "None", serviceId |-> FALSE,
                 evicting |-> "None", agentPodsEvicted |-> "None", aggregates |-> FALSE,
                 ha |-> "None", offboarded |-> "None"]

Node == [lifecycle : BOOLEAN, ending : {"no"} \cup Endings, taint : BOOLEAN,
         agents : BOOLEAN, budget : 0..2, scale : 0..2, ready : BOOLEAN]

None == 2   \* a budget or a deployment that was never applied

\* Nova's service record stands for the hypervisor too: one goes with the
\* other.  A provider is held by a consumer that has allocations itself.
Nova == [service : BOOLEAN, servers : BOOLEAN, provider : {"absent", "free", "held"}]

IdleOff == [pc |-> "idle", out |-> "None"]
IdleGard == [pc |-> "idle", minAvailable |-> 1, ready |-> FALSE]
IdleHc == [pc |-> "idle", rv |-> NoHypervisor, look |-> FALSE, end |-> FALSE,
           lifecycle |-> FALSE, agents |-> "None"]

Init ==
    /\ hv = NoHypervisor /\ prev = NoHypervisor
    /\ node = [lifecycle |-> FALSE, ending |-> "no", taint |-> FALSE, agents |-> FALSE,
               budget |-> None, scale |-> None, ready |-> FALSE]
    /\ nova = [service |-> FALSE, servers |-> FALSE, provider |-> "absent"]
    /\ queued = FALSE
    /\ off = IdleOff /\ gard = IdleGard /\ hc = IdleHc
    /\ faults = 0

Disturb(kind) == /\ kind \in Faults
                 /\ faults < MaxFaults
                 /\ faults' = faults + 1

-----------------------------------------------------------------------------
(* Events: a patch that changes nothing is none.                           *)

HvBecomes(new) == hv' = new /\ queued' = (queued \/ new # hv)

\* The informer has the last version, or not yet; its event is then to come.
Snapshot(h) == \/ h = hv /\ UNCHANGED faults
               \/ h # hv /\ Disturb("stale_read")

-----------------------------------------------------------------------------
(* The offboarding controller.                                             *)

OffStep == UNCHANGED <<node, gard, hc>>

SetOffboarding(out) == off' = [pc |-> "patch", out |-> out]

\* Mutation: the agents are not waited for.
offReconcileEager(h) ==
    /\ off.pc = "idle" /\ queued /\ Snapshot(h)
    /\ queued' = (h # hv)
    /\ IF ~ h.lifecycle \/ h.maintenance # "termination" \/ h.offboarded = "Done"
            \/ h.onboarding = "True" \/ (h.serviceId /\ h.evicting # "False")
       THEN off' = IdleOff
       ELSE IF h.offboarded = "None" THEN SetOffboarding("Started")
            ELSE off' = [pc |-> "get", out |-> "None"]
    /\ OffStep /\ UNCHANGED <<hv, nova>>

offReconcile(h) ==
    /\ off.pc = "idle" /\ queued /\ Snapshot(h)
    /\ queued' = (h # hv)
    /\ IF ~ h.exists \/ ~ h.lifecycle \/ h.maintenance # "termination"
       THEN off' = IdleOff
       ELSE CASE h.offboarded = "None" -> SetOffboarding("Started")
              [] h.offboarded = "Done" -> off' = IdleOff
              [] OTHER ->
                   IF h.onboarding = "True" \/ (h.serviceId /\ h.evicting # "False")
                   THEN off' = IdleOff
                   ELSE IF h.agentPodsEvicted # "True"
                        THEN SetOffboarding("Agents")
                        ELSE off' = [pc |-> "get",
                                     out |-> IF h.aggregates THEN "Aggregates" ELSE "None"]
    /\ OffStep /\ UNCHANGED <<hv, nova>>

\* "We are (hopefully) done" when Nova does not know the host; otherwise it
\* has to be empty and out of the aggregates of the snapshot.
getHypervisor ==
    /\ off.pc = "get"
    /\ IF ~ nova.service THEN SetOffboarding("Done")
       ELSE IF nova.servers THEN SetOffboarding("Servers")
       ELSE IF off.out = "Aggregates" THEN SetOffboarding("Aggregates")
       ELSE off' = [off EXCEPT !.pc = "delete"]
    /\ OffStep /\ UNCHANGED <<hv, nova, queued, faults>>

getHypervisorError ==
    /\ off.pc = "get"
    /\ Disturb("get_error")
    /\ SetOffboarding("GetFailed")
    /\ OffStep /\ UNCHANGED <<hv, nova, queued>>

\* Nova refuses while there are instances; it tries to remove the provider too.
deleteService ==
    /\ off.pc = "delete"
    /\ IF nova.servers
       THEN SetOffboarding("DeleteFailed") /\ UNCHANGED nova
       ELSE /\ \E left \in {nova.provider, "absent"} :
                  nova' = [nova EXCEPT !.service = FALSE, !.provider = left]
            /\ off' = [off EXCEPT !.pc = "provider"]
    /\ OffStep /\ UNCHANGED <<hv, queued, faults>>

deleteServiceError ==
    /\ off.pc = "delete"
    /\ Disturb("delete_error")
    /\ SetOffboarding("DeleteFailed")
    /\ OffStep /\ UNCHANGED <<hv, nova, queued>>

\* CleanupResourceProvider drops the allocations of consumers that have none
\* themselves.  A provider that is not there (404) is looked up under no name.
cleanupProvider ==
    /\ off.pc = "provider"
    /\ IF nova.provider = "free"
       THEN SetOffboarding("Done") /\ nova' = [nova EXCEPT !.provider = "absent"]
       ELSE SetOffboarding("ProviderFailed") /\ UNCHANGED nova
    /\ OffStep /\ UNCHANGED <<hv, queued, faults>>

cleanupProviderError ==
    /\ off.pc = "provider"
    /\ Disturb("placement_error")
    /\ SetOffboarding("ProviderFailed")
    /\ OffStep /\ UNCHANGED <<hv, nova, queued>>

\* setOffboardingCondition, markOffboarded: neither asks for another pass.
offPatch ==
    /\ off.pc = "patch"
    /\ HvBecomes([hv EXCEPT !.offboarded = off.out])
    /\ off' = IdleOff
    /\ OffStep /\ UNCHANGED <<nova, faults>>

offPatchError ==
    /\ off.pc = "patch"
    /\ Disturb("patch_error")
    /\ queued' = TRUE
    /\ off' = IdleOff
    /\ OffStep /\ UNCHANGED <<hv, nova>>

-----------------------------------------------------------------------------
(* The Gardener lifecycle controller.                                      *)

GardStep == UNCHANGED <<hv, nova, queued, off, hc>>

Protect(h, minAvailable) ==
    gard' = [pc |-> "budget", minAvailable |-> minAvailable, ready |-> h.onboarding = "False"]

isTerminating == node.ending = "condition"

\* Mutation: the taint does not wait for the drain.
gardReconcileUngated(h) ==
    /\ gard.pc = "idle" /\ Snapshot(h)
    /\ IF ~ h.exists \/ ~ h.lifecycle
       THEN gard' = IdleGard
       ELSE IF h.maintenance = "termination" /\ ~ node.taint
            THEN gard' = [IdleGard EXCEPT !.pc = "taint"]
            ELSE IF h.offboarded # "Done" THEN Protect(h, 1) ELSE Protect(h, 0)
    /\ GardStep /\ UNCHANGED node

\* Mutation: a drained host counts as offboarded.
gardReconcileEvicted(h) ==
    /\ gard.pc = "idle" /\ Snapshot(h)
    /\ IF ~ h.exists \/ ~ h.lifecycle
       THEN gard' = IdleGard
       ELSE IF h.maintenance = "termination" /\ h.evicting = "False" /\ ~ node.taint
            THEN gard' = [IdleGard EXCEPT !.pc = "taint"]
            ELSE IF h.evicting # "False" THEN Protect(h, 1) ELSE Protect(h, 0)
    /\ GardStep /\ UNCHANGED node

\* Mutation: a node that is being deleted is not tainted.
gardReconcileCondition(h) ==
    /\ gard.pc = "idle" /\ Snapshot(h)
    /\ IF ~ h.exists \/ ~ h.lifecycle
       THEN gard' = IdleGard
       ELSE IF isTerminating /\ h.evicting = "False" /\ ~ node.taint
            THEN gard' = [IdleGard EXCEPT !.pc = "taint"]
            ELSE IF h.offboarded # "Done" THEN Protect(h, 1) ELSE Protect(h, 0)
    /\ GardStep /\ UNCHANGED node

gardReconcile(h) ==
    /\ gard.pc = "idle" /\ Snapshot(h)
    /\ IF ~ h.exists \/ ~ h.lifecycle
       THEN gard' = IdleGard
       ELSE IF h.maintenance = "termination" /\ h.evicting = "False" /\ ~ node.taint
            THEN gard' = [IdleGard EXCEPT !.pc = "taint"]
            ELSE IF h.offboarded # "Done"
                 THEN Protect(h, 1)
                 ELSE IF h.onboarding = "False" /\ isTerminating /\ h.ha # "False"
                      THEN gard' = IdleGard   \* waits for HA to be disabled
                      ELSE Protect(h, 0)
    /\ GardStep /\ UNCHANGED node

ensureOffboardingTaint ==
    /\ gard.pc = "taint"
    /\ node' = [node EXCEPT !.taint = TRUE]
    /\ gard' = IdleGard
    /\ GardStep /\ UNCHANGED faults

ensureBlockingPodDisruptionBudget ==
    /\ gard.pc = "budget"
    /\ node' = [node EXCEPT !.budget = gard.minAvailable]
    /\ gard' = [gard EXCEPT !.pc = "deployment"]
    /\ GardStep /\ UNCHANGED faults

ensureSignallingDeployment ==
    /\ gard.pc = "deployment"
    /\ node' = [node EXCEPT !.scale = gard.minAvailable, !.ready = gard.ready]
    /\ gard' = IdleGard
    /\ GardStep /\ UNCHANGED faults

gardError ==
    /\ gard.pc # "idle"
    /\ Disturb("api_error")
    /\ gard' = IdleGard
    /\ GardStep /\ UNCHANGED node

-----------------------------------------------------------------------------
(* The hypervisor controller.                                              *)

HcStep == UNCHANGED <<node, nova, off, gard>>

nodeTerminates == node.ending # "no"
nodeHasOffboardingTaint == node.taint

\* A new node gets its Hypervisor; one that is ending already, in termination.
hcReconcile(h) ==
    /\ hc.pc = "idle" /\ Snapshot(h)
    /\ hc' = [pc |-> IF h.exists THEN "sync" ELSE "create",
              rv |-> IF node.lifecycle /\ ~ h.lifecycle THEN h ELSE NoHypervisor,
              look |-> /\ h.maintenance = "termination" /\ h.evicting = "False"
                       /\ nodeHasOffboardingTaint,
              end |-> nodeTerminates /\ ~ h.exists, lifecycle |-> node.lifecycle /\ ~ h.exists,
              agents |-> h.agentPodsEvicted]
    /\ HcStep /\ UNCHANGED <<hv, queued>>

hcCreate ==
    /\ hc.pc = "create"
    /\ HvBecomes(IF hv.exists THEN hv
                 ELSE [NoHypervisor EXCEPT
                          !.exists = TRUE, !.lifecycle = hc.lifecycle, !.highAvailability = TRUE,
                          !.maintenance = IF hc.end THEN "termination" ELSE "unset"])
    /\ hc' = IdleHc
    /\ HcStep /\ UNCHANGED faults

\* The node's label only ever switches lifecycle management on.  The patch
\* carries the version of the copy that was read: a conflict is an error, as
\* is any change of the spec of a hypervisor in termination, which the CRD
\* makes immutable.
syncLabelsAndAnnotations ==
    /\ hc.pc = "sync"
    /\ IF hc.rv.exists /\ (hv # hc.rv \/ hv.maintenance = "termination")
       THEN hc' = IdleHc /\ UNCHANGED <<hv, queued>>
       ELSE /\ HvBecomes([hv EXCEPT !.lifecycle = @ \/ hc.rv.exists])
            /\ hc' = [hc EXCEPT !.pc = IF hc.look THEN "pods" ELSE "status", !.rv = NoHypervisor]
    /\ HcStep /\ UNCHANGED faults

\* Pods that tolerate the taint for ever, and finished ones, do not count.
computeAgentPodsEvictedCondition ==
    /\ hc.pc = "pods"
    /\ hc' = [hc EXCEPT !.pc = "status", !.agents = IF node.agents THEN "False" ELSE "True"]
    /\ HcStep /\ UNCHANGED <<hv, queued, faults>>

\* Mutation: a condition nobody set.
hcPatchUnknown ==
    /\ hc.pc = "status"
    /\ HvBecomes([hv EXCEPT !.agentPodsEvicted = IF hc.agents = "None" THEN "Unknown" ELSE hc.agents])
    /\ hc' = IdleHc
    /\ HcStep /\ UNCHANGED faults

hcPatch ==
    /\ hc.pc = "status"
    /\ HvBecomes([hv EXCEPT !.agentPodsEvicted = hc.agents])
    /\ hc' = IdleHc
    /\ HcStep /\ UNCHANGED faults

hcError ==
    /\ hc.pc # "idle"
    /\ Disturb("list_error")
    /\ hc' = IdleHc
    /\ HcStep /\ UNCHANGED <<hv, queued>>

-----------------------------------------------------------------------------
(* All three run in one process; its successor lists everything.           *)

Crash ==
    /\ off.pc # "idle" \/ gard.pc # "idle" \/ hc.pc # "idle"
    /\ Disturb("crash")
    /\ off' = IdleOff /\ gard' = IdleGard /\ hc' = IdleHc
    /\ queued' = TRUE
    /\ UNCHANGED <<hv, node, nova>>

OffPass == \/ \E h \in {hv, prev} : offReconcile(h)
           \/ getHypervisor \/ deleteService \/ cleanupProvider \/ offPatch
GardPass == \/ (\E h \in {hv, prev} : gardReconcile(h)) \/ ensureOffboardingTaint
            \/ ensureBlockingPodDisruptionBudget \/ ensureSignallingDeployment
HcPass == \/ (\E h \in {hv, prev} : hcReconcile(h)) \/ hcCreate \/ syncLabelsAndAnnotations
          \/ computeAgentPodsEvictedCondition \/ hcPatch

Errors == \/ getHypervisorError \/ deleteServiceError \/ cleanupProviderError
          \/ offPatchError \/ gardError \/ hcError \/ Crash

-----------------------------------------------------------------------------
(* The other controllers, by what they do to the Hypervisor.               *)

Passes == <<off, gard, hc>>

Others(new) == /\ hv.exists
               /\ HvBecomes(new)
               /\ UNCHANGED <<node, Passes, faults>>

\* Onboarding starts once the agent has registered the host, and tests it
\* with an instance; termination aborts it and deletes that instance.
onboardingStarts ==
    /\ hv.lifecycle /\ hv.maintenance = "unset" /\ hv.onboarding = "None" /\ nova.service
    /\ Others([hv EXCEPT !.onboarding = "True", !.serviceId = TRUE, !.aggregates = TRUE])
    /\ UNCHANGED nova

\* The handover waits for HA where the spec asks for it, an abort does not:
\* HaEnabled may be absent after the one and the other.
onboardingEnds ==
    /\ hv.onboarding = "True"
    /\ hv.maintenance = "unset" /\ hv.highAvailability => hv.ha = "True"
    /\ Others([hv EXCEPT !.onboarding = "False"])
    /\ nova' = [nova EXCEPT !.servers = FALSE]

\* The maintenance controller drains the host and keeps what it drained
\* closed (module Maintenance, EvictedMeansEmpty).
evictionStarts ==
    /\ hv.maintenance = "termination" /\ hv.onboarding # "True" /\ hv.evicting = "None"
    /\ Others([hv EXCEPT !.evicting = "True"])
    /\ UNCHANGED nova

evictionMigrates ==
    /\ hv.evicting = "True" /\ nova.servers /\ node.agents
    /\ nova' = [nova EXCEPT !.servers = FALSE]
    /\ UNCHANGED <<hv, node, queued, Passes, faults>>

evictionEnds ==
    /\ hv.evicting = "True" /\ ~ nova.servers
    /\ Others([hv EXCEPT !.evicting = "False"])
    /\ UNCHANGED nova

\* The aggregates controller clears the aggregates of a drained host.
aggregatesCleared ==
    /\ hv.aggregates /\ hv.maintenance = "termination" /\ hv.evicting = "False"
    /\ Others([hv EXCEPT !.aggregates = FALSE])
    /\ UNCHANGED nova

\* The HypervisorInstanceHa controller enables HA at the handover, for which
\* that waits, and disables it for a drained host (reason Evicted), whether or
\* not it was enabled before.  Nothing says that it reports on a host whose spec
\* does not ask for HA.
haEnabled ==
    /\ hv.highAvailability /\ hv.maintenance = "unset"
    /\ hv.onboarding = "True" /\ hv.ha # "True"
    /\ Others([hv EXCEPT !.ha = "True"])
    /\ UNCHANGED nova

haDisabled ==
    /\ hv.ha = "True" \/ (hv.ha = "None" /\ hv.highAvailability)
    /\ hv.evicting = "False"
    /\ Others([hv EXCEPT !.ha = "False"])
    /\ UNCHANGED nova

\* Somebody does without HA, as long as the spec can be changed.
setHighAvailability ==
    /\ hv.exists /\ hv.highAvailability /\ hv.maintenance # "termination"
    /\ Disturb("ha_off")
    /\ HvBecomes([hv EXCEPT !.highAvailability = FALSE])
    /\ UNCHANGED <<node, nova, Passes>>

setTermination ==
    /\ hv.maintenance = "unset"
    /\ Others([hv EXCEPT !.maintenance = "termination"])
    /\ UNCHANGED nova

\* The CRD lets termination turn into ha only; its drain is forgotten.
setHA ==
    /\ hv.maintenance = "termination"
    /\ Disturb("to_ha")
    /\ HvBecomes([hv EXCEPT !.maintenance = "ha", !.evicting = "None"])
    /\ UNCHANGED <<node, nova, Passes>>

-----------------------------------------------------------------------------
(* The node, its agents and Nova (external).                               *)

\* Gardener announces the end of the node.
nodeEnds(how) ==
    /\ node.ending = "no"
    /\ node' = [node EXCEPT !.ending = how]
    /\ UNCHANGED <<hv, nova, queued, Passes, faults>>

nodeLabelled ==
    /\ ~ node.lifecycle
    /\ node' = [node EXCEPT !.lifecycle = TRUE]
    /\ UNCHANGED <<hv, nova, queued, Passes, faults>>

\* A NoExecute taint keeps the agents away and drives them out.
agentsStart ==
    /\ ~ node.agents /\ ~ node.taint
    /\ node' = [node EXCEPT !.agents = TRUE]
    /\ UNCHANGED <<hv, nova, queued, Passes, faults>>

agentsLeave ==
    /\ node.agents /\ node.taint
    /\ node' = [node EXCEPT !.agents = FALSE]
    /\ UNCHANGED <<hv, nova, queued, Passes, faults>>

\* A running nova-compute registers its service and provider, again if need be.
agentRegisters ==
    /\ node.agents /\ ~ nova.service
    /\ nova' = [nova EXCEPT !.service = TRUE,
                            !.provider = IF @ = "absent" THEN "free" ELSE @]
    /\ UNCHANGED <<hv, node, queued, Passes, faults>>

\* The drain starts only when the service is disabled and nothing is on its
\* way to the host any more.
novaSchedules ==
    /\ node.agents /\ nova.service /\ hv.serviceId /\ ~ nova.servers
    /\ hv.maintenance # "ha" /\ hv.evicting = "None"
    /\ nova' = [nova EXCEPT !.servers = TRUE]
    /\ UNCHANGED <<hv, node, queued, Passes, faults>>

\* Allocations that an instance left behind when it departed.
allocationsLeft ==
    /\ nova.provider = "free"
    /\ Disturb("held")
    /\ nova' = [nova EXCEPT !.provider = "held"]
    /\ UNCHANGED <<hv, node, queued, Passes>>

Environment ==
    \/ onboardingStarts \/ onboardingEnds \/ evictionStarts \/ evictionMigrates
    \/ evictionEnds \/ aggregatesCleared \/ haEnabled \/ haDisabled \/ setHighAvailability
    \/ setTermination \/ setHA
    \/ (\E how \in Endings : nodeEnds(how)) \/ nodeLabelled
    \/ agentsStart \/ agentsLeave \/ agentRegisters \/ novaSchedules \/ allocationsLeft

\* A step, with the version of the Hypervisor it supersedes; once no stale read
\* can follow any more, that is the last version.
Versioned(A) ==
    /\ A
    /\ prev' = IF "stale_read" \notin Faults \/ faults' = MaxFaults THEN hv'
               ELSE IF hv' # hv THEN hv ELSE prev

Next == Versioned(OffPass \/ GardPass \/ HcPass) \/ Versioned(Errors) \/ Versioned(Environment)

Spec == Init /\ [][Next]_vars

\* Passes start and run to their end, the other controllers do their part and
\* the kubelet drives out what does not tolerate the taint.  No failure is
\* fair, and nobody has to end a node or to ask for its termination.
FairSpec == /\ Spec
            /\ WF_vars(Versioned(OffPass))
            /\ WF_vars(Versioned(GardPass))
            /\ WF_vars(Versioned(HcPass))
            /\ WF_vars(Versioned(onboardingEnds))
            /\ WF_vars(Versioned(aggregatesCleared))
            /\ WF_vars(Versioned(haDisabled))
            /\ WF_vars(Versioned(evictionStarts))
            /\ WF_vars(Versioned(evictionMigrates))
            /\ WF_vars(Versioned(evictionEnds))
            /\ WF_vars(Versioned(agentsLeave))

-----------------------------------------------------------------------------
(* Type invariant of the three controllers and what they share.            *)
TypeOK ==
    /\ hv \in Hypervisor /\ prev \in Hypervisor /\ node \in Node /\ nova \in Nova
    /\ queued \in BOOLEAN
    /\ off \in [pc : {"idle", "get", "delete", "provider", "patch"}, out : Offboarded]
    /\ gard \in [pc : {"idle", "taint", "budget", "deployment"}, minAvailable : 0..1, ready : BOOLEAN]
    /\ hc \in [pc : {"idle", "create", "sync", "pods", "status"}, rv : Hypervisor, look : BOOLEAN,
               end : BOOLEAN, lifecycle : BOOLEAN, agents : Tri]
    /\ faults \in 0..MaxFaults

Gone == ~ nova.service /\ ~ nova.servers /\ ~ node.agents

\* The gate on agent pods: "a still-running nova-compute agent would
\* re-register the service we are about to delete, undoing the offboarding".
\* An offboarded host is unknown to Nova, empty, and without agents, for good.
OffboardedMeansGone == hv.offboarded = "Done" => Gone

\* The budget and the deployment hold the node until then: Gardener may drain
\* a node only when its host has left OpenStack.
ReleasedMeansGone == node.budget = 0 \/ node.scale = 0 => Gone

\* The taint is gated "to avoid racing with live-migration": agents leave only
\* a host that no instance has to be migrated from any more.
AgentsOutliveServers == [][ node.agents /\ ~ node'.agents => ~ nova.servers ]_vars

\* "Wait for HypervisorInstanceHa controller to disable HA": an offboarded host
\* without HA, on which that controller has never reported.  Gardener's
\* controller does not take an absent HaEnabled for a disabled one.
HaUnreported == /\ hv.offboarded = "Done" /\ hv.onboarding = "False" /\ isTerminating
                /\ hv.ha = "None" /\ ~ hv.highAvailability

\* A termination that stands ends with the node being released, whatever
\* failed in between, unless it waits for a report on HA that nobody owes.
NodeIsReleased ==
    hv.maintenance = "termination" /\ hv.lifecycle ~>
        \/ hv.maintenance # "termination" \/ HaUnreported
        \/ node.budget = 0 /\ node.scale = 0

-----------------------------------------------------------------------------
(* What the tests say beyond that.                                         *)

\* "When cleaning up resource provider fails ... should set offboarding
\* condition with error": a host whose provider could not be cleaned up is
\* not reported as offboarded.
OffboardedMeansCleanedUp == hv.offboarded = "Done" => nova.provider = "absent"

=============================================================================
