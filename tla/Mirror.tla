------------------------------- MODULE Mirror -------------------------------
(***************************************************************************)
(* What a Node and a Hypervisor show of each other, kept by four           *)
(* controllers that only watch:                                            *)
(*   - hypervisor: creates the Hypervisor of a Node, copies labels and     *)
(*     annotations into its spec and the node's end, address and agent     *)
(*     pods into its status (hypervisor_controller.go);                    *)
(*   - ready: sums the other conditions up (ready/controller.go);          *)
(*   - taint: marks what was edited by hand                                *)
(*     (hypervisor_taint_controller.go);                                   *)
(*   - certificate: asks for a certificate of the node's addresses         *)
(*     (node_certificate_controller.go).                                   *)
(* The first three write the status of one resource as a whole, as do      *)
(* others: a write names the version it started from and is refused when   *)
(* there is a newer one, and what they read is an informer's copy, which   *)
(* lags (utils/status_patch.go).                                           *)
(***************************************************************************)
EXTENDS Integers, Sequences, FiniteSetsExt

CONSTANTS
    BaseNode,      \* a node as it joins
    Unmap,         \* [spelling -> address]: what parses as an IP without a zone
    GlobalUnicast, \* the addresses that are routable
    Include,       \* the interface names the include pattern matches (all, without one)
    Exclude,       \* those the exclude pattern matches (none, without one)
    Groups,        \* BOUND: [controllers, values]: which controllers are looked at together,
                   \* and the values the fields of the node may take meanwhile
    Faults,        \* the kinds of disturbance this instance allows
    MaxFaults,     \* BOUND: how many disturbances may happen
    MaxEdits       \* BOUND: how often the world may change

FaultKinds == {"api_error", "crash"}

Controllers == {"hypervisor", "ready", "taint", "certificate"}

\* "none" is an absent label or annotation.
Nodes == [exists : BOOLEAN, hypervisorLabel : BOOLEAN,
          lifecycle : STRING \cup {"none"}, zone : STRING \cup {"none"},
          aggregates : SUBSET STRING, customTraits : SUBSET STRING, taint : BOOLEAN,
          ending : {"no", "condition", "deletion"},
          addresses : Seq([type : STRING, address : STRING]),
          interfaces : SUBSET [name : STRING, addresses : SUBSET STRING]]

ASSUME ConstantsAssumption ==
    /\ BaseNode \in Nodes /\ BaseNode.exists /\ BaseNode.hypervisorLabel /\ BaseNode.ending = "no"
    /\ \A g \in Groups :
          /\ g.controllers \subseteq Controllers
          /\ \A f \in DOMAIN g.values :
                /\ f \in DOMAIN BaseNode \ {"exists"}
                /\ \A v \in g.values[f] : [BaseNode EXCEPT ![f] = v] \in Nodes
    /\ Faults \subseteq FaultKinds
    /\ MaxFaults \in Nat /\ MaxEdits \in Nat

VARIABLES
    group,    \* of Groups, the one of this behaviour
    node,     \* the Node
    agents,   \* do agent pods that the taint would drive out run on it?
    versions, \* of the Hypervisor: the informer's copy first, the API server's last
    cert,     \* the Certificate
    queue,    \* the controllers whose work queue holds the host, and "poll" while
              \* the hypervisor controller is to be called again after a while
    pass,     \* [Controllers -> the reconcile in progress]
    edits, faults

vars == <<group, node, agents, versions, cert, queue, pass, edits, faults>>

\* Only nodes with the label of a hypervisor raise events.
Watched == node.exists /\ node.hypervisorLabel

Cached == Head(versions)
Hv == versions[Len(versions)]

NoNode == [BaseNode EXCEPT !.exists = FALSE]

\* Conditions: "None" while absent.  Onboarding by its reason, Ready too.
Status == [internalIP : STRING \cup {""}, terminating : {"None", "True"},
           agentPodsEvicted : {"None", "True", "False"},
           onboarding : {"None", "Running", "Aborted", "Succeeded"},
           evicting : {"None", "True", "False"}, offboarded : BOOLEAN,
           ready : {"None", "Offboarded", "Terminating", "Onboarding", "Evicting",
                    "Evicted", "Maintenance", "Ready"},
           tainted : [status : {"None", "True", "False"}, gen : Nat]]

NoStatus == [internalIP |-> "", terminating |-> "None", agentPodsEvicted |-> "None",
             onboarding |-> "None", evicting |-> "None", offboarded |-> FALSE,
             ready |-> "None", tainted |-> [status |-> "None", gen |-> 0]]

\* A status in which the fields of set are new.
Updated(status, set) ==
    [f \in DOMAIN status |-> IF f \in DOMAIN set THEN set[f] ELSE status[f]]

NoSpec == [lifecycleEnabled |-> FALSE, skipTests |-> FALSE, aggregates |-> {},
           customTraits |-> {}, maintenance |-> "unset"]

\* kubectl: has it written to the resource, and to its spec?
NoHypervisor == [exists |-> FALSE, zone |-> "none", kubectl |-> "no", gen |-> 0,
                 spec |-> NoSpec, status |-> NoStatus]

NoCert == [dnsNames |-> {}, ipAddresses |-> {}]

Idle == [pc |-> "idle", node |-> NoNode, base |-> NoHypervisor, set |-> <<>>, poll |-> FALSE]

Disturb(kind) == /\ kind \in Faults
                 /\ faults < MaxFaults
                 /\ faults' = faults + 1

Edit == edits < MaxEdits /\ edits' = edits + 1 /\ UNCHANGED faults

-----------------------------------------------------------------------------
(* The API server and the watch.                                           *)

\* A write that changes nothing makes no version.
Write(new) == versions' = IF new = Hv THEN versions ELSE Append(versions, new)

SpecBecomes(h, spec) ==
    [h EXCEPT !.spec = spec, !.gen = IF spec = h.spec THEN @ ELSE @ + 1]

\* Mutation: only the status wakes the ready controller.
StatusChangedPredicateStatusOnly(old, new) ==
    new.exists /\ (~ old.exists \/ old.status # new.status)

StatusChangedPredicate(old, new) ==
    new.exists /\ (~ old.exists \/ old.status # new.status
                      \/ old.spec.maintenance # new.spec.maintenance)

GenerationChangedPredicate(old, new) == old.exists # new.exists \/ old.gen # new.gen

Enqueue(cs) == queue' = queue \cup (cs \cap group.controllers)

\* The informer's copy moves on by one version.
WatchDelivers ==
    /\ Len(versions) > 1
    /\ versions' = Tail(versions)
    /\ LET old == versions[1]  new == versions[2]
       IN  Enqueue((IF StatusChangedPredicate(old, new) THEN {"ready"} ELSE {})
                       \cup (IF GenerationChangedPredicate(old, new) THEN {"taint"} ELSE {}))
    /\ UNCHANGED <<node, agents, cert, pass, edits, faults>>

\* Nobody works on the host, nobody is about to, and the informer is up to date.
Quiet == /\ \A c \in Controllers : pass[c].pc = "idle"
         /\ queue \subseteq {"poll"} /\ Len(versions) = 1

-----------------------------------------------------------------------------
(* A pass.                                                                 *)

Start(c) == /\ c \in queue /\ pass[c].pc = "idle"
            /\ queue' = queue \ {c}
            /\ UNCHANGED <<node, agents, versions, cert, edits, faults>>

At(c, pc) == /\ pass[c].pc = pc
             /\ UNCHANGED <<node, agents, edits>>

Goto(c, p) == pass' = [pass EXCEPT ![c] = p]

\* It ends: for good, with an error, or to be called again after a while.
End(c, next) == Goto(c, Idle) /\ queue' = queue \cup next
Done == {}
Poll(poll) == IF poll THEN {"poll"} ELSE {}

\* PatchHypervisorStatusWithRetry: the informer's copy is read ...
PatchStatus(set, poll) ==
    [Idle EXCEPT !.pc = "get", !.set = set, !.poll = poll]

statusGet(c) ==
    /\ At(c, "get")
    /\ IF Cached.exists
       THEN Goto(c, [pass[c] EXCEPT !.pc = "patch", !.base = Cached]) /\ UNCHANGED queue
       ELSE End(c, {c})
    /\ UNCHANGED <<versions, cert, faults>>

\* Mutation: the patch does not name the version it started from.
statusPatchForced(c) ==
    /\ At(c, "patch")
    /\ Write([Hv EXCEPT !.status = Updated(pass[c].base.status, pass[c].set)])
    /\ End(c, Poll(pass[c].poll))
    /\ UNCHANGED <<cert, faults>>

\* ... and a patch of it is refused if it is not the latest version, which
\* is tried ten times.
statusPatch(c) ==
    /\ At(c, "patch")
    /\ \/ /\ pass[c].base = Hv
          /\ Write([Hv EXCEPT !.status = Updated(@, pass[c].set)])
          /\ End(c, Poll(pass[c].poll))
       \/ /\ pass[c].base # Hv
          /\ \/ Hv.exists /\ Goto(c, [pass[c] EXCEPT !.pc = "get"]) /\ UNCHANGED queue
             \/ End(c, {c})
          /\ UNCHANGED versions
    /\ UNCHANGED <<cert, faults>>

-----------------------------------------------------------------------------
(* The hypervisor controller.                                              *)

\* The names in the annotation, and the zone, which has an aggregate of its own.
transportAggregates(n, aggregates) ==
    IF n.aggregates = {"none"} THEN aggregates ELSE n.aggregates \cup ({n.zone} \ {"none"})

\* What the node does not say leaves the Hypervisor as it is.
syncLabelsAndAnnotations(n, h) ==
    [SpecBecomes(h,
        [h.spec EXCEPT
           !.lifecycleEnabled = @ \/ n.lifecycle # "none",
           !.skipTests = IF n.lifecycle = "none" THEN @ ELSE n.lifecycle = "skip-tests",
           !.aggregates = transportAggregates(n, @),
           !.customTraits = IF n.customTraits = {"none"} THEN @ ELSE n.customTraits])
     EXCEPT !.zone = IF n.zone = "none" THEN @ ELSE n.zone]

\* Mutation: only Gardener's condition counts.
TerminatingCondition(n) == n.ending = "condition"

\* By Gardener's condition or by the deletion timestamp.
Terminating(n) == n.ending # "no"

\* The first internal address that differs from the one reported: with two
\* of them, the report takes turns.
internalIP(n, ip) ==
    LET other == {i \in DOMAIN n.addresses : /\ n.addresses[i].type = "InternalIP"
                                             /\ n.addresses[i].address # ip}
    IN  IF other = {} THEN ip ELSE n.addresses[Min(other)].address

\* Mutation: a pass with a status to write leaves the spec alone.
hcReconcileStatusFirst ==
    /\ Start("hypervisor")
    /\ Goto("hypervisor",
            IF ~ node.exists THEN Idle
            ELSE [Idle EXCEPT !.node = node, !.base = Cached,
                              !.pc = IF ~ Cached.exists THEN "create"
                                     ELSE IF Cached.status.internalIP # internalIP(node, Cached.status.internalIP)
                                          THEN "status"
                                     ELSE IF syncLabelsAndAnnotations(node, Cached) # Cached
                                          THEN "spec" ELSE "status"])

\* Spec and metadata come first, then the status.
hcReconcile ==
    /\ Start("hypervisor")
    /\ Goto("hypervisor",
            IF ~ node.exists THEN Idle
            ELSE [Idle EXCEPT !.node = node, !.base = Cached,
                              !.pc = IF ~ Cached.exists THEN "create"
                                     ELSE IF syncLabelsAndAnnotations(node, Cached) # Cached
                                          THEN "spec" ELSE "status"])

\* An informer that lags has it created twice, which the API server refuses.
hcCreate ==
    /\ At("hypervisor", "create")
    /\ IF Hv.exists
       THEN End("hypervisor", {"hypervisor"}) /\ UNCHANGED versions
       ELSE /\ LET n == pass["hypervisor"].node
                   new == syncLabelsAndAnnotations(n, [NoHypervisor EXCEPT !.exists = TRUE])
               IN  Write([new EXCEPT !.gen = 1, !.spec.maintenance =
                            IF Terminating(n) THEN "termination" ELSE "unset"])
            /\ End("hypervisor", Done)
    /\ UNCHANGED <<cert, faults>>

\* The validation rule of the CRD: "spec is immutable when maintenance is
\* 'termination'; can only change maintenance to 'ha'".
Immutable(old, spec) ==
    old.maintenance = "termination" /\ spec.maintenance # "ha" /\ spec # old

hcPatchSpec ==
    /\ At("hypervisor", "spec")
    /\ LET p == pass["hypervisor"]
           new == syncLabelsAndAnnotations(p.node, p.base)
       IN  IF p.base # Hv \/ Immutable(Hv.spec, new.spec)
           THEN End("hypervisor", {"hypervisor"}) /\ UNCHANGED versions
           ELSE /\ Write(new)
                /\ Goto("hypervisor", [p EXCEPT !.pc = "status", !.base = new])
                /\ UNCHANGED queue
    /\ UNCHANGED <<cert, faults>>

LooksForAgents(n, h) ==
    /\ h.spec.maintenance = "termination" /\ h.status.evicting = "False"
    /\ n.taint

\* The status is computed from the copy, and what this controller owns of it
\* is kept for the patch.  Without a watch on pods it polls for their end.
hcStatus ==
    /\ At("hypervisor", "status")
    /\ LET p == pass["hypervisor"]
           old == p.base.status
           look == LooksForAgents(p.node, p.base)
           mine == [internalIP |-> internalIP(p.node, old.internalIP),
                    terminating |-> IF Terminating(p.node) THEN "True" ELSE old.terminating,
                    agentPodsEvicted |-> IF ~ look THEN old.agentPodsEvicted
                                         ELSE IF agents THEN "False" ELSE "True"]
           written == {f \in DOMAIN mine : f = "internalIP" \/ mine[f] # "None"}
           poll == look /\ agents
       IN  IF Updated(old, mine) = old
           THEN End("hypervisor", Poll(poll))
           ELSE /\ Goto("hypervisor", PatchStatus([f \in written |-> mine[f]], poll))
                /\ UNCHANGED queue
    /\ UNCHANGED <<versions, cert, faults>>

-----------------------------------------------------------------------------
(* The ready controller.                                                   *)

\* The first that applies.
ComputeReadyCondition(h) ==
    LET s == h.status
    IN  IF s.offboarded THEN "Offboarded"
        ELSE IF s.terminating = "True" THEN "Terminating"
        ELSE IF s.onboarding = "Running" THEN "Onboarding"
        ELSE IF h.spec.maintenance # "unset"
             THEN CASE s.evicting = "True" -> "Evicting"
                    [] s.evicting = "False" -> "Evicted"
                    [] s.evicting = "None" -> "Maintenance"
        ELSE IF s.onboarding = "Succeeded" THEN "Ready" ELSE "Onboarding"

readyReconcile ==
    /\ Start("ready")
    /\ LET now == ComputeReadyCondition(Cached)
       IN  Goto("ready", IF ~ Cached.exists \/ Cached.status.ready = now
                         THEN Idle ELSE PatchStatus([ready |-> now], FALSE))

-----------------------------------------------------------------------------
(* The taint controller.                                                   *)

HasKubectlManagedFields(h) == h.kubectl # "no"

\* Mutation: the condition is written once and does not follow the spec.
taintReconcileOnce ==
    /\ Start("taint")
    /\ Goto("taint", IF ~ Cached.exists \/ Cached.status.tainted.gen > 0 THEN Idle
                     ELSE PatchStatus([tainted |-> [status |-> "False", gen |-> Cached.gen]], FALSE))

taintReconcile ==
    /\ Start("taint")
    /\ LET now == [status |-> IF HasKubectlManagedFields(Cached) THEN "True" ELSE "False",
                   gen |-> Cached.gen]
       IN  Goto("taint", IF ~ Cached.exists \/ Cached.status.tainted = now
                         THEN Idle ELSE PatchStatus([tainted |-> now], FALSE))

-----------------------------------------------------------------------------
(* The certificate controller.                                             *)

\* Mutation: every address that parses.
parseRoutableIPAny(address) ==
    IF address \in DOMAIN Unmap THEN {Unmap[address]} ELSE {}

\* An IPv6 address that stands for an IPv4 one is that one.
parseRoutableIP(address) ==
    IF address \in DOMAIN Unmap THEN {Unmap[address]} \cap GlobalUnicast ELSE {}

\* Mutation: what is included cannot be excluded.
addInterfaceAddressesIncluded(n) ==
    UNION {UNION {parseRoutableIP(a) : a \in i.addresses} :
              i \in {j \in n.interfaces : j.name \in Include}}

\* The interfaces of the annotation; one that cannot be read has none.
addInterfaceAddresses(n) ==
    UNION {UNION {parseRoutableIP(a) : a \in i.addresses} :
              i \in {j \in n.interfaces : j.name \in Include \ Exclude}}

\* Nothing that is empty is a name, or parses as an address.
ensureCertificate(n) ==
    LET entries == {n.addresses[i] : i \in DOMAIN n.addresses}
    IN  [dnsNames |-> {"node"} \cup
             {e.address :
                 e \in {d \in entries : /\ d.address # ""
                                        /\ d.type \in {"Hostname", "InternalDNS", "ExternalDNS"}}},
         ipAddresses |-> addInterfaceAddresses(n) \cup
             UNION {parseRoutableIP(e.address) :
                       e \in {d \in entries : d.type \in {"InternalIP", "ExternalIP"}}}]

certReconcile ==
    /\ Start("certificate")
    /\ Goto("certificate", IF ~ node.exists THEN Idle
                           ELSE [Idle EXCEPT !.pc = "apply", !.set = ensureCertificate(node)])

certApply ==
    /\ At("certificate", "apply")
    /\ cert' = pass["certificate"].set
    /\ End("certificate", Done)
    /\ UNCHANGED <<versions, faults>>

-----------------------------------------------------------------------------
(* Failures.                                                               *)

apiError(c) ==
    /\ \/ pass[c].pc \in {"create", "spec", "patch", "apply"}
       \/ pass[c].pc = "status" /\ LooksForAgents(pass[c].node, pass[c].base)
    /\ Disturb("api_error")
    /\ End(c, {c})
    /\ UNCHANGED <<node, agents, versions, cert, edits>>

\* The successor of the process lists everything there is.
Crash ==
    /\ \E c \in Controllers : pass[c].pc # "idle"
    /\ Disturb("crash")
    /\ pass' = [c \in Controllers |-> Idle]
    /\ versions' = <<Hv>>
    /\ queue' = ((IF Watched THEN {"hypervisor", "certificate"} ELSE {})
                    \cup (IF Hv.exists THEN {"ready", "taint"} ELSE {})) \cap group.controllers
    /\ UNCHANGED <<node, agents, cert, edits>>

\* The while is over.  It is long against the passes it lies between.
pollAgain ==
    /\ "poll" \in queue /\ Quiet
    /\ queue' = {"hypervisor"}
    /\ UNCHANGED <<node, agents, versions, cert, pass, edits, faults>>

HcPass == pollAgain \/ hcReconcile \/ hcCreate \/ hcPatchSpec \/ hcStatus
Pass(c) == \/ c = "hypervisor" /\ HcPass
           \/ c = "ready" /\ readyReconcile
           \/ c = "taint" /\ taintReconcile
           \/ c = "certificate" /\ (certReconcile \/ certApply)
           \/ statusGet(c) \/ statusPatch(c)

-----------------------------------------------------------------------------
(* The node (external) and the other writers of the Hypervisor.            *)

NodeEvent(n) == Enqueue(IF n.hypervisorLabel THEN {"hypervisor", "certificate"} ELSE {})

NodeBecomes(n) == node' = n /\ UNCHANGED <<versions, cert, pass>>

nodeJoins ==
    /\ ~ node.exists /\ Edit
    /\ NodeBecomes(BaseNode) /\ NodeEvent(BaseNode)
    /\ agents' = TRUE

\* A deletion cannot be taken back, a condition can.
nodeChanges(f, v) ==
    /\ node.exists /\ node[f] # v /\ Edit
    /\ ~ (f = "ending" /\ node.ending = "deletion")
    /\ LET n == [node EXCEPT ![f] = v]
       IN  NodeBecomes(n) /\ NodeEvent(n)
    /\ UNCHANGED agents

nodeGoes ==
    /\ node.ending = "deletion" /\ Edit
    /\ NodeBecomes(NoNode) /\ NodeEvent(node)
    /\ agents' = FALSE

\* The kubelet reports whether or not anything changed, at a pace at which
\* everybody is done with the last report.
kubeletReports ==
    /\ Watched /\ Quiet
    /\ NodeEvent(node)
    /\ UNCHANGED <<node, agents, versions, cert, pass, edits, faults>>

agentsLeave ==
    /\ agents /\ node.taint
    /\ agents' = FALSE
    /\ UNCHANGED <<node, versions, cert, queue, pass, edits, faults>>

\* What the node owns goes with it.
garbageCollector ==
    /\ ~ node.exists /\ (Hv.exists \/ cert # NoCert)
    /\ Write(NoHypervisor)
    /\ cert' = NoCert
    /\ UNCHANGED <<node, agents, queue, pass, edits, faults>>

Others(new) == /\ Hv.exists /\ new # Hv /\ Edit
               /\ Write(new)
               /\ UNCHANGED <<node, agents, cert, queue, pass>>

\* The onboarding, the maintenance and the offboarding controller report
\* conditions of their own.
onboardingReports(v) ==
    /\ v \in CASE Hv.status.onboarding = "None" -> {"Running"}
               [] Hv.status.onboarding = "Running" -> {"Succeeded", "Aborted"}
               [] OTHER -> {}
    /\ Hv.spec.lifecycleEnabled
    /\ Others([Hv EXCEPT !.status.onboarding = v])

maintenanceReports(v) ==
    /\ v = CASE Hv.spec.maintenance \in {"unset", "ha"} -> "None"
             [] Hv.spec.maintenance \notin {"unset", "ha"} /\ Hv.status.evicting = "None" -> "True"
             [] OTHER -> "False"
    /\ Hv.status.onboarding # "Running"
    /\ Others([Hv EXCEPT !.status.evicting = v])

offboardingReports ==
    /\ Hv.spec.maintenance = "termination" /\ Hv.spec.lifecycleEnabled
    /\ Hv.status.agentPodsEvicted = "True"
    /\ Others([Hv EXCEPT !.status.offboarded = TRUE])

\* Somebody asks for maintenance, with kubectl or through another client.
setMaintenance(mode, kubectl) ==
    /\ ~ Immutable(Hv.spec, [Hv.spec EXCEPT !.maintenance = mode])
    /\ mode # Hv.spec.maintenance
    /\ Others([SpecBecomes(Hv, [Hv.spec EXCEPT !.maintenance = mode])
                 EXCEPT !.kubectl = IF kubectl THEN "spec" ELSE @])

\* An edit of a label leaves the generation alone.
kubectlLabel ==
    /\ Hv.kubectl = "no"
    /\ Others([Hv EXCEPT !.kubectl = "metadata"])

Environment ==
    \/ nodeJoins \/ nodeGoes \/ kubeletReports \/ agentsLeave \/ garbageCollector
    \/ \E f \in DOMAIN group.values : \E v \in group.values[f] : nodeChanges(f, v)
    \/ \E v \in {"Running", "Aborted", "Succeeded"} : onboardingReports(v)
    \/ \E v \in {"None", "True", "False"} : maintenanceReports(v)
    \/ offboardingReports \/ kubectlLabel
    \/ \E mode \in {"unset", "manual", "termination", "ha"}, k \in BOOLEAN : setMaintenance(mode, k)

-----------------------------------------------------------------------------
\* A host in service, whose node carries what it started with.
InService ==
    LET h == syncLabelsAndAnnotations(BaseNode, [NoHypervisor EXCEPT !.exists = TRUE])
        set == [internalIP |-> internalIP(BaseNode, ""), onboarding |-> "Succeeded",
                ready |-> "Ready", tainted |-> [status |-> "False", gen |-> 1]]
    IN  [h EXCEPT !.gen = 1, !.status = Updated(@, set)]

\* The same, in the middle of its onboarding, ...
InTest == [InService EXCEPT !.status.onboarding = "Running", !.status.ready = "Onboarding"]

\* ... or drained before its termination.
Drained == [SpecBecomes(InService, [InService.spec EXCEPT !.maintenance = "termination"]) EXCEPT
               !.status.evicting = "False", !.status.ready = "Evicted", !.status.tainted.gen = 2]

Init == /\ \/ node = NoNode /\ agents = FALSE /\ versions = <<NoHypervisor>> /\ cert = NoCert
           \/ node = BaseNode /\ agents = TRUE /\ versions \in {<<InService>>, <<InTest>>, <<Drained>>}
                /\ cert = ensureCertificate(BaseNode)
        /\ group \in Groups
        /\ queue = {}
        /\ pass = [c \in Controllers |-> Idle]
        /\ edits = 0 /\ faults = 0

Next == /\ \/ WatchDelivers
           \/ \E c \in Controllers : Pass(c) \/ apiError(c)
           \/ Crash
           \/ Environment
        /\ UNCHANGED group

Spec == Init /\ [][Next]_vars

\* Queues are served, passes run to their end, the watch delivers and the
\* kubelet reports.  Nobody else has to do anything.
FairSpec == /\ Spec
            /\ \A c \in Controllers : WF_vars(Pass(c) /\ UNCHANGED group)
            /\ WF_vars(WatchDelivers /\ UNCHANGED group)
            /\ WF_vars(kubeletReports /\ UNCHANGED group)

-----------------------------------------------------------------------------
(* Type invariant of the four controllers and what they share.             *)
TypeOK ==
    /\ DOMAIN node = DOMAIN BaseNode
    /\ \A f \in DOMAIN node \ {"exists"} :
          node[f] = BaseNode[f] \/ (f \in DOMAIN group.values /\ node[f] \in group.values[f])
    /\ agents \in BOOLEAN
    /\ versions # <<>>
    /\ \A i \in DOMAIN versions :
          /\ versions[i].status \in Status
          /\ versions[i].kubectl \in {"no", "metadata", "spec"}
          /\ versions[i].exists <=> versions[i].gen > 0
    /\ cert.ipAddresses \subseteq GlobalUnicast
    /\ queue \subseteq group.controllers \cup {"poll"}
    /\ \A c \in Controllers :
          pass[c].pc \in {"idle", "create", "spec", "status", "get", "patch", "apply"}
    /\ edits \in 0..MaxEdits /\ faults \in 0..MaxFaults

\* The API server will not take what the node says now.
Refused == Hv.exists /\ Immutable(Hv.spec, syncLabelsAndAnnotations(node, Hv).spec)

\* What the node says is in the spec.
Mirrored ==
    /\ Hv.exists
    /\ node.lifecycle # "none" =>
          Hv.spec.lifecycleEnabled /\ (Hv.spec.skipTests <=> node.lifecycle = "skip-tests")
    /\ node.aggregates # {"none"} =>
          \A a \in Hv.spec.aggregates \cup node.aggregates \cup {node.zone} :
              a \in Hv.spec.aggregates <=> a # "none" /\ (a \in node.aggregates \/ a = node.zone)
    /\ node.customTraits # {"none"} => Hv.spec.customTraits = node.customTraits
    /\ node.zone # "none" => Hv.zone = node.zone

\* "This must run on every reconcile, including those where status will also
\* change; otherwise the Hypervisor spec/labels go stale."  What the node says
\* gets into the spec, through conflicts, failures, restarts and copies that
\* lag.  Not always before everybody rests: whether to patch is decided by a
\* comparison with the informer's copy, so that it may take the kubelet's next
\* report to repair what an old copy has hidden.
SpecFollowsNode ==
    Watched /\ "hypervisor" \in group.controllers ~> ~ Watched \/ Refused \/ Mirrored

\* The ready controller computes its condition from one version and writes it
\* into a later one.  At rest Ready still says what the conditions next to it
\* and spec.maintenance add up to.
ReadyIsCurrent ==
    Quiet /\ Hv.exists /\ "ready" \in group.controllers =>
        /\ Hv.status.ready = "Ready" <=>
              /\ Hv.status.onboarding = "Succeeded" /\ Hv.spec.maintenance = "unset"
              /\ Hv.status.terminating = "None" /\ ~ Hv.status.offboarded
        /\ Hv.status.ready \in {"Evicting", "Evicted"} => Hv.status.evicting # "None"
        /\ Hv.status.offboarded => Hv.status.ready = "Offboarded"

\* "Only mutate fields this controller owns": the status is written as a
\* whole by many, and no write undoes what another one has reported.
NoUpdateIsLost ==
    [][ Hv.exists /\ Hv'.exists =>
          \E owned \in {{"internalIP", "terminating", "agentPodsEvicted"}, {"ready"}, {"tainted"},
                        {"onboarding"}, {"evicting"}, {"offboarded"}} :
              \A f \in DOMAIN Hv.status \ owned : Hv'.status[f] = Hv.status[f] ]_vars

\* At rest every generation of the spec has been looked at, and one that
\* kubectl wrote is marked.
TaintIsObserved ==
    Quiet /\ Hv.exists /\ "taint" \in group.controllers =>
        /\ Hv.status.tainted.gen = Hv.gen
        /\ Hv.kubectl = "spec" => Hv.status.tainted.status = "True"
        /\ Hv.kubectl = "no" => Hv.status.tainted.status = "False"

\* "The exclude regex wins", and an annotation that cannot be read does not
\* keep the node's own addresses out: at rest the certificate lists a routable
\* address if and only if the node or an admitted interface has it, every name
\* of the node, and besides the compute host no other.
CertificateIsCurrent ==
    Quiet /\ Watched /\ "certificate" \in group.controllers =>
        /\ \A ip \in GlobalUnicast :
              ip \in cert.ipAddresses <=>
                  \E a \in DOMAIN Unmap :
                      /\ Unmap[a] = ip
                      /\ \/ \E i \in DOMAIN node.addresses :
                               /\ node.addresses[i].address = a
                               /\ node.addresses[i].type \in {"InternalIP", "ExternalIP"}
                         \/ \E i \in node.interfaces :
                               a \in i.addresses /\ i.name \in Include /\ i.name \notin Exclude
        /\ "node" \in cert.dnsNames
        /\ \A i \in DOMAIN node.addresses :
              /\ node.addresses[i].address # ""
              /\ node.addresses[i].type \in {"Hostname", "InternalDNS", "ExternalDNS"}
              => node.addresses[i].address \in cert.dnsNames
        /\ \A name \in cert.dnsNames \ {"node"} :
              \E i \in DOMAIN node.addresses :
                  /\ node.addresses[i].address = name
                  /\ node.addresses[i].type \in {"Hostname", "InternalDNS", "ExternalDNS"}

\* The end of a node shows in Ready, whichever way it was announced and
\* whatever else was reported at the time, unless the spec can no longer take
\* what the node says: then nothing of the node is mirrored any more.
TerminationShows ==
    Watched /\ node.ending # "no" /\ {"hypervisor", "ready"} \subseteq group.controllers ~>
        \/ ~ Watched \/ node.ending = "no" \/ Refused
        \/ Hv.status.ready \in {"Terminating", "Offboarded"}

=============================================================================
