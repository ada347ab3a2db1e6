---------------------------- MODULE MirrorProofs ----------------------------
(***************************************************************************)
(* Theorems about Mirror: its type invariant, that no report is lost, and  *)
(* that Ready, Tainted and the Certificate are current at rest.            *)
(*                                                                         *)
(* They hold for every node, every group of controllers, any number of     *)
(* changes and failures, and a copy that lags by any number of versions;   *)
(* what is said of Tainted, for nodes that are not replaced.               *)
(* What keeps the at-rest properties is one argument, used twice: if all   *)
(* versions the informer has yet to deliver agree with the last one in     *)
(* what a controller is woken by, and the controller is not queued, then   *)
(* its report is right or its pass is about to write the right one; if     *)
(* one of them does not agree, its delivery will wake the controller.  No  *)
(* induction over the sequence is needed.                                  *)
(***************************************************************************)
EXTENDS Mirror, WellFoundedInduction, TLAPS

-----------------------------------------------------------------------------
(* Types.                                                                  *)

Specs == [lifecycleEnabled : BOOLEAN, skipTests : BOOLEAN, aggregates : SUBSET STRING,
          customTraits : SUBSET STRING, maintenance : {"unset", "manual", "termination", "ha"}]

Hypervisors == [exists : BOOLEAN, zone : STRING \cup {"none"}, kubectl : {"no", "metadata", "spec"},
                gen : Nat, spec : Specs, status : Status]

\* A version of the resource, or of its absence.
Versions == {h \in Hypervisors : h.exists <=> h.gen > 0}

StatusFields == {"internalIP", "terminating", "agentPodsEvicted", "onboarding", "evicting",
                 "offboarded", "ready", "tainted"}

\* The fields of the status a pass may write.
Owned(c) == CASE c = "hypervisor" -> {"internalIP", "terminating", "agentPodsEvicted"}
              [] c = "ready" -> {"ready"}
              [] c = "taint" -> {"tainted"}
              [] c = "certificate" -> {}

Owners == {{"internalIP", "terminating", "agentPodsEvicted"}, {"ready"}, {"tainted"},
           {"onboarding"}, {"evicting"}, {"offboarded"}}

SetOK(c, set) == /\ DOMAIN set \subseteq Owned(c)
                 /\ \A s \in Status : Updated(s, set) \in Status

\* Where the pass of a controller can be.
Places(c) == CASE c = "hypervisor" -> {"idle", "create", "spec", "status", "get", "patch"}
               [] c = "ready" -> {"idle", "get", "patch"}
               [] c = "taint" -> {"idle", "get", "patch"}
               [] c = "certificate" -> {"idle", "apply"}

PassOK(c, p) ==
    /\ DOMAIN p = {"pc", "node", "base", "set", "poll"}
    /\ p.pc \in Places(c) /\ p.node \in Nodes /\ p.base \in Versions /\ p.poll \in BOOLEAN
    /\ p.pc # "idle" => c \in group.controllers
    /\ p.poll => c = "hypervisor"
    /\ p.pc \in {"spec", "status", "patch"} => p.base.exists
    /\ p.pc \in {"get", "patch"} => SetOK(c, p.set)
    /\ p.pc = "apply" => p.set.ipAddresses \subseteq GlobalUnicast

NodeOK == /\ node \in Nodes
          /\ \A f \in DOMAIN BaseNode \ {"exists"} :
                node[f] = BaseNode[f] \/ (f \in DOMAIN group.values /\ node[f] \in group.values[f])

VersionsOK == versions \in Seq(Versions) /\ versions # <<>>

QueueOK == /\ queue \subseteq group.controllers \cup {"poll"}
           /\ "poll" \in queue => "hypervisor" \in group.controllers

PassesOK == DOMAIN pass = Controllers /\ \A c \in Controllers : PassOK(c, pass[c])

CountsOK == edits \in 0..MaxEdits /\ faults \in 0..MaxFaults

TypeInv == /\ group \in Groups /\ agents \in BOOLEAN /\ cert.ipAddresses \subseteq GlobalUnicast
           /\ NodeOK /\ VersionsOK /\ QueueOK /\ PassesOK /\ CountsOK

-----------------------------------------------------------------------------
(* The certificate.                                                        *)

CertInv ==
    Watched /\ "certificate" \in group.controllers /\ "certificate" \notin queue =>
        IF pass["certificate"].pc = "idle" THEN cert = ensureCertificate(node)
                                           ELSE pass["certificate"].set = ensureCertificate(node)

-----------------------------------------------------------------------------
(* Ready.                                                                  *)

\* What the ready controller reads of a version is what the last one says.
SameReads(h, last) == h.exists /\ h.status = last.status /\ h.spec.maintenance = last.spec.maintenance

ReadyInv ==
    /\ "ready" \in group.controllers /\ "ready" \notin queue /\ Hv.exists
    /\ \A i \in DOMAIN versions : SameReads(versions[i], Hv)
    => IF pass["ready"].pc = "idle"
       THEN Hv.status.ready = ComputeReadyCondition(Hv)
       ELSE /\ pass["ready"].set = [ready |-> ComputeReadyCondition(Hv)]
            /\ Hv.status.ready # ComputeReadyCondition(Hv)

-----------------------------------------------------------------------------
(* Tainted.                                                                *)

SameGen(h, last) == h.exists /\ h.gen = last.gen

\* As long as the generation stays, kubectl has edited labels at most.
KubectlStays(old, new) == /\ old.kubectl = "spec" <=> new.kubectl = "spec"
                          /\ new.kubectl = "no" => old.kubectl = "no"

KubectlInv ==
    Hv.exists => \A i \in DOMAIN versions :
        (\A j \in DOMAIN versions : j >= i => SameGen(versions[j], Hv)) => KubectlStays(versions[i], Hv)

\* A mark for the generation of h is right about kubectl.
Right(t, h) == t.gen = h.gen => /\ h.kubectl = "spec" => t.status = "True"
                                /\ h.kubectl = "no" => t.status = "False"

TaintRuns == pass["taint"].pc # "idle"
Mark == pass["taint"].set.tainted

\* Generations grow along the versions, a mark is for a generation that has
\* been delivered, and no mark replaces one for a later generation.
GenInv ==
    /\ \A i, j \in DOMAIN versions : i <= j => versions[i].gen <= versions[j].gen
    /\ \A i \in DOMAIN versions : /\ versions[i].status.tainted.gen <= Cached.gen
                                  /\ versions[i].status.tainted.gen <= Hv.status.tainted.gen
    /\ TaintRuns => /\ DOMAIN pass["taint"].set = {"tainted"} /\ Mark \in [status : {"None", "True", "False"}, gen : Nat]
                    /\ Mark.gen <= Cached.gen /\ Mark.gen >= Hv.status.tainted.gen

\* The mark that is written, and the one about to be, are right.
RightInv ==
    Hv.exists => /\ Right(Hv.status.tainted, Hv)
                 /\ TaintRuns => Right(Mark, Hv)

\* The mark is for the last generation, or about to be, unless the controller
\* is going to be woken.
TaintInv ==
    /\ "taint" \in group.controllers /\ "taint" \notin queue /\ Hv.exists
    /\ \A i \in DOMAIN versions : SameGen(versions[i], Hv)
    => IF TaintRuns THEN Mark.gen = Hv.gen ELSE Hv.status.tainted.gen = Hv.gen

\* Where Tainted is looked at, no node is deleted (and another created under its
\* name): its Hypervisor is never taken away.  Without this a pass that began in
\* the life of one Hypervisor may write its mark into the next one.
NodesStay == \A g \in Groups :
    "taint" \in g.controllers /\ "ending" \in DOMAIN g.values => "deletion" \notin g.values["ending"]

\* Without a node there is no Hypervisor, and none will be made.
LifeInv == ~ node.exists => ~ Hv.exists /\ pass["hypervisor"].pc # "create"

-----------------------------------------------------------------------------
(* Operators.                                                              *)

\* A new spec raises the generation, the same one does not.
LEMMA SpecBecomesOK ==
    ASSUME NEW h \in Hypervisors, NEW spec \in Specs
    PROVE  /\ SpecBecomes(h, spec) \in Hypervisors
           /\ SpecBecomes(h, spec) = [h EXCEPT !.spec = spec,
                                              !.gen = IF spec = h.spec THEN h.gen ELSE h.gen + 1]
  <1> DEFINE gen == IF spec = h.spec THEN h.gen ELSE h.gen + 1
  <1>1. gen \in Nat
    BY DEF Hypervisors
  <1>2. SpecBecomes(h, spec) = [h EXCEPT !.spec = spec, !.gen = gen]
    BY DEF SpecBecomes, Hypervisors
  <1> HIDE DEF gen
  <1>3. [h EXCEPT !.spec = spec, !.gen = gen] \in Hypervisors
    BY <1>1 DEF Hypervisors
  <1> QED
    BY <1>2, <1>3 DEF gen

\* What the node says makes a spec of a spec, and leaves spec.maintenance alone.
LEMMA SyncSpec ==
    ASSUME NEW n \in Nodes, NEW spec \in Specs
    PROVE  LET new == [spec EXCEPT
                         !.lifecycleEnabled = @ \/ n.lifecycle # "none",
                         !.skipTests = IF n.lifecycle = "none" THEN @ ELSE n.lifecycle = "skip-tests",
                         !.aggregates = transportAggregates(n, @),
                         !.customTraits = IF n.customTraits = {"none"} THEN @ ELSE n.customTraits]
           IN  new \in Specs /\ new.maintenance = spec.maintenance
  <1> DEFINE a == spec.lifecycleEnabled \/ n.lifecycle # "none"
             b == IF n.lifecycle = "none" THEN spec.skipTests ELSE n.lifecycle = "skip-tests"
             d == transportAggregates(n, spec.aggregates)
             e == IF n.customTraits = {"none"} THEN spec.customTraits ELSE n.customTraits
  <1>1. a \in BOOLEAN /\ b \in BOOLEAN
    BY DEF Specs, Nodes
  <1>2. d \in SUBSET STRING /\ e \in SUBSET STRING
    BY DEF Specs, Nodes, transportAggregates
  <1> HIDE DEF a, b, d, e
  <1>3. [spec EXCEPT !.lifecycleEnabled = a, !.skipTests = b, !.aggregates = d, !.customTraits = e] \in Specs
    BY <1>1, <1>2 DEF Specs
  <1>4. [spec EXCEPT !.lifecycleEnabled = a, !.skipTests = b, !.aggregates = d, !.customTraits = e].maintenance
            = spec.maintenance
    BY DEF Specs
  <1> QED
    BY <1>3, <1>4 DEF a, b, d, e

\* The synchronised Hypervisor differs from the old one in spec, generation and zone.
LEMMA SyncOK ==
    ASSUME NEW n \in Nodes, NEW h \in Hypervisors
    PROVE  LET new == syncLabelsAndAnnotations(n, h)
           IN  /\ new \in Hypervisors
               /\ new.exists = h.exists /\ new.kubectl = h.kubectl /\ new.status = h.status
               /\ new.spec.maintenance = h.spec.maintenance
               /\ new.gen = IF new.spec = h.spec THEN h.gen ELSE h.gen + 1
  <1> DEFINE spec == [h.spec EXCEPT
                        !.lifecycleEnabled = @ \/ n.lifecycle # "none",
                        !.skipTests = IF n.lifecycle = "none" THEN @ ELSE n.lifecycle = "skip-tests",
                        !.aggregates = transportAggregates(n, @),
                        !.customTraits = IF n.customTraits = {"none"} THEN @ ELSE n.customTraits]
             zone == IF n.zone = "none" THEN h.zone ELSE n.zone
             mid == SpecBecomes(h, spec)
  <1>1. spec \in Specs /\ spec.maintenance = h.spec.maintenance
    <2>1. h.spec \in Specs
      BY DEF Hypervisors
    <2> QED
      BY <2>1, SyncSpec
  <1>2. zone \in STRING \cup {"none"}
    BY DEF Hypervisors, Nodes
  <1>3. syncLabelsAndAnnotations(n, h) = [mid EXCEPT !.zone = IF n.zone = "none" THEN @ ELSE n.zone]
    BY DEF syncLabelsAndAnnotations
  <1> HIDE DEF spec
  <1>4. /\ mid \in Hypervisors
        /\ mid = [h EXCEPT !.spec = spec, !.gen = IF spec = h.spec THEN h.gen ELSE h.gen + 1]
    BY <1>1, SpecBecomesOK
  <1> HIDE DEF mid
  <1>5. mid.zone = h.zone
    BY <1>4 DEF Hypervisors
  <1>6. syncLabelsAndAnnotations(n, h) = [mid EXCEPT !.zone = zone]
    BY <1>3, <1>5
  <1> HIDE DEF zone
  <1> QED
    BY <1>1, <1>2, <1>4, <1>6 DEF Hypervisors

\* The smallest of some natural numbers is one of them.
LEMMA MinIsMember ==
    ASSUME NEW S, S \subseteq Nat, S # {}
    PROVE  Min(S) \in S
  <1>1. \E x \in S : \A y \in S : ~ (<<y, x>> \in OpToRel(<, Nat))
    BY NatLessThanWellFounded, WFMin, Zenon
  <1>2. PICK x \in S : \A y \in S : ~ (<<y, x>> \in OpToRel(<, Nat))
    BY <1>1
  <1>3. ASSUME NEW y \in S
        PROVE  x <= y
    <2>1. ~ (<<y, x>> \in {ss \in Nat \X Nat : ss[1] < ss[2]})
      BY <1>2 DEF OpToRel
    <2>2. <<y, x>> \in Nat \X Nat /\ <<y, x>>[1] = y /\ <<y, x>>[2] = x
      OBVIOUS
    <2> QED
      BY <2>1, <2>2
  <1> QED
    BY <1>3 DEF Min

\* The elements of a sequence over a set are in the set.
LEMMA ElementIsIn ==
    ASSUME NEW T, NEW s \in Seq(T)
    PROVE  DOMAIN s \subseteq Nat /\ \A i \in DOMAIN s : s[i] \in T
  OBVIOUS

\* The address that is reported is one of the node's, or the old one.
LEMMA InternalIPOK ==
    ASSUME NEW n \in Nodes, NEW ip \in STRING \cup {""}
    PROVE  internalIP(n, ip) \in STRING \cup {""}
  <1> DEFINE other == {i \in DOMAIN n.addresses : /\ n.addresses[i].type = "InternalIP"
                                                  /\ n.addresses[i].address # ip}
  <1>1. n.addresses \in Seq([type : STRING, address : STRING])
    BY DEF Nodes
  <1>2. other \subseteq Nat /\ other \subseteq DOMAIN n.addresses
    <2>1. DOMAIN n.addresses \subseteq Nat
      BY <1>1, ElementIsIn, Zenon
    <2> QED
      BY <2>1
  <1>3. \A i \in DOMAIN n.addresses : n.addresses[i].address \in STRING
    <2>1. \A i \in DOMAIN n.addresses : n.addresses[i] \in [type : STRING, address : STRING]
      BY <1>1, ElementIsIn, Zenon
    <2> QED
      BY <2>1
  <1>4. internalIP(n, ip) = IF other = {} THEN ip ELSE n.addresses[Min(other)].address
    BY DEF internalIP
  <1> HIDE DEF other
  <1>5. other # {} => Min(other) \in other
    BY <1>2, MinIsMember
  <1> QED
    BY <1>2, <1>3, <1>4, <1>5

\* Ready has one of seven reasons.
LEMMA ComputeOK ==
    ASSUME NEW h \in Hypervisors
    PROVE  ComputeReadyCondition(h) \in {"Offboarded", "Terminating", "Onboarding", "Evicting",
                                         "Evicted", "Maintenance", "Ready"}
  <1>1. h.status.evicting \in {"None", "True", "False"}
    BY DEF Hypervisors, Status
  <1> QED
    BY <1>1 DEF ComputeReadyCondition

\* It depends on the status and on spec.maintenance only.
LEMMA ComputeReads ==
    ASSUME NEW g, NEW h, g.status = h.status, g.spec.maintenance = h.spec.maintenance
    PROVE  ComputeReadyCondition(g) = ComputeReadyCondition(h)
  BY DEF ComputeReadyCondition

Tainteds == [status : {"None", "True", "False"}, gen : Nat]

\* A status some fields of which are new is one if the new fields are of their types.
LEMMA UpdatedOK ==
    ASSUME NEW s \in Status, NEW set,
           "internalIP" \in DOMAIN set => set["internalIP"] \in STRING \cup {""},
           "terminating" \in DOMAIN set => set["terminating"] \in {"None", "True"},
           "agentPodsEvicted" \in DOMAIN set => set["agentPodsEvicted"] \in {"None", "True", "False"},
           "ready" \in DOMAIN set =>
               set["ready"] \in {"Offboarded", "Terminating", "Onboarding", "Evicting",
                                 "Evicted", "Maintenance", "Ready"},
           "tainted" \in DOMAIN set => set["tainted"] \in Tainteds,
           "onboarding" \in DOMAIN set => set["onboarding"] \in {"None", "Running", "Aborted", "Succeeded"},
           DOMAIN set \cap {"evicting", "offboarded"} = {}
    PROVE  Updated(s, set) \in Status
  <1> DEFINE u == Updated(s, set)
  <1>1. DOMAIN s = StatusFields
    BY DEF Status, StatusFields
  <1>2. u = [f \in StatusFields |-> IF f \in DOMAIN set THEN set[f] ELSE s[f]]
    BY <1>1 DEF Updated
  <1>3. /\ u["internalIP"] \in STRING \cup {""} /\ u["terminating"] \in {"None", "True"}
        /\ u["agentPodsEvicted"] \in {"None", "True", "False"}
    BY <1>2 DEF StatusFields, Status
  <1>4. /\ u["onboarding"] \in {"None", "Running", "Aborted", "Succeeded"}
        /\ u["evicting"] = s["evicting"] /\ u["offboarded"] = s["offboarded"]
    BY <1>2 DEF StatusFields, Status
  <1>5. /\ u["ready"] \in {"None", "Offboarded", "Terminating", "Onboarding", "Evicting",
                            "Evicted", "Maintenance", "Ready"}
        /\ u["tainted"] \in Tainteds
    BY <1>2 DEF StatusFields, Status, Tainteds
  <1> HIDE DEF u
  <1>6. u = [internalIP |-> u["internalIP"], terminating |-> u["terminating"],
             agentPodsEvicted |-> u["agentPodsEvicted"], onboarding |-> u["onboarding"],
             evicting |-> u["evicting"], offboarded |-> u["offboarded"], ready |-> u["ready"],
             tainted |-> u["tainted"]]
    BY <1>2 DEF StatusFields
  <1>7. u \in Status
    BY <1>3, <1>4, <1>5, <1>6 DEF Status, Tainteds
  <1> QED
    BY <1>7 DEF u

\* The set of a ready pass.
LEMMA ReadySetOK ==
    ASSUME NEW h \in Hypervisors
    PROVE  SetOK("ready", [ready |-> ComputeReadyCondition(h)])
  <1> DEFINE set == [ready |-> ComputeReadyCondition(h)]
  <1>1. DOMAIN set = {"ready"} /\ set["ready"] = ComputeReadyCondition(h)
    OBVIOUS
  <1> HIDE DEF set
  <1>2. \A s \in Status : Updated(s, set) \in Status
    BY <1>1, ComputeOK, UpdatedOK
  <1> QED
    BY <1>1, <1>2 DEF SetOK, Owned, set

\* The set of a taint pass.
LEMMA TaintSetOK ==
    ASSUME NEW t \in Tainteds
    PROVE  SetOK("taint", [tainted |-> t])
  <1> DEFINE set == [tainted |-> t]
  <1>1. DOMAIN set = {"tainted"} /\ set["tainted"] = t
    OBVIOUS
  <1> HIDE DEF set
  <1>2. \A s \in Status : Updated(s, set) \in Status
    BY <1>1, UpdatedOK
  <1> QED
    BY <1>1, <1>2 DEF SetOK, Owned, set

\* The set of a pass of the hypervisor controller.
LEMMA HypervisorSetOK ==
    ASSUME NEW mine, NEW written,
           mine \in [internalIP : STRING \cup {""}, terminating : {"None", "True"},
                     agentPodsEvicted : {"None", "True", "False"}],
           written \subseteq DOMAIN mine
    PROVE  SetOK("hypervisor", [f \in written |-> mine[f]])
  <1> DEFINE set == [f \in written |-> mine[f]]
  <1>1. /\ DOMAIN set = written /\ written \subseteq {"internalIP", "terminating", "agentPodsEvicted"}
        /\ \A f \in written : set[f] = mine[f]
        /\ mine["internalIP"] \in STRING \cup {""} /\ mine["terminating"] \in {"None", "True"}
        /\ mine["agentPodsEvicted"] \in {"None", "True", "False"}
    OBVIOUS
  <1> HIDE DEF set
  <1>2. \A s \in Status : Updated(s, set) \in Status
    BY <1>1, UpdatedOK
  <1> QED
    BY <1>1, <1>2 DEF SetOK, Owned, set

-----------------------------------------------------------------------------
(* Versions.                                                               *)

\* The first and the last version.
LEMMA EndsOK ==
    ASSUME VersionsOK
    PROVE  /\ Hv \in Versions /\ Cached \in Versions /\ Cached = versions[1]
           /\ 1 \in DOMAIN versions /\ Len(versions) \in DOMAIN versions /\ Len(versions) \in Nat
           /\ \A i \in DOMAIN versions : i \in Nat /\ i <= Len(versions) /\ i >= 1
           /\ \A i \in DOMAIN versions : versions[i] \in Versions
  BY DEF VersionsOK, Hv, Cached

\* The sequence grows by the new version, if it is one.
LEMMA WriteDoes ==
    ASSUME VersionsOK, NEW new \in Versions, Write(new)
    PROVE  /\ VersionsOK' /\ Hv' = new
           /\ \/ versions' = versions /\ new = Hv
              \/ versions' = Append(versions, new) /\ new # Hv
  BY DEF VersionsOK, Hv, Write

\* All old versions are still there.
LEMMA AppendDoes ==
    ASSUME VersionsOK, NEW new \in Versions, versions' = Append(versions, new)
    PROVE  /\ Hv' = new /\ DOMAIN versions' = DOMAIN versions \cup {Len(versions) + 1}
           /\ Len(versions') = Len(versions) + 1 /\ versions'[Len(versions) + 1] = new
           /\ \A i \in DOMAIN versions : versions'[i] = versions[i]
           /\ VersionsOK'
  BY DEF VersionsOK, Hv

\* Delivery takes the first one away.
LEMMA TailDoes ==
    ASSUME VersionsOK, Len(versions) > 1, versions' = Tail(versions)
    PROVE  /\ VersionsOK' /\ Hv' = Hv /\ 2 \in DOMAIN versions
           /\ Len(versions') = Len(versions) - 1
           /\ \A i \in DOMAIN versions' : i + 1 \in DOMAIN versions /\ versions'[i] = versions[i + 1]
           /\ \A i \in DOMAIN versions : i # 1 => i - 1 \in DOMAIN versions' /\ versions'[i - 1] = versions[i]
  BY DEF VersionsOK, Hv

\* A restart starts from the last version.
LEMMA RelistDoes ==
    ASSUME VersionsOK, versions' = <<Hv>>
    PROVE  VersionsOK' /\ Hv' = Hv /\ DOMAIN versions' = {1} /\ versions'[1] = Hv
  BY DEF VersionsOK, Hv

-----------------------------------------------------------------------------
(* Initial states.                                                         *)

\* Nothing there yet.
LEMMA NoneOK ==
    /\ NoStatus \in Status /\ NoSpec \in Specs
    /\ NoHypervisor \in Versions /\ [NoHypervisor EXCEPT !.exists = TRUE] \in Hypervisors
    /\ NoNode \in Nodes
  <1>1. NoStatus \in Status
    BY DEF NoStatus, Status
  <1>2. NoSpec \in Specs
    BY DEF NoSpec, Specs
  <1>3. NoHypervisor \in Hypervisors
    BY <1>1, <1>2 DEF NoHypervisor, Hypervisors
  <1>4. ~ NoHypervisor.exists /\ NoHypervisor.gen = 0
    BY DEF NoHypervisor
  <1>5. [NoHypervisor EXCEPT !.exists = TRUE] \in Hypervisors
    BY <1>3, Zenon DEF Hypervisors
  <1>6. NoNode \in Nodes
    BY ConstantsAssumption, Zenon DEF NoNode, Nodes
  <1> QED
    BY <1>1, <1>2, <1>3, <1>4, <1>5, <1>6 DEF Versions

\* An idle pass.
LEMMA IdleOK ==
    ASSUME NEW c \in Controllers
    PROVE  PassOK(c, Idle)
  <1>1. /\ DOMAIN Idle = {"pc", "node", "base", "set", "poll"} /\ Idle.pc = "idle"
        /\ Idle.node = NoNode /\ Idle.base = NoHypervisor /\ Idle.poll \in BOOLEAN /\ ~ Idle.poll
    BY DEF Idle
  <1>2. "idle" \in Places(c)
    BY DEF Places, Controllers
  <1> HIDE DEF Idle
  <1> QED
    BY <1>1, <1>2, NoneOK DEF PassOK

\* The host in service.
LEMMA InServiceOK ==
    /\ InService \in Versions /\ InService.exists /\ InService.gen = 1 /\ InService.kubectl = "no"
    /\ InService.spec.maintenance = "unset"
    /\ InService.status.onboarding = "Succeeded" /\ InService.status.ready = "Ready"
    /\ InService.status.tainted = [status |-> "False", gen |-> 1]
    /\ InService.status.terminating = "None" /\ InService.status.evicting = "None"
    /\ ~ InService.status.offboarded
  <1> DEFINE new == [NoHypervisor EXCEPT !.exists = TRUE]
             h == syncLabelsAndAnnotations(BaseNode, new)
             ip == internalIP(BaseNode, "")
             set == [internalIP |-> ip, onboarding |-> "Succeeded",
                     ready |-> "Ready", tainted |-> [status |-> "False", gen |-> 1]]
             st == Updated(NoStatus, set)
  <1>1. /\ new \in Hypervisors /\ new.exists /\ new.kubectl = "no" /\ new.status = NoStatus
        /\ new.spec = NoSpec
    BY NoneOK, Zenon DEF NoHypervisor
  <1>2. NoSpec.maintenance = "unset"
    BY DEF NoSpec
  <1>3. BaseNode \in Nodes
    BY ConstantsAssumption
  <1>4. ip \in STRING \cup {""}
    BY <1>3, InternalIPOK
  <1> HIDE DEF new, ip
  <1>5. /\ h \in Hypervisors /\ h.exists /\ h.kubectl = "no" /\ h.status = NoStatus
        /\ h.spec.maintenance = "unset"
    BY <1>1, <1>2, <1>3, SyncOK
  <1> HIDE DEF h
  <1>6. /\ DOMAIN set = {"internalIP", "onboarding", "ready", "tainted"}
        /\ set["internalIP"] = ip /\ set["onboarding"] = "Succeeded" /\ set["ready"] = "Ready"
        /\ set["tainted"] = [status |-> "False", gen |-> 1]
    OBVIOUS
  <1>7. [status |-> "False", gen |-> 1] \in Tainteds
    BY DEF Tainteds
  <1>8. InService = [h EXCEPT !.gen = 1, !.status = Updated(h.status, set)]
    <2>1. InService = [h EXCEPT !.gen = 1, !.status = Updated(@, set)]
      BY Zenon DEF InService, h, new, ip
    <2> QED
      BY <2>1, <1>5 DEF Hypervisors
  <1> HIDE DEF set
  <1>9. st \in Status
    BY <1>4, <1>6, <1>7, NoneOK, UpdatedOK
  <1>10. /\ st.onboarding = "Succeeded" /\ st.ready = "Ready" /\ st.tainted = set["tainted"]
         /\ st.terminating = "None" /\ st.evicting = "None" /\ ~ st.offboarded
    BY <1>6 DEF Updated, NoStatus
  <1> HIDE DEF st
  <1>11. InService = [h EXCEPT !.gen = 1, !.status = st]
    BY <1>5, <1>8 DEF st
  <1>12. /\ InService \in Hypervisors /\ InService.exists = h.exists /\ InService.gen = 1
         /\ InService.kubectl = h.kubectl /\ InService.spec = h.spec /\ InService.status = st
    BY <1>5, <1>9, <1>11 DEF Hypervisors
  <1>13. InService.exists /\ ~ InService.status.offboarded
    BY <1>5, <1>10, <1>12, Zenon
  <1>14. InService \in Versions
    BY <1>12, <1>13 DEF Versions
  <1> QED
    BY <1>5, <1>6, <1>10, <1>12, <1>13, <1>14

\* The host under test.
LEMMA InTestOK ==
    /\ InTest \in Versions /\ InTest.exists /\ InTest.gen = 1 /\ InTest.kubectl = "no"
    /\ InTest.status.onboarding = "Running" /\ InTest.status.ready = "Onboarding"
    /\ InTest.status.tainted = [status |-> "False", gen |-> 1]
    /\ InTest.status.terminating = "None" /\ ~ InTest.status.offboarded
  <1> DEFINE st == [InService.status EXCEPT !.onboarding = "Running", !.ready = "Onboarding"]
  <1>1. InService \in Hypervisors /\ InService.status \in Status
    BY InServiceOK DEF Versions, Hypervisors
  <1>2. st \in Status
    BY <1>1 DEF Status
  <1>3. /\ st.onboarding = "Running" /\ st.ready = "Onboarding" /\ st.tainted = InService.status.tainted
        /\ st.terminating = InService.status.terminating /\ st.offboarded = InService.status.offboarded
    BY <1>1 DEF Status
  <1>4. InTest = [InService EXCEPT !.status = st]
    BY <1>1 DEF InTest, Hypervisors
  <1> HIDE DEF st
  <1>5. /\ InTest \in Hypervisors /\ InTest.exists = InService.exists /\ InTest.gen = InService.gen
        /\ InTest.kubectl = InService.kubectl /\ InTest.status = st
    BY <1>1, <1>2, <1>4 DEF Hypervisors
  <1>6. InTest.exists /\ ~ InTest.status.offboarded
    BY <1>3, <1>5, InServiceOK, Zenon
  <1>7. InTest \in Versions
    BY <1>5, <1>6, InServiceOK DEF Versions
  <1> QED
    BY <1>3, <1>5, <1>6, <1>7, InServiceOK

\* The host that was drained.
LEMMA DrainedOK ==
    /\ Drained \in Versions /\ Drained.exists /\ Drained.gen = 2 /\ Drained.kubectl = "no"
    /\ Drained.spec.maintenance = "termination" /\ Drained.status.evicting = "False"
    /\ Drained.status.onboarding = "Succeeded" /\ Drained.status.ready = "Evicted"
    /\ Drained.status.tainted = [status |-> "False", gen |-> 2]
    /\ Drained.status.terminating = "None" /\ ~ Drained.status.offboarded
  <1> DEFINE spec == [InService.spec EXCEPT !.maintenance = "termination"]
             h == SpecBecomes(InService, spec)
             st == [InService.status EXCEPT !.evicting = "False", !.ready = "Evicted",
                                            !.tainted = [status |-> "False", gen |-> 2]]
  <1>1. InService \in Hypervisors /\ InService.status \in Status /\ InService.spec \in Specs
    BY InServiceOK DEF Versions, Hypervisors
  <1>2. spec \in Specs /\ spec.maintenance = "termination" /\ spec # InService.spec
    BY <1>1, InServiceOK DEF Specs
  <1> HIDE DEF spec
  <1>3. h \in Hypervisors /\ h = [InService EXCEPT !.spec = spec, !.gen = InService.gen + 1]
    BY <1>1, <1>2, SpecBecomesOK
  <1>4. /\ h.exists = InService.exists /\ h.gen = 2 /\ h.kubectl = "no" /\ h.spec = spec
        /\ h.status = InService.status
    <2>1. /\ h.exists = InService.exists /\ h.gen = InService.gen + 1 /\ h.kubectl = InService.kubectl
          /\ h.spec = spec /\ h.status = InService.status
      BY <1>1, <1>3 DEF Hypervisors
    <2> QED
      BY <2>1, InServiceOK
  <1>5. st \in Status
    BY <1>1 DEF Status
  <1>6. /\ st.evicting = "False" /\ st.ready = "Evicted" /\ st.tainted = [status |-> "False", gen |-> 2]
        /\ st.onboarding = InService.status.onboarding
        /\ st.terminating = InService.status.terminating /\ st.offboarded = InService.status.offboarded
    BY <1>1 DEF Status
  <1>7. Drained = [h EXCEPT !.status = st]
    <2>1. Drained = [h EXCEPT !.status.evicting = "False", !.status.ready = "Evicted",
                              !.status.tainted.gen = 2]
      BY Zenon DEF Drained, h, spec
    <2>2. [InService.status.tainted EXCEPT !.gen = 2] = [status |-> "False", gen |-> 2]
      BY InServiceOK
    <2> HIDE DEF h
    <2> QED
      BY <1>1, <1>3, <1>4, <2>1, <2>2 DEF Hypervisors, Status
  <1> HIDE DEF h, st
  <1>8. /\ Drained \in Hypervisors /\ Drained.exists = h.exists /\ Drained.gen = h.gen
        /\ Drained.kubectl = h.kubectl /\ Drained.spec = h.spec /\ Drained.status = st
    BY <1>3, <1>5, <1>7 DEF Hypervisors
  <1>9. Drained.exists /\ ~ Drained.status.offboarded
    BY <1>4, <1>6, <1>8, InServiceOK, Zenon
  <1>10. Drained \in Versions
    BY <1>4, <1>8, <1>9 DEF Versions
  <1> QED
    BY <1>2, <1>4, <1>6, <1>8, <1>9, <1>10, InServiceOK

-----------------------------------------------------------------------------
(* Who writes the Hypervisor.                                              *)

\* A version written over h by an owner of some fields of the status.  The
\* resource comes by a pass at "create" and goes only when its node is gone.
Follows(h, new, owned) ==
    /\ h.exists /\ new.exists =>
          /\ \A f \in StatusFields \ owned : new.status[f] = h.status[f]
          /\ new.gen >= h.gen
          /\ new.gen = h.gen => KubectlStays(h, new)
    /\ h.exists /\ node.exists => new.exists
    /\ new.exists => h.exists \/ pass["hypervisor"].pc = "create"
    /\ new.exists => h.exists \/ new.status.tainted.gen = 0
    /\ new.exists \/ new = NoHypervisor

\* Of a new status only what set names is new.
LEMMA StatusWrite ==
    ASSUME NEW h \in Versions, h.exists, NEW st \in Status, NEW owned,
           \A f \in StatusFields \ owned : st[f] = h.status[f]
    PROVE  LET new == [h EXCEPT !.status = st]
           IN  /\ new \in Versions /\ Follows(h, new, owned)
               /\ new.exists = h.exists /\ new.gen = h.gen /\ new.kubectl = h.kubectl
               /\ new.spec = h.spec /\ new.status = st
  <1> DEFINE new == [h EXCEPT !.status = st]
  <1>1. /\ new \in Hypervisors /\ new.exists = h.exists /\ new.gen = h.gen /\ new.kubectl = h.kubectl
        /\ new.spec = h.spec /\ new.status = st
    BY DEF Versions, Hypervisors
  <1> HIDE DEF new
  <1>2. new \in Versions
    BY <1>1 DEF Versions
  <1>3. h.exists /\ new.exists /\ h.gen \in Nat
    <2>1. h.exists /\ new.exists
      BY <1>1, Zenon
    <2> QED
      BY <2>1 DEF Versions, Hypervisors
  <1>4. Follows(h, new, owned)
    BY <1>1, <1>3 DEF Follows, KubectlStays
  <1> QED
    BY <1>1, <1>2, <1>4 DEF new

\* The patch of a pass.
LEMMA PatchWrite ==
    ASSUME NEW h \in Versions, h.exists, NEW c, NEW set, SetOK(c, set)
    PROVE  LET new == [h EXCEPT !.status = Updated(@, set)]
           IN  /\ new \in Versions /\ Follows(h, new, Owned(c))
               /\ new.exists = h.exists /\ new.gen = h.gen /\ new.kubectl = h.kubectl
               /\ new.spec = h.spec /\ new.status = Updated(h.status, set)
  <1> DEFINE st == Updated(h.status, set)
  <1>1. h.status \in Status /\ DOMAIN h.status = StatusFields
    BY DEF Versions, Hypervisors, Status, StatusFields
  <1>2. st \in Status
    BY <1>1 DEF SetOK
  <1>3. \A f \in StatusFields \ Owned(c) : st[f] = h.status[f]
    BY <1>1 DEF SetOK, Updated
  <1>4. [h EXCEPT !.status = Updated(@, set)] = [h EXCEPT !.status = st]
    OBVIOUS
  <1> HIDE DEF st
  <1> QED
    BY <1>2, <1>3, <1>4, StatusWrite DEF st

\* A pass patches what it owns.
LEMMA statusPatchWrites ==
    ASSUME TypeInv, NEW c \in Controllers, statusPatch(c)
    PROVE  \/ versions' = versions
           \/ \E new \in Versions : Write(new) /\ Follows(Hv, new, Owned(c))
  <1>1. pass[c].pc = "patch" /\ SetOK(c, pass[c].set) /\ Hv \in Versions
    BY EndsOK DEF TypeInv, PassesOK, PassOK, statusPatch, At
  <1>2. CASE versions' = versions
    BY <1>2
  <1>3. CASE Hv.exists /\ Write([Hv EXCEPT !.status = Updated(@, pass[c].set)])
    BY <1>1, <1>3, PatchWrite
  <1>4. pass[c].base.exists
    BY <1>1 DEF TypeInv, PassesOK, PassOK
  <1> QED
    BY <1>2, <1>3, <1>4 DEF statusPatch

\* The Hypervisor is created where there is none.
LEMMA hcCreateWrites ==
    ASSUME TypeInv, hcCreate
    PROVE  \/ versions' = versions
           \/ ~ Hv.exists /\ \E new \in Versions : Write(new) /\ Follows(Hv, new, {})
  <1> DEFINE n == pass["hypervisor"].node
             none == [NoHypervisor EXCEPT !.exists = TRUE]
             new == syncLabelsAndAnnotations(n, none)
             m == IF Terminating(n) THEN "termination" ELSE "unset"
             written == [new EXCEPT !.gen = 1, !.spec.maintenance = m]
  <1>1. n \in Nodes
    BY DEF TypeInv, PassesOK, PassOK, Controllers
  <1>2. none \in Hypervisors /\ none.exists
    BY NoneOK, Zenon DEF NoHypervisor
  <1>3. m \in {"unset", "termination"}
    OBVIOUS
  <1> HIDE DEF n, none, m
  <1>4. new \in Hypervisors /\ new.exists /\ new.status = none.status
    BY <1>1, <1>2, SyncOK
  <1> HIDE DEF new
  <1>5. /\ written \in Hypervisors /\ written.exists = new.exists /\ written.gen = 1
        /\ written.status = new.status
    <2>1. new.spec \in Specs /\ [new.spec EXCEPT !.maintenance = m] \in Specs
      BY <1>3, <1>4 DEF Hypervisors, Specs
    <2> DEFINE spec == [new.spec EXCEPT !.maintenance = m]
    <2>2. written = [new EXCEPT !.gen = 1, !.spec = spec]
      BY <1>4 DEF Hypervisors
    <2> HIDE DEF spec
    <2> QED
      BY <1>4, <2>1, <2>2 DEF Hypervisors, spec
  <1>6. written.exists
    BY <1>4, <1>5, Zenon
  <1>7. versions' = versions \/ (~ Hv.exists /\ Write(written))
    BY DEF hcCreate, n, none, new, m
  <1> HIDE DEF written
  <1>8. written \in Versions
    BY <1>5, <1>6 DEF Versions
  <1>9. none.status.tainted.gen = 0
    BY DEF none, NoHypervisor, NoStatus
  <1>10. pass["hypervisor"].pc = "create"
    BY DEF hcCreate, At
  <1>11. ~ Hv.exists => Follows(Hv, written, {})
    BY <1>4, <1>5, <1>6, <1>9, <1>10 DEF Follows
  <1> QED
    BY <1>7, <1>8, <1>11

\* Its spec is patched.
LEMMA hcPatchSpecWrites ==
    ASSUME TypeInv, hcPatchSpec
    PROVE  \/ versions' = versions
           \/ \E new \in Versions : Write(new) /\ Follows(Hv, new, {})
  <1> DEFINE p == pass["hypervisor"]
             new == syncLabelsAndAnnotations(p.node, p.base)
  <1>1. p.node \in Nodes /\ p.base.exists /\ Hv \in Versions
    BY EndsOK DEF TypeInv, PassesOK, PassOK, Controllers, hcPatchSpec, At
  <1>2. versions' = versions \/ (p.base = Hv /\ Write(new))
    BY DEF hcPatchSpec
  <1>3. CASE p.base = Hv /\ Write(new)
    <2>1. Hv \in Hypervisors /\ Hv.gen \in Nat
      BY <1>1 DEF Versions, Hypervisors
    <2>2. /\ new \in Hypervisors /\ new.exists = Hv.exists /\ new.kubectl = Hv.kubectl
          /\ new.status = Hv.status /\ new.gen \in {Hv.gen, Hv.gen + 1}
      BY <1>1, <1>3, <2>1, SyncOK
    <2> HIDE DEF new
    <2>3. new.exists /\ Hv.exists
      BY <1>1, <1>3, <2>2, Zenon
    <2>4. new \in Versions
      BY <1>1, <2>1, <2>2, <2>3 DEF Versions
    <2>5. Follows(Hv, new, {})
      BY <2>1, <2>2, <2>3 DEF Follows, KubectlStays
    <2> QED
      BY <1>3, <2>4, <2>5
  <1> QED
    BY <1>2, <1>3

\* The other controllers report a condition of their own.
LEMMA OthersReport ==
    ASSUME TypeInv,
           \/ \E v \in {"Running", "Aborted", "Succeeded"} : onboardingReports(v)
           \/ \E v \in {"None", "True", "False"} : maintenanceReports(v)
           \/ offboardingReports
    PROVE  \E new \in Versions : \E owned \in {{"onboarding"}, {"evicting"}, {"offboarded"}} :
              Others(new) /\ Follows(Hv, new, owned)
  <1>1. Hv \in Versions /\ Hv.status \in Status /\ Hv.exists
    BY EndsOK DEF TypeInv, Versions, Hypervisors, Others, onboardingReports, maintenanceReports,
                  offboardingReports
  <1>2. ASSUME NEW v \in {"Running", "Aborted", "Succeeded"}, onboardingReports(v)
        PROVE  \E new \in Versions : Others(new) /\ Follows(Hv, new, {"onboarding"})
    <2> DEFINE st == [Hv.status EXCEPT !.onboarding = v]
    <2>1. st \in Status /\ \A f \in StatusFields \ {"onboarding"} : st[f] = Hv.status[f]
      BY <1>1 DEF Status, StatusFields
    <2>2. [Hv EXCEPT !.status.onboarding = v] = [Hv EXCEPT !.status = st]
      BY <1>1 DEF Versions, Hypervisors
    <2> HIDE DEF st
    <2>3. Others([Hv EXCEPT !.status = st])
      BY <1>2, <2>2 DEF onboardingReports
    <2> QED
      BY <1>1, <2>1, <2>3, StatusWrite
  <1>3. ASSUME NEW v \in {"None", "True", "False"}, maintenanceReports(v)
        PROVE  \E new \in Versions : Others(new) /\ Follows(Hv, new, {"evicting"})
    <2> DEFINE st == [Hv.status EXCEPT !.evicting = v]
    <2>1. st \in Status /\ \A f \in StatusFields \ {"evicting"} : st[f] = Hv.status[f]
      BY <1>1 DEF Status, StatusFields
    <2>2. [Hv EXCEPT !.status.evicting = v] = [Hv EXCEPT !.status = st]
      BY <1>1 DEF Versions, Hypervisors
    <2> HIDE DEF st
    <2>3. Others([Hv EXCEPT !.status = st])
      BY <1>3, <2>2 DEF maintenanceReports
    <2> QED
      BY <1>1, <2>1, <2>3, StatusWrite
  <1>4. ASSUME offboardingReports
        PROVE  \E new \in Versions : Others(new) /\ Follows(Hv, new, {"offboarded"})
    <2> DEFINE done == TRUE
               st == [Hv.status EXCEPT !.offboarded = done]
    <2>0. done \in BOOLEAN
      OBVIOUS
    <2>3. Others([Hv EXCEPT !.status.offboarded = done])
      BY <1>4, Zenon DEF offboardingReports
    <2> HIDE DEF done
    <2>1. st \in Status /\ \A f \in StatusFields \ {"offboarded"} : st[f] = Hv.status[f]
      BY <1>1, <2>0 DEF Status, StatusFields
    <2>2. [Hv EXCEPT !.status.offboarded = done] = [Hv EXCEPT !.status = st]
      BY <1>1 DEF Versions, Hypervisors
    <2> HIDE DEF st
    <2>4. Others([Hv EXCEPT !.status = st])
      BY <2>2, <2>3
    <2> QED
      BY <1>1, <2>1, <2>4, StatusWrite
  <1> QED
    BY <1>2, <1>3, <1>4

\* Somebody writes to spec.maintenance, or edits a label.
LEMMA OthersEdit ==
    ASSUME TypeInv,
           \/ \E mode \in {"unset", "manual", "termination", "ha"}, k \in BOOLEAN : setMaintenance(mode, k)
           \/ kubectlLabel
    PROVE  \E new \in Versions : Others(new) /\ Follows(Hv, new, {})
  <1>1. Hv \in Versions /\ Hv \in Hypervisors /\ Hv.spec \in Specs /\ Hv.gen \in Nat
    BY EndsOK DEF TypeInv, Versions, Hypervisors
  <1>2. ASSUME NEW mode \in {"unset", "manual", "termination", "ha"}, NEW k \in BOOLEAN,
               setMaintenance(mode, k)
        PROVE  \E new \in Versions : Others(new) /\ Follows(Hv, new, {})
    <2> DEFINE spec == [Hv.spec EXCEPT !.maintenance = mode]
               h == SpecBecomes(Hv, spec)
               new == [h EXCEPT !.kubectl = IF k THEN "spec" ELSE h.kubectl]
    <2>1. mode # Hv.spec.maintenance /\ Hv.exists /\ Others([h EXCEPT !.kubectl = IF k THEN "spec" ELSE @])
      BY <1>2 DEF setMaintenance, Others
    <2>2. spec \in Specs /\ spec # Hv.spec
      BY <1>1, <2>1 DEF Specs
    <2> HIDE DEF spec
    <2>3. h \in Hypervisors /\ h = [Hv EXCEPT !.spec = spec, !.gen = Hv.gen + 1]
      BY <1>1, <2>2, SpecBecomesOK
    <2>4. h.exists = Hv.exists /\ h.gen = Hv.gen + 1 /\ h.status = Hv.status
      BY <1>1, <2>3 DEF Hypervisors
    <2> HIDE DEF h
    <2>5. new \in Hypervisors /\ new.exists = h.exists /\ new.gen = h.gen /\ new.status = h.status
      BY <2>3 DEF Hypervisors
    <2>6. Others(new)
      BY <2>1
    <2> HIDE DEF new
    <2>7. new.exists
      BY <2>1, <2>4, <2>5, Zenon
    <2>8. new \in Versions
      BY <1>1, <2>4, <2>5, <2>7 DEF Versions
    <2>9. Follows(Hv, new, {})
      BY <1>1, <2>1, <2>4, <2>5, <2>7 DEF Follows
    <2> QED
      BY <2>6, <2>8, <2>9
  <1>3. ASSUME kubectlLabel
        PROVE  \E new \in Versions : Others(new) /\ Follows(Hv, new, {})
    <2> DEFINE new == [Hv EXCEPT !.kubectl = "metadata"]
    <2>1. Hv.kubectl = "no" /\ Others(new)
      BY <1>3 DEF kubectlLabel
    <2>2. /\ new \in Hypervisors /\ new.exists = Hv.exists /\ new.gen = Hv.gen
          /\ new.status = Hv.status /\ new.kubectl = "metadata"
      BY <1>1 DEF Hypervisors
    <2> HIDE DEF new
    <2>3. new \in Versions
      BY <1>1, <2>2 DEF Versions
    <2>4. Hv.exists /\ new.exists
      <3>1. Hv.exists
        BY <2>1 DEF Others
      <3> QED
        BY <2>2, <3>1, Zenon
    <2>5. Follows(Hv, new, {})
      BY <1>1, <2>1, <2>2, <2>4 DEF Follows, KubectlStays
    <2> QED
      BY <2>1, <2>3, <2>5
  <1> QED
    BY <1>2, <1>3

-----------------------------------------------------------------------------
(* What the step of anybody else means to a controller.                    *)

\* There is a new version, which leaves alone what c reports.
Written(c) ==
    \E new \in Versions : \E owned \in Owners \cup {{}} :
        /\ owned \cap Owned(c) = {} /\ Follows(Hv, new, owned)
        /\ versions' = Append(versions, new) /\ new # Hv

Leaves(c) == /\ pass'[c] = pass[c]
             /\ c \in queue => c \in queue'
             /\ versions' = versions \/ Written(c)

Moves(c) == \/ c = "ready" /\ readyReconcile
            \/ c = "taint" /\ taintReconcile
            \/ c = "certificate" /\ (certReconcile \/ certApply)
            \/ statusGet(c) \/ statusPatch(c) \/ apiError(c)

\* A write by the owner of something else.
LEMMA WriteLeaves ==
    ASSUME VersionsOK, NEW c, NEW new \in Versions, NEW owned \in Owners \cup {{}},
           owned \cap Owned(c) = {}, Follows(Hv, new, owned), Write(new)
    PROVE  versions' = versions \/ Written(c)
  BY WriteDoes DEF Written

\* The pass of another controller.
LEMMA PassLeaves ==
    ASSUME TypeInv, NEW c \in Controllers, NEW d \in Controllers, c # d, c # "hypervisor",
           Pass(d) \/ apiError(d)
    PROVE  Leaves(c)
  <1>0. DOMAIN pass = Controllers /\ VersionsOK
    BY DEF TypeInv, PassesOK
  <1>1. ASSUME NEW p, Goto(d, p)
        PROVE  pass'[c] = pass[c]
    BY <1>0, <1>1 DEF Goto
  <1>2. ASSUME NEW next, End(d, next)
        PROVE  pass'[c] = pass[c] /\ queue \subseteq queue'
    BY <1>0, <1>2 DEF End, Goto
  <1>3. ASSUME Start(d)
        PROVE  c \in queue => c \in queue'
    BY <1>3 DEF Start
  <1>4. CASE apiError(d)
    BY <1>4, <1>2 DEF apiError, Leaves
  <1>5. CASE d = "hypervisor" /\ pollAgain
    BY <1>5 DEF pollAgain, Quiet, Leaves, Controllers
  <1>6. CASE d = "hypervisor" /\ hcReconcile
    BY <1>6, <1>1, <1>3 DEF hcReconcile, Start, Leaves
  <1>7. CASE d = "hypervisor" /\ hcCreate
    <2>1. pass'[c] = pass[c] /\ queue \subseteq queue'
      BY <1>7, <1>2 DEF hcCreate
    <2>2. \/ versions' = versions
          \/ \E new \in Versions : Write(new) /\ Follows(Hv, new, {})
      BY <1>7, hcCreateWrites
    <2>3. versions' = versions \/ Written(c)
      BY <1>0, <2>2, WriteLeaves
    <2> QED
      BY <2>1, <2>3 DEF Leaves
  <1>8. CASE d = "hypervisor" /\ hcPatchSpec
    <2>1. pass'[c] = pass[c] /\ queue \subseteq queue'
      BY <1>8, <1>1, <1>2 DEF hcPatchSpec
    <2>2. \/ versions' = versions
          \/ \E new \in Versions : Write(new) /\ Follows(Hv, new, {})
      BY <1>8, hcPatchSpecWrites
    <2>3. versions' = versions \/ Written(c)
      BY <1>0, <2>2, WriteLeaves
    <2> QED
      BY <2>1, <2>3 DEF Leaves
  <1>9. CASE d = "hypervisor" /\ hcStatus
    BY <1>9, <1>1, <1>2 DEF hcStatus, Leaves
  <1>10. CASE d = "ready" /\ readyReconcile
    BY <1>10, <1>1, <1>3 DEF readyReconcile, Start, Leaves
  <1>11. CASE d = "taint" /\ taintReconcile
    BY <1>11, <1>1, <1>3 DEF taintReconcile, Start, Leaves
  <1>12. CASE d = "certificate" /\ certReconcile
    BY <1>12, <1>1, <1>3 DEF certReconcile, Start, Leaves
  <1>13. CASE d = "certificate" /\ certApply
    BY <1>13, <1>2 DEF certApply, Leaves
  <1>14. CASE statusGet(d)
    BY <1>14, <1>1, <1>2 DEF statusGet, Leaves
  <1>15. CASE statusPatch(d)
    <2>1. pass'[c] = pass[c] /\ queue \subseteq queue'
      BY <1>15, <1>1, <1>2 DEF statusPatch
    <2>2. Owned(d) \in Owners \cup {{}} /\ Owned(d) \cap Owned(c) = {}
      BY DEF Controllers, Owned, Owners
    <2>3. \/ versions' = versions
          \/ \E new \in Versions : Write(new) /\ Follows(Hv, new, Owned(d))
      BY <1>15, statusPatchWrites
    <2>4. versions' = versions \/ Written(c)
      BY <1>0, <2>2, <2>3, WriteLeaves
    <2> QED
      BY <2>1, <2>4 DEF Leaves
  <1> QED
    BY <1>4, <1>5, <1>6, <1>7, <1>8, <1>9, <1>10, <1>11, <1>12, <1>13, <1>14, <1>15
       DEF Pass, HcPass

\* The world.
LEMMA EnvironmentLeaves ==
    ASSUME TypeInv, NEW c \in Controllers, Environment
    PROVE  Leaves(c)
  <1>0. VersionsOK
    BY DEF TypeInv
  <1>1. CASE \/ nodeJoins \/ nodeGoes \/ kubeletReports \/ agentsLeave
             \/ \E f \in DOMAIN group.values : \E v \in group.values[f] : nodeChanges(f, v)
    BY <1>1 DEF nodeJoins, nodeGoes, kubeletReports, agentsLeave, nodeChanges, NodeBecomes, NodeEvent,
                Enqueue, Leaves
  <1>2. CASE garbageCollector
    <2>1. NoHypervisor \in Versions /\ ~ NoHypervisor.exists
      BY NoneOK DEF NoHypervisor
    <2>2. Follows(Hv, NoHypervisor, {})
      BY <1>2, <2>1 DEF Follows, garbageCollector
    <2> QED
      BY <1>0, <1>2, <2>1, <2>2, WriteLeaves DEF garbageCollector, Leaves
  <1>3. CASE \E new \in Versions : \E owned \in {{"onboarding"}, {"evicting"}, {"offboarded"}, {}} :
                 Others(new) /\ Follows(Hv, new, owned)
    <2>1. PICK new \in Versions, owned \in {{"onboarding"}, {"evicting"}, {"offboarded"}, {}} :
              Others(new) /\ Follows(Hv, new, owned)
      BY <1>3
    <2>2. owned \in Owners \cup {{}} /\ owned \cap Owned(c) = {}
      BY <2>1 DEF Owners, Owned, Controllers
    <2>3. Write(new) /\ UNCHANGED <<queue, pass>>
      BY <2>1 DEF Others
    <2>4. versions' = versions \/ Written(c)
      BY <1>0, <2>1, <2>2, <2>3, WriteLeaves
    <2> QED
      BY <2>3, <2>4 DEF Leaves
  <1> QED
    BY <1>1, <1>2, <1>3, OthersReport, OthersEdit DEF Environment

\* Every step.
LEMMA NextLeaves ==
    ASSUME TypeInv, NEW c \in Controllers \ {"hypervisor"}, Next
    PROVE  Moves(c) \/ Leaves(c) \/ WatchDelivers \/ Crash
  <1>1. CASE \E d \in Controllers : Pass(d) \/ apiError(d)
    <2>1. PICK d \in Controllers : Pass(d) \/ apiError(d)
      BY <1>1
    <2>2. CASE d = c
      BY <2>1, <2>2 DEF Pass, Moves
    <2> QED
      BY <2>1, <2>2, PassLeaves
  <1>2. CASE Environment
    BY <1>2, EnvironmentLeaves
  <1> QED
    BY <1>1, <1>2 DEF Next

-----------------------------------------------------------------------------
(* The type invariant.                                                     *)

NodeFields == {"hypervisorLabel", "lifecycle", "zone", "aggregates", "customTraits", "taint",
               "ending", "addresses", "interfaces"}

\* A field that may change in one node may change in every node.
LEMMA NodeEdit ==
    ASSUME NEW m \in Nodes, NEW n \in Nodes, NEW f \in NodeFields, NEW v,
           [m EXCEPT ![f] = v] \in Nodes
    PROVE  [n EXCEPT ![f] = v] \in Nodes
  <1>1. CASE f = "hypervisorLabel"
    BY <1>1 DEF Nodes
  <1>2. CASE f = "lifecycle"
    BY <1>2 DEF Nodes
  <1>3. CASE f = "zone"
    BY <1>3 DEF Nodes
  <1>4. CASE f = "aggregates"
    BY <1>4 DEF Nodes
  <1>5. CASE f = "customTraits"
    BY <1>5 DEF Nodes
  <1>6. CASE f = "taint"
    BY <1>6 DEF Nodes
  <1>7. CASE f = "ending"
    BY <1>7 DEF Nodes
  <1>8. CASE f = "addresses"
    BY <1>8 DEF Nodes
  <1>9. CASE f = "interfaces"
    BY <1>9 DEF Nodes
  <1> QED
    BY <1>1, <1>2, <1>3, <1>4, <1>5, <1>6, <1>7, <1>8, <1>9 DEF NodeFields

\* The node stays a node.
LEMMA NodeStep ==
    ASSUME TypeInv, Next
    PROVE  NodeOK' /\ agents' \in BOOLEAN
  <1>0. /\ group' = group /\ NodeOK /\ agents \in BOOLEAN /\ group \in Groups
        /\ DOMAIN BaseNode = NodeFields \cup {"exists"} /\ BaseNode \in Nodes
        /\ DOMAIN node = NodeFields \cup {"exists"} /\ NodeFields \cap {"exists"} = {}
    BY ConstantsAssumption DEF TypeInv, Next, NodeOK, Nodes, NodeFields
  <1>1. CASE node' = node /\ agents' \in {agents, FALSE}
    BY <1>0, <1>1 DEF NodeOK
  <1>2. CASE nodeJoins
    BY <1>0, <1>2 DEF nodeJoins, NodeBecomes, NodeOK
  <1>3. ASSUME NEW f \in DOMAIN group.values, NEW v \in group.values[f], nodeChanges(f, v)
        PROVE  NodeOK' /\ agents' \in BOOLEAN
    <2>1. f \in NodeFields /\ [BaseNode EXCEPT ![f] = v] \in Nodes
      BY <1>0, ConstantsAssumption
    <2>2. node' = [node EXCEPT ![f] = v] /\ agents' = agents
      BY <1>3 DEF nodeChanges, NodeBecomes
    <2>3. node' \in Nodes
      BY <1>0, <2>1, <2>2, NodeEdit DEF NodeOK
    <2>4. \A g \in NodeFields : node'[g] = IF g = f THEN v ELSE node[g]
      BY <1>0, <2>1, <2>2
    <2> QED
      BY <1>0, <2>2, <2>3, <2>4 DEF NodeOK
  <1>4. CASE nodeGoes
    <2>1. NoNode \in Nodes /\ \A f \in NodeFields : NoNode[f] = BaseNode[f]
      BY <1>0, NoneOK DEF NoNode
    <2>2. node' = NoNode /\ agents' \in BOOLEAN
      BY <1>4 DEF nodeGoes, NodeBecomes
    <2> QED
      BY <1>0, <2>1, <2>2 DEF NodeOK
  <1>5. CASE WatchDelivers \/ Crash \/ \E c \in Controllers : apiError(c)
    BY <1>1, <1>5 DEF WatchDelivers, Crash, apiError
  <1>6. ASSUME NEW c \in Controllers, Pass(c)
        PROVE  node' = node /\ agents' = agents
    BY <1>6 DEF Pass, HcPass, pollAgain, hcReconcile, hcCreate, hcPatchSpec, hcStatus, readyReconcile,
                taintReconcile, certReconcile, certApply, statusGet, statusPatch, Start, At
  <1>7. CASE \/ kubeletReports \/ agentsLeave \/ garbageCollector
             \/ \E v \in {"Running", "Aborted", "Succeeded"} : onboardingReports(v)
             \/ \E v \in {"None", "True", "False"} : maintenanceReports(v)
             \/ offboardingReports \/ kubectlLabel
             \/ \E mode \in {"unset", "manual", "termination", "ha"}, k \in BOOLEAN : setMaintenance(mode, k)
    BY <1>1, <1>7 DEF kubeletReports, agentsLeave, garbageCollector, onboardingReports, maintenanceReports,
                      offboardingReports, kubectlLabel, setMaintenance, Others
  <1> QED
    BY <1>1, <1>2, <1>3, <1>4, <1>5, <1>6, <1>7 DEF Next, Environment

\* The sequence of versions stays one.
LEMMA VersionsStep ==
    ASSUME TypeInv, Next
    PROVE  VersionsOK'
  <1>0. VersionsOK /\ "certificate" \in Controllers \ {"hypervisor"} /\ pass["certificate"].pc \in {"idle", "apply"}
    BY DEF TypeInv, PassesOK, PassOK, Places, Controllers
  <1>1. CASE versions' = versions
    BY <1>0, <1>1 DEF VersionsOK
  <1>2. CASE Moves("certificate")
    BY <1>0, <1>1, <1>2 DEF Moves, certReconcile, certApply, Start, apiError, statusGet, statusPatch, At
  <1>3. CASE Written("certificate")
    BY <1>0, <1>3, AppendDoes DEF Written
  <1>4. CASE WatchDelivers
    BY <1>0, <1>4, TailDoes DEF WatchDelivers
  <1>5. CASE Crash
    BY <1>0, <1>5, RelistDoes DEF Crash
  <1> QED
    BY <1>0, <1>1, <1>2, <1>3, <1>4, <1>5, NextLeaves DEF Leaves

\* Only routable addresses are asked for.
LEMMA EnsureRoutable ==
    ASSUME NEW n
    PROVE  ensureCertificate(n).ipAddresses \subseteq GlobalUnicast
  BY DEF ensureCertificate, addInterfaceAddresses, parseRoutableIP

\* The certificate is none, or what a pass asked for.
LEMMA CertStep ==
    ASSUME TypeInv, Next
    PROVE  cert'.ipAddresses \subseteq GlobalUnicast
  <1>1. CASE cert' = cert
    BY <1>1 DEF TypeInv
  <1>2. CASE certApply
    BY <1>2 DEF certApply, At, TypeInv, PassesOK, PassOK, Controllers
  <1>3. CASE garbageCollector
    BY <1>3 DEF garbageCollector, NoCert
  <1>4. CASE WatchDelivers \/ Crash \/ \E c \in Controllers : apiError(c)
    BY <1>1, <1>4 DEF WatchDelivers, Crash, apiError
  <1>5. ASSUME NEW c \in Controllers, Pass(c)
        PROVE  cert' = cert \/ certApply
    BY <1>5 DEF Pass, HcPass, pollAgain, hcReconcile, hcCreate, hcPatchSpec, hcStatus, readyReconcile,
                taintReconcile, certReconcile, statusGet, statusPatch, Start, At
  <1>6. CASE Environment
    BY <1>1, <1>3, <1>6
       DEF Environment, nodeJoins, nodeGoes, nodeChanges, NodeBecomes, kubeletReports, agentsLeave,
           onboardingReports, maintenanceReports, offboardingReports, kubectlLabel, setMaintenance, Others
  <1> QED
    BY <1>1, <1>2, <1>4, <1>5, <1>6 DEF Next

\* The bounds are kept.
LEMMA CountsStep ==
    ASSUME TypeInv, Next
    PROVE  CountsOK'
  <1>0. edits \in 0..MaxEdits /\ faults \in 0..MaxFaults /\ MaxEdits \in Nat /\ MaxFaults \in Nat
    BY ConstantsAssumption DEF TypeInv, CountsOK
  <1>1. CASE edits' = edits /\ faults' = faults
    BY <1>0, <1>1 DEF CountsOK
  <1>2. CASE Edit
    BY <1>0, <1>2 DEF Edit, CountsOK
  <1>3. CASE edits' = edits /\ \E kind \in FaultKinds : Disturb(kind)
    BY <1>0, <1>3 DEF Disturb, CountsOK
  <1>4. CASE Crash \/ \E c \in Controllers : apiError(c)
    BY <1>3, <1>4 DEF Crash, apiError, FaultKinds
  <1>5. CASE WatchDelivers
    BY <1>1, <1>5 DEF WatchDelivers
  <1>6. ASSUME NEW c \in Controllers, Pass(c)
        PROVE  edits' = edits /\ faults' = faults
    BY <1>6 DEF Pass, HcPass, pollAgain, hcReconcile, hcCreate, hcPatchSpec, hcStatus, readyReconcile,
                taintReconcile, certReconcile, certApply, statusGet, statusPatch, Start, At
  <1>7. CASE Environment
    BY <1>1, <1>2, <1>7
       DEF Environment, nodeJoins, nodeGoes, nodeChanges, kubeletReports, agentsLeave, garbageCollector,
           onboardingReports, maintenanceReports, offboardingReports, kubectlLabel, setMaintenance, Others
  <1> QED
    BY <1>1, <1>4, <1>5, <1>6, <1>7 DEF Next

\* Only controllers of the group are queued.
LEMMA QueueStep ==
    ASSUME TypeInv, Next
    PROVE  QueueOK'
  <1>0. group' = group /\ QueueOK /\ group.controllers \subseteq Controllers /\ "poll" \notin Controllers
    BY ConstantsAssumption DEF TypeInv, Next, Controllers
  <1>1. CASE queue' \subseteq queue \cup group.controllers
    BY <1>0, <1>1 DEF QueueOK
  <1>2. ASSUME NEW cs, Enqueue(cs)
        PROVE  queue' \subseteq queue \cup group.controllers
    BY <1>2 DEF Enqueue
  <1>3. CASE WatchDelivers \/ Crash
    BY <1>1, <1>2, <1>3 DEF WatchDelivers, Crash
  <1>4. ASSUME NEW c \in Controllers, pass[c].pc # "idle", NEW next,
               next \subseteq {c} \/ (next \subseteq {"poll"} /\ (next # {} => c = "hypervisor")), End(c, next)
        PROVE  QueueOK'
    <2>1. c \in group.controllers
      BY <1>4 DEF TypeInv, PassesOK, PassOK
    <2> QED
      BY <1>0, <1>4, <2>1 DEF End, QueueOK
  <1>5. ASSUME NEW c \in Controllers, apiError(c)
        PROVE  QueueOK'
    BY <1>4, <1>5 DEF apiError
  <1>6. ASSUME NEW c \in Controllers, Start(c)
        PROVE  QueueOK'
    BY <1>1, <1>6 DEF Start
  <1>7. ASSUME NEW c \in Controllers, NEW pc, pc # "idle", At(c, pc)
        PROVE  pass[c].pc # "idle"
    BY <1>7 DEF At
  <1>8. CASE pollAgain
    BY <1>0, <1>8 DEF pollAgain, QueueOK
  <1>9. CASE hcReconcile \/ readyReconcile \/ taintReconcile \/ certReconcile
    BY <1>6, <1>9 DEF hcReconcile, readyReconcile, taintReconcile, certReconcile, Controllers
  <1>10. CASE hcCreate \/ hcPatchSpec
    BY <1>1, <1>4, <1>10 DEF hcCreate, hcPatchSpec, At, Done, Controllers
  <1>11. CASE hcStatus
    BY <1>1, <1>4, <1>11 DEF hcStatus, At, Poll, Controllers
  <1>12. CASE certApply
    BY <1>4, <1>12 DEF certApply, At, Done, Controllers
  <1>13. ASSUME NEW c \in Controllers, statusGet(c)
         PROVE  QueueOK'
    BY <1>1, <1>4, <1>13 DEF statusGet, At
  <1>14. ASSUME NEW c \in Controllers, statusPatch(c)
         PROVE  QueueOK'
    <2>1. pass[c].pc # "idle" /\ (pass[c].poll => c = "hypervisor")
      BY <1>14 DEF statusPatch, At, TypeInv, PassesOK, PassOK
    <2> QED
      BY <1>1, <1>4, <1>14, <2>1 DEF statusPatch, Poll
  <1>15. CASE Environment
    BY <1>1, <1>2, <1>15
       DEF Environment, nodeJoins, nodeGoes, nodeChanges, NodeEvent, kubeletReports, agentsLeave, garbageCollector,
           onboardingReports, maintenanceReports, offboardingReports, kubectlLabel, setMaintenance, Others
  <1> QED
    BY <1>3, <1>5, <1>8, <1>9, <1>10, <1>11, <1>12, <1>13, <1>14, <1>15 DEF Next, Pass, HcPass

\* A pass goes on.
LEMMA GotoOK ==
    ASSUME PassesOK, group' = group, NEW c \in Controllers, NEW p, PassOK(c, p), Goto(c, p)
    PROVE  PassesOK'
  <1>1. DOMAIN pass' = Controllers /\ pass'[c] = p /\ \A d \in Controllers \ {c} : pass'[d] = pass[d]
    BY DEF PassesOK, Goto
  <1>2. \A d \in Controllers : PassOK(d, pass'[d])
    BY <1>1 DEF PassesOK
  <1>3. \A d \in Controllers : PassOK(d, pass[d])'
    BY <1>2 DEF PassOK
  <1> QED
    BY <1>1, <1>3 DEF PassesOK

\* A pass ends.
LEMMA EndOK ==
    ASSUME PassesOK, group' = group, NEW c \in Controllers, NEW next, End(c, next)
    PROVE  PassesOK'
  BY GotoOK, IdleOK DEF End

\* A pass about to patch the status.
LEMMA PatchStatusOK ==
    ASSUME NEW c \in {"hypervisor", "ready", "taint"}, c \in group.controllers,
           NEW set, SetOK(c, set), NEW poll \in BOOLEAN, poll => c = "hypervisor"
    PROVE  PassOK(c, PatchStatus(set, poll))
  <1>1. /\ DOMAIN Idle = {"pc", "node", "base", "set", "poll"} /\ Idle.node \in Nodes
        /\ Idle.base \in Versions
    BY NoneOK DEF Idle
  <1> DEFINE p == PatchStatus(set, poll)
  <1>2. /\ DOMAIN p = {"pc", "node", "base", "set", "poll"} /\ p.pc = "get" /\ p.node = Idle.node
        /\ p.base = Idle.base /\ p.set = set /\ p.poll = poll
    BY <1>1 DEF PatchStatus
  <1>3. "get" \in Places(c)
    BY DEF Places
  <1> HIDE DEF p
  <1>4. PassOK(c, p)
    BY <1>1, <1>2, <1>3 DEF PassOK
  <1> QED
    BY <1>4 DEF p

\* The start of a pass of the hypervisor controller.
LEMMA hcReconcileTypes ==
    ASSUME TypeInv, hcReconcile, group' = group
    PROVE  PassesOK'
  <1> DEFINE c == "hypervisor"
             pc == IF ~ Cached.exists THEN "create"
                   ELSE IF syncLabelsAndAnnotations(node, Cached) # Cached THEN "spec" ELSE "status"
             p == [Idle EXCEPT !.node = node, !.base = Cached, !.pc = pc]
  <1>1. /\ PassesOK /\ c \in Controllers /\ c \in queue /\ node \in Nodes /\ Cached \in Versions
        /\ c \in group.controllers
    BY EndsOK DEF TypeInv, Controllers, hcReconcile, Start, NodeOK, QueueOK
  <1>2. Goto(c, IF ~ node.exists THEN Idle ELSE p)
    BY DEF hcReconcile
  <1>3. PassOK(c, p)
    <2>1. DOMAIN Idle = {"pc", "node", "base", "set", "poll"} /\ ~ Idle.poll /\ Idle.poll \in BOOLEAN
      BY DEF Idle
    <2>2. pc \in {"create", "spec", "status"} /\ (pc # "create" => Cached.exists)
      OBVIOUS
    <2> HIDE DEF pc
    <2>3. /\ DOMAIN p = {"pc", "node", "base", "set", "poll"} /\ p.pc = pc /\ p.node = node
          /\ p.base = Cached /\ p.poll = Idle.poll
      BY <2>1
    <2>4. {"create", "spec", "status"} \subseteq Places(c)
      BY DEF Places
    <2> HIDE DEF p
    <2> QED
      BY <1>1, <2>1, <2>2, <2>3, <2>4 DEF PassOK
  <1> HIDE DEF p, c
  <1>4. PassOK(c, Idle)
    BY <1>1, IdleOK
  <1> QED
    BY <1>1, <1>2, <1>3, <1>4, GotoOK

\* After the spec, the status.
LEMMA hcPatchSpecTypes ==
    ASSUME TypeInv, hcPatchSpec, group' = group
    PROVE  PassesOK'
  <1> DEFINE c == "hypervisor"
             p == pass[c]
             new == syncLabelsAndAnnotations(p.node, p.base)
             q == [p EXCEPT !.pc = "status", !.base = new]
  <1>1. c \in Controllers /\ PassesOK /\ PassOK(c, p) /\ p.pc = "spec" /\ VersionsOK
    BY DEF TypeInv, PassesOK, Controllers, hcPatchSpec, At
  <1>2. \/ End(c, {c})
        \/ p.base = Hv /\ Write(new) /\ Goto(c, q)
    BY DEF hcPatchSpec
  <1>3. CASE p.base = Hv /\ Goto(c, q)
    <2>1. p.node \in Nodes /\ p.base \in Versions /\ p.base \in Hypervisors /\ p.base.exists
      BY <1>1 DEF PassOK, Versions
    <2>2. /\ new \in Hypervisors /\ new.exists = p.base.exists
          /\ new.gen = IF new.spec = p.base.spec THEN p.base.gen ELSE p.base.gen + 1
      BY <2>1, SyncOK
    <2>3. p.base.gen \in Nat /\ p.base.gen > 0
      BY <2>1 DEF Versions, Hypervisors
    <2> HIDE DEF new
    <2>4. new.exists
      BY <2>1, <2>2, Zenon
    <2>5. new \in Versions
      BY <2>2, <2>3, <2>4 DEF Versions
    <2>6. /\ DOMAIN q = {"pc", "node", "base", "set", "poll"} /\ q.pc = "status" /\ q.node = p.node
          /\ q.base = new /\ q.poll = p.poll
      BY <1>1 DEF PassOK
    <2>7. "status" \in Places(c)
      BY DEF Places
    <2> HIDE DEF q
    <2>8. PassOK(c, q)
      BY <1>1, <2>1, <2>4, <2>5, <2>6, <2>7 DEF PassOK
    <2> HIDE DEF c
    <2> QED
      BY <1>1, <1>3, <2>8, GotoOK
  <1> HIDE DEF p, q, c, new
  <1> QED
    BY <1>1, <1>2, <1>3, EndOK

\* What a pass keeps for the patch is a status.
LEMMA hcStatusTypes ==
    ASSUME TypeInv, hcStatus, group' = group
    PROVE  PassesOK'
  <1> DEFINE c == "hypervisor"
             p == pass[c]
             old == p.base.status
             look == LooksForAgents(p.node, p.base)
             mine == [internalIP |-> internalIP(p.node, old.internalIP),
                      terminating |-> IF Terminating(p.node) THEN "True" ELSE old.terminating,
                      agentPodsEvicted |-> IF ~ look THEN old.agentPodsEvicted
                                           ELSE IF agents THEN "False" ELSE "True"]
             written == {f \in DOMAIN mine : f = "internalIP" \/ mine[f] # "None"}
             poll == look /\ agents
             set == [f \in written |-> mine[f]]
  <1>1. c \in Controllers /\ PassesOK /\ PassOK(c, p) /\ p.pc = "status" /\ c \in group.controllers
    BY DEF TypeInv, PassesOK, PassOK, Controllers, hcStatus, At
  <1>2. p.node \in Nodes /\ old \in Status
    BY <1>1 DEF PassOK, Versions, Hypervisors
  <1>3. mine \in [internalIP : STRING \cup {""}, terminating : {"None", "True"},
                  agentPodsEvicted : {"None", "True", "False"}]
    <2>1. old.internalIP \in STRING \cup {""} /\ old.terminating \in {"None", "True"}
          /\ old.agentPodsEvicted \in {"None", "True", "False"}
      BY <1>2 DEF Status
    <2>2. internalIP(p.node, old.internalIP) \in STRING \cup {""}
      BY <1>2, <2>1, InternalIPOK
    <2> HIDE DEF old, look, p
    <2> QED
      BY <2>1, <2>2
  <1>4. poll \in BOOLEAN
    BY DEF TypeInv, LooksForAgents
  <1>5. End(c, Poll(poll)) \/ Goto(c, PatchStatus(set, poll))
    BY DEF hcStatus
  <1>6. written \subseteq DOMAIN mine
    OBVIOUS
  <1> HIDE DEF mine, written, poll
  <1>7. SetOK(c, set)
    BY <1>3, <1>6, HypervisorSetOK
  <1> HIDE DEF set
  <1>8. PassOK(c, PatchStatus(set, poll))
    BY <1>1, <1>4, <1>7, PatchStatusOK
  <1> HIDE DEF c
  <1> QED
    BY <1>1, <1>5, <1>8, GotoOK, EndOK

\* The passes of the ready, the taint and the certificate controller.
LEMMA ReconcileTypes ==
    ASSUME TypeInv, readyReconcile \/ taintReconcile \/ certReconcile, group' = group
    PROVE  PassesOK'
  <1>0. /\ PassesOK /\ Cached \in Hypervisors /\ Cached.gen \in Nat
        /\ {"ready", "taint", "certificate"} \subseteq Controllers
        /\ \A c \in Controllers : c \in queue => c \in group.controllers
    BY EndsOK DEF TypeInv, Versions, Hypervisors, Controllers, QueueOK
  <1>1. CASE readyReconcile
    <2> DEFINE p == PatchStatus([ready |-> ComputeReadyCondition(Cached)], FALSE)
    <2>1. "ready" \in group.controllers /\ (Goto("ready", Idle) \/ Goto("ready", p))
      BY <1>0, <1>1 DEF readyReconcile, Start
    <2>2. PassOK("ready", p)
      BY <1>0, <2>1, ReadySetOK, PatchStatusOK
    <2> HIDE DEF p
    <2> QED
      BY <1>0, <2>1, <2>2, IdleOK, GotoOK
  <1>2. CASE taintReconcile
    <2> DEFINE now == [status |-> IF HasKubectlManagedFields(Cached) THEN "True" ELSE "False",
                       gen |-> Cached.gen]
               p == PatchStatus([tainted |-> now], FALSE)
    <2>1. "taint" \in group.controllers /\ (Goto("taint", Idle) \/ Goto("taint", p))
      BY <1>0, <1>2 DEF taintReconcile, Start
    <2>2. now \in Tainteds
      BY <1>0 DEF Tainteds
    <2> HIDE DEF now
    <2>3. PassOK("taint", p)
      BY <2>1, <2>2, TaintSetOK, PatchStatusOK
    <2> HIDE DEF p
    <2> QED
      BY <1>0, <2>1, <2>3, IdleOK, GotoOK
  <1>3. CASE certReconcile
    <2> DEFINE set == ensureCertificate(node)
               p == [Idle EXCEPT !.pc = "apply", !.set = set]
    <2>1. "certificate" \in group.controllers /\ (Goto("certificate", Idle) \/ Goto("certificate", p))
      BY <1>0, <1>3 DEF certReconcile, Start
    <2>2. set.ipAddresses \subseteq GlobalUnicast
      BY EnsureRoutable
    <2> HIDE DEF set
    <2>3. /\ DOMAIN Idle = {"pc", "node", "base", "set", "poll"} /\ Idle.node \in Nodes
          /\ Idle.base \in Versions /\ Idle.poll \in BOOLEAN /\ ~ Idle.poll
      BY NoneOK DEF Idle
    <2>4. /\ DOMAIN p = {"pc", "node", "base", "set", "poll"} /\ p.pc = "apply" /\ p.node = Idle.node
          /\ p.base = Idle.base /\ p.set = set /\ p.poll = Idle.poll
      BY <2>3
    <2>5. "apply" \in Places("certificate")
      BY DEF Places
    <2> HIDE DEF p
    <2>6. PassOK("certificate", p)
      BY <2>1, <2>2, <2>3, <2>4, <2>5 DEF PassOK
    <2> QED
      BY <1>0, <2>1, <2>6, IdleOK, GotoOK
  <1> QED
    BY <1>1, <1>2, <1>3

\* The patch of the status, and its retries.
LEMMA StatusPassTypes ==
    ASSUME TypeInv, NEW c \in Controllers, statusGet(c) \/ statusPatch(c), group' = group
    PROVE  PassesOK'
  <1>0. PassesOK /\ PassOK(c, pass[c]) /\ Cached \in Versions
    BY EndsOK DEF TypeInv, PassesOK
  <1>1. CASE statusGet(c)
    <2> DEFINE p == [pass[c] EXCEPT !.pc = "patch", !.base = Cached]
    <2>1. pass[c].pc = "get" /\ ((Cached.exists /\ Goto(c, p)) \/ End(c, {c}))
      BY <1>1 DEF statusGet, At
    <2>2. /\ DOMAIN p = {"pc", "node", "base", "set", "poll"} /\ p.pc = "patch" /\ p.node = pass[c].node
          /\ p.base = Cached /\ p.set = pass[c].set /\ p.poll = pass[c].poll
      BY <1>0 DEF PassOK
    <2>3. "patch" \in Places(c)
      BY <1>0, <2>1 DEF Places, PassOK, Controllers
    <2> HIDE DEF p
    <2>4. Cached.exists => PassOK(c, p)
      BY <1>0, <2>1, <2>2, <2>3 DEF PassOK
    <2> QED
      BY <1>0, <2>1, <2>4, GotoOK, EndOK
  <1>2. CASE statusPatch(c)
    <2> DEFINE p == [pass[c] EXCEPT !.pc = "get"]
    <2>1. pass[c].pc = "patch" /\ (Goto(c, p) \/ \E next : End(c, next))
      BY <1>2 DEF statusPatch, At
    <2>2. /\ DOMAIN p = {"pc", "node", "base", "set", "poll"} /\ p.pc = "get" /\ p.node = pass[c].node
          /\ p.base = pass[c].base /\ p.set = pass[c].set /\ p.poll = pass[c].poll
      BY <1>0 DEF PassOK
    <2>3. "get" \in Places(c)
      BY <1>0, <2>1 DEF Places, PassOK, Controllers
    <2> HIDE DEF p
    <2>4. PassOK(c, p)
      BY <1>0, <2>1, <2>2, <2>3 DEF PassOK
    <2> QED
      BY <1>0, <2>1, <2>4, GotoOK, EndOK
  <1> QED
    BY <1>1, <1>2

\* The passes stay passes.
LEMMA PassStep ==
    ASSUME TypeInv, Next
    PROVE  PassesOK'
  <1>0. group' = group /\ PassesOK
    BY DEF TypeInv, Next
  <1>1. CASE pass' = pass
    BY <1>0, <1>1 DEF PassesOK, PassOK
  <1>2. CASE WatchDelivers \/ pollAgain \/ Environment
    BY <1>1, <1>2
       DEF WatchDelivers, pollAgain, Environment, nodeJoins, nodeGoes, nodeChanges, NodeBecomes, kubeletReports,
           agentsLeave, garbageCollector, onboardingReports, maintenanceReports, offboardingReports,
           kubectlLabel, setMaintenance, Others
  <1>3. CASE Crash
    <2>1. pass' = [c \in Controllers |-> Idle]
      BY <1>3 DEF Crash
    <2>2. \A c \in Controllers : PassOK(c, pass'[c])
      BY <2>1, IdleOK
    <2> QED
      BY <1>0, <2>1, <2>2 DEF PassesOK, PassOK
  <1>4. ASSUME NEW c \in Controllers, apiError(c)
        PROVE  PassesOK'
    BY <1>0, <1>4, EndOK DEF apiError
  <1>5. CASE hcCreate \/ certApply
    BY <1>0, <1>5, EndOK DEF hcCreate, certApply, Controllers
  <1>6. ASSUME NEW c \in Controllers, Pass(c)
        PROVE  PassesOK'
    BY <1>0, <1>2, <1>5, <1>6, hcReconcileTypes, hcPatchSpecTypes, hcStatusTypes, ReconcileTypes, StatusPassTypes
       DEF Pass, HcPass
  <1> QED
    BY <1>2, <1>3, <1>4, <1>6 DEF Next

\* Initial states have their types.
LEMMA TypeInit ==
    ASSUME Init
    PROVE  TypeInv
  <1>1. BaseNode \in Nodes /\ NoNode \in Nodes /\ \A f \in DOMAIN BaseNode \ {"exists"} : NoNode[f] = BaseNode[f]
    BY NoneOK, ConstantsAssumption DEF NoNode, Nodes
  <1>2. NodeOK
    BY <1>1 DEF Init, NodeOK
  <1>3. VersionsOK
    <2>1. \E h \in Versions : versions = <<h>>
      BY NoneOK, InServiceOK, InTestOK, DrainedOK, Zenon DEF Init
    <2> QED
      BY <2>1 DEF VersionsOK
  <1>4. cert.ipAddresses \subseteq GlobalUnicast
    BY EnsureRoutable DEF Init, NoCert
  <1>5. PassesOK
    BY IdleOK DEF Init, PassesOK
  <1>6. CountsOK
    BY ConstantsAssumption DEF Init, CountsOK
  <1>7. group \in Groups /\ agents \in BOOLEAN /\ QueueOK
    BY DEF Init, QueueOK
  <1> QED
    BY <1>2, <1>3, <1>4, <1>5, <1>6, <1>7 DEF TypeInv

\* Steps keep them.
LEMMA TypeStep ==
    ASSUME TypeInv, [Next]_vars
    PROVE  TypeInv'
  <1>1. CASE Next
    <2>1. (group \in Groups)'
      BY <1>1 DEF TypeInv, Next
    <2> QED
      BY <1>1, <2>1, NodeStep, VersionsStep, CertStep, CountsStep, QueueStep, PassStep DEF TypeInv
  <1>2. CASE UNCHANGED vars
    BY <1>2 DEF vars, TypeInv, NodeOK, VersionsOK, QueueOK, PassesOK, PassOK, CountsOK
  <1> QED
    BY <1>1, <1>2

\* The types in the form the runs check.
LEMMA TypeInvIsType ==
    ASSUME TypeInv
    PROVE  TypeOK
  <1>1. DOMAIN node = DOMAIN BaseNode
    BY ConstantsAssumption DEF TypeInv, NodeOK, Nodes
  <1>2. \A i \in DOMAIN versions :
          /\ versions[i].status \in Status
          /\ versions[i].kubectl \in {"no", "metadata", "spec"}
          /\ versions[i].exists <=> versions[i].gen > 0
    BY EndsOK DEF TypeInv, Versions, Hypervisors
  <1>3. \A c \in Controllers :
          pass[c].pc \in {"idle", "create", "spec", "status", "get", "patch", "apply"}
    BY DEF TypeInv, PassesOK, PassOK, Places, Controllers
  <1> QED
    BY <1>1, <1>2, <1>3 DEF TypeInv, NodeOK, VersionsOK, QueueOK, CountsOK, TypeOK

\* The type invariant as an invariant of the specification.
LEMMA TypeInductive == Spec => []TypeInv
  BY TypeInit, TypeStep, PTL DEF Spec

\* All four controllers and what they share have the types Mirror states, for
\* every node, group and bound: a certificate never asks for an address that is
\* not routable, and every version of the Hypervisor is one the CRD admits.
THEOREM TypesHold == Spec => []TypeOK
  BY TypeInductive, TypeInvIsType, PTL

\* What a step does to the Hypervisor.
LEMMA NothingIsLost ==
    ASSUME TypeInv, Next, Hv.exists, Hv'.exists
    PROVE  \E owned \in Owners : \A f \in StatusFields \ owned : Hv'.status[f] = Hv.status[f]
  <1>0. VersionsOK /\ "certificate" \in Controllers \ {"hypervisor"} /\ pass["certificate"].pc \in {"idle", "apply"}
    BY DEF TypeInv, PassesOK, PassOK, Places, Controllers
  <1>1. CASE Hv' = Hv
    BY <1>1 DEF Owners
  <1>2. CASE versions' = versions
    BY <1>1, <1>2 DEF Hv
  <1>3. CASE Moves("certificate")
    BY <1>0, <1>2, <1>3 DEF Moves, certReconcile, certApply, Start, apiError, statusGet, statusPatch, At
  <1>4. CASE Written("certificate")
    <2>1. PICK new \in Versions, owned \in Owners \cup {{}} :
              Follows(Hv, new, owned) /\ versions' = Append(versions, new)
      BY <1>4 DEF Written
    <2>2. Hv' = new
      BY <1>0, <2>1, AppendDoes
    <2>3. \A f \in StatusFields \ owned : Hv'.status[f] = Hv.status[f]
      BY <2>1, <2>2 DEF Follows
    <2> QED
      BY <2>3 DEF Owners
  <1>5. CASE WatchDelivers
    BY <1>0, <1>1, <1>5, TailDoes DEF WatchDelivers
  <1>6. CASE Crash
    BY <1>0, <1>1, <1>6, RelistDoes DEF Crash
  <1> QED
    BY <1>0, <1>2, <1>3, <1>4, <1>5, <1>6, NextLeaves DEF Leaves

\* "Only mutate fields this controller owns": a step writes the fields of one
\* owner in the status and no others, however far the copy it started from
\* lagged and whoever wrote in between.
THEOREM NoReportIsLost == Spec => NoUpdateIsLost
  <1>1. ASSUME TypeInv, [Next]_vars
        PROVE  [ Hv.exists /\ Hv'.exists =>
                   \E owned \in {{"internalIP", "terminating", "agentPodsEvicted"}, {"ready"}, {"tainted"},
                                 {"onboarding"}, {"evicting"}, {"offboarded"}} :
                       \A f \in DOMAIN Hv.status \ owned : Hv'.status[f] = Hv.status[f] ]_vars
    <2>1. DOMAIN Hv.status = StatusFields
      BY <1>1, EndsOK DEF TypeInv, Versions, Hypervisors, Status, StatusFields
    <2> QED
      BY <1>1, <2>1, NothingIsLost DEF Owners
  <1> QED
    BY <1>1, TypeInductive, PTL DEF Spec, NoUpdateIsLost

-----------------------------------------------------------------------------
(* The certificate is current at rest.                                     *)

NodeMoves == \/ nodeJoins \/ nodeGoes
             \/ \E f \in DOMAIN group.values : \E v \in group.values[f] : nodeChanges(f, v)

\* Who changes the node or the certificate.
LEMMA NodeAndCertStay ==
    ASSUME Next
    PROVE  (node' = node /\ cert' = cert) \/ NodeMoves \/ garbageCollector \/ certApply
  <1>1. ASSUME NEW c \in Controllers, Pass(c)
        PROVE  (node' = node /\ cert' = cert) \/ certApply
    BY <1>1 DEF Pass, HcPass, pollAgain, hcReconcile, hcCreate, hcPatchSpec, hcStatus, readyReconcile,
                taintReconcile, certReconcile, statusGet, statusPatch, Start, At
  <1>2. CASE WatchDelivers \/ Crash \/ \E c \in Controllers : apiError(c)
    BY <1>2 DEF WatchDelivers, Crash, apiError
  <1>3. CASE Environment
    BY <1>3 DEF Environment, NodeMoves, kubeletReports, agentsLeave, onboardingReports, maintenanceReports,
                offboardingReports, kubectlLabel, setMaintenance, Others
  <1> QED
    BY <1>1, <1>2, <1>3 DEF Next

\* A pass of the certificate controller aims at what the node says.
LEMMA CertMoves ==
    ASSUME TypeInv, CertInv, Moves("certificate"), group' = group
    PROVE  CertInv'
  <1>0. /\ DOMAIN pass = Controllers /\ "certificate" \in Controllers
        /\ pass["certificate"].pc \in {"idle", "apply"}
    BY DEF TypeInv, PassesOK, PassOK, Places, Controllers
  <1>1. CASE certReconcile
    <2>1. /\ node' = node /\ cert' = cert
          /\ pass'["certificate"] = IF ~ node.exists THEN Idle
                                    ELSE [Idle EXCEPT !.pc = "apply", !.set = ensureCertificate(node)]
      BY <1>0, <1>1 DEF certReconcile, Start, Goto
    <2>2. node.exists => pass'["certificate"].pc = "apply" /\ pass'["certificate"].set = ensureCertificate(node)
      BY <2>1 DEF Idle
    <2> QED
      BY <2>1, <2>2 DEF CertInv, Watched
  <1>2. CASE certApply
    <2>1. /\ node' = node /\ cert' = pass["certificate"].set /\ queue' = queue /\ pass'["certificate"] = Idle
          /\ pass["certificate"].pc = "apply"
      BY <1>0, <1>2 DEF certApply, At, End, Done, Goto
    <2>2. Idle.pc = "idle"
      BY DEF Idle
    <2> QED
      BY <2>1, <2>2 DEF CertInv, Watched
  <1>3. CASE apiError("certificate")
    BY <1>3 DEF apiError, End, CertInv
  <1> QED
    BY <1>0, <1>1, <1>2, <1>3 DEF Moves, statusGet, statusPatch, At

\* Every step.
LEMMA CertInvStep ==
    ASSUME TypeInv, CertInv, [Next]_vars
    PROVE  CertInv'
  <1>1. CASE UNCHANGED vars
    BY <1>1 DEF vars, CertInv, Watched
  <1>2. CASE Next
    <2>0. group' = group /\ "certificate" \in Controllers \ {"hypervisor"}
      BY <1>2 DEF Next, Controllers
    <2>1. CASE Moves("certificate")
      BY <2>0, <2>1, CertMoves
    <2>2. CASE Crash
      BY <2>0, <2>2 DEF Crash, CertInv, Watched
    <2>3. CASE NodeMoves
      <3>1. ASSUME NEW n, NodeEvent(n), NodeBecomes(n)
            PROVE  CertInv'
        BY <2>0, <3>1 DEF NodeEvent, NodeBecomes, Enqueue, CertInv, Watched
      <3>2. CASE nodeGoes
        <4>1. ~ NoNode.exists /\ node' = NoNode
          BY <3>2, ConstantsAssumption DEF nodeGoes, NodeBecomes, NoNode, Nodes
        <4> QED
          BY <4>1 DEF CertInv, Watched
      <3> QED
        BY <2>3, <3>1, <3>2 DEF NodeMoves, nodeJoins, nodeChanges
    <2>4. CASE garbageCollector
      BY <2>4 DEF garbageCollector, CertInv, Watched
    <2>5. CASE certApply
      BY <2>0, <2>1, <2>5 DEF Moves
    <2>6. CASE node' = node /\ cert' = cert /\ (Leaves("certificate") \/ WatchDelivers)
      <3>1. /\ pass'["certificate"] = pass["certificate"]
            /\ "certificate" \in queue => "certificate" \in queue'
        BY <2>6 DEF Leaves, WatchDelivers, Enqueue
      <3> QED
        BY <2>0, <2>6, <3>1 DEF CertInv, Watched
    <2> QED
      BY <1>2, <2>0, <2>1, <2>2, <2>3, <2>4, <2>5, <2>6, NextLeaves, NodeAndCertStay
  <1> QED
    BY <1>1, <1>2

\* What the certificate of a node lists.
LEMMA EnsureLists ==
    ASSUME NEW n, NEW ip \in GlobalUnicast
    PROVE  ip \in ensureCertificate(n).ipAddresses <=>
               \E a \in DOMAIN Unmap :
                   /\ Unmap[a] = ip
                   /\ \/ \E i \in DOMAIN n.addresses :
                            /\ n.addresses[i].address = a
                            /\ n.addresses[i].type \in {"InternalIP", "ExternalIP"}
                      \/ \E i \in n.interfaces :
                            a \in i.addresses /\ i.name \in Include /\ i.name \notin Exclude
  <1>1. \A a : ip \in parseRoutableIP(a) <=> a \in DOMAIN Unmap /\ Unmap[a] = ip
    BY DEF parseRoutableIP
  <1>2. ip \in addInterfaceAddresses(n) <=>
            \E i \in n.interfaces : /\ i.name \in Include /\ i.name \notin Exclude
                                   /\ \E a \in i.addresses : ip \in parseRoutableIP(a)
    BY DEF addInterfaceAddresses
  <1> DEFINE entries == {n.addresses[i] : i \in DOMAIN n.addresses}
             own == UNION {parseRoutableIP(e.address) : e \in {d \in entries : d.type \in {"InternalIP", "ExternalIP"}}}
  <1>3. ip \in own <=> \E i \in DOMAIN n.addresses :
                          /\ n.addresses[i].type \in {"InternalIP", "ExternalIP"}
                          /\ ip \in parseRoutableIP(n.addresses[i].address)
    OBVIOUS
  <1>4. ensureCertificate(n).ipAddresses = addInterfaceAddresses(n) \cup own
    BY DEF ensureCertificate
  <1> HIDE DEF own
  <1> QED
    BY <1>1, <1>2, <1>3, <1>4

NameTypes == {"Hostname", "InternalDNS", "ExternalDNS"}

\* The names of a node, and the compute host's, are the certificate's.
LEMMA EnsureNames ==
    ASSUME NEW n
    PROVE  /\ "node" \in ensureCertificate(n).dnsNames
           /\ \A i \in DOMAIN n.addresses :
                 n.addresses[i].address # "" /\ n.addresses[i].type \in NameTypes =>
                     n.addresses[i].address \in ensureCertificate(n).dnsNames
           /\ \A name \in ensureCertificate(n).dnsNames \ {"node"} :
                 \E i \in DOMAIN n.addresses :
                     n.addresses[i].address = name /\ n.addresses[i].type \in NameTypes
  <1> DEFINE entries == {n.addresses[i] : i \in DOMAIN n.addresses}
             names == {e.address : e \in {d \in entries : d.type \in NameTypes /\ d.address # ""}}
  <1>1. \A name : name \in names <=>
            \E i \in DOMAIN n.addresses : /\ n.addresses[i].address = name /\ name # ""
                                          /\ n.addresses[i].type \in NameTypes
    OBVIOUS
  <1>2. ensureCertificate(n).dnsNames = {"node"} \cup names
    BY DEF ensureCertificate, NameTypes
  <1> HIDE DEF names
  <1> QED
    BY <1>1, <1>2

\* "The exclude regex wins", and what a pass read is what it applies: whenever
\* everybody is at rest, the certificate lists a routable address exactly if the
\* node or an admitted interface has it, and the names of the node with the
\* compute host's, through failures and restarts.
THEOREM CertificateStaysCurrent == Spec => []CertificateIsCurrent
  <1>1. Init => CertInv
    <2>1. ASSUME Init
          PROVE  CertInv
      <3>1. pass["certificate"] = Idle /\ Idle.pc = "idle"
        BY <2>1 DEF Init, Controllers, Idle
      <3>2. ~ NoNode.exists
        BY ConstantsAssumption DEF NoNode, Nodes
      <3> QED
        BY <2>1, <3>1, <3>2 DEF Init, CertInv, Watched
    <2> QED
      BY <2>1
  <1>2. CertInv => CertificateIsCurrent
    <2> SUFFICES ASSUME CertInv, Quiet, Watched, "certificate" \in group.controllers
                 PROVE  CertificateIsCurrent
      BY DEF CertificateIsCurrent
    <2>1. "certificate" \notin queue /\ pass["certificate"].pc = "idle"
      BY DEF Quiet, Controllers
    <2>2. cert = ensureCertificate(node)
      BY <2>1 DEF CertInv
    <2> QED
      BY <2>2, EnsureLists, EnsureNames DEF CertificateIsCurrent, NameTypes
  <1> QED
    BY <1>1, <1>2, TypeInductive, CertInvStep, PTL DEF Spec

-----------------------------------------------------------------------------
(* Ready is current at rest.                                               *)

ReadyAntecedent == /\ "ready" \in group.controllers /\ "ready" \notin queue /\ Hv.exists
                   /\ \A i \in DOMAIN versions : SameReads(versions[i], Hv)

\* The condition is right, or a pass is about to correct it.
ReadyAimed(p, h) == IF p.pc = "idle"
                    THEN h.status.ready = ComputeReadyCondition(h)
                    ELSE /\ p.set = [ready |-> ComputeReadyCondition(h)]
                         /\ h.status.ready # ComputeReadyCondition(h)

\* A step of others: either the ready controller will hear of it, or it does
\* not concern it.
LEMMA ReadyLeaves ==
    ASSUME TypeInv, ReadyInv, group' = group, Leaves("ready") \/ WatchDelivers \/ Crash
    PROVE  ReadyInv'
  <1>0. VersionsOK /\ DOMAIN pass = Controllers /\ "ready" \in Controllers
    BY DEF TypeInv, PassesOK, Controllers
  <1>1. SUFFICES ASSUME ReadyAntecedent'
                 PROVE  ReadyAimed(pass'["ready"], Hv')
    BY DEF ReadyInv, ReadyAntecedent, ReadyAimed
  <1>2. ReadyAntecedent => ReadyAimed(pass["ready"], Hv)
    BY DEF ReadyInv, ReadyAntecedent, ReadyAimed
  <1>3. CASE Leaves("ready") /\ versions' = versions
    <2>1. Hv' = Hv /\ ReadyAntecedent /\ pass'["ready"] = pass["ready"]
      BY <1>0, <1>1, <1>3 DEF Leaves, Hv, ReadyAntecedent
    <2> QED
      BY <1>2, <2>1
  <1>4. CASE Leaves("ready") /\ Written("ready")
    <2>1. PICK new \in Versions : versions' = Append(versions, new)
      BY <1>4 DEF Written
    <2>2. /\ Hv' = new /\ DOMAIN versions \subseteq DOMAIN versions' /\ Len(versions) \in DOMAIN versions
          /\ \A i \in DOMAIN versions : versions'[i] = versions[i]
      BY <1>0, <2>1, AppendDoes, EndsOK
    <2>3. \A i \in DOMAIN versions : SameReads(versions[i], new)
      BY <1>1, <2>2 DEF ReadyAntecedent
    <2>4. SameReads(Hv, new)
      BY <2>2, <2>3 DEF Hv
    <2>5. \A i \in DOMAIN versions : SameReads(versions[i], Hv)
      BY <2>3, <2>4 DEF SameReads
    <2>6. ReadyAntecedent /\ pass'["ready"] = pass["ready"]
      BY <1>1, <1>4, <2>4, <2>5 DEF ReadyAntecedent, Leaves, SameReads
    <2>7. ComputeReadyCondition(Hv) = ComputeReadyCondition(new) /\ Hv.status = new.status
      BY <2>4, ComputeReads DEF SameReads
    <2> QED
      BY <1>2, <2>2, <2>6, <2>7 DEF ReadyAimed
  <1>5. CASE WatchDelivers
    <2>1. Len(versions) > 1 /\ versions' = Tail(versions) /\ pass' = pass
      BY <1>5 DEF WatchDelivers
    <2>2. /\ Hv' = Hv /\ 2 \in DOMAIN versions
          /\ \A i \in DOMAIN versions : i # 1 => i - 1 \in DOMAIN versions' /\ versions'[i - 1] = versions[i]
      BY <1>0, <2>1, TailDoes
    <2>3. \A i \in DOMAIN versions : i # 1 => SameReads(versions[i], Hv)
      BY <1>1, <2>2 DEF ReadyAntecedent
    <2>4. "ready" \notin queue /\ ~ StatusChangedPredicate(versions[1], versions[2])
      BY <1>1, <1>5 DEF WatchDelivers, Enqueue, ReadyAntecedent
    <2>5. SameReads(versions[2], Hv)
      BY <2>2, <2>3
    <2>6. SameReads(versions[1], Hv)
      BY <2>4, <2>5 DEF StatusChangedPredicate, SameReads
    <2>7. ReadyAntecedent
      BY <1>1, <2>2, <2>3, <2>4, <2>6 DEF ReadyAntecedent
    <2> QED
      BY <1>2, <2>1, <2>2, <2>7
  <1>6. CASE Crash
    <2>1. Hv' = Hv
      BY <1>0, <1>6, RelistDoes DEF Crash
    <2> QED
      BY <1>1, <1>6, <2>1 DEF Crash, ReadyAntecedent
  <1> QED
    BY <1>3, <1>4, <1>5, <1>6 DEF Leaves

\* A pass of the ready controller.
LEMMA ReadyMoves ==
    ASSUME TypeInv, ReadyInv, group' = group, Moves("ready")
    PROVE  ReadyInv'
  <1>0. /\ VersionsOK /\ DOMAIN pass = Controllers /\ "ready" \in Controllers
        /\ PassOK("ready", pass["ready"]) /\ Hv \in Versions
        /\ Cached = versions[1] /\ 1 \in DOMAIN versions
    BY EndsOK DEF TypeInv, PassesOK, Controllers
  <1>1. SUFFICES ASSUME ReadyAntecedent'
                 PROVE  ReadyAimed(pass'["ready"], Hv')
    BY DEF ReadyInv, ReadyAntecedent, ReadyAimed
  <1>2. ReadyAntecedent => ReadyAimed(pass["ready"], Hv)
    BY DEF ReadyInv, ReadyAntecedent, ReadyAimed
  <1>3. Idle.pc = "idle" /\ \A set : PatchStatus(set, FALSE).pc = "get" /\ PatchStatus(set, FALSE).set = set
    BY DEF Idle, PatchStatus
  <1>4. CASE readyReconcile
    <2> DEFINE now == ComputeReadyCondition(Cached)
    <2>1. /\ versions' = versions
          /\ pass'["ready"] = IF ~ Cached.exists \/ Cached.status.ready = now
                              THEN Idle ELSE PatchStatus([ready |-> now], FALSE)
      BY <1>0, <1>4 DEF readyReconcile, Start, Goto
    <2>2. Hv' = Hv /\ SameReads(versions[1], Hv)
      BY <1>0, <1>1, <2>1 DEF Hv, ReadyAntecedent
    <2>3. Cached.exists /\ Cached.status = Hv.status /\ now = ComputeReadyCondition(Hv)
      BY <1>0, <2>2, ComputeReads DEF SameReads
    <2> HIDE DEF now
    <2>4. CASE Hv.status.ready = now
      <3>1. pass'["ready"] = Idle
        BY <2>1, <2>3, <2>4
      <3> QED
        BY <1>3, <2>2, <2>3, <2>4, <3>1 DEF ReadyAimed
    <2>5. CASE Hv.status.ready # now
      <3>1. pass'["ready"] = PatchStatus([ready |-> now], FALSE)
        BY <2>1, <2>3, <2>5
      <3>2. pass'["ready"].pc = "get" /\ pass'["ready"].set = [ready |-> now]
        BY <1>3, <3>1, Zenon
      <3> QED
        BY <2>2, <2>3, <2>5, <3>2 DEF ReadyAimed
    <2> QED
      BY <2>4, <2>5
  <1>5. CASE statusGet("ready") \/ apiError("ready")
    <2>1. "ready" \notin queue' /\ versions' = versions
      BY <1>1, <1>5 DEF ReadyAntecedent, statusGet, apiError
    <2>2. CASE apiError("ready")
      BY <2>1, <2>2 DEF apiError, End
    <2>3. CASE statusGet("ready")
      <3>1. /\ queue' = queue /\ pass'["ready"] = [pass["ready"] EXCEPT !.pc = "patch", !.base = Cached]
            /\ pass["ready"].pc = "get"
        BY <1>0, <2>1, <2>3 DEF statusGet, At, End, Goto
      <3>2. pass'["ready"].pc = "patch" /\ pass'["ready"].set = pass["ready"].set
        BY <1>0, <3>1 DEF PassOK
      <3>3. Hv' = Hv /\ ReadyAntecedent
        BY <1>1, <2>1, <3>1 DEF Hv, ReadyAntecedent
      <3> QED
        BY <1>2, <3>1, <3>2, <3>3 DEF ReadyAimed
    <2> QED
      BY <1>5, <2>2, <2>3
  <1>6. CASE statusPatch("ready")
    <2>1. pass["ready"].pc = "patch" /\ SetOK("ready", pass["ready"].set)
      BY <1>0, <1>6 DEF statusPatch, At, PassOK
    <2>2. CASE Hv.exists /\ Write([Hv EXCEPT !.status = Updated(@, pass["ready"].set)]) /\ End("ready", Poll(pass["ready"].poll))
      <3> DEFINE new == [Hv EXCEPT !.status = Updated(@, pass["ready"].set)]
      <3>1. new \in Versions /\ new.status = Updated(Hv.status, pass["ready"].set)
        BY <1>0, <2>1, <2>2, PatchWrite
      <3>2. "ready" \in queue => "ready" \in queue'
        BY <2>2 DEF End
      <3>3. Write(new)
        BY <2>2
      <3> HIDE DEF new
      <3>4. SameReads(Hv, Hv') /\ Hv' = new /\ ReadyAntecedent
        <4>1. CASE versions' = versions /\ new = Hv
          <5>1. Hv' = Hv
            BY <4>1 DEF Hv
          <5>2. ReadyAntecedent
            BY <1>1, <3>2, <4>1, <5>1 DEF ReadyAntecedent
          <5>3. SameReads(Hv, Hv')
            BY <5>1, <5>2 DEF SameReads, ReadyAntecedent
          <5> QED
            BY <4>1, <5>1, <5>2, <5>3
        <4>2. CASE versions' = Append(versions, new)
          <5>2. /\ Hv' = new /\ DOMAIN versions \subseteq DOMAIN versions' /\ Len(versions) \in DOMAIN versions
                /\ \A i \in DOMAIN versions : versions'[i] = versions[i]
            BY <1>0, <3>1, <4>2, AppendDoes, EndsOK
          <5>3. \A i \in DOMAIN versions : SameReads(versions[i], new)
            BY <1>1, <5>2 DEF ReadyAntecedent
          <5>4. SameReads(Hv, new)
            BY <5>2, <5>3 DEF Hv
          <5>5. \A i \in DOMAIN versions : SameReads(versions[i], Hv)
            BY <5>3, <5>4 DEF SameReads
          <5>6. ReadyAntecedent
            BY <1>1, <3>2, <5>4, <5>5 DEF ReadyAntecedent, SameReads
          <5> QED
            BY <5>2, <5>4, <5>6
        <4> QED
          BY <1>0, <3>1, <3>3, <4>1, <4>2, WriteDoes
      <3>5. /\ pass["ready"].set = [ready |-> ComputeReadyCondition(Hv)]
            /\ Hv.status.ready # ComputeReadyCondition(Hv)
        BY <1>2, <2>1, <3>4 DEF ReadyAimed
      <3>6. "ready" \in DOMAIN Hv.status
        BY <1>0 DEF Versions, Hypervisors, Status
      <3>7. new.status.ready = ComputeReadyCondition(Hv)
        BY <3>1, <3>5, <3>6 DEF Updated
      <3> QED
        BY <3>4, <3>5, <3>7 DEF SameReads
    <2>3. CASE End("ready", {"ready"})
      BY <1>1, <2>3 DEF End, ReadyAntecedent
    <2>4. CASE Goto("ready", [pass["ready"] EXCEPT !.pc = "get"]) /\ UNCHANGED queue /\ UNCHANGED versions
      <3>1. pass'["ready"].pc = "get" /\ pass'["ready"].set = pass["ready"].set
        BY <1>0, <2>4 DEF Goto, PassOK
      <3>2. Hv' = Hv /\ ReadyAntecedent
        BY <1>1, <2>4 DEF Hv, ReadyAntecedent
      <3> QED
        BY <1>2, <2>1, <3>1, <3>2 DEF ReadyAimed
    <2>5. pass["ready"].base.exists
      BY <1>0, <2>1 DEF PassOK
    <2> QED
      BY <1>6, <2>2, <2>3, <2>4, <2>5 DEF statusPatch
  <1> QED
    BY <1>4, <1>5, <1>6 DEF Moves

\* Every step.
LEMMA ReadyInvStep ==
    ASSUME TypeInv, ReadyInv, [Next]_vars
    PROVE  ReadyInv'
  <1>1. CASE UNCHANGED vars
    BY <1>1 DEF vars, ReadyInv, Hv
  <1>2. CASE Next
    <2>1. group' = group /\ "ready" \in Controllers \ {"hypervisor"}
      BY <1>2 DEF Next, Controllers
    <2> QED
      BY <1>2, <2>1, NextLeaves, ReadyLeaves, ReadyMoves
  <1> QED
    BY <1>1, <1>2

\* Initial states.
LEMMA ReadyInvInit ==
    ASSUME Init
    PROVE  ReadyInv
  <1>1. pass["ready"] = Idle /\ Idle.pc = "idle"
    BY DEF Init, Controllers, Idle
  <1>2. Hv \in {NoHypervisor, InService, InTest, Drained}
    BY DEF Init, Hv
  <1>3. ~ NoHypervisor.exists
    BY DEF NoHypervisor
  <1>4. InService.status.ready = ComputeReadyCondition(InService)
    BY InServiceOK DEF ComputeReadyCondition
  <1>5. InTest.status.ready = ComputeReadyCondition(InTest)
    BY InTestOK DEF ComputeReadyCondition
  <1>6. Drained.status.ready = ComputeReadyCondition(Drained)
    BY DrainedOK DEF ComputeReadyCondition
  <1> QED
    BY <1>1, <1>2, <1>3, <1>4, <1>5, <1>6 DEF ReadyInv

\* The ready controller computes its condition from one version and writes it
\* into a later one, woken by status and spec.maintenance only: still, whenever
\* everybody is at rest, Ready says what the conditions next to it add up to.
THEOREM ReadyStaysCurrent == Spec => []ReadyIsCurrent
  <1>1. ASSUME TypeInv, ReadyInv
        PROVE  ReadyIsCurrent
    <2> SUFFICES ASSUME Quiet, Hv.exists, "ready" \in group.controllers
                 PROVE  ReadyIsCurrent
      BY DEF ReadyIsCurrent
    <2>1. "ready" \notin queue /\ pass["ready"].pc = "idle" /\ Len(versions) = 1
      BY DEF Quiet, Controllers
    <2>2. \A i \in DOMAIN versions : versions[i] = Hv
      BY <1>1, <2>1, EndsOK DEF TypeInv, Hv
    <2>3. Hv.status.ready = ComputeReadyCondition(Hv)
      BY <1>1, <2>1, <2>2 DEF ReadyInv, SameReads
    <2>4. /\ Hv.status.evicting \in {"None", "True", "False"} /\ Hv.status.terminating \in {"None", "True"}
          /\ Hv.status.onboarding \in {"None", "Running", "Aborted", "Succeeded"}
      BY <1>1, EndsOK DEF TypeInv, Versions, Hypervisors, Status
    <2> QED
      BY <2>3, <2>4 DEF ReadyIsCurrent, ComputeReadyCondition
  <1> QED
    BY <1>1, TypeInductive, ReadyInvInit, ReadyInvStep, PTL DEF Spec

-----------------------------------------------------------------------------
(* Tainted is current at rest.                                             *)

\* Along versions of one generation kubectl has edited labels at most.
LEMMA KubectlStep ==
    ASSUME TypeInv, KubectlInv, [Next]_vars
    PROVE  KubectlInv'
  <1>0. /\ VersionsOK /\ "certificate" \in Controllers \ {"hypervisor"}
        /\ pass["certificate"].pc \in {"idle", "apply"}
    BY DEF TypeInv, PassesOK, PassOK, Places, Controllers
  <1>1. CASE versions' = versions
    BY <1>1 DEF KubectlInv, Hv
  <1>2. CASE Moves("certificate")
    BY <1>0, <1>1, <1>2 DEF Moves, certReconcile, certApply, Start, apiError, statusGet, statusPatch, At
  <1>3. CASE Written("certificate")
    <2>1. PICK new \in Versions, owned \in Owners \cup {{}} : versions' = Append(versions, new) /\ Follows(Hv, new, owned)
      BY <1>3 DEF Written
    <2>2. /\ Hv' = new /\ DOMAIN versions' = DOMAIN versions \cup {Len(versions) + 1}
          /\ Len(versions) \in DOMAIN versions /\ Len(versions) \in Nat
          /\ \A i \in DOMAIN versions : versions'[i] = versions[i] /\ i \in Nat /\ i <= Len(versions)
          /\ versions'[Len(versions) + 1] = new
      BY <1>0, <2>1, AppendDoes, EndsOK
    <2>3. SUFFICES ASSUME new.exists, NEW i \in DOMAIN versions',
                          \A j \in DOMAIN versions' : j >= i => SameGen(versions'[j], new)
                   PROVE  KubectlStays(versions'[i], new)
      BY <2>2 DEF KubectlInv
    <2>4. CASE i = Len(versions) + 1
      BY <2>2, <2>4 DEF KubectlStays
    <2>5. CASE i \in DOMAIN versions
      <3>1. SameGen(versions[Len(versions)], new)
        BY <2>2, <2>3, <2>5
      <3>2. Hv.exists /\ Hv.gen = new.gen
        BY <3>1 DEF Hv, SameGen
      <3>3. \A j \in DOMAIN versions : j >= i => SameGen(versions[j], Hv)
        BY <2>2, <2>3, <3>2 DEF SameGen
      <3>4. KubectlStays(versions[i], Hv)
        BY <2>5, <3>2, <3>3 DEF KubectlInv
      <3>5. KubectlStays(Hv, new)
        BY <2>1, <2>3, <3>2 DEF Follows
      <3> QED
        BY <2>2, <2>5, <3>4, <3>5 DEF KubectlStays
    <2> QED
      BY <2>2, <2>4, <2>5
  <1>4. CASE WatchDelivers
    <2>1. /\ Hv' = Hv
          /\ \A i \in DOMAIN versions' : i + 1 \in DOMAIN versions /\ versions'[i] = versions[i + 1]
          /\ \A i \in DOMAIN versions : i # 1 => i - 1 \in DOMAIN versions' /\ versions'[i - 1] = versions[i]
          /\ VersionsOK'
      BY <1>0, <1>4, TailDoes DEF WatchDelivers
    <2>2. SUFFICES ASSUME Hv.exists, NEW i \in DOMAIN versions',
                          \A j \in DOMAIN versions' : j >= i => SameGen(versions'[j], Hv)
                   PROVE  KubectlStays(versions'[i], Hv)
      BY <2>1 DEF KubectlInv
    <2>3. i \in Nat /\ i >= 1
      BY <2>1 DEF VersionsOK
    <2>4. ASSUME NEW j \in DOMAIN versions, j >= i + 1
          PROVE  SameGen(versions[j], Hv)
      <3>1. j \in Nat
        BY <1>0, EndsOK
      <3>2. j # 1 /\ j - 1 >= i
        BY <2>3, <2>4, <3>1
      <3> QED
        BY <2>1, <2>2, <3>2
    <2>5. KubectlStays(versions[i + 1], Hv)
      BY <2>1, <2>2, <2>4 DEF KubectlInv
    <2> QED
      BY <2>1, <2>5
  <1>5. CASE Crash
    BY <1>0, <1>5, RelistDoes DEF Crash, KubectlInv, KubectlStays
  <1>6. CASE UNCHANGED vars
    BY <1>1, <1>6 DEF vars
  <1> QED
    BY <1>0, <1>1, <1>2, <1>3, <1>4, <1>5, <1>6, NextLeaves DEF Leaves

\* A node that never goes keeps its Hypervisor, and only an existing node has one made.
LEMMA LifeStep ==
    ASSUME NodesStay, "taint" \in group.controllers, TypeInv, LifeInv, [Next]_vars
    PROVE  LifeInv' /\ (Hv.exists => Hv'.exists)
  <1>0. /\ VersionsOK /\ "certificate" \in Controllers \ {"hypervisor"} /\ "hypervisor" \in Controllers
        /\ pass["certificate"].pc \in {"idle", "apply"} /\ DOMAIN pass = Controllers
        /\ node \in Nodes
    BY DEF TypeInv, PassesOK, PassOK, Places, Controllers, NodeOK
  <1>1. ~ nodeGoes
    <2>1. BaseNode.ending = "no" /\ "ending" \in DOMAIN BaseNode
      BY ConstantsAssumption DEF Nodes
    <2>2. node.ending # "deletion"
      BY <2>1 DEF TypeInv, NodeOK, NodesStay
    <2> QED
      BY <2>2 DEF nodeGoes
  <1>2. ASSUME NEW c \in Controllers, Pass(c)
        PROVE  node' = node
    BY <1>2 DEF Pass, HcPass, pollAgain, hcReconcile, hcCreate, hcPatchSpec, hcStatus, readyReconcile,
                taintReconcile, certReconcile, certApply, statusGet, statusPatch, Start, At
  <1>3. node.exists => node'.exists
    <2>1. ASSUME NEW f \in DOMAIN group.values, NEW v \in group.values[f], nodeChanges(f, v), node.exists
          PROVE  node'.exists
      <3>1. f # "exists" /\ node' = [node EXCEPT ![f] = v]
        BY <2>1, ConstantsAssumption DEF TypeInv, nodeChanges, NodeBecomes
      <3>2. node'.exists = node.exists
        BY <1>0, <3>1 DEF Nodes
      <3> QED
        BY <2>1, <3>2, Zenon
    <2>2. CASE nodeJoins
      BY <2>2, ConstantsAssumption DEF nodeJoins, NodeBecomes
    <2>3. CASE node' = node
      BY <2>3
    <2> QED
      BY <1>1, <1>2, <2>1, <2>2, <2>3
         DEF Next, vars, WatchDelivers, Crash, apiError, Environment, kubeletReports, agentsLeave, garbageCollector,
             onboardingReports, maintenanceReports, offboardingReports, kubectlLabel, setMaintenance, Others
  <1>4. /\ Hv.exists => Hv'.exists
        /\ ~ node.exists => ~ Hv'.exists
    <2>1. CASE versions' = versions
      BY <2>1 DEF LifeInv, Hv
    <2>2. CASE Moves("certificate")
      BY <1>0, <2>1, <2>2 DEF Moves, certReconcile, certApply, Start, apiError, statusGet, statusPatch, At
    <2>3. CASE Written("certificate")
      <3>1. PICK new \in Versions, owned \in Owners \cup {{}} :
                versions' = Append(versions, new) /\ Follows(Hv, new, owned)
        BY <2>3 DEF Written
      <3>2. Hv' = new
        BY <1>0, <3>1, AppendDoes
      <3> QED
        BY <3>1, <3>2 DEF Follows, LifeInv
    <2>4. CASE WatchDelivers
      BY <1>0, <2>4, TailDoes DEF WatchDelivers, LifeInv
    <2>5. CASE Crash
      BY <1>0, <2>5, RelistDoes DEF Crash, LifeInv
    <2>6. CASE UNCHANGED vars
      BY <2>1, <2>6 DEF vars
    <2> QED
      BY <1>0, <2>1, <2>2, <2>3, <2>4, <2>5, <2>6, NextLeaves DEF Leaves
  <1>5. ASSUME ~ node.exists
        PROVE  pass'["hypervisor"].pc # "create"
    <2>1. pass["hypervisor"].pc # "create" /\ Idle.pc = "idle"
      BY <1>5 DEF LifeInv, Idle
    <2>2. ASSUME NEW c \in Controllers, NEW p, Goto(c, p), p.pc # "create" \/ c # "hypervisor"
          PROVE  pass'["hypervisor"].pc # "create"
      BY <1>0, <2>1, <2>2 DEF Goto
    <2>3. ASSUME NEW c \in Controllers, NEW next, End(c, next)
          PROVE  pass'["hypervisor"].pc # "create"
      BY <2>1, <2>2, <2>3 DEF End
    <2>4. CASE pass' = pass
      BY <2>1, <2>4
    <2>5. CASE hcReconcile
      BY <1>0, <1>5, <2>1, <2>2, <2>5 DEF hcReconcile
    <2>6. CASE hcCreate
      BY <2>1, <2>6 DEF hcCreate, At
    <2>7. PassOK("hypervisor", pass["hypervisor"])
      BY DEF TypeInv, PassesOK, Controllers
    <2>8. CASE hcPatchSpec
      <3> DEFINE p == pass["hypervisor"]
                 q == [p EXCEPT !.pc = "status", !.base = syncLabelsAndAnnotations(p.node, p.base)]
      <3>1. End("hypervisor", {"hypervisor"}) \/ Goto("hypervisor", q)
        BY <2>8 DEF hcPatchSpec
      <3>2. q.pc = "status"
        BY <2>7 DEF PassOK
      <3> HIDE DEF q
      <3> QED
        BY <1>0, <2>2, <2>3, <3>1, <3>2
    <2>9. \A set, poll : PatchStatus(set, poll).pc = "get"
      BY DEF PatchStatus, Idle
    <2>10. CASE hcStatus
      <3>1. \/ \E next : End("hypervisor", next)
            \/ \E set, poll : Goto("hypervisor", PatchStatus(set, poll))
        BY <2>10, Zenon DEF hcStatus
      <3> QED
        BY <1>0, <2>2, <2>3, <2>9, <3>1
    <2>11. CASE readyReconcile \/ taintReconcile \/ certReconcile
      BY <2>2, <2>11 DEF readyReconcile, taintReconcile, certReconcile, Controllers
    <2>12. CASE certApply
      BY <2>3, <2>12 DEF certApply, Controllers
    <2>13. ASSUME NEW c \in Controllers, statusGet(c) \/ statusPatch(c)
           PROVE  pass'["hypervisor"].pc # "create"
      <3>1. [pass[c] EXCEPT !.pc = "patch", !.base = Cached].pc = "patch" /\ [pass[c] EXCEPT !.pc = "get"].pc = "get"
        BY DEF TypeInv, PassesOK, PassOK
      <3> QED
        BY <2>2, <2>3, <2>13, <3>1 DEF statusGet, statusPatch
    <2>14. ASSUME NEW c \in Controllers, apiError(c)
           PROVE  pass'["hypervisor"].pc # "create"
      BY <2>3, <2>14 DEF apiError
    <2>15. CASE Crash
      BY <1>0, <2>1, <2>15 DEF Crash
    <2>16. CASE pollAgain \/ WatchDelivers \/ Environment \/ UNCHANGED vars
      BY <2>4, <2>16
         DEF pollAgain, WatchDelivers, vars, Environment, nodeJoins, nodeGoes, nodeChanges, NodeBecomes,
             kubeletReports, agentsLeave, garbageCollector, onboardingReports, maintenanceReports,
             offboardingReports, kubectlLabel, setMaintenance, Others
    <2> QED
      BY <2>5, <2>6, <2>8, <2>10, <2>11, <2>12, <2>13, <2>14, <2>15, <2>16 DEF Next, Pass, HcPass
  <1> QED
    BY <1>3, <1>4, <1>5 DEF LifeInv

\* What a step of the taint controller or of anybody else keeps.
TaintAll == GenInv /\ RightInv /\ TaintInv

\* One more version: of the same Hypervisor, or its first.
LEMMA TaintWritten ==
    ASSUME TypeInv, TaintAll, group' = group, Leaves("taint"), Written("taint"),
           Hv.exists => Hv'.exists
    PROVE  TaintAll'
  <1>0. VersionsOK /\ Hv \in Versions /\ Hv.gen \in Nat /\ Cached \in Versions /\ Cached.gen \in Nat
    BY EndsOK DEF TypeInv, Versions, Hypervisors
  <1>1. PICK new \in Versions, owned \in Owners \cup {{}} :
            /\ owned \cap Owned("taint") = {} /\ Follows(Hv, new, owned) /\ versions' = Append(versions, new)
    BY DEF Written
  <1>2. /\ Hv' = new /\ DOMAIN versions' = DOMAIN versions \cup {Len(versions) + 1}
        /\ Len(versions) \in DOMAIN versions /\ Len(versions) \in Nat /\ 1 \in DOMAIN versions
        /\ \A i \in DOMAIN versions : /\ versions'[i] = versions[i] /\ i \in Nat /\ i <= Len(versions)
                                      /\ versions[i] \in Versions
        /\ versions'[Len(versions) + 1] = new /\ Cached = versions[1] /\ VersionsOK'
    BY <1>0, <1>1, AppendDoes, EndsOK
  <1>3. Cached' = Cached
    <2>1. Cached' = versions'[1]
      BY <1>2 DEF VersionsOK, Cached
    <2> QED
      BY <1>2, <2>1
  <1>4. pass'["taint"] = pass["taint"] /\ ("taint" \in queue => "taint" \in queue')
    BY DEF Leaves
  <1>5. \A i \in DOMAIN versions : versions[i].gen \in Nat /\ versions[i].status.tainted.gen \in Nat
    BY <1>2 DEF Versions, Hypervisors, Status
  <1>6. new.gen \in Nat /\ new.status.tainted.gen \in Nat /\ (new.exists <=> new.gen > 0)
    BY DEF Versions, Hypervisors, Status
  <1>7. /\ new.gen >= Hv.gen /\ new.status.tainted.gen = Hv.status.tainted.gen
        /\ Hv.exists => new.exists /\ new.status.tainted = Hv.status.tainted /\ (new.gen = Hv.gen => KubectlStays(Hv, new))
    <2>1. CASE Hv.exists
      <3>1. new.exists /\ "tainted" \in StatusFields \ owned
        BY <1>1, <1>2, <2>1 DEF Owned, StatusFields
      <3> QED
        BY <1>1, <2>1, <3>1 DEF Follows
    <2>2. CASE ~ Hv.exists
      <3>1. Hv.gen = 0
        BY <1>0, <2>2 DEF Versions
      <3>2. \A i \in DOMAIN versions : versions[i].gen <= 0
        BY <1>2, <3>1 DEF TaintAll, GenInv, Hv
      <3>3. Hv.status.tainted.gen = 0
        BY <1>2, <1>5, <3>2 DEF TaintAll, GenInv, Hv
      <3>4. NoHypervisor.status.tainted.gen = 0
        BY DEF NoHypervisor, NoStatus
      <3>5. new.status.tainted.gen = 0
        BY <1>1, <2>2, <3>4 DEF Follows
      <3> QED
        BY <1>6, <2>2, <3>1, <3>3, <3>5
    <2> QED
      BY <2>1, <2>2
  <1>8. \A i \in DOMAIN versions : versions[i].gen <= Hv.gen /\ versions[i].status.tainted.gen <= Hv.status.tainted.gen
    BY <1>2 DEF TaintAll, GenInv, Hv
  <1>9. GenInv'
    <2>1. \A i, j \in DOMAIN versions' : i <= j => versions'[i].gen <= versions'[j].gen
      <3> SUFFICES ASSUME NEW i \in DOMAIN versions', NEW j \in DOMAIN versions', i <= j
                   PROVE  versions'[i].gen <= versions'[j].gen
        OBVIOUS
      <3>1. CASE j \in DOMAIN versions
        <4>1. i \in DOMAIN versions
          BY <1>2, <3>1
        <4> QED
          BY <1>2, <3>1, <4>1 DEF TaintAll, GenInv
      <3>2. CASE j = Len(versions) + 1
        BY <1>0, <1>2, <1>5, <1>6, <1>7, <1>8, <3>2
      <3> QED
        BY <1>2, <3>1, <3>2
    <2>2. Hv.status.tainted.gen <= Cached.gen
      BY <1>2 DEF TaintAll, GenInv, Hv
    <2>3. ASSUME NEW i \in DOMAIN versions'
          PROVE  versions'[i].status.tainted.gen <= Cached.gen /\ versions'[i].status.tainted.gen <= new.status.tainted.gen
      <3>1. CASE i \in DOMAIN versions
        BY <1>2, <1>7, <1>8, <3>1 DEF TaintAll, GenInv
      <3>2. CASE i = Len(versions) + 1
        BY <1>2, <1>6, <1>7, <2>2, <3>2
      <3> QED
        BY <1>2, <3>1, <3>2
    <2>4. TaintRuns' => /\ (DOMAIN pass["taint"].set = {"tainted"})' /\ (Mark \in [status : {"None", "True", "False"}, gen : Nat])'
                        /\ (Mark.gen)' <= Cached.gen /\ (Mark.gen)' >= new.status.tainted.gen
      BY <1>4, <1>7 DEF TaintAll, GenInv, TaintRuns, Mark
    <2> QED
      BY <1>2, <1>3, <2>1, <2>3, <2>4 DEF GenInv
  <1>10. Cached.gen <= Hv.gen /\ Hv.status.tainted.gen <= Cached.gen /\ Hv.status.tainted.gen \in Nat
    BY <1>2, <1>5 DEF TaintAll, GenInv, Hv
  <1>11. RightInv'
    <2>1. ASSUME NEW t, t.gen \in Nat, t.gen <= Cached.gen, new.exists, Hv.exists => Right(t, Hv)
          PROVE  Right(t, new)
      <3>1. CASE Hv.exists /\ new.gen = Hv.gen
        BY <1>7, <2>1, <3>1 DEF Right, KubectlStays
      <3>2. CASE new.gen > Hv.gen
        BY <1>0, <1>6, <1>10, <2>1, <3>2 DEF Right
      <3>3. CASE ~ Hv.exists
        <4>1. Hv.gen = 0 /\ new.gen > 0
          BY <1>0, <1>6, <2>1, <3>3 DEF Versions
        <4> QED
          BY <3>2, <4>1
      <3> QED
        BY <1>0, <1>6, <1>7, <3>1, <3>2, <3>3
    <2>2. Hv.exists => new.status.tainted = Hv.status.tainted
      BY <1>7
    <2>3. new.exists => Right(new.status.tainted, new)
      BY <1>6, <1>7, <1>10, <2>1, <2>2 DEF TaintAll, RightInv
    <2>4. new.exists /\ TaintRuns => Right(Mark, new)
      <3> SUFFICES ASSUME new.exists, TaintRuns PROVE Right(Mark, new)
        OBVIOUS
      <3>1. Mark.gen \in Nat /\ Mark.gen <= Cached.gen /\ (Hv.exists => Right(Mark, Hv))
        BY DEF TaintAll, GenInv, RightInv
      <3> QED
        BY <2>1, <3>1
    <2>5. TaintRuns' = TaintRuns /\ Mark' = Mark
      BY <1>4 DEF TaintRuns, Mark
    <2> QED
      BY <1>2, <2>3, <2>4, <2>5 DEF RightInv
  <1>12. TaintInv'
    <2> SUFFICES ASSUME "taint" \in group.controllers, "taint" \notin queue, new.exists,
                        \A i \in DOMAIN versions : SameGen(versions[i], new)
                 PROVE  IF TaintRuns THEN Mark.gen = new.gen ELSE new.status.tainted.gen = new.gen
      BY <1>2, <1>4 DEF TaintInv, TaintRuns, Mark
    <2>1. SameGen(Hv, new)
      BY <1>2 DEF Hv
    <2>2. \A i \in DOMAIN versions : SameGen(versions[i], Hv)
      BY <2>1 DEF SameGen
    <2>3. Hv.exists /\ Hv.gen = new.gen
      BY <2>1 DEF SameGen
    <2> QED
      BY <1>7, <2>2, <2>3 DEF TaintAll, TaintInv
  <1> QED
    BY <1>9, <1>11, <1>12 DEF TaintAll

\* Delivery and restart.
LEMMA TaintDelivered ==
    ASSUME TypeInv, TaintAll, group' = group, WatchDelivers \/ Crash
    PROVE  TaintAll'
  <1>0. /\ VersionsOK /\ 1 \in DOMAIN versions /\ Cached = versions[1] /\ Len(versions) \in DOMAIN versions
        /\ \A i \in DOMAIN versions : i \in Nat /\ versions[i] \in Versions
        /\ DOMAIN pass = Controllers /\ "taint" \in Controllers
    BY EndsOK DEF TypeInv, PassesOK, Controllers
  <1>1. \A i \in DOMAIN versions : versions[i].gen \in Nat /\ versions[i].status.tainted.gen \in Nat
    BY <1>0 DEF Versions, Hypervisors, Status
  <1>2. CASE WatchDelivers
    <2>1. /\ Hv' = Hv /\ 2 \in DOMAIN versions /\ VersionsOK' /\ pass' = pass
          /\ \A i \in DOMAIN versions' : i + 1 \in DOMAIN versions /\ versions'[i] = versions[i + 1] /\ i \in Nat
          /\ \A i \in DOMAIN versions : i # 1 => i - 1 \in DOMAIN versions' /\ versions'[i - 1] = versions[i]
      BY <1>0, <1>2, TailDoes DEF WatchDelivers, VersionsOK
    <2>2. Cached' = versions[2] /\ Cached.gen <= versions[2].gen
      <3>1. Cached' = versions'[1] /\ 1 \in DOMAIN versions'
        BY <2>1 DEF VersionsOK, Cached
      <3>2. versions'[1] = versions[1 + 1]
        BY <2>1, <3>1
      <3> QED
        BY <1>0, <2>1, <3>1, <3>2 DEF TaintAll, GenInv
    <2>3. TaintRuns' = TaintRuns /\ Mark' = Mark
      BY <2>1 DEF TaintRuns, Mark
    <2>4. GenInv'
      <3>1. \A i, j \in DOMAIN versions' : i <= j => versions'[i].gen <= versions'[j].gen
        <4> SUFFICES ASSUME NEW i \in DOMAIN versions', NEW j \in DOMAIN versions', i <= j
                     PROVE  versions'[i].gen <= versions'[j].gen
          OBVIOUS
        <4>1. i + 1 \in DOMAIN versions /\ j + 1 \in DOMAIN versions /\ i + 1 <= j + 1
          BY <2>1
        <4>2. versions[i + 1].gen <= versions[j + 1].gen
          BY <4>1 DEF TaintAll, GenInv
        <4> QED
          BY <2>1, <4>2
      <3>2. \A i \in DOMAIN versions' : /\ versions'[i].status.tainted.gen <= versions[2].gen
                                        /\ versions'[i].status.tainted.gen <= Hv.status.tainted.gen
        BY <1>0, <1>1, <2>1, <2>2 DEF TaintAll, GenInv
      <3>3. TaintRuns => /\ DOMAIN pass["taint"].set = {"tainted"} /\ Mark \in [status : {"None", "True", "False"}, gen : Nat]
                         /\ Mark.gen <= versions[2].gen /\ Mark.gen >= Hv.status.tainted.gen
        BY <1>0, <1>1, <2>1, <2>2 DEF TaintAll, GenInv
      <3> QED
        BY <2>1, <2>2, <2>3, <3>1, <3>2, <3>3 DEF GenInv
    <2>5. RightInv'
      BY <2>1, <2>3 DEF TaintAll, RightInv
    <2>6. TaintInv'
      <3> SUFFICES ASSUME "taint" \in group.controllers, "taint" \notin queue', Hv.exists,
                          \A i \in DOMAIN versions' : SameGen(versions'[i], Hv)
                   PROVE  IF TaintRuns THEN Mark.gen = Hv.gen ELSE Hv.status.tainted.gen = Hv.gen
        BY <2>1, <2>3 DEF TaintInv
      <3>1. \A i \in DOMAIN versions : i # 1 => SameGen(versions[i], Hv)
        BY <2>1
      <3>2. "taint" \notin queue /\ ~ GenerationChangedPredicate(versions[1], versions[2])
        BY <1>2 DEF WatchDelivers, Enqueue
      <3>3. SameGen(versions[2], Hv)
        BY <2>1, <3>1
      <3>4. versions[1].exists = versions[2].exists /\ versions[1].gen = versions[2].gen
        BY <3>2 DEF GenerationChangedPredicate
      <3>5. versions[1].exists
        BY <3>3, <3>4, Zenon DEF SameGen
      <3>6. \A i \in DOMAIN versions : SameGen(versions[i], Hv)
        BY <3>1, <3>3, <3>4, <3>5 DEF SameGen
      <3> QED
        BY <3>2, <3>6 DEF TaintAll, TaintInv
    <2> QED
      BY <2>4, <2>5, <2>6 DEF TaintAll
  <1>3. CASE Crash
    <2>1. /\ Hv' = Hv /\ VersionsOK' /\ DOMAIN versions' = {1} /\ versions'[1] = Hv /\ pass'["taint"] = Idle
      BY <1>0, <1>3, RelistDoes DEF Crash
    <2>2. ~ TaintRuns' /\ Cached' = Hv
      BY <2>1 DEF TaintRuns, Idle, Cached, VersionsOK
    <2>3. Hv.status.tainted.gen <= Hv.gen /\ Hv.status.tainted.gen \in Nat /\ Hv.gen \in Nat
      BY <1>0, <1>1 DEF TaintAll, GenInv, Hv
    <2>4. GenInv'
      BY <2>1, <2>2, <2>3 DEF GenInv
    <2>5. RightInv'
      BY <2>1, <2>2 DEF TaintAll, RightInv
    <2>6. TaintInv'
      BY <1>3, <2>1 DEF Crash, TaintInv
    <2> QED
      BY <2>4, <2>5, <2>6 DEF TaintAll
  <1> QED
    BY <1>2, <1>3

\* A pass of the taint controller.
LEMMA TaintMoves ==
    ASSUME TypeInv, KubectlInv, TaintAll, group' = group, Moves("taint")
    PROVE  TaintAll'
  <1>0. /\ VersionsOK /\ 1 \in DOMAIN versions /\ Cached = versions[1] /\ Len(versions) \in DOMAIN versions
        /\ \A i \in DOMAIN versions : i \in Nat /\ i >= 1 /\ i <= Len(versions) /\ versions[i] \in Versions
        /\ DOMAIN pass = Controllers /\ "taint" \in Controllers /\ PassOK("taint", pass["taint"])
        /\ Hv \in Versions
    BY EndsOK DEF TypeInv, PassesOK, Controllers
  <1>1. /\ \A i \in DOMAIN versions : versions[i].gen \in Nat /\ versions[i].status.tainted.gen \in Nat
        /\ \A i \in DOMAIN versions : versions[i].gen >= Cached.gen /\ versions[i].gen <= Hv.gen
        /\ Hv.gen \in Nat /\ Cached.gen \in Nat /\ Hv.status.tainted.gen \in Nat
        /\ Hv.status.tainted.gen <= Cached.gen /\ Cached.gen <= Hv.gen
    <2>1. \A i \in DOMAIN versions : versions[i].gen \in Nat /\ versions[i].status.tainted.gen \in Nat
      BY <1>0 DEF Versions, Hypervisors, Status
    <2> QED
      BY <1>0, <2>1 DEF TaintAll, GenInv, Hv
  <1>2. Idle.pc = "idle" /\ \A set : PatchStatus(set, FALSE).pc = "get" /\ PatchStatus(set, FALSE).set = set
    BY DEF Idle, PatchStatus
  \* The pass ends and nothing is written.
  <1>3. ASSUME versions' = versions, End("taint", {"taint"})
        PROVE  TaintAll'
    <2>1. "taint" \in queue' /\ pass'["taint"] = Idle
      BY <1>0, <1>3 DEF End, Goto
    <2>2. ~ TaintRuns' /\ Hv' = Hv /\ Cached' = Cached
      BY <1>2, <1>3, <2>1 DEF TaintRuns, Hv, Cached
    <2> QED
      BY <1>3, <2>1, <2>2 DEF TaintAll, GenInv, RightInv, TaintInv
  \* The pass goes on with the same mark.
  <1>4. ASSUME versions' = versions, queue' = queue, TaintRuns, TaintRuns', pass'["taint"].set = pass["taint"].set
        PROVE  TaintAll'
    <2>1. Mark' = Mark /\ Hv' = Hv /\ Cached' = Cached
      BY <1>4 DEF Mark, Hv, Cached
    <2> QED
      BY <1>4, <2>1 DEF TaintAll, GenInv, RightInv, TaintInv
  <1>5. CASE taintReconcile
    <2> DEFINE status == IF HasKubectlManagedFields(Cached) THEN "True" ELSE "False"
               now == [status |-> status, gen |-> Cached.gen]
    <2>1. /\ versions' = versions
          /\ pass'["taint"] = IF ~ Cached.exists \/ Cached.status.tainted = now
                              THEN Idle ELSE PatchStatus([tainted |-> now], FALSE)
      BY <1>0, <1>5 DEF taintReconcile, Start, Goto
    <2>2. Hv' = Hv /\ Cached' = Cached
      BY <2>1 DEF Hv, Cached
    <2>3. now \in [status : {"None", "True", "False"}, gen : Nat] /\ now.gen = Cached.gen /\ now.status = status
      BY <1>1
    <2>4. Hv.exists => Right(now, Hv)
      <3> SUFFICES ASSUME Hv.exists, Cached.gen = Hv.gen
                   PROVE  /\ Hv.kubectl = "spec" => status = "True"
                          /\ Hv.kubectl = "no" => status = "False"
        BY <2>3 DEF Right
      <3>1. Hv.gen > 0
        BY <1>0 DEF Versions
      <3>2. \A i \in DOMAIN versions : versions[i].gen = Hv.gen
        BY <1>1
      <3>3. \A i \in DOMAIN versions : versions[i].exists
        BY <1>0, <3>1, <3>2 DEF Versions
      <3>4. KubectlStays(Cached, Hv)
        BY <1>0, <3>2, <3>3 DEF KubectlInv, SameGen
      <3> QED
        BY <3>4 DEF KubectlStays, HasKubectlManagedFields
    <2> HIDE DEF status
    <2>5. CASE Cached.exists /\ Cached.status.tainted # now
      <3>1. pass'["taint"] = PatchStatus([tainted |-> now], FALSE)
        BY <2>1, <2>5
      <3>2. pass'["taint"].pc = "get" /\ pass'["taint"].set = [tainted |-> now]
        BY <1>2, <3>1, Zenon
      <3>3. Mark' = now /\ TaintRuns' /\ DOMAIN pass'["taint"].set = {"tainted"}
        BY <3>2 DEF Mark, TaintRuns
      <3> HIDE DEF now
      <3>4. GenInv'
        <4>1. now.gen <= Cached.gen /\ now.gen >= Hv.status.tainted.gen
          BY <1>1, <2>3
        <4> QED
          BY <2>1, <2>2, <2>3, <3>3, <4>1 DEF TaintAll, GenInv
      <3>5. RightInv'
        BY <2>2, <2>4, <3>3 DEF TaintAll, RightInv
      <3>6. TaintInv'
        <4> SUFFICES ASSUME \A i \in DOMAIN versions : SameGen(versions[i], Hv)
                     PROVE  now.gen = Hv.gen
          BY <2>1, <2>2, <3>3 DEF TaintInv
        <4> QED
          BY <1>0, <2>3 DEF SameGen
      <3> QED
        BY <3>4, <3>5, <3>6 DEF TaintAll
    <2>6. CASE ~ Cached.exists \/ Cached.status.tainted = now
      <3>1. ~ TaintRuns'
        BY <1>2, <2>1, <2>6 DEF TaintRuns
      <3> HIDE DEF now
      <3>2. GenInv' /\ RightInv'
        BY <2>1, <2>2, <3>1 DEF TaintAll, GenInv, RightInv
      <3>3. TaintInv'
        <4> SUFFICES ASSUME \A i \in DOMAIN versions : SameGen(versions[i], Hv)
                     PROVE  Hv.status.tainted.gen = Hv.gen
          BY <2>1, <2>2, <3>1 DEF TaintInv
        <4>1. Cached.exists /\ Cached.gen = Hv.gen
          BY <1>0 DEF SameGen
        <4>2. Cached.status.tainted.gen = Hv.gen
          BY <2>3, <2>6, <4>1
        <4>3. Cached.status.tainted.gen <= Hv.status.tainted.gen
          BY <1>0 DEF TaintAll, GenInv
        <4> QED
          BY <1>1, <4>1, <4>2, <4>3
      <3> QED
        BY <3>2, <3>3 DEF TaintAll
    <2> QED
      BY <2>5, <2>6
  <1>6. CASE statusGet("taint")
    <2>1. CASE End("taint", {"taint"})
      BY <1>3, <1>6, <2>1 DEF statusGet
    <2>2. CASE Goto("taint", [pass["taint"] EXCEPT !.pc = "patch", !.base = Cached]) /\ UNCHANGED queue
      <3>1. pass'["taint"].pc = "patch" /\ pass'["taint"].set = pass["taint"].set /\ pass["taint"].pc = "get"
        BY <1>0, <1>6, <2>2 DEF statusGet, At, Goto, PassOK
      <3> QED
        BY <1>4, <1>6, <2>2, <3>1 DEF statusGet, TaintRuns
    <2> QED
      BY <1>6, <2>1, <2>2 DEF statusGet
  <1>7. CASE apiError("taint")
    BY <1>3, <1>7 DEF apiError
  <1>8. CASE statusPatch("taint")
    <2>1. pass["taint"].pc = "patch" /\ SetOK("taint", pass["taint"].set) /\ TaintRuns /\ pass["taint"].base.exists
      BY <1>0, <1>8 DEF statusPatch, At, PassOK, TaintRuns
    <2>2. CASE versions' = versions /\ End("taint", {"taint"})
      BY <1>3, <2>2
    <2>3. CASE Goto("taint", [pass["taint"] EXCEPT !.pc = "get"]) /\ UNCHANGED queue /\ UNCHANGED versions
      <3>1. pass'["taint"].pc = "get" /\ pass'["taint"].set = pass["taint"].set
        BY <1>0, <2>3 DEF Goto, PassOK
      <3> QED
        BY <1>4, <2>1, <2>3, <3>1 DEF TaintRuns
    <2>4. CASE Hv.exists /\ Write([Hv EXCEPT !.status = Updated(@, pass["taint"].set)]) /\ End("taint", Poll(pass["taint"].poll))
      <3> DEFINE new == [Hv EXCEPT !.status = Updated(@, pass["taint"].set)]
      <3>1. /\ new \in Versions /\ new.status = Updated(Hv.status, pass["taint"].set)
            /\ new.gen = Hv.gen /\ new.kubectl = Hv.kubectl
        BY <1>0, <2>1, <2>4, PatchWrite
      <3>2. Write(new) /\ queue \subseteq queue' /\ pass'["taint"] = Idle
        BY <1>0, <2>4 DEF End, Goto
      <3> HIDE DEF new
      <3>3. new.exists
        BY <1>0, <2>4, <3>1 DEF Versions
      <3>4. "tainted" \in DOMAIN Hv.status /\ DOMAIN pass["taint"].set = {"tainted"}
        BY <1>0, <2>1 DEF Versions, Hypervisors, Status, TaintAll, GenInv
      <3>5. new.status.tainted = Mark
        BY <3>1, <3>4 DEF Updated, Mark
      <3>6. /\ Mark.gen \in Nat /\ Mark.gen <= Cached.gen /\ Mark.gen >= Hv.status.tainted.gen
            /\ Right(Mark, Hv)
        BY <2>1, <2>4 DEF TaintAll, GenInv, RightInv
      <3>7. ~ TaintRuns' /\ Hv' = new /\ VersionsOK'
        BY <1>0, <1>2, <3>1, <3>2, WriteDoes DEF TaintRuns
      <3>8. /\ DOMAIN versions \subseteq DOMAIN versions' /\ \A i \in DOMAIN versions : versions'[i] = versions[i]
            /\ \A i \in DOMAIN versions' \ DOMAIN versions : versions'[i] = new /\ i = Len(versions) + 1
            /\ \A i \in DOMAIN versions' : i \in Nat
        <4>1. CASE versions' = versions
          BY <1>0, <4>1
        <4>2. CASE versions' = Append(versions, new)
          BY <1>0, <3>1, <4>2, AppendDoes DEF VersionsOK
        <4> QED
          BY <3>2, <4>1, <4>2 DEF Write
      <3>9. Cached' = Cached
        <4>1. Cached' = versions'[1]
          BY <3>7 DEF VersionsOK, Cached
        <4> QED
          BY <1>0, <3>8, <4>1
      <3>10. GenInv'
        <4>1. ASSUME NEW i \in DOMAIN versions', NEW j \in DOMAIN versions', i <= j
              PROVE  versions'[i].gen <= versions'[j].gen
          <5>1. CASE i \in DOMAIN versions /\ j \in DOMAIN versions
            BY <3>8, <4>1, <5>1 DEF TaintAll, GenInv
          <5>2. CASE j \notin DOMAIN versions
            <6>1. versions'[j].gen = Hv.gen
              BY <3>1, <3>8, <5>2
            <6>2. versions'[i].gen <= Hv.gen
              BY <1>1, <3>1, <3>8
            <6> QED
              BY <6>1, <6>2
          <5>3. CASE i \notin DOMAIN versions /\ j \in DOMAIN versions
            BY <1>0, <3>8, <4>1, <5>3
          <5> QED
            BY <5>1, <5>2, <5>3
        <4>2. ASSUME NEW i \in DOMAIN versions'
              PROVE  /\ versions'[i].status.tainted.gen <= Cached.gen
                     /\ versions'[i].status.tainted.gen <= Mark.gen
          <5>1. CASE i \in DOMAIN versions
            <6>1. /\ versions[i].status.tainted.gen <= Cached.gen
                  /\ versions[i].status.tainted.gen <= Hv.status.tainted.gen
              BY <5>1 DEF TaintAll, GenInv
            <6> QED
              BY <1>1, <3>6, <3>8, <5>1, <6>1
          <5>2. CASE i \notin DOMAIN versions
            BY <3>5, <3>6, <3>8, <5>2
          <5> QED
            BY <5>1, <5>2
        <4> QED
          BY <3>5, <3>7, <3>9, <4>1, <4>2 DEF GenInv
      <3>11. RightInv'
        BY <3>1, <3>5, <3>6, <3>7 DEF RightInv, Right
      <3>12. TaintInv'
        <4> SUFFICES ASSUME "taint" \in group.controllers, "taint" \notin queue,
                            \A i \in DOMAIN versions' : SameGen(versions'[i], new)
                     PROVE  Mark.gen = new.gen
          BY <3>2, <3>5, <3>7 DEF TaintInv
        <4>1. \A i \in DOMAIN versions : SameGen(versions[i], Hv)
          BY <3>1, <3>8 DEF SameGen
        <4> QED
          BY <2>1, <2>4, <3>1, <4>1 DEF TaintAll, TaintInv
      <3> QED
        BY <3>10, <3>11, <3>12 DEF TaintAll
    <2> QED
      BY <1>8, <2>1, <2>2, <2>3, <2>4 DEF statusPatch
  <1> QED
    BY <1>5, <1>6, <1>7, <1>8 DEF Moves

\* Every step.
LEMMA TaintStep ==
    ASSUME NodesStay, "taint" \in group.controllers, TypeInv, LifeInv, KubectlInv, TaintAll, [Next]_vars
    PROVE  TaintAll'
  <1>1. ASSUME versions' = versions, pass'["taint"] = pass["taint"], "taint" \in queue => "taint" \in queue',
               group' = group
        PROVE  TaintAll'
    <2>1. Hv' = Hv /\ Cached' = Cached /\ Mark' = Mark /\ TaintRuns' = TaintRuns
      BY <1>1 DEF Hv, Cached, Mark, TaintRuns
    <2> QED
      BY <1>1, <2>1 DEF TaintAll, GenInv, RightInv, TaintInv
  <1>2. CASE UNCHANGED vars
    BY <1>1, <1>2 DEF vars
  <1>3. CASE Next
    <2>1. group' = group /\ "taint" \in Controllers \ {"hypervisor"} /\ (Hv.exists => Hv'.exists)
      BY <1>3, LifeStep DEF Next, Controllers
    <2>2. CASE Leaves("taint")
      BY <1>1, <2>1, <2>2, TaintWritten DEF Leaves
    <2> QED
      BY <1>3, <2>1, <2>2, NextLeaves, TaintDelivered, TaintMoves
  <1> QED
    BY <1>2, <1>3

\* Initial states.
LEMMA TaintInit ==
    ASSUME Init
    PROVE  LifeInv /\ KubectlInv /\ TaintAll
  <1>1. /\ pass["taint"] = Idle /\ pass["hypervisor"] = Idle /\ Idle.pc = "idle"
        /\ DOMAIN versions = {1} /\ versions[1] = Hv /\ Cached = Hv
    BY DEF Init, Controllers, Idle, Hv, Cached
  <1>2. /\ \/ Hv = NoHypervisor
           \/ Hv \in {InService, InTest, Drained} /\ node = BaseNode
    BY DEF Init, Hv
  <1>3. ~ NoHypervisor.exists /\ NoHypervisor.gen = 0 /\ NoHypervisor.status.tainted.gen = 0
    BY DEF NoHypervisor, NoStatus
  <1>4. /\ Hv.exists => /\ node.exists /\ Hv.kubectl = "no" /\ Hv.status.tainted.status = "False"
                        /\ Hv.status.tainted.gen = Hv.gen
        /\ Hv.status.tainted.gen = Hv.gen /\ Hv.gen \in Nat
    BY <1>2, <1>3, InServiceOK, InTestOK, DrainedOK, ConstantsAssumption
  <1>5. ~ TaintRuns
    BY <1>1 DEF TaintRuns
  <1>6. LifeInv /\ KubectlInv
    BY <1>1, <1>4 DEF LifeInv, KubectlInv, KubectlStays
  <1>7. GenInv
    BY <1>1, <1>4, <1>5 DEF GenInv
  <1>8. RightInv /\ TaintInv
    BY <1>4, <1>5 DEF RightInv, Right, TaintInv
  <1> QED
    BY <1>6, <1>7, <1>8 DEF TaintAll

\* On nodes that are not replaced under their name: although the taint
\* controller marks one version of the spec and writes the mark into a later
\* one, through conflicts and with a copy that lags, whenever everybody is at
\* rest the last generation has been looked at, and what kubectl wrote is marked.
THEOREM TaintStaysObserved == NodesStay => (Spec => []TaintIsObserved)
  <1> SUFFICES ASSUME NodesStay
               PROVE  Spec => []TaintIsObserved
    OBVIOUS
  <1> DEFINE here == "taint" \in group.controllers
             Inv == KubectlInv /\ (here => LifeInv /\ TaintAll)
  <1>1. ASSUME TypeInv, Inv, [Next]_vars
        PROVE  Inv'
    <2>1. group' = group
      BY <1>1 DEF Next, vars
    <2>2. here => LifeInv' /\ TaintAll'
      BY <1>1, LifeStep, TaintStep
    <2> QED
      BY <1>1, <2>1, <2>2, KubectlStep
  <1>2. ASSUME TypeInv, Inv
        PROVE  TaintIsObserved
    <2> SUFFICES ASSUME Quiet, Hv.exists, here
                 PROVE  TaintIsObserved
      BY DEF TaintIsObserved
    <2>1. "taint" \notin queue /\ ~ TaintRuns /\ Len(versions) = 1
      BY DEF Quiet, Controllers, TaintRuns
    <2>2. \A i \in DOMAIN versions : versions[i] = Hv
      BY <1>2, <2>1, EndsOK DEF TypeInv, Hv
    <2>3. Hv.status.tainted.gen = Hv.gen
      BY <1>2, <2>1, <2>2 DEF TaintAll, TaintInv, SameGen
    <2> QED
      BY <1>2, <2>3 DEF TaintAll, RightInv, Right, TaintIsObserved
  <1>3. Init => Inv
    BY TaintInit
  <1> HIDE DEF Inv
  <1> QED
    BY <1>1, <1>2, <1>3, TypeInductive, PTL DEF Spec

=============================================================================
