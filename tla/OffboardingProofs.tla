-------------------------- MODULE OffboardingProofs --------------------------
(***************************************************************************)
(* Proofs about how a node leaves: what is offboarded is gone from Nova,   *)
(* the node is released only then, and its agents outlive its instances,   *)
(* whatever the three controllers read late, fail at or are restarted in.  *)
(***************************************************************************)
EXTENDS Offboarding, TLAPS

-----------------------------------------------------------------------------
(* The inductive invariant.  Three things never come undone: the host is   *)
(* drained, its agents have left the tainted node, Nova has forgotten it.  *)

\* No instance is on the host, and none will be scheduled to it.
Drained == ~ nova.servers /\ (hv.evicting = "False" \/ hv.maintenance = "ha")

\* The agents have left and the taint keeps them away.
Abandoned == node.taint /\ ~ node.agents

\* Nova does not know the host, and nobody is there to register it.
Vacated == Abandoned /\ ~ nova.service /\ ~ nova.servers

\* What a version of the Hypervisor, the last one or an older one, reports
\* is still so.
Truthful(h) == /\ h.evicting = "False" => Drained
               /\ h.agentPodsEvicted = "True" => Abandoned
               /\ h.offboarded = "Done" => Vacated

OffInv ==
    /\ TypeOK
    /\ nova.servers => nova.service
    /\ hv.evicting # "None" \/ hv.maintenance # "unset" => hv.exists
    /\ Truthful(hv) /\ Truthful(prev)
    /\ gard.pc = "taint" \/ node.taint => Drained
    /\ hc.look \/ hc.pc = "pods" => node.taint
    /\ hc.agents = "True" => Abandoned
    /\ off.pc \in {"get", "delete", "provider"} => Abandoned
    /\ off.pc = "provider" \/ (off.pc = "patch" /\ off.out = "Done") => Vacated
    /\ gard.minAvailable = 0 \/ node.budget = 0 \/ node.scale = 0 => Vacated

-----------------------------------------------------------------------------
(* Types.                                                                  *)

\* The resource that does not exist yet is a Hypervisor all the same.
LEMMA NoHypervisorTyped == NoHypervisor \in Hypervisor
BY DEF NoHypervisor, Hypervisor, Tri, Offboarded

\* Every step of the controllers, of the node and of Nova keeps the types.
LEMMA TypeStep == TypeOK /\ [Next]_vars => TypeOK'
<1> SUFFICES ASSUME TypeOK, [Next]_vars PROVE TypeOK'
  OBVIOUS
<1> DEFINE
      GardPasses == [pc : {"idle", "taint", "budget", "deployment"}, minAvailable : 0..1,
                     ready : BOOLEAN]
      HcPasses == [pc : {"idle", "create", "sync", "pods", "status"}, rv : Hypervisor,
                   look : BOOLEAN, end : BOOLEAN, lifecycle : BOOLEAN, agents : Tri]
      Typed == /\ hv' \in Hypervisor /\ node' \in Node /\ nova' \in Nova
               /\ queued' \in BOOLEAN
               /\ off' \in [pc : {"idle", "get", "delete", "provider", "patch"}, out : Offboarded]
               /\ gard' \in GardPasses /\ hc' \in HcPasses
               /\ faults' \in 0..MaxFaults
<1>1. ASSUME OffPass PROVE Typed
  <2>1. CASE \E h \in {hv, prev} : offReconcile(h)
    BY ConstantsAssumption, <2>1 DEF offReconcile, OffStep, SetOffboarding, Snapshot,
        Disturb, IdleOff, TypeOK, Hypervisor, Node, Nova, Offboarded, Tri
  <2>2. CASE getHypervisor
    BY ConstantsAssumption, <2>2 DEF getHypervisor, OffStep, SetOffboarding, TypeOK,
        Hypervisor, Node, Nova, Offboarded, Tri
  <2>3. CASE deleteService
    <3>1. CASE nova.servers
      BY <2>3, <3>1 DEF deleteService, OffStep, SetOffboarding, TypeOK, Offboarded
    <3>2. CASE ~ nova.servers
      <4>1. PICK left \in {nova.provider, "absent"} :
                nova' = [nova EXCEPT !.service = FALSE, !.provider = left]
        BY <2>3, <3>2 DEF deleteService
      <4>2. left \in {"absent", "free", "held"}
        BY <4>1 DEF TypeOK, Nova
      <4>3. nova' \in Nova
        BY <4>1, <4>2, Zenon DEF TypeOK, Nova
      <4>4. off' = [off EXCEPT !.pc = "provider"] /\ UNCHANGED <<hv, node, gard, hc, queued, faults>>
        BY <2>3, <3>2 DEF deleteService, OffStep
      <4> QED
        BY <4>3, <4>4 DEF TypeOK
    <3> QED
      BY <3>1, <3>2
  <2>4. CASE cleanupProvider
    BY ConstantsAssumption, <2>4 DEF cleanupProvider, OffStep, SetOffboarding, TypeOK,
        Hypervisor, Node, Nova, Offboarded, Tri
  <2>5. CASE offPatch
    BY ConstantsAssumption, <2>5 DEF offPatch, OffStep, HvBecomes, IdleOff, TypeOK,
        Hypervisor, Node, Nova, Offboarded, Tri
  <2> QED
    BY <1>1, <2>1, <2>2, <2>3, <2>4, <2>5 DEF OffPass
<1>2. ASSUME GardPass PROVE Typed
  <2>1. CASE \E h \in {hv, prev} : gardReconcile(h)
    <3>1. PICK h \in {hv, prev} : gardReconcile(h)
      BY <2>1
    <3>2. (h.onboarding = "False") \in BOOLEAN /\ IdleGard \in GardPasses
      BY DEF IdleGard
    <3>3. [IdleGard EXCEPT !.pc = "taint"] \in GardPasses
      BY <3>2
    <3>4. \/ gard' \in {IdleGard, [IdleGard EXCEPT !.pc = "taint"]}
          \/ \E n \in {0, 1} : gard' = [pc |-> "budget", minAvailable |-> n,
                                        ready |-> h.onboarding = "False"]
      BY <3>1 DEF gardReconcile, Protect
    <3>5. \A n \in {0, 1}, b \in BOOLEAN :
              [pc |-> "budget", minAvailable |-> n, ready |-> b] \in GardPasses
      OBVIOUS
    <3>6. gard' \in GardPasses
      BY <3>2, <3>3, <3>4, <3>5, Zenon
    <3> QED
      BY ConstantsAssumption, <3>1, <3>6 DEF gardReconcile, GardStep, Snapshot, Disturb, TypeOK
  <2>2. CASE ensureOffboardingTaint
    <3>1. node' \in Node
      BY <2>2 DEF ensureOffboardingTaint, GardStep, IdleGard, TypeOK, Node
    <3> QED
      BY ConstantsAssumption, <2>2, <3>1 DEF ensureOffboardingTaint, GardStep,
          IdleGard, TypeOK
  <2>3. CASE ensureBlockingPodDisruptionBudget
    BY ConstantsAssumption, <2>3 DEF ensureBlockingPodDisruptionBudget, GardStep,
        TypeOK, Hypervisor, Node, Nova, Offboarded, Tri
  <2>4. CASE ensureSignallingDeployment
    <3>1. gard.minAvailable \in 0..2 /\ gard.ready \in BOOLEAN
      BY DEF TypeOK
    <3>2. node' \in Node
      BY <2>4, <3>1, Zenon DEF ensureSignallingDeployment, TypeOK, Node
    <3> QED
      BY <2>4, <3>2 DEF ensureSignallingDeployment, GardStep, IdleGard, TypeOK
  <2> QED
    BY <1>2, <2>1, <2>2, <2>3, <2>4 DEF GardPass
<1>3. ASSUME HcPass PROVE Typed
  <2>1. CASE \E h \in {hv, prev} : hcReconcile(h)
    BY ConstantsAssumption, <2>1 DEF hcReconcile, HcStep, Snapshot, Disturb,
        nodeTerminates, nodeHasOffboardingTaint, NoHypervisor, TypeOK, Hypervisor,
        Node, Nova, Offboarded, Tri
  <2>2. CASE hcCreate
    <3>1. hv' \in Hypervisor
      <4>1. CASE hv.exists
        BY <2>2, <4>1 DEF hcCreate, HvBecomes, TypeOK
      <4>2. CASE ~ hv.exists
        <5>1. hc.lifecycle \in BOOLEAN
          BY DEF TypeOK
        <5>2. hv' = [NoHypervisor EXCEPT !.exists = TRUE, !.lifecycle = hc.lifecycle,
                        !.highAvailability = TRUE,
                        !.maintenance = IF hc.end THEN "termination" ELSE "unset"]
          BY <2>2, <4>2 DEF hcCreate, HvBecomes
        <5>3. (IF hc.end THEN "termination" ELSE "unset") \in {"unset", "termination", "ha"}
          OBVIOUS
        <5> QED
          BY <5>1, <5>2, <5>3, NoHypervisorTyped, Zenon DEF Hypervisor
      <4> QED
        BY <4>1, <4>2
    <3>2. hc' \in HcPasses
      BY <2>2, NoHypervisorTyped DEF hcCreate, IdleHc, Tri
    <3> QED
      BY <2>2, <3>1, <3>2 DEF hcCreate, HcStep, HvBecomes, TypeOK
  <2>3. CASE syncLabelsAndAnnotations
    <3>1. hv' \in Hypervisor
      BY <2>3 DEF syncLabelsAndAnnotations, HvBecomes, TypeOK, Hypervisor
    <3>2. IdleHc \in HcPasses
      BY NoHypervisorTyped DEF IdleHc, Tri
    <3>3. \A pc \in {"pods", "status"} : [hc EXCEPT !.pc = pc, !.rv = NoHypervisor] \in HcPasses
      BY NoHypervisorTyped DEF TypeOK
    <3>4. hc' \in HcPasses
      BY <2>3, <3>2, <3>3 DEF syncLabelsAndAnnotations
    <3> QED
      BY <2>3, <3>1, <3>4 DEF syncLabelsAndAnnotations, HcStep, HvBecomes, TypeOK
  <2>4. CASE computeAgentPodsEvictedCondition
    <3>1. hc' \in HcPasses
      BY <2>4 DEF computeAgentPodsEvictedCondition, HcStep, TypeOK, Hypervisor,
          Offboarded, Tri
    <3> QED
      BY ConstantsAssumption, <2>4, <3>1 DEF computeAgentPodsEvictedCondition, HcStep,
          TypeOK
  <2>5. CASE hcPatch
    BY ConstantsAssumption, <2>5 DEF hcPatch, HcStep, HvBecomes, IdleHc, NoHypervisor,
        TypeOK, Hypervisor, Node, Nova, Offboarded, Tri
  <2> QED
    BY <1>3, <2>1, <2>2, <2>3, <2>4, <2>5 DEF HcPass
<1>4. ASSUME Errors PROVE Typed
  <2>1. CASE getHypervisorError
    BY ConstantsAssumption, <2>1 DEF getHypervisorError, OffStep, SetOffboarding,
        Disturb, TypeOK, Hypervisor, Node, Nova, Offboarded, Tri
  <2>2. CASE deleteServiceError
    BY ConstantsAssumption, <2>2 DEF deleteServiceError, OffStep, SetOffboarding,
        Disturb, TypeOK, Hypervisor, Node, Nova, Offboarded, Tri
  <2>3. CASE cleanupProviderError
    BY ConstantsAssumption, <2>3 DEF cleanupProviderError, OffStep, SetOffboarding,
        Disturb, TypeOK, Hypervisor, Node, Nova, Offboarded, Tri
  <2>4. CASE offPatchError
    BY ConstantsAssumption, <2>4 DEF offPatchError, OffStep, Disturb, IdleOff, TypeOK,
        Hypervisor, Node, Nova, Offboarded, Tri
  <2>5. CASE gardError
    BY ConstantsAssumption, <2>5 DEF gardError, GardStep, Disturb, IdleGard, TypeOK,
        Hypervisor, Node, Nova, Offboarded, Tri
  <2>6. CASE hcError
    BY ConstantsAssumption, <2>6 DEF hcError, HcStep, Disturb, IdleHc, NoHypervisor,
        TypeOK, Hypervisor, Node, Nova, Offboarded, Tri
  <2>7. CASE Crash
    BY ConstantsAssumption, <2>7 DEF Crash, Disturb, IdleOff, IdleGard, IdleHc,
        NoHypervisor, TypeOK, Hypervisor, Node, Nova, Offboarded, Tri
  <2> QED
    BY <1>4, <2>1, <2>2, <2>3, <2>4, <2>5, <2>6, <2>7 DEF Errors
<1>5. ASSUME Environment PROVE Typed
  <2>1. CASE onboardingStarts
    <3>1. hv' \in Hypervisor
      BY <2>1 DEF onboardingStarts, HvBecomes, Others, Passes, TypeOK, Hypervisor,
          Offboarded, Tri
    <3> QED
      BY ConstantsAssumption, <2>1, <3>1 DEF onboardingStarts, HvBecomes, Others,
          Passes, TypeOK
  <2>2. CASE onboardingEnds
    <3>1. hv' \in Hypervisor
      BY <2>2 DEF onboardingEnds, HvBecomes, Others, Passes, TypeOK, Hypervisor,
          Offboarded, Tri
    <3>2. nova' \in Nova
      BY <2>2 DEF onboardingEnds, HvBecomes, Others, Passes, TypeOK, Nova
    <3> QED
      BY ConstantsAssumption, <2>2, <3>1, <3>2 DEF onboardingEnds, HvBecomes, Others,
          Passes, TypeOK
  <2>3. CASE evictionStarts
    BY ConstantsAssumption, <2>3 DEF evictionStarts, HvBecomes, Others, Passes,
        TypeOK, Hypervisor, Node, Nova, Offboarded, Tri
  <2>4. CASE evictionMigrates
    <3>1. nova' \in Nova
      BY <2>4 DEF evictionMigrates, Passes, TypeOK, Nova
    <3> QED
      BY ConstantsAssumption, <2>4, <3>1 DEF evictionMigrates, Passes, TypeOK
  <2>5. CASE evictionEnds
    BY ConstantsAssumption, <2>5 DEF evictionEnds, HvBecomes, Others, Passes, TypeOK,
        Hypervisor, Node, Nova, Offboarded, Tri
  <2>6. CASE aggregatesCleared
    <3>1. hv' \in Hypervisor
      BY <2>6 DEF aggregatesCleared, HvBecomes, Others, Passes, TypeOK, Hypervisor,
          Offboarded, Tri
    <3> QED
      BY ConstantsAssumption, <2>6, <3>1 DEF aggregatesCleared, HvBecomes, Others,
          Passes, TypeOK
  <2>7. CASE haDisabled
    <3>1. hv' \in Hypervisor
      BY <2>7 DEF haDisabled, HvBecomes, Others, Passes, TypeOK, Hypervisor,
          Offboarded, Tri
    <3> QED
      BY ConstantsAssumption, <2>7, <3>1 DEF haDisabled, HvBecomes, Others, Passes,
          TypeOK
  <2>8. CASE setTermination
    BY ConstantsAssumption, <2>8 DEF setTermination, HvBecomes, Others, Passes,
        TypeOK, Hypervisor, Node, Nova, Offboarded, Tri
  <2>9. CASE setHA
    <3>1. hv' \in Hypervisor
      BY <2>9 DEF setHA, Disturb, HvBecomes, Passes, TypeOK, Hypervisor, Offboarded,
          Tri
    <3> QED
      BY ConstantsAssumption, <2>9, <3>1 DEF setHA, Disturb, HvBecomes, Passes, TypeOK
  <2>10. CASE \E how \in Endings : nodeEnds(how)
    BY ConstantsAssumption, <2>10 DEF nodeEnds, Passes, TypeOK, Hypervisor, Node,
        Nova, Offboarded, Tri
  <2>11. CASE nodeLabelled
    <3>1. node' \in Node
      BY <2>11 DEF nodeLabelled, Passes, TypeOK, Node
    <3> QED
      BY ConstantsAssumption, <2>11, <3>1 DEF nodeLabelled, Passes, TypeOK
  <2>12. CASE agentsStart
    <3>1. node' \in Node
      BY <2>12 DEF agentsStart, Passes, TypeOK, Node
    <3> QED
      BY ConstantsAssumption, <2>12, <3>1 DEF agentsStart, Passes, TypeOK
  <2>13. CASE agentsLeave
    <3>1. node' \in Node
      BY <2>13 DEF agentsLeave, Passes, TypeOK, Node
    <3> QED
      BY ConstantsAssumption, <2>13, <3>1 DEF agentsLeave, Passes, TypeOK
  <2>14. CASE agentRegisters
    <3>1. nova' \in Nova
      BY <2>14 DEF agentRegisters, Passes, TypeOK, Nova
    <3> QED
      BY ConstantsAssumption, <2>14, <3>1 DEF agentRegisters, Passes, TypeOK
  <2>15. CASE novaSchedules
    <3>1. nova' \in Nova
      BY <2>15 DEF novaSchedules, Passes, TypeOK, Nova
    <3> QED
      BY ConstantsAssumption, <2>15, <3>1 DEF novaSchedules, Passes, TypeOK
  <2>16. CASE allocationsLeft
    BY ConstantsAssumption, <2>16 DEF allocationsLeft, Disturb, Passes, TypeOK,
        Hypervisor, Node, Nova, Offboarded, Tri
  <2>17. CASE haEnabled
    <3>1. hv' \in Hypervisor
      BY <2>17 DEF haEnabled, HvBecomes, Others, Passes, TypeOK, Hypervisor,
          Offboarded, Tri
    <3> QED
      BY ConstantsAssumption, <2>17, <3>1 DEF haEnabled, HvBecomes, Others, Passes,
          TypeOK
  <2>18. CASE setHighAvailability
    <3>1. hv' \in Hypervisor
      BY <2>18 DEF setHighAvailability, HvBecomes, Passes, TypeOK, Hypervisor,
          Offboarded, Tri
    <3> QED
      BY ConstantsAssumption, <2>18, <3>1 DEF setHighAvailability, Disturb, HvBecomes,
          Passes, TypeOK
  <2> QED
    BY <1>5, <2>1, <2>2, <2>3, <2>4, <2>5, <2>6, <2>7, <2>8, <2>9, <2>10, <2>11,
        <2>12, <2>13, <2>14, <2>15, <2>16, <2>17, <2>18 DEF Environment
<1>6. CASE UNCHANGED vars
  BY <1>6 DEF vars, TypeOK
<1>7. CASE Next
  <2>1. prev' \in {hv, hv', prev}
    BY <1>7 DEF Next, Versioned
  <2>2. Typed
    BY <1>7, <1>1, <1>2, <1>3, <1>4, <1>5 DEF Next, Versioned
  <2> QED
    BY <2>1, <2>2 DEF TypeOK
<1> QED
  BY <1>6, <1>7

\* The initial state has the types.
LEMMA TypeInit == Init => TypeOK
<1> SUFFICES ASSUME Init PROVE TypeOK
  OBVIOUS
<1>1. node \in Node
  BY DEF Init, Node, None
<1>2. nova \in Nova
  BY DEF Init, Nova
<1>3. gard \in [pc : {"idle", "taint", "budget", "deployment"}, minAvailable : 0..1,
                ready : BOOLEAN]
  BY DEF Init, IdleGard
<1>4. hc \in [pc : {"idle", "create", "sync", "pods", "status"}, rv : Hypervisor,
              look : BOOLEAN, end : BOOLEAN, lifecycle : BOOLEAN, agents : Tri]
  BY NoHypervisorTyped DEF Init, IdleHc, Tri
<1>5. off \in [pc : {"idle", "get", "delete", "provider", "patch"}, out : Offboarded]
  BY DEF Init, IdleOff, Offboarded
<1>6. faults \in 0..MaxFaults
  BY ConstantsAssumption DEF Init
<1> QED
  BY <1>1, <1>2, <1>3, <1>4, <1>5, <1>6, NoHypervisorTyped, Zenon DEF Init, TypeOK

\* The resources, the passes and the faults always have their types.
THEOREM TypesHold == Spec => []TypeOK
BY TypeInit, TypeStep, PTL DEF Spec

-----------------------------------------------------------------------------
(* What does not come undone.                                              *)

\* A drained host stays drained: Nova schedules nothing to it, and the
\* termination is not taken back.
Lasting == /\ Drained => Drained'
           /\ Abandoned => Abandoned'
           /\ Vacated => Vacated'
           /\ node.taint => node'.taint

\* No step undoes the drain, brings the agents back to a tainted node or
\* registers the host of a node without agents.
LEMMA StepsLast == ASSUME OffInv, Next PROVE Lasting
<1> USE DEF Lasting, Drained, Abandoned, Vacated
<1>1. ASSUME OffPass PROVE Lasting
  <2>1. CASE \E h \in {hv, prev} : offReconcile(h)
    BY <2>1 DEF offReconcile, OffStep, SetOffboarding, OffInv
  <2>2. CASE getHypervisor
    BY <2>2 DEF getHypervisor, OffStep, SetOffboarding, OffInv
  <2>3. CASE deleteService
    <3>1. nova'.servers = nova.servers /\ (~ nova.service => ~ nova'.service) /\ UNCHANGED <<hv, node>>
      BY <2>3 DEF deleteService, OffStep, OffInv, TypeOK, Nova
    <3> QED
      BY <3>1
  <2>4. CASE cleanupProvider
    <3>1. nova'.servers = nova.servers /\ nova'.service = nova.service /\ UNCHANGED <<hv, node>>
      BY <2>4 DEF cleanupProvider, OffStep, OffInv, TypeOK, Nova
    <3> QED
      BY <3>1
  <2>5. CASE offPatch
    BY <2>5 DEF offPatch, OffStep, HvBecomes, OffInv
  <2> QED
    BY <1>1, <2>1, <2>2, <2>3, <2>4, <2>5 DEF OffPass
<1>2. ASSUME GardPass PROVE Lasting
  <2>1. CASE \E h \in {hv, prev} : gardReconcile(h)
    BY <2>1 DEF gardReconcile, GardStep, Protect, isTerminating, OffInv
  <2>2. CASE ensureOffboardingTaint
    BY <2>2 DEF ensureOffboardingTaint, GardStep, OffInv
  <2>3. CASE ensureBlockingPodDisruptionBudget
    BY <2>3 DEF ensureBlockingPodDisruptionBudget, GardStep, OffInv
  <2>4. CASE ensureSignallingDeployment
    BY <2>4 DEF ensureSignallingDeployment, GardStep, OffInv
  <2> QED
    BY <1>2, <2>1, <2>2, <2>3, <2>4 DEF GardPass
<1>3. ASSUME HcPass PROVE Lasting
  <2>1. CASE \E h \in {hv, prev} : hcReconcile(h)
    BY <2>1 DEF hcReconcile, HcStep, nodeTerminates, nodeHasOffboardingTaint,
        NoHypervisor, OffInv
  <2>2. CASE hcCreate
    BY <2>2 DEF hcCreate, HcStep, HvBecomes, NoHypervisor, OffInv
  <2>3. CASE syncLabelsAndAnnotations
    <3>1. /\ hv'.evicting = hv.evicting /\ hv'.maintenance = hv.maintenance
          /\ UNCHANGED <<node, nova>>
      BY <2>3 DEF syncLabelsAndAnnotations, HcStep, HvBecomes, OffInv, TypeOK, Hypervisor
    <3> QED
      BY <3>1
  <2>4. CASE computeAgentPodsEvictedCondition
    BY <2>4 DEF computeAgentPodsEvictedCondition, HcStep, OffInv
  <2>5. CASE hcPatch
    BY <2>5 DEF hcPatch, HcStep, HvBecomes, NoHypervisor, OffInv
  <2> QED
    BY <1>3, <2>1, <2>2, <2>3, <2>4, <2>5 DEF HcPass
<1>4. ASSUME Errors PROVE Lasting
  <2>1. CASE getHypervisorError
    BY <2>1 DEF getHypervisorError, OffStep, SetOffboarding, OffInv
  <2>2. CASE deleteServiceError
    BY <2>2 DEF deleteServiceError, OffStep, SetOffboarding, OffInv
  <2>3. CASE cleanupProviderError
    BY <2>3 DEF cleanupProviderError, OffStep, SetOffboarding, OffInv
  <2>4. CASE offPatchError
    BY <2>4 DEF offPatchError, OffStep, OffInv
  <2>5. CASE gardError
    BY <2>5 DEF gardError, GardStep, OffInv
  <2>6. CASE hcError
    BY <2>6 DEF hcError, HcStep, NoHypervisor, OffInv
  <2>7. CASE Crash
    BY <2>7 DEF Crash, NoHypervisor, OffInv
  <2> QED
    BY <1>4, <2>1, <2>2, <2>3, <2>4, <2>5, <2>6, <2>7 DEF Errors
<1>5. ASSUME Environment PROVE Lasting
  <2>1. CASE onboardingStarts
    BY <2>1 DEF onboardingStarts, HvBecomes, Others, Passes, OffInv
  <2>2. CASE onboardingEnds
    BY <2>2 DEF onboardingEnds, HvBecomes, Others, Passes, OffInv
  <2>3. CASE evictionStarts
    BY <2>3 DEF evictionStarts, HvBecomes, Others, Passes, OffInv
  <2>4. CASE evictionMigrates
    BY <2>4 DEF evictionMigrates, Passes, OffInv
  <2>5. CASE evictionEnds
    BY <2>5 DEF evictionEnds, HvBecomes, Others, Passes, OffInv
  <2>6. CASE aggregatesCleared
    BY <2>6 DEF aggregatesCleared, HvBecomes, Others, Passes, OffInv
  <2>7. CASE haDisabled
    BY <2>7 DEF haDisabled, HvBecomes, Others, Passes, OffInv
  <2>8. CASE setTermination
    BY <2>8 DEF setTermination, HvBecomes, Others, Passes, OffInv
  <2>9. CASE setHA
    BY <2>9 DEF setHA, HvBecomes, Passes, OffInv
  <2>10. CASE \E how \in Endings : nodeEnds(how)
    BY <2>10 DEF nodeEnds, Passes, OffInv
  <2>11. CASE nodeLabelled
    BY <2>11 DEF nodeLabelled, Passes, OffInv
  <2>12. CASE agentsStart
    BY <2>12 DEF agentsStart, Passes, OffInv
  <2>13. CASE agentsLeave
    BY <2>13 DEF agentsLeave, Passes, OffInv
  <2>14. CASE agentRegisters
    BY <2>14 DEF agentRegisters, Passes, OffInv
  <2>15. CASE novaSchedules
    BY <2>15 DEF novaSchedules, Passes, OffInv
  <2>16. CASE allocationsLeft
    BY <2>16 DEF allocationsLeft, Passes, OffInv
  <2>17. CASE haEnabled
    BY <2>17 DEF haEnabled, HvBecomes, Others, Passes, OffInv
  <2>18. CASE setHighAvailability
    BY <2>18 DEF setHighAvailability, HvBecomes, Passes, OffInv
  <2> QED
    BY <1>5, <2>1, <2>2, <2>3, <2>4, <2>5, <2>6, <2>7, <2>8, <2>9, <2>10, <2>11,
        <2>12, <2>13, <2>14, <2>15, <2>16, <2>17, <2>18 DEF Environment
<1> QED
  BY <1>1, <1>2, <1>3, <1>4, <1>5 DEF Next, Versioned

\* Only the taint drives agents out.
LEMMA AgentsChange == ASSUME TypeOK, Next, node.agents, ~ node'.agents PROVE agentsLeave
<1>1. ASSUME OffPass PROVE agentsLeave
  <2>1. CASE \E h \in {hv, prev} : offReconcile(h)
    BY <2>1 DEF offReconcile, OffStep
  <2>2. CASE getHypervisor
    BY <2>2 DEF getHypervisor, OffStep
  <2>3. CASE deleteService
    BY <2>3 DEF deleteService, OffStep
  <2>4. CASE cleanupProvider
    BY <2>4 DEF cleanupProvider, OffStep
  <2>5. CASE offPatch
    BY <2>5 DEF offPatch, OffStep
  <2> QED
    BY <1>1, <2>1, <2>2, <2>3, <2>4, <2>5 DEF OffPass
<1>2. ASSUME GardPass PROVE agentsLeave
  <2>1. CASE \E h \in {hv, prev} : gardReconcile(h)
    BY <2>1 DEF gardReconcile, GardStep, isTerminating
  <2>2. CASE ensureOffboardingTaint
    BY <2>2 DEF ensureOffboardingTaint, GardStep, TypeOK, Node
  <2>3. CASE ensureBlockingPodDisruptionBudget
    BY <2>3 DEF ensureBlockingPodDisruptionBudget, GardStep, TypeOK, Node
  <2>4. CASE ensureSignallingDeployment
    BY <2>4 DEF ensureSignallingDeployment, GardStep, TypeOK, Node
  <2> QED
    BY <1>2, <2>1, <2>2, <2>3, <2>4 DEF GardPass
<1>3. ASSUME HcPass PROVE agentsLeave
  <2>1. CASE \E h \in {hv, prev} : hcReconcile(h)
    BY <2>1 DEF hcReconcile, HcStep, nodeTerminates, nodeHasOffboardingTaint
  <2>2. CASE hcCreate
    BY <2>2 DEF hcCreate, HcStep
  <2>3. CASE syncLabelsAndAnnotations
    BY <2>3 DEF syncLabelsAndAnnotations, HcStep
  <2>4. CASE computeAgentPodsEvictedCondition
    BY <2>4 DEF computeAgentPodsEvictedCondition, HcStep
  <2>5. CASE hcPatch
    BY <2>5 DEF hcPatch, HcStep
  <2> QED
    BY <1>3, <2>1, <2>2, <2>3, <2>4, <2>5 DEF HcPass
<1>4. ASSUME Errors PROVE agentsLeave
  <2>1. CASE getHypervisorError
    BY <2>1 DEF getHypervisorError, OffStep
  <2>2. CASE deleteServiceError
    BY <2>2 DEF deleteServiceError, OffStep
  <2>3. CASE cleanupProviderError
    BY <2>3 DEF cleanupProviderError, OffStep
  <2>4. CASE offPatchError
    BY <2>4 DEF offPatchError, OffStep
  <2>5. CASE gardError
    BY <2>5 DEF gardError, GardStep
  <2>6. CASE hcError
    BY <2>6 DEF hcError, HcStep
  <2>7. CASE Crash
    BY <2>7 DEF Crash
  <2> QED
    BY <1>4, <2>1, <2>2, <2>3, <2>4, <2>5, <2>6, <2>7 DEF Errors
<1>5. ASSUME Environment PROVE agentsLeave
  <2>1. CASE onboardingStarts
    BY <2>1 DEF onboardingStarts, Others, Passes
  <2>2. CASE onboardingEnds
    BY <2>2 DEF onboardingEnds, Others, Passes
  <2>3. CASE evictionStarts
    BY <2>3 DEF evictionStarts, Others, Passes
  <2>4. CASE evictionMigrates
    BY <2>4 DEF evictionMigrates, Passes
  <2>5. CASE evictionEnds
    BY <2>5 DEF evictionEnds, Others, Passes
  <2>6. CASE aggregatesCleared
    BY <2>6 DEF aggregatesCleared, Others, Passes
  <2>7. CASE haDisabled
    BY <2>7 DEF haDisabled, Others, Passes
  <2>8. CASE setTermination
    BY <2>8 DEF setTermination, Others, Passes
  <2>9. CASE setHA
    BY <2>9 DEF setHA, Passes
  <2>10. CASE \E how \in Endings : nodeEnds(how)
    BY <2>10 DEF nodeEnds, Passes, TypeOK, Node
  <2>11. CASE nodeLabelled
    BY <2>11 DEF nodeLabelled, Passes, TypeOK, Node
  <2>12. CASE agentsStart
    BY <2>12 DEF agentsStart, Passes, TypeOK, Node
  <2>13. CASE agentsLeave
    BY <2>13
  <2>14. CASE agentRegisters
    BY <2>14 DEF agentRegisters, Passes
  <2>15. CASE novaSchedules
    BY <2>15 DEF novaSchedules, Passes
  <2>16. CASE allocationsLeft
    BY <2>16 DEF allocationsLeft, Passes
  <2>17. CASE haEnabled
    BY <2>17 DEF haEnabled, Others, Passes
  <2>18. CASE setHighAvailability
    BY <2>18 DEF setHighAvailability, Passes
  <2> QED
    BY <1>5, <2>1, <2>2, <2>3, <2>4, <2>5, <2>6, <2>7, <2>8, <2>9, <2>10, <2>11,
        <2>12, <2>13, <2>14, <2>15, <2>16, <2>17, <2>18 DEF Environment
<1> QED
  BY <1>1, <1>2, <1>3, <1>4, <1>5 DEF Next, Versioned

-----------------------------------------------------------------------------
(* The invariant.                                                          *)

\* What the last version of the Hypervisor, the node and the passes say of
\* the host, said of the next state.
Kept == /\ nova'.servers => nova'.service
        /\ hv'.evicting # "None" \/ hv'.maintenance # "unset" => hv'.exists
        /\ Truthful(hv)'
        /\ gard'.pc = "taint" \/ node'.taint => Drained'
        /\ hc'.look \/ hc'.pc = "pods" => node'.taint
        /\ hc'.agents = "True" => Abandoned'
        /\ off'.pc \in {"get", "delete", "provider"} => Abandoned'
        /\ off'.pc = "provider" \/ (off'.pc = "patch" /\ off'.out = "Done") => Vacated'
        /\ gard'.minAvailable = 0 \/ node'.budget = 0 \/ node'.scale = 0 => Vacated'

\* Every step keeps it so.
LEMMA StepKeeps == ASSUME OffInv, Next PROVE Kept
<1> USE StepsLast DEF Lasting, Kept
<1>1. ASSUME OffPass PROVE Kept
  <2>1. CASE \E h \in {hv, prev} : offReconcile(h)
    BY <2>1 DEF offReconcile, OffStep, SetOffboarding, Snapshot, Disturb, IdleOff,
        OffInv, Truthful
  <2>2. CASE getHypervisor
    <3>1. CASE ~ nova.service
      BY <2>2, <3>1 DEF getHypervisor, OffStep, SetOffboarding, OffInv, Truthful, Abandoned, Vacated
    <3>2. CASE nova.service
      <4>1. /\ UNCHANGED <<hv, node, nova, gard, hc>>
            /\ off'.pc = "delete" \/ (off'.pc = "patch" /\ off'.out # "Done")
            /\ off'.pc = "delete" => Abandoned
        BY <2>2, <3>2 DEF getHypervisor, OffStep, SetOffboarding, OffInv, TypeOK
      <4> QED
        BY <4>1 DEF OffInv, Truthful
    <3> QED
      BY <3>1, <3>2
  <2>3. CASE deleteService
    <3>1. UNCHANGED <<hv, node, gard, hc>>
      BY <2>3 DEF deleteService, OffStep
    <3>2. CASE nova.servers
      BY <2>3, <3>1, <3>2 DEF deleteService, SetOffboarding, OffInv, Truthful
    <3>3. CASE ~ nova.servers
      <4>1. Vacated'
        BY <2>3, <3>1, <3>3 DEF deleteService, OffInv, TypeOK, Nova, Vacated, Abandoned
      <4>2. Abandoned'
        BY <4>1 DEF Vacated
      <4>3. ~ nova'.servers
        BY <4>1 DEF Vacated
      <4> QED
        BY <3>1, <4>1, <4>2, <4>3 DEF OffInv, Truthful
    <3> QED
      BY <3>2, <3>3
  <2>4. CASE cleanupProvider
    <3>1. /\ nova'.servers = nova.servers /\ nova'.service = nova.service
          /\ UNCHANGED <<hv, node, gard, hc>>
      BY <2>4 DEF cleanupProvider, OffStep, OffInv, TypeOK, Nova
    <3>2. off'.pc = "patch" /\ Vacated
      BY <2>4 DEF cleanupProvider, SetOffboarding, OffInv
    <3> QED
      BY <3>1, <3>2 DEF OffInv, Truthful
  <2>5. CASE offPatch
    BY <2>5 DEF offPatch, OffStep, HvBecomes, IdleOff, OffInv, Truthful
  <2> QED
    BY <1>1, <2>1, <2>2, <2>3, <2>4, <2>5 DEF OffPass
<1>2. ASSUME GardPass PROVE Kept
  <2>1. CASE \E h \in {hv, prev} : gardReconcile(h)
    BY <2>1 DEF gardReconcile, GardStep, Snapshot, Disturb, Protect, isTerminating,
        IdleGard, OffInv, Truthful
  <2>2. CASE ensureOffboardingTaint
    BY <2>2 DEF ensureOffboardingTaint, GardStep, IdleGard, OffInv, Truthful
  <2>3. CASE ensureBlockingPodDisruptionBudget
    BY <2>3 DEF ensureBlockingPodDisruptionBudget, GardStep, OffInv, Truthful
  <2>4. CASE ensureSignallingDeployment
    BY <2>4 DEF ensureSignallingDeployment, GardStep, IdleGard, OffInv, Truthful
  <2> QED
    BY <1>2, <2>1, <2>2, <2>3, <2>4 DEF GardPass
<1>3. ASSUME HcPass PROVE Kept
  <2>1. CASE \E h \in {hv, prev} : hcReconcile(h)
    BY <2>1 DEF hcReconcile, HcStep, Snapshot, Disturb, nodeTerminates,
        nodeHasOffboardingTaint, NoHypervisor, OffInv, Truthful
  <2>2. CASE hcCreate
    BY <2>2 DEF hcCreate, HcStep, HvBecomes, IdleHc, NoHypervisor, OffInv, Truthful
  <2>3. CASE syncLabelsAndAnnotations
    <3>1. /\ hv'.evicting = hv.evicting /\ hv'.maintenance = hv.maintenance
          /\ hv'.exists = hv.exists /\ hv'.offboarded = hv.offboarded
          /\ hv'.agentPodsEvicted = hv.agentPodsEvicted
          /\ UNCHANGED <<node, nova, off, gard>>
      BY <2>3 DEF syncLabelsAndAnnotations, HcStep, HvBecomes, OffInv, TypeOK, Hypervisor
    <3>2. /\ hc'.look \/ hc'.pc = "pods" => hc.look
          /\ hc'.agents = "True" => hc.agents = "True"
      <4>1. CASE hc' = IdleHc
        BY <4>1 DEF IdleHc
      <4>2. CASE hc' = [hc EXCEPT !.pc = IF hc.look THEN "pods" ELSE "status", !.rv = NoHypervisor]
        BY <4>2 DEF OffInv, TypeOK
      <4> QED
        BY <2>3, <4>1, <4>2 DEF syncLabelsAndAnnotations
    <3> QED
      BY <3>1, <3>2 DEF OffInv, Truthful
  <2>4. CASE computeAgentPodsEvictedCondition
    BY <2>4 DEF computeAgentPodsEvictedCondition, HcStep, OffInv, Truthful, Drained,
        Abandoned, Vacated
  <2>5. CASE hcPatch
    BY <2>5 DEF hcPatch, HcStep, HvBecomes, IdleHc, NoHypervisor, OffInv, Truthful
  <2> QED
    BY <1>3, <2>1, <2>2, <2>3, <2>4, <2>5 DEF HcPass
<1>4. ASSUME Errors PROVE Kept
  <2>1. CASE getHypervisorError
    BY <2>1 DEF getHypervisorError, OffStep, SetOffboarding, Disturb, OffInv, Truthful
  <2>2. CASE deleteServiceError
    BY <2>2 DEF deleteServiceError, OffStep, SetOffboarding, Disturb, OffInv, Truthful
  <2>3. CASE cleanupProviderError
    BY <2>3 DEF cleanupProviderError, OffStep, SetOffboarding, Disturb, OffInv,
        Truthful
  <2>4. CASE offPatchError
    BY <2>4 DEF offPatchError, OffStep, Disturb, IdleOff, OffInv, Truthful
  <2>5. CASE gardError
    BY <2>5 DEF gardError, GardStep, Disturb, IdleGard, OffInv, Truthful
  <2>6. CASE hcError
    BY <2>6 DEF hcError, HcStep, Disturb, IdleHc, NoHypervisor, OffInv, Truthful
  <2>7. CASE Crash
    BY <2>7 DEF Crash, Disturb, IdleOff, IdleGard, IdleHc, NoHypervisor, OffInv,
        Truthful
  <2> QED
    BY <1>4, <2>1, <2>2, <2>3, <2>4, <2>5, <2>6, <2>7 DEF Errors
<1>5. ASSUME Environment PROVE Kept
  <2>1. CASE onboardingStarts
    BY <2>1 DEF onboardingStarts, HvBecomes, Others, Passes, OffInv, Truthful
  <2>2. CASE onboardingEnds
    BY <2>2 DEF onboardingEnds, HvBecomes, Others, Passes, OffInv, Truthful
  <2>3. CASE evictionStarts
    BY <2>3 DEF evictionStarts, HvBecomes, Others, Passes, OffInv, Truthful
  <2>4. CASE evictionMigrates
    BY <2>4 DEF evictionMigrates, Passes, OffInv, Truthful
  <2>5. CASE evictionEnds
    BY <2>5 DEF evictionEnds, HvBecomes, Others, Passes, OffInv, Truthful, Drained,
        Abandoned, Vacated
  <2>6. CASE aggregatesCleared
    BY <2>6 DEF aggregatesCleared, HvBecomes, Others, Passes, OffInv, Truthful
  <2>7. CASE haDisabled
    BY <2>7 DEF haDisabled, HvBecomes, Others, Passes, OffInv, Truthful
  <2>8. CASE setTermination
    BY <2>8 DEF setTermination, HvBecomes, Others, Passes, OffInv, Truthful
  <2>9. CASE setHA
    BY <2>9 DEF setHA, Disturb, HvBecomes, Passes, OffInv, Truthful
  <2>10. CASE \E how \in Endings : nodeEnds(how)
    BY <2>10 DEF nodeEnds, Passes, OffInv, Truthful
  <2>11. CASE nodeLabelled
    BY <2>11 DEF nodeLabelled, Passes, OffInv, Truthful
  <2>12. CASE agentsStart
    BY <2>12 DEF agentsStart, Passes, OffInv, Truthful
  <2>13. CASE agentsLeave
    BY <2>13 DEF agentsLeave, Passes, OffInv, Truthful
  <2>14. CASE agentRegisters
    BY <2>14 DEF agentRegisters, Passes, OffInv, Truthful
  <2>15. CASE novaSchedules
    BY <2>15 DEF novaSchedules, Passes, OffInv, Truthful
  <2>16. CASE allocationsLeft
    BY <2>16 DEF allocationsLeft, Disturb, Passes, OffInv, Truthful
  <2>17. CASE haEnabled
    BY <2>17 DEF haEnabled, HvBecomes, Others, Passes, OffInv, Truthful
  <2>18. CASE setHighAvailability
    BY <2>18 DEF setHighAvailability, Disturb, HvBecomes, Passes, OffInv, Truthful
  <2> QED
    BY <1>5, <2>1, <2>2, <2>3, <2>4, <2>5, <2>6, <2>7, <2>8, <2>9, <2>10, <2>11,
        <2>12, <2>13, <2>14, <2>15, <2>16, <2>17, <2>18 DEF Environment
<1> QED
  BY <1>1, <1>2, <1>3, <1>4, <1>5 DEF Next, Versioned

\* The invariant is inductive, whatever fails or is read late.
LEMMA OffInvStep == OffInv /\ [Next]_vars => OffInv'
<1> SUFFICES ASSUME OffInv, [Next]_vars PROVE OffInv'
  OBVIOUS
<1>1. TypeOK'
  BY TypeStep DEF OffInv
<1>2. CASE UNCHANGED vars
  BY <1>2 DEF vars, OffInv, TypeOK, Truthful, Drained, Vacated, Abandoned
<1>3. CASE Next
  <2>1. prev' \in {hv, hv', prev}
    BY <1>3 DEF Next, Versioned
  <2>2. Lasting
    BY <1>3, StepsLast
  <2>3. Kept
    BY <1>3, StepKeeps
  <2>4. Truthful(prev)'
    BY <2>1, <2>2, <2>3 DEF OffInv, Truthful, Lasting, Kept
  <2> QED
    BY <1>1, <2>3, <2>4 DEF OffInv, Kept
<1> QED
  BY <1>2, <1>3

\* What the Hypervisor, in any version that can still be read, the node and
\* the passes say of the host stays true of it.
THEOREM OffInductive == Spec => []OffInv
<1>1. Init => OffInv
  <2> SUFFICES ASSUME Init PROVE OffInv
    OBVIOUS
  <2>1. TypeOK
    BY TypeInit
  <2>2. Truthful(NoHypervisor)
    BY DEF Truthful, NoHypervisor
  <2> QED
    BY <2>1, <2>2 DEF Init, OffInv, IdleOff, IdleGard, IdleHc, NoHypervisor, None
<1> QED
  BY <1>1, OffInvStep, PTL DEF Spec

\* An offboarded host is unknown to Nova, empty and without agents, for
\* good: no late read, failure, restart or turn to HA brings it back.
THEOREM OffboardedIsGone == Spec => []OffboardedMeansGone
<1>1. OffInv => OffboardedMeansGone
  BY DEF OffInv, OffboardedMeansGone, Gone, Truthful, Vacated, Abandoned
<1> QED
  BY <1>1, OffInductive, PTL

\* Gardener gets the node only when its host has left OpenStack.
THEOREM ReleasedIsGone == Spec => []ReleasedMeansGone
<1>1. OffInv => ReleasedMeansGone
  BY DEF OffInv, ReleasedMeansGone, Gone, Vacated, Abandoned
<1> QED
  BY <1>1, OffInductive, PTL

\* The agents leave only a host that no instance is on any more: the taint
\* that drives them out comes after the drain.
THEOREM AgentsLeaveLast == Spec => AgentsOutliveServers
<1>1. OffInv /\ [Next]_vars => [node.agents /\ ~ node'.agents => ~ nova.servers]_vars
  <2> SUFFICES ASSUME OffInv, Next, node.agents, ~ node'.agents PROVE ~ nova.servers
    OBVIOUS
  <2>2. agentsLeave
    BY AgentsChange DEF OffInv
  <2> QED
    BY <2>2 DEF agentsLeave, OffInv, Drained
<1> QED
  BY <1>1, OffInductive, PTL DEF Spec, AgentsOutliveServers

=============================================================================
