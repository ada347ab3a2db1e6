-------------------------- MODULE OnboardingProofs ---------------------------
(***************************************************************************)
(* Proofs about how a host joins: no test server is left behind, no server *)
(* loses the volume it boots from, no volume is leaked, the host is never  *)
(* open to everyone, gets its traits before its aggregates, is handed over *)
(* with both, and no wakeup of the aggregates and the traits controller is *)
(* lost.                                                                   *)
(***************************************************************************)
EXTENDS Onboarding, TLAPS

-----------------------------------------------------------------------------
(* What a pass of the onboarding controller knows.  The ids of the host    *)
(* come with the first phase of the onboarding, and stay.                  *)

IdInv ==
    /\ \A h \in {hv, prev} : h.ids <=> h.onboarding # "None"
    /\ prev.ids => hv.ids
    /\ on.pc # "idle" => on.out # "None"
    /\ on.pc # "idle" /\ on.out # "Initial" => hv.ids
    /\ on.pc \notin {"idle", "lookup", "apply"} => on.out # "Initial"

-----------------------------------------------------------------------------
(* The test server.                                                        *)

\* Nothing of the test is left.
Clean == nova.server = "none" /\ ~ nova.stray

\* The phases after the cleanup.
Closed == Over \cup {"Handover"}

ServerInv ==
    /\ SkipTests => nova.server = "none"
    /\ "stale_read" \notin Faults => prev.onboarding = "None"
    /\ \A h \in {hv, prev} : h.onboarding \in Closed => Clean
    /\ on.pc \in {"smoke", "sweep", "create", "look"} => ~ SkipTests /\ hv.onboarding = "Testing"
    /\ on.pc = "apply" /\ on.out \in Closed => Clean

VolInv ==
    /\ VolumesAreSafe
    /\ on.pc \in {"sweep", "create"} => nova.server = "none"
    /\ on.pc = "sweep" /\ nova.neighbour = "BUILD" => "other" \in on.known

-----------------------------------------------------------------------------
(* The aggregates.                                                         *)

\* The aggregates keep away the instances the host is not meant for.
Restricting(s) == s \ {Zone} # {}

\* The host is restricted, or on its way out.
Guarded == Restricting(nova.aggregates) \/ hv.evicted

OpenInv ==
    /\ prev.evicted => hv.evicted
    /\ \A h \in {hv, prev} : Restricting(h.aggregates) => Guarded
    /\ nova.enabled \/ on.pc = "enable" => Guarded
    /\ agg.pc \in {"list", "add", "remove"} => (Restricting(agg.want) \/ hv.evicted) /\ ~ agg.changed
    /\ agg.pc = "add" => agg.want \subseteq nova.aggregates \cup agg.todo
    /\ agg.pc = "remove" => agg.want \subseteq nova.aggregates /\ agg.todo \cap agg.want = {}
    /\ agg.pc = "patch" /\ agg.changed /\ Restricting(agg.want) => Guarded

-----------------------------------------------------------------------------
(* The traits.                                                             *)

\* Placement has the traits of the spec, which nobody changes here.
Fitted == nova.traits = Traits

TraitInv ==
    /\ \A h \in {hv, prev} : /\ h.customTraits = Traits
                             /\ h.traits = Traits \/ h.traitsUpdated = "True" => Fitted
    /\ tr.pc = "put" => tr.want = Traits
    /\ tr.pc # "idle" /\ tr.out = Traits => Fitted
    /\ tr.pc = "apply" /\ tr.ok => Fitted

\* The aggregates of the spec may come.
Free == Fitted \/ hv.onboarding \in Over

Plain(s) == s \subseteq TestAggregates

AheadInv ==
    /\ ~ Plain(nova.aggregates) \/ ~ Plain(hv.aggregates) => Free
    /\ agg.pc # "idle" /\ ~ Plain(agg.want) => Free

-----------------------------------------------------------------------------
(* The phases, read from versions that are current.                        *)

\* The phase that a pass is about to report follows the one that is reported.
PhaseInv ==
    /\ on.pc = "lookup" => on.out = "Initial"
    /\ on.pc = "enable" => on.out = "Testing"
    /\ on.pc # "idle" => /\ on.out = "Initial" => hv.onboarding = "None"
                         /\ on.out = "Testing" => hv.onboarding \in {"Initial", "Testing"}
                         /\ on.out = "Handover" => hv.onboarding = "Testing"
                         /\ on.out = "Succeeded" => hv.onboarding = "Handover"
                         /\ hv.onboarding # "Succeeded"
    /\ "cleanup_error" \notin Faults => hv.onboarding # Stuck /\ (on.pc # "idle" => on.out # Stuck)

\* The volumes that aborted builds leave behind.

\* The onboarding has been given up, or is about to be.
Aborted == {"AbortedByLifecycle", "AbortedByTermination", Stuck}
Dropped == hv.onboarding \in Aborted \/ (on.pc # "idle" /\ on.out \in Aborted)

\* The next server is yet to be created, after another look for volumes.
Unswept == /\ nova.server = "none" /\ hv.onboarding = "Testing"
           /\ \/ on.pc \in {"idle", "smoke"}
              \/ on.pc = "sweep" /\ (on.out = "Testing" \/ "gone" \notin on.known)

OrphanInv ==
    /\ "mine" \in nova.volumes => nova.server \in {"BUILD", "ERROR"}
    /\ nova.server = "ERROR" => faults > 0
    /\ on.pc # "idle" /\ on.out \in Aborted => on.pc \in {"cleanup", "apply"}
    /\ on.pc = "cleanup" /\ on.out \notin Aborted => nova.server = "none"
    /\ Dropped \/ ~ hv.lifecycle \/ hv.terminating => faults > 0
    /\ SkipTests => "gone" \notin nova.volumes
    /\ "gone" \in nova.volumes => faults > 0 /\ (faults > 1 \/ Dropped \/ Unswept)

\* What ApplyAggregates has done so far, unless a call has failed.
AggInv ==
    /\ agg.pc \in {"list", "add", "remove"} => ~ agg.changed
    /\ agg.pc = "add" => /\ agg.todo \subseteq agg.want
                         /\ agg.failed \/ agg.want \subseteq nova.aggregates \cup agg.todo
    /\ agg.pc = "remove" => /\ agg.todo \cap agg.want = {}
                            /\ \/ agg.failed
                               \/ /\ agg.want \subseteq nova.aggregates
                                  /\ nova.aggregates \ agg.want \subseteq agg.todo
    /\ agg.pc = "patch" /\ agg.changed => nova.aggregates = agg.want

-----------------------------------------------------------------------------
(* The handover.                                                           *)

\* The phases after the tests.
Later == Closed \cup {Stuck}

\* Out of the test aggregate, for good.
Released == /\ Test \notin nova.aggregates /\ Test \notin hv.aggregates
            /\ agg.pc # "idle" => Test \notin agg.want

\* From the end of the initial phase to success.
Tested == \/ hv.onboarding \in {"Testing", "Handover", "Succeeded"}
          \/ on.pc # "idle" /\ on.out = "Testing"

\* The traits: reported once they are in place, after the tests.
FitInv ==
    /\ hv.traitsUpdated = "True" => hv.traits = Traits /\ tr.pc = "idle"
    /\ hv.traitsUpdated = "True" \/ tr.pc # "idle" => hv.onboarding \in Later
    /\ tr.pc = "apply" /\ tr.ok => tr.out = Traits

\* What the aggregates controller works for.
AimInv ==
    /\ agg.pc # "idle" /\ agg.reason = "Succeeded" =>
           /\ agg.want \in Specs /\ hv.onboarding \in Later
           /\ hv.onboarding = "Handover" => hv.traitsUpdated = "True"
    /\ agg.pc # "idle" /\ Test \notin agg.want =>
           \/ agg.reason = "Succeeded" \/ hv.evicted
           \/ agg.want = hv.aggregates /\ ~ agg.changed /\ agg.pc = "patch"
    /\ agg.pc = "patch" /\ ~ agg.changed /\ ~ agg.failed => agg.want = hv.aggregates
    /\ hv.evicted => /\ hv.terminating /\ hv.onboarding \notin {"Testing", "Handover"}
                     /\ on.pc # "idle" => on.out \notin {"Testing", "Handover"}

HandInv ==
    /\ hv.onboarding = "Succeeded" \/ (on.pc # "idle" /\ on.out = "Succeeded")
           => Released /\ hv.traitsUpdated = "True"
    /\ hv.onboarding = "Handover" /\ hv.aggregatesUpdated = "Succeeded"
           => Released /\ hv.traitsUpdated = "True"
    /\ hv.aggregatesUpdated = "Succeeded" => hv.onboarding \in Later
    /\ Tested /\ Test \notin hv.aggregates
           => Test \notin nova.aggregates /\ (agg.pc # "idle" => Test \notin agg.want)
    /\ Tested /\ hv.traitsUpdated # "True" => Test \in hv.aggregates

-----------------------------------------------------------------------------
(* Wakeups.                                                                *)

\* A pass over h would find nothing to do.
AggSettled(h) == h.ids => /\ determineDesiredState(h).want = h.aggregates
                          /\ determineDesiredState(h).reason = h.aggregatesUpdated
TrSettled(h) == trApplies(h) => h.customTraits = h.traits /\ h.traitsUpdated = "True"

\* The pass that is under way has something new to report, or fails.
AggNews == /\ agg.pc \in {"list", "add", "remove"} => agg.want # hv.aggregates
           /\ agg.pc = "patch" => \/ agg.failed
                                  \/ agg.changed /\ agg.want # hv.aggregates
                                  \/ agg.reason # hv.aggregatesUpdated
TrNews == /\ tr.pc = "put" => tr.want # hv.traits
          /\ tr.pc = "apply" => \/ ~ tr.ok \/ tr.out # hv.traits \/ hv.traitsUpdated # "True"

WakeInv ==
    /\ hv.lifecycle /\ ~ queue.agg => IF agg.pc = "idle" THEN AggSettled(hv) ELSE AggNews
    /\ ~ queue.tr => IF tr.pc = "idle" THEN TrSettled(hv) ELSE TrNews

-----------------------------------------------------------------------------
(* Types.                                                                  *)

Queues == [on : BOOLEAN, agg : BOOLEAN, tr : BOOLEAN]
OnPasses == [pc : {"idle", "lookup", "enable", "smoke", "sweep", "create", "look", "cleanup", "apply"},
             out : Phases, known : SUBSET Instances]
AggPasses == [pc : {"idle", "list", "add", "remove", "patch"}, want : SUBSET Aggregates,
              reason : Reasons, todo : SUBSET Aggregates, failed : BOOLEAN, changed : BOOLEAN]
TrPasses == [pc : {"idle", "put", "apply"}, want : SUBSET Traits, out : SUBSET Traits, ok : BOOLEAN]

\* The types of what a step writes.
Typed == /\ hv \in Hypervisor /\ nova \in Nova /\ queue \in Queues
         /\ on \in OnPasses /\ agg \in AggPasses /\ tr \in TrPasses /\ faults \in 0..MaxFaults

\* The named sets are those of the type invariant.
LEMMA TypeParts == TypeOK <=> Typed /\ prev \in Hypervisor
BY DEF TypeOK, Typed, Queues, OnPasses, AggPasses, TrPasses

(* The steps, by whose they are.                                           *)

OnMoves ==
    \/ \E h \in {hv, prev} : onReconcile(h)
    \/ lookupNovaProperties \/ initialOnboarding \/ createOrGetTestServer
    \/ deleteOrphanedTestVolumes \/ createTestServer \/ smokeTest \/ deleteTestServers \/ onApply
    \/ smokeTestError \/ smokeTestTimeout \/ deleteOutdatedError \/ deleteOrphanedTestVolumesError
    \/ deleteTestServersError \/ onError

AggMoves ==
    \/ \E h \in {hv, prev} : aggReconcile(h)
    \/ listAggregates \/ added \/ removed \/ aggPatch \/ listAggregatesError \/ aggPatchError
    \/ \E a \in Aggregates : addHost(a) \/ removeHost(a) \/ addHostError(a) \/ removeHostError(a)

TrMoves == \/ \E h \in {hv, prev} : trReconcile(h)
           \/ UpdateTraits \/ applyTraitsStatus \/ UpdateTraitsError \/ applyTraitsStatusError

\* Every step is one of a controller, a crash, or one of the rest of the world;
\* the version it supersedes is kept only where it may still be read.
LEMMA Whose ==
    ASSUME Next
    PROVE  /\ OnMoves \/ AggMoves \/ TrMoves \/ Crash \/ Environment
           /\ prev' = IF "stale_read" \in Faults /\ hv' # hv THEN hv ELSE prev
BY DEF Next, Versioned, OnPass, AggPass, TrPass, Errors, OnMoves, AggMoves, TrMoves

\* What the aggregates controller wants is a set of aggregates.
LEMMA DesiredTyped ==
    ASSUME NEW h \in Hypervisor
    PROVE  determineDesiredState(h).want \subseteq Aggregates /\ determineDesiredState(h).reason \in Reasons
BY DEF determineDesiredState, fromSpec, Hypervisor, Aggregates, TestAggregates, Reasons

\* The passes that are over have the types.
LEMMA IdleTyped == IdleOn \in OnPasses /\ IdleAgg \in AggPasses /\ IdleTr \in TrPasses
<1>1. IdleOn \in OnPasses
  BY DEF IdleOn, OnPasses, Phases
<1>2. IdleAgg \in AggPasses
  BY DEF IdleAgg, AggPasses, Reasons
<1>3. IdleTr \in TrPasses
  BY DEF IdleTr, TrPasses
<1> QED
  BY <1>1, <1>2, <1>3

\* A pass of the onboarding controller that goes on has the type.
LEMMA GoTyped ==
    ASSUME NEW pc \in {"idle", "lookup", "enable", "smoke", "sweep", "create", "look", "cleanup", "apply"},
           NEW out \in Phases
    PROVE  [IdleOn EXCEPT !.pc = pc, !.out = out] \in OnPasses
BY IdleTyped DEF OnPasses

\* The queue keeps its type when an event or a pass changes it.
LEMMA QueueTyped ==
    ASSUME NEW q \in Queues, NEW b \in BOOLEAN
    PROVE  /\ [q EXCEPT !.on = b] \in Queues /\ [q EXCEPT !.agg = b] \in Queues
           /\ [q EXCEPT !.tr = b] \in Queues
           /\ [on |-> TRUE, agg |-> b, tr |-> TRUE] \in Queues
BY DEF Queues

\* The Hypervisor keeps its type when a controller reports on it.
LEMMA HvTyped ==
    ASSUME NEW h \in Hypervisor
    PROVE  /\ \A p \in Phases : [h EXCEPT !.onboarding = p] \in Hypervisor
           /\ \A p \in Phases, b \in BOOLEAN :
                 [h EXCEPT !.onboarding = p, !.ids = b] \in Hypervisor
           /\ \A s \in SUBSET Aggregates, r \in Reasons :
                 [h EXCEPT !.aggregates = s, !.aggregatesUpdated = r] \in Hypervisor
           /\ \A t \in SUBSET Traits, u \in {"None", "False", "True"} :
                 [h EXCEPT !.traits = t, !.traitsUpdated = u] \in Hypervisor
BY DEF Hypervisor

\* So does what Nova and Placement know of the host.
LEMMA NovaTyped ==
    ASSUME NEW n \in Nova
    PROVE  /\ \A b \in BOOLEAN : [n EXCEPT !.stray = b] \in Nova
           /\ \A s \in Servers : [n EXCEPT !.server = s] \in Nova
           /\ \A s \in Servers, v \in SUBSET Instances :
                 [n EXCEPT !.server = s, !.volumes = v] \in Nova
           /\ \A w \in {"none", "BUILD", "ACTIVE"}, v \in SUBSET Instances :
                 [n EXCEPT !.neighbour = w, !.volumes = v] \in Nova
           /\ \A t \in SUBSET Traits : [n EXCEPT !.traits = t] \in Nova
BY DEF Nova

\* Deleting the test server is such a change.
LEMMA DeletedTyped ==
    ASSUME NEW n \in Nova, NEW leak
    PROVE  Deleted(n, leak) \in Nova
<1> DEFINE left == IF "mine" \in n.volumes /\ leak THEN (n.volumes \ {"mine"}) \cup {"gone"}
                   ELSE n.volumes \ {"mine"}
<1>1. left \in SUBSET Instances
  BY DEF Nova, Instances
<1>2. "none" \in Servers
  BY DEF Servers
<1>3. Deleted(n, leak) = [n EXCEPT !.server = "none", !.volumes = left]
  BY DEF Deleted
<1>4. \A v \in SUBSET Instances : [n EXCEPT !.server = "none", !.volumes = v] \in Nova
  BY <1>2, NovaTyped
<1> HIDE DEF left
<1> QED
  BY <1>1, <1>3, <1>4

\* It leaves the rest alone, the volumes of other hosts above all.
LEMMA DeletedKeeps ==
    ASSUME NEW n \in Nova, NEW leak
    PROVE  /\ Deleted(n, leak).server = "none"
           /\ Deleted(n, leak).aggregates = n.aggregates /\ Deleted(n, leak).traits = n.traits
           /\ Deleted(n, leak).neighbour = n.neighbour /\ Deleted(n, leak).stray = n.stray
           /\ Deleted(n, leak).enabled = n.enabled
           /\ "other" \in n.volumes => "other" \in Deleted(n, leak).volumes
BY DEF Deleted, Nova

\* The instances that run are instances.
LEMMA RunningTyped == ASSUME NEW n PROVE Running(n) \in SUBSET Instances
BY DEF Running, Instances

\* A pass that ends to be called again, or goes on, keeps the types.
LEMMA MovesTyped ==
    ASSUME Typed
    PROVE  /\ Retry => on' \in OnPasses /\ queue' \in Queues
           /\ \A pc \in {"idle", "lookup", "enable", "smoke", "sweep", "create", "look", "cleanup",
                         "apply"}, out \in Phases :
                 /\ Go(pc, out) => on' \in OnPasses /\ queue' \in Queues
                 /\ \A h : Take(h, pc, out) => on' \in OnPasses /\ queue' \in Queues
<1>1. queue \in Queues
  BY DEF Typed
<1>2. Retry => on' \in OnPasses /\ queue' \in Queues
  BY <1>1, IdleTyped, QueueTyped DEF Retry
<1>3. ASSUME NEW pc \in {"idle", "lookup", "enable", "smoke", "sweep", "create", "look", "cleanup",
                        "apply"}, NEW out \in Phases
      PROVE  /\ Go(pc, out) => on' \in OnPasses /\ queue' \in Queues
             /\ \A h : Take(h, pc, out) => on' \in OnPasses /\ queue' \in Queues
  BY <1>1, GoTyped, QueueTyped DEF Go, Take
<1> QED
  BY <1>2, <1>3

\* An event keeps the type of the queue.
LEMMA EventTyped ==
    ASSUME NEW new \in Hypervisor, NEW q \in Queues
    PROVE  Event(new, q) \in Queues
BY QueueTyped DEF Event, Queues, Hypervisor

\* Every step of the controllers and of the rest of the world keeps the types.
LEMMA TypedStep == Typed /\ prev \in Hypervisor /\ Next => Typed'
<1> SUFFICES ASSUME Typed, prev \in Hypervisor, Next PROVE Typed'
  OBVIOUS
<1>1. ASSUME OnMoves PROVE Typed'
  <2>1. CASE \E h \in {hv, prev} : onReconcile(h)
    <3>1. PICK h \in {hv, prev} : onReconcile(h)
      BY <2>1
    <3>2. h \in Hypervisor
      BY DEF Typed
    <3>3. {"Initial", "Testing", "Handover", "Succeeded", "AbortedByLifecycle",
           "AbortedByTermination", "None"} \subseteq Phases
      BY DEF Phases
    <3>4. on' \in OnPasses /\ queue' \in Queues
      <4>1. Retry \/ \E pc \in {"idle", "lookup", "enable", "smoke", "cleanup", "apply"}, out \in Phases :
                        Take(h, pc, out)
        BY <3>1, <3>3, Zenon DEF onReconcile, abortOnboarding, onboard, handover
      <4> QED
        BY <4>1, MovesTyped
    <3> QED
      BY ConstantsAssumption, <3>1, <3>4 DEF onReconcile, OnStep, Snapshot, Disturb, Typed
  <2>2. CASE lookupNovaProperties
    <3>1. "Initial" \in Phases
      BY DEF Phases
    <3>2. on' \in OnPasses /\ queue' \in Queues
      BY <2>2, <3>1, MovesTyped DEF lookupNovaProperties, Apply
    <3> QED
      BY <2>2, <3>2 DEF lookupNovaProperties, OnStep, Typed
  <2>3. CASE initialOnboarding
    <3>1. "Testing" \in Phases
      BY DEF Phases
    <3>2. on' \in OnPasses /\ queue' \in Queues
      BY <2>3, <3>1, MovesTyped DEF initialOnboarding, Apply
    <3>3. nova' \in Nova
      BY <2>3 DEF initialOnboarding, Typed, Nova
    <3> QED
      BY <2>3, <3>2, <3>3 DEF initialOnboarding, OnStep, Typed
  <2>4. CASE createOrGetTestServer \/ deleteOutdatedError
    <3>1. on.out \in Phases /\ Running(nova) \in SUBSET Instances
      BY RunningTyped DEF Typed, OnPasses
    <3>2. [pc |-> "sweep", out |-> on.out, known |-> Running(nova)] \in OnPasses
      BY <3>1 DEF OnPasses
    <3>3. on' \in OnPasses /\ queue' \in Queues
      <4>1. queue \in Queues
        BY DEF Typed
      <4>2. \/ on' = [pc |-> "sweep", out |-> on.out, known |-> Running(nova)] /\ UNCHANGED queue
            \/ Retry \/ Go("look", on.out)
        BY <2>4 DEF createOrGetTestServer, deleteOutdatedError, GetTestServer, Disturb
      <4> QED
        BY <3>1, <3>2, <4>1, <4>2, MovesTyped
    <3>4. nova' \in Nova
      BY <2>4 DEF createOrGetTestServer, deleteOutdatedError, GetTestServer, Disturb, Typed, Nova
    <3> QED
      BY ConstantsAssumption, <2>4, <3>3, <3>4 DEF createOrGetTestServer, deleteOutdatedError, GetTestServer, Disturb, OnStep, Typed
  <2>5. CASE deleteOrphanedTestVolumes
    <3>1. on.out \in Phases
      BY DEF Typed, OnPasses
    <3>2. on' \in OnPasses /\ queue' \in Queues
      BY <2>5, <3>1, MovesTyped DEF deleteOrphanedTestVolumes, Swept
    <3>3. nova' \in Nova
      BY <2>5 DEF deleteOrphanedTestVolumes, Typed, Nova
    <3> QED
      BY <2>5, <3>2, <3>3 DEF deleteOrphanedTestVolumes, OnStep, Typed
  <2>6. CASE createTestServer
    <3>1. nova \in Nova /\ "BUILD" \in Servers /\ nova.volumes \cup {"mine"} \in SUBSET Instances
      BY DEF Typed, Nova, Servers, Instances
    <3>2. nova' \in Nova
      BY <2>6, <3>1, NovaTyped DEF createTestServer
    <3>3. on' \in OnPasses /\ queue' \in Queues
      BY <2>6, MovesTyped, IdleTyped, QueueTyped DEF createTestServer, Retry, Typed
    <3> QED
      BY <2>6, <3>2, <3>3 DEF createTestServer, OnStep, Typed
  <2>7. CASE smokeTest
    <3>1. on.out \in Phases /\ queue \in Queues /\ hv \in Hypervisor /\ nova \in Nova /\ "Testing" \in Phases
      BY DEF Typed, OnPasses, Phases
    <3>2. UNCHANGED <<agg, tr, faults>>
      BY <2>7 DEF smokeTest, OnStep
    <3>3. CASE nova.server = "BOOTED" /\ nova' = Deleted(nova, FALSE) /\ Go("cleanup", on.out) /\ UNCHANGED hv
      BY <3>1, <3>2, <3>3, DeletedTyped, MovesTyped DEF Typed
    <3>4. CASE Retry /\ UNCHANGED <<hv, nova>>
      BY <3>1, <3>2, <3>4, IdleTyped, QueueTyped DEF Typed, Retry
    <3>5. CASE /\ setTestingCondition /\ queue' = Event(hv', queue)
               /\ \E leak \in BOOLEAN, listed \in SUBSET {"gone"} :
                     /\ nova' = Deleted(nova, leak)
                     /\ on' = [pc |-> "sweep", out |-> "Testing", known |-> listed \cup Running(nova')]
      <4>1. hv' \in Hypervisor
        BY <3>1, <3>5, HvTyped DEF setTestingCondition
      <4>2. queue' \in Queues
        BY <3>1, <3>5, <4>1, EventTyped
      <4>3. PICK leak \in BOOLEAN, listed \in SUBSET {"gone"} :
                     /\ nova' = Deleted(nova, leak)
                     /\ on' = [pc |-> "sweep", out |-> "Testing", known |-> listed \cup Running(nova')]
        BY <3>5
      <4>4. nova' \in Nova
        BY <3>1, <4>3, DeletedTyped
      <4>5. listed \cup Running(nova') \in SUBSET Instances
        BY RunningTyped DEF Instances
      <4>6. on' \in OnPasses
        BY <3>1, <4>3, <4>5 DEF OnPasses
      <4> QED
        BY <3>2, <4>1, <4>2, <4>4, <4>6 DEF Typed
    <3> QED
      BY <2>7, <3>3, <3>4, <3>5 DEF smokeTest
  <2>8. CASE deleteTestServers
    <3>1. on.out \in Phases /\ nova \in Nova
      BY DEF Typed, OnPasses
    <3>2. on' \in OnPasses /\ queue' \in Queues
      BY <2>8, <3>1, MovesTyped DEF deleteTestServers, Apply
    <3>3. nova' \in Nova
      BY <2>8, <3>1, DeletedTyped, NovaTyped DEF deleteTestServers
    <3> QED
      BY <2>8, <3>2, <3>3 DEF deleteTestServers, OnStep, Typed
  <2>9. CASE onApply
    <3>1. on.out \in Phases /\ hv \in Hypervisor /\ (hv.ids \/ on.out = "Initial") \in BOOLEAN
      BY DEF Typed, OnPasses
    <3>2. hv' \in Hypervisor
      BY <2>9, <3>1, HvTyped DEF onApply, HvBecomes
    <3>3. on' \in OnPasses /\ queue' \in Queues
      BY <2>9, <3>2, IdleTyped, EventTyped DEF onApply, HvBecomes, Typed
    <3> QED
      BY <2>9, <3>2, <3>3 DEF onApply, OnStep, Typed
  <2>10. CASE smokeTestError
    <3>1. queue' \in Queues
      BY <2>10 DEF smokeTestError, OnStep, Retry, Disturb, IdleOn, Typed, Queues
    <3>2. on' \in OnPasses
      BY <2>10 DEF smokeTestError, OnStep, Retry, Disturb, IdleOn, Typed, OnPasses,
          Phases
    <3> QED
      BY ConstantsAssumption, <2>10, <3>1, <3>2 DEF smokeTestError, OnStep, Disturb,
          Typed
  <2>11. CASE smokeTestTimeout
    <3>1. hv \in Hypervisor /\ nova \in Nova /\ "Testing" \in Phases
      BY DEF Typed, Phases
    <3>2. hv' \in Hypervisor
      BY <2>11, <3>1, HvTyped DEF smokeTestTimeout, setTestingCondition
    <3>3. nova' \in Nova
      BY <2>11, <3>1, DeletedTyped DEF smokeTestTimeout
    <3>4. on' \in OnPasses /\ queue' \in Queues
      BY <2>11, <3>2, IdleTyped, EventTyped, QueueTyped DEF smokeTestTimeout, Typed
    <3>5. UNCHANGED <<agg, tr>> /\ faults' \in 0..MaxFaults
      BY ConstantsAssumption, <2>11 DEF smokeTestTimeout, Disturb, OnStep, Typed
    <3> QED
      BY <3>2, <3>3, <3>4, <3>5 DEF Typed
  <2>12. CASE deleteOrphanedTestVolumesError
    <3>1. on.out \in Phases
      BY DEF Typed, OnPasses
    <3>2. on' \in OnPasses /\ queue' \in Queues
      BY <2>12, <3>1, MovesTyped DEF deleteOrphanedTestVolumesError, Swept
    <3> QED
      BY ConstantsAssumption, <2>12, <3>2 DEF deleteOrphanedTestVolumesError, Disturb, OnStep, Typed
  <2>13. CASE deleteTestServersError
    <3>1. nova \in Nova /\ Stuck \in Phases
      BY DEF Typed, Phases
    <3>2. on' \in OnPasses /\ queue' \in Queues
      BY <2>13, <3>1, GoTyped, QueueTyped DEF deleteTestServersError, Typed
    <3>3. nova' \in Nova
      <4>1. PICK n \in {nova, Deleted(nova, TRUE), Deleted(nova, FALSE)}, t \in {nova.stray, FALSE} :
                nova' = [n EXCEPT !.stray = t]
        BY <2>13 DEF deleteTestServersError
      <4>2. n \in Nova
        BY <3>1, DeletedTyped
      <4>3. t \in BOOLEAN
        BY <3>1 DEF Nova
      <4> QED
        BY <4>1, <4>2, <4>3, NovaTyped
    <3> QED
      BY ConstantsAssumption, <2>13, <3>2, <3>3 DEF deleteTestServersError, Disturb, OnStep, Typed
  <2>14. CASE onError
    <3>1. queue' \in Queues
      BY <2>14 DEF onError, OnStep, Retry, Disturb, IdleOn, Typed, Queues
    <3>2. on' \in OnPasses
      BY <2>14 DEF onError, OnStep, Retry, Disturb, IdleOn, Typed, OnPasses, Phases
    <3> QED
      BY ConstantsAssumption, <2>14, <3>1, <3>2 DEF onError, OnStep, Disturb, Typed
  <2> QED
    BY <1>1, <2>1, <2>2, <2>3, <2>4, <2>5, <2>6, <2>7, <2>8, <2>9, <2>10, <2>11,
        <2>12, <2>13, <2>14 DEF OnMoves
<1>2. ASSUME AggMoves PROVE Typed'
  <2>1. CASE \E h \in {hv, prev} : aggReconcile(h)
    <3>1. PICK h \in {hv, prev} : aggReconcile(h)
      BY <2>1
    <3>2. h \in Hypervisor /\ queue \in Queues
      BY DEF Typed
    <3> DEFINE to(pc) == [IdleAgg EXCEPT !.pc = pc, !.want = determineDesiredState(h).want,
                                         !.reason = determineDesiredState(h).reason]
    <3>3. \A pc \in {"list", "patch"} : to(pc) \in AggPasses
      BY <3>2, DesiredTyped, IdleTyped DEF AggPasses
    <3>4. agg' \in {IdleAgg, to("list"), to("patch")}
      BY <3>1 DEF aggReconcile
    <3>5. agg' \in AggPasses
      BY <3>3, <3>4, IdleTyped
    <3>6. queue' \in Queues
      BY <3>1, <3>2, QueueTyped DEF aggReconcile
    <3> QED
      BY ConstantsAssumption, <3>1, <3>5, <3>6 DEF aggReconcile, AggStep, Snapshot, Disturb, Typed
  <2>2. CASE listAggregates
    <3>1. agg' \in AggPasses
      BY <2>2 DEF listAggregates, AggStep, Typed, AggPasses, Reasons
    <3> QED
      BY ConstantsAssumption, <2>2, <3>1 DEF listAggregates, AggStep, Typed
  <2>3. CASE \E a \in Aggregates : addHost(a)
    <3>1. nova' \in Nova
      BY <2>3 DEF addHost, AggStep, Typed, Nova
    <3>2. agg' \in AggPasses
      BY <2>3 DEF addHost, AggStep, Typed, AggPasses, Reasons
    <3> QED
      BY ConstantsAssumption, <2>3, <3>1, <3>2 DEF addHost, AggStep, Typed
  <2>4. CASE added
    <3>1. nova.aggregates \ agg.want \in SUBSET Aggregates
      BY DEF Typed, Nova
    <3>2. agg' \in AggPasses
      BY <2>4, <3>1 DEF added, Typed, AggPasses
    <3> QED
      BY <2>4, <3>2 DEF added, AggStep, Typed
  <2>5. CASE \E a \in Aggregates : removeHost(a)
    <3>1. nova' \in Nova
      BY <2>5 DEF removeHost, AggStep, Typed, Nova
    <3>2. agg' \in AggPasses
      BY <2>5 DEF removeHost, AggStep, Typed, AggPasses, Reasons
    <3> QED
      BY ConstantsAssumption, <2>5, <3>1, <3>2 DEF removeHost, AggStep, Typed
  <2>6. CASE removed
    <3>1. agg' \in AggPasses
      BY <2>6 DEF removed, AggStep, Typed, AggPasses, Reasons
    <3> QED
      BY ConstantsAssumption, <2>6, <3>1 DEF removed, AggStep, Typed
  <2>7. CASE aggPatch
    <3> DEFINE s == IF agg.changed THEN agg.want ELSE hv.aggregates
               r == IF agg.failed THEN "Failed" ELSE agg.reason
               q == [queue EXCEPT !.agg = queue.agg \/ agg.failed]
    <3>1. s \in SUBSET Aggregates
      BY DEF Typed, AggPasses, Hypervisor
    <3>2. r \in Reasons
      BY DEF Typed, AggPasses, Reasons
    <3>3. hv \in Hypervisor
      BY DEF Typed
    <3>4. hv' = [hv EXCEPT !.aggregates = s, !.aggregatesUpdated = r] /\ queue' = Event(hv', q)
      BY <2>7 DEF aggPatch
    <3>5. hv' \in Hypervisor
      <4> HIDE DEF s, r
      <4> QED
        BY <3>1, <3>2, <3>3, <3>4, HvTyped
    <3>6. q \in Queues
      BY QueueTyped DEF Typed
    <3>7. agg' \in AggPasses /\ queue' \in Queues
      BY <2>7, <3>4, <3>5, <3>6, IdleTyped, EventTyped DEF aggPatch
    <3> QED
      BY <2>7, <3>5, <3>7 DEF aggPatch, AggStep, Typed
  <2>8. CASE listAggregatesError
    <3>1. agg' \in AggPasses
      BY <2>8 DEF listAggregatesError, AggStep, Disturb, Typed, AggPasses, Reasons
    <3> QED
      BY ConstantsAssumption, <2>8, <3>1 DEF listAggregatesError, AggStep, Disturb,
          Typed
  <2>9. CASE \E a \in Aggregates : addHostError(a)
    <3>1. agg' \in AggPasses
      BY <2>9 DEF addHostError, AggStep, Disturb, Typed, AggPasses, Reasons
    <3> QED
      BY ConstantsAssumption, <2>9, <3>1 DEF addHostError, AggStep, Disturb, Typed
  <2>10. CASE \E a \in Aggregates : removeHostError(a)
    <3>1. agg' \in AggPasses
      BY <2>10 DEF removeHostError, AggStep, Disturb, Typed, AggPasses, Reasons
    <3> QED
      BY ConstantsAssumption, <2>10, <3>1 DEF removeHostError, AggStep, Disturb, Typed
  <2>11. CASE aggPatchError
    <3>1. queue' \in Queues
      BY <2>11 DEF aggPatchError, AggStep, Disturb, IdleAgg, Typed, Queues
    <3>2. agg' \in AggPasses
      BY <2>11 DEF aggPatchError, AggStep, Disturb, IdleAgg, Typed, AggPasses, Reasons
    <3> QED
      BY ConstantsAssumption, <2>11, <3>1, <3>2 DEF aggPatchError, AggStep, Disturb,
          Typed
  <2> QED
    BY <1>2, <2>1, <2>2, <2>3, <2>4, <2>5, <2>6, <2>7, <2>8, <2>9, <2>10, <2>11 DEF AggMoves
<1>3. ASSUME TrMoves PROVE Typed'
  <2>1. CASE \E h \in {hv, prev} : trReconcile(h)
    <3>1. PICK h \in {hv, prev} : trReconcile(h)
      BY <2>1
    <3>2. h.customTraits \in SUBSET Traits /\ h.traits \in SUBSET Traits /\ queue \in Queues
      BY DEF Typed, Hypervisor
    <3>3. \A pc \in {"put", "apply"}, w, t \in SUBSET Traits :
              [pc |-> pc, want |-> w, out |-> t, ok |-> TRUE] \in TrPasses
      BY DEF TrPasses
    <3>4. tr' \in TrPasses
      BY <3>1, <3>2, <3>3, IdleTyped, Zenon DEF trReconcile
    <3>5. queue' \in Queues
      BY <3>1, <3>2, QueueTyped DEF trReconcile
    <3> QED
      BY ConstantsAssumption, <3>1, <3>4, <3>5 DEF trReconcile, TrStep, Snapshot, Disturb, Typed
  <2>2. CASE UpdateTraits
    <3>1. nova \in Nova /\ tr.want \in SUBSET Traits
      BY DEF Typed, TrPasses
    <3>2. nova' \in Nova
      BY <2>2, <3>1, NovaTyped DEF UpdateTraits
    <3>3. tr' \in TrPasses
      BY <2>2 DEF UpdateTraits, Typed, TrPasses
    <3> QED
      BY <2>2, <3>2, <3>3 DEF UpdateTraits, TrStep, Typed
  <2>3. CASE applyTraitsStatus
    <3> DEFINE u == IF tr.ok THEN "True" ELSE "False"
               q == [queue EXCEPT !.tr = queue.tr \/ ~ tr.ok]
    <3>1. tr.out \in SUBSET Traits /\ u \in {"None", "False", "True"} /\ hv \in Hypervisor
      BY DEF Typed, TrPasses
    <3>2. hv' = [hv EXCEPT !.traits = tr.out, !.traitsUpdated = u] /\ queue' = Event(hv', q)
      BY <2>3 DEF applyTraitsStatus
    <3>3. hv' \in Hypervisor
      <4> HIDE DEF u
      <4> QED
        BY <3>1, <3>2, HvTyped
    <3>4. q \in Queues
      BY QueueTyped DEF Typed
    <3>5. tr' \in TrPasses /\ queue' \in Queues
      BY <2>3, <3>2, <3>3, <3>4, IdleTyped, EventTyped DEF applyTraitsStatus
    <3> QED
      BY <2>3, <3>3, <3>5 DEF applyTraitsStatus, TrStep, Typed
  <2>4. CASE UpdateTraitsError
    <3>1. tr' \in TrPasses
      BY <2>4 DEF UpdateTraitsError, TrStep, Disturb, Typed, TrPasses
    <3> QED
      BY ConstantsAssumption, <2>4, <3>1 DEF UpdateTraitsError, TrStep, Disturb, Typed
  <2>5. CASE applyTraitsStatusError
    <3>1. queue' \in Queues
      BY <2>5 DEF applyTraitsStatusError, TrStep, Disturb, IdleTr, Typed, Queues
    <3>2. tr' \in TrPasses
      BY <2>5 DEF applyTraitsStatusError, TrStep, Disturb, IdleTr, Typed, TrPasses
    <3> QED
      BY ConstantsAssumption, <2>5, <3>1, <3>2 DEF applyTraitsStatusError, TrStep,
          Disturb, Typed
  <2> QED
    BY <1>3, <2>1, <2>2, <2>3, <2>4, <2>5 DEF TrMoves
<1>4. ASSUME Environment PROVE Typed'
  <2>1. CASE haEnabled
    <3>1. hv' \in Hypervisor
      BY <2>1 DEF haEnabled, Event, HvBecomes, Passes, Outside, Typed, Hypervisor
    <3>2. queue' \in Queues
      BY <2>1 DEF haEnabled, Event, HvBecomes, Passes, Outside, Typed, Queues
    <3> QED
      BY ConstantsAssumption, <2>1, <3>1, <3>2 DEF haEnabled, HvBecomes, Passes,
          Outside, Typed
  <2>2. CASE terminate
    <3>1. hv' \in Hypervisor
      BY <2>2 DEF terminate, Disturb, Event, HvBecomes, Passes, Outside, Typed,
          Hypervisor
    <3>2. queue' \in Queues
      BY <2>2 DEF terminate, Disturb, Event, HvBecomes, Passes, Outside, Typed, Queues
    <3> QED
      BY ConstantsAssumption, <2>2, <3>1, <3>2 DEF terminate, Disturb, HvBecomes,
          Passes, Outside, Typed
  <2>3. CASE evicted
    <3>1. hv' \in Hypervisor
      BY <2>3 DEF evicted, Event, HvBecomes, Passes, Typed, Hypervisor
    <3>2. nova' \in Nova
      BY <2>3 DEF evicted, Event, HvBecomes, Passes, Typed, Nova
    <3>3. queue' \in Queues
      BY <2>3 DEF evicted, Event, HvBecomes, Passes, Typed, Queues
    <3> QED
      BY ConstantsAssumption, <2>3, <3>1, <3>2, <3>3 DEF evicted, HvBecomes, Passes,
          Typed
  <2>4. CASE lifecycleOff
    <3>1. hv' \in Hypervisor
      BY <2>4 DEF lifecycleOff, Disturb, Event, HvBecomes, Passes, Outside, Typed,
          Hypervisor
    <3>2. queue' \in Queues
      BY <2>4 DEF lifecycleOff, Disturb, Event, HvBecomes, Passes, Outside, Typed,
          Queues
    <3> QED
      BY ConstantsAssumption, <2>4, <3>1, <3>2 DEF lifecycleOff, Disturb, HvBecomes,
          Passes, Outside, Typed
  <2>5. CASE changeSpec
    <3>1. \/ \E s \in Specs : Outside([hv EXCEPT !.specAggregates = s])
          \/ \E t \in SUBSET Traits : Outside([hv EXCEPT !.customTraits = t])
      BY <2>5 DEF changeSpec
    <3>2. hv' \in Hypervisor
      BY <3>1 DEF Outside, HvBecomes, Typed, Hypervisor
    <3>3. queue' \in Queues /\ UNCHANGED <<nova, on, agg, tr>>
      BY <3>1, <3>2, EventTyped DEF Outside, HvBecomes, Passes, Typed
    <3>4. faults' \in 0..MaxFaults
      BY ConstantsAssumption, <2>5 DEF changeSpec, Disturb, Typed
    <3> QED
      BY <3>2, <3>3, <3>4 DEF Typed
  <2>6. CASE agentRegisters
    <3>1. nova' \in Nova
      BY <2>6 DEF agentRegisters, Passes, NovaBecomes, Typed, Nova
    <3> QED
      BY ConstantsAssumption, <2>6, <3>1 DEF agentRegisters, Passes, NovaBecomes,
          Typed
  <2>7. CASE serverBoots
    <3> DEFINE s == IF nova.server = "BUILD" THEN "ACTIVE" ELSE "BOOTED"
    <3>1. nova \in Nova /\ s \in Servers /\ nova.volumes \ {"mine"} \in SUBSET Instances
      BY DEF Typed, Nova, Servers
    <3>2. nova' = [nova EXCEPT !.server = s, !.volumes = nova.volumes \ {"mine"}]
      BY <2>7 DEF serverBoots, NovaBecomes
    <3>3. nova' \in Nova
      <4> HIDE DEF s
      <4> QED
        BY <3>1, <3>2, NovaTyped
    <3> QED
      BY <2>7, <3>3 DEF serverBoots, NovaBecomes, Passes, Typed
  <2>8. CASE serverFails
    <3>1. nova \in Nova /\ "ERROR" \in Servers
      BY DEF Typed, Servers
    <3>2. nova' \in Nova
      BY <2>8, <3>1, NovaTyped DEF serverFails, NovaBecomes
    <3> QED
      BY ConstantsAssumption, <2>8, <3>2 DEF serverFails, NovaBecomes, Passes, Disturb, Typed
  <2>9. CASE strayServer
    <3>1. nova' \in Nova
      BY <2>9 DEF strayServer, Disturb, Passes, NovaBecomes, Typed, Nova
    <3> QED
      BY ConstantsAssumption, <2>9, <3>1 DEF strayServer, Disturb, Passes,
          NovaBecomes, Typed
  <2>10. CASE neighbourBuilds
    <3>1. nova \in Nova /\ nova.volumes \cup {"other"} \in SUBSET Instances
      BY DEF Typed, Nova, Instances
    <3>2. nova' \in Nova
      BY <2>10, <3>1, NovaTyped DEF neighbourBuilds, NovaBecomes
    <3> QED
      BY ConstantsAssumption, <2>10, <3>2 DEF neighbourBuilds, NovaBecomes, Passes, Disturb, Typed
  <2>11. CASE neighbourBoots
    <3>1. nova' \in Nova
      BY <2>11 DEF neighbourBoots, Passes, NovaBecomes, Typed, Nova
    <3> QED
      BY ConstantsAssumption, <2>11, <3>1 DEF neighbourBoots, Passes, NovaBecomes,
          Typed
  <2> QED
    BY <1>4, <2>1, <2>2, <2>3, <2>4, <2>5, <2>6, <2>7, <2>8, <2>9, <2>10, <2>11 DEF Environment
<1>5. CASE Crash
  <2>1. hv.lifecycle \in BOOLEAN /\ queue \in Queues
    BY DEF Typed, Hypervisor
  <2>2. queue' \in Queues
    BY <1>5, <2>1, QueueTyped DEF Crash
  <2> QED
    BY <1>5, <2>2, IdleTyped, ConstantsAssumption DEF Crash, Disturb, Typed
<1> QED
  BY <1>1, <1>2, <1>3, <1>4, <1>5, Whose

\* The types are kept, those of the version that may be read late included.
LEMMA TypeStep == TypeOK /\ [Next]_vars => TypeOK'
<1> SUFFICES ASSUME TypeOK, [Next]_vars PROVE TypeOK'
  OBVIOUS
<1>1. Typed /\ prev \in Hypervisor /\ hv \in Hypervisor
  BY TypeParts DEF Typed
<1>2. CASE UNCHANGED vars
  BY <1>2 DEF vars, TypeOK
<1>3. CASE Next
  <2>1. Typed'
    BY <1>1, <1>3, TypedStep
  <2>2. prev' \in Hypervisor
    BY <1>1, <1>3, Whose
  <2>3. TypeOK' <=> Typed' /\ prev' \in Hypervisor
    BY DEF TypeOK, Typed, Queues, OnPasses, AggPasses, TrPasses
  <2> QED
    BY <2>1, <2>2, <2>3
<1> QED
  BY <1>2, <1>3

\* The resources, the queues, the passes and the faults always have their
\* types.
THEOREM TypesHold == Spec => []TypeOK
<1>1. Init => TypeOK
  <2> SUFFICES ASSUME Init PROVE TypeOK
    OBVIOUS
  <2>1. hv \in Hypervisor
    BY DEF Init, Hypervisor, Phases, Reasons
  <2>2. nova \in Nova
    BY DEF Init, Nova, Servers
  <2>3. queue \in Queues
    BY DEF Init, Queues
  <2>4. faults \in 0..MaxFaults
    BY ConstantsAssumption DEF Init
  <2>5. Typed
    BY <2>1, <2>2, <2>3, <2>4, IdleTyped, Zenon DEF Init, Typed
  <2>6. prev \in Hypervisor
    BY <2>1 DEF Init
  <2> QED
    BY <2>5, <2>6, TypeParts
<1> QED
  BY <1>1, TypeStep, PTL DEF Spec

-----------------------------------------------------------------------------
(* What each of them leaves alone.                                         *)

\* The onboarding controller writes the phase and the ids, in Nova the test
\* server, its volumes and the state of the service.
OnLeaves ==
    /\ UNCHANGED <<agg, tr>>
    /\ nova'.aggregates = nova.aggregates /\ nova'.traits = nova.traits
    /\ nova'.neighbour = nova.neighbour
    /\ hv'.lifecycle = hv.lifecycle /\ hv'.terminating = hv.terminating
    /\ hv'.specAggregates = hv.specAggregates /\ hv'.customTraits = hv.customTraits
    /\ hv'.aggregates = hv.aggregates /\ hv'.aggregatesUpdated = hv.aggregatesUpdated
    /\ hv'.traits = hv.traits /\ hv'.traitsUpdated = hv.traitsUpdated
    /\ hv'.evicted = hv.evicted

\* The aggregates controller writes the aggregates and reports on them.
AggLeaves ==
    /\ UNCHANGED <<on, tr>>
    /\ nova'.traits = nova.traits /\ nova'.neighbour = nova.neighbour
    /\ nova'.enabled = nova.enabled /\ nova'.server = nova.server
    /\ nova'.stray = nova.stray /\ nova'.volumes = nova.volumes
    /\ hv'.lifecycle = hv.lifecycle /\ hv'.terminating = hv.terminating
    /\ hv'.specAggregates = hv.specAggregates /\ hv'.customTraits = hv.customTraits
    /\ hv'.ids = hv.ids /\ hv'.onboarding = hv.onboarding
    /\ hv'.traits = hv.traits /\ hv'.traitsUpdated = hv.traitsUpdated
    /\ hv'.evicted = hv.evicted

\* The traits controller writes the traits and reports on them.
TrLeaves ==
    /\ UNCHANGED <<on, agg>>
    /\ nova'.aggregates = nova.aggregates /\ nova'.neighbour = nova.neighbour
    /\ nova'.enabled = nova.enabled /\ nova'.server = nova.server
    /\ nova'.stray = nova.stray /\ nova'.volumes = nova.volumes
    /\ hv'.lifecycle = hv.lifecycle /\ hv'.terminating = hv.terminating
    /\ hv'.specAggregates = hv.specAggregates /\ hv'.customTraits = hv.customTraits
    /\ hv'.ids = hv.ids /\ hv'.onboarding = hv.onboarding
    /\ hv'.aggregates = hv.aggregates /\ hv'.aggregatesUpdated = hv.aggregatesUpdated
    /\ hv'.evicted = hv.evicted

\* The rest of the world reports nothing, and takes nothing back.
WorldLeaves ==
    /\ UNCHANGED <<on, agg, tr>>
    /\ nova'.aggregates = nova.aggregates /\ nova'.traits = nova.traits
    /\ nova'.enabled => nova.enabled
    /\ nova.server = "none" => nova'.server = "none"
    /\ nova'.stray => nova.stray \/ (hv.onboarding = "None" /\ hv' = hv)
    /\ hv'.lifecycle => hv.lifecycle
    /\ hv.terminating => hv'.terminating
    /\ "change_traits" \notin Faults => hv'.customTraits = hv.customTraits
    /\ hv'.ids = hv.ids /\ hv'.onboarding = hv.onboarding
    /\ hv'.aggregates = hv.aggregates /\ hv'.aggregatesUpdated = hv.aggregatesUpdated
    /\ hv'.traits = hv.traits /\ hv'.traitsUpdated = hv.traitsUpdated
    /\ hv.evicted => hv'.evicted
    /\ hv'.evicted /\ ~ hv.evicted => hv.terminating /\ hv.onboarding \in Over \cup {"None"}

\* The onboarding controller leaves the rest alone.
LEMMA OnFrame == ASSUME TypeOK, OnMoves PROVE OnLeaves
<1> USE DEF OnLeaves, TypeOK, Hypervisor, Nova
<1>1. CASE \E h \in {hv, prev} : onReconcile(h)
  BY <1>1 DEF onReconcile, OnStep
<1>2. CASE lookupNovaProperties
  BY <1>2 DEF lookupNovaProperties, OnStep
<1>3. CASE initialOnboarding
  BY <1>3 DEF initialOnboarding, OnStep
<1>4. CASE createOrGetTestServer \/ deleteOutdatedError
  BY <1>4 DEF createOrGetTestServer, deleteOutdatedError, GetTestServer, Disturb, OnStep
<1>5. CASE deleteOrphanedTestVolumes
  BY <1>5 DEF deleteOrphanedTestVolumes, OnStep
<1>6. CASE createTestServer
  BY <1>6 DEF createTestServer, OnStep
<1>7. CASE smokeTest
  BY <1>7 DEF smokeTest, OnStep, setTestingCondition, Deleted
<1>8. CASE deleteTestServers
  BY <1>8 DEF deleteTestServers, OnStep, Deleted
<1>9. CASE onApply
  BY <1>9 DEF onApply, OnStep, HvBecomes
<1>10. CASE smokeTestError
  BY <1>10 DEF smokeTestError, OnStep
<1>11. CASE smokeTestTimeout
  BY <1>11 DEF smokeTestTimeout, OnStep, setTestingCondition, Deleted
<1>12. CASE deleteOrphanedTestVolumesError
  BY <1>12 DEF deleteOrphanedTestVolumesError, OnStep
<1>13. CASE deleteTestServersError
  <2>1. PICK n \in {nova, Deleted(nova, TRUE), Deleted(nova, FALSE)}, t \in {nova.stray, FALSE} :
            nova' = [n EXCEPT !.stray = t]
    BY <1>13 DEF deleteTestServersError
  <2>2. /\ n \in Nova /\ n.aggregates = nova.aggregates /\ n.traits = nova.traits
        /\ n.neighbour = nova.neighbour
    <3>1. nova \in Nova
      OBVIOUS
    <3> HIDE DEF TypeOK, Nova, Hypervisor
    <3>2. n = nova \/ \E leak : n = Deleted(nova, leak)
      BY Zenon
    <3>3. CASE n = nova
      BY <3>1, <3>3
    <3>4. ASSUME NEW leak, n = Deleted(nova, leak)
          PROVE  /\ n \in Nova /\ n.aggregates = nova.aggregates /\ n.traits = nova.traits
                 /\ n.neighbour = nova.neighbour
      BY <3>1, <3>4, DeletedTyped, DeletedKeeps
    <3> QED
      BY <3>2, <3>3, <3>4
  <2>3. UNCHANGED <<hv, agg, tr>>
    BY <1>13 DEF deleteTestServersError, OnStep
  <2> QED
    BY <2>1, <2>2, <2>3
<1>14. CASE onError
  BY <1>14 DEF onError, OnStep
<1> QED
  BY <1>1, <1>2, <1>3, <1>4, <1>5, <1>6, <1>7, <1>8, <1>9, <1>10, <1>11, <1>12, <1>13,
      <1>14 DEF OnMoves

\* So does the aggregates controller,
LEMMA AggFrame == ASSUME TypeOK, AggMoves PROVE AggLeaves
<1> USE DEF AggLeaves, TypeOK, Hypervisor, Nova
<1>1. CASE \E h \in {hv, prev} : aggReconcile(h)
  BY <1>1 DEF aggReconcile, AggStep
<1>2. CASE listAggregates
  BY <1>2 DEF listAggregates, AggStep
<1>3. CASE \E a \in Aggregates : addHost(a)
  BY <1>3 DEF addHost, AggStep
<1>4. CASE added
  BY <1>4 DEF added, AggStep
<1>5. CASE \E a \in Aggregates : removeHost(a)
  BY <1>5 DEF removeHost, AggStep
<1>6. CASE removed
  BY <1>6 DEF removed, AggStep
<1>7. CASE aggPatch
  BY <1>7 DEF aggPatch, AggStep
<1>8. CASE listAggregatesError
  BY <1>8 DEF listAggregatesError, AggStep
<1>9. CASE \E a \in Aggregates : addHostError(a)
  BY <1>9 DEF addHostError, AggStep
<1>10. CASE \E a \in Aggregates : removeHostError(a)
  BY <1>10 DEF removeHostError, AggStep
<1>11. CASE aggPatchError
  BY <1>11 DEF aggPatchError, AggStep
<1> QED
  BY <1>1, <1>2, <1>3, <1>4, <1>5, <1>6, <1>7, <1>8, <1>9, <1>10, <1>11 DEF AggMoves

\* the traits controller,
LEMMA TrFrame == ASSUME TypeOK, TrMoves PROVE TrLeaves
<1> USE DEF TrLeaves, TypeOK, Hypervisor, Nova
<1>1. CASE \E h \in {hv, prev} : trReconcile(h)
  BY <1>1 DEF trReconcile, TrStep
<1>2. CASE UpdateTraits
  BY <1>2 DEF UpdateTraits, TrStep
<1>3. CASE applyTraitsStatus
  BY <1>3 DEF applyTraitsStatus, TrStep
<1>4. CASE UpdateTraitsError
  BY <1>4 DEF UpdateTraitsError, TrStep
<1>5. CASE applyTraitsStatusError
  BY <1>5 DEF applyTraitsStatusError, TrStep
<1> QED
  BY <1>1, <1>2, <1>3, <1>4, <1>5 DEF TrMoves

\* and the rest of the world.
LEMMA WorldFrame == ASSUME TypeOK, Environment PROVE WorldLeaves
<1> USE DEF WorldLeaves, TypeOK, Hypervisor, Nova
<1>1. CASE haEnabled
  BY <1>1 DEF haEnabled, HvBecomes, Passes, Outside
<1>2. CASE terminate
  BY <1>2 DEF terminate, HvBecomes, Passes, Outside
<1>3. CASE evicted
  BY <1>3 DEF evicted, HvBecomes, Passes
<1>4. CASE lifecycleOff
  BY <1>4 DEF lifecycleOff, HvBecomes, Passes, Outside
<1>5. CASE changeSpec
  <2>1. \/ \E x \in Specs : hv' = [hv EXCEPT !.specAggregates = x]
        \/ "change_traits" \in Faults /\ \E t \in SUBSET Traits : hv' = [hv EXCEPT !.customTraits = t]
    BY <1>5 DEF changeSpec, Disturb, HvBecomes, Outside
  <2>2. UNCHANGED <<nova, on, agg, tr>>
    BY <1>5 DEF changeSpec, Passes, Outside
  <2> QED
    BY <2>1, <2>2
<1>6. CASE agentRegisters
  BY <1>6 DEF agentRegisters, Passes, NovaBecomes
<1>7. CASE serverBoots
  BY <1>7 DEF serverBoots, Passes, NovaBecomes
<1>8. CASE serverFails
  BY <1>8 DEF serverFails, Passes, NovaBecomes
<1>9. CASE strayServer
  BY <1>9 DEF strayServer, Passes, NovaBecomes
<1>10. CASE neighbourBuilds
  BY <1>10 DEF neighbourBuilds, Passes, NovaBecomes
<1>11. CASE neighbourBoots
  BY <1>11 DEF neighbourBoots, Passes, NovaBecomes
<1> QED
  BY <1>1, <1>2, <1>3, <1>4, <1>5, <1>6, <1>7, <1>8, <1>9, <1>10, <1>11 DEF Environment

-----------------------------------------------------------------------------
(* The ids, and what a pass of the onboarding controller is about.         *)

\* How a step of a pass ends.
LEMMA MovesAre ==
    /\ Retry => on'.pc = "idle"
    /\ \A pc, out : /\ Go(pc, out) => on'.pc = pc /\ on'.out = out
                    /\ \A h : Take(h, pc, out) => on'.pc = pc /\ on'.out = out
<1>1. Retry => on'.pc = "idle"
  BY DEF Retry, IdleOn
<1>2. ASSUME NEW pc, NEW out, NEW h
      PROVE  /\ Go(pc, out) => on'.pc = pc /\ on'.out = out
             /\ Take(h, pc, out) => on'.pc = pc /\ on'.out = out
  BY DEF Go, Take, IdleOn
<1> QED
  BY <1>1, <1>2

\* What a pass over h decides to do.
Reads(h) ==
    /\ h = hv \/ "stale_read" \in Faults
    /\ \/ on'.pc = "idle"
       \/ /\ h.onboarding \notin {"None", "Succeeded"} /\ (~ h.lifecycle \/ h.terminating)
          /\ on'.pc = "cleanup" /\ on'.out \in {"AbortedByLifecycle", "AbortedByTermination"}
       \/ ~ h.ids /\ ~ h.terminating /\ on'.pc = "lookup" /\ on'.out = "Initial"
       \/ /\ h.ids /\ ~ h.terminating
          /\ \/ h.onboarding = "None" /\ on'.pc = "apply" /\ on'.out = "Initial"
             \/ /\ h.onboarding = "Initial" /\ h.aggregates = TestAggregates
                /\ on'.pc = "enable" /\ on'.out = "Testing"
             \/ /\ h.onboarding = "Testing" /\ on'.out = "Handover"
                /\ on'.pc = IF SkipTests THEN "cleanup" ELSE "smoke"
             \/ /\ h.onboarding = "Handover" /\ h.aggregatesUpdated = "Succeeded"
                /\ h.traitsUpdated = "True" /\ on'.pc = "apply" /\ on'.out = "Succeeded"

\* The first step of a pass does what Reads says.
LEMMA ReadIs ==
    ASSUME NEW h, onReconcile(h)
    PROVE  UNCHANGED <<hv, nova>> /\ Reads(h)
<1>1. UNCHANGED <<hv, nova>> /\ (h = hv \/ "stale_read" \in Faults)
  BY DEF onReconcile, Snapshot, Disturb
<1>2. CASE /\ ~ h.lifecycle \/ h.terminating
           /\ \E m \in {"AbortedByLifecycle", "AbortedByTermination"} : abortOnboarding(h, m)
  BY <1>1, <1>2, MovesAre DEF abortOnboarding, Reads
<1>3. CASE ~ h.terminating /\ ~ h.ids /\ Take(h, "lookup", "Initial")
  BY <1>1, <1>3, MovesAre DEF Reads
<1>4. CASE ~ h.terminating /\ h.ids /\ onboard(h)
  <2>1. CASE h.onboarding = "Handover"
    BY <1>1, <1>4, <2>1, MovesAre DEF onboard, handover, Reads
  <2>2. CASE h.onboarding # "Handover"
    BY <1>1, <1>4, <2>2, MovesAre DEF onboard, Reads
  <2> QED
    BY <2>1, <2>2
<1> QED
  BY <1>2, <1>3, <1>4 DEF onReconcile

\* The onboarding controller keeps IdInv.
LEMMA IdOn ==
    ASSUME TypeOK, IdInv, OnMoves, prev' \in {hv, prev}
    PROVE  IdInv'
<1> USE DEF TypeOK, Hypervisor
<1>1. CASE \E h \in {hv, prev} : onReconcile(h)
  <2>1. PICK h \in {hv, prev} : onReconcile(h)
    BY <1>1
  <2>2. UNCHANGED <<hv, nova>> /\ Reads(h)
    BY <2>1, ReadIs
  <2> QED
    BY <2>2 DEF Reads, IdInv
<1>2. CASE lookupNovaProperties
  BY <1>2, MovesAre DEF lookupNovaProperties, Apply, IdInv
<1>3. CASE initialOnboarding
  BY <1>3 DEF initialOnboarding, Go, Apply, IdleOn, IdInv
<1>4. CASE createOrGetTestServer \/ deleteOutdatedError
  <2>1. UNCHANGED hv /\ on.pc = "smoke"
    BY <1>4 DEF createOrGetTestServer, deleteOutdatedError, GetTestServer, Disturb
  <2>2. on'.pc = "idle" \/ (on'.pc \in {"sweep", "look"} /\ on'.out = on.out)
    BY <1>4, MovesAre DEF createOrGetTestServer, deleteOutdatedError, GetTestServer, Disturb
  <2> QED
    BY <2>1, <2>2 DEF IdInv
<1>5. CASE deleteOrphanedTestVolumes
  BY <1>5, MovesAre DEF deleteOrphanedTestVolumes, Swept, IdInv
<1>6. CASE createTestServer
  BY <1>6 DEF createTestServer, Retry, IdleOn, IdInv
<1>7. CASE smokeTest
  <2>1. on.pc = "look" /\ (hv' = hv \/ hv' = [hv EXCEPT !.onboarding = "Testing"])
    BY <1>7 DEF smokeTest, setTestingCondition
  <2>2. \/ on'.pc = "idle" \/ (on'.pc = "cleanup" /\ on'.out = on.out)
        \/ on'.pc = "sweep" /\ on'.out = "Testing"
    <3>1. \/ Retry \/ Go("cleanup", on.out)
          \/ \E known : on' = [pc |-> "sweep", out |-> "Testing", known |-> known]
      BY <1>7, Zenon DEF smokeTest
    <3> QED
      BY <3>1, MovesAre
  <2>3. hv.ids
    BY <2>1 DEF IdInv
  <2>4. hv'.ids /\ hv'.onboarding # "None"
    BY <2>1, <2>3 DEF IdInv
  <2> QED
    BY <2>1, <2>2, <2>3, <2>4 DEF IdInv
<1>8. CASE deleteTestServers
  BY <1>8 DEF deleteTestServers, Go, Apply, Deleted, IdleOn, IdInv
<1>9. CASE onApply
  <2>1. /\ on.pc = "apply" /\ on'.pc = "idle" /\ hv'.onboarding = on.out
        /\ hv'.ids <=> hv.ids \/ on.out = "Initial"
    BY <1>9 DEF onApply, HvBecomes, IdleOn
  <2> QED
    BY <2>1 DEF IdInv
<1>10. CASE smokeTestError
  BY <1>10 DEF smokeTestError, Retry, IdleOn, IdInv
<1>11. CASE smokeTestTimeout
  BY <1>11 DEF smokeTestTimeout, setTestingCondition, Deleted, IdleOn, IdInv
<1>12. CASE deleteOrphanedTestVolumesError
  BY <1>12, MovesAre DEF deleteOrphanedTestVolumesError, Swept, IdInv
<1>13. CASE deleteTestServersError
  <2>1. UNCHANGED hv /\ on.pc = "cleanup" /\ on'.pc = "apply" /\ on'.out = Stuck
    BY <1>13 DEF deleteTestServersError, IdleOn
  <2> QED
    BY <2>1 DEF IdInv, Stuck
<1>14. CASE onError
  BY <1>14 DEF onError, Retry, IdleOn, IdInv
<1> QED
  BY <1>1, <1>2, <1>3, <1>4, <1>5, <1>6, <1>7, <1>8, <1>9, <1>10, <1>11, <1>12, <1>13,
      <1>14 DEF OnMoves

\* So does everyone.
LEMMA IdStep == TypeOK /\ IdInv /\ [Next]_vars => IdInv'
<1> SUFFICES ASSUME TypeOK, IdInv, [Next]_vars PROVE IdInv'
  OBVIOUS
<1>1. CASE UNCHANGED vars
  BY <1>1 DEF vars, IdInv
<1>2. CASE Next
  <2>1. prev' \in {hv, prev}
    BY <1>2, Whose
  <2>2. CASE OnMoves
    BY <2>1, <2>2, IdOn
  <2>3. CASE AggMoves
    BY <2>1, <2>3, AggFrame DEF IdInv, AggLeaves
  <2>4. CASE TrMoves
    BY <2>1, <2>4, TrFrame DEF IdInv, TrLeaves
  <2>5. CASE Crash
    BY <2>1, <2>5 DEF IdInv, Crash, IdleOn
  <2>6. CASE Environment
    BY <2>1, <2>6, WorldFrame DEF IdInv, WorldLeaves
  <2> QED
    BY <1>2, <2>2, <2>3, <2>4, <2>5, <2>6, Whose
<1> QED
  BY <1>1, <1>2

\* Base facts of every state: the types, and what a pass is about.
LEMMA BaseHolds == Spec => [](TypeOK /\ IdInv)
<1>1. Init => IdInv
  <2> SUFFICES ASSUME Init PROVE IdInv
    OBVIOUS
  <2>1. ~ hv.ids /\ hv.onboarding = "None" /\ prev = hv /\ on.pc = "idle"
    BY DEF Init, IdleOn
  <2> QED
    BY <2>1 DEF IdInv
<1> QED
  BY <1>1, IdStep, TypesHold, PTL DEF Spec

-----------------------------------------------------------------------------
(* Nothing of the test is left behind.                                    *)

\* A pass never tests a host on a version that is out of date: versions are
\* read late nowhere, or there are no tests.
TestsAreCurrent == "stale_read" \notin Faults \/ SkipTests

\* The onboarding controller keeps ServerInv.
LEMMA ServerOn ==
    ASSUME TestsAreCurrent, TypeOK, IdInv, ServerInv, OnMoves,
           prev' = IF "stale_read" \in Faults /\ hv' # hv THEN hv ELSE prev
    PROVE  ServerInv'
<1> USE DEF TestsAreCurrent, TypeOK, Hypervisor, ServerInv, Clean, Closed, Over
<1>1. CASE \E h \in {hv, prev} : onReconcile(h)
  <2>1. PICK h \in {hv, prev} : onReconcile(h)
    BY <1>1
  <2>2. UNCHANGED <<hv, nova>> /\ Reads(h)
    BY <2>1, ReadIs
  <2>3. CASE h = hv
    BY <2>2, <2>3 DEF Reads
  <2>4. CASE h = prev /\ SkipTests
    BY <2>2, <2>4 DEF Reads
  <2> QED
    BY <2>2, <2>3, <2>4 DEF Reads
<1>2. CASE lookupNovaProperties
  BY <1>2, MovesAre DEF lookupNovaProperties, Apply
<1>3. CASE initialOnboarding
  <2>1. UNCHANGED hv /\ nova'.server = nova.server /\ nova'.stray = nova.stray
    BY <1>3 DEF initialOnboarding, Nova
  <2>2. on'.pc = "apply" /\ on'.out = "Testing"
    BY <1>3, MovesAre DEF initialOnboarding, Apply
  <2> QED
    BY <2>1, <2>2
<1>4. CASE createOrGetTestServer \/ deleteOutdatedError
  <2>1. on.pc = "smoke" /\ UNCHANGED hv
    BY <1>4 DEF createOrGetTestServer, deleteOutdatedError, GetTestServer, Disturb
  <2>2. on'.pc \in {"idle", "sweep", "look"}
    BY <1>4, MovesAre DEF createOrGetTestServer, deleteOutdatedError, GetTestServer, Disturb
  <2>3. ~ SkipTests /\ hv.onboarding = "Testing" /\ prev.onboarding = "None" /\ prev' = prev
    BY <2>1
  <2> QED
    BY <2>1, <2>2, <2>3
<1>5. CASE deleteOrphanedTestVolumes
  <2>1. /\ UNCHANGED hv /\ nova'.server = nova.server /\ nova'.stray = nova.stray
        /\ on'.pc \in {"idle", "create"}
    BY <1>5, MovesAre DEF deleteOrphanedTestVolumes, Swept, Nova
  <2>2. ~ SkipTests /\ hv.onboarding = "Testing"
    BY <1>5 DEF deleteOrphanedTestVolumes
  <2> QED
    BY <2>1, <2>2
<1>6. CASE createTestServer
  <2>1. on.pc = "create" /\ UNCHANGED hv /\ on'.pc = "idle"
    BY <1>6, MovesAre DEF createTestServer
  <2>2. ~ SkipTests /\ hv.onboarding = "Testing" /\ prev.onboarding = "None" /\ prev' = prev
    BY <2>1
  <2> QED
    BY <2>1, <2>2
<1>7. CASE smokeTest
  <2>1. on.pc = "look" /\ (hv' = hv \/ hv' = [hv EXCEPT !.onboarding = "Testing"])
    BY <1>7 DEF smokeTest, setTestingCondition
  <2>2. ~ SkipTests /\ hv.onboarding = "Testing" /\ prev.onboarding = "None" /\ prev' = prev
    BY <2>1
  <2>3. hv'.onboarding = "Testing"
    BY <2>1, <2>2
  <2>4. on'.pc # "apply"
    <3>1. \/ Retry \/ Go("cleanup", on.out)
          \/ \E known : on' = [pc |-> "sweep", out |-> "Testing", known |-> known]
      BY <1>7, Zenon DEF smokeTest
    <3> QED
      BY <3>1, MovesAre
  <2> QED
    BY <2>2, <2>3, <2>4
<1>8. CASE deleteTestServers
  <2>1. PICK leak \in BOOLEAN : nova' = [Deleted(nova, leak) EXCEPT !.stray = FALSE]
    BY <1>8 DEF deleteTestServers
  <2>2. nova'.server = "none" /\ ~ nova'.stray
    <3>1. Deleted(nova, leak) \in Nova /\ Deleted(nova, leak).server = "none"
      BY DeletedTyped, DeletedKeeps
    <3> QED
      BY <2>1, <3>1 DEF Nova
  <2>3. UNCHANGED hv /\ on'.pc = "apply"
    BY <1>8, MovesAre DEF deleteTestServers, Apply
  <2> QED
    BY <2>2, <2>3
<1>9. CASE onApply
  <2>1. on.pc = "apply" /\ on'.pc = "idle" /\ hv'.onboarding = on.out /\ UNCHANGED nova
    BY <1>9 DEF onApply, HvBecomes, IdleOn
  <2> QED
    BY <2>1
<1>10. CASE smokeTestError
  BY <1>10, MovesAre DEF smokeTestError
<1>11. CASE smokeTestTimeout
  <2>1. on.pc = "look" /\ hv' = [hv EXCEPT !.onboarding = "Testing"] /\ on'.pc = "idle"
    BY <1>11 DEF smokeTestTimeout, setTestingCondition, IdleOn
  <2>2. ~ SkipTests /\ hv.onboarding = "Testing" /\ prev.onboarding = "None" /\ prev' = prev
    BY <2>1
  <2>3. hv'.onboarding = "Testing"
    BY <2>1, <2>2
  <2> QED
    BY <2>1, <2>2, <2>3
<1>12. CASE deleteOrphanedTestVolumesError
  BY <1>12, MovesAre DEF deleteOrphanedTestVolumesError, Swept
<1>13. CASE deleteTestServersError
  <2>1. PICK n \in {nova, Deleted(nova, TRUE), Deleted(nova, FALSE)}, t \in {nova.stray, FALSE} :
            nova' = [n EXCEPT !.stray = t]
    BY <1>13 DEF deleteTestServersError
  <2>2. n \in Nova /\ n.server \in {nova.server, "none"}
    <3>1. n = nova \/ \E leak : n = Deleted(nova, leak)
      BY Zenon
    <3> QED
      BY <3>1, DeletedTyped, DeletedKeeps
  <2>3. nova'.server \in {nova.server, "none"} /\ (nova'.stray => nova.stray)
    BY <2>1, <2>2 DEF Nova
  <2>4. UNCHANGED hv /\ on'.pc = "apply" /\ on'.out = Stuck
    BY <1>13 DEF deleteTestServersError, IdleOn
  <2> QED
    BY <2>3, <2>4 DEF Stuck
<1>14. CASE onError
  BY <1>14, MovesAre DEF onError
<1> QED
  BY <1>1, <1>2, <1>3, <1>4, <1>5, <1>6, <1>7, <1>8, <1>9, <1>10, <1>11, <1>12, <1>13,
      <1>14 DEF OnMoves

\* So does everyone.
LEMMA ServerStep ==
    ASSUME TestsAreCurrent, TypeOK, IdInv, ServerInv, [Next]_vars
    PROVE  ServerInv'
<1>1. CASE UNCHANGED vars
  BY <1>1 DEF vars, ServerInv, Clean
<1>2. CASE Next
  <2>1. prev' = IF "stale_read" \in Faults /\ hv' # hv THEN hv ELSE prev
    BY <1>2, Whose
  <2>2. CASE OnMoves
    BY <2>1, <2>2, ServerOn
  <2>3. CASE AggMoves
    BY <2>1, <2>3, AggFrame DEF ServerInv, AggLeaves, Clean
  <2>4. CASE TrMoves
    BY <2>1, <2>4, TrFrame DEF ServerInv, TrLeaves, Clean
  <2>5. CASE Crash
    BY <2>1, <2>5 DEF ServerInv, Crash, IdleOn, Clean
  <2>6. CASE Environment
    <3>1. WorldLeaves
      BY <2>6, WorldFrame
    <3>2. ASSUME Clean, hv.onboarding # "None" PROVE Clean'
      BY <3>1, <3>2 DEF WorldLeaves, Clean
    <3>3. \A h \in {hv, prev} : h.onboarding \in Closed => Clean /\ hv.onboarding # "None"
      BY DEF ServerInv, IdInv, Closed, Over
    <3>4. \A h \in {hv', prev'} : h.onboarding \in Closed => Clean'
      BY <2>1, <3>1, <3>2, <3>3 DEF WorldLeaves
    <3>5. on'.pc = "apply" /\ on'.out \in Closed => Clean'
      <4>1. on.pc = "apply" /\ on.out \in Closed => hv.onboarding # "None"
        BY DEF IdInv, Closed, Over
      <4> QED
        BY <3>1, <3>2, <4>1 DEF ServerInv, WorldLeaves
    <3> QED
      BY <2>1, <3>1, <3>4, <3>5 DEF ServerInv, WorldLeaves
  <2> QED
    BY <1>2, <2>2, <2>3, <2>4, <2>5, <2>6, Whose
<1> QED
  BY <1>1, <1>2

\* An onboarding that is over, either way, leaves no test server behind.
THEOREM NoServerIsLeft ==
    ASSUME TestsAreCurrent
    PROVE  Spec => []NoServerLeftBehind
<1>1. Init => ServerInv
  <2> SUFFICES ASSUME Init PROVE ServerInv
    OBVIOUS
  <2>1. hv.onboarding = "None" /\ prev = hv /\ on.pc = "idle" /\ nova.server = "none"
    BY DEF Init, IdleOn
  <2> QED
    BY <2>1 DEF ServerInv, Closed, Over
<1>2. TypeOK /\ IdInv /\ ServerInv /\ [Next]_vars => ServerInv'
  BY ServerStep
<1>3. ServerInv => NoServerLeftBehind
  BY DEF ServerInv, NoServerLeftBehind, Clean, Closed
<1> QED
  BY <1>1, <1>2, <1>3, BaseHolds, PTL DEF Spec

-----------------------------------------------------------------------------
(* Volumes.                                                              *)

\* The onboarding controller keeps VolInv: it lists what runs before it
\* deletes what nobody runs on.
LEMMA VolOn == ASSUME TypeOK, VolInv, OnMoves PROVE VolInv'
<1> USE DEF TypeOK, Nova, VolInv, VolumesAreSafe
<1>1. CASE \E h \in {hv, prev} : onReconcile(h)
  <2>1. PICK h \in {hv, prev} : onReconcile(h)
    BY <1>1
  <2>2. UNCHANGED <<hv, nova>> /\ Reads(h)
    BY <2>1, ReadIs
  <2>3. on'.pc \notin {"sweep", "create"}
    BY <2>2 DEF Reads
  <2> QED
    BY <2>2, <2>3
<1>2. CASE lookupNovaProperties
  BY <1>2, MovesAre DEF lookupNovaProperties, Apply
<1>3. CASE initialOnboarding
  <2>1. nova'.server = nova.server /\ nova'.volumes = nova.volumes /\ nova'.neighbour = nova.neighbour
    BY <1>3 DEF initialOnboarding
  <2>2. on'.pc = "apply"
    BY <1>3, MovesAre DEF initialOnboarding, Apply
  <2> QED
    BY <2>1, <2>2
<1>4. CASE createOrGetTestServer \/ deleteOutdatedError
  <2>1. nova'.server = nova.server /\ nova'.volumes = nova.volumes /\ nova'.neighbour = nova.neighbour
    BY <1>4 DEF createOrGetTestServer, deleteOutdatedError, GetTestServer, Disturb
  <2>2. CASE nova.server = "none"
    <3>1. on'.pc = "sweep" /\ on'.known = Running(nova)
      BY <1>4, <2>2 DEF createOrGetTestServer, deleteOutdatedError, GetTestServer, Disturb
    <3>2. nova.neighbour = "BUILD" => "other" \in Running(nova)
      BY DEF Running
    <3> QED
      BY <2>1, <2>2, <3>1, <3>2
  <2>3. CASE nova.server # "none"
    <3>1. on'.pc \in {"idle", "look"}
      BY <1>4, <2>3, MovesAre DEF createOrGetTestServer, deleteOutdatedError, GetTestServer, Disturb
    <3> QED
      BY <2>1, <3>1
  <2> QED
    BY <2>2, <2>3
<1>5. CASE deleteOrphanedTestVolumes
  <2>1. /\ on.pc = "sweep" /\ nova'.server = nova.server /\ nova'.neighbour = nova.neighbour
        /\ nova'.volumes = nova.volumes \cap on.known
    BY <1>5 DEF deleteOrphanedTestVolumes
  <2>2. on'.pc \in {"idle", "create"}
    BY <1>5, MovesAre DEF deleteOrphanedTestVolumes, Swept
  <2> QED
    BY <2>1, <2>2
<1>6. CASE createTestServer
  <2>1. /\ nova'.server = "BUILD" /\ nova'.neighbour = nova.neighbour
        /\ nova'.volumes = nova.volumes \cup {"mine"}
    BY <1>6 DEF createTestServer
  <2>2. on'.pc = "idle"
    BY <1>6, MovesAre DEF createTestServer
  <2> QED
    BY <2>1, <2>2
<1>7. CASE smokeTest
  <2>1. CASE nova' = Deleted(nova, FALSE) /\ Go("cleanup", on.out)
    <3>1. PICK leak : nova' = Deleted(nova, leak)
      BY <2>1, Zenon
    <3>2. on'.pc = "cleanup"
      BY <2>1, MovesAre
    <3> QED
      BY <3>1, <3>2, DeletedKeeps
  <2>2. CASE Retry /\ UNCHANGED nova
    BY <2>2, MovesAre
  <2>3. CASE \E leak \in BOOLEAN, listed \in SUBSET {"gone"} :
                /\ nova' = Deleted(nova, leak)
                /\ on' = [pc |-> "sweep", out |-> "Testing", known |-> listed \cup Running(nova')]
    <3>1. PICK leak \in BOOLEAN, listed \in SUBSET {"gone"} :
                /\ nova' = Deleted(nova, leak)
                /\ on' = [pc |-> "sweep", out |-> "Testing", known |-> listed \cup Running(nova')]
      BY <2>3
    <3>2. nova'.neighbour = "BUILD" => "other" \in on'.known
      BY <3>1 DEF Running
    <3> QED
      BY <3>1, <3>2, DeletedKeeps
  <2> QED
    BY <1>7, <2>1, <2>2, <2>3 DEF smokeTest
<1>8. CASE deleteTestServers
  <2>1. PICK leak \in BOOLEAN : nova' = [Deleted(nova, leak) EXCEPT !.stray = FALSE]
    BY <1>8 DEF deleteTestServers
  <2>2. /\ nova'.server = "none" /\ nova'.neighbour = nova.neighbour
        /\ "other" \in nova.volumes => "other" \in nova'.volumes
    <3>1. Deleted(nova, leak) \in Nova
      BY DeletedTyped
    <3> QED
      BY <2>1, <3>1, DeletedKeeps
  <2>3. on'.pc = "apply"
    BY <1>8, MovesAre DEF deleteTestServers, Apply
  <2> QED
    BY <2>2, <2>3
<1>9. CASE onApply
  BY <1>9, MovesAre DEF onApply, IdleOn
<1>10. CASE smokeTestError
  BY <1>10, MovesAre DEF smokeTestError
<1>11. CASE smokeTestTimeout
  <2>1. PICK leak : nova' = Deleted(nova, leak)
    BY <1>11, Zenon DEF smokeTestTimeout
  <2>2. on'.pc = "idle"
    BY <1>11 DEF smokeTestTimeout, IdleOn
  <2> QED
    BY <2>1, <2>2, DeletedKeeps
<1>12. CASE deleteOrphanedTestVolumesError
  BY <1>12, MovesAre DEF deleteOrphanedTestVolumesError, Swept
<1>13. CASE deleteTestServersError
  <2>1. PICK n \in {nova, Deleted(nova, TRUE), Deleted(nova, FALSE)}, t \in {nova.stray, FALSE} :
            nova' = [n EXCEPT !.stray = t]
    BY <1>13 DEF deleteTestServersError
  <2>2. n = nova \/ \E leak : n = Deleted(nova, leak)
    BY Zenon
  <2>3. n \in Nova
    BY <2>2, DeletedTyped
  <2>4. nova'.server = n.server /\ nova'.neighbour = n.neighbour /\ nova'.volumes = n.volumes
    BY <2>1, <2>3
  <2>5. on'.pc = "apply"
    BY <1>13 DEF deleteTestServersError, IdleOn
  <2> QED
    BY <2>2, <2>4, <2>5, DeletedKeeps
<1>14. CASE onError
  BY <1>14, MovesAre DEF onError
<1> QED
  BY <1>1, <1>2, <1>3, <1>4, <1>5, <1>6, <1>7, <1>8, <1>9, <1>10, <1>11, <1>12, <1>13,
      <1>14 DEF OnMoves

\* So do Nova, and the tests of other hosts.
LEMMA VolWorld == ASSUME TypeOK, VolInv, Environment PROVE VolInv'
<1> USE DEF TypeOK, Nova, VolInv, VolumesAreSafe
<1>1. CASE haEnabled
  BY <1>1 DEF haEnabled, Passes, Outside
<1>2. CASE terminate
  BY <1>2 DEF terminate, Passes, Outside
<1>3. CASE evicted
  BY <1>3 DEF evicted, Passes
<1>4. CASE lifecycleOff
  BY <1>4 DEF lifecycleOff, Passes, Outside
<1>5. CASE changeSpec
  BY <1>5 DEF changeSpec, Passes, Outside
<1>6. CASE agentRegisters
  BY <1>6 DEF agentRegisters, Passes, NovaBecomes
<1>7. CASE serverBoots
  BY <1>7 DEF serverBoots, Passes, NovaBecomes
<1>8. CASE serverFails
  BY <1>8 DEF serverFails, Passes, NovaBecomes
<1>9. CASE strayServer
  BY <1>9 DEF strayServer, Passes, NovaBecomes
<1>10. CASE neighbourBuilds
  BY <1>10 DEF neighbourBuilds, Passes, NovaBecomes
<1>11. CASE neighbourBoots
  BY <1>11 DEF neighbourBoots, Passes, NovaBecomes
<1> QED
  BY <1>1, <1>2, <1>3, <1>4, <1>5, <1>6, <1>7, <1>8, <1>9, <1>10, <1>11 DEF Environment

\* So does everyone.
LEMMA VolStep == TypeOK /\ VolInv /\ [Next]_vars => VolInv'
<1> SUFFICES ASSUME TypeOK, VolInv, [Next]_vars PROVE VolInv'
  OBVIOUS
<1>1. CASE UNCHANGED vars
  BY <1>1 DEF vars, VolInv, VolumesAreSafe
<1>2. CASE OnMoves
  BY <1>2, VolOn
<1>3. CASE AggMoves
  BY <1>3, AggFrame DEF VolInv, VolumesAreSafe, AggLeaves
<1>4. CASE TrMoves
  BY <1>4, TrFrame DEF VolInv, VolumesAreSafe, TrLeaves
<1>5. CASE Crash
  BY <1>5 DEF VolInv, VolumesAreSafe, Crash, IdleOn
<1>6. CASE Environment
  BY <1>6, VolWorld
<1> QED
  BY <1>1, <1>2, <1>3, <1>4, <1>5, <1>6, Whose

\* No server that is being built, here or for another host, loses the volume
\* it boots from, whatever fails, is leaked or is read late.
THEOREM VolumesStaySafe == Spec => []VolumesAreSafe
<1>1. Init => VolInv
  BY DEF Init, VolInv, VolumesAreSafe, IdleOn
<1>2. VolInv => VolumesAreSafe
  BY DEF VolInv
<1> QED
  BY <1>1, <1>2, VolStep, TypesHold, PTL DEF Spec

-----------------------------------------------------------------------------
(* The host is never open.                                                *)

\* What the aggregates controller wants for h, and why.
Desires(h, want, reason) ==
    \/ h.terminating /\ h.evicted /\ want = {} /\ reason = "Terminating"
    \/ h.terminating /\ ~ h.evicted /\ want = h.aggregates /\ reason = "EvictionInProgress"
    \/ /\ ~ h.terminating /\ want = TestAggregates
       /\ \/ h.onboarding \in {"Initial", "Testing"} /\ reason = "TestAggregates"
          \/ h.onboarding = "Handover" /\ h.traitsUpdated # "True" /\ reason = "WaitingForTraits"
    \/ /\ ~ h.terminating /\ want = h.specAggregates /\ reason = "Succeeded"
       /\ h.onboarding \notin {"Initial", "Testing"}
       /\ h.onboarding = "Handover" => h.traitsUpdated = "True"

\* It follows from the phase, the traits and the termination.
LEMMA DesiresIs ==
    ASSUME NEW h \in Hypervisor
    PROVE  Desires(h, determineDesiredState(h).want, determineDesiredState(h).reason)
<1>1. h.terminating \in BOOLEAN /\ h.evicted \in BOOLEAN
  BY DEF Hypervisor
<1> QED
  BY <1>1 DEF determineDesiredState, fromSpec, Desires

\* What a pass of the aggregates controller over h decides to do.
AggReads(h) ==
    /\ h = hv \/ "stale_read" \in Faults
    /\ \/ /\ agg'.pc = "idle"
          /\ h.ids => /\ determineDesiredState(h).want = h.aggregates
                      /\ determineDesiredState(h).reason = h.aggregatesUpdated
       \/ /\ h.ids /\ Desires(h, agg'.want, agg'.reason) /\ ~ agg'.failed /\ ~ agg'.changed
          /\ \/ agg'.pc = "list" /\ agg'.want # h.aggregates
             \/ agg'.pc = "patch" /\ agg'.want = h.aggregates /\ agg'.reason # h.aggregatesUpdated

\* The first step of a pass does what AggReads says.
LEMMA AggReadIs ==
    ASSUME TypeOK, NEW h \in {hv, prev}, aggReconcile(h)
    PROVE  UNCHANGED <<hv, nova>> /\ AggReads(h)
<1> DEFINE want == determineDesiredState(h).want
           reason == determineDesiredState(h).reason
           to(pc) == [IdleAgg EXCEPT !.pc = pc, !.want = want, !.reason = reason]
<1>1. UNCHANGED <<hv, nova>> /\ (h = hv \/ "stale_read" \in Faults)
  BY DEF aggReconcile, Snapshot, Disturb
<1>2. Desires(h, want, reason) /\ h.ids \in BOOLEAN
  BY DesiresIs DEF TypeOK, Hypervisor
<1>3. \A pc : /\ to(pc).pc = pc /\ to(pc).want = want /\ to(pc).reason = reason
              /\ ~ to(pc).failed /\ ~ to(pc).changed
  BY DEF IdleAgg
<1>4. IdleAgg.pc = "idle"
  BY DEF IdleAgg
<1>5. IF ~ h.ids THEN agg' = IdleAgg
      ELSE IF want # h.aggregates THEN agg' = to("list")
      ELSE IF reason # h.aggregatesUpdated THEN agg' = to("patch")
      ELSE agg' = IdleAgg
  BY DEF aggReconcile
<1> HIDE DEF want, reason, to
<1>6. \/ /\ agg'.pc = "idle" /\ (h.ids => want = h.aggregates /\ reason = h.aggregatesUpdated)
      \/ /\ h.ids /\ Desires(h, agg'.want, agg'.reason) /\ ~ agg'.failed /\ ~ agg'.changed
         /\ \/ agg'.pc = "list" /\ agg'.want # h.aggregates
            \/ agg'.pc = "patch" /\ agg'.want = h.aggregates /\ agg'.reason # h.aggregatesUpdated
  BY <1>2, <1>3, <1>4, <1>5
<1> QED
  BY <1>1, <1>6 DEF AggReads, want, reason

\* The service is enabled from the initial phase on, in the test aggregate.
LEMMA OnEnables ==
    ASSUME TypeOK, OnMoves
    PROVE  /\ nova'.enabled => nova.enabled \/ on.pc = "enable"
           /\ on'.pc = "enable" => \E h \in {hv, prev} : h.aggregates = TestAggregates
<1>1. CASE \E h \in {hv, prev} : onReconcile(h)
  BY <1>1, ReadIs DEF Reads
<1>2. CASE lookupNovaProperties
  BY <1>2, MovesAre DEF lookupNovaProperties, Apply, TypeOK, Nova
<1>3. CASE initialOnboarding
  BY <1>3, MovesAre DEF initialOnboarding, Apply
<1>4. CASE createOrGetTestServer \/ deleteOutdatedError
  <2>1. nova'.enabled = nova.enabled
    BY <1>4 DEF createOrGetTestServer, deleteOutdatedError, GetTestServer, Disturb, TypeOK, Nova
  <2>2. on'.pc \in {"idle", "sweep", "look"}
    BY <1>4, MovesAre DEF createOrGetTestServer, deleteOutdatedError, GetTestServer, Disturb
  <2> QED
    BY <2>1, <2>2
<1>5. CASE deleteOrphanedTestVolumes
  BY <1>5, MovesAre DEF deleteOrphanedTestVolumes, Swept, TypeOK, Nova
<1>6. CASE createTestServer
  BY <1>6, MovesAre DEF createTestServer, TypeOK, Nova
<1>7. CASE smokeTest
  <2>1. \/ Retry \/ Go("cleanup", on.out)
        \/ \E known : on' = [pc |-> "sweep", out |-> "Testing", known |-> known]
    BY <1>7, Zenon DEF smokeTest
  <2>2. on'.pc # "enable"
    BY <2>1, MovesAre
  <2>3. nova' = nova \/ \E leak : nova' = Deleted(nova, leak)
    BY <1>7, Zenon DEF smokeTest
  <2> QED
    BY <2>2, <2>3, DeletedKeeps DEF TypeOK
<1>8. CASE deleteTestServers
  <2>1. PICK leak \in BOOLEAN : nova' = [Deleted(nova, leak) EXCEPT !.stray = FALSE]
    BY <1>8 DEF deleteTestServers
  <2>2. Deleted(nova, leak) \in Nova /\ Deleted(nova, leak).enabled = nova.enabled
    BY DeletedTyped, DeletedKeeps DEF TypeOK
  <2>3. nova'.enabled = nova.enabled
    BY <2>1, <2>2 DEF Nova
  <2>4. on'.pc = "apply"
    BY <1>8, MovesAre DEF deleteTestServers, Apply
  <2> QED
    BY <2>3, <2>4
<1>9. CASE onApply
  BY <1>9, MovesAre DEF onApply, IdleOn, TypeOK, Nova
<1>10. CASE smokeTestError
  BY <1>10, MovesAre DEF smokeTestError, TypeOK, Nova
<1>11. CASE smokeTestTimeout
  <2>1. PICK leak : nova' = Deleted(nova, leak)
    BY <1>11, Zenon DEF smokeTestTimeout
  <2>2. on'.pc = "idle"
    BY <1>11 DEF smokeTestTimeout, IdleOn
  <2> QED
    BY <2>1, <2>2, DeletedKeeps DEF TypeOK
<1>12. CASE deleteOrphanedTestVolumesError
  BY <1>12, MovesAre DEF deleteOrphanedTestVolumesError, Swept, TypeOK, Nova
<1>13. CASE deleteTestServersError
  <2>1. PICK n \in {nova, Deleted(nova, TRUE), Deleted(nova, FALSE)}, t \in {nova.stray, FALSE} :
            nova' = [n EXCEPT !.stray = t]
    BY <1>13 DEF deleteTestServersError
  <2>2. n = nova \/ \E leak : n = Deleted(nova, leak)
    BY Zenon
  <2>3. n \in Nova /\ n.enabled = nova.enabled
    BY <2>2, DeletedTyped, DeletedKeeps DEF TypeOK
  <2>4. nova'.enabled = nova.enabled
    BY <2>1, <2>3 DEF Nova
  <2>5. on'.pc = "apply"
    BY <1>13 DEF deleteTestServersError, IdleOn
  <2> QED
    BY <2>4, <2>5
<1>14. CASE onError
  BY <1>14, MovesAre DEF onError, TypeOK, Nova
<1> QED
  BY <1>1, <1>2, <1>3, <1>4, <1>5, <1>6, <1>7, <1>8, <1>9, <1>10, <1>11, <1>12, <1>13,
      <1>14 DEF OnMoves

\* The aggregates of every spec keep somebody away.
SpecsRestrict == \A s \in Specs : Restricting(s)

\* The aggregates controller keeps OpenInv: what it removes the host from
\* comes after what it adds it to, unless a call to add it fails.
LEMMA OpenAgg ==
    ASSUME SpecsRestrict, "add_error" \notin Faults, TypeOK, OpenInv, AggMoves, prev' \in {hv, prev}
    PROVE  OpenInv'
<1>0. AggLeaves
  BY AggFrame
<1>1. CASE \E h \in {hv, prev} : aggReconcile(h)
  <2>1. PICK h \in {hv, prev} : aggReconcile(h)
    BY <1>1
  <2>2. UNCHANGED <<hv, nova>> /\ AggReads(h)
    BY <2>1, AggReadIs
  <2>3. ASSUME agg'.pc = "list" PROVE Restricting(agg'.want) \/ hv.evicted
    <3>1. Desires(h, agg'.want, agg'.reason) /\ agg'.want # h.aggregates
      BY <2>2, <2>3 DEF AggReads
    <3>2. Restricting(TestAggregates) /\ Restricting(h.specAggregates)
      BY DEF TestAggregates, Zone, Test, Restricting, SpecsRestrict, TypeOK, Hypervisor
    <3> QED
      BY <3>1, <3>2 DEF Desires, OpenInv
  <2>4. agg'.pc = "idle" \/ (agg'.pc \in {"list", "patch"} /\ ~ agg'.changed)
    BY <2>2 DEF AggReads
  <2> QED
    BY <2>2, <2>3, <2>4, <1>0 DEF OpenInv, Guarded, AggLeaves
<1>2. CASE listAggregates
  <2>1. agg.pc = "list" /\ UNCHANGED <<hv, nova>> /\ agg'.pc = "add" /\ agg'.want = agg.want
    BY <1>2 DEF listAggregates
  <2>2. agg'.todo = agg.want \ nova.aggregates /\ agg'.changed = agg.changed
    BY <1>2 DEF listAggregates, TypeOK
  <2> QED
    BY <2>1, <2>2, <1>0 DEF OpenInv, Guarded, AggLeaves
<1>3. CASE \E a \in Aggregates : addHost(a)
  <2>1. PICK a \in Aggregates : addHost(a)
    BY <1>3
  <2>2. /\ agg.pc = "add" /\ UNCHANGED hv /\ nova'.aggregates = nova.aggregates \cup {a}
        /\ agg'.pc = "add" /\ agg'.want = agg.want /\ agg'.todo = agg.todo \ {a}
        /\ agg'.changed = agg.changed
    BY <2>1 DEF addHost, TypeOK, Nova
  <2>3. Guarded => Guarded'
    BY <2>2 DEF Guarded, Restricting
  <2> QED
    BY <2>2, <2>3, <1>0 DEF OpenInv, AggLeaves
<1>4. CASE added
  <2>1. /\ agg.pc = "add" /\ agg.todo = {} /\ UNCHANGED <<hv, nova>>
        /\ agg'.pc = "remove" /\ agg'.want = agg.want
    BY <1>4 DEF added
  <2>2. agg'.todo = nova.aggregates \ agg.want /\ agg'.changed = agg.changed
    BY <1>4 DEF added, TypeOK
  <2> QED
    BY <2>1, <2>2, <1>0 DEF OpenInv, Guarded, AggLeaves
<1>5. CASE \E a \in Aggregates : removeHost(a)
  <2>1. PICK a \in Aggregates : removeHost(a)
    BY <1>5
  <2>2. /\ agg.pc = "remove" /\ UNCHANGED hv /\ nova'.aggregates = nova.aggregates \ {a}
        /\ agg'.pc = "remove" /\ agg'.want = agg.want /\ agg'.todo = agg.todo \ {a} /\ a \in agg.todo
        /\ agg'.changed = agg.changed
    BY <2>1 DEF removeHost, TypeOK, Nova
  <2>3. agg.want \subseteq nova'.aggregates
    BY <2>2 DEF OpenInv
  <2>4. Guarded'
    BY <2>2, <2>3 DEF OpenInv, Guarded, Restricting
  <2> QED
    BY <2>2, <2>3, <2>4, <1>0 DEF OpenInv, AggLeaves
<1>6. CASE removed
  <2>1. agg.pc = "remove" /\ UNCHANGED <<hv, nova>> /\ agg'.pc = "patch" /\ agg'.want = agg.want
    BY <1>6 DEF removed
  <2>2. Guarded
    BY <2>1 DEF OpenInv, Guarded, Restricting
  <2> QED
    BY <2>1, <2>2, <1>0 DEF OpenInv, Guarded, AggLeaves
<1>7. CASE aggPatch
  <2>1. agg.pc = "patch" /\ UNCHANGED nova /\ agg'.pc = "idle" /\ hv'.evicted = hv.evicted
    BY <1>7 DEF aggPatch, IdleAgg, TypeOK, Hypervisor
  <2>2. hv'.aggregates = IF agg.changed THEN agg.want ELSE hv.aggregates
    BY <1>7 DEF aggPatch, TypeOK, Hypervisor
  <2>3. Guarded => Guarded'
    BY <2>1 DEF Guarded
  <2>4. Restricting(hv'.aggregates) => Guarded
    BY <2>1, <2>2 DEF OpenInv
  <2> QED
    BY <2>1, <2>3, <2>4, <1>0 DEF OpenInv, AggLeaves
<1>8. CASE listAggregatesError
  <2>1. agg.pc = "list" /\ UNCHANGED <<hv, nova>> /\ agg'.pc = "patch" /\ agg'.want = agg.want
    BY <1>8 DEF listAggregatesError
  <2>2. agg'.changed = agg.changed
    BY <1>8 DEF listAggregatesError, TypeOK
  <2> QED
    BY <2>1, <2>2, <1>0 DEF OpenInv, Guarded, AggLeaves
<1>9. CASE \E a \in Aggregates : addHostError(a)
  BY <1>9 DEF addHostError, Disturb
<1>10. CASE \E a \in Aggregates : removeHostError(a)
  <2>1. PICK a \in Aggregates : removeHostError(a)
    BY <1>10
  <2>2. /\ agg.pc = "remove" /\ UNCHANGED <<hv, nova>>
        /\ agg'.pc = "remove" /\ agg'.want = agg.want /\ agg'.todo = agg.todo \ {a}
        /\ agg'.changed = agg.changed
    BY <2>1 DEF removeHostError, TypeOK
  <2> QED
    BY <2>2, <1>0 DEF OpenInv, Guarded, AggLeaves
<1>11. CASE aggPatchError
  <2>1. UNCHANGED <<hv, nova>> /\ agg'.pc = "idle"
    BY <1>11 DEF aggPatchError, IdleAgg
  <2> QED
    BY <2>1, <1>0 DEF OpenInv, Guarded, AggLeaves
<1> QED
  BY <1>1, <1>2, <1>3, <1>4, <1>5, <1>6, <1>7, <1>8, <1>9, <1>10, <1>11 DEF AggMoves

\* So does everyone.
LEMMA OpenStep ==
    ASSUME SpecsRestrict, "add_error" \notin Faults, TypeOK, OpenInv, [Next]_vars
    PROVE  OpenInv'
<1>1. CASE UNCHANGED vars
  BY <1>1 DEF vars, OpenInv, Guarded
<1>2. CASE Next
  <2>1. prev' \in {hv, prev}
    BY <1>2, Whose
  <2>2. CASE OnMoves
    <3>1. OnLeaves
      BY <2>2, OnFrame
    <3>2. Guarded => Guarded'
      BY <3>1 DEF OnLeaves, Guarded
    <3>3. nova'.enabled \/ on'.pc = "enable" => Guarded'
      <4>1. Restricting(TestAggregates)
        BY DEF Restricting, TestAggregates, Zone, Test
      <4> QED
        BY <2>2, <3>2, <4>1, OnEnables DEF OpenInv
    <3> QED
      BY <2>1, <3>1, <3>2, <3>3 DEF OpenInv, OnLeaves
  <2>3. CASE AggMoves
    BY <2>1, <2>3, OpenAgg
  <2>4. CASE TrMoves
    <3>1. TrLeaves
      BY <2>4, TrFrame
    <3>2. Guarded => Guarded'
      BY <3>1 DEF TrLeaves, Guarded
    <3> QED
      BY <2>1, <3>1, <3>2 DEF OpenInv, TrLeaves
  <2>5. CASE Crash
    BY <2>1, <2>5 DEF OpenInv, Crash, IdleOn, IdleAgg, Guarded
  <2>6. CASE Environment
    <3>1. WorldLeaves
      BY <2>6, WorldFrame
    <3>2. Guarded => Guarded'
      BY <3>1 DEF WorldLeaves, Guarded
    <3> QED
      BY <2>1, <3>1, <3>2 DEF OpenInv, WorldLeaves
  <2> QED
    BY <1>2, <2>2, <2>3, <2>4, <2>5, <2>6, Whose
<1> QED
  BY <1>1, <1>2

\* Enabled, and not about to be removed, a host is always in an aggregate that
\* keeps somebody away, also while its aggregates are exchanged.
THEOREM HostStaysGuarded ==
    ASSUME SpecsRestrict, "add_error" \notin Faults
    PROVE  Spec => []HostIsNeverOpen
<1>1. Init => OpenInv
  <2> SUFFICES ASSUME Init PROVE OpenInv
    OBVIOUS
  <2>1. /\ hv.aggregates = {} /\ ~ hv.evicted /\ prev = hv /\ ~ nova.enabled
        /\ on.pc = "idle" /\ agg.pc = "idle"
    BY DEF Init, IdleOn, IdleAgg
  <2> QED
    BY <2>1 DEF OpenInv, Restricting
<1>2. TypeOK /\ OpenInv /\ [Next]_vars => OpenInv'
  BY OpenStep
<1>3. OpenInv => HostIsNeverOpen
  BY DEF OpenInv, HostIsNeverOpen, Guarded, Restricting
<1> QED
  BY <1>1, <1>2, <1>3, TypesHold, PTL DEF Spec

-----------------------------------------------------------------------------
(* The traits come first.                                                  *)

\* What a pass of the traits controller over h decides to do.
TrReads(h) ==
    /\ h = hv \/ "stale_read" \in Faults
    /\ \/ tr'.pc = "idle" /\ TrSettled(h)
       \/ /\ trApplies(h) /\ tr'.ok /\ tr'.out = h.traits
          /\ \/ tr'.pc = "apply" /\ h.customTraits = h.traits /\ h.traitsUpdated # "True"
             \/ tr'.pc = "put" /\ tr'.want = h.customTraits /\ h.customTraits # h.traits

\* The first step of a pass does what TrReads says.
LEMMA TrReadIs ==
    ASSUME TypeOK, NEW h \in {hv, prev}, trReconcile(h)
    PROVE  UNCHANGED <<hv, nova>> /\ TrReads(h)
<1>1. UNCHANGED <<hv, nova>> /\ (h = hv \/ "stale_read" \in Faults)
  BY DEF trReconcile, Snapshot, Disturb
<1>2. CASE ~ trApplies(h) \/ (h.customTraits = h.traits /\ h.traitsUpdated = "True")
  BY <1>1, <1>2 DEF trReconcile, TrReads, TrSettled, IdleTr
<1>3. CASE /\ ~ (~ trApplies(h) \/ (h.customTraits = h.traits /\ h.traitsUpdated = "True"))
           /\ h.customTraits = h.traits
  <2>1. tr' = [pc |-> "apply", want |-> {}, out |-> h.traits, ok |-> TRUE]
    BY <1>3 DEF trReconcile
  <2> QED
    BY <1>1, <1>3, <2>1 DEF TrReads
<1>4. CASE /\ ~ (~ trApplies(h) \/ (h.customTraits = h.traits /\ h.traitsUpdated = "True"))
           /\ h.customTraits # h.traits
  <2>1. tr' = [pc |-> "put", want |-> h.customTraits, out |-> h.traits, ok |-> TRUE]
    BY <1>4 DEF trReconcile
  <2> QED
    BY <1>1, <1>4, <2>1 DEF TrReads
<1> QED
  BY <1>2, <1>3, <1>4

\* A report of traits that are in place is true, and stays true: the traits of
\* the spec are the only ones that are written, and nobody changes the spec.
LEMMA TraitStep ==
    ASSUME "change_traits" \notin Faults, TypeOK, TraitInv, [Next]_vars
    PROVE  TraitInv'
<1>1. CASE UNCHANGED vars
  BY <1>1 DEF vars, TraitInv, Fitted
<1>2. CASE Next
  <2>1. prev' \in {hv, prev}
    BY <1>2, Whose
  <2>2. CASE OnMoves
    BY <2>1, <2>2, OnFrame DEF TraitInv, Fitted, OnLeaves
  <2>3. CASE AggMoves
    BY <2>1, <2>3, AggFrame DEF TraitInv, Fitted, AggLeaves
  <2>4. CASE TrMoves
    <3>0. TrLeaves
      BY <2>4, TrFrame
    <3>1. CASE \E h \in {hv, prev} : trReconcile(h)
      <4>1. PICK h \in {hv, prev} : trReconcile(h)
        BY <3>1
      <4>2. UNCHANGED <<hv, nova>> /\ TrReads(h)
        BY <4>1, TrReadIs
      <4> QED
        BY <2>1, <4>2 DEF TraitInv, Fitted, TrReads
    <3>2. CASE UpdateTraits
      <4>1. tr.pc = "put" /\ UNCHANGED hv /\ nova'.traits = tr.want
        BY <3>2 DEF UpdateTraits, TypeOK, Nova
      <4>2. tr'.pc = "apply"
        BY <3>2 DEF UpdateTraits, TypeOK
      <4> QED
        BY <2>1, <4>1, <4>2 DEF TraitInv, Fitted
    <3>3. CASE applyTraitsStatus
      <4>1. /\ tr.pc = "apply" /\ UNCHANGED nova /\ tr'.pc = "idle"
            /\ hv'.traits = tr.out /\ hv'.traitsUpdated = IF tr.ok THEN "True" ELSE "False"
        BY <3>3 DEF applyTraitsStatus, IdleTr, TypeOK, Hypervisor
      <4> QED
        BY <2>1, <3>0, <4>1 DEF TraitInv, Fitted, TrLeaves
    <3>4. CASE UpdateTraitsError
      <4>1. /\ tr.pc = "put" /\ UNCHANGED <<hv, nova>>
            /\ tr'.pc = "apply" /\ tr'.out = tr.out /\ ~ tr'.ok
        BY <3>4, Zenon DEF UpdateTraitsError, TypeOK
      <4> QED
        BY <2>1, <4>1 DEF TraitInv, Fitted
    <3>5. CASE applyTraitsStatusError
      <4>1. UNCHANGED <<hv, nova>> /\ tr'.pc = "idle"
        BY <3>5 DEF applyTraitsStatusError, IdleTr
      <4> QED
        BY <2>1, <4>1 DEF TraitInv, Fitted
    <3> QED
      BY <2>4, <3>1, <3>2, <3>3, <3>4, <3>5 DEF TrMoves
  <2>5. CASE Crash
    BY <2>1, <2>5 DEF TraitInv, Fitted, Crash, IdleTr
  <2>6. CASE Environment
    BY <2>1, <2>6, WorldFrame DEF TraitInv, Fitted, WorldLeaves
  <2> QED
    BY <1>2, <2>2, <2>3, <2>4, <2>5, <2>6, Whose
<1> QED
  BY <1>1, <1>2

-----------------------------------------------------------------------------
(* What the passes come to.                                                *)

\* A pass of the onboarding controller reads, goes on or reports; it takes up
\* nothing but the tests on its way, or that the cleanup has failed.
PhaseMoves ==
    \/ UNCHANGED hv /\ Reads(hv)
    \/ /\ hv'.onboarding = hv.onboarding /\ on.pc # "idle" /\ on'.pc \notin {"lookup", "enable"}
       /\ \/ on'.pc = "idle" \/ on'.out = on.out
          \/ on'.out = "Testing" /\ hv.onboarding = "Testing"
          \/ on'.out = Stuck /\ "cleanup_error" \in Faults
    \/ on.pc # "idle" /\ on'.pc = "idle" /\ hv'.onboarding = on.out

\* Where versions are read late nowhere, every step of a pass is like that.
LEMMA PhaseMovesOn ==
    ASSUME "stale_read" \notin Faults, TypeOK, ServerInv, PhaseInv, OnMoves
    PROVE  PhaseMoves
<1> USE DEF PhaseMoves
<1>1. CASE \E h \in {hv, prev} : onReconcile(h)
  <2>1. PICK h \in {hv, prev} : onReconcile(h)
    BY <1>1
  <2> QED
    BY <2>1, ReadIs DEF Reads
<1>2. CASE lookupNovaProperties
  BY <1>2, MovesAre DEF lookupNovaProperties, Apply, PhaseInv
<1>3. CASE initialOnboarding
  BY <1>3, MovesAre DEF initialOnboarding, Apply, PhaseInv
<1>4. CASE createOrGetTestServer \/ deleteOutdatedError
  <2>1. on.pc = "smoke" /\ UNCHANGED hv
    BY <1>4 DEF createOrGetTestServer, deleteOutdatedError, GetTestServer, Disturb
  <2>2. on'.pc = "idle" \/ (on'.pc \in {"sweep", "look"} /\ on'.out = on.out)
    BY <1>4, MovesAre DEF createOrGetTestServer, deleteOutdatedError, GetTestServer, Disturb
  <2> QED
    BY <2>1, <2>2
<1>5. CASE deleteOrphanedTestVolumes
  BY <1>5, MovesAre DEF deleteOrphanedTestVolumes, Swept
<1>6. CASE createTestServer
  BY <1>6, MovesAre DEF createTestServer
<1>7. CASE smokeTest
  <2>1. on.pc = "look" /\ (hv' = hv \/ hv' = [hv EXCEPT !.onboarding = "Testing"])
    BY <1>7 DEF smokeTest, setTestingCondition
  <2>2. hv.onboarding = "Testing"
    BY <2>1 DEF ServerInv
  <2>3. hv'.onboarding = "Testing"
    BY <2>1, <2>2 DEF TypeOK, Hypervisor
  <2>4. \/ Retry \/ Go("cleanup", on.out)
        \/ \E known : on' = [pc |-> "sweep", out |-> "Testing", known |-> known]
    BY <1>7, Zenon DEF smokeTest
  <2>5. \/ on'.pc = "idle" \/ (on'.pc = "cleanup" /\ on'.out = on.out)
        \/ on'.pc = "sweep" /\ on'.out = "Testing"
    BY <2>4, MovesAre
  <2> QED
    BY <2>1, <2>2, <2>3, <2>5
<1>8. CASE deleteTestServers
  BY <1>8, MovesAre DEF deleteTestServers, Apply
<1>9. CASE onApply
  <2>1. on.pc = "apply" /\ on'.pc = "idle" /\ hv'.onboarding = on.out
    BY <1>9 DEF onApply, HvBecomes, IdleOn, TypeOK, Hypervisor
  <2> QED
    BY <2>1
<1>10. CASE smokeTestError
  BY <1>10, MovesAre DEF smokeTestError
<1>11. CASE smokeTestTimeout
  <2>1. on.pc = "look" /\ hv' = [hv EXCEPT !.onboarding = "Testing"] /\ on'.pc = "idle"
    BY <1>11 DEF smokeTestTimeout, setTestingCondition, IdleOn
  <2>2. hv.onboarding = "Testing"
    BY <2>1 DEF ServerInv
  <2>3. hv'.onboarding = "Testing"
    BY <2>1, <2>2 DEF TypeOK, Hypervisor
  <2> QED
    BY <2>1, <2>2, <2>3
<1>12. CASE deleteOrphanedTestVolumesError
  BY <1>12, MovesAre DEF deleteOrphanedTestVolumesError, Swept
<1>13. CASE deleteTestServersError
  BY <1>13 DEF deleteTestServersError, Disturb, IdleOn
<1>14. CASE onError
  BY <1>14, MovesAre DEF onError
<1> QED
  BY <1>1, <1>2, <1>3, <1>4, <1>5, <1>6, <1>7, <1>8, <1>9, <1>10, <1>11, <1>12, <1>13,
      <1>14 DEF OnMoves

\* So what a pass is about to report follows what is reported.
LEMMA PhaseStep ==
    ASSUME "stale_read" \notin Faults, TypeOK, IdInv, ServerInv, PhaseInv, [Next]_vars
    PROVE  PhaseInv'
<1>1. CASE UNCHANGED vars
  BY <1>1 DEF vars, PhaseInv
<1>2. CASE Next
  <2>1. CASE OnMoves
    <3>1. PhaseMoves
      BY <2>1, PhaseMovesOn
    <3> QED
      BY <3>1 DEF PhaseMoves, PhaseInv, Reads, IdInv, Stuck
  <2>2. CASE AggMoves
    BY <2>2, AggFrame DEF PhaseInv, AggLeaves
  <2>3. CASE TrMoves
    BY <2>3, TrFrame DEF PhaseInv, TrLeaves
  <2>4. CASE Crash
    BY <2>4 DEF PhaseInv, Crash, IdleOn
  <2>5. CASE Environment
    BY <2>5, WorldFrame DEF PhaseInv, WorldLeaves
  <2> QED
    BY <1>2, <2>1, <2>2, <2>3, <2>4, <2>5, Whose
<1> QED
  BY <1>1, <1>2

\* A pass of the aggregates controller reads, works on the aggregates, reports
\* or fails to.
AggDoes ==
    \/ agg.pc = "idle" /\ UNCHANGED <<hv, nova>> /\ \E h \in {hv, prev} : AggReads(h)
    \/ /\ agg.pc \in {"list", "add", "remove"} /\ UNCHANGED hv
       /\ agg'.pc # "idle" /\ agg'.want = agg.want /\ agg'.reason = agg.reason
       /\ nova'.aggregates \subseteq nova.aggregates \cup agg.want
       /\ agg'.pc = "patch" /\ ~ agg'.changed => agg'.failed
    \/ /\ agg.pc = "patch" /\ UNCHANGED nova /\ agg'.pc = "idle"
       /\ hv'.aggregates = (IF agg.changed THEN agg.want ELSE hv.aggregates)
       /\ hv'.aggregatesUpdated = (IF agg.failed THEN "Failed" ELSE agg.reason)
    \/ agg.pc = "patch" /\ UNCHANGED <<hv, nova>> /\ agg'.pc = "idle"

\* Every step of the controller is like that, and unless a call fails Nova has
\* what a pass reports to have changed.
LEMMA AggDoesIt == ASSUME TypeOK, AggInv, AggMoves PROVE AggInv' /\ AggDoes
<1> USE DEF AggInv, AggDoes
<1>1. CASE \E h \in {hv, prev} : aggReconcile(h)
  <2>1. PICK h \in {hv, prev} : aggReconcile(h)
    BY <1>1
  <2>2. UNCHANGED <<hv, nova>> /\ AggReads(h) /\ agg.pc = "idle"
    BY <2>1, AggReadIs DEF aggReconcile
  <2>3. agg'.pc = "idle" \/ (agg'.pc \in {"list", "patch"} /\ ~ agg'.changed)
    BY <2>2 DEF AggReads
  <2> QED
    BY <2>2, <2>3
<1>2. CASE listAggregates
  <2>1. /\ agg.pc = "list" /\ UNCHANGED <<hv, nova>> /\ agg'.pc = "add" /\ agg'.want = agg.want
        /\ agg'.reason = agg.reason /\ agg'.changed = agg.changed
        /\ agg'.todo = agg.want \ nova.aggregates
    BY <1>2 DEF listAggregates, TypeOK
  <2> QED
    BY <2>1
<1>3. CASE \E a \in Aggregates : addHost(a)
  <2>1. PICK a \in Aggregates : addHost(a)
    BY <1>3
  <2>2. /\ agg.pc = "add" /\ UNCHANGED hv /\ nova'.aggregates = nova.aggregates \cup {a}
        /\ agg'.pc = "add" /\ agg'.want = agg.want /\ agg'.reason = agg.reason
        /\ agg'.todo = agg.todo \ {a} /\ a \in agg.todo
        /\ agg'.changed = agg.changed /\ agg'.failed = agg.failed
    BY <2>1 DEF addHost, TypeOK, Nova
  <2>3. a \in agg.want
    BY <2>2
  <2>4. agg'.todo \subseteq agg'.want /\ nova'.aggregates \subseteq nova.aggregates \cup agg.want
    BY <2>2, <2>3
  <2>5. agg.failed \/ agg'.want \subseteq nova'.aggregates \cup agg'.todo
    BY <2>2
  <2> QED
    BY <2>2, <2>4, <2>5
<1>4. CASE added
  <2>1. /\ agg.pc = "add" /\ agg.todo = {} /\ UNCHANGED <<hv, nova>> /\ agg'.pc = "remove"
        /\ agg'.want = agg.want /\ agg'.reason = agg.reason /\ agg'.changed = agg.changed
        /\ agg'.failed = agg.failed /\ agg'.todo = nova.aggregates \ agg.want
    BY <1>4 DEF added, TypeOK
  <2> QED
    BY <2>1
<1>5. CASE \E a \in Aggregates : removeHost(a)
  <2>1. PICK a \in Aggregates : removeHost(a)
    BY <1>5
  <2>2. /\ agg.pc = "remove" /\ UNCHANGED hv /\ nova'.aggregates = nova.aggregates \ {a}
        /\ agg'.pc = "remove" /\ agg'.want = agg.want /\ agg'.reason = agg.reason
        /\ agg'.todo = agg.todo \ {a} /\ a \in agg.todo
        /\ agg'.changed = agg.changed /\ agg'.failed = agg.failed
    BY <2>1 DEF removeHost, TypeOK, Nova
  <2>3. agg'.todo \cap agg'.want = {} /\ nova'.aggregates \subseteq nova.aggregates \cup agg.want
    BY <2>2
  <2>4. \/ agg.failed
        \/ /\ agg'.want \subseteq nova'.aggregates
           /\ nova'.aggregates \ agg'.want \subseteq agg'.todo
    BY <2>2
  <2> QED
    BY <2>2, <2>3, <2>4
<1>6. CASE removed
  <2>1. /\ agg.pc = "remove" /\ agg.todo = {} /\ UNCHANGED <<hv, nova>> /\ agg'.pc = "patch"
        /\ agg'.want = agg.want /\ agg'.reason = agg.reason
        /\ agg'.changed = ~ agg.failed /\ agg'.failed = agg.failed
    BY <1>6 DEF removed, TypeOK
  <2> QED
    BY <2>1
<1>7. CASE aggPatch
  <2>1. /\ agg.pc = "patch" /\ UNCHANGED nova /\ agg'.pc = "idle"
        /\ hv'.aggregates = (IF agg.changed THEN agg.want ELSE hv.aggregates)
        /\ hv'.aggregatesUpdated = (IF agg.failed THEN "Failed" ELSE agg.reason)
    BY <1>7 DEF aggPatch, IdleAgg, TypeOK, Hypervisor
  <2> QED
    BY <2>1
<1>8. CASE listAggregatesError
  <2>1. /\ agg.pc = "list" /\ UNCHANGED <<hv, nova>> /\ agg'.pc = "patch" /\ agg'.want = agg.want
        /\ agg'.reason = agg.reason /\ agg'.changed = agg.changed
    BY <1>8 DEF listAggregatesError, TypeOK
  <2>2. agg'.failed
    BY <1>8, Zenon DEF listAggregatesError, TypeOK
  <2> QED
    BY <2>1, <2>2
<1>9. CASE \E a \in Aggregates : addHostError(a)
  <2>1. PICK a \in Aggregates : addHostError(a)
    BY <1>9
  <2>2. /\ agg.pc = "add" /\ UNCHANGED <<hv, nova>>
        /\ agg'.pc = "add" /\ agg'.want = agg.want /\ agg'.reason = agg.reason
        /\ agg'.todo = agg.todo \ {a} /\ agg'.changed = agg.changed
    BY <2>1 DEF addHostError, TypeOK
  <2>3. agg'.failed
    BY <2>1, Zenon DEF addHostError, TypeOK
  <2> QED
    BY <2>2, <2>3
<1>10. CASE \E a \in Aggregates : removeHostError(a)
  <2>1. PICK a \in Aggregates : removeHostError(a)
    BY <1>10
  <2>2. /\ agg.pc = "remove" /\ UNCHANGED <<hv, nova>>
        /\ agg'.pc = "remove" /\ agg'.want = agg.want /\ agg'.reason = agg.reason
        /\ agg'.todo = agg.todo \ {a} /\ agg'.changed = agg.changed
    BY <2>1 DEF removeHostError, TypeOK
  <2>3. agg'.failed
    BY <2>1, Zenon DEF removeHostError, TypeOK
  <2> QED
    BY <2>2, <2>3
<1>11. CASE aggPatchError
  <2>1. agg.pc = "patch" /\ UNCHANGED <<hv, nova>> /\ agg'.pc = "idle"
    BY <1>11 DEF aggPatchError, IdleAgg
  <2> QED
    BY <2>1
<1> QED
  BY <1>1, <1>2, <1>3, <1>4, <1>5, <1>6, <1>7, <1>8, <1>9, <1>10, <1>11 DEF AggMoves

\* Nobody else disturbs that.
LEMMA AggStepKeeps == TypeOK /\ AggInv /\ [Next]_vars => AggInv'
<1> SUFFICES ASSUME TypeOK, AggInv, [Next]_vars PROVE AggInv'
  OBVIOUS
<1>1. CASE UNCHANGED vars
  BY <1>1 DEF vars, AggInv
<1>2. CASE Next
  <2>1. CASE OnMoves
    BY <2>1, OnFrame DEF AggInv, OnLeaves
  <2>2. CASE AggMoves
    BY <2>2, AggDoesIt
  <2>3. CASE TrMoves
    BY <2>3, TrFrame DEF AggInv, TrLeaves
  <2>4. CASE Crash
    BY <2>4 DEF AggInv, Crash, IdleAgg
  <2>5. CASE Environment
    BY <2>5, WorldFrame DEF AggInv, WorldLeaves
  <2> QED
    BY <1>2, <2>1, <2>2, <2>3, <2>4, <2>5, Whose
<1> QED
  BY <1>1, <1>2

-----------------------------------------------------------------------------
(* Aggregates after traits, and the handover.                              *)

\* Once the aggregates of the spec may come they may stay.
LEMMA FreeStays ==
    ASSUME "stale_read" \notin Faults, "cleanup_error" \notin Faults,
           TypeOK, IdInv, ServerInv, PhaseInv, TraitInv, Next, Free
    PROVE  Free'
<1>1. CASE OnMoves
  <2>1. PhaseMoves /\ OnLeaves
    BY <1>1, PhaseMovesOn, OnFrame
  <2>2. hv.onboarding \in Over => hv'.onboarding \in Over
    BY <2>1 DEF PhaseMoves, PhaseInv, IdInv, Over, Stuck, TypeOK, Phases
  <2> QED
    BY <2>1, <2>2 DEF Free, Fitted, OnLeaves
<1>2. CASE AggMoves
  BY <1>2, AggFrame DEF Free, Fitted, AggLeaves
<1>3. CASE TrMoves
  <2>1. TrLeaves
    BY <1>3, TrFrame
  <2>2. nova'.traits = nova.traits \/ nova'.traits = Traits
    BY <1>3 DEF TrMoves, trReconcile, UpdateTraits, applyTraitsStatus, UpdateTraitsError,
                applyTraitsStatusError, TraitInv, TypeOK, Nova
  <2> QED
    BY <2>1, <2>2 DEF Free, Fitted, TrLeaves
<1>4. CASE Crash
  BY <1>4 DEF Free, Fitted, Crash
<1>5. CASE Environment
  BY <1>5, WorldFrame DEF Free, Fitted, WorldLeaves
<1> QED
  BY <1>1, <1>2, <1>3, <1>4, <1>5, Whose

\* The aggregates of the spec come to a host that has its traits, or whose
\* onboarding is over.
LEMMA AheadStep ==
    ASSUME "stale_read" \notin Faults, "cleanup_error" \notin Faults,
           TypeOK, IdInv, ServerInv, PhaseInv, AggInv, TraitInv, AheadInv, [Next]_vars
    PROVE  AheadInv'
<1>1. CASE UNCHANGED vars
  BY <1>1 DEF vars, AheadInv, Free, Fitted
<1>2. CASE Next
  <2>1. Free => Free'
    BY <1>2, FreeStays
  <2>2. CASE OnMoves
    BY <2>1, <2>2, OnFrame DEF AheadInv, OnLeaves
  <2>3. CASE AggMoves
    <3>1. AggDoes
      BY <2>3, AggDoesIt
    <3>2. CASE agg.pc = "idle" /\ UNCHANGED <<hv, nova>> /\ \E h \in {hv, prev} : AggReads(h)
      <4>1. AggReads(hv)
        BY <3>2 DEF AggReads
      <4>2. ASSUME agg'.pc # "idle", ~ Plain(agg'.want) PROVE Free
        <5>1. hv.ids /\ Desires(hv, agg'.want, agg'.reason)
          BY <4>1, <4>2 DEF AggReads
        <5>2. CASE agg'.want = hv.aggregates
          BY <4>2, <5>2 DEF AheadInv
        <5>3. CASE /\ hv.onboarding \notin {"Initial", "Testing"}
                   /\ hv.onboarding = "Handover" => hv.traitsUpdated = "True"
          <6>1. hv.onboarding \in Over \cup {"Handover"}
            BY <5>1, <5>3 DEF IdInv, PhaseInv, TypeOK, Hypervisor, Phases, Over, Stuck
          <6> QED
            BY <5>3, <6>1 DEF TraitInv, Free
        <5> QED
          BY <4>2, <5>1, <5>2, <5>3 DEF Desires, Plain
      <4> QED
        BY <2>1, <3>2, <4>2 DEF AheadInv
    <3>3. CASE /\ agg.pc # "idle" /\ UNCHANGED hv /\ agg'.want = agg.want
               /\ nova'.aggregates \subseteq nova.aggregates \cup agg.want
      BY <2>1, <3>3 DEF AheadInv, Plain
    <3>4. CASE /\ agg.pc = "patch" /\ UNCHANGED nova /\ agg'.pc = "idle"
               /\ hv'.aggregates = (IF agg.changed THEN agg.want ELSE hv.aggregates)
      BY <2>1, <3>4 DEF AheadInv
    <3>5. CASE UNCHANGED <<hv, nova>> /\ agg'.pc = "idle"
      BY <2>1, <3>5 DEF AheadInv
    <3> QED
      BY <3>1, <3>2, <3>3, <3>4, <3>5 DEF AggDoes
  <2>4. CASE TrMoves
    BY <2>1, <2>4, TrFrame DEF AheadInv, TrLeaves
  <2>5. CASE Crash
    BY <2>1, <2>5 DEF AheadInv, Crash, IdleAgg
  <2>6. CASE Environment
    BY <2>1, <2>6, WorldFrame DEF AheadInv, WorldLeaves
  <2> QED
    BY <1>2, <2>2, <2>3, <2>4, <2>5, <2>6, Whose
<1> QED
  BY <1>1, <1>2

\* Before the first step nothing has been tested, read or reported.
LEMMA Starts == Init => IdInv /\ ServerInv /\ PhaseInv /\ AggInv /\ TraitInv /\ AheadInv
<1> SUFFICES ASSUME Init PROVE IdInv /\ ServerInv /\ PhaseInv /\ AggInv /\ TraitInv /\ AheadInv
  OBVIOUS
<1>1. /\ hv.onboarding = "None" /\ hv.aggregates = {} /\ hv.traits = {} /\ ~ hv.ids
      /\ hv.customTraits = Traits /\ hv.traitsUpdated = "None" /\ prev = hv
      /\ nova.aggregates = {} /\ nova.traits = {} /\ nova.server = "none"
      /\ on.pc = "idle" /\ agg.pc = "idle" /\ tr.pc = "idle"
  BY DEF Init, IdleOn, IdleAgg, IdleTr
<1> QED
  BY <1>1 DEF IdInv, ServerInv, PhaseInv, AggInv, TraitInv, AheadInv, Closed, Over, Stuck,
              Fitted, Plain

\* "We wait for traits to be applied first": while it is onboarding, a host
\* gets its aggregates after its traits, where versions are read late nowhere,
\* no cleanup fails for good and the traits of the spec stay the same.
THEOREM TraitsComeFirst ==
    ASSUME "stale_read" \notin Faults, "cleanup_error" \notin Faults, "change_traits" \notin Faults
    PROVE  Spec => []TraitsBeforeAggregates
<1> DEFINE Inv == IdInv /\ ServerInv /\ PhaseInv /\ AggInv /\ TraitInv /\ AheadInv
<1>1. Init => Inv
  BY Starts
<1>2. TypeOK /\ Inv /\ [Next]_vars => Inv'
  <2> SUFFICES ASSUME TypeOK, Inv, [Next]_vars PROVE Inv'
    OBVIOUS
  <2>1. IdInv' /\ AggInv' /\ TraitInv'
    BY IdStep, AggStepKeeps, TraitStep
  <2>2. ServerInv' /\ PhaseInv'
    BY ServerStep, PhaseStep DEF TestsAreCurrent
  <2>3. AheadInv'
    BY AheadStep
  <2> QED
    BY <2>1, <2>2, <2>3
<1>3. Inv => TraitsBeforeAggregates
  BY DEF AheadInv, TraitInv, TraitsBeforeAggregates, Plain, Free, Fitted
<1> QED
  BY <1>1, <1>2, <1>3, TypesHold, PTL DEF Spec

-----------------------------------------------------------------------------
(* The handover, proved.                                                   *)

\* There is no way back to the tests.
LEMMA LaterStays ==
    ASSUME "stale_read" \notin Faults, TypeOK, IdInv, ServerInv, PhaseInv, OnMoves,
           hv.onboarding \in Later
    PROVE  hv'.onboarding \in Later
BY PhaseMovesOn DEF PhaseMoves, PhaseInv, IdInv, Later, Closed, Over, Stuck, TypeOK, Phases

\* The traits that are reported as updated are those of the spec.
LEMMA FitStep ==
    ASSUME "stale_read" \notin Faults, TypeOK, IdInv, ServerInv, PhaseInv, TraitInv, FitInv, Next
    PROVE  FitInv'
<1>1. CASE OnMoves
  BY <1>1, OnFrame, LaterStays DEF FitInv, OnLeaves
<1>2. CASE AggMoves
  BY <1>2, AggFrame DEF FitInv, AggLeaves
<1>3. CASE TrMoves
  <2>0. TrLeaves
    BY <1>3, TrFrame
  <2>1. CASE \E h \in {hv, prev} : trReconcile(h)
    <3>1. PICK h \in {hv, prev} : trReconcile(h)
      BY <2>1
    <3>2. UNCHANGED <<hv, nova>> /\ TrReads(hv) /\ tr.pc = "idle"
      BY <3>1, TrReadIs DEF TrReads, trReconcile
    <3> QED
      BY <3>2 DEF FitInv, TraitInv, TrReads, trApplies, Later, Closed
  <2>2. CASE UpdateTraits
    <3>1. tr.pc = "put" /\ UNCHANGED hv /\ tr'.pc = "apply" /\ tr'.out = tr.want
      BY <2>2 DEF UpdateTraits, TypeOK
    <3> QED
      BY <3>1 DEF FitInv, TraitInv
  <2>3. CASE applyTraitsStatus
    <3>1. /\ tr.pc = "apply" /\ tr'.pc = "idle"
          /\ hv'.traits = tr.out /\ hv'.traitsUpdated = IF tr.ok THEN "True" ELSE "False"
      BY <2>3 DEF applyTraitsStatus, IdleTr, TypeOK, Hypervisor
    <3> QED
      BY <2>0, <3>1 DEF FitInv, TrLeaves
  <2>4. CASE UpdateTraitsError
    <3>1. tr.pc = "put" /\ UNCHANGED hv /\ ~ tr'.ok
      BY <2>4, Zenon DEF UpdateTraitsError, TypeOK
    <3> QED
      BY <3>1 DEF FitInv
  <2>5. CASE applyTraitsStatusError
    <3>1. UNCHANGED hv /\ tr'.pc = "idle"
      BY <2>5 DEF applyTraitsStatusError, IdleTr
    <3> QED
      BY <3>1 DEF FitInv
  <2> QED
    BY <1>3, <2>1, <2>2, <2>3, <2>4, <2>5 DEF TrMoves
<1>4. CASE Crash
  BY <1>4 DEF FitInv, Crash, IdleTr
<1>5. CASE Environment
  BY <1>5, WorldFrame DEF FitInv, WorldLeaves
<1> QED
  BY <1>1, <1>2, <1>3, <1>4, <1>5, Whose

\* The traits controller takes no report of success back.
LEMMA TrReports ==
    ASSUME TypeOK, FitInv, TrMoves, hv.traitsUpdated = "True"
    PROVE  hv'.traitsUpdated = "True"
<1>1. tr.pc = "idle"
  BY DEF FitInv
<1> QED
  BY <1>1 DEF TrMoves, trReconcile, UpdateTraits, applyTraitsStatus, UpdateTraitsError,
              applyTraitsStatusError

\* A pass of the aggregates controller that takes the host out of the test
\* aggregate is one for the handover, or for a host that is on its way out.
LEMMA AimStep ==
    ASSUME "stale_read" \notin Faults, TypeOK, IdInv, ServerInv, PhaseInv, AggInv, FitInv, AimInv, Next
    PROVE  AimInv'
<1>1. CASE OnMoves
  <2>1. PhaseMoves /\ OnLeaves
    BY <1>1, PhaseMovesOn, OnFrame
  <2>2. hv.onboarding \in Later => hv'.onboarding \in Later
    BY <1>1, LaterStays
  <2>3. hv'.onboarding = "Handover" => hv.onboarding \in {"Testing", "Handover"}
    BY <2>1 DEF PhaseMoves, PhaseInv
  <2>4. hv.evicted => /\ hv'.onboarding \notin {"Testing", "Handover"}
                      /\ on'.pc # "idle" => on'.out \notin {"Testing", "Handover"}
    BY <2>1 DEF PhaseMoves, AimInv, Reads, Stuck, TypeOK, Hypervisor
  <2>5. "Testing" \notin Later
    BY DEF Later, Closed, Over, Stuck
  <2> QED
    BY <2>1, <2>2, <2>3, <2>4, <2>5 DEF AimInv, OnLeaves
<1>2. CASE AggMoves
  <2>1. AggDoes /\ AggLeaves
    BY <1>2, AggDoesIt, AggFrame
  <2>2. CASE agg.pc = "idle" /\ UNCHANGED <<hv, nova>> /\ \E h \in {hv, prev} : AggReads(h)
    <3>1. AggReads(hv)
      BY <2>2 DEF AggReads
    <3>2. ASSUME agg'.pc # "idle", agg'.reason = "Succeeded"
          PROVE  /\ agg'.want \in Specs /\ hv.onboarding \in Later
                 /\ hv.onboarding = "Handover" => hv.traitsUpdated = "True"
      <4>1. hv.ids /\ Desires(hv, agg'.want, agg'.reason)
        BY <3>1, <3>2 DEF AggReads
      <4>2. /\ agg'.want = hv.specAggregates /\ hv.onboarding \notin {"Initial", "Testing"}
            /\ hv.onboarding = "Handover" => hv.traitsUpdated = "True"
        BY <3>2, <4>1 DEF Desires
      <4> QED
        BY <4>1, <4>2 DEF IdInv, TypeOK, Hypervisor, Phases, Later, Closed, Over, Stuck
    <3>3. ASSUME agg'.pc # "idle", Test \notin agg'.want
          PROVE  \/ agg'.reason = "Succeeded" \/ hv.evicted
                 \/ agg'.want = hv.aggregates /\ ~ agg'.changed /\ agg'.pc = "patch"
      <4>1. Test \in TestAggregates
        BY DEF TestAggregates
      <4> QED
        BY <3>1, <3>3, <4>1 DEF AggReads, Desires
    <3>4. agg'.pc = "patch" => agg'.want = hv.aggregates
      BY <3>1 DEF AggReads
    <3> QED
      BY <2>1, <2>2, <3>2, <3>3, <3>4 DEF AimInv, AggLeaves
  <2>3. CASE /\ agg.pc \in {"list", "add", "remove"} /\ UNCHANGED hv
             /\ agg'.want = agg.want /\ agg'.reason = agg.reason
             /\ agg'.pc = "patch" /\ ~ agg'.changed => agg'.failed
    BY <2>1, <2>3 DEF AimInv, AggLeaves
  <2>4. CASE agg'.pc = "idle"
    BY <2>1, <2>4 DEF AimInv, AggLeaves
  <2> QED
    BY <2>1, <2>2, <2>3, <2>4 DEF AggDoes
<1>3. CASE TrMoves
  BY <1>3, TrFrame, TrReports DEF AimInv, TrLeaves
<1>4. CASE Crash
  BY <1>4 DEF AimInv, Crash, IdleOn, IdleAgg
<1>5. CASE Environment
  <2>1. WorldLeaves
    BY <1>5, WorldFrame
  <2>2. hv'.evicted /\ ~ hv.evicted =>
            /\ hv.terminating /\ hv.onboarding \notin {"Testing", "Handover"}
            /\ on.pc # "idle" => on.out \notin {"Testing", "Handover"}
    BY <2>1 DEF WorldLeaves, PhaseInv, Over
  <2> QED
    BY <2>1, <2>2 DEF AimInv, WorldLeaves
<1> QED
  BY <1>1, <1>2, <1>3, <1>4, <1>5, Whose

\* The onboarding controller keeps HandInv: it enters the tests from the test
\* aggregate, and succeeds after the two others have reported.
LEMMA HandOn ==
    ASSUME "stale_read" \notin Faults, TypeOK, IdInv, ServerInv, PhaseInv, HandInv, OnMoves
    PROVE  HandInv'
<1>1. PhaseMoves /\ OnLeaves
  BY PhaseMovesOn, OnFrame
<1>2. Released' <=> Released
  BY <1>1 DEF OnLeaves, Released
<1>3. Tested' => Tested \/ Test \in hv.aggregates
  <2>1. Test \in TestAggregates
    BY DEF TestAggregates
  <2> QED
    BY <1>1, <2>1 DEF PhaseMoves, PhaseInv, Reads, Tested, Stuck
<1>4. hv'.onboarding = "Succeeded" \/ (on'.pc # "idle" /\ on'.out = "Succeeded")
        => Released /\ hv.traitsUpdated = "True"
  BY <1>1 DEF PhaseMoves, Reads, HandInv, Stuck
<1>5. hv'.onboarding = "Handover" /\ hv.aggregatesUpdated = "Succeeded" => hv.onboarding = "Handover"
  BY <1>1 DEF PhaseMoves, PhaseInv, HandInv, Later, Closed, Over, Stuck
<1>6. hv.aggregatesUpdated = "Succeeded" => hv'.onboarding \in Later
  BY LaterStays DEF HandInv
<1> QED
  BY <1>1, <1>2, <1>3, <1>4, <1>5, <1>6 DEF HandInv, OnLeaves

\* So does the aggregates controller: it removes the host from the test
\* aggregate for the handover, and never puts it back.
LEMMA HandAgg ==
    ASSUME "stale_read" \notin Faults, TypeOK, IdInv, PhaseInv, AggInv, FitInv, AimInv, HandInv, AggMoves
    PROVE  HandInv'
<1>1. AggDoes /\ AggLeaves
  BY AggDoesIt, AggFrame
<1>2. Tested' <=> Tested
  BY <1>1 DEF Tested, AggLeaves
<1>3. \A s \in Specs : Test \notin s
  BY ConstantsAssumption
<1>4. CASE agg.pc = "idle" /\ UNCHANGED <<hv, nova>> /\ \E h \in {hv, prev} : AggReads(h)
  <2>1. AggReads(hv)
    BY <1>4 DEF AggReads
  <2>2. ASSUME agg'.pc # "idle", Tested, Test \notin hv.aggregates PROVE Test \notin agg'.want
    <3>1. Desires(hv, agg'.want, agg'.reason)
      BY <2>1, <2>2 DEF AggReads
    <3>2. hv.traitsUpdated = "True" /\ hv.onboarding \in Later
      BY <2>2 DEF HandInv, FitInv
    <3>3. hv.onboarding \notin {"Initial", "Testing"} /\ hv.specAggregates \in Specs
      BY <3>2 DEF Later, Closed, Over, Stuck, TypeOK, Hypervisor
    <3> QED
      BY <1>3, <2>2, <3>1, <3>2, <3>3 DEF Desires
  <2>3. ASSUME Released, hv.onboarding \in {"Handover", "Succeeded"} PROVE Released'
    BY <1>4, <2>2, <2>3 DEF Released, Tested
  <2>4. on.pc # "idle" /\ on.out = "Succeeded" => hv.onboarding = "Handover"
    BY DEF PhaseInv
  <2> QED
    BY <1>1, <1>2, <1>4, <2>2, <2>3, <2>4 DEF HandInv, AggLeaves
<1>5. CASE /\ agg.pc \in {"list", "add", "remove"} /\ UNCHANGED hv
           /\ agg'.pc # "idle" /\ agg'.want = agg.want
           /\ nova'.aggregates \subseteq nova.aggregates \cup agg.want
  <2>1. Released => Released'
    BY <1>5 DEF Released
  <2>2. Test \notin nova.aggregates /\ Test \notin agg.want => Test \notin nova'.aggregates
    BY <1>5
  <2> QED
    BY <1>1, <1>2, <1>5, <2>1, <2>2 DEF HandInv, AggLeaves
<1>6. CASE /\ agg.pc = "patch" /\ UNCHANGED nova /\ agg'.pc = "idle"
           /\ hv'.aggregates = (IF agg.changed THEN agg.want ELSE hv.aggregates)
           /\ hv'.aggregatesUpdated = (IF agg.failed THEN "Failed" ELSE agg.reason)
  <2>1. Released => Released'
    BY <1>6 DEF Released
  <2>2. ASSUME hv'.aggregatesUpdated = "Succeeded"
        PROVE  /\ hv.onboarding \in Later /\ Test \notin hv'.aggregates
               /\ hv.onboarding = "Handover" => hv.traitsUpdated = "True"
    <3>1. agg.reason = "Succeeded" /\ ~ agg.failed
      BY <1>6, <2>2
    <3> QED
      BY <1>3, <1>6, <3>1 DEF AimInv
  <2>3. Tested /\ Test \notin hv'.aggregates => Test \notin nova.aggregates
    BY <1>6 DEF HandInv, AggInv
  <2>4. Tested /\ hv.traitsUpdated # "True" => Test \in hv'.aggregates
    <3> SUFFICES ASSUME Tested, Test \notin hv'.aggregates PROVE hv.traitsUpdated = "True"
      OBVIOUS
    <3>1. CASE ~ agg.changed
      BY <1>6, <3>1 DEF HandInv
    <3>2. CASE agg.changed
      <4>1. agg.reason = "Succeeded" \/ hv.evicted
        BY <1>6, <3>2 DEF AimInv
      <4>2. hv.onboarding \notin {"Initial", "Testing"}
        BY <1>6, <4>1 DEF AimInv, Tested, PhaseInv, Later, Closed, Over, Stuck
      <4>3. hv.onboarding \in {"Handover", "Succeeded"}
        BY <4>2 DEF Tested, PhaseInv
      <4> QED
        BY <1>6, <4>1, <4>3 DEF AimInv, HandInv
    <3> QED
      BY <3>1, <3>2
  <2>5. hv.onboarding = "Handover" /\ hv'.aggregatesUpdated = "Succeeded" => Released'
    BY <1>6, <2>2, <2>3 DEF Released, Tested
  <2> QED
    BY <1>1, <1>2, <1>6, <2>1, <2>2, <2>3, <2>4, <2>5 DEF HandInv, AggLeaves
<1>7. CASE UNCHANGED <<hv, nova>> /\ agg'.pc = "idle"
  <2>1. Released => Released'
    BY <1>7 DEF Released
  <2> QED
    BY <1>1, <1>2, <1>7, <2>1 DEF HandInv, AggLeaves
<1> QED
  BY <1>1, <1>4, <1>5, <1>6, <1>7 DEF AggDoes

\* So does everyone.
LEMMA HandStep ==
    ASSUME "stale_read" \notin Faults, TypeOK, IdInv, ServerInv, PhaseInv, AggInv, FitInv, AimInv,
           HandInv, Next
    PROVE  HandInv'
<1>1. CASE OnMoves
  BY <1>1, HandOn
<1>2. CASE AggMoves
  BY <1>2, HandAgg
<1>3. CASE TrMoves
  BY <1>3, TrFrame, TrReports DEF HandInv, Released, Tested, TrLeaves
<1>4. CASE Crash
  BY <1>4 DEF HandInv, Released, Tested, Crash, IdleOn, IdleAgg
<1>5. CASE Environment
  BY <1>5, WorldFrame DEF HandInv, Released, Tested, WorldLeaves
<1> QED
  BY <1>1, <1>2, <1>3, <1>4, <1>5, Whose

\* "Wait for aggregates and traits controllers to sync": a host that is
\* onboarded is out of the test aggregate and has its traits, where versions
\* are read late nowhere and the traits of the spec stay the same.
THEOREM HandedOver ==
    ASSUME "stale_read" \notin Faults, "change_traits" \notin Faults
    PROVE  Spec => []SucceededMeansHandedOver
<1> DEFINE Base == IdInv /\ ServerInv /\ PhaseInv /\ AggInv /\ TraitInv
           Inv == Base /\ FitInv /\ AimInv /\ HandInv
<1>1. Init => Inv
  <2> SUFFICES ASSUME Init PROVE Inv
    OBVIOUS
  <2>1. /\ hv.onboarding = "None" /\ hv.traitsUpdated = "None" /\ hv.aggregatesUpdated = "None"
        /\ ~ hv.evicted /\ on.pc = "idle" /\ agg.pc = "idle" /\ tr.pc = "idle"
    BY DEF Init, IdleOn, IdleAgg, IdleTr
  <2>2. FitInv /\ AimInv /\ HandInv
    BY <2>1 DEF FitInv, AimInv, HandInv, Tested
  <2> QED
    BY <2>2, Starts
<1>2. TypeOK /\ Inv /\ [Next]_vars => Inv'
  <2> SUFFICES ASSUME TypeOK, Inv, [Next]_vars PROVE Inv'
    OBVIOUS
  <2>1. Base'
    <3>1. IdInv' /\ AggInv' /\ TraitInv'
      BY IdStep, AggStepKeeps, TraitStep
    <3>2. ServerInv' /\ PhaseInv'
      BY ServerStep, PhaseStep DEF TestsAreCurrent
    <3> QED
      BY <3>1, <3>2
  <2>2. CASE Next
    <3>1. FitInv' /\ AimInv' /\ HandInv'
      BY <2>2, FitStep, AimStep, HandStep
    <3> QED
      BY <2>1, <3>1
  <2>3. CASE UNCHANGED vars
    <3>1. FitInv' /\ AimInv' /\ HandInv'
      BY <2>3 DEF vars, FitInv, AimInv, HandInv, Released, Tested
    <3> QED
      BY <2>1, <3>1
  <2> QED
    BY <2>2, <2>3
<1>3. Inv => SucceededMeansHandedOver
  BY DEF HandInv, TraitInv, SucceededMeansHandedOver, Released, Fitted
<1> QED
  BY <1>1, <1>2, <1>3, TypesHold, PTL DEF Spec

-----------------------------------------------------------------------------
(* No wakeup is lost.                                                      *)

\* Whoever changes the Hypervisor wakes the traits controller, and under
\* lifecycle management the aggregates controller; nobody puts them to sleep.
Tells == /\ hv' # hv => queue'.tr /\ (hv'.lifecycle => queue'.agg)
         /\ queue.agg => queue'.agg
         /\ queue.tr => queue'.tr

\* That is what an event does.
LEMMA EventIs ==
    ASSUME NEW new, NEW q \in Queues
    PROVE  /\ new # hv => Event(new, q).tr /\ (new.lifecycle => Event(new, q).agg)
           /\ q.agg => Event(new, q).agg
           /\ q.tr => Event(new, q).tr
BY DEF Event, Queues

\* The onboarding controller does so,
LEMMA OnTells == ASSUME TypeOK, OnMoves PROVE Tells
<1> USE DEF Tells
<1>1. CASE \E h \in {hv, prev} : onReconcile(h)
  <2>1. PICK h \in {hv, prev} : onReconcile(h)
    BY <1>1
  <2>2. hv' = hv /\ (Retry \/ \E pc, out : Take(h, pc, out))
    BY <2>1, Zenon DEF onReconcile, abortOnboarding, onboard, handover
  <2> QED
    BY <2>2 DEF Retry, Take, TypeOK
<1>2. CASE lookupNovaProperties
  BY <1>2 DEF lookupNovaProperties, Apply, Go, Retry, TypeOK
<1>3. CASE initialOnboarding
  BY <1>3 DEF initialOnboarding, Apply, Go, Retry, TypeOK
<1>4. CASE createOrGetTestServer \/ deleteOutdatedError
  <2>1. hv' = hv /\ (UNCHANGED queue \/ Retry \/ Go("look", on.out))
    BY <1>4 DEF createOrGetTestServer, deleteOutdatedError, GetTestServer, Disturb
  <2> QED
    BY <2>1 DEF Retry, Go, TypeOK
<1>5. CASE deleteOrphanedTestVolumes
  BY <1>5 DEF deleteOrphanedTestVolumes, Swept, Go, Retry, TypeOK
<1>6. CASE createTestServer
  BY <1>6 DEF createTestServer, Go, Retry, TypeOK
<1>7. CASE smokeTest
  <2>1. \/ hv' = hv /\ (Retry \/ Go("cleanup", on.out))
        \/ hv' = [hv EXCEPT !.onboarding = "Testing"] /\ queue' = Event(hv', queue)
    BY <1>7 DEF smokeTest, setTestingCondition
  <2>2. CASE hv' = hv /\ (Retry \/ Go("cleanup", on.out))
    BY <2>2 DEF Retry, Go, TypeOK
  <2>3. CASE queue' = Event(hv', queue)
    BY <2>3, EventIs DEF TypeOK, Queues
  <2> QED
    BY <2>1, <2>2, <2>3
<1>8. CASE deleteTestServers
  BY <1>8 DEF deleteTestServers, Apply, Go, Retry, TypeOK
<1>9. CASE onApply
  <2>1. queue' = Event(hv', queue)
    BY <1>9 DEF onApply, HvBecomes
  <2> QED
    BY <2>1, EventIs DEF TypeOK, Queues
<1>10. CASE smokeTestError
  BY <1>10 DEF smokeTestError, Go, Retry, TypeOK
<1>11. CASE smokeTestTimeout
  <2>1. queue' = [Event(hv', queue) EXCEPT !.on = TRUE]
    BY <1>11 DEF smokeTestTimeout
  <2>2. hv' \in Hypervisor
    BY <1>11, HvTyped DEF smokeTestTimeout, setTestingCondition, TypeOK, Phases
  <2>3. Event(hv', queue) \in Queues
    BY <2>2, EventTyped DEF TypeOK, Queues
  <2>4. queue'.agg = Event(hv', queue).agg /\ queue'.tr = Event(hv', queue).tr
    BY <2>1, <2>3 DEF Queues
  <2> QED
    BY <2>4, EventIs DEF TypeOK, Queues
<1>12. CASE deleteOrphanedTestVolumesError
  BY <1>12 DEF deleteOrphanedTestVolumesError, Swept, Go, Retry, TypeOK
<1>13. CASE deleteTestServersError
  BY <1>13 DEF deleteTestServersError, Go, Retry, TypeOK
<1>14. CASE onError
  BY <1>14 DEF onError, Go, Retry, TypeOK
<1> QED
  BY <1>1, <1>2, <1>3, <1>4, <1>5, <1>6, <1>7, <1>8, <1>9, <1>10, <1>11, <1>12, <1>13,
      <1>14 DEF OnMoves

\* and the rest of the world.
LEMMA WorldTells == ASSUME TypeOK, Environment PROVE Tells
<1>1. queue' = Event(hv', queue) \/ UNCHANGED <<hv, queue>>
  BY DEF Environment, haEnabled, terminate, evicted, lifecycleOff, changeSpec, agentRegisters,
         serverBoots, serverFails, strayServer, neighbourBuilds, neighbourBoots, Outside,
         HvBecomes, NovaBecomes
<1>2. CASE queue' = Event(hv', queue)
  BY <1>2, EventIs DEF Tells, TypeOK, Queues
<1>3. CASE UNCHANGED <<hv, queue>>
  BY <1>3 DEF Tells
<1> QED
  BY <1>1, <1>2, <1>3

\* What the aggregates controller does to the queue, and with what it finds.
AggWakes ==
    /\ hv' # hv => queue'.tr /\ (hv'.lifecycle => queue'.agg)
    /\ queue.tr => queue'.tr
    /\ agg.pc = "idle" => /\ hv' = hv
                          /\ \E h \in {hv, prev} : AggReads(h) /\ (hv.lifecycle /\ ~ queue'.agg => h = hv)
    /\ agg.pc \in {"list", "add", "remove"} => UNCHANGED <<hv, queue>>
    /\ agg.pc = "patch" => \/ queue'.agg
                           \/ /\ ~ agg.failed /\ ~ queue.agg /\ hv'.aggregatesUpdated = agg.reason
                              /\ hv'.aggregates = (IF agg.changed THEN agg.want ELSE hv.aggregates)

\* Every step of the controller is like that.
LEMMA AggTells == ASSUME TypeOK, AggMoves PROVE AggWakes
<1> USE DEF AggWakes
<1>1. CASE \E h \in {hv, prev} : aggReconcile(h)
  <2>1. PICK h \in {hv, prev} : aggReconcile(h)
    BY <1>1
  <2>2. agg.pc = "idle" /\ hv' = hv /\ AggReads(h)
    BY <2>1, AggReadIs DEF aggReconcile
  <2>3. queue'.agg = (h # hv /\ hv.lifecycle) /\ queue'.tr = queue.tr
    BY <2>1 DEF aggReconcile, TypeOK
  <2> QED
    BY <2>2, <2>3
<1>2. CASE listAggregates
  BY <1>2 DEF listAggregates
<1>3. CASE \E a \in Aggregates : addHost(a)
  BY <1>3 DEF addHost
<1>4. CASE added
  BY <1>4 DEF added
<1>5. CASE \E a \in Aggregates : removeHost(a)
  BY <1>5 DEF removeHost
<1>6. CASE removed
  BY <1>6 DEF removed
<1>7. CASE aggPatch
  <2>1. /\ agg.pc = "patch"
        /\ hv'.aggregates = (IF agg.changed THEN agg.want ELSE hv.aggregates)
        /\ hv'.aggregatesUpdated = (IF agg.failed THEN "Failed" ELSE agg.reason)
    BY <1>7 DEF aggPatch, TypeOK, Hypervisor
  <2> DEFINE q == [queue EXCEPT !.agg = @ \/ agg.failed]
  <2>2. queue' = Event(hv', q)
    BY <1>7 DEF aggPatch
  <2>3. q \in Queues /\ (q.agg <=> queue.agg \/ agg.failed) /\ q.tr = queue.tr
    BY DEF TypeOK, Queues
  <2> HIDE DEF q
  <2> QED
    BY <2>1, <2>2, <2>3, EventIs
<1>8. CASE listAggregatesError
  BY <1>8 DEF listAggregatesError
<1>9. CASE \E a \in Aggregates : addHostError(a)
  BY <1>9 DEF addHostError
<1>10. CASE \E a \in Aggregates : removeHostError(a)
  BY <1>10 DEF removeHostError
<1>11. CASE aggPatchError
  <2>1. agg.pc = "patch" /\ hv' = hv /\ queue'.tr = queue.tr
    BY <1>11 DEF aggPatchError, TypeOK
  <2>2. queue'.agg
    BY <1>11, Zenon DEF aggPatchError, TypeOK
  <2> QED
    BY <2>1, <2>2
<1> QED
  BY <1>1, <1>2, <1>3, <1>4, <1>5, <1>6, <1>7, <1>8, <1>9, <1>10, <1>11 DEF AggMoves

\* The aggregates controller keeps WakeInv.
LEMMA WakeAgg == ASSUME TypeOK, AggInv, WakeInv, AggMoves PROVE WakeInv'
<1>1. AggWakes /\ AggDoes /\ AggLeaves
  BY AggTells, AggDoesIt, AggFrame
<1>2. ~ queue'.tr => IF tr'.pc = "idle" THEN TrSettled(hv') ELSE TrNews'
  <2> SUFFICES ASSUME ~ queue'.tr PROVE IF tr'.pc = "idle" THEN TrSettled(hv') ELSE TrNews'
    OBVIOUS
  <2>1. hv' = hv /\ tr' = tr /\ ~ queue.tr
    BY <1>1 DEF AggWakes, AggLeaves
  <2> QED
    BY <2>1 DEF WakeInv, TrNews
<1>3. ASSUME hv'.lifecycle, ~ queue'.agg PROVE IF agg'.pc = "idle" THEN AggSettled(hv') ELSE AggNews'
  <2>1. hv' = hv
    BY <1>1, <1>3 DEF AggWakes
  <2>2. CASE agg.pc = "idle"
    <3>1. AggReads(hv)
      BY <1>1, <1>3, <2>1, <2>2 DEF AggWakes
    <3> QED
      BY <2>1, <3>1 DEF AggReads, AggSettled, AggNews
  <2>3. CASE agg.pc \in {"list", "add", "remove"}
    <3>1. UNCHANGED queue /\ agg.want # hv.aggregates
      BY <1>1, <1>3, <2>1, <2>3 DEF AggWakes, WakeInv, AggNews
    <3>2. agg'.pc # "idle" /\ agg'.want = agg.want /\ (agg'.pc = "patch" /\ ~ agg'.changed => agg'.failed)
      BY <1>1, <2>3 DEF AggDoes
    <3> QED
      BY <2>1, <3>1, <3>2 DEF AggNews
  <2>4. CASE agg.pc = "patch"
    <3>1. /\ ~ agg.failed /\ ~ queue.agg /\ hv.aggregatesUpdated = agg.reason
          /\ hv.aggregates = (IF agg.changed THEN agg.want ELSE hv.aggregates)
      BY <1>1, <1>3, <2>1, <2>4 DEF AggWakes
    <3>2. AggNews
      BY <1>3, <2>1, <2>4, <3>1 DEF WakeInv
    <3> QED
      BY <2>4, <3>1, <3>2 DEF AggNews
  <2> QED
    BY <2>2, <2>3, <2>4 DEF TypeOK
<1> QED
  BY <1>2, <1>3 DEF WakeInv

\* The traits controller keeps WakeInv: a pass that is not retried has read
\* the last version, and reports what is new.
LEMMA WakeTr == ASSUME TypeOK, WakeInv, TrMoves PROVE WakeInv'
<1>0. TrLeaves
  BY TrFrame
<1>1. ASSUME /\ hv' # hv => (hv'.lifecycle => queue'.agg)
             /\ queue.agg => queue'.agg
      PROVE  hv'.lifecycle /\ ~ queue'.agg => IF agg'.pc = "idle" THEN AggSettled(hv') ELSE AggNews'
  <2> SUFFICES ASSUME hv'.lifecycle, ~ queue'.agg
               PROVE  IF agg'.pc = "idle" THEN AggSettled(hv') ELSE AggNews'
    OBVIOUS
  <2>1. hv' = hv /\ agg' = agg /\ ~ queue.agg
    BY <1>0, <1>1 DEF TrLeaves
  <2> QED
    BY <2>1 DEF WakeInv, AggNews
<1>2. CASE \E h \in {hv, prev} : trReconcile(h)
  <2>1. PICK h \in {hv, prev} : trReconcile(h)
    BY <1>2
  <2>2. hv' = hv /\ TrReads(h)
    BY <2>1, TrReadIs
  <2>3. queue'.agg = queue.agg /\ (~ queue'.tr => h = hv)
    BY <2>1 DEF trReconcile, TypeOK
  <2>4. ~ queue'.tr => IF tr'.pc = "idle" THEN TrSettled(hv') ELSE TrNews'
    BY <2>2, <2>3 DEF TrReads, TrNews
  <2> QED
    BY <1>1, <2>2, <2>3, <2>4 DEF WakeInv
<1>3. CASE UpdateTraits
  <2>1. /\ tr.pc = "put" /\ UNCHANGED <<hv, queue>>
        /\ tr'.pc = "apply" /\ tr'.out = tr.want
    BY <1>3 DEF UpdateTraits, TypeOK
  <2>2. ~ queue'.tr => TrNews'
    BY <2>1 DEF WakeInv, TrNews
  <2> QED
    BY <1>1, <2>1, <2>2 DEF WakeInv
<1>4. CASE applyTraitsStatus
  <2> DEFINE q == [queue EXCEPT !.tr = @ \/ ~ tr.ok]
  <2>1. queue' = Event(hv', q) /\ tr.pc = "apply" /\ tr'.pc = "idle"
    BY <1>4 DEF applyTraitsStatus, IdleTr
  <2>2. hv'.traits = tr.out /\ hv'.traitsUpdated = (IF tr.ok THEN "True" ELSE "False")
    BY <1>4 DEF applyTraitsStatus, TypeOK, Hypervisor
  <2>3. q \in Queues /\ q.agg = queue.agg /\ (q.tr <=> queue.tr \/ ~ tr.ok)
    BY DEF TypeOK, Queues
  <2> HIDE DEF q
  <2>4. /\ hv' # hv => queue'.tr /\ (hv'.lifecycle => queue'.agg)
        /\ queue.agg => queue'.agg
        /\ queue.tr \/ ~ tr.ok => queue'.tr
    BY <2>1, <2>3, EventIs
  <2>5. queue'.tr
    <3> SUFFICES ASSUME ~ queue.tr, tr.ok PROVE hv' # hv
      BY <2>4
    <3>1. TrNews
      BY <2>1 DEF WakeInv
    <3> QED
      BY <2>1, <2>2, <3>1 DEF TrNews
  <2> QED
    BY <1>1, <2>4, <2>5 DEF WakeInv
<1>5. CASE UpdateTraitsError
  <2>1. tr'.pc = "apply" /\ ~ tr'.ok
    BY <1>5, Zenon DEF UpdateTraitsError, TypeOK
  <2>2. UNCHANGED <<hv, queue>>
    BY <1>5 DEF UpdateTraitsError
  <2> QED
    BY <1>1, <2>1, <2>2 DEF WakeInv, TrNews
<1>6. CASE applyTraitsStatusError
  <2>1. queue'.tr
    BY <1>6, Zenon DEF applyTraitsStatusError, TypeOK
  <2>2. hv' = hv /\ queue'.agg = queue.agg
    BY <1>6 DEF applyTraitsStatusError, TypeOK
  <2> QED
    BY <1>1, <2>1, <2>2 DEF WakeInv
<1> QED
  BY <1>2, <1>3, <1>4, <1>5, <1>6 DEF TrMoves

\* So does everyone: a step that leaves the Hypervisor alone leaves their
\* passes alone, and one that changes it wakes them.
LEMMA WakeStep == TypeOK /\ AggInv /\ WakeInv /\ [Next]_vars => WakeInv'
<1> SUFFICES ASSUME TypeOK, AggInv, WakeInv, [Next]_vars PROVE WakeInv'
  OBVIOUS
<1>1. CASE UNCHANGED <<hv, queue, agg, tr>>
  BY <1>1 DEF WakeInv, AggNews, TrNews
<1>2. CASE Tells /\ UNCHANGED <<agg, tr>>
  <2>1. CASE hv' = hv
    BY <1>2, <2>1 DEF Tells, WakeInv, AggNews, TrNews
  <2>2. CASE hv' # hv
    BY <1>2, <2>2 DEF Tells, WakeInv
  <2> QED
    BY <2>1, <2>2
<1>3. CASE OnMoves
  BY <1>2, <1>3, OnTells, OnFrame DEF OnLeaves
<1>4. CASE Environment
  BY <1>2, <1>4, WorldTells, WorldFrame DEF WorldLeaves
<1>5. CASE Crash
  <2>1. queue' = [on |-> TRUE, agg |-> hv.lifecycle, tr |-> TRUE] /\ hv' = hv
    BY <1>5 DEF Crash
  <2> QED
    BY <2>1 DEF WakeInv
<1> QED
  BY <1>1, <1>3, <1>4, <1>5, WakeAgg, WakeTr, Whose DEF vars

\* No wakeup is lost: with an onboarding behind it, a hypervisor at rest has
\* the aggregates and the traits of its spec in its report, whatever has
\* failed, changed or been read late on the way.
THEOREM NoWakeupIsLost == Spec => []RestIsInSync
<1>1. Init => WakeInv
  <2> SUFFICES ASSUME Init PROVE WakeInv
    OBVIOUS
  <2>1. queue = [on |-> TRUE, agg |-> TRUE, tr |-> TRUE]
    BY DEF Init
  <2> QED
    BY <2>1 DEF WakeInv
<1>2. TypeOK /\ IdInv /\ WakeInv => RestIsInSync
  <2> SUFFICES ASSUME TypeOK, IdInv, WakeInv, Quiet, hv.lifecycle, ~ hv.terminating,
                      hv.onboarding \in Over
               PROVE  /\ hv.aggregates = hv.specAggregates /\ hv.aggregatesUpdated = "Succeeded"
                      /\ hv.traits = hv.customTraits /\ hv.traitsUpdated = "True"
    BY DEF RestIsInSync
  <2>1. AggSettled(hv) /\ TrSettled(hv) /\ hv.ids
    BY DEF WakeInv, Quiet, IdInv, Over
  <2>2. trApplies(hv)
    BY <2>1 DEF trApplies
  <2>3. Desires(hv, hv.aggregates, hv.aggregatesUpdated)
    BY <2>1, DesiresIs DEF AggSettled, TypeOK
  <2>4. hv.aggregates = hv.specAggregates /\ hv.aggregatesUpdated = "Succeeded"
    BY <2>3 DEF Desires, Over
  <2> QED
    BY <2>1, <2>2, <2>4 DEF TrSettled
<1>3. Init => AggInv
  BY Starts
<1> QED
  BY <1>1, <1>2, <1>3, AggStepKeeps, WakeStep, BaseHolds, PTL DEF Spec

-----------------------------------------------------------------------------
(* No volume is left behind.                                               *)

\* What deleting the test server makes of the volumes.
LEMMA DeletedVolumes ==
    ASSUME NEW n \in Nova, NEW leak
    PROVE  /\ Deleted(n, leak).server = "none" /\ "mine" \notin Deleted(n, leak).volumes
           /\ "gone" \in Deleted(n, leak).volumes => "gone" \in n.volumes \/ "mine" \in n.volumes
BY DEF Deleted, Nova

\* The onboarding controller keeps OrphanInv: a leak is followed by another
\* sweep before the next server, or by the end.
LEMMA OrphanOn ==
    ASSUME "stale_read" \notin Faults, TypeOK, IdInv, ServerInv, PhaseInv, OrphanInv, OnMoves
    PROVE  OrphanInv'
<1>0. faults \in Nat
  BY ConstantsAssumption DEF TypeOK
<1>1. CASE \E h \in {hv, prev} : onReconcile(h)
  <2>1. PICK h \in {hv, prev} : onReconcile(h)
    BY <1>1
  <2>2. UNCHANGED <<hv, nova>> /\ Reads(hv) /\ on.pc = "idle" /\ faults' = faults
    BY <2>1, ReadIs DEF Reads, onReconcile, Snapshot, Disturb
  <2>3. on'.pc = "idle" \/ on'.pc \in {"lookup", "enable", "smoke", "cleanup", "apply"}
    BY <2>2 DEF Reads
  <2>4. on'.pc = "cleanup" => on'.out \in Aborted \/ SkipTests
    BY <2>2 DEF Reads, Aborted
  <2>5. on'.pc # "idle" /\ on'.out \in Aborted =>
            on'.pc = "cleanup" /\ (~ hv.lifecycle \/ hv.terminating)
    BY <2>2 DEF Reads, Aborted, Stuck
  <2>6. hv.onboarding = "Testing" => \/ on'.pc = "idle" \/ on'.out \in Aborted
                                     \/ on'.pc = IF SkipTests THEN "cleanup" ELSE "smoke"
    BY <2>2 DEF Reads, Aborted, IdInv, TypeOK, Hypervisor
  <2>7. SkipTests => nova.server = "none"
    BY DEF ServerInv
  <2> QED
    BY <2>2, <2>3, <2>4, <2>5, <2>6, <2>7 DEF OrphanInv, Dropped, Unswept
<1>2. CASE lookupNovaProperties
  <2>1. /\ UNCHANGED <<hv, nova, faults>> /\ on.pc = "lookup"
        /\ on'.pc = "idle" \/ (on'.pc = "apply" /\ on'.out = "Initial")
    BY <1>2, MovesAre DEF lookupNovaProperties, Apply
  <2> QED
    BY <2>1 DEF OrphanInv, Dropped, Unswept, Aborted, Stuck
<1>3. CASE initialOnboarding
  <2>1. UNCHANGED <<hv, faults>> /\ on.pc = "enable" /\ on'.pc = "apply" /\ on'.out = "Testing"
    BY <1>3, MovesAre DEF initialOnboarding, Apply
  <2>2. nova'.server = nova.server /\ nova'.volumes = nova.volumes
    BY <1>3 DEF initialOnboarding, TypeOK, Nova
  <2> QED
    BY <2>1, <2>2 DEF OrphanInv, Dropped, Unswept, Aborted, Stuck
<1>4. CASE createOrGetTestServer \/ deleteOutdatedError
  <2>1. UNCHANGED hv /\ on.pc = "smoke" /\ faults' \in {faults, faults + 1} /\ faults \in Nat
    BY <1>4, ConstantsAssumption DEF createOrGetTestServer, deleteOutdatedError, GetTestServer,
        Disturb, TypeOK
  <2>2. nova'.server = nova.server /\ nova'.volumes = nova.volumes
    BY <1>4 DEF createOrGetTestServer, deleteOutdatedError, GetTestServer, Disturb, TypeOK, Nova
  <2>3. \/ nova.server = "none" /\ on'.pc = "sweep" /\ on'.known = Running(nova) /\ on'.out = on.out
        \/ nova.server # "none" /\ on'.pc = "idle"
        \/ nova.server # "none" /\ on'.pc = "look" /\ on'.out = on.out
    BY <1>4, MovesAre DEF createOrGetTestServer, deleteOutdatedError, GetTestServer, Disturb
  <2>4. "gone" \notin Running(nova)
    BY DEF Running
  <2>5. on'.pc # "idle" => on'.out \notin Aborted
    BY <2>1, <2>3 DEF OrphanInv
  <2> QED
    BY <2>1, <2>2, <2>3, <2>4, <2>5 DEF OrphanInv, Dropped, Unswept
<1>5. CASE deleteOrphanedTestVolumes
  <2>1. UNCHANGED <<hv, faults>> /\ on.pc = "sweep"
    BY <1>5 DEF deleteOrphanedTestVolumes
  <2>2. nova'.server = nova.server /\ nova'.volumes = nova.volumes \cap on.known
    BY <1>5 DEF deleteOrphanedTestVolumes, TypeOK, Nova
  <2>3. on'.pc = "idle" \/ (on'.pc = "create" /\ on'.out = on.out /\ on.out # "Testing")
    BY <1>5, MovesAre DEF deleteOrphanedTestVolumes, Swept
  <2>4. on.out \notin Aborted
    BY <2>1 DEF OrphanInv
  <2> QED
    BY <2>1, <2>2, <2>3, <2>4 DEF OrphanInv, Dropped, Unswept
<1>6. CASE createTestServer
  <2>1. UNCHANGED <<hv, faults>> /\ on.pc = "create" /\ on'.pc = "idle"
    BY <1>6, MovesAre DEF createTestServer
  <2>2. nova'.server = "BUILD" /\ nova'.volumes = nova.volumes \cup {"mine"}
    BY <1>6 DEF createTestServer, TypeOK, Nova
  <2>3. on.out \notin Aborted
    BY <2>1 DEF OrphanInv
  <2> QED
    BY <2>1, <2>2, <2>3 DEF OrphanInv, Dropped, Unswept
<1>7. CASE smokeTest
  <2>1. on.pc = "look" /\ faults' = faults /\ (hv' = hv \/ hv' = [hv EXCEPT !.onboarding = "Testing"])
    BY <1>7 DEF smokeTest, setTestingCondition
  <2>2. hv.onboarding = "Testing" /\ ~ SkipTests
    BY <2>1 DEF ServerInv
  <2>3. hv'.onboarding = "Testing" /\ hv'.lifecycle = hv.lifecycle /\ hv'.terminating = hv.terminating
    BY <2>1, <2>2 DEF TypeOK, Hypervisor
  <2>4. "Testing" \notin Aborted /\ on.out \notin Aborted
    BY <2>1 DEF OrphanInv, Aborted, Stuck
  <2>5. CASE nova.server = "BOOTED"
    <3>1. Go("cleanup", on.out)
      BY <1>7, <2>5 DEF smokeTest
    <3>2. PICK leak : nova' = Deleted(nova, leak)
      BY <1>7, <2>5, Zenon DEF smokeTest
    <3>3. nova'.server = "none" /\ nova'.volumes = nova.volumes
      <4>1. "mine" \notin nova.volumes
        BY <2>5 DEF OrphanInv
      <4> QED
        BY <3>2, <4>1 DEF Deleted, TypeOK, Nova
    <3>4. on'.pc = "cleanup" /\ on'.out = on.out
      BY <3>1, MovesAre
    <3> QED
      BY <2>1, <2>2, <2>3, <2>4, <2>5, <3>3, <3>4 DEF OrphanInv, Dropped, Unswept
  <2>6. CASE nova.server = "ACTIVE"
    <3>1. UNCHANGED <<hv, nova>> /\ Retry
      BY <1>7, <2>6 DEF smokeTest
    <3>2. on'.pc = "idle"
      BY <3>1, MovesAre
    <3> QED
      BY <2>1, <2>2, <2>4, <3>1, <3>2 DEF OrphanInv, Dropped, Unswept
  <2>7. CASE nova.server = "ERROR"
    <3>1. /\ \E leak : nova' = Deleted(nova, leak)
          /\ \E known : on' = [pc |-> "sweep", out |-> "Testing", known |-> known]
      BY <1>7, <2>7, Zenon DEF smokeTest
    <3>2. nova'.server = "none" /\ "mine" \notin nova'.volumes
      BY <3>1, DeletedVolumes DEF TypeOK
    <3>3. on'.pc = "sweep" /\ on'.out = "Testing"
      BY <3>1
    <3>4. faults > 0
      BY <2>7 DEF OrphanInv
    <3> QED
      BY <2>1, <2>2, <2>3, <2>4, <3>2, <3>3, <3>4 DEF OrphanInv, Dropped, Unswept
  <2> QED
    BY <1>7, <2>5, <2>6, <2>7 DEF smokeTest
<1>8. CASE deleteTestServers
  <2>1. PICK leak \in BOOLEAN : nova' = [Deleted(nova, leak) EXCEPT !.stray = FALSE]
    BY <1>8 DEF deleteTestServers
  <2>2. /\ nova'.server = "none" /\ "mine" \notin nova'.volumes
        /\ "gone" \in nova'.volumes => "gone" \in nova.volumes \/ "mine" \in nova.volumes
    <3>1. Deleted(nova, leak) \in Nova
      BY DeletedTyped DEF TypeOK
    <3>2. nova'.server = Deleted(nova, leak).server /\ nova'.volumes = Deleted(nova, leak).volumes
      BY <2>1, <3>1 DEF Nova
    <3> QED
      BY <3>2, DeletedVolumes DEF TypeOK
  <2>3. UNCHANGED <<hv, faults>> /\ on.pc = "cleanup" /\ on'.pc = "apply" /\ on'.out = on.out
    BY <1>8, MovesAre DEF deleteTestServers, Apply
  <2>4. "mine" \in nova.volumes => nova.server # "none"
    BY DEF OrphanInv
  <2>5. SkipTests => nova.server = "none"
    BY DEF ServerInv
  <2> QED
    BY <2>2, <2>3, <2>4, <2>5 DEF OrphanInv, Dropped, Unswept
<1>9. CASE onApply
  <2>1. UNCHANGED <<nova, faults>> /\ on.pc = "apply" /\ on'.pc = "idle"
    BY <1>9 DEF onApply, IdleOn
  <2>2. hv'.onboarding = on.out /\ hv'.lifecycle = hv.lifecycle /\ hv'.terminating = hv.terminating
    BY <1>9 DEF onApply, HvBecomes, TypeOK, Hypervisor
  <2>3. hv.onboarding \in Aborted => on.out \in Aborted
    BY <2>1 DEF PhaseInv, IdInv, TypeOK, Phases, Aborted, Stuck
  <2> QED
    BY <2>1, <2>2, <2>3 DEF OrphanInv, Dropped, Unswept
<1>10. CASE smokeTestError
  <2>1. UNCHANGED <<hv, nova>> /\ faults' = faults + 1 /\ on'.pc = "idle"
    BY <1>10, MovesAre DEF smokeTestError, Disturb
  <2> QED
    BY <1>0, <2>1 DEF OrphanInv, Dropped, Unswept
<1>11. CASE smokeTestTimeout
  <2>1. /\ on.pc = "look" /\ faults' = faults + 1 /\ on'.pc = "idle"
        /\ hv' = [hv EXCEPT !.onboarding = "Testing"]
    BY <1>11 DEF smokeTestTimeout, setTestingCondition, IdleOn, Disturb
  <2>2. hv.onboarding = "Testing" /\ ~ SkipTests /\ nova.server = "ACTIVE"
    BY <1>11, <2>1 DEF ServerInv, smokeTestTimeout
  <2>3. hv'.onboarding = "Testing"
    BY <2>1, <2>2 DEF TypeOK, Hypervisor
  <2>4. PICK leak : nova' = Deleted(nova, leak)
    BY <1>11, Zenon DEF smokeTestTimeout
  <2>5. "mine" \notin nova.volumes
    BY <2>2 DEF OrphanInv
  <2>6. nova'.server = "none" /\ nova'.volumes = nova.volumes
    BY <2>4, <2>5 DEF Deleted, TypeOK, Nova
  <2> QED
    BY <1>0, <2>1, <2>2, <2>3, <2>5, <2>6 DEF OrphanInv, Dropped, Unswept
<1>12. CASE deleteOrphanedTestVolumesError
  <2>1. /\ UNCHANGED <<hv, nova>> /\ faults' = faults + 1 /\ on.pc = "sweep"
        /\ on'.pc = "idle" \/ (on'.pc = "create" /\ on'.out = on.out)
    BY <1>12, MovesAre DEF deleteOrphanedTestVolumesError, Disturb, Swept
  <2> QED
    BY <1>0, <2>1 DEF OrphanInv, Dropped, Unswept
<1>13. CASE deleteTestServersError
  <2>1. PICK n \in {nova, Deleted(nova, TRUE), Deleted(nova, FALSE)}, t \in {nova.stray, FALSE} :
            nova' = [n EXCEPT !.stray = t]
    BY <1>13 DEF deleteTestServersError
  <2>2. n = nova \/ \E leak : n = Deleted(nova, leak)
    BY Zenon
  <2>3. /\ n \in Nova
        /\ n = nova \/ (n.server = "none" /\ "mine" \notin n.volumes)
        /\ "gone" \in n.volumes => "gone" \in nova.volumes \/ "mine" \in nova.volumes
    BY <2>2, DeletedTyped, DeletedVolumes DEF TypeOK
  <2>4. nova'.server = n.server /\ nova'.volumes = n.volumes
    BY <2>1, <2>3 DEF Nova
  <2>5. UNCHANGED hv /\ faults' = faults + 1 /\ on'.pc = "apply" /\ on'.out = Stuck /\ on.pc = "cleanup"
    BY <1>13 DEF deleteTestServersError, IdleOn, Disturb
  <2>6. Stuck \in Aborted
    BY DEF Aborted
  <2>7. SkipTests => nova.server = "none"
    BY DEF ServerInv
  <2> QED
    BY <1>0, <2>3, <2>4, <2>5, <2>6, <2>7 DEF OrphanInv, Dropped
<1>14. CASE onError
  <2>1. UNCHANGED <<hv, nova>> /\ faults' = faults + 1 /\ on'.pc = "idle"
    BY <1>14, MovesAre DEF onError, Disturb
  <2> QED
    BY <1>0, <2>1 DEF OrphanInv, Dropped, Unswept
<1> QED
  BY <1>1, <1>2, <1>3, <1>4, <1>5, <1>6, <1>7, <1>8, <1>9, <1>10, <1>11, <1>12, <1>13,
      <1>14 DEF OnMoves

\* What the rest of the world does to servers and volumes.
LEMMA WorldVolumes ==
    ASSUME TypeOK, Environment
    PROVE  /\ "gone" \in nova'.volumes => "gone" \in nova.volumes
           /\ "mine" \in nova'.volumes => /\ "mine" \in nova.volumes
                                          /\ nova'.server \in {nova.server, "ERROR"}
           /\ nova'.server = "ERROR" => nova.server = "ERROR" \/ faults' = faults + 1
           /\ faults' \in {faults, faults + 1}
           /\ \/ hv'.lifecycle = hv.lifecycle /\ hv'.terminating = hv.terminating
              \/ faults' = faults + 1
<1> USE DEF TypeOK, Hypervisor, Nova
<1>1. CASE haEnabled
  BY <1>1 DEF haEnabled, HvBecomes, Outside
<1>2. CASE terminate
  BY <1>2 DEF terminate, Outside, Disturb
<1>3. CASE evicted
  BY <1>3 DEF evicted, HvBecomes
<1>4. CASE lifecycleOff
  BY <1>4 DEF lifecycleOff, Outside, Disturb
<1>5. CASE changeSpec
  BY <1>5 DEF changeSpec, Outside, Disturb
<1>6. CASE agentRegisters
  BY <1>6 DEF agentRegisters, NovaBecomes
<1>7. CASE serverBoots
  BY <1>7 DEF serverBoots, NovaBecomes
<1>8. CASE serverFails
  BY <1>8 DEF serverFails, NovaBecomes, Disturb
<1>9. CASE strayServer
  BY <1>9 DEF strayServer, NovaBecomes, Disturb
<1>10. CASE neighbourBuilds
  BY <1>10 DEF neighbourBuilds, NovaBecomes, Disturb
<1>11. CASE neighbourBoots
  BY <1>11 DEF neighbourBoots, NovaBecomes
<1> QED
  BY <1>1, <1>2, <1>3, <1>4, <1>5, <1>6, <1>7, <1>8, <1>9, <1>10, <1>11 DEF Environment

\* The aggregates and the traits controller take no fault back.
LEMMA FaultsCount ==
    ASSUME AggMoves \/ TrMoves
    PROVE  faults' \in {faults, faults + 1}
BY DEF AggMoves, TrMoves, aggReconcile, listAggregates, addHost, added, removeHost, removed, aggPatch,
       listAggregatesError, addHostError, removeHostError, aggPatchError, trReconcile, UpdateTraits,
       applyTraitsStatus, UpdateTraitsError, applyTraitsStatusError, Snapshot, Disturb

\* So does everyone.
LEMMA OrphanStep ==
    ASSUME "stale_read" \notin Faults, TypeOK, IdInv, ServerInv, PhaseInv, OrphanInv, Next
    PROVE  OrphanInv'
<1>0. faults \in Nat
  BY ConstantsAssumption DEF TypeOK
<1>1. CASE OnMoves
  BY <1>1, OrphanOn
<1>2. CASE AggMoves
  BY <1>0, <1>2, AggFrame, FaultsCount DEF OrphanInv, Dropped, Unswept, AggLeaves
<1>3. CASE TrMoves
  BY <1>0, <1>3, TrFrame, FaultsCount DEF OrphanInv, Dropped, Unswept, TrLeaves
<1>4. CASE Crash
  <2>1. UNCHANGED <<hv, nova>> /\ faults' = faults + 1 /\ on'.pc = "idle"
    BY <1>4 DEF Crash, Disturb, IdleOn
  <2> QED
    BY <1>0, <2>1 DEF OrphanInv, Dropped, Unswept
<1>5. CASE Environment
  <2>1. WorldLeaves
    BY <1>5, WorldFrame
  <2>2. Dropped' <=> Dropped
    BY <2>1 DEF WorldLeaves, Dropped
  <2>3. Unswept => Unswept'
    BY <2>1 DEF WorldLeaves, Unswept
  <2>4. on' = on /\ (nova.server = "none" => nova'.server = "none")
    BY <2>1 DEF WorldLeaves
  <2> QED
    BY <1>0, <1>5, <2>2, <2>3, <2>4, WorldVolumes DEF OrphanInv
<1> QED
  BY <1>1, <1>2, <1>3, <1>4, <1>5, Whose

\* "Aborted builds can leak boot volumes": an onboarding that succeeds has left
\* none behind, unless something else failed besides the build, where versions
\* are read late nowhere.
THEOREM OrphansAreGone ==
    ASSUME "stale_read" \notin Faults
    PROVE  Spec => []OrphansAreSwept
<1> DEFINE Inv == IdInv /\ ServerInv /\ PhaseInv /\ OrphanInv
<1>1. Init => Inv
  <2> SUFFICES ASSUME Init PROVE Inv
    OBVIOUS
  <2>1. /\ hv.onboarding = "None" /\ hv.lifecycle /\ ~ hv.terminating /\ on.pc = "idle"
        /\ nova.server = "none" /\ nova.volumes = {}
    BY DEF Init, IdleOn
  <2>2. OrphanInv
    BY <2>1 DEF OrphanInv, Dropped, Aborted, Stuck
  <2> QED
    BY <2>2, Starts
<1>2. TypeOK /\ Inv /\ [Next]_vars => Inv'
  <2> SUFFICES ASSUME TypeOK, Inv, [Next]_vars PROVE Inv'
    OBVIOUS
  <2>1. IdInv' /\ ServerInv' /\ PhaseInv'
    BY IdStep, ServerStep, PhaseStep DEF TestsAreCurrent
  <2>2. CASE Next
    BY <2>1, <2>2, OrphanStep
  <2>3. CASE UNCHANGED vars
    BY <2>1, <2>3 DEF vars, OrphanInv, Dropped, Unswept
  <2> QED
    BY <2>2, <2>3
<1>3. TypeOK /\ Inv => OrphansAreSwept
  <2> SUFFICES ASSUME TypeOK, Inv, hv.onboarding = "Succeeded", "gone" \in nova.volumes PROVE faults > 1
    BY DEF OrphansAreSwept
  <2>1. ~ Unswept
    BY DEF Unswept
  <2>2. ~ Dropped
    BY DEF Dropped, Aborted, Stuck, PhaseInv
  <2> QED
    BY <2>1, <2>2 DEF OrphanInv
<1> QED
  BY <1>1, <1>2, <1>3, TypesHold, PTL DEF Spec

=============================================================================
