------------------------- MODULE EvictionListProofs -------------------------
(***************************************************************************)
(* Proofs about the list of outstanding instances: a recorded failure is   *)
(* always about an instance that is still on the list and is cleared only  *)
(* together with the last one, and the slots evictNext counts bound the    *)
(* migrations Nova is working on.                                          *)
(***************************************************************************)
EXTENDS EvictionProofs

-----------------------------------------------------------------------------
(* The invariants.  The parts are operators on values, so that a lemma     *)
(* about them can be used for a state and for its successor.               *)

\* No instance is listed twice.
Distinct(list) == \A a, b \in DOMAIN list : list[a] = list[b] => a = b

\* The instances a pass has picked for migration, each of them once.
Picked(cands) == {cands[k].id : k \in DOMAIN cands}
DistinctPicks(cands) == \A a, b \in DOMAIN cands : cands[a].id = cands[b].id => a = b

\* A status st, stored or being worked on, while Nova has the instances vms
\* and does or does not know the hypervisor: it lists instances that were
\* once placed, each of them once; nothing is listed and no migration is
\* recorded before the preflight; a recorded failure is about an instance of
\* the list; and the drain ends with an empty list, or because there is no
\* such hypervisor.
Honest(st, vms, known) ==
    /\ Distinct(st.outstanding)
    /\ \A i \in ToSet(st.outstanding) : vms[i].status # "UNBORN"
    /\ st.preflight # "True" => st.outstanding = <<>> /\ st.migration = "None"
    /\ st.migration = "Failed" => st.outstanding # <<>>
    /\ st.evicting = "Succeeded" => st.outstanding = <<>>
    /\ st.evicting = "Failed" => st.preflight # "True"
    /\ st.evicting \in {"Succeeded", "Failed"} /\ st.preflight # "True" => ~ known

\* A pass p: what it still has to look at and what it has picked is on its
\* list, and no instance is met twice.
Met(p) ==
    /\ Distinct(p.queue)
    /\ DistinctPicks(p.cands)
    /\ ToSet(p.queue) \cap Picked(p.cands) = {}
    /\ ToSet(p.queue) \cup Picked(p.cands) \subseteq ToSet(p.st.outstanding)
    /\ p.pc \in {"scan", "confirm", "start"} =>
          p.st.preflight = "True" /\ p.st.evicting = "Running"
    /\ p.pc = "preflight" => p.st.preflight # "True" /\ p.st.evicting = "Running"

\* The working copy of the pass p against the status e it will overwrite,
\* while the instances S are on the host: it lists no more instances, it has
\* struck off none of S, and it has dropped a failure only together with the
\* last instance.
Copy(e, p, S) ==
    /\ e.preflight = "True" => ToSet(p.st.outstanding) \subseteq ToSet(e.outstanding)
    /\ (ToSet(e.outstanding) \ ToSet(p.st.outstanding)) \cap S = {}
    /\ p.st.migration = "None" => e.migration = "None"
    /\ e.migration = "Failed" => p.st.migration = "Failed" \/ p.st.outstanding = <<>>
    /\ p.pc \in {"scan", "confirm", "start"} => e.preflight = "True"
    /\ e.preflight = "True" /\ p.st.evicting = "Succeeded" => e.outstanding = <<>>
    /\ e.preflight # "True" /\ p.st.preflight = "True" => p.st.evicting = "Running"

\* The stored status and the working copy are honest, and the copy may
\* replace the status whenever the pass writes it back.
ListInv == /\ IndInv
           /\ Honest(ev, nova, hv.known)
           /\ Honest(pass.st, nova, hv.known)
           /\ Met(pass)
           /\ present /\ pass.pc # "idle" => Copy(ev, pass, OnSrc)

-----------------------------------------------------------------------------
(* Lists without repetitions.                                              *)

\* A list is empty when nothing is on it.
LEMMA EmptyList ==
    ASSUME NEW S, NEW s \in Seq(S)
    PROVE  ToSet(s) = {} <=> s = <<>>
<1>1. Len(s) \in Nat /\ DOMAIN s = 1..Len(s)
  BY LenProperties
<1>2. CASE s = <<>>
  BY <1>2 DEF ToSet
<1>3. CASE s # <<>>
  <2>1. 1 \in DOMAIN s
    BY <1>1, <1>3, EmptySeq
  <2> QED BY <1>3, <2>1 DEF ToSet
<1> QED BY <1>2, <1>3

\* The empty list has no repetition.
LEMMA EmptyDistinct ==
    /\ Distinct(<<>>) /\ DistinctPicks(<<>>)
    /\ ToSet(<<>>) = {} /\ Picked(<<>>) = {}
BY DEF Distinct, DistinctPicks, Picked, ToSet

\* The tail of a list without repetitions is that list without its head.
LEMMA DistinctTail ==
    ASSUME NEW S, NEW s \in Seq(S), s # <<>>, Distinct(s)
    PROVE  /\ Tail(s) \in Seq(S) /\ Head(s) \in S /\ Head(s) \in ToSet(s)
           /\ Distinct(Tail(s))
           /\ ToSet(Tail(s)) = ToSet(s) \ {Head(s)}
<1>1. Len(s) \in Nat /\ Len(s) > 0 /\ DOMAIN s = 1..Len(s)
  BY LenProperties, EmptySeq
<1>2. /\ Tail(s) \in Seq(S) /\ Head(s) \in S /\ Head(s) = s[1]
      /\ Len(Tail(s)) = Len(s) - 1 /\ \A i \in 1..Len(s) - 1 : Tail(s)[i] = s[i+1]
  BY <1>1, HeadTailProperties
<1>3. DOMAIN Tail(s) = 1..Len(s) - 1
  BY <1>2, LenProperties
<1> DEFINE t == Tail(s)
<1>4. DOMAIN t = 1..Len(s) - 1 /\ \A i \in 1..Len(s) - 1 : t[i] = s[i+1]
  BY <1>2, <1>3
<1> HIDE DEF t
<1>5. Distinct(t)
  <2>1. \A a, b \in 1..Len(s) - 1 : s[a+1] = s[b+1] => a+1 = b+1
    BY <1>1 DEF Distinct
  <2> QED BY <1>1, <1>4, <2>1 DEF Distinct
<1>6. \A a \in 1..Len(s) - 1 : a+1 \in 1..Len(s) /\ a+1 # 1
  BY <1>1
<1>7. \A b \in 1..Len(s) : b # 1 => b-1 \in 1..Len(s) - 1 /\ (b-1) + 1 = b
  BY <1>1
<1>8. ToSet(t) \subseteq ToSet(s) \ {s[1]}
  <2>1. \A a \in 1..Len(s) - 1 : s[a+1] # s[1]
    BY <1>1, <1>6 DEF Distinct
  <2> QED BY <1>1, <1>4, <1>6, <2>1 DEF ToSet
<1>9. ToSet(s) \ {s[1]} \subseteq ToSet(t)
  <2>1. \A b \in 1..Len(s) : s[b] # s[1] => \E a \in 1..Len(s) - 1 : t[a] = s[b]
    BY <1>4, <1>7
  <2> SUFFICES ASSUME NEW y \in ToSet(s), y # s[1] PROVE y \in ToSet(t)
    OBVIOUS
  <2>2. PICK b \in 1..Len(s) : y = s[b]
    BY <1>1 DEF ToSet
  <2>3. PICK a \in 1..Len(s) - 1 : t[a] = y
    BY <2>1, <2>2
  <2> QED BY <1>4, <2>3 DEF ToSet
<1>10. Head(s) \in ToSet(s)
  BY <1>1, <1>2 DEF ToSet
<1> QED BY <1>2, <1>5, <1>8, <1>9, <1>10 DEF t

\* removeInstance takes the instance off a list without repetitions.
LEMMA removeInstanceRemoves ==
    ASSUME NEW S, NEW s \in Seq(S), NEW x, Distinct(s)
    PROVE  /\ removeInstance(s, x) \in Seq(S)
           /\ Distinct(removeInstance(s, x))
           /\ ToSet(removeInstance(s, x)) = ToSet(s) \ {x}
<1>0. Len(s) \in Nat /\ DOMAIN s = 1..Len(s)
  BY LenProperties
<1>1. CASE ~ \E i \in 1..Len(s) : s[i] = x
  <2>1. removeInstance(s, x) = s
    BY <1>1 DEF removeInstance, RemoveFirst
  <2>2. x \notin ToSet(s)
    BY <1>0, <1>1 DEF ToSet
  <2> QED BY <2>1, <2>2
<1>2. CASE \E i \in 1..Len(s) : s[i] = x
  <2> DEFINE I == {i \in 1..Len(s) : s[i] = x}
             k == Min(I)
             r == RemoveAt(s, k)
  <2>1. k \in I
    <3>1. I \subseteq Nat /\ I # {}
      BY <1>2, <1>0
    <3> HIDE DEF I
    <3> QED BY <3>1, MinOfNat
  <2>2. k \in 1..Len(s) /\ s[k] = x
    BY <2>1
  <2>3. removeInstance(s, x) = r
    BY <1>2 DEF removeInstance, RemoveFirst, SelectInSeq
  <2> HIDE DEF k
  <2>4. /\ r \in Seq(S) /\ Len(r) = Len(s) - 1
        /\ \A i \in 1..Len(s) - 1 : r[i] = IF i < k THEN s[i] ELSE s[i+1]
        /\ ToSet(r) \subseteq ToSet(s)
        /\ \A y \in ToSet(s) : y # s[k] => y \in ToSet(r)
    BY <2>2, RemoveAtKeeps
  <2> HIDE DEF r
  <2>5. DOMAIN r = 1..Len(s) - 1
    BY <2>4, LenProperties
  <2> DEFINE at(i) == IF i < k THEN i ELSE i + 1
  <2>6. \A i \in 1..Len(s) - 1 : at(i) \in 1..Len(s) /\ at(i) # k /\ r[i] = s[at(i)]
    BY <1>0, <2>2, <2>4
  <2>7. \A i, j \in 1..Len(s) - 1 : at(i) = at(j) => i = j
    BY <1>0, <2>2
  <2> HIDE DEF at
  <2>8. Distinct(r)
    BY <1>0, <2>5, <2>6, <2>7 DEF Distinct
  <2>9. x \notin ToSet(r)
    BY <1>0, <2>2, <2>5, <2>6 DEF Distinct, ToSet
  <2> QED BY <2>2, <2>3, <2>4, <2>8, <2>9
<1> QED BY <1>1, <1>2

\* deprioritize only reorders a list without repetitions.
LEMMA deprioritizeReorders ==
    ASSUME NEW S, NEW s \in Seq(S), NEW x \in S, Distinct(s)
    PROVE  /\ deprioritize(s, x) \in Seq(S)
           /\ Distinct(deprioritize(s, x))
           /\ ToSet(deprioritize(s, x)) = ToSet(s)
<1>1. CASE x \notin ToSet(s)
  BY <1>1 DEF deprioritize
<1>2. CASE x \in ToSet(s)
  <2> DEFINE r == RemoveFirst(s, x)
             d == <<x>> \o r
  <2>1. r \in Seq(S) /\ Distinct(r) /\ ToSet(r) = ToSet(s) \ {x}
    BY removeInstanceRemoves DEF removeInstance
  <2>2. deprioritize(s, x) = d
    BY <1>2 DEF deprioritize, Cons
  <2> HIDE DEF r
  <2>3. /\ d \in Seq(S)
        /\ Len(d) = 1 + Len(r)
        /\ \A i \in 1..1 + Len(r) : d[i] = IF i <= 1 THEN <<x>>[i] ELSE r[i - 1]
    BY <2>1, ConcatProperties
  <2> HIDE DEF d
  <2>4. Len(r) \in Nat /\ DOMAIN r = 1..Len(r) /\ DOMAIN d = 1..1 + Len(r)
    BY <2>1, <2>3, LenProperties
  <2>5. 1 \in DOMAIN d /\ d[1] = x
    BY <2>3, <2>4
  <2>6. \A i \in 1..Len(r) : i + 1 \in DOMAIN d /\ d[i + 1] = r[i]
    BY <2>3, <2>4
  <2>7. \A j \in DOMAIN d : j = 1 \/ (j - 1 \in 1..Len(r) /\ d[j] = r[j - 1])
    BY <2>3, <2>4
  <2>8. ToSet(d) = {x} \cup ToSet(r)
    BY <2>4, <2>5, <2>6, <2>7 DEF ToSet
  <2>9. \A j \in 1..Len(r) : r[j] # x
    BY <2>1, <2>4 DEF ToSet
  <2>10. Distinct(d)
    <3> SUFFICES ASSUME NEW a \in DOMAIN d, NEW b \in DOMAIN d, d[a] = d[b]
                 PROVE  a = b
      BY DEF Distinct
    <3>1. CASE a = 1 \/ b = 1
      BY <3>1, <2>5, <2>7, <2>9
    <3>2. CASE a # 1 /\ b # 1
      <4>1. a - 1 = b - 1
        BY <3>2, <2>1, <2>4, <2>7 DEF Distinct
      <4> QED BY <4>1, <2>4
    <3> QED BY <3>1, <3>2
  <2> QED BY <1>2, <2>1, <2>2, <2>3, <2>8, <2>10
<1> QED BY <1>1, <1>2

\* Picking an instance that was not picked before.
LEMMA PickOne ==
    ASSUME NEW cs \in Seq(Candidate), NEW c \in Candidate,
           DistinctPicks(cs), c.id \notin Picked(cs)
    PROVE  /\ DistinctPicks(Append(cs, c))
           /\ Picked(Append(cs, c)) = Picked(cs) \cup {c.id}
<1> DEFINE d == Append(cs, c)
<1>1. /\ Len(cs) \in Nat /\ DOMAIN cs = 1..Len(cs) /\ DOMAIN d = 1..Len(cs) + 1
      /\ \A i \in 1..Len(cs) : d[i] = cs[i]
      /\ d[Len(cs) + 1] = c
  BY AppendProperties, LenProperties
<1> HIDE DEF d
<1>2. \A k \in DOMAIN d : k = Len(cs) + 1 \/ (k \in 1..Len(cs) /\ d[k] = cs[k])
  BY <1>1
<1>3. \A k \in 1..Len(cs) : cs[k].id # c.id
  BY <1>1 DEF Picked
<1>4. DistinctPicks(d)
  <2> SUFFICES ASSUME NEW a \in DOMAIN d, NEW b \in DOMAIN d, d[a].id = d[b].id
               PROVE  a = b
    BY DEF DistinctPicks
  <2> QED BY <1>1, <1>2, <1>3 DEF DistinctPicks
<1>5. Picked(d) \subseteq Picked(cs) \cup {c.id}
  BY <1>1, <1>2 DEF Picked
<1>6. Picked(cs) \cup {c.id} \subseteq Picked(d)
  <2>1. \A k \in 1..Len(cs) : k \in DOMAIN d
    BY <1>1
  <2>2. Len(cs) + 1 \in DOMAIN d
    BY <1>1
  <2> QED BY <1>1, <2>1, <2>2 DEF Picked
<1> QED BY <1>4, <1>5, <1>6 DEF d

\* Taking the next of the picked instances.
LEMMA TakePick ==
    ASSUME NEW cs \in Seq(Candidate), cs # <<>>, DistinctPicks(cs)
    PROVE  /\ DistinctPicks(Tail(cs))
           /\ Head(cs) \in Candidate /\ Head(cs).id \in Picked(cs)
           /\ Picked(Tail(cs)) = Picked(cs) \ {Head(cs).id}
<1> DEFINE t == Tail(cs)
<1>1. Len(cs) \in Nat /\ Len(cs) > 0 /\ DOMAIN cs = 1..Len(cs)
  BY LenProperties, EmptySeq
<1>2. /\ t \in Seq(Candidate) /\ Head(cs) \in Candidate /\ Head(cs) = cs[1]
      /\ Len(t) = Len(cs) - 1 /\ \A i \in 1..Len(cs) - 1 : t[i] = cs[i+1]
  BY <1>1, HeadTailProperties
<1> HIDE DEF t
<1>3. DOMAIN t = 1..Len(cs) - 1
  BY <1>2, LenProperties
<1>4. \A a \in 1..Len(cs) - 1 : a+1 \in 1..Len(cs) /\ a+1 # 1 /\ t[a] = cs[a+1]
  BY <1>1, <1>2
<1>5. \A b \in 1..Len(cs) : b # 1 => b-1 \in 1..Len(cs) - 1 /\ t[b-1] = cs[b]
  BY <1>1, <1>2
<1>6. DistinctPicks(t)
  <2> SUFFICES ASSUME NEW a \in DOMAIN t, NEW b \in DOMAIN t, t[a].id = t[b].id
               PROVE  a = b
    BY DEF DistinctPicks
  <2>1. a + 1 = b + 1
    BY <1>1, <1>3, <1>4 DEF DistinctPicks
  <2> QED BY <2>1, <1>1, <1>3
<1>7. cs[1].id \in Picked(cs)
  BY <1>1 DEF Picked
<1>8. Picked(t) \subseteq Picked(cs) \ {cs[1].id}
  <2>1. \A a \in 1..Len(cs) - 1 : cs[a+1].id # cs[1].id
    BY <1>1, <1>4 DEF DistinctPicks
  <2> QED BY <1>1, <1>3, <1>4, <2>1 DEF Picked
<1>9. Picked(cs) \ {cs[1].id} \subseteq Picked(t)
  <2>1. \A b \in 1..Len(cs) : cs[b].id # cs[1].id => \E a \in 1..Len(cs) - 1 : t[a].id = cs[b].id
    BY <1>5
  <2> QED BY <1>1, <1>3, <2>1 DEF Picked
<1> QED BY <1>2, <1>6, <1>7, <1>8, <1>9 DEF t

-----------------------------------------------------------------------------
(* What a pass does to its working copy.                                   *)

\* The working copy st became st2: the instances in gone are struck off, the
\* rest is kept, and the Migration condition follows setMigrationSucceeded.
Reworked(st, st2, gone) ==
    /\ st2 \in EvStatus
    /\ st2.preflight = st.preflight
    /\ st2.evicting = st.evicting
    /\ Distinct(st2.outstanding)
    /\ ToSet(st2.outstanding) = ToSet(st.outstanding) \ gone
    /\ st2.migration = "None" => st.migration = "None"
    /\ st2.migration = "Failed" => st2.outstanding # <<>>
    /\ st.migration = "Failed" => st2.migration = "Failed" \/ st2.outstanding = <<>>

\* An honest copy that is left alone.
LEMMA ReworkedSame ==
    ASSUME NEW st \in EvStatus, NEW vms, NEW known, Honest(st, vms, known)
    PROVE  Reworked(st, st, {})
BY DEF Reworked, Honest

\* Striking an instance off.
LEMMA ReworkedStrike ==
    ASSUME NEW st \in EvStatus, Distinct(st.outstanding), NEW i \in Instances
    PROVE  Reworked(st, strike(st, i), {i})
<1> DEFINE out == removeInstance(st.outstanding, i)
           s1  == [st EXCEPT !.outstanding = out]
<1>1. st.outstanding \in Seq(Instances)
  BY DEF EvStatus
<1>2. out \in Seq(Instances) /\ Distinct(out) /\ ToSet(out) = ToSet(st.outstanding) \ {i}
  BY <1>1, removeInstanceRemoves
<1> HIDE DEF out
<1>3. /\ s1 \in EvStatus /\ s1.outstanding = out /\ s1.migration = st.migration
      /\ s1.preflight = st.preflight /\ s1.evicting = st.evicting
  BY <1>2 DEF EvStatus
<1> HIDE DEF s1
<1>4. strike(st, i) = IF s1.migration = "Failed" /\ s1.outstanding # <<>>
                      THEN s1 ELSE [s1 EXCEPT !.migration = "Succeeded"]
  BY DEF strike, setMigrationSucceeded, s1, out
<1>5. CASE s1.migration = "Failed" /\ s1.outstanding # <<>>
  BY <1>2, <1>3, <1>4, <1>5 DEF Reworked
<1>6. CASE ~ (s1.migration = "Failed" /\ s1.outstanding # <<>>)
  <2> DEFINE s2 == [s1 EXCEPT !.migration = "Succeeded"]
  <2>1. /\ s2 \in EvStatus /\ s2.outstanding = out /\ s2.migration = "Succeeded"
        /\ s2.preflight = st.preflight /\ s2.evicting = st.evicting
    BY <1>3 DEF EvStatus
  <2>2. strike(st, i) = s2
    BY <1>4, <1>6
  <2> HIDE DEF s2
  <2>3. st.migration = "Failed" => out = <<>>
    BY <1>3, <1>6
  <2> QED BY <1>2, <2>1, <2>2, <2>3 DEF Reworked
<1> QED BY <1>5, <1>6

\* Setting back an instance of the list.
LEMMA ReworkedSetBack ==
    ASSUME NEW st \in EvStatus, Distinct(st.outstanding),
           NEW i \in Instances, i \in ToSet(st.outstanding)
    PROVE  Reworked(st, setBack(st, i), {})
<1> DEFINE out == deprioritize(st.outstanding, i)
           s1  == [st EXCEPT !.outstanding = out, !.migration = "Failed"]
<1>1. st.outstanding \in Seq(Instances)
  BY DEF EvStatus
<1>2. out \in Seq(Instances) /\ Distinct(out) /\ ToSet(out) = ToSet(st.outstanding)
  BY <1>1, deprioritizeReorders
<1>3. setBack(st, i) = s1
  BY DEF setBack
<1> HIDE DEF out
<1>4. out # <<>>
  BY <1>2, EmptyList
<1>5. /\ s1 \in EvStatus /\ s1.outstanding = out /\ s1.migration = "Failed"
      /\ s1.preflight = st.preflight /\ s1.evicting = st.evicting
  BY <1>2 DEF EvStatus
<1> HIDE DEF s1
<1> QED BY <1>2, <1>3, <1>4, <1>5 DEF Reworked

\* Recording a failure while an instance is on the list.
LEMMA ReworkedFailed ==
    ASSUME NEW st \in EvStatus, Distinct(st.outstanding), st.outstanding # <<>>
    PROVE  Reworked(st, migrationFailed(st), {}) /\ migrationFailed(st).migration = "Failed"
<1>1. migrationFailed(st).migration = "Failed"
  BY DEF migrationFailed, EvStatus
<1> QED BY <1>1, migrationFailedKeeps DEF Reworked

\* Recording a failure of an instance that turned out to be gone.
LEMMA ReworkedFailedAndGone ==
    ASSUME NEW st \in EvStatus, Distinct(st.outstanding),
           NEW i \in Instances, i \in ToSet(st.outstanding)
    PROVE  Reworked(st, strike(migrationFailed(st), i), {i})
<1> DEFINE f == migrationFailed(st)
<1>1. /\ f \in EvStatus /\ f.outstanding = st.outstanding /\ f.migration = "Failed"
      /\ f.preflight = st.preflight /\ f.evicting = st.evicting
  BY migrationFailedKeeps DEF migrationFailed, EvStatus
<1> HIDE DEF f
<1>2. Reworked(f, strike(f, i), {i})
  BY <1>1, ReworkedStrike
<1> QED BY <1>1, <1>2 DEF Reworked, f

\* A step of evictNext from the pass p to the pass q.
LEMMA WorkKeeps ==
    ASSUME NEW e \in EvStatus, NEW p \in Pass, NEW q \in Pass,
           NEW gone, NEW S, NEW vms, NEW known,
           p.pc \in {"scan", "confirm", "start"},
           q.pc \in {"scan", "confirm", "start", "save"},
           Honest(p.st, vms, known), Met(p), Reworked(p.st, q.st, gone), gone \cap S = {},
           Distinct(q.queue), DistinctPicks(q.cands),
           ToSet(q.queue) \cap Picked(q.cands) = {},
           ToSet(q.queue) \cup Picked(q.cands) \subseteq ToSet(q.st.outstanding)
    PROVE  /\ Honest(q.st, vms, known)
           /\ Met(q)
           /\ Copy(e, p, S) => Copy(e, q, S)
<1>1. p.st.preflight = "True" /\ p.st.evicting = "Running"
  BY DEF Met
<1>2. Honest(q.st, vms, known)
  BY <1>1 DEF Honest, Reworked
<1>3. Met(q)
  BY <1>1 DEF Met, Reworked
<1>4. ASSUME Copy(e, p, S) PROVE Copy(e, q, S)
  <2>1. p.st.outstanding = <<>> => q.st.outstanding = <<>>
    <3>1. p.st.outstanding \in Seq(Instances) /\ q.st.outstanding \in Seq(Instances)
      BY DEF Pass, EvStatus
    <3>2. ToSet(q.st.outstanding) \subseteq ToSet(p.st.outstanding)
      BY DEF Reworked
    <3>3. p.st.outstanding = <<>> => ToSet(p.st.outstanding) = {}
      BY <3>1, EmptyList
    <3>4. ToSet(q.st.outstanding) = {} => q.st.outstanding = <<>>
      BY <3>1, EmptyList
    <3> QED BY <3>2, <3>3, <3>4
  <2>2. (ToSet(e.outstanding) \ ToSet(q.st.outstanding)) \cap S = {}
    BY <1>4 DEF Copy, Reworked
  <2>3. e.migration = "Failed" => q.st.migration = "Failed" \/ q.st.outstanding = <<>>
    BY <1>4, <2>1 DEF Copy, Reworked
  <2>4. e.preflight = "True" => ToSet(q.st.outstanding) \subseteq ToSet(e.outstanding)
    BY <1>4 DEF Copy, Reworked
  <2>5. q.st.evicting = "Running" /\ e.preflight = "True"
    BY <1>1, <1>4 DEF Copy, Reworked
  <2>6. q.st.migration = "None" => e.migration = "None"
    BY <1>4 DEF Copy, Reworked
  <2> QED BY <2>2, <2>3, <2>4, <2>5, <2>6 DEF Copy
<1> QED BY <1>2, <1>3, <1>4

-----------------------------------------------------------------------------
(* The list invariant is inductive.                                        *)

\* A status stays honest while Nova moves on: an instance once placed is not
\* unborn again, and a hypervisor that is not known stays unknown.
LEMMA HonestFrame ==
    ASSUME NEW st \in EvStatus, NEW vms, NEW vms2, NEW known, NEW known2,
           Honest(st, vms, known), known2 => known,
           \A i \in Instances : vms2[i].status = "UNBORN" => vms[i].status = "UNBORN"
    PROVE  Honest(st, vms2, known2)
<1>1. ToSet(st.outstanding) \subseteq Instances
  <2>1. st.outstanding \in Seq(Instances)
    BY DEF EvStatus
  <2> QED BY <2>1, ElementOfSeq, LenProperties DEF ToSet
<1> QED BY <1>1 DEF Honest

\* The empty status and the pass that is not running are honest.
LEMMA IdleHonest ==
    /\ Met(Idle)
    /\ \A vms, known : Honest(NoStatus, vms, known)
<1>1. NoStatus.outstanding = <<>> /\ NoStatus.migration = "None" /\ NoStatus.evicting = "None"
  BY DEF NoStatus
<1>2. \A vms, known : Honest(NoStatus, vms, known)
  BY <1>1, EmptyDistinct DEF Honest
<1>3. Idle.queue = <<>> /\ Idle.cands = <<>> /\ Idle.pc = "idle" /\ Idle.st = NoStatus
  BY DEF Idle
<1> QED BY <1>1, <1>2, <1>3, EmptyDistinct DEF Met

\* A pass that ends without writing anything.
LEMMA ListPassEnds ==
    ASSUME ListInv, IndInv', pass' = Idle, UNCHANGED <<nova, hv, present, ev>>
    PROVE  ListInv'
<1>1. pass'.pc = "idle" /\ pass'.st = NoStatus
  BY DEF Idle
<1>2. Honest(pass'.st, nova', hv'.known) /\ Met(pass')
  BY <1>1, IdleHonest
<1>3. Honest(ev', nova', hv'.known)
  BY DEF ListInv
<1> QED BY <1>1, <1>2, <1>3 DEF ListInv

\* A pass that begins, or goes straight to its write-back, with the copy st.
LEMMA ListPassBegins ==
    ASSUME ListInv, IndInv', UNCHANGED <<nova, hv, present, ev>>,
           Honest(pass'.st, nova, hv.known), Met(pass'), Copy(ev, pass', OnSrc)
    PROVE  ListInv'
<1>1. OnSrc' = OnSrc
  BY OnSrcUnchanged
<1>2. Honest(pass'.st, nova', hv'.known) /\ Honest(ev', nova', hv'.known)
  BY DEF ListInv
<1>3. Copy(ev', pass', OnSrc')
  BY <1>1
<1> QED BY <1>2, <1>3 DEF ListInv

\* A step of evictNext.
LEMMA ListWork ==
    ASSUME ListInv, IndInv', UNCHANGED <<hv, present, ev>>, OnSrc' = OnSrc,
           \A i \in Instances : nova'[i].status = "UNBORN" => nova[i].status = "UNBORN",
           pass.pc \in {"scan", "confirm", "start"},
           pass'.pc \in {"scan", "confirm", "start", "save"},
           NEW gone, Reworked(pass.st, pass'.st, gone), gone \cap OnSrc = {},
           Distinct(pass'.queue), DistinctPicks(pass'.cands),
           ToSet(pass'.queue) \cap Picked(pass'.cands) = {},
           ToSet(pass'.queue) \cup Picked(pass'.cands) \subseteq ToSet(pass'.st.outstanding)
    PROVE  ListInv'
<1>1. /\ ev \in EvStatus /\ pass \in Pass /\ pass' \in Pass /\ pass'.st \in EvStatus
  BY DEF ListInv, IndInv, TypeOK, Pass
<1>2. Honest(pass.st, nova, hv.known) /\ Met(pass) /\ Honest(ev, nova, hv.known)
  BY DEF ListInv
<1>3. /\ Honest(pass'.st, nova, hv.known)
      /\ Met(pass')
      /\ Copy(ev, pass, OnSrc) => Copy(ev, pass', OnSrc)
  BY <1>1, <1>2, WorkKeeps
<1>4. Honest(pass'.st, nova', hv'.known) /\ Honest(ev, nova', hv'.known)
  BY <1>1, <1>2, <1>3, HonestFrame
<1>5. present => Copy(ev, pass', OnSrc)
  BY <1>3 DEF ListInv
<1> QED BY <1>3, <1>4, <1>5 DEF ListInv

\* The working copy that a pass starts from is the stored status.
LEMMA CopySame ==
    ASSUME NEW e, NEW p, NEW S, p.st = e,
           p.pc \in {"scan", "confirm", "start"} => e.preflight = "True",
           e.evicting # "Succeeded"
    PROVE  Copy(e, p, S)
BY DEF Copy

\* A pass that goes to its write-back carries no work.
LEMMA MetSaving ==
    ASSUME NEW st \in EvStatus
    PROVE  Met(Saving(st)) /\ Saving(st).pc = "save" /\ Saving(st).st = st
<1>1. Saving(st).queue = <<>> /\ Saving(st).cands = <<>> /\ Saving(st).pc = "save"
  BY DEF Saving, Idle
<1> QED BY <1>1, EmptyDistinct, SavingType DEF Met

\* Nova lists each server once: the list is as long as it has members.
LEMMA ServerListDistinct ==
    ASSUME NEW list \in ServerLists
    PROVE  Distinct(list)
<1> DEFINE n == Cardinality(OnSrc)
<1>1. IsFiniteSet(OnSrc) /\ n \in Nat
  <2>1. OnSrc \subseteq Instances
    BY DEF OnSrc
  <2> QED BY <2>1, FS_Subset, ConstantsAssumption, FS_CardinalityType
<1>2. IsFiniteSet(1..n) /\ Cardinality(1..n) = n
  BY <1>1, FS_Interval
<1>3. list \in [1..n -> OnSrc] /\ ToSet(list) = OnSrc
  BY DEF ServerLists
<1>4. list \in Surjection(1..n, OnSrc)
  BY <1>3 DEF Surjection, ToSet
<1>5. list \in Injection(1..n, OnSrc)
  BY <1>1, <1>2, <1>4, FS_SurjSameCardinalityImpliesInj
<1> QED BY <1>3, <1>5 DEF Distinct, Injection, IsInjective

\* The first steps of a reconcile.
LEMMA ListBegin ==
    ListInv /\ (Start \/ PreflightBlocked \/ PreflightBegin \/ EvictNextBegin \/ Succeed) => ListInv'
<1> SUFFICES ASSUME ListInv, Start \/ PreflightBlocked \/ PreflightBegin \/ EvictNextBegin \/ Succeed
             PROVE  ListInv'
  OBVIOUS
<1>0. /\ IndInv' /\ ev \in EvStatus /\ Honest(ev, nova, hv.known)
      /\ UNCHANGED <<nova, hv, present, ev>>
  BY IndController
  DEF ListInv, IndInv, TypeOK, Controller, Start, PreflightBlocked, PreflightBegin,
      EvictNextBegin, Succeed, Begin
<1>1. CASE Start
  <2> DEFINE st == [ev EXCEPT !.evicting = "Running"]
  <2>1. /\ st \in EvStatus /\ st.evicting = "Running" /\ st.preflight = ev.preflight
        /\ st.migration = ev.migration /\ st.outstanding = ev.outstanding
    BY <1>0 DEF EvStatus
  <2>2. pass' = Saving(st)
    BY <1>1 DEF Start, Begin
  <2> HIDE DEF st
  <2>3. Honest(st, nova, hv.known)
    BY <1>0, <2>1 DEF Honest
  <2>4. pass'.st = st /\ pass'.pc = "save" /\ Met(pass')
    BY <2>1, <2>2, MetSaving
  <2>5. Copy(ev, pass', OnSrc)
    BY <2>1, <2>4 DEF Copy
  <2> QED BY <1>0, <2>3, <2>4, <2>5, ListPassBegins
<1>2. CASE PreflightBlocked
  <2> DEFINE st == [ev EXCEPT !.preflight = "False"]
  <2>1. /\ st \in EvStatus /\ st.evicting = "Running" /\ st.preflight = "False"
        /\ st.migration = ev.migration /\ st.outstanding = ev.outstanding
        /\ ev.preflight = "None"
    BY <1>0, <1>2 DEF EvStatus, PreflightBlocked
  <2>2. pass' = Saving(st)
    BY <1>2 DEF PreflightBlocked, Begin
  <2> HIDE DEF st
  <2>3. Honest(st, nova, hv.known)
    BY <1>0, <2>1 DEF Honest
  <2>4. pass'.st = st /\ pass'.pc = "save" /\ Met(pass')
    BY <2>1, <2>2, MetSaving
  <2>5. Copy(ev, pass', OnSrc)
    BY <2>1, <2>4 DEF Copy
  <2> QED BY <1>0, <2>3, <2>4, <2>5, ListPassBegins
<1>3. CASE PreflightBegin
  <2>1. /\ pass'.pc = "preflight" /\ pass'.st = ev /\ pass'.queue = <<>> /\ pass'.cands = <<>>
        /\ ev.evicting = "Running" /\ ev.preflight # "True"
    BY <1>3 DEF PreflightBegin, Begin, Idle
  <2>2. Met(pass')
    BY <2>1, EmptyDistinct DEF Met
  <2>3. Copy(ev, pass', OnSrc)
    BY <2>1, CopySame
  <2> QED BY <1>0, <2>1, <2>2, <2>3, ListPassBegins
<1>4. CASE EvictNextBegin
  <2>1. /\ pass'.pc = "scan" /\ pass'.st = ev /\ pass'.queue = ev.outstanding /\ pass'.cands = <<>>
        /\ ev.evicting = "Running" /\ ev.preflight = "True"
    BY <1>4 DEF EvictNextBegin, Begin, Idle
  <2>2. Met(pass')
    BY <1>0, <2>1, EmptyDistinct DEF Met, Honest
  <2>3. Copy(ev, pass', OnSrc)
    BY <2>1, CopySame
  <2> QED BY <1>0, <2>1, <2>2, <2>3, ListPassBegins
<1>5. CASE Succeed
  <2> DEFINE st == [ev EXCEPT !.evicting = "Succeeded"]
  <2>1. /\ st \in EvStatus /\ st.evicting = "Succeeded" /\ st.preflight = "True"
        /\ st.migration = ev.migration /\ st.outstanding = <<>> /\ ev.outstanding = <<>>
        /\ ev.preflight = "True"
    BY <1>0, <1>5 DEF EvStatus, Succeed
  <2>2. pass' = Saving(st)
    BY <1>5 DEF Succeed, Begin
  <2> HIDE DEF st
  <2>3. Honest(st, nova, hv.known)
    BY <1>0, <2>1 DEF Honest
  <2>4. pass'.st = st /\ pass'.pc = "save" /\ Met(pass')
    BY <2>1, <2>2, MetSaving
  <2>5. Copy(ev, pass', OnSrc)
    BY <2>1, <2>4 DEF Copy
  <2> QED BY <1>0, <2>3, <2>4, <2>5, ListPassBegins
<1> QED BY <1>1, <1>2, <1>3, <1>4, <1>5

\* The preflight fills an empty list, or finds that there is no hypervisor.
LEMMA ListPreflight ==
    ListInv /\ (PreflightList \/ PreflightNotFound \/ PreflightError) => ListInv'
<1> SUFFICES ASSUME ListInv, PreflightList \/ PreflightNotFound \/ PreflightError
             PROVE  ListInv'
  OBVIOUS
<1>0. /\ IndInv' /\ ev \in EvStatus /\ pass \in Pass /\ pass.st \in EvStatus
      /\ nova \in [Instances -> VM] /\ Honest(pass.st, nova, hv.known)
      /\ pass.pc = "preflight" /\ UNCHANGED <<nova, hv, present, ev>> /\ OnSrc' = OnSrc
  BY IndController, OnSrcUnchanged
  DEF ListInv, IndInv, TypeOK, Pass, Controller, PreflightList, PreflightNotFound, PreflightError, InPass
<1>1. /\ pass.st.evicting = "Running" /\ pass.st.preflight # "True"
      /\ pass.st.outstanding = <<>> /\ pass.st.migration = "None"
  BY <1>0 DEF ListInv, Met, Honest
<1>2. present => /\ ev.preflight # "True"
                 /\ ev.outstanding = <<>> /\ ev.migration = "None"
  BY <1>0, <1>1 DEF ListInv, IndInv, Honest
<1>3. ASSUME NEW st \in EvStatus, pass' = Saving(st), Honest(st, nova, hv.known),
             st.migration = "None",
             st.preflight = "True" => st.evicting = "Running"
      PROVE  ListInv'
  <2>1. pass'.st = st /\ pass'.pc = "save" /\ Met(pass')
    BY <1>3, MetSaving
  <2>2. present => Copy(ev, pass', OnSrc)
    BY <1>2, <1>3, <2>1, EmptyDistinct DEF Copy
  <2>3. present => ListInv'
    BY <1>0, <1>3, <2>1, <2>2, ListPassBegins
  <2>4. Honest(ev', nova', hv'.known)
    BY <1>0 DEF ListInv
  <2> QED BY <1>0, <1>3, <2>1, <2>3, <2>4 DEF ListInv
<1>4. CASE PreflightList
  <2>1. PICK list \in ServerLists :
           pass' = Saving([pass.st EXCEPT
                      !.outstanding = IF list = <<>> THEN pass.st.outstanding ELSE list,
                      !.preflight   = "True"])
    BY <1>4 DEF PreflightList
  <2> DEFINE st == [pass.st EXCEPT
                      !.outstanding = IF list = <<>> THEN pass.st.outstanding ELSE list,
                      !.preflight   = "True"]
  <2>2. list \in Seq(Instances) /\ ToSet(list) = OnSrc
    BY ServerListType
  <2>3. /\ st \in EvStatus /\ st.outstanding = list /\ st.preflight = "True"
        /\ st.evicting = "Running" /\ st.migration = "None"
    BY <1>0, <1>1, <2>2 DEF EvStatus
  <2>4. pass' = Saving(st)
    BY <2>1
  <2> HIDE DEF st
  <2>5. Distinct(list)
    BY ServerListDistinct
  <2>6. \A i \in OnSrc : nova[i].status # "UNBORN"
    BY DEF OnSrc, Exists
  <2>7. Honest(st, nova, hv.known)
    BY <2>2, <2>3, <2>5, <2>6 DEF Honest
  <2> QED BY <1>3, <2>3, <2>4, <2>7
<1>5. CASE PreflightNotFound
  <2> DEFINE st == [pass.st EXCEPT !.evicting = IF hv.registered THEN "Failed" ELSE "Succeeded"]
  <2>1. /\ st \in EvStatus /\ st.evicting \in {"Failed", "Succeeded"} /\ st.preflight # "True"
        /\ st.outstanding = <<>> /\ st.migration = "None"
    BY <1>0, <1>1 DEF EvStatus
  <2>2. pass' = Saving(st) /\ ~ hv.known
    BY <1>5 DEF PreflightNotFound
  <2> HIDE DEF st
  <2>3. Honest(st, nova, hv.known)
    BY <2>1, <2>2, EmptyDistinct DEF Honest
  <2> QED BY <1>3, <2>1, <2>2, <2>3
<1>6. CASE PreflightError
  BY <1>0, <1>6, ListPassEnds DEF PreflightError
<1> QED BY <1>4, <1>5, <1>6

\* evictNext looks at the instances of its snapshot one by one.
LEMMA ListScan ==
    ListInv /\ (ScanInstance \/ ScanError \/ ScanEnd) => ListInv'
<1> SUFFICES ASSUME ListInv, ScanInstance \/ ScanError \/ ScanEnd
             PROVE  ListInv'
  OBVIOUS
<1>0. /\ IndInv' /\ ev \in EvStatus /\ pass \in Pass /\ pass.st \in EvStatus
      /\ pass.queue \in Seq(Instances) /\ pass.cands \in Seq(Candidate)
      /\ pass.pc = "scan" /\ UNCHANGED <<nova, hv, present, ev>> /\ OnSrc' = OnSrc
  BY IndController, OnSrcUnchanged
  DEF ListInv, IndInv, TypeOK, Pass, Controller, ScanInstance, ScanError, ScanEnd, Scanning, InPass
<1>1. /\ Honest(pass.st, nova, hv.known) /\ Met(pass) /\ Distinct(pass.st.outstanding)
      /\ Distinct(pass.queue) /\ DistinctPicks(pass.cands)
      /\ ToSet(pass.queue) \cap Picked(pass.cands) = {}
      /\ ToSet(pass.queue) \cup Picked(pass.cands) \subseteq ToSet(pass.st.outstanding)
  BY DEF ListInv, Honest, Met
<1> DEFINE i == Head(pass.queue)
<1>2. pass.queue # <<>> =>
         /\ i \in Instances /\ i \in ToSet(pass.queue)
         /\ Distinct(Tail(pass.queue)) /\ ToSet(Tail(pass.queue)) = ToSet(pass.queue) \ {i}
  BY <1>0, <1>1, DistinctTail
<1> HIDE DEF i
<1>3. ASSUME pass.queue # <<>>, NEW st, NEW busy \in {0, 1}, NEW gone,
             pass' = Scanned(st, busy), Reworked(pass.st, st, gone),
             gone \subseteq {i}, gone \cap OnSrc = {}
      PROVE  ListInv'
  <2>1. st \in EvStatus
    BY <1>3 DEF Reworked
  <2>2. /\ pass'.st = st /\ pass'.pc = "scan"
        /\ pass'.queue = Tail(pass.queue) /\ pass'.cands = pass.cands
    BY <1>0, <1>3 DEF Scanned, Pass
  <2>3. ToSet(pass'.queue) \cup Picked(pass'.cands) \subseteq ToSet(pass'.st.outstanding)
    BY <1>1, <1>2, <1>3, <2>2 DEF Reworked
  <2> QED BY <1>0, <1>1, <1>2, <1>3, <2>2, <2>3, ListWork
<1>4. Reworked(pass.st, pass.st, {})
  BY <1>0, <1>1, ReworkedSame
<1>5. CASE ScanInstance
  <2>1. pass.queue # <<>> /\ i \in Instances /\ i \in ToSet(pass.st.outstanding)
    BY <1>1, <1>2, <1>5 DEF ScanInstance, Scanning
  <2>2. Reworked(pass.st, strike(pass.st, i), {i}) /\ Reworked(pass.st, setBack(pass.st, i), {})
    BY <1>0, <1>1, <2>1, ReworkedStrike, ReworkedSetBack
  <2>3. CASE /\ pass' = Scanned(strike(pass.st, i), 0)
             /\ i \notin OnSrc
    BY <1>3, <2>1, <2>2, <2>3
  <2>4. CASE \E b \in {0, 1} : pass' \in {Scanned(pass.st, b), Scanned(setBack(pass.st, i), b)}
    BY <1>3, <1>4, <2>1, <2>2, <2>4
  <2>5. CASE pass' = [pass EXCEPT !.pc = "confirm"]
    <3>1. /\ pass'.st = pass.st /\ pass'.pc = "confirm"
          /\ pass'.queue = pass.queue /\ pass'.cands = pass.cands
      BY <1>0, <2>5 DEF Pass
    <3> QED BY <1>0, <1>1, <1>4, <3>1, ListWork
  <2>6. ASSUME NEW live \in BOOLEAN,
               pass' = [Scanned(pass.st, 0) EXCEPT !.cands = Append(@, [id |-> i, live |-> live])]
        PROVE  ListInv'
    <3> DEFINE c == [id |-> i, live |-> live]
    <3>1. c \in Candidate /\ c.id = i
      BY <2>1 DEF Candidate
    <3>2. /\ pass'.st = pass.st /\ pass'.pc = "scan"
          /\ pass'.queue = Tail(pass.queue) /\ pass'.cands = Append(pass.cands, c)
      BY <1>0, <2>6 DEF Scanned, Pass
    <3> HIDE DEF c
    <3>3. i \notin Picked(pass.cands)
      BY <1>1, <1>2, <2>1
    <3>4. /\ DistinctPicks(pass'.cands) /\ Picked(pass'.cands) = Picked(pass.cands) \cup {i}
      BY <1>0, <1>1, <3>1, <3>2, <3>3, PickOne
    <3>5. ToSet(pass'.queue) \cap Picked(pass'.cands) = {}
      BY <1>1, <1>2, <2>1, <3>2, <3>4
    <3>6. ToSet(pass'.queue) \cup Picked(pass'.cands) \subseteq ToSet(pass'.st.outstanding)
      BY <1>1, <1>2, <2>1, <3>2, <3>4
    <3> QED BY <1>0, <1>2, <1>4, <2>1, <3>2, <3>4, <3>5, <3>6, ListWork
  <2> QED BY <1>5, <2>3, <2>4, <2>5, <2>6 DEF ScanInstance, OnSrc, i
<1>6. CASE ScanError
  BY <1>3, <1>4, <1>6 DEF ScanError, Scanning
<1>7. CASE ScanEnd
  <2>1. /\ pass'.st = pass.st /\ pass'.pc = "start"
        /\ pass'.queue = <<>> /\ pass'.cands = pass.cands
    BY <1>0, <1>7 DEF ScanEnd, Pass
  <2>2. ToSet(pass'.queue) = {} /\ Distinct(pass'.queue)
    BY <2>1, EmptyDistinct
  <2> QED BY <1>0, <1>1, <1>4, <2>1, <2>2, ListWork
<1> QED BY <1>5, <1>6, <1>7

\* A resize is confirmed in the middle of a scan.
LEMMA ListConfirm ==
    ListInv /\ (ConfirmResize \/ ConfirmError) => ListInv'
<1> SUFFICES ASSUME ListInv, ConfirmResize \/ ConfirmError
             PROVE  ListInv'
  OBVIOUS
<1> DEFINE i == Head(pass.queue)
<1>0. /\ IndInv' /\ ev \in EvStatus /\ pass \in Pass /\ pass.st \in EvStatus
      /\ pass.queue \in Seq(Instances) /\ pass.queue # <<>> /\ nova \in [Instances -> VM]
      /\ pass.pc = "confirm" /\ UNCHANGED <<hv, present, ev>>
  BY IndController
  DEF ListInv, IndInv, TypeOK, Pass, Controller, ConfirmResize, ConfirmError, InPass
<1>1. /\ Honest(pass.st, nova, hv.known) /\ Met(pass) /\ Distinct(pass.st.outstanding)
      /\ Distinct(pass.queue) /\ DistinctPicks(pass.cands)
      /\ ToSet(pass.queue) \cap Picked(pass.cands) = {}
      /\ ToSet(pass.queue) \cup Picked(pass.cands) \subseteq ToSet(pass.st.outstanding)
  BY DEF ListInv, Honest, Met
<1>2. /\ i \in Instances /\ i \in ToSet(pass.queue)
      /\ Distinct(Tail(pass.queue)) /\ ToSet(Tail(pass.queue)) = ToSet(pass.queue) \ {i}
  BY <1>0, <1>1, DistinctTail
<1>3. OnSrc' = OnSrc /\ \A j \in Instances : nova'[j].status = "UNBORN" => nova[j].status = "UNBORN"
  <2>1. CASE UNCHANGED nova
    BY <2>1, OnSrcUnchanged
  <2>2. CASE nova[i].status = "VERIFY_RESIZE" /\ nova' = [nova EXCEPT ![i].status = "SHUTOFF"]
    <3>1. \A j \in Instances : /\ (Exists(j) /\ nova[j].host = "src")' <=> (Exists(j) /\ nova[j].host = "src")
                               /\ nova'[j].status = "UNBORN" => nova[j].status = "UNBORN"
      BY <1>0, <1>2, <2>2 DEF Exists, VM
    <3> QED BY <3>1 DEF OnSrc
  <2> QED BY <2>1, <2>2 DEF ConfirmResize, ConfirmError
<1> HIDE DEF i
<1>4. ASSUME NEW st, NEW gone, pass' = Scanned(st, 1), Reworked(pass.st, st, gone),
             gone \subseteq {i}, gone \cap OnSrc = {}
      PROVE  ListInv'
  <2>1. st \in EvStatus
    BY <1>4 DEF Reworked
  <2>2. /\ pass'.st = st /\ pass'.pc = "scan"
        /\ pass'.queue = Tail(pass.queue) /\ pass'.cands = pass.cands
    BY <1>0, <1>4 DEF Scanned, Pass
  <2>3. ToSet(pass'.queue) \cup Picked(pass'.cands) \subseteq ToSet(pass'.st.outstanding)
    BY <1>1, <1>2, <1>4, <2>2 DEF Reworked
  <2> QED BY <1>0, <1>1, <1>2, <1>3, <1>4, <2>2, <2>3, ListWork
<1>5. Reworked(pass.st, pass.st, {}) /\ Reworked(pass.st, strike(pass.st, i), {i})
  BY <1>0, <1>1, <1>2, ReworkedSame, ReworkedStrike
<1>6. \/ pass' = Scanned(pass.st, 1)
      \/ pass' = Scanned(strike(pass.st, i), 1) /\ i \notin OnSrc
  BY DEF ConfirmResize, ConfirmError, OnSrc, i
<1> QED BY <1>4, <1>5, <1>6

\* The picked instances are ordered to migrate one by one.
LEMMA ListMigrate ==
    ListInv /\ (Migrate \/ MigrateError \/ StartEnd) => ListInv'
<1> SUFFICES ASSUME ListInv, Migrate \/ MigrateError \/ StartEnd
             PROVE  ListInv'
  OBVIOUS
<1> DEFINE c == Head(pass.cands)
<1>0. /\ IndInv' /\ ev \in EvStatus /\ pass \in Pass /\ pass.st \in EvStatus
      /\ pass.queue \in Seq(Instances) /\ pass.cands \in Seq(Candidate)
      /\ nova \in [Instances -> VM]
      /\ pass.pc = "start" /\ UNCHANGED <<hv, present, ev>>
  BY IndController
  DEF ListInv, IndInv, TypeOK, Pass, Controller, Migrate, MigrateError, StartEnd, Starting, InPass
<1>1. /\ Honest(pass.st, nova, hv.known) /\ Met(pass) /\ Distinct(pass.st.outstanding)
      /\ Distinct(pass.queue) /\ DistinctPicks(pass.cands)
      /\ ToSet(pass.queue) \cap Picked(pass.cands) = {}
      /\ ToSet(pass.queue) \cup Picked(pass.cands) \subseteq ToSet(pass.st.outstanding)
  BY DEF ListInv, Honest, Met
<1>2. Reworked(pass.st, pass.st, {})
  BY <1>0, <1>1, ReworkedSame
<1>3. CASE StartEnd
  <2>1. pass' = Saving(pass.st) /\ UNCHANGED nova
    BY <1>3 DEF StartEnd
  <2>2. /\ pass'.st = pass.st /\ pass'.pc = "save" /\ pass'.queue = <<>> /\ pass'.cands = <<>>
    BY <1>0, <2>1 DEF Saving, Idle
  <2>3. OnSrc' = OnSrc
    BY <2>1, OnSrcUnchanged
  <2>4. /\ ToSet(pass'.queue) = {} /\ Distinct(pass'.queue)
        /\ Picked(pass'.cands) = {} /\ DistinctPicks(pass'.cands)
    BY <2>2, EmptyDistinct
  <2> QED BY <1>0, <1>1, <1>2, <2>1, <2>2, <2>3, <2>4, ListWork
<1>4. CASE Migrate \/ MigrateError
  <2>0. pass.cands # <<>>
    BY <1>4 DEF Migrate, MigrateError, Starting
  <2>1. /\ c \in Candidate /\ c.id \in Picked(pass.cands) /\ DistinctPicks(Tail(pass.cands))
        /\ Picked(Tail(pass.cands)) = Picked(pass.cands) \ {c.id}
    BY <1>0, <1>1, <2>0, TakePick
  <2>2. c.id \in Instances /\ c.id \in ToSet(pass.st.outstanding)
    BY <1>1, <2>1 DEF Candidate
  <2>3. OnSrc' = OnSrc /\ \A j \in Instances : nova'[j].status = "UNBORN" => nova[j].status = "UNBORN"
    <3>1. CASE UNCHANGED nova
      BY <3>1, OnSrcUnchanged
    <3>2. CASE nova' = [nova EXCEPT ![c.id].task = IF c.live THEN "migrating" ELSE "resize_prep"]
      <4>1. \A j \in Instances : nova'[j].status = nova[j].status /\ nova'[j].host = nova[j].host
        BY <1>0, <2>2, <3>2 DEF VM
      <4> QED BY <4>1 DEF OnSrc, Exists
    <3> QED BY <1>4, <3>1, <3>2 DEF Migrate, MigrateError
  <2> HIDE DEF c
  <2>4. /\ pass'.pc = "start" /\ pass'.queue = pass.queue /\ pass'.cands = Tail(pass.cands)
        /\ \/ pass'.st \in {pass.st, migrationFailed(pass.st)}
           \/ pass'.st = strike(migrationFailed(pass.st), c.id) /\ c.id \notin OnSrc
    BY <1>0, <1>4 DEF Migrate, MigrateError, Starting, InPass, Pass, OnSrc, c
  <2>5. pass.st.outstanding # <<>>
    BY <2>2, EmptyDistinct
  <2>6. \E gone \in SUBSET {c.id} : Reworked(pass.st, pass'.st, gone) /\ gone \cap OnSrc = {}
    <3>1. Reworked(pass.st, migrationFailed(pass.st), {})
      BY <1>0, <1>1, <2>5, ReworkedFailed
    <3>2. Reworked(pass.st, strike(migrationFailed(pass.st), c.id), {c.id})
      BY <1>0, <1>1, <2>2, ReworkedFailedAndGone
    <3>3. CASE pass'.st \in {pass.st, migrationFailed(pass.st)}
      <4>1. Reworked(pass.st, pass'.st, {})
        BY <1>2, <3>1, <3>3
      <4> QED BY <4>1
    <3>4. CASE pass'.st = strike(migrationFailed(pass.st), c.id) /\ c.id \notin OnSrc
      <4>1. Reworked(pass.st, pass'.st, {c.id}) /\ {c.id} \cap OnSrc = {}
        BY <3>2, <3>4
      <4> QED BY <4>1
    <3> QED BY <2>4, <3>3, <3>4
  <2>7. PICK gone \in SUBSET {c.id} : Reworked(pass.st, pass'.st, gone) /\ gone \cap OnSrc = {}
    BY <2>6
  <2>8. ToSet(pass'.queue) \cap Picked(pass'.cands) = {}
    BY <1>1, <2>1, <2>4
  <2>9. ToSet(pass'.queue) \cup Picked(pass'.cands) \subseteq ToSet(pass'.st.outstanding)
    <3>1. ToSet(pass'.st.outstanding) = ToSet(pass.st.outstanding) \ gone
      BY <2>7 DEF Reworked
    <3>2. c.id \notin ToSet(pass.queue)
      BY <1>1, <2>1
    <3> QED BY <1>1, <2>1, <2>4, <3>1, <3>2
  <2> QED BY <1>0, <1>1, <2>1, <2>3, <2>4, <2>7, <2>8, <2>9, ListWork
<1> QED BY <1>3, <1>4

\* The write-back replaces an honest status by an honest one.
LEMMA ListSave ==
    ListInv /\ (updateStatus \/ updateStatusError \/ Crash) => ListInv'
<1> SUFFICES ASSUME ListInv, updateStatus \/ updateStatusError \/ Crash
             PROVE  ListInv'
  OBVIOUS
<1>0. /\ IndInv' /\ ev \in EvStatus /\ pass.st \in EvStatus
      /\ pass' = Idle /\ UNCHANGED <<nova, hv, present>>
  BY IndController
  DEF ListInv, IndInv, TypeOK, Pass, Controller, updateStatus, updateStatusError, Crash, InPass
<1>1. CASE UNCHANGED ev
  BY <1>0, <1>1, ListPassEnds
<1>2. CASE pass.pc = "save" /\ present /\ ev' = merge(ev, pass.st)
  <2>1. /\ Honest(ev, nova, hv.known) /\ Honest(pass.st, nova, hv.known)
        /\ Copy(ev, pass, OnSrc)
        /\ pass.st.evicting # "None" /\ (ev.preflight = "True" => pass.st.preflight = "True")
    BY <1>2 DEF ListInv, IndInv
  <2>2. /\ ev'.outstanding = pass.st.outstanding
        /\ ev'.preflight = IF pass.st.preflight = "None" THEN ev.preflight ELSE pass.st.preflight
        /\ ev'.evicting = pass.st.evicting
        /\ ev'.migration = IF pass.st.migration = "None" THEN ev.migration ELSE pass.st.migration
    BY <1>0, <1>2, <2>1, mergeKeeps DEF merge
  <2>3. /\ ev'.preflight = "True" <=> pass.st.preflight = "True"
        /\ ev'.migration = pass.st.migration
    BY <2>1, <2>2 DEF Copy
  <2>4. Honest(ev', nova, hv.known)
    BY <2>1, <2>2, <2>3 DEF Honest
  <2>5. pass'.pc = "idle" /\ pass'.st = NoStatus
    BY <1>0 DEF Idle
  <2>6. Honest(pass'.st, nova', hv'.known) /\ Met(pass') /\ Honest(ev', nova', hv'.known)
    BY <1>0, <2>4, <2>5, IdleHonest
  <2> QED BY <1>0, <2>5, <2>6 DEF ListInv
<1> QED BY <1>1, <1>2 DEF updateStatus, updateStatusError, Crash, InPass

\* Nova brings no instance back: what was struck off stays away.
LEMMA ListNova == ListInv /\ Nova => ListInv'
<1> SUFFICES ASSUME ListInv, Nova PROVE ListInv'
  OBVIOUS
<1>0. /\ IndInv' /\ ev \in EvStatus /\ pass \in Pass /\ pass.st \in EvStatus
      /\ nova \in [Instances -> VM]
      /\ hv \in [registered : BOOLEAN, disabled : BOOLEAN, known : BOOLEAN]
  BY IndNova DEF ListInv, IndInv, TypeOK, Pass
<1>1. UNCHANGED <<present, ev, pass>>
  BY DEF Nova, NovaTakesUp, NovaCompletes, NovaFails, NovaFailsAfterMove, UserDeletes,
         NovaDeletes, UserToggles, NovaPlaces, HypervisorVanishes, Become
<1>2. hv'.known => hv.known
  <2>1. CASE HypervisorVanishes
    BY <1>0, <2>1 DEF HypervisorVanishes
  <2>2. CASE ~ HypervisorVanishes
    BY <2>2 DEF Nova, NovaTakesUp, NovaCompletes, NovaFails, NovaFailsAfterMove, UserDeletes,
                NovaDeletes, UserToggles, NovaPlaces, Become
  <2> QED BY <2>1, <2>2
<1>3. \A j \in Instances :
         /\ nova'[j].status = "UNBORN" => nova[j].status = "UNBORN"
         /\ j \in OnSrc' => j \in OnSrc \/ nova[j].status = "UNBORN"
  <2>1. ASSUME NEW i \in Instances,
               \/ NovaTakesUp(i) \/ NovaCompletes(i) \/ NovaFails(i) \/ NovaFailsAfterMove(i)
               \/ UserDeletes(i) \/ NovaDeletes(i) \/ UserToggles(i) \/ NovaPlaces(i),
               NEW j \in Instances
        PROVE  /\ nova'[j].status = "UNBORN" => nova[j].status = "UNBORN"
               /\ j \in OnSrc' => j \in OnSrc \/ nova[j].status = "UNBORN"
    <3>1. CASE j # i
      <4>1. nova'[j] = nova[j]
        BY <1>0, <2>1, <3>1
        DEF NovaTakesUp, NovaCompletes, NovaFails, NovaFailsAfterMove, UserDeletes,
            NovaDeletes, UserToggles, NovaPlaces, Become
      <4> QED BY <4>1 DEF OnSrc, Exists
    <3>2. CASE j = i
      BY <1>0, <2>1, <3>2
      DEF NovaTakesUp, NovaCompletes, NovaFails, NovaFailsAfterMove, UserDeletes,
          NovaDeletes, UserToggles, NovaPlaces, Become, OnSrc, Exists, Gone
    <3> QED BY <3>1, <3>2
  <2>2. CASE HypervisorVanishes
    BY <2>2, OnSrcUnchanged DEF HypervisorVanishes
  <2> QED BY <2>1, <2>2 DEF Nova
<1>4. Honest(ev, nova', hv'.known) /\ Honest(pass.st, nova', hv'.known)
  BY <1>0, <1>2, <1>3, HonestFrame DEF ListInv
<1>5. ASSUME present, pass.pc # "idle" PROVE Copy(ev, pass, OnSrc')
  <2>1. Copy(ev, pass, OnSrc) /\ Honest(ev, nova, hv.known)
    BY <1>5 DEF ListInv
  <2>2. OnSrc' \subseteq Instances
    BY DEF OnSrc
  <2>3. (ToSet(ev.outstanding) \ ToSet(pass.st.outstanding)) \cap OnSrc' = {}
    BY <1>3, <2>1, <2>2 DEF Copy, Honest
  <2> QED BY <2>1, <2>3 DEF Copy
<1> QED BY <1>0, <1>1, <1>4, <1>5 DEF ListInv

\* A new Eviction starts from nothing, and not before the last pass ended.
LEMMA ListMaintenance ==
    ASSUME "recreate_in_pass" \notin Faults
    PROVE  ListInv /\ Maintenance => ListInv'
<1> SUFFICES ASSUME ListInv, Maintenance PROVE ListInv'
  OBVIOUS
<1>0. /\ IndInv' /\ UNCHANGED <<nova, pass>> /\ OnSrc' = OnSrc
      /\ hv \in [registered : BOOLEAN, disabled : BOOLEAN, known : BOOLEAN]
  BY IndMaintenance, OnSrcUnchanged
  DEF ListInv, IndInv, TypeOK, Maintenance, MaintenanceDisables, MaintenanceCreates,
      MaintenanceEnables, MaintenanceDeletes
<1>1. hv'.known = hv.known
  BY <1>0 DEF Maintenance, MaintenanceDisables, MaintenanceCreates, MaintenanceEnables, MaintenanceDeletes
<1>2. CASE MaintenanceDeletes
  <2>1. ~ present' /\ ev' = NoStatus
    BY <1>2 DEF MaintenanceDeletes
  <2> QED BY <1>0, <1>1, <2>1, IdleHonest DEF ListInv
<1>3. CASE MaintenanceCreates
  <2>1. pass.pc = "idle" /\ UNCHANGED ev
    BY <1>3 DEF MaintenanceCreates
  <2> QED BY <1>0, <1>1, <2>1 DEF ListInv
<1>4. CASE MaintenanceDisables \/ MaintenanceEnables
  <2>1. UNCHANGED <<present, ev>>
    BY <1>4 DEF MaintenanceDisables, MaintenanceEnables
  <2> QED BY <1>0, <1>1, <2>1 DEF ListInv
<1> QED BY <1>2, <1>3, <1>4 DEF Maintenance

\* The list is empty when the operator starts.
LEMMA ListInit == Init => ListInv
<1> SUFFICES ASSUME Init PROVE ListInv
  OBVIOUS
<1>1. IndInv /\ ev = NoStatus /\ pass = Idle /\ pass.st = NoStatus /\ ~ present
  BY IndInit DEF Init, Idle
<1> QED BY <1>1, IdleHonest DEF ListInv

\* Every step, and stuttering, keeps the list invariant.
LEMMA ListNext ==
    ASSUME "recreate_in_pass" \notin Faults
    PROVE  ListInv /\ [Next]_vars => ListInv'
<1>1. ListInv /\ UNCHANGED vars => ListInv'
  <2> SUFFICES ASSUME ListInv, UNCHANGED vars PROVE ListInv'
    OBVIOUS
  <2>1. IndInv'
    BY IndNext DEF ListInv
  <2>2. OnSrc' = OnSrc /\ UNCHANGED <<nova, hv, present, ev, pass>>
    BY OnSrcUnchanged DEF vars
  <2> QED BY <2>1, <2>2 DEF ListInv
<1>2. ListInv /\ Controller => ListInv'
  BY ListBegin, ListPreflight, ListScan, ListConfirm, ListMigrate, ListSave DEF Controller
<1> QED BY <1>1, <1>2, ListNova, ListMaintenance DEF Next

\* The list invariant holds in every reachable state, as long as no Eviction
\* is re-created while a pass of its predecessor is still running.
THEOREM ListInductive ==
    ASSUME "recreate_in_pass" \notin Faults
    PROVE  Spec => []ListInv
BY ListInit, ListNext, PTL DEF Spec

\* A failure the Eviction reports is about an instance that still has to
\* move, and a successful Eviction reports none: setMigrationSucceeded clears
\* the failure with the last instance, evictNext records one only for an
\* instance of the list.
THEOREM FailureHasInstance ==
    ASSUME "recreate_in_pass" \notin Faults
    PROVE  Spec => []FailureIsOutstanding
<1>1. ListInv => FailureIsOutstanding
  BY DEF ListInv, Honest, FailureIsOutstanding
<1> QED BY <1>1, ListInductive, PTL

\* Once recorded, a failure stays until the last instance has left, however
\* many passes, write conflicts and restarts there are in between.
THEOREM FailureSticks ==
    ASSUME "recreate_in_pass" \notin Faults
    PROVE  Spec => FailureIsSticky
<1> DEFINE Sticky == present /\ present' /\ ev.migration = "Failed" /\ ev'.migration # "Failed"
                        => ev'.outstanding = <<>>
<1>1. ListInv /\ [Next]_vars => [Sticky]_vars
  <2> SUFFICES ASSUME ListInv, Next, present, present', ev.migration = "Failed", ev'.migration # "Failed"
               PROVE  ev'.outstanding = <<>>
    OBVIOUS
  <2>1. updateStatus
    BY DEF Next, Controller, Start, PreflightBlocked, PreflightBegin, EvictNextBegin, Succeed, Begin,
           PreflightList, PreflightNotFound, PreflightError, ScanInstance, ScanError, ScanEnd, Scanning,
           ConfirmResize, ConfirmError, Migrate, MigrateError, Starting, StartEnd, InPass,
           updateStatusError, Crash, Nova, NovaTakesUp, NovaCompletes, NovaFails, NovaFailsAfterMove,
           UserDeletes, NovaDeletes, UserToggles, NovaPlaces, HypervisorVanishes, Become,
           Maintenance, MaintenanceDisables, MaintenanceCreates, MaintenanceEnables, MaintenanceDeletes
  <2>2. ev' = merge(ev, pass.st) /\ pass.pc = "save" /\ Copy(ev, pass, OnSrc)
    BY <2>1 DEF updateStatus, ListInv
  <2>3. ev'.outstanding = pass.st.outstanding /\ (pass.st.migration # "None" => ev'.migration = pass.st.migration)
    BY <2>2 DEF merge
  <2> QED BY <2>2, <2>3 DEF Copy
<1>2. Spec => [][Sticky]_vars
  BY <1>1, ListInductive, PTL DEF Spec
<1> QED BY <1>2 DEF FailureIsSticky

-----------------------------------------------------------------------------
(* The concurrency limit.                                                  *)

\* Nova moves only instances that are on src, in these statuses.
Consistent(vms) == \A i \in Instances :
    /\ vms[i].status \in {"MIGRATING", "RESIZE"} => vms[i].host = "src"
    /\ vms[i].task \in {"migrating", "resize_prep"} =>
          vms[i].host = "src" /\ vms[i].status \in {"ACTIVE", "SHUTOFF", "MIGRATING", "RESIZE"}

\* The slots of the pass p while F is in flight: all of F is on its list, the
\* part of F it has looked at is counted, and so is what it has started.
Slots(p, F) ==
    /\ p.st.preflight = "True" => F \subseteq ToSet(p.st.outstanding)
    /\ Picked(p.cands) \cap F = {}
    /\ p.pc \in {"scan", "confirm"} =>
          p.started = 0 /\ Cardinality(F \ ToSet(p.queue)) <= p.inFlight
    /\ p.pc = "start" /\ p.inFlight + p.started < Limit =>
          Cardinality(F) <= p.inFlight + p.started

\* The limit as the controller resolves it.
LimitBound == Cardinality(InFlight) <= Limit

\* What is in flight is on the list since the preflight, is counted when it
\* is scanned, and again when it is started.
LimitInv ==
    /\ ListInv
    /\ Consistent(nova)
    /\ \A i \in Picked(pass.cands) : nova[i].host = "src"
    /\ Slots(pass, InFlight)
    /\ present /\ ev.preflight = "True" => InFlight \subseteq ToSet(ev.outstanding)
    /\ LimitBound

\* The resolved limit is a positive number.
LEMMA LimitType == Limit \in Nat /\ Limit >= 1
<1> DEFINE M == {TraitConcurrency[t] : t \in HvTraits \cap DOMAIN TraitConcurrency}
           m == Min({EvictionConcurrency} \cup M)
<1>1. {EvictionConcurrency} \cup M \subseteq Nat /\ {EvictionConcurrency} \cup M # {}
  BY ConstantsAssumption
<1>2. m \in Nat
  <2> HIDE DEF M
  <2>1. m \in {EvictionConcurrency} \cup M
    BY <1>1, MinOfNat
  <2> QED BY <1>1, <2>1
<1>3. ResolveConcurrency(HvTraits) = IF m < 1 THEN 1 ELSE m
  BY DEF ResolveConcurrency
<1> HIDE DEF m
<1>4. ResolveConcurrency(HvTraits) \in Nat /\ ResolveConcurrency(HvTraits) >= 1
  BY <1>2, <1>3
<1> QED BY <1>4 DEF Limit

\* Above one, it is below the default limit and that of each of the traits.
LEMMA LimitIsLowest ==
    ASSUME NEW n \in Nat, n > 1, n <= Limit
    PROVE  /\ n <= EvictionConcurrency
           /\ \A t \in HvTraits \cap DOMAIN TraitConcurrency : n <= TraitConcurrency[t]
<1> DEFINE M == {TraitConcurrency[t] : t \in HvTraits \cap DOMAIN TraitConcurrency}
           S == {EvictionConcurrency} \cup M
           m == Min(S)
<1>1. S \subseteq Nat /\ S # {}
  BY ConstantsAssumption
<1>2. m \in Nat /\ \A y \in S : m <= y
  <2> HIDE DEF S
  <2> QED BY <1>1, MinOfNat
<1>3. ResolveConcurrency(HvTraits) = IF m < 1 THEN 1 ELSE m
  BY DEF ResolveConcurrency
<1>4. n <= m
  <2> HIDE DEF m
  <2> QED BY <1>2, <1>3 DEF Limit
<1>5. \A y \in S : y \in Nat /\ n <= y
  <2> HIDE DEF m, S
  <2> QED BY <1>1, <1>2, <1>4
<1>6. EvictionConcurrency \in S
  OBVIOUS
<1>7. \A t \in HvTraits \cap DOMAIN TraitConcurrency : TraitConcurrency[t] \in S
  OBVIOUS
<1> HIDE DEF S
<1> QED BY <1>5, <1>6, <1>7

\* The instances in flight are finitely many.
LEMMA InFlightFinite ==
    /\ InFlight \subseteq Instances /\ IsFiniteSet(InFlight) /\ Cardinality(InFlight) \in Nat
    /\ \A T : T \subseteq InFlight =>
          IsFiniteSet(T) /\ Cardinality(T) \in Nat /\ Cardinality(T) <= Cardinality(InFlight)
<1>1. InFlight \subseteq Instances
  BY DEF InFlight
<1>2. IsFiniteSet(InFlight)
  BY <1>1, FS_Subset, ConstantsAssumption
<1> QED BY <1>1, <1>2, FS_Subset, FS_CardinalityType

\* What is in flight is on src.
LEMMA InFlightOnSrc ==
    ASSUME nova \in [Instances -> VM], Consistent(nova)
    PROVE  InFlight \subseteq OnSrc
BY DEF Consistent, InFlight, OnSrc, Exists

\* Fewer migrations in flight need no more slots.
LEMMA SlotsShrink ==
    ASSUME NEW p \in Pass, NEW F, NEW F2, IsFiniteSet(F), F2 \subseteq F, Slots(p, F)
    PROVE  Slots(p, F2) /\ IsFiniteSet(F2) /\ Cardinality(F2) <= Cardinality(F)
<1>1. p.inFlight \in Nat /\ p.started \in Nat
  BY DEF Pass
<1>2. IsFiniteSet(F2) /\ Cardinality(F2) <= Cardinality(F)
  BY FS_Subset
<1>3. IsFiniteSet(F \ ToSet(p.queue)) /\ F2 \ ToSet(p.queue) \subseteq F \ ToSet(p.queue)
  BY FS_Subset
<1>4. /\ Cardinality(F2 \ ToSet(p.queue)) <= Cardinality(F \ ToSet(p.queue))
      /\ IsFiniteSet(F2 \ ToSet(p.queue))
  BY <1>3, FS_Subset
<1>5. /\ Cardinality(F) \in Nat /\ Cardinality(F2) \in Nat
      /\ Cardinality(F \ ToSet(p.queue)) \in Nat /\ Cardinality(F2 \ ToSet(p.queue)) \in Nat
  BY <1>2, <1>3, <1>4, FS_CardinalityType
<1>6. p.inFlight + p.started \in Nat
  BY <1>1
<1>7. ASSUME p.pc \in {"scan", "confirm"}
      PROVE  p.started = 0 /\ Cardinality(F2 \ ToSet(p.queue)) <= p.inFlight
  BY <1>1, <1>4, <1>5, <1>7 DEF Slots
<1>8. ASSUME p.pc = "start", p.inFlight + p.started < Limit
      PROVE  Cardinality(F2) <= p.inFlight + p.started
  BY <1>2, <1>5, <1>6, <1>8 DEF Slots
<1> QED BY <1>2, <1>7, <1>8 DEF Slots

\* The scan goes one instance on: it is counted if it is in flight.
LEMMA SlotsScanned ==
    ASSUME NEW F, IsFiniteSet(F), NEW Q, NEW i \in Q, NEW n \in Nat, NEW busy \in {0, 1},
           Cardinality(F \ Q) <= n, i \in F => busy = 1
    PROVE  Cardinality(F \ (Q \ {i})) <= n + busy
<1>1. IsFiniteSet(F \ Q) /\ Cardinality(F \ Q) \in Nat
  BY FS_Subset, FS_CardinalityType
<1>2. CASE i \notin F
  <2>1. F \ (Q \ {i}) = F \ Q
    BY <1>2
  <2> QED BY <1>1, <2>1
<1>3. CASE i \in F
  <2>1. F \ (Q \ {i}) = (F \ Q) \cup {i}
    BY <1>3
  <2>2. Cardinality((F \ Q) \cup {i}) = Cardinality(F \ Q) + 1
    BY <1>1, FS_AddElement
  <2> QED BY <1>1, <1>3, <2>1, <2>2
<1> QED BY <1>2, <1>3

\* Nothing of Nova's moves, and the pass is not at work: only the list counts.
LEMMA LimitQuiet ==
    ASSUME LimitInv, ListInv', UNCHANGED nova,
           pass'.pc \in {"idle", "preflight", "save"}, pass'.cands = <<>>,
           pass'.st.preflight = "True" => InFlight \subseteq ToSet(pass'.st.outstanding),
           present' /\ ev'.preflight = "True" => InFlight \subseteq ToSet(ev'.outstanding)
    PROVE  LimitInv'
<1>1. InFlight' = InFlight
  BY DEF InFlight
<1>2. Picked(pass'.cands) = {}
  BY EmptyDistinct
<1>3. Slots(pass', InFlight')
  BY <1>1, <1>2 DEF Slots
<1>4. LimitBound'
  BY <1>1 DEF LimitInv, LimitBound
<1> QED BY <1>1, <1>2, <1>3, <1>4 DEF LimitInv

\* Reconcile up to its first call, and its write-back.
LEMMA LimitBeginOrEnd ==
    LimitInv /\ ListInv'
    /\ (Start \/ PreflightBlocked \/ PreflightBegin \/ EvictNextBegin \/ Succeed
        \/ PreflightList \/ PreflightNotFound \/ PreflightError
        \/ StartEnd \/ updateStatus \/ updateStatusError \/ Crash)
    => LimitInv'
<1> SUFFICES ASSUME LimitInv, ListInv',
                    \/ Start \/ PreflightBlocked \/ PreflightBegin \/ EvictNextBegin \/ Succeed
                    \/ PreflightList \/ PreflightNotFound \/ PreflightError
                    \/ StartEnd \/ updateStatus \/ updateStatusError \/ Crash
             PROVE  LimitInv'
  OBVIOUS
<1>0. /\ ev \in EvStatus /\ pass \in Pass /\ pass.st \in EvStatus /\ nova \in [Instances -> VM]
      /\ pass' \in Pass
      /\ Slots(pass, InFlight) /\ Consistent(nova) /\ ListInv
      /\ present /\ ev.preflight = "True" => InFlight \subseteq ToSet(ev.outstanding)
  BY DEF LimitInv, ListInv, IndInv, TypeOK, Pass
<1>i. Idle.pc = "idle" /\ Idle.cands = <<>> /\ Idle.st.preflight = "None"
  BY DEF Idle, NoStatus
<1>s. \A st : Saving(st).pc = "save" /\ Saving(st).cands = <<>> /\ Saving(st).st = st
  BY DEF Saving, Idle
<1>1. CASE Start
  <2>1. /\ pass' = Saving([ev EXCEPT !.evicting = "Running"]) /\ UNCHANGED <<nova, present, ev>> /\ present
    BY <1>1 DEF Start, Begin
  <2>2. pass'.st = [ev EXCEPT !.evicting = "Running"]
    BY <2>1, <1>s
  <2>3. pass'.st.preflight = ev.preflight /\ pass'.st.outstanding = ev.outstanding
    BY <1>0, <2>2 DEF EvStatus
  <2> QED BY <1>0, <1>s, <2>1, <2>3, LimitQuiet
<1>2. CASE PreflightBlocked
  <2>1. /\ pass' = Saving([ev EXCEPT !.preflight = "False"]) /\ UNCHANGED <<nova, present, ev>> /\ present
    BY <1>2 DEF PreflightBlocked, Begin
  <2>2. pass'.st = [ev EXCEPT !.preflight = "False"]
    BY <2>1, <1>s
  <2>3. pass'.st.preflight = "False"
    BY <1>0, <2>2 DEF EvStatus
  <2> QED BY <1>0, <1>s, <2>1, <2>3, LimitQuiet
<1>3. CASE PreflightBegin
  <2>1. /\ pass'.pc = "preflight" /\ pass'.st = ev /\ pass'.cands = <<>> /\ ev.preflight # "True"
        /\ UNCHANGED <<nova, present, ev>>
    BY <1>3 DEF PreflightBegin, Begin, Idle
  <2> QED BY <1>0, <2>1, LimitQuiet
<1>4. CASE EvictNextBegin
  <2>1. /\ pass'.pc = "scan" /\ pass'.st = ev /\ pass'.cands = <<>> /\ pass'.queue = ev.outstanding
        /\ pass'.inFlight = 0 /\ pass'.started = 0
        /\ UNCHANGED <<nova, present, ev>> /\ present /\ ev.preflight = "True"
    BY <1>4 DEF EvictNextBegin, Begin, Idle
  <2>2. InFlight' = InFlight /\ Picked(pass'.cands) = {}
    BY <2>1, EmptyDistinct DEF InFlight
  <2>3. InFlight \ ToSet(pass'.queue) = {}
    BY <1>0, <2>1
  <2>4. Slots(pass', InFlight')
    <3>1. Cardinality(InFlight' \ ToSet(pass'.queue)) = 0
      BY <2>2, <2>3, FS_EmptySet
    <3>2. InFlight' \subseteq ToSet(pass'.st.outstanding)
      BY <1>0, <2>1, <2>2
    <3>3. Cardinality(InFlight' \ ToSet(pass'.queue)) <= pass'.inFlight
      BY <2>1, <3>1
    <3> QED BY <2>1, <2>2, <3>2, <3>3 DEF Slots
  <2> QED BY <1>0, <2>1, <2>2, <2>4 DEF LimitInv, LimitBound
<1>5. CASE Succeed
  <2>1. /\ pass' = Saving([ev EXCEPT !.evicting = "Succeeded"]) /\ UNCHANGED <<nova, present, ev>> /\ present
    BY <1>5 DEF Succeed, Begin
  <2>2. pass'.st = [ev EXCEPT !.evicting = "Succeeded"]
    BY <2>1, <1>s
  <2>3. pass'.st.preflight = ev.preflight /\ pass'.st.outstanding = ev.outstanding
    BY <1>0, <2>2 DEF EvStatus
  <2> QED BY <1>0, <1>s, <2>1, <2>3, LimitQuiet
<1>6. CASE PreflightList
  <2>1. PICK list \in ServerLists :
           pass' = Saving([pass.st EXCEPT
                      !.outstanding = IF list = <<>> THEN pass.st.outstanding ELSE list,
                      !.preflight   = "True"])
    BY <1>6 DEF PreflightList
  <2> DEFINE st == [pass.st EXCEPT
                      !.outstanding = IF list = <<>> THEN pass.st.outstanding ELSE list,
                      !.preflight   = "True"]
  <2>2. ToSet(list) = OnSrc
    BY ServerListType
  <2>3. st.outstanding = IF list = <<>> THEN pass.st.outstanding ELSE list
    BY <1>0 DEF EvStatus
  <2>4. pass'.st = st /\ pass'.pc = "save" /\ pass'.cands = <<>> /\ UNCHANGED <<nova, present, ev>>
    BY <1>6, <1>s, <2>1 DEF PreflightList, InPass
  <2> HIDE DEF st
  <2>5. InFlight \subseteq ToSet(pass'.st.outstanding)
    <3>1. InFlight \subseteq OnSrc
      BY <1>0, InFlightOnSrc
    <3>2. list = <<>> => OnSrc = {}
      BY <2>2, EmptyDistinct
    <3> QED BY <2>2, <2>3, <2>4, <3>1, <3>2
  <2> QED BY <1>0, <2>4, <2>5, LimitQuiet
<1>7. CASE PreflightNotFound
  <2> DEFINE st == [pass.st EXCEPT !.evicting = IF hv.registered THEN "Failed" ELSE "Succeeded"]
  <2>1. pass' = Saving(st) /\ UNCHANGED <<nova, present, ev>>
    BY <1>7 DEF PreflightNotFound, InPass
  <2>2. st.preflight = pass.st.preflight /\ st.outstanding = pass.st.outstanding
    BY <1>0 DEF EvStatus
  <2> HIDE DEF st
  <2> QED BY <1>0, <1>s, <2>1, <2>2, LimitQuiet DEF Slots
<1>8. CASE StartEnd
  <2>1. pass' = Saving(pass.st) /\ UNCHANGED <<nova, present, ev>>
    BY <1>8 DEF StartEnd, InPass
  <2> QED BY <1>0, <1>s, <2>1, LimitQuiet DEF Slots
<1>9. CASE updateStatus \/ updateStatusError \/ Crash \/ PreflightError
  <2>1. pass' = Idle /\ UNCHANGED <<nova, present>>
    BY <1>9 DEF updateStatus, updateStatusError, Crash, PreflightError, InPass
  <2>2. CASE UNCHANGED ev
    BY <1>0, <1>i, <2>1, <2>2, LimitQuiet
  <2>3. CASE pass.pc = "save" /\ present /\ ev' = merge(ev, pass.st)
    <3>1. ev'.outstanding = pass.st.outstanding /\ (ev'.preflight = "True" => pass.st.preflight = "True")
      BY <1>0, <2>3, mergeKeeps DEF ListInv, IndInv
    <3> QED BY <1>0, <1>i, <2>1, <2>3, <3>1, LimitQuiet DEF Slots
  <2> QED BY <1>9, <2>2, <2>3 DEF updateStatus, updateStatusError, Crash, PreflightError, InPass
<1> QED BY <1>1, <1>2, <1>3, <1>4, <1>5, <1>6, <1>7, <1>8, <1>9

\* The scan counts every instance in flight that it meets.
LEMMA LimitScan ==
    ASSUME "get_error" \notin Faults
    PROVE  LimitInv /\ ListInv' /\ (ScanInstance \/ ScanError \/ ScanEnd \/ ConfirmResize \/ ConfirmError)
           => LimitInv'
<1> SUFFICES ASSUME LimitInv, ListInv', ScanInstance \/ ScanEnd \/ ConfirmResize \/ ConfirmError
             PROVE  LimitInv'
  BY DEF ScanError, Disturb
<1> DEFINE i == Head(pass.queue)
<1>0. /\ pass \in Pass /\ pass' \in Pass /\ pass.st \in EvStatus /\ nova \in [Instances -> VM]
      /\ pass.queue \in Seq(Instances) /\ pass.inFlight \in Nat /\ pass.started \in Nat
      /\ pass.cands \in Seq(Candidate)
      /\ Slots(pass, InFlight) /\ Consistent(nova) /\ ListInv
      /\ present /\ ev.preflight = "True" => InFlight \subseteq ToSet(ev.outstanding)
      /\ Distinct(pass.queue) /\ Distinct(pass.st.outstanding)
      /\ ToSet(pass.queue) \cap Picked(pass.cands) = {}
      /\ ToSet(pass.queue) \subseteq ToSet(pass.st.outstanding)
      /\ \A j \in Picked(pass.cands) : nova[j].host = "src"
      /\ DistinctPicks(pass.cands)
  BY DEF LimitInv, ListInv, IndInv, TypeOK, Pass, Met, Honest
<1>1. /\ UNCHANGED <<present, ev>> /\ pass.pc \in {"scan", "confirm"}
      /\ pass.started = 0 /\ Cardinality(InFlight \ ToSet(pass.queue)) <= pass.inFlight
      /\ pass.st.preflight = "True" /\ InFlight \subseteq ToSet(pass.st.outstanding)
  BY <1>0 DEF ScanInstance, ScanEnd, ConfirmResize, ConfirmError, Scanning, InPass, Slots, ListInv, Met
<1>2. pass.queue # <<>> =>
         /\ i \in Instances /\ i \in ToSet(pass.queue)
         /\ ToSet(Tail(pass.queue)) = ToSet(pass.queue) \ {i}
  BY <1>0, DistinctTail
<1>3. ConfirmResize \/ ConfirmError => pass.queue # <<>>
  BY DEF ConfirmResize, ConfirmError, InPass, LimitInv, ListInv, IndInv, TypeOK
<1>4. /\ InFlight' = InFlight
      /\ Consistent(nova')
      /\ \A j \in Instances : nova'[j].host = nova[j].host
  <2>1. CASE UNCHANGED nova
    BY <1>0, <2>1 DEF InFlight
  <2>2. CASE /\ i \in Instances /\ nova[i].status = "VERIFY_RESIZE" /\ nova[i].task = "none"
             /\ nova' = [nova EXCEPT ![i].status = "SHUTOFF"]
    <3>1. \A j \in Instances : /\ nova'[j].task = nova[j].task /\ nova'[j].host = nova[j].host
                               /\ j # i => nova'[j].status = nova[j].status
      BY <1>0, <2>2 DEF VM
    <3>2. nova'[i].status = "SHUTOFF"
      BY <1>0, <2>2 DEF VM
    <3> QED BY <1>0, <2>2, <3>1, <3>2 DEF InFlight, Consistent
  <2> QED BY <1>2, <1>3, <2>1, <2>2 DEF ScanInstance, ScanEnd, ConfirmResize, ConfirmError
<1> HIDE DEF i
<1>5. IsFiniteSet(InFlight) /\ InFlight \subseteq Instances
  BY InFlightFinite
<1>6. ASSUME Slots(pass', InFlight), \A j \in Picked(pass'.cands) : j \in Instances /\ nova[j].host = "src"
      PROVE  LimitInv'
  <2>1. Slots(pass', InFlight')
    BY <1>4, <1>6
  <2>2. LimitBound'
    BY <1>4 DEF LimitInv, LimitBound
  <2> QED BY <1>0, <1>1, <1>4, <1>6, <2>1, <2>2 DEF LimitInv
<1>7. \A j \in Picked(pass.cands) : j \in Instances /\ nova[j].host = "src"
  <2>1. \A k \in DOMAIN pass.cands : pass.cands[k] \in Candidate
    BY <1>0, ElementOfSeq, LenProperties
  <2> QED BY <1>0, <2>1 DEF Picked, Candidate
<1>8. ASSUME pass.queue # <<>>, NEW st \in EvStatus, NEW busy \in {0, 1}, NEW cs,
             pass' = [Scanned(st, busy) EXCEPT !.cands = cs], Picked(cs) \cap InFlight = {},
             \A j \in Picked(cs) : j \in Instances /\ nova[j].host = "src",
             ToSet(pass.st.outstanding) \cap InFlight \subseteq ToSet(st.outstanding),
             i \in InFlight => busy = 1
      PROVE  LimitInv'
  <2>1. /\ pass'.st = st /\ pass'.pc = "scan" /\ pass'.queue = Tail(pass.queue)
        /\ pass'.cands = cs /\ pass'.inFlight = pass.inFlight + busy /\ pass'.started = pass.started
    BY <1>0, <1>8 DEF Scanned, Pass
  <2>2. Cardinality(InFlight \ ToSet(pass'.queue)) <= pass'.inFlight
    <3>1. i \in ToSet(pass.queue) /\ ToSet(pass'.queue) = ToSet(pass.queue) \ {i}
      BY <1>2, <1>8, <2>1
    <3>2. Cardinality(InFlight \ (ToSet(pass.queue) \ {i})) <= pass.inFlight + busy
      <4> DEFINE Q == ToSet(pass.queue)
      <4>1. Cardinality(InFlight \ Q) <= pass.inFlight /\ i \in Q
        BY <1>1, <3>1
      <4> HIDE DEF Q
      <4>2. Cardinality(InFlight \ (Q \ {i})) <= pass.inFlight + busy
        BY <1>0, <1>5, <1>8, <4>1, SlotsScanned
      <4> QED BY <4>2 DEF Q
    <3> QED BY <2>1, <3>1, <3>2
  <2>3. InFlight \subseteq ToSet(pass'.st.outstanding)
    BY <1>1, <1>8, <2>1
  <2>4. Slots(pass', InFlight)
    BY <1>1, <1>8, <2>1, <2>2, <2>3 DEF Slots
  <2> QED BY <1>6, <1>8, <2>1, <2>4
<1>9. ASSUME pass.queue # <<>>, NEW st \in EvStatus, NEW busy \in {0, 1},
             pass' = Scanned(st, busy),
             ToSet(pass.st.outstanding) \cap InFlight \subseteq ToSet(st.outstanding),
             i \in InFlight => busy = 1
      PROVE  LimitInv'
  <2>1. pass' = [Scanned(st, busy) EXCEPT !.cands = pass.cands]
    BY <1>0, <1>9 DEF Scanned, Pass
  <2>2. Picked(pass.cands) \cap InFlight = {}
    BY <1>0 DEF Slots
  <2> QED BY <1>7, <1>8, <1>9, <2>1, <2>2
<1>10. \A j \in Instances \ OnSrc : j \notin InFlight
  BY <1>0, InFlightOnSrc
<1>11. CASE ScanInstance
  <2>1. pass.queue # <<>> /\ i \in Instances /\ i \in ToSet(pass.st.outstanding)
    BY <1>0, <1>2, <1>11 DEF ScanInstance, Scanning
  <2>2. /\ strike(pass.st, i) \in EvStatus /\ setBack(pass.st, i) \in EvStatus
        /\ ToSet(strike(pass.st, i).outstanding) = ToSet(pass.st.outstanding) \ {i}
        /\ ToSet(setBack(pass.st, i).outstanding) = ToSet(pass.st.outstanding)
    <3>1. Reworked(pass.st, strike(pass.st, i), {i})
      BY <1>0, <2>1, ReworkedStrike
    <3>2. Reworked(pass.st, setBack(pass.st, i), {})
      BY <1>0, <2>1, ReworkedSetBack
    <3> QED BY <3>1, <3>2 DEF Reworked
  <2>3. i \in InFlight <=> \/ nova[i].status \in {"MIGRATING", "RESIZE"}
                           \/ isMigrationTaskState(nova[i].task)
    BY <2>1 DEF InFlight, isMigrationTaskState
  <2>4. CASE pass' = Scanned(strike(pass.st, i), 0) /\ i \notin OnSrc
    BY <1>9, <1>10, <2>1, <2>2, <2>4
  <2>5. CASE pass' = Scanned(pass.st, 1)
    BY <1>0, <1>9, <2>1, <2>5
  <2>6. CASE \E b \in {0, 1} : pass' = Scanned(setBack(pass.st, i), b) /\ i \notin InFlight
    BY <1>9, <2>1, <2>2, <2>6
  <2>7. CASE pass' = [pass EXCEPT !.pc = "confirm"]
    <3>1. /\ pass'.st = pass.st /\ pass'.pc = "confirm" /\ pass'.queue = pass.queue
          /\ pass'.cands = pass.cands /\ pass'.inFlight = pass.inFlight /\ pass'.started = pass.started
      BY <1>0, <2>7 DEF Pass
    <3>2. Slots(pass', InFlight)
      BY <1>0, <1>1, <3>1 DEF Slots
    <3> QED BY <1>6, <1>7, <3>1, <3>2
  <2>8. ASSUME NEW live \in BOOLEAN, nova[i].host = "src", i \notin InFlight,
               pass' = [Scanned(pass.st, 0) EXCEPT !.cands = Append(@, [id |-> i, live |-> live])]
        PROVE  LimitInv'
    <3> DEFINE c  == [id |-> i, live |-> live]
               cs == Append(pass.cands, c)
    <3>1. c \in Candidate /\ c.id = i
      BY <2>1 DEF Candidate
    <3>2. pass' = [Scanned(pass.st, 0) EXCEPT !.cands = cs]
      BY <1>0, <2>8 DEF Scanned, Pass
    <3> HIDE DEF c
    <3>3. i \notin Picked(pass.cands)
      BY <1>0, <1>2, <2>1
    <3>4. Picked(cs) = Picked(pass.cands) \cup {i}
      BY <1>0, <3>1, <3>3, PickOne
    <3> HIDE DEF cs
    <3>5. Picked(cs) \cap InFlight = {}
      BY <1>0, <2>8, <3>4 DEF Slots
    <3>6. \A j \in Picked(cs) : j \in Instances /\ nova[j].host = "src"
      BY <1>7, <2>1, <2>8, <3>4
    <3> QED BY <1>0, <1>8, <2>1, <2>8, <3>2, <3>5, <3>6
  <2>9. i \in InFlight => nova[i].status \in {"ACTIVE", "SHUTOFF", "MIGRATING", "RESIZE"} /\ nova[i].host = "src"
    BY <1>0, <2>1 DEF Consistent, InFlight
  <2>10. nova[i].status = "ERROR" => i \notin InFlight
    BY <2>9
  <2>11. nova[i].task = "deleting" /\ nova[i].status \in {"ACTIVE", "SHUTOFF", "RESCUE", "VERIFY_RESIZE"}
           => i \notin InFlight
    BY <2>1 DEF InFlight
  <2>12. nova[i].status \in {"ACTIVE", "SHUTOFF", "RESCUE", "VERIFY_RESIZE"} /\ ~ isMigrationTaskState(nova[i].task)
           => i \notin InFlight
    BY <2>3
  <2>13. ~ Exists(i) \/ nova[i].host # "src" => i \notin OnSrc
    BY DEF OnSrc
  <2> QED BY <1>11, <2>4, <2>5, <2>6, <2>7, <2>8, <2>10, <2>11, <2>12, <2>13 DEF ScanInstance, i
<1>12. CASE ScanEnd
  <2>1. /\ pass'.st = pass.st /\ pass'.pc = "start"
        /\ pass'.queue = <<>> /\ pass'.cands = pass.cands
        /\ pass'.inFlight = pass.inFlight /\ pass'.started = 0
        /\ pass.queue = <<>> \/ pass.inFlight >= Limit
    BY <1>0, <1>1, <1>12 DEF ScanEnd, Pass
  <2>2. pass'.inFlight + pass'.started < Limit => Cardinality(InFlight) <= pass'.inFlight + pass'.started
    <3>1. CASE pass.inFlight >= Limit
      BY <1>0, <2>1, <3>1, LimitType
    <3>2. CASE pass.queue = <<>>
      <4>1. InFlight \ ToSet(pass.queue) = InFlight
        BY <3>2, EmptyDistinct
      <4>2. Cardinality(InFlight) <= pass.inFlight
        BY <1>1, <4>1
      <4>3. pass'.inFlight + pass'.started = pass.inFlight
        BY <1>0, <2>1
      <4> QED BY <4>2, <4>3
    <3> QED BY <2>1, <3>1, <3>2
  <2>3. Slots(pass', InFlight)
    BY <1>0, <1>1, <2>1, <2>2 DEF Slots
  <2> QED BY <1>6, <1>7, <2>1, <2>3
<1>13. CASE ConfirmResize \/ ConfirmError
  <2>1. pass.queue # <<>> /\ i \in Instances
    BY <1>2, <1>3, <1>13
  <2>2. /\ strike(pass.st, i) \in EvStatus
        /\ ToSet(strike(pass.st, i).outstanding) = ToSet(pass.st.outstanding) \ {i}
    BY <1>0, <2>1, ReworkedStrike DEF Reworked
  <2>3. \/ pass' = Scanned(pass.st, 1)
        \/ pass' = Scanned(strike(pass.st, i), 1) /\ i \notin OnSrc
    BY <1>13 DEF ConfirmResize, ConfirmError, OnSrc, i
  <2> QED BY <1>0, <1>9, <1>10, <2>1, <2>2, <2>3
<1> QED BY <1>11, <1>12, <1>13

\* An order is given only while a slot is free, and takes it.
LEMMA LimitMigrate ==
    LimitInv /\ ListInv' /\ (Migrate \/ MigrateError) => LimitInv'
<1> SUFFICES ASSUME LimitInv, ListInv', Migrate \/ MigrateError
             PROVE  LimitInv'
  OBVIOUS
<1> DEFINE c == Head(pass.cands)
           F == InFlight
<1>0. /\ pass \in Pass /\ pass' \in Pass /\ pass.st \in EvStatus /\ nova \in [Instances -> VM]
      /\ pass.inFlight \in Nat /\ pass.started \in Nat
      /\ pass.cands \in Seq(Candidate) /\ pass.cands # <<>>
      /\ Slots(pass, F) /\ Consistent(nova) /\ ListInv
      /\ present /\ ev.preflight = "True" => F \subseteq ToSet(ev.outstanding)
      /\ Distinct(pass.st.outstanding) /\ DistinctPicks(pass.cands)
      /\ Picked(pass.cands) \subseteq ToSet(pass.st.outstanding)
      /\ \A j \in Picked(pass.cands) : nova[j].host = "src"
      /\ UNCHANGED <<present, ev>> /\ pass.pc = "start"
      /\ pass.inFlight + pass.started < Limit /\ Limit \in Nat
      /\ pass.st.preflight = "True"
  BY LimitType DEF LimitInv, ListInv, IndInv, TypeOK, Pass, Met, Honest, Migrate, MigrateError, Starting, InPass
<1>1. /\ c \in Candidate /\ c.id \in Picked(pass.cands)
      /\ Picked(Tail(pass.cands)) = Picked(pass.cands) \ {c.id}
  BY <1>0, TakePick
<1>2. c.id \in Instances /\ c.id \in ToSet(pass.st.outstanding) /\ nova[c.id].host = "src"
  BY <1>0, <1>1 DEF Candidate
<1>3. /\ IsFiniteSet(F) /\ Cardinality(F) \in Nat /\ F \subseteq ToSet(pass.st.outstanding)
      /\ Cardinality(F) <= pass.inFlight + pass.started
  BY <1>0, InFlightFinite DEF Slots
<1>4. CASE ~ UNCHANGED nova
  <2>1. /\ nova' = [nova EXCEPT ![c.id].task = IF c.live THEN "migrating" ELSE "resize_prep"]
        /\ pass' = [pass EXCEPT !.cands = Tail(@), !.started = @ + 1]
        /\ nova[c.id].status \in {"ACTIVE", "SHUTOFF"}
    BY <1>4 DEF Migrate, MigrateError, Accepts
  <2>2. /\ pass'.st = pass.st /\ pass'.pc = "start" /\ pass'.cands = Tail(pass.cands)
        /\ pass'.inFlight = pass.inFlight /\ pass'.started = pass.started + 1
    BY <1>0, <2>1 DEF Pass
  <2>3. /\ \A j \in Instances : nova'[j].status = nova[j].status /\ nova'[j].host = nova[j].host
        /\ \A j \in Instances \ {c.id} : nova'[j].task = nova[j].task
    BY <1>0, <1>2, <2>1 DEF VM
  <2>4. F' \subseteq F \cup {c.id} /\ Consistent(nova')
    BY <1>0, <1>2, <2>1, <2>3 DEF InFlight, Consistent
  <2>5. IsFiniteSet(F') /\ Cardinality(F') <= Cardinality(F) + 1 /\ Cardinality(F') \in Nat
    <3>1. IsFiniteSet(F \cup {c.id}) /\ Cardinality(F \cup {c.id}) <= Cardinality(F) + 1
      <4>1. CASE c.id \in F
        <5>1. F \cup {c.id} = F
          BY <4>1
        <5> QED BY <1>3, <5>1
      <4>2. CASE c.id \notin F
        <5> HIDE DEF F, c
        <5>1. IsFiniteSet(F \cup {c.id}) /\ Cardinality(F \cup {c.id}) = Cardinality(F) + 1
          BY <1>3, <4>2, FS_AddElement
        <5> QED BY <1>3, <5>1
      <4> QED BY <4>1, <4>2
    <3>2. Cardinality(F \cup {c.id}) \in Nat
      BY <3>1, FS_CardinalityType
    <3> HIDE DEF F
    <3>3. IsFiniteSet(F') /\ Cardinality(F') <= Cardinality(F \cup {c.id})
      BY <2>4, <3>1, FS_Subset
    <3>4. Cardinality(F') \in Nat
      BY <3>3, FS_CardinalityType
    <3> QED BY <1>3, <3>1, <3>2, <3>3, <3>4
  <2>6. Cardinality(F') <= pass'.inFlight + pass'.started /\ Cardinality(F') <= Limit
    BY <1>0, <1>3, <2>2, <2>5
  <2>7. F' \subseteq ToSet(pass'.st.outstanding)
    BY <1>2, <1>3, <2>2, <2>4
  <2>8. Picked(pass'.cands) \cap F' = {}
    BY <1>0, <1>1, <2>2, <2>4 DEF Slots
  <2>9. Slots(pass', F')
    BY <2>2, <2>6, <2>7, <2>8 DEF Slots
  <2>10. present => c.id \in ToSet(ev.outstanding)
    BY <1>0, <1>2 DEF ListInv, Copy
  <2>11. present /\ ev.preflight = "True" => F' \subseteq ToSet(ev.outstanding)
    BY <1>0, <2>4, <2>10
  <2>12. \A j \in Picked(pass'.cands) : nova'[j].host = "src"
    <3>1. Picked(pass.cands) \subseteq Instances
      <4>1. \A k \in DOMAIN pass.cands : pass.cands[k] \in Candidate
        BY <1>0, ElementOfSeq, LenProperties
      <4> QED BY <4>1 DEF Picked, Candidate
    <3> QED BY <1>0, <1>1, <2>2, <2>3, <3>1
  <2>13. LimitBound'
    BY <2>6 DEF LimitBound
  <2> QED BY <1>0, <2>4, <2>9, <2>11, <2>12, <2>13 DEF LimitInv
<1>5. CASE UNCHANGED nova
  <2>1. F' = F
    BY <1>5 DEF InFlight
  <2>2. /\ pass'.pc = "start" /\ pass'.cands = Tail(pass.cands)
        /\ pass'.inFlight = pass.inFlight
        /\ pass'.started \in {pass.started, pass.started + 1}
        /\ \/ pass'.st \in {pass.st, migrationFailed(pass.st)}
           \/ pass'.st = strike(migrationFailed(pass.st), c.id) /\ ~ Exists(c.id)
    <3> HIDE DEF F, c
    <3>1. CASE pass' = [pass EXCEPT !.cands = Tail(@), !.started = @ + 1]
      BY <1>0, <3>1 DEF Pass
    <3>2. CASE pass' = [pass EXCEPT !.cands = Tail(@), !.st = migrationFailed(@)]
      BY <1>0, <3>2 DEF Pass
    <3>3. CASE pass' = [pass EXCEPT !.cands = Tail(@), !.st = strike(migrationFailed(@), c.id)] /\ ~ Exists(c.id)
      BY <1>0, <3>3 DEF Pass
    <3> QED BY <3>1, <3>2, <3>3 DEF Migrate, MigrateError, c
  <2>3. ToSet(pass.st.outstanding) \cap F \subseteq ToSet(pass'.st.outstanding)
    <3>1. pass.st.outstanding # <<>>
      BY <1>2, EmptyDistinct
    <3>2. Reworked(pass.st, migrationFailed(pass.st), {})
      BY <1>0, <3>1, ReworkedFailed
    <3>3. Reworked(pass.st, strike(migrationFailed(pass.st), c.id), {c.id})
      BY <1>0, <1>2, ReworkedFailedAndGone
    <3>4. ~ Exists(c.id) => c.id \notin F
      BY <1>0, InFlightOnSrc DEF OnSrc
    <3> QED BY <2>2, <3>2, <3>3, <3>4 DEF Reworked
  <2>4. F \subseteq ToSet(pass'.st.outstanding)
    BY <1>3, <2>3
  <2>5. Cardinality(F) <= pass'.inFlight + pass'.started
    BY <1>0, <1>3, <2>2
  <2>6. Picked(pass'.cands) \cap F = {}
    BY <1>0, <1>1, <2>2 DEF Slots
  <2>7. Slots(pass', F')
    BY <2>1, <2>2, <2>4, <2>5, <2>6 DEF Slots
  <2>8. \A j \in Picked(pass'.cands) : nova'[j].host = "src"
    BY <1>0, <1>1, <1>5, <2>2
  <2>9. LimitBound'
    BY <2>1 DEF LimitInv, LimitBound
  <2> QED BY <1>0, <1>5, <2>1, <2>7, <2>8, <2>9 DEF LimitInv
<1> QED BY <1>4, <1>5

\* Nova starts no migration by itself.
LEMMA LimitNova == LimitInv /\ ListInv' /\ Nova => LimitInv'
<1> SUFFICES ASSUME LimitInv, ListInv', Nova PROVE LimitInv'
  OBVIOUS
<1>0. /\ pass \in Pass /\ nova \in [Instances -> VM] /\ Limit \in Nat
      /\ Slots(pass, InFlight) /\ Consistent(nova)
      /\ present /\ ev.preflight = "True" => InFlight \subseteq ToSet(ev.outstanding)
      /\ \A j \in Picked(pass.cands) : nova[j].host = "src"
  BY LimitType DEF LimitInv, ListInv, IndInv, TypeOK
<1>1. UNCHANGED <<present, ev, pass>>
  BY DEF Nova, NovaTakesUp, NovaCompletes, NovaFails, NovaFailsAfterMove, UserDeletes,
         NovaDeletes, UserToggles, NovaPlaces, HypervisorVanishes, Become
<1>2. \A j \in Instances :
         /\ j \in InFlight' => j \in InFlight
         /\ nova'[j].status \in {"MIGRATING", "RESIZE"} => nova'[j].host = "src"
         /\ nova'[j].task \in {"migrating", "resize_prep"} =>
               nova'[j].host = "src" /\ nova'[j].status \in {"ACTIVE", "SHUTOFF", "MIGRATING", "RESIZE"}
         /\ nova[j].host = "src" /\ j \notin InFlight => nova'[j].host = "src"
  <2>1. ASSUME NEW i \in Instances,
               \/ NovaTakesUp(i) \/ NovaCompletes(i) \/ NovaFails(i) \/ NovaFailsAfterMove(i)
               \/ UserDeletes(i) \/ NovaDeletes(i) \/ UserToggles(i) \/ NovaPlaces(i),
               NEW j \in Instances
        PROVE  /\ j \in InFlight' => j \in InFlight
               /\ nova'[j].status \in {"MIGRATING", "RESIZE"} => nova'[j].host = "src"
               /\ nova'[j].task \in {"migrating", "resize_prep"} =>
                     nova'[j].host = "src" /\ nova'[j].status \in {"ACTIVE", "SHUTOFF", "MIGRATING", "RESIZE"}
               /\ nova[j].host = "src" /\ j \notin InFlight => nova'[j].host = "src"
    <3>1. CASE j # i
      <4>1. nova'[j] = nova[j]
        BY <1>0, <2>1, <3>1
        DEF NovaTakesUp, NovaCompletes, NovaFails, NovaFailsAfterMove, UserDeletes,
            NovaDeletes, UserToggles, NovaPlaces, Become
      <4> QED BY <1>0, <4>1 DEF InFlight, Consistent
    <3>2. CASE j = i
      <4>1. /\ nova[i].status \in {"MIGRATING", "RESIZE"} => nova[i].host = "src"
            /\ nova[i].task \in {"migrating", "resize_prep"} =>
                  nova[i].host = "src" /\ nova[i].status \in {"ACTIVE", "SHUTOFF", "MIGRATING", "RESIZE"}
        BY <1>0 DEF Consistent
      <4>2. i \in InFlight <=> \/ nova[i].status \in {"MIGRATING", "RESIZE"}
                               \/ nova[i].task \in {"migrating", "resize_prep"}
        BY DEF InFlight
      <4>3. i \in InFlight' <=> \/ nova'[i].status \in {"MIGRATING", "RESIZE"}
                                \/ nova'[i].task \in {"migrating", "resize_prep"}
        BY DEF InFlight
      <4> QED BY <1>0, <2>1, <3>2, <4>1, <4>2, <4>3
        DEF NovaTakesUp, NovaCompletes, NovaFails, NovaFailsAfterMove, UserDeletes,
            NovaDeletes, UserToggles, NovaPlaces, Become, Gone, isMigrationTaskState
    <3> QED BY <3>1, <3>2
  <2>2. CASE HypervisorVanishes
    BY <1>0, <2>2 DEF HypervisorVanishes, InFlight, Consistent
  <2> QED BY <2>1, <2>2 DEF Nova
<1>3. InFlight' \subseteq InFlight /\ Consistent(nova')
  BY <1>2 DEF Consistent, InFlight
<1>4. Slots(pass, InFlight') /\ IsFiniteSet(InFlight') /\ Cardinality(InFlight') <= Cardinality(InFlight)
  BY <1>0, <1>3, SlotsShrink, InFlightFinite
<1>5. LimitBound'
  <2>1. Cardinality(InFlight') \in Nat /\ Cardinality(InFlight) \in Nat /\ Cardinality(InFlight) <= Limit
    BY <1>4, InFlightFinite, FS_CardinalityType DEF LimitInv, LimitBound
  <2>2. Cardinality(InFlight') <= Limit
    BY <1>0, <1>4, <2>1
  <2> QED BY <2>2 DEF LimitBound
<1>6. \A j \in Picked(pass.cands) : nova'[j].host = "src"
  <2>1. Picked(pass.cands) \subseteq Instances
    <3>1. \A k \in DOMAIN pass.cands : pass.cands[k] \in Candidate
      BY <1>0, ElementOfSeq, LenProperties DEF Pass
    <3> QED BY <3>1 DEF Picked, Candidate
  <2> QED BY <1>0, <1>2, <2>1 DEF Slots
<1> QED BY <1>0, <1>1, <1>3, <1>4, <1>5, <1>6 DEF LimitInv

\* The maintenance controller touches no instance, and a new Eviction has
\* made no preflight.
LEMMA LimitMaintenance == LimitInv /\ ListInv' /\ Maintenance => LimitInv'
<1> SUFFICES ASSUME LimitInv, ListInv', Maintenance PROVE LimitInv'
  OBVIOUS
<1>1. UNCHANGED <<nova, pass>> /\ InFlight' = InFlight
  BY DEF Maintenance, MaintenanceDisables, MaintenanceCreates, MaintenanceEnables, MaintenanceDeletes, InFlight
<1>2. present' /\ ev'.preflight = "True" => present /\ ev.preflight = "True" /\ UNCHANGED ev
  <2>1. ~ present => ev.preflight = "None"
    BY DEF LimitInv, ListInv, IndInv, NoStatus
  <2> QED BY <2>1 DEF Maintenance, MaintenanceDisables, MaintenanceCreates, MaintenanceEnables, MaintenanceDeletes
<1>3. LimitBound'
  BY <1>1 DEF LimitInv, LimitBound
<1> QED BY <1>1, <1>2, <1>3 DEF LimitInv

\* Nothing is in flight when the operator starts.
LEMMA LimitInit == Init => LimitInv
<1> SUFFICES ASSUME Init PROVE LimitInv
  OBVIOUS
<1>1. ListInv /\ ev = NoStatus /\ pass = Idle /\ ~ present
  BY ListInit DEF Init
<1>2. \A i \in Instances : nova[i].task = "none" /\ nova[i].status \notin {"MIGRATING", "RESIZE"}
  <2>1. PICK s \in [Instances -> InitStatuses] :
           nova = [i \in Instances |-> [status |-> s[i], task |-> "none", host |-> "src"]]
    BY DEF Init
  <2>2. \A i \in Instances : s[i] \in {"ACTIVE", "SHUTOFF", "RESCUE", "UNBORN"}
    BY ConstantsAssumption
  <2> QED BY <2>1, <2>2
<1>3. InFlight = {} /\ Consistent(nova)
  BY <1>2 DEF InFlight, Consistent
<1>4. Cardinality(InFlight) = 0
  BY <1>3, FS_EmptySet
<1>5. pass.cands = <<>> /\ Picked(pass.cands) = {} /\ pass.pc = "idle" /\ pass.st = NoStatus
  BY <1>1, EmptyDistinct DEF Idle
<1>6. Slots(pass, InFlight)
  BY <1>3, <1>5 DEF Slots, NoStatus
<1>7. LimitBound
  BY <1>4, LimitType DEF LimitBound
<1> QED BY <1>1, <1>3, <1>5, <1>6, <1>7 DEF LimitInv

\* Every step, and stuttering, keeps the slots in order.
LEMMA LimitNext ==
    ASSUME "recreate_in_pass" \notin Faults, "get_error" \notin Faults
    PROVE  LimitInv /\ [Next]_vars => LimitInv'
<1> SUFFICES ASSUME LimitInv, [Next]_vars PROVE LimitInv'
  OBVIOUS
<1>1. ListInv'
  BY ListNext DEF LimitInv
<1>2. CASE UNCHANGED vars
  <2>1. InFlight' = InFlight /\ UNCHANGED <<nova, present, ev, pass>>
    BY <1>2 DEF vars, InFlight
  <2> QED BY <1>1, <2>1 DEF LimitInv, LimitBound
<1>3. CASE Controller
  BY <1>1, <1>3, LimitBeginOrEnd, LimitScan, LimitMigrate DEF Controller
<1> QED BY <1>1, <1>2, <1>3, LimitNova, LimitMaintenance DEF Next

\* evictNext never has more than one migration in flight unless the default
\* limit and the limit of each trait of the host allow it, over passes, restarts
\* and re-created Evictions, for any traits and limits: provided that every Get of an instance is answered, for an
\* instance whose Get failed is not counted, and that no Eviction is
\* re-created while a pass of its predecessor is running.
THEOREM LimitIsKept ==
    ASSUME "recreate_in_pass" \notin Faults, "get_error" \notin Faults
    PROVE  Spec => []ConcurrencyLimit
<1>1. ASSUME LimitInv PROVE ConcurrencyLimit
  <2>1. Cardinality(InFlight) \in Nat /\ Cardinality(InFlight) <= Limit
    BY <1>1, InFlightFinite DEF LimitInv, LimitBound
  <2>2. SUFFICES ASSUME Cardinality(InFlight) > 1 PROVE ConcurrencyLimit
    BY DEF ConcurrencyLimit
  <2> QED BY <2>1, <2>2, LimitIsLowest DEF ConcurrencyLimit
<1> QED BY <1>1, LimitInit, LimitNext, PTL DEF Spec

=============================================================================
