--------------------------- MODULE EvictionProofs ---------------------------
(***************************************************************************)
(* Proofs about the eviction controller: its state stays well typed, and   *)
(* an Eviction that reports success has emptied the hypervisor, for any    *)
(* number of instances, any limit and any number of disturbances.          *)
(***************************************************************************)
EXTENDS Eviction, FiniteSetTheorems, SequenceTheorems, WellFoundedInduction, TLAPS

-----------------------------------------------------------------------------
(* Lists.                                                                  *)

\* A non-empty set of naturals has a minimum, the one Min chooses.
LEMMA MinOfNat ==
    ASSUME NEW S, S \subseteq Nat, S # {}
    PROVE  Min(S) \in S /\ \A y \in S : Min(S) =< y
<1> DEFINE R == {p \in Nat \X Nat : p[1] < p[2]}
<1>1. IsWellFoundedOn(R, Nat)
  BY NatLessThanWellFounded DEF OpToRel
<1>2. \E x \in S : \A y \in S : ~ (<<y, x>> \in R)
  <2> HIDE DEF R
  <2> QED BY <1>1, WFMin
<1>3. \A x, y \in Nat : ~ (<<y, x>> \in R) => x =< y
  OBVIOUS
<1>4. \E x \in S : \A y \in S : x =< y
  <2> HIDE DEF R
  <2> QED BY <1>2, <1>3
<1> QED BY <1>4 DEF Min

\* Taking one element out of a list keeps all the others, in their order.
LEMMA RemoveAtKeeps ==
    ASSUME NEW S, NEW s \in Seq(S), NEW k \in 1..Len(s)
    PROVE  /\ RemoveAt(s, k) \in Seq(S)
           /\ Len(RemoveAt(s, k)) = Len(s) - 1
           /\ \A i \in 1..Len(s) - 1 : RemoveAt(s, k)[i] = IF i < k THEN s[i] ELSE s[i+1]
           /\ ToSet(RemoveAt(s, k)) \subseteq ToSet(s)
           /\ \A y \in ToSet(s) : y # s[k] => y \in ToSet(RemoveAt(s, k))
<1> DEFINE a == SubSeq(s, 1, k-1)
           b == SubSeq(s, k+1, Len(s))
           r == a \o b
<1>0. Len(s) \in Nat /\ k \in Nat /\ k >= 1 /\ k <= Len(s) /\ DOMAIN s = 1..Len(s)
  BY LenProperties
<1>1. a \in Seq(S) /\ Len(a) = k - 1 /\ \A i \in 1..k-1 : a[i] = s[i]
  BY <1>0, SubSeqProperties, ElementOfSeq
<1>2. b \in Seq(S) /\ Len(b) = Len(s) - k /\ \A i \in 1..(Len(s) - k) : b[i] = s[k+i]
  <2>1. \A i \in k+1..Len(s) : s[i] \in S
    BY <1>0, ElementOfSeq
  <2>2. /\ b \in Seq(S)
        /\ Len(b) = IF k+1 <= Len(s) THEN Len(s) - (k+1) + 1 ELSE 0
        /\ \A i \in 1..(Len(s) - (k+1) + 1) : b[i] = s[(k+1) + i - 1]
    BY <2>1, <1>0, SubSeqProperties
  <2> HIDE DEF b
  <2>3. Len(b) = Len(s) - k
    <3>1. Len(b) = IF k+1 <= Len(s) THEN Len(s) - (k+1) + 1 ELSE 0
      BY <2>2
    <3>2. CASE k+1 <= Len(s)
      <4>1. Len(b) = Len(s) - (k+1) + 1
        BY <3>1, <3>2
      <4> QED BY <4>1, <1>0
    <3>3. CASE ~ (k+1 <= Len(s))
      <4>1. Len(b) = 0
        BY <3>1, <3>3
      <4>2. \A m, n \in Nat : m <= n /\ ~ (m+1 <= n) => n - m = 0
        OBVIOUS
      <4> QED BY <4>1, <4>2, <3>3, <1>0
    <3> QED BY <3>2, <3>3
  <2>4. Len(s) - (k+1) + 1 = Len(s) - k /\ \A i \in Nat : (k+1) + i - 1 = k + i
    BY <1>0
  <2> QED BY <2>2, <2>3, <2>4
<1> HIDE DEF a, b
<1>3. /\ r \in Seq(S)
      /\ Len(r) = Len(s) - 1
      /\ \A i \in 1..Len(s) - 1 : r[i] = IF i <= k - 1 THEN a[i] ELSE b[i - (k-1)]
  <2>1. /\ r \in Seq(S)
        /\ Len(r) = Len(a) + Len(b)
        /\ \A i \in 1..Len(a) + Len(b) : r[i] = IF i <= Len(a) THEN a[i] ELSE b[i - Len(a)]
    BY <1>1, <1>2, ConcatProperties
  <2>2. Len(a) + Len(b) = Len(s) - 1 /\ Len(a) = k - 1
    BY <1>0, <1>1, <1>2
  <2> HIDE DEF r
  <2> QED BY <2>1, <2>2
<1> HIDE DEF r
<1>4. DOMAIN r = 1..(Len(s) - 1)
  BY <1>3, LenProperties
<1>5. \A i \in 1..Len(s) - 1 : r[i] = IF i < k THEN s[i] ELSE s[i+1]
  BY <1>0, <1>1, <1>2, <1>3
<1>6. ToSet(r) \subseteq ToSet(s)
  <2>1. \A i \in 1..Len(s) - 1 : \E j \in 1..Len(s) : r[i] = s[j]
    BY <1>0, <1>5
  <2> QED BY <2>1, <1>0, <1>4 DEF ToSet
<1>7. ASSUME NEW j \in 1..Len(s), j # k PROVE \E i \in 1..Len(s) - 1 : r[i] = s[j]
  <2>1. CASE j < k
    BY <2>1, <1>0, <1>5
  <2>2. CASE j > k
    <3>1. j - 1 \in 1..Len(s) - 1 /\ ~ (j - 1 < k) /\ (j - 1) + 1 = j
      BY <2>2, <1>0
    <3>2. r[j-1] = s[j]
      BY <3>1, <1>5
    <3> QED BY <3>1, <3>2
  <2> QED BY <1>7, <1>0, <2>1, <2>2
<1>8. \A y \in ToSet(s) : y # s[k] => y \in ToSet(r)
  <2>1. \A j \in 1..Len(s) : s[j] # s[k] => \E i \in 1..Len(s) - 1 : r[i] = s[j]
    BY <1>7
  <2> QED BY <2>1, <1>0, <1>4 DEF ToSet
<1> QED BY <1>3, <1>5, <1>6, <1>8 DEF RemoveAt, r, a, b

\* removeInstance strikes off nothing but the instance.
LEMMA removeInstanceKeeps ==
    ASSUME NEW S, NEW s \in Seq(S), NEW x
    PROVE  /\ removeInstance(s, x) \in Seq(S)
           /\ ToSet(removeInstance(s, x)) \subseteq ToSet(s)
           /\ ToSet(s) \ {x} \subseteq ToSet(removeInstance(s, x))
<1>1. CASE ~ \E i \in 1..Len(s) : s[i] = x
  BY <1>1 DEF removeInstance, RemoveFirst
<1>2. CASE \E i \in 1..Len(s) : s[i] = x
  <2> DEFINE I == {i \in 1..Len(s) : s[i] = x}
             k == Min(I)
  <2>0. Len(s) \in Nat
    BY LenProperties
  <2>1. k \in I
    <3>1. I \subseteq Nat /\ I # {}
      BY <1>2, <2>0
    <3> HIDE DEF I
    <3> QED BY <3>1, MinOfNat
  <2>2. k \in 1..Len(s) /\ s[k] = x
    BY <2>1
  <2>3. removeInstance(s, x) = RemoveAt(s, k)
    BY <1>2 DEF removeInstance, RemoveFirst, SelectInSeq
  <2> HIDE DEF k
  <2> QED BY <2>2, <2>3, RemoveAtKeeps
<1> QED BY <1>1, <1>2

\* deprioritize changes the order of the list and nothing else.
LEMMA deprioritizeKeeps ==
    ASSUME NEW S, NEW s \in Seq(S), NEW x \in S
    PROVE  /\ deprioritize(s, x) \in Seq(S)
           /\ ToSet(s) \subseteq ToSet(deprioritize(s, x))
<1>1. CASE x \notin ToSet(s)
  BY <1>1 DEF deprioritize
<1>2. CASE x \in ToSet(s)
  <2> DEFINE r == RemoveFirst(s, x)
  <2>1. r \in Seq(S) /\ ToSet(s) \ {x} \subseteq ToSet(r)
    BY removeInstanceKeeps DEF removeInstance
  <2>2. deprioritize(s, x) = <<x>> \o r
    BY <1>2 DEF deprioritize, Cons
  <2> HIDE DEF r
  <2> DEFINE d == <<x>> \o r
  <2>3. /\ d \in Seq(S)
        /\ Len(d) = 1 + Len(r)
        /\ \A i \in 1..1 + Len(r) : d[i] = IF i <= 1 THEN <<x>>[i] ELSE r[i - 1]
    BY <2>1, ConcatProperties
  <2> HIDE DEF d
  <2>4. Len(r) \in Nat /\ DOMAIN r = 1..Len(r) /\ DOMAIN d = 1..1 + Len(r)
    BY <2>1, <2>3, LenProperties
  <2>5. x \in ToSet(d)
    <3>1. 1 \in DOMAIN d /\ d[1] = x
      BY <2>3, <2>4
    <3> QED BY <3>1 DEF ToSet
  <2>6. ToSet(r) \subseteq ToSet(d)
    <3>1. \A i \in 1..Len(r) : i + 1 \in DOMAIN d /\ d[i + 1] = r[i]
      BY <2>3, <2>4
    <3> QED BY <3>1, <2>4 DEF ToSet
  <2> QED BY <2>1, <2>2, <2>3, <2>5, <2>6 DEF d
<1> QED BY <1>1, <1>2

-----------------------------------------------------------------------------
(* What the steps of a pass do to its working copy.                        *)

\* Striking an instance off makes no claim and loses no other instance.
LEMMA strikeKeeps ==
    ASSUME NEW st \in EvStatus, NEW i \in Instances
    PROVE  /\ strike(st, i) \in EvStatus
           /\ strike(st, i).preflight = st.preflight
           /\ strike(st, i).evicting = st.evicting
           /\ ToSet(st.outstanding) \ {i} \subseteq ToSet(strike(st, i).outstanding)
<1> DEFINE out == removeInstance(st.outstanding, i)
           s1  == [st EXCEPT !.outstanding = out]
<1>1. st.outstanding \in Seq(Instances)
  BY DEF EvStatus
<1>2. out \in Seq(Instances) /\ ToSet(st.outstanding) \ {i} \subseteq ToSet(out)
  BY <1>1, removeInstanceKeeps
<1> HIDE DEF out
<1>3. /\ s1 \in EvStatus /\ s1.outstanding = out
      /\ s1.preflight = st.preflight /\ s1.evicting = st.evicting
  BY <1>2 DEF EvStatus
<1> HIDE DEF s1
<1>4. strike(st, i) = setMigrationSucceeded(s1)
  BY DEF strike, s1, out
<1>5. strike(st, i) \in {s1, [s1 EXCEPT !.migration = "Succeeded"]}
  BY <1>4 DEF setMigrationSucceeded
<1> QED BY <1>2, <1>3, <1>5 DEF EvStatus

\* Setting an instance back makes no claim and loses no instance.
LEMMA setBackKeeps ==
    ASSUME NEW st \in EvStatus, NEW i \in Instances
    PROVE  /\ setBack(st, i) \in EvStatus
           /\ setBack(st, i).preflight = st.preflight
           /\ setBack(st, i).evicting = st.evicting
           /\ ToSet(st.outstanding) \subseteq ToSet(setBack(st, i).outstanding)
<1> DEFINE out == deprioritize(st.outstanding, i)
<1>1. st.outstanding \in Seq(Instances)
  BY DEF EvStatus
<1>2. out \in Seq(Instances) /\ ToSet(st.outstanding) \subseteq ToSet(out)
  BY <1>1, deprioritizeKeeps
<1>3. setBack(st, i) = [st EXCEPT !.outstanding = out, !.migration = "Failed"]
  BY DEF setBack
<1> HIDE DEF out
<1> QED BY <1>2, <1>3 DEF EvStatus

\* Recording a failure touches nothing but the Migration condition.
LEMMA migrationFailedKeeps ==
    ASSUME NEW st \in EvStatus
    PROVE  /\ migrationFailed(st) \in EvStatus
           /\ migrationFailed(st).preflight = st.preflight
           /\ migrationFailed(st).evicting = st.evicting
           /\ migrationFailed(st).outstanding = st.outstanding
BY DEF migrationFailed, EvStatus

\* The write-back of a working copy: what the copy says, where it says it.
LEMMA mergeKeeps ==
    ASSUME NEW f \in EvStatus, NEW d \in EvStatus
    PROVE  /\ merge(f, d) \in EvStatus
           /\ merge(f, d).outstanding = d.outstanding
           /\ merge(f, d).preflight = IF d.preflight = "None" THEN f.preflight ELSE d.preflight
           /\ merge(f, d).evicting = IF d.evicting = "None" THEN f.evicting ELSE d.evicting
BY DEF merge, EvStatus

\* The list Nova answers with is a list of instances.
LEMMA ServerListType ==
    ASSUME NEW list \in ServerLists
    PROVE  list \in Seq(Instances) /\ ToSet(list) = OnSrc
<1>1. OnSrc \subseteq Instances
  BY DEF OnSrc
<1>2. IsFiniteSet(OnSrc)
  BY <1>1, FS_Subset, ConstantsAssumption
<1>3. Cardinality(OnSrc) \in Nat
  BY <1>2, FS_CardinalityType
<1> QED BY <1>1, <1>3 DEF ServerLists

\* The empty status and the pass that is not running are well typed.
LEMMA IdleType == NoStatus \in EvStatus /\ Idle \in Pass
BY DEF NoStatus, EvStatus, Idle, Pass

\* A pass about to write a well-typed status back is well typed.
LEMMA SavingType ==
    ASSUME NEW st \in EvStatus
    PROVE  /\ Saving(st) \in Pass
           /\ Saving(st).pc = "save"
           /\ Saving(st).st = st
BY IdleType DEF Saving, Idle, Pass

\* A pass whose scan went one instance on is well typed.
LEMMA ScannedType ==
    ASSUME pass \in Pass, pass.queue # <<>>, NEW st \in EvStatus, NEW busy \in {0, 1}
    PROVE  /\ Scanned(st, busy) \in Pass
           /\ Scanned(st, busy).pc = "scan"
           /\ Scanned(st, busy).st = st
           /\ Scanned(st, busy).cands = pass.cands
<1>1. pass.queue \in Seq(Instances) /\ pass.inFlight \in Nat
  BY DEF Pass
<1>2. Tail(pass.queue) \in Seq(Instances) /\ pass.inFlight + busy \in Nat
  BY <1>1, HeadTailProperties
<1> QED BY <1>2 DEF Scanned, Pass

-----------------------------------------------------------------------------
(* Type correctness.                                                       *)

\* The state in which the operator finds a hypervisor is well typed.
LEMMA TypeInit == Init => TypeOK
<1> SUFFICES ASSUME Init PROVE TypeOK
  OBVIOUS
<1>1. nova \in [Instances -> VM]
  <2>1. PICK s \in [Instances -> InitStatuses] :
           nova = [i \in Instances |-> [status |-> s[i], task |-> "none", host |-> "src"]]
    BY DEF Init
  <2>2. \A i \in Instances : s[i] \in Statuses
    BY ConstantsAssumption DEF Statuses
  <2> QED BY <2>1, <2>2 DEF VM, Tasks
<1>2. hv \in [registered : BOOLEAN, disabled : BOOLEAN, known : BOOLEAN]
  BY DEF Init
<1>3. pass \in Pass /\ pass.pc # "confirm" /\ ev \in EvStatus
  BY IdleType DEF Init, Idle
<1>4. present \in BOOLEAN /\ leaving \in BOOLEAN
  BY DEF Init
<1>5. faults \in 0..MaxFaults
  <2>1. faults = 0 /\ MaxFaults \in Nat
    BY ConstantsAssumption DEF Init
  <2> QED BY <2>1
<1> QED BY <1>1, <1>2, <1>3, <1>4, <1>5 DEF TypeOK

\* The steps of a pass keep the working copy and the resource well typed.
LEMMA TypeController == TypeOK /\ Controller => TypeOK'
<1> SUFFICES ASSUME TypeOK, Controller PROVE TypeOK'
  OBVIOUS
<1>0. /\ nova \in [Instances -> VM] /\ ev \in EvStatus /\ pass \in Pass
      /\ pass.st \in EvStatus /\ faults \in 0..MaxFaults /\ MaxFaults \in Nat
      /\ Idle \in Pass /\ Idle.pc = "idle"
  BY IdleType, ConstantsAssumption DEF TypeOK, Pass, Idle
<1>1. CASE Start
  <2>1. [ev EXCEPT !.evicting = "Running"] \in EvStatus
    BY <1>0 DEF EvStatus
  <2> QED BY <1>1, <2>1, SavingType DEF TypeOK, Start, Begin
<1>2. CASE PreflightBlocked
  <2>1. [ev EXCEPT !.preflight = "False"] \in EvStatus
    BY <1>0 DEF EvStatus
  <2> QED BY <1>2, <2>1, SavingType DEF TypeOK, PreflightBlocked, Begin
<1>3. CASE PreflightBegin
  <2>1. [Idle EXCEPT !.pc = "preflight", !.st = ev] \in Pass
    BY <1>0 DEF Idle, Pass
  <2>2. [Idle EXCEPT !.pc = "preflight", !.st = ev].pc # "confirm"
    BY DEF Idle
  <2> QED BY <1>3, <2>1, <2>2 DEF TypeOK, PreflightBegin, Begin
<1>4. CASE EvictNextBegin
  <2>1. [Idle EXCEPT !.pc = "scan", !.st = ev, !.queue = ev.outstanding] \in Pass
    BY <1>0 DEF Idle, Pass, EvStatus
  <2>2. [Idle EXCEPT !.pc = "scan", !.st = ev, !.queue = ev.outstanding].pc # "confirm"
    BY DEF Idle
  <2> QED BY <1>4, <2>1, <2>2 DEF TypeOK, EvictNextBegin, Begin
<1>5. CASE Succeed
  <2>1. [ev EXCEPT !.evicting = "Succeeded"] \in EvStatus
    BY <1>0 DEF EvStatus
  <2> QED BY <1>5, <2>1, SavingType DEF TypeOK, Succeed, Begin
<1>6. CASE PreflightList
  <2>1. PICK list \in ServerLists :
           pass' = Saving([pass.st EXCEPT
                      !.outstanding = IF list = <<>> THEN pass.st.outstanding ELSE list,
                      !.preflight   = "True"])
    BY <1>6 DEF PreflightList
  <2>2. list \in Seq(Instances)
    BY ServerListType
  <2>3. [pass.st EXCEPT
           !.outstanding = IF list = <<>> THEN pass.st.outstanding ELSE list,
           !.preflight   = "True"] \in EvStatus
    BY <1>0, <2>2 DEF EvStatus
  <2> QED BY <1>6, <2>1, <2>3, SavingType DEF TypeOK, PreflightList, InPass
<1>7. CASE PreflightNotFound
  <2>1. [pass.st EXCEPT !.evicting = IF hv.registered THEN "Failed" ELSE "Succeeded"] \in EvStatus
    BY <1>0 DEF EvStatus
  <2> QED BY <1>7, <2>1, SavingType DEF TypeOK, PreflightNotFound, InPass
<1>8. CASE PreflightError
  BY <1>0, <1>8 DEF TypeOK, PreflightError, InPass, Disturb
<1>9. CASE ScanInstance
  <2> DEFINE i == Head(pass.queue)
  <2>1. pass.queue \in Seq(Instances) /\ pass.queue # <<>> /\ i \in Instances
    BY <1>0, <1>9, HeadTailProperties DEF ScanInstance, Scanning, Pass
  <2>2. strike(pass.st, i) \in EvStatus /\ setBack(pass.st, i) \in EvStatus
    BY <1>0, <2>1, strikeKeeps, setBackKeeps
  <2>3. \A live \in BOOLEAN :
           LET p == [Scanned(pass.st, 0) EXCEPT !.cands = Append(@, [id |-> i, live |-> live])]
           IN  p \in Pass /\ p.pc = "scan"
    <3> SUFFICES ASSUME NEW live \in BOOLEAN
                 PROVE  LET p == [Scanned(pass.st, 0) EXCEPT !.cands = Append(@, [id |-> i, live |-> live])]
                        IN  p \in Pass /\ p.pc = "scan"
      OBVIOUS
    <3>1. Scanned(pass.st, 0) \in Pass /\ Scanned(pass.st, 0).pc = "scan"
      BY <1>0, <2>1, ScannedType
    <3>2. [id |-> i, live |-> live] \in Candidate
      BY <2>1 DEF Candidate
    <3>3. Append(Scanned(pass.st, 0).cands, [id |-> i, live |-> live]) \in Seq(Candidate)
      BY <3>1, <3>2, AppendProperties DEF Pass
    <3> QED BY <3>1, <3>3 DEF Pass
  <2>4. pass' \in Pass /\ (pass'.pc = "confirm" => pass'.queue # <<>>)
    <3>1. \A b \in {0, 1} : \A st \in {pass.st, strike(pass.st, i), setBack(pass.st, i)} :
             Scanned(st, b) \in Pass /\ Scanned(st, b).pc = "scan"
      BY <1>0, <2>1, <2>2, ScannedType
    <3>2. [pass EXCEPT !.pc = "confirm"] \in Pass /\ [pass EXCEPT !.pc = "confirm"].queue = pass.queue
      BY <1>0 DEF Pass
    <3> QED BY <1>9, <2>1, <2>3, <3>1, <3>2 DEF ScanInstance
  <2> QED BY <1>9, <2>4 DEF TypeOK, ScanInstance, Scanning, InPass
<1>10. CASE ScanError
  <2>1. Scanned(pass.st, 0) \in Pass /\ Scanned(pass.st, 0).pc = "scan"
    BY <1>0, <1>10, ScannedType DEF ScanError, Scanning
  <2> QED BY <1>0, <1>10, <2>1 DEF TypeOK, ScanError, Scanning, InPass, Disturb
<1>11. CASE ScanEnd
  <2>1. [pass EXCEPT !.pc = "start", !.queue = <<>>] \in Pass
    <3>1. <<>> \in Seq(Instances)
      OBVIOUS
    <3> QED BY <1>0, <3>1 DEF Pass
  <2>2. [pass EXCEPT !.pc = "start", !.queue = <<>>].pc = "start"
    BY <1>0 DEF Pass
  <2> QED BY <1>11, <2>1, <2>2 DEF TypeOK, ScanEnd, InPass
<1>12. CASE ConfirmResize
  <2> DEFINE i == Head(pass.queue)
  <2>1. pass.queue # <<>> /\ i \in Instances
    BY <1>0, <1>12, HeadTailProperties DEF ConfirmResize, InPass, TypeOK, Pass
  <2>2. /\ Scanned(pass.st, 1) \in Pass /\ Scanned(pass.st, 1).pc = "scan"
        /\ Scanned(strike(pass.st, i), 1) \in Pass /\ Scanned(strike(pass.st, i), 1).pc = "scan"
    BY <1>0, <2>1, strikeKeeps, ScannedType
  <2>3. nova' \in [Instances -> VM]
    BY <1>0, <1>12, <2>1 DEF ConfirmResize, VM, Statuses
  <2> QED BY <1>12, <2>2, <2>3 DEF TypeOK, ConfirmResize, InPass
<1>13. CASE ConfirmError
  <2>1. pass.queue # <<>>
    BY <1>13 DEF ConfirmError, InPass, TypeOK
  <2>2. Scanned(pass.st, 1) \in Pass /\ Scanned(pass.st, 1).pc = "scan"
    BY <1>0, <2>1, ScannedType
  <2> QED BY <1>0, <1>13, <2>2 DEF TypeOK, ConfirmError, InPass, Disturb
<1>14. CASE Migrate
  <2> DEFINE c == Head(pass.cands)
  <2>1. pass.cands \in Seq(Candidate) /\ pass.cands # <<>> /\ pass.pc = "start"
    BY <1>0, <1>14 DEF Migrate, Starting, InPass, Pass
  <2>2. c \in Candidate /\ Tail(pass.cands) \in Seq(Candidate)
    BY <2>1, HeadTailProperties
  <2>3. c.id \in Instances
    BY <2>2 DEF Candidate
  <2>4. /\ migrationFailed(pass.st) \in EvStatus
        /\ strike(migrationFailed(pass.st), c.id) \in EvStatus
    BY <1>0, <2>3, migrationFailedKeeps, strikeKeeps
  <2>5. \A st \in EvStatus :
           LET p == [pass EXCEPT !.cands = Tail(@), !.st = st] IN p \in Pass /\ p.pc = "start"
    BY <1>0, <2>1, <2>2 DEF Pass
  <2>6. LET p == [pass EXCEPT !.cands = Tail(@), !.started = @ + 1] IN p \in Pass /\ p.pc = "start"
    <3>1. pass.started + 1 \in Nat
      BY <1>0 DEF Pass
    <3> QED BY <1>0, <2>1, <2>2, <3>1 DEF Pass
  <2>7. pass' \in Pass /\ pass'.pc = "start"
    BY <1>14, <2>4, <2>5, <2>6 DEF Migrate
  <2>8. nova' \in [Instances -> VM]
    BY <1>0, <1>14, <2>3 DEF Migrate, VM, Tasks
  <2> QED BY <1>14, <2>7, <2>8 DEF TypeOK, Migrate, Starting, InPass
<1>15. CASE MigrateError
  <2>1. pass.cands \in Seq(Candidate) /\ pass.cands # <<>> /\ pass.pc = "start"
    BY <1>0, <1>15 DEF MigrateError, Starting, InPass, Pass
  <2>2. Tail(pass.cands) \in Seq(Candidate)
    BY <2>1, HeadTailProperties
  <2>3. migrationFailed(pass.st) \in EvStatus
    BY <1>0, migrationFailedKeeps
  <2>4. LET p == [pass EXCEPT !.cands = Tail(@), !.st = migrationFailed(@)] IN p \in Pass /\ p.pc = "start"
    BY <1>0, <2>1, <2>2, <2>3 DEF Pass
  <2> QED BY <1>0, <1>15, <2>4 DEF TypeOK, MigrateError, Starting, InPass, Disturb
<1>16. CASE StartEnd
  BY <1>0, <1>16, SavingType DEF TypeOK, StartEnd, InPass
<1>17. CASE updateStatus
  BY <1>0, <1>17, mergeKeeps DEF TypeOK, updateStatus
<1>18. CASE updateStatusError
  BY <1>0, <1>18 DEF TypeOK, updateStatusError, InPass, Disturb
<1>19. CASE Crash
  BY <1>0, <1>19 DEF TypeOK, Crash, Disturb
<1> QED BY <1>1, <1>2, <1>3, <1>4, <1>5, <1>6, <1>7, <1>8, <1>9, <1>10, <1>11, <1>12,
           <1>13, <1>14, <1>15, <1>16, <1>17, <1>18, <1>19 DEF Controller

\* What Nova and its users do leaves the instances well typed.
LEMMA TypeNova == TypeOK /\ Nova => TypeOK'
<1> SUFFICES ASSUME TypeOK, Nova PROVE TypeOK'
  OBVIOUS
<1>0. \A i \in Instances : \A s \in Statuses, t \in Tasks, h \in {"src", "dst"} :
         [nova EXCEPT ![i] = [status |-> s, task |-> t, host |-> h]] \in [Instances -> VM]
  BY DEF TypeOK, VM
<1>1. \A i \in Instances : nova[i] \in VM
  BY DEF TypeOK
<1>2. \A kind : Disturb(kind) => faults' \in 0..MaxFaults
  BY ConstantsAssumption DEF TypeOK, Disturb
<1>3. ASSUME NEW i \in Instances,
             \/ NovaTakesUp(i) \/ NovaCompletes(i) \/ NovaFails(i)
             \/ NovaFailsAfterMove(i) \/ UserDeletes(i) \/ NovaDeletes(i)
             \/ UserToggles(i) \/ NovaPlaces(i)
      PROVE  TypeOK'
  <2>1. nova' \in [Instances -> VM]
    BY <1>0, <1>1, <1>3
    DEF NovaTakesUp, NovaCompletes, NovaFails, NovaFailsAfterMove, UserDeletes,
        NovaDeletes, UserToggles, NovaPlaces, Become, Gone, VM, Statuses, Tasks
  <2>2. faults' \in 0..MaxFaults /\ UNCHANGED <<hv, present, ev, pass, leaving>>
    BY <1>2, <1>3
    DEF NovaTakesUp, NovaCompletes, NovaFails, NovaFailsAfterMove, UserDeletes,
        NovaDeletes, UserToggles, NovaPlaces, Become, TypeOK
  <2> QED BY <2>1, <2>2 DEF TypeOK
<1>4. CASE HypervisorVanishes
  BY <1>2, <1>4 DEF HypervisorVanishes, TypeOK
<1> QED BY <1>3, <1>4 DEF Nova

\* What the maintenance controller does leaves the state well typed.
LEMMA TypeMaintenance == TypeOK /\ Maintenance => TypeOK'
<1> SUFFICES ASSUME TypeOK, Maintenance PROVE TypeOK'
  OBVIOUS
<1>1. CASE MaintenanceDisables
  BY <1>1 DEF MaintenanceDisables, TypeOK
<1>2. CASE MaintenanceCreates
  BY <1>2 DEF MaintenanceCreates, TypeOK
<1>3. CASE MaintenanceEnables
  <2>1. faults' \in 0..MaxFaults
    BY <1>3, ConstantsAssumption DEF MaintenanceEnables, TypeOK, Disturb
  <2>2. hv' \in [registered : BOOLEAN, disabled : BOOLEAN, known : BOOLEAN]
    BY <1>3 DEF MaintenanceEnables, TypeOK
  <2> QED BY <1>3, <2>1, <2>2 DEF MaintenanceEnables, TypeOK
<1>4. CASE MaintenanceDeletes
  BY <1>4, IdleType DEF MaintenanceDeletes, TypeOK
<1> QED BY <1>1, <1>2, <1>3, <1>4 DEF Maintenance

\* Every step, and stuttering, leaves the state well typed.
LEMMA TypeNext == TypeOK /\ [Next]_vars => TypeOK'
<1>1. TypeOK /\ UNCHANGED vars => TypeOK'
  BY DEF TypeOK, vars
<1> QED BY <1>1, TypeController, TypeNova, TypeMaintenance DEF Next

\* The state of the eviction controller, of the Eviction it works on and of
\* the instances it migrates is well typed in every reachable state.
THEOREM TypeCorrect == Spec => []TypeOK
BY TypeInit, TypeNext, PTL DEF Spec

-----------------------------------------------------------------------------
(* An Eviction that reports success has emptied the hypervisor.            *)

\* A status that is safe for the instances on the host stays safe when some
\* of them leave.
LEMMA SafeStatusShrinks ==
    ASSUME NEW st, NEW S, NEW T \in SUBSET S, SafeStatus(st, S)
    PROVE  SafeStatus(st, T)
BY DEF SafeStatus

\* The empty status claims nothing.
LEMMA NoStatusSafe == \A S : SafeStatus(NoStatus, S) /\ Claimless(NoStatus)
BY DEF SafeStatus, Claimless, NoStatus

\* The inductive invariant holds at the start.
LEMMA IndInit == Init => IndInv
<1> SUFFICES ASSUME Init PROVE IndInv
  OBVIOUS
<1>1. TypeOK
  BY TypeInit
<1>2. hv.disabled = FALSE
  BY DEF Init
<1>3. pass.st = NoStatus /\ pass.pc = "idle"
  BY DEF Init, Idle
<1> QED BY <1>1, <1>2, <1>3 DEF Init, IndInv

\* A step that changes nothing but the pass.
LEMMA PassStep ==
    ASSUME IndInv, TypeOK', UNCHANGED <<hv, present, ev, leaving>>, OnSrc' = OnSrc,
           pass'.pc = "idle" => pass'.st = NoStatus,
           present /\ hv.disabled => SafeStatus(pass'.st, OnSrc),
           present /\ hv.registered /\ ~ hv.disabled /\ ~ leaving =>
              Claimless(pass'.st) /\ pass'.pc \in {"idle", "save"},
           present /\ pass'.pc # "idle" =>
              /\ ev.evicting \in {"None", "Running"}
              /\ pass'.st.evicting # "None"
              /\ ev.preflight = "True" => pass'.st.preflight = "True"
    PROVE  IndInv'
<1>1. Claimless(ev)' <=> Claimless(ev)
  BY DEF Claimless
<1>2. Claimless(pass.st)' <=> Claimless(pass'.st)
  BY DEF Claimless
<1>3. SafeStatus(ev, OnSrc)' <=> SafeStatus(ev, OnSrc)
  BY DEF SafeStatus
<1>4. SafeStatus(pass.st, OnSrc)' <=> SafeStatus(pass'.st, OnSrc)
  BY DEF SafeStatus
<1> QED BY <1>1, <1>2, <1>3, <1>4 DEF IndInv

\* The pass ends, or is lost.
LEMMA PassEnds ==
    ASSUME IndInv, TypeOK', UNCHANGED <<hv, present, ev, leaving>>, OnSrc' = OnSrc,
           pass' = Idle
    PROVE  IndInv'
<1>1. pass'.pc = "idle" /\ pass'.st = NoStatus
  BY DEF Idle
<1> QED BY <1>1, PassStep, NoStatusSafe

\* A step of evictNext: no claim is made, and of the instances on the host
\* none is struck off the working copy.
LEMMA WorkStep ==
    ASSUME IndInv, TypeOK', UNCHANGED <<hv, present, ev, leaving>>, OnSrc' = OnSrc,
           pass.pc \in {"scan", "confirm", "start"},
           pass'.pc \in {"scan", "confirm", "start", "save"},
           pass'.st.preflight = pass.st.preflight,
           pass'.st.evicting = pass.st.evicting,
           OnSrc \cap ToSet(pass.st.outstanding) \subseteq ToSet(pass'.st.outstanding)
    PROVE  IndInv'
<1>1. pass'.pc # "idle" /\ pass.pc # "idle"
  OBVIOUS
<1>2. present /\ hv.disabled => SafeStatus(pass'.st, OnSrc)
  BY DEF IndInv, SafeStatus
<1>3. ~ (present /\ hv.registered /\ ~ hv.disabled /\ ~ leaving)
  BY DEF IndInv
<1>4. present =>
         /\ ev.evicting \in {"None", "Running"}
         /\ pass'.st.evicting # "None"
         /\ ev.preflight = "True" => pass'.st.preflight = "True"
  BY <1>1 DEF IndInv
<1> QED BY <1>1, <1>2, <1>3, <1>4, PassStep

\* Which instances are on the host depends on Nova alone.
LEMMA OnSrcUnchanged == UNCHANGED nova => OnSrc' = OnSrc
BY DEF OnSrc, Exists

\* The steps of a pass keep the inductive invariant.
LEMMA IndController == IndInv /\ Controller => IndInv'
<1> SUFFICES ASSUME IndInv, Controller PROVE IndInv'
  OBVIOUS
<1>0. /\ TypeOK /\ TypeOK' /\ ev \in EvStatus /\ pass \in Pass /\ pass.st \in EvStatus
      /\ nova \in [Instances -> VM]
  BY TypeController DEF IndInv, TypeOK, Pass
<1>1. CASE Start
  <2> DEFINE st == [ev EXCEPT !.evicting = "Running"]
  <2>1. /\ st \in EvStatus /\ st.evicting = "Running"
        /\ st.preflight = ev.preflight /\ st.outstanding = ev.outstanding
    BY <1>0 DEF EvStatus
  <2>2. pass'.pc = "save" /\ pass'.st = st /\ present /\ ev.evicting = "None"
    BY <1>1, <2>1, SavingType DEF Start, Begin
  <2> HIDE DEF st
  <2>3. UNCHANGED <<hv, present, ev, leaving>> /\ OnSrc' = OnSrc
    BY <1>1, OnSrcUnchanged DEF Start, Begin
  <2>4. hv.disabled => SafeStatus(st, OnSrc)
    BY <2>1, <2>2 DEF IndInv, SafeStatus
  <2>5. hv.registered /\ ~ hv.disabled /\ ~ leaving => Claimless(st)
    BY <2>1, <2>2 DEF IndInv, Claimless
  <2> QED BY <1>0, <2>1, <2>2, <2>3, <2>4, <2>5, PassStep
<1>2. CASE PreflightBlocked
  <2> DEFINE st == [ev EXCEPT !.preflight = "False"]
  <2>1. /\ st \in EvStatus /\ st.evicting = ev.evicting
        /\ st.preflight = "False" /\ st.outstanding = ev.outstanding
    BY <1>0 DEF EvStatus
  <2>2. /\ pass'.pc = "save" /\ pass'.st = st /\ present
        /\ ev.evicting = "Running" /\ ev.preflight = "None"
    BY <1>2, <2>1, SavingType DEF PreflightBlocked, Begin
  <2> HIDE DEF st
  <2>3. UNCHANGED <<hv, present, ev, leaving>> /\ OnSrc' = OnSrc
    BY <1>2, OnSrcUnchanged DEF PreflightBlocked, Begin
  <2>4. SafeStatus(st, OnSrc) /\ Claimless(st)
    BY <2>1, <2>2 DEF SafeStatus, Claimless
  <2> QED BY <1>0, <2>1, <2>2, <2>3, <2>4, PassStep
<1>3. CASE PreflightBegin
  <2>2. /\ pass'.pc = "preflight" /\ pass'.st = ev /\ present
        /\ ev.evicting = "Running" /\ ev.preflight # "True" /\ (hv.registered => hv.disabled)
    BY <1>0, <1>3 DEF PreflightBegin, Begin, Idle
  <2>3. UNCHANGED <<hv, present, ev, leaving>> /\ OnSrc' = OnSrc
    BY <1>3, OnSrcUnchanged DEF PreflightBegin, Begin
  <2>4. SafeStatus(ev, OnSrc)
    BY <2>2 DEF SafeStatus
  <2> QED BY <1>0, <2>2, <2>3, <2>4, PassStep
<1>4. CASE EvictNextBegin
  <2>2. /\ pass'.pc = "scan" /\ pass'.st = ev /\ present
        /\ ev.evicting = "Running" /\ ev.preflight = "True"
    BY <1>0, <1>4 DEF EvictNextBegin, Begin, Idle
  <2>3. UNCHANGED <<hv, present, ev, leaving>> /\ OnSrc' = OnSrc
    BY <1>4, OnSrcUnchanged DEF EvictNextBegin, Begin
  <2>4. hv.disabled => SafeStatus(ev, OnSrc)
    BY <2>2 DEF IndInv
  <2>5. ~ (hv.registered /\ ~ hv.disabled /\ ~ leaving)
    BY <2>2 DEF IndInv, Claimless
  <2> QED BY <1>0, <2>2, <2>3, <2>4, <2>5, PassStep
<1>5. CASE Succeed
  <2> DEFINE st == [ev EXCEPT !.evicting = "Succeeded"]
  <2>1. /\ st \in EvStatus /\ st.evicting = "Succeeded"
        /\ st.preflight = ev.preflight /\ st.outstanding = ev.outstanding
    BY <1>0 DEF EvStatus
  <2>2. /\ pass'.pc = "save" /\ pass'.st = st /\ present
        /\ ev.evicting = "Running" /\ ev.preflight = "True" /\ ev.outstanding = <<>>
    BY <1>5, <2>1, SavingType DEF Succeed, Begin
  <2> HIDE DEF st
  <2>3. UNCHANGED <<hv, present, ev, leaving>> /\ OnSrc' = OnSrc
    BY <1>5, OnSrcUnchanged DEF Succeed, Begin
  <2>4. ToSet(<<>>) = {}
    BY DEF ToSet
  <2>5. hv.disabled => SafeStatus(st, OnSrc)
    BY <2>1, <2>2, <2>4 DEF IndInv, SafeStatus
  <2>6. ~ (hv.registered /\ ~ hv.disabled /\ ~ leaving)
    BY <2>2 DEF IndInv, Claimless
  <2> QED BY <1>0, <2>1, <2>2, <2>3, <2>5, <2>6, PassStep
<1>6. CASE PreflightList
  <2>1. PICK list \in ServerLists :
           pass' = Saving([pass.st EXCEPT
                      !.outstanding = IF list = <<>> THEN pass.st.outstanding ELSE list,
                      !.preflight   = "True"])
    BY <1>6 DEF PreflightList
  <2> DEFINE st == [pass.st EXCEPT
                      !.outstanding = IF list = <<>> THEN pass.st.outstanding ELSE list,
                      !.preflight   = "True"]
  <2>2. list \in Seq(Instances) /\ ToSet(list) = OnSrc
    BY ServerListType
  <2>3. /\ st \in EvStatus /\ st.evicting = pass.st.evicting /\ st.preflight = "True"
        /\ st.outstanding = IF list = <<>> THEN pass.st.outstanding ELSE list
    BY <1>0, <2>2 DEF EvStatus
  <2>4. pass'.pc = "save" /\ pass'.st = st
    BY <2>1, <2>3, SavingType
  <2> HIDE DEF st
  <2>5. UNCHANGED <<hv, present, ev, leaving>> /\ OnSrc' = OnSrc /\ pass.pc = "preflight"
    BY <1>6, OnSrcUnchanged DEF PreflightList, InPass
  <2>6. OnSrc \subseteq ToSet(st.outstanding)
    <3>1. list = <<>> => OnSrc = {}
      BY <2>2 DEF ToSet
    <3> QED BY <2>2, <2>3, <3>1
  <2>7. present /\ hv.disabled => SafeStatus(st, OnSrc)
    BY <2>3, <2>6 DEF IndInv, SafeStatus
  <2>8. ~ (present /\ hv.registered /\ ~ hv.disabled /\ ~ leaving)
    BY <2>5 DEF IndInv
  <2>9. present => ev.evicting \in {"None", "Running"} /\ st.evicting # "None"
    BY <2>3, <2>5 DEF IndInv
  <2> QED BY <1>0, <2>3, <2>4, <2>5, <2>7, <2>8, <2>9, PassStep
<1>7. CASE PreflightNotFound
  <2> DEFINE st == [pass.st EXCEPT !.evicting = IF hv.registered THEN "Failed" ELSE "Succeeded"]
  <2>1. /\ st \in EvStatus /\ st.evicting \in {"Failed", "Succeeded"}
        /\ st.preflight = pass.st.preflight /\ st.outstanding = pass.st.outstanding
    BY <1>0 DEF EvStatus
  <2>2. pass'.pc = "save" /\ pass'.st = st /\ pass.pc = "preflight" /\ ~ hv.known
    BY <1>7, <2>1, SavingType DEF PreflightNotFound, InPass
  <2> HIDE DEF st
  <2>3. UNCHANGED <<hv, present, ev, leaving>> /\ OnSrc' = OnSrc
    BY <1>7, OnSrcUnchanged DEF PreflightNotFound, InPass
  <2>4. SafeStatus(st, OnSrc)
    BY <2>2 DEF IndInv, SafeStatus
  <2>5. ~ (present /\ hv.registered /\ ~ hv.disabled /\ ~ leaving)
    BY <2>2 DEF IndInv
  <2>6. present => /\ ev.evicting \in {"None", "Running"} /\ st.evicting # "None"
                   /\ ev.preflight = "True" => st.preflight = "True"
    BY <2>1, <2>2 DEF IndInv
  <2> QED BY <1>0, <2>1, <2>2, <2>3, <2>4, <2>5, <2>6, PassStep
<1>8. CASE PreflightError
  BY <1>0, <1>8, PassEnds, OnSrcUnchanged DEF PreflightError, InPass
<1>9. CASE ScanInstance
  <2> DEFINE i == Head(pass.queue)
  <2>1. pass.queue \in Seq(Instances) /\ pass.queue # <<>> /\ i \in Instances
    BY <1>0, <1>9, HeadTailProperties DEF ScanInstance, Scanning, Pass
  <2>2. UNCHANGED <<hv, present, ev, leaving>> /\ OnSrc' = OnSrc /\ pass.pc = "scan"
    BY <1>9, OnSrcUnchanged DEF ScanInstance, Scanning, InPass
  <2>3. \A b \in {0, 1} : \A st \in {pass.st, strike(pass.st, i), setBack(pass.st, i)} :
           Scanned(st, b).st = st /\ Scanned(st, b).pc = "scan" /\ Scanned(st, b) \in Pass
    <3>1. strike(pass.st, i) \in EvStatus /\ setBack(pass.st, i) \in EvStatus
      BY <1>0, <2>1, strikeKeeps, setBackKeeps
    <3> QED BY <1>0, <2>1, <3>1, ScannedType
  <2>4. \/ pass'.st \in {pass.st, setBack(pass.st, i)}
        \/ pass'.st = strike(pass.st, i) /\ i \notin OnSrc
    <3>1. \A live : LET p == [Scanned(pass.st, 0) EXCEPT !.cands = Append(@, [id |-> i, live |-> live])]
                    IN  p.st = pass.st
      BY <2>3 DEF Pass
    <3>2. [pass EXCEPT !.pc = "confirm"].st = pass.st
      BY <1>0 DEF Pass
    <3> QED BY <1>9, <2>3, <3>1, <3>2 DEF ScanInstance, OnSrc
  <2>5. pass'.pc \in {"scan", "confirm"}
    <3>1. \A live : LET p == [Scanned(pass.st, 0) EXCEPT !.cands = Append(@, [id |-> i, live |-> live])]
                    IN  p.pc = "scan"
      BY <2>3 DEF Pass
    <3>2. [pass EXCEPT !.pc = "confirm"].pc = "confirm"
      BY <1>0 DEF Pass
    <3> QED BY <1>9, <2>3, <3>1, <3>2 DEF ScanInstance
  <2>6. /\ pass'.st.preflight = pass.st.preflight
        /\ pass'.st.evicting = pass.st.evicting
        /\ OnSrc \cap ToSet(pass.st.outstanding) \subseteq ToSet(pass'.st.outstanding)
    <3> DEFINE Kept(st) == /\ st.preflight = pass.st.preflight
                           /\ st.evicting = pass.st.evicting
                           /\ OnSrc \cap ToSet(pass.st.outstanding) \subseteq ToSet(st.outstanding)
    <3>1. Kept(setBack(pass.st, i))
      BY <1>0, <2>1, setBackKeeps
    <3>2. i \notin OnSrc => Kept(strike(pass.st, i))
      BY <1>0, <2>1, strikeKeeps
    <3> QED BY <2>4, <3>1, <3>2
  <2> QED BY <1>0, <2>2, <2>5, <2>6, WorkStep
<1>10. CASE ScanError
  <2>1. Scanned(pass.st, 0).st = pass.st /\ Scanned(pass.st, 0).pc = "scan"
    BY <1>0, <1>10, ScannedType DEF ScanError, Scanning
  <2> QED BY <1>0, <1>10, <2>1, WorkStep, OnSrcUnchanged DEF ScanError, Scanning, InPass
<1>11. CASE ScanEnd
  <2>1. pass'.st = pass.st /\ pass'.pc = "start"
    BY <1>0, <1>11 DEF ScanEnd, Pass
  <2> QED BY <1>0, <1>11, <2>1, WorkStep, OnSrcUnchanged DEF ScanEnd, InPass
<1>12. CASE ConfirmResize
  <2> DEFINE i == Head(pass.queue)
  <2>1. pass.queue # <<>> /\ i \in Instances
    BY <1>0, <1>12, HeadTailProperties DEF ConfirmResize, InPass, TypeOK, Pass
  <2>2. \A st \in {pass.st, strike(pass.st, i)} :
           Scanned(st, 1).st = st /\ Scanned(st, 1).pc = "scan"
    BY <1>0, <2>1, strikeKeeps, ScannedType
  <2>3. OnSrc' = OnSrc
    <3>1. CASE UNCHANGED nova
      BY <3>1, OnSrcUnchanged
    <3>2. CASE nova[i].status = "VERIFY_RESIZE" /\ nova' = [nova EXCEPT ![i].status = "SHUTOFF"]
      <4>1. \A j \in Instances : (Exists(j) /\ nova[j].host = "src")' <=> (Exists(j) /\ nova[j].host = "src")
        BY <1>0, <2>1, <3>2 DEF Exists, VM
      <4> QED BY <4>1 DEF OnSrc
    <3> QED BY <1>12, <3>1, <3>2 DEF ConfirmResize
  <2>4. /\ pass'.pc = "scan" /\ pass.pc = "confirm" /\ UNCHANGED <<hv, present, ev, leaving>>
        /\ \/ pass'.st = pass.st
           \/ pass'.st = strike(pass.st, i) /\ i \notin OnSrc
    BY <1>12, <2>2 DEF ConfirmResize, InPass, OnSrc
  <2>5. /\ pass'.st.preflight = pass.st.preflight
        /\ pass'.st.evicting = pass.st.evicting
        /\ OnSrc \cap ToSet(pass.st.outstanding) \subseteq ToSet(pass'.st.outstanding)
    BY <1>0, <2>1, <2>4, strikeKeeps
  <2> QED BY <1>0, <2>3, <2>4, <2>5, WorkStep
<1>13. CASE ConfirmError
  <2>1. pass.queue # <<>>
    BY <1>0, <1>13 DEF ConfirmError, InPass, TypeOK
  <2>2. Scanned(pass.st, 1).st = pass.st /\ Scanned(pass.st, 1).pc = "scan"
    BY <1>0, <2>1, ScannedType
  <2> QED BY <1>0, <1>13, <2>2, WorkStep, OnSrcUnchanged DEF ConfirmError, InPass
<1>14. CASE Migrate
  <2> DEFINE c == Head(pass.cands)
  <2>1. pass.cands \in Seq(Candidate) /\ pass.cands # <<>> /\ pass.pc = "start"
    BY <1>0, <1>14 DEF Migrate, Starting, InPass, Pass
  <2>2. c.id \in Instances
    <3>1. c \in Candidate
      BY <2>1, HeadTailProperties
    <3> QED BY <3>1 DEF Candidate
  <2>3. OnSrc' = OnSrc
    <3>1. CASE UNCHANGED nova
      BY <3>1, OnSrcUnchanged
    <3>2. CASE nova' = [nova EXCEPT ![c.id].task = IF c.live THEN "migrating" ELSE "resize_prep"]
      <4>1. \A j \in Instances : nova'[j].status = nova[j].status /\ nova'[j].host = nova[j].host
        BY <1>0, <2>2, <3>2 DEF VM
      <4> QED BY <4>1 DEF OnSrc, Exists
    <3> QED BY <1>14, <3>1, <3>2 DEF Migrate
  <2>4. /\ pass'.pc = "start" /\ UNCHANGED <<hv, present, ev, leaving>>
        /\ \/ pass'.st \in {pass.st, migrationFailed(pass.st)}
           \/ pass'.st = strike(migrationFailed(pass.st), c.id) /\ c.id \notin OnSrc
    BY <1>0, <1>14, <2>1 DEF Migrate, Starting, InPass, Pass, OnSrc
  <2>5. /\ pass'.st.preflight = pass.st.preflight
        /\ pass'.st.evicting = pass.st.evicting
        /\ OnSrc \cap ToSet(pass.st.outstanding) \subseteq ToSet(pass'.st.outstanding)
    <3> DEFINE f == migrationFailed(pass.st)
               Kept(st) == /\ st.preflight = pass.st.preflight
                           /\ st.evicting = pass.st.evicting
                           /\ OnSrc \cap ToSet(pass.st.outstanding) \subseteq ToSet(st.outstanding)
    <3>1. f \in EvStatus /\ f.preflight = pass.st.preflight
          /\ f.evicting = pass.st.evicting /\ f.outstanding = pass.st.outstanding
      BY <1>0, migrationFailedKeeps
    <3> HIDE DEF f
    <3>2. Kept(f)
      BY <3>1
    <3>3. c.id \notin OnSrc => Kept(strike(f, c.id))
      BY <2>2, <3>1, strikeKeeps
    <3> QED BY <2>4, <3>2, <3>3 DEF f
  <2> QED BY <1>0, <2>1, <2>3, <2>4, <2>5, WorkStep
<1>15. CASE MigrateError
  <2>1. pass'.pc = "start" /\ pass.pc = "start" /\ pass'.st = migrationFailed(pass.st)
    BY <1>0, <1>15 DEF MigrateError, Starting, InPass, Pass
  <2>2. UNCHANGED <<hv, present, ev, leaving>> /\ OnSrc' = OnSrc
    BY <1>15, OnSrcUnchanged DEF MigrateError, Starting, InPass
  <2> QED BY <1>0, <2>1, <2>2, migrationFailedKeeps, WorkStep
<1>16. CASE StartEnd
  <2>1. pass'.pc = "save" /\ pass.pc = "start" /\ pass'.st = pass.st
    BY <1>0, <1>16, SavingType DEF StartEnd, InPass
  <2>2. UNCHANGED <<hv, present, ev, leaving>> /\ OnSrc' = OnSrc
    BY <1>16, OnSrcUnchanged DEF StartEnd, InPass
  <2> QED BY <1>0, <2>1, <2>2, WorkStep
<1>17. CASE updateStatus
  <2>1. /\ pass.pc = "save" /\ pass' = Idle /\ pass'.pc = "idle" /\ pass'.st = NoStatus
        /\ UNCHANGED <<nova, hv, present, leaving>> /\ OnSrc' = OnSrc
    BY <1>17, OnSrcUnchanged DEF updateStatus, Idle
  <2>2. CASE ~ present
    <3>1. UNCHANGED ev
      BY <1>17, <2>2 DEF updateStatus
    <3> QED BY <1>0, <2>1, <3>1, PassEnds
  <2>3. CASE present
    <3>1. ev' = merge(ev, pass.st)
      BY <1>17, <2>3 DEF updateStatus
    <3>2. /\ ev'.outstanding = pass.st.outstanding
          /\ ev'.preflight = IF pass.st.preflight = "None" THEN ev.preflight ELSE pass.st.preflight
          /\ ev'.evicting = IF pass.st.evicting = "None" THEN ev.evicting ELSE pass.st.evicting
      BY <1>0, <3>1, mergeKeeps
    <3>3. /\ ev'.evicting = pass.st.evicting
          /\ ev'.preflight = "True" => pass.st.preflight = "True"
      BY <2>1, <2>3, <3>2 DEF IndInv
    <3>4. hv.disabled => SafeStatus(ev', OnSrc)
      BY <2>3, <3>2, <3>3 DEF IndInv, SafeStatus
    <3>5. hv.registered /\ ~ hv.disabled /\ ~ leaving => Claimless(ev')
      BY <2>3, <3>3 DEF IndInv, Claimless
    <3>6. SafeStatus(ev, OnSrc)' = SafeStatus(ev', OnSrc) /\ Claimless(ev)' = Claimless(ev')
      BY <2>1 DEF SafeStatus, Claimless
    <3>7. SafeStatus(pass.st, OnSrc)' /\ Claimless(pass.st)'
      BY <2>1 DEF SafeStatus, Claimless, NoStatus
    <3> QED BY <1>0, <2>1, <2>3, <3>4, <3>5, <3>6, <3>7 DEF IndInv
  <2> QED BY <2>2, <2>3
<1>18. CASE updateStatusError
  BY <1>0, <1>18, PassEnds, OnSrcUnchanged DEF updateStatusError, InPass
<1>19. CASE Crash
  BY <1>0, <1>19, PassEnds, OnSrcUnchanged DEF Crash
<1> QED BY <1>1, <1>2, <1>3, <1>4, <1>5, <1>6, <1>7, <1>8, <1>9, <1>10, <1>11, <1>12,
           <1>13, <1>14, <1>15, <1>16, <1>17, <1>18, <1>19 DEF Controller

\* Nova takes instances away from a disabled host and brings none.
LEMMA IndNova == IndInv /\ Nova => IndInv'
<1> SUFFICES ASSUME IndInv, Nova PROVE IndInv'
  OBVIOUS
<1>0. TypeOK /\ TypeOK' /\ nova \in [Instances -> VM]
  BY TypeNova DEF IndInv, TypeOK
<1>1. UNCHANGED <<present, ev, pass, leaving>>
  BY DEF Nova, NovaTakesUp, NovaCompletes, NovaFails, NovaFailsAfterMove, UserDeletes,
         NovaDeletes, UserToggles, NovaPlaces, HypervisorVanishes, Become
<1>2. /\ hv'.registered = hv.registered /\ hv'.disabled = hv.disabled
      /\ hv' = hv \/ (~ hv'.known /\ OnSrc = {} /\ UNCHANGED nova)
  <2>1. CASE HypervisorVanishes
    BY <1>0, <2>1 DEF HypervisorVanishes, TypeOK
  <2>2. CASE ~ HypervisorVanishes
    BY <2>2 DEF Nova, NovaTakesUp, NovaCompletes, NovaFails, NovaFailsAfterMove, UserDeletes,
                NovaDeletes, UserToggles, NovaPlaces, Become
  <2> QED BY <2>1, <2>2
<1>3. OnSrc' \subseteq OnSrc \/ (hv.known /\ ~ hv.disabled)
  <2>1. ASSUME NEW i \in Instances,
               \/ NovaTakesUp(i) \/ NovaCompletes(i) \/ NovaFails(i)
               \/ NovaFailsAfterMove(i) \/ UserDeletes(i) \/ NovaDeletes(i) \/ UserToggles(i)
        PROVE  OnSrc' \subseteq OnSrc
    <3>1. \A j \in Instances \ {i} : nova'[j] = nova[j]
      BY <1>0, <2>1
      DEF NovaTakesUp, NovaCompletes, NovaFails, NovaFailsAfterMove, UserDeletes,
          NovaDeletes, UserToggles, Become
    <3>2. i \in OnSrc' => i \in OnSrc
      BY <1>0, <2>1
      DEF NovaTakesUp, NovaCompletes, NovaFails, NovaFailsAfterMove, UserDeletes,
          NovaDeletes, UserToggles, Become, OnSrc, Exists, Gone
    <3> QED BY <3>1, <3>2 DEF OnSrc, Exists
  <2>2. CASE HypervisorVanishes
    BY <2>2, OnSrcUnchanged DEF HypervisorVanishes
  <2>3. CASE \E i \in Instances : NovaPlaces(i)
    BY <2>3 DEF NovaPlaces
  <2> QED BY <2>1, <2>2, <2>3 DEF Nova
<1>4. Claimless(ev)' = Claimless(ev) /\ Claimless(pass.st)' = Claimless(pass.st)
  BY <1>1 DEF Claimless
<1>5. present /\ hv.disabled => SafeStatus(ev, OnSrc)' /\ SafeStatus(pass.st, OnSrc)'
  <2>1. SafeStatus(ev, OnSrc)' = SafeStatus(ev, OnSrc') /\ SafeStatus(pass.st, OnSrc)' = SafeStatus(pass.st, OnSrc')
    BY <1>1 DEF SafeStatus
  <2> QED BY <1>3, <2>1, SafeStatusShrinks DEF IndInv
<1>6. ~ hv'.known => OnSrc' = {}
  BY <1>2, <1>3, OnSrcUnchanged DEF IndInv
<1> QED BY <1>0, <1>1, <1>2, <1>4, <1>5, <1>6 DEF IndInv

\* The maintenance controller disables a host before any claim is made on it,
\* and re-creates an Eviction only after the passes of the old one.
LEMMA IndMaintenance ==
    ASSUME "recreate_in_pass" \notin Faults
    PROVE  IndInv /\ Maintenance => IndInv'
<1> SUFFICES ASSUME IndInv, Maintenance PROVE IndInv'
  OBVIOUS
<1>0. TypeOK /\ TypeOK' /\ hv \in [registered : BOOLEAN, disabled : BOOLEAN, known : BOOLEAN]
  BY TypeMaintenance DEF IndInv, TypeOK
<1>1. UNCHANGED <<nova, pass>> /\ OnSrc' = OnSrc
  BY OnSrcUnchanged
  DEF Maintenance, MaintenanceDisables, MaintenanceCreates, MaintenanceEnables, MaintenanceDeletes
<1>2. CASE MaintenanceDisables
  <2>1. /\ hv'.disabled /\ hv'.registered /\ hv'.known = hv.known /\ ~ leaving
        /\ hv.registered /\ ~ hv.disabled /\ UNCHANGED <<present, ev, leaving>>
    BY <1>0, <1>2 DEF MaintenanceDisables
  <2>2. present => SafeStatus(ev, OnSrc) /\ SafeStatus(pass.st, OnSrc)
    BY <2>1 DEF IndInv, Claimless, SafeStatus
  <2>3. SafeStatus(ev, OnSrc)' = SafeStatus(ev, OnSrc) /\ SafeStatus(pass.st, OnSrc)' = SafeStatus(pass.st, OnSrc)
    BY <1>1, <2>1 DEF SafeStatus
  <2> QED BY <1>0, <1>1, <2>1, <2>2, <2>3 DEF IndInv
<1>3. CASE MaintenanceCreates
  <2>1. ~ present /\ ~ leaving /\ pass.pc = "idle" /\ present' /\ UNCHANGED <<hv, ev, leaving>>
    BY <1>3 DEF MaintenanceCreates
  <2>2. ev = NoStatus /\ pass.st = NoStatus
    BY <2>1 DEF IndInv
  <2>3. SafeStatus(ev, OnSrc)' /\ SafeStatus(pass.st, OnSrc)' /\ Claimless(ev)' /\ Claimless(pass.st)'
    BY <1>1, <2>1, <2>2 DEF SafeStatus, Claimless, NoStatus
  <2> QED BY <1>0, <1>1, <2>1, <2>2, <2>3 DEF IndInv
<1>4. CASE MaintenanceEnables
  <2>1. /\ ~ hv'.disabled /\ hv'.registered = hv.registered /\ hv'.known = hv.known /\ leaving'
        /\ present /\ UNCHANGED <<present, ev>>
    BY <1>0, <1>4 DEF MaintenanceEnables
  <2> QED BY <1>0, <1>1, <2>1 DEF IndInv
<1>5. CASE MaintenanceDeletes
  <2>1. leaving /\ ~ leaving' /\ ~ present' /\ ev' = NoStatus /\ UNCHANGED hv
    BY <1>5 DEF MaintenanceDeletes
  <2> QED BY <1>0, <1>1, <2>1 DEF IndInv
<1> QED BY <1>2, <1>3, <1>4, <1>5 DEF Maintenance

\* Every step, and stuttering, keeps the inductive invariant.
LEMMA IndNext ==
    ASSUME "recreate_in_pass" \notin Faults
    PROVE  IndInv /\ [Next]_vars => IndInv'
<1>1. IndInv /\ UNCHANGED vars => IndInv'
  BY DEF IndInv, TypeOK, vars, OnSrc, Exists, SafeStatus, Claimless
<1> QED BY <1>1, IndController, IndNova, IndMaintenance DEF Next

\* The inductive invariant holds in every reachable state, as long as no
\* Eviction is re-created while a pass of its predecessor is still running.
THEOREM Inductive ==
    ASSUME "recreate_in_pass" \notin Faults
    PROVE  Spec => []IndInv
BY IndInit, IndNext, PTL DEF Spec

\* On a hypervisor that stays disabled, a successful Eviction means that no
\* instance is left: handleRunning declares success for an empty list only,
\* the list covers the host since the preflight, and evictNext strikes off
\* only what has left.
THEOREM SucceededIsEmpty ==
    ASSUME "recreate_in_pass" \notin Faults
    PROVE  Spec => []SucceededMeansEmpty
<1>1. IndInv => SucceededMeansEmpty
  BY DEF IndInv, SafeStatus, SucceededMeansEmpty
<1> QED BY <1>1, Inductive, PTL
=============================================================================
