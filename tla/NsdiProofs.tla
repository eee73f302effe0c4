------------------------------ MODULE NsdiProofs ------------------------------
(***************************************************************************)
(* Proofs about Nsdi, for any workloads, any machine, any masks and any    *)
(* number of waiting messages.                                             *)
(***************************************************************************)
EXTENDS Nsdi, TLAPS, FiniteSetTheorems, WellFoundedInduction

-----------------------------------------------------------------------------
(* Numbers and sequences.                                                  *)

\* The least of a set of naturals is one of them.
LEMMA MinIn ==
    ASSUME NEW T \in SUBSET Nat, T # {}
    PROVE  Min(T) \in T /\ \A y \in T : Min(T) <= y
<1> DEFINE R == OpToRel(<, Nat)
<1>1. \E x \in T : \A y \in T : ~(<<y, x>> \in R)
  BY NatLessThanWellFounded, WFMin
<1>2. \A x, y \in Nat : (<<y, x>> \in R) <=> y < x
  BY DEF OpToRel
<1> HIDE DEF R
<1>3. PICK x \in T : \A y \in T : ~(<<y, x>> \in R)
  BY <1>1
<1>4. ASSUME NEW y \in T PROVE x <= y
  <2>1. ~(y < x)
    BY <1>2, <1>3
  <2>2. QED
    BY <2>1
<1>5. \E z \in T : \A y \in T : z <= y
  BY <1>4
<1>6. QED
  BY <1>5 DEF Min

\* The greatest of a bounded set of naturals is one of them.
LEMMA MaxIn ==
    ASSUME NEW n \in Nat, NEW T \in SUBSET (0..n), T # {}
    PROVE  Max(T) \in T
<1> DEFINE U == {n - x : x \in T}
<1>1. U \in SUBSET Nat /\ U # {}
  <2>1. ASSUME NEW x \in T PROVE n - x \in Nat
    BY x \in 0..n
  <2>2. QED
    BY <2>1
<1>2. Min(U) \in U /\ \A y \in U : Min(U) <= y
  BY <1>1, MinIn
<1>3. PICK x \in T : Min(U) = n - x
  BY <1>2
<1>4. ASSUME NEW y \in T PROVE y <= x
  <2>1. n - x <= n - y
    BY <1>2, <1>3
  <2>2. QED
    BY <2>1
<1>5. \E z \in T : \A y \in T : z >= y
  BY <1>4
<1>6. QED
  BY <1>5 DEF Max

\* Removing an element leaves a sequence of the others.
LEMMA RemoveAtSeq ==
    ASSUME NEW S, NEW q \in Seq(S), NEW i \in 1..Len(q)
    PROVE  RemoveAt(q, i) \in Seq(S)
<1>1. SubSeq(q, 1, i - 1) \in Seq(S)
  OBVIOUS
<1>2. SubSeq(q, i + 1, Len(q)) \in Seq(S)
  OBVIOUS
<1>3. QED
  BY <1>1, <1>2 DEF RemoveAt

\* Quotient and remainder of naturals are naturals.
LEMMA DivNat ==
    ASSUME NEW m \in Nat, NEW n \in Nat \ {0}
    PROVE  m \div n \in Nat /\ m % n \in Nat
<1>1. m \div n \in Nat
  OBVIOUS
<1>2. m % n \in Nat
  OBVIOUS
<1>3. QED
  BY <1>1, <1>2

\* Products of naturals keep the order.
LEMMA TimesMonotone ==
    ASSUME NEW a \in Nat, NEW b \in Nat, a < b, NEW k \in Nat
    PROVE  a * k + k <= b * k /\ a * k \in Nat /\ b * k \in Nat
<1>1. PICK d \in Nat : b = a + 1 + d
  <2>1. b - a - 1 \in Nat /\ b = a + 1 + (b - a - 1)
    OBVIOUS
  <2>2. QED
    BY <2>1
<1>2. b * k = a * k + k + d * k /\ d * k \in Nat
  BY <1>1
<1>3. QED
  BY <1>2

-----------------------------------------------------------------------------
(* Start and the reads of a pass.                                          *)

\* The static partition gives every application eligible CPUs, and no CPU twice.
LEMMA PartitionDisjoint ==
    ASSUME Apps # {}
    PROVE  LET own == initialize_static_cpu_partition
           IN  /\ own \in [Apps -> SUBSET EligibleCpus]
               /\ \A a, b \in Apps : a # b => own[a] \cap own[b] = {}
<1> DEFINE base == Cardinality(EligibleCpus) \div Cardinality(Apps)
           remainder == Cardinality(EligibleCpus) % Cardinality(Apps)
           Cursor(a) == a * base + (IF a < remainder THEN a ELSE remainder)
           Place(c) == Cardinality({d \in EligibleCpus : d < c})
           own == initialize_static_cpu_partition
<1>1. own = [a \in Apps |-> {c \in EligibleCpus : Cursor(a) <= Place(c) /\ Place(c) < Cursor(a + 1)}]
  BY DEF initialize_static_cpu_partition
<1>2. base \in Nat /\ remainder \in Nat
  <2>1. IsFiniteSet(EligibleCpus)
    BY NsdiAssumption, TopologyAssumption, FS_Subset
  <2>2. Cardinality(EligibleCpus) \in Nat /\ Cardinality(Apps) \in Nat \ {0}
    BY <2>1, NsdiAssumption, FS_CardinalityType, FS_EmptySet
  <2>3. QED
    BY <2>2, DivNat
<1>3. \A c \in EligibleCpus : Place(c) \in Nat
  <2>1. IsFiniteSet(EligibleCpus)
    BY NsdiAssumption, TopologyAssumption, FS_Subset
  <2>2. ASSUME NEW c \in EligibleCpus PROVE IsFiniteSet({d \in EligibleCpus : d < c})
    BY <2>1, FS_Subset
  <2>3. QED
    BY <2>2, FS_CardinalityType
<1> HIDE DEF base, remainder, Place
<1>4. ASSUME NEW a \in Nat, NEW b \in Nat, a < b
      PROVE  Cursor(a + 1) <= Cursor(b) /\ Cursor(a + 1) \in Nat /\ Cursor(b) \in Nat
  <2>1. /\ (a + 1) * base = a * base + base /\ a * base \in Nat /\ b * base \in Nat
        /\ a * base + base <= b * base
    BY <1>2, <1>4, TimesMonotone
  <2>2. QED
    BY <1>2, <1>4, <2>1
<1> HIDE DEF Cursor
<1>5. \A a \in Apps : a \in Nat
  BY NsdiAssumption, FS_CardinalityType
<1>6. ASSUME NEW a \in Apps, NEW b \in Apps, a < b, NEW c \in own[a], c \in own[b]
      PROVE  FALSE
  <2>1. /\ c \in EligibleCpus /\ Place(c) < Cursor(a + 1) /\ Cursor(b) <= Place(c)
    BY <1>1, <1>6
  <2>2. QED
    BY <1>3, <1>4, <1>5, <1>6, <2>1
<1>7. own \in [Apps -> SUBSET EligibleCpus]
  BY <1>1
<1>8. \A a, b \in Apps : a # b => a < b \/ b < a
  BY <1>5
<1>9. \A a, b \in Apps : a # b => own[a] \cap own[b] = {}
  BY <1>6, <1>8
<1>10. QED
  BY <1>7, <1>9

\* The application of a process is one of them or none.
LEMMA AppType ==
    ASSUME NEW p
    PROVE  resolve_app_id(p) \in Apps \cup {NoApp}
<1> DEFINE up == Lineage(p)
           AppAt(q) == {a \in Apps : q = RootOf[a] \/ q \in known[a]}
           found == {k \in 0..Cardinality(Tids) : AppAt(up[k]) # {}}
<1>1. CASE found = {}
  BY <1>1 DEF resolve_app_id
<1>2. CASE found # {}
  <2>1. 0..Cardinality(Tids) \subseteq Nat
    BY TopologyAssumption, FS_CardinalityType
  <2>2. AppAt(up[Min(found)]) # {}
    <3>1. Min(found) \in found
      BY <1>2, <2>1, MinIn
    <3>2. QED
      BY <3>1
  <2>3. Cardinality(Apps) \in Nat /\ Apps \subseteq 0..Cardinality(Apps)
    BY NsdiAssumption, FS_CardinalityType
  <2>4. Max(AppAt(up[Min(found)])) \in AppAt(up[Min(found)])
    <3> HIDE DEF up, found
    <3>1. AppAt(up[Min(found)]) \in SUBSET (0..Cardinality(Apps))
      BY <2>3
    <3> HIDE DEF AppAt
    <3>2. QED
      BY <2>2, <2>3, <3>1, MaxIn
  <2>5. resolve_app_id(p) = Max(AppAt(up[Min(found)]))
    BY <1>2 DEF resolve_app_id
  <2>6. QED
    BY <2>4, <2>5
<1>3. QED
  BY <1>1, <1>2

\* The average delay is a natural.
LEMMA DelayType ==
    ASSUME NEW old \in Nat, NEW sum \in Nat, NEW n \in Nat
    PROVE  NextDelay(old, sum, n) \in Nat
<1>1. CASE n = 0
  BY <1>1 DEF NextDelay
<1>2. CASE n # 0
  <2>1. sum \div n \in Nat
    BY <1>2, DivNat
  <2>2. (3 * old + sum \div n) \div 4 \in Nat
    <3>1. 3 * old + sum \div n \in Nat
      BY <2>1
    <3>2. 4 \in Nat \ {0}
      OBVIOUS
    <3>3. QED
      BY <3>1, <3>2, DivNat
  <2>3. QED
    BY <1>2, <2>1, <2>2 DEF NextDelay
<1>3. QED
  BY <1>1, <1>2

\* What read_cpu_states finds is a CPU state.
LEMMA ViewType ==
    ASSUME TypeOK, read_cpu_states
    PROVE  view' \in [Cpus -> CpuStateValue]
<1> DEFINE Idle(c) == {[idle |-> i, hot |-> FALSE, tid |-> NoTid] :
                          i \in {b \in BOOLEAN : b \/ c \in BusyCpus}}
           Runs(c) == {[idle |-> FALSE, hot |-> h, tid |-> p] :
                          h \in {b \in BOOLEAN : b => c \in HotCpus},
                          p \in {q \in Tids : table'[q] = c}}
<1>1. /\ view' \in [Cpus -> UNION {Idle(c) \cup Runs(c) : c \in Cpus}]
      /\ \A c \in Cpus : view'[c] \in Idle(c) \cup Runs(c)
  BY DEF read_cpu_states
<1>2. ASSUME NEW c \in Cpus, NEW v \in Idle(c) PROVE v \in CpuStateValue
  <2>1. PICK i \in BOOLEAN : v = [idle |-> i, hot |-> FALSE, tid |-> NoTid]
    OBVIOUS
  <2>2. QED
    BY <2>1 DEF CpuStateValue
<1>3. ASSUME NEW c \in Cpus, NEW v \in Runs(c) PROVE v \in CpuStateValue
  <2>1. PICK h \in BOOLEAN, p \in Tids : v = [idle |-> FALSE, hot |-> h, tid |-> p]
    OBVIOUS
  <2>2. QED
    BY <2>1 DEF CpuStateValue
<1> HIDE DEF Idle, Runs
<1>4. QED
  BY <1>1, <1>2, <1>3

\* The positions select_next_pending and FirstOf give are positions of messages.
LEMMA SelectedIndex ==
    ASSUME TypeOK, NEW lost, select_next_pending(lost).to # "wait"
    PROVE  select_next_pending(lost).index \in 1..Len(pending)
<1> DEFINE allowed == allowed_cpus(lost)
           runnable == {i \in 1..Len(pending) :
                          LegalCpus(pending[i].pid, allowed[pending[i].pid]) # {}}
           unread == {i \in 1..Len(pending) : allowed[pending[i].pid] = {}}
<1>1. Len(pending) \in Nat
  BY DEF TypeOK
<1>2. runnable \in SUBSET Nat /\ unread \in SUBSET Nat
  BY <1>1
<1>3. select_next_pending(lost) =
        IF runnable # {} THEN [to |-> "run", index |-> Min(runnable)]
        ELSE IF unread # {} THEN [to |-> "drop", index |-> Min(unread)]
        ELSE [to |-> "wait", index |-> 0]
  BY DEF select_next_pending
<1>4. CASE runnable # {}
  <2>1. Min(runnable) \in runnable
    BY <1>2, <1>4, MinIn
  <2>2. QED
    BY <1>3, <1>4, <2>1
<1>5. CASE runnable = {} /\ unread # {}
  <2>1. Min(unread) \in unread
    BY <1>2, <1>5, MinIn
  <2>2. QED
    BY <1>3, <1>5, <2>1
<1>6. CASE runnable = {} /\ unread = {}
  <2>1. select_next_pending(lost) = [to |-> "wait", index |-> 0]
    BY <1>3, <1>6
  <2>2. select_next_pending(lost).to = "wait"
    BY <2>1
  <2>3. QED
    BY <2>2
<1>7. QED
  BY <1>4, <1>5, <1>6

\* FirstOf gives a message of the kind, or 0 if there is none.
LEMMA FirstOfIndex ==
    ASSUME TypeOK, NEW kind
    PROVE  /\ FirstOf(kind) # 0 => FirstOf(kind) \in 1..Len(pending)
           /\ FirstOf(kind) = 0 => \A i \in 1..Len(pending) : pending[i].kind # kind
<1> DEFINE mine == {i \in 1..Len(pending) : pending[i].kind = kind}
<1>1. mine \in SUBSET Nat
  BY DEF TypeOK
<1>2. FirstOf(kind) = IF mine = {} THEN 0 ELSE Min(mine)
  BY DEF FirstOf
<1>3. CASE mine = {}
  BY <1>2, <1>3
<1>4. CASE mine # {}
  <2>1. Min(mine) \in mine
    BY <1>1, <1>4, MinIn
  <2>2. QED
    BY <1>2, <1>4, <2>1
<1>5. QED
  BY <1>3, <1>4

\* A message put back in front leaves a queue of messages.
LEMMA RefuseType ==
    ASSUME TypeOK, NEW i \in 1..Len(pending), Refuse(i)
    PROVE  pending' \in Seq(QueuedTask) /\ phase' \in Phases
<1>1. RemoveAt(pending, i) \in Seq(QueuedTask)
  BY RemoveAtSeq DEF TypeOK
<1>2. <<pending[i]>> \in Seq(QueuedTask)
  <2>1. pending[i] \in QueuedTask
    BY DEF TypeOK
  <2>2. QED
    BY <2>1
<1>3. QED
  BY <1>1, <1>2 DEF Refuse, Phases

\* A placement is a CPU that the application owns and the mask allows.
LEMMA PlacementIn ==
    ASSUME NEW m, NEW legal, NEW c \in choose_placement_with_owned_cpus(m, legal)
    PROVE  c \in legal
<1>1. CASE current_cpu_usable(m.pid, m.cpu, legal)
  BY <1>1 DEF choose_placement_with_owned_cpus, current_cpu_usable
<1>2. CASE ~current_cpu_usable(m.pid, m.cpu, legal)
  BY <1>2 DEF choose_placement_with_owned_cpus, Least
<1>3. QED
  BY <1>1, <1>2
-----------------------------------------------------------------------------
(* Type correctness.                                                       *)

\* The initial state is well typed.
LEMMA TypeInit == Init => TypeOK
<1> SUFFICES ASSUME Init PROVE TypeOK
  OBVIOUS
<1>1. owned \in [Apps -> SUBSET EligibleCpus]
  <2>1. CASE policy = "Static" /\ Apps # {}
    BY <2>1, PartitionDisjoint DEF Init
  <2>2. CASE ~(policy = "Static" /\ Apps # {})
    BY <2>2 DEF Init
  <2>3. QED
    BY <2>1, <2>2
<1>2. view \in [Cpus -> CpuStateValue]
  BY DEF Init, NoView, CpuStateValue
<1>3. policy \in {"Static", "DelayRange"}
  BY NsdiAssumption DEF Init
<1>4. since \in 0..ControlInterval
  BY NsdiAssumption DEF Init
<1>5. pending \in Seq(QueuedTask) /\ recipients \in Seq(Apps)
  BY DEF Init
<1>6. refused \in BOOLEAN /\ phase \in Phases /\ changed \subseteq Apps
  BY DEF Init, Phases
<1>7. /\ alive \subseteq Tids /\ parent \in [Tids -> Tids \cup {InitPid}]
      /\ known \in [Apps -> SUBSET Tids] /\ table \in [Tids -> Cpus \cup {NoCpu}]
      /\ count \in [Apps -> Nat] /\ ewma \in [Apps -> Nat]
      /\ appOf \in [Tids -> Apps \cup {NoApp}] /\ jobs \in [Cpus -> SUBSET Tids]
  BY DEF Init
<1>8. QED
  BY <1>1, <1>2, <1>3, <1>4, <1>5, <1>6, <1>7 DEF TypeOK

\* BeginPass reads well-typed values.
LEMMA BeginPassType ==
    ASSUME TypeOK, BeginPass
    PROVE  TypeOK'
<1>1. view' \in [Cpus -> CpuStateValue]
  BY ViewType DEF BeginPass
<1>2. table' \in [Tids -> Cpus \cup {NoCpu}]
  BY DEF BeginPass, prune_dead_threads, TypeOK
<1>3. jobs' \in [Cpus -> SUBSET Tids]
  BY DEF BeginPass, build_planned_cpu_states
<1>4. appOf' \in [Tids -> Apps \cup {NoApp}]
  BY AppType DEF BeginPass, refresh_app_pending_metrics
<1> DEFINE Of(a) == {i \in 1..Len(pending) : pending[i].kind = "work"
                                               /\ appOf'[pending[i].pid] = a}
           Waited(a) == {w \in (1..Len(pending)) \X (1..MaxDelay) :
                           w[1] \in Of(a) /\ w[2] <= pending[w[1]].delay}
<1>5. /\ count' = [a \in Apps |-> Cardinality(Of(a))]
      /\ ewma' = [a \in Apps |-> NextDelay(ewma[a], Cardinality(Waited(a)), Cardinality(Of(a)))]
  BY DEF BeginPass, refresh_app_pending_metrics
<1>6. ASSUME NEW a \in Apps PROVE Cardinality(Of(a)) \in Nat /\ Cardinality(Waited(a)) \in Nat
  <2>1. Len(pending) \in Nat /\ MaxDelay \in Nat
    BY NsdiAssumption DEF TypeOK
  <2>2. IsFiniteSet(1..Len(pending)) /\ IsFiniteSet(1..MaxDelay)
    BY <2>1, FS_Interval
  <2>3. IsFiniteSet((1..Len(pending)) \X (1..MaxDelay))
    BY <2>2, FS_Product
  <2>4. Of(a) \subseteq 1..Len(pending) /\ Waited(a) \subseteq (1..Len(pending)) \X (1..MaxDelay)
    OBVIOUS
  <2>5. IsFiniteSet(Of(a)) /\ IsFiniteSet(Waited(a))
    <3> HIDE DEF Of, Waited
    <3>1. QED
      BY <2>2, <2>3, <2>4, FS_Subset
  <2>6. QED
    BY <2>5, FS_CardinalityType
<1> HIDE DEF Of, Waited
<1>7. count' \in [Apps -> Nat]
  BY <1>5, <1>6
<1>8. ewma' \in [Apps -> Nat]
  <2>1. ASSUME NEW a \in Apps
        PROVE  NextDelay(ewma[a], Cardinality(Waited(a)), Cardinality(Of(a))) \in Nat
    <3>1. ewma[a] \in Nat
      BY DEF TypeOK
    <3>2. QED
      BY <1>6, <3>1, DelayType
  <2>2. QED
    BY <1>5, <2>1
<1>9. phase' \in Phases
  BY DEF BeginPass, Phases
<1>10. QED
  BY <1>1, <1>2, <1>3, <1>4, <1>7, <1>8, <1>9
  DEF TypeOK, BeginPass, processes, controller

\* The controller's steps keep the types.
LEMMA ControlType ==
    ASSUME TypeOK, ReleaseCpus \/ SkipControl \/ GrantNext \/ EndControl
    PROVE  TypeOK'
<1>1. CASE ReleaseCpus
  <2> DEFINE releasing == {a \in Apps : MayRelease(a) /\ choose_revocable_cpu(a) # {}}
             needy == {a \in Apps : count[a] > 0 /\ (owned'[a] = {} \/ ewma[a] > DelayHigh)}
  <2>1. owned' \in [Apps -> SUBSET EligibleCpus]
    <3>1. PICK cpu \in [releasing -> EligibleCpus] :
            owned' = [a \in Apps |-> IF a \in releasing THEN owned[a] \ {cpu[a]} ELSE owned[a]]
      BY <1>1 DEF ReleaseCpus
    <3> HIDE DEF releasing
    <3>2. QED
      BY <3>1 DEF TypeOK
  <2>2. recipients' \in Seq(Apps)
    <3>1. recipients' \in [1..Cardinality(needy) -> needy]
      BY <1>1 DEF ReleaseCpus, Sorted
    <3>2. needy \subseteq Apps
      OBVIOUS
    <3> HIDE DEF needy
    <3>3. Cardinality(needy) \in Nat
      BY <3>2, NsdiAssumption, FS_Subset, FS_CardinalityType
    <3>4. QED
      BY <3>1, <3>2, <3>3
  <2>3. changed' \subseteq Apps
    BY <1>1 DEF ReleaseCpus
  <2>4. phase' \in Phases
    BY <1>1 DEF ReleaseCpus, Phases
  <2>5. QED
    BY <1>1, <2>1, <2>2, <2>3, <2>4 DEF ReleaseCpus, TypeOK, processes, metrics, snapshot
<1>2. CASE SkipControl
  BY <1>2 DEF SkipControl, TypeOK, Phases, processes, metrics, controller, snapshot
<1>3. CASE GrantNext
  <2> DEFINE a == Head(recipients)
  <2>1. a \in Apps /\ recipients' \in Seq(Apps)
    BY <1>3 DEF GrantNext, TypeOK
  <2> HIDE DEF a
  <2>2. owned' \in [Apps -> SUBSET EligibleCpus] /\ changed' \subseteq Apps
    <3>1. CASE UNCHANGED <<owned, changed>>
      BY <3>1 DEF TypeOK
    <3>2. CASE /\ free_cpus # {}
               /\ owned' = [owned EXCEPT ![a] = @ \cup {Min(free_cpus)}]
               /\ changed' = changed \cup {a}
      <4>1. free_cpus \in SUBSET Nat /\ free_cpus \subseteq EligibleCpus
        BY NsdiAssumption, TopologyAssumption DEF free_cpus
      <4>2. Min(free_cpus) \in EligibleCpus
        BY <3>2, <4>1, MinIn
      <4>3. QED
        BY <2>1, <3>2, <4>2 DEF TypeOK
    <3>3. CASE \E o \in Donors(a) :
                 /\ owned' = [b \in Apps |-> IF b = a THEN owned[b] \cup {o[2]}
                                             ELSE IF b = o[1] THEN owned[b] \ {o[2]}
                                             ELSE owned[b]]
                 /\ changed' = changed \cup {a, o[1]}
      <4>1. PICK o \in Donors(a) :
                 /\ owned' = [b \in Apps |-> IF b = a THEN owned[b] \cup {o[2]}
                                             ELSE IF b = o[1] THEN owned[b] \ {o[2]}
                                             ELSE owned[b]]
                 /\ changed' = changed \cup {a, o[1]}
        BY <3>3
      <4>2. o[1] \in Apps /\ o[2] \in EligibleCpus
        BY DEF Donors, choose_revocable_cpu, TypeOK
      <4>3. QED
        BY <2>1, <4>1, <4>2 DEF TypeOK
    <3>4. QED
      BY <1>3, <3>1, <3>2, <3>3 DEF GrantNext, a
  <2>3. QED
    BY <1>3, <2>1, <2>2 DEF GrantNext, TypeOK, processes, metrics, snapshot
<1>4. CASE EndControl
  <2>1. since' \in 0..ControlInterval
    BY <1>4, NsdiAssumption DEF EndControl, TypeOK
  <2>2. QED
    BY <1>4, <2>1 DEF EndControl, TypeOK, Phases, processes, metrics, snapshot
<1>5. QED
  BY <1>1, <1>2, <1>3, <1>4

\* The dispatch loop keeps the types.
LEMMA DispatchType ==
    ASSUME TypeOK,
           \/ \E kind \in {"usersched", "helper"} : DispatchFirst(kind)
           \/ DispatchSelected
           \/ DropUnreadable
           \/ LeaveWaiting
    PROVE  TypeOK'
<1>1. ASSUME NEW kind \in {"usersched", "helper"}, DispatchFirst(kind) PROVE TypeOK'
  <2> DEFINE i == FirstOf(kind)
  <2>1. i \in 1..Len(pending)
    BY <1>1, FirstOfIndex DEF DispatchFirst
  <2>2. /\ \/ Refuse(i)
           \/ pending' = RemoveAt(pending, i) /\ UNCHANGED <<phase, table, jobs, view, refused>>
        /\ UNCHANGED <<processes, owned, metrics, controller, appOf>>
    BY <1>1 DEF DispatchFirst
  <2> HIDE DEF i
  <2>3. CASE Refuse(i)
    <3>1. pending' \in Seq(QueuedTask) /\ phase' \in Phases
      BY <2>1, <2>3, RefuseType
    <3>2. refused' \in BOOLEAN
      BY <2>3 DEF Refuse
    <3>3. UNCHANGED <<table, jobs, view>>
      BY <2>3 DEF Refuse
    <3>4. QED
      BY <2>2, <3>1, <3>2, <3>3 DEF TypeOK, processes, metrics, controller
  <2>4. CASE pending' = RemoveAt(pending, i) /\ UNCHANGED <<phase, table, jobs, view, refused>>
    <3>1. pending' \in Seq(QueuedTask)
      BY <2>1, <2>4, RemoveAtSeq DEF TypeOK
    <3>2. QED
      BY <2>2, <2>4, <3>1 DEF TypeOK, processes, metrics, controller
  <2>5. QED
    BY <2>2, <2>3, <2>4
<1>2. CASE DispatchSelected
  <2>1. PICK lost \in SUBSET Ended :
          LET next == select_next_pending(lost)
              m == pending[next.index]
          IN  /\ next.to = "run"
              /\ \/ Refuse(next.index)
                 \/ /\ \E c \in choose_placement_with_owned_cpus(m, LegalCpus(m.pid, Mask[m.pid])) :
                         /\ table' = [table EXCEPT ![m.pid] = c]
                         /\ apply_planned_cpu_assignment(m.pid, c)
                         /\ view' = [view EXCEPT ![c].idle = FALSE, ![c].tid = m.pid]
                    /\ pending' = RemoveAt(pending, next.index)
                    /\ UNCHANGED <<phase, refused>>
    BY <1>2 DEF DispatchSelected
  <2> DEFINE i == select_next_pending(lost).index
             m == pending[i]
  <2>2. i \in 1..Len(pending)
    <3>1. select_next_pending(lost).to # "wait"
      BY <2>1
    <3>2. QED
      BY <3>1, SelectedIndex
  <2>3. UNCHANGED <<processes, owned, metrics, controller, appOf>>
    BY <1>2 DEF DispatchSelected
  <2>4. CASE Refuse(i)
    <3> HIDE DEF i
    <3>1. pending' \in Seq(QueuedTask) /\ phase' \in Phases
      BY <2>2, <2>4, RefuseType
    <3>2. refused' \in BOOLEAN
      BY <2>4 DEF Refuse
    <3>3. UNCHANGED <<table, jobs, view>>
      BY <2>4 DEF Refuse
    <3>4. QED
      BY <2>3, <3>1, <3>2, <3>3 DEF TypeOK, processes, metrics, controller
  <2>5. CASE ~Refuse(i)
    <3>1. PICK c \in choose_placement_with_owned_cpus(m, LegalCpus(m.pid, Mask[m.pid])) :
            /\ table' = [table EXCEPT ![m.pid] = c]
            /\ apply_planned_cpu_assignment(m.pid, c)
            /\ view' = [view EXCEPT ![c].idle = FALSE, ![c].tid = m.pid]
      BY <2>1, <2>5
    <3>2. pending' = RemoveAt(pending, i) /\ UNCHANGED <<phase, refused>>
      BY <2>1, <2>5
    <3> HIDE DEF i
    <3>3. m.pid \in Tids
      <4>1. pending[i] \in QueuedTask
        BY <2>2 DEF TypeOK
      <4>2. QED
        BY <4>1 DEF QueuedTask
    <3> HIDE DEF m
    <3>4. c \in Cpus
      <4>1. c \in LegalCpus(m.pid, Mask[m.pid])
        BY <3>1, PlacementIn
      <4>2. Mask[m.pid] \subseteq Cpus
        BY <3>3, NsdiAssumption
      <4>3. QED
        BY <4>1, <4>2 DEF LegalCpus
    <3>5. table' \in [Tids -> Cpus \cup {NoCpu}]
      BY <3>1, <3>3, <3>4 DEF TypeOK
    <3>6. jobs' \in [Cpus -> SUBSET Tids]
      BY <3>1, <3>3, <3>4 DEF TypeOK, apply_planned_cpu_assignment
    <3>7. view' \in [Cpus -> CpuStateValue]
      <4>1. view[c] \in CpuStateValue
        BY <3>4 DEF TypeOK
      <4>2. [view[c] EXCEPT !.idle = FALSE, !.tid = m.pid] \in CpuStateValue
        BY <3>3, <4>1 DEF CpuStateValue
      <4>3. view' = [view EXCEPT ![c] = [view[c] EXCEPT !.idle = FALSE, !.tid = m.pid]]
        BY <3>1, <3>4 DEF TypeOK
      <4>4. QED
        BY <3>4, <4>2, <4>3 DEF TypeOK
    <3>8. pending' \in Seq(QueuedTask)
      BY <2>2, <3>2, RemoveAtSeq DEF TypeOK
    <3>9. QED
      BY <2>3, <3>2, <3>5, <3>6, <3>7, <3>8 DEF TypeOK, processes, metrics, controller
  <2>6. QED
    BY <2>4, <2>5
<1>3. CASE DropUnreadable
  <2>1. PICK lost \in SUBSET Ended :
          /\ select_next_pending(lost).to = "drop"
          /\ pending' = RemoveAt(pending, select_next_pending(lost).index)
    BY <1>3 DEF DropUnreadable
  <2>2. select_next_pending(lost).index \in 1..Len(pending)
    <3>1. select_next_pending(lost).to # "wait"
      BY <2>1
    <3>2. QED
      BY <3>1, SelectedIndex
  <2>3. pending' \in Seq(QueuedTask)
    BY <2>1, <2>2, RemoveAtSeq DEF TypeOK
  <2>4. QED
    BY <1>3, <2>3 DEF DropUnreadable, TypeOK, processes, metrics, controller, snapshot
<1>4. CASE LeaveWaiting
  BY <1>4 DEF LeaveWaiting, TypeOK, Phases, processes, metrics, controller, snapshot
<1>5. QED
  BY <1>1, <1>2, <1>3, <1>4

\* Processes, time and messages keep the types.
LEMMA DrainType ==
    ASSUME TypeOK,
           \/ launch_workload
           \/ \E p, q \in Tids : Fork(p, q)
           \/ \E p \in Tids : Exit(p)
           \/ \E a \in Apps : sync_now(a)
           \/ Elapse
           \/ \E s \in Senders, c \in Cpus : dequeue_task(s[1], s[2], c)
           \/ notify_complete
    PROVE  TypeOK'
<1>1. CASE launch_workload
  <2>1. alive' \subseteq Tids /\ phase' \in Phases
    BY <1>1, NsdiAssumption DEF launch_workload, TypeOK, Phases
  <2>2. QED
    BY <1>1, <2>1 DEF launch_workload, TypeOK, metrics, controller, snapshot
<1>2. ASSUME NEW p \in Tids, NEW q \in Tids, Fork(p, q) PROVE TypeOK'
  BY <1>2 DEF Fork, TypeOK, metrics, controller, snapshot
<1>3. ASSUME NEW p \in Tids, Exit(p) PROVE TypeOK'
  BY <1>3 DEF Exit, TypeOK, metrics, controller, snapshot
<1>4. ASSUME NEW a \in Apps, sync_now(a) PROVE TypeOK'
  <2>1. Descendants(RootOf[a]) \subseteq Tids
    BY DEF Descendants, TypeOK
  <2>2. known' \in [Apps -> SUBSET Tids]
    BY <1>4, <2>1 DEF sync_now, TypeOK
  <2>3. QED
    BY <1>4, <2>2 DEF sync_now, TypeOK, metrics, controller, snapshot
<1>5. CASE Elapse
  <2>1. ASSUME NEW i \in DOMAIN pending
        PROVE  [pending[i] EXCEPT !.delay = IF @ < MaxDelay THEN @ + 1 ELSE @] \in QueuedTask
    <3>1. pending[i] \in QueuedTask
      BY DEF TypeOK
    <3>2. QED
      BY <3>1, NsdiAssumption DEF QueuedTask
  <2>2. pending' \in Seq(QueuedTask)
    <3>1. pending' = [i \in 1..Len(pending) |->
                        [pending[i] EXCEPT !.delay = IF @ < MaxDelay THEN @ + 1 ELSE @]]
      BY <1>5 DEF Elapse, TypeOK
    <3>2. Len(pending) \in Nat /\ DOMAIN pending = 1..Len(pending)
      BY DEF TypeOK
    <3>3. pending' \in [1..Len(pending) -> QueuedTask]
      BY <2>1, <3>1, <3>2
    <3>4. QED
      BY <3>2, <3>3
  <2>3. since' \in 0..ControlInterval
    BY <1>5, NsdiAssumption DEF Elapse, TypeOK
  <2>4. QED
    BY <1>5, <2>2, <2>3 DEF Elapse, TypeOK, processes, metrics, snapshot
<1>6. ASSUME NEW s \in Senders, NEW c \in Cpus, dequeue_task(s[1], s[2], c) PROVE TypeOK'
  <2>1. s[1] \in Tids /\ s[2] \in {"usersched", "helper", "work"}
    BY NsdiAssumption
  <2>2. [pid |-> s[1], kind |-> s[2], cpu |-> c, delay |-> 0] \in QueuedTask
    BY <2>1, NsdiAssumption DEF QueuedTask
  <2>3. pending' \in Seq(QueuedTask)
    BY <1>6, <2>2 DEF dequeue_task, TypeOK
  <2>4. QED
    BY <1>6, <2>3 DEF dequeue_task, TypeOK, processes, metrics, controller, snapshot
<1>7. CASE notify_complete
  <2>1. view' \in [Cpus -> CpuStateValue]
    BY <1>7 DEF notify_complete, NoView, CpuStateValue
  <2>2. refused' \in BOOLEAN
    BY <1>7 DEF notify_complete
  <2>3. phase' \in Phases /\ alive' \subseteq Tids
    BY <1>7 DEF notify_complete, TypeOK, Phases
  <2>4. pending' \in Seq(QueuedTask)
    BY <1>7 DEF notify_complete, TypeOK
  <2>5. QED
    BY <1>7, <2>1, <2>2, <2>3, <2>4 DEF notify_complete, TypeOK, controller
<1>8. QED
  BY <1>1, <1>2, <1>3, <1>4, <1>5, <1>6, <1>7

\* Every step keeps the types.
LEMMA TypeStep == TypeOK /\ [Next]_vars => TypeOK'
<1> SUFFICES ASSUME TypeOK, [Next]_vars PROVE TypeOK'
  OBVIOUS
<1>1. CASE UNCHANGED vars
  BY <1>1 DEF TypeOK, vars, processes, metrics, controller, snapshot
<1>2. CASE Next
  BY <1>2, BeginPassType, ControlType, DispatchType, DrainType DEF Next
<1>3. QED
  BY <1>1, <1>2

\* The state of the NSDI loop stays well typed: in particular the delays stay
\* naturals, owned CPUs eligible and messages placed on CPUs of the machine.
THEOREM NsdiTypeCorrect == Spec => []TypeOK
<1>1. QED
  BY TypeInit, TypeStep, PTL DEF Spec
-----------------------------------------------------------------------------
(* The controller.                                                         *)

\* While the controller hands CPUs out: every application that could give one up
\* has done so already, and one that has messages and no CPU has not been changed
\* and is still on the list, or no CPU is free; on the list, nobody twice, those
\* without a CPU come first.
GrantInv ==
    phase = "grant" =>
      /\ \A d \in Apps \ changed : MayRelease(d) => choose_revocable_cpu(d) = {}
      /\ \A a \in Apps : count[a] > 0 /\ owned[a] = {} =>
           a \notin changed /\ (a \in ToSet(recipients) \/ free_cpus = {})
      /\ \A i, j \in DOMAIN recipients : i < j =>
           /\ recipients[i] # recipients[j]
           /\ owned[recipients[j]] = {} => owned[recipients[i]] = {}

NsdiInv == TypeOK /\ OwnedOnce /\ GrantInv /\ NeedyServed /\ NothingRunnableLeft

\* The releases leave an application that has messages a CPU, and the list holds
\* every application that has messages and none.
LEMMA ReleaseStep ==
    ASSUME NsdiInv, ReleaseCpus
    PROVE  /\ OwnedOnce' /\ GrantInv'
           /\ \A a \in Apps : owned'[a] \subseteq owned[a]
<1> DEFINE releasing == {a \in Apps : MayRelease(a) /\ choose_revocable_cpu(a) # {}}
           needy == {a \in Apps : count[a] > 0 /\ (owned'[a] = {} \/ ewma[a] > DelayHigh)}
<1>1. PICK cpu \in [releasing -> EligibleCpus] :
        owned' = [a \in Apps |-> IF a \in releasing THEN owned[a] \ {cpu[a]} ELSE owned[a]]
  BY DEF ReleaseCpus
<1>2. changed' = releasing /\ recipients' \in Sorted(needy, owned')
  BY DEF ReleaseCpus
<1>3. UNCHANGED <<count, ewma, view, jobs>>
  BY DEF ReleaseCpus, metrics, snapshot
<1>4. TypeOK /\ OwnedOnce
  BY DEF NsdiInv
<1>5. \A a \in Apps : owned'[a] \subseteq owned[a] /\ (a \notin releasing => owned'[a] = owned[a])
  <2> HIDE DEF releasing
  <2>1. QED
    BY <1>1
<1>6. OwnedOnce'
  BY <1>4, <1>5 DEF OwnedOnce
<1>7. ASSUME NEW d \in Apps \ changed', MayRelease(d)'
      PROVE  (choose_revocable_cpu(d) = {})'
  <2>1. owned'[d] = owned[d] /\ d \notin releasing
    BY <1>2, <1>5, <1>7
  <2>2. MayRelease(d)
    BY <1>3, <1>7, <2>1 DEF MayRelease
  <2>3. choose_revocable_cpu(d) = {}
    BY <2>1, <2>2
  <2>4. choose_revocable_cpu(d)' = choose_revocable_cpu(d)
    BY <1>3, <2>1 DEF choose_revocable_cpu, effectively_idle_cpu, planned_jobs_len
  <2>5. QED
    BY <2>3, <2>4
<1>8. ASSUME NEW a \in Apps, count[a] > 0, owned'[a] = {}
      PROVE  a \notin changed' /\ a \in ToSet(recipients')
  <2>1. a \in needy
    BY <1>8
  <2>2. ToSet(recipients') = needy
    BY <1>2 DEF Sorted
  <2>3. ASSUME a \in releasing PROVE FALSE
    <3>1. owned[a] # {} /\ Cardinality(owned[a]) > 1 /\ IsFiniteSet(owned[a])
      <4>1. IsFiniteSet(owned[a])
        BY <1>4, NsdiAssumption, TopologyAssumption, FS_Subset DEF TypeOK
      <4>2. Cardinality(owned[a]) \in Nat
        BY <4>1, FS_CardinalityType
      <4>3. QED
        BY <1>8, <2>3, <4>1, <4>2 DEF MayRelease
    <3>2. owned[a] = {cpu[a]}
      <4>1. owned[a] \ {cpu[a]} = {}
        BY <1>1, <1>8, <2>3
      <4>2. QED
        BY <3>1, <4>1
    <3>3. Cardinality({cpu[a]}) = 1
      BY FS_Singleton
    <3>4. QED
      BY <3>1, <3>2, <3>3
  <2>4. QED
    BY <1>2, <2>1, <2>2, <2>3
<1>9. ASSUME NEW i \in DOMAIN recipients', NEW j \in DOMAIN recipients', i < j
      PROVE  /\ recipients'[i] # recipients'[j]
             /\ owned'[recipients'[j]] = {} => owned'[recipients'[i]] = {}
  <2>1. Precedes(recipients'[i], recipients'[j], owned')
    BY <1>2, <1>9 DEF Sorted
  <2>2. recipients'[i] \in Apps /\ recipients'[j] \in Apps
    <3>1. recipients' \in [1..Cardinality(needy) -> needy]
      BY <1>2 DEF Sorted
    <3>2. QED
      BY <1>9, <3>1
  <2>3. \A a \in Apps : ewma[a] \in Nat /\ a \in Nat
    BY <1>4, NsdiAssumption, FS_CardinalityType DEF TypeOK
  <2>4. QED
    BY <2>1, <2>2, <2>3 DEF Precedes
<1>10. GrantInv'
  BY <1>3, <1>7, <1>8, <1>9 DEF GrantInv
<1>11. QED
  BY <1>5, <1>6, <1>10

\* A grant: the head of the list takes a free CPU, or nothing happens; there never
\* is a donor.
LEMMA GrantStep ==
    ASSUME NsdiInv, GrantNext
    PROVE  /\ OwnedOnce' /\ GrantInv'
           /\ \A a \in Apps : owned[a] # {} /\ ~(owned'[a] \subseteq owned[a])
                              => ~zero_owned_pending
<1> DEFINE a == Head(recipients)
<1>1. phase = "grant" /\ recipients # <<>> /\ recipients' = Tail(recipients)
  BY DEF GrantNext
<1>2. UNCHANGED <<count, ewma, view, jobs, phase>>
  BY DEF GrantNext, metrics, snapshot
<1>3. TypeOK /\ OwnedOnce /\ GrantInv
  BY DEF NsdiInv
<1>4. /\ \A d \in Apps \ changed : MayRelease(d) => choose_revocable_cpu(d) = {}
      /\ \A b \in Apps : count[b] > 0 /\ owned[b] = {} =>
           b \notin changed /\ (b \in ToSet(recipients) \/ free_cpus = {})
      /\ \A i, j \in DOMAIN recipients : i < j =>
           /\ recipients[i] # recipients[j]
           /\ owned[recipients[j]] = {} => owned[recipients[i]] = {}
  BY <1>1, <1>3 DEF GrantInv
<1>5. Donors(a) = {}
  BY <1>4 DEF Donors
<1>6. /\ a \in Apps /\ a = recipients[1] /\ recipients \in Seq(Apps) /\ Len(recipients) >= 1
      /\ recipients' \in Seq(Apps) /\ Len(recipients') = Len(recipients) - 1
      /\ \A i \in 1..Len(recipients') : recipients'[i] = recipients[i + 1]
  BY <1>1, <1>3 DEF TypeOK
<1>7. ASSUME NEW b \in Apps, b \in ToSet(recipients), b # a
      PROVE  b \in ToSet(recipients')
  <2>1. PICK j \in 1..Len(recipients) : recipients[j] = b
    BY <1>6, <1>7 DEF ToSet
  <2>2. j # 1 /\ j - 1 \in 1..Len(recipients') /\ recipients'[j - 1] = b
    BY <1>6, <1>7, <2>1
  <2>3. QED
    BY <1>6, <2>2 DEF ToSet
<1>8. ASSUME NEW i \in DOMAIN recipients', NEW j \in DOMAIN recipients', i < j
      PROVE  /\ recipients'[i] # recipients'[j] /\ recipients'[i] # a /\ recipients'[j] # a
             /\ recipients'[i] \in Apps /\ recipients'[j] \in Apps
             /\ owned[recipients'[j]] = {} => owned[recipients'[i]] = {}
  <2>1. /\ i + 1 \in DOMAIN recipients /\ j + 1 \in DOMAIN recipients /\ i + 1 < j + 1
        /\ 1 \in DOMAIN recipients /\ 1 < i + 1 /\ 1 < j + 1
    BY <1>6, <1>8
  <2>2. recipients'[i] = recipients[i + 1] /\ recipients'[j] = recipients[j + 1]
    BY <1>6, <1>8
  <2>3. QED
    BY <1>4, <1>6, <2>1, <2>2
<1> HIDE DEF a
<1>9. \A d \in Apps : owned'[d] = owned[d] =>
        /\ MayRelease(d)' <=> MayRelease(d)
        /\ choose_revocable_cpu(d)' = choose_revocable_cpu(d)
  BY <1>2 DEF MayRelease, choose_revocable_cpu, effectively_idle_cpu, planned_jobs_len
<1>10. CASE a \in changed \/ free_cpus = {}
  <2>1. UNCHANGED <<owned, changed>>
    BY <1>5, <1>10 DEF GrantNext, a
  <2>2. OwnedOnce' /\ free_cpus' = free_cpus
    BY <1>3, <2>1 DEF OwnedOnce, free_cpus
  <2>3. ASSUME NEW b \in Apps, count[b] > 0, owned[b] = {}
        PROVE  b \notin changed /\ (b \in ToSet(recipients') \/ free_cpus = {})
    BY <1>4, <1>7, <1>10, <2>3
  <2>4. GrantInv'
    BY <1>2, <1>4, <1>8, <1>9, <2>1, <2>2, <2>3 DEF GrantInv
  <2>5. QED
    BY <2>1, <2>2, <2>4
<1>11. CASE a \notin changed /\ free_cpus # {}
  <2>1. /\ owned' = [owned EXCEPT ![a] = @ \cup {Min(free_cpus)}]
        /\ changed' = changed \cup {a}
    BY <1>5, <1>11 DEF GrantNext, a
  <2>2. Min(free_cpus) \in free_cpus
    <3>1. free_cpus \in SUBSET Nat
      BY NsdiAssumption, TopologyAssumption DEF free_cpus
    <3>2. QED
      BY <1>11, <3>1, MinIn
  <2> DEFINE c == Min(free_cpus)
  <2> HIDE DEF c
  <2>3. /\ owned'[a] = owned[a] \cup {c}
        /\ \A b \in Apps : b # a => owned'[b] = owned[b]
    BY <1>3, <1>6, <2>1 DEF TypeOK, c
  <2>4. \A b \in Apps : c \notin owned[b]
    BY <2>2 DEF free_cpus, c
  <2>5. OwnedOnce'
    BY <1>3, <2>3, <2>4 DEF OwnedOnce
  <2>6. ASSUME NEW d \in Apps \ changed', MayRelease(d)'
        PROVE  (choose_revocable_cpu(d) = {})'
    BY <1>4, <1>9, <2>1, <2>3, <2>6
  <2>7. ASSUME NEW b \in Apps, count[b] > 0, owned'[b] = {}
        PROVE  b \notin changed' /\ b \in ToSet(recipients')
    BY <1>4, <1>7, <1>11, <2>1, <2>3, <2>7
  <2>8. ASSUME NEW i \in DOMAIN recipients', NEW j \in DOMAIN recipients', i < j
        PROVE  /\ recipients'[i] # recipients'[j]
               /\ owned'[recipients'[j]] = {} => owned'[recipients'[i]] = {}
    BY <1>8, <2>3, <2>8
  <2>9. GrantInv'
    BY <1>2, <2>6, <2>7, <2>8 DEF GrantInv
  <2>10. ASSUME owned[a] # {}, NEW b \in Apps, count[b] > 0, owned[b] = {}
         PROVE  FALSE
    <3>1. b \in ToSet(recipients)
      BY <1>4, <1>11, <2>10
    <3>2. PICK j \in 1..Len(recipients) : recipients[j] = b
      BY <1>6, <3>1 DEF ToSet
    <3>3. j # 1
      BY <1>6, <2>10, <3>2
    <3>4. 1 \in DOMAIN recipients /\ j \in DOMAIN recipients /\ 1 < j
      BY <1>6, <3>2, <3>3
    <3>5. QED
      BY <1>4, <1>6, <2>10, <3>2, <3>4
  <2>11. QED
    BY <2>3, <2>5, <2>9, <2>10 DEF zero_owned_pending
<1>12. QED
  BY <1>10, <1>11

\* A pass that ends for want of a message to send leaves none it could send.
LEMMA WaitStep ==
    ASSUME TypeOK, LeaveWaiting
    PROVE  NothingRunnableLeft'
<1>1. PICK lost \in SUBSET Ended : select_next_pending(lost).to = "wait"
  BY DEF LeaveWaiting
<1> DEFINE allowed == allowed_cpus(lost)
           runnable == {i \in 1..Len(pending) :
                          LegalCpus(pending[i].pid, allowed[pending[i].pid]) # {}}
           unread == {i \in 1..Len(pending) : allowed[pending[i].pid] = {}}
<1>2. runnable = {} /\ unread = {}
  <2>1. select_next_pending(lost) =
          IF runnable # {} THEN [to |-> "run", index |-> Min(runnable)]
          ELSE IF unread # {} THEN [to |-> "drop", index |-> Min(unread)]
          ELSE [to |-> "wait", index |-> 0]
    BY DEF select_next_pending
  <2> HIDE DEF runnable, unread
  <2>2. QED
    BY <1>1, <2>1
<1>3. ASSUME NEW i \in 1..Len(pending)
      PROVE  /\ pending[i].kind = "work"
             /\ LegalCpus(pending[i].pid, Mask[pending[i].pid]) = {}
  <2>1. pending[i] \in QueuedTask
    BY DEF TypeOK
  <2>2. pending[i].pid \in Tids /\ pending[i].kind \in {"usersched", "helper", "work"}
    BY <2>1 DEF QueuedTask
  <2>3. pending[i].kind # "usersched" /\ pending[i].kind # "helper"
    BY FirstOfIndex DEF LeaveWaiting, Selecting
  <2>4. allowed[pending[i].pid] # {} /\ LegalCpus(pending[i].pid, allowed[pending[i].pid]) = {}
    BY <1>2
  <2>5. allowed[pending[i].pid] = IF pending[i].pid \in lost THEN {} ELSE Mask[pending[i].pid]
    BY <2>2 DEF allowed_cpus
  <2>6. allowed[pending[i].pid] = Mask[pending[i].pid]
    BY <2>4, <2>5
  <2>7. QED
    BY <2>2, <2>3, <2>4, <2>6
<1>4. UNCHANGED <<pending, appOf, owned>>
  BY DEF LeaveWaiting, snapshot
<1>5. QED
  BY <1>3, <1>4 DEF NothingRunnableLeft, LegalCpus
\* The invariant holds at the start.
LEMMA NsdiInit == Init => NsdiInv
<1> SUFFICES ASSUME Init PROVE NsdiInv
  OBVIOUS
<1>1. OwnedOnce
  <2>1. CASE policy = "Static" /\ Apps # {}
    BY <2>1, PartitionDisjoint DEF Init, OwnedOnce
  <2>2. CASE ~(policy = "Static" /\ Apps # {})
    BY <2>2 DEF Init, OwnedOnce
  <2>3. QED
    BY <2>1, <2>2
<1>2. phase = "launch"
  BY DEF Init
<1>3. QED
  BY <1>1, <1>2, TypeInit DEF NsdiInv, GrantInv, NeedyServed, NothingRunnableLeft

\* Every step keeps the invariant, and gives no CPU past an application that has
\* messages and none.
LEMMA NsdiStep ==
    ASSUME NsdiInv, [Next]_vars
    PROVE  /\ NsdiInv'
           /\ \A a \in Apps : owned[a] # {} /\ ~(owned'[a] \subseteq owned[a])
                              => ~zero_owned_pending
<1> DEFINE Fair == \A a \in Apps : owned[a] # {} /\ ~(owned'[a] \subseteq owned[a])
                                   => ~zero_owned_pending
<1>1. TypeOK /\ OwnedOnce /\ GrantInv /\ NeedyServed /\ NothingRunnableLeft
  BY DEF NsdiInv
<1>2. TypeOK'
  BY <1>1, TypeStep
<1>3. ASSUME UNCHANGED owned PROVE OwnedOnce' /\ Fair
  BY <1>1, <1>3 DEF OwnedOnce
<1>4. ASSUME phase' \notin {"grant", "dispatch", "complete"}
      PROVE  GrantInv' /\ NeedyServed' /\ NothingRunnableLeft'
  BY <1>4 DEF GrantInv, NeedyServed, NothingRunnableLeft
<1>5. ASSUME phase = "dispatch", UNCHANGED <<owned, count, policy>>, phase' = "dispatch"
      PROVE  GrantInv' /\ NeedyServed' /\ NothingRunnableLeft'
  BY <1>1, <1>5
  DEF GrantInv, NeedyServed, NothingRunnableLeft, zero_owned_pending, free_cpus
<1>6. ASSUME phase' = "complete", refused' = TRUE
      PROVE  GrantInv' /\ NeedyServed' /\ NothingRunnableLeft'
  BY <1>6, Zenon DEF GrantInv, NeedyServed, NothingRunnableLeft
<1> HIDE DEF Fair
<1>7. CASE launch_workload
  BY <1>2, <1>3, <1>4, <1>7 DEF launch_workload, NsdiInv, Fair
<1>8. CASE \E p, q \in Tids : Fork(p, q)
  BY <1>2, <1>3, <1>4, <1>8 DEF Fork, NsdiInv, Fair
<1>9. CASE \E p \in Tids : Exit(p)
  BY <1>2, <1>3, <1>4, <1>9 DEF Exit, NsdiInv, Fair
<1>10. CASE \E a \in Apps : sync_now(a)
  BY <1>2, <1>3, <1>4, <1>10 DEF sync_now, NsdiInv, Fair
<1>11. CASE Elapse
  BY <1>2, <1>3, <1>4, <1>11 DEF Elapse, NsdiInv, Fair
<1>12. CASE \E s \in Senders, c \in Cpus : dequeue_task(s[1], s[2], c)
  BY <1>2, <1>3, <1>4, <1>12 DEF dequeue_task, NsdiInv, Fair
<1>13. CASE BeginPass
  BY <1>2, <1>3, <1>4, <1>13 DEF BeginPass, NsdiInv, Fair
<1>14. CASE ReleaseCpus
  <2>1. /\ OwnedOnce' /\ GrantInv'
        /\ \A a \in Apps : owned'[a] \subseteq owned[a]
    BY <1>14, ReleaseStep
  <2>2. phase' = "grant"
    BY <1>14 DEF ReleaseCpus
  <2>3. QED
    BY <1>2, <2>1, <2>2 DEF NsdiInv, NeedyServed, NothingRunnableLeft, Fair
<1>15. CASE SkipControl
  <2>1. /\ phase' = "dispatch" /\ ~ControlDue /\ UNCHANGED <<owned, count, policy>>
    BY <1>15 DEF SkipControl, metrics
  <2>2. NeedyServed'
    BY <2>1 DEF NeedyServed, ControlDue, zero_owned_pending
  <2>3. QED
    BY <1>2, <1>3, <2>1, <2>2 DEF NsdiInv, GrantInv, NothingRunnableLeft, Fair
<1>16. CASE GrantNext
  <2>1. OwnedOnce' /\ GrantInv' /\ Fair
    BY <1>16, GrantStep DEF Fair
  <2>2. phase' = "grant"
    BY <1>16 DEF GrantNext
  <2>3. QED
    BY <1>2, <2>1, <2>2 DEF NsdiInv, NeedyServed, NothingRunnableLeft, Fair
<1>17. CASE EndControl
  <2>1. /\ phase = "grant" /\ recipients = <<>> /\ phase' = "dispatch"
        /\ UNCHANGED <<owned, count, policy>>
    BY <1>17 DEF EndControl, metrics
  <2>2. ToSet(recipients) = {}
    BY <2>1 DEF ToSet
  <2>3. zero_owned_pending => free_cpus = {}
    BY <1>1, <2>1, <2>2 DEF GrantInv, zero_owned_pending
  <2>4. NeedyServed'
    BY <2>1, <2>3 DEF NeedyServed, zero_owned_pending, free_cpus
  <2>5. QED
    BY <1>2, <1>3, <2>1, <2>4 DEF NsdiInv, GrantInv, NothingRunnableLeft, Fair
<1>18. CASE \E kind \in {"usersched", "helper"} : DispatchFirst(kind)
  <2>1. PICK kind \in {"usersched", "helper"} : DispatchFirst(kind)
    BY <1>18
  <2>2. phase = "dispatch" /\ UNCHANGED <<owned, count, policy>>
    BY <2>1 DEF DispatchFirst, metrics
  <2>3. \/ phase' = "complete" /\ refused' = TRUE
        \/ phase' = "dispatch"
    BY <2>1 DEF DispatchFirst, Refuse
  <2>4. QED
    BY <1>2, <1>3, <1>5, <1>6, <2>2, <2>3 DEF NsdiInv, Fair
<1>19. CASE DispatchSelected
  <2>1. phase = "dispatch" /\ UNCHANGED <<owned, count, policy>>
    BY <1>19 DEF DispatchSelected, Selecting, metrics
  <2>2. \/ phase' = "complete" /\ refused' = TRUE
        \/ phase' = "dispatch"
    BY <1>19 DEF DispatchSelected, Selecting, Refuse
  <2>3. QED
    BY <1>2, <1>3, <1>5, <1>6, <2>1, <2>2 DEF NsdiInv, Fair
<1>20. CASE DropUnreadable
  <2>1. phase = "dispatch" /\ UNCHANGED <<owned, count, policy>> /\ phase' = "dispatch"
    BY <1>20 DEF DropUnreadable, Selecting, metrics
  <2>2. QED
    BY <1>2, <1>3, <1>5, <2>1 DEF NsdiInv, Fair
<1>21. CASE LeaveWaiting
  <2>1. phase' = "complete" /\ UNCHANGED owned
    BY <1>21 DEF LeaveWaiting
  <2>2. NothingRunnableLeft'
    BY <1>1, <1>21, WaitStep
  <2>3. QED
    BY <1>2, <1>3, <2>1, <2>2 DEF NsdiInv, GrantInv, NeedyServed, Fair
<1>22. CASE notify_complete
  <2>1. phase' \in {"ended", "drain"} /\ UNCHANGED owned
    BY <1>22 DEF notify_complete
  <2>2. QED
    BY <1>2, <1>3, <1>4, <2>1 DEF NsdiInv, Fair
<1>23. CASE UNCHANGED vars
  <2>1. UNCHANGED <<phase, pending, owned, policy, count, ewma, recipients, changed, appOf,
                    view, jobs, refused>>
    BY <1>23 DEF vars, metrics, controller, snapshot
  <2>2. GrantInv'
    BY <1>1, <2>1
    DEF GrantInv, MayRelease, choose_revocable_cpu, effectively_idle_cpu, planned_jobs_len,
        free_cpus
  <2>3. NeedyServed'
    BY <1>1, <2>1 DEF NeedyServed, zero_owned_pending, free_cpus
  <2>4. NothingRunnableLeft'
    BY <1>1, <2>1 DEF NothingRunnableLeft, LegalCpus
  <2>5. QED
    BY <1>2, <1>3, <2>1, <2>2, <2>3, <2>4 DEF NsdiInv, Fair
<1>24. QED
  BY <1>7, <1>8, <1>9, <1>10, <1>11, <1>12, <1>13, <1>14, <1>15, <1>16, <1>17, <1>18,
     <1>19, <1>20, <1>21, <1>22, <1>23
  DEF Next, Fair

\* NsdiInv is an invariant of the loop.
LEMMA NsdiInvariance == Spec => []NsdiInv
<1>1. NsdiInv /\ [Next]_vars => NsdiInv'
  BY NsdiStep
<1>2. QED
  BY <1>1, NsdiInit, PTL DEF Spec

\* No CPU is ever owned by two applications: neither by the static partition nor
\* by the controller's releases and grants.
THEOREM OwnedOnceCorrect == Spec => []OwnedOnce
<1>1. NsdiInv => OwnedOnce
  BY DEF NsdiInv
<1>2. QED
  BY <1>1, NsdiInvariance, PTL

\* When messages are sent, an application that has some and no CPU finds none free.
THEOREM NeedyCorrect == Spec => []NeedyServed
<1>1. NsdiInv => NeedyServed
  BY DEF NsdiInv
<1>2. QED
  BY <1>1, NsdiInvariance, PTL

\* No application with a CPU gets another while one with messages has none.
THEOREM NeediestCorrect == Spec => NeediestFirst
<1>1. NsdiInv /\ [Next]_vars =>
        \A a \in Apps : owned[a] # {} /\ ~(owned'[a] \subseteq owned[a]) => ~zero_owned_pending
  BY NsdiStep
<1>2. QED
  BY <1>1, NsdiInvariance, PTL DEF Spec, NeediestFirst

\* A pass that was refused no dispatch leaves no message it could have sent.
THEOREM RunnableCorrect == Spec => []NothingRunnableLeft
<1>1. NsdiInv => NothingRunnableLeft
  BY DEF NsdiInv
<1>2. QED
  BY <1>1, NsdiInvariance, PTL
\* The controller never takes a CPU from a donor: whoever could give one up has
\* done so among the releases, so the transfer branch of the code is never taken.
THEOREM NoDonor == Spec => [](phase = "grant" => \A a \in Apps : Donors(a) = {})
<1>1. NsdiInv => (phase = "grant" => \A a \in Apps : Donors(a) = {})
  BY DEF NsdiInv, GrantInv, Donors
<1>2. QED
  BY <1>1, NsdiInvariance, PTL
=============================================================================
