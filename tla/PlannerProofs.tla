---------------------------- MODULE PlannerProofs ----------------------------
(***************************************************************************)
(* Proofs about PlanTargets and about Planner, which ends in it: a finished *)
(* plan gives every thread a legal CPU, shares no CPU without need and     *)
(* moves no thread without need or to a domain that is closed to it, for   *)
(* every number of threads, CPUs and domains.                              *)
(***************************************************************************)
EXTENDS Planner, FiniteSetTheorems, WellFoundedInduction, TLAPS

(* Candidates are CPUs of the target domain.                                *)
LEMMA CandidateDomain ==
    ASSUME TypeOK, NEW t \in Tids, NEW c \in candidate_cpus_for_plan_target(t)
    PROVE  c \in Cpus /\ DomainOf[c] = domain[t]
  BY DEF TypeOK, candidate_cpus_for_plan_target, InDomain

(* A set with more than one element has one beside any given element.       *)
LEMMA AnotherElement ==
    ASSUME NEW S, NEW x \in S, Cardinality(S) > 1
    PROVE  \E y \in S : y # x
<1>1. SUFFICES ASSUME \A y \in S : y = x PROVE FALSE
  OBVIOUS
<1>2. S = {x}
  BY <1>1
<1>3. Cardinality(S) = 1
  BY <1>2, FS_Singleton
<1> QED
  BY <1>3

(* Two different elements make more than one.                               *)
LEMMA TwoElements ==
    ASSUME NEW S, IsFiniteSet(S), NEW x \in S, S # {x}
    PROVE  Cardinality(S) > 1
<1>1. PICK y \in S : y # x
  OBVIOUS
<1>2. IsFiniteSet(S \ {x}) /\ Cardinality(S \ {x}) = Cardinality(S) - 1
  BY FS_RemoveElement
<1>3. Cardinality(S) \in Nat /\ Cardinality(S \ {x}) \in Nat
  BY <1>2, FS_CardinalityType
<1>4. Cardinality(S \ {x}) # 0
  BY <1>1, <1>2, FS_EmptySet
<1> QED
  BY <1>2, <1>3, <1>4

-----------------------------------------------------------------------------

(* What holds before the end: entries still to be assigned have no CPU, the *)
(* repair has not begun before all are assigned, a domain that was repaired *)
(* stays so, and a thread whose CPU was taken lost it to another one.       *)
TargetDomains == {domain[t] : t \in Tids}

Unassigned ==
    /\ \A t \in todo : target[t] = NoCpu
    /\ todo # {} => repairing = TargetDomains

SharedInNeed(t) ==
    \A c \in Cpus : t \in loads[c] /\ loads[c] # {t} =>
        \A e \in candidate_cpus_for_plan_target(t) : loads[e] # {}

DomainsRepaired == \A t \in Tids : domain[t] \notin repairing => SharedInNeed(t)

KeepsOrTaken(t) ==
    previous[t] \in candidate_cpus_for_plan_target(t) =>
        target[t] = previous[t] \/ \E u \in loads[previous[t]] : u # t

Sticky == \A t \in Tids \ todo : KeepsOrTaken(t)

IInv ==
    /\ TypeOK
    /\ LoadsExact
    /\ TargetLegal
    /\ Unassigned
    /\ DomainsRepaired
    /\ Sticky

LEMMA InitIInv == Init => IInv
<1> SUFFICES ASSUME Init PROVE IInv
  OBVIOUS
<1> USE PlanAssumption
<1>1. TypeOK
  <2>1. domain \in [Tids -> Domains] /\ repairing = {domain[t] : t \in Tids}
    BY DEF Init
  <2>4. repairing \in SUBSET Domains
    BY <2>1
  <2>2. allowed \in [Tids -> SUBSET Cpus]
    BY DEF Init
  <2>5. active \in SUBSET Tids
    BY DEF Init
  <2>3. previous \in [Tids -> Cpus \cup {NoCpu}] /\ recent \in [Tids -> Cpus \cup {NoCpu}]
    BY DEF Init
  <2> QED
    BY <2>1, <2>2, <2>3, <2>4, <2>5 DEF Init, TypeOK
<1>2. LoadsExact /\ TargetLegal
  BY DEF Init, LoadsExact, TargetLegal, NoCpu
<1>3. Unassigned
  BY DEF Init, Unassigned, TargetDomains
<1>4. DomainsRepaired
  BY DEF Init, DomainsRepaired
<1>5. Sticky
  <2> SUFFICES ASSUME NEW t \in Tids \ todo,
                      previous[t] \in candidate_cpus_for_plan_target(t)
               PROVE  FALSE
    BY DEF Sticky, KeepsOrTaken
  <2> QED
    BY DEF Init
<1> QED
  BY <1>1, <1>2, <1>3, <1>4, <1>5 DEF IInv

(* The steps leave the snapshot alone, and with it the candidates.          *)
LEMMA SameCandidates ==
    ASSUME UNCHANGED inputs
    PROVE  /\ \A t : candidate_cpus_for_plan_target(t)' = candidate_cpus_for_plan_target(t)
           /\ TargetDomains' = TargetDomains
  BY DEF inputs, candidate_cpus_for_plan_target, InDomain, TargetDomains

LEMMA AssignIInv ==
    ASSUME IInv, NEW t \in Tids, AssignCpu(t)
    PROVE  IInv'
<1> USE PlanAssumption
<1>1. PICK c \in candidate_cpus_for_plan_target(t) :
        /\ SelectedCpu(t, c)
        /\ target' = [target EXCEPT ![t] = c]
        /\ loads' = [loads EXCEPT ![c] = IF t \in active THEN @ \cup {t} ELSE @]
  BY DEF AssignCpu
<1>2. /\ UNCHANGED inputs /\ repairing' = repairing
      /\ t \in todo /\ todo' = todo \ {t}
  BY DEF AssignCpu
<1>3. \A u : candidate_cpus_for_plan_target(u)' = candidate_cpus_for_plan_target(u)
  BY <1>2, SameCandidates
<1>4. c \in Cpus
  BY CandidateDomain DEF IInv
<1>5. target[t] = NoCpu /\ NoCpu \notin Cpus
  BY <1>2 DEF IInv, Unassigned, NoCpu
<1>6. TypeOK'
  BY <1>1, <1>2, <1>4 DEF IInv, TypeOK, inputs
<1>7. LoadsExact'
  BY <1>1, <1>2, <1>4, <1>5 DEF IInv, TypeOK, LoadsExact, inputs
<1>8. TargetLegal'
  BY <1>1, <1>3 DEF IInv, TypeOK, TargetLegal
<1>9. Unassigned'
  BY <1>1, <1>2, SameCandidates DEF IInv, TypeOK, Unassigned
<1>10. DomainsRepaired'
  BY <1>2 DEF IInv, Unassigned, DomainsRepaired, TargetDomains, inputs
<1>11. Sticky'
  <2> SUFFICES ASSUME NEW u \in Tids \ todo',
                      previous[u] \in candidate_cpus_for_plan_target(u)
               PROVE  target'[u] = previous[u] \/ \E v \in loads'[previous[u]] : v # u
    BY <1>2, <1>3 DEF Sticky, KeepsOrTaken, inputs
  <2>1. CASE u = t
    BY <2>1, <1>1 DEF SelectedCpu, IInv, TypeOK
  <2>2. CASE u # t
    <3>1. target[u] = previous[u] \/ \E v \in loads[previous[u]] : v # u
      BY <2>2, <1>2 DEF IInv, Sticky, KeepsOrTaken
    <3>2. previous[u] \in Cpus
      BY CandidateDomain DEF IInv
    <3>3. loads[previous[u]] \subseteq loads'[previous[u]]
      BY <1>1, <3>2 DEF IInv, TypeOK
    <3> QED
      BY <3>1, <3>3, <2>2, <1>1 DEF IInv, TypeOK
  <2> QED
    BY <2>1, <2>2
<1> QED
  BY <1>6, <1>7, <1>8, <1>9, <1>10, <1>11 DEF IInv

LEMMA RepairIInv ==
    ASSUME IInv, NEW d \in Domains, Repair(d)
    PROVE  IInv'
<1> USE PlanAssumption
<1>1. PICK r \in Repairs(d) :
        /\ target' = [target EXCEPT ![r[3]] = r[1]]
        /\ loads' = [loads EXCEPT ![r[2]] = @ \ {r[3]}, ![r[1]] = @ \cup {r[3]}]
  BY DEF Repair
<1> DEFINE free == r[1]
           shared == r[2]
           t == r[3]
<1>2. /\ UNCHANGED inputs /\ repairing' = repairing
      /\ todo = {} /\ todo' = todo /\ d \in repairing
  BY DEF Repair, FirstDomain
<1>3. \A u : candidate_cpus_for_plan_target(u)' = candidate_cpus_for_plan_target(u)
  BY <1>2, SameCandidates
<1>4. /\ t \in Tids /\ t \in loads[shared] /\ free \in candidate_cpus_for_plan_target(t)
      /\ shared \in Cpus /\ DomainOf[shared] = d /\ Cardinality(loads[shared]) > 1
      /\ loads[free] = {}
  BY DEF Repairs, FreeCpus, SharedCpus, InDomain
<1>0. /\ target' = [target EXCEPT ![t] = free]
      /\ loads' = [loads EXCEPT ![shared] = @ \ {t}, ![free] = @ \cup {t}]
  BY <1>1
<1> HIDE DEF free, shared, t
<1>5. free \in Cpus /\ DomainOf[free] = domain[t] /\ free # shared
  BY <1>4, CandidateDomain DEF IInv
<1>6. target[t] = shared /\ t \in active
  BY <1>4 DEF IInv, LoadsExact
<1>7. domain[t] = d
  <2>1. target[t] # NoCpu
    BY <1>4, <1>6 DEF NoCpu
  <2>2. shared \in candidate_cpus_for_plan_target(t)
    BY <1>4, <1>6, <2>1 DEF IInv, TargetLegal
  <2> QED
    BY <2>2, <1>4, CandidateDomain DEF IInv
<1>8. /\ loads'[shared] = loads[shared] \ {t}
      /\ loads'[free] = {t}
      /\ \A c \in Cpus \ {free, shared} : loads'[c] = loads[c]
  BY <1>0, <1>4, <1>5 DEF IInv, TypeOK
<1>9. target'[t] = free /\ \A u \in Tids \ {t} : target'[u] = target[u]
  BY <1>0, <1>4 DEF IInv, TypeOK
<1>10. PICK w \in loads[shared] : w # t
  BY <1>4, AnotherElement
<1>11. TypeOK'
  BY <1>0, <1>2, <1>4, <1>5 DEF IInv, TypeOK, inputs
<1>12. LoadsExact'
  <2> SUFFICES ASSUME NEW u \in Tids, NEW c \in Cpus
               PROVE  u \in loads'[c] <=> u \in active /\ target'[u] = c
    BY <1>2 DEF LoadsExact, inputs
  <2>1. u \in loads[c] <=> u \in active /\ target[u] = c
    BY DEF IInv, LoadsExact
  <2>2. u \in loads[free] <=> u \in active /\ target[u] = free
    BY <1>5 DEF IInv, LoadsExact
  <2> QED
    BY <2>1, <2>2, <1>4, <1>5, <1>6, <1>8, <1>9
<1>13. TargetLegal'
  BY <1>3, <1>4, <1>9 DEF IInv, TargetLegal
<1>14. Unassigned'
  BY <1>2 DEF Unassigned
<1>15. DomainsRepaired'
  <2> SUFFICES ASSUME NEW u \in Tids, domain[u] \notin repairing, NEW c \in Cpus,
                      u \in loads'[c], loads'[c] # {u},
                      NEW e \in candidate_cpus_for_plan_target(u)
               PROVE  loads'[e] # {}
    BY <1>2, <1>3 DEF DomainsRepaired, SharedInNeed, inputs
  <2>1. domain[u] # d
    BY <1>2
  <2>2. e \in Cpus /\ DomainOf[e] = domain[u]
    BY CandidateDomain DEF IInv
  <2>3. loads'[e] = loads[e]
    BY <2>1, <2>2, <1>4, <1>5, <1>7, <1>8
  <2>4. u # t
    BY <2>1, <1>7
  <2>5. target[u] = c
    BY <1>2, <1>9, <1>12, <2>4 DEF LoadsExact, inputs
  <2>6. c \in candidate_cpus_for_plan_target(u)
    <3>1. target[u] # NoCpu
      BY <2>5 DEF NoCpu
    <3> QED
      BY <2>5, <3>1 DEF IInv, TargetLegal
  <2>7. DomainOf[c] = domain[u]
    BY <2>6, CandidateDomain DEF IInv
  <2>8. loads'[c] = loads[c]
    BY <2>1, <2>7, <1>4, <1>5, <1>7, <1>8
  <2> QED
    BY <2>3, <2>8 DEF IInv, DomainsRepaired, SharedInNeed
<1>16. Sticky'
  <2> SUFFICES ASSUME NEW u \in Tids,
                      previous[u] \in candidate_cpus_for_plan_target(u)
               PROVE  target'[u] = previous[u] \/ \E v \in loads'[previous[u]] : v # u
    BY <1>2, <1>3 DEF Sticky, KeepsOrTaken, inputs
  <2>1. target[u] = previous[u] \/ \E v \in loads[previous[u]] : v # u
    <3>1. u \in Tids \ todo
      BY <1>2
    <3> QED
      BY <3>1 DEF IInv, Sticky, KeepsOrTaken
  <2>2. previous[u] \in Cpus
    BY CandidateDomain DEF IInv
  <2>3. w \in loads'[shared]
    BY <1>8, <1>10
  <2>4. CASE u = t
    <3>1. CASE previous[u] = shared
      BY <3>1, <2>3, <2>4, <1>10
    <3>2. CASE previous[u] = free
      BY <3>2, <2>4, <1>9
    <3>3. CASE previous[u] \notin {free, shared}
      BY <3>3, <2>1, <2>2, <2>4, <1>6, <1>8
    <3> QED
      BY <3>1, <3>2, <3>3
  <2>5. CASE u # t
    <3>1. CASE target[u] = previous[u]
      BY <3>1, <2>5, <1>9
    <3>2. CASE target[u] # previous[u] /\ previous[u] = shared
      <4>1. u \notin loads[shared]
        BY <3>2, <1>4 DEF IInv, LoadsExact
      <4> QED
        BY <4>1, <3>2, <2>3, <1>10
    <3>3. CASE target[u] # previous[u] /\ previous[u] = free
      BY <3>3, <2>5, <1>8
    <3>4. CASE target[u] # previous[u] /\ previous[u] \notin {free, shared}
      BY <3>4, <2>1, <2>2, <1>8
    <3> QED
      BY <3>1, <3>2, <3>3, <3>4
  <2> QED
    BY <2>4, <2>5
<1> QED
  BY <1>11, <1>12, <1>13, <1>14, <1>15, <1>16 DEF IInv

LEMMA DomainRepairedIInv ==
    ASSUME IInv, NEW d \in Domains, DomainRepaired(d)
    PROVE  IInv'
<1> USE PlanAssumption
<1>1. /\ UNCHANGED <<inputs, todo, target, loads>>
      /\ todo = {} /\ Repairs(d) = {} /\ repairing' = repairing \ {d}
  BY DEF DomainRepaired
<1>2. \A u : candidate_cpus_for_plan_target(u)' = candidate_cpus_for_plan_target(u)
  BY <1>1, SameCandidates
<1>3. TypeOK' /\ LoadsExact' /\ TargetLegal' /\ Unassigned'
  BY <1>1, <1>2 DEF IInv, TypeOK, LoadsExact, TargetLegal, Unassigned, inputs
<1>4. Sticky'
  BY <1>1, <1>2 DEF IInv, Sticky, KeepsOrTaken, inputs
<1>5. DomainsRepaired'
  <2> SUFFICES ASSUME NEW u \in Tids, domain[u] \notin repairing \ {d}, NEW c \in Cpus,
                      u \in loads[c], loads[c] # {u},
                      NEW e \in candidate_cpus_for_plan_target(u)
               PROVE  loads[e] # {}
    BY <1>1, <1>2 DEF DomainsRepaired, SharedInNeed, inputs
  <2>1. CASE domain[u] \notin repairing
    BY <2>1 DEF IInv, DomainsRepaired, SharedInNeed
  <2>2. CASE domain[u] = d
    <3>1. target[u] = c
      BY DEF IInv, LoadsExact
    <3>2. c \in candidate_cpus_for_plan_target(u)
      <4>1. target[u] # NoCpu
        BY <3>1 DEF NoCpu
      <4> QED
        BY <3>1, <4>1 DEF IInv, TargetLegal
    <3>3. DomainOf[c] = d
      BY <3>2, <2>2, CandidateDomain DEF IInv
    <3>4. IsFiniteSet(loads[c])
      BY FS_Subset DEF IInv, TypeOK
    <3>5. c \in SharedCpus(d)
      BY <3>3, <3>4, TwoElements DEF SharedCpus, InDomain
    <3>6. ASSUME loads[e] = {} PROVE FALSE
      <4>1. e \in FreeCpus(d)
        BY <3>6, <2>2 DEF FreeCpus
      <4>2. <<e, c, u>> \in Repairs(d)
        BY <4>1, <3>5 DEF Repairs
      <4> QED
        BY <4>2, <1>1
    <3> QED
      BY <3>6
  <2> QED
    BY <2>1, <2>2
<1> QED
  BY <1>3, <1>4, <1>5 DEF IInv

LEMMA NextIInv == IInv /\ [Next]_vars => IInv'
<1> SUFFICES ASSUME IInv, [Next]_vars PROVE IInv'
  OBVIOUS
<1>1. CASE UNCHANGED vars
  BY <1>1 DEF vars, inputs, IInv, TypeOK, LoadsExact, TargetLegal, Unassigned,
     DomainsRepaired, SharedInNeed, Sticky, KeepsOrTaken, TargetDomains,
     candidate_cpus_for_plan_target, InDomain
<1>2. ASSUME NEW t \in Tids, AssignCpu(t) PROVE IInv'
  BY <1>2, AssignIInv
<1>3. ASSUME NEW d \in Domains, Repair(d) PROVE IInv'
  BY <1>3, RepairIInv
<1>4. ASSUME NEW d \in Domains, DomainRepaired(d) PROVE IInv'
  BY <1>4, DomainRepairedIInv
<1> QED
  BY <1>1, <1>2, <1>3, <1>4 DEF Next

LEMMA IInvInvariant == Spec => []IInv
  BY InitIInv, NextIInv, PTL DEF Spec

-----------------------------------------------------------------------------

(* cpu_loads is exact at every step of both functions.                      *)
THEOREM LoadsCorrect == Spec => []LoadsExact
<1>1. IInv => LoadsExact
  BY DEF IInv
<1> QED
  BY <1>1, IInvInvariant, PTL

(* A target CPU is always one the thread may have, also after repairs.      *)
THEOREM TargetLegalCorrect == Spec => []TargetLegal
<1>1. IInv => TargetLegal
  BY DEF IInv
<1> QED
  BY <1>1, IInvInvariant, PTL

(* The repair leaves no thread on a shared CPU that could have a free one.  *)
THEOREM SharingCorrect == Spec => []NoAvoidableSharing
<1>1. IInv => NoAvoidableSharing
  BY DEF IInv, TypeOK, DomainsRepaired, SharedInNeed, NoAvoidableSharing, Done
<1> QED
  BY <1>1, IInvInvariant, PTL

(* A thread only loses a CPU it may keep to another active thread.          *)
THEOREM StickyCorrect == Spec => []TargetsSticky
<1>1. IInv => TargetsSticky
  BY DEF IInv, Sticky, KeepsOrTaken, TargetsSticky, Done
<1> QED
  BY <1>1, IInvInvariant, PTL

-----------------------------------------------------------------------------
(* The whole computation.                                                  *)

\* The snapshot is one of the inputs.
SnapshotOf ==
    /\ allowed \in [Tids -> Masks]
    /\ recent \in [Tids -> RecentCpus \ {NoCpu}]
    /\ previous \in [Tids -> PreviousCpus]
    /\ active \in ActiveSets

\* An item stays at home, or goes where the previous plan has all its threads
\* (only in an incremental plan), or to a domain that was open to each of them.
Founded(k) ==
    \/ assignments[k] = CurrentHome
    \/ /\ ~global /\ assignments[k] \in Domains
       /\ \A t \in items[k] : assignments[k] = PlannedDomain(t)
    \/ assignments[k] \in Domains /\ candidate_allowed(items[k], assignments[k])

\* Every item is a set of threads and has an assignment.
ItemsInv ==
    /\ DOMAIN items \subseteq Nat /\ DOMAIN assignments = DOMAIN items
    /\ \A k \in DOMAIN items : items[k] \subseteq Tids

\* The models count the active threads of a domain, and those of the items there.
Tallied ==
    \A d \in Domains :
      /\ models[d].tasks = Cardinality({t \in active : members[t].base = d})
      /\ models[d].itemTasks = Cardinality({t \in Scoped : members[t].base = d} \cap active)

\* Before the search for CPUs no CPU has been given.
Fresh ==
    /\ todo = Tids /\ repairing = Domains
    /\ target = [t \in Tids |-> NoCpu] /\ loads = [c \in Cpus |-> {}]

PlanInv ==
    /\ SnapshotOf
    /\ global \in BOOLEAN
    /\ members = MemberView(global)
    /\ ItemsInv
    /\ phase # "build" => Tallied
    /\ phase # "build" => \A k \in DOMAIN items : Founded(k)
    /\ phase # "targets" => Fresh
    /\ phase = "targets" => IInv

\* The least of a set of naturals is one of them.
LEMMA MinIn ==
    ASSUME NEW T \in SUBSET Nat, T # {}
    PROVE  Min(T) \in T
<1> DEFINE R == OpToRel(<, Nat)
<1>1. \E x \in T : \A y \in T : ~(<<y, x>> \in R)
  BY NatLessThanWellFounded, WFMin
<1>2. \A x, y \in Nat : (<<y, x>> \in R) <=> y < x
  BY DEF OpToRel
<1> HIDE DEF R
<1>3. PICK x \in T : \A y \in T : ~(<<y, x>> \in R)
  BY <1>1
<1>4. ASSUME NEW y \in T PROVE x <= y
  <2>1. ~(y < x)
    BY <1>2, <1>3
  <2>2. QED
    BY <2>1
<1>5. \E z \in T : \A y \in T : z <= y
  BY <1>4
<1>6. QED
  BY <1>5 DEF Min

\* A thread in scope belongs to the item it is looked up in.
LEMMA ItemOf ==
    ASSUME ItemsInv, NEW t
    PROVE  /\ t \in Scoped <=> item_index_by_tid(t) # {}
           /\ t \in Scoped => LET k == Min(item_index_by_tid(t))
                              IN  k \in DOMAIN items /\ t \in items[k]
<1>1. t \in Scoped <=> item_index_by_tid(t) # {}
  BY DEF Scoped, Range, item_index_by_tid
<1>2. item_index_by_tid(t) \in SUBSET Nat
  BY DEF ItemsInv, item_index_by_tid
<1>3. ASSUME item_index_by_tid(t) # {} PROVE Min(item_index_by_tid(t)) \in item_index_by_tid(t)
  BY <1>2, <1>3, MinIn
<1>4. QED
  BY <1>1, <1>3 DEF item_index_by_tid

\* Homes and previous targets are domains.
LEMMA HomeDomain ==
    ASSUME SnapshotOf, members = MemberView(global), NEW t \in Tids
    PROVE  /\ members[t].home = thread_home(t) /\ thread_home(t) \in Domains
           /\ PlannedDomain(t) \in Domains \cup {NoDomain}
<1>1. recent[t] \in Cpus
  <2>1. RecentCpus \subseteq Cpus \cup {NoCpu}
    BY PlanAssumption
  <2>2. recent[t] \in RecentCpus \ {NoCpu}
    BY DEF SnapshotOf
  <2>3. QED
    BY <2>1, <2>2
<1>2. previous[t] \in Cpus \cup {NoCpu}
  BY PlanAssumption DEF SnapshotOf
<1>3. members[t].home = thread_home(t)
  BY Zenon DEF MemberView
<1>4. thread_home(t) \in Domains
  BY <1>1, PlanAssumption DEF thread_home
<1>5. PlannedDomain(t) \in Domains \cup {NoDomain}
  BY <1>2, PlanAssumption DEF PlannedDomain
<1>6. QED
  BY <1>3, <1>4, <1>5

\* A domain an item may go to is a domain.
LEMMA CandidateIsDomain ==
    ASSUME NEW i, NEW a, a # CurrentHome, candidate_allowed(i, a)
    PROVE  a \in Domains
  BY DEF candidate_allowed, CommonDomains

\* The tallies of evaluate_plan count the active threads an assignment puts into a
\* domain, whatever the assignment: the items' threads are taken off the domain they
\* were counted in, and put where they go.
LEMMA TallyExact ==
    ASSUME SnapshotOf, ItemsInv, Tallied, NEW asg, NEW d \in Domains
    PROVE  predicted_active_task_count(Assigned(asg, d), d)
             = Cardinality(ThreadsIn(asg, d) \cap active)
<1> DEFINE tasks == {t \in active : members[t].base = d}
           before == {t \in Scoped : members[t].base = d} \cap active
           after == Assigned(asg, d) \cap active
           here == ThreadsIn(asg, d) \cap active
<1>1. active \subseteq Tids /\ IsFiniteSet(active)
  BY PlanAssumption, FS_Subset DEF SnapshotOf
<1>2. before \subseteq tasks
  OBVIOUS
<1>3. here = after \cup (tasks \ before) /\ after \cap (tasks \ before) = {}
  <2>1. ASSUME NEW t \in active \ Scoped
        PROVE  effective_member_domain(asg, t) = members[t].base
    BY ItemOf DEF effective_member_domain
  <2>2. \A t \in active : t \in here <=> effective_member_domain(asg, t) = d
    BY <1>1 DEF ThreadsIn
  <2>3. \A t \in active : t \in after <=> t \in Scoped /\ effective_member_domain(asg, t) = d
    BY <1>1 DEF Assigned, ThreadsIn
  <2>4. \A t \in active : t \in tasks \ before <=> members[t].base = d /\ t \notin Scoped
    OBVIOUS
  <2>5. here \subseteq active /\ after \subseteq active /\ tasks \subseteq active
    OBVIOUS
  <2> HIDE DEF tasks, before, after, here
  <2>6. QED
    BY <2>1, <2>2, <2>3, <2>4, <2>5
<1>4. /\ IsFiniteSet(tasks) /\ IsFiniteSet(before) /\ IsFiniteSet(after)
  BY <1>1, FS_Subset
<1>5. /\ models[d].tasks = Cardinality(tasks)
      /\ models[d].itemTasks = Cardinality(before)
  BY DEF Tallied
<1> HIDE DEF tasks, before, after, here
<1>6. /\ Cardinality(tasks \ before) = Cardinality(tasks) - Cardinality(tasks \cap before)
      /\ IsFiniteSet(tasks \ before)
  BY <1>4, FS_Difference
<1>7. tasks \cap before = before
  BY <1>2
<1>8. Cardinality(here) = Cardinality(after) + Cardinality(tasks \ before)
                            - Cardinality(after \cap (tasks \ before))
  BY <1>3, <1>4, <1>6, FS_Union
<1>9. Cardinality(after \cap (tasks \ before)) = 0
  BY <1>3, FS_EmptySet
<1>10. /\ Cardinality(tasks) \in Nat /\ Cardinality(before) \in Nat /\ Cardinality(after) \in Nat
       /\ Cardinality(tasks \ before) \in Nat
  BY <1>4, <1>6, FS_CardinalityType
<1>11. predicted_active_task_count(Assigned(asg, d), d)
         = Monus(Cardinality(tasks) + Cardinality(after), Cardinality(before))
  BY <1>5 DEF predicted_active_task_count, after
<1>12. Monus(Cardinality(tasks) + Cardinality(after), Cardinality(before))
         = Cardinality(tasks) + Cardinality(after) - Cardinality(before)
  <2>1. Cardinality(tasks \ before) = Cardinality(tasks) - Cardinality(before)
    BY <1>6, <1>7
  <2>2. Cardinality(before) <= Cardinality(tasks)
    BY <1>10, <2>1
  <2>3. \A m, n \in Nat : n <= m => Monus(m, n) = m - n
    BY DEF Monus
  <2>4. Cardinality(tasks) + Cardinality(after) \in Nat
    BY <1>10
  <2>5. QED
    BY <1>10, <2>2, <2>3, <2>4
<1>13. Cardinality(here) = Cardinality(tasks) + Cardinality(after) - Cardinality(before)
  BY <1>6, <1>7, <1>8, <1>9, <1>10
<1>14. QED
  BY <1>11, <1>12, <1>13 DEF here

\* No thread is assigned a domain that is closed to it but by an older plan.
LEMMA SettledAssignment ==
    ASSUME PlanInv, phase # "build", NEW t \in Scoped \cap Tids
    PROVE  LET d == effective_member_domain(assignments, t)
           IN  /\ d \in Domains
               /\ d # thread_home(t) /\ d \in barred[t] /\ ~Excluded(thread_home(t)) =>
                    ~global /\ d = PlannedDomain(t)
<1> DEFINE k == Min(item_index_by_tid(t))
           d == effective_member_domain(assignments, t)
<1>1. k \in DOMAIN items /\ t \in items[k]
  BY ItemOf DEF PlanInv
<1>2. Founded(k)
  BY <1>1 DEF PlanInv
<1>3. members[t].home = thread_home(t) /\ thread_home(t) \in Domains
  BY HomeDomain DEF PlanInv
<1>4. d = IF assignments[k] = CurrentHome THEN members[t].home ELSE assignments[k]
  BY ItemOf DEF PlanInv, effective_member_domain, target_domain_for_home
<1> HIDE DEF k, d
<1>5. d \in Domains
  BY <1>2, <1>3, <1>4 DEF Founded
<1>6. ASSUME d # thread_home(t), d \in barred[t], ~Excluded(thread_home(t))
      PROVE  ~global /\ d = PlannedDomain(t)
  <2>1. assignments[k] # CurrentHome /\ d = assignments[k]
    BY <1>3, <1>4, <1>6
  <2>2. ~candidate_allowed(items[k], d)
    BY <1>1, <1>3, <1>6, <2>1 DEF candidate_allowed, move_allowed
  <2>3. QED
    BY <1>1, <1>2, <2>1, <2>2 DEF Founded
<1>7. QED
  BY <1>5, <1>6 DEF d
\* The invariant holds when a request comes in.
LEMMA PlanInvInit == PlanInit => PlanInv
<1> SUFFICES ASSUME PlanInit PROVE PlanInv
  OBVIOUS
<1>1. SnapshotOf /\ members = MemberView(global) /\ Fresh /\ phase = "build"
  BY DEF PlanInit, SnapshotOf, Fresh
<1>2. global \in BOOLEAN
  BY DEF PlanInit
<1>3. ItemsInv
  BY DEF PlanInit, ItemsInv
<1>4. QED
  BY <1>1, <1>2, <1>3 DEF PlanInv

\* The views and the tallies only depend on what the search leaves alone.
LEMMA SameView ==
    ASSUME UNCHANGED <<global, members, items, models, barred, allowed, recent, previous, active>>
    PROVE  /\ MemberView(global)' = MemberView(global)
           /\ Scoped' = Scoped
           /\ SnapshotOf' <=> SnapshotOf
           /\ Tallied' <=> Tallied
           /\ \A t : PlannedDomain(t)' = PlannedDomain(t)
           /\ \A i, a : candidate_allowed(i, a)' <=> candidate_allowed(i, a)
<1>1. \A t : PlannedDomain(t)' = PlannedDomain(t)
  BY DEF PlannedDomain
<1>2. \A t : thread_home(t)' = thread_home(t)
  BY DEF thread_home
<1>3. \A t : allowed_domains_from_cpus(t)' = allowed_domains_from_cpus(t)
  BY DEF allowed_domains_from_cpus
<1>4. \A t, d : allowed_cpus_by_domain(t, d)' = allowed_cpus_by_domain(t, d)
  BY DEF allowed_cpus_by_domain, InDomain
<1>5. \A t : previous_plan_domain_for_member(t)' = previous_plan_domain_for_member(t)
  BY <1>1, <1>2, <1>3 DEF previous_plan_domain_for_member
<1>6. \A t : baseline_domain_for_member(t, global)' = baseline_domain_for_member(t, global)
  BY <1>2, <1>5 DEF baseline_domain_for_member
<1>7. MemberView(global)' = MemberView(global)
  BY <1>2, <1>3, <1>4, <1>6 DEF MemberView
<1>8. Scoped' = Scoped
  BY DEF Scoped
<1>9. Tallied' <=> Tallied
  BY <1>8 DEF Tallied
<1>10. \A i, a : candidate_allowed(i, a)' <=> candidate_allowed(i, a)
  BY DEF candidate_allowed, move_allowed, CommonDomains
<1>11. SnapshotOf' <=> SnapshotOf
  BY DEF SnapshotOf
<1>12. QED
  BY <1>1, <1>7, <1>8, <1>9, <1>10, <1>11

\* What the computation does to the assignments keeps them founded.
LEMMA AssignmentStep ==
    ASSUME PlanInv, phase \notin {"build", "targets"},
           UNCHANGED <<vars, snapshot, state>>, phase' \notin {"build", "targets"},
           DOMAIN assignments' = DOMAIN items,
           \A k \in DOMAIN items : \/ assignments'[k] = assignments[k]
                                   \/ assignments'[k] = CurrentHome
                                   \/ /\ assignments'[k] \in Domains
                                      /\ candidate_allowed(items[k], assignments'[k])
    PROVE  PlanInv'
<1>1. UNCHANGED <<global, members, items, models, barred, allowed, recent, previous, active,
                  todo, repairing, target, loads>>
  BY DEF vars, inputs, snapshot, state
<1>2. SnapshotOf' /\ global' \in BOOLEAN /\ Fresh' /\ Tallied' /\ members' = MemberView(global)'
  <2>1. SnapshotOf /\ Fresh /\ Tallied /\ members = MemberView(global)
    BY DEF PlanInv
  <2>2. Fresh'
    BY <1>1, <2>1 DEF Fresh
  <2>3. global' \in BOOLEAN
    BY <1>1 DEF PlanInv
  <2>4. QED
    BY <1>1, <2>1, <2>2, <2>3, SameView
<1>3. ItemsInv'
  BY <1>1 DEF PlanInv, ItemsInv
<1>4. ASSUME NEW k \in DOMAIN items PROVE Founded(k)'
  <2>1. Founded(k)
    BY DEF PlanInv
  <2>2. /\ \A t : PlannedDomain(t)' = PlannedDomain(t)
        /\ \A i, a : candidate_allowed(i, a)' <=> candidate_allowed(i, a)
    BY <1>1, SameView
  <2>3. CASE assignments'[k] = assignments[k]
    BY <1>1, <2>1, <2>2, <2>3 DEF Founded
  <2>4. CASE assignments'[k] = CurrentHome
    BY <2>4 DEF Founded
  <2>5. CASE assignments'[k] \in Domains /\ candidate_allowed(items[k], assignments'[k])
    <3>1. candidate_allowed(items[k], assignments[k])'
      BY <1>1, <2>2, <2>5
    <3>2. QED
      BY <1>1, <2>5, <3>1 DEF Founded
  <2>6. QED
    BY <2>3, <2>4, <2>5
<1>5. QED
  BY <1>1, <1>2, <1>3, <1>4 DEF PlanInv

\* The items are sets of threads, none empty.
LEMMA ItemsInTids ==
    ASSUME SnapshotOf, NEW whole, NEW its \in build_items(IF whole THEN active ELSE affected_tids),
           NEW k \in DOMAIN its
    PROVE  its[k] # {} /\ its[k] \subseteq Tids
<1> DEFINE tids == IF whole THEN active ELSE affected_tids
           groups == {g \in SyncGroups(tids) : CoLocateGroup(g)}
<1>1. active \subseteq Tids
  BY PlanAssumption DEF SnapshotOf
<1>2. tids \subseteq Tids
  BY <1>1 DEF affected_tids
<1> HIDE DEF tids
<1>3. its[k] \in ItemsOf(tids)
  BY DEF build_items, tids
<1>4. its[k] \in groups \/ \E t \in tids : its[k] = {t}
  BY <1>3 DEF ItemsOf
<1>5. CASE its[k] \in groups
  <2>1. Cardinality(its[k]) > 1 /\ its[k] \subseteq tids
    BY <1>5 DEF SyncGroups
  <2>2. Cardinality({}) = 0
    BY FS_EmptySet
  <2>3. QED
    BY <1>2, <2>1, <2>2
<1>6. CASE \E t \in tids : its[k] = {t}
  BY <1>2, <1>6
<1>7. QED
  BY <1>4, <1>5, <1>6

\* The state built for a request: each item starts at home or where the previous
\* plan has all its threads.
LEMMA BuildStep ==
    ASSUME PlanInv, build_state
    PROVE  PlanInv'
<1>1. /\ phase = "build" /\ phase' = "seed" /\ UNCHANGED <<vars, snapshot>>
      /\ members' = MemberView(global')
      /\ items' \in build_items(IF global' THEN active ELSE affected_tids)
      /\ assignments' = [k \in DOMAIN items' |-> seed_assignment(items'[k], global')]
      /\ models' = [d \in Domains |-> DomainModel(d, members', Scoped')]
  BY DEF build_state
<1>2. UNCHANGED <<allowed, recent, previous, active, barred, todo, repairing, target, loads>>
  BY <1>1 DEF vars, inputs, snapshot
<1>3. global' \in BOOLEAN
  BY Zenon DEF build_state
<1>4. SnapshotOf' /\ Fresh'
  BY <1>1, <1>2 DEF PlanInv, SnapshotOf, Fresh
<1>5. members' = MemberView(global)'
  <2>1. \A t : PlannedDomain(t)' = PlannedDomain(t)
    BY <1>2 DEF PlannedDomain
  <2>2. \A t : thread_home(t)' = thread_home(t)
    BY <1>2 DEF thread_home
  <2>3. \A t : allowed_domains_from_cpus(t)' = allowed_domains_from_cpus(t)
    BY <1>2 DEF allowed_domains_from_cpus
  <2>4. \A t, d : allowed_cpus_by_domain(t, d)' = allowed_cpus_by_domain(t, d)
    BY <1>2 DEF allowed_cpus_by_domain, InDomain
  <2>5. \A t : previous_plan_domain_for_member(t)' = previous_plan_domain_for_member(t)
    BY <2>1, <2>2, <2>3 DEF previous_plan_domain_for_member
  <2>6. \A t : baseline_domain_for_member(t, global)' = baseline_domain_for_member(t, global')
    BY <2>2, <2>5 DEF baseline_domain_for_member
  <2>7. QED
    BY <1>1, <2>2, <2>3, <2>4, <2>6 DEF MemberView
<1>6. ItemsInv'
  <2>1. PICK n, S : items' \in [1..n -> S]
    BY <1>1 DEF build_items
  <2>2. DOMAIN items' \subseteq Nat
    BY <2>1
  <2>3. DOMAIN assignments' = DOMAIN items'
    BY <1>1
  <2>4. \A k \in DOMAIN items' : items'[k] \subseteq Tids
    BY <1>1, ItemsInTids DEF PlanInv
  <2>5. QED
    BY <2>2, <2>3, <2>4 DEF ItemsInv
<1>7. Tallied'
  BY <1>1, <1>2 DEF Tallied, DomainModel
<1>8. ASSUME NEW k \in DOMAIN items' PROVE Founded(k)'
  <2> DEFINE i == items'[k]
             d == PlannedDomain(CHOOSE t \in i : TRUE)
  <2>1. assignments'[k] = seed_assignment(i, global')
    BY <1>1
  <2>2. \A t : PlannedDomain(t)' = PlannedDomain(t)
    BY <1>2 DEF PlannedDomain
  <2>3. CASE assignments'[k] = CurrentHome
    BY <2>3 DEF Founded
  <2>4. CASE assignments'[k] # CurrentHome
    <3>1. /\ assignments'[k] = d /\ ~global' /\ d # NoDomain
          /\ \A t \in i : PlannedDomain(t) = d
          /\ d \in CommonDomains(i) \/ \A t \in i : thread_home(t) = d
      BY <2>1, <2>4 DEF seed_assignment
    <3>2. i # {} /\ i \subseteq Tids
      BY <1>1, ItemsInTids DEF PlanInv
    <3>3. PICK t \in i : TRUE
      BY <3>2
    <3>4. thread_home(t) \in Domains
      BY <3>2, HomeDomain DEF PlanInv
    <3>5. d \in Domains
      BY <3>1, <3>4 DEF CommonDomains
    <3>6. QED
      BY <2>2, <3>1, <3>5 DEF Founded
  <2>5. QED
    BY <2>3, <2>4
<1>9. QED
  BY <1>1, <1>3, <1>4, <1>5, <1>6, <1>7, <1>8 DEF PlanInv
\* The greedy seed gives an item a domain that is open to it.
LEMMA GreedyStep ==
    ASSUME PlanInv, apply_paper_greedy_seed
    PROVE  PlanInv'
<1>1. /\ phase = "seed" /\ phase' = "seed" /\ UNCHANGED <<vars, snapshot, state>>
  BY DEF apply_paper_greedy_seed
<1>2. DOMAIN assignments = DOMAIN items
  BY DEF PlanInv, ItemsInv
<1>3. PICK k : \/ \E d \in Domains : /\ choose_paper_greedy_domain(k, d)
                                     /\ assignments' = [assignments EXCEPT ![k] = d]
               \/ UNCHANGED assignments
  BY DEF apply_paper_greedy_seed
<1>4. CASE UNCHANGED assignments
  <2>1. /\ DOMAIN assignments' = DOMAIN items
        /\ \A j \in DOMAIN items : assignments'[j] = assignments[j]
    BY <1>2, <1>4
  <2>2. QED
    BY <1>1, <2>1, AssignmentStep
<1>5. ASSUME NEW d \in Domains, choose_paper_greedy_domain(k, d),
             assignments' = [assignments EXCEPT ![k] = d]
      PROVE  PlanInv'
  <2>1. candidate_allowed(items[k], d)
    BY <1>5 DEF choose_paper_greedy_domain
  <2>2. DOMAIN assignments' = DOMAIN items
    BY <1>2, <1>5
  <2>3. \A j \in DOMAIN items : assignments'[j] = IF j = k THEN d ELSE assignments[j]
    BY <1>2, <1>5
  <2>4. QED
    BY <1>1, <2>1, <2>2, <2>3, AssignmentStep
<1>6. QED
  BY <1>3, <1>4, <1>5

\* A move gives an item a domain that is open to it, or its home.
LEMMA MoveStep ==
    ASSUME PlanInv, MovePass
    PROVE  PlanInv'
<1>1. phase = "moves" /\ phase' \in {"moves", "swap"} /\ UNCHANGED <<vars, snapshot, state>>
  BY DEF MovePass
<1>2. DOMAIN assignments = DOMAIN items
  BY DEF PlanInv, ItemsInv
<1>3. \/ UNCHANGED assignments
      \/ \E s \in Moves : assignments' = [assignments EXCEPT ![s[2][1]] = s[2][2]]
  BY DEF MovePass
<1>4. CASE UNCHANGED assignments
  <2>1. /\ DOMAIN assignments' = DOMAIN items
        /\ \A j \in DOMAIN items : assignments'[j] = assignments[j]
    BY <1>2, <1>4
  <2>2. QED
    BY <1>1, <2>1, AssignmentStep
<1>5. ASSUME NEW s \in Moves, assignments' = [assignments EXCEPT ![s[2][1]] = s[2][2]]
      PROVE  PlanInv'
  <2> DEFINE k == s[2][1]
             a == s[2][2]
  <2>1. k \in DOMAIN items /\ candidate_allowed(items[k], a)
    <3>1. PICK m \in (DOMAIN items) \X (Domains \cup {CurrentHome}) :
            /\ candidate_allowed(items[m[1]], m[2])
            /\ s = <<evaluate_plan([assignments EXCEPT ![m[1]] = m[2]]), m>>
      BY <1>5 DEF Moves
    <3>2. s[2] = m
      BY <3>1
    <3>3. QED
      BY <3>1, <3>2
  <2>2. a = CurrentHome \/ a \in Domains
    BY <2>1, CandidateIsDomain
  <2>3. DOMAIN assignments' = DOMAIN items
    BY <1>2, <1>5
  <2>4. \A j \in DOMAIN items : assignments'[j] = IF j = k THEN a ELSE assignments[j]
    BY <1>2, <1>5
  <2> HIDE DEF k, a
  <2>5. QED
    BY <1>1, <2>1, <2>2, <2>3, <2>4, AssignmentStep
<1>6. QED
  BY <1>3, <1>4, <1>5

\* A swap gives each of two items a domain that is open to it.
LEMMA SwapStep ==
    ASSUME PlanInv, SwapPass
    PROVE  PlanInv'
<1>1. phase = "swap" /\ phase' = "entries" /\ UNCHANGED <<vars, snapshot, state>>
  BY DEF SwapPass
<1>2. DOMAIN assignments = DOMAIN items
  BY DEF PlanInv, ItemsInv
<1>3. \/ UNCHANGED assignments
      \/ \E s \in Swaps : assignments' = Swapped(s[2][1], s[2][2])
  BY DEF SwapPass
<1>4. CASE UNCHANGED assignments
  <2>1. /\ DOMAIN assignments' = DOMAIN items
        /\ \A j \in DOMAIN items : assignments'[j] = assignments[j]
    BY <1>2, <1>4
  <2>2. QED
    BY <1>1, <2>1, AssignmentStep
<1>5. ASSUME NEW s \in Swaps, assignments' = Swapped(s[2][1], s[2][2])
      PROVE  PlanInv'
  <2> DEFINE j == s[2][1]
             k == s[2][2]
  <2>1. /\ j \in DOMAIN items /\ k \in DOMAIN items
        /\ candidate_allowed(items[j], assignments[k]) /\ candidate_allowed(items[k], assignments[j])
        /\ assignments[j] # CurrentHome /\ assignments[k] # CurrentHome
    <3>1. PICK p \in Heaviest \X Heaviest :
            /\ CurrentHome \notin {assignments[p[1]], assignments[p[2]]}
            /\ candidate_allowed(items[p[1]], assignments[p[2]])
            /\ candidate_allowed(items[p[2]], assignments[p[1]])
            /\ s = <<evaluate_plan(Swapped(p[1], p[2])), p>>
      BY <1>5 DEF Swaps
    <3>2. s[2] = p
      BY <3>1
    <3>3. Heaviest \subseteq DOMAIN items
      BY DEF Heaviest
    <3>4. QED
      BY <3>1, <3>2, <3>3
  <2>2. assignments[j] \in Domains /\ assignments[k] \in Domains
    BY <2>1, CandidateIsDomain
  <2>3. assignments' = [assignments EXCEPT ![j] = assignments[k], ![k] = assignments[j]]
    BY <1>5 DEF Swapped
  <2> HIDE DEF j, k
  <2>4. /\ DOMAIN assignments' = DOMAIN items
        /\ \A i \in DOMAIN items : assignments'[i] = IF i = k THEN assignments[j]
                                                     ELSE IF i = j THEN assignments[k]
                                                     ELSE assignments[i]
    BY <1>2, <2>1, <2>3
  <2>5. QED
    BY <1>1, <2>1, <2>2, <2>4, AssignmentStep
<1>6. QED
  BY <1>3, <1>4, <1>5

\* Once every entry has its domain, the search for CPUs is in an initial state.
LEMMA MaterializeStep ==
    ASSUME PlanInv, MaterializeEntries
    PROVE  /\ Init' /\ SnapshotOf' /\ global' \in BOOLEAN /\ members' = MemberView(global)'
           /\ ItemsInv' /\ Tallied' /\ \A k \in DOMAIN items' : Founded(k)'
<1>1. /\ phase = "entries"
      /\ UNCHANGED <<allowed, previous, recent, active, target, loads>>
      /\ domain' = [t \in Tids |-> EntryDomain(t)]
      /\ todo' = {t \in Tids : candidate_cpus_for_plan_target(t)' # {}}
      /\ repairing' = {domain'[t] : t \in Tids}
      /\ UNCHANGED <<snapshot, state, assignments>>
  BY DEF MaterializeEntries
<1>2. UNCHANGED <<global, members, items, models, barred>>
  BY <1>1 DEF snapshot, state
<1>3. /\ SnapshotOf /\ Fresh /\ Tallied /\ ItemsInv /\ members = MemberView(global)
      /\ \A k \in DOMAIN items : Founded(k)
  BY <1>1 DEF PlanInv
<1>4. ASSUME NEW t \in Tids PROVE EntryDomain(t) \in Domains
  <2>1. /\ members[t].home \in Domains /\ PlannedDomain(t) \in Domains \cup {NoDomain}
    BY <1>3, HomeDomain
  <2>2. CASE item_index_by_tid(t) # {}
    <3>1. t \in Scoped \cap Tids
      BY <1>3, <2>2, ItemOf
    <3>2. effective_member_domain(assignments, t) \in Domains
      BY <1>1, <3>1, SettledAssignment
    <3>3. EntryDomain(t) = effective_member_domain(assignments, t)
      BY <2>2 DEF EntryDomain
    <3>4. QED
      BY <3>2, <3>3
  <2>3. CASE /\ item_index_by_tid(t) = {} /\ ~global
             /\ previous_plan_domain_for_member(t) # NoDomain
    <3>1. previous_plan_domain_for_member(t) \in Domains
      BY <2>1, <2>3 DEF previous_plan_domain_for_member
    <3>2. EntryDomain(t) = previous_plan_domain_for_member(t)
      BY <2>3 DEF EntryDomain
    <3>3. QED
      BY <3>1, <3>2
  <2>4. CASE /\ item_index_by_tid(t) = {}
             /\ global \/ previous_plan_domain_for_member(t) = NoDomain
    <3>1. EntryDomain(t) = members[t].home
      BY <2>4 DEF EntryDomain
    <3>2. QED
      BY <2>1, <3>1
  <2>5. QED
    BY <2>2, <2>3, <2>4
<1>5. domain' \in [Tids -> Domains]
  BY <1>1, <1>4
<1>6. RecentCpus \ {NoCpu} \subseteq RecentCpus
  OBVIOUS
<1>7. recent' \in [Tids -> RecentCpus]
  BY <1>1, <1>3, <1>6 DEF SnapshotOf
<1>8. Init'
  BY <1>1, <1>3, <1>5, <1>7 DEF Init, SnapshotOf, Fresh
<1>9. /\ MemberView(global)' = MemberView(global) /\ SnapshotOf' /\ Tallied'
      /\ \A t : PlannedDomain(t)' = PlannedDomain(t)
      /\ \A i, a : candidate_allowed(i, a)' <=> candidate_allowed(i, a)
  BY <1>1, <1>2, <1>3, SameView
<1>10. ItemsInv'
  BY <1>1, <1>2, <1>3 DEF ItemsInv
<1>11. ASSUME NEW k \in DOMAIN items PROVE Founded(k)'
  <2>1. Founded(k)
    BY <1>3
  <2>2. candidate_allowed(items[k], assignments[k])' <=> candidate_allowed(items[k], assignments[k])
    BY <1>1, <1>2, <1>9
  <2>3. QED
    BY <1>1, <1>2, <1>9, <2>1, <2>2 DEF Founded
<1>12. global' \in BOOLEAN
  BY <1>2 DEF PlanInv
<1>13. QED
  BY <1>2, <1>3, <1>8, <1>9, <1>10, <1>11, <1>12

\* A step of the search for CPUs, or none, leaves the rest alone.
LEMMA TargetsStep ==
    ASSUME PlanInv, UNCHANGED <<planVars, inputs>>,
           phase # "targets" => UNCHANGED vars, phase = "targets" => IInv'
    PROVE  PlanInv'
<1>1. UNCHANGED <<phase, global, members, items, models, barred, assignments, allowed, recent,
                  previous, active>>
  BY DEF planVars, inputs, snapshot, state
<1>2. /\ MemberView(global)' = MemberView(global) /\ (SnapshotOf' <=> SnapshotOf)
      /\ Tallied' <=> Tallied
      /\ \A t : PlannedDomain(t)' = PlannedDomain(t)
      /\ \A i, a : candidate_allowed(i, a)' <=> candidate_allowed(i, a)
  BY <1>1, SameView
<1>3. ItemsInv'
  BY <1>1 DEF PlanInv, ItemsInv
<1>4. ASSUME NEW k \in DOMAIN items, Founded(k) PROVE Founded(k)'
  <2>1. candidate_allowed(items[k], assignments[k])' <=> candidate_allowed(items[k], assignments[k])
    BY <1>1, <1>2
  <2>2. QED
    BY <1>1, <1>2, <1>4, <2>1 DEF Founded
<1>5. phase # "targets" => Fresh'
  BY DEF PlanInv, Fresh, vars
<1>6. QED
  BY <1>1, <1>2, <1>3, <1>4, <1>5 DEF PlanInv

\* PlanInv is an invariant of the computation of a plan.
LEMMA PlanInvariance == PlanSpec => []PlanInv
<1>1. Init' => IInv'
  BY InitIInv, PTL
<1>2. ASSUME PlanInv, [PlanNext]_allVars PROVE PlanInv'
  <2>1. CASE build_state
    BY <1>2, <2>1, BuildStep
  <2>2. CASE apply_paper_greedy_seed
    BY <1>2, <2>2, GreedyStep
  <2>3. CASE SeedDone
    <3>1. /\ phase = "seed" /\ phase' = "moves" /\ UNCHANGED <<vars, snapshot, state>>
          /\ UNCHANGED assignments
      BY <2>3 DEF SeedDone
    <3>2. DOMAIN assignments' = DOMAIN items
      BY <1>2, <3>1 DEF PlanInv, ItemsInv
    <3>3. QED
      BY <1>2, <3>1, <3>2, AssignmentStep
  <2>4. CASE MovePass
    BY <1>2, <2>4, MoveStep
  <2>5. CASE SwapPass
    BY <1>2, <2>5, SwapStep
  <2>6. CASE MaterializeEntries
    <3>1. phase' = "targets"
      BY <2>6 DEF MaterializeEntries
    <3>2. QED
      BY <1>1, <1>2, <2>6, <3>1, MaterializeStep DEF PlanInv
  <2>7. CASE AssignTargets
    <3>1. phase = "targets" /\ Next /\ UNCHANGED planVars
      BY <2>7 DEF AssignTargets
    <3>2. IInv'
      BY <1>2, <3>1, NextIInv DEF PlanInv
    <3>3. UNCHANGED inputs
      BY <3>1 DEF Next, AssignCpu, Repair, DomainRepaired
    <3>4. QED
      BY <1>2, <3>1, <3>2, <3>3, TargetsStep
  <2>8. CASE UNCHANGED allVars
    <3>1. UNCHANGED <<vars, planVars, inputs>>
      BY <2>8 DEF allVars, vars
    <3>2. phase = "targets" => IInv'
      BY <1>2, <3>1, NextIInv DEF PlanInv
    <3>3. QED
      BY <1>2, <3>1, <3>2, TargetsStep
  <2>9. QED
    BY <1>2, <2>1, <2>2, <2>3, <2>4, <2>5, <2>6, <2>7, <2>8 DEF PlanNext
<1>3. QED
  BY <1>2, PlanInvInit, PTL DEF PlanSpec

\* The tallies behind the slot constraint are exact in every plan, at every step of
\* the search: what evaluate_plan predicts for a domain is what the plan puts there.
THEOREM PredictedCorrect == PlanSpec => []PredictedExact
<1>1. PlanInv => PredictedExact
  BY TallyExact DEF PlanInv, PredictedExact
<1>2. QED
  BY <1>1, PlanInvariance, PTL

\* No thread is planned for a domain closed to it, but to continue an older plan.
THEOREM SettledCorrect == PlanSpec => []SettledStay
<1>1. ASSUME PlanInv, phase = "entries", NEW t \in Scoped,
             LET d == effective_member_domain(assignments, t)
             IN  d # thread_home(t) /\ d \in barred[t] /\ ~Excluded(thread_home(t))
      PROVE  ~global /\ effective_member_domain(assignments, t) = PlannedDomain(t)
  <2>1. t \in Tids
    BY <1>1, ItemOf DEF PlanInv, ItemsInv
  <2>2. QED
    BY <1>1, <2>1, SettledAssignment
<1>2. PlanInv => SettledStay
  BY <1>1 DEF SettledStay
<1>3. QED
  BY <1>2, PlanInvariance, PTL

\* In the plan of the whole computation, whatever the moves and swaps chose, a target
\* CPU is one its thread may have.
THEOREM PlanTargetLegal == PlanSpec => []TargetLegal
<1>1. PlanInv => TargetLegal
  BY DEF PlanInv, IInv, Fresh, TargetLegal
<1>2. QED
  BY <1>1, PlanInvariance, PTL

\* A finished plan shares no CPU while a thread on it could have a free one.
THEOREM PlanSharing == PlanSpec => []NoAvoidableSharing
<1>1. IInv => NoAvoidableSharing
  BY DEF IInv, TypeOK, DomainsRepaired, SharedInNeed, NoAvoidableSharing, Done
<1>2. PlanInv => NoAvoidableSharing
  BY <1>1 DEF PlanInv, Fresh, NoAvoidableSharing
<1>3. QED
  BY <1>2, PlanInvariance, PTL

\* A finished plan takes a thread off a CPU it may keep only for another thread.
THEOREM PlanSticky == PlanSpec => []TargetsSticky
<1>1. IInv => TargetsSticky
  BY DEF IInv, Sticky, KeepsOrTaken, TargetsSticky, Done
<1>2. PlanInv => TargetsSticky
  BY <1>1 DEF PlanInv, Fresh, TargetsSticky, Done
<1>3. QED
  BY <1>2, PlanInvariance, PTL

-----------------------------------------------------------------------------
(* The hard constraints.                                                   *)

\* What is counted is a number.
LEMMA TotalNat ==
    ASSUME NEW S, IsFiniteSet(S), NEW f \in [S -> Nat]
    PROVE  Total(f) \in Nat
<1> DEFINE U == {{x} \X (1..f[x]) : x \in S}
           g == [x \in S |-> {x} \X (1..f[x])]
<1>1. g \in Surjection(S, U)
  BY DEF Surjection
<1>2. IsFiniteSet(U)
  BY <1>1, FS_Surjection
<1>3. ASSUME NEW x \in S PROVE IsFiniteSet({x} \X (1..f[x]))
  <2>1. f[x] \in Nat
    OBVIOUS
  <2>2. IsFiniteSet(1..f[x])
    <3>1. 1 \in Int /\ f[x] \in Int
      BY <2>1
    <3>. QED
      BY <3>1, FS_Interval
  <2>3. IsFiniteSet({x})
    BY FS_Singleton
  <2>. QED
    BY <2>2, <2>3, FS_Product
<1>4. \A T \in U : IsFiniteSet(T)
  BY <1>3
<1>5. IsFiniteSet(UNION U)
  BY <1>2, <1>4, FS_UNION
<1>6. Total(f) = Cardinality(UNION U)
  BY DEF Total
<1>. QED
  BY <1>5, <1>6, FS_CardinalityType

Slots == Nat \X Nat

\* Constraints put together are a constraint.
LEMMA CombineSlots ==
    ASSUME NEW S, IsFiniteSet(S), NEW s \in [S -> Slots]
    PROVE  combine(s) \in Slots
<1>1. DOMAIN s = S
  OBVIOUS
<1>2. [x \in S |-> s[x][1]] \in [S -> Nat] /\ [x \in S |-> s[x][2]] \in [S -> Nat]
  BY DEF Slots
<1>3. Total([x \in S |-> s[x][1]]) \in Nat /\ Total([x \in S |-> s[x][2]]) \in Nat
  BY <1>2, TotalNat
<1>. QED
  BY <1>1, <1>3 DEF combine, Slots

\* A comparison of two counts is a constraint.
LEMMA TaskSlots ==
    ASSUME NEW n \in Nat, NEW m \in Nat
    PROVE  task_slot_constraint(n, m) \in Slots
  BY DEF task_slot_constraint, Slots

\* A set of threads or of their CPUs is counted by a number.
LEMMA CountNat ==
    ASSUME NEW S, IsFiniteSet(S), NEW T \in SUBSET S
    PROVE  Cardinality(T) \in Nat /\ IsFiniteSet(T)
  BY FS_Subset, FS_CardinalityType

\* What evaluate_plan says of the slots of a domain is a constraint, whatever the
\* assignment.
LEMMA DomainSlots ==
    ASSUME SnapshotOf, ItemsInv, Tallied, members = MemberView(global),
           NEW asg, NEW d \in Domains
    PROVE  SlotConstraint(ThreadsIn(asg, d), d) \in Slots
<1> DEFINE here == ThreadsIn(asg, d)
           runnable == here \cap active
           keys == {members[t].cpus[d] : t \in runnable}
           group == [cpus \in keys |->
                       task_slot_constraint(Cardinality({t \in runnable : members[t].cpus[d] = cpus}),
                                            Cardinality(cpus))]
           room == Cardinality(UNION {members[t].cpus[d] : t \in runnable})
           total == task_slot_constraint(predicted_active_task_count(here \cap Scoped, d), room)
<1>1. here \subseteq Tids /\ runnable \subseteq Tids /\ IsFiniteSet(runnable) /\ IsFiniteSet(Tids)
  BY PlanAssumption, FS_Subset DEF ThreadsIn
<1>2. \A t \in Tids : members[t].cpus[d] \subseteq Cpus
  <2>1. ASSUME NEW t \in Tids PROVE members[t].cpus[d] = allowed_cpus_by_domain(t, d)
    BY Zenon DEF MemberView
  <2>2. ASSUME NEW t \in Tids PROVE allowed_cpus_by_domain(t, d) \subseteq Cpus
    BY PlanAssumption DEF allowed_cpus_by_domain, InDomain
  <2>. QED
    BY <2>1, <2>2
<1>3. IsFiniteSet(keys)
  <2> DEFINE g == [t \in runnable |-> members[t].cpus[d]]
  <2>1. g \in Surjection(runnable, keys)
    BY DEF Surjection
  <2>. QED
    BY <1>1, <2>1, FS_Surjection
<1>4. \A cpus \in keys : group[cpus] \in Slots
  <2>1. SUFFICES ASSUME NEW cpus \in keys
                 PROVE  task_slot_constraint(Cardinality({t \in runnable : members[t].cpus[d] = cpus}),
                                             Cardinality(cpus)) \in Slots
    OBVIOUS
  <2>2. Cardinality({t \in runnable : members[t].cpus[d] = cpus}) \in Nat
    BY <1>1, CountNat
  <2>3. Cardinality(cpus) \in Nat
    <3>1. cpus \subseteq Cpus
      BY <1>1, <1>2
    <3>. QED
      BY <3>1, PlanAssumption, CountNat
  <2>. QED
    BY <2>2, <2>3, TaskSlots
<1>5. combine(group) \in Slots
  <2>1. group \in [keys -> Slots]
    BY <1>4
  <2>. HIDE DEF group, keys
  <2>. QED
    BY <1>3, <2>1, CombineSlots
<1>6. affinity_group_slot_constraint(runnable, d) = combine(group)
  BY DEF affinity_group_slot_constraint
<1>7. room \in Nat
  <2>1. UNION {members[t].cpus[d] : t \in runnable} \subseteq Cpus
    BY <1>1, <1>2
  <2>. QED
    BY <2>1, PlanAssumption, CountNat
<1>8. predicted_active_task_count(here \cap Scoped, d) \in Nat
  <2>1. predicted_active_task_count(Assigned(asg, d), d) = Cardinality(ThreadsIn(asg, d) \cap active)
    BY TallyExact
  <2>. QED
    BY <1>1, <2>1, CountNat DEF Assigned
<1>9. total \in Slots
  BY <1>7, <1>8, TaskSlots
<1>10. SlotConstraint(here, d) = slot_max(total, combine(group))
  BY <1>6 DEF SlotConstraint
<1>. HIDE DEF total, group
<1>. QED
  BY <1>5, <1>9, <1>10 DEF slot_max

Hard(asg) == hard_constraints(evaluate_plan(asg))
HardKeys == Nat \X Nat \X Nat \X Nat \X Nat

\* The hard constraints of a plan are five numbers, whatever the soft costs are.
LEMMA HardType ==
    ASSUME SnapshotOf, ItemsInv, Tallied, members = MemberView(global),
           IsFiniteSet(DOMAIN items), NEW asg
    PROVE  Hard(asg) \in HardKeys
<1> DEFINE slot == [d \in Domains |-> SlotConstraint(ThreadsIn(asg, d), d)]
           slots == combine(slot)
           over == {d \in Domains : MigrationPenalty(ThreadsIn(asg, d), d)}
           budgets == Cardinality(over)
           splits == SyncSplits(asg)
<1>1. slots \in Slots
  <2>1. slot \in [Domains -> Slots]
    BY DomainSlots
  <2>. HIDE DEF slot
  <2>. QED
    BY <2>1, PlanAssumption, CombineSlots
<1>2. budgets \in Nat
  <2>1. over \subseteq Domains
    OBVIOUS
  <2>. HIDE DEF over
  <2>. QED
    BY <2>1, PlanAssumption, CountNat
<1>3. splits \in Nat
  <2> DEFINE apart(p) == \E t, u \in p :
                            effective_member_domain(asg, t) # effective_member_domain(asg, u)
             A == {k \in DOMAIN items : apart(items[k])}
             B == {p \in ResidualPairs : apart(p)}
  <2>1. splits = Cardinality(A) + Cardinality(B)
    BY DEF SyncSplits
  <2>2. Cardinality(A) \in Nat
    <3>1. A \subseteq DOMAIN items
      OBVIOUS
    <3>. HIDE DEF A
    <3>. QED
      BY <3>1, CountNat
  <2>3. Scoped \subseteq Tids
    BY DEF Scoped, Range, ItemsInv
  <2>4. ResidualPairs \subseteq SUBSET Tids
    BY <2>3 DEF ResidualPairs, SyncGroups
  <2>5. IsFiniteSet(SUBSET Tids)
    BY PlanAssumption, FS_SUBSET
  <2>6. Cardinality(B) \in Nat
    <3>1. B \subseteq SUBSET Tids
      BY <2>4
    <3>. HIDE DEF B
    <3>. QED
      BY <2>5, <3>1, CountNat
  <2>. HIDE DEF A, B
  <2>. QED
    BY <2>1, <2>2, <2>6
<1>4. evaluate_plan(asg)
        = <<slots[1], slots[2], budgets + splits, budgets, splits, SoftCosts(asg)>>
  BY DEF evaluate_plan, PlannerCostKey
<1>5. slots[1] \in Nat /\ slots[2] \in Nat
  BY <1>1 DEF Slots
<1>. HIDE DEF slots, budgets, splits
<1>6. Hard(asg) = <<slots[1], slots[2], budgets + splits, budgets, splits>>
  BY <1>4 DEF Hard, hard_constraints
<1>. QED
  BY <1>2, <1>3, <1>5, <1>6 DEF HardKeys

\* Compared from left to right, five numbers are in a total order.
LEMMA EarlierOrder ==
    ASSUME NEW a \in HardKeys, NEW b \in HardKeys, NEW c \in HardKeys
    PROVE  /\ ~Earlier(a, a)
           /\ ~Earlier(a, b) /\ ~Earlier(b, c) => ~Earlier(a, c)
<1>1. ASSUME NEW x \in HardKeys, NEW y \in HardKeys
      PROVE  Earlier(x, y) <=>
               \/ x[1] < y[1]
               \/ x[1] = y[1] /\ x[2] < y[2]
               \/ x[1] = y[1] /\ x[2] = y[2] /\ x[3] < y[3]
               \/ x[1] = y[1] /\ x[2] = y[2] /\ x[3] = y[3] /\ x[4] < y[4]
               \/ x[1] = y[1] /\ x[2] = y[2] /\ x[3] = y[3] /\ x[4] = y[4] /\ x[5] < y[5]
  <2>1. DOMAIN x = {1, 2, 3, 4, 5}
    BY DEF HardKeys
  <2>2. 1..(1 - 1) = {} /\ 1..(2 - 1) = {1} /\ 1..(3 - 1) = {1, 2}
        /\ 1..(4 - 1) = {1, 2, 3} /\ 1..(5 - 1) = {1, 2, 3, 4}
    OBVIOUS
  <2>. QED
    BY <2>1, <2>2 DEF Earlier
<1>2. \A x \in HardKeys : x[1] \in Nat /\ x[2] \in Nat /\ x[3] \in Nat /\ x[4] \in Nat /\ x[5] \in Nat
  BY DEF HardKeys
<1>3. ~Earlier(a, a)
  BY <1>1, <1>2
<1>4. ASSUME ~Earlier(a, b), ~Earlier(b, c) PROVE ~Earlier(a, c)
  <2>1. a[1] \in Nat /\ a[2] \in Nat /\ a[3] \in Nat /\ a[4] \in Nat /\ a[5] \in Nat
    BY <1>2
  <2>2. b[1] \in Nat /\ b[2] \in Nat /\ b[3] \in Nat /\ b[4] \in Nat /\ b[5] \in Nat
    BY <1>2
  <2>3. c[1] \in Nat /\ c[2] \in Nat /\ c[3] \in Nat /\ c[4] \in Nat /\ c[5] \in Nat
    BY <1>2
  <2>. QED
    BY <1>1, <1>4, <2>1, <2>2, <2>3
<1>. QED
  BY <1>3, <1>4

\* A plan that costs less does not have worse hard constraints: the soft costs come last.
LEMMA BetterHard ==
    ASSUME SnapshotOf, ItemsInv, Tallied, members = MemberView(global),
           IsFiniteSet(DOMAIN items), NEW asg, NEW old,
           is_better_than(evaluate_plan(asg), evaluate_plan(old))
    PROVE  ~Earlier(Hard(old), Hard(asg))
<1> DEFINE x == evaluate_plan(asg)
           y == evaluate_plan(old)
<1>1. Hard(asg) \in HardKeys /\ Hard(old) \in HardKeys
  BY HardType
<1>2. /\ Hard(asg) = <<x[1], x[2], x[3], x[4], x[5]>>
      /\ Hard(old) = <<y[1], y[2], y[3], y[4], y[5]>>
  BY DEF Hard, hard_constraints
<1>3. DOMAIN x = 1..6
  BY DEF evaluate_plan, PlannerCostKey
<1>4. PICK i \in 1..6 : x[i] < y[i] /\ \A j \in 1..(i - 1) : x[j] = y[j]
  BY <1>3 DEF is_better_than, Earlier
<1>. HIDE DEF x, y
<1>5. /\ x[1] \in Nat /\ x[2] \in Nat /\ x[3] \in Nat /\ x[4] \in Nat /\ x[5] \in Nat
      /\ y[1] \in Nat /\ y[2] \in Nat /\ y[3] \in Nat /\ y[4] \in Nat /\ y[5] \in Nat
  BY <1>1, <1>2 DEF HardKeys
<1>6. ASSUME NEW k \in 1..5, y[k] < x[k], \A j \in 1..(k - 1) : y[j] = x[j] PROVE FALSE
  <2>1. x[k] \in Nat /\ y[k] \in Nat
    BY <1>5
  <2>2. k < i \/ k = i \/ i < k
    OBVIOUS
  <2>3. k \in 1..(i - 1) => x[k] = y[k]
    BY <1>4
  <2>4. i \in 1..(k - 1) => y[i] = x[i] /\ i \in 1..5
    BY <1>6
  <2>5. i \in 1..5 => x[i] \in Nat /\ y[i] \in Nat
    BY <1>5
  <2>. QED
    BY <1>4, <1>6, <2>1, <2>2, <2>3, <2>4, <2>5
<1>7. ASSUME Earlier(Hard(old), Hard(asg)) PROVE FALSE
  <2>1. DOMAIN Hard(old) = 1..5 /\ \A k \in 1..5 : Hard(old)[k] = y[k] /\ Hard(asg)[k] = x[k]
    BY <1>2
  <2>2. PICK k \in 1..5 : /\ Hard(old)[k] < Hard(asg)[k]
                          /\ \A j \in 1..(k - 1) : Hard(old)[j] = Hard(asg)[j]
    BY <1>7, <2>1 DEF Earlier
  <2>3. y[k] < x[k] /\ \A j \in 1..(k - 1) : y[j] = x[j]
    BY <2>1, <2>2
  <2>. QED
    BY <1>6, <2>3
<1>. QED
  BY <1>7

\* The hard constraints only depend on what the search leaves alone; without the
\* greedy seed the demands have no part in them.
LEMMA SameHard ==
    ASSUME UNCHANGED <<vars, snapshot, state>>, ~paperGreedy
    PROVE  /\ SeedPlan' = SeedPlan
           /\ \A asg : Hard(asg)' = Hard(asg)
<1>1. UNCHANGED <<paperGreedy, effect, sync, global, members, items, models, allowed, recent,
                  previous, active>>
  BY DEF vars, inputs, snapshot, state
<1>2. SeedPlan' = SeedPlan
  <2>1. \A t : PlannedDomain(t)' = PlannedDomain(t)
    BY <1>1 DEF PlannedDomain
  <2>2. \A t : thread_home(t)' = thread_home(t)
    BY <1>1 DEF thread_home
  <2>3. \A i : CommonDomains(i)' = CommonDomains(i)
    BY <1>1 DEF CommonDomains
  <2>4. \A i : seed_assignment(i, global)' = seed_assignment(i, global)
    BY <1>1, <2>1, <2>2, <2>3 DEF seed_assignment
  <2>. QED
    BY <1>1, <2>4 DEF SeedPlan
<1>3. Scoped' = Scoped
  BY <1>1 DEF Scoped
<1>4. ASSUME NEW asg PROVE Hard(asg)' = Hard(asg)
  <2>1. \A t : item_index_by_tid(t)' = item_index_by_tid(t)
    BY <1>1 DEF item_index_by_tid
  <2>2. \A t : effective_member_domain(asg, t)' = effective_member_domain(asg, t)
    BY <1>1, <2>1 DEF effective_member_domain
  <2>3. \A d : ThreadsIn(asg, d)' = ThreadsIn(asg, d)
    BY <2>2 DEF ThreadsIn
  <2>4. \A into, d : predicted_active_task_count(into, d)' = predicted_active_task_count(into, d)
    BY <1>1 DEF predicted_active_task_count
  <2>5. \A here, d : affinity_group_slot_constraint(here, d)'
                       = affinity_group_slot_constraint(here, d)
    BY <1>1 DEF affinity_group_slot_constraint
  <2>6. \A here, d : SlotConstraint(here, d)' = SlotConstraint(here, d)
    BY <1>1, <1>3, <2>4, <2>5 DEF SlotConstraint
  <2>7. \A here, d : MigrationPenalty(here, d)' <=> MigrationPenalty(here, d)
    BY <1>1, <1>3 DEF MigrationPenalty
  <2>8. \A p : CommonDomains(p)' = CommonDomains(p)
    BY <1>1 DEF CommonDomains
  <2>9. \A g : CoLocateGroup(g)' <=> CoLocateGroup(g)
    <3>1. ~paperGreedy /\ ~paperGreedy'
      BY <1>1
    <3>. QED
      BY <2>8, <3>1 DEF CoLocateGroup
  <2>10. \A tids : SyncGroups(tids)' = SyncGroups(tids)
    BY <1>1 DEF SyncGroups
  <2>11. ResidualPairs' = ResidualPairs
    BY <1>3, <2>8, <2>9, <2>10 DEF ResidualPairs
  <2>12. SyncSplits(asg)' = SyncSplits(asg)
    <3> DEFINE apart(p) == \E t, u \in p :
                              effective_member_domain(asg, t) # effective_member_domain(asg, u)
               A == {k \in DOMAIN items : apart(items[k])}
               B == {p \in ResidualPairs : apart(p)}
    <3>1. A' = A
      BY <1>1, <2>2
    <3>2. B' = B
      BY <2>2, <2>11
    <3>3. SyncSplits(asg) = Cardinality(A) + Cardinality(B)
      BY DEF SyncSplits
    <3>4. SyncSplits(asg)' = Cardinality(A') + Cardinality(B')
      BY DEF SyncSplits
    <3>. HIDE DEF A, B
    <3>. QED
      BY <3>1, <3>2, <3>3, <3>4
  <2>13. [d \in Domains |-> SlotConstraint(ThreadsIn(asg, d), d)]'
           = [d \in Domains |-> SlotConstraint(ThreadsIn(asg, d), d)]
    BY <2>3, <2>6
  <2>14. {d \in Domains : MigrationPenalty(ThreadsIn(asg, d), d)}'
           = {d \in Domains : MigrationPenalty(ThreadsIn(asg, d), d)}
    BY <2>3, <2>7
  <2>. QED
    BY <2>12, <2>13, <2>14 DEF Hard, hard_constraints, evaluate_plan, PlannerCostKey
<1>. QED
  BY <1>2, <1>4

\* Without the greedy seed the search starts from the seed, and never has harder
\* constraints than the seed.
NoWorse ==
    /\ phase # "build" => IsFiniteSet(DOMAIN items)
    /\ ~paperGreedy /\ phase = "seed" => rest = {} /\ assignments = SeedPlan
    /\ ~paperGreedy /\ phase \in {"moves", "swap", "entries"} =>
          ~Earlier(Hard(SeedPlan), Hard(assignments))

\* There are finitely many items.
LEMMA FiniteItems ==
    ASSUME SnapshotOf, NEW whole, NEW its \in build_items(IF whole THEN active ELSE affected_tids)
    PROVE  IsFiniteSet(DOMAIN its)
<1> DEFINE tids == IF whole THEN active ELSE affected_tids
           n == Cardinality(ItemsOf(tids))
<1>1. tids \subseteq Tids
  BY PlanAssumption DEF SnapshotOf, affected_tids
<1>2. ItemsOf(tids) \subseteq SUBSET Tids
  <2>. HIDE DEF tids
  <2>. QED
    BY <1>1 DEF ItemsOf, SyncGroups
<1>3. IsFiniteSet(SUBSET Tids)
  BY PlanAssumption, FS_SUBSET
<1>4. n \in Nat
  <2>. HIDE DEF tids
  <2>. QED
    BY <1>2, <1>3, CountNat
<1>5. DOMAIN its = 1..n
  BY DEF build_items
<1>6. 1 \in Int /\ n \in Int
  BY <1>4
<1>. QED
  BY <1>5, <1>6, FS_Interval

\* Taking a plan that costs less, or keeping the plan, keeps the constraints.
LEMMA BetterStep ==
    ASSUME PlanInv, NoWorse, phase \in {"moves", "swap"}, phase' \in {"moves", "swap", "entries"},
           UNCHANGED <<vars, snapshot, state>>,
           \/ UNCHANGED assignments
           \/ is_better_than(evaluate_plan(assignments'), evaluate_plan(assignments))
    PROVE  NoWorse'
<1>1. UNCHANGED <<paperGreedy, items>>
  BY DEF snapshot, state
<1>2. SUFFICES ASSUME ~paperGreedy PROVE ~Earlier(Hard(SeedPlan), Hard(assignments))'
  BY <1>1 DEF NoWorse
<1> DEFINE old == assignments
           new == assignments'
<1>3. ~Earlier(Hard(SeedPlan), Hard(old))
  BY <1>2 DEF NoWorse
<1>4. /\ SnapshotOf /\ ItemsInv /\ Tallied /\ members = MemberView(global)
      /\ IsFiniteSet(DOMAIN items)
  BY DEF PlanInv, NoWorse
<1>5. ~Earlier(Hard(SeedPlan), Hard(new))
  <2>1. CASE UNCHANGED assignments
    BY <1>3, <2>1
  <2>2. CASE is_better_than(evaluate_plan(new), evaluate_plan(old))
    <3>1. ~Earlier(Hard(old), Hard(new))
      BY <1>4, <2>2, BetterHard
    <3>2. Hard(SeedPlan) \in HardKeys /\ Hard(old) \in HardKeys /\ Hard(new) \in HardKeys
      BY <1>4, HardType
    <3>. QED
      BY <1>3, <3>1, <3>2, EarlierOrder
  <2>. QED
    BY <2>1, <2>2
<1>6. SeedPlan' = SeedPlan /\ \A asg : Hard(asg)' = Hard(asg)
  BY <1>2, SameHard
<1>7. Hard(SeedPlan)' = Hard(SeedPlan) /\ Hard(assignments)' = Hard(new)
  BY <1>6
<1>. QED
  BY <1>5, <1>7

\* A pass takes a plan that costs less, or leaves the plan.
LEMMA MoveNoWorse ==
    ASSUME PlanInv, NoWorse, MovePass
    PROVE  NoWorse'
<1>1. phase = "moves" /\ phase' \in {"moves", "swap"} /\ UNCHANGED <<vars, snapshot, state>>
  BY DEF MovePass
<1>2. \/ UNCHANGED assignments
      \/ \E s \in Moves : assignments' = [assignments EXCEPT ![s[2][1]] = s[2][2]]
  BY DEF MovePass
<1>3. ASSUME NEW s \in Moves, assignments' = [assignments EXCEPT ![s[2][1]] = s[2][2]]
      PROVE  is_better_than(evaluate_plan(assignments'), evaluate_plan(assignments))
  <2>1. PICK m : s = <<evaluate_plan([assignments EXCEPT ![m[1]] = m[2]]), m>>
    BY <1>3 DEF Moves
  <2>2. s[1] = evaluate_plan(assignments')
    BY <1>3, <2>1
  <2>3. improvement_clears_margin(evaluate_plan(assignments), s[1], items[s[2][1]])
    BY <1>3 DEF Moves
  <2>. QED
    BY <2>2, <2>3 DEF improvement_clears_margin
<1>. QED
  BY <1>1, <1>2, <1>3, BetterStep

\* A swap is taken when the plan costs less for it.
LEMMA SwapNoWorse ==
    ASSUME PlanInv, NoWorse, SwapPass
    PROVE  NoWorse'
<1>1. phase = "swap" /\ phase' = "entries" /\ UNCHANGED <<vars, snapshot, state>>
  BY DEF SwapPass
<1>2. \/ UNCHANGED assignments
      \/ \E s \in Swaps : assignments' = Swapped(s[2][1], s[2][2])
  BY DEF SwapPass
<1>3. ASSUME NEW s \in Swaps, assignments' = Swapped(s[2][1], s[2][2])
      PROVE  is_better_than(evaluate_plan(assignments'), evaluate_plan(assignments))
  <2>1. PICK p : s = <<evaluate_plan(Swapped(p[1], p[2])), p>>
    BY <1>3 DEF Swaps
  <2>2. s[1] = evaluate_plan(assignments')
    BY <1>3, <2>1
  <2>3. SwapWorth(s[1], evaluate_plan(assignments))
    BY <1>3 DEF Swaps
  <2>. QED
    BY <2>2, <2>3 DEF SwapWorth
<1>. QED
  BY <1>1, <1>2, <1>3, BetterStep

\* Planning without the greedy seed does no harm: whatever the moves and the swap are
\* taken for, the plan the entries get has no harder constraint violations than leaving
\* every thread in scope where the plan began.
THEOREM HarmCorrect == PlanSpec => []NoHarm
<1>1. PlanInit => NoWorse
  BY DEF PlanInit, NoWorse
<1>2. ASSUME PlanInv, NoWorse, [PlanNext]_allVars PROVE NoWorse'
  <2>1. CASE build_state
    <3>1. /\ phase' = "seed" /\ UNCHANGED <<vars, snapshot>>
          /\ items' \in build_items(IF global' THEN active ELSE affected_tids)
          /\ assignments' = [k \in DOMAIN items' |-> seed_assignment(items'[k], global')]
          /\ ~paperGreedy => rest' = {}
      BY <2>1 DEF build_state
    <3>2. IsFiniteSet(DOMAIN items')
      BY <1>2, <3>1, FiniteItems DEF PlanInv
    <3>3. assignments' = SeedPlan'
      <4>1. members' = MemberView(global') /\ UNCHANGED <<allowed, recent, previous>>
        BY <2>1, <3>1 DEF build_state, vars, inputs
      <4>2. members = MemberView(global)
        BY <1>2 DEF PlanInv
      <4>3. \A t : PlannedDomain(t)' = PlannedDomain(t)
        BY <4>1 DEF PlannedDomain
      <4>4. \A t : thread_home(t)' = thread_home(t)
        BY <4>1 DEF thread_home
      <4>5. \A t \in Tids : members'[t].doms = allowed_domains_from_cpus(t)
                            /\ members[t].doms = allowed_domains_from_cpus(t)
        BY <4>1, <4>2 DEF MemberView
      <4>6. \A i \in SUBSET Tids : CommonDomains(i)' = CommonDomains(i)
        BY <4>5 DEF CommonDomains
      <4>7. \A i \in SUBSET Tids : seed_assignment(i, global)' = seed_assignment(i, global')
        BY <4>3, <4>4, <4>6 DEF seed_assignment
      <4>8. \A k \in DOMAIN items' : items'[k] \in SUBSET Tids
        BY <1>2, <3>1, ItemsInTids DEF PlanInv
      <4>. QED
        BY <3>1, <4>7, <4>8 DEF SeedPlan
    <3>4. paperGreedy' = paperGreedy
      BY <3>1 DEF snapshot
    <3>. QED
      BY <3>1, <3>2, <3>3, <3>4 DEF NoWorse
  <2>2. CASE apply_paper_greedy_seed
    <3>1. phase = "seed" /\ rest # {} /\ phase' = "seed" /\ UNCHANGED <<paperGreedy, items>>
      BY <2>2 DEF apply_paper_greedy_seed, snapshot, state
    <3>. QED
      BY <1>2, <3>1 DEF NoWorse
  <2>3. CASE SeedDone
    <3>1. /\ phase = "seed" /\ phase' = "moves" /\ UNCHANGED <<vars, snapshot, state>>
          /\ UNCHANGED <<paperGreedy, items, assignments>>
      BY <2>3 DEF SeedDone, snapshot, state
    <3>2. /\ SnapshotOf /\ ItemsInv /\ Tallied /\ members = MemberView(global)
          /\ IsFiniteSet(DOMAIN items)
      BY <1>2, <3>1 DEF PlanInv, NoWorse
    <3>3. ASSUME ~paperGreedy PROVE ~Earlier(Hard(SeedPlan), Hard(assignments))'
      <4>1. assignments = SeedPlan
        BY <1>2, <3>1, <3>3 DEF NoWorse
      <4>2. SeedPlan' = SeedPlan /\ \A asg : Hard(asg)' = Hard(asg)
        BY <3>1, <3>3, SameHard
      <4>3. Hard(SeedPlan)' = Hard(SeedPlan) /\ Hard(assignments)' = Hard(SeedPlan)
        BY <3>1, <4>1, <4>2
      <4>4. Hard(SeedPlan) \in HardKeys
        BY <3>2, HardType
      <4>. QED
        BY <4>3, <4>4, EarlierOrder
    <3>. QED
      BY <3>1, <3>2, <3>3 DEF NoWorse
  <2>4. CASE MovePass
    BY <1>2, <2>4, MoveNoWorse
  <2>5. CASE SwapPass
    BY <1>2, <2>5, SwapNoWorse
  <2>6. CASE MaterializeEntries
    <3>1. phase = "entries" /\ phase' = "targets" /\ UNCHANGED items
      BY <2>6 DEF MaterializeEntries, state
    <3>. QED
      BY <1>2, <3>1 DEF NoWorse
  <2>7. CASE AssignTargets
    <3>1. phase = "targets" /\ UNCHANGED <<phase, items>>
      BY <2>7 DEF AssignTargets, planVars, state
    <3>. QED
      BY <1>2, <3>1 DEF NoWorse
  <2>8. CASE UNCHANGED allVars
    <3>1. /\ UNCHANGED <<vars, snapshot, state>>
          /\ UNCHANGED <<phase, rest, paperGreedy, items, assignments>>
      BY <2>8 DEF allVars, planVars, snapshot, state
    <3>2. ASSUME ~paperGreedy
          PROVE  /\ SeedPlan' = SeedPlan /\ Hard(SeedPlan)' = Hard(SeedPlan)
                 /\ Hard(assignments)' = Hard(assignments)
      <4>1. SeedPlan' = SeedPlan /\ \A asg : Hard(asg)' = Hard(asg)
        BY <3>1, <3>2, SameHard
      <4>. QED
        BY <3>1, <4>1
    <3>. QED
      BY <1>2, <3>1, <3>2 DEF NoWorse
  <2>. QED
    BY <1>2, <2>1, <2>2, <2>3, <2>4, <2>5, <2>6, <2>7, <2>8 DEF PlanNext
<1>3. NoWorse => NoHarm
  BY DEF NoWorse, NoHarm, Hard
<1>. QED
  BY <1>1, <1>2, <1>3, PlanInvariance, PTL DEF PlanSpec
=============================================================================
