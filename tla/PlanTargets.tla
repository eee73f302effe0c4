----------------------------- MODULE PlanTargets -----------------------------
(***************************************************************************)
(* assign_plan_target_cpus: the last step of compute_plan.  Every entry of *)
(* a plan has a target domain; here it gets a target CPU of that domain.   *)
(*                                                                         *)
(* First each entry is given a CPU, the most constrained entries first: the *)
(* one of the previous plan if it is still a candidate, else the one its    *)
(* thread used last if no candidate has a smaller load, else one of the     *)
(* smallest load.  Then, domain by domain, threads are moved from CPUs that *)
(* were given twice to CPUs that nobody has.  Only active threads count as  *)
(* load.  The snapshot the planner works from does not change on the way.   *)
(***************************************************************************)
EXTENDS Integers, FiniteSets

CONSTANTS
    Tids,           \* the threads the plan has an entry for
    Cpus,
    Domains,
    DomainOf,       \* topo.cpu_to_domain
    EligibleCpus,   \* mapping.eligible_cpus
    Masks,          \* inputs: the affinity masks a thread may have
    PreviousCpus,   \* inputs: target CPUs of the previous plan
    RecentCpus,     \* inputs: CPUs a thread used last
    ActiveSets      \* inputs: which threads are active

NoCpu == -1

ASSUME PlanAssumption ==
    /\ Tids \subseteq Nat /\ IsFiniteSet(Tids)
    /\ Cpus \subseteq Nat /\ IsFiniteSet(Cpus)
    /\ Domains \subseteq Nat /\ IsFiniteSet(Domains)
    /\ DomainOf \in [Cpus -> Domains]
    /\ EligibleCpus \subseteq Cpus
    /\ Masks \subseteq SUBSET Cpus
    /\ PreviousCpus \subseteq Cpus \cup {NoCpu}
    /\ RecentCpus \subseteq Cpus \cup {NoCpu}
    /\ ActiveSets \subseteq SUBSET Tids

VARIABLES
    allowed,    \* snapshot.allowed_cpus
    domain,     \* target_domain of each entry
    previous,   \* target_cpu of the previous plan's entry
    recent,     \* thread_cpu of the snapshot's thread
    active,     \* active_for_cpu_plan
    todo,       \* the entries without a CPU that have candidates
    target,     \* target_cpu of each entry
    loads,      \* cpu_loads
    repairing   \* the domains the repair has still to look at

inputs == <<allowed, domain, previous, recent, active>>
vars == <<inputs, todo, target, loads, repairing>>

InDomain(cpus, d) == {c \in cpus : DomainOf[c] = d}

\* The eligible CPUs of the target domain, or all of it if there are none.
candidate_cpus_for_plan_target(t) ==
    LET eligible == InDomain(allowed[t] \cap EligibleCpus, domain[t])
    IN  IF eligible # {} THEN eligible ELSE InDomain(allowed[t], domain[t])

\* Type invariant of the computation, used in the proofs.
TypeOK ==
    /\ allowed \in [Tids -> SUBSET Cpus]
    /\ domain \in [Tids -> Domains]
    /\ previous \in [Tids -> Cpus \cup {NoCpu}]
    /\ recent \in [Tids -> Cpus \cup {NoCpu}]
    /\ active \in SUBSET Tids
    /\ todo \in SUBSET Tids
    /\ target \in [Tids -> Cpus \cup {NoCpu}]
    /\ loads \in [Cpus -> SUBSET Tids]
    /\ repairing \in SUBSET Domains

Init ==
    /\ allowed \in [Tids -> Masks]
    /\ domain \in [Tids -> Domains]
    /\ previous \in [Tids -> PreviousCpus]
    /\ recent \in [Tids -> RecentCpus]
    /\ active \in ActiveSets
    /\ todo = {t \in Tids : candidate_cpus_for_plan_target(t) # {}}
    /\ target = [t \in Tids |-> NoCpu]
    /\ loads = [c \in Cpus |-> {}]
    /\ repairing = {domain[t] : t \in Tids}

-----------------------------------------------------------------------------

plan_cpu_load(c) == Cardinality(loads[c])

\* Domain by domain; in a domain by the number of candidates, the size of the
\* mask and the thread id.
OrderKey(t) == <<domain[t], Cardinality(candidate_cpus_for_plan_target(t)),
                 Cardinality(allowed[t]), t>>

Earlier(k, l) ==
    \E i \in DOMAIN k : k[i] < l[i] /\ \A j \in 1..(i - 1) : k[j] = l[j]

NextEntry(t) == \A u \in todo \ {t} : Earlier(OrderKey(t), OrderKey(u))

LeastLoaded(c, cands) == \A e \in cands : plan_cpu_load(c) <= plan_cpu_load(e)

\* Mutant: the recent CPU before the one of the previous plan.
SelectedCpu_recent_first(t, c) ==
    LET cands == candidate_cpus_for_plan_target(t)
    IN  IF recent[t] \in cands /\ LeastLoaded(recent[t], cands)
        THEN c = recent[t]
        ELSE c \in cands /\ LeastLoaded(c, cands)

SelectedCpu(t, c) ==
    LET cands == candidate_cpus_for_plan_target(t)
    IN  CASE previous[t] \in cands -> c = previous[t]
          [] previous[t] \notin cands /\ recent[t] \in cands
                /\ LeastLoaded(recent[t], cands) -> c = recent[t]
          [] OTHER -> /\ c \in cands
                      /\ LeastLoaded(c, cands)
                      /\ \A e \in cands : LeastLoaded(e, cands) => c <= e

AssignCpu(t) ==
    /\ t \in todo
    /\ NextEntry(t)
    /\ \E c \in candidate_cpus_for_plan_target(t) :
        /\ SelectedCpu(t, c)
        /\ target' = [target EXCEPT ![t] = c]
        /\ loads' = [loads EXCEPT ![c] = IF t \in active THEN @ \cup {t} ELSE @]
    /\ todo' = todo \ {t}
    /\ UNCHANGED <<inputs, repairing>>

-----------------------------------------------------------------------------

\* The free CPUs some entry of the domain could use.
FreeCpus(d) ==
    {c \in UNION {candidate_cpus_for_plan_target(t) : t \in {u \in Tids : domain[u] = d}} :
        loads[c] = {}}

\* Mutant: a CPU counts as shared from three threads on.
SharedCpus_above_two(d) == {c \in InDomain(Cpus, d) : Cardinality(loads[c]) > 2}

\* Mutant: a CPU counts as shared from one thread on.
SharedCpus_from_one(d) == {c \in InDomain(Cpus, d) : loads[c] # {}}

SharedCpus(d) == {c \in InDomain(Cpus, d) : Cardinality(loads[c]) > 1}

\* Mutant: the candidates of the thread that is moved are not looked at.
Repairs_any_thread(d) ==
    {r \in FreeCpus(d) \X SharedCpus(d) \X Tids : r[3] \in loads[r[2]]}

Repairs(d) ==
    {r \in FreeCpus(d) \X SharedCpus(d) \X Tids :
        /\ r[3] \in loads[r[2]]
        /\ r[1] \in candidate_cpus_for_plan_target(r[3])}

\* The first free CPU, for it the first shared one, and of its threads one that
\* was on the free CPU before, else one that was not on the shared one.
RepairKey(r) ==
    <<r[1], r[2], IF recent[r[3]] = r[1] THEN 0 ELSE 1,
      IF recent[r[3]] = r[2] THEN 1 ELSE 0, r[3]>>

FirstDomain(d) == d \in repairing /\ \A e \in repairing : d <= e

Repair(d) ==
    /\ todo = {}
    /\ FirstDomain(d)
    /\ \E r \in Repairs(d) :
        /\ \A s \in Repairs(d) \ {r} : Earlier(RepairKey(r), RepairKey(s))
        /\ target' = [target EXCEPT ![r[3]] = r[1]]
        /\ loads' = [loads EXCEPT ![r[2]] = @ \ {r[3]}, ![r[1]] = @ \cup {r[3]}]
    /\ UNCHANGED <<inputs, todo, repairing>>

DomainRepaired(d) ==
    /\ todo = {}
    /\ FirstDomain(d)
    /\ Repairs(d) = {}
    /\ repairing' = repairing \ {d}
    /\ UNCHANGED <<inputs, todo, target, loads>>

Done == todo = {} /\ repairing = {}

Next ==
    \/ \E t \in Tids : AssignCpu(t)
    \/ \E d \in Domains : Repair(d) \/ DomainRepaired(d)

Spec == Init /\ [][Next]_vars

-----------------------------------------------------------------------------

\* The loads the choices and the repair go by are those of the plan: an active
\* thread counts on its target CPU and nowhere else (cpu_loads is kept beside the
\* entries and updated at three places of the two functions).
LoadsExact ==
    \A t \in Tids, c \in Cpus : t \in loads[c] <=> t \in active /\ target[t] = c

\* An entry that has a CPU has one of its domain and its mask, also after the
\* repair moved it, and an eligible one wherever its mask has one there.
TargetLegal ==
    \A t \in Tids : target[t] # NoCpu => target[t] \in candidate_cpus_for_plan_target(t)

\* When the repair is over, no active thread shares a CPU while a CPU it could use
\* is free.
NoAvoidableSharing ==
    Done => \A c \in Cpus : \A t \in loads[c] :
              loads[c] # {t} => \A e \in candidate_cpus_for_plan_target(t) : loads[e] # {}

\* The finished plan only takes a thread off a CPU it may keep if that CPU is given
\* to another active thread: plans do not shuffle threads for nothing.
TargetsSticky ==
    Done => \A t \in Tids :
              previous[t] \in candidate_cpus_for_plan_target(t) =>
                target[t] = previous[t] \/ \E u \in loads[previous[t]] : u # t
=============================================================================
