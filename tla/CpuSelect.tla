------------------------------ MODULE CpuSelect ------------------------------
(***************************************************************************)
(* policy/cpu_select.rs: the choice of a CPU for a thread, which the       *)
(* placement policies of all builds share.  A choice goes by the CPU       *)
(* states of the pass and by the jobs planned for each CPU.                *)
(*                                                                         *)
(* A utilisation is only high or not: of CPUs that differ in nothing else  *)
(* any may be chosen.  A choice is the set of CPUs the code may arrive at; *)
(* NoCpu in it says that it may also find none.                            *)
(***************************************************************************)
EXTENDS Integers, Sequences, FiniteSets

CONSTANTS
    Tids, Cpus, Domains,
    DomainOf            \* topo.cpu_to_domain

VARIABLES
    view,       \* cpu_states of this pass
    jobs        \* planned_cpu_states: the jobs of each CPU

NoCpu == -1
NoDomain == -1
NoTid == 0

\* idle: nothing runs or waits there and the utilisation is not high.
CpuStateValue == [idle : BOOLEAN, hot : BOOLEAN, tid : Tids \cup {NoTid}]

ASSUME TopologyAssumption ==
    /\ Tids \subseteq Nat \ {NoTid} /\ IsFiniteSet(Tids)
    /\ Cpus \subseteq Nat /\ IsFiniteSet(Cpus)
    /\ Domains \subseteq Nat /\ IsFiniteSet(Domains)
    /\ DomainOf \in [Cpus -> Domains]

InDomain(cpus, d) == {c \in cpus : DomainOf[c] = d}

Found(choice) == choice \ {NoCpu}
MayFail(choice) == choice = {} \/ NoCpu \in choice

\* The first of several choices that finds a CPU, like a chain of or_else.
OrElse(choices) ==
    {c \in Cpus : \E i \in DOMAIN choices :
        c \in Found(choices[i]) /\ \A j \in 1..(i - 1) : MayFail(choices[j])}

effectively_idle_cpu(c) == view[c].idle
TakenByOther(c, t) == view[c].tid \notin {NoTid, t}
planned_jobs_len(c) == Cardinality(jobs[c])

\* Mutant: a CPU that is shared already may be shared further.
planned_cpu_available_once_shared(c, t, cpus) ==
    jobs[c] \subseteq {t} \/ planned_jobs_len(c) > 1

planned_cpu_available_for_task(c, t, cpus) ==
    \/ jobs[c] \subseteq {t}
    \/ planned_jobs_len(c) > 1 /\ \A e \in cpus \ {c} : ~effectively_idle_cpu(e)

current_cpu_available_for_task(c, t, cpus) ==
    \/ planned_jobs_len(c) > 1 /\ t \notin jobs[c]
    \/ planned_cpu_available_for_task(c, t, cpus)

Least(cpus, key(_)) ==
    {c \in cpus : \A e \in cpus : key(c) <= key(e)}

choose_idle_cpu_in_domain(d, cpus) ==
    Least({c \in InDomain(cpus, d) : effectively_idle_cpu(c)}, planned_jobs_len)

\* Idle before not idle, then not taken before taken, then by planned jobs.
choose_cpu_in_domain(d, cpus, t) ==
    LET rank(c) == IF effectively_idle_cpu(c) THEN 0 ELSE 1
        taken(c) == IF TakenByOther(c, t) THEN 1 ELSE 0
    IN  Least(Least(Least(InDomain(cpus, d), rank), taken), planned_jobs_len)

preferred_cpu_in_domain(c, d, cpus, t) ==
    {e \in InDomain(cpus, d) : e = c /\ ~view[e].hot /\ ~TakenByOther(e, t)}

current_cpu_in_domain(c, d, cpus) == InDomain(cpus, d) \cap {c}

\* An idle CPU is worth leaving the current one for when another thread has that.
should_rebalance_to_idle_sibling(current, t, idle) ==
    {IF c # current /\ TakenByOther(current, t) THEN c ELSE NoCpu : c \in idle}

=============================================================================
