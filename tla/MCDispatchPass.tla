---------------------------- MODULE MCDispatchPass ----------------------------
(* A small instance of DispatchPass for TLC.                                *)
EXTENDS DispatchPass

\* Domain 0 has two CPUs, domain 1 one; domain 2 is excluded.
MCDomainOf == [c \in Cpus |-> IF c <= 1 THEN 0 ELSE c - 1]

\* A woken and an interrupted thread, and one on a CPU of the excluded domain.
MCMessages ==
    {[tid |-> 1, cpu |-> 0, tick |-> FALSE], [tid |-> 2, cpu |-> 0, tick |-> FALSE],
     [tid |-> 2, cpu |-> 1, tick |-> TRUE], [tid |-> 1, cpu |-> 3, tick |-> FALSE]}

\* Any CPU; a mask without CPU 0; a mask that could not be read.
MCMaskViews ==
    {[t \in Tids |-> Cpus], [t \in Tids |-> IF t = 1 THEN Cpus ELSE {1, 3}],
     [t \in Tids |-> IF t = 1 THEN {} ELSE {2}]}

CpuState(idle, hot, tid) == [idle |-> idle, hot |-> hot, tid |-> tid]

\* All idle; CPU 0 taken by thread 2 and CPU 1 idle; none idle and CPU 1 hot.
MCCpuViews ==
    {[c \in Cpus |-> CpuState(TRUE, FALSE, NoTid)],
     [c \in Cpus |-> IF c = 0 THEN CpuState(FALSE, FALSE, 2) ELSE CpuState(c # 2, FALSE, NoTid)],
     [c \in Cpus |-> CpuState(FALSE, c = 1, NoTid)]}

PlanTo(d, c) == [dom |-> d, cpu |-> c]

\* Both threads to domain 1, one without a CPU; CPUs swapped in domain 0.
MCPlanEntries ==
    {[t \in Tids |-> IF t = 1 THEN PlanTo(1, 2) ELSE PlanTo(1, NoCpu)],
     [t \in Tids |-> IF t = 1 THEN PlanTo(0, 1) ELSE PlanTo(0, 0)]}
=============================================================================
