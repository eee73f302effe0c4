------------------------------- MODULE MCArcas -------------------------------
\* Three domains of one, one and two CPUs.
EXTENDS Arcas

MCDomainOf == [c \in Cpus |-> IF c <= 1 THEN c ELSE 2]

Task(t, kind, c, fill) == [tid |-> t, kind |-> kind, cpu |-> c, fill |-> fill]
MCMessages ==
    {Task(1, "work", 0, 0), Task(2, "work", 2, 1), Task(2, "helper", 0, 0)}

\* Any CPU; both pinned to one CPU; one pinned to a CPU of the domain of the other;
\* thread 2 moved away from its CPU while the mask of thread 1 is unreadable.
MCMaskViews ==
    {[t \in Tids |-> Cpus], [t \in Tids |-> {3}],
     [t \in Tids |-> IF t = 1 THEN {3} ELSE {2, 3}],
     [t \in Tids |-> IF t = 1 THEN {} ELSE {0, 1}]}

CpuState(idle, hot, tid) == [idle |-> idle, hot |-> hot, tid |-> tid]

\* All idle; CPU 2 taken by thread 2 and CPU 1 hot.
MCCpuViews ==
    {[c \in Cpus |-> CpuState(TRUE, FALSE, NoTid)],
     [c \in Cpus |-> IF c = 2 THEN CpuState(FALSE, FALSE, 2) ELSE CpuState(FALSE, c = 1, NoTid)]}
=============================================================================
