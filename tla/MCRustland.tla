---------------------------- MODULE MCRustland ----------------------------
(* Small instances of Rustland for TLC.                                     *)
EXTENDS Rustland, TLC

CONSTANTS c1, c2, c3, t1, t2

TwoCpus == {c1, c2}
ThreeCpus == {c1, c2, c3}

\* The CPUs the user-space scheduler may not use are alike.
OtherCpus == Permutations({c2, c3})

\* Kicks and reschedules under way: two, or one beside an internal task that has
\* left the place it started from, and then the managed task keeps its mask.
Underway == Cardinality(kick) + Cardinality({c \in Cpus : pc[c] # "run"})
Untouched(t) == loc[t] = "asleep" /\ cpu[t] = c1 /\ mask[t] = Cpus
Limited ==
    IF \A t \in Internal : Untouched(t) THEN Underway <= 2
    ELSE Underway <= 1 /\ \A t \in Tasks \ Internal : mask[t] = Cpus
=============================================================================
