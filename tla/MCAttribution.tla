---------------------------- MODULE MCAttribution ----------------------------
(* A small instance of Attribution for TLC.                                 *)
EXTENDS Attribution, TLC

CONSTANTS l1, l2

\* Sound: links are not ordered, each has its own evidence, and no liveness is checked.
LinkSymmetry == Permutations(Links)

\* A thread at rest, one that reads memory, and one that shows in its L2 only.
MCTraffic ==
    {NoTraffic, [dram |-> 8, other |-> 4, l2 |-> 8], [dram |-> 0, other |-> 0, l2 |-> 3]}
=============================================================================
