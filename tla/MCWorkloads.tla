----------------------------- MODULE MCWorkloads -----------------------------
(* One workload and two more processes, or two workloads and one more.     *)
EXTENDS Workloads

MCCommandLines == {<<"taskset">>, <<"perf">>, <<"taskset", "perf">>}
=============================================================================
