------------------------------ MODULE MCPlanner ------------------------------
(***************************************************************************)
(* Three threads, two of one process, on three domains: one of two CPUs,    *)
(* one of one, and one that is excluded.                                   *)
(***************************************************************************)
EXTENDS Planner

MCDomainOf == [c \in Cpus |-> IF c < 2 THEN 0 ELSE c - 1]
MCTgid == [t \in Tids |-> IF t = 3 THEN 2 ELSE 1]
MCCapacity == [d \in Domains |-> IF d = 0 THEN 6 ELSE 4]
MCPreviousCpus == {NoCpu, 0, 2}

Light == [df |-> 1, llc |-> 1]
Heavy == [df |-> 4, llc |-> 2]
AllHeavy == [t \in Tids |-> Heavy]
OneHeavy == [t \in Tids |-> IF t = 1 THEN Heavy ELSE Light]

Live(d0, d1) == [d \in Domains |-> CASE d = 0 -> [df |-> d0, llc |-> 1]
                                     [] d = 1 -> [df |-> d1, llc |-> 0]
                                     [] OTHER -> [df |-> 0, llc |-> 0]]
Free == [t \in Tids |-> {}]
FirstSettles == [Free EXCEPT ![1] = Domains]
Gone == 9       \* a thread that ended before the plan was made
Touch(tids, doms) == [sweep |-> FALSE, tids |-> tids, doms |-> doms]

Case(e, l, s, b, sc) == [effect |-> e, live |-> l, sync |-> s, barred |-> b, scope |-> sc]

MCSnapshots ==
    {Case(AllHeavy, Live(9, 0), {1, 2}, FirstSettles, Sweep),
     Case(OneHeavy, Live(2, 5), {}, FirstSettles, Sweep),
     Case(OneHeavy, Live(9, 0), {1, 2}, Free, Touch({3, Gone}, {})),
     Case(AllHeavy, Live(2, 5), {}, Free, Touch({}, {1})),
     Case(OneHeavy, Live(9, 0), {}, FirstSettles, Touch({1}, {}))}
=============================================================================
