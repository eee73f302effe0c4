---------------------------- MODULE DispatchPass ----------------------------
(***************************************************************************)
(* Where a pass of app::run sends the threads that wait for a decision.    *)
(*                                                                         *)
(* A pass takes a snapshot (masks, CPU states, thread table, active plan)  *)
(* and builds from it a ledger, DispatchBatchReservations, of the threads  *)
(* each domain and each CPU has or will have.  It first reserves a CPU for *)
(* every waiting thread, then decides the messages one after the other, by *)
(* the plan or else by choose_placement, and enters every decision into    *)
(* the ledger, which the next decision goes by.                            *)
(*                                                                         *)
(* Load figures are left out.  A utilisation is only high or not, so of    *)
(* CPUs that differ in nothing but utilisation any may be chosen; whether  *)
(* the pressures of two domains justify a move is a free choice, as is     *)
(* whether a thread is young and whether a run gives it a signature.       *)
(* settle_until_ns and reverse_protect_until_ns are set together and to    *)
(* the same value (REVERSE_HYSTERESIS_MULTIPLIER is 1): one flag stands    *)
(* for both.  signature_snapshots is on.                                   *)
(***************************************************************************)
EXTENDS CpuSelect

CONSTANTS
    EligibleCpus,       \* mapping.eligible_cpus
    EligibleDomains,    \* mapping.eligible_domains; the others are excluded
    Messages,           \* inputs: what dequeue_task may return
    MaskViews,          \* inputs: what the affinity cache may return
    CpuViews,           \* inputs: what read_cpu_states may return
    PlanEntries,        \* inputs: the entries a plan may have
    MaxPending          \* bound: messages waiting at once

QueuedTask == [tid : Tids, cpu : Cpus, tick : BOOLEAN]
PlanEntry == [dom : Domains \cup {NoDomain}, cpu : Cpus \cup {NoCpu}]
ManagedThread == [cpu : Cpus \cup {NoCpu}, decided : BOOLEAN, settling : BOOLEAN,
                  signature : {"none", "noted", "valid"}]
Decision == [tid : Tids, from : Cpus, dom : Domains, cpu : Cpus,
             reason : {"stay", "move", "escape", "spread"}, planned : BOOLEAN]

ASSUME PassAssumption ==
    /\ EligibleDomains \subseteq Domains
    /\ EligibleCpus \subseteq {c \in Cpus : DomainOf[c] \in EligibleDomains}
    /\ Messages \subseteq QueuedTask
    /\ MaskViews \subseteq [Tids -> SUBSET Cpus]
    /\ CpuViews \subseteq [Cpus -> CpuStateValue]
    /\ PlanEntries \subseteq [Tids -> PlanEntry]
    /\ MaxPending \in Nat

VARIABLES
    pc,         \* "idle", "reserve" or "dispatch"
    pending,    \* the messages waiting for a decision
    deferred,   \* those put off in this pass
    table,      \* the thread table; a thread without CPU is not in it
    plan,       \* the entries of active_plan; an entry without domain is none
    current,    \* plan_is_current
    allowed,    \* allowed_cpus_by_tid of this pass; {}: the lookup failed
    domainBy,   \* the ledger: domain_by_tid,
    cpuBy,      \*   cpu_by_tid,
    tasks,      \*   and of each domain: task_count,
    budget,     \*     migration_budget,
    outgoing,   \*     outgoing_migrations,
    incoming,   \*     incoming_migrations
    todo,       \* threads the reservation has still to look at
    targetCpu,  \* target_cpus: what it reserved
    sent,       \* the decisions of this pass that reached the user ring buffer
    lately      \* history: threads sent to another domain within migrate_settle_ms

snapshot == <<allowed, view>>
domainLedger == <<domainBy, tasks, budget, outgoing, incoming>>
cpuLedger == <<cpuBy, jobs>>
vars == <<pc, pending, deferred, table, plan, current, snapshot, domainLedger,
          cpuLedger, todo, targetCpu, sent, lately>>

\* Type invariant of the pass and its ledger: no counter falls below zero.
TypeOK ==
    /\ pc \in {"idle", "reserve", "dispatch"}
    /\ pending \in Seq(QueuedTask) /\ deferred \in Seq(QueuedTask)
    /\ table \in [Tids -> ManagedThread]
    /\ plan \in [Tids -> PlanEntry] /\ current \in BOOLEAN
    /\ allowed \in [Tids -> SUBSET Cpus]
    /\ view \in [Cpus -> CpuStateValue]
    /\ domainBy \in [Tids -> Domains \cup {NoDomain}]
    /\ cpuBy \in [Tids -> Cpus \cup {NoCpu}]
    /\ jobs \in [Cpus -> SUBSET Tids]
    /\ tasks \in [Domains -> Nat] /\ budget \in [Domains -> Nat]
    /\ outgoing \in [Domains -> Nat] /\ incoming \in [Domains -> Nat]
    /\ todo \in SUBSET Tids
    /\ targetCpu \in [Tids -> Cpus \cup {NoCpu}]
    /\ sent \in Seq(Decision)
    /\ lately \subseteq Tids

All(S, value) == [x \in S |-> value]
Unknown == [idle |-> FALSE, hot |-> FALSE, tid |-> NoTid]
NoThread == [cpu |-> NoCpu, decided |-> FALSE, settling |-> FALSE,
             signature |-> "none"]

Init ==
    /\ pc = "idle" /\ pending = <<>> /\ deferred = <<>>
    /\ table = All(Tids, NoThread)
    /\ plan = All(Tids, [dom |-> NoDomain, cpu |-> NoCpu]) /\ current = FALSE
    /\ allowed = All(Tids, {}) /\ view = All(Cpus, Unknown)
    /\ domainBy = All(Tids, NoDomain) /\ cpuBy = All(Tids, NoCpu) /\ jobs = All(Cpus, {})
    /\ tasks = All(Domains, 0) /\ budget = All(Domains, 0)
    /\ outgoing = All(Domains, 0) /\ incoming = All(Domains, 0)
    /\ todo = {} /\ targetCpu = All(Tids, NoCpu) /\ sent = <<>>
    /\ lately = {}

-----------------------------------------------------------------------------
(* Between passes.                                                         *)

\* The planner's results are received.
AdoptPlan ==
    /\ pc = "idle"
    /\ plan' \in PlanEntries
    /\ current' = TRUE
    /\ UNCHANGED <<pc, pending, deferred, table, snapshot, domainLedger, cpuLedger,
                   todo, targetCpu, sent, lately>>

\* The sweeps have moved on by more than one since the plan was built.
PlanAges ==
    /\ pc = "idle"
    /\ current
    /\ current' = FALSE
    /\ UNCHANGED <<pc, pending, deferred, table, plan, snapshot, domainLedger,
                   cpuLedger, todo, targetCpu, sent, lately>>

\* A thread is gone; the plan may still have an entry for it.
prune_dead_threads(t) ==
    /\ pc = "idle"
    /\ table[t].cpu # NoCpu
    /\ table' = [table EXCEPT ![t] = NoThread]
    /\ lately' = lately \ {t}
    /\ UNCHANGED <<pc, pending, deferred, plan, current, snapshot, domainLedger,
                   cpuLedger, todo, targetCpu, sent>>

\* Time passes: also in the middle of a pass, which reads the clock per message.
SettleEnds(t) ==
    /\ table[t].settling \/ t \in lately
    /\ table' = [table EXCEPT ![t].settling = FALSE]
    /\ lately' = lately \ {t}
    /\ UNCHANGED <<pc, pending, deferred, plan, current, snapshot, domainLedger,
                   cpuLedger, todo, targetCpu, sent>>

-----------------------------------------------------------------------------
(* The ledger.                                                             *)

MessagesOf(t, queue) == {i \in 1..Len(queue) : queue[i].tid = t}
FirstOf(t, queue) == CHOOSE i \in MessagesOf(t, queue) : \A j \in MessagesOf(t, queue) : i <= j
LastOf(t, queue) == CHOOSE i \in MessagesOf(t, queue) : \A j \in MessagesOf(t, queue) : j <= i

\* thread_cpu reads last_observed_cpu until a first decision sets last_selected_cpu.
refresh_thread_from_task(t, queue) ==
    IF MessagesOf(t, queue) = {} \/ table[t].decided THEN table[t]
    ELSE [table[t] EXCEPT !.cpu = queue[LastOf(t, queue)].cpu]

\* The bandwidths noted at the dispatch of a thread (capture_dispatch_snapshot) are
\* compared with the present ones once, by its next message, which may or may not show
\* what the thread adds.  A valid signature is only refined by later ones.
update_thread_signature(e, shows) ==
    IF e.signature = "noted" THEN [e EXCEPT !.signature = IF shows THEN "valid" ELSE "none"]
    ELSE e

capture_dispatch_snapshot(signature) == IF signature = "valid" THEN "valid" ELSE "noted"

Planned(t) == current /\ plan[t].dom # NoDomain

build_planned_thread_domains(t, queue) ==
    CASE Planned(t) -> plan[t].dom
      [] ~Planned(t) /\ MessagesOf(t, queue) # {} -> DomainOf[queue[LastOf(t, queue)].cpu]
      [] OTHER -> IF table[t].cpu = NoCpu THEN NoDomain ELSE DomainOf[table[t].cpu]

build_planned_thread_cpus(t, queue) ==
    IF Planned(t) /\ plan[t].cpu # NoCpu THEN plan[t].cpu
    ELSE refresh_thread_from_task(t, queue).cpu

round_migration_budget(n) == LET b == (n + 6) \div 4 IN IF b < 1 THEN 1 ELSE IF b > 4 THEN 4 ELSE b

\* Every thread of the table counts in its planned domain, which is then given its
\* budget.
build_planned_domain_states ==
    /\ tasks' = [d \in Domains |->
                    Cardinality({t \in Tids : table'[t].cpu # NoCpu /\ domainBy'[t] = d})]
    /\ budget' = [d \in Domains |->
                    round_migration_budget(IF tasks'[d] = 0 THEN 1 ELSE tasks'[d])]
    /\ outgoing' = All(Domains, 0) /\ incoming' = All(Domains, 0)

build_planned_cpu_states == jobs' = [c \in Cpus |-> {t \in Tids : cpuBy'[t] = c}]

from_snapshot(queue) ==
    /\ domainBy' = [t \in Tids |-> build_planned_thread_domains(t, queue)]
    /\ cpuBy' = [t \in Tids |-> build_planned_thread_cpus(t, queue)]
    /\ build_planned_cpu_states
    /\ build_planned_domain_states

\* Mutant: the CPU the thread runs on is taken for the one it is booked on.
apply_cpu_assignment_from_task(m, c) ==
    /\ jobs' = [e \in Cpus |-> IF e = c THEN jobs[e] \cup {m.tid}
                               ELSE IF e = m.cpu THEN jobs[e] \ {m.tid} ELSE jobs[e]]
    /\ cpuBy' = [cpuBy EXCEPT ![m.tid] = c]

\* The source is the CPU the thread is booked on.
apply_planned_cpu_assignment(m, c) ==
    LET source == IF cpuBy[m.tid] # NoCpu THEN cpuBy[m.tid] ELSE m.cpu
    IN  /\ jobs' = [e \in Cpus |-> IF e = c THEN jobs[e] \cup {m.tid}
                                   ELSE IF e = source THEN jobs[e] \ {m.tid} ELSE jobs[e]]
        /\ cpuBy' = [cpuBy EXCEPT ![m.tid] = c]

\* The source is the domain the thread runs in.
apply_planned_migration(m, d) ==
    LET source == DomainOf[m.cpu]
    IN  /\ domainBy' = [domainBy EXCEPT ![m.tid] = d]
        /\ IF source = d
           THEN UNCHANGED <<tasks, outgoing, incoming>>
           ELSE /\ tasks' = [tasks EXCEPT ![source] = IF @ = 0 THEN 0 ELSE @ - 1, ![d] = @ + 1]
                /\ outgoing' = [outgoing EXCEPT ![source] = @ + 1]
                /\ incoming' = [incoming EXCEPT ![d] = @ + 1]
        /\ UNCHANGED budget

-----------------------------------------------------------------------------
(* Choice of a CPU.                                                        *)

\* Eligible CPUs are preferred to the rest of the mask.
Preference(t) == <<allowed[t] \cap EligibleCpus, allowed[t]>>

preferred_reserved_cpu_for_selected_domain(c, d, t) ==
    OrElse([i \in 1..2 |->
        {e \in preferred_cpu_in_domain(c, d, Preference(t)[i], t) :
            planned_cpu_available_for_task(e, t, InDomain(Preference(t)[i], d))}])

\* choose_cpu_for_planned_domain, and with stay the choice of a CPU to stay on:
\* a thread that was interrupted by a tick keeps its CPU, then its CPU if idle, an
\* idle CPU if another thread has its own, its CPU if not taken, any.
CpuForDomain(m, d, stay) ==
    LET available(c, cpus) ==
            IF stay THEN current_cpu_available_for_task(c, m.tid, InDomain(cpus, d))
            ELSE planned_cpu_available_for_task(c, m.tid, InDomain(cpus, d))
        own(i) == current_cpu_in_domain(m.cpu, d, Preference(m.tid)[i])
        tickOwn(i) == {c \in own(i) : m.tick /\ DomainOf[m.cpu] = d /\ d \in EligibleDomains}
        idleOwn(i) == {c \in own(i) : effectively_idle_cpu(c) /\ available(c, Preference(m.tid)[i])}
        freeOwn(i) == {c \in own(i) : ~TakenByOther(c, m.tid) /\ available(c, Preference(m.tid)[i])}
        bestIdle == OrElse([i \in 1..2 |-> choose_idle_cpu_in_domain(d, Preference(m.tid)[i])])
        sibling == should_rebalance_to_idle_sibling(m.cpu, m.tid, bestIdle)
        any(i) == choose_cpu_in_domain(d, Preference(m.tid)[i], m.tid)
    IN  OrElse(<<tickOwn(1), tickOwn(2), idleOwn(1), idleOwn(2), sibling,
                 freeOwn(1), freeOwn(2), any(1), any(2)>>)

candidate_cpus_for_target_domain(t, d) ==
    LET eligible == InDomain(Preference(t)[1], d)
    IN  IF eligible # {} THEN eligible ELSE InDomain(allowed[t], d)

allowed_domains_from_cpus(cpus) == {DomainOf[c] : c \in cpus} \cap EligibleDomains

-----------------------------------------------------------------------------
(* The start of a pass.                                                    *)

Legal(t, d, m) == d \in allowed_domains_from_cpus(allowed[t]) \cup {DomainOf[m.cpu]}

\* The masks of the waiting threads, as far as the affinity cache knows them.
collect_allowed_cpus_for_pending(queue) ==
    \E masks \in MaskViews :
        allowed' = [t \in Tids |-> IF MessagesOf(t, queue) = {} THEN {} ELSE masks[t]]

\* Messages arrive, the snapshot is taken and the ledger built from it.
StartPass ==
    /\ pc = "idle"
    /\ \E n \in 0..(MaxPending - Len(pending)) : \E new \in [1..n -> Messages] :
        LET queue == pending \o new
        IN  /\ queue # <<>>
            /\ pending' = queue
            /\ \E shows \in [Tids -> BOOLEAN] :
                table' = [t \in Tids |->
                            IF MessagesOf(t, queue) = {} THEN table[t]
                            ELSE update_thread_signature(refresh_thread_from_task(t, queue),
                                                         shows[t])]
            /\ collect_allowed_cpus_for_pending(queue)
            /\ from_snapshot(queue)
            /\ todo' = {t \in Tids : MessagesOf(t, queue) # {}}
    /\ view' \in CpuViews
    /\ pc' = "reserve"
    /\ UNCHANGED <<deferred, plan, current, targetCpu, sent, lately>>

First(t) == pending[FirstOf(t, pending)]

\* The threads build_burst_target_cpu_plan has candidates for, in its order.
Reservable(t) ==
    /\ Legal(t, domainBy[t], First(t))
    /\ candidate_cpus_for_target_domain(t, domainBy[t]) # {}
ReserveKey(t) ==
    <<Cardinality(candidate_cpus_for_target_domain(t, domainBy[t])),
      Cardinality(allowed[t]), FirstOf(t, pending)>>
Earlier(k, l) ==
    \E i \in DOMAIN k : k[i] < l[i] /\ \A j \in 1..(i - 1) : k[j] = l[j]

\* Threads without candidates have no turn.
Turn(t) ==
    /\ t \in todo
    /\ Reservable(t)
    /\ \A u \in todo \ {t} : Reservable(u) => Earlier(ReserveKey(t), ReserveKey(u))

\* The current plan gives the thread a CPU it may have.
Fixed(t) == Planned(t) /\ plan[t].cpu \in candidate_cpus_for_target_domain(t, domainBy[t])

build_burst_target_cpu_plan(t) ==
    LET d == domainBy[t]
        choice == IF Fixed(t) THEN {plan[t].cpu}
                  ELSE OrElse(<<preferred_reserved_cpu_for_selected_domain(cpuBy[t], d, t),
                                CpuForDomain(First(t), d, FALSE)>>)
    IN  /\ pc = "reserve"
        /\ Turn(t)
        /\ todo' = todo \ {t}
        /\ \E c \in choice :
            /\ apply_planned_cpu_assignment(First(t), c)
            /\ targetCpu' = [targetCpu EXCEPT ![t] = c]
        /\ UNCHANGED <<pc, pending, deferred, table, plan, current, snapshot,
                       domainLedger, sent, lately>>

\* What was reserved becomes part of a current plan.
EndReserve ==
    /\ pc = "reserve"
    /\ \A t \in todo : ~Reservable(t)
    /\ plan' = [t \in Tids |->
                  IF current /\ plan[t].dom # NoDomain /\ targetCpu[t] # NoCpu
                  THEN [plan[t] EXCEPT !.cpu = targetCpu[t]] ELSE plan[t]]
    /\ todo' = {}
    /\ pc' = "dispatch"
    /\ UNCHANGED <<pending, deferred, table, current, snapshot, domainLedger,
                   cpuLedger, targetCpu, sent, lately>>

-----------------------------------------------------------------------------
(* The decision about one message.                                         *)

Excluded(m) == DomainOf[m.cpu] \notin EligibleDomains

Decided(m, d, c, reason, planned) ==
    [tid |-> m.tid, from |-> m.cpu, dom |-> d, cpu |-> c, reason |-> reason, planned |-> planned]

\* A thread may change its domain by the plan (planned_decision) ...
PlanSettled(m) == Excluded(m) \/ ~table[m.tid].settling

\* ... or for balance (choose_placement) only outside its settle window.
FallbackSettled(m) == Excluded(m) \/ ~table[m.tid].settling

\* The budgets for leaving a domain and for entering one.
MayLeave(m) == Excluded(m) \/ outgoing[DomainOf[m.cpu]] < budget[DomainOf[m.cpu]]
MayEnter(d) == incoming[d] < budget[d]

\* The decision the plan makes; none if it does not apply.
planned_decision(m) ==
    LET d == plan[m.tid].dom
        stays == d = DomainOf[m.cpu]
        cpus == IF plan[m.tid].cpu \in candidate_cpus_for_target_domain(m.tid, d)
                THEN {plan[m.tid].cpu} ELSE CpuForDomain(m, d, FALSE)
        applies == Legal(m.tid, d, m) /\ (stays \/ (PlanSettled(m) /\ MayLeave(m) /\ MayEnter(d)))
        reason == IF stays THEN "stay" ELSE IF Excluded(m) THEN "escape" ELSE "move"
    IN  IF Planned(m.tid) /\ applies
        THEN {Decided(m, d, c, reason, TRUE) : c \in cpus} ELSE {}

\* Tasks beyond the CPUs a thread may use in a domain.
Extra(t, d, n) ==
    LET cpus == Cardinality(InDomain(allowed[t], d)) IN IF n > cpus THEN n - cpus ELSE 0

\* SlotCapacityConstraint of two domains with n and k tasks.
SlotConstraint(t, d, n, e, k) ==
    [extra |-> Extra(t, d, n) + Extra(t, e, k),
     over |-> Cardinality({i \in 1..2 : (<<Extra(t, d, n), Extra(t, e, k)>>)[i] > 0})]

\* is_better_than needs a hard constraint that is not worse.
SlotsNotWorse(t, source, d) ==
    LET n == tasks[source]
        before == SlotConstraint(t, source, n, d, tasks[d])
        after == SlotConstraint(t, source, IF n = 0 THEN 0 ELSE n - 1, d, tasks[d] + 1)
    IN  \/ after.extra < before.extra
        \/ after.extra = before.extra /\ after.over <= before.over

stay_cpu(m) == CpuForDomain(m, DomainOf[m.cpu], TRUE)

\* A thread that finds no CPU in its domain stays where it is.
stay_selected_cpu(m) == OrElse(<<stay_cpu(m), {m.cpu}>>)

\* No domain passed the scan, whatever was against them.
Stays(m) ==
    {Decided(m, DomainOf[m.cpu], c, "stay", FALSE) : c \in stay_selected_cpu(m)}

\* Of the idle CPUs that choose_cpu_in_domain gives for the eligible domains those in
\* the domain with the fewest tasks, then with the fewest planned jobs.
SpreadCpus(m, cpus) ==
    LET idle == {c \in UNION {choose_cpu_in_domain(d, cpus, m.tid) : d \in EligibleDomains} :
                    effectively_idle_cpu(c)}
        domainTasks(c) == tasks[DomainOf[c]]
    IN  Least(Least(idle, domainTasks), planned_jobs_len)

\* A young thread is spread over the machine when it wakes up.
choose_idle_spread_target(m) ==
    {Decided(m, DomainOf[c], c, "spread", FALSE) :
        c \in {c \in OrElse([i \in 1..2 |-> SpreadCpus(m, Preference(m.tid)[i])]) :
                ~m.tick /\ c # m.cpu}}

\* What lets the scan pass a domain: a thread that leaves an excluded domain goes
\* anywhere, any other must be known and not make the slots worse; the pressures, the
\* phase gate and the margin may still be against it.
Worth(m, d) ==
    \/ Excluded(m)
    \/ table[m.tid].signature = "valid" /\ SlotsNotWorse(m.tid, DomainOf[m.cpu], d)

\* The scan of the other domains: a CPU of each within the budget.
Candidates(m) ==
    LET open == {d \in EligibleDomains \ {DomainOf[m.cpu]} : Excluded(m) \/ MayEnter(d)}
    IN  UNION {choose_cpu_in_domain(d, Preference(m.tid)[1], m.tid) :
                 d \in {d \in open : Worth(m, d)}}

\* Any candidate may be the best.
Moves(m) ==
    {Decided(m, DomainOf[c], c, IF Excluded(m) THEN "escape" ELSE "move", FALSE) :
        c \in {c \in Candidates(m) : FallbackSettled(m) /\ MayLeave(m)}}

choose_placement(m) == Stays(m) \cup choose_idle_spread_target(m) \cup Moves(m)

\* Mutant: the reserved CPU is taken whatever domain was selected.
ReservedCpu_anywhere(s) ==
    LET target == IF plan[s.tid].dom # NoDomain /\ plan[s.tid].cpu # NoCpu
                  THEN plan[s.tid].cpu ELSE targetCpu[s.tid]
    IN  IF target \in allowed[s.tid] THEN {target} ELSE {s.cpu}

\* The reserved CPU replaces the selected one if it is in the selected domain.  The
\* plan's CPU is taken for reserved even if the plan is no longer current.
ReservedCpu(s) ==
    LET target == IF plan[s.tid].dom # NoDomain /\ plan[s.tid].cpu # NoCpu
                  THEN plan[s.tid].cpu ELSE targetCpu[s.tid]
        reserved == preferred_reserved_cpu_for_selected_domain(target, s.dom, s.tid)
    IN  IF reserved # {} THEN reserved ELSE {s.cpu}

Decisions(m) ==
    LET selected == IF planned_decision(m) # {} THEN planned_decision(m) ELSE choose_placement(m)
    IN  UNION {{[s EXCEPT !.cpu = c] : c \in ReservedCpu(s)} : s \in selected}

-----------------------------------------------------------------------------
(* The dispatch loop.                                                      *)

NextMessage == pc = "dispatch" /\ pending # <<>>

\* The mask of the thread could not be read.
DropDead ==
    /\ NextMessage
    /\ allowed[Head(pending).tid] = {}
    /\ pending' = Tail(pending)
    /\ UNCHANGED <<pc, deferred, table, plan, current, snapshot, domainLedger,
                   cpuLedger, todo, targetCpu, sent, lately>>

Known(c, m) == [table[m.tid] EXCEPT !.cpu = c, !.decided = TRUE]

\* The villain control puts a tick message off.
DeferDispatch ==
    LET m == Head(pending)
    IN  /\ NextMessage
        /\ allowed[m.tid] # {} /\ m.tick
        /\ table' = [table EXCEPT ![m.tid] = Known(m.cpu, m)]
        /\ pending' = Tail(pending)
        /\ deferred' = Append(deferred, m)
        /\ UNCHANGED <<pc, plan, current, snapshot, domainLedger, cpuLedger, todo,
                       targetCpu, sent, lately>>

\* Mutant: a spread is not taken for a migration.
StartsSettling_moves(m, s) == s.dom # DomainOf[m.cpu] /\ s.reason # "spread"

\* Whatever its reason, a decision for another domain starts the settle window.
StartsSettling(m, s) == s.dom # DomainOf[m.cpu]

\* The decision is sent and entered into the ledger.
Dispatch ==
    LET m == Head(pending)
    IN  /\ NextMessage
        /\ allowed[m.tid] # {}
        /\ \E s \in Decisions(m) :
            LET crosses == s.dom # DomainOf[m.cpu]
            IN  /\ table' = [table EXCEPT ![m.tid] =
                              [Known(s.cpu, m) EXCEPT !.settling = @ \/ StartsSettling(m, s),
                                                      !.signature = capture_dispatch_snapshot(@)]]
                /\ IF crosses /\ s.reason \in {"move", "escape"}
                   THEN apply_planned_migration(m, s.dom)
                   ELSE UNCHANGED domainLedger
                /\ apply_planned_cpu_assignment(m, s.cpu)
                /\ view' = [view EXCEPT ![s.cpu].idle = FALSE, ![s.cpu].tid = m.tid]
                /\ sent' = Append(sent, s)
                /\ lately' = IF crosses THEN lately \cup {m.tid} ELSE lately
        /\ pending' = Tail(pending)
        /\ UNCHANGED <<pc, deferred, plan, current, allowed, todo, targetCpu>>

\* What the pass knew is gone.
Leave ==
    /\ pc' = "idle"
    /\ pending' = pending \o deferred
    /\ deferred' = <<>>
    /\ allowed' = All(Tids, {}) /\ view' = All(Cpus, Unknown)
    /\ domainBy' = All(Tids, NoDomain) /\ cpuBy' = All(Tids, NoCpu) /\ jobs' = All(Cpus, {})
    /\ tasks' = All(Domains, 0) /\ budget' = All(Domains, 0)
    /\ outgoing' = All(Domains, 0) /\ incoming' = All(Domains, 0)
    /\ todo' = {} /\ targetCpu' = All(Tids, NoCpu) /\ sent' = <<>>
    /\ UNCHANGED <<table, plan, current, lately>>

EndPass == pc = "dispatch" /\ pending = <<>> /\ Leave

\* The user ring buffer is full: the rest of the pass is abandoned.
RingFull == NextMessage /\ allowed[Head(pending).tid] # {} /\ Leave

Next ==
    \/ AdoptPlan \/ PlanAges
    \/ \E t \in Tids : prune_dead_threads(t) \/ SettleEnds(t)
    \/ StartPass
    \/ \E t \in Tids : build_burst_target_cpu_plan(t)
    \/ EndReserve
    \/ DropDead \/ DeferDispatch \/ Dispatch \/ EndPass \/ RingFull

Spec == Init /\ [][Next]_vars

-----------------------------------------------------------------------------
(* Properties.                                                             *)

\* The CPU side of the ledger, which apply_planned_cpu_assignment keeps up over the
\* reservation and the decisions: the jobs of a CPU are the threads booked on it, each
\* thread once, and a thread is booked where its last decision sent it.
CpuLedger ==
    /\ \A t \in Tids, c \in Cpus : t \in jobs[c] <=> cpuBy[t] = c
    /\ \A i \in 1..Len(sent) :
        (\A j \in (i + 1)..Len(sent) : sent[j].tid # sent[i].tid) => cpuBy[sent[i].tid] = sent[i].cpu

\* A decision of planned_decision or choose_placement, after the override by the
\* reserved CPU, names a CPU of the selected domain within the thread's mask; only a
\* thread that has no CPU left in the domain it stays in keeps the one it has.
PlacedLegal ==
    \A i \in 1..Len(sent) :
        LET s == sent[i]
        IN  /\ DomainOf[s.cpu] = s.dom
            /\ \/ s.cpu \in allowed[s.tid]
               \/ s.reason = "stay" /\ s.cpu = s.from /\ InDomain(allowed[s.tid], s.dom) = {}

\* Neither the plan nor the fallback moves a thread for balance within migrate_settle_ms
\* of the dispatch that sent it to another domain, whatever that dispatch was for (plan,
\* balance, an excluded domain, idle spread) and however many passes and messages of
\* the thread lie in between: the window is set on one path and looked at on two others.
SettleRespected ==
    [][\A i \in (Len(sent) + 1)..Len(sent') :
        sent'[i].reason = "move" => sent'[i].tid \notin lately]_vars

\* build_burst_target_cpu_plan books a woken thread together with another only if every
\* eligible CPU it may use in the domain is busy, taken or booked.
NoNeedlessSharing ==
    [][\A t \in todo \ todo' :
        pc = "reserve" /\ pc' = "reserve" /\ ~Fixed(t) /\ ~First(t).tick
            /\ jobs'[targetCpu'[t]] # {t}
        => \A c \in InDomain(Preference(t)[1], domainBy[t]) :
            ~effectively_idle_cpu(c) \/ TakenByOther(c, t) \/ jobs[c] # {}]_vars

\* The comment on DispatchBatchReservations: each successful decision is committed so
\* that later tasks see the domain slots already reserved in the same burst.
DomainLedgerExact ==
    pc # "idle" =>
        \A d \in Domains :
            tasks[d] = Cardinality({t \in Tids : table[t].cpu # NoCpu /\ domainBy[t] = d})
=============================================================================
