-------------------------------- MODULE Arcas --------------------------------
(***************************************************************************)
(* The scheduler-arcas build: threads are kept within a number of active   *)
(* domains, the spread, that a controller adjusts.                         *)
(*                                                                         *)
(* In every pass ArcasControllerState::maybe_rebalance ranks the threads   *)
(* that wait, raises the spread until the active domains have a CPU for    *)
(* each of them, widens or narrows it by the traffic between caches, and   *)
(* gives every thread a target domain and a target CPU.  The dispatch loop *)
(* sends the threads to their targets, cross-domain moves first.           *)
(*                                                                         *)
(* The volume of traffic is left out: whether it reaches the threshold is  *)
(* a free choice, and a message only has a fill level to order the moves.  *)
(* mapping.eligible_domains is not empty: maybe_rebalance then never takes *)
(* its early return and the spread is never zero.  Workloads are launched, *)
(* adopted and stopped as in Nsdi.                                         *)
(***************************************************************************)
EXTENDS CpuSelect, SequencesExt

CONSTANTS
    EligibleDomains,    \* mapping.eligible_domains
    EligibleCpus,       \* mapping.eligible_cpus
    MinDomains, MaxDomains, Step,
    Messages,           \* inputs: what dequeue_task may return
    MaskViews,          \* inputs: what the affinity cache may return
    CpuViews,           \* inputs: what read_cpu_states may return
    MaxPending,         \* bound: messages waiting at once
    MaxRank             \* bound: next_rank

NoRank == -1

QueuedTask == [tid : Tids, kind : {"usersched", "helper", "work"}, cpu : Cpus, fill : Nat]
Decision == [tid : Tids, from : Cpus, dom : Domains, cpu : Cpus,
             reason : {"move", "stay", "no_candidate"}]

ASSUME ArcasAssumption ==
    /\ EligibleDomains \subseteq Domains /\ EligibleDomains # {}
    /\ EligibleCpus \subseteq {c \in Cpus : DomainOf[c] \in EligibleDomains}
    /\ MinDomains \in Nat /\ MaxDomains \in Nat /\ Step \in Nat
    /\ Messages \subseteq QueuedTask
    /\ MaskViews \subseteq [Tids -> SUBSET Cpus]
    /\ CpuViews \subseteq [Cpus -> CpuStateValue]
    /\ MaxPending \in Nat /\ MaxRank \in Nat

VARIABLES
    phase,      \* "drain", "dispatch", "complete" or "ended"
    pending,    \* the messages waiting, oldest first
    table,      \* last_selected_cpu of each thread; NoCpu: not in the table
    spread,     \* the controller: spread_domains,
    ready,      \*   its interval is over,
    active,     \*   active_domains,
    targetDom,  \*   target_domain_by_tid,
    targetCpu,  \*   target_cpu_by_tid,
    rank,       \*   rank_by_tid,
    nextRank,   \*   next_rank
    allowed,    \* allowed_cpus_by_tid of this pass; {}: no entry
    refreshed,  \* targets were computed in this pass
    refused,    \* the user ring buffer was full in this pass
    sent        \* the decisions of this pass that reached it

targets == <<active, targetDom, targetCpu>>
controller == <<spread, ready, targets, rank, nextRank>>
vars == <<phase, pending, table, controller, allowed, view, jobs, refreshed, refused, sent>>

\* Type invariant of the loop and its controller.
TypeOK ==
    /\ phase \in {"drain", "dispatch", "complete", "ended"}
    /\ pending \in Seq(QueuedTask)
    /\ table \in [Tids -> Cpus \cup {NoCpu}]
    /\ spread \in 1..Cardinality(EligibleDomains)
    /\ ready \in BOOLEAN
    /\ active \in Seq(EligibleDomains)
    /\ targetDom \in [Tids -> Domains \cup {NoDomain}]
    /\ targetCpu \in [Tids -> Cpus \cup {NoCpu}]
    /\ rank \in [Tids -> 0..MaxRank \cup {NoRank}] /\ nextRank \in Nat
    /\ allowed \in [Tids -> SUBSET Cpus]
    /\ view \in [Cpus -> CpuStateValue]
    /\ jobs \in [Cpus -> SUBSET Tids]
    /\ refreshed \in BOOLEAN /\ refused \in BOOLEAN
    /\ sent \subseteq Decision

-----------------------------------------------------------------------------
(* The spread.                                                             *)

Larger(a, b) == IF a >= b THEN a ELSE b
Smaller(a, b) == IF a <= b THEN a ELSE b

\* The elements of S in the order of a relation, a set of pairs: each comes after as
\* many as go before it.
Sorted(S, before) ==
    [i \in 1..Cardinality(S) |->
        CHOOSE x \in S : Cardinality({y \in S : <<y, x>> \in before}) = i - 1]
Ascending(S) == Sorted(S, {p \in S \X S : p[1] < p[2]})

eligible_domain_list == Ascending(EligibleDomains)

effective_max_domains ==
    LET n == Cardinality(EligibleDomains)
    IN  Smaller(IF MaxDomains = 0 THEN n ELSE MaxDomains, n)

clamp_spread_domains(n) ==
    LET least == Smaller(Larger(MinDomains, 1), effective_max_domains)
    IN  Smaller(Larger(n, least), effective_max_domains)

Waiting(masks) == {t \in Tids : masks[t] # {}}

\* The CPUs of a domain that some waiting thread may use; all if none waits.
domain_slot_cpus(d, masks) ==
    LET union == UNION {masks[t] : t \in Tids}
    IN  InDomain(IF union = {} THEN Cpus ELSE union, d)

\* The CPUs of several domains, of which each CPU is in one.
Capacity(domains, masks) == Cardinality(UNION {domain_slot_cpus(d, masks) : d \in domains})

\* The fewest domains that have a CPU for each waiting thread; all if none have.
min_domains_for_runnable_load(masks) ==
    LET enough == {S \in SUBSET EligibleDomains : Capacity(S, masks) >= Cardinality(Waiting(masks))}
    IN  IF enough = {} THEN Cardinality(EligibleDomains)
        ELSE Min({Cardinality(S) : S \in enough})

Candidates(masks) ==
    LET usable == {d \in EligibleDomains : domain_slot_cpus(d, masks) # {}}
    IN  IF usable = {} THEN eligible_domain_list ELSE Ascending(usable)

LargerFirst(domains, masks) ==
    LET Size(d) == Cardinality(domain_slot_cpus(d, masks))
    IN  {p \in domains \X domains :
           \/ Size(p[1]) > Size(p[2])
           \/ Size(p[1]) = Size(p[2]) /\ p[1] < p[2]}

\* Mutant: what is evenly spaced is taken even if it is too small.
select_active_domains_even(n, masks) ==
    LET domains == Candidates(masks)
        desired == Smaller(n, Len(domains))
    IN  [i \in 1..desired |-> domains[((i - 1) * Len(domains)) \div desired + 1]]

\* Evenly spaced among the domains that waiting threads may use; if these have
\* too few CPUs, the largest ones.
select_active_domains(n, masks) ==
    LET domains == Candidates(masks)
        desired == Smaller(n, Len(domains))
        even == [i \in 1..desired |-> domains[((i - 1) * Len(domains)) \div desired + 1]]
        largest == Sorted(ToSet(domains), LargerFirst(ToSet(domains), masks))
    IN  IF desired = Len(domains) \/ Capacity(ToSet(even), masks) >= Cardinality(Waiting(masks))
        THEN even ELSE [i \in 1..desired |-> largest[i]]

-----------------------------------------------------------------------------
(* The targets.                                                            *)

\* Narrow masks first, then by rank.
Narrower(masks, ranks) ==
    LET Size(t) == Cardinality(masks[t])
    IN  {p \in Waiting(masks) \X Waiting(masks) :
           \/ Size(p[1]) < Size(p[2])
           \/ Size(p[1]) = Size(p[2]) /\ ranks[p[1]] < ranks[p[2]]}

ranked_tids_for_plan(masks, ranks) == Sorted(Waiting(masks), Narrower(masks, ranks))

\* Mutant: used CPUs are not told apart.
SlotFrom_used(slots, cursor, mask, used) ==
    LET At(k) == slots[((cursor + k) % Len(slots)) + 1]
        fit == {k \in 0..(Len(slots) - 1) : At(k) \in mask}
    IN  At(Min(fit))

\* From a cursor on round the CPUs of a domain, the first the mask allows: one
\* that is not used yet, or else a used one.
SlotFrom(slots, cursor, mask, used) ==
    LET At(k) == slots[((cursor + k) % Len(slots)) + 1]
        fit == {k \in 0..(Len(slots) - 1) : At(k) \in mask}
        fresh == {k \in fit : At(k) \notin used}
    IN  At(Min(IF fresh # {} THEN fresh ELSE fit))

\* A thread's domain is the first from its rank on, round the active ones, in which
\* its mask allows a CPU: a used CPU there goes before a free one in the next.
TargetDomains(domains, masks, ranks) ==
    LET At(t, k) == domains[((ranks[t] + k) % Len(domains)) + 1]
        Fits(t) == {k \in 0..(Len(domains) - 1) : InDomain(masks[t], At(t, k)) # {}}
    IN  [t \in Tids |-> IF Fits(t) = {} THEN NoDomain ELSE At(t, Min(Fits(t)))]

\* CPUs are given out in the order of the threads.  The cursor of a domain counts the
\* threads before that have it as their target; used are the CPUs these were given.
build_target_plan(domains, masks, ranks) ==
    LET dom == TargetDomains(domains, masks, ranks)
        tids == ranked_tids_for_plan(masks, ranks)
        cpu[i \in 1..Len(tids)] ==
            LET d == dom[tids[i]]
                cursor == Cardinality({j \in 1..(i - 1) : dom[tids[j]] = d})
            IN  IF d = NoDomain THEN NoCpu
                ELSE SlotFrom(Ascending(domain_slot_cpus(d, masks)), cursor, masks[tids[i]],
                              {cpu[j] : j \in 1..(i - 1)})
    IN  [dom |-> dom,
         cpu |-> [t \in Tids |-> IF t \in Waiting(masks)
                                 THEN cpu[CHOOSE i \in 1..Len(tids) : tids[i] = t] ELSE NoCpu]]

Init ==
    /\ phase = "drain" /\ pending = <<>> /\ table = [t \in Tids |-> NoCpu]
    /\ spread = clamp_spread_domains(Larger(MinDomains, 1))
    /\ active = [i \in 1..spread |-> eligible_domain_list[i]]
    /\ ready = TRUE
    /\ targetDom = [t \in Tids |-> NoDomain] /\ targetCpu = [t \in Tids |-> NoCpu]
    /\ rank = [t \in Tids |-> NoRank] /\ nextRank = 0
    /\ allowed = [t \in Tids |-> {}]
    /\ view = [c \in Cpus |-> [idle |-> FALSE, hot |-> FALSE, tid |-> NoTid]]
    /\ jobs = [c \in Cpus |-> {}]
    /\ refreshed = FALSE /\ refused = FALSE /\ sent = {}

Refresh(masks) ==
    LET plan == build_target_plan(active', masks, rank')
    IN  targetDom' = plan.dom /\ targetCpu' = plan.cpu

\* Ranks and targets of threads that do not wait now are forgotten, new threads get
\* the next ranks, and the spread is adjusted.  Targets stay as they are if
\* nothing of that happened and the interval is not over.
maybe_rebalance(masks) ==
    LET stale == {t \in Tids \ Waiting(masks) : rank[t] # NoRank \/ targetDom[t] # NoDomain}
        new == {t \in Waiting(masks) : rank[t] = NoRank}
        floor == min_domains_for_runnable_load(masks)
        required == clamp_spread_domains(Larger(Larger(spread, floor), Larger(MinDomains, 1)))
        Stepped(n) == clamp_spread_domains(Larger(n, floor))
        refresh == \/ active = <<>> \/ stale # {} \/ required # spread \/ ready
                   \/ \A t \in Waiting(masks) : targetDom[t] = NoDomain
    IN  /\ rank' = [t \in Tids |->
                      IF t \notin Waiting(masks) THEN NoRank
                      ELSE IF t \in new THEN nextRank + Cardinality({u \in new : u < t})
                      ELSE rank[t]]
        /\ nextRank' = nextRank + Cardinality(new)
        /\ nextRank' <= MaxRank
        /\ \E remoteFill \in BOOLEAN :
             spread' = IF ~ready \/ Waiting(masks) = {} THEN required
                       ELSE IF remoteFill THEN Stepped(required + Step)
                       ELSE Stepped(Larger(required - Step, 0))
        /\ ready' = FALSE
        /\ refreshed' = refresh
        /\ IF refresh
           THEN /\ active' = select_active_domains(spread', masks)
                /\ Refresh(masks)
           ELSE UNCHANGED targets

-----------------------------------------------------------------------------
(* The loop.                                                               *)

dequeue_task(m) ==
    /\ phase = "drain"
    /\ Len(pending) < MaxPending
    /\ \A i \in 1..Len(pending) : pending[i].tid # m.tid
    /\ pending' = Append(pending, m)
    /\ UNCHANGED <<phase, table, controller, allowed, view, jobs, refreshed, refused, sent>>

Elapse ==
    /\ phase = "drain"
    /\ ~ready
    /\ ready' = TRUE
    /\ UNCHANGED <<phase, pending, table, spread, targets, rank, nextRank, allowed, view, jobs,
                   refreshed, refused, sent>>

prune_dead_threads(t) ==
    /\ phase = "drain"
    /\ table[t] # NoCpu
    /\ table' = [table EXCEPT ![t] = NoCpu]
    /\ UNCHANGED <<phase, pending, controller, allowed, view, jobs, refreshed, refused, sent>>

MessagesOf(t) == {i \in 1..Len(pending) : pending[i].tid = t /\ pending[i].kind # "usersched"}

collect_allowed_cpus_for_pending(masks) ==
    [t \in Tids |-> IF MessagesOf(t) = {} THEN {} ELSE masks[t]]

build_planned_cpu_states ==
    LET CpuOf(t) == IF table[t] # NoCpu THEN table[t]
                    ELSE IF MessagesOf(t) # {} THEN pending[Min(MessagesOf(t))].cpu ELSE NoCpu
    IN  [c \in Cpus |-> {t \in Tids : CpuOf(t) = c}]

BeginPass ==
    /\ phase = "drain"
    /\ view' \in CpuViews
    /\ \E masks \in MaskViews : allowed' = collect_allowed_cpus_for_pending(masks)
    /\ maybe_rebalance(allowed')
    /\ jobs' = build_planned_cpu_states
    /\ phase' = "dispatch"
    /\ UNCHANGED <<pending, table, refused, sent>>

\* dispatch_task finds no room: the message goes to the front, the pass is over.
Refuse(i) ==
    /\ pending' = <<pending[i]>> \o RemoveAt(pending, i)
    /\ refused' = TRUE
    /\ phase' = "complete"
    /\ UNCHANGED <<table, jobs, view, sent>>

FirstOf(kind) ==
    LET mine == {i \in 1..Len(pending) : pending[i].kind = kind}
    IN  IF mine = {} THEN 0 ELSE Min(mine)

DispatchFirst(kind) ==
    /\ phase = "dispatch"
    /\ kind = "usersched" \/ (kind = "helper" /\ FirstOf("usersched") = 0)
    /\ FirstOf(kind) # 0
    /\ \/ Refuse(FirstOf(kind))
       \/ /\ pending' = RemoveAt(pending, FirstOf(kind))
          /\ UNCHANGED <<phase, table, jobs, view, refused, sent>>
    /\ UNCHANGED <<controller, allowed, refreshed>>

-----------------------------------------------------------------------------
(* The placement of one thread.                                            *)

allowed_eligible_cpus(t) ==
    IF allowed[t] \cap EligibleCpus = {} THEN allowed[t] ELSE allowed[t] \cap EligibleCpus

choose_stay_cpu(m, d, cpus) ==
    LET available(c) == current_cpu_available_for_task(c, m.tid, InDomain(cpus, d))
    IN  OrElse(<<should_rebalance_to_idle_sibling(m.cpu, m.tid, choose_idle_cpu_in_domain(d, cpus)),
                 {c \in current_cpu_in_domain(m.cpu, d, cpus) : available(c)},
                 {c \in preferred_cpu_in_domain(m.cpu, d, cpus, m.tid) : available(c)},
                 choose_cpu_in_domain(d, cpus, m.tid)>>)

choose_preferred_target_cpu(c, d, cpus, t) ==
    {e \in preferred_cpu_in_domain(c, d, cpus, t) : effectively_idle_cpu(e) /\ jobs[e] \subseteq {t}}

choose_cpu_for_domain(m, d, preferred, cpus) ==
    OrElse(<<choose_preferred_target_cpu(preferred, d, cpus, m.tid),
             IF d = DomainOf[m.cpu] THEN choose_stay_cpu(m, d, cpus)
                                    ELSE choose_cpu_in_domain(d, cpus, m.tid)>>)

active_domain_list ==
    IF ToSet(active) \cap EligibleDomains = {} THEN eligible_domain_list ELSE active
IsActive(d) == d \in ToSet(active_domain_list) \cap EligibleDomains

\* The target, then the current domain, then the rest; only active ones count.
order_candidate_domains(m) == <<targetDom[m.tid], DomainOf[m.cpu]>> \o active_domain_list

Decided(m, d, c, reason) == [tid |-> m.tid, from |-> m.cpu, dom |-> d, cpu |-> c, reason |-> reason]

\* Mutant: the CPU the thread runs on is kept whatever its mask.
NoCandidate_current(m, cpus) == {Decided(m, DomainOf[m.cpu], m.cpu, "no_candidate")}

\* No active domain has a CPU for the thread.  Its current domain is then kept as
\* its domain even if the CPU comes from another one.
NoCandidate(m, cpus) ==
    LET fallback == Min(cpus)
        d == IF IsActive(DomainOf[m.cpu]) THEN DomainOf[m.cpu] ELSE DomainOf[fallback]
    IN  {Decided(m, d, c, "no_candidate") :
           c \in OrElse(<<choose_stay_cpu(m, d, cpus), {m.cpu} \cap cpus, {fallback}>>)}

\* The first domain in order that has a CPU for the thread.
choose_placement_with_targets(m) ==
    LET cpus == allowed_eligible_cpus(m.tid)
        order == order_candidate_domains(m)
        fits == {i \in DOMAIN order : IsActive(order[i]) /\ InDomain(cpus, order[i]) # {}}
        d == order[Min(fits)]
        preferred == IF d = targetDom[m.tid] THEN targetCpu[m.tid] ELSE NoCpu
    IN  IF fits = {} THEN NoCandidate(m, cpus)
        ELSE {Decided(m, d, c, IF d = DomainOf[m.cpu] THEN "stay" ELSE "move") :
                c \in choose_cpu_for_domain(m, d, preferred, cpus)}

is_cross_domain_move(o) == o.dom # DomainOf[o.from]

\* The messages a decision may be made on, each with its decision: moves to another
\* domain of threads outside their target domain, those with the highest fill level
\* first; then the oldest message.
select_next_pending ==
    LET readable == {i \in 1..Len(pending) : allowed[pending[i].tid] # {}}
        choices == UNION {{i} \X choose_placement_with_targets(pending[i]) : i \in readable}
        mismatch(t, c) == targetDom[t] # NoDomain /\ targetDom[t] # DomainOf[c]
        moves == {x \in choices : /\ mismatch(x[2].tid, pending[x[1]].cpu)
                                  /\ is_cross_domain_move(x[2])}
        Before(i, j) == \/ pending[i].fill > pending[j].fill
                        \/ pending[i].fill = pending[j].fill /\ i <= j
    IN  IF moves # {} THEN {x \in moves : \A y \in moves : Before(x[1], y[1])}
        ELSE {x \in choices : \A y \in choices : x[1] <= y[1]}

Selecting == phase = "dispatch" /\ FirstOf("usersched") = 0 /\ FirstOf("helper") = 0

DispatchSelected ==
    /\ Selecting
    /\ \E x \in select_next_pending :
         \/ Refuse(x[1])
         \/ /\ table' = [table EXCEPT ![x[2].tid] = x[2].cpu]
            /\ jobs' = [c \in Cpus |-> IF c = x[2].cpu THEN jobs[c] \cup {x[2].tid}
                                                       ELSE jobs[c] \ {x[2].tid}]
            /\ view' = [view EXCEPT ![x[2].cpu].idle = FALSE, ![x[2].cpu].tid = x[2].tid]
            /\ pending' = RemoveAt(pending, x[1])
            /\ sent' = sent \cup {x[2]}
            /\ UNCHANGED <<phase, refused>>
    /\ UNCHANGED <<controller, allowed, refreshed>>

\* A message without a mask is dropped once nothing else is left.
DropUnreadable ==
    /\ Selecting
    /\ pending # <<>> /\ select_next_pending = {}
    /\ pending' = Tail(pending)
    /\ UNCHANGED <<phase, table, controller, allowed, view, jobs, refreshed, refused, sent>>

EndDispatch ==
    /\ phase = "dispatch"
    /\ pending = <<>>
    /\ phase' = "complete"
    /\ UNCHANGED <<pending, table, controller, allowed, view, jobs, refreshed, refused, sent>>

\* The pass is reported and its snapshot goes out of scope; the loop ends when the
\* workloads have exited and nothing waits, or when the kernel side has gone.
notify_complete ==
    /\ phase = "complete"
    /\ \E workloadsDone, exited \in BOOLEAN :
         phase' = IF exited \/ (workloadsDone /\ pending = <<>>) THEN "ended" ELSE "drain"
    /\ allowed' = [t \in Tids |-> {}]
    /\ view' = [c \in Cpus |-> [idle |-> FALSE, hot |-> FALSE, tid |-> NoTid]]
    /\ jobs' = [c \in Cpus |-> {}]
    /\ refreshed' = FALSE /\ refused' = FALSE /\ sent' = {}
    /\ UNCHANGED <<pending, table, controller>>

Next ==
    \/ \E m \in Messages : dequeue_task(m)
    \/ Elapse
    \/ \E t \in Tids : prune_dead_threads(t)
    \/ BeginPass
    \/ \E kind \in {"usersched", "helper"} : DispatchFirst(kind)
    \/ DispatchSelected
    \/ DropUnreadable
    \/ EndDispatch
    \/ notify_complete

Spec == Init /\ [][Next]_vars

-----------------------------------------------------------------------------
(* Properties.                                                             *)

\* Threads share a target CPU only where they must: but for the one with the
\* narrowest mask (and of these the lowest rank), each finds every CPU its mask allows
\* in the domain taken as a target.
SharingForced ==
    refreshed =>
        LET tids == ranked_tids_for_plan(allowed, rank)
            taken == {targetCpu[t] : t \in Tids}
        IN  \A i, j \in 1..Len(tids) :
              LET c == targetCpu[tids[j]]
              IN  i < j /\ c # NoCpu /\ targetCpu[tids[i]] = c
                    => InDomain(allowed[tids[j]], DomainOf[c]) \subseteq taken

\* Fresh active domains have a CPU for every waiting thread, unless every usable
\* domain is active or as many are as the configuration permits.
EnoughCapacity ==
    refreshed =>
        \/ Capacity(ToSet(active), allowed) >= Cardinality(Waiting(allowed))
        \/ ToSet(active) = ToSet(Candidates(allowed))
        \/ Len(active) = effective_max_domains

\* A thread is sent to a CPU its mask allows, and outside the active domains only
\* if they have none for it; otherwise the domain it is accounted to is its CPU's.
PlacedWithinTargets ==
    \A o \in sent :
        /\ o.cpu \in allowed[o.tid]
        /\ o.reason # "no_candidate" => DomainOf[o.cpu] = o.dom /\ o.dom \in ToSet(active)
        /\ o.reason = "no_candidate" =>
             \A d \in ToSet(active) : InDomain(allowed_eligible_cpus(o.tid), d) = {}
=============================================================================
