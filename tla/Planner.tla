------------------------------- MODULE Planner -------------------------------
(***************************************************************************)
(* compute_plan_with_debug: how the planner worker turns a snapshot into a  *)
(* placement plan.                                                         *)
(*                                                                         *)
(* The threads in scope are gathered into items (the threads of one process *)
(* that share data form one item, every other thread one of its own), each  *)
(* item is assigned a domain or left at home, and passes over the items     *)
(* take the best move, then the best swap, as long as the plan's cost       *)
(* falls.  The domains of the plan are then handed to PlanTargets, which    *)
(* finds a CPU for every thread.                                           *)
(*                                                                         *)
(* The build feature scheduler-paper-greedy adds a greedy seed and a guard  *)
(* on moves; paperGreedy says whether it is on.  The snapshot does not      *)
(* change during the computation; in it a thread has been seen on some CPU  *)
(* (its home) and the active threads are the waiting ones.                 *)
(***************************************************************************)
EXTENDS PlanTargets, SequencesExt

CONSTANTS
    Builds,             \* inputs: is the feature scheduler-paper-greedy on?
    Tgid,               \* the process of each thread
    EligibleDomains,    \* mapping.eligible_domains; the others are excluded
    DfCapacity,         \* mapping.df_capacity_mib_s_x100
    LlcFull,            \* an LLC pressure of 100%
    Deadband,           \* SIGNATURE_BALANCE_DEADBAND_MIB_S_X100
    Margin,             \* policy.migrate_margin_x100, of Whole
    MaxPasses,          \* config.max_passes
    ItemLimit,          \* config.incremental_item_limit
    DomainLimit,        \* config.incremental_domain_limit
    SwapItems,          \* config.swap_pass_items
    Snapshots           \* inputs: the demands, loads, hints and triggers to plan for

Whole == 10000
NoDomain == -1
CurrentHome == -2
Sweep == [sweep |-> TRUE, tids |-> {}, doms |-> {}]

ASSUME PlannerAssumption ==
    /\ Builds \subseteq BOOLEAN
    /\ DfCapacity \in [Domains -> Nat \ {0}]
    /\ EligibleDomains \subseteq Domains
    /\ Margin \in 0..Whole
    /\ \A s \in Snapshots : s.barred \in [Tids -> SUBSET Domains]

VARIABLES
    paperGreedy,\* the feature scheduler-paper-greedy
    effect,     \* member_effect: DF and LLC demand of each thread
    live,       \* live DF bandwidth and LLC pressure of each domain
    sync,       \* the sync-qualified threads
    barred,     \* settle_until and reverse_protect_until: domains closed to a thread
    scope,      \* the triggers of the request
    phase,      \* how far the computation is
    global,     \* the mode of the plan
    members,    \* what the plan needs to know of each thread
    items,      \* the items: a sequence of sets of threads
    assignments,\* the assignment of each item
    models,     \* the tallies of each domain the costs start from
    rest        \* items the greedy seed has still to place, or passes left

snapshot == <<paperGreedy, effect, live, sync, barred, scope>>
state == <<global, members, items, models>>
planVars == <<snapshot, state, phase, assignments, rest>>
allVars == <<vars, planVars>>

-----------------------------------------------------------------------------
(* The snapshot.                                                           *)

thread_home(t) == DomainOf[recent[t]]

allowed_domains_from_cpus(t) == {DomainOf[c] : c \in allowed[t]} \cap EligibleDomains

allowed_cpus_by_domain(t, d) == InDomain(allowed[t] \cap EligibleCpus, d)

\* The target domain of the previous plan's entry.
PlannedDomain(t) == IF previous[t] = NoCpu THEN NoDomain ELSE DomainOf[previous[t]]

HasPlan == \E t \in Tids : previous[t] # NoCpu

previous_plan_domain_for_member(t) ==
    IF PlannedDomain(t) \in allowed_domains_from_cpus(t) \cup {thread_home(t)}
    THEN PlannedDomain(t) ELSE NoDomain

\* Where a thread out of scope is taken to be.
baseline_domain_for_member(t, whole) ==
    IF whole \/ previous_plan_domain_for_member(t) = NoDomain THEN thread_home(t)
    ELSE previous_plan_domain_for_member(t)

MemberView(whole) ==
    [t \in Tids |-> [home |-> thread_home(t),
                     base |-> baseline_domain_for_member(t, whole),
                     doms |-> allowed_domains_from_cpus(t),
                     cpus |-> [d \in Domains |-> allowed_cpus_by_domain(t, d)]]]

PlanInit ==
    /\ allowed \in [Tids -> Masks]
    /\ recent \in [Tids -> RecentCpus \ {NoCpu}]
    /\ previous \in [Tids -> PreviousCpus]
    /\ active \in ActiveSets
    /\ paperGreedy \in Builds
    /\ \E s \in Snapshots : /\ effect = s.effect /\ live = s.live /\ sync = s.sync
                            /\ barred = s.barred /\ scope = s.scope
    /\ phase = "build" /\ global = TRUE /\ members = MemberView(TRUE)
    /\ items = <<>> /\ assignments = <<>> /\ models = <<>> /\ rest = {}
    /\ domain = [t \in Tids |-> thread_home(t)]
    /\ todo = Tids /\ target = [t \in Tids |-> NoCpu]
    /\ loads = [c \in Cpus |-> {}] /\ repairing = Domains

-----------------------------------------------------------------------------
(* The items.                                                              *)

\* A trigger may name a thread that has no entry; it is passed over.
affected_tids ==
    LET touched  == scope.tids \cap Tids
        domains  == scope.doms \cup {thread_home(t) : t \in touched}
        peers    == {u \in active \cap sync : \E t \in touched : Tgid[u] = Tgid[t]}
        near     == {u \in active : thread_home(u) \in domains}
        affected == scope.tids \cup peers \cup near
    IN  IF affected = {} THEN active ELSE affected \cap Tids

CommonDomains(tids) == {d \in Domains : \A t \in tids : d \in members[t].doms}

Df(tids) == MapThenSumSet(LAMBDA t : effect[t].df, tids)
Llc(tids) == MapThenSumSet(LAMBDA t : effect[t].llc, tids)

\* The threads of a process that share data.
SyncGroups(tids) ==
    {g \in {{t \in tids \cap sync \cap active : Tgid[t] = Tgid[u]} : u \in tids} :
        Cardinality(g) > 1}

CoLocateGroup(g) ==
    /\ CommonDomains(g) # {}
    /\ paperGreedy => \E d \in CommonDomains(g) : Df(g) <= DfCapacity[d]

\* Groups come first, by process, then the other threads.
ItemKey(i) == IF Cardinality(i) > 1 THEN <<0, Tgid[CHOOSE t \in i : TRUE]>>
              ELSE <<1, CHOOSE t \in i : TRUE>>

ItemsOf(tids) ==
    LET groups == {g \in SyncGroups(tids) : CoLocateGroup(g)}
    IN  groups \cup {{t} : t \in tids \ UNION groups}

\* The items in their order.
build_items(tids) ==
    {its \in [1..Cardinality(ItemsOf(tids)) -> ItemsOf(tids)] :
       /\ Range(its) = ItemsOf(tids)
       /\ \A j, k \in DOMAIN its : j < k => Earlier(ItemKey(its[j]), ItemKey(its[k]))}

Scoped == UNION Range(items)

\* A pair of a group that is not placed as one item.
ResidualPairs ==
    UNION {{p \in SUBSET g : Cardinality(p) = 2 /\ CommonDomains(p) # {}} :
             g \in {h \in SyncGroups(Scoped) : ~CoLocateGroup(h)}}

\* An incremental plan starts from the previous one.
seed_assignment(i, whole) ==
    LET d == PlannedDomain(CHOOSE t \in i : TRUE)
    IN  IF /\ ~whole
           /\ d # NoDomain /\ \A t \in i : PlannedDomain(t) = d
           /\ d \in CommonDomains(i) \/ \A t \in i : thread_home(t) = d
        THEN d ELSE CurrentHome

round_migration_budget(n) ==
    LET up == (Max({1, n}) + 3 + 3) \div 4 IN Min({4, Max({1, up})})

\* Mutant: the items' threads are taken off where they are, not where they count.
DomainModel_home(d, mem, scoped) ==
    LET tasks == {t \in active : mem[t].base = d}
        inItems == {t \in scoped : mem[t].home = d}
    IN  [df |-> Df(tasks), llc |-> Llc(tasks), tasks |-> Cardinality(tasks),
         itemDf |-> Df(inItems), itemLlc |-> Llc(inItems),
         itemTasks |-> Cardinality(inItems \cap active),
         budget |-> round_migration_budget(Cardinality({t \in Tids : mem[t].home = d}))]

\* What a domain holds before the plan: of the active threads, and of the items'.
DomainModel(d, mem, scoped) ==
    LET tasks == {t \in active : mem[t].base = d}
        inItems == {t \in scoped : mem[t].base = d}
    IN  [df |-> Df(tasks), llc |-> Llc(tasks), tasks |-> Cardinality(tasks),
         itemDf |-> Df(inItems), itemLlc |-> Llc(inItems),
         itemTasks |-> Cardinality(inItems \cap active),
         budget |-> round_migration_budget(Cardinality({t \in Tids : mem[t].home = d}))]

resolve_plan_mode == ~HasPlan \/ scope.sweep

affected_domain_count(its) == Cardinality({thread_home(t) : t \in UNION its})

needs_global_rebuild(its) ==
    Cardinality(its) > ItemLimit \/ affected_domain_count(its) > DomainLimit

\* The state is built, and built again for the whole system when an incremental
\* plan would touch too much of it.
build_state ==
    /\ phase = "build"
    /\ global' = (resolve_plan_mode \/ needs_global_rebuild(ItemsOf(affected_tids)))
    /\ members' = MemberView(global')
    /\ items' \in build_items(IF global' THEN active ELSE affected_tids)
    /\ assignments' = [k \in DOMAIN items' |-> seed_assignment(items'[k], global')]
    /\ models' = [d \in Domains |-> DomainModel(d, members', Scoped')]
    /\ rest' = IF paperGreedy /\ global' THEN {k \in DOMAIN items' : Df(items'[k]) > 0} ELSE {}
    /\ phase' = "seed"
    /\ UNCHANGED <<vars, snapshot>>

-----------------------------------------------------------------------------
(* The cost of an assignment.                                              *)

Monus(a, b) == IF a > b THEN a - b ELSE 0

target_domain_for_home(a, home) == IF a = CurrentHome THEN home ELSE a

item_index_by_tid(t) == {k \in DOMAIN items : t \in items[k]}

\* The domain an assignment puts a thread in; out of scope, where it is counted.
effective_member_domain(asg, t) ==
    IF item_index_by_tid(t) = {} THEN members[t].base
    ELSE target_domain_for_home(asg[Min(item_index_by_tid(t))], members[t].home)

ThreadsIn(asg, d) == {t \in Tids : effective_member_domain(asg, t) = d}

\* The items' threads an assignment puts in a domain.
Assigned(asg, d) == ThreadsIn(asg, d) \cap Scoped

predicted_df(into, d) == Monus(live[d].df + Df(into), models[d].itemDf)

predicted_managed_df(into, d) == Monus(models[d].df, models[d].itemDf) + Df(into)

predicted_llc(into, d) ==
    Min({LlcFull, Monus(live[d].llc + Llc(into), models[d].itemLlc)})

predicted_active_task_count(into, d) ==
    Monus(models[d].tasks + Cardinality(into \cap active), models[d].itemTasks)

\* SlotCapacityConstraint: the tasks too many and the domains that have them, both
\* zero within the capacity; in this form it is ordered lexicographically.
task_slot_constraint(tasks, cpus) ==
    IF tasks > cpus THEN <<tasks - cpus, 1>> ELSE <<0, 0>>

\* The sum of the values of f, naturals, counted as the units they are made of.
Total(f) == Cardinality(UNION {{x} \X (1..f[x]) : x \in DOMAIN f})

\* The slot constraints of s put together.
combine(s) == <<Total([x \in DOMAIN s |-> s[x][1]]), Total([x \in DOMAIN s |-> s[x][2]])>>

\* Threads with the same CPUs compete for these, whatever room others have.
affinity_group_slot_constraint(here, d) ==
    combine([cpus \in {members[t].cpus[d] : t \in here} |->
               task_slot_constraint(Cardinality({t \in here : members[t].cpus[d] = cpus}),
                                    Cardinality(cpus))])

\* The greater of two slot constraints, more extra tasks before more domains.
slot_max(a, b) == IF Earlier(a, b) THEN b ELSE a

\* What the threads an assignment puts in a domain make of its slots.
SlotConstraint(here, d) ==
    LET runnable == here \cap active
        groups   == affinity_group_slot_constraint(runnable, d)
        total    == task_slot_constraint(
                        predicted_active_task_count(here \cap Scoped, d),
                        Cardinality(UNION {members[t].cpus[d] : t \in runnable}))
    IN  slot_max(total, groups)

MigrationPenalty(here, d) ==
    LET home == {t \in Scoped : members[t].home = d}
    IN  \/ Cardinality((here \cap Scoped) \ home) > models[d].budget
        \/ Cardinality(home \ here) > models[d].budget

SyncSplits(asg) ==
    LET apart(p) == \E t, u \in p :
                        effective_member_domain(asg, t) # effective_member_domain(asg, u)
    IN  Cardinality({k \in DOMAIN items : apart(items[k])})
        + Cardinality({p \in ResidualPairs : apart(p)})

overload_x100_with_capacity(df, capacity) == Monus(df, capacity)

overload_cost(total, most) == total * total + most * most

live_balance_weight(df, capacity) == (Min({df, capacity}) * Whole) \div capacity

domain_signature_balance_penalty(df) == Monus(df, Deadband) * Monus(df, Deadband)

SoftCost(into, d) ==
    LET df      == predicted_df(into, d)
        over    == overload_x100_with_capacity(df, DfCapacity[d])
        llc     == predicted_llc(into, d)
        balance == domain_signature_balance_penalty(predicted_managed_df(into, d))
    IN  overload_cost(over, over) + llc * llc
        + (balance * live_balance_weight(df, DfCapacity[d])) \div Whole

SoftCosts(asg) == MapThenSumSet(LAMBDA d : SoftCost(Assigned(asg, d), d), Domains)

\* Hard constraints first (slots, then the number of the other violations, then which
\* they are), and the soft costs last: compared from left to right.
PlannerCostKey(extra, over, budgets, splits, soft) ==
    <<extra, over, budgets + splits, budgets, splits, soft>>

evaluate_plan(asg) ==
    LET slots   == combine([d \in Domains |-> SlotConstraint(ThreadsIn(asg, d), d)])
        budgets == Cardinality({d \in Domains : MigrationPenalty(ThreadsIn(asg, d), d)})
    IN  PlannerCostKey(slots[1], slots[2], budgets, SyncSplits(asg), SoftCosts(asg))

hard_constraints(cost) == <<cost[1], cost[2], cost[3], cost[4], cost[5]>>

is_better_than(cost, other) == Earlier(cost, other)

-----------------------------------------------------------------------------
(* Which moves are considered.                                             *)

Excluded(d) == d \notin EligibleDomains

move_allowed(t, d) ==
    /\ d \in members[t].doms
    /\ Excluded(members[t].home) \/ d \notin barred[t]

\* Mutant: one thread of the item that may move is enough.
candidate_allowed_any(i, a) ==
    a # CurrentHome =>
        a \in CommonDomains(i) /\ \E t \in i : members[t].home = a \/ move_allowed(t, a)

candidate_allowed(i, a) ==
    a # CurrentHome =>
        a \in CommonDomains(i) /\ \A t \in i : members[t].home = a \/ move_allowed(t, a)

effective_migrate_margin(d) ==
    LET capacity == DfCapacity[d]
    IN  (Margin * (capacity - Min({live[d].df, capacity}))) \div capacity

clears_margin_against(cost, base, margin) ==
    /\ is_better_than(cost, base)
    /\ \/ Earlier(hard_constraints(cost), hard_constraints(base))
       \/ margin = 0
       \/ cost[6] < Monus(base[6], (base[6] * margin) \div Whole)

\* The margin is that of the fullest domain the item's threads are in.
improvement_clears_margin(base, cost, i) ==
    LET fill(t) == (live[members[t].home].df * Whole) \div DfCapacity[members[t].home]
        fullest == CHOOSE t \in i : \A u \in i \ {t} : Earlier(<<fill(u), u>>, <<fill(t), t>>)
    IN  /\ is_better_than(cost, base)
        /\ \/ \E t \in i : Excluded(members[t].home)
           \/ clears_margin_against(cost, base, effective_migrate_margin(members[fullest].home))

\* The domain an item comes from, when it comes from one.
SourceDomains(i) == {members[t].home : t \in i}
CalmSource(i, d) == SourceDomains(i) = {d} /\ live[d].df <= DfCapacity[d]

paper_greedy_blocks_under_subscribed_soft_move(k, to, base) ==
    /\ paperGreedy
    /\ \E d \in Domains \ {to} :
        /\ CalmSource(items[k], d)
        /\ assignments[k] \in {CurrentHome, d}
        /\ candidate_allowed(items[k], d)
        /\ base[1] = 0 /\ base[4] = 0 /\ base[5] = 0
        /\ predicted_df(Assigned(assignments, d), d) <= DfCapacity[d]
        /\ SlotConstraint(ThreadsIn(assignments, d), d)[1] = 0

-----------------------------------------------------------------------------
(* The greedy seed.                                                        *)

\* The threads in the greedy totals of a domain while item k is being placed.
PaperTotals(k, d) == Assigned(assignments, d) \ items[k]

\* paper_greedy_domain_metrics, in the order the choice compares them.
GreedyKey(k, d) ==
    LET i      == items[k]
        others == PaperTotals(k, d)
        before == Monus(live[d].df, models[d].df) + Df(others)
        llc    == Monus(live[d].llc, models[d].llc) + Llc(others) + Llc(i)
    IN  <<SlotConstraint(ThreadsIn(assignments, d) \cup i, d)[1],
          Monus(before + Df(i), DfCapacity[d]), -Monus(DfCapacity[d], before),
          Min({LlcFull, llc}), IF d \in SourceDomains(i) THEN 0 ELSE 1, d>>

\* paper_greedy_under_subscribed_stay_domain
StayDomain(k, d) ==
    CalmSource(items[k], d) /\ GreedyKey(k, d)[1] = 0 /\ GreedyKey(k, d)[2] = 0

choose_paper_greedy_domain(k, d) ==
    LET legal == {e \in CommonDomains(items[k]) : candidate_allowed(items[k], e)}
        stays == {e \in legal : StayDomain(k, e)}
    IN  IF stays # {} THEN d \in stays
        ELSE d \in legal /\ \A e \in legal \ {d} : Earlier(GreedyKey(k, d), GreedyKey(k, e))

\* Items by demand, the largest first.
Heavier(j, k) == Df(items[j]) > Df(items[k]) \/ (Df(items[j]) = Df(items[k]) /\ j < k)

apply_paper_greedy_seed ==
    /\ phase = "seed" /\ rest # {}
    /\ \E k \in rest :
        /\ \A j \in rest \ {k} : Heavier(k, j)
        /\ rest' = rest \ {k}
        /\ \/ \E d \in Domains :
                choose_paper_greedy_domain(k, d) /\ assignments' = [assignments EXCEPT ![k] = d]
           \/ /\ \A d \in Domains : ~choose_paper_greedy_domain(k, d)
              /\ UNCHANGED assignments
    /\ UNCHANGED <<vars, snapshot, state, phase>>

SeedDone ==
    /\ phase = "seed" /\ rest = {}
    /\ phase' = "moves" /\ rest' = 1..MaxPasses
    /\ UNCHANGED <<vars, snapshot, state, assignments>>

-----------------------------------------------------------------------------
(* optimize_state                                                          *)

\* The moves a pass may make, each with its cost and its place in the search.
Moves ==
    LET base   == evaluate_plan(assignments)
        tried  == {m \in (DOMAIN items) \X (Domains \cup {CurrentHome}) :
                     LET k == m[1] a == m[2]
                     IN  /\ a # assignments[k]
                         /\ a = CurrentHome => ~global
                         /\ candidate_allowed(items[k], a)
                         /\ a # CurrentHome =>
                              ~paper_greedy_blocks_under_subscribed_soft_move(k, a, base)}
        scored == {<<evaluate_plan([assignments EXCEPT ![m[1]] = m[2]]), m>> : m \in tried}
    IN  {s \in scored : improvement_clears_margin(base, s[1], items[s[2][1]])}

MoveKey(s) == s[1] \o <<s[2][1], IF s[2][2] = CurrentHome THEN 1 ELSE 0, s[2][2]>>

\* A pass takes the best move; of equally good ones the first it came across.  The
\* passes end when there is none or their number is used up.
MovePass ==
    /\ phase = "moves"
    /\ \E moves \in {IF rest = {} THEN {} ELSE Moves} :
        \/ \E s \in moves :
            /\ \A r \in moves \ {s} : Earlier(MoveKey(s), MoveKey(r))
            /\ assignments' = [assignments EXCEPT ![s[2][1]] = s[2][2]]
            /\ rest' = rest \ {Min(rest)}
            /\ UNCHANGED phase
        \/ /\ moves = {}
           /\ phase' = "swap" /\ rest' = {}
           /\ UNCHANGED assignments
    /\ UNCHANGED <<vars, snapshot, state>>

\* The items with the largest demand.
Heaviest ==
    {k \in DOMAIN items : Cardinality({j \in DOMAIN items : Heavier(j, k)}) < SwapItems}

Swapped(j, k) == [assignments EXCEPT ![j] = assignments[k], ![k] = assignments[j]]

\* Mutant: the cost is not compared.
SwapWorth_any(cost, base) == TRUE

\* With a plan in force only a swap that mends a hard constraint is made.
SwapWorth(cost, base) ==
    /\ is_better_than(cost, base)
    /\ HasPlan => Earlier(hard_constraints(cost), hard_constraints(base))

Swaps ==
    LET base   == evaluate_plan(assignments)
        tried  == {p \in Heaviest \X Heaviest :
                     LET a == assignments[p[1]] b == assignments[p[2]]
                     IN  /\ Heavier(p[1], p[2])
                         /\ a # b /\ CurrentHome \notin {a, b}
                         /\ candidate_allowed(items[p[1]], b) /\ candidate_allowed(items[p[2]], a)}
        scored == {<<evaluate_plan(Swapped(p[1], p[2])), p>> : p \in tried}
    IN  {s \in scored : SwapWorth(s[1], base)}

\* Of two swaps, the better or the one tried first.
SwapBefore(s, r) ==
    \/ Earlier(s[1], r[1])
    \/ /\ s[1] = r[1]
       /\ Heavier(s[2][1], r[2][1]) \/ (s[2][1] = r[2][1] /\ Heavier(s[2][2], r[2][2]))

SwapPass ==
    /\ phase = "swap"
    /\ \E swaps \in {Swaps} :
        \/ \E s \in swaps :
            /\ \A r \in swaps \ {s} : SwapBefore(s, r)
            /\ assignments' = Swapped(s[2][1], s[2][2])
        \/ swaps = {} /\ UNCHANGED assignments
    /\ phase' = "entries"
    /\ UNCHANGED <<vars, snapshot, state, rest>>

\* The domain of a thread's item, or else that of the previous plan, or else its home.
EntryDomain(t) ==
    CASE item_index_by_tid(t) # {} -> effective_member_domain(assignments, t)
      [] item_index_by_tid(t) = {} /\ ~global /\ previous_plan_domain_for_member(t) # NoDomain
            -> previous_plan_domain_for_member(t)
      [] OTHER -> members[t].home

\* The entries get their domains, and the search for CPUs begins.
MaterializeEntries ==
    /\ phase = "entries"
    /\ UNCHANGED <<allowed, previous, recent, active, target, loads>>
    /\ domain' = [t \in Tids |-> EntryDomain(t)]
    /\ todo' = {t \in Tids : candidate_cpus_for_plan_target(t)' # {}}
    /\ repairing' = {domain'[t] : t \in Tids}
    /\ phase' = "targets"
    /\ UNCHANGED <<snapshot, state, assignments, rest>>

AssignTargets == phase = "targets" /\ Next /\ UNCHANGED planVars

PlanNext ==
    \/ build_state \/ apply_paper_greedy_seed \/ SeedDone
    \/ MovePass \/ SwapPass \/ MaterializeEntries \/ AssignTargets

PlanSpec == PlanInit /\ [][PlanNext]_allVars /\ WF_allVars(AssignTargets)

-----------------------------------------------------------------------------
(* Properties.                                                             *)

\* The prediction is exact: what evaluate_plan says a domain will hold, from three
\* tallies kept apart (all threads, the threads of the items before, the same after),
\* is the number of active threads the plan puts there.  The slot constraint compares
\* it with CPUs counted in another way.
PredictedExact ==
    phase # "build" => \A d \in Domains :
        predicted_active_task_count(Assigned(assignments, d), d)
            = Cardinality(ThreadsIn(assignments, d) \cap active)

SeedPlan == [k \in DOMAIN items |-> seed_assignment(items[k], global)]

\* A plan built without the greedy seed is never worse for the hard constraints than
\* leaving every thread in scope where the plan began.
NoHarm ==
    phase = "entries" /\ ~paperGreedy =>
        ~Earlier(hard_constraints(evaluate_plan(SeedPlan)),
                 hard_constraints(evaluate_plan(assignments)))

\* No thread is planned for a domain that is closed to it because it has just moved,
\* unless an earlier plan, made before that, says so and is only being continued.
SettledStay ==
    phase = "entries" => \A t \in Scoped :
        LET d == effective_member_domain(assignments, t)
        IN  d # thread_home(t) /\ d \in barred[t] /\ ~Excluded(thread_home(t)) =>
              ~global /\ d = PlannedDomain(t)

\* The search for CPUs ends, its repair loop included: every thread that can have a
\* CPU gets one and the plan is sent.
PlanCompletes ==
    (phase = "targets") ~>
        (Done /\ \A t \in Tids : candidate_cpus_for_plan_target(t) # {} => target[t] # NoCpu)
=============================================================================
