# cSwitch: TLA+ models, checks and proofs

cSwitch is a sched_ext scheduler for chiplet machines. A BPF program
(`main.bpf.c`) receives the kernel's scheduling callbacks, hands most decisions
to a single-threaded user-space scheduler (`src/app.rs`) through a ring buffer,
and takes the decisions back through a second one. User space decides from
hardware samples (CCM, CS link and LLC pressure), from placement plans that a
planner thread computes in the background, and from a pressure controller that
throttles the thread that overloads a link (the "villain").

This directory models the parts of it that run concurrently or keep state over
many steps, checks them with TLC on small instances and proves the main safety
properties with TLAPS for every instance.

## Inventory

| component | state it keeps | operations | what makes it correct |
|---|---|---|---|
| kernel dispatch path (`main.bpf.c`) | DSQs per CPU, shared and for the scheduler; the ring buffers; `usersched_needed`, `nr_scheduled`; trigger and holdoff of each task | select_cpu, enqueue, dispatch, tick, heartbeat timer, running, stopping | no task is lost, run twice or run outside its mask; no wake-up is lost; every task gets on |
| user-space bridge (`bpf.rs`) | the two ring buffers, `nr_scheduled` | dequeue, publish, dispatch, notify | a message is delivered or given back |
| main loop (`app.rs`) | `pending`, `deferred`, thread table, samples, active plan | one pass: samples, plan, dequeue, triggers, request, villains, decide and dispatch, notify | custody of every dequeued task; the active plan only moves forward |
| villain control (`villain_control.rs`) | a latch per link, a token bucket and a deferral clock per thread | choose, latch, refill, throttle | a deferral ends; a villain's share is bounded; the latch is not shaken off early |
| planner worker (`planner/worker.rs`, `mode.rs`) | request in work, channels | receive, debounce and merge, compute, send | plans in order, bounded backlog, sweeps answered |
| plan computation (`planner/*.rs`) | none between calls | gather items, seed, move, swap, assign CPUs | predictions are exact; the plan never worsens the hard constraints; settled threads stay; no CPU given twice while others are free |
| plan attribution (`app.rs`) | armed plan, baselines, evidence per thread and link | arm, apply, expire, decay | each plan is measured at most once; threads answer for no more than the links show |
| reservations (`app.rs`) | planned occupants per domain and CPU in one pass | build, commit | occupancy equals the assignment |
| placement policy (`policy/*.rs`) | none between calls | candidates, score, decide, choose CPU | the chosen CPU is allowed and in the chosen domain |
| samplers, filter (`df_*`, `llc_sampler.rs`, `filter.rs`) | counters of shared MSRs, EWMA and persistence counts | program, read, sweep, filter, end | one sampler does not read the other's events; an epoch covers the machine; hysteresis; shutdown leaves nothing running |
| workload management (`workload.rs`) | launched and adopted processes, cgroup | launch, adopt, guard, shut down | every descendant is adopted; the guard blames foreign processes only; children are reaped |
| NSDI variant (`app_nsdi.rs`, `policy_nsdi.rs`) | CPUs owned by each application, waiting times | adopt, measure, release, grant, transfer, dispatch | no CPU has two owners; an application without a CPU gets one |
| ARCAS variant (`app_arcas.rs`, `policy_arcas.rs`) | spread, active domains, ranks, targets | rebalance, plan targets, dispatch | the active domains hold the waiting threads; targets are shared only where they must be |

The components meet in four places. The kernel side and the main loop share the
ring buffers, `usersched_needed` and `nr_scheduled`. Samplers send to the main
loop over unbounded channels. The main loop and the planner worker exchange
requests (one slot, dropped when full) and plans (unbounded). The main loop's
passes call attribution, villain control, reservations and policy in sequence, and
scan and check the workloads' processes, which run on meanwhile.

Hard to test here: the callbacks of several CPUs interleave with each other and
with a user-space scheduler that can be preempted between any two steps; kicks
arrive late and only wake idle CPUs; messages outlive what they were decided
from (affinity, plan, sample); dispatches are buffered and take effect later;
buffers fill up in the middle of a pass; MSR accesses fail inside or outside a lock;
processes fork and exit under a scan. `PROJECT.json` lists each such hazard at
its line.

## Modules

### Rustland: the dispatch path

Every CPU is an actor. `pc[c]` is "run" outside a reschedule and walks through
`rustland_dispatch` inside one: `Drain` (the user ring buffer), `Flush` (the
buffered insert takes effect, then `usersched_has_pending_tasks`), `ConsumeOwn`,
`ConsumeShared` or `ConsumeNothing` (the DSQs), `KeepPrev` (slice of `@prev`) and
`SwitchTo` (put_prev, which enqueues a task that is still runnable, and set_next).
`Wakeup` is `rustland_select_cpu` with the enqueue that follows,
`QueuedWakeup` the enqueue that skips it, `SetAffinity` the dequeue, move and
enqueue of `sched_setaffinity`; `rustland_tick`, `usersched_timer_fn` and the steps
of the user-space loop (`dequeue_task`, `publish_scheduled`, `DropDead`,
`DeferDispatch`, `Dispatch`, `EndPass`, `notify_complete`) have the code's names.
`loc[t]` says where a task is; "opsq" is the time between its enqueue to user space
and its insert into a DSQ. The policy is a free choice of any CPU or
`RL_CPU_ANY`, so what is shown holds for every policy, also one that works from
outdated affinity masks.

The sched_ext core is external and modelled from how the callbacks rely on it:
a kick is sent when the kicker's rq lock is dropped, and `SCX_KICK_IDLE` only
reschedules a CPU that is idle when it arrives; `ops.dispatch` is called again
while a pass inserted something but found nothing to run; an insert from dispatch
is a claim, honoured at the flush if the task has not left the ops queue since;
with `SCX_OPS_ENQ_LAST` a task with an expired slice is enqueued even if nothing
else is runnable.

Left out: tick counting and `tick_holdoff` (any tick may trigger), per-task
statistics and counter sampling, `cpu_state_map`, blocking of the user-space
scheduler, messages for its own threads, kernels without
`scx_bpf_select_cpu_and`, failing lookups of `task_ctx`, the features
`bpf-stay-fastpath` and `stall-filler-spinner`. The branch for kswapd and
khugepaged is folded into `Internal`: the program always attaches with
`SCX_OPS_SWITCH_PARTIAL`, so they are not of this class. The "race with dequeue"
branch at the end of `rustland_enqueue` cannot be reached while the callback holds
the task's rq lock.

`TaskLifecycle` is the abstract specification: without messages, ring buffers and
buffered dispatches, a runnable task waits for a decision, in the shared queue or in the
queue of a CPU its mask allows; one decision ends the wait, and only a change of affinity
moves a task again before a CPU takes it; it runs on one CPU at a time, one it may use,
and only a running task goes to sleep or exits. `Rustland` implements it
(`LifecycleSpec`): `place` is `loc`, and `on[c]` is the managed task a CPU runs. A
stale or second dispatch that takes effect, a task inserted where its mask forbids, or
started twice, violates this. Losing a message does not, which is what `Custody` is for,
nor does an extra one that is never honoured, which is what `HandedOnce` is for.

### VillainControl: latch and token bucket

A pass (`BeginPass`) refreshes `last_seen_ns` of the threads with a message, takes a
fresh villain for any overloaded link (a free choice among the threads) and
applies `effective_villains`; then each message is decided, by `Defer` or
`Dispatch`, which include `maybe_apply_villain_token_throttle` with refill and
reset. A dispatch may be refused by a full ring buffer, which ends the pass. Time is a
counter that moves between any two steps; samples come at any time. Three history
variables record what the code does not: the distinct clear samples seen in a
row, the deferrals of the pending message and the slices a thread was given.
There is one pending message per thread; scores, log events and `pressure_epoch`
are left out; `cs_villain_throttle` and `signature_snapshots` are on.

### PlannerPipeline: plans and their adoption

Sampler, main loop and planner worker run beside each other. A pass receives the
sweeps (`apply_sample_updates`), adopts results (`InstallEarly`), may send a request
(`SendRequest`, dropped when the channel is full), and adopts again
(`InstallLate`). The worker takes a request, merges later ones while the debounce
window is open (`TakeRequest`, `Merge`), and computes (`ComputePlan`). A plan is its
epoch, its revision and its mode.

### Planner and PlanTargets: how a plan is computed

`Planner` is `compute_plan_with_debug` over a fixed snapshot (demands, live loads,
settle windows, triggers of the request). `build_state` finds the mode and the threads
in scope and gathers them into items (the threads of a process that share data form
one); `apply_paper_greedy_seed`, in builds with that feature, places the items greedily,
the heaviest first; `MovePass` takes the best move of an item that is allowed and
clears the margin, again while it improves the plan; `SwapPass` then tries the best
exchange; `MaterializeEntries` gives every thread its target domain. Costs are those of
`evaluate_plan`: the hard constraints first (slots, then budgets exceeded and groups split),
then the soft costs, over small integers in place of MiB/s. Debug records and move traces
are left out.

A trigger may name a thread that has ended by now; it is passed over (`affected_tids`).
The slot constraints of the domains are put together by `combine`, as sums counted in units
(`Total`), which is a form a proof can use: a sum is a number because a set is finite.

`PlanTargets`, which `Planner` extends, is `assign_plan_target_cpus`, the last step:
`AssignCpu` takes the entries one by one, the most constrained first (the CPU of
the previous plan, the recent one, one with the least load); `Repair` moves a thread
from a CPU given twice to one nobody has, domain by domain, until there is nothing to
repair (`DomainRepaired`). `loads` is `cpu_loads`; only active threads are in it.

### Attribution: who loads a link

A pass has two steps here. `Observe` receives samples and messages, shares the change of
each link with a newer sample among the threads whose traffic changed the same way
(`apply_plan_cs_attribution`, in the order DRAM, total, L2), drops what is too old and
lets evidence above the link's present load decay. `AdoptPlan` adopts a result and arms
the next measurement (`arm_plan_cs_attribution`) if the plan is current, new and has
samples. A pass receives results twice before it arms, so `Results` allows two of the
moves that `PlannerPipeline` guarantees (`PlanForward`): the same revision for the same
sweep or a later one, or the next revision; that this is so is proved (`ResultsCorrect`).
Evidence is kept link by link, as a function of the threads, since everything the code
does to it is about one link. Of time the module keeps what is stale; confidence and
sample counts of a signature are left out.

### Samplers: counters, filter and shutdown

The two DF samplers, the L3 samplers, the three sample channels and the end of `run`. A DF
sampler takes `DF_MSR_LOCK` and programs the two control registers (`Program`,
`OpenWindow`), reads the counters after its window and switches them off (`ReadOut`).
After an error, and when the thread ends, the two writes of `disable_counters` are two
steps without the lock (`disable_counters`, `EndDf`), as in the code, and the other sampler
may do anything in between. Every access can fail; where the code ignores it, as in all
switch-offs, the register stays programmed. `ctl` says whose events each register holds;
`history` counts the windows that were published although they had lost one of their
registers. `apply_sample_updates` drains the channels; `LeaveLoop` sets the stop flag, `Join`
joins the threads in the code's order, `Abort` is an error of the loop, which ends the
process. A reading is a small number; the switch-off under the lock is one step, because
all that others write meanwhile is a zero as well; the counters of an L3 domain, which
one thread programs, are one value (`l3`), and may be clobbered by other software at any
time.

### Workloads: launch, adoption, guard, shutdown

`run`'s dealings with processes, beside an environment that forks (from the main thread
or another one), exits and intrudes between any two steps. `assert_clean_start`, `Spawn`,
`Enroll` and `ExecTimeout` are the launch; `BeginScan`, `AdoptOne`, `AdoptLate` and
`EndScan` a scan of an adopter; `ReadMembers` and `assert_runtime_membership` the guard,
which reads the members in one step and their parents in a later one (the walk over the
parents is a single step: `Reached` is the least set that holds a member and every parent
of its elements; the code gives up after 256 parents, and `CommandsAssumption` bounds the
pids so that no walk is that long); `TryWait` and `shutdown_child_gracefully` the end. System
calls may fail. Left out are `restrict_cgroup_cpus` and `ensure_cgroup_dir`, which prepare the
cgroup before the start, and reads of `cgroup.procs` that fail. Pids are not reused, the
threads of a process are switched together and `verbose` is off.

### Nsdi and Arcas: the two other builds

`Nsdi`: applications own CPUs and their threads run on no others. A pass adopts, measures
the waiting times (`refresh_app_pending_metrics`), lets the controller release CPUs
(`ReleaseCpus`), grant or transfer them one recipient at a time (`GrantNext`, in the order
`Sorted` of the code's comparison), and sends the messages that have a legal CPU
(`select_next_pending`). The code keeps the free CPUs of a round in a local set; the model
takes them to be those nobody owns, so it says nothing of the upkeep of that set.

`Arcas`: `maybe_rebalance` ranks the waiting threads, sets the spread and the active
domains, and plans a domain and a CPU for each thread (`build_target_plan`, whose used CPUs and
cursors are those of the threads before it in the order `ranked_tids_for_plan`); the dispatch
loop takes cross-domain moves first. Whether traffic reaches the threshold is a free
choice. Signatures, logging and profiling of both builds are left out; so are launch and
adoption in `Arcas`, which are those of `Nsdi`.

### DispatchPass: where a pass sends its threads

One pass of the main loop over `pending`, with the ledger
`DispatchBatchReservations`. `StartPass` takes the messages and the snapshot (masks, CPU
states, thread table, active plan) and builds the ledger (`from_snapshot`);
`build_burst_target_cpu_plan` reserves a CPU for each waiting thread, `EndReserve` writes
what was reserved into a current plan; then each message is decided by
`planned_decision` or else `choose_placement`, the reserved CPU replaces the selected
one where it may (`ReservedCpu`), and `Dispatch` sends the decision and enters it into
the ledger (`apply_planned_migration`, `apply_planned_cpu_assignment`, the CPU states).
`DropDead`, `DeferDispatch` and `RingFull` are the other ends of a message. Between passes
plans are adopted and age, threads die; a settle window can end at any time.

`CpuSelect` holds the choice of a CPU within a domain, which `Nsdi` and `Arcas` share. A
choice of a CPU is a set: the CPUs the code's chain of preferences may arrive at.
Left out are the load figures. A utilisation is high or not; CPUs that differ in no other
way may all be chosen; whether the pressures justify a move, and whether a thread is
young, is a free choice, while budget, settle window and slot capacity are as in the
code. "Idle" means idle with an empty DSQ. The settle and the reverse-protection window
are one flag, because the code sets them together to the same time. It is set by every
decision for another domain (`StartsSettling`) and tested by the plan and by the fallback,
each with a guard of its own (`PlanSettled`, `FallbackSettled`); the history variable
`lately` holds the threads that were in fact sent to another domain within that time, so
that `SettleRespected` does not speak of the flag. Messages of the
scheduler's own threads and the sums of pressure in the ledger are left out; the
revalidation of the planned target changes nothing here, because masks do not
change within a pass.

## Runs

| run | instance | shows |
|---|---|---|
| affinity | 3 CPUs, a managed and an internal task, 1 affinity change, scheduler pinned, one slot in each ring buffer | `Custody`: a task handed to user space is never lost; `HandedOnce`: each stay in the ops queue is handed over once; `LifecycleSpec`: the dispatch path implements `TaskLifecycle`, so no task is placed twice for one wait, or where its mask forbids |
| progress | 2 CPUs, 1 task, fairness | `NoSleepingScheduler`: the scheduler does not sleep on work the kernel side can see; `HandoffCompletes`: a task handed over comes back; `HeartbeatWakes` |
| villains | 1 thread, 2 links, 5 time units | `DeferBounded`: a deferral ends in time; `VillainShare`: a villain's slices are bounded; `LatchSticky`: a villain keeps its latch until its settle window, its activity or enough distinct clear samples end it |
| pipeline | 3 sweeps, 5 requests, fairness | `PlanForward`: the active plan never goes back or skips a revision; `SweepServed`: an accepted sweep is answered by a global plan |
| attribution | 2 links, 2 threads, 2 sweeps, 2 revisions, 3 samples | `EvidenceCovered`: threads answer for at most 5/4 of a link's load; `ArmedForward`: no plan is measured twice; `GainsCovered`: nobody gains more than the link rose |
| planner | 3 threads of 2 processes, 4 CPUs in 3 domains, one excluded; 5 snapshots, both builds, fairness | `PredictedExact`, `NoHarm`, `SettledStay` of the plan; `TargetLegal`, `NoAvoidableSharing`, `TargetsSticky`, `PlanCompletes` of its CPUs |
| dispatch_pass | 2 threads, 2 messages, 4 CPUs in 3 domains, one excluded | `CpuLedger`, `PlacedLegal`, `SettleRespected`, `NoNeedlessSharing` |
| nsdi | 2 applications, 3 processes, 2 CPUs, both policies | `OwnedOnce`, `NeedyServed`, `NothingRunnableLeft` |
| arcas | 2 threads, 4 CPUs in 3 domains of 1, 1 and 2 | `SharingForced`, `EnoughCapacity`, `PlacedWithinTargets` |
| samplers | 2 CCM domains, 1 CS link, 1 L3 domain, 2 failing accesses, fairness | `CutsBounded`: a failed access spoils at most two windows of the other sampler, the end of the threads one; `CleanReturn`: no single failure leaves a counter on; `EpochCovers`, `FlipsPersist`, `ShutdownCompletes` |
| workloads | 3 pids, 1 or 2 workloads, 1 foreign process, 2 failing calls, fairness | `GuardSound`, `GuardCatches`, `AllAdopted`, `ChildrenReaped` |
| domain_ledger | one message | a statement of the repository that the code does not keep (below) |

Why the bounds are enough to be interesting. In Rustland one slot makes both ring buffers
full and empty within a few steps. With three CPUs (`affinity`) a new mask can exclude the
CPU that was chosen and still leave two, so that the task is not pinned and goes to user
space again. TLC reaches a decision that is still valid and names a CPU outside the mask,
two messages for one task of which the first is stale, two CPUs that hold dispatches for the
same task, a task that finds the queued ring buffer full, and a pass that is broken off by a
full user ring buffer. To keep this instance small at most two kicks or reschedules are
under way at a time, and one while the internal task is about, during which the managed task
keeps its mask (`Limited`); the theorems have no such limit. In VillainControl `DeferBound`
and `Slice` are two units, so that off-by-one errors are visible; tokens for a slice take
four units, so that deferrals end in forced slices as well as in paid ones; and the settle
window is four units, so that an overloaded sample can come between two clear ones, and
several passes see the same sample, before it ends. Two threads that compete for the latches
of two links need more states than TLC can visit in reasonable time: that a fresh villain
does not replace a latched one rests on `LatchStickyCorrect`. In PlannerPipeline three
sweeps and five requests fill the channel, the worker and the result channel at once. In
Attribution two sweeps with two revisions and three samples let an armed plan expire, be
overtaken, be skipped and come again with its revision for a later sweep; the bandwidths and
weights are chosen so that every division leaves a remainder. In Planner the snapshots have
a domain above capacity with and without a group to keep together, a settling thread, global
requests and incremental ones (by thread and by domain) that stay incremental or exceed a
limit; three threads can be given the same CPU while another is free. In DispatchPass two
messages are enough for two decisions of one pass to meet (a thread with two messages, or
two threads for one CPU); its inputs (messages, masks, CPU states, plans) are few and chosen
by hand in `MCDispatchPass`: a woken and an interrupted thread, one on an excluded CPU, a
mask that cannot be read, taken, idle and hot CPUs, plans that move and swap. In Nsdi the
two applications compete for two CPUs while the masks of two processes allow one CPU each,
so releases, grants and refusals all happen (a transfer never does, see below). In Arcas the
threads can be pinned to the same CPU, to one domain or to domains outside the active ones.
In Samplers two faults suffice for an error of each sampler inside a window of the other, or
for an error whose switch-off fails as well; the L3 counters share nothing with the DF
counters, so a machine has one or the other. Both bounds of `CutsBounded` are reached: one
failure spoils two windows, and with the end of a thread a third. In Workloads three pids
are a workload with a child and a grandchild, a workload with a foreign process, or two
workloads.

Symmetry is used for the CPUs other than the scheduler's in `affinity` and for the links of
Attribution: no definition tells them apart and no liveness is checked. Deadlock is checked
where the system goes on for ever (Rustland, PlannerPipeline, Attribution, DispatchPass);
the other runs end at a time bound (VillainControl), with a finished plan (Planner) or with
the program (Nsdi, Arcas, Samplers, Workloads).

Fairness. `Rustland!Fairness`: a callback returns, a kick arrives, a slice ends, the timer
fires; a slice is long enough for the user-space scheduler to make a step (strong fairness
of `UsStep`: it may lose its CPU in between); all vtimes are 0, so a DSQ is first-in
first-out (strong fairness of `ConsumeOwn` for each task). `PipelineFairSpec` of
PlannerPipeline: the main loop and the worker keep running, and the debounce window ends
by the clock. `Planner!PlanSpec`: the computation goes on. `Samplers!FairSpec`: the
operating system runs every sampler thread and the joining one; nothing is assumed of
which waiter gets `DF_MSR_LOCK`, since the standard mutex is not fair.
`Workloads!FairSpec`: `run` goes on, and time passes, so that a scan of each adopter is
due again and again. Nothing is assumed of task wake-ups, samples, sweeps, spurious
reschedules, forks, exits or faults.

### What the code does not keep

* `domain_ledger`: a thread with a current plan entry is counted in its target domain
  from the start of the pass; when its move is committed, the target is counted up
  again, and the domain it runs in down, in which it was not counted. Later decisions
  of the pass compare slot capacities with these counts. The CPU side of the
  ledger is exact (`CpuLedger`).

### What is not promised

Behaviours of the code that the models reach and that the properties above leave room for:

* Preempted between `dequeue_task` and `publish_scheduled`, the scheduler holds tasks that
  `usersched_has_pending_tasks` cannot see; `NoSleepingScheduler` speaks of visible work
  only, and progress then depends on the heartbeat (`HandoffCompletes`).
* With the scheduler pinned (`--control-plane-cpu`), other CPUs may consume
  `usersched_needed` at every heartbeat: `HeartbeatWakes` is checked for a scheduler that
  may run anywhere.
* An insert into the shared DSQ because the ring buffer is full kicks no CPU; no progress of
  the shared DSQ is claimed.
* A forced slice that a full ring buffer refuses restarts the deferral clock, so the bound
  of one second does not hold across refusals; `DeferBounded` says what does.
* A planner request dropped by a full channel takes its sweep trigger with it: `SweepServed`
  is about accepted requests.
* A DF window can be cut short by the other sampler's unlocked `disable_counters`, and is
  then published like any other; `CutsBounded` limits how often. A delay between its two
  writes can spoil two windows with one error.
* A counter whose switch-off fails stays on: `CleanReturn` says that this takes two
  failures.
* An error that leaves the main loop by `?`, one of the guard among them, ends the process
  with counters programmed and children running: `CleanReturn` and `ChildrenReaped` are
  about the regular end. The same holds for a launch that fails after earlier ones
  succeeded.
* The controller of the NSDI build never transfers a CPU: whoever could give one up has
  released one earlier in the same round, and nobody is changed twice in a round, so the
  donor branch (`app_nsdi.rs`, 438-462) finds nobody (`NoDonor`, proved). With no CPU free a
  needy application waits for the next round.
* Only children forked by a main thread are found by a scan (`/proc/.../children` of the
  main thread); `AllAdopted` is about those. An orphan no scan has met may be blamed by the
  guard, and a message of one is never sent by the NSDI build.

## Proofs

All theorems hold for every value of the constants that the named assumptions allow. These
ask that sets of CPUs, threads and domains are finite, that buffers, slices and
intervals are positive, that the inputs are of the right type (masks are sets of CPUs,
plan entries name CPUs of the machine, a process is one of at most 256), and, where the code
relies on it, that eligible CPUs lie in eligible domains and a thread in a snapshot has
been seen on a CPU. The filter's cool band lies below its hot band and its persistence counts
within their type (`FilterAssumption`); the other policy values, bounds and loads are
arbitrary. Every inductive
invariant was checked with TLC on the run of its module before it was proved.

| module | theorems | rest on |
|---|---|---|
| `RustlandProofs` | `TypeCorrect`, `RunOnceCorrect`, `ClaimsCorrect`, `CustodyCorrect`, `AffinityCorrect`, `LifecycleCorrect`, `SleepCorrect` | `RunInv`, `CustodyInv`, `AffinityInv`, `SleepInv` |
| `LoopProofs`, of `Attribution` | `AttributionTypeCorrect`, `ArmedForwardCorrect`, `GainsCoveredCorrect`, `EvidenceCoveredCorrect` | `TypeOK`, `Behind` |
| of `PlannerPipeline` | `PipelineTypeCorrect`, `PlanForwardCorrect`, `BacklogCorrect` | `Ordered`, `BacklogInv` |
| of both | `ResultsCorrect` | `WatchInv` |
| of `VillainControl` | `VillainTypeCorrect`, `DeferBoundedCorrect`, `ClockCurrentCorrect`, `VillainShareCorrect`, `LatchStickyCorrect` | `ThrottleInv`, `LatchInv` |
| `PlannerProofs` | `PredictedCorrect`, `SettledCorrect`, `HarmCorrect`, `PlanTargetLegal`, `PlanSharing`, `PlanSticky`; the last three also of `PlanTargets` alone, with `LoadsCorrect` | `PlanInv`, `NoWorse`, `IInv` |
| `DispatchPassProofs` | `PassTypeCorrect`, `CpuLedgerCorrect`, `PlacedLegalCorrect`, `SettleCorrect`, `SharingCorrect` | `PassInv`, `WindowOpen` |
| `SamplersProofs` | `SamplerTypeCorrect`, `CutsCorrect`, `ReturnCorrect`, `EpochCorrect`, `FlipsCorrect` | `SamplerInv` |
| `NsdiProofs` | `NsdiTypeCorrect`, `OwnedOnceCorrect`, `NeedyCorrect`, `NeediestCorrect`, `RunnableCorrect`, `NoDonor` | `NsdiInv` |
| `ArcasProofs` | `ArcasTypeCorrect`, `SharingForcedCorrect`, `EnoughCapacityCorrect`, `PlacedWithinTargetsCorrect` | `ArcasInv` |
| `WorkloadsProofs` | `WorkloadsTypeCorrect`, `GuardSoundCorrect`, `GuardCatchesCorrect` | `GuardInv` |

`RustlandProofs`. `RunOnce` and `ClaimsCurrent` are proved together, since
a claim that is honoured twice would start a task twice: the invariant adds that
a CPU outside a reschedule has nothing in `next` and no live claim, and that a task
in the ops queue is on no CPU. `Custody` adds nothing but needs both: an insert removes
a message and creates a claim, a flush turns the claim into a place, and a claim is
only void when the task has left the ops queue or another claim took it.
`AffinityCorrect` adds that a live claim targets a CPU of the present mask, which
rests on the dequeue voiding the claims of a task whose mask changes.
`LifecycleCorrect` is the refinement of `TaskLifecycle`: every action maps to one step of
the abstract task or to none, from `AffinityInv`. A flush, for instance, is a decision if its
claim is live, and nothing otherwise. `SleepInv`, for `NoSleepingScheduler`,
says that whenever the scheduler waits in its DSQ and work is visible, some CPU it may
use has a kick on its way or will flush a pass before it goes idle; every step that
makes work visible kicks, and every step that uses up a kick leads to a flush.

`LoopProofs` is about three parts of the main loop and extends the three modules, whose names
are therefore disjoint: `Spec` and `TypeOK` are those of `Attribution`, `PipelineSpec` and
`VillainSpec` those of the others.

For `Attribution` the main work is about sums. A sum over a set is what a recursion over
its subsets computes, in an order nobody knows. `SumUnits` shows that it is a number of
things that can be counted, f[x] units for every x; hence a sum can be taken apart at any
element, it grows with its terms, and a sum of quotients is at most the quotient of the
sum. From these `SharesFacts` says that the rounded shares of a change, with the rest for
the last thread, are naturals that sum up to the change or to nothing; `DecayFacts` that
scaling down leaves at most the limit and raises nobody. `GainsCovered` and
`EvidenceCovered` follow link by link, the latter from no more than the types, because
every pass ends with the scaling. `ArmedForward` rests on `Behind`: the plan armed last is
not after the active one, in epoch or revision.

For `PlannerPipeline`, `Ordered` says that results, the worker's job and the request
channel, in this order, carry epochs and base revisions that do not decrease and that do
not lie behind the active plan or more than one revision ahead of it; `PlanForwardCorrect`
is an action property that follows from it. `BacklogInv` adds to `Backlog` that outside
the stretch between a request and the end of its pass at most two plans are on their way.

`ResultsCorrect` joins the two: a run of the pipeline is watched as `Attribution` sees it
(`Watch`), with the plan that is active at the end of each pass and the epoch of the main loop.
Each step is one `Attribution` allows for, up to its bound on revisions: plans move within
`Results`, the epoch rises to at most `MaxEpoch`, and they do not move at once. Its one
hypothesis relates the bounds of the two modules: the pipeline has at most as many sweeps
(`MaxSweepEpoch <= MaxEpoch`). `WatchInv` says that
in the middle of a pass the plan has moved at most once.

For `VillainControl`, `ThrottleInv` has two parts per thread. `Account`
relates tokens, billed slices and time since the bucket was opened, with equality up
to the division of each refill; `Waiting` relates the deferral clock to the history
of the pending message. `DeferBounded`, `ClockCurrent` and `VillainShare` follow. `LatchInv`
says that the counter of clear samples never exceeds the number of distinct clear samples
since the villain was latched, none newer than the one counted last, so a sample that is
looked at in several passes is counted once; `LatchSticky` follows.

`PlannerProofs`. For the search for CPUs `IInv` joins `TypeOK`, `LoadsExact` and
`TargetLegal` with three facts about the way there. An entry that has still to be assigned
has no CPU (`Unassigned`); in a domain that is repaired no active thread shares a CPU
while a candidate is free, which later repairs cannot undo because candidates of an
entry lie in its own domain (`DomainsRepaired`); and an assigned thread that is not on the
CPU of its previous plan lost it to an active one (`Sticky`). For the whole computation
`PlanInv` says that items are sets of threads (`ItemsInv`), that the tallies count the
active threads of a domain and those of the items there (`Tallied`, from which
`PredictedExact` follows by counting disjoint sets), and that an item is at home, where the
previous plan has all its threads, or in a domain that was open to each of them
(`Founded`, from which `SettledStay` follows). It also shows that `MaterializeEntries` ends in
an initial state of `PlanTargets` (`MaterializeStep`), so what is proved of that module holds
for whole plans. `NoWorse`, for `NoHarm`, says that without the greedy seed the hard
constraints are never worse than the seed's. It rests on three lemmas: the
hard constraints are five numbers whatever the soft costs are (`HardType`), these are
totally ordered (`EarlierOrder`), and a plan that costs less has no worse hard
constraints because they are compared first (`BetterHard`). What the soft costs
compute is not needed.

`DispatchPassProofs`. `PassInv` joins the types with two facts about the ledger: a thread is
among the jobs of a CPU exactly if it is booked there (`Booked`), and it is booked where its
last decision sent it, for a thread with several messages too (`LastDecisionHolds`). The
lemmas about `CpuSelect` say what a choice of a CPU promises (it lies in the domain and the
mask, and passes over no idle, untaken, unbooked CPU); they need that a minimum exists,
which is proved from the well-foundedness of the naturals. `SettleRespected` and
`NoNeedlessSharing` are action properties; the former needs `WindowOpen`: a thread that was
sent to another domain lately is in its settle window, whatever sent it and whatever was
decided about it since.

`SamplersProofs`. `LockInv`: the lock is held exactly from the first register to the end of
the window. `CtlInv` and `L3Inv`: a register that still holds events outside a window took a
failure, and two once its thread is gone. `CutInv` bounds the windows cut so far together
with what can still be spoilt (`Owed`): two by a sampler that has failed, one by each write
ahead of it; one by a thread that is between the two writes of its end, while the other
sampler has a window to lose; and one for each window that has lost a register and is not
published yet. Of the ends of the two threads only the first can spoil a window: once the
stop flag is set nobody begins one but a sampler that already waits for the lock
(`Reserve`). `SweepInv`: every announced sweep, and the one under way as far as it has come, is
accounted for at each domain by the main loop's table, a sample in the channel or a
failure. `JoinInv` is what `run` has waited for, and `FilterInv` relates the counters of the
filter to the run of samples.

`NsdiProofs`. `GrantInv` is about a round of the controller: whoever could give up a CPU
has done so, an application that has messages and no CPU has not been changed and is still
on the list, or no CPU is free; on the list those without a CPU come first. `NeedyServed`,
`NeediestFirst` and `NoDonor` follow.

`ArcasProofs`. `ArcasInv` is the types with three facts: ranks are given out once and
below the next one (`RankOnce`), some domain is always active, and nothing has been sent
when a pass begins. The properties are about what the controller computes, so the proof is
mostly of lemmas. `SortedFacts`: a strict total order on a finite set has one element with
i - 1 before it for each i, so `Sorted` lists each element once and in order.
`EnoughCapacity` rests on an exchange argument (`LargestEnough`): no set of n domains has
more CPUs than the n largest, proved by taking away an element of each, by induction on
the set; with it `SelectionEnough` covers the two ways in which `select_active_domains`
may end. For `SharingForced`, `PlanFacts` shows what `build_target_plan` gives each
thread: a CPU of its mask in its domain, and one used before only if all of those are
used. The recursion over the threads before it is shown to be well founded first
(`Recursion`). `PlacedWithinTargets` follows from `DecisionPlaced`, about the chain of
preferences in `choose_placement_with_targets`, and from the fact that neither masks nor
active domains change while a pass sends.

Induction over finite sets and over naturals is used in these proofs in a form without an
operator as parameter: the property is given as the set of those values that have it
(`SubsetInduction`), and a least counterexample exists because the naturals are well
founded.

`WorkloadsProofs`. The guard reads the members of the cgroup first and their parents later,
and processes fork and exit in between. `GuardInv` says why it blames nobody wrongly all
the same: a parent that a process has is alive, a process in the cgroup that was not put there
has its place from its parent (`Inherited`), so what was read is closed under parents while
it is checked (`MembersClosed`); and only descendants of a workload are ever adopted
(`Adopted`), so a foreign process is always found (`GuardCatches`).

Type invariants are proved and not listed as run properties. `RunOnce`, `ClaimsCurrent`,
`DsqAllowed`, `ClockCurrent`, `Backlog`, `LoadsExact`, `NeediestFirst` and `NoDonor` are
proved only; they are steps of these proofs with a meaning of their own.

Every safety invariant and every action property of a passing run but `HandedOnce` is stated
by one of these theorems. `HandedOnce` counts messages over four sequences and is only
model-checked; so is what holds under fairness, which is out of the prover's reach:
`HandoffCompletes` and `HeartbeatWakes` of `Rustland`, `SweepServed` of `PlannerPipeline`,
`PlanCompletes` of `Planner`, `ShutdownCompletes` of `Samplers`, `AllAdopted` and
`ChildrenReaped` of `Workloads`.

## Plan

What the model does not have yet and could: `cpu_state_map` with `cpu_dsq_depth`, the tick
back-off (`tick_holdoff`), and the modules of one pass composed into one, as `ResultsCorrect`
does for two of them; a proof of `HandedOnce`.

## Not modelled

* Discovery of topology and host map, command line, data types: constants of the models.
* Logging, statistics, profiling, planner traces, the monitor: output only.
* CPU utilisation and the conversion of counter values to bandwidths and pressures:
  inputs of the models.
* Performance-counter sampling and per-task statistics in `main.bpf.c`, `cpu_state_map`,
  `tick_seq` and `tick_holdoff`.
* The stall filler (`stall-filler-spinner`), the light helpers and `run_empty`, the loop
  without workloads.
* Scores of the placement policy and of villain candidates: a free choice, so what is shown
  holds for any scoring.
* The stand-alone probe and load programs, and vendored code.
