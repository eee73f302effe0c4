------------------------------ MODULE Rustland ------------------------------
(***************************************************************************)
(* The dispatch path of the scheduler: the sched_ext callbacks of          *)
(* main.bpf.c, the two ring buffers that join them to the user-space       *)
(* scheduler, and the dequeue / decide / dispatch / notify loop of         *)
(* app::run.                                                               *)
(*                                                                         *)
(* Every CPU is an actor: it runs a task, the user-space scheduler, or     *)
(* nothing, and when it reschedules it walks through rustland_dispatch one *)
(* phase at a time, so that the callbacks of other CPUs, the heartbeat     *)
(* timer and the user-space scheduler interleave with it.  The sched_ext   *)
(* core (DSQs, ops state, kicks, SCX_OPS_ENQ_LAST) is external: it is      *)
(* modelled from how the callbacks use it.                                 *)
(*                                                                         *)
(* A DSQ has the id of its CPU (cpu_to_dsq), so loc[t] = c says that t     *)
(* waits in the DSQ of CPU c.                                              *)
(***************************************************************************)
EXTENDS Naturals, Sequences, FiniteSets

CONSTANTS
    Cpus,           \* CPUs of the host
    Tasks,          \* tasks of the SCHED_EXT class, the scheduler excepted
    Internal,       \* tasks of internal_tgids (kswapd and khugepaged, treated
                    \* alike, never are of this class: SCX_OPS_SWITCH_PARTIAL)
    UsMask,         \* CPUs the user-space scheduler may run on
    QueuedCap,      \* slots of the @queued ring buffer
    DispatchedCap,  \* slots of the @dispatched user ring buffer
    MaxDefer,       \* bound: consecutive deferrals of one queued task
    MaxAffinity     \* bound: affinity changes in a behaviour

US    == "usersched"
IDLE  == "idle"
ANY   == "RL_CPU_ANY"
Places == {"asleep", "opsq", "shared", "running", "dead"}
Phases == {"run", "drain", "flush", "consume", "prev", "put"}

ASSUME CpusAssumption == /\ Cpus \cap (Places \cup {ANY, US, IDLE}) = {}
                         /\ IsFiniteSet(Cpus)
ASSUME TasksAssumption == /\ Tasks \cap {US, IDLE} = {}
                          /\ Internal \subseteq Tasks
ASSUME UsMaskAssumption == UsMask \subseteq Cpus /\ UsMask # {}
ASSUME BoundAssumption == /\ QueuedCap \in Nat \ {0}
                          /\ DispatchedCap \in Nat \ {0}
                          /\ MaxDefer \in Nat
                          /\ MaxAffinity \in Nat

VARIABLES
    loc,        \* where each task is: a place, or the CPU whose DSQ holds it
    cpu,        \* scx_bpf_task_cpu(p)
    mask,       \* p->cpus_ptr
    trig,       \* tctx->pending_trigger is QUEUE_TRIGGER_TICK
    curr,       \* what each CPU runs; in a reschedule, @prev if still runnable
    pc,         \* phase of each CPU's reschedule, "run" outside of one
    next,       \* what the dispatch pass moved to the CPU's local DSQ
    buf,        \* the pass's dispatch buffer, with the kicks it issued
    kick,       \* CPUs with an undelivered kick
    queued,     \* @queued ring buffer, kernel to user space
    dispatched, \* @dispatched user ring buffer, user space to kernel
    needed,     \* usersched_needed
    nrScheduled,\* nr_scheduled
    usCpu,      \* CPU the user-space scheduler last ran on
    usPc,       \* step of the main loop
    pending,    \* the main loop's pending queue
    deferred,   \* tasks the current pass put off
    affinityLeft

taskVars == <<loc, cpu, mask, trig>>
cpuVars  == <<curr, pc, next, buf, kick>>
wakeVars == <<needed, nrScheduled>>
usVars   == <<usCpu, usPc, pending, deferred>>
vars == <<taskVars, cpuVars, queued, dispatched, wakeVars, usVars, affinityLeft>>

NoBuf == [tid |-> IDLE, dsq |-> "shared", live |-> FALSE, kicks |-> {}]
QueuedTask == [tid : Tasks, tick : BOOLEAN, defers : 0..MaxDefer]
Buffer == [tid : Tasks \cup {IDLE}, dsq : Cpus \cup {"shared"},
           live : BOOLEAN, kicks : SUBSET Cpus]
DispatchedTask == [tid : Tasks, cpu : Cpus \cup {ANY}]

Init ==
    /\ loc = [t \in Tasks |-> "asleep"]
    /\ mask = [t \in Tasks |-> Cpus]
    /\ cpu \in [Tasks -> Cpus]
    /\ trig = [t \in Tasks |-> FALSE]
    /\ usCpu \in UsMask
    /\ curr = [c \in Cpus |-> IF c = usCpu THEN US ELSE IDLE]
    /\ pc = [c \in Cpus |-> "run"]
    /\ next = [c \in Cpus |-> IDLE]
    /\ buf = [c \in Cpus |-> NoBuf]
    /\ kick = {}
    /\ queued = <<>> /\ dispatched = <<>>
    /\ needed = FALSE /\ nrScheduled = 0
    /\ usPc = "dequeue" /\ pending = <<>> /\ deferred = <<>>
    /\ affinityLeft = MaxAffinity

-----------------------------------------------------------------------------
(* State predicates used by the callbacks.                                 *)

Idle(c) == curr[c] = IDLE /\ pc[c] = "run"
DsqEmpty(d) == \A t \in Tasks : loc[t] # d
UsRunning == \E c \in Cpus : curr[c] = US
UsInDsq == \A c \in Cpus : curr[c] # US /\ next[c] # US

\* Not under the rq lock of a CPU in the middle of a reschedule.
Unlocked(t) == \A c \in Cpus : (curr[c] = t \/ next[c] = t) => pc[c] = "run"

can_direct_dispatch(c) == DsqEmpty("shared") /\ DsqEmpty(c)

usersched_has_pending_tasks == needed \/ nrScheduled > 0 \/ queued # <<>>

\* The outcomes of an idle search over the CPUs m: some idle CPU, or none.  The
\* search clears the idle bit of the CPU it returns, which is always kicked
\* afterwards: an idle CPU that is not kicked has its bit set.
PickIdle(m) == {i \in m : Idle(i)}
NoneIdle(m) == PickIdle(m) \subseteq kick

\* bpf_cpumask_first() or the waker's CPU: some CPU the task may use.
Home(m, c) == IF c \in m THEN {c} ELSE m

-----------------------------------------------------------------------------
(* Enqueue: custody of t passes to a DSQ or to user space.                 *)

InsertDsq(t, d, kicks) ==
    /\ loc' = [loc EXCEPT ![t] = d]
    /\ kick' = kick \cup kicks
    /\ UNCHANGED <<trig, queued, needed>>

\* Mutant: the CPU of the user-space scheduler is not kicked.
queue_without_kick(t, kicks) ==
    \/ /\ Len(queued) < QueuedCap
       /\ queued' = Append(queued, [tid |-> t, tick |-> trig[t], defers |-> 0])
       /\ trig' = [trig EXCEPT ![t] = FALSE]
       /\ needed' = TRUE
       /\ loc' = [loc EXCEPT ![t] = "opsq"]
       /\ kick' = kick \cup kicks
    \/ /\ Len(queued) = QueuedCap
       /\ InsertDsq(t, "shared", kicks)

queue_task_to_userspace(t, kicks) ==
    \/ /\ Len(queued) < QueuedCap
       /\ queued' = Append(queued, [tid |-> t, tick |-> trig[t], defers |-> 0])
       /\ trig' = [trig EXCEPT ![t] = FALSE]
       /\ needed' = TRUE
       /\ loc' = [loc EXCEPT ![t] = "opsq"]
       /\ kick' = kick \cup kicks \cup {usCpu}
    \/ /\ Len(queued) = QueuedCap
       /\ InsertDsq(t, "shared", kicks)

\* rustland_enqueue for a task whose CPU is c and whose affinity is m.
\* wake is is_queued_wakeup(); kicks are the reschedules the kernel itself
\* requests for this enqueue.
rustland_enqueue(t, c, m, wake, kicks) ==
    IF t \in Internal
    THEN InsertDsq(t, c, IF wake THEN kicks \cup {c} ELSE kicks)
    ELSE IF Cardinality(m) = 1
    THEN \E only \in m : InsertDsq(t, only, kicks \cup {only})
    ELSE IF ~wake
    THEN queue_task_to_userspace(t, kicks)
    ELSE \/ NoneIdle(m) /\ queue_task_to_userspace(t, kicks \cup {c})
         \/ \E i \in PickIdle(m) :
              IF can_direct_dispatch(i)
              THEN InsertDsq(t, i, kicks \cup {i})
              ELSE queue_task_to_userspace(t, kicks \cup {i})

\* A sleeping task wakes and rustland_select_cpu picks its CPU.
Wakeup(t) ==
    /\ loc[t] = "asleep"
    /\ \E c \in Home(mask[t], cpu[t]) :
         \/ /\ NoneIdle(mask[t])
            /\ cpu' = [cpu EXCEPT ![t] = c]
            /\ rustland_enqueue(t, c, mask[t], FALSE, {c})
         \/ \E i \in PickIdle(mask[t]) :
              /\ cpu' = [cpu EXCEPT ![t] = i]
              /\ IF can_direct_dispatch(i)
                 THEN InsertDsq(t, i, {i})
                 ELSE rustland_enqueue(t, i, mask[t], FALSE, {i})
    /\ UNCHANGED <<mask, curr, pc, next, buf, dispatched, nrScheduled, usVars,
                   affinityLeft>>

\* A wakeup that skips ops.select_cpu (SCX_OPS_ALLOW_QUEUED_WAKEUP).
QueuedWakeup(t) ==
    /\ loc[t] = "asleep" /\ cpu[t] \in mask[t]
    /\ rustland_enqueue(t, cpu[t], mask[t], TRUE, {cpu[t]})
    /\ UNCHANGED <<cpu, mask, curr, pc, next, buf, dispatched, nrScheduled, usVars,
                   affinityLeft>>

\* A dequeue takes t out of the ops queue: a buffered insert of it is void.
Revoke(t) == buf' = [c \in Cpus |-> IF buf[c].tid = t
                                    THEN [buf[c] EXCEPT !.live = FALSE]
                                    ELSE buf[c]]

\* sched_setaffinity: a runnable task that is not running, or runs outside the
\* new mask, is dequeued, moved to a CPU it may use and enqueued again.
SetAffinity(t, m) ==
    /\ affinityLeft > 0 /\ loc[t] # "dead" /\ m # mask[t] /\ Unlocked(t)
    /\ affinityLeft' = affinityLeft - 1
    /\ mask' = [mask EXCEPT ![t] = m]
    /\ IF loc[t] = "asleep" \/ (loc[t] = "running" /\ cpu[t] \in m)
       THEN UNCHANGED <<loc, cpu, trig, curr, pc, buf, kick, queued, needed>>
       ELSE /\ \E c \in Home(m, cpu[t]) :
                 /\ cpu' = [cpu EXCEPT ![t] = c]
                 /\ rustland_enqueue(t, c, m, TRUE, {c})
            /\ Revoke(t)
            /\ curr' = [c \in Cpus |-> IF curr[c] = t THEN IDLE ELSE curr[c]]
            /\ pc' = [c \in Cpus |-> IF curr[c] = t THEN "drain" ELSE pc[c]]
    /\ UNCHANGED <<next, dispatched, nrScheduled, usVars>>

-----------------------------------------------------------------------------
(* What makes a CPU reschedule.                                            *)

EnterDispatch(c) == pc' = [pc EXCEPT ![c] = "drain"]

\* The running task leaves the CPU: it blocks or exits.
Leave(t, c, place) ==
    /\ pc[c] = "run" /\ curr[c] = t
    /\ loc' = [loc EXCEPT ![t] = place]
    /\ curr' = [curr EXCEPT ![c] = IDLE]
    /\ EnterDispatch(c)
    /\ UNCHANGED <<cpu, mask, trig, next, buf, kick, queued, dispatched,
                   wakeVars, usVars, affinityLeft>>

Block(t, c) == Leave(t, c, "asleep")
Exit(t, c)  == Leave(t, c, "dead")

\* The slice of the task or of the user-space scheduler ran out.
SliceEnd(c) ==
    /\ pc[c] = "run" /\ curr[c] # IDLE
    /\ EnterDispatch(c)
    /\ UNCHANGED <<taskVars, curr, next, buf, kick, queued, dispatched, wakeVars,
                   usVars, affinityLeft>>

\* rustland_tick past its early returns (not due, held off, fast path, pinned).
rustland_tick(t, c) ==
    /\ pc[c] = "run" /\ curr[c] = t
    /\ t \notin Internal /\ Cardinality(mask[t]) # 1
    /\ trig' = [trig EXCEPT ![t] = TRUE]
    /\ needed' = TRUE
    /\ EnterDispatch(c)
    /\ UNCHANGED <<loc, cpu, mask, curr, next, buf, kick, queued, dispatched,
                   nrScheduled, usVars, affinityLeft>>

\* A kick reaches its CPU: SCX_KICK_IDLE reschedules it only if it is idle.
DeliverKick(c) ==
    /\ c \in kick /\ pc[c] = "run"
    /\ kick' = kick \ {c}
    /\ pc' = [pc EXCEPT ![c] = IF curr[c] = IDLE THEN "drain" ELSE "run"]
    /\ UNCHANGED <<taskVars, curr, next, buf, queued, dispatched, wakeVars, usVars,
                   affinityLeft>>

\* An idle CPU may reschedule for reasons of its own (other scheduling classes).
SpuriousResched(c) ==
    /\ Idle(c)
    /\ EnterDispatch(c)
    /\ UNCHANGED <<taskVars, curr, next, buf, kick, queued, dispatched, wakeVars,
                   usVars, affinityLeft>>

\* Mutant: the heartbeat kicks the CPU and does not set usersched_needed.
timer_only_kicks ==
    /\ kick' = kick \cup {usCpu}
    /\ UNCHANGED <<taskVars, curr, pc, next, buf, queued, dispatched, wakeVars,
                   usVars, affinityLeft>>

\* Mutant: the heartbeat sets usersched_needed and kicks no CPU.
timer_only_flags ==
    /\ needed' = TRUE
    /\ UNCHANGED <<taskVars, cpuVars, queued, dispatched, nrScheduled, usVars,
                   affinityLeft>>

\* The heartbeat: a timer period has passed since the user-space scheduler last
\* started to run, be it running still or not.
usersched_timer_fn ==
    /\ needed' = TRUE
    /\ kick' = kick \cup {usCpu}
    /\ UNCHANGED <<taskVars, curr, pc, next, buf, queued, dispatched, nrScheduled,
                   usVars, affinityLeft>>

-----------------------------------------------------------------------------
(* rustland_dispatch, under the rq lock of c.  A kick issued by the pass is *)
(* sent when the lock is dropped, so it waits in buf[c].kicks until Flush.  *)

\* kick_task_cpu: the CPUs it kicks; the second one is any idle CPU t may use.
kick_task_cpu(t) ==
    IF cpu[t] \in mask[t] THEN {{cpu[t]}}
    ELSE {{cpu[t], i} : i \in PickIdle(mask[t])}
           \cup (IF NoneIdle(mask[t]) THEN {{cpu[t]}} ELSE {})

\* scx_bpf_dsq_insert_vtime: t is claimed now and moved at the flush, unless it
\* is not in the ops queue, or leaves it in between.
Insert(t, d, kicks) ==
    [tid |-> t, dsq |-> d, live |-> loc[t] = "opsq", kicks |-> kicks]

\* Mutant: the CPU the policy named is not checked against the affinity.
dispatch_task_unchecked(m) ==
    IF loc[m.tid] = "dead" THEN {NoBuf}
    ELSE IF m.cpu = ANY
    THEN {Insert(m.tid, "shared", k) : k \in kick_task_cpu(m.tid)}
    ELSE {Insert(m.tid, m.cpu, {m.cpu})}

dispatch_task(m) ==
    IF loc[m.tid] = "dead" THEN {NoBuf}
    ELSE IF m.cpu = ANY
    THEN {Insert(m.tid, "shared", k) : k \in kick_task_cpu(m.tid)}
    ELSE LET d == IF m.cpu \in mask[m.tid] THEN m.cpu ELSE cpu[m.tid]
         IN {Insert(m.tid, d, {d})}

\* handle_dispatched_task returns 1 while slots are left, which ends
\* bpf_user_ringbuf_drain: a pass takes one entry.
Drain(c) ==
    /\ pc[c] = "drain"
    /\ pc' = [pc EXCEPT ![c] = "flush"]
    /\ \/ /\ dispatched = <<>>
          /\ UNCHANGED <<buf, dispatched>>
       \/ /\ dispatched # <<>>
          /\ dispatched' = Tail(dispatched)
          /\ \E b \in dispatch_task(Head(dispatched)) : buf' = [buf EXCEPT ![c] = b]
    /\ UNCHANGED <<taskVars, curr, next, kick, queued, wakeVars, usVars, affinityLeft>>

\* The buffered insert takes effect; any other claim on the task is void.
Flushed(c) ==
    /\ loc' = IF buf[c].live THEN [loc EXCEPT ![buf[c].tid] = buf[c].dsq] ELSE loc
    /\ buf' = [d \in Cpus |-> IF d = c THEN [buf[c] EXCEPT !.live = FALSE, !.kicks = {}]
                              ELSE IF buf[c].live /\ buf[d].tid = buf[c].tid
                              THEN [buf[d] EXCEPT !.live = FALSE]
                              ELSE buf[d]]
    /\ kick' = kick \cup buf[c].kicks

\* First use of usersched_has_pending_tasks, and the move from SCHED_DSQ.
Flush(c) ==
    /\ pc[c] = "flush"
    /\ Flushed(c)
    /\ needed' = FALSE
    /\ IF usersched_has_pending_tasks /\ UsInDsq /\ c \in UsMask
       THEN next' = [next EXCEPT ![c] = US] /\ pc' = [pc EXCEPT ![c] = "put"]
       ELSE pc' = [pc EXCEPT ![c] = "consume"] /\ UNCHANGED next
    /\ UNCHANGED <<cpu, mask, trig, curr, queued, dispatched, nrScheduled, usVars,
                   affinityLeft>>

\* Tasks of DSQ d that CPU c may run.
Consumable(d, c) == {t \in Tasks : loc[t] = d /\ c \in mask[t]}

MoveToLocal(c, t) ==
    /\ pc[c] = "consume"
    /\ loc' = [loc EXCEPT ![t] = "running"]
    /\ cpu' = [cpu EXCEPT ![t] = c]
    /\ next' = [next EXCEPT ![c] = t]
    /\ pc' = [pc EXCEPT ![c] = "put"]
    /\ UNCHANGED <<mask, trig, curr, buf, kick, queued, dispatched, wakeVars, usVars,
                   affinityLeft>>

ConsumeOwn(c, t) == t \in Consumable(c, c) /\ MoveToLocal(c, t)

ConsumeShared(c, t) ==
    /\ Consumable(c, c) = {}
    /\ t \in Consumable("shared", c)
    /\ MoveToLocal(c, t)

ConsumeNothing(c) ==
    /\ pc[c] = "consume"
    /\ Consumable(c, c) = {} /\ Consumable("shared", c) = {}
    /\ pc' = [pc EXCEPT ![c] = "prev"]
    /\ UNCHANGED <<taskVars, curr, next, buf, kick, queued, dispatched, wakeVars,
                   usVars, affinityLeft>>

\* Is the slice of @prev replenished?
Replenished(c) ==
    IF curr[c] = US THEN usersched_has_pending_tasks
    ELSE curr[c] # IDLE /\ ~trig[curr[c]]

\* @prev is kept, or the core calls rustland_dispatch again because this pass
\* inserted something, or nothing is left to run.
KeepPrev(c) ==
    /\ pc[c] = "prev"
    /\ needed' = (needed /\ curr[c] # US)
    /\ buf' = [buf EXCEPT ![c] = NoBuf]
    /\ \/ /\ Replenished(c)
          /\ pc' = [pc EXCEPT ![c] = "run"]
       \/ /\ ~Replenished(c)
          /\ pc' = [pc EXCEPT ![c] = IF buf[c].tid # IDLE THEN "drain" ELSE "put"]
    /\ UNCHANGED <<taskVars, curr, next, kick, queued, dispatched, nrScheduled,
                   usVars, affinityLeft>>

\* put_prev and set_next: a runnable @prev is enqueued again (SCX_OPS_ENQ_LAST
\* when nothing else runs), the user-space scheduler into SCHED_DSQ.
SwitchTo(c) ==
    /\ pc[c] = "put"
    /\ curr' = [curr EXCEPT ![c] = next[c]]
    /\ next' = [next EXCEPT ![c] = IDLE]
    /\ buf' = [buf EXCEPT ![c] = NoBuf]
    /\ pc' = [pc EXCEPT ![c] = "run"]
    /\ usCpu' = IF next[c] = US THEN c ELSE usCpu
    /\ IF curr[c] \in Tasks
       THEN rustland_enqueue(curr[c], c, mask[curr[c]], FALSE, {})
       ELSE UNCHANGED <<loc, trig, kick, queued, needed>>
    /\ UNCHANGED <<cpu, mask, dispatched, nrScheduled, usPc, pending, deferred,
                   affinityLeft>>

-----------------------------------------------------------------------------
(* The user-space scheduler: one pass of the loop of app::run, while it has *)
(* a CPU.                                                                    *)

UsAt(step) == usPc = step /\ \E c \in Cpus : curr[c] = US /\ pc[c] = "run"

dequeue_task ==
    /\ UsAt("dequeue")
    /\ \/ /\ queued # <<>>
          /\ pending' = Append(pending, Head(queued))
          /\ queued' = Tail(queued)
          /\ UNCHANGED usPc
       \/ /\ queued = <<>>
          /\ usPc' = "publish"
          /\ UNCHANGED <<pending, queued>>
    /\ UNCHANGED <<taskVars, cpuVars, dispatched, wakeVars, usCpu, deferred,
                   affinityLeft>>

publish_scheduled ==
    /\ UsAt("publish")
    /\ nrScheduled' = Len(pending)
    /\ usPc' = "decide"
    /\ UNCHANGED <<taskVars, cpuVars, queued, dispatched, needed, usCpu, pending,
                   deferred, affinityLeft>>

\* The pass takes the head of its pending queue.
TakePending == UsAt("decide") /\ pending # <<>> /\ pending' = Tail(pending)

\* The affinity of a dead thread cannot be read: its entry is skipped.
DropDead ==
    /\ TakePending
    /\ loc[Head(pending).tid] = "dead"
    /\ UNCHANGED <<taskVars, cpuVars, queued, dispatched, wakeVars, usCpu, usPc,
                   deferred, affinityLeft>>

\* The villain token bucket puts a tick-triggered task off to a later pass.
DeferDispatch ==
    LET m == Head(pending) IN
    /\ TakePending
    /\ m.tick /\ m.defers < MaxDefer
    /\ deferred' = Append(deferred, [m EXCEPT !.defers = @ + 1])
    /\ UNCHANGED <<taskVars, cpuVars, queued, dispatched, wakeVars, usCpu, usPc,
                   affinityLeft>>

\* The policy may name any CPU: the affinity it reads is cached and may be old.
Dispatch(d) ==
    /\ TakePending
    /\ Len(dispatched) < DispatchedCap
    /\ dispatched' = Append(dispatched, [tid |-> Head(pending).tid, cpu |-> d])
    /\ UNCHANGED <<taskVars, cpuVars, queued, wakeVars, usCpu, usPc, deferred,
                   affinityLeft>>

\* Nothing is left, or the user ring buffer is full and the task goes back.
EndPass ==
    /\ UsAt("decide")
    /\ pending = <<>> \/ Len(dispatched) = DispatchedCap
    /\ usPc' = "notify"
    /\ UNCHANGED <<taskVars, cpuVars, queued, dispatched, wakeVars, usCpu, pending,
                   deferred, affinityLeft>>

\* Mutant: the deferred tasks do not rejoin the pending queue.
notify_loses_deferred ==
    /\ UsAt("notify")
    /\ deferred' = <<>>
    /\ nrScheduled' = Len(pending)
    /\ usPc' = "dequeue"
    /\ pc' = [c \in Cpus |-> IF curr[c] = US /\ pc[c] = "run" THEN "drain" ELSE pc[c]]
    /\ UNCHANGED <<taskVars, curr, next, buf, kick, queued, dispatched, needed, usCpu,
                   pending, affinityLeft>>

\* Mutant: the deferred tasks rejoin the queue and are kept for the next pass too.
notify_keeps_deferred ==
    /\ UsAt("notify")
    /\ pending' = pending \o deferred
    /\ nrScheduled' = Len(pending) + Len(deferred)
    /\ usPc' = "dequeue"
    /\ pc' = [c \in Cpus |-> IF curr[c] = US /\ pc[c] = "run" THEN "drain" ELSE pc[c]]
    /\ UNCHANGED <<taskVars, curr, next, buf, kick, queued, dispatched, needed, usCpu,
                   deferred, affinityLeft>>

\* The deferred tasks rejoin the queue, the count is published, the thread
\* yields its CPU.
notify_complete ==
    /\ UsAt("notify")
    /\ pending' = pending \o deferred
    /\ deferred' = <<>>
    /\ nrScheduled' = Len(pending) + Len(deferred)
    /\ usPc' = "dequeue"
    /\ pc' = [c \in Cpus |-> IF curr[c] = US /\ pc[c] = "run" THEN "drain" ELSE pc[c]]
    /\ UNCHANGED <<taskVars, curr, next, buf, kick, queued, dispatched, needed, usCpu,
                   affinityLeft>>

-----------------------------------------------------------------------------
TaskStep(t) ==
    \/ Wakeup(t)
    \/ QueuedWakeup(t)
    \/ \E m \in (SUBSET Cpus) \ {{}} : SetAffinity(t, m)
    \/ \E c \in Cpus : Block(t, c) \/ Exit(t, c) \/ rustland_tick(t, c)

DispatchStep(c) ==
    \/ Drain(c)
    \/ Flush(c)
    \/ \E t \in Tasks : ConsumeOwn(c, t) \/ ConsumeShared(c, t)
    \/ ConsumeNothing(c)
    \/ KeepPrev(c)
    \/ SwitchTo(c)

CpuStep(c) == SliceEnd(c) \/ DeliverKick(c) \/ SpuriousResched(c) \/ DispatchStep(c)

UsStep ==
    \/ dequeue_task \/ publish_scheduled
    \/ DropDead \/ DeferDispatch \/ (\E d \in Cpus \cup {ANY} : Dispatch(d)) \/ EndPass
    \/ notify_complete

Next ==
    \/ \E t \in Tasks : TaskStep(t)
    \/ \E c \in Cpus : CpuStep(c)
    \/ UsStep
    \/ usersched_timer_fn

Spec == Init /\ [][Next]_vars

\* Slices expire, kicks arrive, callbacks return, the timer fires, and a slice
\* is long enough for the scheduler to make progress.  All vtimes are 0, so a
\* DSQ is first-in first-out: strong fairness of ConsumeOwn for each task.
Fairness ==
    /\ \A c \in Cpus : /\ WF_vars(DispatchStep(c))
                       /\ WF_vars(SliceEnd(c))
                       /\ WF_vars(DeliverKick(c))
                       /\ \A t \in Tasks : SF_vars(ConsumeOwn(c, t))
    /\ SF_vars(UsStep)
    /\ WF_vars(usersched_timer_fn)

FairSpec == Spec /\ Fairness

-----------------------------------------------------------------------------
(* Properties.                                                             *)

Holds(s, t) == \E i \in 1..Len(s) : s[i].tid = t

\* Type invariant of the dispatch path.
TypeOK ==
    /\ loc \in [Tasks -> Places \cup Cpus]
    /\ cpu \in [Tasks -> Cpus]
    /\ mask \in [Tasks -> (SUBSET Cpus) \ {{}}]
    /\ trig \in [Tasks -> BOOLEAN]
    /\ curr \in [Cpus -> Tasks \cup {US, IDLE}]
    /\ pc \in [Cpus -> Phases]
    /\ next \in [Cpus -> Tasks \cup {US, IDLE}]
    /\ buf \in [Cpus -> Buffer]
    /\ kick \in SUBSET Cpus
    /\ queued \in Seq(QueuedTask) /\ Len(queued) <= QueuedCap
    /\ dispatched \in Seq(DispatchedTask) /\ Len(dispatched) <= DispatchedCap
    /\ needed \in BOOLEAN /\ nrScheduled \in Nat
    /\ usCpu \in Cpus
    /\ usPc \in {"dequeue", "publish", "decide", "notify"}
    /\ pending \in Seq(QueuedTask) /\ deferred \in Seq(QueuedTask)
    /\ affinityLeft \in 0..MaxAffinity

\* A message for t is in a ring buffer, in a queue of the main loop, or in a
\* dispatch buffer that will still be honoured.
Held(t) ==
    \/ Holds(queued, t) \/ Holds(pending, t) \/ Holds(deferred, t)
    \/ Holds(dispatched, t)
    \/ \E c \in Cpus : buf[c].live /\ buf[c].tid = t

\* A task handed to user space is never lost on the way: while the kernel has
\* it in the ops queue (SCX_OPSS_QUEUED), something still holds its message.
Custody == \A t \in Tasks : loc[t] = "opsq" => Held(t)

\* How many messages for t are on their way: the places Held looks at.
Count(s, t) == Cardinality({i \in 1..Len(s) : s[i].tid = t})
MessagesFor(t) ==
    Count(queued, t) + Count(pending, t) + Count(deferred, t) + Count(dispatched, t)
        + Cardinality({c \in Cpus : buf[c].live /\ buf[c].tid = t})

\* A task is handed over once for each stay in the ops queue: two messages for one
\* task are only under way when an affinity change ended an earlier stay, and nothing
\* on the way (a deferral, a full ring buffer, a pass that is broken off) adds one.
HandedOnce ==
    \A t \in Tasks :
        MessagesFor(t) <= (IF loc[t] = "opsq" THEN 1 ELSE 0) + (MaxAffinity - affinityLeft)

\* A buffered dispatch that will be honoured is for the task's present stay in
\* the ops queue, never for an earlier one, and belongs to a pass that is about
\* to flush.
ClaimsCurrent ==
    \A c \in Cpus : buf[c].live =>
        /\ pc[c] = "flush"
        /\ buf[c].tid \in Tasks
        /\ loc[buf[c].tid] = "opsq"

\* Whatever the affinity was when the policy chose, when the dispatch was
\* buffered, or when the task was enqueued, a task only waits in the DSQ of a
\* CPU it may use, and only runs on one.
DsqAllowed ==
    \A t \in Tasks :
        /\ loc[t] \in Cpus => loc[t] \in mask[t]
        /\ \A c \in Cpus : (curr[c] = t \/ next[c] = t) => c \in mask[t]

\* Duplicated and stale dispatches never start a task twice: a task is on a CPU
\* exactly when its place says so, and then on the CPU scx_bpf_task_cpu names;
\* the user-space scheduler is on at most one.
RunOnce ==
    /\ \A t \in Tasks, c \in Cpus :
         (curr[c] = t \/ next[c] = t) <=> (loc[t] = "running" /\ cpu[t] = c)
    /\ \A c \in Cpus : curr[c] # IDLE => next[c] # curr[c]
    /\ \A c, d \in Cpus :
         (US \in {curr[c], next[c]} /\ US \in {curr[d], next[d]}) => c = d

\* The task a CPU runs.
RunsTask(c) == IF curr[c] \in Tasks THEN curr[c] ELSE IDLE

Lifecycle == INSTANCE TaskLifecycle WITH
    NoTask <- IDLE, place <- loc, on <- [c \in Cpus |-> RunsTask(c)]

\* The dispatch path implements TaskLifecycle, which knows no messages: although two
\* dispatches for one task may be under way, of which one was decided for an earlier
\* stay in the ops queue and an earlier mask, a task is placed once for each stay,
\* within its present mask, is moved again by an affinity change only, and is
\* switched to when it has been taken, runs nowhere else and may use the CPU.
LifecycleSpec == Lifecycle!Spec

\* The user-space scheduler does not sleep on tasks that the kernel side can see
\* it has: some CPU it may use will come by SCHED_DSQ again.
NoSleepingScheduler ==
    UsInDsq /\ (queued # <<>> \/ nrScheduled > 0) =>
        \E c \in UsMask : c \in kick \/ ~Idle(c)

\* Every task handed to user space comes back to a DSQ.
HandoffCompletes == \A t \in Tasks : loc[t] = "opsq" ~> loc[t] # "opsq"

\* The heartbeat keeps the user-space scheduler from long inactivity.
HeartbeatWakes == []<>UsRunning
=============================================================================
