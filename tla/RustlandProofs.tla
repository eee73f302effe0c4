--------------------------- MODULE RustlandProofs ---------------------------
(***************************************************************************)
(* Proofs about Rustland, for every value of its constants: any number of  *)
(* CPUs and tasks, any ring capacities, any number of affinity changes and *)
(* deferrals.                                                              *)
(***************************************************************************)
EXTENDS Rustland, TLAPS

\* What an enqueue does, whichever branch rustland_enqueue takes: the task goes
\* to a DSQ it was offered, or to user space with a message in the ring.
EnqueuedToDsq(t, D) ==
    /\ \E d \in D \cup {"shared"} : loc' = [loc EXCEPT ![t] = d]
    /\ UNCHANGED <<trig, queued, needed>>

EnqueuedToUser(t) ==
    /\ loc' = [loc EXCEPT ![t] = "opsq"]
    /\ queued' = Append(queued, [tid |-> t, tick |-> trig[t], defers |-> 0])
    /\ Len(queued) < QueuedCap
    /\ trig' = [trig EXCEPT ![t] = FALSE]
    /\ needed' = TRUE

\* rustland_enqueue always hands the task over: to the DSQ of its CPU c or of a
\* CPU of its affinity m, to the shared DSQ, or to user space.
LEMMA EnqueueEffect ==
    ASSUME TypeOK, NEW t \in Tasks, NEW c \in Cpus, NEW m \in SUBSET Cpus,
           NEW wake, NEW kicks \in SUBSET Cpus,
           rustland_enqueue(t, c, m, wake, kicks)
    PROVE  /\ EnqueuedToDsq(t, m \cup {c}) \/ EnqueuedToUser(t)
           /\ kick' \in SUBSET Cpus
<1>0. usCpu \in Cpus /\ kick \in SUBSET Cpus /\ PickIdle(m) \subseteq m
  BY DEF TypeOK, PickIdle
<1>1. ASSUME NEW d \in m \cup {c, "shared"}, NEW k \in SUBSET Cpus, InsertDsq(t, d, k)
      PROVE  EnqueuedToDsq(t, m \cup {c}) /\ kick' \in SUBSET Cpus
  BY <1>0, <1>1 DEF InsertDsq, EnqueuedToDsq
<1>2. ASSUME NEW k \in SUBSET Cpus, queue_task_to_userspace(t, k)
      PROVE  /\ EnqueuedToDsq(t, m \cup {c}) \/ EnqueuedToUser(t)
             /\ kick' \in SUBSET Cpus
  <2>1. CASE InsertDsq(t, "shared", k)
    BY <1>1, <2>1
  <2>2. CASE ~InsertDsq(t, "shared", k)
    BY <1>0, <1>2, <2>2 DEF queue_task_to_userspace, EnqueuedToUser
  <2>3. QED
    BY <2>1, <2>2
<1>3. CASE t \in Internal
  BY <1>1, <1>3 DEF rustland_enqueue
<1>4. CASE t \notin Internal /\ Cardinality(m) = 1
  BY <1>1, <1>4 DEF rustland_enqueue
<1>5. CASE t \notin Internal /\ Cardinality(m) # 1 /\ ~wake
  BY <1>2, <1>5 DEF rustland_enqueue
<1>6. CASE t \notin Internal /\ Cardinality(m) # 1 /\ wake
  <2>1. CASE queue_task_to_userspace(t, kicks \cup {c})
    BY <1>2, <2>1
  <2>2. ASSUME NEW i \in PickIdle(m),
               IF can_direct_dispatch(i)
               THEN InsertDsq(t, i, kicks \cup {i})
               ELSE queue_task_to_userspace(t, kicks \cup {i})
        PROVE  /\ EnqueuedToDsq(t, m \cup {c}) \/ EnqueuedToUser(t)
               /\ kick' \in SUBSET Cpus
    <3>1. i \in m /\ kicks \cup {i} \in SUBSET Cpus
      BY <1>0, <2>2
    <3>2. QED
      BY <1>1, <1>2, <2>2, <3>1
  <2>3. QED
    BY <1>6, <2>1, <2>2 DEF rustland_enqueue
<1>7. QED
  BY <1>3, <1>4, <1>5, <1>6

-----------------------------------------------------------------------------
(* Type correctness.                                                       *)

\* The parts of the type invariant an enqueue touches.
EnqueueType ==
    /\ loc \in [Tasks -> Places \cup Cpus]
    /\ trig \in [Tasks -> BOOLEAN]
    /\ kick \in SUBSET Cpus
    /\ queued \in Seq(QueuedTask) /\ Len(queued) <= QueuedCap
    /\ needed \in BOOLEAN

\* An enqueue keeps the type of what it touches.
LEMMA EnqueueTypeOK ==
    ASSUME TypeOK, NEW t \in Tasks, NEW c \in Cpus, NEW m \in SUBSET Cpus,
           NEW wake, NEW kicks \in SUBSET Cpus,
           rustland_enqueue(t, c, m, wake, kicks)
    PROVE  EnqueueType'
<1>1. kick' \in SUBSET Cpus
  BY EnqueueEffect
<1>2. CASE EnqueuedToDsq(t, m \cup {c})
  BY <1>1, <1>2 DEF EnqueuedToDsq, EnqueueType, TypeOK, Places
<1>3. CASE EnqueuedToUser(t)
  <2>1. [tid |-> t, tick |-> trig[t], defers |-> 0] \in QueuedTask
    BY BoundAssumption DEF TypeOK, QueuedTask
  <2>2. queued' \in Seq(QueuedTask) /\ Len(queued') <= QueuedCap
    BY <1>3, <2>1, BoundAssumption DEF EnqueuedToUser, TypeOK
  <2>3. QED
    BY <1>1, <1>3, <2>2 DEF EnqueuedToUser, EnqueueType, TypeOK, Places
<1>4. QED
  BY <1>2, <1>3, EnqueueEffect

\* A CPU chosen by Home is one of the mask.
LEMMA HomeInMask ==
    ASSUME NEW m \in SUBSET Cpus, NEW c \in Cpus, NEW h \in Home(m, c)
    PROVE  h \in m /\ h \in Cpus
BY DEF Home

\* Every entry of the user ring buffer becomes a well-formed dispatch buffer.
LEMMA DispatchTaskType ==
    ASSUME TypeOK, NEW m \in DispatchedTask, NEW b \in dispatch_task(m)
    PROVE  b \in Buffer
<1>1. m.tid \in Tasks /\ m.cpu \in Cpus \cup {ANY} /\ cpu[m.tid] \in Cpus
      /\ mask[m.tid] \in SUBSET Cpus
  BY DEF TypeOK, DispatchedTask
<1>2. \A k \in kick_task_cpu(m.tid) : k \in SUBSET Cpus
  BY <1>1 DEF kick_task_cpu, PickIdle
<1>3. ASSUME NEW d \in Cpus \cup {"shared"}, NEW k \in SUBSET Cpus
      PROVE  Insert(m.tid, d, k) \in Buffer
  <2>1. (loc[m.tid] = "opsq") \in BOOLEAN
    OBVIOUS
  <2>2. QED
    BY <1>1, <2>1 DEF Insert, Buffer
<1>4. CASE loc[m.tid] = "dead"
  <2>1. b = NoBuf
    BY <1>4 DEF dispatch_task
  <2>2. NoBuf \in Buffer
    BY DEF NoBuf, Buffer
  <2>3. QED
    BY <2>1, <2>2
<1>5. CASE loc[m.tid] # "dead" /\ m.cpu = ANY
  BY <1>2, <1>3, <1>5 DEF dispatch_task
<1>6. CASE loc[m.tid] # "dead" /\ m.cpu # ANY
  <2>1. PICK d \in Cpus : b = Insert(m.tid, d, {d})
    BY <1>1, <1>6 DEF dispatch_task
  <2>2. QED
    BY <1>3, <2>1
<1>7. QED
  BY <1>4, <1>5, <1>6

\* A voided dispatch buffer is still a dispatch buffer.
LEMMA VoidedBuffer ==
    ASSUME NEW b \in Buffer
    PROVE  [b EXCEPT !.live = FALSE] \in Buffer
BY DEF Buffer

\* Every step keeps the type invariant.
LEMMA TypeStep == TypeOK /\ [Next]_vars => TypeOK'
<1> SUFFICES ASSUME TypeOK, [Next]_vars PROVE TypeOK'
  OBVIOUS
<1> USE DEF taskVars, cpuVars, wakeVars, usVars
<1>0. NoBuf \in Buffer
  BY DEF NoBuf, Buffer
<1>1. ASSUME NEW t \in Tasks, Wakeup(t) PROVE TypeOK'
  <2>1. PICK h \in Home(mask[t], cpu[t]) :
          \/ /\ cpu' = [cpu EXCEPT ![t] = h]
             /\ rustland_enqueue(t, h, mask[t], FALSE, {h})
          \/ \E i \in PickIdle(mask[t]) :
               /\ cpu' = [cpu EXCEPT ![t] = i]
               /\ \/ InsertDsq(t, i, {i})
                  \/ rustland_enqueue(t, i, mask[t], FALSE, {i})
    BY <1>1 DEF Wakeup
  <2>2. mask[t] \in SUBSET Cpus /\ h \in Cpus
    BY HomeInMask DEF TypeOK
  <2>3. PICK i \in Cpus : /\ cpu' = [cpu EXCEPT ![t] = i]
                          /\ \/ InsertDsq(t, i, {i})
                             \/ rustland_enqueue(t, i, mask[t], FALSE, {i})
    BY <2>1, <2>2 DEF PickIdle
  <2>4. InsertDsq(t, i, {i}) => EnqueueType'
    BY DEF InsertDsq, EnqueueType, TypeOK
  <2>5. rustland_enqueue(t, i, mask[t], FALSE, {i}) => EnqueueType'
    BY <2>2, EnqueueTypeOK
  <2>6. QED
    BY <1>1, <2>3, <2>4, <2>5 DEF Wakeup, EnqueueType, TypeOK
<1>2. ASSUME NEW t \in Tasks, QueuedWakeup(t) PROVE TypeOK'
  <2>1. /\ mask[t] \in SUBSET Cpus /\ cpu[t] \in Cpus /\ {cpu[t]} \in SUBSET Cpus
        /\ rustland_enqueue(t, cpu[t], mask[t], TRUE, {cpu[t]})
    BY <1>2 DEF QueuedWakeup, TypeOK
  <2>2. EnqueueType'
    BY <2>1, EnqueueTypeOK
  <2>3. QED
    BY <1>2, <2>2 DEF QueuedWakeup, EnqueueType, TypeOK
<1>3. ASSUME NEW t \in Tasks, NEW m \in (SUBSET Cpus) \ {{}}, SetAffinity(t, m)
      PROVE  TypeOK'
  <2>1. affinityLeft' \in 0..MaxAffinity /\ mask' \in [Tasks -> (SUBSET Cpus) \ {{}}]
    BY <1>3, BoundAssumption DEF SetAffinity, TypeOK
  <2>2. CASE UNCHANGED <<loc, cpu, trig, curr, pc, buf, kick, queued, needed>>
    BY <1>3, <2>1, <2>2 DEF SetAffinity, TypeOK
  <2>3. CASE ~UNCHANGED <<loc, cpu, trig, curr, pc, buf, kick, queued, needed>>
    <3>1. PICK h \in Home(m, cpu[t]) : /\ cpu' = [cpu EXCEPT ![t] = h]
                                       /\ rustland_enqueue(t, h, m, TRUE, {h})
      BY <1>3, <2>3 DEF SetAffinity
    <3>2. h \in Cpus /\ {h} \in SUBSET Cpus /\ m \in SUBSET Cpus
      BY HomeInMask DEF TypeOK
    <3>3. EnqueueType'
      BY <3>1, <3>2, EnqueueTypeOK
    <3>4. buf' \in [Cpus -> Buffer]
      <4>1. buf' = [c \in Cpus |-> IF buf[c].tid = t
                                    THEN [buf[c] EXCEPT !.live = FALSE] ELSE buf[c]]
        BY <1>3, <2>3 DEF SetAffinity, Revoke
      <4>2. \A c \in Cpus : [buf[c] EXCEPT !.live = FALSE] \in Buffer
        BY VoidedBuffer DEF TypeOK
      <4>3. QED
        BY <4>1, <4>2 DEF TypeOK
    <3>5. QED
      BY <1>3, <2>1, <2>3, <3>1, <3>2, <3>3, <3>4
         DEF SetAffinity, EnqueueType, TypeOK, Phases
  <2>4. QED
    BY <2>2, <2>3
<1>4. ASSUME NEW t \in Tasks, NEW c \in Cpus,
             Block(t, c) \/ Exit(t, c) \/ rustland_tick(t, c)
      PROVE  TypeOK'
  <2>1. ASSUME NEW place \in {"asleep", "dead"}, Leave(t, c, place) PROVE TypeOK'
    BY <2>1 DEF Leave, EnterDispatch, TypeOK, Places, Phases
  <2>2. CASE rustland_tick(t, c)
    BY <2>2 DEF rustland_tick, EnterDispatch, TypeOK, Phases
  <2>3. QED
    BY <1>4, <2>1, <2>2 DEF Block, Exit
<1>5. ASSUME NEW c \in Cpus, SliceEnd(c) \/ DeliverKick(c) \/ SpuriousResched(c)
      PROVE  TypeOK'
  BY <1>5 DEF SliceEnd, DeliverKick, SpuriousResched, EnterDispatch, TypeOK, Phases
<1>6. CASE usersched_timer_fn
  BY <1>6 DEF usersched_timer_fn, TypeOK
<1>7. ASSUME NEW c \in Cpus, Drain(c) PROVE TypeOK'
  <2>1. CASE UNCHANGED <<buf, dispatched>>
    BY <1>7, <2>1 DEF Drain, TypeOK, Phases
  <2>2. CASE dispatched # <<>> /\ dispatched' = Tail(dispatched)
    <3>1. Head(dispatched) \in DispatchedTask
      BY <2>2 DEF TypeOK
    <3>2. dispatched' \in Seq(DispatchedTask) /\ Len(dispatched') <= DispatchedCap
      BY <2>2, BoundAssumption DEF TypeOK
    <3>3. buf' \in [Cpus -> Buffer]
      BY <1>7, <2>2, <3>1, DispatchTaskType DEF Drain, TypeOK
    <3>4. QED
      BY <1>7, <3>2, <3>3 DEF Drain, TypeOK, Phases
  <2>3. QED
    BY <1>7, <2>1, <2>2 DEF Drain
<1>8. ASSUME NEW c \in Cpus, Flush(c) PROVE TypeOK'
  <2>1. buf[c] \in Buffer
    BY DEF TypeOK
  <2>2. loc' \in [Tasks -> Places \cup Cpus] /\ kick' \in SUBSET Cpus
    BY <1>8, <2>1 DEF Flush, Flushed, Buffer, TypeOK, Places
  <2>3. buf' \in [Cpus -> Buffer]
    BY <1>8, <2>1 DEF Flush, Flushed, Buffer, TypeOK
  <2>4. QED
    BY <1>8, <2>2, <2>3 DEF Flush, TypeOK, Phases
<1>9. ASSUME NEW c \in Cpus, NEW t \in Tasks, ConsumeOwn(c, t) \/ ConsumeShared(c, t)
      PROVE  TypeOK'
  <2>1. MoveToLocal(c, t)
    BY <1>9 DEF ConsumeOwn, ConsumeShared
  <2>2. QED
    BY <2>1 DEF MoveToLocal, TypeOK, Places, Phases
<1>10. ASSUME NEW c \in Cpus, ConsumeNothing(c) PROVE TypeOK'
  BY <1>10 DEF ConsumeNothing, TypeOK, Phases
<1>11. ASSUME NEW c \in Cpus, KeepPrev(c) PROVE TypeOK'
  <2>1. needed' \in BOOLEAN
    BY <1>11 DEF KeepPrev, TypeOK
  <2>2. QED
    BY <1>0, <1>11, <2>1 DEF KeepPrev, TypeOK, Phases
<1>12. ASSUME NEW c \in Cpus, SwitchTo(c) PROVE TypeOK'
  <2>1. CASE curr[c] \in Tasks
    <3>1. EnqueueType'
      BY <1>12, <2>1, EnqueueTypeOK DEF SwitchTo, TypeOK
    <3>2. usCpu' \in Cpus
      BY <1>12 DEF SwitchTo, TypeOK
    <3>3. QED
      BY <1>0, <1>12, <3>1, <3>2 DEF SwitchTo, EnqueueType, TypeOK, Phases
  <2>2. CASE curr[c] \notin Tasks
    BY <1>0, <1>12, <2>2 DEF SwitchTo, TypeOK, Phases
  <2>3. QED
    BY <2>1, <2>2
<1>13. CASE UsStep
  <2>0. pending # <<>> => Head(pending) \in QueuedTask
    BY DEF TypeOK
  <2>1. CASE dequeue_task
    <3>1. queued # <<>> => /\ Head(queued) \in QueuedTask
                           /\ Tail(queued) \in Seq(QueuedTask)
                           /\ Len(Tail(queued)) <= QueuedCap
      BY BoundAssumption DEF TypeOK
    <3>2. /\ pending' \in Seq(QueuedTask) /\ queued' \in Seq(QueuedTask)
          /\ Len(queued') <= QueuedCap /\ usPc' \in {"dequeue", "publish"}
      <4>1. CASE queued # <<>> /\ pending' = Append(pending, Head(queued))
                 /\ queued' = Tail(queued) /\ UNCHANGED usPc
        BY <2>1, <3>1, <4>1 DEF dequeue_task, UsAt, TypeOK
      <4>2. CASE queued = <<>> /\ usPc' = "publish" /\ UNCHANGED <<pending, queued>>
        BY <4>2 DEF TypeOK
      <4>3. QED
        BY <2>1, <4>1, <4>2 DEF dequeue_task
    <3>3. QED
      BY <2>1, <3>2 DEF dequeue_task, TypeOK
  <2>2. CASE publish_scheduled
    BY <2>2 DEF publish_scheduled, TypeOK
  <2>3. CASE DropDead
    BY <2>3 DEF DropDead, TakePending, TypeOK
  <2>4. CASE DeferDispatch
    <3>1. Head(pending) \in QueuedTask /\ Head(pending).defers < MaxDefer
      BY <2>0, <2>4 DEF DeferDispatch, TakePending
    <3>2. [Head(pending) EXCEPT !.defers = @ + 1] \in QueuedTask
      BY <3>1, BoundAssumption DEF QueuedTask
    <3>3. deferred' \in Seq(QueuedTask) /\ pending' \in Seq(QueuedTask)
      BY <2>4, <3>2 DEF DeferDispatch, TakePending, TypeOK
    <3>4. QED
      BY <2>4, <3>3 DEF DeferDispatch, TypeOK
  <2>5. ASSUME NEW d \in Cpus \cup {ANY}, Dispatch(d) PROVE TypeOK'
    <3>1. [tid |-> Head(pending).tid, cpu |-> d] \in DispatchedTask
      BY <2>0, <2>5 DEF Dispatch, TakePending, QueuedTask, DispatchedTask
    <3>2. dispatched' \in Seq(DispatchedTask) /\ Len(dispatched') <= DispatchedCap
      BY <2>5, <3>1, BoundAssumption DEF Dispatch, TypeOK
    <3>3. QED
      BY <2>5, <3>2 DEF Dispatch, TakePending, TypeOK
  <2>6. CASE EndPass
    BY <2>6 DEF EndPass, TypeOK
  <2>7. CASE notify_complete
    BY <2>7 DEF notify_complete, TypeOK, Phases
  <2>8. QED
    BY <1>13, <2>1, <2>2, <2>3, <2>4, <2>5, <2>6, <2>7 DEF UsStep
<1>14. CASE UNCHANGED vars
  BY <1>14 DEF vars, TypeOK
<1>15. QED
  BY <1>1, <1>2, <1>3, <1>4, <1>5, <1>6, <1>7, <1>8, <1>9, <1>10, <1>11, <1>12,
     <1>13, <1>14 DEF Next, TaskStep, CpuStep, DispatchStep

\* The initial states are well typed.
LEMMA TypeInit == Init => TypeOK
<1> SUFFICES ASSUME Init PROVE TypeOK
  OBVIOUS
<1>1. /\ queued \in Seq(QueuedTask) /\ Len(queued) <= QueuedCap
      /\ dispatched \in Seq(DispatchedTask) /\ Len(dispatched) <= DispatchedCap
      /\ pending \in Seq(QueuedTask) /\ deferred \in Seq(QueuedTask)
  BY BoundAssumption DEF Init
<1>2. NoBuf \in Buffer
  BY DEF NoBuf, Buffer
<1>3. mask \in [Tasks -> (SUBSET Cpus) \ {{}}] /\ usCpu \in Cpus
  BY UsMaskAssumption DEF Init
<1>4. /\ loc \in [Tasks -> Places \cup Cpus] /\ cpu \in [Tasks -> Cpus]
      /\ trig \in [Tasks -> BOOLEAN]
  BY DEF Init, Places
<1>5. /\ curr \in [Cpus -> Tasks \cup {US, IDLE}] /\ pc \in [Cpus -> Phases]
      /\ next \in [Cpus -> Tasks \cup {US, IDLE}] /\ buf \in [Cpus -> Buffer]
  BY <1>2 DEF Init, Phases
<1>6. affinityLeft \in 0..MaxAffinity /\ nrScheduled \in Nat /\ kick \in SUBSET Cpus
  BY BoundAssumption DEF Init
<1>7. needed \in BOOLEAN /\ usPc \in {"dequeue", "publish", "decide", "notify"}
  BY DEF Init
<1>8. QED
  BY <1>1, <1>3, <1>4, <1>5, <1>6, <1>7 DEF TypeOK

\* Type correctness of the dispatch path: whatever the interleaving of CPUs,
\* tasks, timer and user-space scheduler, and in particular the two ring buffers
\* never exceed their capacity.
THEOREM TypeCorrect == Spec => []TypeOK
BY TypeInit, TypeStep, PTL DEF Spec

-----------------------------------------------------------------------------
(* A task runs at most once.  RunOnce is not inductive alone: a stale       *)
(* dispatch would move a running task, which ClaimsCurrent excludes, and a  *)
(* second task moved to the local DSQ would displace the first, which the   *)
(* last conjunct excludes.                                                  *)

RunInv ==
    /\ TypeOK
    /\ ClaimsCurrent
    /\ RunOnce
    /\ \A c \in Cpus : next[c] # IDLE => pc[c] = "put"

\* An enqueue moves its task to a queue, and no other task.
Moved(t) == \E p \in {"opsq", "shared"} \cup Cpus : loc' = [loc EXCEPT ![t] = p]

\* What an enqueue changes, besides where the task is.
LEMMA EnqueueMoves ==
    ASSUME TypeOK, NEW t \in Tasks, NEW c \in Cpus, NEW m \in SUBSET Cpus,
           NEW wake, NEW kicks \in SUBSET Cpus,
           rustland_enqueue(t, c, m, wake, kicks)
    PROVE  Moved(t)
<1>1. EnqueuedToDsq(t, m \cup {c}) \/ EnqueuedToUser(t)
  BY EnqueueEffect
<1>2. QED
  BY <1>1 DEF EnqueuedToDsq, EnqueuedToUser, Moved

\* An enqueue of a task that is neither running nor claimed, and that touches no
\* CPU, keeps RunInv.
LEMMA EnqueueRunInv ==
    ASSUME RunInv, TypeOK', NEW t \in Tasks, Moved(t), loc[t] = "asleep",
           \A u \in Tasks \ {t} : cpu'[u] = cpu[u],
           UNCHANGED <<curr, pc, next, buf>>
    PROVE  RunInv'
<1>1. loc'[t] # "running" /\ \A u \in Tasks \ {t} : loc'[u] = loc[u]
  BY CpusAssumption DEF Moved, RunInv, TypeOK, Places
<1>2. \A c \in Cpus : curr[c] # t /\ next[c] # t
  BY DEF RunInv, RunOnce
<1>3. RunOnce'
  BY <1>1, <1>2 DEF RunInv, RunOnce
<1>4. ClaimsCurrent'
  BY <1>1 DEF RunInv, ClaimsCurrent
<1>5. QED
  BY <1>3, <1>4 DEF RunInv

\* A buffered dispatch is honoured only for a task in the ops queue.
LEMMA DispatchClaims ==
    ASSUME TypeOK, NEW m \in DispatchedTask, NEW b \in dispatch_task(m), b.live
    PROVE  b.tid \in Tasks /\ loc[b.tid] = "opsq"
<1>1. m.tid \in Tasks
  BY DEF DispatchedTask
<1>2. CASE loc[m.tid] = "dead"
  BY <1>2 DEF dispatch_task, NoBuf
<1>3. CASE loc[m.tid] # "dead"
  <2>1. PICK d, k : b = Insert(m.tid, d, k)
    BY <1>3 DEF dispatch_task
  <2>2. b.tid = m.tid /\ b.live = (loc[m.tid] = "opsq")
    BY <2>1 DEF Insert
  <2>3. QED
    BY <1>1, <2>2
<1>4. QED
  BY <1>2, <1>3

\* Every step keeps RunInv.
LEMMA RunStep == RunInv /\ [Next]_vars => RunInv'
<1> SUFFICES ASSUME RunInv, [Next]_vars PROVE RunInv'
  OBVIOUS
<1> USE DEF taskVars, cpuVars, wakeVars, usVars
<1>0. TypeOK /\ TypeOK' /\ ClaimsCurrent /\ RunOnce
  BY TypeStep DEF RunInv
<1>a. ~NoBuf.live /\ US # IDLE /\ US \notin Tasks /\ IDLE \notin Tasks
  BY TasksAssumption DEF NoBuf, US, IDLE
<1>1. ASSUME NEW t \in Tasks, Wakeup(t) PROVE RunInv'
  <2>1. PICK h \in Home(mask[t], cpu[t]) :
          \/ /\ cpu' = [cpu EXCEPT ![t] = h]
             /\ rustland_enqueue(t, h, mask[t], FALSE, {h})
          \/ \E i \in PickIdle(mask[t]) :
               /\ cpu' = [cpu EXCEPT ![t] = i]
               /\ \/ InsertDsq(t, i, {i})
                  \/ rustland_enqueue(t, i, mask[t], FALSE, {i})
    BY <1>1 DEF Wakeup
  <2>2. mask[t] \in SUBSET Cpus /\ h \in Cpus
    BY <1>0, HomeInMask DEF TypeOK
  <2>3. PICK i \in Cpus : /\ cpu' = [cpu EXCEPT ![t] = i]
                          /\ \/ InsertDsq(t, i, {i})
                             \/ rustland_enqueue(t, i, mask[t], FALSE, {i})
    BY <2>1, <2>2 DEF PickIdle
  <2>4. Moved(t)
    <3>1. InsertDsq(t, i, {i}) => Moved(t)
      BY DEF InsertDsq, Moved
    <3>2. rustland_enqueue(t, i, mask[t], FALSE, {i}) => Moved(t)
      BY <1>0, <2>2, EnqueueMoves
    <3>3. QED
      BY <2>3, <3>1, <3>2
  <2>5. \A u \in Tasks \ {t} : cpu'[u] = cpu[u]
    BY <1>0, <2>3 DEF TypeOK
  <2>6. QED
    BY <1>0, <1>1, <2>4, <2>5, EnqueueRunInv DEF Wakeup
<1>2. ASSUME NEW t \in Tasks, QueuedWakeup(t) PROVE RunInv'
  <2>1. /\ mask[t] \in SUBSET Cpus /\ cpu[t] \in Cpus /\ {cpu[t]} \in SUBSET Cpus
        /\ rustland_enqueue(t, cpu[t], mask[t], TRUE, {cpu[t]})
    BY <1>0, <1>2 DEF QueuedWakeup, TypeOK
  <2>2. Moved(t)
    BY <1>0, <2>1, EnqueueMoves
  <2>3. QED
    BY <1>0, <1>2, <2>2, EnqueueRunInv DEF QueuedWakeup
<1>3. ASSUME NEW t \in Tasks, NEW m \in (SUBSET Cpus) \ {{}}, SetAffinity(t, m)
      PROVE  RunInv'
  <2>1. CASE UNCHANGED <<loc, cpu, trig, curr, pc, buf, kick, queued, needed>>
    BY <1>0, <1>3, <2>1 DEF SetAffinity, RunInv, RunOnce, ClaimsCurrent
  <2>2. CASE ~UNCHANGED <<loc, cpu, trig, curr, pc, buf, kick, queued, needed>>
    <3>1. PICK h \in Home(m, cpu[t]) : /\ cpu' = [cpu EXCEPT ![t] = h]
                                       /\ rustland_enqueue(t, h, m, TRUE, {h})
      BY <1>3, <2>2 DEF SetAffinity
    <3>2. h \in Cpus /\ {h} \in SUBSET Cpus /\ m \in SUBSET Cpus
      BY <1>0, HomeInMask DEF TypeOK
    <3>3. Moved(t)
      BY <1>0, <3>1, <3>2, EnqueueMoves
    <3>4. /\ curr' = [c \in Cpus |-> IF curr[c] = t THEN IDLE ELSE curr[c]]
          /\ pc' = [c \in Cpus |-> IF curr[c] = t THEN "drain" ELSE pc[c]]
          /\ buf' = [c \in Cpus |-> IF buf[c].tid = t
                                    THEN [buf[c] EXCEPT !.live = FALSE] ELSE buf[c]]
          /\ UNCHANGED next /\ Unlocked(t)
      BY <1>3, <2>2 DEF SetAffinity, Revoke
    <3>5. loc'[t] # "running" /\ \A u \in Tasks \ {t} : loc'[u] = loc[u] /\ cpu'[u] = cpu[u]
      BY <1>0, <3>1, <3>3, CpusAssumption DEF Moved, TypeOK, Places
    <3>6. \A c \in Cpus : next[c] # t
      BY <1>a, <3>4 DEF Unlocked, RunInv
    <3>7. RunOnce'
      <4>1. \A c \in Cpus : curr'[c] # t /\ next'[c] # t
        BY <1>a, <3>4, <3>6
      <4>2. \A u \in Tasks \ {t}, c \in Cpus : (curr'[c] = u <=> curr[c] = u)
        BY <1>a, <3>4
      <4>3. \A c \in Cpus : (curr'[c] = US <=> curr[c] = US)
        BY <1>a, <3>4
      <4>4. \A c \in Cpus : curr'[c] # IDLE => curr'[c] = curr[c]
        BY <3>4
      <4>5. QED
        BY <1>0, <3>4, <3>5, <4>1, <4>2, <4>3, <4>4 DEF RunOnce
    <3>8. ClaimsCurrent'
      <4>1. ASSUME NEW c \in Cpus, buf'[c].live
            PROVE  buf[c].live /\ buf'[c].tid = buf[c].tid /\ buf[c].tid # t
        <5>1. buf[c].tid # t
          BY <1>0, <3>4, <4>1 DEF TypeOK, Buffer
        <5>2. QED
          BY <3>4, <4>1, <5>1
      <4>2. \A c \in Cpus : pc[c] = "flush" => pc'[c] = "flush"
        BY <3>4 DEF Unlocked
      <4>3. QED
        BY <1>0, <3>5, <4>1, <4>2 DEF ClaimsCurrent
    <3>9. \A c \in Cpus : next'[c] # IDLE => pc'[c] = "put"
      BY <3>4 DEF RunInv, Unlocked
    <3>10. QED
      BY <1>0, <3>7, <3>8, <3>9 DEF RunInv
  <2>3. QED
    BY <2>1, <2>2
<1>4. ASSUME NEW t \in Tasks, NEW c \in Cpus, NEW place \in {"asleep", "dead"},
             Leave(t, c, place)
      PROVE  RunInv'
  <2>1. /\ loc' = [loc EXCEPT ![t] = place] /\ curr' = [curr EXCEPT ![c] = IDLE]
        /\ pc' = [pc EXCEPT ![c] = "drain"] /\ pc[c] = "run" /\ curr[c] = t
        /\ UNCHANGED <<cpu, next, buf>>
    BY <1>4 DEF Leave, EnterDispatch
  <2>2. next[c] = IDLE /\ loc[t] = "running" /\ cpu[t] = c
    BY <1>0, <2>1 DEF RunInv, RunOnce
  <2>3. RunOnce'
    BY <1>0, <1>a, <2>1, <2>2 DEF RunOnce, TypeOK
  <2>4. ClaimsCurrent'
    BY <1>0, <2>1, <2>2 DEF ClaimsCurrent, TypeOK
  <2>5. QED
    BY <1>0, <2>1, <2>2, <2>3, <2>4 DEF RunInv, TypeOK
<1>5. ASSUME NEW t \in Tasks, NEW c \in Cpus, rustland_tick(t, c) PROVE RunInv'
  BY <1>0, <1>5 DEF rustland_tick, EnterDispatch, RunInv, RunOnce, ClaimsCurrent, TypeOK
<1>6. ASSUME NEW c \in Cpus, SliceEnd(c) \/ DeliverKick(c) \/ SpuriousResched(c)
      PROVE  RunInv'
  BY <1>0, <1>6 DEF SliceEnd, DeliverKick, SpuriousResched, EnterDispatch, Idle,
                    RunInv, RunOnce, ClaimsCurrent, TypeOK
<1>7. CASE usersched_timer_fn
  BY <1>0, <1>7 DEF usersched_timer_fn, RunInv, RunOnce, ClaimsCurrent
<1>8. ASSUME NEW c \in Cpus, Drain(c) PROVE RunInv'
  <2>1. /\ pc[c] = "drain" /\ pc' = [pc EXCEPT ![c] = "flush"]
        /\ UNCHANGED <<loc, cpu, curr, next>>
    BY <1>8 DEF Drain
  <2>2. RunOnce' /\ \A d \in Cpus : next'[d] # IDLE => pc'[d] = "put"
    BY <1>0, <2>1 DEF RunInv, RunOnce, TypeOK
  <2>3. CASE UNCHANGED buf
    BY <1>0, <2>1, <2>2, <2>3 DEF RunInv, ClaimsCurrent, TypeOK
  <2>4. CASE dispatched # <<>> /\ \E b \in dispatch_task(Head(dispatched)) :
                                   buf' = [buf EXCEPT ![c] = b]
    <3>1. Head(dispatched) \in DispatchedTask
      BY <1>0, <2>4 DEF TypeOK
    <3>2. PICK b \in dispatch_task(Head(dispatched)) : buf' = [buf EXCEPT ![c] = b]
      BY <2>4
    <3>3. b.live => b.tid \in Tasks /\ loc[b.tid] = "opsq"
      BY <1>0, <1>a, <3>1, DispatchClaims
    <3>4. ClaimsCurrent'
      BY <1>0, <2>1, <3>2, <3>3 DEF ClaimsCurrent, TypeOK
    <3>5. QED
      BY <1>0, <2>2, <3>4 DEF RunInv
  <2>5. QED
    BY <1>8, <2>3, <2>4 DEF Drain
<1>9. ASSUME NEW c \in Cpus, Flush(c) PROVE RunInv'
  <2>1. /\ pc[c] = "flush" /\ Flushed(c) /\ UNCHANGED <<cpu, curr>>
        /\ \/ /\ UsInDsq /\ next' = [next EXCEPT ![c] = US]
              /\ pc' = [pc EXCEPT ![c] = "put"]
           \/ pc' = [pc EXCEPT ![c] = "consume"] /\ UNCHANGED next
    BY <1>9 DEF Flush
  <2>2. next[c] = IDLE
    BY <2>1 DEF RunInv
  <2>3. \A t \in Tasks : loc'[t] = "running" <=> loc[t] = "running"
    BY <1>0, <2>1, CpusAssumption DEF Flushed, ClaimsCurrent, TypeOK, Buffer, Places
  <2>4. \A t \in Tasks, d \in Cpus : next'[d] = t <=> next[d] = t
    BY <1>0, <1>a, <2>1, <2>2 DEF TypeOK
  <2>5. RunOnce'
    <3>1. \A t \in Tasks, d \in Cpus :
            (curr'[d] = t \/ next'[d] = t) <=> (loc'[t] = "running" /\ cpu'[t] = d)
      BY <1>0, <2>1, <2>3, <2>4 DEF RunOnce
    <3>2. QED
      BY <1>0, <1>a, <2>1, <2>2, <3>1 DEF RunOnce, UsInDsq, TypeOK
  <2>6. ClaimsCurrent'
    <3>1. ASSUME NEW d \in Cpus, buf'[d].live
          PROVE  /\ d # c /\ buf[d].live /\ buf'[d].tid = buf[d].tid
                 /\ loc'[buf[d].tid] = loc[buf[d].tid]
      <4>1. buf[c] \in Buffer /\ buf[d] \in Buffer
        BY <1>0 DEF TypeOK
      <4>2. d # c
        BY <2>1, <3>1, <4>1 DEF Flushed, Buffer
      <4>3. ~(buf[c].live /\ buf[d].tid = buf[c].tid)
        BY <2>1, <3>1, <4>1, <4>2 DEF Flushed, Buffer
      <4>4. buf'[d] = buf[d]
        BY <2>1, <4>2, <4>3 DEF Flushed
      <4>5. QED
        BY <1>0, <2>1, <3>1, <4>2, <4>3, <4>4 DEF Flushed, ClaimsCurrent, TypeOK
    <3>2. \A d \in Cpus \ {c} : pc'[d] = pc[d]
      BY <1>0, <2>1 DEF TypeOK
    <3>3. QED
      BY <1>0, <3>1, <3>2 DEF ClaimsCurrent
  <2>7. \A d \in Cpus : next'[d] # IDLE => pc'[d] = "put"
    BY <1>0, <2>1, <2>2 DEF RunInv, TypeOK
  <2>8. QED
    BY <1>0, <2>5, <2>6, <2>7 DEF RunInv
<1>10. ASSUME NEW c \in Cpus, NEW t \in Tasks, ConsumeOwn(c, t) \/ ConsumeShared(c, t)
       PROVE  RunInv'
  <2>1. /\ MoveToLocal(c, t) /\ loc[t] \in {c, "shared"}
    BY <1>10 DEF ConsumeOwn, ConsumeShared, Consumable
  <2>2. /\ pc[c] = "consume" /\ loc' = [loc EXCEPT ![t] = "running"]
        /\ cpu' = [cpu EXCEPT ![t] = c] /\ next' = [next EXCEPT ![c] = t]
        /\ pc' = [pc EXCEPT ![c] = "put"] /\ UNCHANGED <<curr, buf>>
    BY <2>1 DEF MoveToLocal
  <2>3. loc[t] # "running" /\ loc[t] # "opsq" /\ next[c] = IDLE
    BY <2>1, <2>2, CpusAssumption DEF Places, RunInv
  <2>4. \A d \in Cpus : curr[d] # t /\ next[d] # t
    BY <1>0, <2>3 DEF RunOnce
  <2>5. RunOnce'
    BY <1>0, <1>a, <2>2, <2>3, <2>4 DEF RunOnce, TypeOK
  <2>6. ClaimsCurrent'
    BY <1>0, <2>2, <2>3 DEF ClaimsCurrent, TypeOK
  <2>7. QED
    BY <1>0, <2>2, <2>5, <2>6 DEF RunInv, TypeOK
<1>11. ASSUME NEW c \in Cpus, ConsumeNothing(c) PROVE RunInv'
  BY <1>0, <1>11 DEF ConsumeNothing, RunInv, RunOnce, ClaimsCurrent, TypeOK
<1>12. ASSUME NEW c \in Cpus, KeepPrev(c) PROVE RunInv'
  <2>1. /\ pc[c] = "prev" /\ UNCHANGED <<loc, cpu, curr, next>>
        /\ buf' = [buf EXCEPT ![c] = NoBuf]
        /\ \E q \in {"run", "drain", "put"} : pc' = [pc EXCEPT ![c] = q]
    BY <1>12 DEF KeepPrev
  <2>2. RunOnce' /\ \A d \in Cpus : next'[d] # IDLE => pc'[d] = "put"
    BY <1>0, <2>1 DEF RunInv, RunOnce, TypeOK
  <2>3. ClaimsCurrent'
    BY <1>0, <1>a, <2>1 DEF ClaimsCurrent, TypeOK
  <2>4. QED
    BY <1>0, <2>2, <2>3 DEF RunInv
<1>13. ASSUME NEW c \in Cpus, SwitchTo(c) PROVE RunInv'
  <2>1. /\ pc[c] = "put" /\ curr' = [curr EXCEPT ![c] = next[c]]
        /\ next' = [next EXCEPT ![c] = IDLE] /\ buf' = [buf EXCEPT ![c] = NoBuf]
        /\ pc' = [pc EXCEPT ![c] = "run"] /\ UNCHANGED cpu
    BY <1>13 DEF SwitchTo
  <2>2. \A d \in Cpus : next'[d] # IDLE => pc'[d] = "put"
    BY <1>0, <2>1 DEF RunInv, TypeOK
  <2>3. CASE curr[c] \notin Tasks
    <3>1. UNCHANGED loc
      BY <1>13, <2>3 DEF SwitchTo
    <3>2. RunOnce'
      BY <1>0, <1>a, <2>1, <2>3, <3>1 DEF RunOnce, TypeOK
    <3>3. ClaimsCurrent'
      BY <1>0, <1>a, <2>1, <3>1 DEF ClaimsCurrent, TypeOK
    <3>4. QED
      BY <1>0, <2>2, <3>2, <3>3 DEF RunInv
  <2>4. CASE curr[c] \in Tasks
    <3>1. /\ mask[curr[c]] \in SUBSET Cpus
          /\ rustland_enqueue(curr[c], c, mask[curr[c]], FALSE, {})
      BY <1>0, <1>13, <2>4 DEF SwitchTo, TypeOK
    <3>2. Moved(curr[c])
      <4>1. {} \in SUBSET Cpus
        OBVIOUS
      <4>2. QED
        BY <1>0, <2>4, <3>1, <4>1, EnqueueMoves
    <3>3. /\ loc'[curr[c]] # "running"
          /\ \A u \in Tasks \ {curr[c]} : loc'[u] = loc[u]
      BY <1>0, <2>4, <3>2, CpusAssumption DEF Moved, TypeOK, Places
    <3>4. /\ loc[curr[c]] = "running" /\ next[c] # curr[c]
          /\ \A d \in Cpus \ {c} : curr[d] # curr[c] /\ next[d] # curr[c]
      BY <1>0, <1>a, <2>4 DEF RunOnce
    <3>5. RunOnce'
      <4>1. \A t \in Tasks, d \in Cpus :
              (curr'[d] = t \/ next'[d] = t) <=> (loc'[t] = "running" /\ cpu'[t] = d)
        <5>1. SUFFICES ASSUME NEW t \in Tasks, NEW d \in Cpus
                       PROVE  (curr'[d] = t \/ next'[d] = t)
                                <=> (loc'[t] = "running" /\ cpu'[t] = d)
          OBVIOUS
        <5>2. CASE t = curr[c]
          BY <1>0, <1>a, <2>1, <2>4, <3>3, <3>4, <5>2 DEF TypeOK
        <5>3. CASE t # curr[c]
          BY <1>0, <1>a, <2>1, <2>4, <3>3, <5>3 DEF RunOnce, TypeOK
        <5>4. QED
          BY <5>2, <5>3
      <4>2. QED
        BY <1>0, <1>a, <2>1, <4>1 DEF RunOnce, TypeOK
    <3>6. ClaimsCurrent'
      BY <1>0, <1>a, <2>1, <3>3, <3>4 DEF ClaimsCurrent, TypeOK
    <3>7. QED
      BY <1>0, <2>2, <3>5, <3>6 DEF RunInv
  <2>5. QED
    BY <2>3, <2>4
<1>14. CASE UsStep
  <2>1. /\ UNCHANGED <<loc, cpu, curr, next, buf>>
        /\ \/ UNCHANGED pc
           \/ pc' = [c \in Cpus |-> IF curr[c] = US /\ pc[c] = "run"
                                    THEN "drain" ELSE pc[c]]
    BY <1>14 DEF UsStep, dequeue_task, publish_scheduled, DropDead, DeferDispatch,
                 Dispatch, EndPass, notify_complete
  <2>2. \A c \in Cpus : pc[c] \in {"put", "flush"} => pc'[c] = pc[c]
    BY <2>1
  <2>3. QED
    BY <1>0, <2>1, <2>2 DEF RunInv, RunOnce, ClaimsCurrent
<1>15. CASE UNCHANGED vars
  BY <1>0, <1>15 DEF vars, RunInv, RunOnce, ClaimsCurrent
<1>16. QED
  BY <1>1, <1>2, <1>3, <1>4, <1>5, <1>6, <1>7, <1>8, <1>9, <1>10, <1>11, <1>12,
     <1>13, <1>14, <1>15 DEF Next, TaskStep, CpuStep, DispatchStep, Block, Exit

\* The initial states satisfy RunInv.
LEMMA RunInit == Init => RunInv
<1> SUFFICES ASSUME Init PROVE RunInv
  OBVIOUS
<1>1. TypeOK
  BY TypeInit
<1>2. ClaimsCurrent
  BY DEF Init, ClaimsCurrent, NoBuf
<1>3. RunOnce
  BY TasksAssumption DEF Init, RunOnce, US, IDLE
<1>4. QED
  BY <1>1, <1>2, <1>3 DEF RunInv, Init

\* RunInv is an invariant.
LEMMA RunInvariant == Spec => []RunInv
BY RunInit, RunStep, PTL DEF Spec

\* However many duplicated or stale dispatches user space sends, and however
\* reschedules, wakeups and affinity changes interleave, no task and no
\* user-space scheduler is ever on two CPUs.
THEOREM RunOnceCorrect == Spec => []RunOnce
<1>1. RunInv => RunOnce
  BY DEF RunInv
<1>2. QED
  BY <1>1, RunInvariant, PTL

\* finish_dispatch never honours a claim on an earlier stay in the ops queue.
THEOREM ClaimsCorrect == Spec => []ClaimsCurrent
<1>1. RunInv => ClaimsCurrent
  BY DEF RunInv
<1>2. QED
  BY <1>1, RunInvariant, PTL

-----------------------------------------------------------------------------
(* No task is lost between the kernel and user space.                      *)

\* Messages survive a push, a pop of another message, and a concatenation.
LEMMA HoldsAppend ==
    ASSUME NEW S, NEW s \in Seq(S), NEW e \in S, NEW t, Holds(s, t) \/ e.tid = t
    PROVE  Holds(Append(s, e), t)
BY DEF Holds

\* Popping the head loses no message of another task.
LEMMA HoldsTail ==
    ASSUME NEW S, NEW s \in Seq(S), s # <<>>, NEW t, Holds(s, t)
    PROVE  Holds(Tail(s), t) \/ Head(s).tid = t
<1>1. PICK i \in 1..Len(s) : s[i].tid = t
  BY DEF Holds
<1>2. CASE i = 1
  BY <1>1, <1>2
<1>3. CASE i # 1
  <2>1. i - 1 \in 1..Len(Tail(s)) /\ Tail(s)[i - 1] = s[i]
    BY <1>3
  <2>2. QED
    BY <1>1, <2>1 DEF Holds
<1>4. QED
  BY <1>2, <1>3

\* A concatenation holds what its parts hold.
LEMMA HoldsConcat ==
    ASSUME NEW S, NEW s \in Seq(S), NEW r \in Seq(S), NEW t, Holds(s, t) \/ Holds(r, t)
    PROVE  Holds(s \o r, t)
<1>1. CASE Holds(s, t)
  BY <1>1 DEF Holds
<1>2. CASE Holds(r, t)
  <2>1. PICK i \in 1..Len(r) : r[i].tid = t
    BY <1>2 DEF Holds
  <2>2. Len(s) + i \in 1..Len(s \o r) /\ (s \o r)[Len(s) + i] = r[i]
    OBVIOUS
  <2>3. QED
    BY <2>1, <2>2 DEF Holds
<1>3. QED
  BY <1>1, <1>2

\* An enqueue keeps every message and, if it hands its task to user space, adds
\* one for it.
LEMMA EnqueueCustody ==
    ASSUME TypeOK, Custody, NEW t \in Tasks, NEW D \in SUBSET Cpus,
           EnqueuedToDsq(t, D) \/ EnqueuedToUser(t),
           UNCHANGED <<pending, deferred, dispatched>>,
           \A c \in Cpus : buf[c].live /\ buf[c].tid # t =>
                              buf'[c].live /\ buf'[c].tid = buf[c].tid
    PROVE  Custody'
<1>1. SUFFICES ASSUME NEW u \in Tasks, loc'[u] = "opsq" PROVE Held(u)'
  BY DEF Custody
<1>2. Holds(queued, u) => Holds(queued', u)
  <2>1. CASE EnqueuedToUser(t)
    <3>1. [tid |-> t, tick |-> trig[t], defers |-> 0] \in QueuedTask
      BY BoundAssumption DEF TypeOK, QueuedTask
    <3>2. QED
      BY <2>1, <3>1, HoldsAppend DEF EnqueuedToUser, TypeOK
  <2>2. CASE EnqueuedToDsq(t, D)
    BY <2>2 DEF EnqueuedToDsq
  <2>3. QED
    BY <2>1, <2>2
<1>3. CASE u # t
  <2>1. loc[u] = "opsq"
    BY <1>1, <1>3 DEF EnqueuedToDsq, EnqueuedToUser, TypeOK
  <2>2. Held(u)
    BY <2>1 DEF Custody
  <2>3. QED
    BY <1>2, <1>3, <2>2 DEF Held
<1>4. CASE u = t
  <2>1. ~EnqueuedToDsq(t, D)
    BY <1>1, <1>4, CpusAssumption DEF EnqueuedToDsq, TypeOK, Places
  <2>2. [tid |-> t, tick |-> trig[t], defers |-> 0] \in QueuedTask
    BY BoundAssumption DEF TypeOK, QueuedTask
  <2>3. Holds(queued', t)
    <3>1. EnqueuedToUser(t)
      BY <2>1
    <3>2. [tid |-> t, tick |-> trig[t], defers |-> 0].tid = t /\ queued \in Seq(QueuedTask)
      BY DEF TypeOK
    <3>3. Holds(Append(queued, [tid |-> t, tick |-> trig[t], defers |-> 0]), t)
      BY <2>2, <3>2, HoldsAppend
    <3>4. QED
      BY <3>1, <3>3 DEF EnqueuedToUser
  <2>4. QED
    BY <1>4, <2>3 DEF Held
<1>5. QED
  BY <1>3, <1>4

CustodyInv == RunInv /\ Custody

\* Every step keeps custody.
LEMMA CustodyStep == CustodyInv /\ [Next]_vars => CustodyInv'
<1> SUFFICES ASSUME RunInv, Custody, [Next]_vars PROVE Custody'
  BY RunStep DEF CustodyInv
<1> USE DEF taskVars, cpuVars, wakeVars, usVars
<1>0. TypeOK /\ ClaimsCurrent /\ RunOnce
  BY DEF RunInv
\* Steps that move no message and put no task into the ops queue.
<1>a. ASSUME \A t \in Tasks : loc'[t] = "opsq" => loc[t] = "opsq",
             UNCHANGED <<queued, pending, deferred, dispatched, buf>>
      PROVE  Custody'
  BY <1>a DEF Custody, Held
\* Enqueues.
<1>b. ASSUME NEW t \in Tasks, NEW c \in Cpus, NEW m \in SUBSET Cpus, NEW wake,
             NEW kicks \in SUBSET Cpus, rustland_enqueue(t, c, m, wake, kicks),
             UNCHANGED <<pending, deferred, dispatched>>,
             \A d \in Cpus : buf[d].live /\ buf[d].tid # t =>
                                buf'[d].live /\ buf'[d].tid = buf[d].tid
      PROVE  Custody'
  <2>1. EnqueuedToDsq(t, m \cup {c}) \/ EnqueuedToUser(t)
    BY <1>0, <1>b, EnqueueEffect
  <2>2. m \cup {c} \in SUBSET Cpus
    OBVIOUS
  <2>3. QED
    BY <1>0, <1>b, <2>1, <2>2, EnqueueCustody
<1>1. ASSUME NEW t \in Tasks, Wakeup(t) PROVE Custody'
  <2>1. PICK h \in Home(mask[t], cpu[t]) :
          \/ rustland_enqueue(t, h, mask[t], FALSE, {h})
          \/ \E i \in PickIdle(mask[t]) :
               \/ InsertDsq(t, i, {i})
               \/ rustland_enqueue(t, i, mask[t], FALSE, {i})
    BY <1>1 DEF Wakeup
  <2>2. mask[t] \in SUBSET Cpus /\ h \in Cpus
    BY <1>0, HomeInMask DEF TypeOK
  <2>3. PICK i \in Cpus : \/ InsertDsq(t, i, {i})
                          \/ rustland_enqueue(t, i, mask[t], FALSE, {i})
    BY <2>1, <2>2 DEF PickIdle
  <2>4. UNCHANGED <<buf, pending, deferred, dispatched>>
    BY <1>1 DEF Wakeup
  <2>5. CASE InsertDsq(t, i, {i})
    BY <1>0, <1>a, <2>4, <2>5, CpusAssumption DEF InsertDsq, TypeOK, Places
  <2>6. CASE rustland_enqueue(t, i, mask[t], FALSE, {i})
    BY <1>b, <2>2, <2>4, <2>6
  <2>7. QED
    BY <2>3, <2>5, <2>6
<1>2. ASSUME NEW t \in Tasks, QueuedWakeup(t) PROVE Custody'
  <2>1. /\ mask[t] \in SUBSET Cpus /\ cpu[t] \in Cpus /\ {cpu[t]} \in SUBSET Cpus
        /\ rustland_enqueue(t, cpu[t], mask[t], TRUE, {cpu[t]})
        /\ UNCHANGED <<buf, pending, deferred, dispatched>>
    BY <1>0, <1>2 DEF QueuedWakeup, TypeOK
  <2>2. QED
    BY <1>b, <2>1
<1>3. ASSUME NEW t \in Tasks, NEW m \in (SUBSET Cpus) \ {{}}, SetAffinity(t, m)
      PROVE  Custody'
  <2>1. CASE UNCHANGED <<loc, cpu, trig, curr, pc, buf, kick, queued, needed>>
    BY <1>3, <1>a, <2>1 DEF SetAffinity
  <2>2. CASE ~UNCHANGED <<loc, cpu, trig, curr, pc, buf, kick, queued, needed>>
    <3>1. PICK h \in Home(m, cpu[t]) : rustland_enqueue(t, h, m, TRUE, {h})
      BY <1>3, <2>2 DEF SetAffinity
    <3>2. h \in Cpus /\ {h} \in SUBSET Cpus /\ m \in SUBSET Cpus
      BY <1>0, HomeInMask DEF TypeOK
    <3>3. /\ \A d \in Cpus : buf[d].tid # t => buf'[d] = buf[d]
          /\ UNCHANGED <<pending, deferred, dispatched>>
      BY <1>3, <2>2 DEF SetAffinity, Revoke
    <3>4. QED
      BY <1>b, <3>1, <3>2, <3>3
  <2>3. QED
    BY <2>1, <2>2
<1>4. ASSUME NEW t \in Tasks, NEW c \in Cpus, NEW place \in {"asleep", "dead"},
             Leave(t, c, place)
      PROVE  Custody'
  <2>1. \A u \in Tasks : loc'[u] = "opsq" => loc[u] = "opsq"
    BY <1>0, <1>4 DEF Leave, TypeOK
  <2>2. UNCHANGED <<queued, pending, deferred, dispatched, buf>>
    BY <1>4 DEF Leave
  <2>3. QED
    BY <1>a, <2>1, <2>2
<1>5. ASSUME NEW t \in Tasks, NEW c \in Cpus, rustland_tick(t, c) PROVE Custody'
  BY <1>5, <1>a DEF rustland_tick
<1>6. ASSUME NEW c \in Cpus, \/ SliceEnd(c) \/ DeliverKick(c) \/ SpuriousResched(c)
                             \/ ConsumeNothing(c)
      PROVE  Custody'
  BY <1>6, <1>a DEF SliceEnd, DeliverKick, SpuriousResched, ConsumeNothing
<1>7. CASE usersched_timer_fn
  BY <1>7, <1>a DEF usersched_timer_fn
<1>8. ASSUME NEW c \in Cpus, Drain(c) PROVE Custody'
  <2>1. /\ pc[c] = "drain" /\ UNCHANGED <<loc, queued, pending, deferred>>
        /\ \/ UNCHANGED <<buf, dispatched>>
           \/ /\ dispatched # <<>> /\ dispatched' = Tail(dispatched)
              /\ \E b \in dispatch_task(Head(dispatched)) : buf' = [buf EXCEPT ![c] = b]
    BY <1>8 DEF Drain
  <2>2. CASE UNCHANGED <<buf, dispatched>>
    BY <1>a, <2>1, <2>2
  <2>3. CASE dispatched # <<>> /\ dispatched' = Tail(dispatched)
    <3>1. PICK b \in dispatch_task(Head(dispatched)) : buf' = [buf EXCEPT ![c] = b]
      BY <2>1, <2>2, <2>3
    <3>2. \A d \in Cpus : buf[d].live => buf'[d] = buf[d]
      BY <1>0, <2>1, <3>1 DEF ClaimsCurrent, TypeOK
    <3>3. ASSUME NEW u \in Tasks, loc[u] = "opsq", Head(dispatched).tid = u
          PROVE  buf'[c].live /\ buf'[c].tid = u
      <4>1. PICK d, k : b = Insert(u, d, k)
        BY <3>3 DEF dispatch_task
      <4>2. b.live /\ b.tid = u
        BY <3>3, <4>1 DEF Insert
      <4>3. QED
        BY <1>0, <3>1, <4>2 DEF TypeOK
    <3>4. \A u \in Tasks : Holds(dispatched, u) =>
                             Holds(dispatched', u) \/ Head(dispatched).tid = u
      BY <1>0, <2>3, HoldsTail DEF TypeOK
    <3>5. QED
      BY <2>1, <3>2, <3>3, <3>4 DEF Custody, Held
  <2>4. QED
    BY <2>1, <2>2, <2>3
<1>9. ASSUME NEW c \in Cpus, Flush(c) PROVE Custody'
  <2>1. Flushed(c) /\ UNCHANGED <<queued, pending, deferred, dispatched>>
    BY <1>9 DEF Flush
  <2>2. SUFFICES ASSUME NEW u \in Tasks, loc'[u] = "opsq" PROVE Held(u)'
    BY DEF Custody
  <2>3. buf[c] \in Buffer
    BY <1>0 DEF TypeOK
  <2>4. loc[u] = "opsq" /\ ~(buf[c].live /\ buf[c].tid = u)
    BY <1>0, <2>1, <2>2, <2>3, CpusAssumption DEF Flushed, Buffer, TypeOK, Places
  <2>5. \A d \in Cpus : buf[d].live /\ buf[d].tid = u => buf'[d] = buf[d]
    BY <2>1, <2>4 DEF Flushed
  <2>6. Held(u)
    BY <2>4 DEF Custody
  <2>7. QED
    BY <2>1, <2>5, <2>6 DEF Held
<1>10. ASSUME NEW c \in Cpus, NEW t \in Tasks, ConsumeOwn(c, t) \/ ConsumeShared(c, t)
       PROVE  Custody'
  <2>1. MoveToLocal(c, t)
    BY <1>10 DEF ConsumeOwn, ConsumeShared
  <2>2. \A u \in Tasks : loc'[u] = "opsq" => loc[u] = "opsq"
    BY <1>0, <2>1 DEF MoveToLocal, TypeOK
  <2>3. QED
    BY <1>a, <2>1, <2>2 DEF MoveToLocal
<1>11. ASSUME NEW c \in Cpus, KeepPrev(c) PROVE Custody'
  <2>1. ~buf[c].live
    BY <1>0, <1>11 DEF KeepPrev, ClaimsCurrent
  <2>2. \A d \in Cpus : buf[d].live => buf'[d] = buf[d]
    BY <1>0, <1>11, <2>1 DEF KeepPrev, TypeOK
  <2>3. QED
    BY <1>11, <2>2 DEF KeepPrev, Custody, Held
<1>12. ASSUME NEW c \in Cpus, SwitchTo(c) PROVE Custody'
  <2>1. ~buf[c].live
    BY <1>0, <1>12 DEF SwitchTo, ClaimsCurrent
  <2>2. \A d \in Cpus : buf[d].live => buf'[d] = buf[d]
    BY <1>0, <1>12, <2>1 DEF SwitchTo, TypeOK
  <2>3. CASE curr[c] \notin Tasks
    BY <1>12, <2>2, <2>3 DEF SwitchTo, Custody, Held
  <2>4. CASE curr[c] \in Tasks
    <3>1. /\ mask[curr[c]] \in SUBSET Cpus /\ {} \in SUBSET Cpus
          /\ rustland_enqueue(curr[c], c, mask[curr[c]], FALSE, {})
          /\ UNCHANGED <<pending, deferred, dispatched>>
      BY <1>0, <1>12, <2>4 DEF SwitchTo, TypeOK
    <3>2. QED
      BY <1>b, <2>2, <2>4, <3>1
  <2>5. QED
    BY <2>3, <2>4
<1>13. CASE UsStep
  <2>1. UNCHANGED <<loc, buf>>
    BY <1>13 DEF UsStep, dequeue_task, publish_scheduled, DropDead, DeferDispatch,
                 Dispatch, EndPass, notify_complete
  <2>2. SUFFICES ASSUME NEW u \in Tasks, loc[u] = "opsq", Held(u) PROVE Held(u)'
    BY <2>1 DEF Custody
  <2>3. pending # <<>> => /\ Head(pending) \in QueuedTask
                          /\ Holds(pending, u) =>
                               Holds(Tail(pending), u) \/ Head(pending).tid = u
    BY <1>0, HoldsTail DEF TypeOK
  <2>4. CASE dequeue_task
    <3>1. CASE queued = <<>>
      BY <2>1, <2>2, <2>4, <3>1 DEF dequeue_task, Held
    <3>2. CASE queued # <<>>
      <4>1. /\ pending' = Append(pending, Head(queued)) /\ queued' = Tail(queued)
            /\ UNCHANGED <<deferred, dispatched>>
        BY <2>4, <3>2 DEF dequeue_task
      <4>2. Holds(queued, u) => Holds(queued', u) \/ Head(queued).tid = u
        BY <1>0, <3>2, <4>1, HoldsTail DEF TypeOK
      <4>3. Head(queued) \in QueuedTask
        BY <1>0, <3>2 DEF TypeOK
      <4>4. Holds(pending, u) \/ Head(queued).tid = u => Holds(pending', u)
        BY <1>0, <4>1, <4>3, HoldsAppend DEF TypeOK
      <4>5. QED
        BY <2>1, <2>2, <4>1, <4>2, <4>4 DEF Held
    <3>3. QED
      BY <3>1, <3>2
  <2>5. CASE publish_scheduled \/ EndPass
    BY <2>1, <2>2, <2>5 DEF publish_scheduled, EndPass, Held
  <2>6. CASE DropDead
    BY <2>1, <2>2, <2>3, <2>6 DEF DropDead, TakePending, Held
  <2>7. CASE DeferDispatch
    <3>1. /\ pending # <<>> /\ pending' = Tail(pending) /\ Head(pending).defers < MaxDefer
          /\ deferred' = Append(deferred, [Head(pending) EXCEPT !.defers = @ + 1])
          /\ UNCHANGED <<queued, dispatched>>
      BY <2>7 DEF DeferDispatch, TakePending
    <3>2. /\ [Head(pending) EXCEPT !.defers = @ + 1] \in QueuedTask
          /\ [Head(pending) EXCEPT !.defers = @ + 1].tid = Head(pending).tid
      BY <2>3, <3>1, BoundAssumption DEF QueuedTask
    <3>3. Holds(deferred, u) \/ Head(pending).tid = u => Holds(deferred', u)
      <4>1. PICK e \in QueuedTask : /\ deferred' = Append(deferred, e)
                                    /\ e.tid = Head(pending).tid
        BY <3>1, <3>2
      <4>2. deferred \in Seq(QueuedTask)
        BY <1>0 DEF TypeOK
      <4>3. QED
        BY <4>1, <4>2, HoldsAppend
    <3>4. QED
      BY <2>1, <2>2, <2>3, <3>1, <3>3 DEF Held
  <2>8. ASSUME NEW d \in Cpus \cup {ANY}, Dispatch(d) PROVE Held(u)'
    <3>1. /\ pending # <<>> /\ pending' = Tail(pending)
          /\ dispatched' = Append(dispatched, [tid |-> Head(pending).tid, cpu |-> d])
          /\ UNCHANGED <<queued, deferred>>
      BY <2>8 DEF Dispatch, TakePending
    <3>2. /\ [tid |-> Head(pending).tid, cpu |-> d] \in DispatchedTask
          /\ [tid |-> Head(pending).tid, cpu |-> d].tid = Head(pending).tid
      BY <2>3, <3>1 DEF QueuedTask, DispatchedTask
    <3>3. Holds(dispatched, u) \/ Head(pending).tid = u => Holds(dispatched', u)
      BY <1>0, <3>1, <3>2, HoldsAppend DEF TypeOK
    <3>4. QED
      BY <2>1, <2>2, <2>3, <3>1, <3>3 DEF Held
  <2>9. CASE notify_complete
    <3>1. Holds(pending, u) \/ Holds(deferred, u) => Holds(pending', u)
      BY <1>0, <2>9, HoldsConcat DEF notify_complete, TypeOK
    <3>2. QED
      BY <2>1, <2>2, <2>9, <3>1 DEF notify_complete, Held
  <2>10. QED
    BY <1>13, <2>4, <2>5, <2>6, <2>7, <2>8, <2>9 DEF UsStep
<1>14. CASE UNCHANGED vars
  BY <1>14, <1>a DEF vars
<1>15. QED
  BY <1>1, <1>2, <1>3, <1>4, <1>5, <1>6, <1>7, <1>8, <1>9, <1>10, <1>11, <1>12,
     <1>13, <1>14 DEF Next, TaskStep, CpuStep, DispatchStep, Block, Exit

\* Whatever the number of tasks and the capacity of the rings, no interleaving of
\* preemption, stale dispatches, full rings, deferrals and affinity changes loses
\* a task that the kernel has handed to user space.
THEOREM CustodyCorrect == Spec => []Custody
<1>1. Init => CustodyInv
  <2>1. Init => RunInv
    BY RunInit
  <2>2. Init => Custody
    BY DEF Init, Custody
  <2>3. QED
    BY <2>1, <2>2 DEF CustodyInv
<1>2. CustodyInv => Custody
  BY DEF CustodyInv
<1>3. QED
  BY <1>1, <1>2, CustodyStep, PTL DEF Spec

-----------------------------------------------------------------------------
(* A task never waits for, nor runs on, a CPU outside its affinity.  The     *)
(* strengthening follows the CPU through every step of a dispatch: the one   *)
(* scx_bpf_task_cpu names for a runnable task, and the target of a buffered  *)
(* dispatch.                                                                 *)

TaskAffinity ==
    \A t \in Tasks :
        /\ loc[t] \notin {"asleep", "dead"} => cpu[t] \in mask[t]
        /\ loc[t] \in Cpus => loc[t] \in mask[t]

BufferAffinity ==
    \A c \in Cpus : buf[c].live => buf[c].dsq \in mask[buf[c].tid] \cup {"shared"}

AffinityInv == RunInv /\ TaskAffinity /\ BufferAffinity

\* A dispatch is buffered for a DSQ its task may use.
LEMMA DispatchAllowed ==
    ASSUME TypeOK, NEW m \in DispatchedTask, NEW b \in dispatch_task(m), b.live,
           loc[m.tid] = "opsq" => cpu[m.tid] \in mask[m.tid]
    PROVE  b.dsq \in mask[b.tid] \cup {"shared"}
<1>1. CASE loc[m.tid] = "dead"
  BY <1>1 DEF dispatch_task, NoBuf
<1>2. CASE loc[m.tid] # "dead"
  <2>1. PICK d, k : /\ b = Insert(m.tid, d, k)
                    /\ d = "shared" \/ d \in mask[m.tid] \/ d = cpu[m.tid]
    BY <1>2 DEF dispatch_task
  <2>2. b.tid = m.tid /\ b.dsq = d /\ b.live = (loc[m.tid] = "opsq")
    BY <2>1 DEF Insert
  <2>3. QED
    BY <2>1, <2>2
<1>3. QED
  BY <1>1, <1>2

\* An enqueue on a CPU of the affinity m sends the task to a DSQ of m.
LEMMA EnqueueAllowed ==
    ASSUME TypeOK, NEW t \in Tasks, NEW m \in SUBSET Cpus, NEW c \in m,
           NEW wake, NEW kicks \in SUBSET Cpus,
           rustland_enqueue(t, c, m, wake, kicks)
    PROVE  /\ \A u \in Tasks \ {t} : loc'[u] = loc[u]
           /\ loc'[t] \in Cpus => loc'[t] \in m
<1>1. EnqueuedToDsq(t, m \cup {c}) \/ EnqueuedToUser(t)
  <2>1. c \in Cpus
    OBVIOUS
  <2>2. QED
    BY <2>1, EnqueueEffect
<1>2. \E d \in m \cup {"shared", "opsq"} : loc' = [loc EXCEPT ![t] = d]
  BY <1>1 DEF EnqueuedToDsq, EnqueuedToUser
<1>3. QED
  BY <1>2, CpusAssumption DEF TypeOK, Places

\* Every step keeps tasks and dispatches within the affinity.
LEMMA AffinityStep == AffinityInv /\ [Next]_vars => AffinityInv'
<1> SUFFICES ASSUME RunInv, TaskAffinity, BufferAffinity, [Next]_vars
             PROVE  TaskAffinity' /\ BufferAffinity'
  BY RunStep DEF AffinityInv
<1> USE DEF taskVars, cpuVars, wakeVars, usVars
<1>0. TypeOK /\ ClaimsCurrent /\ RunOnce
  BY DEF RunInv
\* An enqueue of t on a CPU of its affinity, with the other tasks left alone.
<1>a. ASSUME NEW t \in Tasks, NEW c \in mask'[t], NEW wake, NEW kicks \in SUBSET Cpus,
             mask'[t] \in SUBSET Cpus,
             rustland_enqueue(t, c, mask'[t], wake, kicks), cpu'[t] = c,
             \A u \in Tasks \ {t} : cpu'[u] = cpu[u] /\ mask'[u] = mask[u]
      PROVE  TaskAffinity'
  <2>1. /\ \A u \in Tasks \ {t} : loc'[u] = loc[u]
        /\ loc'[t] \in Cpus => loc'[t] \in mask'[t]
    BY <1>0, <1>a, EnqueueAllowed
  <2>2. QED
    BY <1>a, <2>1 DEF TaskAffinity
<1>b. UNCHANGED <<buf, mask>> => BufferAffinity'
  BY DEF BufferAffinity
<1>1. ASSUME NEW t \in Tasks, Wakeup(t) PROVE TaskAffinity' /\ BufferAffinity'
  <2>1. PICK h \in Home(mask[t], cpu[t]) :
          \/ /\ cpu' = [cpu EXCEPT ![t] = h]
             /\ rustland_enqueue(t, h, mask[t], FALSE, {h})
          \/ \E i \in PickIdle(mask[t]) :
               /\ cpu' = [cpu EXCEPT ![t] = i]
               /\ \/ InsertDsq(t, i, {i})
                  \/ rustland_enqueue(t, i, mask[t], FALSE, {i})
    BY <1>1 DEF Wakeup
  <2>2. mask[t] \in SUBSET Cpus /\ h \in mask[t] /\ UNCHANGED <<mask, buf>>
    BY <1>0, <1>1, HomeInMask DEF TypeOK, Wakeup
  <2>3. PICK i \in mask[t] : /\ cpu' = [cpu EXCEPT ![t] = i]
                             /\ \/ InsertDsq(t, i, {i})
                                \/ rustland_enqueue(t, i, mask[t], FALSE, {i})
    BY <2>1, <2>2 DEF PickIdle
  <2>4. cpu'[t] = i /\ \A u \in Tasks \ {t} : cpu'[u] = cpu[u] /\ mask'[u] = mask[u]
    BY <1>0, <2>2, <2>3 DEF TypeOK
  <2>5. CASE InsertDsq(t, i, {i})
    BY <1>0, <1>b, <2>2, <2>4, <2>5 DEF InsertDsq, TaskAffinity, TypeOK
  <2>6. CASE rustland_enqueue(t, i, mask[t], FALSE, {i})
    <3>1. {i} \in SUBSET Cpus /\ mask'[t] = mask[t]
      BY <2>2
    <3>2. QED
      BY <1>a, <1>b, <2>2, <2>4, <2>6, <3>1
  <2>7. QED
    BY <2>3, <2>5, <2>6
<1>2. ASSUME NEW t \in Tasks, QueuedWakeup(t) PROVE TaskAffinity' /\ BufferAffinity'
  <2>1. /\ mask[t] \in SUBSET Cpus /\ cpu[t] \in mask[t] /\ {cpu[t]} \in SUBSET Cpus
        /\ rustland_enqueue(t, cpu[t], mask[t], TRUE, {cpu[t]})
        /\ UNCHANGED <<cpu, mask, buf>>
    BY <1>0, <1>2 DEF QueuedWakeup, TypeOK
  <2>2. QED
    BY <1>a, <1>b, <2>1
<1>3. ASSUME NEW t \in Tasks, NEW m \in (SUBSET Cpus) \ {{}}, SetAffinity(t, m)
      PROVE  TaskAffinity' /\ BufferAffinity'
  <2>1. mask'[t] = m /\ \A u \in Tasks \ {t} : mask'[u] = mask[u]
    BY <1>0, <1>3 DEF SetAffinity, TypeOK
  <2>2. CASE \/ loc[t] = "asleep"
             \/ loc[t] = "running" /\ cpu[t] \in m
    <3>1. UNCHANGED <<loc, cpu, buf>> /\ loc[t] \notin Cpus
      BY <1>3, <2>2, CpusAssumption DEF SetAffinity, Places
    <3>2. TaskAffinity'
      BY <2>1, <2>2, <3>1 DEF TaskAffinity
    <3>3. BufferAffinity'
      BY <1>0, <2>1, <2>2, <3>1 DEF BufferAffinity, ClaimsCurrent
    <3>4. QED
      BY <3>2, <3>3
  <2>3. CASE ~(\/ loc[t] = "asleep"
               \/ loc[t] = "running" /\ cpu[t] \in m)
    <3>1. PICK h \in Home(m, cpu[t]) : /\ cpu' = [cpu EXCEPT ![t] = h]
                                       /\ rustland_enqueue(t, h, m, TRUE, {h})
      BY <1>3, <2>3 DEF SetAffinity
    <3>2. h \in m /\ {h} \in SUBSET Cpus /\ m \in SUBSET Cpus
      BY <1>0, HomeInMask DEF TypeOK
    <3>3. cpu'[t] = h /\ \A u \in Tasks \ {t} : cpu'[u] = cpu[u]
      BY <1>0, <3>1 DEF TypeOK
    <3>4. TaskAffinity'
      BY <1>a, <2>1, <3>1, <3>2, <3>3
    <3>5. buf' = [c \in Cpus |-> IF buf[c].tid = t
                                 THEN [buf[c] EXCEPT !.live = FALSE] ELSE buf[c]]
      BY <1>3, <2>3 DEF SetAffinity, Revoke
    <3>6. BufferAffinity'
      <4>1. ASSUME NEW c \in Cpus, buf'[c].live
            PROVE  buf'[c] = buf[c] /\ buf[c].tid # t
        <5>1. buf[c].tid # t
          BY <1>0, <3>5, <4>1 DEF TypeOK, Buffer
        <5>2. QED
          BY <3>5, <5>1
      <4>2. QED
        BY <1>0, <2>1, <4>1 DEF BufferAffinity, ClaimsCurrent
    <3>7. QED
      BY <3>4, <3>6
  <2>4. QED
    BY <2>2, <2>3
<1>4. ASSUME NEW t \in Tasks, NEW c \in Cpus, NEW place \in {"asleep", "dead"},
             Leave(t, c, place)
      PROVE  TaskAffinity' /\ BufferAffinity'
  BY <1>0, <1>4, <1>b, CpusAssumption DEF Leave, TaskAffinity, TypeOK, Places
<1>5. ASSUME UNCHANGED <<loc, cpu, mask, buf>> PROVE TaskAffinity' /\ BufferAffinity'
  BY <1>5, <1>b DEF TaskAffinity
<1>6. ASSUME NEW t \in Tasks, NEW c \in Cpus, rustland_tick(t, c)
      PROVE  TaskAffinity' /\ BufferAffinity'
  BY <1>5, <1>6 DEF rustland_tick
<1>7. ASSUME NEW c \in Cpus, \/ SliceEnd(c) \/ DeliverKick(c) \/ SpuriousResched(c)
                             \/ ConsumeNothing(c)
      PROVE  TaskAffinity' /\ BufferAffinity'
  BY <1>5, <1>7 DEF SliceEnd, DeliverKick, SpuriousResched, ConsumeNothing
<1>8. CASE usersched_timer_fn \/ UsStep
  BY <1>5, <1>8 DEF usersched_timer_fn, UsStep, dequeue_task, publish_scheduled,
         DropDead, DeferDispatch, Dispatch, EndPass, notify_complete
<1>9. ASSUME NEW c \in Cpus, Drain(c) PROVE TaskAffinity' /\ BufferAffinity'
  <2>1. UNCHANGED <<loc, cpu, mask>> /\ TaskAffinity'
    BY <1>9 DEF Drain, TaskAffinity
  <2>2. CASE UNCHANGED buf
    BY <1>5, <2>1, <2>2
  <2>3. CASE dispatched # <<>> /\ \E b \in dispatch_task(Head(dispatched)) :
                                   buf' = [buf EXCEPT ![c] = b]
    <3>1. PICK b \in dispatch_task(Head(dispatched)) : buf' = [buf EXCEPT ![c] = b]
      BY <2>3
    <3>2. Head(dispatched) \in DispatchedTask
      BY <1>0, <2>3 DEF TypeOK
    <3>3. loc[Head(dispatched).tid] = "opsq" =>
            cpu[Head(dispatched).tid] \in mask[Head(dispatched).tid]
      BY <3>2 DEF TaskAffinity, DispatchedTask
    <3>4. b.live => b.dsq \in mask[b.tid] \cup {"shared"}
      BY <1>0, <3>2, <3>3, DispatchAllowed
    <3>5. BufferAffinity'
      BY <1>0, <2>1, <3>1, <3>4 DEF BufferAffinity, TypeOK
    <3>6. QED
      BY <2>1, <3>5
  <2>4. QED
    BY <1>9, <2>2, <2>3 DEF Drain
<1>10. ASSUME NEW c \in Cpus, Flush(c) PROVE TaskAffinity' /\ BufferAffinity'
  <2>1. Flushed(c) /\ UNCHANGED <<cpu, mask>> /\ buf[c] \in Buffer
    BY <1>0, <1>10 DEF Flush, TypeOK
  <2>2. TaskAffinity'
    <3>1. CASE ~buf[c].live
      BY <2>1, <3>1 DEF Flushed, TaskAffinity
    <3>2. CASE buf[c].live
      <4>1. /\ buf[c].tid \in Tasks /\ loc[buf[c].tid] = "opsq"
            /\ buf[c].dsq \in mask[buf[c].tid] \cup {"shared"}
        BY <1>0, <3>2 DEF ClaimsCurrent, BufferAffinity
      <4>2. loc' = [loc EXCEPT ![buf[c].tid] = buf[c].dsq]
        BY <2>1, <3>2 DEF Flushed
      <4>3. QED
        BY <1>0, <2>1, <4>1, <4>2, CpusAssumption DEF TaskAffinity, TypeOK, Places
    <3>3. QED
      BY <3>1, <3>2
  <2>3. BufferAffinity'
    <3>1. ASSUME NEW d \in Cpus, buf'[d].live PROVE buf'[d] = buf[d]
      <4>1. buf[d] \in Buffer
        BY <1>0 DEF TypeOK
      <4>2. d # c
        BY <2>1, <3>1 DEF Flushed, Buffer
      <4>3. ~(buf[c].live /\ buf[d].tid = buf[c].tid)
        BY <2>1, <3>1, <4>1, <4>2 DEF Flushed, Buffer
      <4>4. QED
        BY <2>1, <4>2, <4>3 DEF Flushed
    <3>2. QED
      BY <2>1, <3>1 DEF BufferAffinity
  <2>4. QED
    BY <2>2, <2>3
<1>11. ASSUME NEW c \in Cpus, NEW t \in Tasks, ConsumeOwn(c, t) \/ ConsumeShared(c, t)
       PROVE  TaskAffinity' /\ BufferAffinity'
  <2>1. MoveToLocal(c, t) /\ c \in mask[t]
    BY <1>11 DEF ConsumeOwn, ConsumeShared, Consumable
  <2>2. QED
    BY <1>0, <1>b, <2>1, CpusAssumption DEF MoveToLocal, TaskAffinity, TypeOK, Places
<1>12. ASSUME NEW c \in Cpus, KeepPrev(c) PROVE TaskAffinity' /\ BufferAffinity'
  <2>1. UNCHANGED <<loc, cpu, mask>> /\ buf' = [buf EXCEPT ![c] = NoBuf]
    BY <1>12 DEF KeepPrev
  <2>2. QED
    BY <1>0, <2>1 DEF TaskAffinity, BufferAffinity, TypeOK, NoBuf
<1>13. ASSUME NEW c \in Cpus, SwitchTo(c) PROVE TaskAffinity' /\ BufferAffinity'
  <2>1. UNCHANGED <<cpu, mask>> /\ buf' = [buf EXCEPT ![c] = NoBuf]
    BY <1>13 DEF SwitchTo
  <2>2. BufferAffinity'
    BY <1>0, <2>1 DEF BufferAffinity, TypeOK, NoBuf
  <2>3. CASE curr[c] \notin Tasks
    BY <1>13, <2>1, <2>2, <2>3 DEF SwitchTo, TaskAffinity
  <2>4. CASE curr[c] \in Tasks
    <3>1. cpu[curr[c]] = c /\ loc[curr[c]] = "running"
      BY <1>0, <2>4 DEF RunOnce
    <3>2. c \in mask[curr[c]] /\ mask[curr[c]] \in SUBSET Cpus /\ {} \in SUBSET Cpus
      BY <1>0, <2>4, <3>1 DEF TaskAffinity, TypeOK
    <3>3. rustland_enqueue(curr[c], c, mask[curr[c]], FALSE, {})
      BY <1>13, <2>4 DEF SwitchTo
    <3>4. TaskAffinity'
      BY <1>a, <2>1, <2>4, <3>1, <3>2, <3>3
    <3>5. QED
      BY <2>2, <3>4
  <2>5. QED
    BY <2>3, <2>4
<1>14. CASE UNCHANGED vars
  BY <1>5, <1>14 DEF vars
<1>15. QED
  BY <1>1, <1>2, <1>3, <1>4, <1>6, <1>7, <1>8, <1>9, <1>10, <1>11, <1>12,
     <1>13, <1>14 DEF Next, TaskStep, CpuStep, DispatchStep, Block, Exit

\* AffinityInv is an invariant.
LEMMA AffinityInvariant == Spec => []AffinityInv
<1>1. Init => AffinityInv
  <2>1. Init => RunInv
    BY RunInit
  <2>2. Init => TaskAffinity /\ BufferAffinity
    BY CpusAssumption DEF Init, TaskAffinity, BufferAffinity, NoBuf, Places
  <2>3. QED
    BY <2>1, <2>2 DEF AffinityInv
<1>2. QED
  BY <1>1, AffinityStep, PTL DEF Spec


\* The policy may choose with an affinity that is out of date, and the affinity
\* may change while a dispatch is buffered: still no task waits in the DSQ of, or
\* runs on, a CPU outside its present affinity.
THEOREM AffinityCorrect == Spec => []DsqAllowed
<1>1. AffinityInv => DsqAllowed
  BY DEF AffinityInv, RunInv, RunOnce, TaskAffinity, DsqAllowed
<1>2. QED
  BY <1>1, AffinityInvariant, PTL

-----------------------------------------------------------------------------
(* The dispatch path implements TaskLifecycle.  The invariant that carries  *)
(* the simulation is AffinityInv: with RunOnce it gives the guards of the    *)
(* abstract Switch, with TaskAffinity the CPU a task is switched to.         *)

LifecycleVars == <<loc, mask, [c \in Cpus |-> RunsTask(c)]>>

\* An enqueue of a task whose CPU is in its mask puts it to wait as TaskLifecycle says.
LEMMA EnqueueWaits ==
    ASSUME TypeOK, NEW t \in Tasks, NEW m \in SUBSET Cpus, NEW c \in m,
           NEW wake, NEW kicks \in SUBSET Cpus,
           rustland_enqueue(t, c, m, wake, kicks)
    PROVE  \E p \in Lifecycle!Waiting(m) : loc' = [loc EXCEPT ![t] = p]
<1>1. EnqueuedToDsq(t, m \cup {c}) \/ EnqueuedToUser(t)
  BY EnqueueEffect
<1>2. QED
  BY <1>1 DEF EnqueuedToDsq, EnqueuedToUser, Lifecycle!Waiting

\* Every step of the dispatch path is a step of the abstract specification, or
\* changes none of its variables.
LEMMA LifecycleStep ==
    AffinityInv /\ [Next]_vars => Lifecycle!Next \/ UNCHANGED LifecycleVars
<1> SUFFICES ASSUME AffinityInv, [Next]_vars
             PROVE  Lifecycle!Next \/ UNCHANGED LifecycleVars
  OBVIOUS
<1> USE DEF taskVars, cpuVars, wakeVars, usVars
<1>0. TypeOK /\ ClaimsCurrent /\ RunOnce /\ TaskAffinity /\ BufferAffinity
  BY DEF AffinityInv, RunInv
<1>a. US # IDLE /\ US \notin Tasks /\ IDLE \notin Tasks
  BY TasksAssumption DEF US, IDLE
\* A sleeping task that is enqueued wakes.
<1>b. ASSUME NEW t \in Tasks, loc[t] = "asleep", UNCHANGED <<mask, curr>>,
             NEW p \in Lifecycle!Waiting(mask[t]), loc' = [loc EXCEPT ![t] = p]
      PROVE  Lifecycle!Next
  <2>1. Lifecycle!Wake(t)
    BY <1>b DEF Lifecycle!Wake, Lifecycle!Put, RunsTask
  <2>2. QED
    BY <2>1 DEF Lifecycle!Next
<1>1. ASSUME NEW t \in Tasks, Wakeup(t) PROVE Lifecycle!Next
  <2>1. PICK h \in Home(mask[t], cpu[t]) :
          \/ rustland_enqueue(t, h, mask[t], FALSE, {h})
          \/ \E i \in PickIdle(mask[t]) :
               InsertDsq(t, i, {i}) \/ rustland_enqueue(t, i, mask[t], FALSE, {i})
    BY <1>1 DEF Wakeup
  <2>2. mask[t] \in SUBSET Cpus /\ h \in mask[t]
    BY <1>0 DEF TypeOK, Home
  <2>3. PICK i \in mask[t] : \/ InsertDsq(t, i, {i})
                             \/ rustland_enqueue(t, i, mask[t], FALSE, {i})
    BY <2>1, <2>2 DEF PickIdle
  <2>4. \E p \in Lifecycle!Waiting(mask[t]) : loc' = [loc EXCEPT ![t] = p]
    <3>1. CASE InsertDsq(t, i, {i})
      BY <3>1 DEF InsertDsq, Lifecycle!Waiting
    <3>2. CASE rustland_enqueue(t, i, mask[t], FALSE, {i})
      <4>1. {i} \in SUBSET Cpus
        BY <2>2
      <4>2. QED
        BY <1>0, <2>2, <3>2, <4>1, EnqueueWaits
    <3>3. QED
      BY <2>3, <3>1, <3>2
  <2>5. QED
    BY <1>1, <1>b, <2>4 DEF Wakeup
<1>2. ASSUME NEW t \in Tasks, QueuedWakeup(t) PROVE Lifecycle!Next
  <2>1. /\ mask[t] \in SUBSET Cpus /\ cpu[t] \in mask[t] /\ {cpu[t]} \in SUBSET Cpus
        /\ rustland_enqueue(t, cpu[t], mask[t], TRUE, {cpu[t]})
    BY <1>0, <1>2 DEF QueuedWakeup, TypeOK
  <2>2. \E p \in Lifecycle!Waiting(mask[t]) : loc' = [loc EXCEPT ![t] = p]
    BY <1>0, <2>1, EnqueueWaits
  <2>3. QED
    BY <1>2, <1>b, <2>2 DEF QueuedWakeup
\* The task is off its CPU exactly when the new mask leaves the CPU out, and waits
\* within the new mask unless it sleeps or runs on.
<1>3. ASSUME NEW t \in Tasks, NEW m \in (SUBSET Cpus) \ {{}}, SetAffinity(t, m)
      PROVE  Lifecycle!Next
  <2> DEFINE kept == loc[t] = "asleep" \/ (loc[t] = "running" /\ cpu[t] \in m)
  <2>1. \A c \in Cpus : RunsTask(c) = t => loc[t] = "running" /\ cpu[t] = c
    BY <1>0, <1>a DEF RunOnce, RunsTask
  <2>2. loc[t] = "running" => RunsTask(cpu[t]) = t
    <3>1. loc[t] = "running" => cpu[t] \in Cpus /\ (curr[cpu[t]] = t \/ next[cpu[t]] = t)
      BY <1>0 DEF RunOnce, TypeOK
    <3>2. loc[t] = "running" => next[cpu[t]] # t
      <4>1. Unlocked(t) /\ \A c \in Cpus : next[c] # IDLE => pc[c] = "put"
        BY <1>3 DEF SetAffinity, RunInv, AffinityInv
      <4>2. QED
        BY <1>a, <3>1, <4>1 DEF Unlocked
    <3>3. QED
      BY <3>1, <3>2 DEF RunsTask
  <2>3. kept <=> (loc[t] = "asleep" \/ \E c \in m : RunsTask(c) = t)
    BY <2>1, <2>2
  <2>4. IF kept THEN UNCHANGED loc
        ELSE \E p \in Lifecycle!Waiting(m) : loc' = [loc EXCEPT ![t] = p]
    <3>1. CASE kept
      BY <1>3, <3>1 DEF SetAffinity
    <3>2. CASE ~kept
      <4>1. PICK h \in Home(m, cpu[t]) : rustland_enqueue(t, h, m, TRUE, {h})
        BY <1>3, <3>2 DEF SetAffinity
      <4>2. h \in m /\ {h} \in SUBSET Cpus /\ m \in SUBSET Cpus
        BY DEF Home
      <4>3. QED
        BY <1>0, <3>2, <4>1, <4>2, EnqueueWaits
    <3>3. QED
      BY <3>1, <3>2
  <2>5. \A c \in Cpus : RunsTask(c)' = IF RunsTask(c) = t /\ c \notin m THEN IDLE ELSE RunsTask(c)
    <3>1. CASE kept
      BY <1>3, <2>1, <3>1 DEF SetAffinity, RunsTask
    <3>2. CASE ~kept
      <4>1. curr' = [c \in Cpus |-> IF curr[c] = t THEN IDLE ELSE curr[c]]
        BY <1>3, <3>2 DEF SetAffinity
      <4>2. QED
        BY <1>a, <2>1, <3>2, <4>1 DEF RunsTask
    <3>3. QED
      BY <3>1, <3>2
  <2>6. mask' = [mask EXCEPT ![t] = m]
    BY <1>3 DEF SetAffinity
  <2>7. Lifecycle!SetAffinity(t, m)
    BY <2>3, <2>4, <2>5, <2>6 DEF Lifecycle!SetAffinity, Lifecycle!Put
  <2>8. QED
    BY <2>7 DEF Lifecycle!Next
<1>4. ASSUME NEW t \in Tasks, NEW c \in Cpus, NEW place \in {"asleep", "dead"},
             Leave(t, c, place)
      PROVE  Lifecycle!Next
  <2>1. /\ loc' = [loc EXCEPT ![t] = place] /\ curr' = [curr EXCEPT ![c] = IDLE]
        /\ curr[c] = t /\ UNCHANGED mask
    BY <1>4 DEF Leave
  <2>2. RunsTask(c) = t
    BY <2>1 DEF RunsTask
  <2>4. \A d \in Cpus : RunsTask(d)' = IF d = c THEN IDLE ELSE RunsTask(d)
    BY <1>0, <1>a, <2>1 DEF RunsTask, TypeOK
  <2>5. Lifecycle!Stop(c, place)
    BY <1>a, <2>1, <2>2, <2>4 DEF Lifecycle!Stop, Lifecycle!Put
  <2>6. QED
    BY <2>5 DEF Lifecycle!Next
\* Steps that leave the place of every task and what every CPU runs alone.
<1>5. ASSUME UNCHANGED <<loc, mask, curr>> PROVE UNCHANGED LifecycleVars
  BY <1>5 DEF LifecycleVars, RunsTask
<1>6. ASSUME NEW t \in Tasks, NEW c \in Cpus, rustland_tick(t, c)
      PROVE  UNCHANGED LifecycleVars
  BY <1>5, <1>6 DEF rustland_tick
<1>7. ASSUME NEW c \in Cpus,
             \/ SliceEnd(c) \/ DeliverKick(c) \/ SpuriousResched(c)
             \/ Drain(c) \/ ConsumeNothing(c) \/ KeepPrev(c)
      PROVE  UNCHANGED LifecycleVars
  BY <1>5, <1>7 DEF SliceEnd, DeliverKick, SpuriousResched, Drain, ConsumeNothing,
                    KeepPrev
<1>8. CASE UsStep \/ usersched_timer_fn \/ UNCHANGED vars
  BY <1>5, <1>8 DEF UsStep, dequeue_task, publish_scheduled, DropDead, DeferDispatch,
                    Dispatch, EndPass, notify_complete, usersched_timer_fn, vars
\* The flush is the decision, if the claim is still good.
<1>9. ASSUME NEW c \in Cpus, Flush(c) PROVE Lifecycle!Next \/ UNCHANGED LifecycleVars
  <2>1. UNCHANGED <<mask, curr>>
    BY <1>9 DEF Flush
  <2>2. CASE ~buf[c].live
    BY <1>5, <1>9, <2>1, <2>2 DEF Flush, Flushed
  <2>3. CASE buf[c].live
    <3>1. buf[c].tid \in Tasks /\ loc[buf[c].tid] = "opsq"
      BY <1>0, <2>3 DEF ClaimsCurrent
    <3>2. buf[c].dsq \in Lifecycle!Waiting(mask[buf[c].tid]) \ {"opsq"}
      <4>1. buf[c].dsq \in Cpus \cup {"shared"}
        BY <1>0 DEF TypeOK, Buffer
      <4>2. buf[c].dsq # "opsq"
        BY <4>1, CpusAssumption DEF Places
      <4>3. QED
        BY <1>0, <2>3, <4>2 DEF BufferAffinity, Lifecycle!Waiting
    <3>3. loc' = [loc EXCEPT ![buf[c].tid] = buf[c].dsq]
      BY <1>9, <2>3 DEF Flush, Flushed
    <3>4. Lifecycle!Decide(buf[c].tid)
      BY <2>1, <3>1, <3>2, <3>3 DEF Lifecycle!Decide, Lifecycle!Put, RunsTask
    <3>5. QED
      BY <3>1, <3>4 DEF Lifecycle!Next
  <2>4. QED
    BY <2>2, <2>3
<1>10. ASSUME NEW c \in Cpus, NEW t \in Tasks, ConsumeOwn(c, t) \/ ConsumeShared(c, t)
       PROVE  Lifecycle!Next
  <2>1. MoveToLocal(c, t) /\ loc[t] \in {"shared", c} /\ c \in mask[t]
    BY <1>10 DEF ConsumeOwn, ConsumeShared, Consumable
  <2>2. Lifecycle!Take(c, t)
    BY <2>1 DEF MoveToLocal, Lifecycle!Take, Lifecycle!Put, RunsTask
  <2>3. QED
    BY <2>2 DEF Lifecycle!Next
\* What the pass moved to the local DSQ was taken, runs nowhere and may use the CPU;
\* the task before is enqueued.
<1>11. ASSUME NEW c \in Cpus, SwitchTo(c) PROVE Lifecycle!Next
  <2>1. curr' = [curr EXCEPT ![c] = next[c]] /\ UNCHANGED mask
    BY <1>11 DEF SwitchTo
  <2>2. IF RunsTask(c) = IDLE THEN UNCHANGED loc
        ELSE \E p \in Lifecycle!Waiting(mask[RunsTask(c)]) :
               loc' = [loc EXCEPT ![RunsTask(c)] = p]
    <3>1. CASE curr[c] \in Tasks
      <4>1. rustland_enqueue(curr[c], c, mask[curr[c]], FALSE, {})
        BY <1>11, <3>1 DEF SwitchTo
      <4>2. loc[curr[c]] = "running" /\ cpu[curr[c]] = c
        BY <1>0, <3>1 DEF RunOnce
      <4>3. c \in mask[curr[c]] /\ mask[curr[c]] \in SUBSET Cpus /\ {} \in SUBSET Cpus
        BY <1>0, <3>1, <4>2 DEF TaskAffinity, TypeOK
      <4>4. \E p \in Lifecycle!Waiting(mask[curr[c]]) : loc' = [loc EXCEPT ![curr[c]] = p]
        BY <1>0, <3>1, <4>1, <4>3, EnqueueWaits, Zenon
      <4>5. RunsTask(c) = curr[c] /\ curr[c] # IDLE
        BY <1>a, <3>1 DEF RunsTask
      <4>6. QED
        BY <4>4, <4>5
    <3>2. CASE curr[c] \notin Tasks
      BY <1>11, <3>2 DEF SwitchTo, RunsTask
    <3>3. QED
      BY <3>1, <3>2
  <2>3. \A d \in Cpus : RunsTask(d)' = IF d = c THEN RunsTask(c)' ELSE RunsTask(d)
    BY <1>0, <2>1 DEF RunsTask, TypeOK
  <2>4. RunsTask(c)' = IF next[c] \in Tasks THEN next[c] ELSE IDLE
    BY <1>0, <2>1 DEF RunsTask, TypeOK
  <2>5. ASSUME next[c] \in Tasks
        PROVE  /\ loc[next[c]] = "running" /\ c \in mask[next[c]]
               /\ \A d \in Cpus : RunsTask(d) # next[c]
    <3>1. loc[next[c]] = "running" /\ cpu[next[c]] = c
      BY <1>0, <2>5 DEF RunOnce
    <3>2. c \in mask[next[c]]
      BY <1>0, <2>5, <3>1 DEF TaskAffinity
    <3>3. \A d \in Cpus : curr[d] # next[c]
      BY <1>0, <1>a, <2>5, <3>1 DEF RunOnce
    <3>4. QED
      BY <1>a, <2>5, <3>1, <3>2, <3>3 DEF RunsTask
  <2>6. Lifecycle!Switch(c, RunsTask(c)')
    BY <1>a, <2>1, <2>2, <2>3, <2>4, <2>5 DEF Lifecycle!Switch, Lifecycle!Runs, Lifecycle!Put
  <2>7. RunsTask(c)' \in Tasks \cup {IDLE}
    BY <2>4
  <2>8. QED
    BY <2>6, <2>7 DEF Lifecycle!Next
<1>12. QED
  BY <1>1, <1>2, <1>3, <1>4, <1>6, <1>7, <1>8, <1>9, <1>10, <1>11
     DEF Next, TaskStep, CpuStep, DispatchStep, Block, Exit

\* The dispatch path implements TaskLifecycle: whatever happens in rings, queues and
\* dispatch buffers, a task is placed once for each stay in the ops queue and within
\* its present mask, is switched to only when it has been taken from there, runs
\* nowhere else and may use the CPU, and only a running task sleeps or dies.
THEOREM LifecycleCorrect == Spec => LifecycleSpec
<1>1. Init => Lifecycle!Init
  BY TasksAssumption DEF Init, Lifecycle!Init, RunsTask, US, IDLE
<1>2. Spec => []AffinityInv
  BY AffinityInvariant
<1>3. AffinityInv /\ [Next]_vars => [Lifecycle!Next]_(Lifecycle!vars)
  BY LifecycleStep DEF LifecycleVars, Lifecycle!vars
<1>4. QED
  BY <1>1, <1>2, <1>3, PTL DEF Spec, LifecycleSpec, Lifecycle!Spec

-----------------------------------------------------------------------------
(* The user-space scheduler does not sleep on work.  NoSleepingScheduler    *)
(* says nothing of how a CPU that is not idle comes by SCHED_DSQ again, so  *)
(* it is not inductive.  The strengthening names the CPUs that are bound to *)
(* pass the check of usersched_has_pending_tasks (Calls), and follows the   *)
(* window between the decision not to keep the scheduler on its CPU and the *)
(* switch away from it: work that arrives inside it leaves a kick behind.   *)

WorkVisible == queued # <<>> \/ nrScheduled > 0

\* CPU c will flush a pass before it goes idle.
Calls(c) == \/ pc[c] \in {"drain", "flush"}
            \/ pc[c] = "run" /\ curr[c] # IDLE
            \/ pc[c] = "put" /\ next[c] \in Tasks

UsPlaced ==
    /\ usCpu \in UsMask
    /\ \A c \in Cpus : (curr[c] = US => c = usCpu) /\ (next[c] = US => c \in UsMask)

YieldSeen ==
    \A c \in Cpus : pc[c] = "put" /\ curr[c] = US /\ next[c] = IDLE /\ WorkVisible
                     => c \in kick

SchedulerCalled ==
    UsInDsq /\ WorkVisible => \E c \in UsMask : c \in kick \/ Calls(c)

SleepInv == RunInv /\ UsPlaced /\ YieldSeen /\ SchedulerCalled

\* An enqueue takes back no kick, and a push to the ring kicks the CPU of the
\* user-space scheduler.
LEMMA EnqueueKicks ==
    ASSUME NEW t, NEW c, NEW m, NEW wake, NEW kicks,
           rustland_enqueue(t, c, m, wake, kicks)
    PROVE  kick \subseteq kick' /\ (queued' = queued \/ usCpu \in kick')
<1>1. ASSUME NEW d, NEW k, InsertDsq(t, d, k)
      PROVE  kick \subseteq kick' /\ queued' = queued
  BY <1>1 DEF InsertDsq
<1>2. ASSUME NEW k, queue_task_to_userspace(t, k)
      PROVE  kick \subseteq kick' /\ (queued' = queued \/ usCpu \in kick')
  BY <1>1, <1>2 DEF queue_task_to_userspace
<1>3. QED
  BY <1>1, <1>2 DEF rustland_enqueue

\* A step that adds kicks, answers new work with a kick of the scheduler's CPU,
\* and neither moves the scheduler nor takes a CPU out of its way to a flush.
LEMMA SleepQuiet ==
    ASSUME SleepInv, RunInv', UNCHANGED usCpu, kick \subseteq kick',
           WorkVisible' => WorkVisible \/ usCpu \in kick',
           \A c \in Cpus : /\ curr'[c] = US <=> curr[c] = US
                           /\ next'[c] = US <=> next[c] = US
                           /\ Calls(c) => Calls(c)'
                           /\ (pc'[c] = "put" /\ curr'[c] = US /\ next'[c] = IDLE)
                                => (pc[c] = "put" /\ curr[c] = US /\ next[c] = IDLE)
                                   \/ ~WorkVisible'
    PROVE  SleepInv'
<1>1. UsPlaced'
  BY DEF SleepInv, UsPlaced
<1>2. YieldSeen'
  BY DEF SleepInv, UsPlaced, YieldSeen
<1>3. SchedulerCalled'
  <2>1. UsInDsq' => UsInDsq
    BY DEF UsInDsq
  <2>2. QED
    BY <2>1, UsMaskAssumption DEF SleepInv, UsPlaced, SchedulerCalled
<1>4. QED
  BY <1>1, <1>2, <1>3 DEF SleepInv

\* Every step keeps SleepInv.
LEMMA SleepStep == SleepInv /\ [Next]_vars => SleepInv'
<1> SUFFICES ASSUME SleepInv, [Next]_vars PROVE SleepInv'
  OBVIOUS
<1> USE DEF taskVars, cpuVars, wakeVars, usVars
<1>0. RunInv /\ RunInv' /\ TypeOK /\ RunOnce /\ UsPlaced /\ YieldSeen /\ SchedulerCalled
  BY RunStep DEF SleepInv, RunInv
<1>a. US # IDLE /\ US \notin Tasks /\ IDLE \notin Tasks
  BY TasksAssumption DEF US, IDLE
\* An enqueue, with the CPUs left alone.
<1>b. ASSUME kick \subseteq kick', queued' = queued \/ usCpu \in kick',
             UNCHANGED <<curr, pc, next, nrScheduled, usCpu>>
      PROVE  SleepInv'
  BY <1>0, <1>b, SleepQuiet DEF WorkVisible, Calls
<1>1. ASSUME NEW t \in Tasks, Wakeup(t) PROVE SleepInv'
  <2>1. \/ \E i : InsertDsq(t, i, {i})
        \/ \E i : rustland_enqueue(t, i, mask[t], FALSE, {i})
    BY <1>1 DEF Wakeup
  <2>2. kick \subseteq kick' /\ (queued' = queued \/ usCpu \in kick')
    BY <2>1, EnqueueKicks DEF InsertDsq
  <2>3. QED
    BY <1>1, <1>b, <2>2 DEF Wakeup
<1>2. ASSUME NEW t \in Tasks, QueuedWakeup(t) PROVE SleepInv'
  <2>1. kick \subseteq kick' /\ (queued' = queued \/ usCpu \in kick')
    BY <1>2, EnqueueKicks DEF QueuedWakeup
  <2>2. QED
    BY <1>2, <1>b, <2>1 DEF QueuedWakeup
<1>3. ASSUME NEW t \in Tasks, NEW m \in (SUBSET Cpus) \ {{}}, SetAffinity(t, m)
      PROVE  SleepInv'
  <2>1. CASE UNCHANGED <<loc, cpu, trig, curr, pc, buf, kick, queued, needed>>
    BY <1>3, <1>b, <2>1 DEF SetAffinity
  <2>2. CASE ~UNCHANGED <<loc, cpu, trig, curr, pc, buf, kick, queued, needed>>
    <3>1. kick \subseteq kick' /\ (queued' = queued \/ usCpu \in kick')
      BY <1>3, <2>2, EnqueueKicks DEF SetAffinity
    <3>2. /\ curr' = [c \in Cpus |-> IF curr[c] = t THEN IDLE ELSE curr[c]]
          /\ pc' = [c \in Cpus |-> IF curr[c] = t THEN "drain" ELSE pc[c]]
          /\ UNCHANGED <<next, nrScheduled, usCpu>>
      BY <1>3, <2>2 DEF SetAffinity
    <3>3. \A c \in Cpus : /\ curr'[c] = US <=> curr[c] = US
                          /\ Calls(c) => Calls(c)'
                          /\ pc'[c] = "put" => pc[c] = "put"
      BY <1>a, <3>2 DEF Calls
    <3>4. QED
      BY <1>0, <3>1, <3>2, <3>3, SleepQuiet DEF WorkVisible
  <2>3. QED
    BY <2>1, <2>2
<1>4. ASSUME NEW t \in Tasks, NEW c \in Cpus, NEW place, Leave(t, c, place) PROVE SleepInv'
  <2>1. /\ pc[c] = "run" /\ curr[c] = t /\ curr' = [curr EXCEPT ![c] = IDLE]
        /\ pc' = [pc EXCEPT ![c] = "drain"]
        /\ UNCHANGED <<next, kick, queued, nrScheduled, usCpu>>
    BY <1>4 DEF Leave, EnterDispatch
  <2>2. \A d \in Cpus : /\ curr'[d] = US <=> curr[d] = US
                        /\ Calls(d) => Calls(d)'
                        /\ pc'[d] = "put" => pc[d] = "put"
    BY <1>0, <1>a, <2>1 DEF Calls, TypeOK
  <2>3. QED
    BY <1>0, <2>1, <2>2, SleepQuiet DEF WorkVisible
<1>5. ASSUME NEW c \in Cpus, pc' = [pc EXCEPT ![c] = "drain"],
             UNCHANGED <<curr, next, kick, queued, nrScheduled, usCpu>>
      PROVE  SleepInv'
  <2>1. \A d \in Cpus : (Calls(d) => Calls(d)') /\ (pc'[d] = "put" => pc[d] = "put")
    BY <1>0, <1>5 DEF Calls, TypeOK
  <2>2. QED
    BY <1>0, <1>5, <2>1, SleepQuiet DEF WorkVisible
<1>6. ASSUME NEW c \in Cpus,
             SliceEnd(c) \/ SpuriousResched(c) \/ \E t \in Tasks : rustland_tick(t, c)
      PROVE  SleepInv'
  BY <1>5, <1>6 DEF SliceEnd, SpuriousResched, rustland_tick, EnterDispatch
\* The kicked CPU runs something, or starts a pass.
<1>7. ASSUME NEW c \in Cpus, DeliverKick(c) PROVE SleepInv'
  <2>1. /\ c \in kick /\ pc[c] = "run" /\ kick' = kick \ {c}
        /\ pc' = [pc EXCEPT ![c] = IF curr[c] = IDLE THEN "drain" ELSE "run"]
        /\ UNCHANGED <<curr, next, queued, nrScheduled, usCpu>>
    BY <1>7 DEF DeliverKick
  <2>2. Calls(c)' /\ \A d \in Cpus : Calls(d) => Calls(d)'
    BY <1>0, <2>1 DEF Calls, TypeOK
  <2>3. UsPlaced' /\ YieldSeen'
    BY <1>0, <2>1 DEF UsPlaced, YieldSeen, WorkVisible, TypeOK
  <2>4. SchedulerCalled'
    BY <1>0, <2>1, <2>2, UsMaskAssumption DEF SchedulerCalled, WorkVisible, UsInDsq
  <2>5. QED
    BY <1>0, <2>3, <2>4 DEF SleepInv
<1>8. CASE usersched_timer_fn
  BY <1>b, <1>8 DEF usersched_timer_fn
<1>9. ASSUME NEW c \in Cpus, Drain(c) PROVE SleepInv'
  <2>1. /\ pc[c] = "drain" /\ pc' = [pc EXCEPT ![c] = "flush"]
        /\ UNCHANGED <<curr, next, kick, queued, nrScheduled, usCpu>>
    BY <1>9 DEF Drain
  <2>2. \A d \in Cpus : (Calls(d) => Calls(d)') /\ (pc'[d] = "put" => pc[d] = "put")
    BY <1>0, <2>1 DEF Calls, TypeOK
  <2>3. QED
    BY <1>0, <2>1, <2>2, SleepQuiet DEF WorkVisible
\* The pass that finds work, and the scheduler in SCHED_DSQ, takes it.
<1>10. ASSUME NEW c \in Cpus, Flush(c) PROVE SleepInv'
  <2>1. /\ pc[c] = "flush" /\ kick \subseteq kick'
        /\ UNCHANGED <<curr, queued, nrScheduled, usCpu>>
    BY <1>10 DEF Flush, Flushed
  <2>2. CASE /\ UsInDsq /\ c \in UsMask /\ next' = [next EXCEPT ![c] = US]
             /\ pc' = [pc EXCEPT ![c] = "put"]
    <3>1. UsPlaced' /\ YieldSeen'
      BY <1>0, <1>a, <2>1, <2>2 DEF UsPlaced, YieldSeen, UsInDsq, WorkVisible, TypeOK
    <3>2. ~UsInDsq'
      BY <1>0, <2>2 DEF UsInDsq, TypeOK
    <3>3. QED
      BY <1>0, <3>1, <3>2 DEF SleepInv, SchedulerCalled
  <2>3. CASE /\ ~(usersched_has_pending_tasks /\ UsInDsq /\ c \in UsMask)
             /\ pc' = [pc EXCEPT ![c] = "consume"] /\ UNCHANGED next
    <3>1. UsPlaced' /\ YieldSeen'
      BY <1>0, <2>1, <2>3 DEF UsPlaced, YieldSeen, WorkVisible, TypeOK
    <3>2. \A d \in Cpus \ {c} : Calls(d) => Calls(d)'
      BY <1>0, <2>1, <2>3 DEF Calls, TypeOK
    <3>3. WorkVisible => usersched_has_pending_tasks
      BY DEF WorkVisible, usersched_has_pending_tasks
    <3>4. SchedulerCalled'
      BY <1>0, <2>1, <2>3, <3>2, <3>3, UsMaskAssumption
         DEF SchedulerCalled, UsInDsq, WorkVisible
    <3>5. QED
      BY <1>0, <3>1, <3>4 DEF SleepInv
  <2>4. QED
    BY <1>10, <2>2, <2>3 DEF Flush
<1>11. ASSUME NEW c \in Cpus, NEW t \in Tasks, ConsumeOwn(c, t) \/ ConsumeShared(c, t)
       PROVE  SleepInv'
  <2>1. /\ pc[c] = "consume" /\ pc' = [pc EXCEPT ![c] = "put"]
        /\ next' = [next EXCEPT ![c] = t]
        /\ UNCHANGED <<curr, kick, queued, nrScheduled, usCpu>>
    BY <1>11 DEF ConsumeOwn, ConsumeShared, MoveToLocal
  <2>2. next[c] = IDLE
    BY <1>0, <2>1 DEF RunInv
  <2>3. \A d \in Cpus : /\ next'[d] = US <=> next[d] = US
                        /\ Calls(d) => Calls(d)'
                        /\ pc'[d] = "put" /\ next'[d] = IDLE => pc[d] = "put" /\ next[d] = IDLE
    BY <1>0, <1>a, <2>1, <2>2 DEF Calls, TypeOK
  <2>4. QED
    BY <1>0, <2>1, <2>3, SleepQuiet DEF WorkVisible
<1>12. ASSUME NEW c \in Cpus, ConsumeNothing(c) PROVE SleepInv'
  <2>1. /\ pc[c] = "consume" /\ pc' = [pc EXCEPT ![c] = "prev"]
        /\ UNCHANGED <<curr, next, kick, queued, nrScheduled, usCpu>>
    BY <1>12 DEF ConsumeNothing
  <2>2. \A d \in Cpus : (Calls(d) => Calls(d)') /\ (pc'[d] = "put" => pc[d] = "put")
    BY <1>0, <2>1 DEF Calls, TypeOK
  <2>3. QED
    BY <1>0, <2>1, <2>2, SleepQuiet DEF WorkVisible
\* The scheduler is let go only when it has no work.
<1>13. ASSUME NEW c \in Cpus, KeepPrev(c) PROVE SleepInv'
  <2>1. /\ pc[c] = "prev" /\ \E p \in Phases : pc' = [pc EXCEPT ![c] = p]
        /\ UNCHANGED <<curr, next, kick, queued, nrScheduled, usCpu>>
    BY <1>13 DEF KeepPrev, Phases
  <2>2. pc'[c] = "put" /\ curr[c] = US => ~WorkVisible
    BY <1>0, <1>13 DEF KeepPrev, Replenished, usersched_has_pending_tasks, WorkVisible, TypeOK
  <2>3. \A d \in Cpus : (Calls(d) => Calls(d)') /\ (d # c => pc'[d] = pc[d])
    BY <1>0, <2>1 DEF Calls, TypeOK
  <2>4. QED
    BY <1>0, <2>1, <2>2, <2>3, SleepQuiet DEF WorkVisible
<1>14. ASSUME NEW c \in Cpus, SwitchTo(c) PROVE SleepInv'
  <2>1. /\ pc[c] = "put" /\ pc' = [pc EXCEPT ![c] = "run"]
        /\ curr' = [curr EXCEPT ![c] = next[c]] /\ next' = [next EXCEPT ![c] = IDLE]
        /\ usCpu' = IF next[c] = US THEN c ELSE usCpu
        /\ UNCHANGED nrScheduled
    BY <1>14 DEF SwitchTo
  <2>2. kick \subseteq kick' /\ (queued' = queued \/ (curr[c] \in Tasks /\ usCpu \in kick'))
    BY <1>14, EnqueueKicks DEF SwitchTo
  <2>3. UsPlaced'
    BY <1>0, <1>a, <2>1 DEF UsPlaced, RunOnce, TypeOK
  <2>4. YieldSeen'
    <3>1. SUFFICES ASSUME NEW d \in Cpus, pc'[d] = "put", curr'[d] = US, next'[d] = IDLE,
                          WorkVisible'
                   PROVE  d \in kick'
      BY DEF YieldSeen
    <3>2. d # c /\ pc[d] = "put" /\ curr[d] = US /\ next[d] = IDLE
      BY <1>0, <2>1, <3>1 DEF TypeOK
    <3>3. CASE queued' = queued
      BY <1>0, <2>1, <2>2, <3>1, <3>2, <3>3 DEF YieldSeen, WorkVisible
    <3>4. CASE usCpu \in kick'
      BY <1>0, <3>2, <3>4 DEF UsPlaced
    <3>5. QED
      BY <2>2, <3>3, <3>4
  <2>5. SchedulerCalled'
    <3>1. SUFFICES ASSUME UsInDsq', WorkVisible'
                   PROVE  \E d \in UsMask : d \in kick' \/ Calls(d)'
      BY DEF SchedulerCalled
    <3>2. next[c] # US
      BY <1>0, <2>1, <3>1 DEF UsInDsq, TypeOK
    <3>3. \A d \in Cpus : Calls(d) => Calls(d)'
      BY <1>0, <1>a, <2>1 DEF Calls, TypeOK
    <3>4. CASE usCpu \in kick'
      BY <1>0, <3>4 DEF UsPlaced
    <3>5. CASE queued' = queued /\ curr[c] # US
      <4>1. UsInDsq /\ WorkVisible
        BY <1>0, <1>a, <2>1, <3>1, <3>2, <3>5 DEF UsInDsq, WorkVisible, TypeOK
      <4>2. QED
        BY <1>0, <2>2, <3>3, <4>1, UsMaskAssumption DEF SchedulerCalled
    <3>6. CASE queued' = queued /\ curr[c] = US
      <4>1. c \in UsMask
        BY <1>0, <3>6 DEF UsPlaced
      <4>2. CASE next[c] \in Tasks
        <5>1. Calls(c)'
          BY <1>0, <1>a, <2>1, <4>2 DEF Calls, TypeOK
        <5>2. QED
          BY <4>1, <5>1
      <4>3. CASE next[c] = IDLE
        BY <1>0, <2>1, <2>2, <3>1, <3>6, <4>1, <4>3 DEF YieldSeen, WorkVisible
      <4>4. QED
        BY <1>0, <3>2, <4>2, <4>3 DEF TypeOK
    <3>7. QED
      BY <2>2, <3>4, <3>5, <3>6
  <2>6. QED
    BY <1>0, <2>3, <2>4, <2>5 DEF SleepInv
\* While the scheduler runs it is not in SCHED_DSQ.
<1>15. CASE UsStep
  <2>1. PICK u \in Cpus : curr[u] = US /\ pc[u] = "run"
    BY <1>15 DEF UsStep, dequeue_task, publish_scheduled, DropDead, DeferDispatch,
                 Dispatch, EndPass, notify_complete, UsAt, TakePending
  <2>2. /\ UNCHANGED <<curr, next, kick, usCpu>>
        /\ \A c \in Cpus : pc'[c] = "put" => pc[c] = "put" /\ curr[c] # US
    <3>1. UNCHANGED <<curr, next, kick, usCpu>>
      BY <1>15 DEF UsStep, dequeue_task, publish_scheduled, DropDead, DeferDispatch,
                   Dispatch, EndPass, notify_complete
    <3>2. \A c \in Cpus : pc'[c] = "put" => pc[c] = "put"
      BY <1>15 DEF UsStep, dequeue_task, publish_scheduled, DropDead, DeferDispatch,
                   Dispatch, EndPass, notify_complete
    <3>3. \A c \in Cpus : curr[c] = US => c = u
      BY <1>0, <2>1 DEF UsPlaced
    <3>4. QED
      BY <2>1, <3>1, <3>2, <3>3
  <2>3. UsPlaced' /\ YieldSeen' /\ ~UsInDsq'
    BY <1>0, <2>1, <2>2 DEF UsPlaced, YieldSeen, UsInDsq
  <2>4. QED
    BY <1>0, <2>3 DEF SleepInv, SchedulerCalled
<1>16. CASE UNCHANGED vars
  BY <1>b, <1>16 DEF vars
<1>17. QED
  BY <1>1, <1>2, <1>3, <1>4, <1>6, <1>7, <1>8, <1>9, <1>10, <1>11, <1>12, <1>13, <1>14,
     <1>15, <1>16 DEF Next, TaskStep, CpuStep, DispatchStep, Block, Exit

\* Whatever the interleaving of enqueues, kicks and passes with the scheduler's own
\* yield, it is never left in SCHED_DSQ with queued or pending tasks that the
\* kernel side can see, while every CPU it may use is idle and unkicked.
THEOREM SleepCorrect == Spec => []NoSleepingScheduler
<1>1. Init => SleepInv
  <2>1. Init => RunInv
    BY RunInit
  <2>2. Init => UsPlaced /\ YieldSeen /\ SchedulerCalled
    BY UsMaskAssumption, TasksAssumption
       DEF Init, UsPlaced, YieldSeen, SchedulerCalled, WorkVisible, US, IDLE
  <2>3. QED
    BY <2>1, <2>2 DEF SleepInv
<1>2. SleepInv => NoSleepingScheduler
  BY DEF SleepInv, SchedulerCalled, NoSleepingScheduler, WorkVisible, Calls, Idle
<1>3. QED
  BY <1>1, <1>2, SleepStep, PTL DEF Spec
=============================================================================
