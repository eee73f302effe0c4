-------------------------------- MODULE Nsdi --------------------------------
(***************************************************************************)
(* The scheduler-nsdi build: every workload (application) owns CPUs and    *)
(* its threads run on no others.                                           *)
(*                                                                         *)
(* app_nsdi::run launches the workloads and then loops: it adopts their    *)
(* processes, drains the ring buffer, measures how long each application's *)
(* messages have waited, lets the delay-range controller move at most one  *)
(* CPU per application, and sends every message whose application owns a   *)
(* CPU its mask allows.                                                    *)
(*                                                                         *)
(* A process has one thread, and Tids are the process ids.  Delays count   *)
(* units of time.  The domain, class and signature of a decision are left  *)
(* out.                                                                    *)
(***************************************************************************)
EXTENDS CpuSelect, SequencesExt

CONSTANTS
    Apps,           \* the workloads, 0 .. n - 1
    RootOf,         \* the process each workload is launched as
    Mask,           \* Cpus_allowed_list of each process
    EligibleCpus,   \* mapping.eligible_cpus
    Policies,       \* inputs: opts.nsdi_policy
    DelayLow, DelayHigh, ControlInterval,
    Senders,        \* inputs: processes and what their messages are, <<pid, kind>>
    Mortal,         \* inputs: processes that may end
    HotCpus,        \* inputs: CPUs whose utilisation may be high
    BusyCpus,       \* inputs: CPUs that may be busy with other threads
    MaxDelay,       \* bound: no message waits longer
    MaxPending      \* bound: messages waiting at once

NoApp == -1
InitPid == 0

QueuedTask == [pid : Tids, kind : {"usersched", "helper", "work"}, cpu : Cpus,
               delay : 0..MaxDelay]
Phases == {"launch", "drain", "control", "grant", "dispatch", "complete",
           "ended", "failed"}

ASSUME NsdiAssumption ==
    /\ IsFiniteSet(Apps) /\ Apps = 0..(Cardinality(Apps) - 1)
    /\ EligibleCpus \subseteq Cpus
    /\ RootOf \in [Apps -> Tids] /\ \A a, b \in Apps : RootOf[a] = RootOf[b] => a = b
    /\ Mask \in [Tids -> SUBSET Cpus]
    /\ Policies \subseteq {"Static", "DelayRange"}
    /\ DelayLow \in Nat /\ DelayHigh \in Nat /\ DelayLow <= DelayHigh
    /\ ControlInterval \in Nat \ {0}
    /\ Senders \subseteq Tids \X {"usersched", "helper", "work"}
    /\ Mortal \subseteq Tids
    /\ HotCpus \subseteq EligibleCpus /\ BusyCpus \subseteq EligibleCpus
    /\ MaxDelay \in Nat /\ MaxPending \in Nat

VARIABLES
    phase,      \* where run() is
    alive,      \* processes that exist
    parent,     \* PPid of each
    known,      \* the adopters' known_pids
    pending,    \* the messages waiting, oldest first
    table,      \* last_selected_cpu of each thread; NoCpu: not in the table
    policy,     \* Static or DelayRange
    owned,      \* owned_cpus of each application,
    count,      \*   its pending_tasks,
    ewma,       \*   its pending_delay_ewma_us
    since,      \* time since last_control_ns, at most ControlInterval
    appOf,      \* pid_to_app of this pass
    recipients, \* applications the controller has still to look at
    changed,    \* changed_apps
    refused     \* the user ring buffer was full in this pass

processes == <<alive, parent, known>>
metrics == <<policy, count, ewma>>
controller == <<since, recipients, changed>>
snapshot == <<appOf, view>>
vars == <<phase, processes, pending, table, owned, metrics, controller, snapshot, jobs,
          refused>>

\* Type invariant of the loop, its applications and its controller.
TypeOK ==
    /\ phase \in Phases
    /\ alive \subseteq Tids
    /\ parent \in [Tids -> Tids \cup {InitPid}]
    /\ known \in [Apps -> SUBSET Tids]
    /\ pending \in Seq(QueuedTask)
    /\ table \in [Tids -> Cpus \cup {NoCpu}]
    /\ policy \in {"Static", "DelayRange"}
    /\ owned \in [Apps -> SUBSET EligibleCpus]
    /\ count \in [Apps -> Nat] /\ ewma \in [Apps -> Nat]
    /\ since \in 0..ControlInterval
    /\ appOf \in [Tids -> Apps \cup {NoApp}]
    /\ view \in [Cpus -> CpuStateValue]
    /\ jobs \in [Cpus -> SUBSET Tids]
    /\ recipients \in Seq(Apps)
    /\ changed \subseteq Apps
    /\ refused \in BOOLEAN

-----------------------------------------------------------------------------
(* Start.                                                                  *)

\* The CPUs in order are cut into one run per application; the first ones get
\* the remainder, and with more applications than CPUs the last ones get none.
initialize_static_cpu_partition ==
    LET base == Cardinality(EligibleCpus) \div Cardinality(Apps)
        remainder == Cardinality(EligibleCpus) % Cardinality(Apps)
        Cursor(a) == a * base + (IF a < remainder THEN a ELSE remainder)
        Place(c) == Cardinality({d \in EligibleCpus : d < c})
    IN  [a \in Apps |-> {c \in EligibleCpus : Cursor(a) <= Place(c) /\ Place(c) < Cursor(a + 1)}]

NoView == [c \in Cpus |-> [idle |-> FALSE, hot |-> FALSE, tid |-> NoTid]]

Init ==
    /\ phase = "launch"
    /\ alive = {} /\ parent = [p \in Tids |-> InitPid]
    /\ known = [a \in Apps |-> {}]
    /\ pending = <<>>
    /\ table = [p \in Tids |-> NoCpu]
    /\ policy \in Policies
    /\ owned = IF policy = "Static" /\ Apps # {} THEN initialize_static_cpu_partition
                                                 ELSE [a \in Apps |-> {}]
    /\ count = [a \in Apps |-> 0] /\ ewma = [a \in Apps |-> 0]
    /\ since = ControlInterval
    /\ appOf = [p \in Tids |-> NoApp]
    /\ view = NoView
    /\ jobs = [c \in Cpus |-> {}]
    /\ recipients = <<>> /\ changed = {} /\ refused = FALSE

Roots == {RootOf[a] : a \in Apps}

\* The workloads are launched in order; a launch that fails ends run() at once
\* and leaves the workloads before it running.
launch_workload ==
    /\ phase = "launch"
    /\ \E a \in Apps :
         /\ RootOf[a] \notin alive
         /\ \A b \in Apps : b < a => RootOf[b] \in alive
         /\ \/ /\ alive' = alive \cup {RootOf[a]}
               /\ phase' = IF alive' = Roots THEN "drain" ELSE "launch"
            \/ phase' = "failed" /\ UNCHANGED alive
    /\ UNCHANGED <<parent, known, pending, table, owned, metrics, controller, snapshot,
                   jobs, refused>>

-----------------------------------------------------------------------------
(* The workloads' processes.                                               *)

Fork(p, q) ==
    /\ phase = "drain"
    /\ p \in alive /\ q \notin alive \cup Roots
    /\ \A a \in Apps : q \notin known[a]        \* ids are not reused
    /\ \A i \in 1..Len(pending) : pending[i].pid # q
    /\ alive' = alive \cup {q}
    /\ parent' = [parent EXCEPT ![q] = p]
    /\ UNCHANGED <<phase, known, pending, table, owned, metrics, controller, snapshot, jobs,
                   refused>>

\* The children of a process that ends get the init process as parent.  An end
\* during a pass shows in that pass only by a mask that cannot be read.
Exit(p) ==
    /\ phase = "drain"
    /\ p \in alive \cap Mortal
    /\ alive' = alive \ {p}
    /\ parent' = [q \in Tids |-> IF parent[q] = p THEN InitPid ELSE parent[q]]
    /\ UNCHANGED <<phase, known, pending, table, owned, metrics, controller, snapshot, jobs,
                   refused>>

\* The processes from p upwards, as /proc shows them; 256 levels are never reached.
Lineage(p) ==
    LET up[k \in 0..Cardinality(Tids)] ==
            IF k = 0 THEN p
            ELSE IF up[k - 1] \in alive THEN parent[up[k - 1]] ELSE InitPid
    IN  up

Descendants(root) ==
    {p \in alive \ {root} : root \in alive /\ \E k \in DOMAIN Lineage(p) : Lineage(p)[k] = root}

\* An adopter looks for processes its root has by now; what it knows it keeps.
sync_now(a) ==
    /\ phase = "drain"
    /\ known' = [known EXCEPT ![a] = @ \cup Descendants(RootOf[a])]
    /\ known' # known
    /\ UNCHANGED <<phase, alive, parent, pending, table, owned, metrics, controller,
                   snapshot, jobs, refused>>

-----------------------------------------------------------------------------
(* The first half of a pass: messages and metrics.                         *)

Elapse ==
    /\ phase = "drain"
    /\ pending' = [i \in DOMAIN pending |->
                     [pending[i] EXCEPT !.delay = IF @ < MaxDelay THEN @ + 1 ELSE @]]
    /\ since' = IF since < ControlInterval THEN since + 1 ELSE since
    /\ <<pending, since>>' # <<pending, since>>
    /\ UNCHANGED <<phase, processes, table, owned, metrics, recipients, changed, snapshot,
                   jobs, refused>>

dequeue_task(p, kind, c) ==
    /\ phase = "drain"
    /\ p \in alive
    /\ Len(pending) < MaxPending
    /\ \A i \in 1..Len(pending) : pending[i].pid # p
    /\ c \in IF table[p] # NoCpu THEN {table[p]} ELSE Mask[p]
    /\ pending' = Append(pending, [pid |-> p, kind |-> kind, cpu |-> c, delay |-> 0])
    /\ UNCHANGED <<phase, processes, table, owned, metrics, controller, snapshot, jobs,
                   refused>>

\* A thread that is gone leaves the table; its message stays.
prune_dead_threads ==
    table' = [p \in Tids |-> IF p \in alive THEN table[p] ELSE NoCpu]

\* The application of the first process upwards that an adopter knows or that
\* is a root.  A process no adopter saw before its parent ended has none.
resolve_app_id(p) ==
    LET up == Lineage(p)
        AppAt(q) == {a \in Apps : q = RootOf[a] \/ q \in known[a]}
        found == {k \in 0..Cardinality(Tids) : AppAt(up[k]) # {}}
    IN  IF found = {} THEN NoApp
        ELSE Max(AppAt(up[Min(found)]))

\* What the threads of the table occupy, and the waiting ones it does not have.
build_planned_cpu_states(selected) ==
    [c \in Cpus |->
       {p \in Tids : selected[p] = c}
         \cup {p \in Tids : /\ selected[p] = NoCpu
                             /\ \E i \in 1..Len(pending) :
                                  /\ pending[i].pid = p /\ pending[i].kind = "work"
                                  /\ pending[i].cpu = c}]

\* The mean delay of an application's messages, with weight 1/4 against the
\* average so far; an application without messages has none.
NextDelay(old, sum, n) ==
    IF n = 0 THEN 0
    ELSE IF old = 0 THEN sum \div n ELSE (3 * old + sum \div n) \div 4

\* Applications are found for the processes anew in every pass.  The delays of an
\* application's messages sum to the units of time they have waited.
refresh_app_pending_metrics ==
    /\ appOf' = [p \in Tids |-> resolve_app_id(p)]
    /\ LET Of(a) == {i \in 1..Len(pending) : pending[i].kind = "work"
                                               /\ appOf'[pending[i].pid] = a}
           Waited(a) == {w \in (1..Len(pending)) \X (1..MaxDelay) :
                           w[1] \in Of(a) /\ w[2] <= pending[w[1]].delay}
       IN  /\ count' = [a \in Apps |-> Cardinality(Of(a))]
           /\ ewma' = [a \in Apps |-> NextDelay(ewma[a], Cardinality(Waited(a)),
                                                Cardinality(Of(a)))]

\* CPU states, as far as choices depend on them: a CPU runs a thread sent to it,
\* and then may be hot, or is idle, or is busy with something else.
read_cpu_states ==
    LET Seen(c) == {[idle |-> i, hot |-> FALSE, tid |-> NoTid] :
                       i \in {b \in BOOLEAN : b \/ c \in BusyCpus}}
                     \cup {[idle |-> FALSE, hot |-> h, tid |-> p] :
                              h \in {b \in BOOLEAN : b => c \in HotCpus},
                              p \in {q \in Tids : table'[q] = c}}
    IN  view' \in {v \in [Cpus -> UNION {Seen(c) : c \in Cpus}] :
                     \A c \in Cpus : v[c] \in Seen(c)}

\* The ring buffer is empty: the pass takes its snapshot.
BeginPass ==
    /\ phase = "drain"
    /\ prune_dead_threads
    /\ read_cpu_states
    /\ refresh_app_pending_metrics
    /\ jobs' = build_planned_cpu_states(table')
    /\ phase' = "control"
    /\ UNCHANGED <<processes, pending, policy, owned, controller, refused>>

-----------------------------------------------------------------------------
(* The delay-range controller.                                             *)

\* Mutant: the free pool holds every CPU.
free_cpus_all == EligibleCpus

free_cpus == EligibleCpus \ UNION {owned[a] : a \in Apps}
zero_owned_pending == \E a \in Apps : count[a] > 0 /\ owned[a] = {}

\* Of the CPUs that are hardly used: an idle one first, then the fewest jobs.
choose_revocable_cpu(a) ==
    LET revocable == {c \in owned[a] : \/ effectively_idle_cpu(c)
                                       \/ planned_jobs_len(c) <= 1
                                       \/ view[c].tid = NoTid}
        Worse(c, d) == \/ ~effectively_idle_cpu(c) /\ effectively_idle_cpu(d)
                       \/ /\ effectively_idle_cpu(c) = effectively_idle_cpu(d)
                          /\ planned_jobs_len(c) > planned_jobs_len(d)
    IN  {c \in revocable : ~\E d \in revocable : Worse(c, d)}

\* An application may give up a CPU: its messages hardly wait, and it keeps one
\* while it has messages.
MayRelease(a) ==
    /\ ewma[a] < DelayLow
    /\ owned[a] # {}
    /\ ~(count[a] > 0 /\ Cardinality(owned[a]) <= 1)

\* Mutant: the controller only runs by its interval.
ControlDue_timer == policy = "DelayRange" /\ since = ControlInterval

ControlDue == policy = "DelayRange" /\ (since = ControlInterval \/ zero_owned_pending)

\* Applications that have none come first, then those that wait longest.
Precedes(a, b, own) ==
    LET none(x) == own[x] = {}
    IN  \/ none(a) /\ ~none(b)
        \/ none(a) = none(b) /\ (ewma[a] > ewma[b] \/ (ewma[a] = ewma[b] /\ a < b))

Sorted(apps, own) ==
    {r \in [1..Cardinality(apps) -> apps] :
       /\ ToSet(r) = apps
       /\ \A i, j \in DOMAIN r : i < j => Precedes(r[i], r[j], own)}

\* The first half of the controller: every application that may gives up a CPU.
\* Then the applications that need one are listed.
ReleaseCpus ==
    /\ phase = "control"
    /\ ControlDue
    /\ LET releasing == {a \in Apps : MayRelease(a) /\ choose_revocable_cpu(a) # {}}
       IN  /\ \E cpu \in [releasing -> EligibleCpus] :
                /\ \A a \in releasing : cpu[a] \in choose_revocable_cpu(a)
                /\ owned' = [a \in Apps |-> IF a \in releasing THEN owned[a] \ {cpu[a]}
                                                               ELSE owned[a]]
           /\ changed' = releasing
    /\ LET needy == {a \in Apps : count[a] > 0 /\ (owned'[a] = {} \/ ewma[a] > DelayHigh)}
       IN  recipients' \in Sorted(needy, owned')
    /\ phase' = "grant"
    /\ UNCHANGED <<processes, pending, table, metrics, since, snapshot, jobs, refused>>

SkipControl ==
    /\ phase = "control"
    /\ ~ControlDue
    /\ phase' = "dispatch"
    /\ UNCHANGED <<processes, pending, table, owned, metrics, controller, snapshot, jobs,
                   refused>>

\* Donors of application a, with the CPU each would give: the fewest jobs first.
Donors(a) ==
    LET offers == {o \in Apps \X Cpus :
                     /\ o[1] # a /\ o[1] \notin changed
                     /\ MayRelease(o[1])
                     /\ o[2] \in choose_revocable_cpu(o[1])}
    IN  {o \in offers : \A q \in offers : planned_jobs_len(o[2]) <= planned_jobs_len(q[2])}

\* The next application on the list gets a free CPU, or else a donor's.  The
\* code keeps the free CPUs of a round in a local set; here they are always
\* those without an owner.
GrantNext ==
    /\ phase = "grant"
    /\ recipients # <<>>
    /\ LET a == Head(recipients)
       IN  \/ /\ a \in changed \/ (free_cpus = {} /\ Donors(a) = {})
              /\ UNCHANGED <<owned, changed>>
           \/ /\ a \notin changed /\ free_cpus # {}
              /\ owned' = [owned EXCEPT ![a] = @ \cup {Min(free_cpus)}]
              /\ changed' = changed \cup {a}
           \/ /\ a \notin changed /\ free_cpus = {}
              /\ \E o \in Donors(a) :
                   /\ owned' = [b \in Apps |-> IF b = a THEN owned[b] \cup {o[2]}
                                               ELSE IF b = o[1] THEN owned[b] \ {o[2]}
                                               ELSE owned[b]]
                   /\ changed' = changed \cup {a, o[1]}
    /\ recipients' = Tail(recipients)
    /\ UNCHANGED <<phase, processes, pending, table, metrics, since, snapshot, jobs, refused>>

EndControl ==
    /\ phase = "grant"
    /\ recipients = <<>>
    /\ since' = IF changed # {} \/ since = ControlInterval THEN 0 ELSE since
    /\ changed' = {}
    /\ phase' = "dispatch"
    /\ UNCHANGED <<processes, pending, table, owned, metrics, recipients, snapshot, jobs,
                   refused>>

-----------------------------------------------------------------------------
(* The dispatch loop.                                                      *)

FirstOf(kind) ==
    LET mine == {i \in 1..Len(pending) : pending[i].kind = kind}
    IN  IF mine = {} THEN 0 ELSE Min(mine)

\* dispatch_task finds no room: the message goes to the front, the pass is over.
Refuse(i) ==
    /\ pending' = <<pending[i]>> \o RemoveAt(pending, i)
    /\ refused' = TRUE
    /\ phase' = "complete"
    /\ UNCHANGED <<table, jobs, view>>

\* Messages of the scheduler itself, then those of helper programs, are sent
\* without regard to ownership.
DispatchFirst(kind) ==
    /\ phase = "dispatch"
    /\ kind = "usersched" \/ (kind = "helper" /\ FirstOf("usersched") = 0)
    /\ LET i == FirstOf(kind)
       IN  /\ i # 0
           /\ \/ Refuse(i)
              \/ pending' = RemoveAt(pending, i) /\ UNCHANGED <<phase, table, jobs, view, refused>>
    /\ UNCHANGED <<processes, owned, metrics, controller, appOf>>

\* A mask is read from /proc or from a cache, which may outlive the thread; that
\* of the threads in lost, which have ended, can be read from neither.
allowed_cpus(lost) == [p \in Tids |-> IF p \in lost THEN {} ELSE Mask[p]]

LegalCpus(p, allowed) == IF appOf[p] = NoApp THEN {} ELSE allowed \cap owned[appOf[p]]

current_cpu_usable(p, c, legal) ==
    /\ c \in legal
    /\ ~view[c].hot
    /\ current_cpu_available_for_task(c, p, legal)
    /\ view[c].tid = p \/ (view[c].tid = NoTid /\ effectively_idle_cpu(c))

\* The current CPU if it may be kept, else an idle one, else the least occupied.
choose_placement_with_owned_cpus(m, legal) ==
    LET idle == {c \in legal : effectively_idle_cpu(c)}
        free == {c \in legal : ~TakenByOther(c, m.pid)}
    IN  CASE current_cpu_usable(m.pid, m.cpu, legal) -> {m.cpu}
          [] ~current_cpu_usable(m.pid, m.cpu, legal) /\ idle # {} -> Least(idle, planned_jobs_len)
          [] OTHER -> Least(IF free # {} THEN free ELSE legal, planned_jobs_len)

apply_planned_cpu_assignment(p, c) ==
    jobs' = [d \in Cpus |-> IF d = c THEN jobs[d] \cup {p} ELSE jobs[d] \ {p}]

\* Mutant: only the oldest message is looked at.
select_next_pending_oldest(lost) ==
    LET allowed == allowed_cpus(lost)
    IN  IF pending = <<>> THEN [to |-> "wait", index |-> 0]
        ELSE IF LegalCpus(pending[1].pid, allowed[pending[1].pid]) # {}
        THEN [to |-> "run", index |-> 1]
        ELSE IF allowed[pending[1].pid] = {} THEN [to |-> "drop", index |-> 1]
        ELSE [to |-> "wait", index |-> 0]

\* What the loop turns to once only messages of the applications are left: the
\* first it can send, else the first whose mask cannot be read, else none.
select_next_pending(lost) ==
    LET allowed == allowed_cpus(lost)
        runnable == {i \in 1..Len(pending) :
                       LegalCpus(pending[i].pid, allowed[pending[i].pid]) # {}}
        unread == {i \in 1..Len(pending) : allowed[pending[i].pid] = {}}
    IN  IF runnable # {} THEN [to |-> "run", index |-> Min(runnable)]
        ELSE IF unread # {} THEN [to |-> "drop", index |-> Min(unread)]
        ELSE [to |-> "wait", index |-> 0]

Selecting == phase = "dispatch" /\ FirstOf("usersched") = 0 /\ FirstOf("helper") = 0
Ended == {m.pid : m \in ToSet(pending)} \ alive

DispatchSelected ==
    /\ Selecting
    /\ \E lost \in SUBSET Ended :
         LET next == select_next_pending(lost)
             m == pending[next.index]
         IN  /\ next.to = "run"
             /\ \/ Refuse(next.index)
                \/ /\ \E c \in choose_placement_with_owned_cpus(m, LegalCpus(m.pid, Mask[m.pid])) :
                        /\ table' = [table EXCEPT ![m.pid] = c]
                        /\ apply_planned_cpu_assignment(m.pid, c)
                        /\ view' = [view EXCEPT ![c].idle = FALSE, ![c].tid = m.pid]
                   /\ pending' = RemoveAt(pending, next.index)
                   /\ UNCHANGED <<phase, refused>>
    /\ UNCHANGED <<processes, owned, metrics, controller, appOf>>

DropUnreadable ==
    /\ Selecting
    /\ \E lost \in SUBSET Ended :
         LET next == select_next_pending(lost)
         IN  next.to = "drop" /\ pending' = RemoveAt(pending, next.index)
    /\ UNCHANGED <<phase, processes, table, owned, metrics, controller, snapshot, jobs,
                   refused>>

\* What is left waits for the next pass.
LeaveWaiting ==
    /\ Selecting
    /\ \E lost \in SUBSET Ended : select_next_pending(lost).to = "wait"
    /\ phase' = "complete"
    /\ UNCHANGED <<processes, pending, table, owned, metrics, controller, snapshot, jobs,
                   refused>>

\* The pass is reported.  The loop ends when every workload has exited some time
\* ago and nothing waits, or when the kernel side has gone; what is still alive
\* of the workloads is then stopped.  The snapshot goes out of scope (so does,
\* in effect, pending_tasks, which the next pass counts anew).
notify_complete ==
    /\ phase = "complete"
    /\ \E longAgo, exited \in BOOLEAN :
         LET over == exited \/ (longAgo /\ Roots \cap alive = {} /\ pending = <<>>)
         IN  /\ phase' = IF over THEN "ended" ELSE "drain"
             /\ alive' = IF over THEN alive \ Roots ELSE alive
             /\ pending' = IF over THEN <<>> ELSE pending
    /\ appOf' = [p \in Tids |-> NoApp]
    /\ view' = NoView
    /\ jobs' = [c \in Cpus |-> {}]
    /\ count' = [a \in Apps |-> 0]
    /\ refused' = FALSE
    /\ UNCHANGED <<parent, known, table, policy, owned, ewma, controller>>

Next ==
    \/ launch_workload
    \/ \E p, q \in Tids : Fork(p, q)
    \/ \E p \in Tids : Exit(p)
    \/ \E a \in Apps : sync_now(a)
    \/ Elapse
    \/ \E s \in Senders, c \in Cpus : dequeue_task(s[1], s[2], c)
    \/ BeginPass
    \/ ReleaseCpus
    \/ SkipControl
    \/ GrantNext
    \/ EndControl
    \/ \E kind \in {"usersched", "helper"} : DispatchFirst(kind)
    \/ DispatchSelected
    \/ DropUnreadable
    \/ LeaveWaiting
    \/ notify_complete

Spec == Init /\ [][Next]_vars

-----------------------------------------------------------------------------
(* Properties.                                                             *)

\* No CPU belongs to two applications, at any point of the controller's round
\* of releases, grants and transfers (app_nsdi.rs, maybe_run_delay_range_controller).
OwnedOnce ==
    \A a, b \in Apps : a # b => owned[a] \cap owned[b] = {}

\* When messages are sent, an application that has messages and no CPU finds every
\* CPU owned by some other: the controller runs whenever there is one
\* (zero_owned_pending) and hands out free CPUs as long as one needs them.
NeedyServed ==
    phase = "dispatch" /\ policy = "DelayRange" /\ zero_owned_pending => free_cpus = {}

\* The controller gives no CPU to an application that has one while another has
\* messages and none: where CPUs are short, delay comes after ownership
\* (app_nsdi.rs, the order of recipients and the check of changed_apps).
NeediestFirst ==
    [][\A a \in Apps : owned[a] # {} /\ ~(owned'[a] \subseteq owned[a]) => ~zero_owned_pending]_vars

\* A pass that ends with room in the user ring buffer leaves nothing behind that
\* it could have sent: no message blocks the ones queued after it.
NothingRunnableLeft ==
    phase = "complete" /\ ~refused =>
        \A i \in 1..Len(pending) :
            /\ pending[i].kind = "work"
            /\ LegalCpus(pending[i].pid, Mask[pending[i].pid]) = {}
=============================================================================
