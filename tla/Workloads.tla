------------------------------ MODULE Workloads ------------------------------
(***************************************************************************)
(* The workloads of app::run: launching them into the managed cgroup,      *)
(* adopting the processes they fork, guarding the cgroup against foreign   *)
(* processes, and shutting them down (workload.rs and its uses in run).    *)
(*                                                                         *)
(* The workloads run beside the scheduler: a process may fork (from its    *)
(* main thread or from another one) or exit between any two steps, and a   *)
(* process nobody launched may be put into the cgroup.  A child inherits   *)
(* the cgroup and the scheduling class of its parent; the children of a    *)
(* process that exits go to init.  Pids are given in order, never again.   *)
(*                                                                         *)
(* A scan every 10 ms and a guard check every 250 ms are scans and checks  *)
(* a pass of the loop makes or leaves out.  The threads of a process are   *)
(* switched to sched_ext together.  verbose is off.                        *)
(***************************************************************************)
EXTENDS Naturals, FiniteSets, Sequences

CONSTANTS
    MaxPids,        \* bound: processes
    CommandLines,   \* what may be launched: sequences of command kinds
    MaxIntruders,   \* bound: foreign processes
    MaxFaults       \* bound: failing system calls

\* Kinds of command: is_perf_sched_record_command, is_taskset_command, neither.
Command == {"plain", "perf", "taskset"}

\* The walk of the guard stops at the 256th process above one (depth): with no
\* more processes than that, it never has to.
ASSUME CommandsAssumption ==
    /\ MaxPids \in 0..256 /\ MaxIntruders \in Nat /\ MaxFaults \in Nat
    /\ CommandLines \subseteq Seq(Command) \ {<<>>}

Pids == 1..MaxPids
Outside == 0                    \* init, the scheduler, or no process at all

VARIABLES
    commands,   \* the commands of this run, in order
    proc,       \* the process table
    pc,         \* the step of run
    at,         \* the workload run is at
    roots,      \* workloads: the pid of each child
    known,      \* known_pids of each adopter
    switched,   \* known_tids of each adopter, by process
    scan,       \* processes a scan collected and has not looked at yet
    members,    \* cgroup.procs as the guard read it
    blamed,     \* the processes the guard's error names
    faults      \* failing system calls so far

tables == <<commands, roots, known, switched>>
vars == <<proc, pc, at, tables, scan, members, blamed, faults>>

Jobs == DOMAIN commands         \* the entries of workloads and of adopters
Live == {p \in Pids : proc[p].st = "live"}
Present == {p \in Pids : proc[p].st \in {"live", "zombie"}}
Cgroup == {p \in Live : proc[p].in}
Launched == {roots[i] : i \in DOMAIN roots}

\* A process: kin tells whether a workload forked it.
Process(parent, viaMain, in, ext, kin) ==
    [st |-> "live", parent |-> parent, viaMain |-> viaMain, in |-> in,
     ext |-> ext, kin |-> kin]
Unborn == [Process(Outside, TRUE, FALSE, FALSE, TRUE) EXCEPT !.st = "unborn"]
Stranger == Process(Outside, TRUE, TRUE, FALSE, FALSE)

\* The pid of the next process.
Next_pid(p) == proc[p].st = "unborn" /\ \A q \in Pids : q < p => proc[q].st # "unborn"

Init ==
    /\ commands \in CommandLines
    /\ \E strays \in 0..MaxIntruders :
          proc = [p \in Pids |-> IF p <= strays THEN Stranger ELSE Unborn]
    /\ pc = "start"
    /\ at = 1
    /\ roots = <<>>
    /\ known = [i \in Jobs |-> {}]
    /\ switched = [i \in Jobs |-> {}]
    /\ scan = {}
    /\ members = {}
    /\ blamed = {}
    /\ faults = 0

Running == pc \notin {"returned", "failed"}
-----------------------------------------------------------------------------
(***************************************************************************)
(* The environment.                                                        *)
(***************************************************************************)
\* External: process p of a workload forks c.
Fork(p, c) ==
    /\ Running /\ p \in Live /\ Next_pid(c) /\ proc[p].kin
    /\ \E viaMain \in BOOLEAN :
          proc' = [proc EXCEPT ![c] =
                     Process(p, viaMain, proc[p].in, proc[p].ext, TRUE)]
    /\ UNCHANGED <<pc, at, tables, scan, members, blamed, faults>>

\* The process table once p has exited and is st, a zombie or gone.
Ended(p, st) ==
    [q \in Pids |-> IF q = p THEN [proc[p] EXCEPT !.st = st]
                    ELSE IF proc[q].parent = p THEN [proc[q] EXCEPT !.parent = Outside]
                    ELSE proc[q]]

\* External: a process exits; a child of run waits for its try_wait.
Exit(p) ==
    /\ Running /\ p \in Live
    /\ proc' = Ended(p, IF p \in Launched THEN "zombie" ELSE "gone")
    /\ UNCHANGED <<pc, at, tables, scan, members, blamed, faults>>

\* External: a process that no workload forked is put into the cgroup.
Intrude(p) ==
    /\ Running /\ Next_pid(p)
    /\ Cardinality({q \in Pids : ~proc[q].kin}) < MaxIntruders
    /\ proc' = [proc EXCEPT ![p] = Stranger]
    /\ UNCHANGED <<pc, at, tables, scan, members, blamed, faults>>
-----------------------------------------------------------------------------
(***************************************************************************)
(* Starting: the clean-start check and the launches.                       *)
(***************************************************************************)
Fault == faults < MaxFaults /\ faults' = faults + 1

assert_clean_start ==
    /\ pc = "start"
    /\ blamed' = Cgroup
    /\ pc' = IF Cgroup = {} THEN "spawn" ELSE "failed"
    /\ UNCHANGED <<proc, at, tables, scan, members, faults>>

\* launch_command up to the child, which runs from here on.
Spawn ==
    /\ pc = "spawn"
    /\ \/ \E p \in Pids :
            /\ Next_pid(p)
            /\ proc' = [proc EXCEPT ![p] = Process(Outside, TRUE, FALSE, FALSE, TRUE)]
            /\ roots' = Append(roots, p)
            /\ pc' = "enroll"
            /\ UNCHANGED faults
       \/ Fault /\ pc' = "failed" /\ UNCHANGED <<proc, roots>>
    /\ UNCHANGED <<commands, at, known, switched, scan, members, blamed>>

\* The commands are launched one after the other, then each has its adopter.
NextLaunch ==
    IF at < Len(commands) THEN at' = at + 1 /\ pc' = "spawn"
    ELSE at' = 1 /\ pc' = "sync"

\* The rest of launch_command.  A child is stopped, moved, switched and
\* continued (one that has exited may or may not be found); perf sched
\* record is left as it is.
Enroll ==
    LET p == roots[at] IN
    /\ pc = "enroll"
    /\ proc' = IF commands[at] # "perf" /\ p \in Live
                 THEN [proc EXCEPT ![p].in = TRUE, ![p].ext = TRUE]
                 ELSE proc
    /\ known' = [known EXCEPT ![at] = {p}]
    /\ NextLaunch
    /\ UNCHANGED <<commands, roots, switched, scan, members, blamed, faults>>

\* A child that cannot be moved or switched is killed and waited for.
EnrollFails ==
    LET p == roots[at] IN
    /\ pc = "enroll" /\ commands[at] # "perf"
    /\ p \notin Live \/ faults < MaxFaults
    /\ faults' = IF p \in Live THEN faults + 1 ELSE faults
    /\ proc' = Ended(p, "gone")
    /\ pc' = "failed"
    /\ UNCHANGED <<at, tables, scan, members, blamed>>

\* A taskset child that has not run exec after 50 ms is left to itself.
ExecTimeout ==
    /\ pc = "enroll" /\ commands[at] = "taskset" /\ Fault
    /\ pc' = "failed"
    /\ UNCHANGED <<proc, at, tables, scan, members, blamed>>
-----------------------------------------------------------------------------
(***************************************************************************)
(* The adopters.                                                           *)
(***************************************************************************)
\* proc_ppid: nothing for a process that is gone since.
proc_ppid(p) == IF p \in Present THEN proc[p].parent ELSE Outside

\* The processes in from and their descendants along children in via: the
\* least set that holds the ones and is closed under the others.
Reached(from, via) ==
    {p \in Pids : \A S \in SUBSET Pids :
        from \subseteq S /\ (\A c \in via : proc_ppid(c) \in S => c \in S) => p \in S}

\* collect_descendant_processes: from p down through the children that main
\* threads forked.
collect_descendant_processes(p) ==
    Reached({p}, {q \in Live : proc[q].viaMain}) \cap Present

NextAdopter ==
    IF at < Len(roots) THEN at' = at + 1 /\ pc' = "sync"
    ELSE at' = 1 /\ pc' = "guard"

\* maybe_sync of adopter at: its 10 ms are over, or not.
BeginScan(i) ==
    /\ pc = "sync" /\ at = i
    /\ scan' = collect_descendant_processes(roots[i])
    /\ pc' = "adopt"
    /\ UNCHANGED <<proc, at, tables, members, blamed, faults>>

SkipScan ==
    /\ pc = "sync"
    /\ NextAdopter
    /\ UNCHANGED <<proc, tables, scan, members, blamed, faults>>

\* A mutant: a thread is remembered whether or not it was switched.
Switched_always(p, done) == switched[at] \cup {p}

\* A thread that could not be switched is tried again by the next scan.
Switched(p, done) == IF done THEN switched[at] \cup {p} ELSE switched[at]

\* sync_now for a collected process that is still there: into the cgroup
\* unless it is known or there already, its threads into sched_ext unless
\* they are known.  A process that still runs the scheduler's image
\* (is_pre_exec_stub) is left as it is, as one that cannot be switched.
AdoptOne(p) ==
    LET toMove == p \notin known[at] /\ ~proc[p].in
        toSwitch == p \notin switched[at]
    IN
    /\ pc = "adopt" /\ p \in scan \cap Live
    /\ \E moved \in BOOLEAN, done \in BOOLEAN :
         /\ moved => toMove
         /\ done => toSwitch
         /\ IF moved = toMove /\ done = toSwitch THEN UNCHANGED faults ELSE Fault
         /\ known' = [known EXCEPT ![at] =
                        IF toMove /\ ~moved THEN @ ELSE @ \cup {p}]
         /\ switched' = [switched EXCEPT ![at] = Switched(p, done \/ ~toSwitch)]
         /\ proc' = [proc EXCEPT ![p].in = @ \/ moved, ![p].ext = @ \/ done]
    /\ scan' = scan \ {p}
    /\ UNCHANGED <<commands, pc, at, roots, members, blamed>>

\* One that has exited since cannot be moved, listed or switched.
AdoptLate(p) ==
    /\ pc = "adopt" /\ p \in scan \ Live
    /\ scan' = scan \ {p}
    /\ UNCHANGED <<proc, pc, at, tables, members, blamed, faults>>

EndScan ==
    /\ pc = "adopt" /\ scan = {}
    /\ NextAdopter
    /\ UNCHANGED <<proc, tables, scan, members, blamed, faults>>
-----------------------------------------------------------------------------
(***************************************************************************)
(* The guard.                                                              *)
(***************************************************************************)
\* A mutant: only the launched children are anchors.
tracked_pids_roots == Launched

\* tracked_pids of every adopter, the allowed anchors.
tracked_pids == Launched \cup UNION {known[i] : i \in Jobs}

\* The guard reads cgroup.procs, or its 250 ms are not over.
ReadMembers ==
    /\ pc = "guard"
    /\ \/ members' = Cgroup /\ pc' = "check"
       \/ members' = {} /\ pc' = "wait"
    /\ UNCHANGED <<proc, at, tables, scan, blamed, faults>>

\* A mutant: the walk may pass through processes outside the cgroup, and one
\* that ends nowhere counts as managed.
is_managed_cgroup_member_open(p) ==
    p \in Reached(tracked_pids \cup {q \in Pids : proc_ppid(q) = Outside}, Pids)

\* is_managed_cgroup_member: the parents of member p lead, through members
\* only, to an anchor.
is_managed_cgroup_member(p) == p \in Reached(tracked_pids, members)

\* assert_runtime_membership: an error ends run.
assert_runtime_membership ==
    /\ pc = "check"
    /\ blamed' = {p \in members : ~is_managed_cgroup_member(p)}
    /\ pc' = IF blamed' = {} THEN "wait" ELSE "failed"
    /\ members' = {}
    /\ UNCHANGED <<proc, at, tables, scan, faults>>
-----------------------------------------------------------------------------
(***************************************************************************)
(* The end of the loop and of the workloads.                               *)
(***************************************************************************)
\* try_wait for every workload.  The next pass begins, or the loop ends: all
\* workloads are over for 250 ms with nothing pending, or the scheduler has
\* exited, whatever the workloads do.
TryWait ==
    /\ pc = "wait"
    /\ proc' = [p \in Pids |-> IF proc[p].st = "zombie" THEN [proc[p] EXCEPT !.st = "gone"]
                               ELSE proc[p]]
    /\ pc' \in {"sync", "sigint"}
    /\ UNCHANGED <<at, tables, scan, members, blamed, faults>>

\* A mutant: there is no signal that a child cannot survive.
Deadly_never(signal) == FALSE

Deadly(signal) == signal = "sigkill"

Sterner == [sigint |-> "sigterm", sigterm |-> "sigkill", sigkill |-> "sigkill"]

\* shutdown_child_gracefully: a signal and the polls after it, until the
\* child is waited for.
shutdown_child_gracefully ==
    LET p == roots[at] IN
    /\ pc \in DOMAIN Sterner
    /\ IF p \in Live /\ ~Deadly(pc)
         THEN pc' = Sterner[pc] /\ UNCHANGED <<proc, at>>
         ELSE /\ proc' = Ended(p, "gone")
              /\ IF at < Len(roots) THEN at' = at + 1 /\ pc' = "sigint"
                 ELSE at' = at /\ pc' = "returned"
    /\ UNCHANGED <<tables, scan, members, blamed, faults>>
-----------------------------------------------------------------------------
Run ==
    \/ assert_clean_start \/ Spawn \/ Enroll \/ EnrollFails \/ ExecTimeout
    \/ BeginScan(at)
    \/ SkipScan
    \/ \E p \in Pids : AdoptOne(p) \/ AdoptLate(p)
    \/ EndScan \/ ReadMembers \/ assert_runtime_membership
    \/ TryWait \/ shutdown_child_gracefully

Environment ==
    \/ \E p, c \in Pids : Fork(p, c)
    \/ \E p \in Pids : Exit(p) \/ Intrude(p)

Next == Run \/ Environment

Spec == Init /\ [][Next]_vars

\* run goes on, and time passes: a scan of every adopter is due again and
\* again.
FairSpec == /\ Spec /\ WF_vars(Run)
            /\ \A i \in 1..MaxPids : SF_vars(BeginScan(i))
-----------------------------------------------------------------------------
InLoop == pc \in {"sync", "adopt", "guard", "check", "wait"}

TypeOK ==
    /\ commands \in CommandLines
    /\ proc \in [Pids -> [st : {"unborn", "live", "zombie", "gone"},
                          parent : Pids \cup {Outside}, viaMain : BOOLEAN,
                          in : BOOLEAN, ext : BOOLEAN, kin : BOOLEAN]]
    /\ pc \in {"start", "spawn", "enroll", "sync", "adopt", "guard", "check", "wait",
               "sigint", "sigterm", "sigkill", "returned", "failed"}
    /\ at \in Jobs
    /\ roots \in Seq(Pids)
    /\ known \in [Jobs -> SUBSET Pids] /\ switched \in [Jobs -> SUBSET Pids]
    /\ scan \subseteq Pids /\ members \subseteq Pids /\ blamed \subseteq Pids
    /\ faults \in 0..MaxFaults

\* The guard never mistakes a process an adopter has taken in, nor one whose
\* parents lead to such a process: whatever its error names is foreign, or
\* is gone, or was orphaned before a scan met it.  (The members are read
\* first and their parents after, while the workloads go on.)
GuardSound ==
    LET adopted == Launched \cup UNION {known[i] : i \in Jobs}
    IN  \A p \in blamed : ~proc[p].kin \/ p \notin Reached(adopted, Pids)

\* A foreign process that is in the cgroup when the guard reads it ends run,
\* whatever has been adopted meanwhile.
GuardCatches ==
    [][pc = "check" /\ pc' # "check" /\ (\E p \in members : ~proc[p].kin)
            => pc' = "failed"]_vars

\* Descendants that main threads forked do not stay outside: while the loop
\* runs, again and again each of them is in sched_ext and, but for the root,
\* in the cgroup, though calls of the adopters fail and processes come and
\* go under a scan.
Strays(i) ==
    {p \in collect_descendant_processes(roots[i]) \cap Live :
        ~proc[p].ext \/ (~proc[p].in /\ p # roots[i])}
AllAdopted == InLoop ~> ~InLoop \/ \A i \in Jobs : Strays(i) = {}

\* Once the loop has come to its normal end, run returns with every child it
\* launched waited for, even when the children ignore SIGINT and SIGTERM.  An
\* error of the guard leaves run without shutting the children down ("failed").
ChildrenReaped ==
    pc = "sigint" ~> pc = "returned" /\ Launched \cap Present = {}
=============================================================================
