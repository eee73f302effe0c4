---------------------------- MODULE TaskLifecycle ----------------------------
(***************************************************************************)
(* What the scheduler promises its tasks, without messages, ring buffers   *)
(* and dispatch buffers.  A runnable task waits for a decision ("opsq"),   *)
(* in the shared queue or in the queue of a CPU its affinity allows; one   *)
(* decision ends the wait for a decision, and a task that has been placed  *)
(* is only moved again when its affinity changes; it runs on one CPU at a  *)
(* time, one it may use, and only a running task goes to sleep or exits.   *)
(* Rustland implements this.                                               *)
(***************************************************************************)
CONSTANTS Cpus, Tasks, NoTask

VARIABLES
    place,  \* "asleep", "opsq", "shared", a CPU (its queue), "running", "dead"
    mask,   \* the CPUs each task may use
    on      \* the task each CPU runs, or NoTask

vars == <<place, mask, on>>

Init ==
    /\ place = [t \in Tasks |-> "asleep"]
    /\ mask = [t \in Tasks |-> Cpus]
    /\ on = [c \in Cpus |-> NoTask]

Runs(t) == \E c \in Cpus : on[c] = t

\* Where a runnable task with affinity m may be put to wait.
Waiting(m) == {"opsq", "shared"} \cup m
Put(t, p) == place' = [place EXCEPT ![t] = p]

Wake(t) ==
    /\ place[t] = "asleep"
    /\ \E p \in Waiting(mask[t]) : Put(t, p)
    /\ UNCHANGED <<mask, on>>

\* The decision about a task that waits for one.
Decide(t) ==
    /\ place[t] = "opsq"
    /\ \E p \in Waiting(mask[t]) \ {"opsq"} : Put(t, p)
    /\ UNCHANGED <<mask, on>>

\* A CPU takes a task out of its own queue or the shared one.
Take(c, t) ==
    /\ place[t] \in {"shared", c} /\ c \in mask[t]
    /\ Put(t, "running")
    /\ UNCHANGED <<mask, on>>

\* A CPU changes to a task that was taken or to none; the one before waits again.
Switch(c, t) ==
    /\ t # NoTask => place[t] = "running" /\ ~Runs(t) /\ c \in mask[t]
    /\ on' = [on EXCEPT ![c] = t]
    /\ IF on[c] = NoTask THEN UNCHANGED place
       ELSE \E p \in Waiting(mask[on[c]]) : Put(on[c], p)
    /\ UNCHANGED mask

\* The running task blocks or exits.
Stop(c, s) ==
    /\ on[c] # NoTask
    /\ Put(on[c], s)
    /\ on' = [on EXCEPT ![c] = NoTask]
    /\ UNCHANGED mask

\* A task that waits is put to wait within its new mask; one that runs on a CPU the
\* mask leaves out is taken off it.
SetAffinity(t, m) ==
    /\ mask' = [mask EXCEPT ![t] = m]
    /\ on' = [c \in Cpus |-> IF on[c] = t /\ c \notin m THEN NoTask ELSE on[c]]
    /\ IF place[t] = "asleep" \/ \E c \in m : on[c] = t THEN UNCHANGED place
       ELSE \E p \in Waiting(m) : Put(t, p)

Next ==
    \/ \E t \in Tasks : \/ Wake(t) \/ Decide(t)
                        \/ \E m \in (SUBSET Cpus) \ {{}} : SetAffinity(t, m)
    \/ \E c \in Cpus : \/ \E t \in Tasks : Take(c, t)
                       \/ \E t \in Tasks \cup {NoTask} : Switch(c, t)
                       \/ \E s \in {"asleep", "dead"} : Stop(c, s)

Spec == Init /\ [][Next]_vars
=============================================================================
