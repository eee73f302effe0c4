--------------------------- MODULE WorkloadsProofs ---------------------------
(***************************************************************************)
(* The guard of the managed cgroup, for every set of workloads and up to   *)
(* 256 processes: it blames no process that an adopter answers for, and a  *)
(* foreign process never gets past it.                                     *)
(***************************************************************************)
EXTENDS Workloads, TLAPS, SequenceTheorems

Born == {p \in Pids : proc[p].st # "unborn"}
Kin == {p \in Pids : proc[p].kin}

\* How far the launches have come.
Launching ==
    /\ pc = "start" => at = 1 /\ roots = <<>> /\ Kin \cap Born = {}
    /\ pc = "spawn" => Len(roots) = at - 1
    /\ pc = "enroll" => Len(roots) = at
    /\ pc \in {"start", "spawn", "enroll"} => \A i \in Jobs : i >= at => known[i] = {}
    /\ InLoop \/ pc \in DOMAIN Sterner => Len(roots) = Len(commands)

\* Whatever is adopted, or about to be, is of a workload; a foreign process is
\* nobody's child.
Adopted ==
    /\ tracked_pids \subseteq Kin \cap Born
    /\ scan \subseteq Kin \cap Born
    /\ \A p \in Pids \ Kin : proc[p].parent = Outside

\* The parent a process has is alive, and a process that is in the cgroup
\* without having been put there has its place from its parent.
Inherited ==
    \A p \in Pids : proc[p].parent # Outside =>
        /\ proc[p].parent \in Live \ {p}
        /\ proc[p].in /\ p \notin tracked_pids => proc[proc[p].parent].in

\* What the guard has read stays closed under parents while it checks.
MembersClosed ==
    pc = "check" =>
        /\ members \subseteq Born
        /\ \A p \in members \ tracked_pids :
              proc[p].parent # Outside => proc[p].parent \in members

Blamed == blamed # {} => pc = "failed"

GuardInv ==
    /\ TypeOK /\ Launching /\ Adopted /\ Inherited /\ MembersClosed
    /\ Blamed /\ GuardSound
-----------------------------------------------------------------------------
(* Types.                                                                  *)

Processes == [st : {"unborn", "live", "zombie", "gone"},
              parent : Pids \cup {Outside}, viaMain : BOOLEAN,
              in : BOOLEAN, ext : BOOLEAN, kin : BOOLEAN]

\* 0 stands for no process.
LEMMA PidsType == Pids \subseteq Nat /\ Outside \notin Pids
  BY CommandsAssumption DEF Pids, Outside

\* A new process is a process.
LEMMA ProcessType ==
    ASSUME NEW u \in Pids \cup {Outside}, NEW v \in BOOLEAN, NEW i \in BOOLEAN,
           NEW e \in BOOLEAN, NEW k \in BOOLEAN
    PROVE  Process(u, v, i, e, k) \in Processes
  BY DEF Process, Processes

\* The values of a process the model begins with.
LEMMA FixedProcesses == Unborn \in Processes /\ Stranger \in Processes
<1>1. Process(Outside, TRUE, FALSE, FALSE, TRUE) \in Processes
  BY ProcessType
<1>2. Unborn \in Processes
  BY <1>1 DEF Unborn, Processes
<1>. QED
  BY <1>2, ProcessType DEF Stranger

\* The table is a table after a process has ended.
LEMMA EndedType ==
    ASSUME proc \in [Pids -> Processes], NEW p \in Pids, NEW st \in {"zombie", "gone"}
    PROVE  Ended(p, st) \in [Pids -> Processes]
  BY DEF Ended, Processes

\* Commands are counted by a positive number.
LEMMA CommandsType ==
    ASSUME TypeOK
    PROVE  /\ commands \in Seq(Command) /\ Len(commands) \in Nat /\ Len(commands) >= 1
           /\ Jobs = 1..Len(commands)
<1>1. commands \in Seq(Command) /\ commands # <<>>
  BY CommandsAssumption DEF TypeOK
<1>2. DOMAIN commands = 1..Len(commands) /\ Len(commands) \in Nat
  BY <1>1
<1>3. Len(commands) # 0
  BY <1>1, EmptySeq
<1>. QED
  BY <1>1, <1>2, <1>3 DEF Jobs

\* The root that run is at exists from its launch on.
LEMMA RootType ==
    ASSUME TypeOK, Launching, pc \notin {"start", "spawn", "failed", "returned"}
    PROVE  roots[at] \in Pids /\ at \in 1..Len(roots) /\ roots[at] \in Launched
<1>1. at \in 1..Len(commands) /\ at \in Nat
  BY CommandsType DEF TypeOK
<1>2. Len(roots) = at \/ Len(roots) = Len(commands)
  BY DEF Launching, TypeOK, InLoop, Sterner
<1>3. at \in 1..Len(roots)
  BY <1>1, <1>2
<1>4. roots[at] \in Pids /\ DOMAIN roots = 1..Len(roots)
  BY <1>3 DEF TypeOK
<1>. QED
  BY <1>3, <1>4 DEF Launched

\* Anchors are processes.
LEMMA TrackedType ==
    ASSUME TypeOK
    PROVE  tracked_pids \subseteq Pids /\ Launched \subseteq Pids
<1>1. \A i \in DOMAIN roots : roots[i] \in Pids
  BY DEF TypeOK
<1>2. Launched \subseteq Pids
  BY <1>1 DEF Launched
<1>3. \A i \in Jobs : known[i] \subseteq Pids
  BY DEF TypeOK
<1>. QED
  BY <1>2, <1>3 DEF tracked_pids

\* The start of run is of the right types.
LEMMA TypeInit == Init => TypeOK
<1>. SUFFICES ASSUME Init PROVE TypeOK
  OBVIOUS
<1>1. commands \in CommandLines /\ commands \in Seq(Command) /\ commands # <<>>
  BY CommandsAssumption DEF Init
<1>2. 1 \in DOMAIN commands
  <2>1. DOMAIN commands = 1..Len(commands) /\ Len(commands) \in Nat
    BY <1>1
  <2>2. Len(commands) # 0
    BY <1>1, EmptySeq
  <2>. QED
    BY <2>1, <2>2
<1>3. proc \in [Pids -> Processes]
  BY FixedProcesses DEF Init
<1>4. faults \in 0..MaxFaults
  BY CommandsAssumption DEF Init
<1>5. roots \in Seq(Pids)
  BY DEF Init
<1>. QED
  BY <1>1, <1>2, <1>3, <1>4, <1>5 DEF Init, TypeOK, Jobs, Processes
-----------------------------------------------------------------------------
(* What the walks reach.                                                   *)

\* A set that holds the begin and is closed holds all that is reached.
LEMMA ReachedLeast ==
    ASSUME NEW from, NEW via, NEW S \in SUBSET Pids, from \subseteq S,
           \A c \in via : proc_ppid(c) \in S => c \in S
    PROVE  Reached(from, via) \subseteq S
  BY DEF Reached

\* What is reached holds the begin and is closed itself.
LEMMA ReachedClosed ==
    ASSUME NEW from \in SUBSET Pids, NEW via
    PROVE  /\ from \subseteq Reached(from, via)
           /\ \A c \in via \cap Pids :
                proc_ppid(c) \in Reached(from, via) => c \in Reached(from, via)
  BY DEF Reached

\* The parent the walk sees is the one of the table, if it sees one.
LEMMA ParentSeen ==
    ASSUME TypeOK, NEW p \in Pids, proc_ppid(p) \in Pids
    PROVE  proc_ppid(p) = proc[p].parent /\ proc[p].parent # Outside
  BY PidsType DEF proc_ppid

\* No walk that begins with processes of the workloads leads to a foreign one.
LEMMA KinReached ==
    ASSUME TypeOK, Adopted, NEW from \in SUBSET Kin, NEW via \in SUBSET Pids
    PROVE  Reached(from, via) \subseteq Kin
<1>1. Kin \in SUBSET Pids
  BY DEF Kin
<1>2. \A c \in via : proc_ppid(c) \in Kin => c \in Kin
  BY <1>1, ParentSeen DEF Adopted
<1>. QED
  BY <1>1, <1>2, ReachedLeast

\* A member that the anchors lead to is led to through members only: its parents
\* were members when the guard read them.
LEMMA MembersReached ==
    ASSUME TypeOK, MembersClosed, pc = "check"
    PROVE  Reached(tracked_pids, Pids) \cap members \subseteq Reached(tracked_pids, members)
<1> DEFINE R == Reached(tracked_pids, members)
           S == {q \in Pids : q \in members => q \in R}
<1>1. tracked_pids \subseteq Pids /\ members \subseteq Pids
  BY TrackedType DEF TypeOK
<1>2. /\ tracked_pids \subseteq R
      /\ \A c \in members : proc_ppid(c) \in R => c \in R
  BY <1>1, ReachedClosed
<1>3. \A c \in Pids : proc_ppid(c) \in S => c \in S
  <2>1. SUFFICES ASSUME NEW c \in Pids, proc_ppid(c) \in S, c \in members, c \notin tracked_pids
                 PROVE  c \in R
    BY <1>2
  <2>2. proc_ppid(c) = proc[c].parent /\ proc[c].parent # Outside
    BY <2>1, ParentSeen
  <2>3. proc[c].parent \in members
    BY <2>1, <2>2 DEF MembersClosed
  <2>. QED
    BY <1>2, <2>1, <2>2, <2>3
<1>4. tracked_pids \subseteq S /\ S \in SUBSET Pids
  BY <1>1, <1>2
<1>5. Reached(tracked_pids, Pids) \subseteq S
  <2>. HIDE DEF S
  <2>. QED
    BY <1>3, <1>4, ReachedLeast
<1>. QED
  BY <1>5
-----------------------------------------------------------------------------
(* Steps that leave the ties between processes alone, or cut them.         *)

\* Processes may end, and lose parents: what is adopted or inherited stays so.
LEMMA Kept ==
    ASSUME TypeOK, Adopted, Inherited,
           tracked_pids' = tracked_pids, scan' \subseteq scan,
           \A q \in Pids :
              /\ proc'[q].kin = proc[q].kin /\ proc'[q].in = proc[q].in
              /\ proc'[q].parent \in {proc[q].parent, Outside}
              /\ proc'[q].st = "unborn" => proc[q].st = "unborn"
              /\ proc'[q].parent # Outside => proc'[proc[q].parent].st = "live"
    PROVE  /\ Adopted' /\ Inherited'
           /\ (MembersClosed /\ pc' = pc /\ members' = members => MembersClosed')
<1>1. Kin' = Kin
  BY DEF Kin
<1>2. Born \subseteq Born'
  BY DEF Born
<1>3. Adopted'
  BY <1>1, <1>2 DEF Adopted
<1>4. Inherited'
  <2>1. SUFFICES ASSUME NEW p \in Pids, proc'[p].parent # Outside
                 PROVE  /\ proc'[p].parent \in Live' \ {p}
                        /\ proc'[p].in /\ p \notin tracked_pids' => proc'[proc'[p].parent].in
    BY DEF Inherited
  <2>2. proc'[p].parent = proc[p].parent /\ proc[p].parent # Outside
    BY <2>1
  <2>3. proc[p].parent \in Live \ {p} /\ proc[p].parent \in Pids
    BY <2>2 DEF Inherited, Live
  <2>4. proc'[p].parent \in Live' \ {p}
    BY <2>1, <2>2, <2>3 DEF Live
  <2>. QED
    BY <2>2, <2>3, <2>4 DEF Inherited
<1>5. ASSUME MembersClosed, pc' = pc, members' = members PROVE MembersClosed'
  BY <1>2, <1>5 DEF MembersClosed, TypeOK
<1>. QED
  BY <1>3, <1>4, <1>5

\* So when a process ends and its children go to init.
LEMMA KeptByEnd ==
    ASSUME TypeOK, Adopted, Inherited,
           NEW p \in Pids, NEW st \in {"zombie", "gone"}, p \in Born,
           proc' = Ended(p, st), tables' = tables, scan' = scan
    PROVE  /\ Adopted' /\ Inherited'
           /\ (MembersClosed /\ pc' = pc /\ members' = members => MembersClosed')
<1>1. tracked_pids' = tracked_pids
  BY DEF tables, tracked_pids, Launched, Jobs
<1>2. ASSUME NEW q \in Pids
      PROVE  /\ proc'[q].kin = proc[q].kin /\ proc'[q].in = proc[q].in
             /\ proc'[q].parent \in {proc[q].parent, Outside}
             /\ proc'[q].st = "unborn" => proc[q].st = "unborn"
             /\ proc'[q].parent # Outside => proc'[proc[q].parent].st = "live"
  <2>1. CASE q = p
    <3>1. proc'[q] = [proc[p] EXCEPT !.st = st]
      BY <2>1 DEF Ended
    <3>2. proc[p].parent # Outside => proc[p].parent # p
      BY DEF Inherited
    <3>. QED
      BY <2>1, <3>1, <3>2 DEF TypeOK, Inherited, Live, Ended
  <2>2. CASE q # p /\ proc[q].parent = p
    <3>1. proc'[q] = [proc[q] EXCEPT !.parent = Outside]
      BY <2>2 DEF Ended
    <3>. QED
      BY <3>1 DEF TypeOK
  <2>3. CASE q # p /\ proc[q].parent # p
    <3>1. proc'[q] = proc[q]
      BY <2>3 DEF Ended
    <3>2. proc[q].parent # Outside =>
            proc[q].parent \in Live /\ proc'[proc[q].parent].st = proc[proc[q].parent].st
      BY <2>3 DEF Inherited, Live, Ended
    <3>. QED
      BY <3>1, <3>2 DEF Live
  <2>. QED
    BY <2>1, <2>2, <2>3
<1>. QED
  BY <1>1, <1>2, Kept
-----------------------------------------------------------------------------
(* One lemma per action.                                                   *)

\* Nobody is blamed before run has failed, after which nothing happens.
LEMMA Blameless ==
    ASSUME GuardInv, pc # "failed", blamed' = blamed
    PROVE  Blamed' /\ GuardSound'
<1>1. blamed = {}
  BY DEF GuardInv, Blamed
<1>. QED
  BY <1>1 DEF Blamed, GuardSound

\* The bookkeeping of the launches, where run does not take a step of its own.
LEMMA LaunchingKept ==
    ASSUME Launching, pc' = pc, at' = at, tables' = tables,
           pc = "start" => (Kin \cap Born)' = {}
    PROVE  Launching'
<1>1. roots' = roots /\ commands' = commands /\ known' = known /\ Jobs' = Jobs
  BY DEF tables, Jobs
<1>. QED
  BY <1>1 DEF Launching, InLoop

\* A process of a workload forks.
LEMMA ForkKeeps ==
    ASSUME GuardInv, NEW p \in Pids, NEW c \in Pids, Fork(p, c)
    PROVE  GuardInv'
<1>. USE DEF GuardInv
<1>1. PICK v \in BOOLEAN :
        proc' = [proc EXCEPT ![c] = Process(p, v, proc[p].in, proc[p].ext, TRUE)]
  BY DEF Fork
<1> DEFINE P == Process(p, v, proc[p].in, proc[p].ext, TRUE)
<1>2. /\ p \in Live /\ p \in Kin /\ proc[c].st = "unborn" /\ p # c
      /\ p \in Born /\ c \notin Born /\ pc # "failed"
  BY DEF Fork, Next_pid, Live, Kin, Born, Running
<1>3. P \in Processes
  <2>1. proc[p].in \in BOOLEAN /\ proc[p].ext \in BOOLEAN
    BY DEF TypeOK
  <2>. QED
    BY <2>1, ProcessType
<1>4. tables' = tables /\ pc' = pc /\ at' = at /\ scan' = scan /\ members' = members
      /\ blamed' = blamed /\ faults' = faults
  BY DEF Fork
<1>5. tracked_pids' = tracked_pids
  BY <1>4 DEF tables, tracked_pids, Launched, Jobs
<1>6. TypeOK'
  <2>1. proc' \in [Pids -> Processes]
    BY <1>1, <1>3 DEF TypeOK, Processes
  <2>. QED
    BY <1>4, <2>1 DEF TypeOK, tables, Jobs, Processes
<1>7. /\ proc'[c] = P /\ P.parent = p /\ P.in = proc[p].in /\ P.kin = TRUE /\ P.st = "live"
      /\ \A q \in Pids \ {c} : proc'[q] = proc[q]
  BY <1>1 DEF TypeOK, Process
<1>8. Kin' = Kin \cup {c} /\ Born' = Born \cup {c} /\ Live' = Live \cup {c}
  <2>1. \A q \in Pids : q # c => proc'[q].kin = proc[q].kin /\ proc'[q].st = proc[q].st
    BY <1>7
  <2>2. proc'[c].kin /\ proc'[c].st = "live"
    BY <1>7
  <2>. QED
    BY <1>2, <2>1, <2>2 DEF Kin, Born, Live
<1>9. Adopted'
  BY <1>4, <1>5, <1>7, <1>8 DEF Adopted
<1>10. Inherited'
  <2>1. SUFFICES ASSUME NEW q \in Pids, proc'[q].parent # Outside
                 PROVE  /\ proc'[q].parent \in Live' \ {q}
                        /\ proc'[q].in /\ q \notin tracked_pids' => proc'[proc'[q].parent].in
    BY DEF Inherited
  <2>2. CASE q = c
    <3>1. proc'[q].parent = p /\ proc'[q].in = proc[p].in /\ proc'[p].in = proc[p].in
      BY <1>2, <1>7, <2>2
    <3>. QED
      BY <1>2, <1>8, <2>2, <3>1
  <2>3. CASE q # c
    <3>1. proc'[q] = proc[q] /\ proc[q].parent # Outside
      BY <1>7, <2>1, <2>3
    <3>2. /\ proc[q].parent \in Live \ {q}
          /\ proc[q].in /\ q \notin tracked_pids => proc[proc[q].parent].in
      BY <3>1 DEF Inherited
    <3>3. proc[q].parent # c /\ proc[q].parent \in Pids
      BY <1>2, <3>2 DEF Live
    <3>. QED
      BY <1>5, <1>7, <1>8, <3>1, <3>2, <3>3
  <2>. QED
    BY <2>2, <2>3
<1>11. MembersClosed'
  <2>1. SUFFICES ASSUME pc = "check"
                 PROVE  /\ members \subseteq Born'
                        /\ \A q \in members \ tracked_pids :
                              proc'[q].parent # Outside => proc'[q].parent \in members
    BY <1>4, <1>5 DEF MembersClosed
  <2>2. members \subseteq Born /\ members \subseteq Pids
    BY <2>1 DEF MembersClosed, TypeOK
  <2>. QED
    BY <1>2, <1>7, <1>8, <2>1, <2>2 DEF MembersClosed
<1>12. Launching'
  <2>1. pc # "start"
    BY <1>2 DEF Launching
  <2>. QED
    BY <1>4, <2>1, LaunchingKept
<1>. QED
  BY <1>2, <1>4, <1>6, <1>9, <1>10, <1>11, <1>12, Blameless

\* A process exits.
LEMMA ExitKeeps ==
    ASSUME GuardInv, NEW p \in Pids, Exit(p)
    PROVE  GuardInv'
<1>. USE DEF GuardInv
<1> DEFINE st == IF p \in Launched THEN "zombie" ELSE "gone"
<1>1. /\ proc' = Ended(p, st) /\ p \in Born /\ pc # "failed"
      /\ tables' = tables /\ pc' = pc /\ at' = at /\ scan' = scan /\ members' = members
      /\ blamed' = blamed /\ faults' = faults
  BY DEF Exit, Live, Born, Running
<1>2. st \in {"zombie", "gone"}
  OBVIOUS
<1>. HIDE DEF st
<1>3. TypeOK'
  <2>1. proc' \in [Pids -> Processes]
    BY <1>1, <1>2, EndedType DEF TypeOK, Processes
  <2>. QED
    BY <1>1, <2>1 DEF TypeOK, tables, Jobs, Processes
<1>4. Adopted' /\ Inherited' /\ MembersClosed'
  BY <1>1, <1>2, KeptByEnd
<1>5. Launching'
  <2>1. \A q \in Pids : /\ proc'[q].kin = proc[q].kin
                        /\ q # p => proc'[q].st = proc[q].st
    BY <1>1 DEF Ended, TypeOK
  <2>2. Kin' = Kin /\ Born' \subseteq Born
    BY <1>1, <2>1 DEF Kin, Born
  <2>. QED
    BY <1>1, <2>2, LaunchingKept DEF Launching
<1>. QED
  BY <1>1, <1>3, <1>4, <1>5, Blameless

\* A foreign process is put into the cgroup.
LEMMA IntrudeKeeps ==
    ASSUME GuardInv, NEW p \in Pids, Intrude(p)
    PROVE  GuardInv'
<1>. USE DEF GuardInv
<1>1. /\ proc' = [proc EXCEPT ![p] = Stranger] /\ p \notin Born /\ pc # "failed"
      /\ tables' = tables /\ pc' = pc /\ at' = at /\ scan' = scan /\ members' = members
      /\ blamed' = blamed /\ faults' = faults
  BY DEF Intrude, Next_pid, Born, Running
<1>2. tracked_pids' = tracked_pids
  BY <1>1 DEF tables, tracked_pids, Launched, Jobs
<1>3. TypeOK'
  <2>1. proc' \in [Pids -> Processes]
    BY <1>1, FixedProcesses DEF TypeOK, Processes
  <2>. QED
    BY <1>1, <2>1 DEF TypeOK, tables, Jobs, Processes
<1>4. /\ proc'[p].parent = Outside /\ proc'[p].kin = FALSE /\ proc'[p].st = "live"
      /\ \A q \in Pids \ {p} : proc'[q] = proc[q]
  BY <1>1 DEF TypeOK, Stranger, Process
<1>5. Kin' = Kin \ {p} /\ Born' = Born \cup {p} /\ Live' = Live \cup {p}
  BY <1>1, <1>4 DEF Kin, Born, Live
<1>6. Adopted'
  BY <1>1, <1>2, <1>4, <1>5 DEF Adopted
<1>7. Inherited'
  <2>1. SUFFICES ASSUME NEW q \in Pids, proc'[q].parent # Outside
                 PROVE  /\ proc'[q].parent \in Live' \ {q}
                        /\ proc'[q].in /\ q \notin tracked_pids' => proc'[proc'[q].parent].in
    BY DEF Inherited
  <2>2. q # p /\ proc'[q] = proc[q] /\ proc[q].parent # Outside
    BY <1>4, <2>1
  <2>3. /\ proc[q].parent \in Live \ {q}
        /\ proc[q].in /\ q \notin tracked_pids => proc[proc[q].parent].in
    BY <2>2 DEF Inherited
  <2>4. proc[q].parent # p /\ proc[q].parent \in Pids
    BY <1>1, <2>3 DEF Live, Born
  <2>. QED
    BY <1>2, <1>4, <1>5, <2>2, <2>3, <2>4
<1>8. MembersClosed'
  <2>1. SUFFICES ASSUME pc = "check"
                 PROVE  /\ members \subseteq Born'
                        /\ \A q \in members \ tracked_pids :
                              proc'[q].parent # Outside => proc'[q].parent \in members
    BY <1>1, <1>2 DEF MembersClosed
  <2>2. members \subseteq Born /\ members \subseteq Pids
    BY <2>1 DEF MembersClosed, TypeOK
  <2>. QED
    BY <1>1, <1>4, <1>5, <2>1, <2>2 DEF MembersClosed
<1>9. Launching'
  <2>1. pc = "start" => (Kin \cap Born)' = {}
    BY <1>5 DEF Launching
  <2>. QED
    BY <1>1, <2>1, LaunchingKept
<1>. QED
  BY <1>1, <1>3, <1>6, <1>7, <1>8, <1>9, Blameless

\* A step of run that changes nothing about the processes.
LEMMA Still ==
    ASSUME GuardInv, proc' = proc, tables' = tables, scan' \subseteq scan
    PROVE  Adopted' /\ Inherited'
<1>. USE DEF GuardInv
<1>1. tracked_pids' = tracked_pids
  BY DEF tables, tracked_pids, Launched, Jobs
<1>2. \A q \in Pids : proc[q].parent # Outside => proc[proc[q].parent].st = "live"
  BY DEF Inherited, Live
<1>. QED
  BY <1>1, <1>2, Kept

\* The clean-start check: whoever is there already is foreign.
LEMMA CleanStartKeeps ==
    ASSUME GuardInv, assert_clean_start
    PROVE  GuardInv'
<1>. USE DEF GuardInv
<1>1. /\ proc' = proc /\ tables' = tables /\ scan' = scan /\ at' = at
      /\ members' = members /\ faults' = faults
      /\ pc = "start" /\ blamed' = Cgroup
      /\ pc' = IF Cgroup = {} THEN "spawn" ELSE "failed"
  BY DEF assert_clean_start
<1>2. Cgroup \subseteq Born
  BY DEF Cgroup, Live, Born
<1>3. TypeOK'
  BY <1>1, <1>2 DEF TypeOK, tables, Jobs, Born
<1>4. Adopted' /\ Inherited'
  BY <1>1, Still
<1>5. MembersClosed'
  BY <1>1 DEF MembersClosed
<1>6. Blamed'
  BY <1>1 DEF Blamed
<1>7. Launching'
  <2>1. at = 1 /\ roots = <<>> /\ Len(roots) = at - 1
    BY <1>1 DEF Launching
  <2>2. roots' = roots /\ known' = known /\ Jobs' = Jobs
    BY <1>1 DEF tables, Jobs
  <2>. QED
    BY <1>1, <2>1, <2>2 DEF Launching, InLoop, Sterner
<1>8. GuardSound'
  <2>1. \A p \in blamed' : ~proc'[p].kin
    BY <1>1, <1>2 DEF Launching, Kin, Born
  <2>. QED
    BY <2>1 DEF GuardSound
<1>. QED
  BY <1>3, <1>4, <1>5, <1>6, <1>7, <1>8

\* A workload is launched, or the launch fails.
LEMMA SpawnKeeps ==
    ASSUME GuardInv, Spawn
    PROVE  GuardInv'
<1>. USE DEF GuardInv
<1>1. /\ commands' = commands /\ at' = at /\ known' = known /\ switched' = switched
      /\ scan' = scan /\ members' = members /\ blamed' = blamed /\ pc = "spawn"
  BY DEF Spawn
<1>2. Blamed' /\ GuardSound'
  BY <1>1, Blameless
<1>3. CASE Fault /\ pc' = "failed" /\ UNCHANGED <<proc, roots>>
  <2>1. TypeOK'
    <3>1. faults' \in 0..MaxFaults
      BY <1>3, CommandsAssumption DEF Fault, TypeOK
    <3>. QED
      BY <1>1, <1>3, <3>1 DEF TypeOK, Jobs
  <2>2. Adopted' /\ Inherited'
    BY <1>1, <1>3, Still DEF tables
  <2>3. Launching' /\ MembersClosed'
    BY <1>3 DEF Launching, MembersClosed, InLoop, Sterner
  <2>. QED
    BY <1>2, <2>1, <2>2, <2>3
<1>4. ASSUME NEW p \in Pids, Next_pid(p),
             proc' = [proc EXCEPT ![p] = Process(Outside, TRUE, FALSE, FALSE, TRUE)],
             roots' = Append(roots, p), pc' = "enroll", faults' = faults
      PROVE  GuardInv'
  <2> DEFINE P == Process(Outside, TRUE, FALSE, FALSE, TRUE)
  <2>1. P \in Processes /\ P.parent = Outside /\ P.kin = TRUE /\ P.st = "live"
    BY ProcessType DEF Process
  <2>2. proc[p].st = "unborn" /\ p \notin Born
    BY <1>4 DEF Next_pid, Born
  <2>3. TypeOK'
    <3>1. proc' \in [Pids -> Processes]
      BY <1>4, <2>1 DEF TypeOK, Processes
    <3>2. roots' \in Seq(Pids)
      BY <1>4 DEF TypeOK
    <3>. QED
      BY <1>1, <1>4, <3>1, <3>2 DEF TypeOK, Jobs, Processes
  <2>4. Launched' = Launched \cup {p}
    <3>1. /\ Len(roots) \in Nat /\ DOMAIN roots = 1..Len(roots)
          /\ DOMAIN roots' = 1..(Len(roots) + 1)
          /\ \A i \in 1..Len(roots) : roots'[i] = roots[i]
          /\ roots'[Len(roots) + 1] = p
      BY <1>4, AppendProperties DEF TypeOK
    <3>. QED
      BY <3>1 DEF Launched
  <2>5. tracked_pids' = tracked_pids \cup {p}
    BY <1>1, <2>4 DEF tracked_pids, Jobs
  <2>6. /\ proc'[p] = P
        /\ \A q \in Pids \ {p} : proc'[q] = proc[q]
    BY <1>4 DEF TypeOK
  <2>7. Kin' = Kin \cup {p} /\ Born' = Born \cup {p} /\ Live' = Live \cup {p}
    <3>1. \A q \in Pids : q # p => proc'[q].kin = proc[q].kin /\ proc'[q].st = proc[q].st
      BY <2>6
    <3>2. proc'[p].kin /\ proc'[p].st = "live"
      BY <2>1, <2>6
    <3>. QED
      BY <2>2, <3>1, <3>2 DEF Kin, Born, Live
  <2>8. Adopted'
    <3>1. \A q \in Pids \ Kin' : proc'[q].parent = Outside
      BY <2>6, <2>7 DEF Adopted
    <3>. QED
      BY <1>1, <2>5, <2>7, <3>1 DEF Adopted
  <2>9. Inherited'
    <3>1. SUFFICES ASSUME NEW q \in Pids, proc'[q].parent # Outside
                   PROVE  /\ proc'[q].parent \in Live' \ {q}
                          /\ proc'[q].in /\ q \notin tracked_pids' => proc'[proc'[q].parent].in
      BY DEF Inherited
    <3>2. q # p /\ proc'[q] = proc[q] /\ proc[q].parent # Outside
      BY <2>1, <2>6, <3>1
    <3>3. /\ proc[q].parent \in Live \ {q}
          /\ proc[q].in /\ q \notin tracked_pids => proc[proc[q].parent].in
      BY <3>2 DEF Inherited
    <3>4. proc[q].parent # p /\ proc[q].parent \in Pids
      BY <2>2, <3>3 DEF Live
    <3>. QED
      BY <2>5, <2>6, <2>7, <3>2, <3>3, <3>4
  <2>10. MembersClosed'
    BY <1>4 DEF MembersClosed
  <2>11. Launching'
    <3>1. Len(roots') = Len(roots) + 1
      BY <1>4 DEF TypeOK
    <3>2. Len(roots) = at - 1 /\ at \in Nat
      BY <1>1, CommandsType DEF Launching, TypeOK
    <3>3. at' = at /\ Jobs' = Jobs /\ Len(roots') = at
      BY <1>1, <3>1, <3>2 DEF Jobs
    <3>. QED
      BY <1>1, <1>4, <3>3 DEF Launching, InLoop, Sterner
  <2>. QED
    BY <1>2, <2>3, <2>8, <2>9, <2>10, <2>11
<1>. QED
  BY <1>3, <1>4 DEF Spawn

\* Steps that put processes of the workloads into the cgroup or the scheduling class:
\* each of them is an anchor from then on.
LEMMA Placed ==
    ASSUME GuardInv, scan' \subseteq scan,
           tracked_pids \subseteq tracked_pids', tracked_pids' \subseteq tracked_pids \cup scan,
           \A q \in Pids :
              /\ proc'[q].kin = proc[q].kin /\ proc'[q].parent = proc[q].parent
              /\ proc'[q].st = proc[q].st /\ (proc[q].in => proc'[q].in)
              /\ q \notin tracked_pids' => proc'[q].in = proc[q].in
    PROVE  Adopted' /\ Inherited'
<1>. USE DEF GuardInv
<1>1. Kin' = Kin /\ Born' = Born /\ Live' = Live
  BY DEF Kin, Born, Live
<1>2. Adopted'
  <2>1. tracked_pids' \subseteq Kin \cap Born /\ scan' \subseteq Kin \cap Born
    BY DEF Adopted
  <2>2. \A q \in Pids \ Kin : proc'[q].parent = Outside
    BY DEF Adopted
  <2>. QED
    BY <1>1, <2>1, <2>2 DEF Adopted
<1>3. Inherited'
  <2>1. SUFFICES ASSUME NEW q \in Pids, proc'[q].parent # Outside
                 PROVE  /\ proc'[q].parent \in Live' \ {q}
                        /\ proc'[q].in /\ q \notin tracked_pids' => proc'[proc'[q].parent].in
    BY DEF Inherited
  <2>2. /\ proc'[q].parent = proc[q].parent /\ proc[q].parent \in Live \ {q}
        /\ proc[q].in /\ q \notin tracked_pids => proc[proc[q].parent].in
    BY <2>1 DEF Inherited
  <2>3. proc[q].parent \in Pids
    BY <2>2 DEF Live
  <2>4. ASSUME proc'[q].in, q \notin tracked_pids' PROVE proc'[proc[q].parent].in
    <3>1. proc[q].in /\ q \notin tracked_pids
      BY <2>4
    <3>. QED
      BY <2>2, <2>3, <3>1
  <2>. QED
    BY <1>1, <2>2, <2>4
<1>. QED
  BY <1>2, <1>3

\* Setting flags of a process changes nothing else.
LEMMA FlagsSet ==
    ASSUME proc \in [Pids -> Processes], NEW p \in Pids, NEW i \in BOOLEAN, NEW e \in BOOLEAN,
           proc' = [proc EXCEPT ![p].in = i, ![p].ext = e]
    PROVE  /\ proc' \in [Pids -> Processes]
           /\ proc'[p].in = i
           /\ \A q \in Pids : /\ proc'[q].kin = proc[q].kin /\ proc'[q].parent = proc[q].parent
                              /\ proc'[q].st = proc[q].st
                              /\ q # p => proc'[q] = proc[q]
<1>1. proc' = [proc EXCEPT ![p] = [[proc[p] EXCEPT !.in = i] EXCEPT !.ext = e]]
  BY DEF Processes
<1> DEFINE P == [[proc[p] EXCEPT !.in = i] EXCEPT !.ext = e]
<1>2. /\ P \in Processes /\ P.in = i
      /\ P.kin = proc[p].kin /\ P.parent = proc[p].parent /\ P.st = proc[p].st
  BY DEF Processes
<1>3. proc'[p] = P /\ \A q \in Pids : q # p => proc'[q] = proc[q]
  BY <1>1
<1>4. proc' \in [Pids -> Processes]
  BY <1>1, <1>2
<1>. HIDE DEF P
<1>. QED
  BY <1>2, <1>3, <1>4

\* A child is enrolled.
LEMMA EnrollKeeps ==
    ASSUME GuardInv, Enroll
    PROVE  GuardInv'
<1>. USE DEF GuardInv
<1> DEFINE p == roots[at]
<1>1. /\ commands' = commands /\ roots' = roots /\ switched' = switched /\ scan' = scan
      /\ members' = members /\ blamed' = blamed /\ faults' = faults /\ pc = "enroll"
      /\ known' = [known EXCEPT ![at] = {p}] /\ NextLaunch
  BY DEF Enroll
<1>2. p \in Pids /\ p \in Launched /\ at \in 1..Len(roots)
  BY <1>1, RootType
<1>3. /\ Len(commands) \in Nat /\ Jobs = 1..Len(commands) /\ Len(commands) >= 1
      /\ at \in Jobs /\ at \in Nat
  BY CommandsType DEF TypeOK
<1>4. proc' \in [Pids -> Processes] /\
      \A q \in Pids :
         /\ proc'[q].kin = proc[q].kin /\ proc'[q].parent = proc[q].parent
         /\ proc'[q].st = proc[q].st /\ (proc[q].in => proc'[q].in)
         /\ q # p => proc'[q].in = proc[q].in
  <2>1. proc \in [Pids -> Processes]
    BY DEF TypeOK, Processes
  <2>2. CASE proc' = proc
    BY <2>1, <2>2
  <2>3. CASE proc' = [proc EXCEPT ![p].in = TRUE, ![p].ext = TRUE]
    <3>. HIDE DEF p
    <3>. QED
      BY <1>2, <2>1, <2>3, FlagsSet
  <2>. QED
    BY <2>2, <2>3 DEF Enroll
<1>5. tracked_pids' = tracked_pids
  <2>1. Launched' = Launched /\ Jobs' = Jobs
    BY <1>1 DEF Launched, Jobs
  <2>2. known[at] = {} /\ known \in [Jobs -> SUBSET Pids]
    BY <1>1, <1>3 DEF Launching, TypeOK
  <2>3. known'[at] = {p} /\ \A i \in Jobs : i # at => known'[i] = known[i]
    <3>. HIDE DEF p
    <3>. QED
      BY <1>1, <1>3, <2>2
  <2>4. UNION {known'[i] : i \in Jobs} \subseteq {p} \cup UNION {known[i] : i \in Jobs}
    <3>. HIDE DEF p
    <3>. QED
      BY <2>3
  <2>5. UNION {known[i] : i \in Jobs} \subseteq UNION {known'[i] : i \in Jobs}
    <3>1. \A i \in Jobs : known[i] \subseteq known'[i]
      BY <2>2, <2>3
    <3>. QED
      BY <3>1
  <2>. QED
    BY <1>2, <2>1, <2>4, <2>5 DEF tracked_pids
<1>6. /\ at' \in Jobs /\ pc' \in {"spawn", "sync"}
      /\ pc' = "spawn" => at' = at + 1 /\ Len(roots) = at' - 1
      /\ pc' = "sync" => Len(roots) = Len(commands)
  <2>1. Len(roots) = at
    BY <1>1 DEF Launching
  <2>. QED
    BY <1>1, <1>3, <2>1 DEF NextLaunch
<1>7. TypeOK'
  <2>1. known' \in [Jobs -> SUBSET Pids]
    BY <1>1, <1>2 DEF TypeOK
  <2>. QED
    BY <1>1, <1>4, <1>6, <2>1 DEF TypeOK, Jobs, Processes
<1>8. Adopted' /\ Inherited'
  <2>1. p \in tracked_pids
    BY <1>2 DEF tracked_pids
  <2>. HIDE DEF p
  <2>. QED
    BY <1>1, <1>4, <1>5, <2>1, Placed
<1>9. MembersClosed' /\ Blamed' /\ GuardSound'
  BY <1>1, <1>6, Blameless DEF MembersClosed
<1>10. Launching'
  <2>1. pc' = "spawn" => \A i \in Jobs : i >= at' => known'[i] = {}
    <3>1. SUFFICES ASSUME pc' = "spawn", NEW i \in Jobs, i >= at' PROVE known'[i] = {}
      OBVIOUS
    <3>2. i # at /\ i >= at
      BY <1>3, <1>6, <3>1
    <3>3. known[i] = {}
      BY <1>1, <3>2 DEF Launching
    <3>. QED
      BY <1>1, <3>2, <3>3 DEF TypeOK
  <2>2. Jobs' = Jobs
    BY <1>1 DEF Jobs
  <2>. QED
    BY <1>1, <1>6, <2>1, <2>2 DEF Launching, InLoop, Sterner
<1>. QED
  BY <1>7, <1>8, <1>9, <1>10

\* A child that cannot be enrolled is killed.
LEMMA EnrollFailsKeeps ==
    ASSUME GuardInv, EnrollFails
    PROVE  GuardInv'
<1>. USE DEF GuardInv
<1> DEFINE p == roots[at]
<1>1. /\ proc' = Ended(p, "gone") /\ pc = "enroll" /\ pc' = "failed" /\ at' = at
      /\ tables' = tables /\ scan' = scan /\ members' = members /\ blamed' = blamed
      /\ faults' = IF p \in Live THEN faults + 1 ELSE faults
      /\ p \notin Live \/ faults < MaxFaults
  BY DEF EnrollFails
<1>2. p \in Pids /\ p \in Born
  <2>1. p \in Pids /\ p \in tracked_pids
    BY <1>1, RootType DEF tracked_pids
  <2>. QED
    BY <2>1 DEF Adopted
<1>. HIDE DEF p
<1>3. TypeOK'
  <2>1. proc' \in [Pids -> Processes]
    BY <1>1, <1>2, EndedType DEF TypeOK, Processes
  <2>2. faults' \in 0..MaxFaults
    BY <1>1, CommandsAssumption DEF TypeOK
  <2>. QED
    BY <1>1, <2>1, <2>2 DEF TypeOK, tables, Jobs, Processes
<1>4. Adopted' /\ Inherited'
  BY <1>1, <1>2, KeptByEnd
<1>5. Launching' /\ MembersClosed'
  BY <1>1 DEF Launching, MembersClosed, InLoop, Sterner
<1>. QED
  BY <1>1, <1>3, <1>4, <1>5, Blameless

\* A child that does not run exec in time is left to itself.
LEMMA ExecTimeoutKeeps ==
    ASSUME GuardInv, ExecTimeout
    PROVE  GuardInv'
<1>. USE DEF GuardInv
<1>1. /\ proc' = proc /\ pc = "enroll" /\ pc' = "failed" /\ at' = at
      /\ tables' = tables /\ scan' = scan /\ members' = members /\ blamed' = blamed
      /\ faults < MaxFaults /\ faults' = faults + 1
  BY DEF ExecTimeout, Fault
<1>2. TypeOK'
  <2>1. faults' \in 0..MaxFaults
    BY <1>1, CommandsAssumption DEF TypeOK
  <2>. QED
    BY <1>1, <2>1 DEF TypeOK, tables, Jobs
<1>3. Adopted' /\ Inherited'
  BY <1>1, Still
<1>4. Launching' /\ MembersClosed'
  BY <1>1 DEF Launching, MembersClosed, InLoop, Sterner
<1>. QED
  BY <1>1, <1>2, <1>3, <1>4, Blameless

\* The next adopter, or the guard after the last one.
LEMMA NextAdopterType ==
    ASSUME GuardInv, NextAdopter, pc \in {"sync", "adopt"}
    PROVE  at' \in Jobs /\ pc' \in {"sync", "guard"}
<1>. USE DEF GuardInv
<1>1. /\ Len(commands) \in Nat /\ Jobs = 1..Len(commands) /\ Len(commands) >= 1
      /\ at \in Jobs /\ at \in Nat
  BY CommandsType DEF TypeOK
<1>2. Len(roots) = Len(commands)
  BY DEF Launching, InLoop
<1>. QED
  BY <1>1, <1>2 DEF NextAdopter

\* Past the launches, their bookkeeping stays as it is.
LEMMA LaunchedAll ==
    ASSUME GuardInv, InLoop \/ pc \in DOMAIN Sterner, roots' = roots, commands' = commands,
           pc' \notin {"start", "spawn", "enroll"}
    PROVE  Launching'
  BY DEF GuardInv, Launching, InLoop, Sterner

\* An adopter begins a scan: what it collects is of the workloads.
LEMMA BeginScanKeeps ==
    ASSUME GuardInv, BeginScan(at)
    PROVE  GuardInv'
<1>. USE DEF GuardInv
<1>1. /\ proc' = proc /\ pc = "sync" /\ pc' = "adopt" /\ at' = at /\ tables' = tables
      /\ members' = members /\ blamed' = blamed /\ faults' = faults
      /\ scan' = collect_descendant_processes(roots[at])
  BY DEF BeginScan
<1>2. scan' \subseteq Kin \cap Born
  <2>1. roots[at] \in Kin
    BY <1>1, RootType DEF Adopted, tracked_pids
  <2>2. {q \in Live : proc[q].viaMain} \in SUBSET Pids
    BY DEF Live
  <2>3. Reached({roots[at]}, {q \in Live : proc[q].viaMain}) \subseteq Kin
    BY <2>1, <2>2, KinReached
  <2>4. Present \subseteq Born
    BY DEF Present, Born
  <2>. QED
    BY <1>1, <2>3, <2>4 DEF collect_descendant_processes
<1>3. tracked_pids' = tracked_pids
  BY <1>1 DEF tables, tracked_pids, Launched, Jobs
<1>4. Kin' = Kin /\ Born' = Born /\ Live' = Live
  BY <1>1 DEF Kin, Born, Live
<1>5. Adopted' /\ Inherited'
  BY <1>1, <1>2, <1>3, <1>4 DEF Adopted, Inherited
<1>6. TypeOK'
  BY <1>1, <1>2 DEF TypeOK, tables, Jobs, Kin
<1>7. Launching'
  BY <1>1, LaunchedAll DEF InLoop, tables
<1>8. MembersClosed'
  BY <1>1 DEF MembersClosed
<1>. QED
  BY <1>1, <1>5, <1>6, <1>7, <1>8, Blameless

\* A scan that is skipped or over.
LEMMA NextAdopterKeeps ==
    ASSUME GuardInv, SkipScan \/ EndScan
    PROVE  GuardInv'
<1>. USE DEF GuardInv
<1>1. /\ proc' = proc /\ pc \in {"sync", "adopt"} /\ NextAdopter /\ tables' = tables /\ scan' = scan
      /\ members' = members /\ blamed' = blamed /\ faults' = faults
  BY DEF SkipScan, EndScan
<1>2. at' \in Jobs /\ pc' \in {"sync", "guard"}
  BY <1>1, NextAdopterType
<1>3. TypeOK'
  BY <1>1, <1>2 DEF TypeOK, tables, Jobs
<1>4. Adopted' /\ Inherited'
  BY <1>1, Still
<1>5. Launching' /\ MembersClosed'
  BY <1>1, <1>2, LaunchedAll DEF InLoop, tables, MembersClosed
<1>. QED
  BY <1>1, <1>3, <1>4, <1>5, Blameless

\* A collected process is adopted, with or without faults.
LEMMA AdoptOneKeeps ==
    ASSUME GuardInv, NEW p \in Pids, AdoptOne(p)
    PROVE  GuardInv'
<1>. USE DEF GuardInv
<1> DEFINE toMove == p \notin known[at] /\ ~proc[p].in
           toSwitch == p \notin switched[at]
<1>1. PICK moved \in BOOLEAN, done \in BOOLEAN :
         /\ moved => toMove
         /\ IF moved = toMove /\ done = toSwitch THEN UNCHANGED faults ELSE Fault
         /\ known' = [known EXCEPT ![at] = IF toMove /\ ~moved THEN @ ELSE @ \cup {p}]
         /\ switched' = [switched EXCEPT ![at] = Switched(p, done \/ ~toSwitch)]
         /\ proc' = [proc EXCEPT ![p].in = @ \/ moved, ![p].ext = @ \/ done]
  BY Zenon DEF AdoptOne
<1>2. /\ pc = "adopt" /\ pc' = pc /\ p \in scan /\ scan' = scan \ {p} /\ commands' = commands
      /\ at' = at /\ roots' = roots /\ members' = members /\ blamed' = blamed
  BY DEF AdoptOne
<1>3. at \in Jobs /\ known \in [Jobs -> SUBSET Pids] /\ switched \in [Jobs -> SUBSET Pids]
      /\ Jobs' = Jobs
  BY <1>2 DEF TypeOK, Jobs
<1>4. /\ proc' \in [Pids -> Processes]
      /\ proc'[p].in = (proc[p].in \/ moved)
      /\ \A q \in Pids : /\ proc'[q].kin = proc[q].kin /\ proc'[q].parent = proc[q].parent
                         /\ proc'[q].st = proc[q].st
                         /\ q # p => proc'[q] = proc[q]
  <2> DEFINE i == proc[p].in \/ moved
             e == proc[p].ext \/ done
  <2>1. i \in BOOLEAN /\ e \in BOOLEAN
    OBVIOUS
  <2>2. proc' = [proc EXCEPT ![p].in = i, ![p].ext = e]
    BY <1>1 DEF TypeOK
  <2>3. proc \in [Pids -> Processes]
    BY DEF TypeOK, Processes
  <2>4. proc'[p].in = i
    <3>. HIDE DEF i, e
    <3>. QED
      BY <2>1, <2>2, <2>3, FlagsSet
  <2>5. /\ proc' \in [Pids -> Processes]
        /\ \A q \in Pids : /\ proc'[q].kin = proc[q].kin /\ proc'[q].parent = proc[q].parent
                           /\ proc'[q].st = proc[q].st
                           /\ q # p => proc'[q] = proc[q]
    <3>. HIDE DEF i, e
    <3>. QED
      BY <2>1, <2>2, <2>3, FlagsSet
  <2>. QED
    BY <2>4, <2>5
<1>5. /\ known' \in [Jobs -> SUBSET Pids]
      /\ known'[at] = IF toMove /\ ~moved THEN known[at] ELSE known[at] \cup {p}
      /\ \A i \in Jobs : i # at => known'[i] = known[i]
  BY <1>1, <1>3
<1>6. switched' \in [Jobs -> SUBSET Pids]
  <2>1. Switched(p, done \/ ~toSwitch) \in SUBSET Pids
    BY <1>3 DEF Switched
  <2>. HIDE DEF toSwitch
  <2>. QED
    BY <1>1, <1>3, <2>1
<1>7. Launched' = Launched
  BY <1>2 DEF Launched
<1>8. /\ tracked_pids \subseteq tracked_pids' /\ tracked_pids' \subseteq tracked_pids \cup scan
      /\ p \notin tracked_pids' => p \notin known'[at]
  <2>1. \A i \in Jobs : known[i] \subseteq known'[i] /\ known'[i] \subseteq known[i] \cup {p}
    BY <1>5
  <2>2. tracked_pids' = Launched \cup UNION {known'[i] : i \in Jobs}
    BY <1>3, <1>7 DEF tracked_pids
  <2>. QED
    BY <1>2, <1>3, <2>1, <2>2 DEF tracked_pids
<1>9. \A q \in Pids : q \notin tracked_pids' => proc'[q].in = proc[q].in
  <2>1. SUFFICES ASSUME p \notin tracked_pids' PROVE proc'[p].in = proc[p].in
    BY <1>4
  <2>2. toMove /\ ~moved
    BY <1>5, <1>8, <2>1
  <2>3. proc[p].in \in BOOLEAN
    BY DEF TypeOK
  <2>. QED
    BY <1>4, <2>2, <2>3
<1>10. Adopted' /\ Inherited'
  <2>1. \A q \in Pids : proc[q].in => proc'[q].in
    BY <1>4
  <2>. QED
    BY <1>2, <1>4, <1>8, <1>9, <2>1, Placed
<1>11. TypeOK'
  <2>1. faults' \in 0..MaxFaults
    BY <1>1, CommandsAssumption DEF Fault, TypeOK
  <2>. QED
    BY <1>2, <1>3, <1>4, <1>5, <1>6, <2>1 DEF TypeOK, Processes
<1>12. Launching' /\ MembersClosed'
  BY <1>2, LaunchedAll DEF InLoop, MembersClosed
<1>. QED
  BY <1>2, <1>10, <1>11, <1>12, Blameless

\* A collected process has exited.
LEMMA AdoptLateKeeps ==
    ASSUME GuardInv, NEW p \in Pids, AdoptLate(p)
    PROVE  GuardInv'
<1>. USE DEF GuardInv
<1>1. /\ proc' = proc /\ pc = "adopt" /\ pc' = pc /\ tables' = tables /\ scan' = scan \ {p}
      /\ at' = at /\ members' = members /\ blamed' = blamed /\ faults' = faults
  BY DEF AdoptLate
<1>2. TypeOK'
  BY <1>1 DEF TypeOK, tables, Jobs
<1>3. Adopted' /\ Inherited'
  BY <1>1, Still
<1>4. Launching' /\ MembersClosed'
  BY <1>1, LaunchedAll DEF InLoop, tables, MembersClosed
<1>. QED
  BY <1>1, <1>2, <1>3, <1>4, Blameless

\* The guard reads the members of the cgroup, with their parents among them.
LEMMA ReadMembersKeeps ==
    ASSUME GuardInv, ReadMembers
    PROVE  GuardInv'
<1>. USE DEF GuardInv
<1>1. /\ proc' = proc /\ pc = "guard" /\ tables' = tables /\ scan' = scan
      /\ at' = at /\ blamed' = blamed /\ faults' = faults
      /\ \/ members' = Cgroup /\ pc' = "check"
         \/ members' = {} /\ pc' = "wait"
  BY DEF ReadMembers
<1>2. Cgroup \subseteq Born /\ Cgroup \subseteq Pids
  BY DEF Cgroup, Live, Born
<1>3. TypeOK'
  BY <1>1, <1>2 DEF TypeOK, tables, Jobs
<1>4. Adopted' /\ Inherited'
  BY <1>1, Still
<1>5. MembersClosed'
  <2>1. tracked_pids' = tracked_pids /\ Born' = Born
    BY <1>1 DEF tables, tracked_pids, Launched, Jobs, Born
  <2>2. ASSUME NEW p \in Cgroup \ tracked_pids, proc[p].parent # Outside
        PROVE  proc[p].parent \in Cgroup
    BY <1>2, <2>2 DEF Inherited, Cgroup
  <2>. QED
    BY <1>1, <1>2, <2>1, <2>2 DEF MembersClosed
<1>6. Launching'
  BY <1>1, LaunchedAll DEF InLoop, tables
<1>. QED
  BY <1>1, <1>3, <1>4, <1>5, <1>6, Blameless

\* The guard checks what it has read.
LEMMA CheckKeeps ==
    ASSUME GuardInv, assert_runtime_membership
    PROVE  GuardInv'
<1>. USE DEF GuardInv
<1>1. /\ proc' = proc /\ pc = "check" /\ tables' = tables /\ scan' = scan
      /\ at' = at /\ members' = {} /\ faults' = faults
      /\ blamed' = {p \in members : ~is_managed_cgroup_member(p)}
      /\ pc' = IF blamed' = {} THEN "wait" ELSE "failed"
  BY DEF assert_runtime_membership
<1>2. TypeOK'
  BY <1>1 DEF TypeOK, tables, Jobs
<1>3. Adopted' /\ Inherited'
  BY <1>1, Still
<1>4. MembersClosed' /\ Blamed'
  BY <1>1 DEF MembersClosed, Blamed
<1>5. Launching'
  BY <1>1, LaunchedAll DEF InLoop, tables
<1>6. GuardSound'
  <2>1. \A p \in blamed' : p \notin Reached(tracked_pids, Pids)
    BY <1>1, MembersReached DEF is_managed_cgroup_member
  <2>2. Reached(tracked_pids, Pids)' = Reached(tracked_pids, Pids)
    BY <1>1 DEF tables, tracked_pids, Launched, Jobs, Reached, proc_ppid, Present
  <2>. QED
    BY <2>1, <2>2 DEF GuardSound, tracked_pids
<1>. QED
  BY <1>2, <1>3, <1>4, <1>5, <1>6

\* Children that have exited are waited for.
LEMMA TryWaitKeeps ==
    ASSUME GuardInv, TryWait
    PROVE  GuardInv'
<1>. USE DEF GuardInv
<1>1. /\ pc = "wait" /\ pc' \in {"sync", "sigint"} /\ tables' = tables /\ scan' = scan
      /\ at' = at /\ members' = members /\ blamed' = blamed /\ faults' = faults
      /\ proc' = [p \in Pids |-> IF proc[p].st = "zombie" THEN [proc[p] EXCEPT !.st = "gone"]
                                 ELSE proc[p]]
  BY DEF TryWait
<1>2. /\ proc' \in [Pids -> Processes]
      /\ \A q \in Pids : /\ proc'[q].kin = proc[q].kin /\ proc'[q].in = proc[q].in
                         /\ proc'[q].parent = proc[q].parent
                         /\ proc'[q].st = IF proc[q].st = "zombie" THEN "gone" ELSE proc[q].st
  BY <1>1 DEF TypeOK, Processes
<1>3. TypeOK'
  BY <1>1, <1>2 DEF TypeOK, tables, Jobs, Processes
<1>4. Adopted' /\ Inherited'
  <2>1. tracked_pids' = tracked_pids
    BY <1>1 DEF tables, tracked_pids, Launched, Jobs
  <2>2. \A q \in Pids : proc[q].parent # Outside =>
           proc[q].parent \in Pids /\ proc'[proc[q].parent].st = "live"
    BY <1>2 DEF Inherited, Live
  <2>3. \A q \in Pids : proc'[q].st = "unborn" => proc[q].st = "unborn"
    BY <1>2
  <2>. QED
    BY <1>1, <1>2, <2>1, <2>2, <2>3, Kept
<1>5. Launching' /\ MembersClosed'
  BY <1>1, LaunchedAll DEF InLoop, tables, MembersClosed
<1>. QED
  BY <1>1, <1>3, <1>4, <1>5, Blameless

\* A child is signalled, or is over and waited for.
LEMMA ShutdownKeeps ==
    ASSUME GuardInv, shutdown_child_gracefully
    PROVE  GuardInv'
<1>. USE DEF GuardInv
<1> DEFINE p == roots[at]
<1>1. /\ pc \in {"sigint", "sigterm", "sigkill"} /\ tables' = tables /\ scan' = scan
      /\ members' = members /\ blamed' = blamed /\ faults' = faults
      /\ \/ pc' = Sterner[pc] /\ proc' = proc /\ at' = at
         \/ /\ proc' = Ended(p, "gone")
            /\ \/ at < Len(roots) /\ at' = at + 1 /\ pc' = "sigint"
               \/ at' = at /\ pc' = "returned"
  BY DEF shutdown_child_gracefully, Sterner
<1>2. p \in Pids /\ p \in Born /\ at \in 1..Len(roots)
  <2>1. p \in Pids /\ p \in tracked_pids /\ at \in 1..Len(roots)
    BY <1>1, RootType DEF tracked_pids
  <2>. QED
    BY <2>1 DEF Adopted
<1>. HIDE DEF p
<1>3. /\ at' \in Jobs /\ pc' \in {"sigint", "sigterm", "sigkill", "returned"}
  <2>1. Len(commands) \in Nat /\ Jobs = 1..Len(commands) /\ at \in Jobs /\ at \in Nat
    BY CommandsType DEF TypeOK
  <2>2. Len(roots) = Len(commands)
    BY <1>1 DEF Launching, Sterner
  <2>. QED
    BY <1>1, <2>1, <2>2 DEF Sterner
<1>4. proc' \in [Pids -> Processes] /\ Adopted' /\ Inherited'
  <2>1. proc \in [Pids -> Processes]
    BY DEF TypeOK, Processes
  <2>2. CASE proc' = proc
    BY <1>1, <2>1, <2>2, Still
  <2>3. CASE proc' = Ended(p, "gone")
    BY <1>1, <1>2, <2>1, <2>3, EndedType, KeptByEnd
  <2>. QED
    BY <1>1, <2>2, <2>3
<1>5. TypeOK'
  BY <1>1, <1>3, <1>4 DEF TypeOK, tables, Jobs, Processes
<1>6. Launching' /\ MembersClosed'
  BY <1>1, <1>3, LaunchedAll DEF Sterner, tables, MembersClosed
<1>. QED
  BY <1>1, <1>4, <1>5, <1>6, Blameless
-----------------------------------------------------------------------------
(* The theorems.                                                           *)

\* The invariant holds at the start: whoever is in the cgroup is foreign.
LEMMA GuardInvInit == Init => GuardInv
<1>. SUFFICES ASSUME Init PROVE GuardInv
  OBVIOUS
<1>1. TypeOK
  BY TypeInit
<1>2. PICK strays \in 0..MaxIntruders :
        proc = [p \in Pids |-> IF p <= strays THEN Stranger ELSE Unborn]
  BY DEF Init
<1>3. /\ Stranger.parent = Outside /\ Unborn.parent = Outside
      /\ Stranger.kin = FALSE /\ Unborn.st = "unborn"
  BY DEF Stranger, Unborn, Process
<1>4. \A p \in Pids : /\ proc[p].parent = Outside
                      /\ proc[p].kin = FALSE \/ proc[p].st = "unborn"
  BY <1>2, <1>3
<1>5. Launched = {} /\ tracked_pids = {}
  <2>1. Launched = {}
    BY DEF Init, Launched
  <2>2. \A i \in Jobs : known[i] = {}
    BY DEF Init
  <2>. QED
    BY <2>1, <2>2 DEF tracked_pids
<1>6. Launching
  <2>1. Kin \cap Born = {}
    BY <1>4 DEF Kin, Born
  <2>. QED
    BY <2>1 DEF Init, Launching, InLoop, Sterner
<1>7. Adopted /\ Inherited
  BY <1>4, <1>5 DEF Init, Adopted, Inherited
<1>8. MembersClosed /\ Blamed /\ GuardSound
  BY DEF Init, MembersClosed, Blamed, GuardSound
<1>. QED
  BY <1>1, <1>6, <1>7, <1>8 DEF GuardInv

\* Every step keeps the invariant.
LEMMA GuardInvStep == GuardInv /\ [Next]_vars => GuardInv'
<1>. SUFFICES ASSUME GuardInv, [Next]_vars PROVE GuardInv'
  OBVIOUS
<1>1. CASE Run
  <2>1. ASSUME NEW p \in Pids, AdoptOne(p) \/ AdoptLate(p) PROVE GuardInv'
    BY <2>1, AdoptOneKeeps, AdoptLateKeeps
  <2>. QED
    BY <1>1, <2>1, CleanStartKeeps, SpawnKeeps, EnrollKeeps, EnrollFailsKeeps,
       ExecTimeoutKeeps, BeginScanKeeps, NextAdopterKeeps, ReadMembersKeeps, CheckKeeps,
       TryWaitKeeps, ShutdownKeeps
    DEF Run
<1>2. CASE Environment
  <2>1. ASSUME NEW p \in Pids, NEW c \in Pids, Fork(p, c) PROVE GuardInv'
    BY <2>1, ForkKeeps
  <2>2. ASSUME NEW p \in Pids, Exit(p) \/ Intrude(p) PROVE GuardInv'
    BY <2>2, ExitKeeps, IntrudeKeeps
  <2>. QED
    BY <1>2, <2>1, <2>2 DEF Environment
<1>3. CASE UNCHANGED vars
  <2>. USE DEF GuardInv
  <2>1. /\ proc' = proc /\ pc' = pc /\ at' = at /\ tables' = tables /\ scan' = scan
        /\ members' = members /\ blamed' = blamed /\ faults' = faults
    BY <1>3 DEF vars
  <2>2. /\ tracked_pids' = tracked_pids /\ Kin' = Kin /\ Born' = Born /\ Live' = Live
        /\ Jobs' = Jobs
    BY <2>1 DEF tables, tracked_pids, Launched, Jobs, Kin, Born, Live
  <2>3. TypeOK' /\ Launching'
    BY <2>1, <2>2 DEF tables, TypeOK, Launching, InLoop
  <2>4. Adopted' /\ Inherited' /\ MembersClosed' /\ Blamed'
    BY <2>1, <2>2 DEF Adopted, Inherited, MembersClosed, Blamed
  <2>5. GuardSound'
    <3>1. Reached(tracked_pids, Pids)' = Reached(tracked_pids, Pids)
      BY <2>1, <2>2 DEF Reached, proc_ppid, Present
    <3>. QED
      BY <2>1, <3>1 DEF GuardSound, tracked_pids
  <2>. QED
    BY <2>3, <2>4, <2>5
<1>. QED
  BY <1>1, <1>2, <1>3 DEF Next

\* The process table, the adopters' tables and the step of run keep their types.
THEOREM WorkloadsTypeCorrect == Spec => []TypeOK
<1>1. GuardInv => TypeOK
  BY DEF GuardInv
<1>. QED
  BY <1>1, GuardInvInit, GuardInvStep, PTL DEF Spec

\* The guard (assert_runtime_membership) never blames a process that an adopter has
\* taken in or whose parents lead to one, whatever forks and exits happen between
\* its reading the members and their parents.
THEOREM GuardSoundCorrect == Spec => []GuardSound
<1>1. GuardInv => GuardSound
  BY DEF GuardInv
<1>. QED
  BY <1>1, GuardInvInit, GuardInvStep, PTL DEF Spec

\* A foreign process among the members that the guard has read ends run, whatever
\* the adopters have taken in.
THEOREM GuardCatchesCorrect == Spec => GuardCatches
<1>1. GuardInv /\ [Next]_vars =>
        [pc = "check" /\ pc' # "check" /\ (\E p \in members : ~proc[p].kin) => pc' = "failed"]_vars
  <2>1. SUFFICES ASSUME GuardInv, [Next]_vars, pc = "check", pc' # "check",
                        NEW p \in members, ~proc[p].kin
                 PROVE  pc' = "failed"
    OBVIOUS
  <2>2. assert_runtime_membership
    BY <2>1 DEF Next, Run, Environment, vars, assert_clean_start, Spawn, Enroll, EnrollFails,
         ExecTimeout, BeginScan, SkipScan, AdoptOne, AdoptLate, EndScan, ReadMembers, TryWait,
         shutdown_child_gracefully, Sterner, Fork, Exit, Intrude
  <2>3. p \in Pids /\ p \notin Kin
    BY <2>1 DEF GuardInv, TypeOK, Kin
  <2>4. Reached(tracked_pids, members) \subseteq Kin
    <3>1. tracked_pids \in SUBSET Kin /\ members \in SUBSET Pids
      BY <2>1 DEF GuardInv, Adopted, TypeOK
    <3>. QED
      BY <2>1, <3>1, KinReached DEF GuardInv
  <2>5. p \in blamed'
    BY <2>1, <2>2, <2>3, <2>4 DEF assert_runtime_membership, is_managed_cgroup_member
  <2>. QED
    BY <2>2, <2>5 DEF assert_runtime_membership
<1>. QED
  BY <1>1, GuardInvInit, GuardInvStep, PTL DEF Spec, GuardCatches
=============================================================================
