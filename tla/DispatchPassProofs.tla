-------------------------- MODULE DispatchPassProofs --------------------------
(***************************************************************************)
(* Proofs about DispatchPass, for any machine, any number of threads and   *)
(* waiting messages, any masks, CPU states and plans.                      *)
(***************************************************************************)
EXTENDS DispatchPass, TLAPS, FiniteSetTheorems, WellFoundedInduction

-----------------------------------------------------------------------------
(* Minima exist.                                                           *)

\* A set of naturals that is not empty has a least element.
LEMMA NatMin ==
    ASSUME NEW T \in SUBSET Nat, T # {}
    PROVE  \E x \in T : \A y \in T : x <= y
<1> DEFINE R == OpToRel(<, Nat)
<1>1. \E x \in T : \A y \in T : ~(<<y, x>> \in R)
  BY NatLessThanWellFounded, WFMin
<1>2. \A x, y \in Nat : (<<y, x>> \in R) <=> y < x
  BY DEF OpToRel
<1> HIDE DEF R
<1>3. PICK x \in T : \A y \in T : ~(<<y, x>> \in R)
  BY <1>1
<1>4. ASSUME NEW y \in T PROVE x <= y
  <2>1. ~(y < x)
    BY <1>2, <1>3
  <2>2. QED
    BY <2>1
<1>5. QED
  BY <1>4

\* A function to the naturals has a least value on a set that is not empty.
LEMMA ValueMin ==
    ASSUME NEW S, S # {}, NEW f \in [S -> Nat]
    PROVE  \E x \in S : \A y \in S : f[x] <= f[y]
<1> DEFINE T == {f[x] : x \in S}
<1>1. T \in SUBSET Nat /\ T # {}
  OBVIOUS
<1>2. PICK m \in T : \A y \in T : m <= y
  BY <1>1, NatMin
<1>3. QED
  BY <1>2

\* A set of positions of a queue that is not empty has a last element.
LEMMA PositionMax ==
    ASSUME NEW n \in Nat, NEW S \in SUBSET (1..n), S # {}
    PROVE  \E x \in S : \A y \in S : y <= x
<1> DEFINE f == [x \in S |-> n - x]
<1>1. f \in [S -> Nat]
  OBVIOUS
<1>2. PICK x \in S : \A y \in S : f[x] <= f[y]
  BY <1>1, ValueMin
<1>3. QED
  BY <1>2

-----------------------------------------------------------------------------
(* The choices of policy/cpu_select.rs.                                    *)

\* What the choices read is well typed.
SelectType == view \in [Cpus -> CpuStateValue] /\ jobs \in [Cpus -> SUBSET Tids]

\* The planned jobs of a CPU are counted, and a CPU has none or some.
LEMMA JobsCount ==
    ASSUME SelectType, NEW c \in Cpus
    PROVE  /\ planned_jobs_len(c) \in Nat
           /\ planned_jobs_len(c) = 0 <=> jobs[c] = {}
<1>1. IsFiniteSet(jobs[c])
  BY TopologyAssumption, FS_Subset DEF SelectType
<1>2. QED
  BY <1>1, FS_CardinalityType, FS_EmptySet DEF planned_jobs_len

\* choose_cpu_in_domain gives a CPU of the domain, and passes over no idle CPU that
\* no other thread has and that fewer jobs are planned for.
LEMMA ChooseCpuIn ==
    ASSUME SelectType, NEW d, NEW cpus \in SUBSET Cpus, NEW t,
           NEW c \in choose_cpu_in_domain(d, cpus, t)
    PROVE  /\ c \in InDomain(cpus, d)
           /\ \A e \in InDomain(cpus, d) :
                effectively_idle_cpu(e) /\ ~TakenByOther(e, t)
                => planned_jobs_len(c) <= planned_jobs_len(e)
<1> DEFINE rank(x) == IF effectively_idle_cpu(x) THEN 0 ELSE 1
           taken(x) == IF TakenByOther(x, t) THEN 1 ELSE 0
           A == Least(InDomain(cpus, d), rank)
           B == Least(A, taken)
<1>1. c \in Least(B, planned_jobs_len)
  BY DEF choose_cpu_in_domain
<1>2. c \in B /\ \A e \in B : planned_jobs_len(c) <= planned_jobs_len(e)
  BY <1>1 DEF Least
<1>3. A \subseteq InDomain(cpus, d) /\ B \subseteq A
  BY DEF Least
<1>4. ASSUME NEW e \in InDomain(cpus, d), effectively_idle_cpu(e), ~TakenByOther(e, t)
      PROVE  e \in B
  <2>1. e \in A
    BY <1>4 DEF Least
  <2>2. QED
    BY <1>4, <2>1 DEF Least
<1>5. QED
  BY <1>2, <1>3, <1>4

\* It finds a CPU whenever the domain has one.
LEMMA ChooseCpuSome ==
    ASSUME SelectType, NEW d, NEW cpus \in SUBSET Cpus, NEW t, InDomain(cpus, d) # {}
    PROVE  choose_cpu_in_domain(d, cpus, t) # {}
<1> DEFINE rank(x) == IF effectively_idle_cpu(x) THEN 0 ELSE 1
           taken(x) == IF TakenByOther(x, t) THEN 1 ELSE 0
           D == InDomain(cpus, d)
           A == Least(D, rank)
           B == Least(A, taken)
           f == [x \in D |-> rank(x)]
           g == [x \in A |-> taken(x)]
           h == [x \in B |-> planned_jobs_len(x)]
<1>1. A # {}
  <2>1. f \in [D -> Nat]
    OBVIOUS
  <2>2. PICK x \in D : \A y \in D : f[x] <= f[y]
    BY <2>1, ValueMin
  <2>3. \A y \in D : rank(x) <= rank(y)
    BY <2>2
  <2>4. QED
    BY <2>3 DEF Least
<1>2. B # {}
  <2>1. g \in [A -> Nat]
    OBVIOUS
  <2>2. PICK x \in A : \A y \in A : g[x] <= g[y]
    BY <1>1, <2>1, ValueMin
  <2>3. \A y \in A : taken(x) <= taken(y)
    BY <2>2
  <2>4. QED
    BY <2>3 DEF Least
<1>3. B \subseteq Cpus
  BY DEF Least, InDomain
<1>4. Least(B, planned_jobs_len) # {}
  <2>1. h \in [B -> Nat]
    BY <1>3, JobsCount
  <2>2. PICK x \in B : \A y \in B : h[x] <= h[y]
    BY <1>2, <2>1, ValueMin
  <2>3. \A y \in B : planned_jobs_len(x) <= planned_jobs_len(y)
    BY <2>2
  <2>4. QED
    BY <2>3 DEF Least
<1>5. QED
  BY <1>4 DEF choose_cpu_in_domain

\* choose_idle_cpu_in_domain gives an idle CPU of the domain with the fewest planned
\* jobs, if there is an idle one.
LEMMA ChooseIdleIn ==
    ASSUME SelectType, NEW d, NEW cpus \in SUBSET Cpus,
           NEW c \in choose_idle_cpu_in_domain(d, cpus)
    PROVE  /\ c \in InDomain(cpus, d)
           /\ \A e \in InDomain(cpus, d) :
                effectively_idle_cpu(e) => planned_jobs_len(c) <= planned_jobs_len(e)
BY DEF choose_idle_cpu_in_domain, Least

\* An idle CPU of the domain is enough for the choice to find one.
LEMMA ChooseIdleSome ==
    ASSUME SelectType, NEW d, NEW cpus \in SUBSET Cpus,
           NEW e \in InDomain(cpus, d), effectively_idle_cpu(e)
    PROVE  choose_idle_cpu_in_domain(d, cpus) # {}
<1> DEFINE D == {c \in InDomain(cpus, d) : effectively_idle_cpu(c)}
           h == [x \in D |-> planned_jobs_len(x)]
<1>1. h \in [D -> Nat] /\ D # {}
  BY JobsCount DEF InDomain
<1>2. PICK x \in D : \A y \in D : h[x] <= h[y]
  BY <1>1, ValueMin
<1>3. \A y \in D : planned_jobs_len(x) <= planned_jobs_len(y)
  BY <1>2
<1>4. QED
  BY <1>3 DEF choose_idle_cpu_in_domain, Least

\* A chain of or_else gives a CPU of one of its choices.
LEMMA OrElseIn ==
    ASSUME NEW choices, NEW c \in OrElse(choices)
    PROVE  c \in Cpus /\ \E i \in DOMAIN choices : c \in choices[i]
BY DEF OrElse, Found

\* Both masks a choice may go by are masks.
LEMMA PreferenceType ==
    ASSUME allowed \in [Tids -> SUBSET Cpus], NEW t \in Tids, NEW i \in 1..2
    PROVE  /\ Preference(t)[i] \in SUBSET Cpus /\ Preference(t)[i] \subseteq allowed[t]
           /\ Preference(t)[1] \subseteq Preference(t)[i]
           /\ Preference(t)[2] = allowed[t]
BY DEF Preference

\* c is not shared for want of looking: no idle, untaken, unbooked CPU of the
\* domain is passed over for a CPU that another thread is booked on.
NotNeedless(c, t, d) ==
    \A e \in InDomain(Preference(t)[1], d) :
        effectively_idle_cpu(e) /\ ~TakenByOther(e, t) /\ jobs[e] = {} => jobs[c] \subseteq {t}

\* A CPU that planned_cpu_available_for_task accepts is not shared needlessly.
LEMMA AvailableNotNeedless ==
    ASSUME SelectType, allowed \in [Tids -> SUBSET Cpus], NEW t \in Tids, NEW d,
           NEW i \in 1..2, NEW c \in Cpus,
           planned_cpu_available_for_task(c, t, InDomain(Preference(t)[i], d))
    PROVE  NotNeedless(c, t, d)
<1> SUFFICES ASSUME NEW e \in InDomain(Preference(t)[1], d), effectively_idle_cpu(e),
                    jobs[e] = {}
             PROVE  jobs[c] \subseteq {t}
  BY DEF NotNeedless
<1>1. e \in InDomain(Preference(t)[i], d) /\ e \in Cpus
  BY PreferenceType DEF InDomain
<1>2. planned_jobs_len(e) = 0
  BY <1>1, JobsCount
<1>3. QED
  BY <1>1, <1>2 DEF planned_cpu_available_for_task

\* preferred_reserved_cpu_for_selected_domain gives a CPU of the domain within the mask,
\* and shares none needlessly.
LEMMA PreferredReserved ==
    ASSUME SelectType, allowed \in [Tids -> SUBSET Cpus], NEW t \in Tids, NEW d, NEW p,
           NEW c \in preferred_reserved_cpu_for_selected_domain(p, d, t)
    PROVE  c \in InDomain(allowed[t], d) /\ NotNeedless(c, t, d)
<1> DEFINE choices == [i \in 1..2 |->
        {e \in preferred_cpu_in_domain(p, d, Preference(t)[i], t) :
            planned_cpu_available_for_task(e, t, InDomain(Preference(t)[i], d))}]
<1>1. c \in OrElse(choices)
  BY DEF preferred_reserved_cpu_for_selected_domain
<1>2. PICK i \in 1..2 : c \in choices[i]
  BY <1>1, OrElseIn
<1>3. /\ c \in InDomain(Preference(t)[i], d)
      /\ planned_cpu_available_for_task(c, t, InDomain(Preference(t)[i], d))
  BY <1>2 DEF preferred_cpu_in_domain
<1>4. c \in Cpus /\ c \in InDomain(allowed[t], d)
  BY <1>3, PreferenceType DEF InDomain
<1>5. QED
  BY <1>3, <1>4, AvailableNotNeedless

\* The idle CPU a thread may be moved to within a domain.
LEMMA BestIdle ==
    ASSUME SelectType, allowed \in [Tids -> SUBSET Cpus], NEW t \in Tids, NEW d,
           NEW c \in OrElse([i \in 1..2 |-> choose_idle_cpu_in_domain(d, Preference(t)[i])])
    PROVE  c \in InDomain(allowed[t], d) /\ NotNeedless(c, t, d)
<1> DEFINE choices == [i \in 1..2 |-> choose_idle_cpu_in_domain(d, Preference(t)[i])]
<1>1. PICK i \in 1..2 : /\ c \in choices[i] /\ c \in Cpus
                        /\ \A j \in 1..(i - 1) : MayFail(choices[j])
  BY DEF OrElse, Found
<1>2. Preference(t)[i] \in SUBSET Cpus
  BY PreferenceType
<1>3. /\ c \in InDomain(Preference(t)[i], d)
      /\ \A e \in InDomain(Preference(t)[i], d) :
            effectively_idle_cpu(e) => planned_jobs_len(c) <= planned_jobs_len(e)
  BY <1>1, <1>2, ChooseIdleIn
<1>4. c \in InDomain(allowed[t], d)
  BY <1>3, PreferenceType DEF InDomain
<1>5. NotNeedless(c, t, d)
  <2> SUFFICES ASSUME NEW e \in InDomain(Preference(t)[1], d), effectively_idle_cpu(e),
                      jobs[e] = {}
               PROVE  jobs[c] \subseteq {t}
    BY DEF NotNeedless
  <2>1. e \in InDomain(Preference(t)[i], d) /\ e \in Cpus
    BY PreferenceType DEF InDomain
  <2>2. planned_jobs_len(e) = 0
    BY <2>1, JobsCount
  <2>3. planned_jobs_len(c) = 0
    BY <1>1, <1>3, <2>1, <2>2, JobsCount
  <2>4. QED
    BY <1>1, <2>3, JobsCount
<1>6. QED
  BY <1>4, <1>5

\* The choices of CpuForDomain, in their order.
CpuChoices(m, d, stay) ==
    LET available(c, cpus) ==
            IF stay THEN current_cpu_available_for_task(c, m.tid, InDomain(cpus, d))
            ELSE planned_cpu_available_for_task(c, m.tid, InDomain(cpus, d))
        own(i) == current_cpu_in_domain(m.cpu, d, Preference(m.tid)[i])
        tickOwn(i) == {c \in own(i) : m.tick /\ DomainOf[m.cpu] = d /\ d \in EligibleDomains}
        idleOwn(i) == {c \in own(i) : effectively_idle_cpu(c) /\ available(c, Preference(m.tid)[i])}
        freeOwn(i) == {c \in own(i) : ~TakenByOther(c, m.tid) /\ available(c, Preference(m.tid)[i])}
        bestIdle == OrElse([i \in 1..2 |-> choose_idle_cpu_in_domain(d, Preference(m.tid)[i])])
        sibling == should_rebalance_to_idle_sibling(m.cpu, m.tid, bestIdle)
        any(i) == choose_cpu_in_domain(d, Preference(m.tid)[i], m.tid)
    IN  <<tickOwn(1), tickOwn(2), idleOwn(1), idleOwn(2), sibling,
          freeOwn(1), freeOwn(2), any(1), any(2)>>

\* What each of them gives: a CPU of the domain within the mask.
LEMMA CpuChoicesIn ==
    ASSUME SelectType, allowed \in [Tids -> SUBSET Cpus], NEW m \in QueuedTask,
           NEW d, NEW stay, NEW i \in 1..9, NEW c \in Cpus,
           c \in CpuChoices(m, d, stay)[i]
    PROVE  c \in InDomain(allowed[m.tid], d)
<1>0. m.tid \in Tids
  BY DEF QueuedTask
<1>1. CASE i \in {1, 2, 3, 4, 6, 7}
  <2>1. PICK j \in 1..2 : c \in current_cpu_in_domain(m.cpu, d, Preference(m.tid)[j])
    BY <1>1 DEF CpuChoices
  <2>2. QED
    BY <1>0, <2>1, PreferenceType DEF current_cpu_in_domain, InDomain
<1>2. CASE i = 5
  <2>1. c # NoCpu
    BY TopologyAssumption DEF NoCpu
  <2>2. c \in OrElse([j \in 1..2 |-> choose_idle_cpu_in_domain(d, Preference(m.tid)[j])])
    BY <1>2, <2>1 DEF CpuChoices, should_rebalance_to_idle_sibling
  <2>3. QED
    BY <1>0, <2>2, BestIdle
<1>3. CASE i \in {8, 9}
  <2>1. PICK j \in 1..2 : c \in choose_cpu_in_domain(d, Preference(m.tid)[j], m.tid)
    BY <1>3 DEF CpuChoices
  <2>2. c \in InDomain(Preference(m.tid)[j], d)
    BY <1>0, <2>1, PreferenceType, ChooseCpuIn
  <2>3. QED
    BY <1>0, <2>2, PreferenceType DEF InDomain
<1>4. QED
  BY <1>1, <1>2, <1>3

\* choose_cpu_for_planned_domain and the choice of a CPU to stay on keep to the domain
\* and to the mask.
LEMMA CpuForDomainIn ==
    ASSUME SelectType, allowed \in [Tids -> SUBSET Cpus], NEW m \in QueuedTask,
           NEW d, NEW stay, NEW c \in CpuForDomain(m, d, stay)
    PROVE  c \in Cpus /\ c \in InDomain(allowed[m.tid], d)
<1>1. c \in OrElse(CpuChoices(m, d, stay))
  BY DEF CpuForDomain, CpuChoices
<1>2. DOMAIN CpuChoices(m, d, stay) = 1..9
  BY DEF CpuChoices
<1>3. QED
  BY <1>1, <1>2, OrElseIn, CpuChoicesIn

\* A thread with a CPU in the domain is given one.
LEMMA CpuForDomainSome ==
    ASSUME SelectType, allowed \in [Tids -> SUBSET Cpus], NEW m \in QueuedTask,
           NEW d, NEW stay, InDomain(allowed[m.tid], d) # {}
    PROVE  CpuForDomain(m, d, stay) # {}
<1> DEFINE choices == CpuChoices(m, d, stay)
           S == {i \in 1..9 : Found(choices[i]) # {}}
           f == [i \in S |-> i]
<1>0. m.tid \in Tids
  BY DEF QueuedTask
<1>1. DOMAIN choices = 1..9 /\ choices[9] = choose_cpu_in_domain(d, Preference(m.tid)[2], m.tid)
  BY DEF CpuChoices
<1>2. PICK x : x \in choices[9] /\ x \in Cpus
  <2>1. Preference(m.tid)[2] = allowed[m.tid] /\ allowed[m.tid] \in SUBSET Cpus
    BY <1>0, PreferenceType
  <2>2. choices[9] # {}
    BY <1>1, <2>1, ChooseCpuSome
  <2>3. ASSUME NEW x \in choices[9] PROVE x \in Cpus
    <3>1. x \in InDomain(allowed[m.tid], d)
      BY <1>1, <2>1, ChooseCpuIn
    <3>2. QED
      BY <2>1, <3>1 DEF InDomain
  <2>4. QED
    BY <2>2, <2>3
<1>3. 9 \in S
  BY <1>2, TopologyAssumption DEF Found, NoCpu
<1>4. PICK i \in S : \A j \in S : i <= j
  <2>1. S \in SUBSET Nat
    OBVIOUS
  <2>2. QED
    BY <1>3, <2>1, NatMin
<1>5. \A j \in 1..(i - 1) : Found(choices[j]) = {}
  BY <1>4
<1>6. \A j \in 1..(i - 1) : MayFail(choices[j])
  BY <1>5 DEF Found, MayFail
<1>7. PICK c : c \in Found(choices[i])
  OBVIOUS
<1>8. c \in Cpus
  <2>1. c \in choices[i] /\ c # NoCpu
    BY <1>7 DEF Found
  <2>2. CASE i \in {1, 2, 3, 4, 6, 7}
    <3>1. PICK j \in 1..2 : c \in current_cpu_in_domain(m.cpu, d, Preference(m.tid)[j])
      BY <2>1, <2>2 DEF CpuChoices
    <3>2. QED
      BY <1>0, <3>1, PreferenceType DEF current_cpu_in_domain, InDomain
  <2>3. CASE i = 5
    <3>1. c \in OrElse([j \in 1..2 |-> choose_idle_cpu_in_domain(d, Preference(m.tid)[j])])
      BY <2>1, <2>3 DEF CpuChoices, should_rebalance_to_idle_sibling
    <3>2. QED
      BY <3>1 DEF OrElse
  <2>4. CASE i \in {8, 9}
    <3>1. PICK j \in 1..2 : c \in choose_cpu_in_domain(d, Preference(m.tid)[j], m.tid)
      BY <2>1, <2>4 DEF CpuChoices
    <3>2. c \in InDomain(Preference(m.tid)[j], d)
      BY <1>0, <3>1, PreferenceType, ChooseCpuIn
    <3>3. QED
      BY <1>0, <3>2, PreferenceType DEF InDomain
  <2>5. QED
    BY <2>2, <2>3, <2>4
<1>9. c \in OrElse(choices)
  <2> HIDE DEF choices
  <2>1. i \in DOMAIN choices
    BY <1>1
  <2>2. QED
    BY <1>6, <1>7, <1>8, <2>1 DEF OrElse
<1>10. CpuForDomain(m, d, stay) = OrElse(choices)
  BY DEF CpuForDomain, CpuChoices
<1>11. QED
  BY <1>9, <1>10

\* A woken thread is not put on a booked CPU needlessly.
LEMMA CpuForDomainNotNeedless ==
    ASSUME SelectType, allowed \in [Tids -> SUBSET Cpus], NEW m \in QueuedTask,
           NEW d, NEW c \in CpuForDomain(m, d, FALSE), ~m.tick
    PROVE  NotNeedless(c, m.tid, d)
<1> DEFINE choices == CpuChoices(m, d, FALSE)
<1>0. m.tid \in Tids
  BY DEF QueuedTask
<1>1. c \in OrElse(choices)
  BY DEF CpuForDomain, CpuChoices
<1>2. DOMAIN choices = 1..9
  BY DEF CpuChoices
<1>3. PICK i \in 1..9 : /\ c \in choices[i] /\ c \in Cpus
                        /\ \A j \in 1..(i - 1) : MayFail(choices[j])
  <2> HIDE DEF choices
  <2>1. QED
    BY <1>1, <1>2 DEF OrElse, Found
<1>4. CASE i \in {1, 2}
  BY <1>3, <1>4 DEF CpuChoices
<1>5. CASE i \in {3, 4, 6, 7}
  <2>1. PICK j \in 1..2 :
            planned_cpu_available_for_task(c, m.tid, InDomain(Preference(m.tid)[j], d))
    BY <1>3, <1>5 DEF CpuChoices
  <2>2. QED
    BY <1>0, <1>3, <2>1, AvailableNotNeedless
<1>6. CASE i = 5
  <2>1. c # NoCpu
    BY <1>3, TopologyAssumption DEF NoCpu
  <2>2. c \in OrElse([j \in 1..2 |-> choose_idle_cpu_in_domain(d, Preference(m.tid)[j])])
    BY <1>3, <1>6, <2>1 DEF CpuChoices, should_rebalance_to_idle_sibling
  <2>3. QED
    BY <1>0, <2>2, BestIdle
<1>7. CASE i \in {8, 9}
  <2>1. SUFFICES ASSUME NEW e \in InDomain(Preference(m.tid)[1], d),
                        effectively_idle_cpu(e), ~TakenByOther(e, m.tid), jobs[e] = {}
                 PROVE  jobs[c] \subseteq {m.tid}
    BY DEF NotNeedless
  <2>2. Preference(m.tid)[1] \in SUBSET Cpus
    BY <1>0, PreferenceType
  <2>3. i # 9
    <3>1. choose_cpu_in_domain(d, Preference(m.tid)[1], m.tid) # {}
      BY <2>1, <2>2, ChooseCpuSome
    <3>2. choices[8] = choose_cpu_in_domain(d, Preference(m.tid)[1], m.tid)
      BY DEF CpuChoices
    <3>3. NoCpu \notin choices[8]
      <4>1. \A x \in choices[8] : x \in InDomain(Preference(m.tid)[1], d)
        BY <2>2, <3>2, ChooseCpuIn
      <4>2. NoCpu \notin Cpus
        BY TopologyAssumption DEF NoCpu
      <4> HIDE DEF choices
      <4>3. QED
        BY <2>2, <4>1, <4>2 DEF InDomain
    <3>4. ~MayFail(choices[8])
      BY <3>1, <3>2, <3>3 DEF MayFail
    <3>5. i = 9 => 8 \in 1..(i - 1)
      OBVIOUS
    <3>6. QED
      BY <1>3, <3>4, <3>5
  <2>4. c \in choose_cpu_in_domain(d, Preference(m.tid)[1], m.tid)
    BY <1>3, <1>7, <2>3 DEF CpuChoices
  <2>5. planned_jobs_len(c) <= planned_jobs_len(e) /\ e \in Cpus
    BY <2>1, <2>2, <2>4, ChooseCpuIn DEF InDomain
  <2>6. planned_jobs_len(c) = 0
    BY <1>3, <2>1, <2>5, JobsCount
  <2>7. QED
    BY <1>3, <2>6, JobsCount
<1>8. QED
  BY <1>4, <1>5, <1>6, <1>7

-----------------------------------------------------------------------------
(* The decision about a message.                                           *)

\* What a decision about m promises before it is entered into the ledger.
LegalDecision(s, m) ==
    /\ s \in Decision /\ s.tid = m.tid /\ s.from = m.cpu
    /\ DomainOf[s.cpu] = s.dom
    /\ \/ s.cpu \in allowed[m.tid]
       \/ s.reason = "stay" /\ s.cpu = m.cpu /\ InDomain(allowed[m.tid], s.dom) = {}
    /\ s.reason = "move" => ~table[m.tid].settling

\* What a decision reads is well typed.
DecideType ==
    /\ SelectType /\ allowed \in [Tids -> SUBSET Cpus]
    /\ plan \in [Tids -> PlanEntry] /\ table \in [Tids -> ManagedThread]

\* A decision within the mask is legal, if it is no move out of a settle window.
LEMMA InMaskLegal ==
    ASSUME DecideType, NEW m \in QueuedTask, NEW d \in Domains,
           NEW c \in InDomain(allowed[m.tid], d), NEW planned \in BOOLEAN,
           NEW reason \in {"stay", "move", "escape", "spread"},
           reason = "move" => ~table[m.tid].settling
    PROVE  LegalDecision(Decided(m, d, c, reason, planned), m)
<1>1. m.tid \in Tids /\ m.cpu \in Cpus
  BY DEF QueuedTask
<1>2. c \in Cpus /\ c \in allowed[m.tid] /\ DomainOf[c] = d
  BY <1>1 DEF InDomain, DecideType
<1>3. QED
  BY <1>1, <1>2 DEF LegalDecision, Decided, Decision

\* The plan's decision.
LEMMA PlannedDecisionLegal ==
    ASSUME DecideType, NEW m \in QueuedTask, NEW s \in planned_decision(m)
    PROVE  LegalDecision(s, m)
<1> DEFINE d == plan[m.tid].dom
           reason == IF d = DomainOf[m.cpu] THEN "stay"
                     ELSE IF Excluded(m) THEN "escape" ELSE "move"
<1>1. m.tid \in Tids
  BY DEF QueuedTask
<1>2. PICK c : /\ s = Decided(m, d, c, reason, TRUE)
               /\ c \in candidate_cpus_for_target_domain(m.tid, d) \/ c \in CpuForDomain(m, d, FALSE)
               /\ Planned(m.tid) /\ (d = DomainOf[m.cpu] \/ PlanSettled(m))
  BY DEF planned_decision
<1>3. d \in Domains
  BY <1>1, <1>2 DEF Planned, DecideType, PlanEntry
<1>4. c \in InDomain(allowed[m.tid], d)
  <2>1. c \in candidate_cpus_for_target_domain(m.tid, d) => c \in InDomain(allowed[m.tid], d)
    BY DEF candidate_cpus_for_target_domain, Preference, InDomain
  <2>2. QED
    BY <1>2, <2>1, CpuForDomainIn DEF DecideType
<1>5. reason = "move" => ~table[m.tid].settling
  BY <1>2 DEF PlanSettled
<1>6. reason \in {"stay", "move", "escape", "spread"}
  OBVIOUS
<1> HIDE DEF d, reason
<1>7. QED
  BY <1>2, <1>3, <1>4, <1>5, <1>6, InMaskLegal

\* A decision to stay: a thread keeps a CPU outside its mask only when the mask has none
\* in its domain.
LEMMA StayDecisionLegal ==
    ASSUME DecideType, NEW m \in QueuedTask, NEW s \in Stays(m)
    PROVE  LegalDecision(s, m)
<1> DEFINE d == DomainOf[m.cpu]
<1>1. m.tid \in Tids /\ m.cpu \in Cpus /\ d \in Domains
  BY TopologyAssumption DEF QueuedTask
<1>2. PICK c \in OrElse(<<stay_cpu(m), {m.cpu}>>) : s = Decided(m, d, c, "stay", FALSE)
  BY DEF Stays, stay_selected_cpu
<1>3. \/ c \in stay_cpu(m)
      \/ c = m.cpu /\ MayFail(stay_cpu(m))
  <2>1. PICK i \in 1..2 : /\ c \in Found(<<stay_cpu(m), {m.cpu}>>[i])
                          /\ \A j \in 1..(i - 1) : MayFail(<<stay_cpu(m), {m.cpu}>>[j])
    BY <1>2 DEF OrElse
  <2>2. CASE i = 1
    BY <2>1, <2>2 DEF Found
  <2>3. CASE i = 2
    BY <2>1, <2>3 DEF Found
  <2>4. QED
    BY <2>2, <2>3
<1>4. CASE c \in stay_cpu(m)
  <2>1. c \in InDomain(allowed[m.tid], d)
    BY <1>4, CpuForDomainIn DEF stay_cpu, DecideType
  <2>2. QED
    BY <1>1, <1>2, <2>1, InMaskLegal
<1>5. CASE c = m.cpu /\ MayFail(stay_cpu(m))
  <2>1. \A x \in stay_cpu(m) : x \in Cpus
    BY CpuForDomainIn DEF stay_cpu, DecideType
  <2>2. stay_cpu(m) = {}
    BY <1>5, <2>1, TopologyAssumption DEF MayFail, NoCpu
  <2>3. InDomain(allowed[m.tid], d) = {}
    BY <2>2, CpuForDomainSome DEF stay_cpu, DecideType
  <2>4. QED
    BY <1>1, <1>2, <1>5, <2>3 DEF LegalDecision, Decided, Decision
<1>6. QED
  BY <1>3, <1>4, <1>5

\* A young thread is spread to a CPU of its mask.
LEMMA SpreadDecisionLegal ==
    ASSUME DecideType, NEW m \in QueuedTask, NEW s \in choose_idle_spread_target(m)
    PROVE  LegalDecision(s, m)
<1>1. m.tid \in Tids
  BY DEF QueuedTask
<1>2. PICK c \in OrElse([i \in 1..2 |-> SpreadCpus(m, Preference(m.tid)[i])]) :
        s = Decided(m, DomainOf[c], c, "spread", FALSE)
  BY DEF choose_idle_spread_target
<1>3. PICK i \in 1..2 : c \in SpreadCpus(m, Preference(m.tid)[i])
  BY <1>2, OrElseIn
<1>4. PICK d \in EligibleDomains : c \in choose_cpu_in_domain(d, Preference(m.tid)[i], m.tid)
  BY <1>3 DEF SpreadCpus, Least
<1>5. c \in InDomain(Preference(m.tid)[i], d)
  BY <1>1, <1>4, PreferenceType, ChooseCpuIn DEF DecideType
<1>6. c \in InDomain(allowed[m.tid], d) /\ d = DomainOf[c] /\ d \in Domains
  BY <1>1, <1>5, PreferenceType, PassAssumption DEF InDomain, DecideType
<1>7. QED
  BY <1>2, <1>6, InMaskLegal

\* A move for balance goes to a CPU of the mask, and not within a settle window.
LEMMA MoveDecisionLegal ==
    ASSUME DecideType, NEW m \in QueuedTask, NEW s \in Moves(m)
    PROVE  LegalDecision(s, m)
<1> DEFINE reason == IF Excluded(m) THEN "escape" ELSE "move"
<1>1. m.tid \in Tids
  BY DEF QueuedTask
<1>2. PICK c \in Candidates(m) : /\ s = Decided(m, DomainOf[c], c, reason, FALSE)
                                 /\ FallbackSettled(m)
  BY DEF Moves
<1>3. PICK d \in EligibleDomains : c \in choose_cpu_in_domain(d, Preference(m.tid)[1], m.tid)
  BY <1>2 DEF Candidates
<1>4. c \in InDomain(Preference(m.tid)[1], d)
  BY <1>1, <1>3, PreferenceType, ChooseCpuIn DEF DecideType
<1>5. c \in InDomain(allowed[m.tid], d) /\ d = DomainOf[c] /\ d \in Domains
  BY <1>1, <1>4, PreferenceType, PassAssumption DEF InDomain, DecideType
<1>6. /\ reason = "move" => ~table[m.tid].settling
      /\ reason \in {"stay", "move", "escape", "spread"}
  BY <1>2 DEF FallbackSettled
<1> HIDE DEF reason
<1>7. QED
  BY <1>2, <1>5, <1>6, InMaskLegal

\* Whoever decides, and whether or not the reserved CPU replaces the selected one, the
\* decision is legal.
LEMMA DecisionLegal ==
    ASSUME DecideType, NEW m \in QueuedTask, NEW s \in Decisions(m)
    PROVE  LegalDecision(s, m)
<1>1. PICK r : /\ r \in planned_decision(m) \/ r \in choose_placement(m)
               /\ \E c \in ReservedCpu(r) : s = [r EXCEPT !.cpu = c]
  BY DEF Decisions
<1>2. LegalDecision(r, m)
  BY <1>1, PlannedDecisionLegal, StayDecisionLegal, SpreadDecisionLegal, MoveDecisionLegal
     DEF choose_placement
<1>3. PICK c \in ReservedCpu(r) : s = [r EXCEPT !.cpu = c]
  BY <1>1
<1>4. m.tid \in Tids /\ r.tid = m.tid
  BY <1>2 DEF LegalDecision, QueuedTask
<1>5. CASE c = r.cpu
  <2>1. s = r
    BY <1>2, <1>3, <1>5 DEF LegalDecision, Decision
  <2>2. QED
    BY <1>2, <2>1
<1>6. CASE c # r.cpu
  <2>1. PICK p : c \in preferred_reserved_cpu_for_selected_domain(p, r.dom, r.tid)
    BY <1>3, <1>6 DEF ReservedCpu
  <2>2. c \in InDomain(allowed[m.tid], r.dom)
    BY <1>4, <2>1, PreferredReserved DEF DecideType
  <2>3. c \in Cpus /\ c \in allowed[m.tid] /\ DomainOf[c] = r.dom
    BY <1>4, <2>2 DEF InDomain, DecideType
  <2>4. QED
    BY <1>2, <1>3, <2>3 DEF LegalDecision, Decision
<1>7. QED
  BY <1>5, <1>6

-----------------------------------------------------------------------------
(* The ledger of a pass.                                                   *)

\* The jobs of a CPU are the threads booked on it.
Booked == \A t \in Tids, c \in Cpus : t \in jobs[c] <=> cpuBy[t] = c

\* A thread is booked where its last decision sent it.
LastDecisionHolds ==
    \A i \in 1..Len(sent) :
        (\A j \in (i + 1)..Len(sent) : sent[j].tid # sent[i].tid) => cpuBy[sent[i].tid] = sent[i].cpu

\* The inductive invariant: decisions exist only in the dispatch phase, and the
\* reservation only looks at threads that have a message.
PassInv ==
    /\ TypeOK
    /\ Booked /\ LastDecisionHolds
    /\ PlacedLegal
    /\ pc # "dispatch" => sent = <<>>
    /\ pc = "reserve" => \A t \in todo : MessagesOf(t, pending) # {}

\* The first and the last message of a thread are messages of it.
LEMMA MessagePositions ==
    ASSUME NEW queue \in Seq(QueuedTask), NEW t, MessagesOf(t, queue) # {}
    PROVE  /\ queue[FirstOf(t, queue)] \in QueuedTask /\ queue[FirstOf(t, queue)].tid = t
           /\ queue[LastOf(t, queue)] \in QueuedTask /\ queue[LastOf(t, queue)].tid = t
<1> DEFINE S == MessagesOf(t, queue)
<1>1. S \in SUBSET (1..Len(queue)) /\ S \in SUBSET Nat /\ Len(queue) \in Nat
  BY DEF MessagesOf
<1>2. \E i \in S : \A j \in S : i <= j
  BY <1>1, NatMin
<1>3. \E i \in S : \A j \in S : j <= i
  BY <1>1, PositionMax
<1>4. FirstOf(t, queue) \in S /\ LastOf(t, queue) \in S
  BY <1>2, <1>3 DEF FirstOf, LastOf
<1>5. QED
  BY <1>4 DEF MessagesOf

\* Booking a thread on a CPU takes it off the CPU it was booked on.
LEMMA AssignBooked ==
    ASSUME TypeOK, Booked, NEW m \in QueuedTask, NEW c \in Cpus,
           apply_planned_cpu_assignment(m, c)
    PROVE  /\ jobs' \in [Cpus -> SUBSET Tids] /\ cpuBy' \in [Tids -> Cpus \cup {NoCpu}]
           /\ Booked'
           /\ cpuBy' = [cpuBy EXCEPT ![m.tid] = c]
           /\ jobs'[c] = jobs[c] \cup {m.tid}
<1> DEFINE source == IF cpuBy[m.tid] # NoCpu THEN cpuBy[m.tid] ELSE m.cpu
<1>1. m.tid \in Tids /\ m.cpu \in Cpus /\ source \in Cpus
  BY DEF TypeOK, QueuedTask
<1>2. /\ jobs' = [e \in Cpus |-> IF e = c THEN jobs[e] \cup {m.tid}
                                 ELSE IF e = source THEN jobs[e] \ {m.tid} ELSE jobs[e]]
      /\ cpuBy' = [cpuBy EXCEPT ![m.tid] = c]
  BY DEF apply_planned_cpu_assignment
<1>3. jobs' \in [Cpus -> SUBSET Tids] /\ cpuBy' \in [Tids -> Cpus \cup {NoCpu}]
  <2>1. jobs \in [Cpus -> SUBSET Tids] /\ cpuBy \in [Tids -> Cpus \cup {NoCpu}]
    BY DEF TypeOK
  <2>2. cpuBy' \in [Tids -> Cpus \cup {NoCpu}]
    BY <1>2, <2>1
  <2> HIDE DEF source
  <2>3. jobs' \in [Cpus -> SUBSET Tids]
    BY <1>1, <1>2, <2>1
  <2>4. QED
    BY <2>2, <2>3
<1>4. ASSUME NEW t \in Tids, NEW e \in Cpus PROVE t \in jobs'[e] <=> cpuBy'[t] = e
  <2>1. CASE t = m.tid
    <3>1. cpuBy'[t] = c
      BY <1>1, <1>2, <2>1 DEF TypeOK
    <3>a. NoCpu \notin Cpus
      BY TopologyAssumption DEF NoCpu
    <3>2. e # c /\ e # source => t \notin jobs[e]
      BY <1>1, <2>1, <3>a DEF Booked
    <3>3. QED
      BY <1>2, <2>1, <3>1, <3>2
  <2>2. CASE t # m.tid
    <3>1. cpuBy'[t] = cpuBy[t] /\ (t \in jobs'[e] <=> t \in jobs[e])
      BY <1>2, <2>2 DEF TypeOK
    <3>2. QED
      BY <3>1 DEF Booked
  <2>3. QED
    BY <2>1, <2>2
<1>5. QED
  BY <1>2, <1>3, <1>4 DEF Booked

\* A record of the thread table keeps its shape.
LEMMA TableEntry ==
    ASSUME NEW e \in ManagedThread, NEW c \in Cpus \cup {NoCpu}, NEW b \in BOOLEAN,
           NEW shows \in BOOLEAN
    PROVE  /\ [e EXCEPT !.cpu = c] \in ManagedThread
           /\ [e EXCEPT !.settling = b] \in ManagedThread
           /\ update_thread_signature(e, shows) \in ManagedThread
           /\ [e EXCEPT !.cpu = c, !.decided = TRUE] \in ManagedThread
           /\ [[e EXCEPT !.cpu = c, !.decided = TRUE] EXCEPT !.settling = @ \/ b,
                    !.signature = capture_dispatch_snapshot(@)] \in ManagedThread
BY DEF ManagedThread, update_thread_signature, capture_dispatch_snapshot

\* The end of the settle window is noted in the table.
LEMMA SettledEntry ==
    ASSUME NEW e \in ManagedThread
    PROVE  [e EXCEPT !.settling = FALSE] \in ManagedThread
BY DEF ManagedThread

\* A migration moves one thread from the count of a domain to that of another.
LEMMA TaskCountType ==
    ASSUME NEW f \in [Domains -> Nat], NEW a \in Domains, NEW b \in Domains
    PROVE  [f EXCEPT ![a] = IF @ = 0 THEN 0 ELSE @ - 1, ![b] = @ + 1] \in [Domains -> Nat]
<1> DEFINE g == [f EXCEPT ![a] = IF @ = 0 THEN 0 ELSE @ - 1]
<1>1. g \in [Domains -> Nat]
  OBVIOUS
<1> HIDE DEF g
<1>2. [g EXCEPT ![b] = @ + 1] \in [Domains -> Nat]
  BY <1>1
<1>3. QED
  BY <1>2 DEF g

\* A migration is counted where it leaves and where it arrives.
LEMMA CountUpType ==
    ASSUME NEW f \in [Domains -> Nat], NEW a \in Domains
    PROVE  [f EXCEPT ![a] = @ + 1] \in [Domains -> Nat]
OBVIOUS

\* A dispatch marks the CPU state as taken by the thread.
LEMMA ViewType ==
    ASSUME NEW v \in [Cpus -> CpuStateValue], NEW c \in Cpus, NEW t \in Tids
    PROVE  [v EXCEPT ![c].idle = FALSE, ![c].tid = t] \in [Cpus -> CpuStateValue]
<1> DEFINE w == [v EXCEPT ![c].idle = FALSE]
<1>1. w \in [Cpus -> CpuStateValue]
  BY DEF CpuStateValue
<1> HIDE DEF w
<1>2. [w EXCEPT ![c].tid = t] \in [Cpus -> CpuStateValue]
  BY <1>1 DEF CpuStateValue
<1>3. QED
  BY <1>2 DEF w

\* The budget of a domain is a number.
LEMMA BudgetType ==
    ASSUME NEW n \in Nat
    PROVE  round_migration_budget(n) \in Nat
BY DEF round_migration_budget

\* While nothing has been decided there is nothing to check.
LEMMA NothingSent ==
    ASSUME sent = <<>>
    PROVE  sent \in Seq(Decision) /\ LastDecisionHolds /\ PlacedLegal
BY DEF LastDecisionHolds, PlacedLegal

\* What StartPass makes of the messages it finds.
Snapshot(queue) ==
    /\ pending' = queue
    /\ \E shows \in [Tids -> BOOLEAN] :
        table' = [t \in Tids |->
                    IF MessagesOf(t, queue) = {} THEN table[t]
                    ELSE update_thread_signature(refresh_thread_from_task(t, queue), shows[t])]
    /\ collect_allowed_cpus_for_pending(queue)
    /\ from_snapshot(queue)
    /\ todo' = {t \in Tids : MessagesOf(t, queue) # {}}

\* The snapshot of a pass and the ledger built from it keep the invariant.
LEMMA StartPassInv == ASSUME PassInv, StartPass PROVE PassInv'
<1>0. TypeOK /\ sent = <<>> /\ sent' = <<>> /\ pc' = "reserve"
  BY DEF PassInv, StartPass
<1>1. PICK n \in 0..(MaxPending - Len(pending)) :
        \E new \in [1..n -> Messages] : Snapshot(pending \o new)
  BY DEF StartPass, Snapshot
<1>a. PICK new \in [1..n -> Messages] : Snapshot(pending \o new)
  BY <1>1
<1> DEFINE queue == pending \o new
<1>2. queue \in Seq(QueuedTask)
  <2>1. new \in Seq(QueuedTask) /\ pending \in Seq(QueuedTask)
    BY <1>0, PassAssumption DEF TypeOK
  <2>2. QED
    BY <2>1
<1>3. Snapshot(queue)
  BY <1>a
<1> HIDE DEF queue
<1>4. ASSUME NEW t \in Tids, MessagesOf(t, queue) # {}
      PROVE  queue[LastOf(t, queue)].cpu \in Cpus
  BY <1>2, <1>4, MessagePositions DEF QueuedTask
<1>5. \A t \in Tids : /\ table[t] \in ManagedThread
                      /\ refresh_thread_from_task(t, queue) \in ManagedThread
                      /\ refresh_thread_from_task(t, queue).cpu \in Cpus \cup {NoCpu}
  <2> SUFFICES ASSUME NEW t \in Tids
               PROVE  /\ table[t] \in ManagedThread
                      /\ refresh_thread_from_task(t, queue) \in ManagedThread
    BY DEF ManagedThread
  <2>1. table[t] \in ManagedThread
    BY <1>0 DEF TypeOK
  <2>2. QED
    BY <1>4, <2>1, TableEntry DEF refresh_thread_from_task
<1>6. table' \in [Tids -> ManagedThread]
  <2>1. PICK shows \in [Tids -> BOOLEAN] :
            table' = [t \in Tids |->
                        IF MessagesOf(t, queue) = {} THEN table[t]
                        ELSE update_thread_signature(refresh_thread_from_task(t, queue),
                                                     shows[t])]
    BY <1>3 DEF Snapshot
  <2>2. \A t \in Tids : update_thread_signature(refresh_thread_from_task(t, queue), shows[t])
                            \in ManagedThread
    BY <1>5, TableEntry
  <2>3. QED
    BY <1>5, <2>1, <2>2
<1>7. allowed' \in [Tids -> SUBSET Cpus] /\ view' \in [Cpus -> CpuStateValue]
  BY <1>3, PassAssumption DEF Snapshot, collect_allowed_cpus_for_pending, StartPass
<1>8. plan \in [Tids -> PlanEntry] /\ \A t \in Tids : table[t].cpu \in Cpus \cup {NoCpu}
  BY <1>0, <1>5 DEF TypeOK, ManagedThread
<1>9. domainBy' \in [Tids -> Domains \cup {NoDomain}]
  <2>1. domainBy' = [t \in Tids |-> build_planned_thread_domains(t, queue)]
    BY <1>3 DEF Snapshot, from_snapshot
  <2>2. ASSUME NEW t \in Tids
        PROVE  build_planned_thread_domains(t, queue) \in Domains \cup {NoDomain}
    <3>1. CASE Planned(t)
      BY <1>8, <3>1 DEF build_planned_thread_domains, PlanEntry
    <3>2. CASE ~Planned(t) /\ MessagesOf(t, queue) # {}
      BY <1>4, <3>2, TopologyAssumption DEF build_planned_thread_domains
    <3>3. CASE ~Planned(t) /\ MessagesOf(t, queue) = {}
      BY <1>8, <3>3, TopologyAssumption DEF build_planned_thread_domains
    <3>4. QED
      BY <3>1, <3>2, <3>3
  <2>3. QED
    BY <2>1, <2>2
<1>10. cpuBy' \in [Tids -> Cpus \cup {NoCpu}]
  <2>1. cpuBy' = [t \in Tids |-> build_planned_thread_cpus(t, queue)]
    BY <1>3 DEF Snapshot, from_snapshot
  <2>2. \A t \in Tids : build_planned_thread_cpus(t, queue) \in Cpus \cup {NoCpu}
    BY <1>5, <1>8 DEF build_planned_thread_cpus, PlanEntry
  <2>3. QED
    BY <2>1, <2>2
<1>11. jobs' = [c \in Cpus |-> {t \in Tids : cpuBy'[t] = c}]
  BY <1>3 DEF Snapshot, from_snapshot, build_planned_cpu_states
<1>12. jobs' \in [Cpus -> SUBSET Tids] /\ Booked'
  BY <1>11 DEF Booked
<1>13. /\ tasks' \in [Domains -> Nat] /\ budget' \in [Domains -> Nat]
       /\ outgoing' \in [Domains -> Nat] /\ incoming' \in [Domains -> Nat]
  <2>1. build_planned_domain_states
    BY <1>3 DEF Snapshot, from_snapshot
  <2>2. ASSUME NEW d \in Domains
        PROVE  Cardinality({t \in Tids : table'[t].cpu # NoCpu /\ domainBy'[t] = d}) \in Nat
    <3>1. IsFiniteSet({t \in Tids : table'[t].cpu # NoCpu /\ domainBy'[t] = d})
      BY TopologyAssumption, FS_Subset
    <3>2. QED
      BY <3>1, FS_CardinalityType
  <2>3. tasks' \in [Domains -> Nat]
    BY <2>1, <2>2 DEF build_planned_domain_states
  <2>4. \A d \in Domains : round_migration_budget(IF tasks'[d] = 0 THEN 1 ELSE tasks'[d]) \in Nat
    BY <2>3, BudgetType
  <2>5. QED
    BY <2>1, <2>3, <2>4 DEF build_planned_domain_states, All
<1>14. TypeOK'
  <2>1. UNCHANGED <<deferred, plan, current, targetCpu, sent, lately>>
    BY DEF StartPass
  <2>2. QED
    BY <1>0, <1>2, <1>3, <1>6, <1>7, <1>9, <1>10, <1>12, <1>13, <2>1 DEF Snapshot, TypeOK
<1>15. LastDecisionHolds' /\ PlacedLegal'
  BY <1>0, NothingSent DEF LastDecisionHolds, PlacedLegal
<1>16. QED
  BY <1>0, <1>3, <1>12, <1>14, <1>15 DEF Snapshot, PassInv

\* Leaving the pass forgets the ledger.
LEMMA LeaveInv == ASSUME PassInv, Leave PROVE PassInv'
<1>1. TypeOK'
  <2>1. pending' \in Seq(QueuedTask) /\ deferred' \in Seq(QueuedTask)
    BY DEF Leave, PassInv, TypeOK
  <2>2. Unknown \in CpuStateValue
    BY DEF Unknown, CpuStateValue
  <2>3. QED
    BY <2>1, <2>2 DEF Leave, All, PassInv, TypeOK
<1>2. Booked'
  BY TopologyAssumption DEF Leave, All, Booked, NoCpu
<1>3. LastDecisionHolds' /\ PlacedLegal'
  BY DEF Leave, LastDecisionHolds, PlacedLegal
<1>4. QED
  BY <1>1, <1>2, <1>3 DEF Leave, PassInv

\* One thread's reservation.
LEMMA ReserveInv ==
    ASSUME PassInv, NEW t \in Tids, build_burst_target_cpu_plan(t)
    PROVE  PassInv'
<1>0. TypeOK /\ Booked /\ sent = <<>> /\ pc = "reserve"
  BY DEF PassInv, build_burst_target_cpu_plan
<1>1. First(t) \in QueuedTask
  BY MessagePositions DEF PassInv, TypeOK, First, build_burst_target_cpu_plan, Turn
<1>2. PICK c \in Cpus : /\ apply_planned_cpu_assignment(First(t), c)
                        /\ targetCpu' = [targetCpu EXCEPT ![t] = c]
  <2>1. Fixed(t) => plan[t].cpu \in Cpus
    BY <1>0 DEF Fixed, candidate_cpus_for_target_domain, InDomain, TypeOK, Preference
  <2>2. \A choices : OrElse(choices) \subseteq Cpus
    BY DEF OrElse
  <2>3. QED
    BY <2>1, <2>2 DEF build_burst_target_cpu_plan
<1>3. /\ todo' = todo \ {t}
      /\ UNCHANGED <<pc, pending, deferred, table, plan, current, allowed, view,
                     domainBy, tasks, budget, outgoing, incoming, sent, lately>>
  BY DEF build_burst_target_cpu_plan, snapshot, domainLedger
<1>4. jobs' \in [Cpus -> SUBSET Tids] /\ cpuBy' \in [Tids -> Cpus \cup {NoCpu}] /\ Booked'
  BY <1>0, <1>1, <1>2, AssignBooked
<1>5. TypeOK'
  BY <1>0, <1>2, <1>3, <1>4 DEF TypeOK
<1>6. LastDecisionHolds' /\ PlacedLegal'
  BY <1>0, <1>3 DEF LastDecisionHolds, PlacedLegal
<1>7. QED
  BY <1>0, <1>3, <1>4, <1>5, <1>6 DEF PassInv, MessagesOf

\* A decision is sent and booked.
LEMMA DispatchInv == ASSUME PassInv, Dispatch PROVE PassInv'
<1> DEFINE m == Head(pending)
<1>0. TypeOK /\ Booked /\ pc = "dispatch" /\ pending # <<>>
  BY DEF PassInv, Dispatch, NextMessage
<1>1. m \in QueuedTask /\ Tail(pending) \in Seq(QueuedTask)
  BY <1>0 DEF TypeOK
<1>2. m.tid \in Tids /\ m.cpu \in Cpus /\ DomainOf[m.cpu] \in Domains
  BY <1>1, TopologyAssumption DEF QueuedTask
<1>3. PICK s \in Decisions(m) :
        /\ table' = [table EXCEPT ![m.tid] =
                      [Known(s.cpu, m) EXCEPT !.settling = @ \/ s.dom # DomainOf[m.cpu],
                                              !.signature = capture_dispatch_snapshot(@)]]
        /\ apply_planned_migration(m, s.dom) \/ UNCHANGED domainLedger
        /\ apply_planned_cpu_assignment(m, s.cpu)
        /\ view' = [view EXCEPT ![s.cpu].idle = FALSE, ![s.cpu].tid = m.tid]
        /\ sent' = Append(sent, s)
        /\ lately' = lately \/ lately' = lately \cup {m.tid}
  BY DEF Dispatch, StartsSettling
<1>4. /\ pending' = Tail(pending)
      /\ UNCHANGED <<pc, deferred, plan, current, allowed, todo, targetCpu>>
  BY DEF Dispatch
<1>5. LegalDecision(s, m)
  BY <1>0, <1>1, DecisionLegal DEF DecideType, SelectType, TypeOK
<1> HIDE DEF m
<1>6. s \in Decision /\ s.tid = m.tid /\ s.from = m.cpu /\ s.cpu \in Cpus /\ s.dom \in Domains
  BY <1>5 DEF LegalDecision, Decision
<1>7. /\ jobs' \in [Cpus -> SUBSET Tids] /\ cpuBy' \in [Tids -> Cpus \cup {NoCpu}]
      /\ Booked' /\ cpuBy' = [cpuBy EXCEPT ![m.tid] = s.cpu]
  BY <1>0, <1>1, <1>3, <1>6, AssignBooked
<1>8. TypeOK'
  <2>1. table' \in [Tids -> ManagedThread]
    <3>1. table[m.tid] \in ManagedThread /\ (s.dom # DomainOf[m.cpu]) \in BOOLEAN
      BY <1>0, <1>2 DEF TypeOK
    <3>2. [Known(s.cpu, m) EXCEPT !.settling = @ \/ s.dom # DomainOf[m.cpu],
                                  !.signature = capture_dispatch_snapshot(@)] \in ManagedThread
      BY <1>6, <3>1, TableEntry DEF Known
    <3>3. QED
      BY <1>0, <1>3, <3>2 DEF TypeOK
  <2>2. /\ domainBy' \in [Tids -> Domains \cup {NoDomain}]
        /\ tasks' \in [Domains -> Nat] /\ budget' \in [Domains -> Nat]
        /\ outgoing' \in [Domains -> Nat] /\ incoming' \in [Domains -> Nat]
    <3>1. CASE UNCHANGED domainLedger
      BY <1>0, <3>1 DEF TypeOK, domainLedger
    <3>2. CASE apply_planned_migration(m, s.dom)
      <4>1. domainBy' \in [Tids -> Domains \cup {NoDomain}] /\ budget' \in [Domains -> Nat]
        BY <1>0, <1>6, <3>2 DEF TypeOK, apply_planned_migration
      <4>2. /\ \/ tasks' = tasks
               \/ tasks' = [tasks EXCEPT ![DomainOf[m.cpu]] = IF @ = 0 THEN 0 ELSE @ - 1,
                                         ![s.dom] = @ + 1]
            /\ outgoing' = outgoing \/ outgoing' = [outgoing EXCEPT ![DomainOf[m.cpu]] = @ + 1]
            /\ incoming' = incoming \/ incoming' = [incoming EXCEPT ![s.dom] = @ + 1]
        BY <3>2, Zenon DEF apply_planned_migration
      <4>a. /\ tasks \in [Domains -> Nat] /\ outgoing \in [Domains -> Nat]
            /\ incoming \in [Domains -> Nat]
        BY <1>0 DEF TypeOK
      <4>3. /\ tasks' \in [Domains -> Nat] /\ outgoing' \in [Domains -> Nat]
            /\ incoming' \in [Domains -> Nat]
        <5>1. [tasks EXCEPT ![DomainOf[m.cpu]] = IF @ = 0 THEN 0 ELSE @ - 1, ![s.dom] = @ + 1]
                \in [Domains -> Nat]
          BY <1>2, <1>6, <4>a, TaskCountType
        <5>2. [outgoing EXCEPT ![DomainOf[m.cpu]] = @ + 1] \in [Domains -> Nat]
          BY <1>2, <4>a, CountUpType
        <5>3. [incoming EXCEPT ![s.dom] = @ + 1] \in [Domains -> Nat]
          BY <1>6, <4>a, CountUpType
        <5>4. QED
          BY <4>2, <4>a, <5>1, <5>2, <5>3, Zenon
      <4>4. QED
        BY <4>1, <4>3
    <3>3. QED
      BY <1>3, <3>1, <3>2
  <2>3. view' \in [Cpus -> CpuStateValue]
    BY <1>0, <1>2, <1>3, <1>6, ViewType DEF TypeOK
  <2>4. sent' \in Seq(Decision)
    BY <1>0, <1>3, <1>6 DEF TypeOK
  <2>5. lately' \subseteq Tids
    BY <1>0, <1>2, <1>3 DEF TypeOK
  <2>6. QED
    BY <1>0, <1>1, <1>4, <1>7, <2>1, <2>2, <2>3, <2>4, <2>5 DEF TypeOK, m
<1>9. sent \in Seq(Decision) /\ Len(sent) \in Nat /\ Len(sent') = Len(sent) + 1
      /\ sent'[Len(sent')] = s /\ \A i \in 1..Len(sent) : sent'[i] = sent[i] /\ sent[i] \in Decision
  BY <1>0, <1>3, <1>6 DEF TypeOK
<1>10. LastDecisionHolds'
  <2> SUFFICES ASSUME NEW i \in 1..Len(sent'),
                      \A j \in (i + 1)..Len(sent') : sent'[j].tid # sent'[i].tid
               PROVE  cpuBy'[sent'[i].tid] = sent'[i].cpu
    BY DEF LastDecisionHolds
  <2>1. CASE i = Len(sent')
    BY <1>0, <1>2, <1>6, <1>7, <1>9, <2>1 DEF TypeOK
  <2>2. CASE i # Len(sent')
    <3>1. i \in 1..Len(sent) /\ Len(sent') \in (i + 1)..Len(sent')
      BY <1>9, <2>2
    <3>2. sent'[i] = sent[i] /\ sent[i].tid # m.tid /\ sent[i].tid \in Tids
      BY <1>6, <1>9, <3>1 DEF Decision
    <3>3. \A j \in (i + 1)..Len(sent) : sent[j].tid # sent[i].tid
      <4>1. \A j \in (i + 1)..Len(sent) : j \in (i + 1)..Len(sent') /\ j \in 1..Len(sent)
        BY <1>9, <3>1
      <4>2. QED
        BY <1>9, <3>2, <4>1
    <3>4. cpuBy[sent[i].tid] = sent[i].cpu
      BY <3>1, <3>3 DEF PassInv, LastDecisionHolds
    <3>5. cpuBy'[sent[i].tid] = cpuBy[sent[i].tid]
      BY <1>0, <1>7, <3>2 DEF TypeOK
    <3>6. QED
      BY <3>2, <3>4, <3>5
  <2>3. QED
    BY <2>1, <2>2
<1>11. PlacedLegal'
  <2> SUFFICES ASSUME NEW i \in 1..Len(sent')
               PROVE  /\ DomainOf[sent'[i].cpu] = sent'[i].dom
                      /\ \/ sent'[i].cpu \in allowed[sent'[i].tid]
                         \/ /\ sent'[i].reason = "stay" /\ sent'[i].cpu = sent'[i].from
                            /\ InDomain(allowed[sent'[i].tid], sent'[i].dom) = {}
    BY <1>4 DEF PlacedLegal
  <2>1. CASE i = Len(sent')
    BY <1>5, <1>6, <1>9, <2>1 DEF LegalDecision
  <2>2. CASE i # Len(sent')
    <3>1. i \in 1..Len(sent)
      BY <1>9, <2>2
    <3>2. QED
      BY <1>9, <3>1 DEF PassInv, PlacedLegal
  <2>3. QED
    BY <2>1, <2>2
<1>12. QED
  BY <1>0, <1>4, <1>7, <1>8, <1>10, <1>11 DEF PassInv

\* Every step keeps the invariant.
LEMMA PassStep == PassInv /\ [Next]_vars => PassInv'
<1> SUFFICES ASSUME PassInv, [Next]_vars PROVE PassInv'
  OBVIOUS
<1> USE DEF snapshot, domainLedger, cpuLedger
<1>0. TypeOK
  BY DEF PassInv
\* Steps that leave the ledger, the masks, the decisions and the phase alone.
<1>a. ASSUME TypeOK', UNCHANGED <<pc, allowed, cpuBy, jobs, sent, todo>>,
             pc = "reserve" => UNCHANGED pending
      PROVE  PassInv'
  <2>1. Booked' /\ LastDecisionHolds' /\ PlacedLegal'
    BY <1>a DEF PassInv, Booked, LastDecisionHolds, PlacedLegal
  <2>2. QED
    BY <1>a, <2>1 DEF PassInv
<1>1. CASE AdoptPlan
  <2>1. TypeOK'
    BY <1>0, <1>1, PassAssumption DEF AdoptPlan, TypeOK
  <2>2. QED
    BY <1>1, <1>a, <2>1 DEF AdoptPlan
<1>2. CASE PlanAges
  <2>1. TypeOK'
    BY <1>0, <1>2 DEF PlanAges, TypeOK
  <2>2. QED
    BY <1>2, <1>a, <2>1 DEF PlanAges
<1>3. ASSUME NEW t \in Tids, prune_dead_threads(t) PROVE PassInv'
  <2>1. NoThread \in ManagedThread
    BY DEF NoThread, ManagedThread
  <2>2. TypeOK'
    BY <1>0, <1>3, <2>1 DEF prune_dead_threads, TypeOK
  <2>3. QED
    BY <1>3, <1>a, <2>2 DEF prune_dead_threads
<1>4. ASSUME NEW t \in Tids, SettleEnds(t) PROVE PassInv'
  <2>1. [table[t] EXCEPT !.settling = FALSE] \in ManagedThread
    BY <1>0, SettledEntry DEF TypeOK
  <2>2. TypeOK'
    BY <1>0, <1>4, <2>1 DEF SettleEnds, TypeOK
  <2>3. QED
    BY <1>4, <1>a, <2>2 DEF SettleEnds
<1>5. CASE EndReserve
  <2>1. plan' \in [Tids -> PlanEntry]
    BY <1>0, <1>5 DEF EndReserve, TypeOK, PlanEntry
  <2>2. TypeOK'
    BY <1>0, <1>5, <2>1 DEF EndReserve, TypeOK
  <2>3. sent = <<>> /\ sent' = <<>>
    BY <1>5 DEF EndReserve, PassInv
  <2>4. LastDecisionHolds' /\ PlacedLegal'
    BY <2>3 DEF LastDecisionHolds, PlacedLegal
  <2>5. QED
    BY <1>5, <2>2, <2>4 DEF EndReserve, PassInv, Booked
<1>6. CASE DropDead
  <2>1. TypeOK'
    BY <1>0, <1>6 DEF DropDead, NextMessage, TypeOK
  <2>2. QED
    BY <1>6, <1>a, <2>1 DEF DropDead, NextMessage
<1>7. CASE DeferDispatch
  <2>1. Head(pending) \in QueuedTask /\ Tail(pending) \in Seq(QueuedTask)
    BY <1>0, <1>7 DEF DeferDispatch, NextMessage, TypeOK
  <2>2. Known(Head(pending).cpu, Head(pending)) \in ManagedThread
    BY <1>0, <2>1, TableEntry DEF Known, QueuedTask, TypeOK
  <2>a. table' \in [Tids -> ManagedThread]
    BY <1>0, <1>7, <2>1, <2>2 DEF DeferDispatch, TypeOK, QueuedTask
  <2>b. deferred' \in Seq(QueuedTask) /\ pending' \in Seq(QueuedTask)
    BY <1>0, <1>7, <2>1 DEF DeferDispatch, TypeOK
  <2>3. TypeOK'
    BY <1>0, <1>7, <2>a, <2>b DEF DeferDispatch, TypeOK
  <2>4. QED
    BY <1>7, <1>a, <2>3 DEF DeferDispatch, NextMessage
<1>8. CASE UNCHANGED vars
  <2>1. TypeOK'
    BY <1>0, <1>8 DEF vars, TypeOK
  <2>2. QED
    BY <1>8, <1>a, <2>1 DEF vars
<1>9. QED
  BY <1>1, <1>2, <1>3, <1>4, <1>5, <1>6, <1>7, <1>8, StartPassInv, ReserveInv, DispatchInv,
     LeaveInv DEF Next, EndPass, RingFull

\* It holds before the first pass.
LEMMA PassInit == Init => PassInv
<1> SUFFICES ASSUME Init PROVE PassInv
  OBVIOUS
<1>1. /\ NoThread \in ManagedThread /\ Unknown \in CpuStateValue
      /\ [dom |-> NoDomain, cpu |-> NoCpu] \in PlanEntry
  BY DEF NoThread, ManagedThread, Unknown, CpuStateValue, PlanEntry
<1>a. /\ pending \in Seq(QueuedTask) /\ deferred \in Seq(QueuedTask)
      /\ sent \in Seq(Decision)
  BY DEF Init
<1>b. /\ table \in [Tids -> ManagedThread] /\ plan \in [Tids -> PlanEntry]
      /\ allowed \in [Tids -> SUBSET Cpus] /\ view \in [Cpus -> CpuStateValue]
      /\ jobs \in [Cpus -> SUBSET Tids]
  BY <1>1 DEF Init, All
<1>2. TypeOK
  BY <1>a, <1>b DEF Init, All, TypeOK
<1>3. Booked
  BY TopologyAssumption DEF Init, All, Booked, NoCpu
<1>4. QED
  BY <1>2, <1>3, NothingSent DEF Init, PassInv

\* PassInv is an invariant.
LEMMA PassInvariant == Spec => []PassInv
BY PassInit, PassStep, PTL DEF Spec

\* The pass and its ledger stay well typed; no counter of the domain ledger, and no
\* budget, falls below zero.
THEOREM PassTypeCorrect == Spec => []TypeOK
<1>1. PassInv => TypeOK
  BY DEF PassInv
<1>2. QED
  BY <1>1, PassInvariant, PTL

\* Over any number of reservations and decisions, apply_planned_cpu_assignment keeps
\* every thread on the books of one CPU, the one its last decision sent it to.
THEOREM CpuLedgerCorrect == Spec => []CpuLedger
<1>1. PassInv => CpuLedger
  BY DEF PassInv, Booked, LastDecisionHolds, CpuLedger
<1>2. QED
  BY <1>1, PassInvariant, PTL

\* Whoever decides (the plan, the scan, the spread, the stay) and whatever the reserved
\* CPU replaces, no decision leaves the selected domain or the mask of the thread,
\* except that a thread without any CPU in its domain stays where it is.
THEOREM PlacedLegalCorrect == Spec => []PlacedLegal
<1>1. PassInv => PlacedLegal
  BY DEF PassInv
<1>2. QED
  BY <1>1, PassInvariant, PTL

-----------------------------------------------------------------------------
(* What a step may not do.                                                 *)

\* A decision that a step adds to those of the pass is one that Decisions gives for
\* the message at the head of the queue.
LEMMA SentStep ==
    ASSUME PassInv, [Next]_vars, NEW i \in (Len(sent) + 1)..Len(sent')
    PROVE  \E s \in Decisions(Head(pending)) : sent'[i] = s /\ Head(pending) \in QueuedTask
<1>0. sent \in Seq(Decision) /\ Len(sent) \in Nat
  BY DEF PassInv, TypeOK
<1>1. CASE UNCHANGED sent
  BY <1>0, <1>1
<1>2. CASE sent' = <<>>
  BY <1>0, <1>2
<1>3. CASE Dispatch
  <2>1. PICK s \in Decisions(Head(pending)) : sent' = Append(sent, s)
    BY <1>3 DEF Dispatch
  <2>2. sent'[i] = s
    BY <1>0, <2>1
  <2>3. Head(pending) \in QueuedTask
    BY <1>3 DEF Dispatch, NextMessage, PassInv, TypeOK
  <2>4. QED
    BY <2>2, <2>3
<1>4. QED
  BY <1>1, <1>2, <1>3
     DEF Next, vars, AdoptPlan, PlanAges, prune_dead_threads, SettleEnds, StartPass,
         build_burst_target_cpu_plan, EndReserve, DropDead, DeferDispatch, EndPass, RingFull, Leave

\* A thread that was sent to another domain lately is in its settle window.
WindowOpen == \A t \in lately : table[t].settling

\* Whatever sent it there opened the window, and nothing but time or the end of the
\* thread closes it: neither later messages nor later decisions in its own domain do.
LEMMA WindowStep == PassInv /\ WindowOpen /\ [Next]_vars => WindowOpen'
<1> SUFFICES ASSUME PassInv, WindowOpen, [Next]_vars, NEW t \in lately'
             PROVE  table'[t].settling
  BY DEF WindowOpen
<1>0. /\ table \in [Tids -> ManagedThread] /\ pending \in Seq(QueuedTask)
      /\ lately \subseteq Tids
  BY DEF PassInv, TypeOK
<1>1. CASE UNCHANGED <<table, lately>>
  BY <1>1 DEF WindowOpen
<1>2. ASSUME NEW u \in Tids, prune_dead_threads(u) \/ SettleEnds(u) PROVE table'[t].settling
  BY <1>0, <1>2 DEF prune_dead_threads, SettleEnds, WindowOpen
<1>3. CASE StartPass
  <2>1. t \in lately /\ table[t].settling /\ t \in Tids
    BY <1>0, <1>3 DEF StartPass, WindowOpen
  <2>2. \A queue, b : update_thread_signature(refresh_thread_from_task(t, queue), b).settling
    BY <1>0, <2>1 DEF update_thread_signature, refresh_thread_from_task, ManagedThread
  <2>3. PICK queue, shows :
          table' = [v \in Tids |->
                      IF MessagesOf(v, queue) = {} THEN table[v]
                      ELSE update_thread_signature(refresh_thread_from_task(v, queue), shows[v])]
    BY <1>3 DEF StartPass
  <2>4. QED
    BY <2>1, <2>2, <2>3
<1>4. CASE DeferDispatch
  <2>1. Head(pending) \in QueuedTask
    BY <1>0, <1>4 DEF DeferDispatch, NextMessage
  <2>2. t \in lately /\ table[t].settling /\ t \in Tids
    BY <1>0, <1>4 DEF DeferDispatch, WindowOpen
  <2>3. \A m \in QueuedTask : m.tid = t => Known(m.cpu, m).settling
    BY <1>0, <2>2 DEF Known, ManagedThread
  <2>4. Head(pending).tid \in Tids
    BY <2>1 DEF QueuedTask
  <2>5. QED
    BY <1>0, <1>4, <2>1, <2>2, <2>3, <2>4 DEF DeferDispatch
<1>5. CASE Dispatch
  <2> DEFINE m == Head(pending)
  <2>a. m \in QueuedTask
    BY <1>0, <1>5 DEF Dispatch, NextMessage
  <2>1. m \in QueuedTask /\ m.tid \in Tids
    BY <2>a DEF QueuedTask
  <2>2. PICK s \in Decisions(m) :
          /\ table' = [table EXCEPT ![m.tid] =
                        [Known(s.cpu, m) EXCEPT !.settling = @ \/ s.dom # DomainOf[m.cpu],
                                                !.signature = capture_dispatch_snapshot(@)]]
          /\ lately' = IF s.dom # DomainOf[m.cpu] THEN lately \cup {m.tid} ELSE lately
    BY <1>5 DEF Dispatch, StartsSettling
  <2> HIDE DEF m
  <2>3. CASE t # m.tid
    BY <1>0, <2>1, <2>2, <2>3 DEF WindowOpen
  <2>4. CASE t = m.tid
    <3>1. table[t].settling \/ s.dom # DomainOf[m.cpu]
      BY <2>2, <2>4 DEF WindowOpen
    <3>2. [Known(s.cpu, m) EXCEPT !.settling = @ \/ s.dom # DomainOf[m.cpu],
                                  !.signature = capture_dispatch_snapshot(@)].settling
      BY <1>0, <2>1, <2>4, <3>1 DEF Known, ManagedThread
    <3>3. QED
      BY <1>0, <2>1, <2>2, <2>4, <3>2
  <2>5. QED
    BY <2>3, <2>4
<1>6. QED
  BY <1>1, <1>2, <1>3, <1>4, <1>5
     DEF Next, vars, AdoptPlan, PlanAges, build_burst_target_cpu_plan, EndReserve, DropDead,
         EndPass, RingFull, Leave

\* No thread is moved for balance, neither by the plan nor by the scan of
\* choose_placement, within migrate_settle_ms of a dispatch that sent it to another
\* domain, although the window may open and close in mid-pass.
THEOREM SettleCorrect == Spec => SettleRespected
<1>1. ASSUME PassInv, WindowOpen, [Next]_vars
      PROVE  \A i \in (Len(sent) + 1)..Len(sent') :
                sent'[i].reason = "move" => sent'[i].tid \notin lately
  <2> SUFFICES ASSUME NEW i \in (Len(sent) + 1)..Len(sent')
               PROVE  sent'[i].reason = "move" => sent'[i].tid \notin lately
    OBVIOUS
  <2>1. PICK s \in Decisions(Head(pending)) : sent'[i] = s /\ Head(pending) \in QueuedTask
    BY <1>1, SentStep
  <2>2. LegalDecision(s, Head(pending))
    BY <1>1, <2>1, DecisionLegal DEF PassInv, TypeOK, DecideType, SelectType
  <2>3. QED
    BY <1>1, <2>1, <2>2 DEF LegalDecision, WindowOpen
<1>2. Init => WindowOpen
  BY DEF Init, WindowOpen
<1>3. QED
  BY <1>1, <1>2, WindowStep, PassInvariant, PTL DEF Spec, SettleRespected

\* A thread leaves todo, within the reservation, by its own reservation only.
LEMMA TodoStep ==
    ASSUME [Next]_vars, pc = "reserve", pc' = "reserve", NEW t \in todo \ todo', PassInv
    PROVE  t \in Tids /\ build_burst_target_cpu_plan(t)
<1>1. t \in Tids
  BY DEF PassInv, TypeOK
<1>2. ~UNCHANGED todo
  OBVIOUS
<1>3. PICK u \in Tids : build_burst_target_cpu_plan(u)
  BY <1>2 DEF Next, vars, AdoptPlan, PlanAges, prune_dead_threads, SettleEnds, StartPass,
              EndReserve, DropDead, DeferDispatch, Dispatch, NextMessage, EndPass, RingFull
<1>4. u = t
  BY <1>3 DEF build_burst_target_cpu_plan
<1>5. QED
  BY <1>1, <1>3, <1>4

\* build_burst_target_cpu_plan books a woken thread on a booked CPU only if every
\* eligible CPU of its domain is busy, taken or booked: with any topology, any masks and
\* any number of threads reserved before it.
THEOREM SharingCorrect == Spec => NoNeedlessSharing
<1>1. ASSUME PassInv, [Next]_vars
      PROVE  \A t \in todo \ todo' :
                pc = "reserve" /\ pc' = "reserve" /\ ~Fixed(t) /\ ~First(t).tick
                    /\ jobs'[targetCpu'[t]] # {t}
                => \A c \in InDomain(Preference(t)[1], domainBy[t]) :
                    ~effectively_idle_cpu(c) \/ TakenByOther(c, t) \/ jobs[c] # {}
  <2> SUFFICES ASSUME NEW t \in todo \ todo', pc = "reserve", pc' = "reserve",
                      ~Fixed(t), ~First(t).tick, jobs'[targetCpu'[t]] # {t}
               PROVE  \A c \in InDomain(Preference(t)[1], domainBy[t]) :
                        ~effectively_idle_cpu(c) \/ TakenByOther(c, t) \/ jobs[c] # {}
    OBVIOUS
  <2>0. t \in Tids /\ build_burst_target_cpu_plan(t) /\ TypeOK /\ Booked
    BY <1>1, TodoStep DEF PassInv
  <2>1. First(t) \in QueuedTask /\ First(t).tid = t
    BY <1>1, <2>0, MessagePositions DEF PassInv, TypeOK, First
  <2>2. PICK c : /\ c \in OrElse(<<preferred_reserved_cpu_for_selected_domain(cpuBy[t], domainBy[t], t),
                                   CpuForDomain(First(t), domainBy[t], FALSE)>>)
                 /\ apply_planned_cpu_assignment(First(t), c)
                 /\ targetCpu' = [targetCpu EXCEPT ![t] = c]
    BY <2>0 DEF build_burst_target_cpu_plan
  <2>3. /\ c \in Cpus
        /\ \/ c \in preferred_reserved_cpu_for_selected_domain(cpuBy[t], domainBy[t], t)
           \/ c \in CpuForDomain(First(t), domainBy[t], FALSE)
    <3> DEFINE reserved == preferred_reserved_cpu_for_selected_domain(cpuBy[t], domainBy[t], t)
               chosen == CpuForDomain(First(t), domainBy[t], FALSE)
    <3>1. c \in OrElse(<<reserved, chosen>>)
      BY <2>2
    <3> HIDE DEF reserved, chosen
    <3>2. c \in Cpus /\ \E i \in 1..2 : c \in <<reserved, chosen>>[i]
      BY <3>1, OrElseIn
    <3>3. c \in reserved \/ c \in chosen
      BY <3>2
    <3>4. QED
      BY <3>2, <3>3 DEF reserved, chosen
  <2>4. SelectType /\ allowed \in [Tids -> SUBSET Cpus]
    BY <2>0 DEF TypeOK, SelectType
  <2>5. NotNeedless(c, t, domainBy[t])
    BY <2>0, <2>1, <2>3, <2>4, PreferredReserved, CpuForDomainNotNeedless
  <2>6. targetCpu'[t] = c /\ jobs'[c] = jobs[c] \cup {t}
    BY <2>0, <2>1, <2>2, <2>3, AssignBooked DEF TypeOK
  <2>7. ~(jobs[c] \subseteq {t})
    BY <2>6
  <2>8. QED
    BY <2>5, <2>7 DEF NotNeedless
<1>2. QED
  BY <1>1, PassInvariant, PTL DEF Spec, NoNeedlessSharing
=============================================================================
