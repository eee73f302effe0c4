----------------------------- MODULE Attribution -----------------------------
(***************************************************************************)
(* Which threads load a CS link?  When a plan is adopted the main loop     *)
(* notes the bandwidth of every link and the memory traffic of the plan's  *)
(* threads (arm_plan_cs_attribution); once a link has a newer sample, its  *)
(* change is shared among the threads whose traffic changed the same way   *)
(* (apply_plan_cs_attribution) and added to what they are held answerable  *)
(* for, the evidence that the choice of villains goes by.  Evidence above  *)
(* what the link carries now decays.                                       *)
(*                                                                         *)
(* A pass of the main loop has two steps here, Observe and AdoptPlan.      *)
(* Plans come from the planner worker; of PlannerPipeline this module uses *)
(* only how the active plan moves when results are received (PlanForward   *)
(* there).  Of time it keeps which samples and threads are stale, and the  *)
(* age of the armed attribution in staleness limits (plan_cs_stale_ms).  A *)
(* sample that is stale and one that is missing are alike, and so are a    *)
(* thread that is pruned and one not seen for long and without evidence.   *)
(* Confidence and sample counts of the signature, which nothing here       *)
(* depends on, are left out.                                               *)
(***************************************************************************)
EXTENDS Integers, FiniteSetsExt

CONSTANTS
    MaxEpoch,           \* bound: sweeps in a behaviour
    MaxRev,             \* bound: revisions of the plan
    Links,              \* CS links
    Threads,            \* thread ids, numbers
    Bandwidths,         \* what a sample may show
    Traffic,            \* memory traffic of a thread: [dram, other, l2]
    MaxSweeps,          \* PLAN_CS_ATTRIBUTION_MAX_SWEEPS
    WeightScale,        \* PLAN_CS_INGRESS_RELATIVE_WEIGHT_SCALE
    WeightFloor,        \* PLAN_CS_INGRESS_RELATIVE_WEIGHT_FLOOR_X100
    WeightMin,          \* PLAN_CS_INGRESS_RELATIVE_WEIGHT_MIN_X10000
    DecayDivisor,       \* PLAN_CS_NEGATIVE_DECAY_DIVISOR
    MaxSamples,         \* bound: samples of CS links in a behaviour
    MaxChanges          \* bound: changes of a thread's traffic in a behaviour

ASSUME AttributionAssumption ==
    /\ Threads \subseteq Nat /\ IsFiniteSet(Threads) /\ Bandwidths \subseteq Nat
    /\ Traffic \subseteq [dram : Nat, other : Nat, l2 : Nat]
    /\ {WeightFloor, DecayDivisor} \subseteq Nat \ {0}
    /\ {MaxEpoch, MaxRev, MaxSweeps, WeightScale, WeightMin, MaxSamples, MaxChanges} \subseteq Nat

VARIABLES
    loopPc,     \* step of the pass
    latest,     \* latest_df_sweep_epoch
    active,     \* epoch and revision of active_plan; revision 0 for none
    cs,         \* df_cs_states: bandwidth of each link's sample, whether it
                \* is stale and whether it is newer than the noted one
    traffic,    \* what each thread's last message said
    away,       \* threads without a message for the staleness limit
    evidence,   \* on each link, io_cs_signature.df_domain_delta_x100 of each thread
    pending,    \* the armed attribution, or None
    lastArmed,  \* last_armed_plan
    budget      \* what is left of the bounds

plans == <<latest, active, lastArmed>>
vars == <<loopPc, plans, cs, traffic, away, evidence, pending, budget>>

None == [armed |-> FALSE]
NoSample == [bw |-> 0, stale |-> TRUE, newer |-> FALSE]
NoTraffic == [dram |-> 0, other |-> 0, l2 |-> 0]
Unnoted == -1
plan_cs_pending_max_age == MaxSweeps

\* Plans are told apart by their (epoch, revision).
NoPlan == <<0, 0>>
Later(k, l) == k[1] > l[1] \/ (k[1] = l[1] /\ k[2] > l[2])

Init ==
    /\ loopPc = "observe" /\ latest = 0 /\ active = NoPlan
    /\ cs = [l \in Links |-> NoSample]
    /\ traffic = [t \in Threads |-> NoTraffic]
    /\ away = Threads
    /\ evidence = [l \in Links |-> [t \in Threads |-> 0]]
    /\ pending = None
    /\ lastArmed = NoPlan
    /\ budget = [samples |-> MaxSamples, changes |-> MaxChanges]

-----------------------------------------------------------------------------
(* Time, samples and messages.                                             *)

\* Up to a staleness limit passes between two passes.  What a sample or a message
\* said is not read once it is stale.
Tick ==
    /\ loopPc = "observe"
    /\ \E late \in SUBSET Links, gone \in SUBSET Threads :
         /\ cs' = [l \in Links |-> IF l \in late THEN NoSample ELSE cs[l]]
         /\ away' = away \cup gone
         /\ traffic' = [t \in Threads |-> IF t \in gone THEN NoTraffic ELSE traffic[t]]
    /\ pending' = IF pending.armed /\ pending.age < plan_cs_pending_max_age
                  THEN [pending EXCEPT !.age = @ + 1] ELSE pending
    /\ <<cs, away, pending>>' # <<cs, away, pending>>
    /\ UNCHANGED <<loopPc, plans, evidence, budget>>

\* The last sample of each link counts; the sweep epoch may go up.
ReceiveSamples(got, bw) ==
    /\ Cardinality(got) <= budget.samples
    /\ cs' = [l \in Links |-> IF l \in got
                             THEN [bw |-> bw[l], stale |-> FALSE, newer |-> pending.armed]
                             ELSE cs[l]]
    /\ latest' \in latest..MaxEpoch

Changes(from, new) == Cardinality({t \in from : new[t] # traffic[t]})

\* The pending messages of a pass refresh their threads.
RefreshThreads(from, new) ==
    /\ Changes(from, new) <= budget.changes
    /\ traffic' = [t \in Threads |-> IF t \in from THEN new[t] ELSE traffic[t]]
    /\ away' = away \ from

-----------------------------------------------------------------------------
(* A link's change, shared out.                                            *)

Live(c, l) == ~c[l].stale
Fresh(c) == {l \in Links : /\ pending.base[l] # Unnoted /\ l \notin pending.applied
                           /\ Live(c, l) /\ c[l].newer}

SameDirection(x, y) == (y > 0 /\ x > 0) \/ (y < 0 /\ x < 0)

Abs(x) == IF x < 0 THEN -x ELSE x
Larger(a, b) == IF a > b THEN a ELSE b
Smaller(a, b) == IF a < b THEN a ELSE b

Sources == <<"dram", "total", "l2">>
Ingress(tr, source) ==
    CASE source = "dram" -> tr.dram
      [] source = "total" -> tr.dram + tr.other
      [] source = "l2" -> tr.l2

\* A change counts relative to what the traffic was; jitter counts for nothing.
Weight(was, is) ==
    LET relative == (Abs(is - was) * WeightScale) \div Larger(was, WeightFloor)
        weight == Larger(relative, 1)
    IN  IF is = was \/ weight < WeightMin THEN 0 ELSE weight

\* By one source: the weights of the candidates seen recently whose traffic
\* changed in the direction of the link's.
WeightsBy(source, delta, tr, gone) ==
    [t \in pending.candidates |->
       LET was == Ingress(pending.traffic[t], source)
           is == Ingress(tr[t], source)
       IN  IF t \notin gone /\ SameDirection(is - was, delta)
           THEN Weight(was, is) ELSE 0]

\* The first source that tells the candidates apart from those without change.
plan_cs_ingress_weights(delta, tr, gone) ==
    LET By(k) == WeightsBy(Sources[k], delta, tr, gone)
        telling == {k \in DOMAIN Sources : \E t \in pending.candidates : By(k)[t] > 0}
    IN  IF telling = {} THEN [t \in pending.candidates |-> 0] ELSE By(Min(telling))

\* Mutant: the last thread's share is not what the others leave.
Shares_all_to_last(delta, weights) ==
    LET paid == {t \in DOMAIN weights : weights[t] > 0}
        total == SumFunction(weights)
    IN  [t \in paid |-> IF t = Max(paid) THEN delta
                        ELSE (delta * weights[t]) \div total]

\* In proportion to the weights; the last thread gets what rounding leaves.
Shares(delta, weights) ==
    LET paid == {t \in DOMAIN weights : weights[t] > 0}
        total == SumFunction(weights)
        part == [t \in paid |-> (delta * weights[t]) \div total]
    IN  [t \in paid |-> IF t = Max(paid) THEN delta - SumFunctionOnSet(part, paid \ {t})
                        ELSE part[t]]

ewma(old, new) == IF old = 0 THEN new ELSE (3 * old + new) \div 4

\* A rise is averaged in, a fall is paid back slowly.
update_plan_cs_thread_signature(old, share, delta) ==
    IF share = 0 THEN old
    ELSE IF delta > 0 THEN ewma(old, share)
    ELSE Larger(old - (share + DecayDivisor - 1) \div DecayDivisor, 0)

\* Evidence on a link beyond 5/4 of what it carries is scaled down to that.
Limit(bw) == (bw * 5) \div 4

\* Mutant: the last thread's evidence is not cut.
decay_keeps_last(ev, bw) ==
    LET owing == {t \in Threads : ev[t] > 0}
        sum == SumFunction(ev)
        limit == Limit(bw)
        scaled == [t \in Threads |-> (ev[t] * limit) \div sum]
    IN  IF owing = {} \/ sum <= limit THEN ev
        ELSE [scaled EXCEPT ![Max(owing)] = ev[Max(owing)]]

\* ev: what each thread answers for on the link.  The last one with evidence gets
\* what rounding leaves, but no more than it had.
decay_io_cs_link_evidence_to_current(ev, bw) ==
    LET owing == {t \in Threads : ev[t] > 0}
        sum == SumFunction(ev)
        limit == Limit(bw)
        scaled == [t \in Threads |-> (ev[t] * limit) \div sum]
        last == Max(owing)
        left == Larger(limit - SumFunctionOnSet(scaled, owing \ {last}), 0)
    IN  IF owing = {} \/ sum <= limit THEN ev
        ELSE [scaled EXCEPT ![last] = Smaller(ev[last], left)]

\* One fresh link: its change is shared out; evidence decays after a fall.
ApplyLink(ev, base, bw, tr, gone) ==
    LET delta == bw - base
        shares == Shares(Abs(delta), plan_cs_ingress_weights(delta, tr, gone))
        shared == [t \in Threads |->
                     IF t \in DOMAIN shares
                     THEN update_plan_cs_thread_signature(ev[t], shares[t], delta)
                     ELSE ev[t]]
    IN  IF delta = 0 THEN ev
        ELSE IF delta < 0 THEN decay_io_cs_link_evidence_to_current(shared, bw)
        ELSE shared

Expired == pending.age >= plan_cs_pending_max_age

apply_plan_cs_attribution(c, tr, gone) ==
    IF ~pending.armed THEN [pending |-> None, evidence |-> evidence]
    ELSE LET fresh == Fresh(c)
             applied == pending.applied \cup fresh
             open == {l \in Links : pending.base[l] # Unnoted} \ applied
         IN  [pending |-> IF (fresh = {} /\ Expired) \/ (fresh # {} /\ open = {}) THEN None
                          ELSE [pending EXCEPT !.applied = applied],
              evidence |-> [l \in Links |->
                              IF l \in fresh
                              THEN ApplyLink(evidence[l], pending.base[l], c[l].bw, tr, gone)
                              ELSE evidence[l]]]

decay_io_cs_evidence_to_current_samples(ev, c) ==
    [l \in Links |-> IF Live(c, l) THEN decay_io_cs_link_evidence_to_current(ev[l], c[l].bw)
                     ELSE ev[l]]

\* The first half of a pass: samples, messages, and what the last plan has done.
Observe ==
    /\ loopPc = "observe"
    /\ \E got \in SUBSET Links, from \in SUBSET Threads :
         \E bw \in [got -> Bandwidths], new \in [from -> Traffic] :
            /\ ReceiveSamples(got, bw)
            /\ RefreshThreads(from, new)
            /\ budget' = [samples |-> budget.samples - Cardinality(got),
                          changes |-> budget.changes - Changes(from, new)]
    /\ LET step == apply_plan_cs_attribution(cs', traffic', away')
       IN  /\ pending' = step.pending
           /\ evidence' = decay_io_cs_evidence_to_current_samples(step.evidence, cs')
    /\ loopPc' = "adopt"
    /\ UNCHANGED <<active, lastArmed>>

\* A thread that has ended is taken from the table, and its evidence with it.
prune_dead_threads(t) ==
    /\ loopPc = "observe"
    /\ t \in away /\ \E l \in Links : evidence[l][t] # 0
    /\ evidence' = [l \in Links |-> [evidence[l] EXCEPT ![t] = 0]]
    /\ UNCHANGED <<loopPc, plans, cs, traffic, away, pending, budget>>

-----------------------------------------------------------------------------
(* Arming.                                                                 *)

plan_is_current(plan) == latest <= plan[1] + 1

\* Mutant: a plan may be armed again.
MayArm_again(plan) == plan # NoPlan /\ plan_is_current(plan)

MayArm(plan) == plan # NoPlan /\ plan_is_current(plan) /\ lastArmed # plan

\* The threads of the plan that were seen recently.
collect_plan_cs_candidates(entries) == entries \ away

\* The bandwidth of the links that have a sample.
capture_plan_cs_link_baselines ==
    [l \in Links |-> IF Live(cs, l) THEN cs[l].bw ELSE Unnoted]

\* Without a candidate or without a link the plan is tried again next pass.
arm_plan_cs_attribution(plan, entries) ==
    LET candidates == collect_plan_cs_candidates(entries)
        base == capture_plan_cs_link_baselines
    IN  IF ~MayArm(plan) \/ candidates = {} \/ \A l \in Links : base[l] = Unnoted
        THEN UNCHANGED <<pending, lastArmed, cs>>
        ELSE /\ pending' = [armed |-> TRUE, key |-> plan, age |-> 0,
                            base |-> base, applied |-> {}, candidates |-> candidates,
                            traffic |-> [t \in candidates |-> traffic[t]]]
             /\ lastArmed' = plan
             /\ cs' = [l \in Links |-> [cs[l] EXCEPT !.newer = FALSE]]

\* Results are received twice in a pass, before and after its request.  A plan was computed
\* for the plan that is active then, or for the one before it: the revision is one more,
\* or the same, and so it is with the sweep (PlanForward of PlannerPipeline).
Results ==
    {active} \cup {k \in (Larger(active[1], 1)..latest) \X (active[2]..(active[2] + 2)) :
                     k[2] \in 1..MaxRev}

\* The second half: results are received, and the active plan is armed.
AdoptPlan ==
    /\ loopPc = "adopt"
    /\ active' \in Results
    /\ \E entries \in SUBSET Threads : arm_plan_cs_attribution(active', entries)
    /\ loopPc' = "observe"
    /\ UNCHANGED <<latest, traffic, away, evidence, budget>>

-----------------------------------------------------------------------------
Pass == Observe \/ AdoptPlan

Next ==
    \/ Tick
    \/ Pass
    \/ \E t \in Threads : prune_dead_threads(t)

Spec == Init /\ [][Next]_vars

-----------------------------------------------------------------------------
(* Properties.                                                             *)

\* Attributions go forward with the plans: whatever the order in which results
\* arrive, are adopted or are skipped for want of samples, no plan is armed twice
\* and none after a later one (arm_plan_cs_attribution remembers one key only).
ArmedForward ==
    [][pending'.armed /\ (~pending.armed \/ pending'.key # pending.key \/ pending'.age < pending.age)
         => Later(pending'.key, lastArmed)]_vars

\* Threads are never held answerable for more than a link's sample shows: what
\* they gain in a pass is at most the link's rise since the plan was armed, and
\* nothing without a newer sample.
GainsCovered ==
    [][\A l \in Links :
         LET gains == SumFunction([t \in Threads |-> Larger(evidence'[l][t] - evidence[l][t], 0)])
         IN  gains > 0 => /\ pending.armed /\ l \in Fresh(cs')
                          /\ gains <= cs'[l].bw - pending.base[l]]_vars

\* After every pass threads answer for at most 5/4 of what a link with a sample
\* carries, whatever the plan added, the threads that came and went, and what
\* rounding left over when evidence was scaled down.
EvidenceCovered ==
    loopPc = "adopt" =>
        \A l \in Links : Live(cs, l) =>
            SumFunction(evidence[l]) <= Limit(cs[l].bw)
=============================================================================
