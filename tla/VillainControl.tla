--------------------------- MODULE VillainControl ---------------------------
(***************************************************************************)
(* The pressure controller of villain_control.rs, as a pass of app::run    *)
(* drives it: a latch per CS link decides which thread is the link's       *)
(* villain, and a token bucket per thread decides whether a tick-triggered *)
(* villain is dispatched on a short slice or put off to a later pass.      *)
(*                                                                         *)
(* Time is a counter; samples, task arrivals and the clock interleave with *)
(* the steps of a pass.  Link ids are shifted by one: 0 is "no link".      *)
(* policy.cs_villain_throttle and policy.signature_snapshots are on.       *)
(***************************************************************************)
EXTENDS Integers, FiniteSets

CONSTANTS
    CsLinks,            \* CS links
    Managed,            \* managed threads
    Slice,              \* policy_villain_reslice_slice_ns
    TickDeferMax,       \* policy.tick_defer_max
    RefillDivisor,      \* policy.cs_villain_refill_divisor
    TickReevalEvery,    \* policy.tick_reeval_every
    SettleNs,           \* policy.cs_villain_settle_ns
    ReleaseSamples,     \* policy.cs_villain_release_samples
    StaleNs,            \* policy.df_stale_ms
    ActiveNs,           \* max(df_stale_ms, llc_stale_ms)
    DeferBound,         \* VILLAIN_DEFER_UPPER_BOUND_NS
    MaxGap,             \* bound: time between the starts of two passes
    MaxRefused,         \* bound: refusals of one message by a full ring buffer
    MaxTime             \* bound: length of a behaviour

NoTid == "no tid"
AtLeastOne(n) == IF n = 0 THEN 1 ELSE n

ASSUME LinksAssumption == CsLinks \subseteq Nat \ {0}
ASSUME ThreadsAssumption == NoTid \notin Managed
ASSUME PolicyAssumption ==
    /\ Slice \in Nat \ {0} /\ DeferBound \in Nat \ {0}
    /\ {TickDeferMax, RefillDivisor, TickReevalEvery, SettleNs, ReleaseSamples,
        StaleNs, ActiveNs, MaxGap, MaxRefused, MaxTime} \subseteq Nat

VARIABLES
    now,        \* now_ns()
    passAt,     \* when the present or latest pass began
    sample,     \* df_cs_states: latest sample of each link, ts = 0 for none
    latch,      \* CsVillainLatchController.links
    eff,        \* effective_link_villains of the latest pass
    entry,      \* the throttle_* fields of each ManagedThreadState
    seen,       \* last_seen_ns
    msg,        \* the pending message of each thread: none, tick or other
    todo,       \* messages the pass has still to decide
    cleared,    \* history: clear samples of each link the latch has seen in a row
    wait,       \* history: deferrals of the pending message
    bill        \* history: slices given to each thread since its bucket opened

villainVars == <<now, passAt, sample, latch, eff, entry, seen, msg, todo, cleared, wait, bill>>

NoLatch    == [tid |-> NoTid, hold |-> 0, clears |-> 0, clearTs |-> 0]
NoThrottle == [link |-> 0, tokens |-> 0, refill |-> 0, since |-> 0]
NoWait     == [start |-> 0, last |-> 0, refused |-> 0]
NoBill     == [opened |-> 0, spent |-> 0, forced |-> 0]

VillainInit ==
    /\ now = 1 /\ passAt = 0
    /\ sample = [l \in CsLinks |-> [ts |-> 0, over |-> FALSE]]
    /\ latch = [l \in CsLinks |-> NoLatch]
    /\ eff = [l \in CsLinks |-> NoTid]
    /\ entry = [t \in Managed |-> NoThrottle]
    /\ seen = [t \in Managed |-> 0]
    /\ msg = [t \in Managed |-> "none"]
    /\ todo = {}
    /\ cleared = [l \in CsLinks |-> {}]
    /\ wait = [t \in Managed |-> NoWait]
    /\ bill = [t \in Managed |-> NoBill]

-----------------------------------------------------------------------------
(* The environment: the clock, the samplers and the tasks.                 *)

Clock ==
    /\ now < MaxTime /\ now < passAt + MaxGap
    /\ now' = now + 1
    /\ UNCHANGED <<passAt, sample, latch, eff, entry, seen, msg, todo, cleared, wait, bill>>

\* A sampler reports whether the traffic of link l exceeds its capacity.
Sample(l, over) ==
    /\ sample[l].ts < now
    /\ sample' = [sample EXCEPT ![l] = [ts |-> now, over |-> over]]
    /\ UNCHANGED <<now, passAt, latch, eff, entry, seen, msg, todo, cleared, wait, bill>>

Arrive(t, trigger) ==
    /\ msg[t] = "none"
    /\ msg' = [msg EXCEPT ![t] = trigger]
    /\ UNCHANGED <<now, passAt, sample, latch, eff, entry, seen, todo, cleared, wait, bill>>

-----------------------------------------------------------------------------
(* The latch.                                                              *)

live_df_state(l) == sample[l].ts # 0 /\ now - sample[l].ts <= StaleNs
Clear(l) == live_df_state(l) /\ ~sample[l].over
Overloaded(l) == live_df_state(l) /\ sample[l].over

\* Mutant: every pass that sees a clear sample counts it.
Counted_each_pass(l) == [latch[l] EXCEPT !.clears = @ + 1, !.clearTs = sample[l].ts]

\* A clear sample counts once.
Counted(l) ==
    IF sample[l].ts = latch[l].clearTs THEN latch[l]
    ELSE [latch[l] EXCEPT !.clears = @ + 1, !.clearTs = sample[l].ts]

\* What becomes of a latched villain, with s the threads' last_seen_ns.
LatchAction(l, s) ==
    IF now - s[latch[l].tid] > ActiveNs THEN "invalid"
    ELSE IF Clear(l) /\ Counted(l).clears >= AtLeastOne(ReleaseSamples) THEN "release"
    ELSE IF now >= latch[l].hold THEN "expire"
    ELSE "hold"

Held(l) ==
    IF Clear(l) THEN Counted(l)
    ELSE IF Overloaded(l) THEN [latch[l] EXCEPT !.clears = 0, !.clearTs = 0]
    ELSE latch[l]

Acquired(fresh) ==
    IF fresh = NoTid THEN NoLatch
    ELSE [tid |-> fresh, hold |-> now + AtLeastOne(SettleNs), clears |-> 0, clearTs |-> 0]

effective_villain(l, fresh, s) ==
    IF latch[l].tid = NoTid THEN Acquired(fresh)
    ELSE CASE LatchAction(l, s) = "hold" -> Held(l)
           [] LatchAction(l, s) = "release" -> NoLatch
           [] OTHER -> Acquired(fresh)

\* What choose_link_villains_with_fallbacks may return: only an overloaded link
\* has a fresh villain, any thread of it.
FreshVillains ==
    {f \in [CsLinks -> Managed \cup {NoTid}] : \A l \in CsLinks : f[l] # NoTid => Overloaded(l)}

\* A pass: the pending tasks are refreshed, the villains chosen and latched.  It
\* takes time: no two passes read the same clock.
BeginPass ==
    LET s == [t \in Managed |-> IF msg[t] = "none" THEN seen[t] ELSE now] IN
    /\ todo = {} /\ passAt < now
    /\ passAt' = now
    /\ seen' = s
    /\ \E fresh \in FreshVillains :
         latch' = [l \in CsLinks |-> effective_villain(l, fresh[l], s)]
    /\ eff' = [l \in CsLinks |-> latch'[l].tid]
    /\ todo' = {t \in Managed : msg[t] # "none"}
    /\ cleared' = [l \in CsLinks |->
         IF latch[l].tid = NoTid \/ Overloaded(l) THEN {}
         ELSE IF Clear(l) THEN cleared[l] \cup {sample[l].ts} ELSE cleared[l]]
    /\ UNCHANGED <<now, sample, entry, msg, wait, bill>>

-----------------------------------------------------------------------------
(* The token bucket.                                                       *)

villain_token_capacity_ns == Slice * AtLeastOne(TickDeferMax)

villain_token_refill_divisor == AtLeastOne(RefillDivisor) * AtLeastOne(TickReevalEvery)

\* The bucket is opened for link l: another link, or the first use.
Opens(e, l) == e.link # l \/ e.refill = 0

\* Mutant: the time of the refill is not recorded.
refill_without_timestamp(e, l) ==
    IF Opens(e, l)
    THEN [link |-> l, tokens |-> villain_token_capacity_ns, refill |-> now, since |-> 0]
    ELSE LET filled == e.tokens + (now - e.refill) \div villain_token_refill_divisor
         IN [e EXCEPT !.tokens = IF filled <= villain_token_capacity_ns THEN filled
                                 ELSE villain_token_capacity_ns]

refill_villain_tokens(e, l) ==
    IF Opens(e, l)
    THEN [link |-> l, tokens |-> villain_token_capacity_ns, refill |-> now, since |-> 0]
    ELSE LET filled == e.tokens + (now - e.refill) \div villain_token_refill_divisor
         IN [e EXCEPT !.tokens = IF filled <= villain_token_capacity_ns THEN filled
                                 ELSE villain_token_capacity_ns,
                      !.refill = now]

\* Mutant: every deferral restarts the clock of the deferral bound.
token_throttle_restarts(e) ==
    IF e.tokens >= Slice
    THEN [entry |-> [e EXCEPT !.tokens = @ - Slice, !.since = 0], action |-> "paid"]
    ELSE IF e.since # 0 /\ now - e.since >= DeferBound
    THEN [entry |-> [e EXCEPT !.tokens = 0, !.since = 0], action |-> "forced"]
    ELSE [entry |-> [e EXCEPT !.since = now], action |-> "defer"]

\* The new entry and the action: a slice paid with tokens, a slice forced by the
\* deferral bound, or a deferral.
apply_villain_token_throttle(e) ==
    LET since == IF e.since = 0 THEN now ELSE e.since IN
    IF e.tokens >= Slice
    THEN [entry |-> [e EXCEPT !.tokens = @ - Slice, !.since = 0], action |-> "paid"]
    ELSE IF now - since >= DeferBound
    THEN [entry |-> [e EXCEPT !.tokens = 0, !.since = 0], action |-> "forced"]
    ELSE [entry |-> [e EXCEPT !.since = since], action |-> "defer"]

\* l is the first link whose effective villain is t, or 0.
VillainOf(t, l) ==
    IF l = 0 THEN \A k \in CsLinks : eff[k] # t
    ELSE eff[l] = t /\ \A k \in CsLinks : eff[k] = t => l <= k

maybe_apply_villain_token_throttle(t, l) ==
    IF l = 0 THEN [entry |-> NoThrottle, action |-> "free"]
    ELSE IF msg[t] # "tick" THEN [entry |-> entry[t], action |-> "free"]
    ELSE apply_villain_token_throttle(refill_villain_tokens(entry[t], l))

\* The slices billed to t, from the opening of its bucket on.
Billed(t, l, action) ==
    IF l = 0 THEN NoBill
    ELSE LET b == IF action # "free" /\ Opens(entry[t], l)
                  THEN [NoBill EXCEPT !.opened = now] ELSE bill[t]
         IN CASE action = "paid" -> [b EXCEPT !.spent = @ + Slice]
              [] action = "forced" -> [b EXCEPT !.forced = @ + 1]
              [] OTHER -> b

\* The pass decides the message of t and does not dispatch it.
Defer(t) ==
    /\ t \in todo
    /\ \E l \in CsLinks \cup {0} :
         LET d == maybe_apply_villain_token_throttle(t, l) IN
         /\ VillainOf(t, l)
         /\ d.action = "defer"
         /\ entry' = [entry EXCEPT ![t] = d.entry]
         /\ bill' = [bill EXCEPT ![t] = Billed(t, l, d.action)]
    /\ wait' = [wait EXCEPT ![t].start = IF @ = 0 THEN now ELSE @, ![t].last = now]
    /\ seen' = [seen EXCEPT ![t] = now]
    /\ todo' = todo \ {t}
    /\ UNCHANGED <<now, passAt, sample, latch, eff, msg, cleared>>

\* The pass decides to dispatch t: the ring buffer takes it, or is full, and the
\* task goes back to the head of the queue and the pass ends.
Dispatch(t) ==
    /\ t \in todo
    /\ \E l \in CsLinks \cup {0} :
         LET d == maybe_apply_villain_token_throttle(t, l) IN
         /\ VillainOf(t, l)
         /\ d.action # "defer"
         /\ entry' = [entry EXCEPT ![t] = d.entry]
         /\ bill' = [bill EXCEPT ![t] = Billed(t, l, d.action)]
    /\ \/ /\ msg' = [msg EXCEPT ![t] = "none"]
          /\ wait' = [wait EXCEPT ![t] = NoWait]
          /\ seen' = [seen EXCEPT ![t] = now]
          /\ todo' = todo \ {t}
       \/ /\ wait[t].refused < MaxRefused
          /\ wait' = [wait EXCEPT ![t].refused = @ + 1]
          /\ todo' = {}
          /\ UNCHANGED <<msg, seen>>
    /\ UNCHANGED <<now, passAt, sample, latch, eff, cleared>>

-----------------------------------------------------------------------------
VillainNext ==
    \/ Clock
    \/ \E l \in CsLinks, over \in BOOLEAN : Sample(l, over)
    \/ \E t \in Managed : \E trigger \in {"tick", "other"} : Arrive(t, trigger)
    \/ BeginPass
    \/ \E t \in Managed : Defer(t) \/ Dispatch(t)

VillainSpec == VillainInit /\ [][VillainNext]_villainVars

-----------------------------------------------------------------------------
(* Properties.                                                             *)

\* Type invariant of the controller.
VillainTypeOK ==
    /\ now \in Nat \ {0} /\ passAt \in Nat
    /\ sample \in [CsLinks -> [ts : Nat, over : BOOLEAN]]
    /\ latch \in [CsLinks -> [tid : Managed \cup {NoTid}, hold : Nat, clears : Nat,
                            clearTs : Nat]]
    /\ eff \in [CsLinks -> Managed \cup {NoTid}]
    /\ entry \in [Managed -> [link : CsLinks \cup {0}, tokens : 0..villain_token_capacity_ns,
                              refill : Nat, since : Nat]]
    /\ seen \in [Managed -> Nat]
    /\ msg \in [Managed -> {"none", "tick", "other"}]
    /\ todo \subseteq {t \in Managed : msg[t] # "none"}
    /\ cleared \in [CsLinks -> SUBSET Nat]
    /\ wait \in [Managed -> [start : Nat, last : Nat, refused : Nat]]
    /\ bill \in [Managed -> [opened : Nat, spent : Nat, forced : Nat]]

\* Whatever latches, links and tokens do in the meantime, a message that no full
\* ring buffer sent back is never put off once VILLAIN_DEFER_UPPER_BOUND_NS has
\* passed since its first deferral.
DeferBounded ==
    \A t \in Managed :
        wait[t].start # 0 /\ wait[t].refused = 0 =>
            wait[t].last < wait[t].start + DeferBound

\* The deferral clock only runs for a message that is still waiting: no later
\* message inherits it.
ClockCurrent ==
    \A t \in Managed : entry[t].since # 0 =>
        msg[t] = "tick" /\ wait[t].start # 0 /\ wait[t].start <= entry[t].since

\* The bucket limits a villain's share of time: since its bucket was opened, the
\* slices it paid for are at most one burst and the refill of the time elapsed,
\* and there was at most one forced slice per deferral bound.
VillainShare ==
    \A t \in Managed :
        /\ villain_token_refill_divisor * bill[t].spent
             <= villain_token_refill_divisor * villain_token_capacity_ns
                  + (now - bill[t].opened)
        /\ DeferBound * bill[t].forced <= now - bill[t].opened

\* A link's villain changes only after its settle window, when the thread has
\* gone inactive, or when enough distinct clear samples came in a row.
LatchSticky ==
    [][\A l \in CsLinks : latch[l].tid # NoTid /\ latch'[l].tid # latch[l].tid =>
         \/ now >= latch[l].hold
         \/ now - seen'[latch[l].tid] > ActiveNs
         \/ latch'[l].tid = NoTid
              /\ Cardinality(cleared'[l]) >= AtLeastOne(ReleaseSamples)]_villainVars
=============================================================================
