------------------------------ MODULE Samplers ------------------------------
(***************************************************************************)
(* The sampler threads and what the main loop takes from them.             *)
(*                                                                         *)
(* The two data-fabric samplers ("ccm": df_ccm_sampler.rs, "cs":           *)
(* df_cs_sampler.rs) share one pair of DF counters.  Each measures one     *)
(* resource after the other: under DF_MSR_LOCK it programs the counters,   *)
(* sleeps for a window, reads them and switches them off.  Any MSR access  *)
(* may fail; the closure then returns, which releases the lock, and the    *)
(* two control registers are switched off after that, one by one, WITHOUT  *)
(* the lock.  A failing switch-off is ignored everywhere, and the register *)
(* stays programmed.  An L3 sampler per domain has counters of its own,    *)
(* which other software may clobber.                                       *)
(*                                                                         *)
(* A sample is filtered (filter.rs) and sent over an unbounded channel;    *)
(* apply_sample_updates drains the three channels once per pass.  When the *)
(* loop is left, run sets the stop flag and joins the threads in order; an *)
(* error in the loop instead ends the process at once.                     *)
(***************************************************************************)
EXTENDS Integers, Sequences, SequencesExt

CONSTANTS
    CcmDomains,     \* resources_from_mapping: domains with a CCM, in order
    CsLinks,        \* resources_from_topology: the CS links, in order
    LlcDomains,     \* the domains of the topology
    DfReadings,     \* pressures a DF window can show
    LlcReadings,    \* pressures an L3 window can show
    AlphaPct, HotPct, CoolPct, HotPersist, CoolPersist,     \* FilterConfig
    Machines,       \* sets of MSR devices that can be opened: "df", "llc"
    CountMax,       \* u32::MAX, where the filter's counts saturate
    MaxSweeps,      \* bound: sweeps, for each DF sampler
    MaxWindows,     \* bound: windows of each L3 sampler
    MaxFaults       \* bound: failing MSR accesses and clobbered windows

ASSUME FilterAssumption ==
    /\ AlphaPct \in 0..100
    /\ {HotPct, CoolPct, HotPersist, CoolPersist, CountMax} \subseteq Nat
    /\ CoolPct < HotPct /\ HotPersist <= CountMax /\ CoolPersist <= CountMax

\* Domains and links have numbers, pressures are not negative.
ASSUME SamplerAssumption ==
    /\ CcmDomains \in Seq(Nat) /\ CsLinks \in Seq(Nat) /\ LlcDomains \subseteq Nat
    /\ DfReadings \subseteq Nat /\ LlcReadings \subseteq Nat
    /\ MaxSweeps \in [{"ccm", "cs"} -> Nat] /\ MaxWindows \in Nat /\ MaxFaults \in Nat

DfSamplers == {"ccm", "cs"}
Resources == [s \in DfSamplers |-> IF s = "ccm" THEN CcmDomains ELSE CsLinks]

Registers == {0, 1}     \* MSR_DF_PERF_CTL_0 and MSR_DF_PERF_CTL_1

NoSample == [valid |-> FALSE]
None == "none"
Nothing == -1     \* no pressure: clobbered, unreadable or sparse

VARIABLES
    machine,    \* the MSR devices that can be opened here
    df,         \* per DF sampler: its step, the resource it is at, its sweep
    lock,       \* holder of DF_MSR_LOCK
    ctl,        \* DF_PERF_CTL_0 and _1: whose events each is programmed for
    llc,        \* per L3 sampler: its step and its windows so far
    l3,         \* per domain: the L3 counters ("left": some not switched off)
    metrics,    \* the filtered metric of every DF resource and L3 domain
    chan,       \* the three sample channels
    states,     \* llc_states, df_states and df_cs_states of the main loop
    latest,     \* latest_df_sweep_epoch
    stop,       \* the stop flag
    phase,      \* where run is
    faults,     \* failing MSR accesses and clobbered windows so far
    history     \* history: cut windows published, hot and cool runs, misses

dfVars == <<df, lock, ctl>>
llcVars == <<llc, l3>>
mainVars == <<states, latest, stop, phase>>
vars == <<machine, dfVars, llcVars, metrics, chan, mainVars, faults, history>>

Owners == DfSamplers \cup {"llc"}
Parts(o) == IF o = "llc" THEN LlcDomains ELSE ToSet(Resources[o])

DefaultMetric ==
    [valid |-> FALSE, ewma |-> 0, state |-> "cool", hot |-> 0, cool |-> 0]

AtMost(x, y) == IF x < y THEN x ELSE y
-----------------------------------------------------------------------------
(***************************************************************************)
(* The filter: an exponential average and two persistence counts.          *)
(***************************************************************************)
Ewma(prev, raw) ==
    IF ~prev.valid THEN raw
    ELSE (AlphaPct * raw + (100 - AlphaPct) * prev.ewma) \div 100

\* A mutant: a cool sample leaves the hot count standing.
Counted_no_reset(prev, e) ==
    CASE e >= HotPct ->
            [hot |-> AtMost(prev.hot + 1, CountMax), cool |-> 0]
      [] e <= CoolPct ->
            [hot |-> prev.hot, cool |-> AtMost(prev.cool + 1, CountMax)]
      [] OTHER ->
            [hot |-> IF HotPersist = 0 THEN 0 ELSE AtMost(prev.hot, HotPersist - 1),
             cool |-> IF CoolPersist = 0 THEN 0 ELSE AtMost(prev.cool, CoolPersist - 1)]

Counted(prev, e) ==
    CASE e >= HotPct ->
            [hot |-> AtMost(prev.hot + 1, CountMax), cool |-> 0]
      [] e <= CoolPct ->
            [hot |-> 0, cool |-> AtMost(prev.cool + 1, CountMax)]
      [] OTHER ->
            [hot |-> IF HotPersist = 0 THEN 0 ELSE AtMost(prev.hot, HotPersist - 1),
             cool |-> IF CoolPersist = 0 THEN 0 ELSE AtMost(prev.cool, CoolPersist - 1)]

update_metric(prev, raw) ==
    LET e == Ewma(prev, raw)
        n == Counted(prev, e)
    IN  [valid |-> TRUE, ewma |-> e, hot |-> n.hot, cool |-> n.cool,
         state |-> CASE e >= HotPct /\ n.hot >= HotPersist -> "hot"
                     [] e <= CoolPct /\ n.cool >= CoolPersist -> "cool"
                     [] OTHER -> prev.state]

\* A sample of part r of owner o, with the filtered metric m.
Publish(o, r, m) ==
    /\ metrics' = [metrics EXCEPT ![o][r] = m]
    /\ chan' = [chan EXCEPT ![o] = Append(@, [part |-> r, metric |-> m,
                                    sweep |-> IF o = "ccm" THEN df.ccm.sweep ELSE 0])]
NoHistory == [cuts |-> 0, missed |-> [r \in Parts("ccm") |-> 0],
              hot |-> [d \in LlcDomains |-> 0], cool |-> [d \in LlcDomains |-> 0]]
-----------------------------------------------------------------------------
Init ==
    /\ machine \in Machines
    /\ df = [s \in DfSamplers |-> [pc |-> "start", at |-> 1, sweep |-> 0]]
    /\ lock = None
    /\ ctl = [r \in Registers |-> None]
    /\ llc = [d \in LlcDomains |-> [pc |-> "start", windows |-> 0]]
    /\ l3 = [d \in LlcDomains |-> "off"]
    /\ metrics = [o \in Owners |-> [r \in Parts(o) |-> DefaultMetric]]
    /\ chan = [o \in Owners |-> <<>>]
    /\ states = [o \in Owners |-> [r \in Parts(o) |-> NoSample]]
    /\ latest = 0
    /\ stop = FALSE
    /\ phase = "loop"
    /\ faults = 0
    /\ history = NoHistory

Step(s, from) == df[s].pc = from
Goto(s, to) == df' = [df EXCEPT ![s].pc = to]
Advance(s) == [df EXCEPT ![s] = [pc |-> "next", at |-> @.at + 1, sweep |-> @.sweep]]
Fault == faults < MaxFaults /\ faults' = faults + 1
-----------------------------------------------------------------------------
(***************************************************************************)
(* A data-fabric sampler.                                                  *)
(***************************************************************************)
\* start: the thread opens the MSR device, or gives up.
OpenDf(s) ==
    /\ Step(s, "start")
    /\ Goto(s, IF "df" \in machine THEN "top" ELSE "gone")
    /\ UNCHANGED <<machine, lock, ctl, llcVars, metrics, chan, mainVars, faults, history>>

\* The head of the sweep loop and of the loop over the resources.
BeginSweep(s) ==
    /\ Step(s, "top") /\ ~stop /\ df[s].sweep < MaxSweeps[s]
    /\ df' = [df EXCEPT ![s] = [pc |-> "next", at |-> 1, sweep |-> @.sweep + 1]]
    /\ UNCHANGED <<machine, lock, ctl, llcVars, metrics, chan, mainVars, faults, history>>

NextResource(s) ==
    /\ Step(s, "next") /\ ~stop /\ df[s].at <= Len(Resources[s])
    /\ Goto(s, "locking")
    /\ UNCHANGED <<machine, lock, ctl, llcVars, metrics, chan, mainVars, faults, history>>

\* A mutant: the samplers do not exclude each other.
MayProgram_unlocked == TRUE

\* The DF counters may be programmed: the lock is free.
MayProgram == lock = None

\* sample_resource up to the window: the lock and the first register, then
\* the second register and the two counts set to zero.
Program(s) ==
    /\ Step(s, "locking") /\ MayProgram
    /\ \/ /\ Goto(s, "setup") /\ lock' = s
          /\ ctl' = [ctl EXCEPT ![0] = s]
          /\ UNCHANGED faults
       \/ Fault /\ Goto(s, "failed") /\ UNCHANGED <<lock, ctl>>
    /\ UNCHANGED <<machine, llcVars, metrics, chan, mainVars, history>>

\* A mutant: the guard outlives the closure that failed.
LockAfterError_held(s) == s

\* The guard is dropped when the closure returns, with a sample or an error.
LockAfterError(s) == None

OpenWindow(s) ==
    /\ Step(s, "setup")
    /\ \/ /\ Goto(s, "window") /\ UNCHANGED <<lock, faults>>
          /\ ctl' = [ctl EXCEPT ![1] = s]
       \/ /\ Fault /\ Goto(s, "failed") /\ lock' = LockAfterError(s)
          /\ ctl' \in {ctl, [ctl EXCEPT ![1] = s]}
    /\ UNCHANGED <<machine, llcVars, metrics, chan, mainVars, history>>

\* A window that lost a register reads what it had counted until then.
Cut(s) == \E r \in Registers : ctl[r] # s

\* disable_counters under the lock: the registers of K cannot be written.
\* Nobody else writes anything but a zero meanwhile, so it is one step.
SwitchOffBoth(K) ==
    /\ ctl' = [r \in Registers |-> IF r \in K THEN ctl[r] ELSE None]
    /\ faults' = faults + Cardinality(K) /\ faults' <= MaxFaults

\* sample_resource from the window on, and what start does with its result.
ReadOut(s) ==
    /\ Step(s, "window")
    /\ \/ /\ lock' = None
          /\ \E raw \in DfReadings \cup (IF Cut(s) THEN {0} ELSE {}) :
                LET r == Resources[s][df[s].at]
                IN  Publish(s, r, update_metric(metrics[s][r], raw))
          /\ \E K \in SUBSET Registers : SwitchOffBoth(K)
          /\ df' = Advance(s)
          /\ history' = [history EXCEPT !.cuts = @ + (IF Cut(s) THEN 1 ELSE 0)]
       \/ /\ Fault /\ Goto(s, "failed") /\ lock' = LockAfterError(s)
          /\ UNCHANGED <<ctl, metrics, chan, history>>
    /\ UNCHANGED <<machine, llcVars, mainVars>>

\* A mutant: an error ends the sweep.
Resume_break(s) == [df EXCEPT ![s].pc = "next", ![s].at = Len(Resources[s]) + 1]

\* After an error the sweep goes on with the next resource.
Resume(s) == Advance(s)

\* One of the two writes of disable_counters; its failure is ignored.
SwitchOff(r) ==
    \/ ctl' = [ctl EXCEPT ![r] = None] /\ UNCHANGED faults
    \/ Fault /\ UNCHANGED ctl

\* After an error: two writes without the lock, and anything in between.
disable_counters(s) ==
    /\ \/ /\ Step(s, "failed") /\ SwitchOff(0)
          /\ Goto(s, "half")
          /\ UNCHANGED history
       \/ /\ Step(s, "half") /\ SwitchOff(1)
          /\ df' = Resume(s)
          /\ history' = IF s = "ccm"
                          THEN [history EXCEPT
                                  !.missed[CcmDomains[df.ccm.at]] = df.ccm.sweep]
                          ELSE history
    /\ UNCHANGED <<machine, lock, llcVars, metrics, chan, mainVars>>

\* The sweep is over, or broken off by the stop flag: the CCM sampler counts
\* its epoch up and announces it either way.
Swept(s) == stop \/ df[s].at > Len(Resources[s])

EndSweep(s) ==
    /\ Step(s, "next") /\ Swept(s)
    /\ Goto(s, "top")
    /\ chan' = IF s = "ccm" THEN [chan EXCEPT ![s] = Append(@, [epoch |-> df[s].sweep])]
               ELSE chan
    /\ UNCHANGED <<machine, lock, ctl, llcVars, metrics, mainVars, faults, history>>

\* A mutant: the thread ends without switching the counters off.
EndDf_left_on(s) ==
    /\ Step(s, "top") /\ stop
    /\ Goto(s, "gone")
    /\ UNCHANGED <<machine, lock, ctl, llcVars, metrics, chan, mainVars, faults, history>>

\* The stop flag is seen at the head of the sweep loop: the two writes of
\* disable_counters again, without the lock, and the thread ends.
EndDf(s) ==
    /\ \/ Step(s, "top") /\ stop /\ SwitchOff(0) /\ Goto(s, "closing")
       \/ Step(s, "closing") /\ SwitchOff(1) /\ Goto(s, "gone")
    /\ UNCHANGED <<machine, lock, llcVars, metrics, chan, mainVars, history>>

DfStep(s) == \/ OpenDf(s) \/ BeginSweep(s) \/ NextResource(s) \/ Program(s)
             \/ OpenWindow(s) \/ ReadOut(s) \/ disable_counters(s) \/ EndSweep(s)
             \/ EndDf(s)
-----------------------------------------------------------------------------
(***************************************************************************)
(* An L3 sampler.                                                          *)
(***************************************************************************)
LlcAt(d, from) == llc[d].pc = from

OpenLlc(d) ==
    /\ LlcAt(d, "start")
    /\ llc' = [llc EXCEPT ![d].pc = IF "llc" \in machine THEN "top" ELSE "gone"]
    /\ UNCHANGED <<machine, dfVars, l3, metrics, chan, mainVars, faults, history>>

\* disable_l3_counters ignores the writes that fail: a counter that was on
\* stays on.
disable_l3_counters(d) ==
    \/ l3' = [l3 EXCEPT ![d] = "off"] /\ UNCHANGED faults
    \/ Fault /\ l3' = [l3 EXCEPT ![d] = IF @ = "off" THEN "off" ELSE "left"]

\* sample_domain: program every counter, whatever it was left at, and verify
\* it; an error switches them off again.
ProgramL3(d) ==
    /\ LlcAt(d, "top") /\ ~stop /\ llc[d].windows < MaxWindows
    /\ \/ /\ llc' = [llc EXCEPT ![d] = [pc |-> "window", windows |-> @.windows + 1]]
          /\ l3' = [l3 EXCEPT ![d] = "set"]
          /\ UNCHANGED faults
       \/ /\ llc' = [llc EXCEPT ![d] = [pc |-> "top", windows |-> @.windows + 1]]
          /\ \/ Fault /\ l3' = [l3 EXCEPT ![d] = "off"]
             \/ /\ faults + 2 <= MaxFaults /\ faults' = faults + 2
                /\ l3' = [l3 EXCEPT ![d] = "left"]
    /\ UNCHANGED <<machine, dfVars, metrics, chan, mainVars, history>>

\* External: other software reprograms the counters in the window.
Clobber(d) ==
    /\ llc[d].pc = "window" /\ l3[d] = "set" /\ Fault
    /\ l3' = [l3 EXCEPT ![d] = "clobbered"]
    /\ UNCHANGED <<machine, dfVars, llc, metrics, chan, mainVars, history>>

\* What a window shows: nothing when it was clobbered, and nothing or a
\* pressure otherwise (a window without requests is not published).
Shown(d) == {Nothing} \cup (IF l3[d] = "set" THEN LlcReadings ELSE {})

Runs(d, m) ==
    [history EXCEPT
        !.hot[d] = IF m.ewma <= CoolPct THEN 0
                   ELSE IF m.ewma >= HotPct THEN AtMost(@ + 1, CountMax) ELSE @,
        !.cool[d] = IF m.ewma >= HotPct THEN 0
                    ELSE IF m.ewma <= CoolPct THEN AtMost(@ + 1, CountMax) ELSE @]

sample_domain(d) ==
    /\ LlcAt(d, "window")
    /\ \E raw \in Shown(d) :
          IF raw = Nothing THEN UNCHANGED <<metrics, chan, history>>
          ELSE LET m == update_metric(metrics.llc[d], raw)
               IN  Publish("llc", d, m) /\ history' = Runs(d, m)
    /\ llc' = [llc EXCEPT ![d].pc = "top"]
    /\ disable_l3_counters(d)
    /\ UNCHANGED <<machine, dfVars, mainVars>>

EndLlc(d) ==
    /\ LlcAt(d, "top") /\ stop
    /\ llc' = [llc EXCEPT ![d].pc = "gone"]
    /\ disable_l3_counters(d)
    /\ UNCHANGED <<machine, dfVars, metrics, chan, mainVars, history>>

LlcStep(d) == OpenLlc(d) \/ ProgramL3(d) \/ sample_domain(d) \/ EndLlc(d)
-----------------------------------------------------------------------------
(***************************************************************************)
(* The main loop and the end of run.                                       *)
(***************************************************************************)
\* Where the samples of a part, and the epochs, are in a drained channel.
SampleIndices(o, r) ==
    {i \in DOMAIN chan[o] : "part" \in DOMAIN chan[o][i] /\ chan[o][i].part = r}
EpochIndices == {i \in DOMAIN chan.ccm : "epoch" \in DOMAIN chan.ccm[i]}

Applied(o, r) ==
    LET found == SampleIndices(o, r)
    IN  IF found = {} THEN states[o][r] ELSE chan[o][Max(found)]

LastEpoch ==
    IF EpochIndices = {} THEN latest ELSE chan.ccm[Max(EpochIndices)].epoch

\* apply_sample_updates: the last sample of every part and the last epoch; a
\* state that changed becomes a trigger of PlannerPipeline's requests.
apply_sample_updates ==
    /\ phase = "loop" /\ \E o \in Owners : chan[o] # <<>>
    /\ states' = [o \in Owners |-> [r \in Parts(o) |-> Applied(o, r)]]
    /\ latest' = IF LastEpoch <= latest THEN latest ELSE LastEpoch
    /\ chan' = [o \in Owners |-> <<>>]
    /\ UNCHANGED <<machine, dfVars, llcVars, metrics, stop, phase, faults, history>>

\* The loop ends: the scheduler exited, or every workload did.
LeaveLoop ==
    /\ phase = "loop"
    /\ stop' = TRUE
    /\ phase' = "join_llc"
    /\ UNCHANGED <<machine, dfVars, llcVars, metrics, chan, states, latest, faults, history>>

Joined(p) ==
    CASE p = "join_llc" -> \A d \in LlcDomains : llc[d].pc = "gone"
      [] p = "join_ccm" -> df.ccm.pc = "gone"
      [] p = "join_cs" -> df.cs.pc = "gone"

After == [join_llc |-> "join_ccm", join_ccm |-> "join_cs", join_cs |-> "returned"]

Join ==
    /\ phase \in DOMAIN After /\ Joined(phase)
    /\ phase' = After[phase]
    /\ UNCHANGED <<machine, dfVars, llcVars, metrics, chan, states, latest, stop,
                   faults, history>>

\* An error of the loop leaves run at once and ends the process: its threads
\* and its memory are gone, the counters stay as they are.
Abort ==
    /\ phase = "loop"
    /\ phase' = "aborted"
    /\ df' = [s \in DfSamplers |-> [pc |-> "gone", at |-> 1, sweep |-> 0]]
    /\ lock' = None
    /\ llc' = [d \in LlcDomains |-> [pc |-> "gone", windows |-> 0]]
    /\ chan' = [o \in Owners |-> <<>>]
    /\ metrics' = [o \in Owners |-> [r \in Parts(o) |-> DefaultMetric]]
    /\ states' = [o \in Owners |-> [r \in Parts(o) |-> NoSample]]
    /\ latest' = 0
    /\ history' = NoHistory
    /\ UNCHANGED <<machine, ctl, l3, stop, faults>>

Next ==
    \/ \E s \in DfSamplers : DfStep(s)
    \/ \E d \in LlcDomains : LlcStep(d) \/ Clobber(d)
    \/ apply_sample_updates
    \/ LeaveLoop
    \/ Join
    \/ Abort

Spec == Init /\ [][Next]_vars

\* The scheduler of the operating system runs every thread; nothing is said
\* of which waiter gets a free lock.
FairSpec ==
    /\ Spec
    /\ \A s \in DfSamplers : WF_vars(DfStep(s))
    /\ \A d \in LlcDomains : WF_vars(LlcStep(d))
    /\ WF_vars(Join)
-----------------------------------------------------------------------------
Gone == {s \in DfSamplers : df[s].pc = "gone"}

TypeOK ==
    /\ df \in [DfSamplers ->
                 [pc : {"start", "top", "next", "locking", "setup", "window",
                        "failed", "half", "closing", "gone"},
                  at : Nat \ {0}, sweep : Nat]]
    /\ lock \in DfSamplers \cup {None}
    /\ ctl \in [Registers -> DfSamplers \cup {None}]
    /\ llc \in [LlcDomains -> [pc : {"start", "top", "window", "gone"},
                               windows : 0..MaxWindows]]
    /\ l3 \in [LlcDomains -> {"off", "set", "clobbered", "left"}]
    /\ latest \in Nat /\ stop \in BOOLEAN /\ faults \in 0..MaxFaults
    /\ phase \in {"loop", "join_llc", "join_ccm", "join_cs", "returned", "aborted"}

\* A published window that lost its counters is paid for: each failing MSR
\* access spoils at most two windows of the other sampler, one by each of the
\* two unlocked writes of disable_counters (df_ccm_sampler.rs and
\* df_cs_sampler.rs), and the end of both threads at most one altogether.
\* DF_MSR_LOCK keeps the samplers apart otherwise.
CutsBounded == history.cuts <= 2 * faults + (IF stop THEN 1 ELSE 0)

\* The epoch the main loop works with covers the machine: every CCM domain's
\* df_states entry is from that sweep or a later one, unless measuring it
\* failed in that sweep or later, or the sweep was broken off by the stop
\* flag (sample and SweepComplete share one channel).
EpochCovers ==
    \A r \in Parts("ccm") :
        \/ latest = 0 \/ stop
        \/ states.ccm[r] # NoSample /\ states.ccm[r].sweep >= latest
        \/ history.missed[r] >= latest

\* The L3 state turns hot only after hot_persist hot samples without a cool
\* one between them, and cool only after cool_persist cool ones without a
\* hot one: samples between the bands neither count nor start over.
FlipsPersist ==
    [][\A d \in LlcDomains :
          LET old == metrics.llc[d].state
              new == metrics'.llc[d].state
          IN  \/ phase' = "aborted"
              \/ /\ old = "cool" /\ new = "hot" => history'.hot[d] >= HotPersist
                 /\ old = "hot" /\ new = "cool" => history'.cool[d] >= CoolPersist]_vars

\* When run returns, no sampler thread is left and nobody holds DF_MSR_LOCK,
\* whatever was running when the stop flag was set; and no single failing
\* access leaves a counter programmed: the threads switch the counters off
\* again when they end, so one that is still on took two failures.
CleanReturn ==
    phase = "returned" =>
        /\ Gone = DfSamplers /\ \A d \in LlcDomains : llc[d].pc = "gone"
        /\ lock = None
        /\ \A r \in Registers : ctl[r] # None => faults >= 2
        /\ \A d \in LlcDomains : l3[d] # "off" => faults >= 2

\* Once the loop is left, run returns: no sampler waits for ever, whichever
\* of them gets the lock.
ShutdownCompletes == stop ~> phase = "returned"
=============================================================================
