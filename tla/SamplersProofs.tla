--------------------------- MODULE SamplersProofs ---------------------------
(***************************************************************************)
(* Proofs about Samplers, for any number of domains and links, any filter  *)
(* parameters, any readings and any number of sweeps, windows and failing  *)
(* MSR accesses.                                                           *)
(***************************************************************************)
EXTENDS Samplers, TLAPS, FiniteSetTheorems, WellFoundedInduction

-----------------------------------------------------------------------------
(* The inductive invariant.                                                *)

Metric == [valid : BOOLEAN, ewma : Nat, state : {"hot", "cool"}, hot : Nat, cool : Nat]
Sample == [part : Nat, metric : Metric, sweep : Nat]
Epoch == [epoch : Nat]
PcValue == {"start", "top", "next", "locking", "setup", "window", "failed", "half",
            "closing", "gone"}
DfRecord == [pc : PcValue, at : Nat \ {0}, sweep : Nat]

\* The steps at which a DF sampler works on a resource.
AtResource == {"locking", "setup", "window", "failed", "half"}

\* What the samplers measured, sent and left in the main loop's tables.
DataTyped ==
    /\ DOMAIN metrics = Owners /\ \A o \in Owners : metrics[o] \in [Parts(o) -> Metric]
    /\ chan \in [Owners -> Seq(Sample \cup Epoch)]
    /\ DOMAIN states = Owners
    /\ \A o \in Owners : states[o] \in [Parts(o) -> Sample \cup {NoSample}]
    /\ history \in [cuts : Nat, missed : [Parts("ccm") -> Nat],
                    hot : [LlcDomains -> Nat], cool : [LlcDomains -> Nat]]
    /\ \A s \in DfSamplers : df[s].pc \in AtResource => df[s].at <= Len(Resources[s])

Typed == TypeOK /\ DataTyped

\* DF_MSR_LOCK is held exactly while the counters are programmed and through
\* the window.
Holding == {"setup", "window"}
LockInv == \A s \in DfSamplers : lock = s <=> df[s].pc \in Holding

\* A register that still has a sampler's events outside its window took a
\* failing access, and another one once the thread tried again at its end.
CtlInv ==
    \A r \in Registers, s \in DfSamplers : ctl[r] = s /\ phase # "aborted" =>
        /\ df[s].pc # "start"
        /\ df[s].pc \notin Holding => faults >= 1
        /\ df[s].pc = "gone" \/ (df[s].pc = "closing" /\ r = 0) => faults >= 2

\* The same of the L3 counters.
L3Inv ==
    \A d \in LlcDomains : l3[d] # "off" /\ phase # "aborted" =>
        /\ llc[d].pc # "start"
        /\ llc[d].pc # "window" => faults >= 1
        /\ llc[d].pc = "gone" => faults >= 2

\* What run has waited for by now.
JoinInv ==
    /\ stop <=> phase \notin {"loop", "aborted"}
    /\ phase = "aborted" => Gone = DfSamplers
    /\ \A s \in DfSamplers : df[s].pc = "closing" => stop
    /\ phase \in {"join_ccm", "join_cs", "returned", "aborted"} =>
          \A d \in LlcDomains : llc[d].pc = "gone"
    /\ phase \in {"join_cs", "returned"} => df["ccm"].pc = "gone"
    /\ phase = "returned" => df["cs"].pc = "gone"

\* What each sampler can still spoil.  One that failed has both writes ahead
\* of it, each good for one window of the other; one that ends has at most the
\* second write, which matters only while the other is before or in a window it
\* has not lost; and a window that is lost is still to be published.  Once stop
\* is set no window is begun but by a sampler that already waits for the lock,
\* so the first thread to end spoils one at most and the second none.
Other(s) == IF s = "ccm" THEN "cs" ELSE "ccm"
Lost(s) == \/ df[s].pc = "setup" /\ ctl[0] # s
           \/ df[s].pc = "window" /\ Cut(s)
Exposed(s) == df[s].pc = "locking" \/ (df[s].pc \in Holding /\ ~Lost(s))
Owed(s) == IF df[s].pc = "failed" THEN 2
           ELSE IF df[s].pc = "half" THEN 1
           ELSE IF df[s].pc = "closing" THEN (IF Exposed(Other(s)) THEN 1 ELSE 0)
           ELSE IF Lost(s) THEN 1 ELSE 0
Stopped == IF stop THEN 1 ELSE 0
Reserve == IF stop /\ \A s \in DfSamplers : df[s].pc \notin {"closing", "gone"} THEN 1 ELSE 0
CutInv == history.cuts + Owed("ccm") + Owed("cs") + Reserve <= 2 * faults + Stopped

\* The filter's counts are never ahead of the runs of samples they stand for.
FilterInv ==
    \A d \in LlcDomains : /\ metrics["llc"][d].hot <= history.hot[d]
                          /\ metrics["llc"][d].cool <= history.cool[d]

\* Sweep e of the CCM sampler is accounted for at domain r: in the main loop's
\* table, by a sample still under way, or as a failure.
IsSample(i, r) == i \in DOMAIN chan["ccm"] /\ chan["ccm"][i] \in Sample /\ chan["ccm"][i].part = r
Covered(r, e) ==
    \/ states["ccm"][r] # NoSample /\ states["ccm"][r].sweep >= e
    \/ \E i \in DOMAIN chan["ccm"] : IsSample(i, r) /\ chan["ccm"][i].sweep >= e
    \/ history.missed[r] >= e

\* Samples come in the order of their sweeps, none ahead of the sampler.
SweepOrder ==
    \A r \in Parts("ccm") :
      /\ history.missed[r] <= df["ccm"].sweep
      /\ states["ccm"][r] # NoSample => states["ccm"][r].sweep <= df["ccm"].sweep
      /\ \A i \in DOMAIN chan["ccm"] : IsSample(i, r) =>
           /\ chan["ccm"][i].sweep <= df["ccm"].sweep
           /\ states["ccm"][r] # NoSample => states["ccm"][r].sweep <= chan["ccm"][i].sweep
           /\ \A j \in DOMAIN chan["ccm"] :
                IsSample(j, r) /\ i <= j => chan["ccm"][i].sweep <= chan["ccm"][j].sweep

\* Every announced sweep is accounted for, and so is the one under way up to
\* where the sampler is.
Active == {"next", "locking", "setup", "window", "failed", "half"}
EpochsCovered ==
    ~stop => \A i \in DOMAIN chan["ccm"] : chan["ccm"][i] \in Epoch =>
               \A r \in Parts("ccm") : Covered(r, chan["ccm"][i].epoch)
SweepCovered ==
    ~stop /\ df["ccm"].pc \in Active =>
      \A k \in DOMAIN CcmDomains : k < df["ccm"].at => Covered(CcmDomains[k], df["ccm"].sweep)

SweepInv == SweepOrder /\ EpochsCovered /\ SweepCovered

SamplerInv ==
    /\ Typed /\ LockInv /\ JoinInv /\ CtlInv /\ L3Inv /\ CutInv
    /\ FilterInv /\ SweepInv /\ EpochCovers

-----------------------------------------------------------------------------
(* Types.                                                                  *)

\* The parts a sampler measures have numbers, and a DF sampler's are those of
\* its list.
LEMMA PartsNumbered ==
    /\ \A o \in Owners : Parts(o) \subseteq Nat
    /\ \A s \in DfSamplers : Resources[s] \in Seq(Nat)
    /\ \A s \in DfSamplers : \A i \in 1..Len(Resources[s]) : Resources[s][i] \in Parts(s)
    /\ Resources["ccm"] = CcmDomains /\ Parts("llc") = LlcDomains
<1>1. \A s \in DfSamplers : Resources[s] \in Seq(Nat)
  BY SamplerAssumption DEF Resources, DfSamplers
<1>2. \A s \in DfSamplers : Parts(s) = {Resources[s][i] : i \in DOMAIN Resources[s]}
  BY DEF Parts, ToSet, DfSamplers
<1>3. Parts("llc") = LlcDomains /\ Resources["ccm"] = CcmDomains
  BY DEF Parts, Resources, DfSamplers
<1>4. \A s \in DfSamplers : \A i \in 1..Len(Resources[s]) :
        Resources[s][i] \in Parts(s) /\ Resources[s][i] \in Nat
  BY <1>1, <1>2
<1>5. \A s \in DfSamplers : DOMAIN Resources[s] = 1..Len(Resources[s])
  BY <1>1
<1>6. \A s \in DfSamplers : Parts(s) \subseteq Nat
  BY <1>2, <1>4, <1>5
<1>7. QED
  BY <1>1, <1>3, <1>4, <1>6, SamplerAssumption DEF Owners

\* The filter gives a metric again.
LEMMA UpdateTyped ==
    ASSUME NEW prev \in Metric, NEW raw \in Nat
    PROVE  update_metric(prev, raw) \in Metric
<1> DEFINE e == Ewma(prev, raw)
           n == Counted(prev, e)
<1>1. e \in Nat
  <2>1. AlphaPct \in Nat /\ 100 - AlphaPct \in Nat /\ prev.ewma \in Nat
    BY FilterAssumption DEF Metric
  <2>2. AlphaPct * raw \in Nat /\ (100 - AlphaPct) * prev.ewma \in Nat
    BY <2>1
  <2>3. (AlphaPct * raw + (100 - AlphaPct) * prev.ewma) \div 100 \in Nat
    BY <2>2
  <2>4. QED
    BY <2>3 DEF Ewma
<1> HIDE DEF e
<1>2. n.hot \in Nat /\ n.cool \in Nat
  BY <1>1, FilterAssumption DEF Counted, AtMost, Metric
<1> HIDE DEF n
<1>3. QED
  BY <1>1, <1>2 DEF update_metric, Metric, e, n

\* A published sample is one of the channel's, and the tables keep their types.
LEMMA PublishTyped ==
    ASSUME Typed, NEW o \in Owners, NEW r \in Parts(o), NEW m \in Metric, Publish(o, r, m)
    PROVE  /\ DOMAIN metrics' = Owners
           /\ \A p \in Owners : metrics'[p] \in [Parts(p) -> Metric]
           /\ chan' \in [Owners -> Seq(Sample \cup Epoch)]
<1> DEFINE msg == [part |-> r, metric |-> m, sweep |-> IF o = "ccm" THEN df.ccm.sweep ELSE 0]
<1>1. msg \in Sample
  BY PartsNumbered DEF Sample, Typed, TypeOK, DfSamplers
<1>2. chan' = [chan EXCEPT ![o] = Append(@, msg)]
  BY DEF Publish
<1> HIDE DEF msg
<1>3. chan' \in [Owners -> Seq(Sample \cup Epoch)]
  BY <1>1, <1>2 DEF Typed, DataTyped
<1>4. DOMAIN metrics' = Owners /\ \A p \in Owners : metrics'[p] \in [Parts(p) -> Metric]
  BY DEF Publish, Typed, DataTyped
<1>5. QED
  BY <1>3, <1>4

\* Moving one DF sampler on leaves the other where it is.
LEMMA DfMoved ==
    ASSUME df \in [DfSamplers -> DfRecord], NEW s \in DfSamplers, NEW to \in PcValue
    PROVE  LET f == [df EXCEPT ![s].pc = to]
           IN  /\ f \in [DfSamplers -> DfRecord]
               /\ f[s].pc = to /\ f[s].at = df[s].at /\ f[s].sweep = df[s].sweep
               /\ \A t \in DfSamplers \ {s} : f[t] = df[t]
<1> DEFINE f == [df EXCEPT ![s].pc = to]
           x == [df[s] EXCEPT !.pc = to]
<1>1. f = [df EXCEPT ![s] = x]
  OBVIOUS
<1>2. x \in DfRecord /\ x.pc = to /\ x.at = df[s].at /\ x.sweep = df[s].sweep
  BY DEF DfRecord
<1> HIDE DEF f, x
<1>3. /\ f \in [DfSamplers -> DfRecord] /\ f[s] = x
      /\ \A t \in DfSamplers \ {s} : f[t] = df[t]
  BY <1>1, <1>2
<1>4. QED
  BY <1>2, <1>3 DEF f

\* Going somewhere is being there next.
LEMMA Arrives ==
    ASSUME TypeOK, NEW s \in DfSamplers
    PROVE  \A to \in {"setup", "window", "failed", "closing", "gone"} :
             Goto(s, to) => df'[s].pc = to
<1>1. df \in [DfSamplers -> DfRecord]
  BY DEF TypeOK, DfRecord, PcValue
<1>2. {"setup", "window", "failed", "closing", "gone"} \subseteq PcValue
  BY DEF PcValue
<1>3. QED
  BY <1>1, <1>2, DfMoved DEF Goto

\* Where a step takes a DF sampler: the other one stays where it is.
Moves(s, pcs, at, sweep) ==
    /\ df' \in [DfSamplers -> DfRecord]
    /\ df'[s].pc \in pcs /\ df'[s].at = at /\ df'[s].sweep = sweep
    /\ \A t \in DfSamplers \ {s} : df'[t] = df[t]

\* Every step of a DF sampler, as where it takes it.
LEMMA DfMoves ==
    ASSUME TypeOK, NEW s \in DfSamplers
    PROVE  /\ OpenDf(s) => Moves(s, {"top", "gone"}, df[s].at, df[s].sweep)
           /\ BeginSweep(s) => Moves(s, {"next"}, 1, df[s].sweep + 1)
           /\ NextResource(s) => Moves(s, {"locking"}, df[s].at, df[s].sweep)
           /\ Program(s) => Moves(s, {"setup", "failed"}, df[s].at, df[s].sweep)
           /\ OpenWindow(s) => Moves(s, {"window", "failed"}, df[s].at, df[s].sweep)
           /\ ReadOut(s) => \/ Moves(s, {"next"}, df[s].at + 1, df[s].sweep)
                            \/ Moves(s, {"failed"}, df[s].at, df[s].sweep)
           /\ disable_counters(s) =>
                \/ df[s].pc = "failed" /\ Moves(s, {"half"}, df[s].at, df[s].sweep)
                \/ df[s].pc = "half" /\ Moves(s, {"next"}, df[s].at + 1, df[s].sweep)
           /\ EndSweep(s) => Moves(s, {"top"}, df[s].at, df[s].sweep)
           /\ EndDf(s) =>
                \/ df[s].pc = "top" /\ stop /\ Moves(s, {"closing"}, df[s].at, df[s].sweep)
                \/ df[s].pc = "closing" /\ Moves(s, {"gone"}, df[s].at, df[s].sweep)
<1>1. df \in [DfSamplers -> DfRecord]
  BY DEF TypeOK, DfRecord, PcValue
<1>2. {"start", "top", "next", "locking", "setup", "window", "failed", "half", "closing",
       "gone"} \subseteq PcValue
  BY DEF PcValue
<1>3. ASSUME NEW to \in PcValue, Goto(s, to) PROVE Moves(s, {to}, df[s].at, df[s].sweep)
  BY <1>1, <1>3, DfMoved DEF Goto, Moves
<1>4. ASSUME NEW at \in Nat \ {0}, NEW sweep \in Nat,
             df' = [df EXCEPT ![s] = [pc |-> "next", at |-> at, sweep |-> sweep]]
      PROVE  Moves(s, {"next"}, at, sweep)
  <2> DEFINE x == [pc |-> "next", at |-> at, sweep |-> sweep]
  <2>1. x \in DfRecord /\ x.pc = "next" /\ x.at = at /\ x.sweep = sweep
    BY <1>2 DEF DfRecord
  <2>2. df' = [df EXCEPT ![s] = x]
    BY <1>4
  <2> HIDE DEF x
  <2>3. QED
    BY <1>1, <2>1, <2>2 DEF Moves
<1>5. df[s].at + 1 \in Nat \ {0} /\ df[s].sweep \in Nat /\ df[s].sweep + 1 \in Nat
  BY <1>1 DEF DfRecord
<1>6. BeginSweep(s) => Moves(s, {"next"}, 1, df[s].sweep + 1)
  <2>1. BeginSweep(s) =>
          df' = [df EXCEPT ![s] = [pc |-> "next", at |-> 1, sweep |-> df[s].sweep + 1]]
    BY DEF BeginSweep
  <2>2. 1 \in Nat \ {0}
    OBVIOUS
  <2>3. QED
    BY <1>4, <1>5, <2>1, <2>2
<1>7. df' = Advance(s) => Moves(s, {"next"}, df[s].at + 1, df[s].sweep)
  BY <1>4, <1>5 DEF Advance
<1>8. OpenDf(s) => Moves(s, {"top", "gone"}, df[s].at, df[s].sweep)
  <2>1. OpenDf(s) => Goto(s, "top") \/ Goto(s, "gone")
    BY DEF OpenDf
  <2>2. QED
    BY <1>2, <1>3, <2>1 DEF Moves
<1>9. /\ Program(s) => Moves(s, {"setup", "failed"}, df[s].at, df[s].sweep)
      /\ OpenWindow(s) => Moves(s, {"window", "failed"}, df[s].at, df[s].sweep)
  <2>1. /\ Program(s) => Goto(s, "setup") \/ Goto(s, "failed")
        /\ OpenWindow(s) => Goto(s, "window") \/ Goto(s, "failed")
    BY DEF Program, OpenWindow
  <2>2. QED
    BY <1>2, <1>3, <2>1 DEF Moves
<1>10. /\ NextResource(s) => Moves(s, {"locking"}, df[s].at, df[s].sweep)
       /\ EndSweep(s) => Moves(s, {"top"}, df[s].at, df[s].sweep)
       /\ EndDf(s) =>
            \/ df[s].pc = "top" /\ stop /\ Moves(s, {"closing"}, df[s].at, df[s].sweep)
            \/ df[s].pc = "closing" /\ Moves(s, {"gone"}, df[s].at, df[s].sweep)
  BY <1>2, <1>3 DEF NextResource, EndSweep, EndDf, Step
<1>11. ReadOut(s) => \/ Moves(s, {"next"}, df[s].at + 1, df[s].sweep)
                     \/ Moves(s, {"failed"}, df[s].at, df[s].sweep)
  <2>1. ReadOut(s) => \/ Goto(s, "failed")
                      \/ df' = Advance(s)
    BY DEF ReadOut
  <2>2. QED
    BY <1>2, <1>3, <1>7, <2>1
<1>12. disable_counters(s) =>
         \/ df[s].pc = "failed" /\ Moves(s, {"half"}, df[s].at, df[s].sweep)
         \/ df[s].pc = "half" /\ Moves(s, {"next"}, df[s].at + 1, df[s].sweep)
  BY <1>2, <1>3, <1>7 DEF disable_counters, Resume, Step
<1>13. QED
  BY <1>6, <1>8, <1>9, <1>10, <1>11, <1>12

HistoryType == [cuts : Nat, missed : [Parts("ccm") -> Nat],
                hot : [LlcDomains -> Nat], cool : [LlcDomains -> Nat]]

\* What a step of a DF sampler does to the registers: it programs them for
\* itself, switches them off or leaves them, and failing accesses add up.
LEMMA DfAccess ==
    ASSUME TypeOK, NEW s \in DfSamplers, DfStep(s)
    PROVE  /\ faults \in Nat /\ faults' \in 0..MaxFaults /\ faults' >= faults
           /\ ctl' \in [Registers -> DfSamplers \cup {None}]
           /\ \A r \in Registers : ctl'[r] \in {ctl[r], None, s}
           /\ ReadOut(s) => \A r \in Registers : ctl'[r] = s => faults' >= 1
<1>1. /\ faults \in Nat /\ faults \in 0..MaxFaults /\ MaxFaults \in Nat
      /\ ctl \in [Registers -> DfSamplers \cup {None}]
  BY SamplerAssumption DEF TypeOK
<1>2. 0 \in Registers /\ 1 \in Registers /\ None \notin DfSamplers
  BY DEF Registers, None, DfSamplers
<1>3. ASSUME UNCHANGED faults \/ Fault,
             ctl' = ctl \/ \E r \in Registers, x \in {s, None} : ctl' = [ctl EXCEPT ![r] = x]
      PROVE  /\ faults' \in 0..MaxFaults /\ faults' >= faults
             /\ ctl' \in [Registers -> DfSamplers \cup {None}]
             /\ \A r \in Registers : ctl'[r] \in {ctl[r], None, s}
  <2>1. faults' \in 0..MaxFaults /\ faults' >= faults
    BY <1>1, <1>3 DEF Fault
  <2>2. /\ ctl' \in [Registers -> DfSamplers \cup {None}]
        /\ \A r \in Registers : ctl'[r] \in {ctl[r], None, s}
    BY <1>1, <1>3
  <2>3. QED
    BY <2>1, <2>2
<1>4. ASSUME NEW K \in SUBSET Registers, SwitchOffBoth(K)
      PROVE  /\ faults' \in 0..MaxFaults /\ faults' >= faults
             /\ ctl' \in [Registers -> DfSamplers \cup {None}]
             /\ \A r \in Registers : ctl'[r] \in {ctl[r], None, s}
             /\ \A r \in Registers : ctl'[r] = s => faults' >= 1
  <2>1. IsFiniteSet(Registers)
    <3>1. IsFiniteSet({0}) /\ {0, 1} = {0} \cup {1}
      BY FS_Singleton
    <3>2. QED
      BY <3>1, FS_AddElement DEF Registers
  <2>2. IsFiniteSet(K)
    BY <2>1, FS_Subset
  <2>3. Cardinality(K) \in Nat /\ (K # {} => Cardinality(K) # 0)
    BY <2>2, FS_CardinalityType, FS_EmptySet
  <2>4. faults' = faults + Cardinality(K) /\ faults' <= MaxFaults
    BY <1>4 DEF SwitchOffBoth
  <2>5. ctl' = [r \in Registers |-> IF r \in K THEN ctl[r] ELSE None]
    BY <1>4 DEF SwitchOffBoth
  <2>6. faults' \in 0..MaxFaults /\ faults' >= faults /\ (K # {} => faults' >= 1)
    BY <1>1, <2>3, <2>4
  <2>7. \A r \in Registers : ctl'[r] = s => r \in K
    BY <1>2, <2>5
  <2>8. QED
    BY <1>1, <2>5, <2>6, <2>7
<1>5. ASSUME ReadOut(s)
      PROVE  \/ \E K \in SUBSET Registers : SwitchOffBoth(K)
             \/ Fault /\ UNCHANGED ctl
  BY <1>5 DEF ReadOut
<1>6. CASE ReadOut(s)
  <2>1. CASE Fault /\ UNCHANGED ctl
    <3>1. faults' >= 1
      BY <1>1, <2>1 DEF Fault
    <3>2. QED
      BY <1>1, <1>3, <2>1, <3>1
  <2>2. QED
    BY <1>1, <1>4, <1>5, <1>6, <2>1
<1>7. CASE OpenDf(s) \/ BeginSweep(s) \/ NextResource(s) \/ EndSweep(s)
  BY <1>1, <1>3, <1>7 DEF OpenDf, BeginSweep, NextResource, EndSweep, ReadOut, Step
<1>8. CASE Program(s) \/ OpenWindow(s)
  BY <1>1, <1>2, <1>3, <1>8 DEF Program, OpenWindow, ReadOut, Step
<1>9. CASE disable_counters(s) \/ EndDf(s)
  BY <1>1, <1>2, <1>3, <1>9 DEF disable_counters, EndDf, SwitchOff, ReadOut, Step
<1>10. QED
  BY <1>6, <1>7, <1>8, <1>9 DEF DfStep

\* A step of a DF sampler keeps the types of the counters, the lock and the
\* threads.
LEMMA DfTypeOK ==
    ASSUME Typed, NEW s \in DfSamplers, DfStep(s)
    PROVE  TypeOK'
<1>1. TypeOK
  BY DEF Typed
<1>2. df' \in [DfSamplers -> DfRecord]
  BY <1>1, DfMoves DEF DfStep, Moves
<1>3. faults' \in 0..MaxFaults /\ ctl' \in [Registers -> DfSamplers \cup {None}]
  BY DfAccess DEF Typed
<1>4. lock' \in DfSamplers \cup {None}
  BY <1>1 DEF TypeOK, DfStep, OpenDf, BeginSweep, NextResource, Program, OpenWindow, ReadOut,
              disable_counters, EndSweep, EndDf, LockAfterError
<1>5. UNCHANGED <<machine, llcVars, mainVars>>
  BY DEF DfStep, OpenDf, BeginSweep, NextResource, Program, OpenWindow, ReadOut, disable_counters,
         EndSweep, EndDf
<1>6. QED
  BY <1>1, <1>2, <1>3, <1>4, <1>5 DEF TypeOK, DfRecord, PcValue, llcVars, mainVars

\* What a window gives is a metric of the resource the sampler is at.
LEMMA ReadOutPublishes ==
    ASSUME Typed, NEW s \in DfSamplers, ReadOut(s), ~UNCHANGED <<metrics, chan>>
    PROVE  /\ Resources[s][df[s].at] \in Parts(s)
           /\ \E m \in Metric : Publish(s, Resources[s][df[s].at], m)
<1> DEFINE r == Resources[s][df[s].at]
<1>1. r \in Parts(s)
  <2>1. df[s].at \in 1..Len(Resources[s])
    <3>1. df[s].pc = "window" /\ df[s].at \in Nat \ {0} /\ df[s].at <= Len(Resources[s])
      BY DEF ReadOut, Step, Typed, TypeOK, DataTyped, AtResource
    <3>2. Len(Resources[s]) \in Nat
      BY PartsNumbered
    <3>3. QED
      BY <3>1, <3>2
  <2>2. QED
    BY <2>1, PartsNumbered
<1>2. PICK raw \in DfReadings \cup {0} : Publish(s, r, update_metric(metrics[s][r], raw))
  BY DEF ReadOut
<1>3. metrics[s][r] \in Metric
  BY <1>1 DEF Typed, DataTyped, Owners
<1>4. raw \in Nat
  BY SamplerAssumption
<1>5. update_metric(metrics[s][r], raw) \in Metric
  BY <1>3, <1>4, UpdateTyped
<1>6. QED
  BY <1>1, <1>2, <1>5

\* A step of a DF sampler keeps the types of what it measures and sends.
LEMMA DfDataTyped ==
    ASSUME Typed, NEW s \in DfSamplers, DfStep(s)
    PROVE  DataTyped'
<1> USE DEF Typed
<1>1. /\ DOMAIN metrics' = Owners
      /\ \A p \in Owners : metrics'[p] \in [Parts(p) -> Metric]
      /\ chan' \in [Owners -> Seq(Sample \cup Epoch)]
  <2>1. CASE UNCHANGED <<metrics, chan>>
    BY <2>1 DEF DataTyped
  <2>2. CASE ReadOut(s) /\ ~UNCHANGED <<metrics, chan>>
    BY <2>2, ReadOutPublishes, PublishTyped DEF Owners
  <2>3. CASE EndSweep(s)
    <3>1. [epoch |-> df[s].sweep] \in Epoch
      BY DEF TypeOK, Epoch
    <3>2. QED
      BY <2>3, <3>1 DEF EndSweep, DataTyped, Owners
  <2>4. QED
    BY <2>1, <2>2, <2>3 DEF DfStep, OpenDf, BeginSweep, NextResource, Program, OpenWindow,
                            disable_counters, EndDf
<1>2. history' \in HistoryType
  <2>1. CASE UNCHANGED history
    BY <2>1 DEF DataTyped, HistoryType
  <2>2. CASE ReadOut(s) /\ ~UNCHANGED history
    <3>1. history \in HistoryType
      BY DEF DataTyped, HistoryType
    <3>2. PICK n \in {0, 1} : history' = [history EXCEPT !.cuts = history.cuts + n]
      BY <2>2 DEF ReadOut
    <3>3. history.cuts + n \in Nat
      BY <3>1 DEF HistoryType
    <3>4. QED
      BY <3>1, <3>2, <3>3 DEF HistoryType
  <2>3. CASE disable_counters(s) /\ ~UNCHANGED history
    <3>1. df["ccm"].sweep \in Nat
      BY DEF TypeOK, DfSamplers
    <3>2. history' = [history EXCEPT !.missed[CcmDomains[df["ccm"].at]] = df["ccm"].sweep]
      BY <2>3 DEF disable_counters
    <3>3. QED
      BY <3>1, <3>2 DEF DataTyped, HistoryType
  <2>4. QED
    BY <2>1, <2>2, <2>3 DEF DfStep, OpenDf, BeginSweep, NextResource, Program, OpenWindow, EndSweep,
                            EndDf
<1>3. UNCHANGED states
  BY DEF DfStep, OpenDf, BeginSweep, NextResource, Program, OpenWindow, ReadOut, disable_counters,
         EndSweep, EndDf, mainVars
<1>4. ASSUME NEW t \in DfSamplers, df'[t].pc \in AtResource
      PROVE  df'[t].at <= Len(Resources[t])
  <2>1. df[t].pc \in AtResource => df[t].at <= Len(Resources[t])
    BY DEF DataTyped
  <2>2. CASE t # s
    BY <1>4, <2>1, <2>2, DfMoves DEF DfStep, Moves
  <2>3. CASE t = s
    <3>1. CASE NextResource(s)
      BY <2>3, <3>1, DfMoves DEF NextResource, Moves
    <3>2. CASE Program(s) \/ OpenWindow(s) \/ ReadOut(s) \/ disable_counters(s)
      <4>1. df[s].pc \in AtResource
        BY <3>2 DEF Program, OpenWindow, ReadOut, disable_counters, Step, AtResource
      <4>2. df'[s].at = df[s].at
        BY <1>4, <2>3, <3>2, DfMoves DEF Moves, AtResource
      <4>3. QED
        BY <2>1, <2>3, <4>1, <4>2
    <3>3. CASE OpenDf(s) \/ BeginSweep(s) \/ EndSweep(s) \/ EndDf(s)
      BY <1>4, <2>3, <3>3, DfMoves DEF Moves, AtResource
    <3>4. QED
      BY <3>1, <3>2, <3>3 DEF DfStep
  <2>4. QED
    BY <2>2, <2>3
<1>5. QED
  BY <1>1, <1>2, <1>3, <1>4 DEF DataTyped, HistoryType

L3Value == {"off", "set", "clobbered", "left"}
LlcRecord == [pc : {"start", "top", "window", "gone"}, windows : 0..MaxWindows]

\* Where a step takes an L3 sampler and its counters; the others stay as they are.
LlcMoves(d, pcs, counters) ==
    /\ llc' \in [LlcDomains -> LlcRecord]
    /\ l3' \in [LlcDomains -> L3Value]
    /\ llc'[d].pc \in pcs /\ l3'[d] \in counters
    /\ \A c \in LlcDomains \ {d} : llc'[c] = llc[c] /\ l3'[c] = l3[c]

\* Every step of an L3 sampler, as where it takes it.
LEMMA LlcMoved ==
    ASSUME TypeOK, NEW d \in LlcDomains
    PROVE  /\ OpenLlc(d) => LlcMoves(d, {"top", "gone"}, {l3[d]})
           /\ ProgramL3(d) => \/ LlcMoves(d, {"window"}, {"set"})
                              \/ LlcMoves(d, {"top"}, {"off"})
                              \/ LlcMoves(d, {"top"}, {"left"}) /\ faults' = faults + 2
           /\ Clobber(d) => LlcMoves(d, {"window"}, {"clobbered"})
           /\ sample_domain(d) => \/ LlcMoves(d, {"top"}, {"off"})
                                  \/ LlcMoves(d, {"top"}, {"off", "left"}) /\ Fault
           /\ EndLlc(d) => \/ LlcMoves(d, {"gone"}, {"off"})
                           \/ /\ LlcMoves(d, {"gone"}, {"off", "left"}) /\ Fault
                              /\ l3[d] = "off" => l3'[d] = "off"
<1>1. llc \in [LlcDomains -> LlcRecord] /\ l3 \in [LlcDomains -> L3Value]
  BY DEF TypeOK, LlcRecord, L3Value
<1>2. ASSUME NEW x \in LlcRecord, NEW y \in L3Value,
             llc' = [llc EXCEPT ![d] = x], l3' = [l3 EXCEPT ![d] = y]
      PROVE  LlcMoves(d, {x.pc}, {y})
  BY <1>1, <1>2 DEF LlcMoves
<1>3. ASSUME NEW to \in {"start", "top", "window", "gone"}
      PROVE  /\ [llc[d] EXCEPT !.pc = to] \in LlcRecord
             /\ [llc[d] EXCEPT !.pc = to].pc = to
             /\ [llc EXCEPT ![d].pc = to] = [llc EXCEPT ![d] = [llc[d] EXCEPT !.pc = to]]
  BY <1>1 DEF LlcRecord
<1>4. ASSUME NEW to \in {"start", "top", "window", "gone"},
             NEW y \in L3Value,
             llc' = [llc EXCEPT ![d].pc = to], l3' = [l3 EXCEPT ![d] = y]
      PROVE  LlcMoves(d, {to}, {y})
  BY <1>2, <1>3, <1>4
<1>5. ASSUME OpenLlc(d) PROVE LlcMoves(d, {"top", "gone"}, {l3[d]})
  <2>1. PICK to \in {"top", "gone"} : llc' = [llc EXCEPT ![d].pc = to]
    BY <1>5 DEF OpenLlc
  <2>2. l3' = [l3 EXCEPT ![d] = l3[d]] /\ l3[d] \in L3Value
    BY <1>1, <1>5 DEF OpenLlc
  <2>3. LlcMoves(d, {to}, {l3[d]})
    BY <1>4, <2>1, <2>2
  <2>4. QED
    BY <2>3 DEF LlcMoves
<1>6. ASSUME ProgramL3(d)
      PROVE  \/ LlcMoves(d, {"window"}, {"set"})
             \/ LlcMoves(d, {"top"}, {"off"})
             \/ LlcMoves(d, {"top"}, {"left"}) /\ faults' = faults + 2
  <2>1. llc[d].windows + 1 \in 0..MaxWindows
    BY <1>1, <1>6, SamplerAssumption DEF ProgramL3, LlcRecord
  <2>2. \A pc \in {"top", "window"} :
          LET x == [pc |-> pc, windows |-> llc[d].windows + 1]
          IN  x \in LlcRecord /\ x.pc = pc
    BY <2>1 DEF LlcRecord
  <2>3. \/ /\ llc' = [llc EXCEPT ![d] = [pc |-> "window", windows |-> llc[d].windows + 1]]
           /\ l3' = [l3 EXCEPT ![d] = "set"]
        \/ /\ llc' = [llc EXCEPT ![d] = [pc |-> "top", windows |-> llc[d].windows + 1]]
           /\ l3' = [l3 EXCEPT ![d] = "off"]
        \/ /\ llc' = [llc EXCEPT ![d] = [pc |-> "top", windows |-> llc[d].windows + 1]]
           /\ l3' = [l3 EXCEPT ![d] = "left"] /\ faults' = faults + 2
    BY <1>6 DEF ProgramL3
  <2>4. {"set", "off", "left"} \subseteq L3Value
    BY DEF L3Value
  <2>5. QED
    BY <1>2, <2>2, <2>3, <2>4
<1>7. ASSUME Clobber(d) PROVE LlcMoves(d, {"window"}, {"clobbered"})
  BY <1>1, <1>7 DEF Clobber, LlcMoves, L3Value
<1>8. ASSUME NEW to \in {"top", "gone"}, llc' = [llc EXCEPT ![d].pc = to],
             disable_l3_counters(d)
      PROVE  \/ LlcMoves(d, {to}, {"off"})
             \/ /\ LlcMoves(d, {to}, {"off", "left"}) /\ Fault
                /\ l3[d] = "off" => l3'[d] = "off"
  <2>1. "off" \in L3Value /\ "left" \in L3Value
    BY DEF L3Value
  <2>2. CASE l3' = [l3 EXCEPT ![d] = "off"]
    BY <1>4, <1>8, <2>1, <2>2
  <2>3. CASE Fault /\ l3' = [l3 EXCEPT ![d] = IF @ = "off" THEN "off" ELSE "left"]
    <3>1. PICK y \in {"off", "left"} : /\ l3' = [l3 EXCEPT ![d] = y]
                                       /\ l3[d] = "off" => y = "off"
      BY <2>3
    <3>2. LlcMoves(d, {to}, {y})
      BY <1>4, <1>8, <2>1, <3>1
    <3>3. QED
      BY <2>3, <3>1, <3>2 DEF LlcMoves
  <2>4. QED
    BY <1>8, <2>2, <2>3 DEF disable_l3_counters
<1>9. sample_domain(d) => \/ LlcMoves(d, {"top"}, {"off"})
                          \/ LlcMoves(d, {"top"}, {"off", "left"}) /\ Fault
  BY <1>8 DEF sample_domain
<1>10. EndLlc(d) => \/ LlcMoves(d, {"gone"}, {"off"})
                    \/ /\ LlcMoves(d, {"gone"}, {"off", "left"}) /\ Fault
                       /\ l3[d] = "off" => l3'[d] = "off"
  BY <1>8 DEF EndLlc
<1>11. QED
  BY <1>5, <1>6, <1>7, <1>9, <1>10

\* Failing accesses add up in the steps of an L3 sampler too.
LEMMA LlcAccess ==
    ASSUME TypeOK, NEW d \in LlcDomains, LlcStep(d) \/ Clobber(d)
    PROVE  faults \in Nat /\ faults' \in 0..MaxFaults /\ faults' >= faults
<1>1. \/ UNCHANGED faults \/ Fault
      \/ faults + 2 <= MaxFaults /\ faults' = faults + 2
  BY DEF LlcStep, OpenLlc, ProgramL3, Clobber, sample_domain, EndLlc, disable_l3_counters
<1>2. QED
  BY <1>1, SamplerAssumption DEF TypeOK, Fault

\* The history of an L3 domain's samples.
LEMMA RunsValue ==
    ASSUME history \in HistoryType, NEW d \in LlcDomains, NEW m \in Metric
    PROVE  /\ Runs(d, m) \in HistoryType
           /\ Runs(d, m).hot[d] = IF m.ewma <= CoolPct THEN 0
                                  ELSE IF m.ewma >= HotPct
                                       THEN AtMost(history.hot[d] + 1, CountMax)
                                       ELSE history.hot[d]
           /\ Runs(d, m).cool[d] = IF m.ewma >= HotPct THEN 0
                                   ELSE IF m.ewma <= CoolPct
                                        THEN AtMost(history.cool[d] + 1, CountMax)
                                        ELSE history.cool[d]
           /\ \A c \in LlcDomains \ {d} : /\ Runs(d, m).hot[c] = history.hot[c]
                                          /\ Runs(d, m).cool[c] = history.cool[c]
           /\ Runs(d, m).cuts = history.cuts /\ Runs(d, m).missed = history.missed
<1> DEFINE h == IF m.ewma <= CoolPct THEN 0
                ELSE IF m.ewma >= HotPct THEN AtMost(history.hot[d] + 1, CountMax)
                ELSE history.hot[d]
           c == IF m.ewma >= HotPct THEN 0
                ELSE IF m.ewma <= CoolPct THEN AtMost(history.cool[d] + 1, CountMax)
                ELSE history.cool[d]
<1>1. h \in Nat /\ c \in Nat
  BY FilterAssumption DEF HistoryType, AtMost, Metric
<1>2. Runs(d, m) = [history EXCEPT !.hot = [history.hot EXCEPT ![d] = h],
                                   !.cool = [history.cool EXCEPT ![d] = c]]
  BY DEF Runs, HistoryType
<1> DEFINE H == [history.hot EXCEPT ![d] = h]
           C == [history.cool EXCEPT ![d] = c]
<1> HIDE DEF h, c
<1>3. /\ H \in [LlcDomains -> Nat] /\ C \in [LlcDomains -> Nat]
      /\ H[d] = h /\ C[d] = c
      /\ \A x \in LlcDomains \ {d} : H[x] = history.hot[x] /\ C[x] = history.cool[x]
  BY <1>1 DEF HistoryType
<1> HIDE DEF H, C
<1>4. Runs(d, m) = [cuts |-> history.cuts, missed |-> history.missed, hot |-> H, cool |-> C]
  BY <1>2 DEF H, C, HistoryType
<1>5. QED
  BY <1>3, <1>4 DEF HistoryType, h, c

\* A window of an L3 sampler publishes nothing, or a metric of its domain.
LEMMA SamplePublishes ==
    ASSUME Typed, NEW d \in LlcDomains, sample_domain(d)
    PROVE  \/ UNCHANGED <<metrics, chan, history>>
           \/ \E raw \in Nat : LET m == update_metric(metrics["llc"][d], raw)
                               IN  /\ m \in Metric
                                   /\ Publish("llc", d, m) /\ history' = Runs(d, m)
<1>1. SUFFICES ASSUME ~UNCHANGED <<metrics, chan, history>>
               PROVE  \E raw \in Nat : LET m == update_metric(metrics["llc"][d], raw)
                                       IN  /\ m \in Metric
                                           /\ Publish("llc", d, m) /\ history' = Runs(d, m)
  OBVIOUS
<1>2. PICK raw \in Shown(d) \ {Nothing} :
        LET m == update_metric(metrics["llc"][d], raw)
        IN  Publish("llc", d, m) /\ history' = Runs(d, m)
  BY <1>1 DEF sample_domain
<1>3. raw \in Nat
  BY SamplerAssumption DEF Shown
<1>4. metrics["llc"][d] \in Metric
  BY PartsNumbered DEF Typed, DataTyped, Owners
<1>5. update_metric(metrics["llc"][d], raw) \in Metric
  BY <1>3, <1>4, UpdateTyped
<1>6. QED
  BY <1>2, <1>3, <1>5

\* A step of an L3 sampler, or of the software that takes its counters, keeps
\* the types.
LEMMA LlcTyped ==
    ASSUME Typed, NEW d \in LlcDomains, LlcStep(d) \/ Clobber(d)
    PROVE  Typed'
<1> USE DEF Typed
<1>1. /\ llc' \in [LlcDomains -> LlcRecord]
      /\ l3' \in [LlcDomains -> L3Value]
  BY LlcMoved DEF LlcStep, LlcMoves
<1>2. faults' \in 0..MaxFaults
  BY LlcAccess
<1>3. UNCHANGED <<machine, dfVars, mainVars>>
  BY DEF LlcStep, OpenLlc, ProgramL3, Clobber, sample_domain, EndLlc
<1>4. TypeOK'
  BY <1>1, <1>2, <1>3 DEF TypeOK, LlcRecord, L3Value, dfVars, mainVars
<1>5. CASE UNCHANGED <<metrics, chan, history>>
  BY <1>3, <1>4, <1>5 DEF DataTyped, dfVars, mainVars
<1>6. CASE sample_domain(d) /\ ~UNCHANGED <<metrics, chan, history>>
  <2>1. PICK raw \in Nat : LET m == update_metric(metrics["llc"][d], raw)
                           IN  m \in Metric /\ Publish("llc", d, m) /\ history' = Runs(d, m)
    BY <1>6, SamplePublishes
  <2> DEFINE m == update_metric(metrics["llc"][d], raw)
  <2>2. m \in Metric /\ Publish("llc", d, m) /\ history' = Runs(d, m)
    BY <2>1
  <2> HIDE DEF m
  <2>3. history' \in HistoryType
    BY <2>2, RunsValue DEF DataTyped, HistoryType
  <2>4. /\ DOMAIN metrics' = Owners
        /\ \A p \in Owners : metrics'[p] \in [Parts(p) -> Metric]
        /\ chan' \in [Owners -> Seq(Sample \cup Epoch)]
    BY <2>2, PublishTyped, PartsNumbered DEF Owners
  <2>5. QED
    BY <1>3, <1>4, <2>3, <2>4 DEF DataTyped, HistoryType, dfVars, mainVars
<1>7. QED
  BY <1>5, <1>6 DEF LlcStep, OpenLlc, ProgramL3, Clobber, EndLlc

\* The latest of some positions of a channel is one of them.
LEMMA LastPosition ==
    ASSUME NEW n \in Nat, NEW S \in SUBSET (1..n), S # {}
    PROVE  Max(S) \in S /\ \A i \in S : i <= Max(S)
<1> DEFINE T == {x \in Nat : \E i \in S : x + i = n}
           R == OpToRel(<, Nat)
<1>1. \A i \in S : n - i \in T
  OBVIOUS
<1>2. T \in SUBSET Nat /\ T # {}
  BY <1>1
<1>3. \E x \in T : \A y \in T : ~(<<y, x>> \in R)
  BY <1>2, NatLessThanWellFounded, WFMin
<1>4. \A x, y \in Nat : (<<y, x>> \in R) <=> y < x
  BY DEF OpToRel
<1> HIDE DEF R
<1>5. PICK x \in T : \A y \in T : ~(y < x)
  BY <1>2, <1>3, <1>4
<1>6. PICK i \in S : x + i = n
  OBVIOUS
<1>7. ASSUME NEW j \in S PROVE i >= j
  <2>1. ~(n - j < x)
    BY <1>1, <1>5
  <2>2. QED
    BY <1>6, <2>1
<1>8. QED
  BY <1>7 DEF Max

\* What the main loop takes for a part is the last sample of the part, or what it had.
LEMMA AppliedValue ==
    ASSUME Typed, NEW o \in Owners, NEW r \in Parts(o)
    PROVE  /\ \A i \in SampleIndices(o, r) : /\ i \in DOMAIN chan[o]
                                             /\ chan[o][i] \in Sample /\ chan[o][i].part = r
           /\ \A i \in DOMAIN chan[o] :
                chan[o][i] \in Sample /\ chan[o][i].part = r => i \in SampleIndices(o, r)
           /\ SampleIndices(o, r) = {} => Applied(o, r) = states[o][r]
           /\ SampleIndices(o, r) # {} =>
                \E i \in SampleIndices(o, r) : /\ Applied(o, r) = chan[o][i]
                                               /\ \A j \in SampleIndices(o, r) : j <= i
<1>1. chan[o] \in Seq(Sample \cup Epoch)
  BY DEF Typed, DataTyped
<1>2. DOMAIN chan[o] = 1..Len(chan[o]) /\ Len(chan[o]) \in Nat
  BY <1>1
<1>3. \A i \in DOMAIN chan[o] : chan[o][i] \in Sample \/ chan[o][i] \in Epoch
  BY <1>1
<1>4. \A e \in Epoch : "part" \notin DOMAIN e
  BY DEF Epoch
<1>5. \A e \in Sample : "part" \in DOMAIN e
  BY DEF Sample
<1>6. SampleIndices(o, r) \in SUBSET (1..Len(chan[o]))
  BY <1>2 DEF SampleIndices
<1>7. \A i \in SampleIndices(o, r) : /\ i \in DOMAIN chan[o]
                                     /\ chan[o][i] \in Sample /\ chan[o][i].part = r
  BY <1>3, <1>4 DEF SampleIndices
<1>8. \A i \in DOMAIN chan[o] :
        chan[o][i] \in Sample /\ chan[o][i].part = r => i \in SampleIndices(o, r)
  BY <1>5 DEF SampleIndices
<1>9. SampleIndices(o, r) # {} =>
        \E i \in SampleIndices(o, r) : /\ Applied(o, r) = chan[o][i]
                                       /\ \A j \in SampleIndices(o, r) : j <= i
  BY <1>2, <1>6, LastPosition DEF Applied
<1>10. QED
  BY <1>7, <1>8, <1>9 DEF Applied

\* The epoch the main loop takes is announced in the channel, if one is.
LEMMA EpochValue ==
    ASSUME Typed
    PROVE  \/ EpochIndices = {} /\ LastEpoch = latest
           \/ \E i \in DOMAIN chan["ccm"] : chan["ccm"][i] \in Epoch
                                             /\ LastEpoch = chan["ccm"][i].epoch
<1>1. chan["ccm"] \in Seq(Sample \cup Epoch)
  BY DEF Typed, DataTyped, Owners, DfSamplers
<1>2. DOMAIN chan["ccm"] = 1..Len(chan["ccm"]) /\ Len(chan["ccm"]) \in Nat
  BY <1>1
<1>3. \A e \in Sample : "epoch" \notin DOMAIN e
  BY DEF Sample
<1>4. EpochIndices \in SUBSET (1..Len(chan["ccm"]))
  BY <1>2 DEF EpochIndices
<1>5. \A i \in EpochIndices : i \in DOMAIN chan["ccm"] /\ chan["ccm"][i] \in Epoch
  BY <1>1, <1>2, <1>3 DEF EpochIndices
<1>6. CASE EpochIndices # {}
  <2>1. Max(EpochIndices) \in EpochIndices
    BY <1>2, <1>4, <1>6, LastPosition
  <2>2. QED
    BY <1>5, <1>6, <2>1 DEF LastEpoch
<1>7. QED
  BY <1>6 DEF LastEpoch

\* A step of the main thread keeps the types.
LEMMA MainTyped ==
    ASSUME Typed, apply_sample_updates \/ LeaveLoop \/ Join \/ Abort
    PROVE  Typed'
<1> USE DEF Typed
<1>1. CASE apply_sample_updates
  <2>1. LastEpoch \in Nat
    BY EpochValue DEF Epoch, TypeOK
  <2>2. latest' \in Nat
    BY <1>1, <2>1 DEF apply_sample_updates, TypeOK
  <2>3. TypeOK'
    BY <1>1, <2>2 DEF apply_sample_updates, TypeOK, dfVars, llcVars
  <2>4. \A o \in Owners : \A r \in Parts(o) : Applied(o, r) \in Sample \cup {NoSample}
    <3>1. SUFFICES ASSUME NEW o \in Owners, NEW r \in Parts(o)
                   PROVE  Applied(o, r) \in Sample \cup {NoSample}
      OBVIOUS
    <3>2. states[o][r] \in Sample \cup {NoSample}
      BY DEF DataTyped
    <3>3. QED
      BY <3>2, AppliedValue
  <2>5. DOMAIN states' = Owners
        /\ \A o \in Owners : states'[o] \in [Parts(o) -> Sample \cup {NoSample}]
    BY <1>1, <2>4 DEF apply_sample_updates
  <2>6. chan' \in [Owners -> Seq(Sample \cup Epoch)]
    BY <1>1 DEF apply_sample_updates
  <2>7. QED
    BY <1>1, <2>3, <2>5, <2>6 DEF apply_sample_updates, DataTyped, dfVars
<1>2. CASE LeaveLoop
  BY <1>2 DEF LeaveLoop, TypeOK, DataTyped, dfVars, llcVars
<1>3. CASE Join
  BY <1>3 DEF Join, After, TypeOK, DataTyped, dfVars, llcVars
<1>4. CASE Abort
  <2>1. DefaultMetric \in Metric
    BY DEF DefaultMetric, Metric
  <2>2. NoHistory \in HistoryType
    BY DEF NoHistory, HistoryType
  <2>3. TypeOK'
    BY <1>4, SamplerAssumption DEF Abort, TypeOK
  <2>4. DataTyped'
    BY <1>4, <2>1, <2>2 DEF Abort, DataTyped, HistoryType, AtResource
  <2>5. QED
    BY <2>3, <2>4
<1>5. QED
  BY <1>1, <1>2, <1>3, <1>4

\* Every step keeps the types.
LEMMA TypedStep ==
    ASSUME Typed, [Next]_vars
    PROVE  Typed'
<1>1. CASE UNCHANGED vars
  BY <1>1 DEF vars, dfVars, llcVars, mainVars, Typed, TypeOK, DataTyped
<1>2. ASSUME NEW s \in DfSamplers, DfStep(s) PROVE Typed'
  BY <1>2, DfTypeOK, DfDataTyped DEF Typed
<1>3. QED
  BY <1>1, <1>2, LlcTyped, MainTyped DEF Next

\* The start is well typed.
LEMMA TypedInit == Init => Typed
<1> SUFFICES ASSUME Init PROVE Typed
  OBVIOUS
<1>1. TypeOK
  <2>1. df \in [DfSamplers -> DfRecord]
    BY DEF Init, DfRecord, PcValue
  <2>2. llc \in [LlcDomains -> LlcRecord] /\ l3 \in [LlcDomains -> L3Value]
    BY SamplerAssumption DEF Init, LlcRecord, L3Value
  <2>3. stop \in BOOLEAN
    BY Zenon DEF Init
  <2>4. latest \in Nat /\ faults \in 0..MaxFaults /\ phase = "loop"
    BY SamplerAssumption DEF Init
  <2>5. lock \in DfSamplers \cup {None} /\ ctl \in [Registers -> DfSamplers \cup {None}]
    BY DEF Init
  <2>6. QED
    BY <2>1, <2>2, <2>3, <2>4, <2>5 DEF TypeOK, DfRecord, PcValue, LlcRecord, L3Value
<1>2. DefaultMetric \in Metric
  BY DEF DefaultMetric, Metric
<1>3. NoHistory \in HistoryType
  BY DEF NoHistory, HistoryType
<1>4. DataTyped
  BY <1>2, <1>3 DEF Init, DataTyped, HistoryType, AtResource
<1>5. QED
  BY <1>1, <1>4 DEF Typed

-----------------------------------------------------------------------------
(* The lock, the counters and the end of run.                              *)

\* A step of a DF sampler keeps the lock's invariant.
LEMMA DfLockInv ==
    ASSUME Typed, LockInv, NEW s \in DfSamplers, DfStep(s)
    PROVE  LockInv'
<1>1. \A t \in DfSamplers \ {s} : df'[t] = df[t]
  BY DfMoves DEF Typed, DfStep, Moves
<1>2. None \notin DfSamplers
  BY DEF None, DfSamplers
<1>3. CASE Program(s)
  <2>1. lock = None /\ (lock' = s \/ lock' = None)
    BY <1>3 DEF Program, MayProgram
  <2>2. df'[s].pc \in Holding <=> lock' = s
    <3>1. \/ Goto(s, "setup") /\ lock' = s
          \/ Goto(s, "failed") /\ lock' = lock
      BY <1>3 DEF Program
    <3>2. \/ df'[s].pc = "setup" /\ lock' = s
          \/ df'[s].pc = "failed" /\ lock' = None
      BY <2>1, <3>1, Arrives DEF Typed
    <3>3. QED
      BY <1>2, <3>2 DEF Holding
  <2>3. QED
    BY <1>1, <1>2, <2>1, <2>2 DEF LockInv
<1>4. CASE OpenWindow(s)
  <2>1. lock = s
    BY <1>4 DEF OpenWindow, Step, LockInv, Holding
  <2>2. \/ Goto(s, "window") /\ lock' = s
        \/ Goto(s, "failed") /\ lock' = None
    BY <1>4, <2>1 DEF OpenWindow, LockAfterError
  <2>3. \/ df'[s].pc = "window" /\ lock' = s
        \/ df'[s].pc = "failed" /\ lock' = None
    BY <2>2, Arrives DEF Typed
  <2>4. QED
    BY <1>1, <1>2, <2>1, <2>3 DEF LockInv, Holding
<1>5. CASE ReadOut(s)
  <2>1. lock = s /\ lock' = None
    BY <1>5 DEF ReadOut, Step, LockInv, Holding, LockAfterError
  <2>2. df'[s].pc \notin Holding
    BY <1>5, DfMoves DEF Typed, Moves, Holding
  <2>3. QED
    BY <1>1, <1>2, <2>1, <2>2 DEF LockInv
<1>6. CASE OpenDf(s) \/ BeginSweep(s) \/ NextResource(s) \/ disable_counters(s)
             \/ EndSweep(s) \/ EndDf(s)
  <2>1. UNCHANGED lock /\ df[s].pc \notin Holding
    BY <1>6 DEF OpenDf, BeginSweep, NextResource, disable_counters, EndSweep, EndDf, Step,
                Holding
  <2>2. df'[s].pc \notin Holding
    BY <1>6, DfMoves DEF Typed, Moves, Holding
  <2>3. QED
    BY <1>1, <2>1, <2>2 DEF LockInv
<1>7. QED
  BY <1>3, <1>4, <1>5, <1>6 DEF DfStep

\* Every step keeps the lock's invariant.
LEMMA LockStep ==
    ASSUME Typed, LockInv, [Next]_vars
    PROVE  LockInv'
<1>1. CASE UNCHANGED vars \/ apply_sample_updates \/ LeaveLoop \/ Join
  BY <1>1 DEF vars, apply_sample_updates, LeaveLoop, Join, dfVars, LockInv
<1>2. ASSUME NEW d \in LlcDomains, LlcStep(d) \/ Clobber(d) PROVE LockInv'
  BY <1>2 DEF LlcStep, OpenLlc, ProgramL3, Clobber, sample_domain, EndLlc, dfVars, LockInv
<1>3. CASE Abort
  <2>1. lock' = None /\ \A s \in DfSamplers : df'[s].pc = "gone"
    BY <1>3 DEF Abort
  <2>2. QED
    BY <2>1 DEF LockInv, Holding, None, DfSamplers
<1>4. QED
  BY <1>1, <1>2, <1>3, DfLockInv DEF Next

\* A register a DF sampler's step leaves with its own events outside a window
\* took a failing access, and two at its end.
LEMMA DfCtlInv ==
    ASSUME Typed, CtlInv, NEW s \in DfSamplers, DfStep(s)
    PROVE  CtlInv'
<1>1. UNCHANGED phase
  BY DEF DfStep, OpenDf, BeginSweep, NextResource, Program, OpenWindow, ReadOut,
         disable_counters, EndSweep, EndDf, mainVars
<1>2. /\ faults \in Nat /\ faults' \in Nat /\ faults' >= faults
      /\ \A r \in Registers : ctl'[r] \in {ctl[r], None, s}
      /\ ReadOut(s) => \A r \in Registers : ctl'[r] = s => faults' >= 1
  BY DfAccess DEF Typed
<1>3. None \notin DfSamplers /\ Registers = {0, 1}
  BY DEF None, DfSamplers, Registers
<1>4. Fault => faults' >= faults + 1
  BY <1>2 DEF Fault
<1>5. SUFFICES ASSUME NEW r \in Registers, NEW t \in DfSamplers, ctl'[r] = t,
                      phase' # "aborted"
               PROVE  /\ df'[t].pc # "start"
                      /\ df'[t].pc \notin Holding => faults' >= 1
                      /\ df'[t].pc = "gone" \/ (df'[t].pc = "closing" /\ r = 0) => faults' >= 2
  BY DEF CtlInv
<1>6. CASE t # s
  <2>1. df'[t] = df[t] /\ ctl[r] = t
    BY <1>2, <1>3, <1>5, <1>6, DfMoves DEF Typed, DfStep, Moves
  <2>2. QED
    BY <1>1, <1>2, <1>5, <2>1 DEF CtlInv
<1>7. CASE t = s
  <2>1. ctl[r] = s => /\ df[s].pc # "start"
                      /\ df[s].pc \notin Holding => faults >= 1
                      /\ df[s].pc = "gone" \/ (df[s].pc = "closing" /\ r = 0) => faults >= 2
    BY <1>1, <1>5 DEF CtlInv
  <2>2. CASE Program(s) \/ OpenWindow(s)
    <3>1. \/ Goto(s, "setup") \/ Goto(s, "window")
          \/ Goto(s, "failed") /\ Fault
      BY <2>2 DEF Program, OpenWindow
    <3>2. \/ df'[s].pc \in Holding
          \/ df'[s].pc = "failed" /\ faults' >= 1
      BY <1>2, <1>4, <3>1, Arrives DEF Typed, Holding
    <3>3. QED
      BY <1>7, <3>2 DEF Holding
  <2>3. CASE ReadOut(s)
    <3>1. df'[s].pc \in {"next", "failed"}
      BY <2>3, DfMoves DEF Typed, Moves
    <3>2. QED
      BY <1>2, <1>5, <1>7, <2>3, <3>1
  <2>4. CASE OpenDf(s) \/ BeginSweep(s) \/ NextResource(s) \/ EndSweep(s)
    <3>1. ctl[r] = s /\ df[s].pc \notin Holding
      BY <1>5, <1>7, <2>4 DEF OpenDf, BeginSweep, NextResource, EndSweep, Step, Holding
    <3>2. ~OpenDf(s)
      BY <2>1, <3>1 DEF OpenDf, Step
    <3>3. df'[s].pc \in {"next", "locking", "top"}
      BY <2>4, <3>2, DfMoves DEF Typed, Moves
    <3>4. QED
      BY <1>2, <1>7, <2>1, <3>1, <3>3
  <2>5. CASE disable_counters(s)
    <3>1. ctl[r] = s
      BY <1>3, <1>5, <1>7, <2>5 DEF disable_counters, SwitchOff, Typed, TypeOK
    <3>2. df[s].pc \notin Holding
      BY <2>5 DEF disable_counters, Step, Holding
    <3>3. df'[s].pc \in {"half", "next"}
      BY <2>5, DfMoves DEF Typed, Moves
    <3>4. QED
      BY <1>2, <1>7, <2>1, <3>1, <3>2, <3>3
  <2>6. CASE EndDf(s)
    <3>1. PICK q \in Registers : /\ SwitchOff(q)
                                 /\ \/ q = 0 /\ df[s].pc = "top" /\ df'[s].pc = "closing"
                                    \/ q = 1 /\ df[s].pc = "closing" /\ df'[s].pc = "gone"
      <4>1. \/ df[s].pc = "top" /\ SwitchOff(0) /\ Goto(s, "closing")
            \/ df[s].pc = "closing" /\ SwitchOff(1) /\ Goto(s, "gone")
        BY <2>6 DEF EndDf, Step
      <4>2. \/ df[s].pc = "top" /\ SwitchOff(0) /\ df'[s].pc = "closing"
            \/ df[s].pc = "closing" /\ SwitchOff(1) /\ df'[s].pc = "gone"
        BY <4>1, Arrives DEF Typed
      <4>3. QED
        BY <1>3, <4>2
    <3>2. ctl[r] = s /\ (r = q => faults' >= faults + 1)
      BY <1>3, <1>4, <1>5, <1>7, <3>1 DEF SwitchOff, Typed, TypeOK
    <3>3. faults >= 1
      BY <2>1, <3>1, <3>2 DEF Holding
    <3>4. QED
      BY <1>2, <1>3, <1>7, <2>1, <3>1, <3>2, <3>3
  <2>7. QED
    BY <2>2, <2>3, <2>4, <2>5, <2>6 DEF DfStep
<1>8. QED
  BY <1>6, <1>7

\* The same of the L3 counters.
LEMMA LlcL3Inv ==
    ASSUME Typed, L3Inv, NEW d \in LlcDomains, LlcStep(d) \/ Clobber(d)
    PROVE  L3Inv'
<1>1. UNCHANGED phase
  BY DEF LlcStep, OpenLlc, ProgramL3, Clobber, sample_domain, EndLlc, mainVars
<1>2. faults \in Nat /\ faults' \in Nat /\ faults' >= faults
  BY LlcAccess DEF Typed
<1>3. Fault => faults' >= faults + 1
  BY <1>2 DEF Fault
<1>4. SUFFICES ASSUME NEW c \in LlcDomains, l3'[c] # "off", phase' # "aborted"
               PROVE  /\ llc'[c].pc # "start"
                      /\ llc'[c].pc # "window" => faults' >= 1
                      /\ llc'[c].pc = "gone" => faults' >= 2
  BY DEF L3Inv
<1>5. l3[c] # "off" => /\ llc[c].pc # "start"
                       /\ llc[c].pc # "window" => faults >= 1
                       /\ llc[c].pc = "gone" => faults >= 2
  BY <1>1, <1>4 DEF L3Inv
<1>6. CASE c # d
  <2>1. llc'[c] = llc[c] /\ l3'[c] = l3[c]
    BY <1>6, LlcMoved DEF Typed, LlcStep, LlcMoves
  <2>2. QED
    BY <1>2, <1>4, <1>5, <2>1
<1>7. CASE c = d
  <2>1. CASE OpenLlc(d)
    <3>1. l3'[d] = l3[d] /\ llc[d].pc = "start"
      BY <2>1, LlcMoved DEF Typed, LlcMoves, OpenLlc, LlcAt
    <3>2. QED
      BY <1>4, <1>5, <1>7, <3>1
  <2>2. CASE ProgramL3(d)
    <3>1. \/ llc'[d].pc = "window"
          \/ llc'[d].pc = "top" /\ l3'[d] = "off"
          \/ llc'[d].pc = "top" /\ faults' = faults + 2
      BY <2>2, LlcMoved DEF Typed, LlcMoves
    <3>2. QED
      BY <1>2, <1>4, <1>7, <3>1
  <2>3. CASE Clobber(d)
    <3>1. llc'[d].pc = "window"
      BY <2>3, LlcMoved DEF Typed, LlcMoves
    <3>2. QED
      BY <1>7, <3>1
  <2>4. CASE sample_domain(d)
    <3>1. \/ llc'[d].pc = "top" /\ l3'[d] = "off"
          \/ llc'[d].pc = "top" /\ Fault
      BY <2>4, LlcMoved DEF Typed, LlcMoves
    <3>2. QED
      BY <1>2, <1>3, <1>4, <1>7, <3>1
  <2>5. CASE EndLlc(d)
    <3>1. /\ llc[d].pc = "top" /\ llc'[d].pc = "gone"
          /\ l3'[d] = "off" \/ (Fault /\ l3[d] # "off")
      BY <1>4, <1>7, <2>5, LlcMoved DEF Typed, LlcMoves, EndLlc, LlcAt
    <3>2. QED
      BY <1>2, <1>3, <1>4, <1>5, <1>7, <3>1
  <2>6. QED
    BY <2>1, <2>2, <2>3, <2>4, <2>5 DEF LlcStep
<1>8. QED
  BY <1>6, <1>7

\* Every step keeps the account of the counters that stay on.
LEMMA CountersStep ==
    ASSUME Typed, CtlInv, L3Inv, [Next]_vars
    PROVE  CtlInv' /\ L3Inv'
<1>1. CASE UNCHANGED vars \/ apply_sample_updates \/ LeaveLoop \/ Join
  <2>1. UNCHANGED <<df, ctl, llc, l3, faults>> /\ (UNCHANGED phase \/ phase # "aborted")
    BY <1>1 DEF vars, apply_sample_updates, LeaveLoop, Join, After, dfVars, llcVars, mainVars
  <2>2. QED
    BY <2>1 DEF CtlInv, L3Inv
<1>2. ASSUME NEW s \in DfSamplers, DfStep(s) PROVE CtlInv' /\ L3Inv'
  <2>1. UNCHANGED <<llc, l3, phase>>
    BY <1>2 DEF DfStep, OpenDf, BeginSweep, NextResource, Program, OpenWindow, ReadOut,
                disable_counters, EndSweep, EndDf, llcVars, mainVars
  <2>2. faults \in Nat /\ faults' \in Nat /\ faults' >= faults
    BY <1>2, DfAccess DEF Typed
  <2>3. L3Inv'
    BY <2>1, <2>2 DEF L3Inv
  <2>4. QED
    BY <1>2, <2>3, DfCtlInv
<1>3. ASSUME NEW d \in LlcDomains, LlcStep(d) \/ Clobber(d) PROVE CtlInv' /\ L3Inv'
  <2>1. UNCHANGED <<df, ctl, phase>>
    BY <1>3 DEF LlcStep, OpenLlc, ProgramL3, Clobber, sample_domain, EndLlc, dfVars, mainVars
  <2>2. faults \in Nat /\ faults' \in Nat /\ faults' >= faults
    BY <1>3, LlcAccess DEF Typed
  <2>3. CtlInv'
    BY <2>1, <2>2 DEF CtlInv
  <2>4. QED
    BY <1>3, <2>3, LlcL3Inv
<1>4. CASE Abort
  BY <1>4 DEF Abort, CtlInv, L3Inv
<1>5. QED
  BY <1>1, <1>2, <1>3, <1>4 DEF Next

\* A thread that is gone stays gone.
LEMMA GoneStays ==
    ASSUME Typed, [Next]_vars
    PROVE  /\ \A s \in DfSamplers : df[s].pc = "gone" => df'[s].pc = "gone"
           /\ \A d \in LlcDomains : llc[d].pc = "gone" => llc'[d].pc = "gone"
<1>1. ASSUME NEW s \in DfSamplers, DfStep(s)
      PROVE  /\ UNCHANGED llc
             /\ \A t \in DfSamplers : df[t].pc = "gone" => df'[t].pc = "gone"
  <2>1. UNCHANGED llc
    BY <1>1 DEF DfStep, OpenDf, BeginSweep, NextResource, Program, OpenWindow, ReadOut, disable_counters,
                EndSweep, EndDf, llcVars
  <2>2. df[s].pc # "gone"
    BY <1>1 DEF DfStep, OpenDf, BeginSweep, NextResource, Program, OpenWindow, ReadOut, disable_counters,
                EndSweep, EndDf, Step
  <2>3. \A t \in DfSamplers \ {s} : df'[t] = df[t]
    BY <1>1, DfMoves DEF Typed, DfStep, Moves
  <2>4. QED
    BY <2>1, <2>2, <2>3
<1>2. ASSUME NEW d \in LlcDomains, LlcStep(d) \/ Clobber(d)
      PROVE  /\ UNCHANGED df
             /\ \A c \in LlcDomains : llc[c].pc = "gone" => llc'[c].pc = "gone"
  <2>1. UNCHANGED df /\ llc[d].pc # "gone"
    BY <1>2 DEF LlcStep, OpenLlc, ProgramL3, Clobber, sample_domain, EndLlc, dfVars, LlcAt
  <2>2. \A c \in LlcDomains \ {d} : llc'[c] = llc[c]
    BY <1>2, LlcMoved DEF Typed, LlcStep, LlcMoves
  <2>3. QED
    BY <2>1, <2>2
<1>3. CASE UNCHANGED vars \/ apply_sample_updates \/ LeaveLoop \/ Join
  BY <1>3 DEF vars, apply_sample_updates, LeaveLoop, Join, dfVars, llcVars
<1>4. CASE Abort
  BY <1>4 DEF Abort
<1>5. QED
  BY <1>1, <1>2, <1>3, <1>4 DEF Next

\* Every step keeps what run has waited for.
LEMMA JoinStep ==
    ASSUME Typed, JoinInv, [Next]_vars
    PROVE  JoinInv'
<1>1. /\ \A s \in DfSamplers : df[s].pc = "gone" => df'[s].pc = "gone"
      /\ \A d \in LlcDomains : llc[d].pc = "gone" => llc'[d].pc = "gone"
  BY GoneStays
<1>2. "ccm" \in DfSamplers /\ "cs" \in DfSamplers
  BY DEF DfSamplers
<1>3. ASSUME UNCHANGED <<phase, stop>>, \A s \in DfSamplers : df'[s].pc = "closing" => stop
      PROVE  JoinInv'
  BY <1>1, <1>2, <1>3 DEF JoinInv, Gone
<1>4. CASE LeaveLoop
  <2>1. phase' = "join_llc" /\ stop'
    BY <1>4, Zenon DEF LeaveLoop
  <2>2. QED
    BY <2>1 DEF JoinInv
<1>5. CASE Join
  <2>1. UNCHANGED <<df, llc, stop>>
    BY <1>5 DEF Join, dfVars, llcVars
  <2>2. \/ phase = "join_llc" /\ phase' = "join_ccm" /\ \A d \in LlcDomains : llc[d].pc = "gone"
        \/ phase = "join_ccm" /\ phase' = "join_cs" /\ df["ccm"].pc = "gone"
        \/ phase = "join_cs" /\ phase' = "returned" /\ df["cs"].pc = "gone"
    <3>1. phase \in {"join_llc", "join_ccm", "join_cs"} /\ phase' = After[phase] /\ Joined(phase)
      BY <1>5 DEF Join, After
    <3>2. /\ After["join_llc"] = "join_ccm" /\ After["join_ccm"] = "join_cs"
          /\ After["join_cs"] = "returned"
      BY DEF After
    <3>3. /\ Joined("join_llc") => \A d \in LlcDomains : llc[d].pc = "gone"
          /\ Joined("join_ccm") => df["ccm"].pc = "gone"
          /\ Joined("join_cs") => df["cs"].pc = "gone"
      BY DEF Joined
    <3>4. QED
      BY <3>1, <3>2, <3>3
  <2>3. QED
    BY <2>1, <2>2 DEF JoinInv
<1>6. CASE Abort
  <2>1. /\ phase' = "aborted" /\ UNCHANGED stop /\ phase = "loop"
        /\ \A s \in DfSamplers : df'[s].pc = "gone"
        /\ \A d \in LlcDomains : llc'[d].pc = "gone"
    BY <1>6 DEF Abort
  <2>2. QED
    BY <2>1 DEF JoinInv, Gone
<1>7. ASSUME NEW s \in DfSamplers, DfStep(s) PROVE JoinInv'
  <2>1. UNCHANGED <<phase, stop>>
    BY <1>7 DEF DfStep, OpenDf, BeginSweep, NextResource, Program, OpenWindow, ReadOut,
                disable_counters, EndSweep, EndDf, mainVars
  <2>2. df'[s].pc = "closing" => stop
    BY <1>7, DfMoves DEF Typed, DfStep, Moves
  <2>3. \A t \in DfSamplers \ {s} : df'[t] = df[t]
    BY <1>7, DfMoves DEF Typed, DfStep, Moves
  <2>4. QED
    BY <1>3, <2>1, <2>2, <2>3 DEF JoinInv
<1>8. ASSUME NEW d \in LlcDomains, LlcStep(d) \/ Clobber(d) PROVE JoinInv'
  <2>1. UNCHANGED <<phase, stop, df>>
    BY <1>8 DEF LlcStep, OpenLlc, ProgramL3, Clobber, sample_domain, EndLlc, dfVars, mainVars
  <2>2. QED
    BY <1>3, <2>1 DEF JoinInv
<1>9. CASE UNCHANGED vars \/ apply_sample_updates
  <2>1. UNCHANGED <<phase, stop, df>>
    BY <1>9 DEF vars, apply_sample_updates, dfVars, mainVars
  <2>2. QED
    BY <1>3, <2>1 DEF JoinInv
<1>10. QED
  BY <1>4, <1>5, <1>6, <1>7, <1>8, <1>9 DEF Next

\* A step of a DF sampler keeps the account of the cut windows: an error makes
\* a debt for two, each unlocked write turns a debt into at most one window,
\* that of the sampler that holds the lock, and the first thread to end uses
\* the reserve.
LEMMA DfCutInv ==
    ASSUME Typed, LockInv, JoinInv, CutInv, NEW s \in DfSamplers, DfStep(s)
    PROVE  CutInv'
<1> DEFINE t == Other(s)
<1>1. /\ t \in DfSamplers \ {s} /\ Other(t) = s /\ DfSamplers = {s, t}
      /\ (s = "ccm" /\ t = "cs") \/ (s = "cs" /\ t = "ccm")
  BY DEF DfSamplers, Other
<1>2. Other(s) = t
  OBVIOUS
<1> HIDE DEF t
<1>3. /\ \A u \in DfSamplers : Owed(u) \in 0..2 /\ Owed(u)' \in 0..2
      /\ Reserve \in 0..1 /\ Reserve' \in 0..1 /\ Stopped \in 0..1
  BY DEF Owed, Reserve, Stopped
<1>4. history.cuts \in Nat /\ faults \in Nat /\ history'.cuts \in Nat /\ faults' \in Nat
      /\ faults' >= faults
  BY DfTypeOK, DfDataTyped, DfAccess DEF Typed, TypeOK, DataTyped
<1>5. history.cuts + Owed(s) + Owed(t) + Reserve <= 2 * faults + Stopped
  BY <1>1, <1>3, <1>4 DEF CutInv
<1>6. df'[t] = df[t] /\ UNCHANGED stop
  <2>1. df'[t] = df[t]
    BY <1>1, DfMoves DEF Typed, DfStep, Moves
  <2>2. UNCHANGED stop
    BY DEF DfStep, OpenDf, BeginSweep, NextResource, Program, OpenWindow, ReadOut,
           disable_counters, EndSweep, EndDf, mainVars
  <2>3. QED
    BY <2>1, <2>2
<1>7. Stopped' = Stopped
  BY <1>6 DEF Stopped
<1>8. SUFFICES history'.cuts + Owed(s)' + Owed(t)' + Reserve' <= 2 * faults' + Stopped
  BY <1>1, <1>3, <1>4, <1>7 DEF CutInv
<1>9. df'[s].pc \notin {"closing"} /\ df[s].pc \notin {"closing", "gone"} => Reserve' <= Reserve
  BY <1>1, <1>6 DEF Reserve
<1>10. 0 \in Registers /\ 1 \in Registers /\ Registers = {0, 1} /\ None \notin DfSamplers
       /\ ctl \in [Registers -> DfSamplers \cup {None}]
  BY DEF Registers, None, DfSamplers, Typed, TypeOK
\* As long as t holds the lock, s can only take registers away from it.
<1>11. ASSUME df[t].pc \notin Holding PROVE ~Lost(t) /\ ~Lost(t)'
  BY <1>6, <1>11 DEF Lost, Holding
\* A step after which s is not before or in a window leaves t at most what it had.
<1>12. ASSUME df[t].pc \notin Holding, ~Exposed(s)' PROVE Owed(t)' <= Owed(t)
  BY <1>1, <1>6, <1>11, <1>12 DEF Owed
<1>13. CASE OpenDf(s) \/ BeginSweep(s) \/ NextResource(s) \/ EndSweep(s)
  <2>1. UNCHANGED <<ctl, history, faults>>
    BY <1>13 DEF OpenDf, BeginSweep, NextResource, EndSweep
  <2>2. df'[s].pc \in {"top", "gone", "next", "locking"} /\ df[s].pc \in {"start", "top", "next"}
    BY <1>13, DfMoves DEF Typed, Moves, OpenDf, BeginSweep, NextResource, EndSweep, Step
  <2>3. Owed(s)' = 0
    BY <2>2 DEF Owed, Lost
  <2>4. Lost(t)' <=> Lost(t)
    BY <1>6, <2>1 DEF Lost, Cut
  <2>5. Exposed(s)' => ~stop
    <3>1. Exposed(s)' => df'[s].pc = "locking"
      BY <2>2 DEF Exposed, Holding
    <3>2. df'[s].pc = "locking" => NextResource(s)
      BY <1>13, DfMoves DEF Typed, Moves
    <3>3. QED
      BY <3>1, <3>2 DEF NextResource
  <2>6. df[t].pc = "closing" => stop
    BY <1>1 DEF JoinInv
  <2>7. Owed(t)' <= Owed(t)
    BY <1>1, <1>6, <2>4, <2>5, <2>6 DEF Owed
  <2>8. Reserve' <= Reserve
    BY <1>9, <2>2
  <2>9. QED
    BY <1>1, <1>3, <1>4, <1>5, <2>1, <2>3, <2>7, <2>8
<1>14. CASE Program(s)
  <2>1. df[t].pc \notin Holding
    BY <1>1, <1>10, <1>14 DEF Program, MayProgram, LockInv
  <2>2. UNCHANGED history /\ df[s].pc = "locking" /\ df'[s].pc \in {"setup", "failed"}
    BY <1>14, DfMoves DEF Program, Step, Typed, Moves
  <2>3. Reserve' <= Reserve
    BY <1>9, <2>2
  <2>4. Exposed(s)
    BY <2>2 DEF Exposed
  <2>5. Owed(t)' <= Owed(t)
    BY <1>1, <1>6, <1>11, <2>1, <2>4 DEF Owed
  <2>6. CASE Goto(s, "setup") /\ ctl' = [ctl EXCEPT ![0] = s]
    <3>1. df'[s].pc = "setup"
      BY <2>6, Arrives DEF Typed
    <3>2. ctl'[0] = s
      BY <1>10, <2>6
    <3>3. Owed(s)' = 0
      BY <3>1, <3>2 DEF Owed, Lost
    <3>4. QED
      BY <1>1, <1>3, <1>4, <1>5, <2>2, <2>3, <2>5, <3>3
  <2>7. CASE faults' = faults + 1
    BY <1>1, <1>3, <1>4, <1>5, <2>2, <2>3, <2>5, <2>7
  <2>8. QED
    BY <1>14, <2>6, <2>7 DEF Program, Fault
<1>15. CASE OpenWindow(s)
  <2>1. df[t].pc \notin Holding
    BY <1>1, <1>15 DEF OpenWindow, Step, LockInv, Holding
  <2>2. UNCHANGED history /\ df[s].pc = "setup" /\ df'[s].pc \in {"window", "failed"}
    BY <1>15, DfMoves DEF OpenWindow, Step, Typed, Moves
  <2>3. Reserve' <= Reserve
    BY <1>9, <2>2
  <2>4. CASE Goto(s, "window") /\ ctl' = [ctl EXCEPT ![1] = s]
    <3>1. df'[s].pc = "window"
      BY <2>4, Arrives DEF Typed
    <3>2. ctl'[1] = s /\ ctl'[0] = ctl[0]
      BY <1>10, <2>4
    <3>3. Lost(s)' <=> Lost(s)
      BY <1>10, <2>2, <3>1, <3>2 DEF Lost, Cut
    <3>4. Owed(s)' = Owed(s)
      BY <2>2, <3>1, <3>3 DEF Owed
    <3>5. Exposed(s)' <=> Exposed(s)
      BY <2>2, <3>1, <3>3 DEF Exposed, Holding
    <3>6. Owed(t)' = Owed(t)
      BY <1>1, <1>6, <1>11, <2>1, <3>5 DEF Owed
    <3>7. QED
      BY <1>1, <1>3, <1>4, <1>5, <2>2, <2>3, <3>4, <3>6
  <2>5. CASE faults' = faults + 1 /\ Goto(s, "failed")
    <3>1. df'[s].pc = "failed"
      BY <2>5, Arrives DEF Typed
    <3>2. ~Exposed(s)'
      BY <3>1 DEF Exposed, Holding
    <3>3. Owed(t)' <= Owed(t)
      BY <1>12, <2>1, <3>2
    <3>4. QED
      BY <1>1, <1>3, <1>4, <1>5, <2>2, <2>3, <2>5, <3>3
  <2>6. QED
    BY <1>15, <2>4, <2>5 DEF OpenWindow, Fault
<1>16. CASE ReadOut(s)
  <2>1. df[s].pc = "window" /\ df[t].pc \notin Holding
    BY <1>1, <1>16 DEF ReadOut, Step, LockInv, Holding
  <2>2. df'[s].pc \in {"next", "failed"}
    BY <1>16, DfMoves DEF Typed, Moves
  <2>3. ~Exposed(s)'
    BY <2>2 DEF Exposed, Holding
  <2>4. Owed(t)' <= Owed(t)
    BY <1>12, <2>1, <2>3
  <2>5. Reserve' <= Reserve
    BY <1>9, <2>1, <2>2
  <2>6. CASE /\ df' = Advance(s)
             /\ history' = [history EXCEPT !.cuts = @ + (IF Cut(s) THEN 1 ELSE 0)]
    <3>1. Owed(s) = IF Cut(s) THEN 1 ELSE 0
      BY <2>1 DEF Owed, Lost
    <3>2. history'.cuts = history.cuts + Owed(s)
      BY <2>6, <3>1 DEF Typed, DataTyped
    <3>3. df'[s].pc = "next"
      BY <2>6 DEF Advance, Typed, TypeOK
    <3>4. Owed(s)' = 0
      BY <3>3 DEF Owed, Lost
    <3>5. QED
      BY <1>1, <1>3, <1>4, <1>5, <2>4, <2>5, <3>2, <3>4
  <2>7. CASE faults' = faults + 1 /\ UNCHANGED history
    BY <1>1, <1>3, <1>4, <1>5, <2>4, <2>5, <2>7
  <2>8. QED
    BY <1>16, <2>6, <2>7 DEF ReadOut, Fault
<1>17. CASE disable_counters(s)
  <2>1. \/ df[s].pc = "failed" /\ df'[s].pc = "half"
        \/ df[s].pc = "half" /\ df'[s].pc = "next"
    BY <1>17, DfMoves DEF Typed, Moves
  <2>2. Owed(s)' = Owed(s) - 1
    BY <2>1 DEF Owed, Lost
  <2>3. ~Exposed(s)' /\ ~Exposed(s)
    BY <2>1 DEF Exposed, Holding
  <2>4. Owed(t)' <= Owed(t) + 1
    BY <1>1, <1>6, <2>3 DEF Owed
  <2>5. Reserve' <= Reserve
    BY <1>9, <2>1
  <2>6. history'.cuts = history.cuts
    BY <1>17 DEF disable_counters, Typed, DataTyped
  <2>7. QED
    BY <1>1, <1>3, <1>4, <1>5, <2>2, <2>4, <2>5, <2>6
<1>18. CASE EndDf(s)
  <2>1. UNCHANGED history
    BY <1>18 DEF EndDf
  <2>2. CASE df[s].pc = "top"
    <3>1. stop /\ df'[s].pc = "closing" /\ SwitchOff(0)
      BY <1>18, <2>2, DfMoves DEF EndDf, Step, Typed, Moves
    <3>2. Owed(s) = 0 /\ Reserve' = 0
      BY <1>1, <2>2, <3>1 DEF Owed, Lost, Reserve
    <3>3. ~Exposed(s) /\ ~Exposed(s)'
      BY <2>2, <3>1 DEF Exposed, Holding
    <3>4. Lost(t) => Lost(t)'
      BY <1>1, <1>6, <1>10, <3>1 DEF Lost, Cut, SwitchOff
    <3>5. Owed(s)' = IF Exposed(t)' THEN 1 ELSE 0
      BY <1>2, <3>1 DEF Owed
    <3>6. CASE df[t].pc \in {"closing", "gone"}
      <4>1. ~Exposed(t)' /\ ~Lost(t)'
        BY <1>6, <3>6 DEF Exposed, Lost, Holding
      <4>2. Owed(t)' = 0
        BY <1>1, <1>6, <3>3, <3>6, <4>1 DEF Owed
      <4>3. QED
        BY <1>1, <1>3, <1>4, <1>5, <2>1, <3>2, <3>5, <4>1, <4>2
    <3>7. CASE df[t].pc \notin {"closing", "gone"}
      <4>1. Reserve = 1
        BY <1>1, <2>2, <3>1, <3>7 DEF Reserve
      <4>2. Exposed(t)' => ~Lost(t)' /\ df[t].pc \notin {"failed", "half"}
        BY <1>6 DEF Exposed, Lost, Holding
      <4>3. Owed(s)' + Owed(t)' <= Owed(t) + 1
        BY <1>1, <1>6, <3>5, <3>7, <4>2 DEF Owed
      <4>4. QED
        BY <1>1, <1>3, <1>4, <1>5, <2>1, <3>2, <4>1, <4>3
    <3>8. QED
      BY <3>6, <3>7
  <2>3. CASE df[s].pc = "closing"
    <3>1. df'[s].pc = "gone" /\ SwitchOff(1)
      BY <1>18, <2>3, DfMoves DEF EndDf, Step, Typed, Moves
    <3>2. Owed(s)' = 0 /\ Reserve' <= Reserve
      BY <1>1, <1>6, <2>3, <3>1 DEF Owed, Lost, Reserve
    <3>3. ~Exposed(s) /\ ~Exposed(s)'
      BY <2>3, <3>1 DEF Exposed, Holding
    <3>4. Owed(s) = IF Exposed(t) THEN 1 ELSE 0
      BY <1>2, <2>3 DEF Owed
    <3>5. Lost(t)' /\ ~Lost(t) => Exposed(t)
      BY <1>6 DEF Lost, Exposed, Holding
    <3>6. Owed(t)' <= Owed(t) + Owed(s)
      BY <1>1, <1>6, <3>3, <3>4, <3>5 DEF Owed
    <3>7. QED
      BY <1>1, <1>3, <1>4, <1>5, <2>1, <3>2, <3>6
  <2>4. QED
    BY <1>18, <2>2, <2>3 DEF EndDf, Step
<1>19. QED
  BY <1>13, <1>14, <1>15, <1>16, <1>17, <1>18 DEF DfStep

\* Every step keeps the account.
LEMMA CutStep ==
    ASSUME Typed, LockInv, JoinInv, CutInv, [Next]_vars
    PROVE  CutInv'
<1>1. /\ history.cuts \in Nat /\ faults \in Nat /\ history'.cuts \in Nat /\ faults' \in Nat
  BY TypedStep DEF Typed, TypeOK, DataTyped
<1>2. ASSUME UNCHANGED <<df, ctl>>, stop => stop', history'.cuts = history.cuts,
             faults' >= faults
      PROVE  CutInv'
  <2>1. \A s \in DfSamplers : Lost(s)' <=> Lost(s)
    BY <1>2 DEF Lost, Cut
  <2>2. \A s \in DfSamplers : Other(s) \in DfSamplers
    BY DEF Other, DfSamplers
  <2>3. \A s \in DfSamplers : Owed(s)' = Owed(s)
    BY <1>2, <2>1, <2>2 DEF Owed, Exposed
  <2>4. \A s \in DfSamplers : Owed(s) \in 0..2
    BY DEF Owed
  <2>5. Reserve' + Stopped <= Reserve + Stopped'
    BY <1>2 DEF Reserve, Stopped
  <2>6. /\ Reserve \in 0..1 /\ Stopped \in 0..1
        /\ Reserve' \in 0..1 /\ Stopped' \in 0..1
    BY DEF Reserve, Stopped
  <2>7. \A s \in {"ccm", "cs"} : Owed(s)' = Owed(s) /\ Owed(s) \in 0..2
    BY <2>3, <2>4 DEF DfSamplers
  <2>8. /\ Owed("ccm")' = Owed("ccm") /\ Owed("cs")' = Owed("cs")
        /\ Owed("ccm") \in 0..2 /\ Owed("cs") \in 0..2
    BY <2>7
  <2>9. history.cuts + Owed("ccm") + Owed("cs") + Reserve <= 2 * faults + Stopped
    BY DEF CutInv
  <2>10. history'.cuts + Owed("ccm")' + Owed("cs")' + Reserve' <= 2 * faults' + Stopped'
    <3>1. history'.cuts = history.cuts /\ faults' >= faults
      BY <1>2
    <3>2. \A a, b, r, q, u, v \in 0..2 : \A c, f, g \in Nat :
            c + a + b + r <= 2 * f + u /\ q + u <= r + v /\ g >= f =>
              c + a + b + q <= 2 * g + v
      OBVIOUS
    <3>3. /\ Reserve \in 0..2 /\ Stopped \in 0..2
          /\ Reserve' \in 0..2 /\ Stopped' \in 0..2
      BY <2>6
    <3>4. history.cuts + Owed("ccm") + Owed("cs") + Reserve' <= 2 * faults' + Stopped'
      BY <1>1, <2>5, <2>8, <2>9, <3>1, <3>2, <3>3
    <3>5. QED
      BY <2>8, <3>1, <3>4
  <2>11. QED
    BY <2>10 DEF CutInv
<1>3. CASE UNCHANGED vars \/ apply_sample_updates \/ LeaveLoop \/ Join
  <2>1. UNCHANGED <<df, ctl, history, faults>>
    BY <1>3 DEF vars, apply_sample_updates, LeaveLoop, Join, dfVars
  <2>2. stop => stop'
    BY <1>3, Zenon DEF vars, apply_sample_updates, LeaveLoop, Join, mainVars
  <2>3. QED
    BY <1>1, <1>2, <2>1, <2>2
<1>4. ASSUME NEW d \in LlcDomains, LlcStep(d) \/ Clobber(d) PROVE CutInv'
  <2>1. UNCHANGED <<df, ctl, stop>>
    BY <1>4 DEF LlcStep, OpenLlc, ProgramL3, Clobber, sample_domain, EndLlc, dfVars, mainVars
  <2>2. faults' >= faults
    BY <1>4, LlcAccess DEF Typed
  <2>3. history'.cuts = history.cuts
    <3>1. CASE sample_domain(d)
      BY <3>1, SamplePublishes, RunsValue DEF Typed, DataTyped, HistoryType
    <3>2. QED
      BY <1>4, <3>1 DEF LlcStep, OpenLlc, ProgramL3, Clobber, EndLlc
  <2>4. QED
    BY <1>1, <1>2, <2>1, <2>2, <2>3
<1>5. CASE Abort
  <2>1. history'.cuts = 0 /\ \A s \in DfSamplers : df'[s].pc = "gone"
    BY <1>5 DEF Abort, NoHistory
  <2>2. \A s \in DfSamplers : Owed(s)' = 0
    BY <2>1 DEF Owed, Lost
  <2>3. Reserve' = 0 /\ Stopped' \in 0..1
    BY <2>1 DEF Reserve, Stopped, DfSamplers
  <2>4. QED
    BY <1>1, <2>1, <2>2, <2>3 DEF CutInv, DfSamplers
<1>6. QED
  BY <1>3, <1>4, <1>5, DfCutInv DEF Next

-----------------------------------------------------------------------------
(* The filter.                                                             *)

\* The filter's counts stay within the runs h and c of samples, and it changes
\* its state only with a run that is long enough.
LEMMA FilterCounts ==
    ASSUME NEW prev \in Metric, NEW raw \in Nat, NEW h \in Nat, NEW c \in Nat,
           prev.hot <= h, prev.cool <= c
    PROVE  LET m == update_metric(prev, raw)
               hot == IF m.ewma <= CoolPct THEN 0
                      ELSE IF m.ewma >= HotPct THEN AtMost(h + 1, CountMax) ELSE h
               cool == IF m.ewma >= HotPct THEN 0
                       ELSE IF m.ewma <= CoolPct THEN AtMost(c + 1, CountMax) ELSE c
           IN  /\ m.hot <= hot /\ m.cool <= cool
               /\ prev.state = "cool" /\ m.state = "hot" => hot >= HotPersist
               /\ prev.state = "hot" /\ m.state = "cool" => cool >= CoolPersist
<1> DEFINE e == Ewma(prev, raw)
           n == Counted(prev, e)
           m == update_metric(prev, raw)
<1>1. /\ m.ewma = e /\ m.hot = n.hot /\ m.cool = n.cool
      /\ m.state = CASE e >= HotPct /\ n.hot >= HotPersist -> "hot"
                     [] e <= CoolPct /\ n.cool >= CoolPersist -> "cool"
                     [] OTHER -> prev.state
  BY DEF update_metric
<1>2. m.ewma \in Nat
  BY UpdateTyped DEF Metric
<1> HIDE DEF m
<1>3. e \in Nat
  BY <1>1, <1>2
<1> HIDE DEF e
<1>4. prev.hot \in Nat /\ prev.cool \in Nat
  BY DEF Metric
<1>5. /\ HotPct \in Nat /\ CoolPct \in Nat /\ CoolPct < HotPct
      /\ HotPersist \in Nat /\ CoolPersist \in Nat /\ CountMax \in Nat
  BY FilterAssumption
<1>6. CASE e >= HotPct
  <2>1. n.hot = AtMost(prev.hot + 1, CountMax) /\ n.cool = 0
    BY <1>3, <1>5, <1>6 DEF Counted
  <2>2. m.state = "hot" => n.hot >= HotPersist \/ prev.state = "hot"
    BY <1>1, <1>3, <1>5, <1>6
  <2>3. m.state = "cool" => prev.state = "cool"
    BY <1>1, <1>3, <1>5, <1>6
  <2>4. n.hot <= AtMost(h + 1, CountMax)
    BY <1>4, <1>5, <2>1 DEF AtMost
  <2>5. AtMost(h + 1, CountMax) \in Nat /\ n.hot \in Nat
    BY <1>4, <1>5, <2>1 DEF AtMost
  <2> HIDE DEF n
  <2>6. QED
    BY <1>1, <1>3, <1>5, <1>6, <2>1, <2>2, <2>3, <2>4, <2>5 DEF m
<1>7. CASE e <= CoolPct
  <2>1. n.cool = AtMost(prev.cool + 1, CountMax) /\ n.hot = 0
    BY <1>3, <1>5, <1>7 DEF Counted
  <2>2. m.state = "cool" => n.cool >= CoolPersist \/ prev.state = "cool"
    BY <1>1, <1>3, <1>5, <1>7
  <2>3. m.state = "hot" => prev.state = "hot"
    BY <1>1, <1>3, <1>5, <1>7
  <2>4. n.cool <= AtMost(c + 1, CountMax)
    BY <1>4, <1>5, <2>1 DEF AtMost
  <2>5. AtMost(c + 1, CountMax) \in Nat /\ n.cool \in Nat
    BY <1>4, <1>5, <2>1 DEF AtMost
  <2> HIDE DEF n
  <2>6. QED
    BY <1>1, <1>3, <1>5, <1>7, <2>1, <2>2, <2>3, <2>4, <2>5 DEF m
<1>8. CASE ~(e >= HotPct) /\ ~(e <= CoolPct)
  <2>1. n.hot <= prev.hot /\ n.cool <= prev.cool /\ n.hot \in Nat /\ n.cool \in Nat
    BY <1>3, <1>4, <1>5, <1>8 DEF Counted, AtMost
  <2>2. m.state = prev.state
    BY <1>1, <1>8
  <2> HIDE DEF n
  <2>3. QED
    BY <1>1, <1>3, <1>4, <1>5, <1>8, <2>1, <2>2 DEF m
<1>9. QED
  BY <1>6, <1>7, <1>8

\* A change of state of an L3 domain's metric comes with a long enough run.
FlipStep ==
    \A d \in LlcDomains :
      LET old == metrics["llc"][d].state
          new == metrics'["llc"][d].state
      IN  \/ phase' = "aborted"
          \/ /\ old = "cool" /\ new = "hot" => history'.hot[d] >= HotPersist
             /\ old = "hot" /\ new = "cool" => history'.cool[d] >= CoolPersist

\* Every step keeps the filter's counts within the runs, and changes no state
\* without a long enough run.
LEMMA FilterStep ==
    ASSUME Typed, FilterInv, [Next]_vars
    PROVE  FilterInv' /\ FlipStep
<1>1. ASSUME metrics'["llc"] = metrics["llc"], history'.hot = history.hot,
             history'.cool = history.cool
      PROVE  FilterInv' /\ FlipStep
  BY <1>1 DEF FilterInv, FlipStep
<1>2. ASSUME NEW s \in DfSamplers, DfStep(s) PROVE FilterInv' /\ FlipStep
  <2>1. metrics'["llc"] = metrics["llc"]
    <3>1. CASE ReadOut(s) /\ ~UNCHANGED <<metrics, chan>>
      <4>1. PICK m \in Metric : Publish(s, Resources[s][df[s].at], m)
        BY <3>1, ReadOutPublishes
      <4>2. metrics' = [metrics EXCEPT ![s] = [metrics[s] EXCEPT ![Resources[s][df[s].at]] = m]]
        BY <4>1 DEF Publish
      <4>3. "llc" \in Owners /\ "llc" # s
        BY DEF DfSamplers, Owners
      <4>4. QED
        BY <4>2, <4>3 DEF Typed, DataTyped
    <3>2. QED
      BY <1>2, <3>1 DEF DfStep, OpenDf, BeginSweep, NextResource, Program, OpenWindow, disable_counters,
                        EndSweep, EndDf
  <2>2. history'.hot = history.hot /\ history'.cool = history.cool
    <3>1. CASE UNCHANGED history
      BY <3>1
    <3>2. CASE \E n \in {0, 1} : history' = [history EXCEPT !.cuts = @ + n]
      BY <3>2 DEF Typed, DataTyped
    <3>3. CASE disable_counters(s)
      BY <3>3 DEF disable_counters, Typed, DataTyped
    <3>4. ReadOut(s) => \/ UNCHANGED history
                        \/ \E n \in {0, 1} : history' = [history EXCEPT !.cuts = @ + n]
      BY DEF ReadOut
    <3>5. QED
      BY <1>2, <3>1, <3>2, <3>3, <3>4 DEF DfStep, OpenDf, BeginSweep, NextResource, Program, OpenWindow,
                                          EndSweep, EndDf
  <2>3. QED
    BY <1>1, <2>1, <2>2
<1>3. ASSUME NEW d \in LlcDomains, sample_domain(d), ~UNCHANGED <<metrics, chan, history>>
      PROVE  FilterInv' /\ FlipStep
  <2>1. PICK raw \in Nat : LET m == update_metric(metrics["llc"][d], raw)
                           IN  m \in Metric /\ Publish("llc", d, m) /\ history' = Runs(d, m)
    BY <1>3, SamplePublishes
  <2> DEFINE m == update_metric(metrics["llc"][d], raw)
  <2>2. m \in Metric /\ Publish("llc", d, m) /\ history' = Runs(d, m)
    BY <2>1
  <2>3. history \in HistoryType /\ metrics["llc"] \in [LlcDomains -> Metric]
    BY PartsNumbered DEF Typed, DataTyped, HistoryType, Owners
  <2>4. /\ history.hot[d] \in Nat /\ history.cool[d] \in Nat
        /\ metrics["llc"][d].hot <= history.hot[d] /\ metrics["llc"][d].cool <= history.cool[d]
    BY <2>3 DEF FilterInv, HistoryType
  <2> DEFINE hot == IF m.ewma <= CoolPct THEN 0
                    ELSE IF m.ewma >= HotPct THEN AtMost(history.hot[d] + 1, CountMax)
                    ELSE history.hot[d]
             cool == IF m.ewma >= HotPct THEN 0
                     ELSE IF m.ewma <= CoolPct THEN AtMost(history.cool[d] + 1, CountMax)
                     ELSE history.cool[d]
  <2>5. /\ m.hot <= hot /\ m.cool <= cool
        /\ metrics["llc"][d].state = "cool" /\ m.state = "hot" => hot >= HotPersist
        /\ metrics["llc"][d].state = "hot" /\ m.state = "cool" => cool >= CoolPersist
    BY <2>3, <2>4, FilterCounts
  <2> HIDE DEF m
  <2>6. /\ history'.hot[d] = hot /\ history'.cool[d] = cool
        /\ \A x \in LlcDomains \ {d} : /\ history'.hot[x] = history.hot[x]
                                       /\ history'.cool[x] = history.cool[x]
    BY <2>2, <2>3, RunsValue
  <2> HIDE DEF hot, cool
  <2>7. /\ metrics'["llc"][d] = m
        /\ \A x \in LlcDomains \ {d} : metrics'["llc"][x] = metrics["llc"][x]
    BY <2>2, <2>3 DEF Publish, Typed, DataTyped, Owners
  <2>8. FilterInv'
    BY <2>5, <2>6, <2>7 DEF FilterInv
  <2>9. FlipStep
    BY <2>5, <2>6, <2>7 DEF FlipStep
  <2>10. QED
    BY <2>8, <2>9
<1>4. ASSUME NEW d \in LlcDomains, LlcStep(d) \/ Clobber(d) PROVE FilterInv' /\ FlipStep
  <2>1. CASE UNCHANGED <<metrics, chan, history>>
    BY <1>1, <2>1
  <2>2. QED
    BY <1>3, <1>4, <2>1 DEF LlcStep, OpenLlc, ProgramL3, Clobber, EndLlc
<1>5. CASE UNCHANGED vars \/ apply_sample_updates \/ LeaveLoop \/ Join
  BY <1>1, <1>5 DEF vars, apply_sample_updates, LeaveLoop, Join
<1>6. CASE Abort
  <2>1. phase' = "aborted" /\ history' = NoHistory
        /\ \A d \in LlcDomains : metrics'["llc"][d] = DefaultMetric
    BY <1>6, PartsNumbered DEF Abort, Owners
  <2>2. QED
    BY <2>1 DEF FilterInv, FlipStep, NoHistory, DefaultMetric
<1>7. QED
  BY <1>2, <1>4, <1>5, <1>6 DEF Next

-----------------------------------------------------------------------------
(* The sweeps of the CCM sampler.                                          *)

\* A step that leaves the channel of the CCM sampler alone, and its sweep too
\* or starts the next one.
Quiet ==
    /\ chan'["ccm"] = chan["ccm"] /\ history'.missed = history.missed
    /\ df'["ccm"].sweep >= df["ccm"].sweep
    /\ df'["ccm"].pc \in Active =>
         \/ df'["ccm"].at = 1
         \/ /\ df["ccm"].pc \in Active
            /\ df'["ccm"].at = df["ccm"].at /\ df'["ccm"].sweep = df["ccm"].sweep

\* The CCM sampler sends a sample of the domain it is at.
SendsSample ==
    /\ \E m \in Metric : chan'["ccm"] = Append(chan["ccm"],
          [part |-> CcmDomains[df["ccm"].at], metric |-> m, sweep |-> df["ccm"].sweep])
    /\ df["ccm"].at \in DOMAIN CcmDomains
    /\ history'.missed = history.missed
    /\ df["ccm"].pc \in Active
    /\ df'["ccm"].at = df["ccm"].at + 1 /\ df'["ccm"].sweep = df["ccm"].sweep

\* It notes that it could not measure that domain.
NotesMiss ==
    /\ chan'["ccm"] = chan["ccm"]
    /\ history'.missed = [history.missed EXCEPT ![CcmDomains[df["ccm"].at]] = df["ccm"].sweep]
    /\ df["ccm"].pc \in Active
    /\ df'["ccm"].at = df["ccm"].at + 1 /\ df'["ccm"].sweep = df["ccm"].sweep

\* It announces its sweep, which has gone through every domain or was broken off.
Announces ==
    /\ chan'["ccm"] = Append(chan["ccm"], [epoch |-> df["ccm"].sweep])
    /\ history'.missed = history.missed
    /\ df["ccm"].pc \in Active /\ (stop \/ df["ccm"].at > Len(CcmDomains))
    /\ df'["ccm"].pc \notin Active /\ df'["ccm"].sweep = df["ccm"].sweep

\* Before the CCM sampler's samples are applied or dropped, a step is one of these.
LEMMA SweepEffect ==
    ASSUME Typed, [Next]_vars, ~apply_sample_updates, ~Abort
    PROVE  /\ UNCHANGED <<states, latest>> /\ (stop => stop')
           /\ Quiet \/ SendsSample \/ NotesMiss \/ Announces
<1> USE DEF Typed
<1>1. "ccm" \in DfSamplers /\ "cs" \in DfSamplers /\ "ccm" \in Owners /\ "ccm" # "cs"
      /\ df["ccm"].sweep \in Nat
  BY DEF DfSamplers, Owners, TypeOK
<1>2. ASSUME chan'["ccm"] = chan["ccm"], history'.missed = history.missed,
             df'["ccm"] = df["ccm"]
      PROVE  Quiet
  BY <1>1, <1>2 DEF Quiet
<1>3. ASSUME NEW s \in DfSamplers, DfStep(s)
      PROVE  UNCHANGED <<states, latest, stop>> /\ (Quiet \/ SendsSample \/ NotesMiss \/ Announces)
  <2>1. UNCHANGED <<states, latest, stop>>
    BY <1>3 DEF DfStep, OpenDf, BeginSweep, NextResource, Program, OpenWindow, ReadOut, disable_counters,
                EndSweep, EndDf, mainVars
  <2>2. ReadOut(s) => history'.missed = history.missed
    <3>1. ReadOut(s) => \/ UNCHANGED history
                        \/ \E n \in {0, 1} : history' = [history EXCEPT !.cuts = @ + n]
      BY DEF ReadOut
    <3>2. QED
      BY <3>1 DEF DataTyped
  <2>3. ReadOut(s) => \/ UNCHANGED <<metrics, chan>>
                      \/ \E m \in Metric : Publish(s, Resources[s][df[s].at], m)
    BY ReadOutPublishes
  <2>4. CASE s = "cs"
    <3>1. df'["ccm"] = df["ccm"]
      BY <1>1, <1>3, <2>4, DfMoves DEF DfStep, Moves
    <3>2. history'.missed = history.missed
      BY <1>1, <1>3, <2>2, <2>4 DEF DfStep, OpenDf, BeginSweep, NextResource, Program, OpenWindow,
                                    disable_counters, EndSweep, EndDf
    <3>3. chan'["ccm"] = chan["ccm"]
      <4>1. CASE ReadOut(s)
        BY <1>1, <2>3, <2>4, <4>1 DEF Publish, DataTyped
      <4>2. QED
        BY <1>1, <1>3, <2>4, <4>1 DEF DfStep, OpenDf, BeginSweep, NextResource, Program, OpenWindow,
                                      disable_counters, EndSweep, EndDf
    <3>4. QED
      BY <1>2, <2>1, <3>1, <3>2, <3>3
  <2>5. CASE s = "ccm"
    <3>1. CASE OpenDf(s) \/ BeginSweep(s) \/ NextResource(s) \/ Program(s) \/ OpenWindow(s)
                 \/ EndDf(s)
      <4>1. chan'["ccm"] = chan["ccm"] /\ history'.missed = history.missed
        BY <3>1 DEF OpenDf, BeginSweep, NextResource, Program, OpenWindow, EndDf
      <4>2. CASE OpenDf(s) \/ EndDf(s)
        <5>1. df'["ccm"].pc \in {"top", "closing", "gone"} /\ df'["ccm"].sweep = df["ccm"].sweep
          BY <2>5, <4>2, DfMoves DEF Moves
        <5>2. QED
          BY <1>1, <2>1, <4>1, <5>1 DEF Quiet, Active
      <4>3. CASE BeginSweep(s)
        <5>1. df'["ccm"].at = 1 /\ df'["ccm"].sweep = df["ccm"].sweep + 1
          BY <2>5, <4>3, DfMoves DEF Moves
        <5>2. QED
          BY <1>1, <2>1, <4>1, <5>1 DEF Quiet
      <4>4. CASE NextResource(s) \/ Program(s) \/ OpenWindow(s)
        <5>1. df["ccm"].pc \in Active
          BY <2>5, <4>4 DEF NextResource, Program, OpenWindow, Step, Active
        <5>2. df'["ccm"].at = df["ccm"].at /\ df'["ccm"].sweep = df["ccm"].sweep
          BY <2>5, <4>4, DfMoves DEF Moves
        <5>3. QED
          BY <1>1, <2>1, <4>1, <5>1, <5>2 DEF Quiet
      <4>5. QED
        BY <2>1, <3>1, <4>2, <4>3, <4>4
    <3>2. CASE ReadOut(s)
      <4>1. df["ccm"].pc \in Active
        BY <2>5, <3>2 DEF ReadOut, Step, Active
      <4>2. CASE UNCHANGED <<ctl, metrics, chan, history>> /\ Goto(s, "failed")
        <5>1. df'[s].at = df[s].at /\ df'[s].sweep = df[s].sweep
          BY <4>2, DfMoved DEF Goto, TypeOK, DfRecord, PcValue
        <5>2. QED
          BY <1>1, <2>1, <2>5, <4>1, <4>2, <5>1 DEF Quiet
      <4>3. CASE df' = Advance(s) /\ \E raw \in DfReadings \cup {0} :
                   Publish(s, Resources[s][df[s].at],
                           update_metric(metrics[s][Resources[s][df[s].at]], raw))
        <5>1. df'[s].at = df[s].at + 1 /\ df'[s].sweep = df[s].sweep
          BY <4>3 DEF Advance, TypeOK
        <5>2. df[s].at \in 1..Len(CcmDomains)
          BY <2>5, <3>2, PartsNumbered, SamplerAssumption DEF ReadOut, Step, TypeOK, DataTyped,
                                                        AtResource
        <5>3. Resources[s][df[s].at] = CcmDomains[df[s].at] /\ Resources[s][df[s].at] \in Parts(s)
          BY <2>5, <5>2, PartsNumbered
        <5>4. metrics[s][Resources[s][df[s].at]] \in Metric
          BY <5>3 DEF DataTyped, Owners
        <5>5. PICK m \in Metric : Publish(s, CcmDomains[df[s].at], m)
          BY <4>3, <5>3, <5>4, UpdateTyped, SamplerAssumption
        <5>6. chan'["ccm"] = Append(chan["ccm"],
                [part |-> CcmDomains[df["ccm"].at], metric |-> m, sweep |-> df["ccm"].sweep])
          BY <1>1, <2>5, <5>5 DEF Publish, DataTyped
        <5>7. DOMAIN CcmDomains = 1..Len(CcmDomains)
          BY SamplerAssumption
        <5>8. SendsSample
          BY <2>2, <2>5, <3>2, <4>1, <5>1, <5>2, <5>6, <5>7 DEF SendsSample
        <5>9. QED
          BY <2>1, <5>8
      <4>4. QED
        BY <3>2, <4>2, <4>3 DEF ReadOut
    <3>3. CASE disable_counters(s)
      <4>1. df["ccm"].pc \in Active /\ chan'["ccm"] = chan["ccm"]
        BY <2>5, <3>3 DEF disable_counters, Step, Active
      <4>2. CASE df["ccm"].pc = "failed"
        <5>1. history' = history /\ Moves(s, {"half"}, df[s].at, df[s].sweep)
          BY <2>5, <3>3, <4>2, DfMoves DEF disable_counters, Step
        <5>2. QED
          BY <1>1, <2>1, <2>5, <4>1, <5>1 DEF Quiet, Moves
      <4>3. CASE df["ccm"].pc = "half"
        <5>1. history'.missed =
                [history.missed EXCEPT ![CcmDomains[df["ccm"].at]] = df["ccm"].sweep]
          BY <2>5, <3>3, <4>3 DEF disable_counters, Step, DataTyped
        <5>2. Moves(s, {"next"}, df[s].at + 1, df[s].sweep)
          BY <2>5, <3>3, <4>3, DfMoves
        <5>3. QED
          BY <2>1, <2>5, <4>1, <5>1, <5>2 DEF NotesMiss, Moves
      <4>4. QED
        BY <2>5, <3>3, <4>2, <4>3 DEF disable_counters, Step
    <3>4. CASE EndSweep(s)
      <4>1. df["ccm"].pc \in Active /\ (stop \/ df["ccm"].at > Len(CcmDomains))
        BY <2>5, <3>4, PartsNumbered DEF EndSweep, Step, Swept, Active
      <4>2. chan'["ccm"] = Append(chan["ccm"], [epoch |-> df["ccm"].sweep])
            /\ history'.missed = history.missed
        BY <1>1, <2>5, <3>4 DEF EndSweep, DataTyped
      <4>3. df'["ccm"].pc \notin Active /\ df'["ccm"].sweep = df["ccm"].sweep
        BY <2>5, <3>4, DfMoves DEF Moves, Active
      <4>4. QED
        BY <2>1, <4>1, <4>2, <4>3 DEF Announces
    <3>5. QED
      BY <1>3, <3>1, <3>2, <3>3, <3>4 DEF DfStep
  <2>6. QED
    BY <2>4, <2>5 DEF DfSamplers
<1>4. ASSUME NEW d \in LlcDomains, LlcStep(d) \/ Clobber(d)
      PROVE  UNCHANGED <<states, latest, stop>> /\ Quiet
  <2>1. UNCHANGED <<states, latest, stop, df>>
    BY <1>4 DEF LlcStep, OpenLlc, ProgramL3, Clobber, sample_domain, EndLlc, dfVars, mainVars
  <2>2. CASE UNCHANGED <<metrics, chan, history>>
    BY <1>2, <2>1, <2>2
  <2>3. CASE sample_domain(d) /\ ~UNCHANGED <<metrics, chan, history>>
    <3>1. PICK m \in Metric : Publish("llc", d, m) /\ history' = Runs(d, m)
      BY <2>3, SamplePublishes
    <3>2. history'.missed = history.missed
      BY <3>1, RunsValue DEF DataTyped, HistoryType
    <3>3. chan'["ccm"] = chan["ccm"]
      BY <1>1, <3>1 DEF Publish, DataTyped
    <3>4. QED
      BY <1>2, <2>1, <3>2, <3>3
  <2>4. QED
    BY <1>4, <2>2, <2>3 DEF LlcStep, OpenLlc, ProgramL3, Clobber, EndLlc
<1>5. CASE UNCHANGED vars \/ Join
  <2>1. UNCHANGED <<states, latest, stop, df, chan, history>>
    BY <1>5 DEF vars, Join, dfVars, mainVars
  <2>2. QED
    BY <1>2, <2>1
<1>6. CASE LeaveLoop
  <2>1. UNCHANGED <<states, latest, df, chan, history>>
    BY <1>6 DEF LeaveLoop, dfVars
  <2>2. stop'
    BY <1>6, Zenon DEF LeaveLoop
  <2>3. QED
    BY <1>2, <2>1, <2>2
<1>7. QED
  BY <1>3, <1>4, <1>5, <1>6 DEF Next

\* What is accounted for stays so when the channel grows and misses are noted.
LEMMA CoverKept ==
    ASSUME Typed, states'["ccm"] = states["ccm"],
           chan'["ccm"] = chan["ccm"] \/ \E x : chan'["ccm"] = Append(chan["ccm"], x),
           NEW r \in Parts("ccm"), history.missed[r] <= history'.missed[r],
           history.missed[r] \in Nat, history'.missed[r] \in Nat,
           NEW e \in Nat, Covered(r, e)
    PROVE  Covered(r, e)'
<1>1. chan["ccm"] \in Seq(Sample \cup Epoch)
  BY DEF Typed, DataTyped, Owners, DfSamplers
<1>2. \A i \in DOMAIN chan["ccm"] : i \in DOMAIN chan'["ccm"] /\ chan'["ccm"][i] = chan["ccm"][i]
  <2>1. CASE chan'["ccm"] = chan["ccm"]
    BY <2>1
  <2>2. CASE \E x : chan'["ccm"] = Append(chan["ccm"], x)
    <3>1. PICK x : chan'["ccm"] = Append(chan["ccm"], x)
      BY <2>2
    <3>2. QED
      BY <1>1, <3>1
  <2>3. QED
    BY <2>1, <2>2
<1>3. CASE \E i \in DOMAIN chan["ccm"] : IsSample(i, r) /\ chan["ccm"][i].sweep >= e
  BY <1>2, <1>3 DEF Covered, IsSample
<1>4. CASE history.missed[r] >= e
  <2>1. history'.missed[r] >= e
    BY <1>4
  <2>2. QED
    BY <2>1 DEF Covered
<1>5. QED
  BY <1>3, <1>4 DEF Covered

\* The types a sweep's bookkeeping has.
LEMMA SweepTyped ==
    ASSUME Typed
    PROVE  /\ chan["ccm"] \in Seq(Sample \cup Epoch) /\ df["ccm"].sweep \in Nat
           /\ df["ccm"].at \in Nat \ {0} /\ latest \in Nat
           /\ \A r \in Parts("ccm") : /\ history.missed[r] \in Nat
                                      /\ states["ccm"][r] \in Sample \cup {NoSample}
           /\ history.missed \in [Parts("ccm") -> Nat]
           /\ \A i \in DOMAIN CcmDomains : CcmDomains[i] \in Parts("ccm")
           /\ \A r \in Parts("ccm") : \E i \in DOMAIN CcmDomains : CcmDomains[i] = r
           /\ DOMAIN CcmDomains = 1..Len(CcmDomains)
<1>1. "ccm" \in DfSamplers /\ "ccm" \in Owners
  BY DEF DfSamplers, Owners
<1>2. df["ccm"].sweep \in Nat /\ df["ccm"].at \in Nat \ {0} /\ latest \in Nat
  BY <1>1 DEF Typed, TypeOK
<1>3. /\ chan["ccm"] \in Seq(Sample \cup Epoch)
      /\ states["ccm"] \in [Parts("ccm") -> Sample \cup {NoSample}]
      /\ history.missed \in [Parts("ccm") -> Nat]
  BY <1>1 DEF Typed, DataTyped
<1>4. Parts("ccm") = {CcmDomains[i] : i \in DOMAIN CcmDomains}
  BY <1>1 DEF Parts, ToSet, Resources
<1>5. DOMAIN CcmDomains = 1..Len(CcmDomains)
  BY SamplerAssumption
<1>6. QED
  BY <1>2, <1>3, <1>4, <1>5

\* What the CCM sampler notes as missed only grows.
LEMMA MissedGrows ==
    ASSUME Typed, SweepOrder, Quiet \/ SendsSample \/ NotesMiss \/ Announces,
           NEW r \in Parts("ccm")
    PROVE  /\ history.missed[r] <= history'.missed[r]
           /\ history'.missed[r] \in {history.missed[r], df["ccm"].sweep}
           /\ df["ccm"].sweep <= df'["ccm"].sweep
<1>1. history.missed[r] <= df["ccm"].sweep /\ history.missed[r] \in Nat /\ df["ccm"].sweep \in Nat
  BY SweepTyped DEF SweepOrder
<1>2. CASE NotesMiss
  <2>1. history'.missed[r] \in {history.missed[r], df["ccm"].sweep}
    BY <1>2, SweepTyped DEF NotesMiss
  <2>2. QED
    BY <1>1, <1>2, <2>1 DEF NotesMiss
<1>3. CASE Quiet \/ SendsSample \/ Announces
  BY <1>1, <1>3 DEF Quiet, SendsSample, Announces
<1>4. QED
  BY <1>2, <1>3

\* A step of a sampler keeps the samples in order.
LEMMA OrderKept ==
    ASSUME Typed, Typed', SweepOrder, UNCHANGED states,
           Quiet \/ SendsSample \/ NotesMiss \/ Announces
    PROVE  SweepOrder'
<1> DEFINE C == chan["ccm"]
           n == df["ccm"].sweep
<1>1. C \in Seq(Sample \cup Epoch) /\ n \in Nat /\ df'["ccm"].sweep \in Nat
  BY SweepTyped DEF Typed, TypeOK, DfSamplers
<1>2. SUFFICES ASSUME NEW r \in Parts("ccm")
               PROVE  /\ history'.missed[r] <= df'["ccm"].sweep
                      /\ states["ccm"][r] # NoSample => states["ccm"][r].sweep <= df'["ccm"].sweep
                      /\ \A i \in DOMAIN chan'["ccm"] : IsSample(i, r)' =>
                           /\ chan'["ccm"][i].sweep <= df'["ccm"].sweep
                           /\ states["ccm"][r] # NoSample =>
                                states["ccm"][r].sweep <= chan'["ccm"][i].sweep
                           /\ \A j \in DOMAIN chan'["ccm"] : IsSample(j, r)' /\ i <= j =>
                                chan'["ccm"][i].sweep <= chan'["ccm"][j].sweep
  BY DEF SweepOrder
<1>3. /\ history.missed[r] <= n
      /\ states["ccm"][r] # NoSample => states["ccm"][r].sweep <= n
      /\ \A i \in DOMAIN C : IsSample(i, r) =>
           /\ C[i].sweep <= n
           /\ states["ccm"][r] # NoSample => states["ccm"][r].sweep <= C[i].sweep
           /\ \A j \in DOMAIN C : IsSample(j, r) /\ i <= j => C[i].sweep <= C[j].sweep
  BY DEF SweepOrder
<1>4. history.missed[r] \in Nat /\ states["ccm"][r] \in Sample \cup {NoSample}
  BY SweepTyped
<1>5. n <= df'["ccm"].sweep /\ history'.missed[r] \in {history.missed[r], n}
  BY MissedGrows
<1>6. history'.missed[r] <= df'["ccm"].sweep
  BY <1>1, <1>3, <1>4, <1>5
<1>7. states["ccm"][r] # NoSample =>
        states["ccm"][r].sweep \in Nat /\ states["ccm"][r].sweep <= df'["ccm"].sweep
  BY <1>1, <1>3, <1>4, <1>5 DEF Sample
<1>8. \A x \in Sample : x.sweep \in Nat
  BY DEF Sample
<1>9. CASE chan'["ccm"] = C
  BY <1>1, <1>3, <1>5, <1>6, <1>7, <1>8, <1>9 DEF IsSample
<1>10. CASE \E x : chan'["ccm"] = Append(C, x) /\ (x \in Sample => x.sweep = n)
  <2>1. PICK x : chan'["ccm"] = Append(C, x) /\ (x \in Sample => x.sweep = n)
    BY <1>10
  <2> HIDE DEF C, n
  <2>2. /\ DOMAIN chan'["ccm"] = 1..(Len(C) + 1) /\ DOMAIN C = 1..Len(C) /\ Len(C) \in Nat
        /\ \A i \in 1..Len(C) : chan'["ccm"][i] = C[i]
        /\ chan'["ccm"][Len(C) + 1] = x
    BY <1>1, <2>1
  <2>3. \A i \in 1..Len(C) : IsSample(i, r)' <=> IsSample(i, r)
    BY <2>2 DEF IsSample, C
  <2>4. ASSUME NEW i \in DOMAIN chan'["ccm"], IsSample(i, r)'
        PROVE  /\ chan'["ccm"][i].sweep \in Nat
               /\ chan'["ccm"][i].sweep <= n
               /\ states["ccm"][r] # NoSample => states["ccm"][r].sweep <= chan'["ccm"][i].sweep
    <3>1. chan'["ccm"][i] \in Sample
      BY <2>4 DEF IsSample
    <3>2. CASE i \in 1..Len(C)
      BY <1>3, <1>8, <2>2, <2>3, <2>4, <3>1, <3>2
    <3>3. CASE i = Len(C) + 1
      BY <1>1, <1>3, <1>8, <2>1, <2>2, <3>1, <3>3
    <3>4. QED
      BY <2>2, <3>2, <3>3
  <2>5. ASSUME NEW i \in DOMAIN chan'["ccm"], IsSample(i, r)',
               NEW j \in DOMAIN chan'["ccm"], IsSample(j, r)', i <= j
        PROVE  chan'["ccm"][i].sweep <= chan'["ccm"][j].sweep
    <3>1. CASE j \in 1..Len(C)
      <4>1. i \in 1..Len(C)
        BY <2>2, <2>5, <3>1
      <4>2. QED
        BY <1>3, <2>2, <2>3, <2>5, <3>1, <4>1
    <3>2. CASE j = Len(C) + 1
      <4>1. chan'["ccm"][j] \in Sample
        BY <2>5 DEF IsSample
      <4>2. chan'["ccm"][j].sweep = n
        BY <2>1, <2>2, <3>2, <4>1
      <4>3. QED
        BY <2>4, <2>5, <4>2
    <3>3. QED
      BY <2>2, <3>1, <3>2
  <2>6. \A i \in DOMAIN chan'["ccm"] : IsSample(i, r)' => chan'["ccm"][i].sweep <= df'["ccm"].sweep
    BY <1>1, <1>5, <2>4
  <2>7. QED
    BY <1>6, <1>7, <2>4, <2>5, <2>6
<1>11. \/ chan'["ccm"] = C
       \/ \E x : chan'["ccm"] = Append(C, x) /\ (x \in Sample => x.sweep = n)
  <2>1. ASSUME SendsSample PROVE \E x : chan'["ccm"] = Append(C, x) /\ x.sweep = n
    <3>1. PICK m \in Metric : chan'["ccm"] = Append(C,
            [part |-> CcmDomains[df["ccm"].at], metric |-> m, sweep |-> n])
      BY <2>1 DEF SendsSample
    <3>2. [part |-> CcmDomains[df["ccm"].at], metric |-> m, sweep |-> n].sweep = n
      OBVIOUS
    <3>3. QED
      BY <3>1, <3>2
  <2>2. ASSUME Announces
        PROVE  \E x : chan'["ccm"] = Append(C, x) /\ (x \in Sample => x.sweep = n)
    <3>1. [epoch |-> n] \notin Sample
      BY DEF Sample
    <3>2. QED
      BY <2>2, <3>1 DEF Announces
  <2>3. QED
    BY <2>1, <2>2 DEF Quiet, NotesMiss
<1>12. QED
  BY <1>9, <1>10, <1>11

\* A step of a sampler keeps every announced sweep, and the one under way,
\* accounted for.
LEMMA SweepKept ==
    ASSUME Typed, Typed', SweepInv, UNCHANGED states, stop => stop',
           Quiet \/ SendsSample \/ NotesMiss \/ Announces
    PROVE  EpochsCovered' /\ SweepCovered'
<1> DEFINE C == chan["ccm"]
           n == df["ccm"].sweep
<1>1. C \in Seq(Sample \cup Epoch) /\ n \in Nat /\ df["ccm"].at \in Nat \ {0}
      /\ df'["ccm"].at \in Nat
  BY SweepTyped DEF Typed, TypeOK, DfSamplers
<1>2. ASSUME NEW r \in Parts("ccm"), NEW e \in Nat, Covered(r, e) PROVE Covered(r, e)'
  <2>1. history.missed[r] \in Nat /\ history'.missed[r] \in Nat
    BY SweepTyped, MissedGrows, <1>1 DEF SweepInv
  <2>2. history.missed[r] <= history'.missed[r]
    BY MissedGrows DEF SweepInv
  <2>3. chan'["ccm"] = C \/ \E x : chan'["ccm"] = Append(C, x)
    BY DEF Quiet, SendsSample, NotesMiss, Announces
  <2>4. QED
    BY <1>2, <2>1, <2>2, <2>3, CoverKept
<1>3. ASSUME NEW e \in Nat, NEW k \in DOMAIN CcmDomains,
             Covered(CcmDomains[k], e)
      PROVE  Covered(CcmDomains[k], e)'
  <2>1. PICK r \in Parts("ccm") : r = CcmDomains[k]
    BY SweepTyped
  <2>2. Covered(r, e)'
    BY <1>2, <1>3, <2>1
  <2>3. QED
    BY <2>1, <2>2
<1>4. ASSUME ~stop', NEW i \in DOMAIN chan'["ccm"], chan'["ccm"][i] \in Epoch,
             NEW r \in Parts("ccm")
      PROVE  Covered(r, chan["ccm"][i].epoch)'
  <2>1. ~stop
    BY <1>4
  <2>2. PICK e \in Nat : e = chan'["ccm"][i].epoch
    BY <1>4 DEF Epoch
  <2>3. SUFFICES Covered(r, e)'
    BY <2>2 DEF Covered
  <2>4. CASE i \in DOMAIN C /\ chan'["ccm"][i] = C[i]
    <3>1. Covered(r, e)
      BY <1>4, <2>1, <2>2, <2>4 DEF SweepInv, EpochsCovered
    <3>2. QED
      BY <1>2, <3>1
  <2>5. CASE Announces /\ i = Len(C) + 1
    <3>1. chan'["ccm"][i] = [epoch |-> n]
      BY <1>1, <2>5 DEF Announces
    <3>2. e = n
      BY <2>2, <3>1
    <3>3. PICK k \in DOMAIN CcmDomains : CcmDomains[k] = r
      BY SweepTyped
    <3>4. k \in 1..Len(CcmDomains) /\ Len(CcmDomains) \in Nat
      BY SweepTyped, SamplerAssumption
    <3>5. k < df["ccm"].at
      BY <1>1, <2>1, <2>5, <3>4 DEF Announces
    <3>6. Covered(r, e)
      BY <2>1, <2>5, <3>2, <3>3, <3>5 DEF SweepInv, SweepCovered, Announces
    <3>7. QED
      BY <1>2, <3>6
  <2>6. CASE SendsSample
    <3>1. PICK m \in Metric : chan'["ccm"] = Append(C,
            [part |-> CcmDomains[df["ccm"].at], metric |-> m, sweep |-> n])
      BY <2>6 DEF SendsSample
    <3> DEFINE x == [part |-> CcmDomains[df["ccm"].at], metric |-> m, sweep |-> n]
    <3>2. x \notin Epoch
      BY DEF Epoch
    <3>3. chan'["ccm"] = Append(C, x)
      BY <3>1
    <3> HIDE DEF x
    <3>4. i \in DOMAIN C /\ chan'["ccm"][i] = C[i]
      BY <1>1, <1>4, <3>2, <3>3
    <3>5. QED
      BY <2>4, <3>4
  <2>7. CASE Announces
    <3>1. i = Len(C) + 1 \/ (i \in DOMAIN C /\ chan'["ccm"][i] = C[i])
      BY <1>1, <2>7 DEF Announces
    <3>2. QED
      BY <2>4, <2>5, <2>7, <3>1
  <2>8. QED
    BY <2>4, <2>6, <2>7 DEF Quiet, NotesMiss
<1>5. ASSUME ~stop', df'["ccm"].pc \in Active, NEW k \in DOMAIN CcmDomains, k < df'["ccm"].at
      PROVE  Covered(CcmDomains[k], df["ccm"].sweep)'
  <2>1. ~stop /\ k \in Nat \ {0}
    BY <1>5, SweepTyped
  <2>2. PICK e \in Nat : e = df'["ccm"].sweep
    BY DEF Typed, TypeOK, DfSamplers
  <2>3. SUFFICES Covered(CcmDomains[k], e)'
    BY <2>2 DEF Covered
  <2>4. ASSUME df["ccm"].pc \in Active, e = n, k < df["ccm"].at PROVE Covered(CcmDomains[k], e)'
    BY <1>3, <2>1, <2>4 DEF SweepInv, SweepCovered
  <2>5. CASE Quiet
    BY <1>1, <1>5, <2>1, <2>2, <2>4, <2>5 DEF Quiet
  <2>6. CASE Announces
    BY <1>5, <2>6 DEF Announces
  <2>7. CASE SendsSample
    <3>1. e = n /\ df["ccm"].pc \in Active
      BY <2>2, <2>7 DEF SendsSample
    <3>2. CASE k = df["ccm"].at
      <4>1. PICK m \in Metric : chan'["ccm"] = Append(C,
              [part |-> CcmDomains[k], metric |-> m, sweep |-> n])
        BY <2>7, <3>2 DEF SendsSample
      <4> DEFINE x == [part |-> CcmDomains[k], metric |-> m, sweep |-> n]
      <4>2. x \in Sample /\ x.part = CcmDomains[k] /\ x.sweep = n
        BY <1>1, SweepTyped, PartsNumbered DEF Sample, Owners, DfSamplers
      <4>3. chan'["ccm"] = Append(C, x)
        BY <4>1
      <4> HIDE DEF x
      <4>4. Len(C) + 1 \in DOMAIN chan'["ccm"] /\ chan'["ccm"][Len(C) + 1] = x
        BY <1>1, <4>3
      <4>5. PICK l \in DOMAIN chan'["ccm"] : chan'["ccm"][l] = x
        BY <4>4
      <4>6. IsSample(l, CcmDomains[k])' /\ chan'["ccm"][l].sweep >= e
        BY <1>1, <3>1, <4>2, <4>5 DEF IsSample
      <4>7. QED
        BY <4>6 DEF Covered
    <3>3. CASE k < df["ccm"].at
      BY <2>4, <3>1, <3>3
    <3>4. QED
      BY <1>1, <1>5, <2>1, <2>7, <3>2, <3>3 DEF SendsSample
  <2>8. CASE NotesMiss
    <3>1. e = n /\ df["ccm"].pc \in Active
      BY <2>2, <2>8 DEF NotesMiss
    <3>2. CASE k = df["ccm"].at
      <4>1. history'.missed[CcmDomains[k]] = n
        BY <2>8, <3>2, SweepTyped DEF NotesMiss
      <4>2. history'.missed[CcmDomains[k]] >= e
        BY <1>1, <3>1, <4>1
      <4>3. QED
        BY <4>2 DEF Covered
    <3>3. CASE k < df["ccm"].at
      BY <2>4, <3>1, <3>3
    <3>4. QED
      BY <1>1, <1>5, <2>1, <2>8, <3>2, <3>3 DEF NotesMiss
  <2>9. QED
    BY <2>5, <2>6, <2>7, <2>8
<1>6. QED
  BY <1>4, <1>5 DEF EpochsCovered, SweepCovered

\* The main loop's table of a domain is, after it took the samples, from every
\* sweep that a sample of the domain, or the table, was from.
LEMMA AppliedCovers ==
    ASSUME Typed, SweepOrder, apply_sample_updates, NEW r \in Parts("ccm")
    PROVE  /\ states'["ccm"][r] # NoSample => states'["ccm"][r].sweep <= df["ccm"].sweep
           /\ \A e \in Nat : Covered(r, e) =>
                \/ states'["ccm"][r] # NoSample /\ states'["ccm"][r].sweep >= e
                \/ history.missed[r] >= e
<1> DEFINE C == chan["ccm"]
           n == df["ccm"].sweep
           old == states["ccm"][r]
           new == states'["ccm"][r]
<1>1. "ccm" \in Owners
  BY DEF Owners, DfSamplers
<1>2. new = Applied("ccm", r)
  BY <1>1 DEF apply_sample_updates
<1>3. /\ \A i \in SampleIndices("ccm", r) : i \in DOMAIN C /\ IsSample(i, r)
      /\ \A i \in DOMAIN C : IsSample(i, r) => i \in SampleIndices("ccm", r)
      /\ SampleIndices("ccm", r) = {} => Applied("ccm", r) = old
      /\ SampleIndices("ccm", r) # {} =>
           \E i \in SampleIndices("ccm", r) : /\ Applied("ccm", r) = C[i]
                                              /\ \A j \in SampleIndices("ccm", r) : j <= i
  BY <1>1, AppliedValue DEF IsSample
<1>4. /\ old # NoSample => old.sweep <= n
      /\ \A i \in DOMAIN C : IsSample(i, r) =>
           /\ C[i].sweep <= n
           /\ old # NoSample => old.sweep <= C[i].sweep
           /\ \A j \in DOMAIN C : IsSample(j, r) /\ i <= j => C[i].sweep <= C[j].sweep
  BY DEF SweepOrder
<1>5. /\ n \in Nat /\ history.missed[r] \in Nat
      /\ old # NoSample => old \in Sample
  BY SweepTyped
<1>6. \A x \in Sample : x.sweep \in Nat /\ x # NoSample
  <2>1. \A x \in Sample : x.sweep \in Nat
    BY DEF Sample
  <2>2. NoSample \notin Sample
    BY DEF Sample, NoSample
  <2>3. QED
    BY <2>1, <2>2
<1> HIDE DEF C, n, old, new
<1>7. CASE SampleIndices("ccm", r) = {}
  <2>1. new = old /\ ~\E i \in DOMAIN C : IsSample(i, r)
    BY <1>2, <1>3, <1>7
  <2>2. QED
    BY <1>4, <2>1 DEF Covered, C, n, old, new
<1>8. CASE SampleIndices("ccm", r) # {}
  <2>1. PICK i \in SampleIndices("ccm", r) : /\ new = C[i]
                                             /\ \A j \in SampleIndices("ccm", r) : j <= i
    BY <1>2, <1>3, <1>8
  <2>2. i \in DOMAIN C /\ IsSample(i, r) /\ new \in Sample
    BY <1>3, <2>1 DEF IsSample, C
  <2>3. new # NoSample /\ new.sweep \in Nat /\ new.sweep <= n
    BY <1>4, <1>6, <2>1, <2>2
  <2>4. ASSUME NEW e \in Nat, old # NoSample, old.sweep >= e PROVE new.sweep >= e
    BY <1>4, <1>5, <1>6, <2>1, <2>2, <2>3, <2>4
  <2>5. ASSUME NEW e \in Nat, NEW j \in DOMAIN C, IsSample(j, r), C[j].sweep >= e
        PROVE  new.sweep >= e
    <3>1. j <= i
      BY <1>3, <2>1, <2>5
    <3>2. C[j].sweep <= new.sweep /\ C[j] \in Sample
      BY <1>4, <2>1, <2>2, <2>5, <3>1 DEF IsSample, C
    <3>3. C[j].sweep \in Nat
      BY <1>6, <3>2
    <3>4. QED
      BY <2>3, <2>5, <3>2, <3>3
  <2>6. QED
    BY <2>3, <2>4, <2>5 DEF Covered, C, n, old, new
<1>9. QED
  BY <1>7, <1>8

\* Taking the samples keeps what is accounted for so, and the epoch the main loop
\* then works with covers the machine.
LEMMA AppliedKept ==
    ASSUME Typed, SweepInv, EpochCovers, apply_sample_updates
    PROVE  SweepInv' /\ EpochCovers'
<1>1. /\ chan'["ccm"] = <<>> /\ UNCHANGED <<df, history, stop>>
      /\ latest' = IF LastEpoch <= latest THEN latest ELSE LastEpoch
  BY DEF apply_sample_updates, dfVars, Owners, DfSamplers
<1>3. SweepOrder'
  <2>1. \A r \in Parts("ccm") : history.missed[r] <= df["ccm"].sweep
    BY DEF SweepInv, SweepOrder
  <2>2. \A r \in Parts("ccm") :
          states'["ccm"][r] # NoSample => states'["ccm"][r].sweep <= df["ccm"].sweep
    BY AppliedCovers DEF SweepInv
  <2>3. DOMAIN chan'["ccm"] = {}
    BY <1>1
  <2>4. QED
    BY <1>1, <2>1, <2>2, <2>3 DEF SweepOrder
<1>4. ASSUME NEW r \in Parts("ccm"), NEW e \in Nat, Covered(r, e)
      PROVE  \/ states'["ccm"][r] # NoSample /\ states'["ccm"][r].sweep >= e
             \/ history.missed[r] >= e
  BY <1>4, AppliedCovers DEF SweepInv
<1>5. EpochsCovered'
  BY <1>1 DEF EpochsCovered
<1>6. SweepCovered'
  <2>1. SUFFICES ASSUME ~stop, df["ccm"].pc \in Active, NEW k \in DOMAIN CcmDomains,
                        k < df["ccm"].at
                 PROVE  Covered(CcmDomains[k], df["ccm"].sweep)'
    BY <1>1 DEF SweepCovered
  <2>2. Covered(CcmDomains[k], df["ccm"].sweep)
    BY <2>1 DEF SweepInv, SweepCovered
  <2>3. CcmDomains[k] \in Parts("ccm") /\ df["ccm"].sweep \in Nat
    BY SweepTyped
  <2>4. QED
    BY <1>1, <1>4, <2>2, <2>3 DEF Covered
<1>7. EpochCovers'
  <2>1. SUFFICES ASSUME NEW r \in Parts("ccm"), ~stop, latest' # 0
                 PROVE  \/ states'["ccm"][r] # NoSample /\ states'["ccm"][r].sweep >= latest'
                        \/ history.missed[r] >= latest'
    BY <1>1 DEF EpochCovers
  <2>2. CASE latest' = latest
    <3>1. Covered(r, latest)
      BY <2>1, <2>2 DEF EpochCovers, Covered
    <3>2. latest \in Nat
      BY SweepTyped
    <3>3. QED
      BY <1>4, <2>2, <3>1, <3>2
  <2>3. CASE latest' # latest
    <3>1. latest' = LastEpoch /\ LastEpoch # latest
      BY <1>1, <2>3
    <3>2. PICK i \in DOMAIN chan["ccm"] : chan["ccm"][i] \in Epoch
                                           /\ LastEpoch = chan["ccm"][i].epoch
      BY <3>1, EpochValue
    <3>3. Covered(r, LastEpoch) /\ LastEpoch \in Nat
      BY <2>1, <3>2 DEF SweepInv, EpochsCovered, Epoch
    <3>4. QED
      BY <1>4, <3>1, <3>3
  <2>4. QED
    BY <2>2, <2>3
<1>8. QED
  BY <1>3, <1>5, <1>6, <1>7 DEF SweepInv

\* Every step keeps the account of the sweeps.
LEMMA SweepStep ==
    ASSUME Typed, Typed', SweepInv, EpochCovers, [Next]_vars
    PROVE  SweepInv' /\ EpochCovers'
<1>1. CASE ~apply_sample_updates /\ ~Abort
  <2>1. /\ UNCHANGED <<states, latest>> /\ (stop => stop')
        /\ Quiet \/ SendsSample \/ NotesMiss \/ Announces
    BY <1>1, SweepEffect
  <2>2. SweepOrder'
    BY <2>1, OrderKept DEF SweepInv
  <2>3. EpochsCovered' /\ SweepCovered'
    BY <2>1, SweepKept
  <2>4. EpochCovers'
    <3>1. SUFFICES ASSUME NEW r \in Parts("ccm"), ~stop, latest # 0
                   PROVE  \/ states["ccm"][r] # NoSample /\ states["ccm"][r].sweep >= latest
                          \/ history'.missed[r] >= latest
      BY <2>1 DEF EpochCovers
    <3>2. history.missed[r] <= history'.missed[r] /\ history'.missed[r] \in Nat
          /\ history.missed[r] \in Nat /\ latest \in Nat
      BY <2>1, MissedGrows, SweepTyped DEF SweepInv
    <3>3. QED
      BY <3>1, <3>2 DEF EpochCovers
  <2>5. QED
    BY <2>2, <2>3, <2>4 DEF SweepInv
<1>2. CASE Abort
  <2>1. "ccm" \in Owners /\ "ccm" \in DfSamplers
    BY DEF Owners, DfSamplers
  <2>2. /\ latest' = 0 /\ chan'["ccm"] = <<>> /\ df'["ccm"].sweep = 0 /\ df'["ccm"].pc = "gone"
        /\ \A r \in Parts("ccm") : states'["ccm"][r] = NoSample /\ history'.missed[r] = 0
    BY <1>2, <2>1 DEF Abort, NoHistory
  <2>3. SweepOrder'
    BY <2>2 DEF SweepOrder
  <2>4. EpochsCovered' /\ SweepCovered' /\ EpochCovers'
    BY <2>2 DEF EpochsCovered, SweepCovered, EpochCovers, Active
  <2>5. QED
    BY <2>3, <2>4 DEF SweepInv
<1>3. QED
  BY <1>1, <1>2, AppliedKept

-----------------------------------------------------------------------------
(* The theorems.                                                           *)

\* The start satisfies the inductive invariant.
LEMMA SamplerInit == Init => SamplerInv
<1> SUFFICES ASSUME Init PROVE SamplerInv
  OBVIOUS
<1>1. Typed
  BY TypedInit
<1>2. "ccm" \in Owners /\ "llc" \in Owners /\ "ccm" \in DfSamplers /\ "cs" \in DfSamplers
  BY DEF Owners, DfSamplers
<1>3. ~stop
  BY Zenon DEF Init
<1>4. None \notin DfSamplers
  BY DEF None, DfSamplers
<1>5. LockInv /\ CtlInv /\ L3Inv
  BY <1>4 DEF Init, LockInv, CtlInv, L3Inv, Holding
<1>6. JoinInv
  BY <1>3 DEF Init, JoinInv
<1>7. /\ history.cuts = 0 /\ faults = 0 /\ Reserve = 0 /\ Stopped = 0
      /\ \A s \in DfSamplers : Owed(s) = 0
  BY <1>3 DEF Init, NoHistory, Owed, Lost, Reserve, Stopped
<1>8. CutInv
  BY <1>2, <1>7 DEF CutInv
<1>9. FilterInv
  BY <1>2, PartsNumbered DEF Init, FilterInv, DefaultMetric, NoHistory
<1>10. /\ latest = 0 /\ chan["ccm"] = <<>> /\ df["ccm"].sweep = 0 /\ df["ccm"].pc = "start"
       /\ \A r \in Parts("ccm") : states["ccm"][r] = NoSample /\ history.missed[r] = 0
  BY <1>2 DEF Init, NoHistory
<1>11. SweepInv /\ EpochCovers
  BY <1>10 DEF SweepInv, SweepOrder, EpochsCovered, SweepCovered, EpochCovers, Active
<1>12. QED
  BY <1>1, <1>5, <1>6, <1>8, <1>9, <1>11 DEF SamplerInv

\* Every step keeps the inductive invariant.
LEMMA SamplerStep == SamplerInv /\ [Next]_vars => SamplerInv'
  BY TypedStep, LockStep, JoinStep, CountersStep, CutStep, FilterStep, SweepStep
     DEF SamplerInv

\* The inductive invariant holds throughout.
LEMMA SamplerInvariant == Spec => []SamplerInv
  BY SamplerInit, SamplerStep, PTL DEF Spec

\* Type correctness of the sampler threads, their lock and counters, and the
\* main loop's view of them.
THEOREM SamplerTypeCorrect == Spec => []TypeOK
<1>1. SamplerInv => TypeOK
  BY DEF SamplerInv, Typed
<1>2. QED
  BY <1>1, SamplerInvariant, PTL

\* Each failing MSR access spoils at most two windows of the other DF sampler,
\* one by each unlocked write of disable_counters, and the ends of the two
\* threads one altogether, however the writes interleave with the windows.
THEOREM CutsCorrect == Spec => []CutsBounded
<1>1. SamplerInv => CutsBounded
  <2> SUFFICES ASSUME SamplerInv PROVE CutsBounded
    OBVIOUS
  <2>1. history.cuts \in Nat /\ faults \in Nat
    BY DEF SamplerInv, Typed, TypeOK, DataTyped
  <2>2. /\ \A s \in DfSamplers : Owed(s) \in 0..2
        /\ Reserve \in 0..1 /\ Stopped \in 0..1
    BY DEF Owed, Reserve, Stopped
  <2>3. history.cuts <= 2 * faults + Stopped
    BY <2>1, <2>2 DEF SamplerInv, CutInv, DfSamplers
  <2>4. QED
    BY <2>3 DEF CutsBounded, Stopped
<1>2. QED
  BY <1>1, SamplerInvariant, PTL

\* When run returns, every sampler thread is gone, nobody holds DF_MSR_LOCK, and
\* a counter that is still programmed took at least two failing accesses.
THEOREM ReturnCorrect == Spec => []CleanReturn
<1>1. SamplerInv => CleanReturn
  <2> SUFFICES ASSUME SamplerInv, phase = "returned" PROVE CleanReturn
    BY DEF CleanReturn
  <2>1. (\A s \in DfSamplers : df[s].pc = "gone") /\ \A d \in LlcDomains : llc[d].pc = "gone"
    BY DEF SamplerInv, JoinInv, DfSamplers
  <2>2. lock \in DfSamplers \cup {None} /\ ctl \in [Registers -> DfSamplers \cup {None}]
    BY DEF SamplerInv, Typed, TypeOK
  <2>3. lock = None
    BY <2>1, <2>2 DEF SamplerInv, LockInv, Holding
  <2>4. \A r \in Registers : ctl[r] # None => faults >= 2
    BY <2>1, <2>2 DEF SamplerInv, CtlInv
  <2>5. \A d \in LlcDomains : l3[d] # "off" => faults >= 2
    BY <2>1 DEF SamplerInv, L3Inv
  <2>6. QED
    BY <2>1, <2>3, <2>4, <2>5 DEF CleanReturn, Gone
<1>2. QED
  BY <1>1, SamplerInvariant, PTL

\* The epoch the main loop works with covers every CCM domain that could be
\* measured in that sweep or later.
THEOREM EpochCorrect == Spec => []EpochCovers
<1>1. SamplerInv => EpochCovers
  BY DEF SamplerInv
<1>2. QED
  BY <1>1, SamplerInvariant, PTL

\* An L3 domain turns hot, or cool, only after the run of samples the filter's
\* parameters ask for.
THEOREM FlipsCorrect == Spec => FlipsPersist
<1>1. ASSUME SamplerInv, [Next]_vars
      PROVE  \A d \in LlcDomains :
                LET old == metrics.llc[d].state
                    new == metrics'.llc[d].state
                IN  \/ phase' = "aborted"
                    \/ /\ old = "cool" /\ new = "hot" => history'.hot[d] >= HotPersist
                       /\ old = "hot" /\ new = "cool" => history'.cool[d] >= CoolPersist
  BY <1>1, FilterStep DEF SamplerInv, FlipStep
<1>2. QED
  BY <1>1, SamplerInvariant, PTL DEF Spec, FlipsPersist
=============================================================================
