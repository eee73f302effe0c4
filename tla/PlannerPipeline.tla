--------------------------- MODULE PlannerPipeline ---------------------------
(***************************************************************************)
(* How placement plans are made and adopted: the CCM sampler announces its *)
(* sweeps, a pass of app::run turns what it learnt into a planner request, *)
(* the planner worker merges requests, computes a plan and sends it back,  *)
(* and a later pass adopts it.                                             *)
(*                                                                         *)
(* Three threads run beside each other: the sampler, the main loop and the *)
(* worker.  The request channel holds one request and try_send drops what  *)
(* finds it full; the sample and result channels are unbounded.  A plan is *)
(* abstracted to its epoch, its revision and how it was built; triggers    *)
(* other than SweepComplete are one kind, "delta".                         *)
(***************************************************************************)
EXTENDS Naturals, Sequences

CONSTANTS
    MaxSweepEpoch,  \* bound: sweeps in a behaviour
    MaxRequests     \* bound: requests in a behaviour

ASSUME BoundAssumption == MaxSweepEpoch \in Nat /\ MaxRequests \in Nat

Triggers == {"sweep", "delta"}

VARIABLES
    epoch,          \* the sampler's epoch
    sweeps,         \* df_rx: SweepComplete events not yet received
    passPc,         \* step of the pass
    latest_sweep,   \* latest_df_sweep_epoch
    swept,          \* sample_summary.latest_df_sweep_epoch is some epoch
    active_plan,    \* the plan in use
    requests,       \* the request channel
    job,            \* what the worker works on
    results,        \* the result channel
    sent,           \* requests made so far
    globals         \* history: the epochs of the global plans received

loopVars == <<passPc, latest_sweep, swept, active_plan, globals>>
pipelineVars == <<epoch, sweeps, loopVars, requests, job, results, sent>>

\* Revision 0 stands for no plan: revisions start at 1.
NoActivePlan == [epoch |-> 0, rev |-> 0, global |-> FALSE]
Plan == [epoch : Nat, rev : Nat, global : BOOLEAN]
Request == [epoch : Nat, base : Nat, triggers : SUBSET Triggers]
NoJob == [phase |-> "idle", epoch |-> 0, base |-> 0, triggers |-> {}]
Job == [phase : {"idle", "debounce", "compute"}, epoch : Nat, base : Nat,
        triggers : SUBSET Triggers]

PipelineInit ==
    /\ epoch = 0 /\ sweeps = <<>>
    /\ passPc = "samples" /\ latest_sweep = 0 /\ swept = FALSE /\ active_plan = NoActivePlan
    /\ globals = {}
    /\ requests = <<>> /\ job = NoJob /\ results = <<>>
    /\ sent = 0

-----------------------------------------------------------------------------
(* The CCM sampler.                                                        *)

SweepComplete ==
    /\ epoch < MaxSweepEpoch
    /\ epoch' = epoch + 1
    /\ sweeps' = Append(sweeps, epoch + 1)
    /\ UNCHANGED <<loopVars, requests, job, results, sent>>

-----------------------------------------------------------------------------
(* The main loop.                                                          *)

\* All events are received; the last epoch among them is the summary's.
apply_sample_updates ==
    /\ passPc = "samples"
    /\ passPc' = "install"
    /\ swept' = (sweeps # <<>>)
    /\ latest_sweep' = IF sweeps # <<>> /\ sweeps[Len(sweeps)] > latest_sweep
                       THEN sweeps[Len(sweeps)] ELSE latest_sweep
    /\ sweeps' = <<>>
    /\ UNCHANGED <<epoch, active_plan, requests, job, results, sent, globals>>

\* Every result is received and the last one stays.
Install(from, to) ==
    /\ passPc = from
    /\ passPc' = to
    /\ active_plan' = IF results = <<>> THEN active_plan ELSE results[Len(results)]
    /\ globals' = globals \cup
         {results[i].epoch : i \in {k \in 1..Len(results) : results[k].global}}
    /\ results' = <<>>
    /\ UNCHANGED <<epoch, sweeps, latest_sweep, swept, requests, job, sent>>

InstallEarly == Install("install", "request")
InstallLate  == Install("adopt", "samples")

\* The channel of bounded(1) has room.
Channel == requests = <<>>

build_planner_input(triggers) ==
    [epoch |-> latest_sweep, base |-> active_plan.rev, triggers |-> triggers]

\* The pass has triggers, and a request is sent or dropped.
SendRequest ==
    /\ passPc = "request" /\ latest_sweep > 0 /\ sent < MaxRequests
    /\ \E triggers \in {s \in SUBSET Triggers : s # {} /\ ("sweep" \in s <=> swept)} :
         requests' = IF Channel THEN Append(requests, build_planner_input(triggers))
                     ELSE requests
    /\ sent' = sent + 1
    /\ passPc' = "adopt"
    /\ UNCHANGED <<epoch, sweeps, latest_sweep, swept, active_plan, job, results, globals>>

\* The pass has no trigger, or no sweep has completed yet.
NoRequest ==
    /\ passPc = "request" /\ (~swept \/ latest_sweep = 0 \/ sent = MaxRequests)
    /\ passPc' = "adopt"
    /\ UNCHANGED <<epoch, sweeps, latest_sweep, swept, active_plan, requests, job, results, sent,
                   globals>>

-----------------------------------------------------------------------------
(* The planner worker.                                                     *)

\* Mutant: the triggers of the later request replace those of the earlier.
Merge_last(j, r) == [j EXCEPT !.epoch = r.epoch, !.base = r.base, !.triggers = r.triggers]

\* The later snapshot replaces the earlier, the triggers accumulate.
Merge(j, r) ==
    [j EXCEPT !.epoch = r.epoch, !.base = r.base, !.triggers = @ \cup r.triggers]

\* A request is taken, as the first one or within the debounce window.
TakeRequest ==
    /\ job.phase \in {"idle", "debounce"} /\ requests # <<>>
    /\ job' = [Merge(job, Head(requests)) EXCEPT !.phase = "debounce"]
    /\ requests' = Tail(requests)
    /\ UNCHANGED <<epoch, sweeps, loopVars, results, sent>>

DebounceEnds ==
    /\ job.phase = "debounce"
    /\ job' = [job EXCEPT !.phase = "compute"]
    /\ UNCHANGED <<epoch, sweeps, loopVars, requests, results, sent>>

\* Must the plan be built globally?
resolve_plan_mode(j) == j.base = 0 \/ "sweep" \in j.triggers

\* Mutant: a global plan starts the revisions anew.
compute_plan_restarts(j, global) ==
    [epoch |-> j.epoch, rev |-> IF global THEN 1 ELSE j.base + 1, global |-> global]

compute_plan(j, global) == [epoch |-> j.epoch, rev |-> j.base + 1, global |-> global]

\* An incremental plan that touches too much is rebuilt globally.
ComputePlan ==
    /\ job.phase = "compute"
    /\ \E global \in BOOLEAN :
         /\ resolve_plan_mode(job) => global
         /\ results' = Append(results, compute_plan(job, global))
    /\ job' = NoJob
    /\ UNCHANGED <<epoch, sweeps, loopVars, requests, sent>>

-----------------------------------------------------------------------------
MainStep == apply_sample_updates \/ InstallEarly \/ SendRequest \/ NoRequest \/ InstallLate
WorkerStep == TakeRequest \/ DebounceEnds \/ ComputePlan

PipelineNext == SweepComplete \/ MainStep \/ WorkerStep

PipelineSpec == PipelineInit /\ [][PipelineNext]_pipelineVars

\* Both threads keep running; the debounce window ends by the clock.
PipelineFairSpec ==
    /\ PipelineSpec
    /\ WF_pipelineVars(MainStep) /\ WF_pipelineVars(TakeRequest)
    /\ WF_pipelineVars(DebounceEnds) /\ WF_pipelineVars(ComputePlan)

-----------------------------------------------------------------------------
(* Properties.                                                             *)

\* Type invariant of the pipeline.
PipelineTypeOK ==
    /\ epoch \in Nat /\ sweeps \in Seq(Nat)
    /\ passPc \in {"samples", "install", "request", "adopt"}
    /\ latest_sweep \in Nat /\ swept \in BOOLEAN /\ active_plan \in Plan
    /\ requests \in Seq(Request) /\ Len(requests) <= 1
    /\ job \in Job /\ results \in Seq(Plan)
    /\ sent \in Nat /\ globals \in SUBSET Nat

\* The plan the passes use never goes back to an earlier sweep, an earlier
\* revision, or to none, and no receiving of results skips a revision, although
\* requests carry the epoch and the revision of the moment they were built, are
\* merged, dropped and answered much later.
PlanForward ==
    [][active_plan' # active_plan =>
         /\ active_plan'.epoch \in active_plan.epoch..latest_sweep /\ active_plan'.epoch > 0
         /\ active_plan'.rev \in active_plan.rev..(active_plan.rev + 1)
         /\ active_plan'.rev > 0]_pipelineVars

\* The result channel is unbounded and needs no bound: the one-slot request channel
\* and the draining of every pass keep at most three plans on their way.
Backlog ==
    Len(requests) + Len(results) + (IF job = NoJob THEN 0 ELSE 1) <= 3

\* A SweepComplete trigger the channel has accepted is not lost: a global plan of
\* that sweep or a later one is adopted.
SweepServed ==
    \A e \in 1..MaxSweepEpoch :
        (\E i \in 1..Len(requests) : requests[i].epoch = e /\ "sweep" \in requests[i].triggers)
            ~> \E g \in globals : g >= e
=============================================================================
