--------------------------- MODULE Orchestration ---------------------------
(***************************************************************************)
(* The Airflow DAG of dags/nasa_eo_batch_vertical_slice.py and the run     *)
(* manifest of orchestration/runtime.py, for one logical run: the DAG runs *)
(* of one logical date, parameters and revision share one manifest file.   *)
(*                                                                         *)
(* A stage attempt reads the whole manifest, runs a command for minutes or *)
(* hours, and then writes the whole manifest back from what it had read.   *)
(* The scheduler starts attempts, hears of their results, and may lose one:*)
(* because the process died, or although it lives on.                      *)
(***************************************************************************)
EXTENDS Naturals, FiniteSets

CONSTANTS
  N,          \* number of processing stages, run in the order 1..N
  Retries,    \* Retries[s]: the retries of the DAG task of stage s
  Workers,    \* worker processes that can hold a stage attempt
  Checksums,  \* output checksums a stage command can produce
  Root,       \* the upstream checksum of the first stage, "ROOT" in the code
  Revisions,  \* pipeline revisions that can be deployed
  MaxRuns,    \* bound: DAG runs triggered for the logical run
  MaxFaults   \* bound: failures, crashes, timeouts and losses

Stages == 1..N

ASSUME OrchestrationAssumption ==
  /\ N \in Nat \ {0}
  /\ Retries \in [Stages -> Nat]
  /\ Root \notin Checksums
  /\ Checksums # {}
  /\ MaxRuns \in Nat
  /\ MaxFaults \in Nat

VARIABLES
  manifest,  \* the manifest file
  revision,  \* the revision the DAG is deployed with
  dag,       \* the current DAG run
  work,      \* work[w]: the stage attempt worker w executes
  runs,      \* DAG runs triggered so far
  faults,    \* faults that have happened so far
  overlap    \* history: the scheduler gave up an attempt that was still alive

vars == <<manifest, revision, dag, work, runs, faults, overlap>>

Upstreams == Checksums \union {Root}

\* out is the output checksum of a success; a failed attempt records none.
Receipt == [status : {"SUCCEEDED", "FAILED"}, attempt : Nat \ {0},
            up : Upstreams, out : Upstreams]
NoReceipt == [status |-> "ABSENT", attempt |-> 0, up |-> Root, out |-> Root]

Manifest == [status : {"ABSENT", "RUNNING", "FAILED", "SUCCEEDED"},
             revision : Revisions,
             stages : [Stages -> Receipt \union {NoReceipt}]]

\* at: the task the DAG run is at, initialize_run (0), a stage or
\* finalize_run (N+1); tries: failed tries of that task; up: the checksum the
\* previous task returned through XCom.
DagRun == [state : {"none", "running", "success", "failed"}, at : 0..(N + 1),
           tries : Nat, up : Upstreams]

\* heard: the scheduler still listens to this attempt.
Attempt == [phase : {"idle", "command", "report"}, stage : Stages, heard : BOOLEAN,
            read : Manifest, up : Upstreams, out : Upstreams]

Init ==
  /\ revision \in Revisions
  /\ manifest = [status |-> "ABSENT", revision |-> revision,
                 stages |-> [s \in Stages |-> NoReceipt]]
  /\ dag = [state |-> "none", at |-> 0, tries |-> 0, up |-> Root]
  /\ work = [w \in Workers |-> [phase |-> "idle", stage |-> 1, heard |-> FALSE,
                                read |-> manifest, up |-> Root, out |-> Root]]
  /\ runs = 0
  /\ faults = 0
  /\ overlap = FALSE

-----------------------------------------------------------------------------
Running(t)  == dag.state = "running" /\ dag.at = t
Heard(w)    == work[w].phase # "idle" /\ work[w].heard
Waiting     == \E w \in Workers : Heard(w)
Done(s)     == manifest.stages[s].status = "SUCCEEDED"
Completed   == manifest.status = "SUCCEEDED"

Fault == faults < MaxFaults /\ faults' = faults + 1

\* What the scheduler does with the result of the task the run is at.
TaskSucceeded(up) == dag' = [dag EXCEPT !.at = @ + 1, !.tries = 0, !.up = up]

RunFailed == dag' = [dag EXCEPT !.state = "failed"]

\* Mutant: the retries of a task are not counted.
TaskFailedUncounted ==
  IF dag.at \in Stages THEN dag' = dag ELSE RunFailed

TaskFailed ==
  IF dag.at \in Stages /\ dag.tries < Retries[dag.at]
    THEN dag' = [dag EXCEPT !.tries = @ + 1] ELSE RunFailed

Forget(w) == work' = [work EXCEPT ![w].phase = "idle", ![w].heard = FALSE]

-----------------------------------------------------------------------------
\* The environment: operators trigger, deployments change the revision.

\* max_active_runs=1: a DAG run starts when no other is running.
Trigger ==
  /\ dag.state # "running"
  /\ runs < MaxRuns
  /\ runs' = runs + 1
  /\ dag' = [state |-> "running", at |-> 0, tries |-> 0, up |-> Root]
  /\ UNCHANGED <<manifest, revision, work, faults, overlap>>

Deploy(r) ==
  /\ r # revision
  /\ Fault
  /\ revision' = r
  /\ UNCHANGED <<manifest, dag, work, runs, overlap>>

-----------------------------------------------------------------------------
\* initialize_run: a new manifest, or the existing one when its identity,
\* revision included, is the same.
InitializeNew ==
  /\ Running(0)
  /\ manifest.status = "ABSENT"
  /\ manifest' = [status |-> "RUNNING", revision |-> revision,
                  stages |-> [s \in Stages |-> NoReceipt]]
  /\ TaskSucceeded(Root)
  /\ UNCHANGED <<revision, work, runs, faults, overlap>>

\* Mutant: every DAG run starts from a fresh manifest status.
InitializeAgainReset ==
  /\ Running(0)
  /\ manifest.status # "ABSENT"
  /\ manifest.revision = revision
  /\ manifest' = [manifest EXCEPT !.status = "RUNNING"]
  /\ TaskSucceeded(Root)
  /\ UNCHANGED <<revision, work, runs, faults, overlap>>

\* The run identifiers it appends say nothing about stages; the status stays.
InitializeAgain ==
  /\ Running(0)
  /\ manifest.status # "ABSENT"
  /\ manifest.revision = revision
  /\ TaskSucceeded(Root)
  /\ UNCHANGED <<manifest, revision, work, runs, faults, overlap>>

InitializeConflict ==
  /\ Running(0)
  /\ manifest.status # "ABSENT"
  /\ manifest.revision # revision
  /\ RunFailed
  /\ UNCHANGED <<manifest, revision, work, runs, faults, overlap>>

-----------------------------------------------------------------------------
\* execute_stage, up to the command: the manifest read decides.
Dispatch(s) == Running(s) /\ ~ Waiting

PriorDone(s) == s > 1 => Done(s - 1)

\* StageFailure, and nothing is recorded.
RefuseUpstream(s) ==
  /\ Dispatch(s)
  /\ ~ PriorDone(s)
  /\ TaskFailed
  /\ UNCHANGED <<manifest, revision, work, runs, faults, overlap>>

\* Mutant: a reused stage hands on what it was handed.
ReuseUpstream(s) ==
  /\ Dispatch(s)
  /\ PriorDone(s)
  /\ Done(s)
  /\ manifest.stages[s].up = dag.up
  /\ TaskSucceeded(dag.up)
  /\ UNCHANGED <<manifest, revision, work, runs, faults, overlap>>

Reuse(s) ==
  /\ Dispatch(s)
  /\ PriorDone(s)
  /\ Done(s)
  /\ manifest.stages[s].up = dag.up
  /\ TaskSucceeded(manifest.stages[s].out)
  /\ UNCHANGED <<manifest, revision, work, runs, faults, overlap>>

RefuseConflict(s) ==
  /\ Dispatch(s)
  /\ PriorDone(s)
  /\ Done(s)
  /\ manifest.stages[s].up # dag.up
  /\ TaskFailed
  /\ UNCHANGED <<manifest, revision, work, runs, faults, overlap>>

\* The attempt keeps the manifest it read until its command ends.
Attempted(w, s) ==
  work' = [work EXCEPT ![w] = [phase |-> "command", stage |-> s, heard |-> TRUE,
                               read |-> manifest, up |-> dag.up, out |-> Root]]

\* Mutant: the upstream receipt is not looked at.
BeginUnordered(w, s) ==
  /\ Dispatch(s)
  /\ ~ Done(s)
  /\ work[w].phase = "idle"
  /\ Attempted(w, s)
  /\ UNCHANGED <<manifest, revision, dag, runs, faults, overlap>>

\* Mutant: a successful receipt is not reused.
BeginAlways(w, s) ==
  /\ Dispatch(s)
  /\ PriorDone(s)
  /\ work[w].phase = "idle"
  /\ Attempted(w, s)
  /\ UNCHANGED <<manifest, revision, dag, runs, faults, overlap>>

Begin(w, s) ==
  /\ Dispatch(s)
  /\ PriorDone(s)
  /\ ~ Done(s)
  /\ work[w].phase = "idle"
  /\ Attempted(w, s)
  /\ UNCHANGED <<manifest, revision, dag, runs, faults, overlap>>

-----------------------------------------------------------------------------
\* execute_stage, after the command: the whole manifest is written back.
WriteBack(w, status, receipt) ==
  manifest' = [work[w].read EXCEPT !.status = status, !.stages[work[w].stage] = receipt]

\* Mutant: the attempt number is the one of the recorded attempt.
ReceiptOfUncounted(w, status, out) ==
  [status |-> status, attempt |-> work[w].read.stages[work[w].stage].attempt,
   up |-> work[w].up, out |-> out]

\* The attempt number counts the recorded attempts of the stage, plus this one.
ReceiptOf(w, status, out) ==
  [status |-> status, attempt |-> work[w].read.stages[work[w].stage].attempt + 1,
   up |-> work[w].up, out |-> out]

CommandSucceeds(w) ==
  /\ work[w].phase = "command"
  /\ \E out \in Checksums :
       /\ WriteBack(w, "RUNNING", ReceiptOf(w, "SUCCEEDED", out))
       /\ work' = [work EXCEPT ![w].phase = "report", ![w].out = out]
  /\ UNCHANGED <<revision, dag, runs, faults, overlap>>

\* A failing command is recorded, and StageFailure ends the attempt.
CommandFails(w) ==
  /\ work[w].phase = "command"
  /\ Fault
  /\ WriteBack(w, "FAILED", ReceiptOf(w, "FAILED", Root))
  /\ Forget(w)
  /\ IF Heard(w) THEN TaskFailed ELSE UNCHANGED dag
  /\ UNCHANGED <<revision, runs, overlap>>

\* The attempt returns its receipt; nobody hears one that was given up.
Report(w) ==
  /\ work[w].phase = "report"
  /\ Forget(w)
  /\ IF Heard(w) THEN TaskSucceeded(work[w].out) ELSE UNCHANGED dag
  /\ UNCHANGED <<manifest, revision, runs, faults, overlap>>

-----------------------------------------------------------------------------
\* finalize_run.
\* Mutant: the verification receipt the task was handed is enough.
FinalizeOnReceipt ==
  /\ Running(N + 1)
  /\ manifest' = [manifest EXCEPT !.status = "SUCCEEDED"]
  /\ dag' = [dag EXCEPT !.state = "success"]
  /\ UNCHANGED <<revision, work, runs, faults, overlap>>

Finalize ==
  /\ Running(N + 1)
  /\ \A s \in Stages : Done(s)
  /\ manifest' = [manifest EXCEPT !.status = "SUCCEEDED"]
  /\ dag' = [dag EXCEPT !.state = "success"]
  /\ UNCHANGED <<revision, work, runs, faults, overlap>>

FinalizeRefused ==
  /\ Running(N + 1)
  /\ \E s \in Stages : ~ Done(s)
  /\ RunFailed
  /\ UNCHANGED <<manifest, revision, work, runs, faults, overlap>>

-----------------------------------------------------------------------------
\* Faults of the environment.

\* The attempt dies with its worker, or execution_timeout ends it: neither
\* passes through "except Exception", so nothing is recorded.
Crash(w) ==
  /\ work[w].phase # "idle"
  /\ Fault
  /\ Forget(w)
  /\ IF Heard(w) THEN TaskFailed ELSE UNCHANGED dag
  /\ UNCHANGED <<manifest, revision, runs, overlap>>

\* Missed heartbeats: the scheduler gives up an attempt that still runs.
GiveUp(w) ==
  /\ Heard(w)
  /\ Fault
  /\ work' = [work EXCEPT ![w].heard = FALSE]
  /\ overlap' = TRUE
  /\ TaskFailed
  /\ UNCHANGED <<manifest, revision, runs>>

\* initialize_run and finalize_run have no retries.
ControlTaskFails ==
  /\ Running(0) \/ Running(N + 1)
  /\ Fault
  /\ RunFailed
  /\ UNCHANGED <<manifest, revision, work, runs, overlap>>

\* dagrun_timeout: the run fails and its attempt is terminated.
DagRunTimeout ==
  /\ dag.state = "running"
  /\ Fault
  /\ RunFailed
  /\ work' = [w \in Workers |->
                IF Heard(w) THEN [work[w] EXCEPT !.phase = "idle", !.heard = FALSE]
                            ELSE work[w]]
  /\ UNCHANGED <<manifest, revision, runs, overlap>>

-----------------------------------------------------------------------------
Initialize == InitializeNew \/ InitializeAgain \/ InitializeConflict

Execute(s) ==
  \/ RefuseUpstream(s) \/ Reuse(s) \/ RefuseConflict(s)
  \/ \E w \in Workers : Begin(w, s)

Work(w) == CommandSucceeds(w) \/ Report(w)

Environment ==
  \/ \E r \in Revisions : Deploy(r)
  \/ \E w \in Workers : CommandFails(w) \/ Crash(w) \/ GiveUp(w)
  \/ ControlTaskFails
  \/ DagRunTimeout

Next ==
  \/ Trigger
  \/ Initialize
  \/ \E s \in Stages : Execute(s)
  \/ \E w \in Workers : Work(w)
  \/ Finalize \/ FinalizeRefused
  \/ Environment

Spec == Init /\ [][Next]_vars

\* The scheduler dispatches the task the run is at, commands end, attempts
\* report, and operators trigger another run while none has succeeded.
Progress ==
  /\ WF_vars(Initialize)
  /\ \A s \in Stages : WF_vars(Execute(s))
  /\ \A w \in Workers : WF_vars(Work(w) \/ CommandFails(w) \/ Crash(w))
  /\ WF_vars(Finalize \/ FinalizeRefused)
  /\ WF_vars(Trigger)

FairSpec == Spec /\ Progress

-----------------------------------------------------------------------------
(* Properties.                                                             *)

\* Every variable has the shape the code gives it.
TypeOK ==
  /\ manifest \in Manifest
  /\ revision \in Revisions
  /\ dag \in DagRun
  /\ work \in [Workers -> Attempt]
  /\ runs \in 0..MaxRuns
  /\ faults \in 0..MaxFaults
  /\ overlap \in BOOLEAN

\* The successful stages of a manifest come before the others. Each attempt
\* judges its upstream from the copy it writes back hours later, and this is why
\* that is safe even when attempts overlap and overwrite each other: no manifest
\* ever shows a stage that ran on an upstream which is not there.
DonePrefix(m) ==
  \A s \in Stages : m.stages[s].status = "SUCCEEDED" =>
    \A t \in 1..s : m.stages[t].status = "SUCCEEDED"

NoHoles == DonePrefix(manifest)

\* A manifest that reports success holds a successful receipt of every stage,
\* whatever an attempt that was given up writes over it afterwards.
CompleteWhenSucceeded == Completed => \A s \in Stages : Done(s)

\* While no attempt is executed behind the scheduler's back, every successful
\* receipt names the checksum of the receipt before it as its upstream. The code
\* compares it with what XCom says, never with the manifest.
ReceiptChain ==
  ~ overlap =>
    \A s \in Stages : Done(s) =>
      manifest.stages[s].up = IF s = 1 THEN Root ELSE manifest.stages[s - 1].out

\* While no attempt is executed behind the scheduler's back, a DAG run ends in
\* success only with a finished manifest, and a finished manifest is not worked
\* on again: a rerun reuses every receipt.
FinishedIsQuiet ==
  ~ overlap =>
    /\ dag.state = "success" => Completed
    /\ Completed => \A w \in Workers : work[w].phase = "idle"

\* A successful receipt is final: no later attempt, retry or rerun replaces it,
\* and the logical run keeps its outcome ...
KeepsSuccess ==
  /\ Completed => Completed'
  /\ \A s \in Stages : Done(s) => manifest'.stages[s] = manifest.stages[s]

\* ... while no attempt is executed behind the scheduler's back.
SuccessIsReused == [][~ overlap => KeepsSuccess]_vars

\* The decision record of the DAG promises it without that condition.
ReceiptsAreReused == [][KeepsSuccess]_vars

\* A DAG run comes to an end although attempts are lost and stages are retried.
RunEnds == [](dag.state = "running" => <>(dag.state # "running"))

\* Reruns are safe: with more reruns than faults the logical run succeeds and
\* stays so, unless the pipeline revision moved away from the manifest's or an
\* attempt was executed behind the scheduler's back.
RerunsSucceed ==
  \/ <>(overlap \/ revision # manifest.revision)
  \/ <>[]Completed
=============================================================================
