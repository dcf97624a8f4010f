------------------------ MODULE OrchestrationProofs ------------------------
(***************************************************************************)
(* Theorems about Orchestration, for every number of stages, retries,      *)
(* workers, checksums, revisions and faults.                               *)
(***************************************************************************)
EXTENDS Orchestration, TLAPS

-----------------------------------------------------------------------------
\* The scheduler listens to one attempt, of the stage the DAG run is at.
Listening ==
  \A w \in Workers : Heard(w) =>
    /\ Running(work[w].stage)
    /\ \A v \in Workers : Heard(v) => v = w

Typed == TypeOK /\ Listening

\* An attempt writes back a manifest.
LEMMA WriteBackIsManifest ==
  ASSUME TypeOK, NEW w \in Workers, NEW status \in {"RUNNING", "FAILED"},
         NEW receipt \in Receipt, WriteBack(w, status, receipt)
  PROVE  manifest' \in Manifest
  BY DEF TypeOK, WriteBack, Manifest, Attempt

\* The receipt of an attempt, and what is stored of a stage, is a receipt.
LEMMA ReceiptTypes ==
  ASSUME TypeOK, NEW w \in Workers, NEW s \in Stages
  PROVE  /\ \A status \in {"SUCCEEDED", "FAILED"}, out \in Upstreams :
              ReceiptOf(w, status, out) \in Receipt
         /\ manifest.stages[s].out \in Upstreams
         /\ manifest.stages[s].up \in Upstreams
  <1>1. work[w].read.stages[work[w].stage] \in Receipt \union {NoReceipt}
    BY DEF TypeOK, Attempt, Manifest
  <1>2. work[w].read.stages[work[w].stage].attempt + 1 \in Nat \ {0}
    BY <1>1 DEF Receipt, NoReceipt
  <1>3. work[w].up \in Upstreams
    BY DEF TypeOK, Attempt
  <1>4. manifest.stages[s] \in Receipt \union {NoReceipt}
    BY DEF TypeOK, Manifest
  <1>5. QED
    BY <1>2, <1>3, <1>4 DEF ReceiptOf, Receipt, NoReceipt, Upstreams

\* What the scheduler makes of a result is a DAG run.
LEMMA DagTransitions ==
  ASSUME dag \in DagRun
  PROVE  /\ \A up \in Upstreams :
              TaskSucceeded(up) /\ dag.at \in 0..N => dag' \in DagRun
         /\ RunFailed => dag' \in DagRun /\ dag'.state = "failed"
         /\ TaskFailed => dag' \in DagRun
  <1>1. RunFailed => dag' \in DagRun /\ dag'.state = "failed"
    BY DEF DagRun, RunFailed
  <1>2. ASSUME NEW up \in Upstreams, TaskSucceeded(up), dag.at \in 0..N
        PROVE  dag' \in DagRun
    <2>1. dag.at + 1 \in 0..(N + 1)
      BY <1>2, OrchestrationAssumption
    <2>2. QED
      BY <1>2, <2>1 DEF DagRun, TaskSucceeded
  <1>3. dag' = [dag EXCEPT !.tries = @ + 1] => dag' \in DagRun
    BY DEF DagRun
  <1>4. QED
    BY <1>1, <1>2, <1>3 DEF TaskFailed

\* The scheduler listens to nobody unless the DAG run is at a stage.
LEMMA NobodyHeard ==
  ASSUME Typed, \A s \in Stages : ~ Running(s)
  PROVE  ~ Waiting
  BY DEF Typed, TypeOK, Listening, Waiting, Attempt

\* The control tasks are at no stage.
LEMMA ControlTasks ==
  ASSUME Running(0) \/ Running(N + 1)
  PROVE  /\ \A s \in Stages : ~ Running(s)
         /\ Running(0) => dag.at \in 0..N
  BY OrchestrationAssumption DEF Running, Stages

\* Type correctness of the manifest, the DAG run and the attempts, and the
\* scheduler follows a single attempt (runtime.py:105-298).
THEOREM Typing == Spec => []Typed
<1>1. Init => Typed
  <2> SUFFICES ASSUME Init PROVE Typed
    OBVIOUS
  <2>1. manifest \in Manifest
    BY DEF Init, Manifest
  <2>2. dag \in DagRun /\ runs \in 0..MaxRuns /\ faults \in 0..MaxFaults
    BY OrchestrationAssumption DEF Init, DagRun, Upstreams
  <2>3. work \in [Workers -> Attempt]
    BY <2>1, OrchestrationAssumption DEF Init, Attempt, Stages, Upstreams
  <2>4. QED
    BY <2>1, <2>2, <2>3 DEF Init, Typed, TypeOK, Listening, Heard
<1>2. Typed /\ [Next]_vars => Typed'
  <2> SUFFICES ASSUME Typed, [Next]_vars PROVE Typed'
    OBVIOUS
  <2>a. TypeOK /\ Listening
    BY DEF Typed
  <2>b. Root \in Upstreams /\ dag \in DagRun
    BY <2>a DEF TypeOK, Upstreams
  <2>c. Fault => faults' \in 0..MaxFaults
    BY <2>a, OrchestrationAssumption DEF Fault, TypeOK
  <2>1. ASSUME Trigger PROVE Typed'
    <3>1. dag' \in DagRun
      BY <2>1, <2>b, OrchestrationAssumption DEF Trigger, DagRun
    <3>2. ~ Waiting
      BY <2>1, NobodyHeard DEF Trigger, Running
    <3>3. runs' \in 0..MaxRuns
      BY <2>1, <2>a, OrchestrationAssumption DEF Trigger, TypeOK
    <3>4. QED
      BY <3>1, <3>2, <3>3, <2>a, <2>1 DEF Typed, TypeOK, Listening, Heard, Waiting, Trigger
  <2>2. ASSUME NEW r \in Revisions, Deploy(r) PROVE Typed'
    <3>1. faults' \in 0..MaxFaults
      BY <2>2, <2>c DEF Deploy
    <3>2. QED
      BY <3>1, <2>a, <2>2 DEF Typed, TypeOK, Listening, Heard, Waiting, Deploy, Running
  <2>3. ASSUME InitializeNew PROVE Typed'
    <3>1. manifest' \in Manifest
      BY <2>3, <2>a DEF InitializeNew, Manifest, TypeOK
    <3>2. dag' \in DagRun
      BY <2>3, <2>b, DagTransitions, ControlTasks DEF InitializeNew
    <3>3. ~ Waiting
      BY <2>3, NobodyHeard, ControlTasks DEF InitializeNew
    <3>4. QED
      BY <3>1, <3>2, <3>3, <2>a, <2>3
         DEF Typed, TypeOK, Listening, Heard, Waiting, InitializeNew
  <2>4. ASSUME InitializeAgain PROVE Typed'
    <3>1. dag' \in DagRun
      BY <2>4, <2>b, DagTransitions, ControlTasks DEF InitializeAgain
    <3>2. ~ Waiting
      BY <2>4, NobodyHeard, ControlTasks DEF InitializeAgain
    <3>3. QED
      BY <3>1, <3>2, <2>a, <2>4
         DEF Typed, TypeOK, Listening, Heard, Waiting, InitializeAgain
  <2>5. ASSUME InitializeConflict PROVE Typed'
    <3>1. dag' \in DagRun
      BY <2>5, <2>b, DagTransitions, ControlTasks DEF InitializeConflict
    <3>2. ~ Waiting
      BY <2>5, NobodyHeard, ControlTasks DEF InitializeConflict
    <3>3. QED
      BY <3>1, <3>2, <2>a, <2>5
         DEF Typed, TypeOK, Listening, Heard, Waiting, InitializeConflict
  <2>6. ASSUME NEW s \in Stages, RefuseUpstream(s) PROVE Typed'
    <3>1. dag' \in DagRun
      BY <2>6, <2>b, DagTransitions DEF RefuseUpstream
    <3>2. QED
      BY <3>1, <2>a, <2>6
         DEF Typed, TypeOK, Listening, Heard, Waiting, RefuseUpstream, Dispatch
  <2>7. ASSUME NEW s \in Stages, Reuse(s) PROVE Typed'
    <3>1. dag.at \in 0..N
      BY <2>7 DEF Reuse, Dispatch, Running, Stages
    <3>2. dag' \in DagRun
      BY <3>1, <2>7, <2>a, <2>b, DagTransitions, ReceiptTypes
         DEF Reuse, TypeOK, Manifest, Receipt, NoReceipt, Upstreams
    <3>3. QED
      BY <3>1, <3>2, <2>a, <2>7
         DEF Typed, TypeOK, Listening, Heard, Waiting, Reuse, Dispatch
  <2>8. ASSUME NEW s \in Stages, RefuseConflict(s) PROVE Typed'
    <3>1. dag' \in DagRun
      BY <2>8, <2>b, DagTransitions DEF RefuseConflict
    <3>2. QED
      BY <3>1, <2>a, <2>8
         DEF Typed, TypeOK, Listening, Heard, Waiting, RefuseConflict, Dispatch
  <2>9. ASSUME NEW w \in Workers, NEW s \in Stages, Begin(w, s) PROVE Typed'
    <3>1. work' \in [Workers -> Attempt]
      BY <2>9, <2>a, <2>b DEF Begin, Attempted, Attempt, DagRun, TypeOK
    <3>2. QED
      BY <3>1, <2>a, <2>9
         DEF Typed, TypeOK, Listening, Heard, Waiting, Begin, Attempted, Dispatch, Running
  <2>10. ASSUME NEW w \in Workers, CommandSucceeds(w) PROVE Typed'
    <3>1. PICK out \in Checksums :
            /\ WriteBack(w, "RUNNING", ReceiptOf(w, "SUCCEEDED", out))
            /\ work' = [work EXCEPT ![w].phase = "report", ![w].out = out]
      BY <2>10 DEF CommandSucceeds
    <3>2. ReceiptOf(w, "SUCCEEDED", out) \in Receipt
      BY <2>a, ReceiptTypes, OrchestrationAssumption DEF Upstreams, Stages
    <3>3. manifest' \in Manifest
      BY <2>a, <3>1, <3>2, WriteBackIsManifest
    <3>4. work' \in [Workers -> Attempt]
      BY <2>a, <3>1 DEF TypeOK, Attempt, Upstreams
    <3>5. \A v \in Workers : Heard(v)' => Heard(v) /\ work'[v].stage = work[v].stage
      BY <2>a, <3>1, <2>10 DEF CommandSucceeds, TypeOK, Heard, Attempt
    <3>6. QED
      BY <3>3, <3>4, <3>5, <2>a, <2>10
         DEF CommandSucceeds, Typed, TypeOK, Listening, Running
  <2>11. ASSUME NEW w \in Workers, Report(w) PROVE Typed'
    <3>1. work' \in [Workers -> Attempt]
      BY <2>11, <2>a DEF Report, Forget, TypeOK, Attempt
    <3>2. dag' \in DagRun
      <4>1. CASE Heard(w)
        <5>1. dag.at \in 0..N
          BY <4>1, <2>a DEF Listening, TypeOK, Attempt, Running, Stages
        <5>2. work[w].out \in Upstreams
          BY <2>a DEF TypeOK, Attempt
        <5>3. QED
          BY <4>1, <5>1, <5>2, <2>b, <2>11, DagTransitions DEF Report
      <4>2. CASE ~ Heard(w)
        BY <4>2, <2>b, <2>11 DEF Report
      <4>3. QED
        BY <4>1, <4>2
    <3>3. \A v \in Workers : Heard(v)' => v # w /\ Heard(v) /\ work'[v] = work[v]
      BY <2>a, <2>11 DEF Report, Forget, TypeOK, Heard, Attempt
    <3>4. Listening'
      BY <3>3, <2>a, <2>11 DEF Report, Listening, Running
    <3>5. QED
      BY <3>1, <3>2, <3>4, <2>a, <2>11 DEF Report, Typed, TypeOK
  <2>12. ASSUME Finalize PROVE Typed'
    <3>1. manifest' \in Manifest
      BY <2>12, <2>a DEF Finalize, Manifest, TypeOK
    <3>2. dag' \in DagRun
      BY <2>12, <2>b DEF Finalize, DagRun
    <3>3. ~ Waiting
      BY <2>12, NobodyHeard, ControlTasks DEF Finalize
    <3>4. QED
      BY <3>1, <3>2, <3>3, <2>a, <2>12
         DEF Typed, TypeOK, Listening, Heard, Waiting, Finalize
  <2>13. ASSUME FinalizeRefused PROVE Typed'
    <3>1. dag' \in DagRun
      BY <2>13, <2>b, DagTransitions DEF FinalizeRefused
    <3>2. ~ Waiting
      BY <2>13, NobodyHeard, ControlTasks DEF FinalizeRefused
    <3>3. QED
      BY <3>1, <3>2, <2>a, <2>13
         DEF Typed, TypeOK, Listening, Heard, Waiting, FinalizeRefused
  <2>14. ASSUME NEW w \in Workers, CommandFails(w) PROVE Typed'
    <3>1. manifest' \in Manifest
      <4>1. ReceiptOf(w, "FAILED", Root) \in Receipt
        BY <2>a, <2>b, ReceiptTypes, OrchestrationAssumption DEF Stages
      <4>2. QED
        BY <4>1, <2>a, <2>14, WriteBackIsManifest DEF CommandFails
    <3>2. work' \in [Workers -> Attempt]
      BY <2>14, <2>a DEF CommandFails, Forget, TypeOK, Attempt
    <3>3. dag' \in DagRun
      BY <2>14, <2>b, DagTransitions DEF CommandFails
    <3>4. \A v \in Workers : Heard(v)' => v # w /\ Heard(v) /\ work'[v] = work[v]
      BY <2>a, <2>14 DEF CommandFails, Forget, TypeOK, Heard, Attempt
    <3>5. Listening'
      BY <3>4, <2>a, <2>14 DEF CommandFails, Listening, Running
    <3>6. QED
      BY <3>1, <3>2, <3>3, <3>5, <2>a, <2>c, <2>14 DEF CommandFails, Typed, TypeOK
  <2>15. ASSUME NEW w \in Workers, Crash(w) PROVE Typed'
    <3>1. manifest' \in Manifest
      BY <2>a, <2>15 DEF Crash, TypeOK
    <3>2. work' \in [Workers -> Attempt]
      BY <2>15, <2>a DEF Crash, Forget, TypeOK, Attempt
    <3>3. dag' \in DagRun
      BY <2>15, <2>b, DagTransitions DEF Crash
    <3>4. \A v \in Workers : Heard(v)' => v # w /\ Heard(v) /\ work'[v] = work[v]
      BY <2>a, <2>15 DEF Crash, Forget, TypeOK, Heard, Attempt
    <3>5. Listening'
      BY <3>4, <2>a, <2>15 DEF Crash, Listening, Running
    <3>6. QED
      BY <3>1, <3>2, <3>3, <3>5, <2>a, <2>c, <2>15 DEF Crash, Typed, TypeOK
  <2>16. ASSUME NEW w \in Workers, GiveUp(w) PROVE Typed'
    <3>1. manifest' \in Manifest
      BY <2>a, <2>16 DEF GiveUp, TypeOK
    <3>2. work' \in [Workers -> Attempt]
      BY <2>16, <2>a DEF GiveUp, TypeOK, Attempt
    <3>3. dag' \in DagRun
      BY <2>16, <2>b, DagTransitions DEF GiveUp
    <3>4. \A v \in Workers : Heard(v)' => v # w /\ Heard(v) /\ work'[v] = work[v]
      BY <2>a, <2>16 DEF GiveUp, TypeOK, Heard, Attempt
    <3>5. Listening'
      BY <3>4, <2>a, <2>16 DEF GiveUp, Listening, Running
    <3>6. QED
      BY <3>1, <3>2, <3>3, <3>5, <2>a, <2>c, <2>16 DEF GiveUp, Typed, TypeOK
  <2>17. ASSUME ControlTaskFails PROVE Typed'
    <3>1. dag' \in DagRun
      BY <2>17, <2>b, DagTransitions DEF ControlTaskFails
    <3>2. ~ Waiting
      BY <2>17, NobodyHeard, ControlTasks DEF ControlTaskFails
    <3>3. QED
      BY <3>1, <3>2, <2>a, <2>c, <2>17
         DEF Typed, TypeOK, Listening, Heard, Waiting, ControlTaskFails
  <2>18. ASSUME DagRunTimeout PROVE Typed'
    <3>1. dag' \in DagRun
      BY <2>18, <2>b, DagTransitions DEF DagRunTimeout
    <3>2. work' \in [Workers -> Attempt]
      BY <2>18, <2>a DEF DagRunTimeout, TypeOK, Attempt
    <3>3. \A v \in Workers : ~ Heard(v)'
      BY <2>18, <2>a DEF DagRunTimeout, TypeOK, Heard, Attempt
    <3>4. QED
      BY <3>1, <3>2, <3>3, <2>a, <2>c, <2>18 DEF Typed, TypeOK, Listening, DagRunTimeout
  <2>19. CASE UNCHANGED vars
    BY <2>19, <2>a DEF vars, Typed, TypeOK, Listening, Heard, Running
  <2>20. QED
    BY <2>1, <2>2, <2>3, <2>4, <2>5, <2>6, <2>7, <2>8, <2>9, <2>10, <2>11, <2>12,
       <2>13, <2>14, <2>15, <2>16, <2>17, <2>18, <2>19
       DEF Next, Initialize, Execute, Work, Environment
<1>3. QED
  BY <1>1, <1>2, PTL DEF Spec

\* Type correctness as the runs check it (runtime.py:105-298).
THEOREM TypesAreKept == Spec => []TypeOK
  BY Typing, PTL DEF Typed

-----------------------------------------------------------------------------
\* What execute_stage has established of the manifest it read.
Startable(m, s) ==
  /\ DonePrefix(m)
  /\ m.stages[s].status # "SUCCEEDED"
  /\ s > 1 => m.stages[s - 1].status = "SUCCEEDED"

Blank == manifest.status = "ABSENT" => \A s \in Stages : ~ Done(s)

Sound ==
  /\ NoHoles
  /\ CompleteWhenSucceeded
  /\ Blank
  /\ \A w \in Workers : work[w].phase = "command" => Startable(work[w].read, work[w].stage)

\* A manifest that is written back differs from the one read in one receipt.
LEMMA WrittenBack ==
  ASSUME TypeOK, NEW w \in Workers, NEW status, NEW receipt,
         WriteBack(w, status, receipt)
  PROVE  /\ manifest'.status = status
         /\ manifest'.stages[work[w].stage] = receipt
         /\ \A s \in Stages \ {work[w].stage} :
              manifest'.stages[s] = work[w].read.stages[s]
  BY DEF TypeOK, WriteBack, Manifest, Attempt

\* Neither a success nor a failure of a stage that may start leaves a hole.
LEMMA WrittenBackHasNoHoles ==
  ASSUME TypeOK, NEW w \in Workers, NEW status, NEW receipt,
         WriteBack(w, status, receipt), Startable(work[w].read, work[w].stage)
  PROVE  NoHoles'
  <1> DEFINE st == work[w].stage
  <1>1. st \in Stages
    BY DEF TypeOK, Attempt
  <1>2. SUFFICES ASSUME NEW s \in Stages, manifest'.stages[s].status = "SUCCEEDED",
                        NEW t \in 1..s
                 PROVE  manifest'.stages[t].status = "SUCCEEDED"
    BY DEF NoHoles, DonePrefix
  <1>3. t \in Stages /\ t <= s
    BY <1>2, OrchestrationAssumption DEF Stages
  <1>4. CASE t = s
    BY <1>2, <1>4
  <1>5. CASE t # s /\ s = st
    <2>1. st > 1 /\ st - 1 \in Stages /\ t \in 1..(st - 1) /\ t # st
      BY <1>1, <1>3, <1>5, OrchestrationAssumption DEF Stages
    <2>2. work[w].read.stages[t].status = "SUCCEEDED"
      BY <2>1 DEF Startable, DonePrefix
    <2>3. QED
      BY <1>3, <2>1, <2>2, WrittenBack
  <1>6. CASE s # st
    <2>1. work[w].read.stages[s].status = "SUCCEEDED"
      BY <1>2, <1>6, WrittenBack
    <2>2. work[w].read.stages[t].status = "SUCCEEDED"
      BY <1>2, <2>1 DEF Startable, DonePrefix
    <2>3. t # st
      BY <2>2 DEF Startable
    <2>4. QED
      BY <1>3, <2>2, <2>3, WrittenBack
  <1>7. QED
    BY <1>4, <1>5, <1>6

\* Steps that leave the manifest's receipts alone and start no attempt.
LEMMA SoundWhenQuiet ==
  ASSUME Sound, manifest' = manifest,
         \A w \in Workers : work'[w].phase = "command" =>
            /\ work[w].phase = "command"
            /\ work'[w].read = work[w].read
            /\ work'[w].stage = work[w].stage
  PROVE  Sound'
  BY
     DEF Sound, NoHoles, CompleteWhenSucceeded, Completed, Blank, Done, Startable, DonePrefix

\* Every step keeps manifests without holes, and success to complete ones.
LEMMA SoundStep ==
  ASSUME Typed, Sound, [Next]_vars
  PROVE  Sound'
<1>a. TypeOK
  BY DEF Typed
<1>1. ASSUME Trigger PROVE Sound'
  BY <1>1, SoundWhenQuiet DEF Trigger
<1>2. ASSUME NEW r \in Revisions, Deploy(r) PROVE Sound'
  BY <1>2, SoundWhenQuiet DEF Deploy
<1>3. ASSUME InitializeNew PROVE Sound'
  BY <1>3, <1>a
     DEF InitializeNew, Sound, NoHoles, CompleteWhenSucceeded, Completed, Blank, Done,
         DonePrefix, Startable, NoReceipt
<1>4. ASSUME InitializeAgain PROVE Sound'
  BY <1>4, SoundWhenQuiet DEF InitializeAgain
<1>5. ASSUME InitializeConflict PROVE Sound'
  BY <1>5, SoundWhenQuiet DEF InitializeConflict
<1>6. ASSUME NEW s \in Stages, RefuseUpstream(s) PROVE Sound'
  BY <1>6, SoundWhenQuiet DEF RefuseUpstream
<1>7. ASSUME NEW s \in Stages, Reuse(s) PROVE Sound'
  BY <1>7, SoundWhenQuiet DEF Reuse
<1>8. ASSUME NEW s \in Stages, RefuseConflict(s) PROVE Sound'
  BY <1>8, SoundWhenQuiet DEF RefuseConflict
<1>9. ASSUME NEW w \in Workers, NEW s \in Stages, Begin(w, s) PROVE Sound'
  <2>1. Startable(manifest, s)
    BY <1>9 DEF Begin, PriorDone, Done, Startable, Sound, NoHoles
  <2>2. \A v \in Workers : work'[v].phase = "command" => Startable(work'[v].read, work'[v].stage)
    BY <1>9, <2>1, <1>a DEF Begin, Attempted, Sound, TypeOK
  <2>3. QED
    BY <1>9, <2>2 DEF Begin, Sound, NoHoles, CompleteWhenSucceeded, Completed, Blank, Done,
                      DonePrefix
<1>10. ASSUME NEW w \in Workers, CommandSucceeds(w) PROVE Sound'
  <2>1. PICK out \in Checksums :
          /\ WriteBack(w, "RUNNING", ReceiptOf(w, "SUCCEEDED", out))
          /\ work' = [work EXCEPT ![w].phase = "report", ![w].out = out]
    BY <1>10 DEF CommandSucceeds
  <2>2. NoHoles' /\ manifest'.status = "RUNNING"
    BY <1>10, <2>1, <1>a, WrittenBackHasNoHoles, WrittenBack DEF CommandSucceeds, Sound
  <2>3. \A v \in Workers : work'[v].phase = "command" =>
           /\ work[v].phase = "command"
           /\ work'[v].read = work[v].read
           /\ work'[v].stage = work[v].stage
    BY <1>10, <2>1, <1>a DEF CommandSucceeds, Forget, TypeOK, Attempt
  <2>4. QED
    BY <2>2, <2>3 DEF Sound, CompleteWhenSucceeded, Completed, Blank
<1>11. ASSUME NEW w \in Workers, Report(w) PROVE Sound'
  BY <1>11, <1>a, SoundWhenQuiet DEF Report, Forget, TypeOK, Attempt
<1>12. ASSUME Finalize PROVE Sound'
  <2>1. manifest'.stages = manifest.stages /\ manifest'.status = "SUCCEEDED"
    BY <1>12, <1>a DEF Finalize, TypeOK, Manifest
  <2>2. QED
    BY <1>12, <2>1
       DEF Finalize, Sound, NoHoles, CompleteWhenSucceeded, Completed, Blank, Done,
                      DonePrefix
<1>13. ASSUME FinalizeRefused PROVE Sound'
  BY <1>13, SoundWhenQuiet DEF FinalizeRefused
<1>14. ASSUME NEW w \in Workers, CommandFails(w) PROVE Sound'
  <2>1. WriteBack(w, "FAILED", ReceiptOf(w, "FAILED", Root))
    BY <1>14 DEF CommandFails
  <2>2. NoHoles' /\ manifest'.status = "FAILED"
    BY <1>14, <2>1, <1>a, WrittenBackHasNoHoles, WrittenBack DEF CommandFails, Sound
  <2>3. \A v \in Workers : work'[v].phase = "command" =>
           /\ work[v].phase = "command"
           /\ work'[v].read = work[v].read
           /\ work'[v].stage = work[v].stage
    BY <1>14, <2>1, <1>a DEF CommandFails, Forget, TypeOK, Attempt
  <2>4. QED
    BY <2>2, <2>3 DEF Sound, CompleteWhenSucceeded, Completed, Blank
<1>15. ASSUME NEW w \in Workers, Crash(w) PROVE Sound'
  BY <1>15, <1>a, SoundWhenQuiet DEF Crash, Forget, TypeOK, Attempt
<1>16. ASSUME NEW w \in Workers, GiveUp(w) PROVE Sound'
  BY <1>16, <1>a, SoundWhenQuiet DEF GiveUp, TypeOK, Attempt
<1>17. ASSUME ControlTaskFails PROVE Sound'
  BY <1>17, SoundWhenQuiet DEF ControlTaskFails
<1>18. ASSUME DagRunTimeout PROVE Sound'
  BY <1>18, <1>a, SoundWhenQuiet DEF DagRunTimeout, TypeOK, Attempt
<1>19. CASE UNCHANGED vars
  BY <1>19, SoundWhenQuiet DEF vars
<1>20. QED
  BY <1>1, <1>2, <1>3, <1>4, <1>5, <1>6, <1>7, <1>8, <1>9, <1>10, <1>11, <1>12,
     <1>13, <1>14, <1>15, <1>16, <1>17, <1>18, <1>19
     DEF Next, Initialize, Execute, Work, Environment

\* The inductive invariant behind the theorems about every behaviour.
LEMMA SoundAlways == Spec => [](Typed /\ Sound)
<1>1. Init => Sound
  BY DEF Init, Sound, NoHoles, CompleteWhenSucceeded, Completed, Blank, Done, DonePrefix,
         NoReceipt
<1>2. QED
  BY <1>1, SoundStep, Typing, PTL DEF Spec

\* No manifest shows a stage that ran on a missing upstream, although attempts
\* may overlap and overwrite each other (runtime.py:220-225).
THEOREM ManifestsHaveNoHoles == Spec => []NoHoles
  BY SoundAlways, PTL DEF Sound

\* A manifest that reports success is complete, whatever late attempts write
\* (runtime.py:282-287).
THEOREM SuccessIsComplete == Spec => []CompleteWhenSucceeded
  BY SoundAlways, PTL DEF Sound

-----------------------------------------------------------------------------
\* What the DAG run hands to the task it is at: the checksum the manifest holds.
Handed ==
  dag.state = "running" /\ dag.at > 0 =>
    IF dag.at = 1 THEN dag.up = Root
    ELSE Done(dag.at - 1) /\ dag.up = manifest.stages[dag.at - 1].out

Chained ==
  \A s \in Stages : Done(s) =>
    manifest.stages[s].up = IF s = 1 THEN Root ELSE manifest.stages[s - 1].out

\* An attempt the scheduler listens to holds the manifest as it still is, and
\* one that has recorded its success reports what the manifest says.
UpToDate ==
  \A w \in Workers :
    /\ work[w].phase # "idle" => work[w].heard
    /\ work[w].phase = "command" => work[w].read = manifest /\ work[w].up = dag.up
    /\ work[w].phase = "report" =>
         /\ manifest.status = "RUNNING"
         /\ Done(work[w].stage)
         /\ work[w].out = manifest.stages[work[w].stage].out

Solo == ~ overlap => UpToDate /\ Handed /\ Chained /\ (dag.state = "success" => Completed)

\* No attempt, or the one the scheduler listens to, is active.
LEMMA SingleAttempt ==
  ASSUME Typed, UpToDate, NEW w \in Workers, work[w].phase # "idle"
  PROVE  /\ Heard(w)
         /\ Running(work[w].stage)
         /\ work[w].stage \in Stages
         /\ \A v \in Workers : work[v].phase # "idle" => v = w
  BY DEF Typed, TypeOK, Listening, UpToDate, Heard, Attempt

\* Without a task at a stage every worker is idle.
LEMMA NoAttempt ==
  ASSUME Typed, UpToDate, ~ Waiting
  PROVE  \A w \in Workers : work[w].phase = "idle"
  BY SingleAttempt DEF Waiting

\* The task is tried again on what it was handed, or the run has ended in failure.
Retried ==
  \/ dag'.state \notin {"running", "success"}
  \/ /\ dag'.state = dag.state
     /\ dag'.at = dag.at
     /\ dag'.up = dag.up

\* A task fails into a retry or into a failed run.
LEMMA Retrying ==
  ASSUME dag \in DagRun, TaskFailed
  PROVE  Retried
  BY DEF DagRun, TaskFailed, RunFailed, Retried

\* Every step keeps the attempts, the DAG run and the receipts in agreement
\* until an attempt is given up.
LEMMA SoloStep ==
  ASSUME Typed, Sound, Solo, [Next]_vars
  PROVE  Solo'
<1>a. SUFFICES ASSUME ~ overlap' PROVE Solo'
  BY DEF Solo
<1>b. TypeOK /\ Listening
  BY DEF Typed
<1>c. ~ overlap => UpToDate /\ Handed /\ Chained /\ (dag.state = "success" => Completed)
  BY DEF Solo
<1>1. ASSUME Trigger PROVE Solo'
  <2>1. \A w \in Workers : work[w].phase = "idle"
    BY <1>1, <1>a, <1>c, NoAttempt, NobodyHeard DEF Trigger, Running
  <2>2. QED
    BY <1>1, <1>a, <1>c, <2>1 DEF Trigger, Solo, UpToDate, Handed, Chained, Done
<1>2. ASSUME NEW r \in Revisions, Deploy(r) PROVE Solo'
  BY <1>2, <1>a, <1>c DEF Deploy, Solo, UpToDate, Handed, Chained, Completed, Done
<1>3. ASSUME InitializeNew PROVE Solo'
  <2>1. \A w \in Workers : work[w].phase = "idle"
    BY <1>3, <1>a, <1>c, NoAttempt, NobodyHeard, ControlTasks DEF InitializeNew
  <2>2. dag'.at = 1 /\ dag'.up = Root /\ dag'.state = "running"
    BY <1>3, <1>b DEF InitializeNew, Running, TaskSucceeded, TypeOK, DagRun
  <2>3. \A s \in Stages : ~ Done(s)'
    BY <1>3 DEF InitializeNew, Done, NoReceipt
  <2>4. QED
    BY <1>3, <2>1, <2>2, <2>3 DEF InitializeNew, Solo, UpToDate, Handed, Chained
<1>4. ASSUME InitializeAgain PROVE Solo'
  <2>1. \A w \in Workers : work[w].phase = "idle"
    BY <1>4, <1>a, <1>c, NoAttempt, NobodyHeard, ControlTasks DEF InitializeAgain
  <2>2. dag'.at = 1 /\ dag'.up = Root /\ dag'.state = "running"
    BY <1>4, <1>b DEF InitializeAgain, Running, TaskSucceeded, TypeOK, DagRun
  <2>3. QED
    BY <1>4, <1>a, <1>c, <2>1, <2>2
       DEF InitializeAgain, Solo, UpToDate, Handed, Chained, Done
<1>5. ASSUME InitializeConflict PROVE Solo'
  <2>1. \A w \in Workers : work[w].phase = "idle"
    BY <1>5, <1>a, <1>c, NoAttempt, NobodyHeard, ControlTasks DEF InitializeConflict
  <2>2. dag'.state = "failed"
    BY <1>5, <1>b, DagTransitions DEF InitializeConflict, TypeOK
  <2>3. QED
    BY <1>5, <1>a, <1>c, <2>1, <2>2
       DEF InitializeConflict, Solo, UpToDate, Handed, Chained, Done
<1>6. ASSUME NEW s \in Stages, RefuseUpstream(s) PROVE Solo'
  <2>1. \A w \in Workers : work[w].phase = "idle"
    BY <1>6, <1>a, <1>c, NoAttempt DEF RefuseUpstream, Dispatch
  <2>2. Retried
    BY <1>6, <1>b, Retrying DEF RefuseUpstream, TypeOK
  <2>3. QED
    BY <1>6, <1>a, <1>c, <2>1, <2>2
       DEF RefuseUpstream, Dispatch, Running, Retried, Solo, UpToDate, Handed, Chained, Done
<1>7. ASSUME NEW s \in Stages, Reuse(s) PROVE Solo'
  <2>1. \A w \in Workers : work[w].phase = "idle"
    BY <1>7, <1>a, <1>c, NoAttempt DEF Reuse, Dispatch
  <2>2. dag'.at = s + 1 /\ dag'.up = manifest.stages[s].out /\ dag'.state = "running"
    BY <1>7, <1>b DEF Reuse, Dispatch, Running, TaskSucceeded, TypeOK, DagRun
  <2>3. s \in Nat /\ s > 0
    BY OrchestrationAssumption DEF Stages
  <2>4. QED
    BY <1>7, <1>a, <1>c, <2>1, <2>2, <2>3
       DEF Reuse, Solo, UpToDate, Handed, Chained, Done
<1>8. ASSUME NEW s \in Stages, RefuseConflict(s) PROVE Solo'
  <2>1. \A w \in Workers : work[w].phase = "idle"
    BY <1>8, <1>a, <1>c, NoAttempt DEF RefuseConflict, Dispatch
  <2>2. Retried
    BY <1>8, <1>b, Retrying DEF RefuseConflict, TypeOK
  <2>3. QED
    BY <1>8, <1>a, <1>c, <2>1, <2>2
       DEF RefuseConflict, Dispatch, Running, Retried, Solo, UpToDate, Handed, Chained, Done
<1>9. ASSUME NEW w \in Workers, NEW s \in Stages, Begin(w, s) PROVE Solo'
  <2>1. \A v \in Workers : work[v].phase = "idle"
    BY <1>9, <1>a, <1>c, NoAttempt DEF Begin, Dispatch
  <2>2. UpToDate'
    BY <1>9, <1>b, <2>1 DEF Begin, Attempted, UpToDate, TypeOK
  <2>3. QED
    BY <1>9, <1>a, <1>c, <2>2 DEF Begin, Solo, Handed, Chained, Done, Completed
<1>10. ASSUME NEW w \in Workers, CommandSucceeds(w) PROVE Solo'
  <2>1. PICK out \in Checksums :
          /\ WriteBack(w, "RUNNING", ReceiptOf(w, "SUCCEEDED", out))
          /\ work' = [work EXCEPT ![w].phase = "report", ![w].out = out]
    BY <1>10 DEF CommandSucceeds
  <2> DEFINE st == work[w].stage
  <2>2. /\ Running(st) /\ st \in Stages
        /\ \A v \in Workers : work[v].phase # "idle" => v = w
        /\ UpToDate /\ Handed /\ Chained
        /\ work[w].read = manifest /\ work[w].up = dag.up /\ work[w].heard
        /\ Startable(manifest, st)
    BY <1>10, <1>a, <1>c, SingleAttempt DEF CommandSucceeds, UpToDate, Sound
  <2>3. /\ manifest'.status = "RUNNING"
        /\ manifest'.stages[st] = ReceiptOf(w, "SUCCEEDED", out)
        /\ \A s \in Stages \ {st} : manifest'.stages[s] = manifest.stages[s]
    BY <1>b, <2>1, <2>2, WrittenBack
  <2>4. /\ manifest'.stages[st].status = "SUCCEEDED"
        /\ manifest'.stages[st].out = out
        /\ manifest'.stages[st].up = dag.up
    BY <2>2, <2>3 DEF ReceiptOf
  <2>p. st > 0 /\ (st = 1 \/ st - 1 \in Stages \ {st})
    BY <2>2, OrchestrationAssumption DEF Stages
  <2>5. UpToDate'
    BY <1>b, <2>1, <2>2, <2>3, <2>4 DEF UpToDate, TypeOK, Done, Attempt
  <2>6. Handed' /\ dag' = dag /\ dag.state = "running"
    <3>1. dag' = dag /\ dag.state = "running" /\ dag.at = st
      BY <1>10, <2>2 DEF CommandSucceeds, Running
    <3>2. QED
      BY <3>1, <2>p, <2>2, <2>3 DEF Handed, Done
  <2>7. Chained'
    <3>1. SUFFICES ASSUME NEW s \in Stages, Done(s)'
                   PROVE  manifest'.stages[s].up =
                            IF s = 1 THEN Root ELSE manifest'.stages[s - 1].out
      BY DEF Chained
    <3>2. CASE s = st
      BY <3>2, <2>p, <2>2, <2>3, <2>4 DEF Handed, Running
    <3>3. CASE s # st
      <4>1. Done(s) /\ manifest'.stages[s] = manifest.stages[s]
        BY <3>1, <3>3, <2>3 DEF Done
      <4>2. s - 1 # st
        <5>1. SUFFICES ASSUME s - 1 = st PROVE FALSE
          OBVIOUS
        <5>2. st \in 1..s
          BY <5>1, <2>2, OrchestrationAssumption DEF Stages
        <5>3. QED
          BY <5>2, <4>1, <2>2 DEF Startable, DonePrefix, Done
      <4>3. s = 1 \/ s - 1 \in Stages \ {st}
        BY <4>2, OrchestrationAssumption DEF Stages
      <4>4. QED
        BY <4>1, <4>3, <2>2, <2>3 DEF Chained
    <3>4. QED
      BY <3>2, <3>3
  <2>8. QED
    BY <2>5, <2>6, <2>7 DEF Solo
<1>11. ASSUME NEW w \in Workers, Report(w) PROVE Solo'
  <2> DEFINE st == work[w].stage
  <2>1. /\ Running(st) /\ st \in Stages /\ Heard(w)
        /\ \A v \in Workers : work[v].phase # "idle" => v = w
        /\ UpToDate /\ Chained /\ Done(st)
        /\ work[w].out = manifest.stages[st].out
    BY <1>11, <1>a, <1>c, SingleAttempt DEF Report, UpToDate
  <2>2. dag'.at = st + 1 /\ dag'.up = manifest.stages[st].out /\ dag'.state = "running"
    BY <1>11, <1>b, <2>1 DEF Report, Running, TaskSucceeded, TypeOK, DagRun
  <2>3. UpToDate'
    BY <1>11, <1>b, <2>1 DEF Report, Forget, UpToDate, TypeOK, Attempt
  <2>4. Handed'
    <3>1. st \in Nat /\ st > 0
      BY <2>1, OrchestrationAssumption DEF Stages
    <3>2. dag'.at # 1 /\ dag'.at - 1 = st
      BY <2>2, <3>1
    <3>3. QED
      BY <1>11, <2>1, <2>2, <3>2 DEF Report, Handed, Done
  <2>5. QED
    BY <1>11, <2>1, <2>2, <2>3, <2>4 DEF Report, Solo, Chained, Done
<1>12. ASSUME Finalize PROVE Solo'
  <2>1. \A w \in Workers : work[w].phase = "idle"
    BY <1>12, <1>a, <1>c, NoAttempt, NobodyHeard, ControlTasks DEF Finalize
  <2>2. manifest'.stages = manifest.stages /\ manifest'.status = "SUCCEEDED" /\ dag'.state = "success"
    BY <1>12, <1>b DEF Finalize, TypeOK, Manifest, DagRun
  <2>3. QED
    BY <1>12, <1>a, <1>c, <2>1, <2>2
       DEF Finalize, Solo, UpToDate, Handed, Chained, Done, Completed
<1>13. ASSUME FinalizeRefused PROVE Solo'
  <2>1. \A w \in Workers : work[w].phase = "idle"
    BY <1>13, <1>a, <1>c, NoAttempt, NobodyHeard, ControlTasks DEF FinalizeRefused
  <2>2. dag'.state = "failed"
    BY <1>13, <1>b, DagTransitions DEF FinalizeRefused, TypeOK
  <2>3. QED
    BY <1>13, <1>a, <1>c, <2>1, <2>2
       DEF FinalizeRefused, Solo, UpToDate, Handed, Chained, Done
<1>14. ASSUME NEW w \in Workers, CommandFails(w) PROVE Solo'
  <2> DEFINE st == work[w].stage
  <2>1. /\ Running(st) /\ st \in Stages /\ Heard(w)
        /\ \A v \in Workers : work[v].phase # "idle" => v = w
        /\ UpToDate /\ Handed /\ Chained
        /\ work[w].read = manifest
        /\ Startable(manifest, st)
    BY <1>14, <1>a, <1>c, SingleAttempt DEF CommandFails, UpToDate, Sound
  <2>2. /\ manifest'.stages[st].status = "FAILED"
        /\ \A s \in Stages \ {st} : manifest'.stages[s] = manifest.stages[s]
    BY <1>14, <1>b, <2>1, WrittenBack DEF CommandFails, ReceiptOf
  <2>3. UpToDate'
    BY <1>14, <1>b, <2>1 DEF CommandFails, Forget, UpToDate, TypeOK, Attempt
  <2>4. Retried
    BY <1>14, <1>b, <2>1, Retrying DEF CommandFails, TypeOK
  <2>p. st > 0 /\ (st = 1 \/ st - 1 \in Stages \ {st})
    BY <2>1, OrchestrationAssumption DEF Stages
  <2>5. Handed'
    BY <2>p, <2>1, <2>2, <2>4 DEF Handed, Running, Retried, Done
  <2>6. Chained'
    <3>1. SUFFICES ASSUME NEW s \in Stages, Done(s)'
                   PROVE  manifest'.stages[s].up =
                            IF s = 1 THEN Root ELSE manifest'.stages[s - 1].out
      BY DEF Chained
    <3>2. s # st /\ Done(s) /\ manifest'.stages[s] = manifest.stages[s]
      BY <3>1, <2>2 DEF Done
    <3>3. s = 1 \/ s - 1 \in Stages
      BY OrchestrationAssumption DEF Stages
    <3>4. CASE s # 1
      <4>1. s - 1 \in 1..s
        BY <3>3, <3>4, OrchestrationAssumption DEF Stages
      <4>2. Done(s - 1)
        BY <3>2, <4>1 DEF Sound, NoHoles, DonePrefix, Done
      <4>3. s - 1 # st
        BY <4>2, <2>1 DEF Startable, Done
      <4>4. QED
        BY <3>2, <3>3, <3>4, <4>3, <2>1, <2>2 DEF Chained
    <3>5. QED
      BY <3>2, <3>4, <2>1 DEF Chained
  <2>7. QED
    BY <2>3, <2>4, <2>5, <2>6, <2>1 DEF Solo, Retried, Running
<1>15. ASSUME NEW w \in Workers, Crash(w) PROVE Solo'
  <2>1. /\ Running(work[w].stage) /\ Heard(w)
        /\ \A v \in Workers : work[v].phase # "idle" => v = w
        /\ UpToDate /\ Handed /\ Chained
    BY <1>15, <1>a, <1>c, SingleAttempt DEF Crash
  <2>2. UpToDate'
    BY <1>15, <1>b, <2>1 DEF Crash, Forget, UpToDate, TypeOK, Attempt
  <2>3. Retried
    BY <1>15, <1>b, <2>1, Retrying DEF Crash, TypeOK
  <2>4. QED
    BY <1>15, <2>1, <2>2, <2>3 DEF Crash, Solo, Handed, Chained, Retried, Running, Done
<1>16. ASSUME NEW w \in Workers, GiveUp(w) PROVE Solo'
  BY <1>16, <1>a DEF GiveUp
<1>17. ASSUME ControlTaskFails PROVE Solo'
  <2>1. \A w \in Workers : work[w].phase = "idle"
    BY <1>17, <1>a, <1>c, NoAttempt, NobodyHeard, ControlTasks DEF ControlTaskFails
  <2>2. dag'.state = "failed"
    BY <1>17, <1>b, DagTransitions DEF ControlTaskFails, TypeOK
  <2>3. QED
    BY <1>17, <1>a, <1>c, <2>1, <2>2
       DEF ControlTaskFails, Solo, UpToDate, Handed, Chained, Done
<1>18. ASSUME DagRunTimeout PROVE Solo'
  <2>1. \A w \in Workers : work'[w].phase = "idle"
    <3>1. UpToDate
      BY <1>18, <1>a, <1>c DEF DagRunTimeout
    <3>2. \A w \in Workers : work[w].phase = "idle" \/ Heard(w)
      BY <3>1, SingleAttempt
    <3>3. QED
      BY <1>18, <3>2, <1>b DEF DagRunTimeout, TypeOK, Attempt
  <2>2. dag'.state = "failed"
    BY <1>18, <1>b, DagTransitions DEF DagRunTimeout, TypeOK
  <2>3. QED
    BY <1>18, <1>a, <1>c, <2>1, <2>2
       DEF DagRunTimeout, Solo, UpToDate, Handed, Chained, Done
<1>19. CASE UNCHANGED vars
  BY <1>19, <1>a, <1>c DEF vars, Solo, UpToDate, Handed, Chained, Completed, Done
<1>20. QED
  BY <1>1, <1>2, <1>3, <1>4, <1>5, <1>6, <1>7, <1>8, <1>9, <1>10, <1>11, <1>12,
     <1>13, <1>14, <1>15, <1>16, <1>17, <1>18, <1>19
     DEF Next, Initialize, Execute, Work, Environment

\* The inductive invariant behind the theorems about a scheduler that gives up
\* no live attempt.
LEMMA SoloAlways == Spec => [](Typed /\ Sound /\ Solo)
<1>1. Init => Solo
  BY DEF Init, Solo, UpToDate, Handed, Chained, Done, NoReceipt
<1>2. QED
  BY <1>1, SoloStep, SoundAlways, PTL DEF Spec

\* Without an attempt executed behind the scheduler's back, the receipts form a
\* chain of checksums (runtime.py:226-232, 249-258).
THEOREM ReceiptsFormAChain == Spec => []ReceiptChain
<1>1. Solo => ReceiptChain
  BY DEF Solo, Chained, ReceiptChain
<1>2. QED
  BY <1>1, SoloAlways, PTL

\* Without an attempt executed behind the scheduler's back, a successful run has
\* a finished manifest, and nothing is executed for it again (runtime.py:228-231,
\* 282-298).
THEOREM FinishedRunsAreQuiet == Spec => []FinishedIsQuiet
<1>1. Typed /\ Sound /\ Solo => FinishedIsQuiet
  <2> SUFFICES ASSUME Typed, Sound, Solo, ~ overlap
               PROVE  /\ dag.state = "success" => Completed
                      /\ Completed => \A w \in Workers : work[w].phase = "idle"
    BY DEF FinishedIsQuiet
  <2>1. UpToDate /\ (dag.state = "success" => Completed)
    BY DEF Solo
  <2>2. ASSUME Completed, NEW w \in Workers PROVE work[w].phase = "idle"
    <3>1. work[w].phase # "report"
      BY <2>1, <2>2 DEF UpToDate, Completed
    <3>2. CASE work[w].phase = "command"
      <4>1. work[w].stage \in Stages /\ Startable(manifest, work[w].stage)
        BY <3>2, <2>1, SingleAttempt DEF UpToDate, Sound
      <4>2. QED
        BY <2>2, <4>1 DEF Sound, CompleteWhenSucceeded, Startable, Done
    <3>3. QED
      BY <3>1, <3>2 DEF Typed, TypeOK, Attempt
  <2>3. QED
    BY <2>1, <2>2
<1>2. QED
  BY <1>1, SoloAlways, PTL

\* Without an attempt executed behind the scheduler's back, a successful receipt
\* and a successful outcome are final (runtime.py:226-232).
THEOREM SuccessesAreReused == Spec => SuccessIsReused
<1>1. Typed /\ Sound /\ Solo /\ [Next]_vars => [~ overlap => KeepsSuccess]_vars
  <2> SUFFICES ASSUME Typed, Sound, Solo, Next, ~ overlap PROVE KeepsSuccess
    BY DEF KeepsSuccess, vars, Completed, Done
  <2>1. TypeOK /\ UpToDate
    BY DEF Typed, Solo
  <2>2. ASSUME manifest' = manifest PROVE KeepsSuccess
    BY <2>2 DEF KeepsSuccess, Completed, Done
  <2>3. CASE InitializeNew
    BY <2>3, SMT DEF InitializeNew, KeepsSuccess, Completed, Sound, Blank
  <2>4. CASE Finalize
    BY <2>4, <2>1 DEF Finalize, KeepsSuccess, Completed, TypeOK, Manifest
  <2>5. ASSUME NEW w \in Workers, CommandSucceeds(w) \/ CommandFails(w) PROVE KeepsSuccess
    <3>1. work[w].phase = "command"
      BY <2>5 DEF CommandSucceeds, CommandFails
    <3>2. /\ work[w].read = manifest /\ work[w].stage \in Stages
          /\ Startable(manifest, work[w].stage)
      BY <3>1, <2>1, SingleAttempt DEF UpToDate, Sound
    <3>3. ~ Completed
      BY <3>2 DEF Sound, CompleteWhenSucceeded, Startable, Done
    <3>4. PICK status, receipt : WriteBack(w, status, receipt)
      BY <2>5 DEF CommandSucceeds, CommandFails
    <3>5. QED
      BY <2>1, <3>2, <3>3, <3>4, WrittenBack DEF KeepsSuccess, Startable, Done
  <2>6. QED
    BY <2>2, <2>3, <2>4, <2>5
       DEF Next, Initialize, Execute, Work, Environment, Trigger, Deploy, InitializeAgain,
           InitializeConflict, RefuseUpstream, Reuse, RefuseConflict, Begin, Report,
           FinalizeRefused, Crash, GiveUp, ControlTaskFails, DagRunTimeout
<1>2. QED
  BY <1>1, SoloAlways, PTL DEF Spec, SuccessIsReused

=============================================================================
