---------------------------- MODULE RuntimeProofs ----------------------------
(***************************************************************************)
(* Proofs about the two ways a script's calls are run: the resumable       *)
(* runner, which implements StepSequence whatever crashes and resumes do,  *)
(* and the event loop of ScriptRuntime, for any number of steps, sessions  *)
(* and calls.                                                              *)
(***************************************************************************)
EXTENDS ResumableRunner, ScriptRuntime, FiniteSetTheorems, SequenceTheorems, TLAPS

-----------------------------------------------------------------------------
(* ResumableRunner *)

Live(s) == {i \in Ids : box[s][i] \in {"running", "exited"}}
Completed(s) == disk[s].status = "completed"

\* At most one container of a step is alive.
OneLive == \A s \in Steps : \A i, j \in Live(s) : i = j

\* A step with a container has been started, and so has the one whose container or agent is at work.
StartedInv ==
    /\ \A s \in Steps, i \in Ids : box[s][i] # "none" => started[s] > 0
    /\ stepAt \in {"attached", "saveId", "wait", "cleanup", "agent"} => started[pos] > 0

\* Memory and the saved state agree on what is completed; that is a beginning of the script, all before the
\* current call belongs to it, and the current call does not while it is worked on.
CompletedInv ==
    /\ \A s \in Steps : mem[s].status = "completed" <=> Completed(s)
    /\ \A s, t \in Steps : s < t /\ Completed(t) => Completed(s)
    /\ \A s \in Steps : s < pos => Completed(s)
    /\ stepAt \in {"fresh", "attached", "start", "saveId", "wait", "agent"} => pos \in Steps /\ ~Completed(pos)
    /\ stepAt = "cleanup" => pos \in Steps /\ Completed(pos)

RunnerInv == RunnerTypeOK /\ StartedInv /\ CompletedInv


\* Changing one step keeps the types of the runner's state, in memory and saved.
LEMMA SetStepTypes ==
    ASSUME RunnerTypeOK, pos \in Steps, NEW x \in Statuses, NEW c \in Ids \cup {0}, SetStep(St(x, c))
    PROVE  /\ mem' \in [Steps -> [status : Statuses, cid : Ids \cup {0}]]
           /\ disk' \in [Steps -> [status : Statuses, cid : Ids \cup {0}]]
BY DEF RunnerTypeOK, SetStep, St

\* Changing one container keeps the type of the containers.
LEMMA SetBoxTypes ==
    ASSUME RunnerTypeOK, NEW i, NEW x \in {"none", "running", "exited", "removed"}
    PROVE  [box EXCEPT ![pos][i] = x] \in [Steps -> [Ids -> {"none", "running", "exited", "removed"}]]
BY DEF RunnerTypeOK

\* What the current step is, and that its identifier is one of a container or zero.
LEMMA HereTypes ==
    ASSUME RunnerTypeOK, pos \in Steps
    PROVE  Here.status \in Statuses /\ Here.cid \in Ids \cup {0}
BY DEF RunnerTypeOK, Here

\* A change of the current step to something other than completed changes nothing about what is completed, if
\* that step was not.
LEMMA OtherChange ==
    ASSUME RunnerTypeOK, CompletedInv, pos \in Steps, ~Completed(pos), NEW x, x # "completed", NEW c,
           SetStep(St(x, c))
    PROVE  \A s \in Steps : /\ mem'[s].status = "completed" <=> Completed(s)
                            /\ Completed(s)' <=> Completed(s)
BY DEF RunnerTypeOK, CompletedInv, Completed, SetStep, St

\* Completing the current step, which only a run that is not stopped does, adds it to what is completed.
LEMMA CompletingChange ==
    ASSUME RunnerTypeOK, CompletedInv, pos \in Steps, ~stopped, NEW c, SetStep(St("completed", c))
    PROVE  \A s \in Steps : /\ mem'[s].status = "completed" <=> (Completed(s) \/ s = pos)
                            /\ Completed(s)' <=> (Completed(s) \/ s = pos)
BY DEF RunnerTypeOK, CompletedInv, Completed, SetStep, St

\* Every step keeps the runner's types, for any script and any bound.
LEMMA RunnerTypeStep ==
    ASSUME RunnerTypeOK, [RunnerNext]_runnerVars
    PROVE  RunnerTypeOK'
<1> USE RunnerAssumption
<1>1. CASE SkipCompleted
  BY <1>1 DEF SkipCompleted, NextCall, CanSkip, Here, Working, RunnerTypeOK, Steps, Ids, Statuses
<1>2. CASE MarkForRetry
  BY <1>2 DEF MarkForRetry, SetStep, St, Here, Working, RunnerTypeOK, Steps, Ids, Statuses
<1>3. CASE StartFresh
  BY <1>3 DEF StartFresh, Working, RunnerTypeOK, Steps, Ids, Statuses
<1>4. CASE Reattach
  BY <1>4 DEF Reattach, IsResumable, Here, Working, RunnerTypeOK, Steps, Ids, Statuses
<1>5. CASE ReattachedEnds
  <2>1. pos \in Steps /\ Working
    BY <1>5 DEF ReattachedEnds, Working, RunnerTypeOK, Steps
  <2>2. CASE stopped /\ EndRun /\ UNCHANGED <<pos, stepAt, mem, disk, box>>
    BY <1>5, <2>2 DEF ReattachedEnds, EndRun, RunnerTypeOK
  <2>3. CASE /\ box' = [box EXCEPT ![pos][Here.cid] = "removed"]
             /\ SetStep(St("completed", Here.cid)) /\ NextCall /\ UNCHANGED up
    <3>1. box' \in [Steps -> [Ids -> {"none", "running", "exited", "removed"}]]
      BY <2>3, SetBoxTypes
    <3>2. /\ mem' \in [Steps -> [status : Statuses, cid : Ids \cup {0}]]
          /\ disk' \in [Steps -> [status : Statuses, cid : Ids \cup {0}]]
      BY <2>1, <2>3, SetStepTypes, HereTypes DEF Statuses
    <3> QED
      BY <1>5, <2>1, <2>3, <3>1, <3>2 DEF ReattachedEnds, NextCall, RunnerTypeOK, Working
  <2> QED
    BY <1>5, <2>2, <2>3 DEF ReattachedEnds
<1>6. CASE RunStep
  BY <1>6 DEF RunStep, SetStep, St, Working, RunnerTypeOK, Steps, Ids, Statuses
<1>7. CASE StartStepContainer
  <2>1. pos \in Steps
    BY <1>7 DEF StartStepContainer, Working, RunnerTypeOK, Steps
  <2>2. ASSUME NEW i \in Ids, ~stopped,
               box' = [box EXCEPT ![pos][i] = IF @ = "none" THEN "running" ELSE @],
               started' = [started EXCEPT ![pos] = IF box[pos][i] = "none" THEN @ + 1 ELSE @],
               mem' = [mem EXCEPT ![pos] = St("running", i)], stepAt' = "saveId", UNCHANGED <<up, disk, errors>>
        PROVE  RunnerTypeOK'
    <3>1. box' \in [Steps -> [Ids -> {"none", "running", "exited", "removed"}]]
      BY <2>1, <2>2 DEF RunnerTypeOK
    <3>2. mem' \in [Steps -> [status : Statuses, cid : Ids \cup {0}]]
      BY <2>1, <2>2 DEF RunnerTypeOK, St, Statuses
    <3>3. started' \in [Steps -> Nat]
      BY <2>1, <2>2 DEF RunnerTypeOK
    <3> QED
      BY <1>7, <2>2, <3>1, <3>2, <3>3 DEF StartStepContainer, RunnerTypeOK
  <2>3. CASE /\ stopped \/ errors < MaxErrors
             /\ errors' = IF stopped THEN errors ELSE errors + 1
             /\ SetStep(St(IF stopped THEN "aborted" ELSE "failed", 0))
             /\ EndRun /\ UNCHANGED <<stepAt, box, started>>
    <3>0. (IF stopped THEN "aborted" ELSE "failed") \in Statuses
      BY DEF Statuses
    <3>1. /\ mem' \in [Steps -> [status : Statuses, cid : Ids \cup {0}]]
          /\ disk' \in [Steps -> [status : Statuses, cid : Ids \cup {0}]]
      BY <2>1, <2>3, <3>0, SetStepTypes
    <3>2. errors' \in 0..MaxErrors
      <4>1. errors' = errors \/ (errors < MaxErrors /\ errors' = errors + 1)
        BY <2>3
      <4> QED
        BY <4>1 DEF RunnerTypeOK
    <3> QED
      BY <1>7, <2>3, <3>1, <3>2 DEF StartStepContainer, EndRun, RunnerTypeOK
  <2> QED
    BY <1>7, <2>2, <2>3 DEF StartStepContainer, Existing, FirstFree
<1>8. CASE SaveContainerId
  BY <1>8 DEF SaveContainerId, Working, RunnerTypeOK, Steps, Ids, Statuses
<1>9. CASE CollectStepResult
  <2>1. pos \in Steps
    BY <1>9 DEF CollectStepResult, Working, RunnerTypeOK, Steps
  <2>2. /\ mem' \in [Steps -> [status : Statuses, cid : Ids \cup {0}]]
        /\ disk' \in [Steps -> [status : Statuses, cid : Ids \cup {0}]]
    BY <1>9, <2>1, SetStepTypes, HereTypes DEF CollectStepResult, Statuses
  <2>3. box' \in [Steps -> [Ids -> {"none", "running", "exited", "removed"}]]
    <3>1. box' = box \/ box' = [box EXCEPT ![pos][Here.cid] = "removed"]
      BY <1>9 DEF CollectStepResult
    <3>2. CASE box' = box
      BY <3>2 DEF RunnerTypeOK
    <3>3. CASE box' = [box EXCEPT ![pos][Here.cid] = "removed"]
      BY <3>3, SetBoxTypes
    <3> QED
      BY <3>1, <3>2, <3>3
  <2>4. up' \in BOOLEAN /\ stepAt' \in {"wait", "cleanup"} /\ pos' = pos
    <3>1. (up' = up \/ up' = FALSE) /\ (stepAt' = stepAt \/ stepAt' = "cleanup") /\ stepAt = "wait" /\ pos' = pos
      BY <1>9 DEF CollectStepResult, EndRun
    <3> QED
      BY <3>1 DEF RunnerTypeOK
  <2>5. errors' \in 0..MaxErrors
    <3>1. errors' = errors \/ (errors < MaxErrors /\ errors' = errors + 1)
      BY <1>9 DEF CollectStepResult
    <3> QED
      BY <3>1 DEF RunnerTypeOK
  <2> QED
    BY <1>9, <2>2, <2>3, <2>4, <2>5 DEF CollectStepResult, RunnerTypeOK
<1>10. CASE CleanupContainer
  <2>1. box' \in [Steps -> [Ids -> {"none", "running", "exited", "removed"}]]
    BY <1>10 DEF CleanupContainer, RunnerTypeOK
  <2> QED
    BY <1>10, <2>1 DEF CleanupContainer, NextCall, RunnerTypeOK, Working
<1>11. CASE RunAgent
  BY <1>11 DEF RunAgent, Working, RunnerTypeOK, Steps, Ids, Statuses
<1>12. CASE AgentReturns
  <2>1. pos \in Steps
    BY <1>12 DEF AgentReturns, Working, RunnerTypeOK, Steps
  <2>2. /\ mem' \in [Steps -> [status : Statuses, cid : Ids \cup {0}]]
        /\ disk' \in [Steps -> [status : Statuses, cid : Ids \cup {0}]]
    BY <1>12, <2>1, SetStepTypes DEF AgentReturns, Statuses
  <2>3. up' \in BOOLEAN /\ stepAt' \in {"call", "agent"} /\ pos' \in 1..LastCall + 1
    <3>1. (up' = up \/ up' = FALSE) /\ stepAt = "agent"
      BY <1>12 DEF AgentReturns, EndRun
    <3>2. (pos' = pos + 1 /\ stepAt' = "call") \/ (pos' = pos /\ stepAt' = stepAt)
      BY <1>12 DEF AgentReturns, NextCall
    <3>3. up' \in BOOLEAN
      BY <3>1 DEF RunnerTypeOK
    <3>4. pos' \in 1..LastCall + 1
      BY <2>1, <3>2 DEF Steps
    <3> QED
      BY <3>1, <3>2, <3>3, <3>4
  <2>4. errors' \in 0..MaxErrors
    <3>1. errors' = errors \/ (errors < MaxErrors /\ errors' = errors + 1)
      BY <1>12 DEF AgentReturns
    <3> QED
      BY <3>1 DEF RunnerTypeOK
  <2> QED
    BY <1>12, <2>2, <2>3, <2>4 DEF AgentReturns, RunnerTypeOK
<1>13. CASE StopRun
  BY <1>13 DEF StopRun, Working, RunnerTypeOK, Steps, Ids, Statuses
<1>14. CASE Crash
  BY <1>14 DEF Crash, Working, RunnerTypeOK, Steps, Ids, Statuses
<1>15. CASE Resume
  <2>1. session' \in 1..MaxSessions /\ pos' \in 1..LastCall + 1
    BY <1>15 DEF Resume, RunnerTypeOK
  <2> QED
    BY <1>15, <2>1 DEF Resume, RunnerTypeOK
<1>16. CASE FinishRun
  BY <1>16 DEF FinishRun, RunnerTypeOK, Steps, Ids, Statuses
<1>17. ASSUME NEW s \in Steps, NEW i \in Ids, Exits(s, i)
       PROVE  RunnerTypeOK'
  BY <1>17 DEF Exits, RunnerTypeOK, Steps, Ids, Statuses
<1>18. CASE UNCHANGED runnerVars
  BY <1>18 DEF runnerVars, RunnerTypeOK, Steps, Ids, Statuses
<1> QED
  BY <1>1, <1>2, <1>3, <1>4, <1>5, <1>6, <1>7, <1>8, <1>9, <1>10, <1>11, <1>12, <1>13, <1>14, <1>15, <1>16, <1>17, <1>18 DEF RunnerNext, Rest

\* Every step keeps StartedInv: what is attached to, waited for or collected was started.
LEMMA StartedStep ==
    ASSUME RunnerInv, [RunnerNext]_runnerVars
    PROVE  StartedInv'
<1> USE RunnerAssumption DEF RunnerInv
<1>1. CASE SkipCompleted
  BY <1>1 DEF SkipCompleted, NextCall, CanSkip, Here, Working, RunnerTypeOK, StartedInv, CompletedInv, Steps, Ids
<1>2. CASE MarkForRetry
  BY <1>2 DEF MarkForRetry, SetStep, St, Here, Working, RunnerTypeOK, StartedInv, CompletedInv, Steps, Ids
<1>3. CASE StartFresh
  BY <1>3 DEF StartFresh, Working, RunnerTypeOK, StartedInv, CompletedInv, Steps, Ids
<1>4. CASE Reattach
  BY <1>4 DEF Reattach, IsResumable, Here, Working, RunnerTypeOK, StartedInv, CompletedInv, Steps, Ids
<1>5. CASE ReattachedEnds
  BY <1>5 DEF ReattachedEnds, SetStep, St, Here, NextCall, EndRun, Working, RunnerTypeOK, StartedInv, CompletedInv, Steps, Ids
<1>6. CASE RunStep
  BY <1>6 DEF RunStep, SetStep, St, Working, RunnerTypeOK, StartedInv, CompletedInv, Steps, Ids
<1>7. CASE StartStepContainer
  <2>1. pos \in Steps
    BY <1>7 DEF StartStepContainer, Working, RunnerTypeOK, Steps
  <2>2. ASSUME NEW i \in Ids, ~stopped, stepAt = "start", pos' = pos,
               i \in IF Adopts /\ Existing # {} THEN Existing ELSE FirstFree,
               box' = [box EXCEPT ![pos][i] = IF @ = "none" THEN "running" ELSE @],
               started' = [started EXCEPT ![pos] = IF box[pos][i] = "none" THEN @ + 1 ELSE @]
        PROVE  StartedInv'
    <3>1. started[pos] \in Nat /\ started'[pos] > 0
      BY <2>1, <2>2 DEF RunnerTypeOK, StartedInv
    <3>2. \A s \in Steps : s # pos => box'[s] = box[s] /\ started'[s] = started[s]
      BY <2>1, <2>2 DEF RunnerTypeOK
    <3> QED
      BY <2>1, <2>2, <3>1, <3>2 DEF StartedInv
  <2>3. CASE UNCHANGED <<stepAt, box, started, pos>>
    BY <2>3 DEF StartedInv
  <2> QED
    BY <1>7, <2>2, <2>3 DEF StartStepContainer, Existing, FirstFree
<1>8. CASE SaveContainerId
  BY <1>8 DEF SaveContainerId, Working, RunnerTypeOK, StartedInv, CompletedInv, Steps, Ids
<1>9. CASE CollectStepResult
  BY <1>9 DEF CollectStepResult, SetStep, St, Here, EndRun, Working, RunnerTypeOK, StartedInv, CompletedInv, Steps, Ids
<1>10. CASE CleanupContainer
  <2>1. pos \in Steps /\ started' = started /\ stepAt' = "call"
    BY <1>10 DEF CleanupContainer, NextCall, Working, RunnerTypeOK, Steps
  <2>2. \A s \in Steps, i \in Ids : box'[s][i] # "none" => box[s][i] # "none" \/ (s = pos /\ i = Here.cid)
    BY <1>10, <2>1 DEF CleanupContainer, RunnerTypeOK
  <2>3. started[pos] > 0
    BY <1>10 DEF CleanupContainer, StartedInv
  <2> QED
    BY <2>1, <2>2, <2>3 DEF StartedInv
<1>11. CASE RunAgent
  BY <1>11 DEF RunAgent, Working, RunnerTypeOK, StartedInv, CompletedInv, Steps, Ids
<1>12. CASE AgentReturns
  BY <1>12 DEF AgentReturns, SetStep, St, NextCall, EndRun, Working, RunnerTypeOK, StartedInv, CompletedInv, Steps, Ids
<1>13. CASE StopRun
  BY <1>13 DEF StopRun, Working, RunnerTypeOK, StartedInv, CompletedInv, Steps, Ids
<1>14. CASE Crash
  BY <1>14 DEF Crash, Working, RunnerTypeOK, StartedInv, CompletedInv, Steps, Ids
<1>15. CASE Resume
  BY <1>15 DEF Resume, RunnerTypeOK, StartedInv, CompletedInv, Steps, Ids
<1>16. CASE FinishRun
  BY <1>16 DEF FinishRun, RunnerTypeOK, StartedInv, CompletedInv, Steps, Ids
<1>17. ASSUME NEW s \in Steps, NEW i \in Ids, Exits(s, i)
       PROVE  StartedInv'
  BY <1>17 DEF Exits, RunnerTypeOK, StartedInv, CompletedInv, Steps, Ids
<1>18. CASE UNCHANGED runnerVars
  BY <1>18 DEF runnerVars, RunnerTypeOK, StartedInv, CompletedInv, Steps, Ids
<1> QED
  BY <1>1, <1>2, <1>3, <1>4, <1>5, <1>6, <1>7, <1>8, <1>9, <1>10, <1>11, <1>12, <1>13, <1>14, <1>15, <1>16, <1>17, <1>18 DEF RunnerNext, Rest

\* Every step keeps CompletedInv, the stop that makes saving impossible and the resume included.
LEMMA CompletedStep ==
    ASSUME RunnerInv, [RunnerNext]_runnerVars
    PROVE  CompletedInv'
<1> USE RunnerAssumption DEF RunnerInv
<1>1. CASE SkipCompleted
  BY <1>1 DEF SkipCompleted, NextCall, CanSkip, Here, Working, RunnerTypeOK, CompletedInv, Completed, Steps
<1>2. CASE MarkForRetry
  BY <1>2 DEF MarkForRetry, SetStep, St, Here, Working, RunnerTypeOK, CompletedInv, Completed, Steps, ShouldRetry
<1>3. CASE StartFresh
  BY <1>3 DEF StartFresh, Working, RunnerTypeOK, CompletedInv, Completed, Steps, CanSkip, Here
<1>4. CASE Reattach
  BY <1>4 DEF Reattach, IsResumable, Here, Working, RunnerTypeOK, CompletedInv, Completed, Steps
<1>5. CASE ReattachedEnds
  <2>1. pos \in Steps /\ ~Completed(pos)
    BY <1>5 DEF ReattachedEnds, Working, RunnerTypeOK, CompletedInv
  <2>2. CASE stopped /\ EndRun /\ UNCHANGED <<pos, stepAt, mem, disk, box>>
    BY <2>2 DEF CompletedInv, Completed
  <2>3. CASE ~stopped /\ SetStep(St("completed", Here.cid)) /\ NextCall
    BY <2>1, <2>3, CompletingChange DEF RunnerTypeOK, CompletedInv, NextCall, Steps
  <2> QED
    BY <1>5, <2>2, <2>3 DEF ReattachedEnds
<1>6. CASE RunStep
  BY <1>6 DEF RunStep, SetStep, St, Working, RunnerTypeOK, CompletedInv, Completed, Steps
<1>7. CASE StartStepContainer
  <2>1. pos \in Steps /\ ~Completed(pos) /\ pos' = pos /\ stepAt = "start"
    BY <1>7 DEF StartStepContainer, Working, RunnerTypeOK, CompletedInv
  <2>2. ASSUME NEW i, mem' = [mem EXCEPT ![pos] = St("running", i)], stepAt' = "saveId", disk' = disk
        PROVE  CompletedInv'
    BY <2>1, <2>2 DEF CompletedInv, Completed, RunnerTypeOK, St
  <2>3. CASE SetStep(St(IF stopped THEN "aborted" ELSE "failed", 0)) /\ stepAt' = stepAt
    <3>1. \A s \in Steps : /\ mem'[s].status = "completed" <=> Completed(s)
                           /\ Completed(s)' <=> Completed(s)
      BY <2>1, <2>3, OtherChange
    <3> QED
      BY <2>1, <2>3, <3>1 DEF CompletedInv
  <2> QED
    BY <1>7, <2>2, <2>3 DEF StartStepContainer
<1>8. CASE SaveContainerId
  BY <1>8 DEF SaveContainerId, Working, RunnerTypeOK, CompletedInv, Completed, Steps
<1>9. CASE CollectStepResult
  <2>1. pos \in Steps /\ ~Completed(pos) /\ pos' = pos /\ stepAt = "wait"
    BY <1>9 DEF CollectStepResult, Working, RunnerTypeOK, CompletedInv
  <2>2. CASE ~stopped /\ SetStep(St("completed", Here.cid)) /\ stepAt' = "cleanup"
    BY <2>1, <2>2, CompletingChange DEF CompletedInv, RunnerTypeOK, Steps
  <2>3. ASSUME NEW x \in {"aborted", "failed"}, SetStep(St(x, Here.cid)), stepAt' = stepAt
        PROVE  CompletedInv'
    <3>1. \A s \in Steps : /\ mem'[s].status = "completed" <=> Completed(s)
                           /\ Completed(s)' <=> Completed(s)
      BY <2>1, <2>3, OtherChange
    <3> QED
      BY <2>1, <2>3, <3>1 DEF CompletedInv
  <2> QED
    BY <1>9, <2>2, <2>3 DEF CollectStepResult
<1>10. CASE CleanupContainer
  BY <1>10 DEF CleanupContainer, Here, NextCall, Working, RunnerTypeOK, CompletedInv, Completed, Steps
<1>11. CASE RunAgent
  BY <1>11 DEF RunAgent, Working, RunnerTypeOK, CompletedInv, Completed, Steps
<1>12. CASE AgentReturns
  <2>1. pos \in Steps /\ ~Completed(pos) /\ stepAt = "agent"
    BY <1>12 DEF AgentReturns, Working, RunnerTypeOK, CompletedInv
  <2>2. CASE ~stopped /\ SetStep(St("completed", 0)) /\ NextCall
    BY <2>1, <2>2, CompletingChange DEF CompletedInv, RunnerTypeOK, NextCall, Steps
  <2>3. CASE SetStep(St("failed", 0)) /\ UNCHANGED <<pos, stepAt>>
    <3>1. \A s \in Steps : /\ mem'[s].status = "completed" <=> Completed(s)
                           /\ Completed(s)' <=> Completed(s)
      BY <2>1, <2>3, OtherChange
    <3> QED
      BY <2>1, <2>3, <3>1 DEF CompletedInv
  <2> QED
    BY <1>12, <2>2, <2>3 DEF AgentReturns
<1>13. CASE StopRun
  BY <1>13 DEF StopRun, Working, RunnerTypeOK, CompletedInv, Completed, Steps
<1>14. CASE Crash
  BY <1>14 DEF Crash, Working, RunnerTypeOK, CompletedInv, Completed, Steps
<1>15. CASE Resume
  BY <1>15 DEF Resume, RunnerTypeOK, CompletedInv, Completed, Steps
<1>16. CASE FinishRun
  BY <1>16 DEF FinishRun, RunnerTypeOK, CompletedInv, Completed, Steps
<1>17. ASSUME NEW s \in Steps, NEW i \in Ids, Exits(s, i)
       PROVE  CompletedInv'
  BY <1>17 DEF Exits, RunnerTypeOK, CompletedInv, Completed, Steps
<1>18. CASE UNCHANGED runnerVars
  BY <1>18 DEF runnerVars, RunnerTypeOK, CompletedInv, Completed, Steps
<1> QED
  BY <1>1, <1>2, <1>3, <1>4, <1>5, <1>6, <1>7, <1>8, <1>9, <1>10, <1>11, <1>12, <1>13, <1>14, <1>15, <1>16, <1>17, <1>18 DEF RunnerNext, Rest

\* The invariant holds of every state of the runner.
THEOREM RunnerInvariant == RunnerSpec => []RunnerInv
<1>1. RunnerInit => RunnerInv
  <2> SUFFICES ASSUME RunnerInit
               PROVE  RunnerInv
    OBVIOUS
  <2>1. RunnerTypeOK
    <3>1. 1 \in 1..MaxSessions /\ 1 \in 1..LastCall + 1 /\ 0 \in 0..MaxErrors
      BY RunnerAssumption
    <3>2. Absent \in [status : Statuses, cid : Ids \cup {0}]
      BY DEF Absent, Statuses
    <3> QED
      BY <3>1, <3>2 DEF RunnerInit, RunnerTypeOK
  <2>2. StartedInv
    BY DEF RunnerInit, StartedInv
  <2>3. CompletedInv
    BY RunnerAssumption DEF RunnerInit, CompletedInv, Completed, Absent, Steps
  <2> QED
    BY <2>1, <2>2, <2>3 DEF RunnerInv
<1>2. RunnerInv /\ [RunnerNext]_runnerVars => RunnerInv'
  BY RunnerTypeStep, StartedStep, CompletedStep DEF RunnerInv
<1> QED
  BY <1>1, <1>2, PTL DEF RunnerSpec

-----------------------------------------------------------------------------
(* OneContainerPerStep. *)

\* With a driver that adopts a container of the same name, no step makes a second live container.
LEMMA OneLiveStep ==
    ASSUME Adopts, RunnerTypeOK, OneLive, [RunnerNext]_runnerVars
    PROVE  OneLive'
<1>1. ASSUME \A s \in Steps : Live(s)' \subseteq Live(s)
      PROVE  OneLive'
  BY <1>1 DEF OneLive
<1>2. CASE UNCHANGED box
  BY <1>1, <1>2 DEF Live
<1>3. ASSUME NEW i, box' = [box EXCEPT ![pos][i] = "removed"]
      PROVE  OneLive'
  BY <1>1, <1>3 DEF Live, RunnerTypeOK
<1>4. CASE ReattachedEnds
  BY <1>2, <1>3, <1>4 DEF ReattachedEnds
<1>5. CASE CollectStepResult
  BY <1>2, <1>3, <1>5 DEF CollectStepResult
<1>6. CASE CleanupContainer
  BY <1>1, <1>6 DEF CleanupContainer, Live, RunnerTypeOK
<1>7. ASSUME NEW s \in Steps, NEW i \in Ids, Exits(s, i)
      PROVE  OneLive'
  BY <1>1, <1>7 DEF Exits, Live, RunnerTypeOK
<1>8. CASE StartStepContainer
  <2>1. pos \in Steps
    BY <1>8, RunnerAssumption DEF StartStepContainer, Working, RunnerTypeOK, Steps
  <2>2. ASSUME NEW i \in IF Adopts /\ Existing # {} THEN Existing ELSE FirstFree,
               box' = [box EXCEPT ![pos][i] = IF @ = "none" THEN "running" ELSE @], pos' = pos
        PROVE  OneLive'
    <3>1. CASE Existing # {}
      <4>1. i \in Ids /\ box[pos][i] # "none"
        BY <2>2, <3>1 DEF Existing
      <4>2. \A s \in Steps, k \in Ids : box'[s][k] = box[s][k]
        BY <2>1, <2>2, <4>1 DEF RunnerTypeOK
      <4> QED
        BY <1>1, <4>2 DEF Live
    <3>2. CASE Existing = {}
      <4>1. i \in Ids
        BY <2>2, <3>2 DEF FirstFree
      <4>2. Live(pos)' \subseteq {i}
        BY <2>1, <2>2, <3>2 DEF Live, Existing, RunnerTypeOK
      <4>3. \A s \in Steps : s # pos => Live(s)' = Live(s)
        BY <2>1, <2>2 DEF Live, RunnerTypeOK
      <4> QED
        BY <2>2, <4>2, <4>3 DEF OneLive
    <3> QED
      BY <3>1, <3>2
  <2> QED
    BY <1>2, <1>8, <2>2 DEF StartStepContainer
<1> QED
  BY <1>2, <1>4, <1>5, <1>6, <1>7, <1>8 DEF RunnerNext, Rest, runnerVars, SkipCompleted, MarkForRetry, StartFresh,
     Reattach, RunStep, SaveContainerId, RunAgent, AgentReturns, StopRun, Crash, Resume, FinishRun

\* However the process crashes, is stopped and resumed, and however lookups fail, a step never has two running
\* containers when the driver adopts the one that has the step's name.
THEOREM StepsHaveOneContainer == Adopts => (RunnerSpec => []OneContainerPerStep)
<1> SUFFICES ASSUME Adopts
             PROVE  RunnerSpec => []OneContainerPerStep
  OBVIOUS
<1>1. RunnerInit => OneLive
  BY DEF RunnerInit, OneLive, Live, Steps, Ids
<1>2. OneLive => OneContainerPerStep
  <2> SUFFICES ASSUME OneLive, NEW s \in Steps
               PROVE  Cardinality({i \in Ids : box[s][i] = "running"}) <= 1
    BY DEF OneContainerPerStep
  <2> DEFINE R == {i \in Ids : box[s][i] = "running"}
  <2>1. \A i, j \in R : i = j
    BY DEF OneLive, Live
  <2>2. CASE R = {}
    BY <2>2, FS_EmptySet
  <2>3. ASSUME NEW i \in R
        PROVE  Cardinality(R) <= 1
    <3>1. R = {i}
      BY <2>1
    <3> HIDE DEF R
    <3> QED
      BY <3>1, FS_Singleton
  <2> QED
    BY <2>2, <2>3
<1>3. RunnerInv /\ OneLive /\ [RunnerNext]_runnerVars => OneLive'
  BY OneLiveStep DEF RunnerInv
<1> QED
  BY <1>1, <1>2, <1>3, RunnerInvariant, PTL DEF RunnerSpec

-----------------------------------------------------------------------------
(* RunsStepByStep: the refinement of StepSequence. *)

\* While the current call is not completed, the completed steps are the ones before it.
LEMMA DoneBeforeWork ==
    ASSUME RunnerInv, pos \in Steps, ~Completed(pos)
    PROVE  Done = pos - 1
<1> DEFINE D == {s \in Steps : \A t \in 1..s : disk[t].status = "completed"}
<1>1. pos - 1 \in Nat
  BY RunnerAssumption DEF Steps
<1>2. D = 1..(pos - 1)
  BY <1>1, RunnerAssumption DEF RunnerInv, CompletedInv, Completed, Steps
<1>3. Cardinality(1..(pos - 1)) = pos - 1
  BY <1>1, FS_Interval
<1> QED
  BY <1>2, <1>3 DEF Done

\* Done depends only on which steps are saved as completed.
LEMMA DoneStays ==
    ASSUME \A s \in Steps : Completed(s)' <=> Completed(s)
    PROVE  Done' = Done
<1> DEFINE D == {s \in Steps : \A t \in 1..s : disk[t].status = "completed"}
<1>1. \A s \in Steps : 1..s \subseteq Steps
  BY RunnerAssumption DEF Steps
<1>2. D' = D
  BY <1>1 DEF Completed
<1> QED
  BY <1>2 DEF Done

\* A completion of the current step completes one step of the sequence.
LEMMA DoneGrows ==
    ASSUME RunnerInv, pos \in Steps, ~Completed(pos), started[pos] > 0, started' = started,
           \A s \in Steps : Completed(s)' <=> (Completed(s) \/ s = pos)
    PROVE  Sequence!Complete
<1> DEFINE D == {s \in Steps : \A t \in 1..s : disk[t].status = "completed"}
<1>1. Done = pos - 1
  BY DoneBeforeWork
<1>2. \A s \in Steps : 1..s \subseteq Steps
  BY RunnerAssumption DEF Steps
<1>3. D' = 1..pos
  BY <1>2, RunnerAssumption DEF RunnerInv, CompletedInv, Completed, Steps
<1>4. Done' = pos
  <2>1. pos \in Nat /\ 1 \in Int /\ pos \in Int /\ pos >= 1
    BY RunnerAssumption DEF Steps
  <2>2. Cardinality(1..pos) = pos
    BY <2>1, FS_Interval
  <2> QED
    BY <1>3, <2>2 DEF Done
<1> QED
  BY <1>1, <1>4, RunnerAssumption DEF Sequence!Complete, Steps

\* A container or an agent that is started is work on the first step that is not done.
LEMMA WorkIsOnTheNext ==
    ASSUME RunnerInv, pos \in Steps, ~Completed(pos), disk' = disk,
           started' = [started EXCEPT ![pos] = @ + 1]
    PROVE  Sequence!Work
<1>1. Done = pos - 1 /\ Done + 1 = pos /\ Done < LastCall
  BY DoneBeforeWork, RunnerAssumption DEF Steps
<1>2. Done' = Done
  BY DoneStays DEF Completed
<1> QED
  BY <1>1, <1>2 DEF Sequence!Work

\* Every step of the runner is a step of the sequence, or changes nothing the sequence speaks of.
LEMMA RunnerRefinesStep ==
    ASSUME RunnerInv, [RunnerNext]_runnerVars
    PROVE  [Sequence!Next]_<<Done, started>>
<1> USE DEF RunnerInv
<1>1. ASSUME \A s \in Steps : Completed(s)' <=> Completed(s), started' = started
      PROVE  [Sequence!Next]_<<Done, started>>
  BY <1>1, DoneStays
<1>2. CASE UNCHANGED <<disk, started>>
  BY <1>1, <1>2 DEF Completed
<1>3. ASSUME pos \in Steps, ~Completed(pos), NEW x, x # "completed", NEW c, SetStep(St(x, c)), started' = started
      PROVE  [Sequence!Next]_<<Done, started>>
  BY <1>1, <1>3, OtherChange
<1>4. ASSUME pos \in Steps, ~Completed(pos), ~stopped, NEW c, SetStep(St("completed", c)), started' = started,
             started[pos] > 0
      PROVE  [Sequence!Next]_<<Done, started>>
  <2>1. Sequence!Complete
    BY <1>4, CompletingChange, DoneGrows
  <2> QED
    BY <2>1 DEF Sequence!Next
<1>5. ASSUME pos \in Steps, ~Completed(pos), disk' = disk, started' = [started EXCEPT ![pos] = @ + 1]
      PROVE  [Sequence!Next]_<<Done, started>>
  BY <1>5, WorkIsOnTheNext DEF Sequence!Next
<1>6. stepAt \in {"fresh", "attached", "start", "saveId", "wait", "agent"} => pos \in Steps /\ ~Completed(pos)
  BY DEF CompletedInv
<1>7. stepAt \in {"attached", "saveId", "wait", "cleanup", "agent"} => started[pos] > 0
  BY DEF StartedInv
<1>8. CASE MarkForRetry
  <2>1. pos \in Steps /\ ~Completed(pos)
    BY <1>8, RunnerAssumption DEF MarkForRetry, Working, ShouldRetry, Here, CompletedInv, RunnerTypeOK, Steps
  <2> QED
    BY <1>3, <1>8, <2>1 DEF MarkForRetry
<1>9. CASE ReattachedEnds
  BY <1>2, <1>4, <1>6, <1>7, <1>9 DEF ReattachedEnds
<1>10. CASE RunStep
  BY <1>3, <1>6, <1>10 DEF RunStep
<1>11. CASE StartStepContainer
  <2>1. pos \in Steps /\ ~Completed(pos)
    BY <1>6, <1>11 DEF StartStepContainer
  <2>2. ASSUME NEW i, started' = [started EXCEPT ![pos] = IF box[pos][i] = "none" THEN @ + 1 ELSE @], disk' = disk
        PROVE  [Sequence!Next]_<<Done, started>>
    <3>1. CASE box[pos][i] = "none"
      BY <1>5, <2>1, <2>2, <3>1
    <3>2. CASE box[pos][i] # "none"
      <4>1. started' = started
        BY <2>1, <2>2, <3>2 DEF RunnerTypeOK
      <4> QED
        BY <1>2, <2>2, <4>1
    <3> QED
      BY <3>1, <3>2
  <2>3. CASE SetStep(St(IF stopped THEN "aborted" ELSE "failed", 0)) /\ started' = started
    <3>1. (IF stopped THEN "aborted" ELSE "failed") # "completed"
      OBVIOUS
    <3> QED
      BY <1>3, <2>1, <2>3, <3>1
  <2> QED
    BY <1>11, <2>2, <2>3 DEF StartStepContainer
<1>12. CASE SaveContainerId
  <2>1. \A s \in Steps : Completed(s)' <=> Completed(s)
    BY <1>12 DEF SaveContainerId, Completed, CompletedInv
  <2> QED
    BY <1>1, <1>12, <2>1 DEF SaveContainerId
<1>13. CASE CollectStepResult
  BY <1>3, <1>4, <1>6, <1>7, <1>13 DEF CollectStepResult
<1>14. CASE RunAgent
  BY <1>5, <1>6, <1>14 DEF RunAgent
<1>15. CASE AgentReturns
  BY <1>3, <1>4, <1>6, <1>7, <1>15 DEF AgentReturns
<1> QED
  BY <1>2, <1>8, <1>9, <1>10, <1>11, <1>12, <1>13, <1>14, <1>15 DEF RunnerNext, Rest, runnerVars, SkipCompleted,
     StartFresh, Reattach, CleanupContainer, StopRun, Crash, Resume, FinishRun, Exits

\* A resumable run implements StepSequence for every script, whatever crashes, stops, resumes and errors fall
\* between its steps: what is saved as completed stays so, and only the first step that is not is ever worked on.
THEOREM ResumableRunIsSequential == RunnerSpec => RunsStepByStep
<1>1. RunnerInit => Sequence!Init
  <2> SUFFICES ASSUME RunnerInit
               PROVE  Sequence!Init
    OBVIOUS
  <2>1. {s \in Steps : \A t \in 1..s : disk[t].status = "completed"} = {}
    BY RunnerAssumption DEF RunnerInit, Absent, Steps
  <2>2. Done = 0
    BY <2>1, FS_EmptySet DEF Done
  <2> QED
    BY <2>2 DEF RunnerInit, Sequence!Init, Steps
<1>2. RunnerInv /\ [RunnerNext]_runnerVars => [Sequence!Next]_<<Done, started>>
  BY RunnerRefinesStep
<1> QED
  BY <1>1, <1>2, RunnerInvariant, PTL DEF RunnerSpec, RunsStepByStep, Sequence!Spec

-----------------------------------------------------------------------------
(* ScriptRuntime *)

\* The calls the wait group counts.
Busy == {"working", "installed", "talking", "collecting", "jobPosting", "sleeping", "posted"}
Counted == {c \in Calls : goroutine[c] \in Busy}
PromiseInv == promises = Cardinality(Counted)

\* Which goroutines a call of a kind has.
KindInv ==
    \A c \in Calls :
      /\ goroutine[c] \in {"installed", "talking"} => KindOf[c] = "agent"
      /\ goroutine[c] = "collecting" => KindOf[c] = "stage"
      /\ goroutine[c] \in {"starting", "jobPosting", "sleeping"} => KindOf[c] = "job"
      /\ goroutine[c] \in {"working", "rejected"} => KindOf[c] # "job"

\* A posted function belongs to a call that is counted; nothing of a call is behind its outcome in the channel.
PostOf(p) ==
    /\ p.do = "output" => goroutine[p.call] \in Busy
    /\ p.do = "settle" => goroutine[p.call] = "posted" /\ KindOf[p.call] # "job"
    /\ p.do \in {"job", "poll"} => goroutine[p.call] = "posted" /\ KindOf[p.call] = "job"
PostInv ==
    /\ current # Idle => PostOf(current)
    /\ \A p \in Posts : tasks = <<p>> =>
         PostOf(p) /\ (current # Idle /\ current.do # "output" => p.call # current.call)

\* A promise is settled once.
SettledInv ==
    \A c \in settled : goroutine[c] \in {"rejected", "ended"} \/ (goroutine[c] = "posted" /\ current = Post("settle", c))

\* A call is made once, in the continuation of what it comes after; the jobs of a stage while it collects them.
Opened(t) ==
    IF KindOf[t] = "job" THEN goroutine[t] \in {"posted", "sleeping", "ended"} /\ tasks # <<Post("job", t)>>
    ELSE t \in settled
FrameInv ==
    \A d \in Calls :
      /\ d \in frame => goroutine[d] = "none" /\ KindOf[d] # "job"
      /\ (d \in frame \/ goroutine[d] # "none") /\ KindOf[d] # "job" /\ After[d] \in Calls => Opened(After[d])
StageInv ==
    \A d \in Calls : KindOf[d] = "job" =>
      /\ goroutine[d] # "none" => goroutine[After[d]] \in {"collecting", "posted", "ended"}
      /\ goroutine[d] = "starting" => goroutine[After[d]] = "collecting"

\* The channel is closed when nothing is running, posted or about to be.
LoopInv ==
    /\ loop = "script" => current = Idle
    /\ loop = "closed" => /\ current = Idle /\ tasks = <<>>
                          /\ \A c \in Calls : goroutine[c] \in {"none", "ended", "rejected"}

\* What has come to an end before an outcome is posted.
LastInv ==
    \A c \in Calls :
      /\ goroutine[c] \in {"posted", "ended"} \/ KindOf[c] \notin {"task", "agent"} => left[c] = 0
      /\ KindOf[c] = "stage" /\ goroutine[c] \in {"posted", "ended"} => \A j \in JobsOf(c) : goroutine[j] = "ended"
      /\ KindOf[c] = "job" /\ goroutine[c] = "ended" => c \in settled /\ Body(c) \subseteq settled

ScriptInv ==
    /\ ScriptTypeOK /\ PromiseInv /\ KindInv /\ PostInv /\ SettledInv /\ FrameInv /\ StageInv /\ LoopInv /\ LastInv

\* The channel is empty or holds one function.
LEMMA ShortQueue ==
    ASSUME ScriptTypeOK
    PROVE  tasks = <<>> \/ \E p \in Posts : tasks = <<p>>
<1>1. tasks \in Seq(Posts) /\ Len(tasks) \in Nat /\ Len(tasks) <= 1
  BY DEF ScriptTypeOK, Capacity
<1>2. CASE Len(tasks) = 0
  BY <1>1, <1>2, EmptySeq
<1>3. CASE Len(tasks) = 1
  <2>1. tasks[1] \in Posts
    BY <1>1, <1>3
  <2>2. <<tasks[1]>> \in Seq(Posts) /\ Len(<<tasks[1]>>) = 1 /\ <<tasks[1]>>[1] = tasks[1]
    BY <2>1
  <2>3. \A i \in 1..Len(tasks) : tasks[i] = <<tasks[1]>>[i]
    BY <1>3, <2>2
  <2>4. Len(tasks) = Len(<<tasks[1]>>)
    BY <1>3, <2>2
  <2> DEFINE t == <<tasks[1]>>
  <2>5. tasks = t
    <3> HIDE DEF t
    <3> QED
      BY <1>1, <2>2, <2>3, <2>4, SeqEqual DEF t
  <2> QED
    BY <2>1, <2>5
<1>4. Len(tasks) = 0 \/ Len(tasks) = 1
  <2>1. \A n \in Nat : n <= 1 => n = 0 \/ n = 1
    OBVIOUS
  <2> QED
    BY <1>1, <2>1
<1> QED
  BY <1>2, <1>3, <1>4

\* A send finds the channel empty.
LEMMA SendFacts ==
    ASSUME ScriptTypeOK, NEW f, NEW c, Send(f, c)
    PROVE  tasks = <<>> /\ tasks' = <<Post(f, c)>>
<1>1. Len(tasks) < 1 /\ tasks' = Append(tasks, Post(f, c))
  BY DEF Send, Capacity
<1>2. tasks = <<>>
  <2>1. \A p : Len(<<p>>) = 1
    OBVIOUS
  <2> QED
    BY <1>1, <2>1, ShortQueue
<1> QED
  BY <1>1, <1>2

\* A function that is taken was the only one.
LEMMA TakeFacts ==
    ASSUME ScriptTypeOK, TakeTask
    PROVE  /\ current' \in Posts /\ tasks = <<current'>> /\ tasks' = <<>>
           /\ frame' = CASE current'.do = "settle" -> Continuation(current'.call)
                        [] current'.do = "job"    -> Body(current'.call)
                        [] OTHER                  -> {}
           /\ settled' = IF current'.do = "settle" THEN settled \cup {current'.call} ELSE settled
           /\ UNCHANGED <<loop, promises, goroutine, left, agentFunc, calledWith, volumesClean>>
<1>1. PICK p \in Posts : tasks = <<p>>
  BY ShortQueue DEF TakeTask
<1>2. Head(tasks) = p /\ Tail(tasks) = <<>>
  BY <1>1
<1> QED
  BY <1>1, <1>2 DEF TakeTask

\* The counted calls are finitely many; one more or one less call is counted.
LEMMA CountFacts ==
    /\ IsFiniteSet(Counted) /\ Cardinality(Counted) \in Nat
    /\ \A c \in Calls :
         /\ c \in Counted => Cardinality(Counted \ {c}) = Cardinality(Counted) - 1
         /\ c \notin Counted => Cardinality(Counted \cup {c}) = Cardinality(Counted) + 1
<1>1. IsFiniteSet(Counted)
  BY ScriptAssumption, FS_Subset DEF Counted
<1> QED
  BY <1>1, FS_CardinalityType, FS_RemoveElement, FS_AddElement

\* Every step keeps the count of the promises.
LEMMA PromiseStep ==
    ASSUME ScriptInv, [ScriptNext]_scriptVars
    PROVE  PromiseInv'
<1> USE ScriptAssumption DEF ScriptInv
<1>1. CASE BeginWait
  BY <1>1 DEF BeginWait, PromiseInv, Counted
<1>2. CASE ScriptThrows
  BY <1>2 DEF ScriptThrows, PromiseInv, Counted
<1>3. CASE TakeTask
  BY <1>3 DEF TakeTask, PromiseInv, Counted
<1>4. CASE TaskReturns
  <2> DEFINE c == current.call
  <2>1. c \in Calls /\ current \in Posts /\ c \in Counted /\ (current.do # "output" => goroutine[c] = "posted")
    BY <1>4 DEF TaskReturns, ScriptTypeOK, Posts, PostInv, PostOf, Counted, Busy
  <2>2. CASE current.do = "output"
    BY <1>4, <2>2 DEF TaskReturns, PromiseInv, Counted
  <2>3. CASE current.do \in {"job", "poll"} /\ ~(Body(c) \subseteq settled)
    <3>1. goroutine' = [goroutine EXCEPT ![c] = "sleeping"] /\ promises' = promises + 1 - 1
      BY <1>4, <2>3 DEF TaskReturns
    <3>2. Counted' = Counted
      BY <2>1, <3>1 DEF Counted, Busy, ScriptTypeOK
    <3> QED
      BY <3>1, <3>2 DEF PromiseInv, ScriptTypeOK
  <2>4. CASE current.do # "output" /\ ~(current.do \in {"job", "poll"} /\ ~(Body(c) \subseteq settled))
    <3>1. goroutine' = [goroutine EXCEPT ![c] = "ended"] /\ promises' = promises + 0 - 1
      BY <1>4, <2>4 DEF TaskReturns
    <3>2. Counted' = Counted \ {c}
      BY <2>1, <3>1 DEF Counted, Busy, ScriptTypeOK
    <3>3. Cardinality(Counted \ {c}) = Cardinality(Counted) - 1
      BY <2>1, CountFacts
    <3>4. Cardinality(Counted') = Cardinality(Counted \ {c})
      BY <3>2, Zenon
    <3> QED
      BY <3>1, <3>3, <3>4 DEF PromiseInv, ScriptTypeOK
  <2> QED
    BY <2>2, <2>3, <2>4
<1>5. CASE CloseTasks
  BY <1>5 DEF CloseTasks, PromiseInv, Counted
<1>6. CASE FinishScript
  BY <1>6 DEF FinishScript, PromiseInv, Counted
<1>7. ASSUME NEW c \in Calls, RejectImmediate(c)
      PROVE  PromiseInv'
  <2>1. Counted' = Counted
    BY <1>7 DEF RejectImmediate, Counted, Busy, ScriptTypeOK, FrameInv, Go
  <2> QED
    BY <1>7, <2>1 DEF RejectImmediate, PromiseInv
<1>8. ASSUME NEW c \in Calls, AsyncTask(c)
      PROVE  PromiseInv'
  <2>1. c \notin Counted /\ Counted' = Counted \cup {c}
    BY <1>8 DEF AsyncTask, Counted, Busy, ScriptTypeOK, FrameInv, Go
  <2>2. Cardinality(Counted \cup {c}) = Cardinality(Counted) + 1
    BY <2>1, CountFacts
  <2>3. Cardinality(Counted') = Cardinality(Counted \cup {c})
    BY <2>1, Zenon
  <2> QED
    BY <1>8, <2>2, <2>3 DEF AsyncTask, PromiseInv
<1>9. ASSUME NEW c \in Calls, AsyncNotify(c)
      PROVE  PromiseInv'
  <2>1. c \notin Counted /\ Counted' = Counted \cup {c}
    BY <1>9 DEF AsyncNotify, Counted, Busy, ScriptTypeOK, FrameInv, Go
  <2>2. Cardinality(Counted \cup {c}) = Cardinality(Counted) + 1
    BY <2>1, CountFacts
  <2>3. Cardinality(Counted') = Cardinality(Counted \cup {c})
    BY <2>1, Zenon
  <2> QED
    BY <1>9, <2>2, <2>3 DEF AsyncNotify, PromiseInv
<1>10. ASSUME NEW c \in Calls, PostOutput(c)
      PROVE  PromiseInv'
  <2>1. Counted' = Counted
    BY <1>10 DEF PostOutput, Counted, Busy, ScriptTypeOK
  <2> QED
    BY <1>10, <2>1 DEF PostOutput, PromiseInv
<1>11. ASSUME NEW c \in Calls, InstallAgentFunc(c)
      PROVE  PromiseInv'
  <2>1. Counted' = Counted
    BY <1>11 DEF InstallAgentFunc, Counted, Busy, ScriptTypeOK, Go
  <2> QED
    BY <1>11, <2>1 DEF InstallAgentFunc, PromiseInv
<1>12. ASSUME NEW c \in Calls, CallAgent(c)
      PROVE  PromiseInv'
  <2>1. Counted' = Counted
    BY <1>12 DEF CallAgent, Counted, Busy, ScriptTypeOK, Go
  <2> QED
    BY <1>12, <2>1 DEF CallAgent, PromiseInv
<1>13. ASSUME NEW c \in Calls, RunStageJobs(c)
      PROVE  PromiseInv'
  <2>1. Counted' = Counted
    BY <1>13 DEF RunStageJobs, Counted, Busy, ScriptTypeOK, JobsOf, StageInv
  <2> QED
    BY <1>13, <2>1 DEF RunStageJobs, PromiseInv
<1>14. ASSUME NEW c \in Calls, PostJob(c)
      PROVE  PromiseInv'
  <2>1. c \notin Counted /\ Counted' = Counted \cup {c}
    BY <1>14 DEF PostJob, Counted, Busy, ScriptTypeOK, Go
  <2>2. Cardinality(Counted \cup {c}) = Cardinality(Counted) + 1
    BY <2>1, CountFacts
  <2>3. Cardinality(Counted') = Cardinality(Counted \cup {c})
    BY <2>1, Zenon
  <2> QED
    BY <1>14, <2>2, <2>3 DEF PostJob, PromiseInv
<1>15. ASSUME NEW c \in Calls, PostCheck(c)
      PROVE  PromiseInv'
  <2>1. Counted' = Counted
    BY <1>15 DEF PostCheck, Counted, Busy, ScriptTypeOK, Go
  <2> QED
    BY <1>15, <2>1 DEF PostCheck, PromiseInv
<1>16. ASSUME NEW c \in Calls, PostResult(c)
      PROVE  PromiseInv'
  <2>1. Counted' = Counted
    BY <1>16 DEF PostResult, Counted, Busy, ScriptTypeOK, Go
  <2> QED
    BY <1>16, <2>1 DEF PostResult, PromiseInv
<1>17. CASE UNCHANGED scriptVars
  BY <1>17 DEF scriptVars, PromiseInv, Counted
<1> QED
  BY <1>1, <1>2, <1>3, <1>4, <1>5, <1>6, <1>7, <1>8, <1>9, <1>10, <1>11, <1>12, <1>13, <1>14, <1>15, <1>16, <1>17 DEF ScriptNext, Step, Over

\* Every step keeps the types of the event loop.
LEMMA ScriptTypeStep ==
    ASSUME ScriptInv, [ScriptNext]_scriptVars
    PROVE  ScriptTypeOK'
<1> USE ScriptAssumption DEF ScriptInv
<1>1. CASE BeginWait
  BY <1>1 DEF BeginWait, ScriptTypeOK, Posts, Post, Idle, Capacity
<1>2. CASE ScriptThrows
  BY <1>2 DEF ScriptThrows, ScriptTypeOK, Posts, Post, Idle, Capacity
<1>3. CASE TakeTask
  <2>1. current' \in Posts /\ tasks' = <<>>
    BY <1>3, TakeFacts
  <2>2. frame' \subseteq Calls
    BY <1>3, TakeFacts DEF Continuation, Body
  <2>3. settled' \subseteq Calls
    BY <1>3, <2>1, TakeFacts DEF ScriptTypeOK, Posts
  <2>4. tasks' \in Seq(Posts) /\ Len(tasks') <= Capacity
    BY <2>1 DEF Capacity
  <2> QED
    BY <1>3, <2>1, <2>2, <2>3, <2>4, TakeFacts DEF ScriptTypeOK
<1>4. CASE TaskReturns
  <2>1. promises' \in Nat
    BY PromiseStep, CountFacts, FS_Subset, FS_CardinalityType DEF PromiseInv, Counted
  <2>2. current \in Posts /\ current.call \in Calls
    BY <1>4 DEF TaskReturns, ScriptTypeOK, Posts
  <2>3. settled' \subseteq Calls
    BY <1>4, <2>2 DEF TaskReturns, ScriptTypeOK
  <2>4. \/ goroutine' = goroutine \/ goroutine' = [goroutine EXCEPT ![current.call] = "ended"]
        \/ goroutine' = [goroutine EXCEPT ![current.call] = "sleeping"]
    BY <1>4 DEF TaskReturns
  <2> QED
    BY <1>4, <2>1, <2>3, <2>4 DEF TaskReturns, ScriptTypeOK
<1>5. CASE CloseTasks
  BY <1>5 DEF CloseTasks, ScriptTypeOK, Posts, Post, Idle, Capacity
<1>6. CASE FinishScript
  BY <1>6 DEF FinishScript, ScriptTypeOK, Posts, Post, Idle, Capacity
<1>7. ASSUME NEW c \in Calls, RejectImmediate(c)
      PROVE  ScriptTypeOK'
  BY <1>7 DEF RejectImmediate, Go, Continuation, ScriptTypeOK
<1>8. ASSUME NEW c \in Calls, AsyncTask(c)
      PROVE  ScriptTypeOK'
  BY <1>8 DEF AsyncTask, Go, ScriptTypeOK, Posts, Post, Idle, Capacity
<1>9. ASSUME NEW c \in Calls, AsyncNotify(c)
      PROVE  ScriptTypeOK'
  <2>1. tasks' = <<Post("settle", c)>>
    BY <1>9, SendFacts DEF AsyncNotify
  <2>2. tasks' \in Seq(Posts) /\ Len(tasks') <= Capacity
    BY <2>1 DEF Posts, Post, Capacity
  <2> QED
    BY <1>9, <2>2 DEF AsyncNotify, ScriptTypeOK, Go
<1>10. ASSUME NEW c \in Calls, PostOutput(c)
      PROVE  ScriptTypeOK'
  <2>1. tasks' = <<Post("output", c)>>
    BY <1>10, SendFacts DEF PostOutput
  <2>2. tasks' \in Seq(Posts) /\ Len(tasks') <= Capacity
    BY <2>1 DEF Posts, Post, Capacity
  <2> QED
    BY <1>10, <2>2 DEF PostOutput, ScriptTypeOK
<1>11. ASSUME NEW c \in Calls, InstallAgentFunc(c)
      PROVE  ScriptTypeOK'
  BY <1>11 DEF InstallAgentFunc, Go, ScriptTypeOK, Posts, Post, Idle, Capacity
<1>12. ASSUME NEW c \in Calls, CallAgent(c)
      PROVE  ScriptTypeOK'
  BY <1>12 DEF CallAgent, Go, ScriptTypeOK, Posts, Post, Idle, Capacity
<1>13. ASSUME NEW c \in Calls, RunStageJobs(c)
      PROVE  ScriptTypeOK'
  BY <1>13 DEF RunStageJobs, ScriptTypeOK, Posts, Post, Idle, Capacity
<1>14. ASSUME NEW c \in Calls, PostJob(c)
      PROVE  ScriptTypeOK'
  BY <1>14 DEF PostJob, Go, ScriptTypeOK, Posts, Post, Idle, Capacity
<1>15. ASSUME NEW c \in Calls, PostCheck(c)
      PROVE  ScriptTypeOK'
  <2>1. PICK f \in {"poll", "job"} : tasks' = <<Post(f, c)>>
    BY <1>15, SendFacts DEF PostCheck
  <2>2. Post(f, c) \in Posts
    BY DEF Posts, Post
  <2>3. tasks' \in Seq(Posts) /\ Len(tasks') <= Capacity
    BY <2>1, <2>2 DEF Capacity
  <2> QED
    BY <1>15, <2>3 DEF PostCheck, ScriptTypeOK, Go
<1>16. ASSUME NEW c \in Calls, PostResult(c)
      PROVE  ScriptTypeOK'
  <2>1. tasks' = <<Post("settle", c)>>
    BY <1>16, SendFacts DEF PostResult
  <2>2. tasks' \in Seq(Posts) /\ Len(tasks') <= Capacity
    BY <2>1 DEF Posts, Post, Capacity
  <2> QED
    BY <1>16, <2>2 DEF PostResult, ScriptTypeOK, Go
<1>17. CASE UNCHANGED scriptVars
  BY <1>17 DEF scriptVars, ScriptTypeOK, Posts, Post, Idle, Capacity
<1> QED
  BY <1>1, <1>2, <1>3, <1>4, <1>5, <1>6, <1>7, <1>8, <1>9, <1>10, <1>11, <1>12, <1>13, <1>14, <1>15, <1>16, <1>17 DEF ScriptNext, Step, Over

\* Every step keeps KindInv.
LEMMA KindStep ==
    ASSUME ScriptInv, [ScriptNext]_scriptVars
    PROVE  KindInv'
<1> USE ScriptAssumption DEF ScriptInv
<1>1. CASE BeginWait
  BY <1>1 DEF BeginWait, ScriptTypeOK, KindInv
<1>2. CASE ScriptThrows
  BY <1>2 DEF ScriptThrows, ScriptTypeOK, KindInv
<1>3. CASE TakeTask
  BY <1>3, TakeFacts DEF ScriptTypeOK, KindInv
<1>4. CASE TaskReturns
  BY <1>4 DEF TaskReturns, ScriptTypeOK, KindInv, PostInv, PostOf
<1>5. CASE CloseTasks
  BY <1>5 DEF CloseTasks, ScriptTypeOK, KindInv
<1>6. CASE FinishScript
  BY <1>6 DEF FinishScript, ScriptTypeOK, KindInv
<1>7. ASSUME NEW c \in Calls, RejectImmediate(c)
      PROVE  KindInv'
  BY <1>7 DEF RejectImmediate, Go, ScriptTypeOK, KindInv, FrameInv
<1>8. ASSUME NEW c \in Calls, AsyncTask(c)
      PROVE  KindInv'
  BY <1>8 DEF AsyncTask, Go, ScriptTypeOK, KindInv, FrameInv
<1>9. ASSUME NEW c \in Calls, AsyncNotify(c)
      PROVE  KindInv'
  BY <1>9, SendFacts DEF AsyncNotify, Go, ScriptTypeOK, KindInv
<1>10. ASSUME NEW c \in Calls, PostOutput(c)
      PROVE  KindInv'
  BY <1>10, SendFacts DEF PostOutput, ScriptTypeOK, KindInv
<1>11. ASSUME NEW c \in Calls, InstallAgentFunc(c)
      PROVE  KindInv'
  BY <1>11 DEF InstallAgentFunc, Go, ScriptTypeOK, KindInv
<1>12. ASSUME NEW c \in Calls, CallAgent(c)
      PROVE  KindInv'
  BY <1>12 DEF CallAgent, Go, ScriptTypeOK, KindInv
<1>13. ASSUME NEW c \in Calls, RunStageJobs(c)
      PROVE  KindInv'
  BY <1>13 DEF RunStageJobs, ScriptTypeOK, KindInv, JobsOf
<1>14. ASSUME NEW c \in Calls, PostJob(c)
      PROVE  KindInv'
  BY <1>14 DEF PostJob, Go, ScriptTypeOK, KindInv
<1>15. ASSUME NEW c \in Calls, PostCheck(c)
      PROVE  KindInv'
  BY <1>15, SendFacts DEF PostCheck, Go, ScriptTypeOK, KindInv
<1>16. ASSUME NEW c \in Calls, PostResult(c)
      PROVE  KindInv'
  BY <1>16, SendFacts DEF PostResult, Go, ScriptTypeOK, KindInv
<1>17. CASE UNCHANGED scriptVars
  BY <1>17 DEF scriptVars, ScriptTypeOK, KindInv
<1> QED
  BY <1>1, <1>2, <1>3, <1>4, <1>5, <1>6, <1>7, <1>8, <1>9, <1>10, <1>11, <1>12, <1>13, <1>14, <1>15, <1>16, <1>17 DEF ScriptNext, Step, Over

\* Every step keeps PostInv.
LEMMA PostStep ==
    ASSUME ScriptInv, [ScriptNext]_scriptVars
    PROVE  PostInv'
<1> USE ScriptAssumption DEF ScriptInv
<1>1. CASE BeginWait
  BY <1>1 DEF BeginWait, ScriptTypeOK, PostInv, PostOf, Posts, Post, Idle, Busy
<1>2. CASE ScriptThrows
  BY <1>2 DEF ScriptThrows, ScriptTypeOK, PostInv, PostOf, Posts, Post, Idle, Busy
<1>3. CASE TakeTask
  <2>1. current' \in Posts /\ tasks = <<current'>> /\ tasks' = <<>> /\ goroutine' = goroutine
    BY <1>3, TakeFacts
  <2>2. PostOf(current')
    BY <2>1 DEF PostInv
  <2>3. \A p : tasks' # <<p>>
    BY <2>1
  <2> QED
    BY <2>1, <2>2, <2>3 DEF PostInv, PostOf
<1>4. CASE TaskReturns
  BY <1>4 DEF TaskReturns, ScriptTypeOK, PostInv, PostOf, Posts, Post, Idle, Busy
<1>5. CASE CloseTasks
  BY <1>5 DEF CloseTasks, ScriptTypeOK, PostInv, PostOf, Posts, Post, Idle, Busy
<1>6. CASE FinishScript
  BY <1>6 DEF FinishScript, ScriptTypeOK, PostInv, PostOf, Posts, Post, Idle, Busy
<1>7. ASSUME NEW c \in Calls, RejectImmediate(c)
      PROVE  PostInv'
  BY <1>7 DEF RejectImmediate, Go, ScriptTypeOK, PostInv, PostOf, Posts, Post, Idle, Busy, FrameInv
<1>8. ASSUME NEW c \in Calls, AsyncTask(c)
      PROVE  PostInv'
  BY <1>8 DEF AsyncTask, Go, ScriptTypeOK, PostInv, PostOf, Posts, Post, Idle, Busy, FrameInv
<1>9. ASSUME NEW c \in Calls, AsyncNotify(c)
      PROVE  PostInv'
  BY <1>9, SendFacts DEF AsyncNotify, Go, ScriptTypeOK, PostInv, PostOf, Posts, Post, Idle, Busy, FrameInv
<1>10. ASSUME NEW c \in Calls, PostOutput(c)
      PROVE  PostInv'
  BY <1>10, SendFacts DEF PostOutput, ScriptTypeOK, PostInv, PostOf, Posts, Post, Idle, Busy
<1>11. ASSUME NEW c \in Calls, InstallAgentFunc(c)
      PROVE  PostInv'
  BY <1>11 DEF InstallAgentFunc, Go, ScriptTypeOK, PostInv, PostOf, Posts, Post, Idle, Busy
<1>12. ASSUME NEW c \in Calls, CallAgent(c)
      PROVE  PostInv'
  BY <1>12 DEF CallAgent, Go, ScriptTypeOK, PostInv, PostOf, Posts, Post, Idle, Busy
<1>13. ASSUME NEW c \in Calls, RunStageJobs(c)
      PROVE  PostInv'
  <2>1. \A d \in Calls : goroutine[d] \in {"posted", "ended"} => goroutine'[d] = goroutine[d]
    BY <1>13 DEF RunStageJobs, ScriptTypeOK, StageInv, JobsOf
  <2>2. UNCHANGED <<current, tasks, left>>
    BY <1>13 DEF RunStageJobs
  <2>3. \A d \in Calls : goroutine[d] \in Busy => goroutine'[d] \in Busy
    BY <1>13 DEF RunStageJobs, ScriptTypeOK, StageInv, JobsOf, Busy
  <2>4. \A p \in Posts : p.call \in Calls
    BY DEF Posts, Post
  <2>5. current # Idle => current \in Posts
    BY DEF ScriptTypeOK
  <2>6. \A p \in Posts : PostOf(p) => PostOf(p)'
    BY <2>1, <2>3, <2>4 DEF PostOf
  <2> QED
    BY <2>2, <2>5, <2>6 DEF PostInv
<1>14. ASSUME NEW c \in Calls, PostJob(c)
      PROVE  PostInv'
  BY <1>14 DEF PostJob, Go, ScriptTypeOK, PostInv, PostOf, Posts, Post, Idle, Busy
<1>15. ASSUME NEW c \in Calls, PostCheck(c)
      PROVE  PostInv'
  BY <1>15, SendFacts DEF PostCheck, Go, ScriptTypeOK, PostInv, PostOf, Posts, Post, Idle, Busy, KindInv
<1>16. ASSUME NEW c \in Calls, PostResult(c)
      PROVE  PostInv'
  BY <1>16, SendFacts DEF PostResult, Go, ScriptTypeOK, PostInv, PostOf, Posts, Post, Idle, Busy, KindInv
<1>17. CASE UNCHANGED scriptVars
  BY <1>17 DEF scriptVars, ScriptTypeOK, PostInv, PostOf, Posts, Post, Idle, Busy
<1> QED
  BY <1>1, <1>2, <1>3, <1>4, <1>5, <1>6, <1>7, <1>8, <1>9, <1>10, <1>11, <1>12, <1>13, <1>14, <1>15, <1>16, <1>17 DEF ScriptNext, Step, Over

\* Every step keeps SettledInv.
LEMMA SettledStep ==
    ASSUME ScriptInv, [ScriptNext]_scriptVars
    PROVE  SettledInv'
<1> USE ScriptAssumption DEF ScriptInv
<1>1. CASE BeginWait
  BY <1>1 DEF BeginWait, ScriptTypeOK, SettledInv, Post, Idle
<1>2. CASE ScriptThrows
  BY <1>2 DEF ScriptThrows, ScriptTypeOK, SettledInv, Post, Idle
<1>3. CASE TakeTask
  <2>1. current' \in Posts /\ tasks = <<current'>> /\ goroutine' = goroutine /\ current = Idle
    BY <1>3, TakeFacts DEF TakeTask
  <2>2. \A c \in settled : goroutine[c] \in {"rejected", "ended"}
    BY <2>1 DEF SettledInv, Post, Idle
  <2>3. CASE current'.do = "settle"
    <3>1. settled' = settled \cup {current'.call} /\ goroutine[current'.call] = "posted"
      BY <1>3, <2>1, <2>3, TakeFacts DEF PostInv, PostOf
    <3>2. current' = Post("settle", current'.call)
      BY <2>1, <2>3 DEF Posts, Post
    <3> QED
      BY <2>1, <2>2, <3>1, <3>2 DEF SettledInv
  <2>4. CASE current'.do # "settle"
    <3>1. settled' = settled
      BY <1>3, <2>4, TakeFacts
    <3> QED
      BY <2>1, <2>2, <3>1 DEF SettledInv
  <2> QED
    BY <2>3, <2>4
<1>4. CASE TaskReturns
  <2> DEFINE c == current.call
  <2>1. c \in Calls /\ current \in Posts /\ (current.do # "output" => goroutine[c] = "posted") /\ current' = Idle
    BY <1>4 DEF TaskReturns, ScriptTypeOK, Posts, PostInv, PostOf
  <2>2. \A d \in settled : goroutine[d] \notin {"rejected", "ended"} => d = c /\ current.do = "settle"
    BY <2>1 DEF SettledInv, Post
  <2>3. CASE current.do = "output"
    BY <1>4, <2>2, <2>3 DEF TaskReturns, SettledInv
  <2>4. CASE current.do \in {"job", "poll"} /\ ~(Body(c) \subseteq settled)
    <3>1. goroutine' = [goroutine EXCEPT ![c] = "sleeping"] /\ settled' = settled
      BY <1>4, <2>4 DEF TaskReturns
    <3> QED
      BY <2>1, <2>2, <2>4, <3>1 DEF SettledInv, ScriptTypeOK
  <2>5. CASE current.do # "output" /\ ~(current.do \in {"job", "poll"} /\ ~(Body(c) \subseteq settled))
    <3>1. goroutine' = [goroutine EXCEPT ![c] = "ended"] /\ settled' \subseteq settled \cup {c}
      BY <1>4, <2>5 DEF TaskReturns
    <3> QED
      BY <2>1, <2>2, <3>1 DEF SettledInv, ScriptTypeOK
  <2> QED
    BY <2>3, <2>4, <2>5
<1>5. CASE CloseTasks
  BY <1>5 DEF CloseTasks, ScriptTypeOK, SettledInv, Post, Idle
<1>6. CASE FinishScript
  BY <1>6 DEF FinishScript, ScriptTypeOK, SettledInv, Post, Idle
<1>7. ASSUME NEW c \in Calls, RejectImmediate(c)
      PROVE  SettledInv'
  BY <1>7 DEF RejectImmediate, Go, ScriptTypeOK, SettledInv, Post, Idle, FrameInv
<1>8. ASSUME NEW c \in Calls, AsyncTask(c)
      PROVE  SettledInv'
  BY <1>8 DEF AsyncTask, Go, ScriptTypeOK, SettledInv, Post, Idle, FrameInv
<1>9. ASSUME NEW c \in Calls, AsyncNotify(c)
      PROVE  SettledInv'
  BY <1>9, SendFacts DEF AsyncNotify, Go, ScriptTypeOK, SettledInv, Post, Idle, FrameInv
<1>10. ASSUME NEW c \in Calls, PostOutput(c)
      PROVE  SettledInv'
  BY <1>10, SendFacts DEF PostOutput, ScriptTypeOK, SettledInv, Post, Idle
<1>11. ASSUME NEW c \in Calls, InstallAgentFunc(c)
      PROVE  SettledInv'
  BY <1>11 DEF InstallAgentFunc, Go, ScriptTypeOK, SettledInv, Post, Idle
<1>12. ASSUME NEW c \in Calls, CallAgent(c)
      PROVE  SettledInv'
  BY <1>12 DEF CallAgent, Go, ScriptTypeOK, SettledInv, Post, Idle
<1>13. ASSUME NEW c \in Calls, RunStageJobs(c)
      PROVE  SettledInv'
  BY <1>13 DEF RunStageJobs, ScriptTypeOK, SettledInv, Post, Idle, StageInv, JobsOf
<1>14. ASSUME NEW c \in Calls, PostJob(c)
      PROVE  SettledInv'
  BY <1>14 DEF PostJob, Go, ScriptTypeOK, SettledInv, Post, Idle
<1>15. ASSUME NEW c \in Calls, PostCheck(c)
      PROVE  SettledInv'
  BY <1>15, SendFacts DEF PostCheck, Go, ScriptTypeOK, SettledInv, Post, Idle
<1>16. ASSUME NEW c \in Calls, PostResult(c)
      PROVE  SettledInv'
  BY <1>16, SendFacts DEF PostResult, Go, ScriptTypeOK, SettledInv, Post, Idle
<1>17. CASE UNCHANGED scriptVars
  BY <1>17 DEF scriptVars, ScriptTypeOK, SettledInv, Post, Idle
<1> QED
  BY <1>1, <1>2, <1>3, <1>4, <1>5, <1>6, <1>7, <1>8, <1>9, <1>10, <1>11, <1>12, <1>13, <1>14, <1>15, <1>16, <1>17 DEF ScriptNext, Step, Over

\* Every step keeps FrameInv: no call is made twice.
LEMMA FrameStep ==
    ASSUME ScriptInv, [ScriptNext]_scriptVars
    PROVE  FrameInv'
<1> USE ScriptAssumption DEF ScriptInv
<1>1. CASE BeginWait
  BY <1>1 DEF BeginWait, ScriptTypeOK, FrameInv, Opened, Post
<1>2. CASE ScriptThrows
  BY <1>2 DEF ScriptThrows, ScriptTypeOK, FrameInv, Opened, Post
<1>3. CASE TakeTask
  <2>0. PICK t \in Calls : current'.call = t
    BY <1>3, TakeFacts DEF Posts
  <2>1. /\ current' \in Posts /\ tasks = <<current'>> /\ tasks' = <<>> /\ goroutine' = goroutine /\ current = Idle
        /\ current' = Post(current'.do, t)
    BY <1>3, <2>0, TakeFacts DEF TakeTask, Posts, Post
  <2>2. PostOf(current')
    BY <2>1 DEF PostInv
  <2>3. settled \subseteq settled' /\ (current'.do = "settle" => t \in settled')
    BY <1>3, <2>0, TakeFacts
  <2>4. \A x \in Calls : Opened(x) => Opened(x)'
    BY <2>1, <2>3 DEF Opened
  <2>5. CASE current'.do = "settle"
    <3>1. KindOf[t] # "job" /\ goroutine[t] = "posted" /\ frame' = Continuation(t)
      BY <1>3, <2>0, <2>2, <2>5, TakeFacts DEF PostOf
    <3>2. t \notin settled
      BY <2>1, <3>1 DEF SettledInv, Post, Idle
    <3>3. ~Opened(t) /\ Opened(t)'
      BY <2>3, <2>5, <3>1, <3>2 DEF Opened
    <3> QED
      BY <2>1, <2>4, <3>1, <3>3 DEF FrameInv, Continuation
  <2>6. CASE current'.do = "job"
    <3>1. KindOf[t] = "job" /\ goroutine[t] = "posted" /\ frame' = Body(t)
      BY <1>3, <2>0, <2>2, <2>6, TakeFacts DEF PostOf
    <3>2. ~Opened(t)
      BY <2>1, <2>6, <3>1 DEF Opened
    <3>3. Opened(t)'
      BY <2>1, <3>1 DEF Opened
    <3>4. \A d \in Body(t) : d \in Calls /\ KindOf[d] # "job" /\ After[d] = t
      BY <3>1 DEF Body
    <3> QED
      BY <2>1, <2>4, <3>1, <3>2, <3>3, <3>4 DEF FrameInv
  <2>7. CASE current'.do \notin {"settle", "job"}
    <3>1. frame' = {}
      BY <1>3, <2>7, TakeFacts
    <3> QED
      BY <2>1, <2>4, <3>1 DEF FrameInv
  <2> QED
    BY <2>5, <2>6, <2>7
<1>4. CASE TaskReturns
  <2> DEFINE c == current.call
  <2>1. c \in Calls /\ current \in Posts /\ (current.do # "output" => goroutine[c] = "posted")
    BY <1>4 DEF TaskReturns, ScriptTypeOK, Posts, PostInv, PostOf
  <2>2. \/ goroutine' = goroutine
        \/ goroutine[c] = "posted" /\ (\/ goroutine' = [goroutine EXCEPT ![c] = "ended"]
                                       \/ goroutine' = [goroutine EXCEPT ![c] = "sleeping"])
    BY <1>4, <2>1 DEF TaskReturns
  <2>3. settled \subseteq settled' /\ tasks' = tasks /\ frame' = {}
    BY <1>4 DEF TaskReturns
  <2>4. \A x \in Calls : Opened(x) => Opened(x)'
    BY <2>1, <2>2, <2>3 DEF Opened, ScriptTypeOK
  <2>5. \A d \in Calls : goroutine'[d] # "none" => goroutine[d] # "none"
    BY <2>1, <2>2 DEF ScriptTypeOK
  <2> QED
    BY <2>3, <2>4, <2>5 DEF FrameInv
<1>5. CASE CloseTasks
  BY <1>5 DEF CloseTasks, ScriptTypeOK, FrameInv, Opened, Post
<1>6. CASE FinishScript
  BY <1>6 DEF FinishScript, ScriptTypeOK, FrameInv, Opened, Post
<1>7. ASSUME NEW c \in Calls, RejectImmediate(c)
      PROVE  FrameInv'
  <2>1. /\ c \in frame /\ frame' = (frame \ {c}) \cup Continuation(c) /\ settled' = settled \cup {c} /\ tasks' = tasks
        /\ goroutine' = [goroutine EXCEPT ![c] = "rejected"] /\ goroutine[c] = "none" /\ KindOf[c] # "job"
    BY <1>7 DEF RejectImmediate, Go, FrameInv
  <2>2. c \notin settled
    BY <2>1 DEF SettledInv
  <2>3. ~Opened(c) /\ Opened(c)'
    BY <2>1, <2>2 DEF Opened
  <2>4. \A x \in Calls : Opened(x) => Opened(x)'
    BY <2>1 DEF Opened, ScriptTypeOK
  <2>5. \A d \in Continuation(c) : d \in Calls /\ KindOf[d] # "job" /\ After[d] = c /\ goroutine[d] = "none" /\ d # c
    <3>1. \A d \in Continuation(c) : d \in Calls /\ KindOf[d] # "job" /\ After[d] = c
      BY DEF Continuation
    <3> QED
      BY <2>1, <2>3, <3>1 DEF FrameInv
  <2>6. \A d \in Calls : d # c => goroutine'[d] = goroutine[d]
    BY <2>1 DEF ScriptTypeOK
  <2>7. c \notin frame'
    BY <2>1, <2>5
  <2>8. After[c] \in Calls => Opened(After[c])'
    BY <2>1, <2>4 DEF FrameInv
  <2> SUFFICES ASSUME NEW d \in Calls
               PROVE  /\ d \in frame' => goroutine'[d] = "none" /\ KindOf[d] # "job"
                      /\ (d \in frame' \/ goroutine'[d] # "none") /\ KindOf[d] # "job" /\ After[d] \in Calls
                           => Opened(After[d])'
    BY DEF FrameInv
  <2>9. CASE d = c
    BY <2>7, <2>8, <2>9
  <2>10. CASE d \in Continuation(c)
    BY <2>3, <2>5, <2>6, <2>10
  <2>11. CASE d # c /\ d \notin Continuation(c)
    BY <2>1, <2>4, <2>6, <2>11 DEF FrameInv
  <2> QED
    BY <2>9, <2>10, <2>11
<1>8. ASSUME NEW c \in Calls, AsyncTask(c)
      PROVE  FrameInv'
  BY <1>8 DEF AsyncTask, Go, ScriptTypeOK, FrameInv, Opened, Post
<1>9. ASSUME NEW c \in Calls, AsyncNotify(c)
      PROVE  FrameInv'
  BY <1>9, SendFacts DEF AsyncNotify, Go, ScriptTypeOK, FrameInv, Opened, Post
<1>10. ASSUME NEW c \in Calls, PostOutput(c)
      PROVE  FrameInv'
  BY <1>10, SendFacts DEF PostOutput, ScriptTypeOK, FrameInv, Opened, Post
<1>11. ASSUME NEW c \in Calls, InstallAgentFunc(c)
      PROVE  FrameInv'
  BY <1>11 DEF InstallAgentFunc, Go, ScriptTypeOK, FrameInv, Opened, Post
<1>12. ASSUME NEW c \in Calls, CallAgent(c)
      PROVE  FrameInv'
  BY <1>12 DEF CallAgent, Go, ScriptTypeOK, FrameInv, Opened, Post
<1>13. ASSUME NEW c \in Calls, RunStageJobs(c)
      PROVE  FrameInv'
  BY <1>13 DEF RunStageJobs, ScriptTypeOK, FrameInv, Opened, Post, JobsOf, StageInv
<1>14. ASSUME NEW c \in Calls, PostJob(c)
      PROVE  FrameInv'
  BY <1>14 DEF PostJob, Go, ScriptTypeOK, FrameInv, Opened, Post
<1>15. ASSUME NEW c \in Calls, PostCheck(c)
      PROVE  FrameInv'
  BY <1>15, SendFacts DEF PostCheck, Go, ScriptTypeOK, FrameInv, Opened, Post, KindInv
<1>16. ASSUME NEW c \in Calls, PostResult(c)
      PROVE  FrameInv'
  BY <1>16, SendFacts DEF PostResult, Go, ScriptTypeOK, FrameInv, Opened, Post, KindInv
<1>17. CASE UNCHANGED scriptVars
  BY <1>17 DEF scriptVars, ScriptTypeOK, FrameInv, Opened, Post
<1> QED
  BY <1>1, <1>2, <1>3, <1>4, <1>5, <1>6, <1>7, <1>8, <1>9, <1>10, <1>11, <1>12, <1>13, <1>14, <1>15, <1>16, <1>17 DEF ScriptNext, Step, Over

\* Every step keeps StageInv.
LEMMA StageStep ==
    ASSUME ScriptInv, [ScriptNext]_scriptVars
    PROVE  StageInv'
<1> USE ScriptAssumption DEF ScriptInv
<1>1. CASE BeginWait
  BY <1>1 DEF BeginWait, ScriptTypeOK, StageInv
<1>2. CASE ScriptThrows
  BY <1>2 DEF ScriptThrows, ScriptTypeOK, StageInv
<1>3. CASE TakeTask
  BY <1>3, TakeFacts DEF ScriptTypeOK, StageInv
<1>4. CASE TaskReturns
  BY <1>4 DEF TaskReturns, ScriptTypeOK, StageInv, PostInv, PostOf, Posts
<1>5. CASE CloseTasks
  BY <1>5 DEF CloseTasks, ScriptTypeOK, StageInv
<1>6. CASE FinishScript
  BY <1>6 DEF FinishScript, ScriptTypeOK, StageInv
<1>7. ASSUME NEW c \in Calls, RejectImmediate(c)
      PROVE  StageInv'
  BY <1>7 DEF RejectImmediate, Go, ScriptTypeOK, StageInv, FrameInv
<1>8. ASSUME NEW c \in Calls, AsyncTask(c)
      PROVE  StageInv'
  BY <1>8 DEF AsyncTask, Go, ScriptTypeOK, StageInv, FrameInv
<1>9. ASSUME NEW c \in Calls, AsyncNotify(c)
      PROVE  StageInv'
  BY <1>9, SendFacts DEF AsyncNotify, Go, ScriptTypeOK, StageInv, FrameInv
<1>10. ASSUME NEW c \in Calls, PostOutput(c)
      PROVE  StageInv'
  BY <1>10, SendFacts DEF PostOutput, ScriptTypeOK, StageInv
<1>11. ASSUME NEW c \in Calls, InstallAgentFunc(c)
      PROVE  StageInv'
  BY <1>11 DEF InstallAgentFunc, Go, ScriptTypeOK, StageInv
<1>12. ASSUME NEW c \in Calls, CallAgent(c)
      PROVE  StageInv'
  BY <1>12 DEF CallAgent, Go, ScriptTypeOK, StageInv
<1>13. ASSUME NEW c \in Calls, RunStageJobs(c)
      PROVE  StageInv'
  BY <1>13 DEF RunStageJobs, ScriptTypeOK, StageInv, JobsOf
<1>14. ASSUME NEW c \in Calls, PostJob(c)
      PROVE  StageInv'
  BY <1>14 DEF PostJob, Go, ScriptTypeOK, StageInv
<1>15. ASSUME NEW c \in Calls, PostCheck(c)
      PROVE  StageInv'
  BY <1>15, SendFacts DEF PostCheck, Go, ScriptTypeOK, StageInv
<1>16. ASSUME NEW c \in Calls, PostResult(c)
      PROVE  StageInv'
  BY <1>16, SendFacts DEF PostResult, Go, ScriptTypeOK, StageInv, JobsOf
<1>17. CASE UNCHANGED scriptVars
  BY <1>17 DEF scriptVars, ScriptTypeOK, StageInv
<1> QED
  BY <1>1, <1>2, <1>3, <1>4, <1>5, <1>6, <1>7, <1>8, <1>9, <1>10, <1>11, <1>12, <1>13, <1>14, <1>15, <1>16, <1>17 DEF ScriptNext, Step, Over

\* Every step keeps LoopInv: the counter is zero only when nothing is left that could post.
LEMMA LoopStep ==
    ASSUME ScriptInv, [ScriptNext]_scriptVars
    PROVE  LoopInv'
<1> USE ScriptAssumption DEF ScriptInv
<1>1. CASE BeginWait
  BY <1>1 DEF BeginWait, ScriptTypeOK, LoopInv
<1>2. CASE ScriptThrows
  BY <1>2 DEF ScriptThrows, ScriptTypeOK, LoopInv
<1>3. CASE TakeTask
  <2>1. loop \in {"wait", "closed"} /\ tasks # <<>> /\ loop' = loop
    BY <1>3 DEF TakeTask
  <2> QED
    BY <2>1 DEF LoopInv
<1>4. CASE TaskReturns
  BY <1>4 DEF TaskReturns, ScriptTypeOK, LoopInv
<1>5. CASE CloseTasks
  <2>1. Counted = {}
    BY <1>5, CountFacts, FS_EmptySet DEF CloseTasks, PromiseInv
  <2>2. \A c \in Calls : goroutine[c] \notin Busy
    BY <2>1 DEF Counted
  <2>3. \A c \in Calls : goroutine[c] # "starting"
    BY <2>2 DEF KindInv, StageInv, Busy
  <2>4. current = Idle
    BY <2>2 DEF PostInv, PostOf, ScriptTypeOK, Posts, Busy
  <2>5. tasks = <<>>
    <3>1. ASSUME NEW p \in Posts, tasks = <<p>>
          PROVE  FALSE
      BY <2>2, <3>1 DEF PostInv, PostOf, Posts, Busy
    <3> QED
      BY <3>1, ShortQueue
  <2> QED
    BY <1>5, <2>2, <2>3, <2>4, <2>5 DEF CloseTasks, LoopInv, ScriptTypeOK, Busy
<1>6. CASE FinishScript
  BY <1>6 DEF FinishScript, ScriptTypeOK, LoopInv
<1>7. ASSUME NEW c \in Calls, RejectImmediate(c)
      PROVE  LoopInv'
  BY <1>7 DEF RejectImmediate, Go, ScriptTypeOK, LoopInv, Running
<1>8. ASSUME NEW c \in Calls, AsyncTask(c)
      PROVE  LoopInv'
  BY <1>8 DEF AsyncTask, Go, ScriptTypeOK, LoopInv, Running
<1>9. ASSUME NEW c \in Calls, AsyncNotify(c)
      PROVE  LoopInv'
  BY <1>9, SendFacts DEF AsyncNotify, Go, ScriptTypeOK, LoopInv, Running
<1>10. ASSUME NEW c \in Calls, PostOutput(c)
      PROVE  LoopInv'
  BY <1>10, SendFacts DEF PostOutput, ScriptTypeOK, LoopInv
<1>11. ASSUME NEW c \in Calls, InstallAgentFunc(c)
      PROVE  LoopInv'
  BY <1>11 DEF InstallAgentFunc, Go, ScriptTypeOK, LoopInv
<1>12. ASSUME NEW c \in Calls, CallAgent(c)
      PROVE  LoopInv'
  BY <1>12 DEF CallAgent, Go, ScriptTypeOK, LoopInv
<1>13. ASSUME NEW c \in Calls, RunStageJobs(c)
      PROVE  LoopInv'
  BY <1>13 DEF RunStageJobs, ScriptTypeOK, LoopInv
<1>14. ASSUME NEW c \in Calls, PostJob(c)
      PROVE  LoopInv'
  BY <1>14 DEF PostJob, Go, ScriptTypeOK, LoopInv
<1>15. ASSUME NEW c \in Calls, PostCheck(c)
      PROVE  LoopInv'
  BY <1>15, SendFacts DEF PostCheck, Go, ScriptTypeOK, LoopInv
<1>16. ASSUME NEW c \in Calls, PostResult(c)
      PROVE  LoopInv'
  BY <1>16, SendFacts DEF PostResult, Go, ScriptTypeOK, LoopInv
<1>17. CASE UNCHANGED scriptVars
  BY <1>17 DEF scriptVars, ScriptTypeOK, LoopInv
<1> QED
  BY <1>1, <1>2, <1>3, <1>4, <1>5, <1>6, <1>7, <1>8, <1>9, <1>10, <1>11, <1>12, <1>13, <1>14, <1>15, <1>16, <1>17 DEF ScriptNext, Step, Over

\* Every step keeps LastInv.
LEMMA LastStep ==
    ASSUME ScriptInv, [ScriptNext]_scriptVars
    PROVE  LastInv'
<1> USE ScriptAssumption DEF ScriptInv
<1>1. CASE BeginWait
  BY <1>1 DEF BeginWait, ScriptTypeOK, LastInv, JobsOf, Body
<1>2. CASE ScriptThrows
  BY <1>2 DEF ScriptThrows, ScriptTypeOK, LastInv, JobsOf, Body
<1>3. CASE TakeTask
  BY <1>3, TakeFacts DEF ScriptTypeOK, LastInv, JobsOf, Body
<1>4. CASE TaskReturns
  BY <1>4 DEF TaskReturns, ScriptTypeOK, LastInv, JobsOf, Body, PostInv, PostOf, Posts
<1>5. CASE CloseTasks
  BY <1>5 DEF CloseTasks, ScriptTypeOK, LastInv, JobsOf, Body
<1>6. CASE FinishScript
  BY <1>6 DEF FinishScript, ScriptTypeOK, LastInv, JobsOf, Body
<1>7. ASSUME NEW c \in Calls, RejectImmediate(c)
      PROVE  LastInv'
  BY <1>7 DEF RejectImmediate, Go, ScriptTypeOK, LastInv, JobsOf, Body, FrameInv
<1>8. ASSUME NEW c \in Calls, AsyncTask(c)
      PROVE  LastInv'
  BY <1>8 DEF AsyncTask, Go, ScriptTypeOK, LastInv, JobsOf, Body, FrameInv
<1>9. ASSUME NEW c \in Calls, AsyncNotify(c)
      PROVE  LastInv'
  BY <1>9, SendFacts DEF AsyncNotify, Go, ScriptTypeOK, LastInv, JobsOf, Body, FrameInv
<1>10. ASSUME NEW c \in Calls, PostOutput(c)
      PROVE  LastInv'
  BY <1>10, SendFacts DEF PostOutput, ScriptTypeOK, LastInv, JobsOf, Body
<1>11. ASSUME NEW c \in Calls, InstallAgentFunc(c)
      PROVE  LastInv'
  BY <1>11 DEF InstallAgentFunc, Go, ScriptTypeOK, LastInv, JobsOf, Body
<1>12. ASSUME NEW c \in Calls, CallAgent(c)
      PROVE  LastInv'
  BY <1>12 DEF CallAgent, Go, ScriptTypeOK, LastInv, JobsOf, Body
<1>13. ASSUME NEW c \in Calls, RunStageJobs(c)
      PROVE  LastInv'
  BY <1>13 DEF RunStageJobs, ScriptTypeOK, LastInv, JobsOf, Body, StageInv
<1>14. ASSUME NEW c \in Calls, PostJob(c)
      PROVE  LastInv'
  BY <1>14 DEF PostJob, Go, ScriptTypeOK, LastInv, JobsOf, Body
<1>15. ASSUME NEW c \in Calls, PostCheck(c)
      PROVE  LastInv'
  BY <1>15, SendFacts DEF PostCheck, Go, ScriptTypeOK, LastInv, JobsOf, Body, KindInv
<1>16. ASSUME NEW c \in Calls, PostResult(c)
      PROVE  LastInv'
  BY <1>16, SendFacts DEF PostResult, Go, ScriptTypeOK, LastInv, JobsOf, Body, KindInv
<1>17. CASE UNCHANGED scriptVars
  BY <1>17 DEF scriptVars, ScriptTypeOK, LastInv, JobsOf, Body
<1> QED
  BY <1>1, <1>2, <1>3, <1>4, <1>5, <1>6, <1>7, <1>8, <1>9, <1>10, <1>11, <1>12, <1>13, <1>14, <1>15, <1>16, <1>17 DEF ScriptNext, Step, Over

\* The invariant holds of every state of the event loop.
THEOREM ScriptInvariant == ScriptSpec => []ScriptInv
<1>1. ScriptInit => ScriptInv
  <2> SUFFICES ASSUME ScriptInit
               PROVE  ScriptInv
    OBVIOUS
  <2>1. frame \subseteq Calls /\ \A d \in frame : KindOf[d] # "job" /\ After[d] \notin Calls
    BY ScriptAssumption DEF ScriptInit, Continuation
  <2>2. ScriptTypeOK
    <3>1. <<>> \in Seq(Posts) /\ Len(<<>>) <= Capacity
      BY DEF Capacity
    <3> QED
      BY <2>1, <3>1, ScriptAssumption DEF ScriptInit, ScriptTypeOK
  <2>3. PromiseInv
    <3>1. Counted = {}
      BY DEF ScriptInit, Counted, Busy
    <3> QED
      BY <3>1, FS_EmptySet DEF ScriptInit, PromiseInv
  <2>4. KindInv /\ SettledInv /\ StageInv
    BY DEF ScriptInit, KindInv, SettledInv, StageInv
  <2>5. PostInv
    BY DEF ScriptInit, PostInv
  <2>6. FrameInv
    BY <2>1 DEF ScriptInit, FrameInv
  <2>7. LoopInv
    BY DEF ScriptInit, LoopInv
  <2>8. LastInv
    BY ScriptAssumption DEF ScriptInit, LastInv
  <2> QED
    BY <2>2, <2>3, <2>4, <2>5, <2>6, <2>7, <2>8 DEF ScriptInv
<1>2. ScriptInv /\ [ScriptNext]_scriptVars => ScriptInv'
  BY ScriptTypeStep, PromiseStep, KindStep, PostStep, SettledStep, FrameStep, StageStep, LoopStep, LastStep
     DEF ScriptInv
<1> QED
  BY <1>1, <1>2, PTL DEF ScriptSpec

\* For every script, no goroutine is left to post when Wait has closed the channel.
THEOREM NothingIsSentAfterClose == ScriptSpec => []NoSendAfterClose
<1>1. ScriptInv => NoSendAfterClose
  BY DEF ScriptInv, LoopInv, NoSendAfterClose
<1> QED
  BY <1>1, ScriptInvariant, PTL

\* For every script, an outcome reaches the script after all output of its call, and a stage or a job settles
\* after all it started.
THEOREM ResultsComeLast == ScriptSpec => []ResultComesLast
<1>1. ScriptInv => ResultComesLast
  <2> SUFFICES ASSUME ScriptInv, NEW c \in settled, goroutine[c] = "ended"
               PROVE  /\ left[c] = 0
                      /\ KindOf[c] = "stage" => JobsOf(c) \subseteq settled
                      /\ KindOf[c] = "job" => Body(c) \subseteq settled
    BY DEF ResultComesLast
  <2>1. c \in Calls
    BY DEF ScriptInv, ScriptTypeOK
  <2>2. KindOf[c] = "stage" => JobsOf(c) \subseteq settled
    BY <2>1 DEF ScriptInv, LastInv, JobsOf
  <2> QED
    BY <2>1, <2>2 DEF ScriptInv, LastInv
<1> QED
  BY <1>1, ScriptInvariant, PTL

=============================================================================
