---------------------------- MODULE DriverProofs ----------------------------
(***************************************************************************)
(* Proofs about the drivers: type correctness, and the safety properties   *)
(* that the run drivers checks, for any tasks, calls, volumes, machines    *)
(* and bounds.  Every driver has an inductive invariant of its own; the    *)
(* theorems at the end combine them, since the drivers share no variable.  *)
(***************************************************************************)
EXTENDS Drivers, TLAPS

-----------------------------------------------------------------------------
(* TaskRunner *)

\* A call that waits or is over has no goroutine left; one that is over has no container, and its outcome is an
\* exit code only if the row was told.
CallInv(r) ==
    /\ pc[r] \in {"called", "create"} => holds[r] = "none" /\ r \notin streaming /\ ticking[r] = "off"
    /\ pc[r] \in {"logs", "final", "cleanup", "returned"} => r \notin streaming /\ ticking[r] = "off"
    /\ pc[r] = "returned" => holds[r] \in {"none", "removed"}
    /\ pc[r] \in {"called", "create", "poll"} => outcome[r] = "none"
    /\ pc[r] \in {"logs", "final"} => outcome[r] \in {"exit0", "exit1"}
    /\ pc[r] \in {"cleanup", "returned"} /\ outcome[r] \in {"exit0", "exit1"} /\ ~stopped =>
         r \in Sandboxed \/ status[r] = IF outcome[r] = "exit0" THEN "success" ELSE "failure"

RunnerInv == Runner!TypeOK /\ \A r \in Runs : CallInv(r)

\* Nothing has been called.
LEMMA RunnerInitially == Runner!Init => RunnerInv
BY DEF Runner!Init, RunnerInv, Runner!TypeOK, CallInv

\* The steps of a call, its container, stream and ticker keep the invariant: they touch no other call.
LEMMA CallSteps ==
    ASSUME RunnerInv, NEW r \in Runs, Runner!Step(r) \/ Runner!Exits(r) \/ Runner!DeadlinePasses(r)
    PROVE  RunnerInv'
<1> USE DriversAssumption DEF Runner!SetTaskStatus, Runner!At, Runner!Returns, Runner!Cancelled
<1>1. CASE Runner!RefuseInput(r)
  BY <1>1 DEF RunnerInv, Runner!TypeOK, CallInv, Runner!RefuseInput, Runner!boxes
<1>2. CASE Runner!InjectSecrets(r)
  BY <1>2 DEF RunnerInv, Runner!TypeOK, CallInv, Runner!InjectSecrets, Runner!boxes
<1>3. CASE Runner!CreateRunContainer(r)
  BY <1>3 DEF RunnerInv, Runner!TypeOK, CallInv, Runner!CreateRunContainer, Runner!boxes
<1>4. CASE Runner!Exits(r)
  BY <1>4 DEF RunnerInv, Runner!TypeOK, CallInv, Runner!Exits
<1>5. CASE Runner!DeadlinePasses(r)
  BY <1>5 DEF RunnerInv, Runner!TypeOK, CallInv, Runner!DeadlinePasses, Runner!boxes
<1>6. CASE Runner!StreamEnds(r)
  BY <1>6 DEF RunnerInv, Runner!TypeOK, CallInv, Runner!StreamEnds
<1>7. CASE Runner!TickerSnapshots(r)
  BY <1>7 DEF RunnerInv, Runner!TypeOK, CallInv, Runner!TickerSnapshots
<1>8. CASE Runner!TickerWrites(r)
  BY <1>8 DEF RunnerInv, Runner!TypeOK, CallInv, Runner!TickerWrites
<1>9. CASE Runner!TickerStops(r)
  BY <1>9 DEF RunnerInv, Runner!TypeOK, CallInv, Runner!TickerStops
<1>10. CASE Runner!PollContainerStatus(r)
  BY <1>10 DEF RunnerInv, Runner!TypeOK, CallInv, Runner!PollContainerStatus, Runner!boxes
<1>11. CASE Runner!JoinStreams(r)
  BY <1>11 DEF RunnerInv, Runner!TypeOK, CallInv, Runner!JoinStreams, Runner!boxes
<1>12. CASE Runner!FetchLogs(r)
  BY <1>12 DEF RunnerInv, Runner!TypeOK, CallInv, Runner!FetchLogs, Runner!boxes
<1>13. CASE Runner!BuildFinalResult(r)
  BY <1>13 DEF RunnerInv, Runner!TypeOK, CallInv, Runner!BuildFinalResult, Runner!boxes
<1>14. CASE Runner!Cleanup(r)
  BY <1>14 DEF RunnerInv, Runner!TypeOK, CallInv, Runner!Cleanup
<1> QED
  BY <1>1, <1>2, <1>3, <1>4, <1>5, <1>6, <1>7, <1>8, <1>9, <1>10, <1>11, <1>12, <1>13, <1>14 DEF Runner!Step

\* So does every step of the runner.
LEMMA RunnerStep == RunnerInv /\ [Runner!Next]_(Runner!vars) => RunnerInv'
<1> SUFFICES ASSUME RunnerInv, [Runner!Next]_(Runner!vars)
             PROVE  RunnerInv'
  OBVIOUS
<1>1. ASSUME NEW r \in Runs, Runner!Step(r) \/ Runner!Exits(r) \/ Runner!DeadlinePasses(r)
      PROVE  RunnerInv'
  BY <1>1, CallSteps
<1>2. ASSUME NEW n \in Names, Runner!CreateVolume(n)
      PROVE  RunnerInv'
  BY <1>2 DEF RunnerInv, Runner!TypeOK, CallInv, Runner!CreateVolume, Runner!boxes
<1>3. CASE Runner!CleanupVolumes
  BY <1>3 DEF RunnerInv, Runner!TypeOK, CallInv, Runner!CleanupVolumes, Runner!boxes
<1>4. CASE Runner!StopRun
  BY <1>4 DEF RunnerInv, Runner!TypeOK, CallInv, Runner!StopRun, Runner!boxes
<1>5. CASE Runner!Done \/ UNCHANGED Runner!vars
  BY <1>5 DEF RunnerInv, Runner!TypeOK, CallInv, Runner!Done, Runner!vars, Runner!boxes
<1> QED
  BY <1>1, <1>2, <1>3, <1>4, <1>5 DEF Runner!Next

\* The runner keeps to its types and leaves nothing behind, and its rows have the last word.
LEMMA RunnerInvariant ==
    Runner!Spec => [](Runner!TypeOK /\ Runner!NoContainerOutlivesItsCall /\ Runner!CompletedRowIsFinal)
<1>1. RunnerInv => Runner!TypeOK /\ Runner!NoContainerOutlivesItsCall /\ Runner!CompletedRowIsFinal
  BY DEF RunnerInv, CallInv, Runner!NoContainerOutlivesItsCall, Runner!CompletedRowIsFinal
<1> QED
  BY <1>1, RunnerInitially, RunnerStep, PTL DEF Runner!Spec

-----------------------------------------------------------------------------
(* DockerDriver *)

Boxes == Tasks \cup Sandboxes       \* what RunContainer and StartSandbox name
Users == Boxes \cup Helpers
Settled == {"idle", "done", "failed"}

\* What exists, or is about to, has its volume; nobody works once Close has begun, and what the prune leaves was
\* running.
DockerInv ==
    /\ Docker!TypeOK /\ Docker!NoTaskIsOrphaned
    /\ \A x \in Users : VolumeOf[x] # "none" /\ (docker[x] # "none" \/ caller[x] \notin Settled) => VolumeOf[x] \in volume
    /\ closed # "open" => \A x \in Users : caller[x] \in Settled
    /\ closed \in {"pruned", "ok"} => \A t \in Boxes : docker[t] # "none" => docker[t] \in {"running", "exited"}
    /\ Docker!CloseRemovesTheRest

\* A namespace starts empty.
LEMMA DockerInitially == Docker!Init => DockerInv
<1> SUFFICES ASSUME Docker!Init
             PROVE  DockerInv
  OBVIOUS
<1>1. Docker!TypeOK
  <2>1. 0 \in 0..MaxCrashes
    BY DriversAssumption
  <2>2. docker \in [Docker!All -> {"none"}] /\ caller \in [Docker!All -> {"idle"}]
    BY DEF Docker!Init
  <2> QED
    BY <2>1, <2>2 DEF Docker!Init, Docker!TypeOK
<1>2. Docker!All = Users
  BY DEF Docker!All, Users, Boxes
<1> QED
  BY <1>1, <1>2 DEF Docker!Init, DockerInv, Docker!NoTaskIsOrphaned, Docker!CloseRemovesTheRest, Users, Boxes, Settled

\* The steps of RunContainer, StartSandbox and their containers keep the invariant.
LEMMA DockerTaskSteps ==
    ASSUME DockerInv, NEW t \in Boxes,
           \/ Docker!PullAndMount(t) \/ Docker!ContainerCreate(t) \/ Docker!ContainerStart(t) \/ Docker!ContainerExits(t)
           \/ Docker!StatusIsDone(t) \/ Docker!SandboxExec(t) \/ Docker!GiveUp(t) \/ Docker!Cleanup(t)
    PROVE  DockerInv'
<1> USE DriversAssumption
    DEF DockerInv, Docker!TypeOK, Docker!NoTaskIsOrphaned, Docker!CloseRemovesTheRest, Docker!All, Users, Boxes, Settled,
        Docker!Goes, Docker!Becomes
<1>1. CASE Docker!PullAndMount(t)
  BY <1>1 DEF Docker!PullAndMount
<1>2. CASE Docker!ContainerCreate(t)
  BY <1>2 DEF Docker!ContainerCreate
<1>3. CASE Docker!ContainerStart(t)
  BY <1>3 DEF Docker!ContainerStart
<1>4. CASE Docker!ContainerExits(t)
  BY <1>4 DEF Docker!ContainerExits
<1>5. CASE Docker!StatusIsDone(t)
  BY <1>5 DEF Docker!StatusIsDone
<1>6. CASE Docker!SandboxExec(t)
  BY <1>6 DEF Docker!SandboxExec
<1>7. CASE Docker!GiveUp(t)
  BY <1>7 DEF Docker!GiveUp
<1>8. CASE Docker!Cleanup(t)
  BY <1>8 DEF Docker!Cleanup
<1> QED
  BY <1>1, <1>2, <1>3, <1>4, <1>5, <1>6, <1>7, <1>8

\* So does every step in the namespace.
LEMMA DockerStep == DockerInv /\ [Docker!Next]_(Docker!vars) => DockerInv'
<1> SUFFICES ASSUME DockerInv, [Docker!Next]_(Docker!vars)
             PROVE  DockerInv'
  OBVIOUS
<1>1. ASSUME NEW t \in Tasks \cup Sandboxes,
             \/ Docker!PullAndMount(t) \/ Docker!ContainerCreate(t) \/ Docker!ContainerStart(t)
             \/ Docker!ContainerExits(t) \/ Docker!StatusIsDone(t) \/ Docker!SandboxExec(t) \/ Docker!GiveUp(t)
             \/ Docker!Cleanup(t)
      PROVE  DockerInv'
  BY <1>1, DockerTaskSteps DEF Boxes
<1> USE DriversAssumption
    DEF DockerInv, Docker!TypeOK, Docker!NoTaskIsOrphaned, Docker!CloseRemovesTheRest, Docker!All, Users, Boxes, Settled,
        Docker!Goes, Docker!Becomes
<1>2. ASSUME NEW h \in Helpers, Docker!HelperCreate(h)
      PROVE  DockerInv'
  BY <1>2 DEF Docker!HelperCreate
<1>3. ASSUME NEW h \in Helpers, Docker!HelperCopy(h)
      PROVE  DockerInv'
  BY <1>3 DEF Docker!HelperCopy
<1>4. ASSUME NEW h \in Helpers, Docker!HelperRemove(h)
      PROVE  DockerInv'
  BY <1>4 DEF Docker!HelperRemove
<1>5. ASSUME NEW v \in Volumes, Docker!RemoveVolume(v)
      PROVE  DockerInv'
  BY <1>5 DEF Docker!RemoveVolume, Docker!InUse
<1>6. CASE Docker!StopRun
  BY <1>6 DEF Docker!StopRun
<1>7. CASE Docker!CrashAndResume
  <2>1. crashes' \in 0..MaxCrashes /\ crashes' # 0
    BY <1>7 DEF Docker!CrashAndResume
  <2>2. closed = "open" /\ UNCHANGED <<docker, volume, closed>> /\ cancelled' = FALSE
    BY <1>7 DEF Docker!CrashAndResume
  <2>3. /\ caller' = [x \in Users |-> IF caller[x] = "done" THEN "done" ELSE "idle"]
        /\ \A x \in Users : caller'[x] \in {"done", "idle"}
    BY <1>7 DEF Docker!CrashAndResume
  <2> QED
    BY <2>1, <2>2, <2>3
<1>8. CASE Docker!Prune
  BY <1>8 DEF Docker!Prune
<1>9. CASE Docker!RemoveVolumes
  BY <1>9 DEF Docker!RemoveVolumes, Docker!InUse
<1>10. CASE Docker!Closed \/ UNCHANGED Docker!vars
  BY <1>10 DEF Docker!Closed, Docker!vars
<1> QED
  BY <1>1, <1>2, <1>3, <1>4, <1>5, <1>6, <1>7, <1>8, <1>9, <1>10 DEF Docker!Next

\* The docker driver keeps to its types, orphans no task, and its Close removes the rest.
LEMMA DockerInvariant ==
    Docker!Spec => [](Docker!TypeOK /\ Docker!NoTaskIsOrphaned /\ Docker!CloseRemovesTheRest)
<1>1. DockerInv => Docker!TypeOK /\ Docker!NoTaskIsOrphaned /\ Docker!CloseRemovesTheRest
  BY DEF DockerInv
<1> QED
  BY <1>1, DockerInitially, DockerStep, PTL DEF Docker!Spec

-----------------------------------------------------------------------------
(* NativeDriver *)

Reaped == {"reaped", "reapedKilled"}

\* What was written is in the pipe or in the buffer; the outcome is in its channel or with one caller, from the
\* moment the process is reaped, and until then nowhere; the pipes are empty by then.
NativeInv ==
    /\ Native!TypeOK
    /\ \A s \in Streams : written[s] = piped[s] + logged[s]
    /\ process \in Reaped => piped = [s \in Streams |-> 0]
    /\ process \notin Reaped => errChan = <<>>
    /\ \A p \in Pollers : poller[p] \in {"holds", "done"} => process \in Reaped
    /\ process \in Reaped => \/ errChan = <<"nil">> /\ \A p \in Pollers : poller[p] # "holds"
                             \/ errChan = <<>> /\ \E p \in Pollers : /\ poller[p] = "holds"
                                                                     /\ \A q \in Pollers \ {p} : poller[q] # "holds"

\* The process has not been started.
LEMMA NativeInitially == Native!Init => NativeInv
<1> SUFFICES ASSUME Native!Init
             PROVE  NativeInv
  OBVIOUS
<1>1. 0 \in 0..MaxChunks /\ 0 <= LiveCapacity
  BY DriversAssumption
<1>2. liveCh \in Seq(Streams) /\ Len(liveCh) = 0
  BY DEF Native!Init
<1>3. Native!TypeOK
  BY <1>1, <1>2 DEF Native!Init, Native!TypeOK, Native!Zero
<1> QED
  BY <1>3 DEF Native!Init, NativeInv, Native!Zero, Reaped

\* A chunk goes to the buffer, and to the live channel if there is room.
LEMMA NativeTee ==
    ASSUME NativeInv, NEW s \in Streams, Native!TeeStream(s)
    PROVE  NativeInv'
<1>1. process \notin Reaped /\ piped[s] > 0
  BY DEF Native!TeeStream, Reaped
<1>2. liveCh' \in Seq(Streams) /\ Len(liveCh') <= LiveCapacity
  <2>1. liveCh \in Seq(Streams) /\ Len(liveCh) \in Nat /\ Len(liveCh) <= LiveCapacity /\ LiveCapacity \in Nat
    BY DriversAssumption DEF NativeInv, Native!TypeOK
  <2>2. CASE Len(liveCh) < LiveCapacity
    <3>1. liveCh' = Append(liveCh, s)
      BY <2>2 DEF Native!TeeStream
    <3> QED
      BY <2>1, <2>2, <3>1
  <2>3. CASE ~(Len(liveCh) < LiveCapacity)
    BY <2>1, <2>3 DEF Native!TeeStream
  <2> QED
    BY <2>2, <2>3
<1>3. /\ piped' = [piped EXCEPT ![s] = @ - 1] /\ logged' = [logged EXCEPT ![s] = @ + 1]
      /\ UNCHANGED <<process, written, liveClosed, follower, errChan, poller, nativeCancelled, dir, nativeVolume>>
  BY DEF Native!TeeStream
<1>4. \A x \in Streams : /\ written[x] \in 0..MaxChunks /\ piped[x] \in 0..MaxChunks /\ logged[x] \in 0..MaxChunks
                         /\ written[x] = piped[x] + logged[x]
  BY DEF NativeInv, Native!TypeOK
<1>5. \A x \in Streams : /\ piped'[x] \in 0..MaxChunks /\ logged'[x] \in 0..MaxChunks
                         /\ written'[x] = piped'[x] + logged'[x]
  <2>1. piped'[s] = piped[s] - 1 /\ logged'[s] = logged[s] + 1
    BY <1>3 DEF NativeInv, Native!TypeOK
  <2>2. \A x \in Streams \ {s} : piped'[x] = piped[x] /\ logged'[x] = logged[x]
    BY <1>3 DEF NativeInv, Native!TypeOK
  <2> QED
    BY <1>1, <1>3, <1>4, <2>1, <2>2, DriversAssumption
<1>6. piped' \in [Streams -> 0..MaxChunks] /\ logged' \in [Streams -> 0..MaxChunks]
  BY <1>3, <1>5 DEF NativeInv, Native!TypeOK
<1>7. Native!TypeOK'
  BY <1>2, <1>3, <1>6 DEF NativeInv, Native!TypeOK
<1> QED
  BY <1>1, <1>3, <1>5, <1>7 DEF NativeInv

\* So does every step of the process, its goroutines and the callers of Status.
LEMMA NativeStep == NativeInv /\ [Native!Next]_(Native!vars) => NativeInv'
<1> SUFFICES ASSUME NativeInv, [Native!Next]_(Native!vars)
             PROVE  NativeInv'
  OBVIOUS
<1> USE DriversAssumption DEF NativeInv, Native!TypeOK, Reaped, Native!pipes, Native!live
<1>1. CASE Native!RunContainer
  BY <1>1 DEF Native!RunContainer
<1>2. ASSUME NEW s \in Streams, Native!Writes(s)
      PROVE  NativeInv'
  <2>1. /\ written' = [written EXCEPT ![s] = @ + 1] /\ piped' = [piped EXCEPT ![s] = @ + 1]
        /\ process = "running" /\ written[s] < MaxChunks
        /\ UNCHANGED <<process, logged, liveCh, liveClosed, follower, errChan, poller, nativeCancelled, dir, nativeVolume>>
    BY <1>2 DEF Native!Writes
  <2>2. /\ written'[s] = written[s] + 1 /\ piped'[s] = piped[s] + 1
        /\ \A x \in Streams \ {s} : written'[x] = written[x] /\ piped'[x] = piped[x]
    BY <2>1
  <2>3. \A x \in Streams : /\ written'[x] \in 0..MaxChunks /\ piped'[x] \in 0..MaxChunks
                           /\ written'[x] = piped'[x] + logged'[x]
    BY <2>1, <2>2
  <2>4. written' \in [Streams -> 0..MaxChunks] /\ piped' \in [Streams -> 0..MaxChunks]
    BY <2>1, <2>3
  <2> QED
    BY <2>1, <2>3, <2>4
<1>3. ASSUME NEW s \in Streams, Native!TeeStream(s)
      PROVE  NativeInv'
  BY <1>3, NativeTee
<1>4. CASE Native!Ends
  BY <1>4 DEF Native!Ends
<1>5. CASE Native!WaitAndReport
  BY <1>5 DEF Native!WaitAndReport, Native!Zero
<1>6. CASE Native!Follow
  <2>1. liveCh' \in Seq(Streams) /\ Len(liveCh') <= LiveCapacity
    <3>1. Len(liveCh) \in Nat
      OBVIOUS
    <3>2. CASE Len(liveCh) > 0 /\ liveCh' = Tail(liveCh)
      BY <3>1, <3>2
    <3>3. CASE UNCHANGED liveCh
      BY <3>3
    <3>4. CASE liveCh' = <<>>
      BY <3>4
    <3> QED
      BY <1>6, <3>2, <3>3, <3>4 DEF Native!Follow
  <2>2. follower' \in {"following", "returned"}
    BY <1>6 DEF Native!Follow
  <2>3. UNCHANGED <<process, written, piped, logged, liveClosed, errChan, poller, nativeCancelled, dir, nativeVolume>>
    BY <1>6 DEF Native!Follow
  <2> QED
    BY <2>1, <2>2, <2>3
<1>7. ASSUME NEW p \in Pollers, Native!StatusTakes(p)
      PROVE  NativeInv'
  BY <1>7 DEF Native!StatusTakes
<1>8. ASSUME NEW p \in Pollers, Native!StatusReturns(p)
      PROVE  NativeInv'
  BY <1>8 DEF Native!StatusReturns
<1>9. ASSUME NEW p \in Pollers, Native!StatusCancelled(p)
      PROVE  NativeInv'
  BY <1>9 DEF Native!StatusCancelled
<1>10. CASE Native!CopyToVolume
  BY <1>10 DEF Native!CopyToVolume
<1>11. CASE Native!StopRun
  BY <1>11 DEF Native!StopRun
<1>12. CASE Native!Close
  BY <1>12 DEF Native!Close
<1>13. CASE Native!Over \/ UNCHANGED Native!vars
  BY <1>13 DEF Native!Over, Native!vars
<1> QED
  BY <1>1, <1>2, <1>3, <1>4, <1>5, <1>6, <1>7, <1>8, <1>9, <1>10, <1>11, <1>12, <1>13 DEF Native!Next, Native!Status

\* The native driver keeps to its types; done means that the whole output is there, and the outcome stays.
LEMMA NativeInvariant ==
    Native!Spec => [](Native!TypeOK /\ Native!DoneHasAllOutput /\ Native!OutcomeIsKept)
<1>1. NativeInv => Native!DoneHasAllOutput
  <2> SUFFICES ASSUME NativeInv, process \in Reaped
               PROVE  logged = written
    BY DEF Native!DoneHasAllOutput, NativeInv
  <2>1. \A s \in Streams : logged[s] = written[s]
    BY DEF NativeInv, Native!TypeOK
  <2> QED
    BY <2>1 DEF NativeInv, Native!TypeOK
<1>2. NativeInv => Native!OutcomeIsKept
  <2> SUFFICES ASSUME NativeInv, process \in Reaped
               PROVE  LET holders == {p \in Pollers : poller[p] = "holds"}
                      IN  IF errChan = <<>> THEN \E p \in Pollers : holders = {p} ELSE holders = {}
    BY DEF Native!OutcomeIsKept, Reaped
  <2> QED
    BY DEF NativeInv
<1>3. NativeInv => Native!TypeOK
  BY DEF NativeInv
<1> QED
  BY <1>1, <1>2, <1>3, NativeInitially, NativeStep, PTL DEF Native!Spec

-----------------------------------------------------------------------------
(* K8sDriver *)

\* The pod ended as its job's counter says, and a pod of a task has its job.
CounterInv(t) ==
    /\ job[t] = "none" => pod[t] = "none"
    /\ job[t] = "Succeeded" => pod[t] = "exit0"
    /\ job[t] = "Failed" => pod[t] \in {"exit1", "evicted"}

\* What Status has read and what it has reported agree with the pod, which does not change once it has ended
\* and is not deleted before the clean-up; before that there is nothing to report.
HandleInv(t) ==
    /\ user[t] = "status" /\ read[t] = "Succeeded" => pod[t] = "exit0"
    /\ user[t] = "status" /\ read[t] = "Failed" => pod[t] \in {"exit1", "evicted"}
    /\ user[t] \in {"logs", "cleanup"} /\ result[t] = "success" => pod[t] \in {"exit0", "evicted"}
    /\ user[t] \in {"logs", "cleanup"} /\ result[t] = "failure" => pod[t] \in {"exit1", "evicted"}
    /\ user[t] \notin {"logs", "cleanup", "done", "failed"} => result[t] = "none"

K8sInv ==
    /\ K8s!TypeOK
    /\ \A t \in Tasks : CounterInv(t) /\ HandleInv(t)
    /\ k8sClosed # "open" => \A x \in Users : user[x] \in Settled
    /\ k8sClosed \in {"jobs", "ok"} => \A t \in Tasks : job[t] = "none"
    /\ k8sClosed = "ok" => claim = {}

\* A namespace starts empty.
LEMMA K8sInitially == K8s!Init => K8sInv
<1> SUFFICES ASSUME K8s!Init
             PROVE  K8sInv
  OBVIOUS
<1>1. K8s!TypeOK
  <2>1. 0 \in 0..MaxCrashes
    BY DriversAssumption
  <2>2. pod \in [K8s!All -> {"none"}] /\ user \in [K8s!All -> {"idle"}]
    BY DEF K8s!Init
  <2> QED
    BY <2>1, <2>2 DEF K8s!Init, K8s!TypeOK
<1>2. Tasks \subseteq K8s!All
  BY DEF K8s!All
<1> QED
  BY <1>1, <1>2 DEF K8s!Init, K8sInv, CounterInv, HandleInv

\* The steps of a task, its job and its pod keep the invariant.
LEMMA K8sTaskSteps ==
    ASSUME K8sInv, NEW t \in Tasks,
           \/ K8s!FindJob(t) \/ K8s!CreateJob(t) \/ K8s!AttachStdin(t) \/ K8s!JobMakesPod(t) \/ K8s!PodEnds(t)
           \/ K8s!JobCounts(t) \/ K8s!StatusReadsJob(t) \/ K8s!StatusReadsPod(t) \/ K8s!ReadLogs(t) \/ K8s!GiveUp(t)
    PROVE  K8sInv'
<1> USE DriversAssumption
    DEF K8sInv, K8s!TypeOK, K8s!All, K8s!Ended, CounterInv, HandleInv, Users, Boxes, Settled, K8s!Goes, K8s!cluster,
        K8s!handles
<1>1. CASE K8s!FindJob(t)
  BY <1>1 DEF K8s!FindJob
<1>2. CASE K8s!CreateJob(t)
  BY <1>2 DEF K8s!CreateJob
<1>3. CASE K8s!AttachStdin(t)
  BY <1>3 DEF K8s!AttachStdin
<1>4. CASE K8s!JobMakesPod(t)
  BY <1>4 DEF K8s!JobMakesPod
<1>5. CASE K8s!PodEnds(t)
  BY <1>5 DEF K8s!PodEnds
<1>6. CASE K8s!JobCounts(t)
  BY <1>6 DEF K8s!JobCounts
<1>7. CASE K8s!StatusReadsJob(t)
  BY <1>7 DEF K8s!StatusReadsJob
<1>8. CASE K8s!StatusReadsPod(t)
  BY <1>8 DEF K8s!StatusReadsPod
<1>9. CASE K8s!ReadLogs(t)
  BY <1>9 DEF K8s!ReadLogs
<1>10. CASE K8s!GiveUp(t)
  BY <1>10 DEF K8s!GiveUp
<1> QED
  BY <1>1, <1>2, <1>3, <1>4, <1>5, <1>6, <1>7, <1>8, <1>9, <1>10

\* So does every step in the namespace.
LEMMA K8sStep == K8sInv /\ [K8s!Next]_(K8s!vars) => K8sInv'
<1> SUFFICES ASSUME K8sInv, [K8s!Next]_(K8s!vars)
             PROVE  K8sInv'
  OBVIOUS
<1>1. ASSUME NEW t \in Tasks,
             \/ K8s!FindJob(t) \/ K8s!CreateJob(t) \/ K8s!AttachStdin(t) \/ K8s!JobMakesPod(t) \/ K8s!PodEnds(t)
             \/ K8s!JobCounts(t) \/ K8s!StatusReadsJob(t) \/ K8s!StatusReadsPod(t) \/ K8s!ReadLogs(t) \/ K8s!GiveUp(t)
      PROVE  K8sInv'
  BY <1>1, K8sTaskSteps
<1> USE DriversAssumption
    DEF K8sInv, K8s!TypeOK, K8s!All, K8s!Ended, CounterInv, HandleInv, Users, Boxes, Settled, K8s!Goes, K8s!cluster,
        K8s!handles
<1>2. ASSUME NEW x \in Tasks \cup Sandboxes, K8s!GetClaim(x)
      PROVE  K8sInv'
  BY <1>2 DEF K8s!GetClaim
<1>3. ASSUME NEW x \in Tasks \cup Sandboxes, K8s!CreateClaim(x)
      PROVE  K8sInv'
  BY <1>3 DEF K8s!CreateClaim
<1>4. ASSUME NEW x \in Tasks \cup Sandboxes, K8s!Cleanup(x)
      PROVE  K8sInv'
  BY <1>4 DEF K8s!Cleanup
<1>5. ASSUME NEW x \in Sandboxes \cup Helpers, K8s!CreatePod(x)
      PROVE  K8sInv'
  BY <1>5 DEF K8s!CreatePod
<1>6. ASSUME NEW x \in Sandboxes \cup Helpers, K8s!StartSandbox(x)
      PROVE  K8sInv'
  BY <1>6 DEF K8s!StartSandbox
<1>7. ASSUME NEW x \in Sandboxes \cup Helpers, K8s!WaitForPod(x)
      PROVE  K8sInv'
  BY <1>7 DEF K8s!WaitForPod
<1>8. ASSUME NEW x \in Sandboxes \cup Helpers, K8s!Exec(x)
      PROVE  K8sInv'
  BY <1>8 DEF K8s!Exec
<1>9. ASSUME NEW x \in K8s!All, K8s!PodRuns(x)
      PROVE  K8sInv'
  BY <1>9 DEF K8s!PodRuns
<1>10. ASSUME NEW h \in Helpers, K8s!HelperCopies(h)
       PROVE  K8sInv'
  BY <1>10 DEF K8s!HelperCopies
<1>11. ASSUME NEW h \in Helpers, K8s!DeleteHelper(h)
       PROVE  K8sInv'
  BY <1>11 DEF K8s!DeleteHelper
<1>12. CASE K8s!StopRun
  BY <1>12 DEF K8s!StopRun
<1>13. CASE K8s!CrashAndResume
  BY <1>13 DEF K8s!CrashAndResume
<1>14. CASE K8s!CloseJobs
  BY <1>14 DEF K8s!CloseJobs
<1>15. CASE K8s!CloseClaims
  BY <1>15 DEF K8s!CloseClaims
<1>16. CASE K8s!Closed \/ UNCHANGED K8s!vars
  BY <1>16 DEF K8s!Closed, K8s!vars
<1> QED
  BY <1>1, <1>2, <1>3, <1>4, <1>5, <1>6, <1>7, <1>8, <1>9, <1>10, <1>11, <1>12, <1>13, <1>14, <1>15, <1>16
     DEF K8s!Next

\* The Kubernetes driver keeps to its types, reports what the pods did, and its Close removes jobs and claims.
LEMMA K8sInvariant ==
    K8s!Spec => [](K8s!TypeOK /\ K8s!ResultIsThePods /\ K8s!CloseRemovesJobsAndClaims)
<1>1. K8sInv => K8s!TypeOK /\ K8s!CloseRemovesJobsAndClaims
  BY DEF K8sInv, CounterInv, K8s!CloseRemovesJobsAndClaims
<1>2. K8sInv => K8s!ResultIsThePods
  BY DEF K8sInv, HandleInv, K8s!ResultIsThePods
<1> QED
  BY <1>1, <1>2, K8sInitially, K8sStep, PTL DEF K8s!Spec

-----------------------------------------------------------------------------
(* FlyDriver *)

\* What a call works with: a task or a sandbox with a volume or none, a copy with a volume while it makes its
\* helper and with the helper while it copies.
WorksWith ==
    /\ \A u \in Boxes : /\ flyCaller[u] \notin {"makeHelper", "copy"} /\ mine[u] \in Disks \cup {"none"}
                        /\ flyCaller[u] \in {"record", "detach"} => mine[u] \in Disks
    /\ \A c \in Helpers : /\ flyCaller[c] \in Settled \cup {"makeHelper", "copy"}
                          /\ flyCaller[c] = "makeHelper" => mine[c] \in Disks
                          /\ flyCaller[c] = "copy" => mine[c] \in HelperIds

\* Nobody works once Close has begun; a sweep without a failure leaves no machine, and then no volume is attached.
SweptInv ==
    /\ flyClosed # "open" => \A u \in Users : flyCaller[u] \in Settled
    /\ flyClosed \in {"machines", "clean"} => \A i \in Fly!Ids : flyMachine[i] = "none"
    /\ flyClosed = "clean" => disk = {}

FlyInv == Fly!TypeOK /\ WorksWith /\ SweptInv

\* The callers of the driver, and its machines.
LEMMA FlyUsers == /\ Fly!Users = Users /\ Boxes \subseteq Users /\ Helpers \subseteq Users /\ Boxes \cap Helpers = {}
                  /\ Fly!Ids = Boxes \cup HelperIds /\ Tasks \subseteq Boxes /\ Sandboxes \subseteq Boxes
                  /\ "none" \notin Fly!Ids /\ "none" \notin Disks /\ Users = Boxes \cup Helpers
BY DriversAssumption DEF Fly!Users, Fly!Ids, Users, Boxes

\* A namespace starts empty.
LEMMA FlyInitially == Fly!Init => FlyInv
<1> SUFFICES ASSUME Fly!Init
             PROVE  FlyInv
  OBVIOUS
<1>1. 0 \in 0..MaxCrashes
  BY DriversAssumption
<1>2. /\ flyMachine \in [Fly!Ids -> {"none"}] /\ mounted \in [Fly!Ids -> {"none"}]
      /\ flyCaller \in [Fly!Users -> {"idle"}] /\ logical \in [Fly!Mounts -> {"none"}]
      /\ mine \in [Fly!Users -> {"none"}]
  BY DEF Fly!Init
<1>3. Fly!TypeOK
  BY <1>1, <1>2 DEF Fly!Init, Fly!TypeOK
<1> QED
  BY <1>3, FlyUsers DEF Fly!Init, FlyInv, WorksWith, SweptInv, Settled, Boxes, Users

\* The steps of a task or a sandbox, up to its launch, keep the invariant.
LEMMA FlyVolumeSteps ==
    ASSUME FlyInv, NEW u \in Users,
           Fly!CreateVolume(u) \/ Fly!CreateSharedVolume(u) \/ Fly!RecordSharedVolume(u) \/ Fly!Detach(u)
    PROVE  FlyInv'
<1> USE DriversAssumption, FlyUsers DEF Fly!Goes, FlyInv, SweptInv, WorksWith, Settled, Fly!driverVars
<1>1. CASE Fly!CreateVolume(u)
  <2> DEFINE n == MountOf[u]
  <2>1. /\ u \in Boxes /\ flyClosed = "open" /\ flyCaller[u] = "idle"
        /\ UNCHANGED <<flyMachine, mounted, disk, shared, tracked, trackedDisk, attachment, helper, flyResult,
                       flyClosed, flyCrashes>>
    BY <1>1 DEF Fly!CreateVolume
  <2>2. n # "none" => logical[n] \in Disks \cup {"none"}
    BY <2>1 DEF Fly!TypeOK, Fly!Mounts
  <2>3. shared \in Disks \cup {"none"}
    BY DEF Fly!TypeOK
  <2>4. PICK d \in Disks \cup {"none"}, p \in {"launch", "detach", "failed", "newDisk"} :
          /\ flyCaller' = [flyCaller EXCEPT ![u] = p] /\ (p = "detach" => d \in Disks)
          /\ mine' = [mine EXCEPT ![u] = d]
          /\ logical' \in [Fly!Mounts -> Disks \cup {"none"}]
    <3>0. mine \in [Users -> Disks \cup HelperIds \cup {"none"}] /\ mine[u] \in Disks \cup {"none"}
      BY <2>1 DEF Fly!TypeOK
    <3>1. CASE n = "none" /\ Fly!Goes(u, "idle", "launch") /\ mine' = [mine EXCEPT ![u] = "none"] /\ UNCHANGED logical
      BY <3>1 DEF Fly!TypeOK
    <3>2. CASE n # "none" /\ logical[n] # "none" /\ Fly!Goes(u, "idle", "detach")
               /\ mine' = [mine EXCEPT ![u] = logical[n]] /\ UNCHANGED logical
      BY <2>2, <3>2 DEF Fly!TypeOK
    <3>3. CASE n # "none" /\ shared # "none" /\ Fly!Goes(u, "idle", "detach")
               /\ logical' = [logical EXCEPT ![n] = shared] /\ mine' = [mine EXCEPT ![u] = shared]
      BY <2>3, <3>3 DEF Fly!TypeOK
    <3>4. CASE UNCHANGED <<logical, mine>> /\ (Fly!Goes(u, "idle", "failed") \/ Fly!Goes(u, "idle", "newDisk"))
      <4>1. mine' = [mine EXCEPT ![u] = mine[u]]
        BY <3>0, <3>4
      <4> QED
        BY <3>0, <3>4, <4>1 DEF Fly!TypeOK
    <3> QED
      BY <1>1, <3>1, <3>2, <3>3, <3>4 DEF Fly!CreateVolume
  <2> QED
    BY <2>1, <2>4 DEF Fly!TypeOK
<1>2. CASE Fly!CreateSharedVolume(u)
  BY <1>2 DEF Fly!CreateSharedVolume, Fly!TypeOK
<1>3. CASE Fly!RecordSharedVolume(u)
  <2>1. /\ flyCaller[u] = "record" /\ flyCaller' = [flyCaller EXCEPT ![u] = "detach"]
        /\ trackedDisk' = trackedDisk \cup {mine[u]} /\ shared' = mine[u]
        /\ logical' = [logical EXCEPT ![MountOf[u]] = mine[u]]
        /\ UNCHANGED <<flyMachine, mounted, disk, tracked, attachment, helper, mine, flyResult, flyClosed, flyCrashes>>
    BY <1>3 DEF Fly!RecordSharedVolume
  <2>2. u \in Boxes /\ mine[u] \in Disks /\ flyClosed = "open"
    BY <2>1
  <2>3. logical' \in [Fly!Mounts -> Disks \cup {"none"}]
    BY <2>1, <2>2 DEF Fly!TypeOK
  <2> QED
    BY <2>1, <2>2, <2>3 DEF Fly!TypeOK
<1>4. CASE Fly!Detach(u)
  BY <1>4 DEF Fly!Detach, Fly!Without, Fly!TypeOK
<1> QED
  BY <1>1, <1>2, <1>3, <1>4

\* So do the launch and what follows it.
LEMMA FlyMachineSteps ==
    ASSUME FlyInv, NEW u \in Users,
           \/ u \notin Helpers /\ (Fly!Launch(u) \/ Fly!LaunchFails(u))
           \/ Fly!SandboxStarts(u) \/ Fly!Exec(u)
           \/ Fly!MachineStops(u) \/ Fly!WaitForStop(u) \/ Fly!StopPolling(u) \/ Fly!Cleanup(u)
    PROVE  FlyInv'
<1> USE DriversAssumption, FlyUsers
    DEF Fly!Goes, FlyInv, SweptInv, WorksWith, Settled, Fly!driverVars, Fly!Attach, Fly!Without
<1>1. CASE u \notin Helpers /\ Fly!Launch(u)
  BY <1>1 DEF Fly!Launch, Fly!TypeOK
<1>2. CASE u \notin Helpers /\ Fly!LaunchFails(u)
  BY <1>2 DEF Fly!LaunchFails, Fly!TypeOK
<1>3. CASE Fly!SandboxStarts(u)
  BY <1>3 DEF Fly!SandboxStarts, Fly!TypeOK
<1>4. CASE Fly!Exec(u)
  BY <1>4 DEF Fly!Exec, Fly!TypeOK
<1>5. CASE Fly!MachineStops(u)
  BY <1>5 DEF Fly!MachineStops, Fly!TypeOK
<1>6. CASE Fly!WaitForStop(u)
  BY <1>6 DEF Fly!WaitForStop, Fly!TypeOK
<1>7. CASE Fly!StopPolling(u)
  BY <1>7 DEF Fly!StopPolling, Fly!TypeOK
<1>8. CASE Fly!Cleanup(u)
  BY <1>8 DEF Fly!Cleanup, Fly!TypeOK
<1> QED
  BY <1>1, <1>2, <1>3, <1>4, <1>5, <1>6, <1>7, <1>8

\* So do the cache helpers.
LEMMA FlyHelperSteps ==
    ASSUME FlyInv, NEW c \in Users,
           Fly!WantHelper(c) \/ Fly!ResumeHelper(c) \/ Fly!LaunchHelper(c) \/ Fly!FinishCopy(c)
    PROVE  FlyInv'
<1> USE DriversAssumption, FlyUsers DEF Fly!Goes, FlyInv, SweptInv, WorksWith, Settled, Fly!driverVars, Fly!Without
<1>1. CASE Fly!WantHelper(c)
  BY <1>1 DEF Fly!WantHelper, Fly!TypeOK, Fly!Mounts
<1>2. CASE Fly!ResumeHelper(c)
  BY <1>2, SMTT(30) DEF Fly!ResumeHelper, Fly!TypeOK, Fly!Mounts
<1>3. CASE Fly!LaunchHelper(c)
  BY <1>3 DEF Fly!LaunchHelper, Fly!TypeOK
<1>4. CASE Fly!FinishCopy(c)
  BY <1>4 DEF Fly!FinishCopy, Fly!TypeOK
<1> QED
  BY <1>1, <1>2, <1>3, <1>4

\* So does every step in the namespace.
LEMMA FlyStep == FlyInv /\ [Fly!Next]_(Fly!vars) => FlyInv'
<1> SUFFICES ASSUME FlyInv, [Fly!Next]_(Fly!vars)
             PROVE  FlyInv'
  OBVIOUS
<1> USE FlyUsers DEF FlyInv, SweptInv, WorksWith, Settled, Fly!driverVars
<1>1. CASE Fly!CrashAndResume
  BY <1>1, DriversAssumption DEF Fly!CrashAndResume, Fly!TypeOK
<1>2. CASE Fly!CloseMachines
  BY <1>2 DEF Fly!CloseMachines, Fly!TypeOK, Fly!Settled, Fly!Without, Fly!Swept
<1>3. CASE Fly!CloseVolumes
  BY <1>3 DEF Fly!CloseVolumes, Fly!TypeOK, Fly!Free, Fly!SweptVolumes
<1>4. CASE Fly!Closed \/ UNCHANGED Fly!vars
  BY <1>4 DEF Fly!Closed, Fly!vars, Fly!TypeOK
<1> HIDE DEF FlyInv
<1> QED
  BY <1>1, <1>2, <1>3, <1>4, FlyVolumeSteps, FlyMachineSteps, FlyHelperSteps DEF Fly!Next

\* The Fly driver keeps to its types, and its Close leaves nothing.
LEMMA FlyInvariant == Fly!Spec => [](Fly!TypeOK /\ Fly!CloseLeavesNothing)
<1>1. FlyInv => Fly!TypeOK /\ Fly!CloseLeavesNothing
  BY DEF FlyInv, SweptInv, Fly!CloseLeavesNothing
<1> QED
  BY <1>1, FlyInitially, FlyStep, PTL DEF Fly!Spec

-----------------------------------------------------------------------------
(* VMDriver: what is proved does not depend on which of the two it is *)

\* The call that boots waits for the boot to end; a command that was not asked for has not been started, and one
\* that is asked after was.
BootInv ==
    /\ boot = "no" /\ booter = "none" => vm = "off" /\ tempDir = "none"
    /\ booter # "none" /\ boot \notin {"ok", "failed"} => vmCall[booter] = "boot"
    /\ booter = "none" => boot = "no"

CommandInv(c) ==
    /\ vmCall[c] \in {"idle", "boot", "exec"} => started[c] = 0 /\ proc[c] = "none"
    /\ vmCall[c] = "poll" => proc[c] \in {"runs", "exited"} /\ started[c] >= 1
    /\ vmCall[c] = "done" => proc[c] = "exited" /\ started[c] >= 1
    /\ faults = 0 => started[c] <= 1

VMInv ==
    /\ VM!TypeOK /\ BootInv /\ \A c \in Calls : CommandInv(c)
    /\ VM!CloseEndsTheMachine
    /\ vmClosed => VM!Settled /\ (boot = "no" => booter = "none") /\ boot \in {"no", "ok", "failed"}

\* No call has been made and nothing is booted.
LEMMA VMInitially == VM!Init => VMInv
<1> SUFFICES ASSUME VM!Init
             PROVE  VMInv
  OBVIOUS
<1>1. /\ faults = 0 /\ 0 \in 0..MaxFaults
      /\ \A c \in Calls : started[c] = 0 /\ proc[c] = "none" /\ vmCall[c] = "idle"
  BY DriversAssumption DEF VM!Init
<1>2. VM!TypeOK
  BY <1>1 DEF VM!Init, VM!TypeOK
<1>3. \A c \in Calls : CommandInv(c)
  BY <1>1 DEF CommandInv
<1>4. BootInv /\ VM!CloseEndsTheMachine /\ ~vmClosed
  BY DEF VM!Init, BootInv, VM!CloseEndsTheMachine
<1> QED
  BY <1>2, <1>3, <1>4 DEF VMInv

\* What a request may come to: an answer without a fault says that the agent carried it out once.
LEMMA AnswerIs ==
    ASSUME VM!TypeOK, NEW answer \in VM!Answers, VM!Request(answer)
    PROVE  /\ answer.times \in 0..2 /\ answer.ok \in BOOLEAN
           /\ answer.ok => answer.times >= 1
           /\ conn = "open" /\ conn' \in {"open", "nil"} /\ panic' = panic /\ faults' \in 0..MaxFaults
           /\ faults' = 0 => faults = 0 /\ answer.times = 1 /\ answer.ok
<1>1. CASE answer = [times |-> 1, conn |-> "open", ok |-> TRUE, fault |-> 0]
  BY <1>1 DEF VM!TypeOK, VM!Request
<1>2. CASE answer \in [times : 0..1, conn : {"nil"}, ok : {FALSE}, fault : {1}] /\ faults # MaxFaults
  <2>0. answer.conn = "nil" /\ answer.fault = 1
    BY <1>2
  <2>1. answer.times \in 0..1 /\ ~answer.ok /\ answer.ok \in BOOLEAN
    BY <1>2
  <2>2. faults \in 0..MaxFaults /\ faults # MaxFaults /\ MaxFaults \in Nat
    BY <1>2, DriversAssumption DEF VM!TypeOK
  <2>3. conn = "open" /\ conn' = answer.conn /\ faults' = faults + answer.fault /\ panic' = panic
    BY DEF VM!Request
  <2>4. conn' = "nil" /\ faults' = faults + 1
    BY <2>0, <2>2, <2>3
  <2>5. faults' \in 0..MaxFaults /\ faults' # 0
    BY <2>2, <2>4
  <2>6. answer.times \in 0..2
    BY <2>1
  <2> QED
    BY <2>1, <2>3, <2>4, <2>5, <2>6
<1>3. CASE answer \in [times : 1..2, conn : {"open"}, ok : {TRUE}, fault : {1}] /\ faults # MaxFaults
  <2>0. answer.conn = "open" /\ answer.fault = 1
    BY <1>3
  <2>1. answer.times \in 1..2 /\ answer.ok /\ answer.ok \in BOOLEAN
    BY <1>3
  <2>2. faults \in 0..MaxFaults /\ faults # MaxFaults /\ MaxFaults \in Nat
    BY <1>3, DriversAssumption DEF VM!TypeOK
  <2>3. conn = "open" /\ conn' = answer.conn /\ faults' = faults + answer.fault /\ panic' = panic
    BY DEF VM!Request
  <2>4. conn' = "open" /\ faults' = faults + 1
    BY <2>0, <2>2, <2>3
  <2>5. faults' \in 0..MaxFaults /\ faults' # 0
    BY <2>2, <2>4
  <2>6. answer.times \in 0..2
    BY <2>1
  <2> QED
    BY <2>1, <2>3, <2>4, <2>5, <2>6
<1>4. CASE answer \in [times : 0..2, conn : {"open"}, ok : {FALSE}, fault : {1}] /\ faults # MaxFaults
  <2>0. answer.conn = "open" /\ answer.fault = 1
    BY <1>4
  <2>1. answer.times \in 0..2 /\ ~answer.ok /\ answer.ok \in BOOLEAN
    BY <1>4
  <2>2. faults \in 0..MaxFaults /\ faults # MaxFaults /\ MaxFaults \in Nat
    BY <1>4, DriversAssumption DEF VM!TypeOK
  <2>3. conn = "open" /\ conn' = answer.conn /\ faults' = faults + answer.fault /\ panic' = panic
    BY DEF VM!Request
  <2>4. conn' = "open" /\ faults' = faults + 1
    BY <2>0, <2>2, <2>3
  <2>5. faults' \in 0..MaxFaults /\ faults' # 0
    BY <2>2, <2>4
  <2>6. answer.times \in 0..2
    BY <2>1
  <2> QED
    BY <2>1, <2>3, <2>4, <2>5, <2>6
<1> QED
  BY <1>1, <1>2, <1>3, <1>4 DEF VM!Answers

\* The steps of a boot keep the invariant.
LEMMA VMBootSteps ==
    ASSUME VMInv,
           \/ VM!MakeTempDir \/ VM!PrepareDisk \/ VM!StartVM \/ VM!ReachMonitor \/ VM!ReachAgent \/ VM!MountVolumes
           \/ VM!BootFails
    PROVE  VMInv'
<1> USE DriversAssumption DEF VMInv, BootInv, CommandInv, VM!CloseEndsTheMachine, VM!Settled
<1>1. CASE VM!MakeTempDir
  BY <1>1 DEF VM!MakeTempDir, VM!TypeOK
<1>2. CASE VM!PrepareDisk
  BY <1>2 DEF VM!PrepareDisk, VM!TypeOK
<1>3. CASE VM!StartVM
  BY <1>3 DEF VM!StartVM, VM!TypeOK
<1>4. CASE VM!ReachMonitor
  BY <1>4 DEF VM!ReachMonitor, VM!TypeOK
<1>5. CASE VM!ReachAgent
  BY <1>5 DEF VM!ReachAgent, VM!TypeOK
<1>6. CASE VM!MountVolumes
  <2>1. PICK answer \in VM!Answers : VM!Request(answer)
    BY <1>6 DEF VM!MountVolumes
  <2>2. conn' \in {"open", "nil"} /\ panic' = panic /\ faults' \in 0..MaxFaults /\ (faults' = 0 => faults = 0)
    BY <2>1, AnswerIs
  <2>3. boot = "mount" /\ boot' = "ok" /\ UNCHANGED <<booter, vm, tempDir, started, proc, vmCall, vmClosed>>
    BY <1>6 DEF VM!MountVolumes
  <2> QED
    BY <2>2, <2>3 DEF VM!TypeOK
<1>7. CASE VM!BootFails
  BY <1>7 DEF VM!BootFails, VM!TypeOK
<1> QED
  BY <1>1, <1>2, <1>3, <1>4, <1>5, <1>6, <1>7

\* So do the steps of a call.
LEMMA VMCallSteps ==
    ASSUME VMInv, NEW c \in Calls,
           \/ VM!EnsureVM(c) \/ VM!Booted(c) \/ VM!Exec(c) \/ VM!ProcessEnds(c) \/ VM!Status(c) \/ VM!GiveUp(c)
           \/ VM!NilConnection(c)
    PROVE  VMInv'
<1> USE DriversAssumption DEF VMInv, BootInv, CommandInv, VM!CloseEndsTheMachine, VM!Settled, VM!Goes
<1>1. CASE VM!EnsureVM(c)
  BY <1>1 DEF VM!EnsureVM, VM!TypeOK
<1>2. CASE VM!Booted(c)
  BY <1>2 DEF VM!Booted, VM!TypeOK
<1>3. CASE VM!Exec(c)
  <2>1. PICK answer \in VM!Answers :
          /\ VM!Request(answer)
          /\ started' = [started EXCEPT ![c] = @ + answer.times]
          /\ proc' = [proc EXCEPT ![c] = IF answer.ok THEN "runs" ELSE @]
          /\ VM!Goes(c, "exec", IF answer.ok THEN "poll" ELSE "failed")
    BY <1>3 DEF VM!Exec
  <2>2. /\ answer.times \in 0..2 /\ answer.ok \in BOOLEAN /\ (answer.ok => answer.times >= 1)
        /\ conn' \in {"open", "nil"} /\ panic' = panic /\ faults' \in 0..MaxFaults
        /\ faults' = 0 => faults = 0 /\ answer.times = 1
    BY <2>1, AnswerIs
  <2>3. ~vmClosed /\ started[c] = 0 /\ proc[c] = "none" /\ UNCHANGED <<boot, booter, vm, tempDir, vmClosed>>
    BY <1>3 DEF VM!Exec, VM!TypeOK
  <2>4. started'[c] = answer.times /\ \A d \in Calls \ {c} : started'[d] = started[d]
    BY <2>1, <2>2, <2>3 DEF VM!TypeOK
  <2>5. proc'[c] = (IF answer.ok THEN "runs" ELSE "none") /\ \A d \in Calls \ {c} : proc'[d] = proc[d]
    BY <2>1, <2>3 DEF VM!TypeOK
  <2>6. /\ vmCall[c] = "exec" /\ vmCall'[c] = IF answer.ok THEN "poll" ELSE "failed"
        /\ \A d \in Calls \ {c} : vmCall'[d] = vmCall[d]
    BY <2>1 DEF VM!TypeOK
  <2>7. VM!TypeOK'
    BY <2>1, <2>2, <2>3, <2>4 DEF VM!TypeOK
  <2>8. ASSUME NEW d \in Calls
        PROVE  CommandInv(d)'
    <3>1. CASE d = c
      BY <2>2, <2>4, <2>5, <2>6, <3>1
    <3>2. CASE d # c
      BY <2>2, <2>4, <2>5, <2>6, <3>2
    <3> QED
      BY <3>1, <3>2
  <2>9. BootInv'
    BY <2>3, <2>6 DEF VM!TypeOK
  <2> QED
    BY <2>3, <2>7, <2>8, <2>9
<1>4. CASE VM!ProcessEnds(c)
  BY <1>4 DEF VM!ProcessEnds, VM!TypeOK
<1>5. CASE VM!Status(c)
  <2>1. PICK answer \in VM!Answers :
          /\ VM!Request(answer)
          /\ VM!Goes(c, "poll", IF ~answer.ok THEN "failed" ELSE IF proc[c] = "exited" THEN "done" ELSE "poll")
    BY <1>5 DEF VM!Status
  <2>2. conn' \in {"open", "nil"} /\ panic' = panic /\ faults' \in 0..MaxFaults /\ (faults' = 0 => faults = 0)
    BY <2>1, AnswerIs
  <2>3. UNCHANGED <<boot, booter, vm, tempDir, started, proc, vmClosed>>
    BY <1>5 DEF VM!Status
  <2> QED
    BY <2>1, <2>2, <2>3 DEF VM!TypeOK
<1>6. CASE VM!GiveUp(c)
  BY <1>6 DEF VM!GiveUp, VM!TypeOK
<1>7. CASE VM!NilConnection(c)
  BY <1>7 DEF VM!NilConnection, VM!TypeOK
<1> QED
  BY <1>1, <1>2, <1>3, <1>4, <1>5, <1>6, <1>7

\* So does every step.
LEMMA VMStep == VMInv /\ [VM!Next]_(VM!vars) => VMInv'
<1> SUFFICES ASSUME VMInv, [VM!Next]_(VM!vars)
             PROVE  VMInv'
  OBVIOUS
<1>1. CASE VM!Close
  BY <1>1 DEF VMInv, BootInv, CommandInv, VM!CloseEndsTheMachine, VM!Settled, VM!Close, VM!TypeOK
<1>2. CASE VM!Over \/ UNCHANGED VM!vars
  BY <1>2 DEF VMInv, BootInv, CommandInv, VM!CloseEndsTheMachine, VM!Settled, VM!Over, VM!vars, VM!TypeOK
<1> QED
  BY <1>1, <1>2, VMBootSteps, VMCallSteps DEF VM!Next

\* The virtual machine drivers keep to their types, their Close ends the machine, and a result is of one run.
LEMMA VMInvariant == VM!Spec => [](VM!TypeOK /\ VM!CloseEndsTheMachine /\ VM!ResultIsOfOneRun)
<1>1. VMInv => VM!TypeOK /\ VM!CloseEndsTheMachine /\ VM!ResultIsOfOneRun
  BY DEF VMInv, CommandInv, VM!ResultIsOfOneRun
<1> QED
  BY <1>1, VMInitially, VMStep, PTL DEF VM!Spec

-----------------------------------------------------------------------------
(* CloudWorkers *)

\* An instance with a call under way is open; a call that verifies a claim or connects has a machine.
CallerInv ==
    \A c \in Callers :
        /\ call[c] \notin {"idle", "failed"} => closing[InstanceOf[c]] = "open"
        /\ call[c] \in {"verify", "connect"} => target[c] \in Machines

\* A rented machine has an instance, which keeps it and is not past deleting it, or keeps another one.
Kept(m) ==
    LET i == machine[m].by
    IN  /\ i \in Instances
        /\ (server[i] = m /\ closing[i] \in {"open", "broken", "parked"}) \/ server[i] \in Machines \ {m}

\* The key at the provider is the key of an instance that has not deleted its key yet.
KeyHeld(i) == sshKey[i] = remoteKey /\ closing[i] \in {"open", "parked", "broken", "deleted"}

MachineRecs == [tags : SUBSET {"worker", "busy", "idle"}, key : 0..lastKey, by : Instances \cup {"none"}]

CloudInv ==
    /\ Cloud!TypeOK /\ CallerInv /\ \A m \in Cloud!Pool : Kept(m)
    /\ remoteKey # 0 => \E i \in Instances : KeyHeld(i)

\* Nothing is rented.
LEMMA CloudInitially == Cloud!Init => CloudInv
<1> SUFFICES ASSUME Cloud!Init
             PROVE  CloudInv
  OBVIOUS
<1>1. /\ lastKey = 0 /\ 0 \in 0..lastKey /\ 0 \in 0..MaxCalls
      /\ \A c \in Callers : call[c] = "idle"
  BY DriversAssumption DEF Cloud!Init
<1>2. /\ Cloud!Absent \in MachineRecs
      /\ "worker" \notin Cloud!Absent.tags
  BY <1>1 DEF Cloud!Absent, MachineRecs
<1>3. /\ machine \in [Machines -> MachineRecs]
      /\ Cloud!Pool = {}
  BY <1>2 DEF Cloud!Init, Cloud!Pool
<1>4. Cloud!TypeOK
  BY <1>1, <1>3 DEF Cloud!Init, Cloud!TypeOK, MachineRecs
<1> QED
  BY <1>1, <1>3, <1>4 DEF Cloud!Init, CloudInv, CallerInv

\* A machine with other tags.
LEMMA TagsAre ==
    ASSUME lastKey \in Nat, NEW rec \in MachineRecs, NEW t \in SUBSET {"worker", "busy", "idle"}
    PROVE  /\ [rec EXCEPT !.tags = t] \in MachineRecs /\ [rec EXCEPT !.tags = t].tags = t
           /\ [rec EXCEPT !.tags = t].by = rec.by
BY DEF MachineRecs

\* One machine is given other tags.
LEMMA RetagStep ==
    ASSUME Cloud!TypeOK, NEW m \in Machines, NEW t \in SUBSET {"worker", "busy", "idle"},
           machine' = [machine EXCEPT ![m].tags = t]
    PROVE  /\ machine' \in [Machines -> MachineRecs]
           /\ \A x \in Machines : machine'[x].by = machine[x].by
           /\ \A x \in Machines : machine'[x].tags = IF x = m THEN t ELSE machine[x].tags
<1>1. machine \in [Machines -> MachineRecs] /\ lastKey \in Nat
  BY DEF Cloud!TypeOK, MachineRecs
<1>2. PICK rec \in MachineRecs : rec = machine[m]
  BY <1>1
<1>3. machine' = [machine EXCEPT ![m] = [rec EXCEPT !.tags = t]]
  BY <1>2, Zenon
<1>4. PICK new \in MachineRecs : new = [rec EXCEPT !.tags = t] /\ new.tags = t /\ new.by = rec.by
  BY <1>1, TagsAre, Zenon
<1>5. machine' = [machine EXCEPT ![m] = new]
  BY <1>3, <1>4, Zenon
<1> QED
  BY <1>1, <1>2, <1>4, <1>5

\* A change of tags leaves a machine rented, and keeps who rented it.
LEMMA TagKeeps ==
    ASSUME Cloud!TypeOK, NEW m \in Machines, NEW on \in SUBSET {"busy", "idle"}, NEW off \in SUBSET {"busy", "idle"},
           Cloud!Tag(m, on, off)
    PROVE  /\ machine' \in [Machines -> MachineRecs]
           /\ \A x \in Machines : machine'[x].by = machine[x].by
           /\ Cloud!Pool' = Cloud!Pool
<1>1. PICK old \in SUBSET {"worker", "busy", "idle"} : old = machine[m].tags
  BY DEF Cloud!TypeOK
<1>2. PICK t \in SUBSET {"worker", "busy", "idle"} : t = IF "worker" \in old THEN (old \ off) \cup on ELSE old
  OBVIOUS
<1>3. "worker" \in t <=> "worker" \in old
  BY <1>2
<1>4. machine' = [machine EXCEPT ![m].tags = t]
  BY <1>1, <1>2, Zenon DEF Cloud!Tag
<1>5. /\ machine' \in [Machines -> MachineRecs]
      /\ \A x \in Machines : machine'[x].by = machine[x].by
      /\ \A x \in Machines : machine'[x].tags = IF x = m THEN t ELSE machine[x].tags
  BY <1>4, RetagStep, Zenon
<1> QED
  BY <1>1, <1>3, <1>5 DEF Cloud!Pool

\* Machines that stay rented are kept as long as no instance forgets its own and none gets past deleting it.
LEMMA KeptStep ==
    ASSUME CloudInv, Cloud!Pool' \subseteq Cloud!Pool,
           \A m \in Cloud!Pool' : machine'[m].by = machine[m].by,
           \A i \in Instances : server'[i] = server[i],
           \A i \in Instances : closing[i] \in {"open", "broken", "parked"} => closing'[i] \in {"open", "broken", "parked"}
    PROVE  \A m \in Cloud!Pool' : Kept(m)'
BY DEF CloudInv, Kept

\* The steps of a call that neither rents nor takes a machine keep the invariant.
LEMMA CloudCallSteps ==
    ASSUME CloudInv, NEW c \in Callers,
           \/ Cloud!EnsureServer(c) \/ Cloud!WaitForWorkerSlot(c) \/ Cloud!GiveUpWaiting(c) \/ Cloud!PollAgain(c)
           \/ Cloud!Connect(c) \/ Cloud!Delegate(c)
    PROVE  CloudInv'
<1> USE DriversAssumption DEF Cloud!Goes, Cloud!At, Cloud!fields, Cloud!keyring
<1>1. /\ UNCHANGED <<machine, server, sshKey, remoteKey, keyFile, lastKey, target, closing>>
      /\ connected' \subseteq Instances
  BY DEF Cloud!EnsureServer, Cloud!WaitForWorkerSlot, Cloud!GiveUpWaiting, Cloud!PollAgain, Cloud!Connect, Cloud!Delegate,
     CloudInv, Cloud!TypeOK
<1>2. (\A m \in Cloud!Pool' : Kept(m)') /\ (remoteKey' # 0 => \E i \in Instances : KeyHeld(i)')
  BY <1>1 DEF CloudInv, Kept, KeyHeld, Cloud!Pool
<1>3. calls' \in [Callers -> 0..MaxCalls] /\ found' \in [Callers -> SUBSET Machines]
  BY DEF Cloud!EnsureServer, Cloud!WaitForWorkerSlot, Cloud!GiveUpWaiting, Cloud!PollAgain, Cloud!Connect, Cloud!Delegate,
     CloudInv, Cloud!TypeOK, Cloud!Pool
<1>4. /\ \E to \in {"key", "slot", "create", "claim", "delegate", "failed", "idle"} : call' = [call EXCEPT ![c] = to]
      /\ closing[InstanceOf[c]] = "open"
  BY DEF Cloud!EnsureServer, Cloud!WaitForWorkerSlot, Cloud!GiveUpWaiting, Cloud!PollAgain, Cloud!Connect, Cloud!Delegate,
     CloudInv, CallerInv, Cloud!TypeOK
<1>5. Cloud!TypeOK' /\ CallerInv'
  BY <1>1, <1>3, <1>4 DEF CloudInv, CallerInv, Cloud!TypeOK
<1> QED
  BY <1>2, <1>5 DEF CloudInv

\* The key a call finds or makes is the one at the provider, and is its instance's.
LEMMA CloudKeyStep ==
    ASSUME CloudInv, NEW c \in Callers, Cloud!EnsureSSHKey(c)
    PROVE  CloudInv'
<1> USE DriversAssumption DEF Cloud!Goes, Cloud!At, Cloud!keyring
<1>1. /\ UNCHANGED <<machine, server, connected, found, target, calls, closing>>
      /\ closing[InstanceOf[c]] = "open" /\ InstanceOf[c] \in Instances
      /\ \E to \in {"slot", "failed"} : call' = [call EXCEPT ![c] = to]
  BY DEF Cloud!EnsureSSHKey, CloudInv, CallerInv, Cloud!TypeOK
<1>2. (\A m \in Cloud!Pool' : Kept(m)') /\ CallerInv'
  BY <1>1 DEF CloudInv, Kept, Cloud!Pool, CallerInv, Cloud!TypeOK
<1>3. CASE UNCHANGED <<sshKey, remoteKey, keyFile, lastKey>>
  BY <1>1, <1>2, <1>3 DEF CloudInv, KeyHeld, Cloud!TypeOK
<1>4. CASE sshKey' = [sshKey EXCEPT ![InstanceOf[c]] = remoteKey] /\ UNCHANGED <<remoteKey, keyFile, lastKey>>
  <2>1. Cloud!TypeOK'
    BY <1>1, <1>4 DEF CloudInv, Cloud!TypeOK
  <2>2. KeyHeld(InstanceOf[c])'
    BY <1>1, <1>4 DEF CloudInv, Cloud!TypeOK, KeyHeld
  <2> QED
    BY <1>1, <1>2, <2>1, <2>2 DEF CloudInv, KeyHeld
<1>5. CASE /\ lastKey' = lastKey + 1 /\ remoteKey' = lastKey' /\ keyFile' = lastKey'
           /\ sshKey' = [sshKey EXCEPT ![InstanceOf[c]] = lastKey']
  <2>1. lastKey \in Nat /\ lastKey' \in Nat /\ lastKey' \in 0..lastKey' /\ \A k \in 0..lastKey : k \in 0..lastKey'
    BY <1>5 DEF CloudInv, Cloud!TypeOK
  <2>2. \A m \in Machines : machine[m] \in [tags : SUBSET {"worker", "busy", "idle"}, key : 0..lastKey',
                                            by : Instances \cup {"none"}]
    BY <2>1 DEF CloudInv, Cloud!TypeOK
  <2>3. machine' \in [Machines -> [tags : SUBSET {"worker", "busy", "idle"}, key : 0..lastKey',
                                   by : Instances \cup {"none"}]]
    BY <1>1, <2>2 DEF CloudInv, Cloud!TypeOK
  <2>4. sshKey' \in [Instances -> 0..lastKey'] /\ sshKey'[InstanceOf[c]] = lastKey'
    BY <1>1, <1>5, <2>1 DEF CloudInv, Cloud!TypeOK
  <2>5. Cloud!TypeOK'
    BY <1>1, <1>5, <2>1, <2>3, <2>4 DEF CloudInv, Cloud!TypeOK
  <2>6. KeyHeld(InstanceOf[c])'
    BY <1>1, <1>5, <2>4 DEF KeyHeld
  <2> QED
    BY <1>1, <1>2, <2>5, <2>6 DEF CloudInv, KeyHeld
<1> QED
  BY <1>3, <1>4, <1>5 DEF Cloud!EnsureSSHKey

\* A call claims an idle machine, or loses it to another: machines stay where they are.
LEMMA CloudClaimStep ==
    ASSUME CloudInv, NEW c \in Callers, Cloud!ClaimIdle(c)
    PROVE  CloudInv'
<1> USE DriversAssumption
<1>1. PICK m \in found[c] :
        /\ found' = [found EXCEPT ![c] = @ \ {m}]
        /\ \/ /\ Cloud!Tag(m, {"busy"}, {"idle"}) /\ target' = [target EXCEPT ![c] = m]
              /\ Cloud!Goes(c, "claim", "verify")
           \/ call[c] = "claim" /\ UNCHANGED <<machine, target, call>>
  BY DEF Cloud!ClaimIdle
<1>2. /\ m \in Machines /\ found' \in [Callers -> SUBSET Machines] /\ call[c] = "claim"
      /\ closing[InstanceOf[c]] = "open"
      /\ UNCHANGED <<server, connected, sshKey, remoteKey, keyFile, lastKey, calls, closing>>
  BY <1>1 DEF CloudInv, CallerInv, Cloud!TypeOK, Cloud!ClaimIdle, Cloud!Goes, Cloud!fields, Cloud!keyring
<1>3. CASE Cloud!Tag(m, {"busy"}, {"idle"}) /\ target' = [target EXCEPT ![c] = m] /\ Cloud!Goes(c, "claim", "verify")
  <2>1. {"busy"} \in SUBSET {"busy", "idle"} /\ {"idle"} \in SUBSET {"busy", "idle"}
    OBVIOUS
  <2>2. /\ machine' \in [Machines -> MachineRecs]
        /\ \A x \in Machines : machine'[x].by = machine[x].by
        /\ Cloud!Pool' = Cloud!Pool
    BY <1>2, <1>3, <2>1, TagKeeps DEF CloudInv
  <2>3. \A x \in Cloud!Pool' : Kept(x)'
    BY <1>2, <2>2, KeptStep DEF Cloud!Pool
  <2>4. Cloud!TypeOK'
    BY <1>2, <1>3, <2>2 DEF CloudInv, Cloud!TypeOK, Cloud!Goes, Cloud!At, MachineRecs
  <2>5. CallerInv'
    BY <1>2, <1>3 DEF CloudInv, CallerInv, Cloud!TypeOK, Cloud!Goes, Cloud!At
  <2> QED
    BY <1>2, <2>3, <2>4, <2>5 DEF CloudInv, KeyHeld
<1>4. CASE UNCHANGED <<machine, target, call>>
  <2>1. \A x \in Cloud!Pool' : Kept(x)'
    BY <1>2, <1>4 DEF CloudInv, Kept, Cloud!Pool
  <2> QED
    BY <1>2, <1>4, <2>1 DEF CloudInv, CallerInv, KeyHeld, Cloud!TypeOK
<1> QED
  BY <1>1, <1>3, <1>4

\* A verified claim replaces the machine of its instance, which is open.
LEMMA CloudVerifyStep ==
    ASSUME CloudInv, NEW c \in Callers, Cloud!VerifyClaim(c)
    PROVE  CloudInv'
<1> USE DriversAssumption DEF Cloud!Goes, Cloud!At, Cloud!keyring
<1>1. /\ UNCHANGED <<machine, connected, sshKey, remoteKey, keyFile, lastKey, found, target, calls, closing>>
      /\ closing[InstanceOf[c]] = "open" /\ InstanceOf[c] \in Instances /\ target[c] \in Machines
      /\ \E to \in {"connect", "claim"} : call' = [call EXCEPT ![c] = to]
      /\ server' = [server EXCEPT ![InstanceOf[c]] = target[c]] \/ server' = server
  BY DEF Cloud!VerifyClaim, CloudInv, CallerInv, Cloud!TypeOK
<1>2. Cloud!TypeOK' /\ CallerInv'
  BY <1>1 DEF CloudInv, CallerInv, Cloud!TypeOK
<1>3. \A i \in Instances : server'[i] = server[i] \/ (server'[i] \in Machines /\ closing'[i] = "open")
  BY <1>1 DEF CloudInv, Cloud!TypeOK
<1>4. \A m \in Cloud!Pool' : Kept(m)'
  BY <1>1, <1>3 DEF CloudInv, Kept, Cloud!Pool
<1> QED
  BY <1>1, <1>2, <1>4 DEF CloudInv, KeyHeld

\* A machine that is rented is kept by its instance at once.
LEMMA CloudCreateStep ==
    ASSUME CloudInv, NEW c \in Callers, Cloud!CreateMachine(c)
    PROVE  CloudInv'
<1> USE DriversAssumption DEF Cloud!Goes, Cloud!At, Cloud!keyring
<1>1. /\ UNCHANGED <<connected, sshKey, remoteKey, keyFile, lastKey, found, calls, closing>>
      /\ closing[InstanceOf[c]] = "open" /\ InstanceOf[c] \in Instances
  BY DEF Cloud!CreateMachine, CloudInv, CallerInv, Cloud!TypeOK
<1>2. CASE call' = [call EXCEPT ![c] = "failed"] /\ UNCHANGED <<machine, server, target>>
  <2>1. \A x \in Cloud!Pool' : Kept(x)'
    BY <1>1, <1>2 DEF CloudInv, Kept, Cloud!Pool
  <2> QED
    BY <1>1, <1>2, <2>1 DEF CloudInv, CallerInv, KeyHeld, Cloud!TypeOK
<1>3. ASSUME NEW m \in Machines,
             machine' = [machine EXCEPT ![m] = [tags |-> {"worker", "busy"}, key |-> sshKey[InstanceOf[c]],
                                                by |-> InstanceOf[c]]],
             server' = [server EXCEPT ![InstanceOf[c]] = m],
             target' = [target EXCEPT ![c] = m],
             call' = [call EXCEPT ![c] = "connect"]
      PROVE  CloudInv'
  <2>1. PICK new \in MachineRecs :
          /\ new = [tags |-> {"worker", "busy"}, key |-> sshKey[InstanceOf[c]], by |-> InstanceOf[c]]
          /\ new.by = InstanceOf[c]
    <3>1. PICK k \in 0..lastKey : k = sshKey[InstanceOf[c]]
      BY <1>1 DEF CloudInv, Cloud!TypeOK
    <3>2. PICK new \in MachineRecs : new = [tags |-> {"worker", "busy"}, key |-> k, by |-> InstanceOf[c]]
      BY <1>1 DEF MachineRecs
    <3>3. new.by = InstanceOf[c]
      BY <3>2
    <3> QED
      BY <3>1, <3>2, <3>3, Zenon
  <2>2. machine' = [machine EXCEPT ![m] = new]
    BY <1>3, <2>1, Zenon
  <2>3. /\ machine' \in [Machines -> MachineRecs]
        /\ machine'[m] = new /\ \A x \in Machines \ {m} : machine'[x] = machine[x]
    BY <2>2 DEF CloudInv, Cloud!TypeOK, MachineRecs
  <2>4. Cloud!TypeOK' /\ CallerInv'
    BY <1>1, <1>3, <2>3 DEF CloudInv, CallerInv, Cloud!TypeOK, MachineRecs
  <2>5. /\ server'[InstanceOf[c]] = m
        /\ \A i \in Instances : server'[i] = server[i] \/ (server'[i] \in Machines /\ closing'[i] = "open")
    BY <1>1, <1>3 DEF CloudInv, Cloud!TypeOK
  <2>6. ASSUME NEW x \in Cloud!Pool'
        PROVE  Kept(x)'
    <3>1. CASE x = m
      BY <1>1, <2>1, <2>3, <2>5, <3>1 DEF Kept
    <3>2. CASE x # m
      BY <1>1, <2>3, <2>5, <3>2 DEF CloudInv, Kept, Cloud!Pool
    <3> QED
      BY <3>1, <3>2
  <2> QED
    BY <1>1, <2>4, <2>6 DEF CloudInv, KeyHeld
<1> QED
  BY <1>2, <1>3 DEF Cloud!CreateMachine

\* The steps of a Close keep the invariant: what is past deleting its machine has none in the pool, and a key goes
\* with the last instance that has it.
LEMMA CloudCloseSteps ==
    ASSUME CloudInv, NEW i \in Instances,
           Cloud!Park(i) \/ Cloud!DeleteMachine(i) \/ Cloud!DeleteKey(i) \/ Cloud!RemoveKeyFile(i)
    PROVE  CloudInv'
<1> USE DriversAssumption DEF Cloud!fields, Cloud!keyring, Cloud!requests
<1>1. CASE Cloud!Park(i)
  <2>1. PICK on \in SUBSET {"busy", "idle"}, off \in SUBSET {"busy", "idle"} : Cloud!Tag(server[i], on, off)
    BY <1>1 DEF Cloud!Park
  <2>2. /\ server[i] \in Machines /\ closing[i] = "open" /\ closing' = [closing EXCEPT ![i] = "parked"]
        /\ \A c \in Callers : InstanceOf[c] = i => call[c] \in {"idle", "failed"}
        /\ UNCHANGED <<server, connected, sshKey, remoteKey, keyFile, lastKey, call, found, target, calls>>
    BY <1>1 DEF Cloud!Park, CloudInv, Cloud!TypeOK
  <2>3. /\ machine' \in [Machines -> MachineRecs]
        /\ \A x \in Machines : machine'[x].by = machine[x].by
        /\ Cloud!Pool' = Cloud!Pool
    BY <2>1, <2>2, TagKeeps DEF CloudInv
  <2>4. \A x \in Cloud!Pool' : Kept(x)'
    BY <2>2, <2>3, KeptStep DEF Cloud!Pool, CloudInv, Cloud!TypeOK
  <2>5. Cloud!TypeOK' /\ CallerInv'
    BY <2>2, <2>3 DEF CloudInv, CallerInv, Cloud!TypeOK, MachineRecs
  <2> QED
    BY <2>2, <2>4, <2>5 DEF CloudInv, KeyHeld, Cloud!TypeOK
<1>2. CASE Cloud!DeleteMachine(i)
  <2>1. /\ closing[i] = "open" /\ \E to \in {"deleted", "broken"} : closing' = [closing EXCEPT ![i] = to]
        /\ \A c \in Callers : InstanceOf[c] = i => call[c] \in {"idle", "failed"}
        /\ UNCHANGED <<server, connected, sshKey, remoteKey, keyFile, lastKey, call, found, target, calls>>
    BY <1>2 DEF Cloud!DeleteMachine
  <2>2. /\ machine' \in [Machines -> MachineRecs] /\ Cloud!Pool' \subseteq Cloud!Pool
        /\ \A x \in Machines : machine'[x].by = machine[x].by
        /\ closing'[i] = "deleted" => server[i] \notin Cloud!Pool'
    <3>1. CASE server[i] # "none" /\ machine' = [machine EXCEPT ![server[i]].tags = {}]
      <4>1. server[i] \in Machines /\ {} \in SUBSET {"worker", "busy", "idle"}
        BY <3>1 DEF CloudInv, Cloud!TypeOK
      <4>2. /\ machine' \in [Machines -> MachineRecs]
            /\ \A x \in Machines : machine'[x].by = machine[x].by
            /\ \A x \in Machines : machine'[x].tags = IF x = server[i] THEN {} ELSE machine[x].tags
        BY <3>1, <4>1, RetagStep, Zenon DEF CloudInv
      <4> QED
        BY <4>1, <4>2 DEF Cloud!Pool
    <3>2. CASE server[i] = "none" /\ UNCHANGED machine
      BY <2>1, <3>2 DEF CloudInv, Cloud!TypeOK, Cloud!Pool, MachineRecs
    <3>3. CASE closing' = [closing EXCEPT ![i] = "broken"] /\ UNCHANGED machine
      BY <3>3 DEF CloudInv, Cloud!TypeOK, Cloud!Pool, MachineRecs
    <3> QED
      BY <1>2, <3>1, <3>2, <3>3 DEF Cloud!DeleteMachine
  <2>3. \A x \in Cloud!Pool' : Kept(x)'
    BY <2>1, <2>2 DEF Cloud!Pool, CloudInv, Cloud!TypeOK, Kept
  <2>4. Cloud!TypeOK' /\ CallerInv'
    BY <2>1, <2>2 DEF CloudInv, CallerInv, Cloud!TypeOK, MachineRecs
  <2> QED
    BY <2>1, <2>3, <2>4 DEF CloudInv, KeyHeld, Cloud!TypeOK
<1>3. CASE Cloud!DeleteKey(i)
  <2>1. /\ closing[i] = "deleted" /\ closing' = [closing EXCEPT ![i] = "unkeyed"]
        /\ remoteKey' = IF sshKey[i] # 0 /\ remoteKey = sshKey[i] THEN 0 ELSE remoteKey
        /\ UNCHANGED <<machine, server, connected, sshKey, keyFile, lastKey, call, found, target, calls>>
    BY <1>3 DEF Cloud!DeleteKey
  <2>2. \A x \in Cloud!Pool' : Kept(x)'
    BY <2>1 DEF Cloud!Pool, CloudInv, Cloud!TypeOK, Kept
  <2>3. Cloud!TypeOK' /\ CallerInv'
    BY <2>1 DEF CloudInv, CallerInv, Cloud!TypeOK
  <2>4. remoteKey' # 0 => \E j \in Instances : KeyHeld(j)'
    BY <2>1 DEF CloudInv, KeyHeld, Cloud!TypeOK
  <2> QED
    BY <2>2, <2>3, <2>4 DEF CloudInv
<1>4. CASE Cloud!RemoveKeyFile(i)
  <2>1. /\ closing[i] = "unkeyed" /\ closing' = [closing EXCEPT ![i] = "closed"] /\ keyFile' \in {0, keyFile}
        /\ UNCHANGED <<machine, server, connected, sshKey, remoteKey, lastKey, call, found, target, calls>>
    BY <1>4 DEF Cloud!RemoveKeyFile
  <2>2. \A x \in Cloud!Pool' : Kept(x)'
    BY <2>1 DEF Cloud!Pool, CloudInv, Cloud!TypeOK, Kept
  <2>3. Cloud!TypeOK' /\ CallerInv'
    BY <2>1 DEF CloudInv, CallerInv, Cloud!TypeOK
  <2>4. remoteKey' # 0 => \E j \in Instances : KeyHeld(j)'
    BY <2>1 DEF CloudInv, KeyHeld, Cloud!TypeOK
  <2> QED
    BY <2>2, <2>3, <2>4 DEF CloudInv
<1> QED
  BY <1>1, <1>2, <1>3, <1>4

\* Every step keeps the invariant.
LEMMA CloudStep == CloudInv /\ [Cloud!Next]_(Cloud!vars) => CloudInv'
<1> SUFFICES ASSUME CloudInv, [Cloud!Next]_(Cloud!vars)
             PROVE  CloudInv'
  OBVIOUS
<1>1. CASE Cloud!CleanupOrphanedResources
  <2>1. /\ machine' = [m \in Machines |-> [machine[m] EXCEPT !.tags = {}]] /\ remoteKey' = 0
        /\ UNCHANGED <<server, connected, sshKey, keyFile, lastKey, call, found, target, calls, closing>>
    BY <1>1 DEF Cloud!CleanupOrphanedResources, Cloud!fields, Cloud!requests
  <2>2. \A m \in Machines : machine'[m] \in MachineRecs /\ machine'[m].tags = {}
    <3> SUFFICES ASSUME NEW m \in Machines
                 PROVE  machine'[m] \in MachineRecs /\ machine'[m].tags = {}
      OBVIOUS
    <3>1. PICK rec \in MachineRecs : rec = machine[m]
      BY DEF CloudInv, Cloud!TypeOK, MachineRecs
    <3>2. lastKey \in Nat /\ {} \in SUBSET {"worker", "busy", "idle"}
      BY DEF CloudInv, Cloud!TypeOK
    <3>3. [rec EXCEPT !.tags = {}] \in MachineRecs /\ [rec EXCEPT !.tags = {}].tags = {}
      BY <3>1, <3>2, TagsAre, Zenon
    <3>4. machine'[m] = [rec EXCEPT !.tags = {}]
      BY <2>1, <3>1, Zenon
    <3> QED
      BY <3>3, <3>4, Zenon
  <2>3. machine' \in [Machines -> MachineRecs]
    <3>1. machine' = [m \in Machines |-> machine'[m]]
      BY <2>1, Zenon
    <3> QED
      BY <2>2, <3>1, Zenon
  <2>4. Cloud!Pool' = {}
    BY <2>2 DEF Cloud!Pool
  <2>5. Cloud!TypeOK' /\ CallerInv'
    BY <2>1, <2>3 DEF CloudInv, CallerInv, Cloud!TypeOK, MachineRecs
  <2> QED
    BY <2>1, <2>4, <2>5 DEF CloudInv
<1>2. CASE Cloud!Rest \/ UNCHANGED Cloud!vars
  <2>1. UNCHANGED <<machine, server, connected, sshKey, remoteKey, keyFile, lastKey, call, found, target, calls, closing>>
    BY <1>2 DEF Cloud!Rest, Cloud!vars, Cloud!fields, Cloud!keyring, Cloud!requests
  <2>2. \A x \in Cloud!Pool' : Kept(x)'
    BY <2>1 DEF Cloud!Pool, CloudInv, Kept
  <2> QED
    BY <2>1, <2>2 DEF CloudInv, CallerInv, KeyHeld, Cloud!TypeOK
<1> QED
  BY <1>1, <1>2, CloudCallSteps, CloudKeyStep, CloudClaimStep, CloudVerifyStep, CloudCreateStep, CloudCloseSteps
  DEF Cloud!Next

\* The drivers of rented machines keep to their types, forget no machine, and leave no key when all have closed.
LEMMA CloudInvariant == Cloud!Spec => [](Cloud!TypeOK /\ Cloud!NoMachineIsForgotten /\ Cloud!KeyIsRemoved)
<1>1. CloudInv => Cloud!TypeOK /\ Cloud!NoMachineIsForgotten /\ Cloud!KeyIsRemoved
  BY DEF CloudInv, Kept, KeyHeld, Cloud!NoMachineIsForgotten, Cloud!KeyIsRemoved
<1> QED
  BY <1>1, CloudInitially, CloudStep, PTL DEF Cloud!Spec

-----------------------------------------------------------------------------
(* The drivers side by side: what each of them keeps, all of them keep. *)

\* Every variable of every driver keeps to its type, whatever the tasks, volumes, machines and faults.
THEOREM DriversTypeCorrect == Spec => []DriverTypes
BY RunnerInvariant, DockerInvariant, NativeInvariant, K8sInvariant, FlyInvariant, VMInvariant, CloudInvariant, PTL
DEF Spec, DriverTypes

\* No call of the runner returns with a container, a log stream or a ticker of its own, and no start that fails and
\* no cancellation leaves a container of the docker driver without an owner.
THEOREM CallsLeaveNothing == Spec => []NoContainerOutlivesItsCall
BY RunnerInvariant, DockerInvariant, PTL DEF Spec, NoContainerOutlivesItsCall

\* A Close that reports no failure leaves nothing that its driver promises to remove: docker, k8s, fly, qemu and vz,
\* hetzner and digitalocean.
THEOREM ClosesRelease == Spec => []CloseReleasesAll
BY DockerInvariant, K8sInvariant, FlyInvariant, VMInvariant, CloudInvariant, PTL DEF Spec, CloseReleasesAll

\* The result a caller is given is the one of its own command, complete and final.
THEOREM ResultsAreTrue == Spec => []ResultIsTrue
BY RunnerInvariant, NativeInvariant, K8sInvariant, VMInvariant, PTL DEF Spec, ResultIsTrue

\* A rented machine is kept by the instance that rented it until it keeps another one or deletes it.
THEOREM MachinesAreKept == Spec => []NoMachineIsForgotten
BY CloudInvariant, PTL DEF Spec, NoMachineIsForgotten
=============================================================================
