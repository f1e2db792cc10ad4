-------------------------- MODULE ResumableRunner --------------------------
(***************************************************************************)
(* The runner of a resumable run (runtime/runner/resumable.go, state.go).  *)
(* The script makes its calls in order; each is a step whose state is kept  *)
(* in memory and saved after every change.  The process may crash at any    *)
(* point and the run be resumed, which replays the script from its first    *)
(* call; the run may be stopped, after which nothing can be saved.          *)
(*                                                                          *)
(* The driver is external.  Task ids are the same in every session, and a   *)
(* driver such as docker answers a second RunContainer for a name that is   *)
(* taken with the existing container (Adopts).                              *)
(*                                                                          *)
(* An operator named X_Slip, defined just before X, is a mutant of X.       *)
(***************************************************************************)
EXTENDS Naturals, FiniteSets

CONSTANTS
    LastCall,           \* the number of calls the script makes
    Agents,         \* the steps that are agent calls
    Adopts,         \* whether the driver adopts a container of the same name
    MaxSessions,    \* bound: how often the process may be started
    MaxErrors       \* bound: transient errors of the driver

VARIABLES
    session,        \* number of the current session
    up,             \* the process runs and the run is not over
    stopped,        \* the run was stopped in this session
    pos,            \* callIndex: the step being executed
    stepAt,         \* where the step is
    mem,            \* r.state: step -> [status, cid]
    disk,           \* what saveState last wrote
    box,            \* containers: step -> sequence number -> state
    started,        \* step -> number of containers (or agents) started
    errors          \* transient errors so far

ASSUME RunnerAssumption ==
    /\ LastCall \in Nat \ {0} /\ Agents \subseteq 1..LastCall /\ Adopts \in BOOLEAN /\ MaxSessions \in Nat \ {0} /\ MaxErrors \in Nat

runnerVars == <<session, up, stopped, pos, stepAt, mem, disk, box, started, errors>>

Absent == [status |-> "none", cid |-> 0]
St(s, c) == [status |-> s, cid |-> c]
Steps == 1..LastCall
Ids == 1..(MaxSessions + MaxErrors + 1)
Here == mem[pos]

\* saveState writes the whole state with the run's context; a failure is only logged.
SetStep(s) ==
    /\ mem' = [mem EXCEPT ![pos] = s]
    /\ disk' = IF stopped THEN disk ELSE mem'
CanSkip_Started == Here.status \in {"completed", "running"}

CanSkip == Here.status = "completed"
ShouldRetry == Here.status \in {"failed", "aborted"}
IsResumable == Here.status = "running" /\ Here.cid # 0
Working == up /\ pos <= LastCall

RunnerInit ==
    /\ session = 1 /\ up = TRUE /\ stopped = FALSE /\ pos = 1 /\ stepAt = "call"
    /\ mem = [s \in Steps |-> Absent] /\ disk = mem
    /\ box = [s \in Steps |-> [i \in Ids |-> "none"]]
    /\ started = [s \in Steps |-> 0] /\ errors = 0

NextCall == pos' = pos + 1 /\ stepAt' = "call"
EndRun == up' = FALSE

---------------------------------------------------------------------------
(* Run and RunAgent. *)

SkipCompleted ==
    /\ Working /\ stepAt = "call" /\ CanSkip
    /\ NextCall
    /\ UNCHANGED <<session, up, stopped, mem, disk, box, started, errors>>

\* A failed or aborted step, and an agent that was interrupted, is reset and run again.
MarkForRetry ==
    /\ Working /\ stepAt = "call"
    /\ ShouldRetry \/ (pos \in Agents /\ Here.status = "running")
    /\ SetStep(St("pending", 0)) /\ stepAt' = "fresh"
    /\ UNCHANGED <<session, up, stopped, pos, box, started, errors>>

StartFresh ==
    /\ Working /\ stepAt = "call" /\ ~CanSkip /\ ~ShouldRetry
    /\ ~(pos \in Agents /\ Here.status = "running") /\ (IsResumable => pos \in Agents)
    /\ stepAt' = "fresh"
    /\ UNCHANGED <<session, up, stopped, pos, mem, disk, box, started, errors>>

\* GetContainer: not found, or any other error, and the step is run afresh.
Reattach ==
    /\ Working /\ stepAt = "call" /\ IsResumable /\ pos \notin Agents
    /\ \/ /\ box[pos][Here.cid] \in {"running", "exited"} /\ ~stopped
          /\ stepAt' = "attached" /\ UNCHANGED errors
       \/ /\ box[pos][Here.cid] \notin {"running", "exited"} \/ stopped
          /\ stepAt' = "fresh" /\ UNCHANGED errors
       \/ /\ errors < MaxErrors /\ errors' = errors + 1
          /\ stepAt' = "fresh"
    /\ UNCHANGED <<session, up, stopped, pos, mem, disk, box, started>>

\* The reattached container is done, or the run was stopped and the step stays as it is.
ReattachedEnds ==
    /\ Working /\ stepAt = "attached"
    /\ \/ /\ box[pos][Here.cid] = "exited" /\ ~stopped
          /\ box' = [box EXCEPT ![pos][Here.cid] = "removed"]
          /\ SetStep(St("completed", Here.cid)) /\ NextCall /\ UNCHANGED up
       \/ stopped /\ EndRun /\ UNCHANGED <<pos, stepAt, mem, disk, box>>
    /\ UNCHANGED <<session, stopped, started, errors>>

\* runStep: the running state is saved before the container exists.
RunStep ==
    /\ Working /\ stepAt = "fresh"
    /\ SetStep(St("running", 0)) /\ stepAt' = "start"
    /\ UNCHANGED <<session, up, stopped, pos, box, started, errors>>

FirstFree == {i \in Ids : box[pos][i] = "none" /\ \A j \in Ids : box[pos][j] = "none" => i <= j}

Existing_NeverAdopted == {}

Existing == {i \in Ids : box[pos][i] \in {"running", "exited"}}

\* The container starts; only then is its id saved, in a step of its own.
StartStepContainer ==
    /\ Working /\ stepAt = "start" /\ pos \notin Agents
    /\ \/ /\ ~stopped
          /\ \E i \in IF Adopts /\ Existing # {} THEN Existing ELSE FirstFree :
               /\ box' = [box EXCEPT ![pos][i] = IF @ = "none" THEN "running" ELSE @]
               /\ started' = [started EXCEPT ![pos] = IF box[pos][i] = "none" THEN @ + 1 ELSE @]
               /\ mem' = [mem EXCEPT ![pos] = St("running", i)]
               /\ stepAt' = "saveId"
          /\ UNCHANGED <<up, disk, errors>>
       \/ /\ stopped \/ errors < MaxErrors
          /\ errors' = IF stopped THEN errors ELSE errors + 1
          /\ SetStep(St(IF stopped THEN "aborted" ELSE "failed", 0))
          /\ EndRun /\ UNCHANGED <<stepAt, box, started>>
    /\ UNCHANGED <<session, stopped, pos>>

SaveContainerId ==
    /\ Working /\ stepAt = "saveId"
    /\ disk' = IF stopped THEN disk ELSE mem
    /\ stepAt' = "wait"
    /\ UNCHANGED <<session, up, stopped, pos, mem, box, started, errors>>

\* External: the process in the container ends.
Exits(s, i) ==
    /\ box[s][i] = "running"
    /\ box' = [box EXCEPT ![s][i] = "exited"]
    /\ UNCHANGED <<session, up, stopped, pos, stepAt, mem, disk, started, errors>>

\* The exit code and the logs are collected, the step is saved as completed and the container removed;
\* a stop removes the container with a fresh context, an error leaves it.
CollectStepResult ==
    /\ Working /\ stepAt = "wait"
    /\ \/ /\ box[pos][Here.cid] = "exited" /\ ~stopped
          /\ SetStep(St("completed", Here.cid)) /\ stepAt' = "cleanup" /\ UNCHANGED <<up, pos, box, errors>>
       \/ /\ stopped
          /\ SetStep(St("aborted", Here.cid))
          /\ box' = [box EXCEPT ![pos][Here.cid] = "removed"] /\ EndRun
          /\ UNCHANGED <<pos, stepAt, errors>>
       \/ /\ ~stopped /\ errors < MaxErrors /\ errors' = errors + 1
          /\ SetStep(St("failed", Here.cid)) /\ EndRun /\ UNCHANGED <<pos, stepAt, box>>
    /\ UNCHANGED <<session, stopped, started>>

CleanupContainer ==
    /\ Working /\ stepAt = "cleanup"
    /\ box' = [box EXCEPT ![pos][Here.cid] = IF stopped THEN @ ELSE "removed"]
    /\ NextCall
    /\ UNCHANGED <<session, up, stopped, mem, disk, started, errors>>

\* An agent's conversation: its result is saved as a whole, or it failed.
RunAgent ==
    /\ Working /\ stepAt = "start" /\ pos \in Agents
    /\ started' = [started EXCEPT ![pos] = @ + 1]
    /\ stepAt' = "agent"
    /\ UNCHANGED <<session, up, stopped, pos, mem, disk, box, errors>>

AgentReturns ==
    /\ Working /\ stepAt = "agent"
    /\ \/ ~stopped /\ SetStep(St("completed", 0)) /\ NextCall /\ UNCHANGED <<up, errors>>
       \/ /\ stopped \/ errors < MaxErrors
          /\ errors' = IF stopped THEN errors ELSE errors + 1
          /\ SetStep(St("failed", 0)) /\ EndRun /\ UNCHANGED <<pos, stepAt>>
    /\ UNCHANGED <<session, stopped, box, started>>

---------------------------------------------------------------------------
(* Stop, crash and resume. *)

\* The stop cancels the context; runPipeline then marks what is running as aborted, in memory only.
StopRun ==
    /\ Working /\ ~stopped
    /\ stopped' = TRUE
    /\ UNCHANGED <<session, up, pos, stepAt, mem, disk, box, started, errors>>

Crash ==
    /\ Working /\ up' = FALSE
    /\ UNCHANGED <<session, stopped, pos, stepAt, mem, disk, box, started, errors>>

\* NewResumableRunner loads the saved state; callIndex starts at zero again.
Resume ==
    /\ ~up /\ session < MaxSessions
    /\ session' = session + 1 /\ up' = TRUE /\ stopped' = FALSE
    /\ pos' = 1 /\ stepAt' = "call" /\ mem' = disk
    /\ UNCHANGED <<disk, box, started, errors>>

FinishRun ==
    /\ up /\ pos > LastCall /\ up' = FALSE
    /\ UNCHANGED <<session, stopped, pos, stepAt, mem, disk, box, started, errors>>

Rest == ~up /\ session = MaxSessions /\ UNCHANGED runnerVars

RunnerNext ==
    \/ SkipCompleted \/ MarkForRetry \/ StartFresh \/ Reattach \/ ReattachedEnds \/ RunStep
    \/ StartStepContainer \/ SaveContainerId \/ CollectStepResult \/ CleanupContainer
    \/ RunAgent \/ AgentReturns \/ StopRun \/ Crash \/ Resume \/ FinishRun \/ Rest
    \/ \E s \in Steps, i \in Ids : Exits(s, i)

RunnerSpec == RunnerInit /\ [][RunnerNext]_runnerVars

---------------------------------------------------------------------------
(* Properties. *)

Statuses == {"none", "pending", "running", "completed", "failed", "aborted"}

\* Type correctness of the runner's state, in memory and saved.
RunnerTypeOK ==
    /\ session \in 1..MaxSessions /\ up \in BOOLEAN /\ stopped \in BOOLEAN /\ pos \in 1..LastCall + 1
    /\ stepAt \in {"call", "fresh", "attached", "start", "saveId", "wait", "cleanup", "agent"}
    /\ mem \in [Steps -> [status : Statuses, cid : Ids \cup {0}]]
    /\ disk \in [Steps -> [status : Statuses, cid : Ids \cup {0}]]
    /\ box \in [Steps -> [Ids -> {"none", "running", "exited", "removed"}]]
    /\ started \in [Steps -> Nat] /\ errors \in 0..MaxErrors

\* The steps that are saved as completed, with all the steps before them.
Done == Cardinality({s \in Steps : \A t \in 1..s : disk[t].status = "completed"})

\* A resumable run implements StepSequence: a step that is saved as completed stays so through crashes, stops and
\* resumes, no container and no agent is started for it again, and none for a step whose turn has not come
\* (resumable.go Run, RunAgent).
Sequence == INSTANCE StepSequence WITH N <- LastCall, done <- Done
RunsStepByStep == Sequence!Spec

\* A step never has two live containers, although a crash may fall between the start of the container and the
\* save of its id, and a lookup of it may fail (resumable.go startStepContainer, reattachToContainer).
OneContainerPerStep ==
    \A s \in Steps : Cardinality({i \in Ids : box[s][i] = "running"}) <= 1
=============================================================================
