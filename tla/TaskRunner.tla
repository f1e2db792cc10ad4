----------------------------- MODULE TaskRunner -----------------------------
(***************************************************************************)
(* The containers of a TypeScript pipeline (runtime/runner/pipeline.go,    *)
(* sandbox.go, image_build.go, cache_op.go): calls of runtime.run, of a     *)
(* sandbox's exec, of image.build and of cache.restore may be under way at  *)
(* the same time.  They share the runner, its volumes and its context; each *)
(* has a row, a log stream and a ticker that copies the logs to the row     *)
(* while the container runs.                                                *)
(*                                                                          *)
(* Logs and secrets are left out, except that a secret may not resolve and  *)
(* that logs may not be read.  The driver and the secrets manager are       *)
(* external.                                                                *)
(*                                                                          *)
(* An operator named X_Slip, defined just before X, is a mutant of X.       *)
(***************************************************************************)
EXTENDS Naturals

CONSTANTS
    Runs,           \* the calls
    Sandboxed,      \* the ones that are exec in a sandbox: no row, no container of their own
    HasDeadline,    \* the calls with a timeout
    Names           \* volume names the script asks for

VARIABLES
    pc,             \* where Run or Exec is
    outcome,        \* what it returned
    status,         \* the row's status
    holds,          \* the container of the call
    ticking,        \* "off", "idle", "writing": the two-second ticker
    streaming,      \* calls whose log stream is open
    late,           \* calls whose deadline has passed
    stopped,        \* the run's context is cancelled
    volumes,        \* volumes tracked for clean-up
    onDriver        \* volumes that exist

boxes == <<holds, ticking, streaming>>
vars == <<pc, outcome, status, boxes, late, stopped, volumes, onDriver>>

Cancelled(r) == stopped \/ r \in late
At(r, p) == pc' = [pc EXCEPT ![r] = p]
Returns(r, o) == At(r, "returned") /\ outcome' = [outcome EXCEPT ![r] = o]

\* setTaskStatus writes with the run's context: after a stop the write fails and is only logged.
SetTaskStatus(r, s) ==
    status' = [status EXCEPT ![r] = IF stopped \/ r \in Sandboxed THEN @ ELSE s]

Init ==
    /\ pc = [r \in Runs |-> "called"] /\ outcome = [r \in Runs |-> "none"]
    /\ status = [r \in Runs |-> "none"]
    /\ holds = [r \in Runs |-> "none"] /\ ticking = [r \in Runs |-> "off"] /\ streaming = {}
    /\ late = {} /\ stopped = FALSE /\ volumes = {} /\ onDriver = {}

---------------------------------------------------------------------------
\* A malformed timeout, a missing tag, bucket or volume: the call fails before anything is written.
RefuseInput(r) ==
    /\ pc[r] = "called"
    /\ Returns(r, "error")
    /\ UNCHANGED <<status, boxes, late, stopped, volumes, onDriver>>

\* injectSecrets: every reference must resolve; an exec passes an unresolved reference on as it is.
InjectSecrets(r) ==
    /\ pc[r] = "called"
    /\ \/ r \notin Sandboxed /\ SetTaskStatus(r, "error") /\ Returns(r, "error")
       \/ SetTaskStatus(r, "pending") /\ At(r, "create") /\ UNCHANGED outcome
    /\ UNCHANGED <<boxes, late, stopped, volumes, onDriver>>

\* RunContainer fails, or the container runs with its stream and its ticker.
CreateRunContainer(r) ==
    /\ pc[r] = "create"
    /\ \/ /\ Cancelled(r)
          /\ SetTaskStatus(r, "abort") /\ Returns(r, "abort") /\ UNCHANGED boxes
       \/ SetTaskStatus(r, "error") /\ Returns(r, "error") /\ UNCHANGED boxes
       \/ /\ ~Cancelled(r)
          /\ holds' = [holds EXCEPT ![r] = "running"]
          /\ streaming' = streaming \cup {r}
          /\ ticking' = [ticking EXCEPT ![r] = IF r \in Sandboxed THEN "off" ELSE "idle"]
          /\ SetTaskStatus(r, "running")
          /\ At(r, "poll") /\ UNCHANGED outcome
    /\ UNCHANGED <<late, stopped, volumes, onDriver>>

\* External: the container's process ends, or the call's deadline passes.
Exits(r) ==
    /\ holds[r] = "running"
    /\ \E s \in {"exit0", "exit1"} : holds' = [holds EXCEPT ![r] = s]
    /\ UNCHANGED <<pc, outcome, status, ticking, streaming, late, stopped, volumes, onDriver>>

DeadlinePasses(r) ==
    /\ r \in HasDeadline \ late /\ pc[r] \in {"create", "poll", "join", "logs"}
    /\ late' = late \cup {r}
    /\ UNCHANGED <<pc, outcome, status, boxes, stopped, volumes, onDriver>>

StreamEnds(r) ==
    /\ r \in streaming /\ (holds[r] # "running" \/ Cancelled(r))
    /\ streaming' = streaming \ {r}
    /\ UNCHANGED <<pc, outcome, status, holds, ticking, late, stopped, volumes, onDriver>>

\* The ticker copies what was printed so far, as it was printed, in two steps: snapshot, then write.
TickerSnapshots(r) ==
    /\ ticking[r] = "idle" /\ pc[r] \in {"poll", "join"} /\ ~Cancelled(r)
    /\ ticking' = [ticking EXCEPT ![r] = "writing"]
    /\ UNCHANGED <<pc, outcome, status, holds, streaming, late, stopped, volumes, onDriver>>

TickerWrites(r) ==
    /\ ticking[r] = "writing"
    /\ SetTaskStatus(r, "running")
    /\ ticking' = [ticking EXCEPT ![r] = "idle"]
    /\ UNCHANGED <<pc, outcome, holds, streaming, late, stopped, volumes, onDriver>>

TickerStops(r) ==
    /\ ticking[r] = "idle" /\ (pc[r] # "poll" \/ Cancelled(r))
    /\ ticking' = [ticking EXCEPT ![r] = "off"]
    /\ UNCHANGED <<pc, outcome, status, holds, streaming, late, stopped, volumes, onDriver>>

\* pollContainerStatus: abort and error rows are written here, before the ticker is stopped.
PollContainerStatus(r) ==
    /\ pc[r] = "poll"
    /\ \/ /\ holds[r] \in {"exit0", "exit1"}
          /\ outcome' = [outcome EXCEPT ![r] = holds[r]] /\ UNCHANGED status
       \/ /\ Cancelled(r)
          /\ SetTaskStatus(r, "abort") /\ outcome' = [outcome EXCEPT ![r] = "abort"]
       \/ SetTaskStatus(r, "error") /\ outcome' = [outcome EXCEPT ![r] = "error"]
    /\ At(r, "join")
    /\ UNCHANGED <<boxes, late, stopped, volumes, onDriver>>

JoinStreams_TickerOnly(r) ==
    /\ pc[r] = "join" /\ ticking[r] = "off"
    /\ At(r, IF outcome[r] \in {"exit0", "exit1"} THEN "logs" ELSE "cleanup")
    /\ UNCHANGED <<outcome, status, boxes, late, stopped, volumes, onDriver>>

\* cancelTicker, then both goroutines are waited for.
JoinStreams(r) ==
    /\ pc[r] = "join" /\ ticking[r] = "off" /\ r \notin streaming
    /\ At(r, IF outcome[r] \in {"exit0", "exit1"} THEN "logs" ELSE "cleanup")
    /\ UNCHANGED <<outcome, status, boxes, late, stopped, volumes, onDriver>>

\* The complete logs are read once more; a failure is an abort or an error whatever the exit code was.
FetchLogs(r) ==
    /\ pc[r] = "logs"
    /\ \/ ~Cancelled(r) /\ At(r, "final") /\ UNCHANGED <<outcome, status>>
       \/ \E o \in {"abort", "error"} :
            /\ o = "abort" => Cancelled(r)
            /\ SetTaskStatus(r, o)
            /\ outcome' = [outcome EXCEPT ![r] = o] /\ At(r, "cleanup")
    /\ UNCHANGED <<boxes, late, stopped, volumes, onDriver>>

\* buildFinalResult: the exit code decides.
BuildFinalResult(r) ==
    /\ pc[r] = "final"
    /\ SetTaskStatus(r, IF outcome[r] = "exit0" THEN "success" ELSE "failure")
    /\ At(r, "cleanup")
    /\ UNCHANGED <<outcome, boxes, late, stopped, volumes, onDriver>>

\* The deferred clean-up has its own context, so it works after a stop; a sandbox stays for the next exec.
Cleanup(r) ==
    /\ pc[r] = "cleanup"
    /\ holds' = [holds EXCEPT ![r] = "removed"]
    /\ At(r, "returned")
    /\ UNCHANGED <<outcome, status, ticking, streaming, late, stopped, volumes, onDriver>>

---------------------------------------------------------------------------
(* Volumes, the end of the script, and the stop. *)

\* A name may be asked for twice; the driver or the seeded volumes answer with the same volume.
CreateVolume(n) ==
    /\ ~stopped /\ \E r \in Runs : pc[r] # "returned"
    /\ volumes' = volumes \cup {n} /\ onDriver' = onDriver \cup {n}
    /\ UNCHANGED <<pc, outcome, status, boxes, late, stopped>>

\* CleanupVolumes runs with the run's context when all calls are over: after a stop the driver may refuse.
CleanupVolumes ==
    /\ volumes # {} /\ \A r \in Runs : pc[r] = "returned"
    /\ volumes' = {}
    /\ \E kept \in SUBSET volumes : /\ kept # {} => stopped
                                    /\ onDriver' = onDriver \ (volumes \ kept)
    /\ UNCHANGED <<pc, outcome, status, boxes, late, stopped>>

StopRun ==
    /\ ~stopped /\ \E r \in Runs : pc[r] # "returned"
    /\ stopped' = TRUE
    /\ UNCHANGED <<pc, outcome, status, boxes, late, volumes, onDriver>>

Done == (\A r \in Runs : pc[r] = "returned") /\ volumes = {} /\ UNCHANGED vars

Step(r) ==
    \/ RefuseInput(r) \/ InjectSecrets(r) \/ CreateRunContainer(r) \/ TickerSnapshots(r) \/ TickerWrites(r)
    \/ TickerStops(r) \/ StreamEnds(r) \/ PollContainerStatus(r) \/ JoinStreams(r) \/ FetchLogs(r)
    \/ BuildFinalResult(r) \/ Cleanup(r)
Next ==
    \/ \E r \in Runs : Step(r) \/ Exits(r) \/ DeadlinePasses(r)
    \/ \E n \in Names : CreateVolume(n)
    \/ CleanupVolumes \/ StopRun \/ Done

Spec == Init /\ [][Next]_vars

---------------------------------------------------------------------------
\* Where a call is, the values it returns and a row holds, and the volumes known (setTaskStatus, Run, CreateVolume).
TypeOK ==
    /\ pc \in [Runs -> {"called", "create", "poll", "join", "logs", "final", "cleanup", "returned"}]
    /\ holds \in [Runs -> {"none", "running", "exit0", "exit1", "removed"}]
    /\ ticking \in [Runs -> {"off", "idle", "writing"}] /\ streaming \subseteq Runs /\ stopped \in BOOLEAN
    /\ outcome \in [Runs -> {"none", "error", "abort", "exit0", "exit1"}]
    /\ status \in [Runs -> {"none", "pending", "running", "abort", "error", "success", "failure"}]
    /\ late \subseteq HasDeadline /\ volumes \subseteq Names /\ onDriver \subseteq Names

\* Whatever way Run or Exec returns - an exit code, an abort, an error, a stop in the middle - it leaves no
\* container, no open log stream and no ticker (waitAndFinalizeRun and its deferred clean-up).
NoContainerOutlivesItsCall ==
    \A r \in Runs : pc[r] = "returned" => holds[r] \in {"none", "removed"} /\ r \notin streaming /\ ticking[r] = "off"

\* A row that says success or failure says what the container did, and no late tick takes it back
\* (waitAndFinalizeRun waits for the ticker before buildFinalResult writes).
CompletedRowIsFinal ==
    \A r \in Runs :
        pc[r] = "returned" /\ outcome[r] \in {"exit0", "exit1"} /\ ~stopped =>
            r \in Sandboxed \/ status[r] = IF outcome[r] = "exit0" THEN "success" ELSE "failure"
=============================================================================
