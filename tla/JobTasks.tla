------------------------------ MODULE JobTasks ------------------------------
(***************************************************************************)
(* The container tasks of one job (runtime/backwards/task_handler.go and    *)
(* cache_tasks.go): goroutines of an in_parallel run runTask at the same    *)
(* time and share the job's cache volumes; each follows its container with  *)
(* a log stream and a ticker that writes intermediate rows, and the job     *)
(* persists and removes the cache volumes when all of them are over.        *)
(*                                                                          *)
(* The containers and the driver are external: a container runs until it    *)
(* exits, if ever, or is removed.                                           *)
(*                                                                          *)
(* An operator named X_Slip, defined just before X, is a mutant of X.       *)
(***************************************************************************)
EXTENDS Naturals, FiniteSets

CONSTANTS
    Tasks,
    CacheOf,        \* [Tasks -> cache keys]: the lookup key of the task's cache (path, or task and path)
    VolumeOf,       \* [keys -> volume names]: what sanitizeCachePath makes of them
    HasTimeout,     \* the tasks with a timeout
    CacheS3,        \* whether caches are restored from and persisted to S3
    ExitsByItself   \* the tasks whose container exits without being removed

VARIABLES
    taskAt,             \* where runTask is for each task
    result,         \* what runTask returned
    row,            \* the task's row in storage
    container,      \* the task's container
    ticker,         \* the goroutine that writes intermediate rows
    stream,         \* the log stream and its two readers are open
    expired,        \* tasks whose timeout has passed
    cancelled,      \* the run's context
    cacheVolumes,   \* sc.CacheVolumes: the keys that have a name
    volumes,        \* sc.CacheVolumeObjects: the keys whose volume was created
    restoring,      \* volumes being filled from S3
    restored,       \* sc.CacheRestored
    jobEnd          \* the job's deferred work: "tasks", "cleanup", "over"

caches == <<cacheVolumes, volumes, restoring, restored>>
tasksVars == <<taskAt, result, row, container, ticker, stream, expired, cancelled, caches, jobEnd>>

Keys == {CacheOf[t] : t \in Tasks}
Vol(t) == VolumeOf[CacheOf[t]]
Final == {"success", "failure", "abort"}
Move(t, p) == taskAt' = [taskAt EXCEPT ![t] = p]
Return(t, e) == Move(t, "returned") /\ result' = [result EXCEPT ![t] = e]

---------------------------------------------------------------------------
(* Before the container: configuration, caches, the pending row, secrets. *)

\* A config from a volume or a URI may be missing or malformed.
LoadConfig(t) ==
    /\ taskAt[t] = "load"
    /\ \/ Move(t, "caches") /\ UNCHANGED result
       \/ Return(t, "errored")
    /\ UNCHANGED <<row, container, ticker, stream, expired, cancelled, caches, jobEnd>>

NameCache_Forgets(t) ==
    /\ taskAt[t] = "caches"
    /\ Move(t, IF CacheOf[t] \in cacheVolumes THEN "pending" ELSE "create")
    /\ UNCHANGED <<result, row, container, ticker, stream, expired, cancelled, caches, jobEnd>>

\* The first task to ask for a cache names its volume; the others find the name and go on.
NameCache(t) ==
    /\ taskAt[t] = "caches"
    /\ IF CacheOf[t] \in cacheVolumes
       THEN Move(t, "pending") /\ UNCHANGED cacheVolumes
       ELSE /\ cacheVolumes' = cacheVolumes \cup {CacheOf[t]}
            /\ Move(t, "create")
    /\ UNCHANGED <<result, row, container, ticker, stream, expired, cancelled, volumes, restoring, restored, jobEnd>>

\* CreateVolume may fail; the mount is used all the same.
CreateVolume(t) ==
    /\ taskAt[t] = "create"
    /\ \/ Move(t, "pending") /\ UNCHANGED <<volumes, restoring, restored>>
       \/ /\ ~cancelled
          /\ volumes' = volumes \cup {CacheOf[t]}
          /\ IF CacheS3 /\ Vol(t) \notin restored
             THEN /\ restored' = restored \cup {Vol(t)}
                  /\ restoring' = restoring \cup {Vol(t)}
                  /\ Move(t, "restore")
             ELSE Move(t, "pending") /\ UNCHANGED <<restoring, restored>>
    /\ UNCHANGED <<result, row, container, ticker, stream, expired, cancelled, cacheVolumes, jobEnd>>

\* The restore task ends, hit, miss or error.
CacheRestore(t) ==
    /\ taskAt[t] = "restore"
    /\ restoring' = restoring \ {Vol(t)}
    /\ Move(t, "pending")
    /\ UNCHANGED <<result, row, container, ticker, stream, expired, cancelled, cacheVolumes, volumes, restored, jobEnd>>

WritePending(t) ==
    /\ taskAt[t] = "pending"
    /\ IF cancelled
       THEN Return(t, "other") /\ UNCHANGED row
       ELSE /\ row' = [row EXCEPT ![t] = "pending"]
            /\ Move(t, "start") /\ UNCHANGED result
    /\ UNCHANGED <<container, ticker, stream, expired, cancelled, caches, jobEnd>>

\* Secrets are resolved, then the driver starts the container; the timeout's clock runs from here.
RunContainer(t) ==
    /\ taskAt[t] = "start"
    /\ \/ Return(t, "errored") /\ UNCHANGED <<container, ticker, stream>>
       \/ /\ ~cancelled
          /\ container' = [container EXCEPT ![t] = "running"]
          /\ ticker' = [ticker EXCEPT ![t] = "idle"]
          /\ stream' = stream \cup {t}
          /\ Move(t, "wait") /\ UNCHANGED result
    /\ UNCHANGED <<row, expired, cancelled, caches, jobEnd>>

---------------------------------------------------------------------------
(* While it runs. *)

\* External: the container's process ends.
ContainerExits(t) ==
    /\ container[t] = "running" /\ t \in ExitsByItself
    /\ \E s \in {"succeeded", "exited"} : container' = [container EXCEPT ![t] = s]
    /\ UNCHANGED <<taskAt, result, row, ticker, stream, expired, cancelled, caches, jobEnd>>

TimeoutPasses(t) ==
    /\ t \in HasTimeout \ expired /\ taskAt[t] = "wait"
    /\ expired' = expired \cup {t}
    /\ UNCHANGED <<taskAt, result, row, container, ticker, stream, cancelled, caches, jobEnd>>

StreamCloses_WaitsForExit(t) ==
    /\ t \in stream /\ container[t] # "running"
    /\ stream' = stream \ {t}
    /\ UNCHANGED <<taskAt, result, row, container, ticker, expired, cancelled, caches, jobEnd>>

\* The stream follows the run's context, not the task's: it ends with the container or with the run.
StreamCloses(t) ==
    /\ t \in stream
    /\ cancelled \/ container[t] # "running"
    /\ stream' = stream \ {t}
    /\ UNCHANGED <<taskAt, result, row, container, ticker, expired, cancelled, caches, jobEnd>>

\* The ticker takes a snapshot of the logs, then writes it; it ends when its context is cancelled.
Tick(t) ==
    /\ ticker[t] = "idle" /\ taskAt[t] \in {"wait", "join"}
    /\ ticker' = [ticker EXCEPT ![t] = "writing"]
    /\ UNCHANGED <<taskAt, result, row, container, stream, expired, cancelled, caches, jobEnd>>

TickWrites(t) ==
    /\ ticker[t] = "writing"
    /\ row' = IF cancelled THEN row ELSE [row EXCEPT ![t] = "running"]
    /\ ticker' = [ticker EXCEPT ![t] = "idle"]
    /\ UNCHANGED <<taskAt, result, container, stream, expired, cancelled, caches, jobEnd>>

TickerEnds(t) ==
    /\ ticker[t] = "idle"
    /\ taskAt[t] \notin {"wait"} \/ cancelled
    /\ ticker' = [ticker EXCEPT ![t] = "off"]
    /\ UNCHANGED <<taskAt, result, row, container, stream, expired, cancelled, caches, jobEnd>>

\* waitForContainer returns: the exit code, the context's error, or an error of Status.
WaitForContainer(t) ==
    /\ taskAt[t] = "wait"
    /\ \/ container[t] \in {"succeeded", "exited"} /\ result' = [result EXCEPT ![t] = container[t]]
       \/ t \in expired /\ result' = [result EXCEPT ![t] = "aborted"]
       \/ result' = [result EXCEPT ![t] = "errored"]
    /\ Move(t, "join")
    /\ UNCHANGED <<row, container, ticker, stream, expired, cancelled, caches, jobEnd>>

Joined_StreamOnly(t) == t \notin stream

\* cancelTicker and wg.Wait: every goroutine of the task stream is over.
Joined(t) == t \notin stream /\ ticker[t] = "off"

\* The last row, assertions included; an error of Status leaves the row as it is.
FinishTask(t) ==
    /\ taskAt[t] = "join" /\ Joined(t)
    /\ row' = [row EXCEPT ![t] = CASE cancelled \/ result[t] = "errored" -> @
                                   [] result[t] = "aborted" -> "abort"
                                   [] result[t] = "succeeded" -> "success"
                                   [] OTHER -> "failure"]
    /\ \E e \in CASE cancelled /\ result[t] \in {"succeeded", "exited"} -> {"other"}
                  [] result[t] = "succeeded" -> {"nil", "assertion"}
                  [] result[t] = "exited" -> {"failed", "assertion"}
                  [] OTHER -> {result[t]} :
         result' = [result EXCEPT ![t] = e]
    /\ Move(t, "cleanup")
    /\ UNCHANGED <<container, ticker, stream, expired, cancelled, caches, jobEnd>>

\* The deferred Cleanup, with a context of its own.
Cleanup(t) ==
    /\ taskAt[t] = "cleanup"
    /\ container' = [container EXCEPT ![t] = "gone"]
    /\ Move(t, "returned")
    /\ UNCHANGED <<result, row, ticker, stream, expired, cancelled, caches, jobEnd>>

---------------------------------------------------------------------------
(* The job around them. *)

TasksOver_NotTheLast == \E t \in Tasks : taskAt[t] = "returned"

\* Every fork waits for its goroutines before the job's deferred function runs.
TasksOver == \A t \in Tasks : taskAt[t] = "returned"

\* Every created volume is written to S3, or the write fails, and is removed.
CachePersist ==
    /\ jobEnd = "tasks" /\ TasksOver
    /\ jobEnd' = "cleanup"
    /\ UNCHANGED <<taskAt, result, row, container, ticker, stream, expired, cancelled, caches>>

CleanupCacheVolumes ==
    /\ jobEnd = "cleanup"
    /\ volumes' = {} /\ jobEnd' = "over"
    /\ UNCHANGED <<taskAt, result, row, container, ticker, stream, expired, cancelled, cacheVolumes, restoring, restored>>

Stop ==
    /\ ~cancelled /\ jobEnd = "tasks"
    /\ cancelled' = TRUE
    /\ UNCHANGED <<taskAt, result, row, container, ticker, stream, expired, caches, jobEnd>>

---------------------------------------------------------------------------
TasksInit ==
    /\ taskAt = [t \in Tasks |-> "load"]
    /\ result = [t \in Tasks |-> "none"]
    /\ row = [t \in Tasks |-> "none"]
    /\ container = [t \in Tasks |-> "none"]
    /\ ticker = [t \in Tasks |-> "off"]
    /\ stream = {} /\ expired = {} /\ cancelled = FALSE
    /\ cacheVolumes = {} /\ volumes = {} /\ restoring = {} /\ restored = {}
    /\ jobEnd = "tasks"

RunTask(t) ==
    \/ LoadConfig(t) \/ NameCache(t) \/ CreateVolume(t) \/ CacheRestore(t) \/ WritePending(t) \/ RunContainer(t)
    \/ WaitForContainer(t) \/ FinishTask(t) \/ Cleanup(t)
Follow(t) == StreamCloses(t) \/ Tick(t) \/ TickWrites(t) \/ TickerEnds(t)

\* The steps the scheduler owes a task; that Status fails is not one of them.
Owed(t) == RunTask(t) /\ (taskAt[t] = "wait" => container[t] # "running" \/ t \in expired \/ cancelled)

TasksNext ==
    \/ \E t \in Tasks : RunTask(t) \/ Follow(t) \/ ContainerExits(t) \/ TimeoutPasses(t)
    \/ CachePersist \/ CleanupCacheVolumes \/ Stop

TasksSpec == TasksInit /\ [][TasksNext]_tasksVars

\* Goroutines are scheduled, timers fire and the job runs its deferred function; nothing makes a container exit.
Progress ==
    \/ \E t \in Tasks : Owed(t) \/ TimeoutPasses(t) \/ StreamCloses(t)
    \/ CachePersist \/ CleanupCacheVolumes
TickersWrite == \E t \in Tasks : TickWrites(t)

\* select picks among its ready cases at random, so a ticker that may end does in the end.
TickersEnd == \E t \in Tasks : TickerEnds(t)

TasksFairSpec == TasksSpec /\ WF_tasksVars(Progress) /\ WF_tasksVars(TickersWrite) /\ SF_tasksVars(TickersEnd)

---------------------------------------------------------------------------
(* Properties. *)

\* Type correctness of the tasks' state.
TasksTypeOK ==
    /\ taskAt \in [Tasks -> {"load", "caches", "create", "restore", "pending", "start", "wait", "join", "cleanup", "returned"}]
    /\ result \in [Tasks -> {"none", "nil", "failed", "errored", "aborted", "assertion", "other", "succeeded", "exited"}]
    /\ row \in [Tasks -> {"none", "pending", "running"} \cup Final]
    /\ container \in [Tasks -> {"none", "running", "succeeded", "exited", "gone"}]
    /\ ticker \in [Tasks -> {"off", "idle", "writing"}]
    /\ stream \subseteq Tasks /\ expired \subseteq HasTimeout
    /\ cancelled \in BOOLEAN /\ jobEnd \in {"tasks", "cleanup", "over"}
    /\ cacheVolumes \subseteq Keys /\ volumes \subseteq cacheVolumes

\* A final row is never overwritten by the ticker's "running": runTask joins the ticker before it writes the
\* last row (task_handler.go, cancelTicker and ts.wg.Wait).
FinalRowsStay == [][\A t \in Tasks : row[t] \in Final => row'[t] = row[t]]_tasksVars

\* No container outlives its task, and no cache volume is removed under one (the deferred Cleanup has its own
\* context; the volumes go at the job's end).
NothingOutlivesItsJob ==
    /\ \A t \in Tasks : taskAt[t] = "returned" => container[t] \in {"none", "gone"}
    /\ jobEnd # "tasks" => \A t \in Tasks : container[t] \in {"none", "gone"}
    /\ jobEnd = "over" => volumes = {}
=============================================================================
