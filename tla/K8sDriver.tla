----------------------------- MODULE K8sDriver ------------------------------
(***************************************************************************)
(* The Kubernetes driver (orchestra/k8s): a task is a job with one pod, a   *)
(* sandbox and a cache helper are bare pods, a volume is a claim.           *)
(*                                                                          *)
(* The cluster is external and eventually consistent: the pod of a job      *)
(* appears after the job, and the job's counters follow the pod's phase.    *)
(* An evicted pod has failed without a status of its container.  A request  *)
(* is atomic; the driver's operations are sequences of requests.            *)
(***************************************************************************)
EXTENDS Naturals

CONSTANTS
    Tasks,          \* tasks
    WithStdin,      \* the ones with an input: RunContainer waits for their pod and attaches
    Sandboxes,
    Helpers,        \* bound: cache helper pods
    Volumes, VolumeOf,      \* what a task, a sandbox or a helper mounts
    MaxCrashes

VARIABLES
    job,            \* [Tasks -> "none", "active", "Succeeded", "Failed"]: what the job's counters say
    pod,            \* [all -> "none", "Pending", "Running", "exit0", "exit1", "evicted"]
    claim,          \* the claims of the namespace
    user,           \* [all -> where the caller is]
    read,           \* [Tasks -> the job status that Status has just read]
    podName,        \* tasks whose handle knows its pod
    result,         \* [Tasks -> what Status reported: "none", "success", "failure", or "error" when the logs fail]
    cancelled, closed, crashes

vars == <<job, pod, claim, user, read, podName, result, cancelled, closed, crashes>>
cluster == <<job, pod, claim>>
handles == <<read, podName, result>>
All == Tasks \cup Sandboxes \cup Helpers
Ended == {"exit0", "exit1", "evicted"}
Goes(x, from, to) == user[x] = from /\ user' = [user EXCEPT ![x] = to]

Init ==
    /\ job = [t \in Tasks |-> "none"] /\ pod = [x \in All |-> "none"] /\ claim = {}
    /\ user = [x \in All |-> "idle"] /\ read = [t \in Tasks |-> "none"] /\ podName = {}
    /\ result = [t \in Tasks |-> "none"]
    /\ cancelled = FALSE /\ closed = "open" /\ crashes = 0

---------------------------------------------------------------------------
\* RunContainer looks for the job first and takes an existing one over, with its pod if there is one by now.
FindJob(t) ==
    /\ closed = "open"
    /\ IF job[t] # "none" /\ ~cancelled
       THEN /\ Goes(t, "idle", "poll")
            /\ podName' = IF pod[t] # "none" THEN podName \cup {t} ELSE podName
       ELSE Goes(t, "idle", "volume") /\ UNCHANGED podName
    /\ UNCHANGED <<cluster, read, result, cancelled, closed, crashes>>

\* CreateVolume: get the claim, and create it when it is not there.  Two callers may both find it missing,
\* and the second create is an error.
GetClaim(x) ==
    /\ \/ VolumeOf[x] \in claim /\ ~cancelled /\ Goes(x, "volume", "create")
       \/ (VolumeOf[x] \notin claim \/ cancelled) /\ Goes(x, "volume", "claim")
    /\ UNCHANGED <<cluster, handles, cancelled, closed, crashes>>
CreateClaim(x) ==
    /\ \/ ~cancelled /\ VolumeOf[x] \notin claim /\ claim' = claim \cup {VolumeOf[x]} /\ Goes(x, "claim", "create")
       \/ (VolumeOf[x] \in claim \/ cancelled) /\ Goes(x, "claim", "failed") /\ UNCHANGED claim
    /\ UNCHANGED <<job, pod, handles, cancelled, closed, crashes>>

\* The job is created; without an input the call returns at once, its handle not knowing the pod.
CreateJob(t) ==
    /\ \/ /\ ~cancelled /\ job[t] = "none" /\ job' = [job EXCEPT ![t] = "active"]
          /\ Goes(t, "create", IF t \in WithStdin THEN "attach" ELSE "poll")
       \/ Goes(t, "create", "failed") /\ UNCHANGED job
    /\ UNCHANGED <<pod, claim, handles, cancelled, closed, crashes>>

\* waitForPodCreation, watchPodUntilRunning, attachStdinToPod; a failure returns an error and leaves the job.
AttachStdin(t) ==
    /\ \/ ~cancelled /\ pod[t] \in {"Running", "exit0"} /\ podName' = podName \cup {t} /\ Goes(t, "attach", "poll")
       \/ Goes(t, "attach", "failed") /\ UNCHANGED podName
    /\ UNCHANGED <<cluster, read, result, cancelled, closed, crashes>>

\* External: the controller makes the pod, the pod runs and ends, the job's counters follow.
JobMakesPod(t) ==
    /\ job[t] = "active" /\ pod[t] = "none" /\ pod' = [pod EXCEPT ![t] = "Pending"]
    /\ UNCHANGED <<job, claim, user, handles, cancelled, closed, crashes>>
PodRuns(x) ==
    /\ pod[x] = "Pending" /\ \E s \in {"Running", "evicted"} : pod' = [pod EXCEPT ![x] = s]
    /\ UNCHANGED <<job, claim, user, handles, cancelled, closed, crashes>>
PodEnds(t) ==
    /\ t \in Tasks /\ pod[t] = "Running" /\ \E s \in {"exit0", "exit1"} : pod' = [pod EXCEPT ![t] = s]
    /\ UNCHANGED <<job, claim, user, handles, cancelled, closed, crashes>>
JobCounts(t) ==
    /\ job[t] = "active" /\ pod[t] \in Ended
    /\ job' = [job EXCEPT ![t] = IF pod[t] = "exit0" THEN "Succeeded" ELSE "Failed"]
    /\ UNCHANGED <<pod, claim, user, handles, cancelled, closed, crashes>>

\* Status reads the job, and the pod afterwards unless the job has succeeded.
StatusReadsJob(t) ==
    /\ user[t] = "poll" /\ job[t] # "none" /\ ~cancelled
    /\ read' = [read EXCEPT ![t] = job[t]] /\ Goes(t, "poll", "status")
    /\ UNCHANGED <<cluster, podName, result, cancelled, closed, crashes>>
StatusReadsPod(t) ==
    /\ user[t] = "status"
    /\ podName' = IF read[t] # "Succeeded" /\ pod[t] # "none" THEN podName \cup {t} ELSE podName
    /\ LET code == CASE read[t] = "Succeeded" -> "success"
                     [] read[t] = "Failed" -> "failure"
                     [] pod[t] = "exit1" -> "failure"
                     [] pod[t] \in {"exit0", "evicted"} -> "success"     \* no container status: code 0
                     [] OTHER -> "none"
       IN  /\ result' = [result EXCEPT ![t] = code]
           /\ Goes(t, "status", IF code = "none" THEN "poll" ELSE "logs")
    /\ UNCHANGED <<cluster, read, cancelled, closed, crashes>>

\* Logs asks for the pod's logs by the name the handle knows; without a name the call ends in an error.
ReadLogs(t) ==
    /\ Goes(t, "logs", "cleanup")
    /\ result' = [result EXCEPT ![t] = IF t \in podName THEN @ ELSE "error"]
    /\ UNCHANGED <<cluster, read, podName, cancelled, closed, crashes>>

\* Container.Cleanup deletes the job and with it the pod; Sandbox.Cleanup deletes the pod.
Cleanup(x) ==
    /\ \/ /\ Goes(x, "cleanup", "done")
          /\ pod' = [pod EXCEPT ![x] = "none"]
          /\ job' = [t \in Tasks |-> IF t = x THEN "none" ELSE job[t]]
       \/ Goes(x, "cleanup", "failed") /\ UNCHANGED <<job, pod>>
    /\ UNCHANGED <<claim, handles, cancelled, closed, crashes>>
GiveUp(t) ==
    /\ cancelled /\ \E p \in {"poll", "status", "exec"} : Goes(t, p, "cleanup")
    /\ UNCHANGED <<cluster, handles, cancelled, closed, crashes>>

---------------------------------------------------------------------------
\* StartSandbox and the cache helpers create a pod, wait until it runs, use it.  A sandbox that does not start
\* in time is left; a helper is deleted with the context of the request.
CreatePod(x) ==
    /\ x \in Sandboxes \cup Helpers /\ closed = "open"
    /\ \/ ~cancelled /\ pod[x] = "none" /\ pod' = [pod EXCEPT ![x] = "Pending"]
          /\ Goes(x, IF x \in Helpers THEN "idle" ELSE "create", "wait")
       \/ Goes(x, IF x \in Helpers THEN "idle" ELSE "create", "failed") /\ UNCHANGED pod
    /\ UNCHANGED <<job, claim, handles, cancelled, closed, crashes>>
StartSandbox(x) ==
    /\ x \in Sandboxes /\ closed = "open" /\ Goes(x, "idle", "volume")
    /\ UNCHANGED <<cluster, handles, cancelled, closed, crashes>>
WaitForPod(x) ==
    /\ x \in Sandboxes \cup Helpers
    /\ \/ pod[x] = "Running" /\ ~cancelled /\ Goes(x, "wait", "exec")
       \/ x \in Sandboxes /\ Goes(x, "wait", "failed")
       \/ x \in Helpers /\ Goes(x, "wait", "delete")
    /\ UNCHANGED <<cluster, handles, cancelled, closed, crashes>>
Exec(x) ==
    /\ x \in Sandboxes
    /\ Goes(x, "exec", "cleanup")
    /\ UNCHANGED <<cluster, handles, cancelled, closed, crashes>>

\* The copies: an archive through the pod's standard streams.
HelperCopies(h) ==
    /\ Goes(h, "exec", "delete")
    /\ UNCHANGED <<cluster, handles, cancelled, closed, crashes>>
DeleteHelper(h) ==
    /\ Goes(h, "delete", "done")
    /\ pod' = [pod EXCEPT ![h] = IF cancelled THEN @ ELSE "none"]
    /\ UNCHANGED <<job, claim, handles, cancelled, closed, crashes>>

StopRun == ~cancelled /\ closed = "open" /\ cancelled' = TRUE /\ UNCHANGED <<cluster, user, handles, closed, crashes>>

\* The process dies; the resumed run's handles know nothing.
CrashAndResume ==
    /\ crashes < MaxCrashes /\ closed = "open" /\ crashes' = crashes + 1
    /\ user' = [x \in All |-> IF user[x] = "done" THEN "done" ELSE "idle"]
    /\ podName' = {} /\ result' = [t \in Tasks |-> IF user[t] = "done" THEN result[t] ELSE "none"]
    /\ UNCHANGED <<cluster, read, cancelled, closed>>

\* Close deletes the jobs of the namespace with their pods, then its claims.
CloseJobs ==
    /\ closed = "open" /\ \A x \in All : user[x] \in {"idle", "done", "failed"}
    /\ \/ /\ job' = [t \in Tasks |-> "none"]
          /\ pod' = [x \in All |-> IF x \in Tasks THEN "none" ELSE pod[x]]
          /\ closed' = "jobs"
       \/ closed' = "error" /\ UNCHANGED <<job, pod>>
    /\ UNCHANGED <<claim, user, handles, cancelled, crashes>>
CloseClaims ==
    /\ closed = "jobs"
    /\ \/ claim' = {} /\ closed' = "ok"
       \/ UNCHANGED claim /\ closed' = "error"
    /\ UNCHANGED <<job, pod, user, handles, cancelled, crashes>>
Closed == closed \in {"ok", "error"} /\ UNCHANGED vars

Next ==
    \/ \E t \in Tasks : \/ FindJob(t) \/ CreateJob(t) \/ AttachStdin(t) \/ JobMakesPod(t) \/ PodEnds(t) \/ JobCounts(t)
                        \/ StatusReadsJob(t) \/ StatusReadsPod(t) \/ ReadLogs(t) \/ GiveUp(t)
    \/ \E x \in Tasks \cup Sandboxes : GetClaim(x) \/ CreateClaim(x) \/ Cleanup(x)
    \/ \E x \in Sandboxes \cup Helpers : CreatePod(x) \/ StartSandbox(x) \/ WaitForPod(x) \/ Exec(x)
    \/ \E x \in All : PodRuns(x)
    \/ \E h \in Helpers : HelperCopies(h) \/ DeleteHelper(h)
    \/ StopRun \/ CrashAndResume \/ CloseJobs \/ CloseClaims \/ Closed

Spec == Init /\ [][Next]_vars

---------------------------------------------------------------------------
\* What the job's counters, the pods and a handle say, and the claims of the namespace (Status, CreateVolume).
TypeOK ==
    /\ job \in [Tasks -> {"none", "active", "Succeeded", "Failed"}]
    /\ pod \in [All -> {"none", "Pending", "Running"} \cup Ended]
    /\ user \in [All -> {"idle", "volume", "claim", "create", "attach", "poll", "status", "logs", "cleanup", "wait",
                         "exec", "delete", "done", "failed"}]
    /\ read \in [Tasks -> {"none", "active", "Succeeded", "Failed"}]
    /\ result \in [Tasks -> {"none", "success", "failure", "error"}]
    /\ claim \subseteq Volumes /\ podName \subseteq Tasks
    /\ cancelled \in BOOLEAN /\ closed \in {"open", "jobs", "ok", "error"} /\ crashes \in 0..MaxCrashes

\* What Status reports is what the pod did, whichever of the job's counters, the pod's phase and the state of
\* its container it was read from, and however far the counters lag behind.  An evicted pod has no status of
\* its container and is excepted: Status may call it a success.
ResultIsThePods ==
    \A t \in Tasks : user[t] \in {"logs", "cleanup"} /\ result[t] \in {"success", "failure"} /\ pod[t] # "evicted" =>
        (result[t] = "success") = (pod[t] = "exit0")

\* A Close that reports success leaves no job and no claim of the namespace (K8s.Close).
CloseRemovesJobsAndClaims == closed = "ok" => claim = {} /\ \A t \in Tasks : job[t] = "none" /\ pod[t] = "none"
=============================================================================
