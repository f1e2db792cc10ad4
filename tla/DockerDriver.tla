---------------------------- MODULE DockerDriver ----------------------------
(***************************************************************************)
(* The Docker driver (orchestra/docker): the containers, sandboxes, cache   *)
(* helpers and volumes of one namespace, and the Close that ends it.        *)
(*                                                                          *)
(* Task containers and sandboxes have a name and carry the namespace's      *)
(* label; a cache helper has neither.  The process may crash between two    *)
(* requests and the run be resumed with a new instance, which meets the     *)
(* names of the old one.  The daemon is external: a request is atomic and   *)
(* may be refused, and one made with a cancelled context always is.         *)
(*                                                                          *)
(* An operator named X_Slip, defined just before X, is a mutant of X.       *)
(***************************************************************************)
EXTENDS Naturals

CONSTANTS
    Tasks,          \* task and sandbox names
    Sandboxes,      \* the ones started with StartSandbox
    Helpers,        \* bound: cache helper containers
    Volumes,        \* each task and each helper mounts VolumeOf[it]
    VolumeOf,       \* "none" when it mounts nothing
    MaxCrashes

VARIABLES
    docker,         \* [Tasks \cup Helpers -> "none", "created", "running", "exited"]: the daemon's containers
    volume,         \* the daemon's volumes of the namespace
    caller,         \* [Tasks \cup Helpers -> where its user in the driver is]
    cancelled,      \* the run's context
    closed,         \* where Close is: "open", "pruned", "ok", "error"
    crashes

vars == <<docker, volume, caller, cancelled, closed, crashes>>
All == Tasks \cup Helpers

Goes(x, from, to) == caller[x] = from /\ caller' = [caller EXCEPT ![x] = to]
Becomes(x, s) == docker' = [docker EXCEPT ![x] = s]
InUse == {VolumeOf[x] : x \in {y \in All : docker[y] # "none"}}

Init ==
    /\ docker = [x \in All |-> "none"] /\ volume = {}
    /\ caller = [x \in All |-> "idle"]
    /\ cancelled = FALSE /\ closed = "open" /\ crashes = 0

---------------------------------------------------------------------------
\* RunContainer and StartSandbox: the image is pulled, then every mounted volume is created if it is not there.
PullAndMount(t) ==
    /\ closed = "open"
    /\ \/ ~cancelled /\ Goes(t, "idle", "create") /\ volume' = volume \cup ({VolumeOf[t]} \ {"none"})
       \/ Goes(t, "idle", "failed") /\ UNCHANGED volume
    /\ UNCHANGED <<docker, cancelled, closed, crashes>>

\* ContainerCreate.  A name that exists is a conflict: RunContainer takes that container over as it is,
\* StartSandbox gives up.
ContainerCreate(t) ==
    /\ \/ ~cancelled /\ docker[t] = "none" /\ Becomes(t, "created") /\ Goes(t, "create", "start")
       \/ docker[t] # "none" /\ t \notin Sandboxes /\ ~cancelled /\ Goes(t, "create", "polled") /\ UNCHANGED docker
       \/ Goes(t, "create", "failed") /\ UNCHANGED docker
    /\ UNCHANGED <<volume, cancelled, closed, crashes>>

\* Attach, write stdin, start.  When that fails RunContainer force-removes what it created with a context of its
\* own; StartSandbox leaves it.
ContainerStart(t) ==
    /\ \/ /\ ~cancelled /\ Becomes(t, "running")
          /\ Goes(t, "start", IF t \in Sandboxes THEN "exec" ELSE "polled")
       \/ Goes(t, "start", "failed") /\ IF t \in Sandboxes THEN UNCHANGED docker ELSE Becomes(t, "none")
    /\ UNCHANGED <<volume, cancelled, closed, crashes>>

\* External: the container's process ends; a sandbox only when it is removed.
ContainerExits(t) ==
    /\ docker[t] = "running" /\ t \notin Sandboxes
    /\ Becomes(t, "exited")
    /\ UNCHANGED <<volume, caller, cancelled, closed, crashes>>

\* Status says done for an exited container and for no other; logs are read, the result is taken.
StatusIsDone(t) ==
    /\ docker[t] = "exited" /\ Goes(t, "polled", "cleanup")
    /\ UNCHANGED <<docker, volume, cancelled, closed, crashes>>

\* Exec in a sandbox: create, attach, copy the streams, inspect.
SandboxExec(t) ==
    /\ t \in Sandboxes /\ caller[t] = "exec"
    /\ \E p \in {"exec", "cleanup"} : Goes(t, "exec", p)
    /\ UNCHANGED <<docker, volume, cancelled, closed, crashes>>

\* A cancelled run stops polling and executing; what the caller started is still cleaned up.
GiveUp(t) ==
    /\ cancelled /\ \E p \in {"polled", "exec"} : Goes(t, p, "cleanup")
    /\ UNCHANGED <<docker, volume, cancelled, closed, crashes>>

Cleanup_WithRunContext(t) ==
    /\ \/ Becomes(t, IF cancelled THEN docker[t] ELSE "none") /\ Goes(t, "cleanup", "done")
       \/ UNCHANGED docker /\ Goes(t, "cleanup", "failed")
    /\ UNCHANGED <<volume, cancelled, closed, crashes>>

\* Container.Cleanup and Sandbox.Cleanup force-remove with the context they are given, never the run's.
Cleanup(t) ==
    /\ \/ Becomes(t, "none") /\ Goes(t, "cleanup", "done")
       \/ UNCHANGED docker /\ Goes(t, "cleanup", "failed")
    /\ UNCHANGED <<volume, cancelled, closed, crashes>>

---------------------------------------------------------------------------
(* CopyToVolume, CopyFromVolume and ReadFilesFromVolume work through a helper container. *)

HelperCreate(h) ==
    /\ closed = "open" /\ ~cancelled /\ docker[h] = "none"
    /\ \/ Becomes(h, "created") /\ Goes(h, "idle", "copy") /\ volume' = volume \cup ({VolumeOf[h]} \ {"none"})
       \/ Goes(h, "idle", "failed") /\ UNCHANGED <<docker, volume>>
    /\ UNCHANGED <<cancelled, closed, crashes>>

\* A copy into the volume needs no started helper; reading starts it and hands a reader to the caller.
HelperCopy(h) ==
    /\ \/ ~cancelled /\ \E p \in {"copied", "read"} :
             Goes(h, "copy", p) /\ Becomes(h, IF p = "read" THEN "running" ELSE "created")
       \/ Goes(h, "copy", "copied") /\ UNCHANGED docker
    /\ UNCHANGED <<volume, cancelled, closed, crashes>>

\* The removal after a copy, after a failure and at the end of ReadFilesFromVolume uses the request's context,
\* and its error is dropped; the reader of CopyFromVolume removes with a fresh one when it is closed.
HelperRemove(h) ==
    /\ \/ Goes(h, "copied", "done") /\ Becomes(h, IF cancelled THEN docker[h] ELSE "none")
       \/ Goes(h, "read", "done") /\ \E s \in {"none", IF cancelled THEN docker[h] ELSE "none"} : Becomes(h, s)
    /\ UNCHANGED <<volume, cancelled, closed, crashes>>

---------------------------------------------------------------------------
StopRun == ~cancelled /\ closed = "open" /\ cancelled' = TRUE /\ UNCHANGED <<docker, volume, caller, closed, crashes>>

\* The process dies and the run is resumed: the daemon keeps what it has, the callers start again.
CrashAndResume ==
    /\ crashes < MaxCrashes /\ closed = "open"
    /\ crashes' = crashes + 1
    /\ caller' = [x \in All |-> IF caller[x] = "done" THEN "done" ELSE "idle"]
    /\ cancelled' = FALSE
    /\ UNCHANGED <<docker, volume, closed>>

\* Volume.Cleanup
RemoveVolume(v) ==
    /\ closed = "open" /\ v \in volume /\ v \notin InUse
    /\ \A x \in All : VolumeOf[x] = v => caller[x] \in {"idle", "done", "failed"}
    /\ volume' = volume \ {v}
    /\ UNCHANGED <<docker, caller, cancelled, closed, crashes>>

\* Close: ContainersPrune with the namespace's label removes the ones that do not run, retried on a conflict.
Prune ==
    /\ closed = "open" /\ \A x \in All : caller[x] \in {"idle", "done", "failed"}
    /\ \/ /\ docker' = [x \in All |-> IF x \in Tasks /\ docker[x] # "running" THEN "none" ELSE docker[x]]
          /\ closed' = "pruned"
       \/ closed' = "error" /\ UNCHANGED docker
    /\ UNCHANGED <<volume, caller, cancelled, crashes>>

\* Then every volume of the namespace is removed, up to the first one the daemon refuses.
RemoveVolumes ==
    /\ closed = "pruned"
    /\ \/ volume \cap InUse = {} /\ volume' = {} /\ closed' = "ok"
       \/ \E kept \in SUBSET volume : /\ volume \cap InUse \subseteq kept /\ kept # {}
                                      /\ volume' = kept /\ closed' = "error"
    /\ UNCHANGED <<docker, caller, cancelled, crashes>>

Closed == closed \in {"ok", "error"} /\ UNCHANGED vars

Next ==
    \/ \E t \in Tasks : \/ PullAndMount(t) \/ ContainerCreate(t) \/ ContainerStart(t) \/ ContainerExits(t)
                        \/ StatusIsDone(t) \/ SandboxExec(t) \/ GiveUp(t) \/ Cleanup(t)
    \/ \E h \in Helpers : HelperCreate(h) \/ HelperCopy(h) \/ HelperRemove(h)
    \/ \E v \in Volumes : RemoveVolume(v)
    \/ StopRun \/ CrashAndResume \/ Prune \/ RemoveVolumes \/ Closed

Spec == Init /\ [][Next]_vars

---------------------------------------------------------------------------
\* The states the daemon reports, those of the callers and those of Close.
TypeOK ==
    /\ docker \in [All -> {"none", "created", "running", "exited"}]
    /\ volume \subseteq Volumes /\ closed \in {"open", "pruned", "ok", "error"}
    /\ caller \in [All -> {"idle", "create", "start", "polled", "exec", "cleanup", "copy", "copied", "read", "done", "failed"}]
    /\ cancelled \in BOOLEAN /\ crashes \in 0..MaxCrashes

\* While the process lives and nobody refuses a removal, a task's container exists exactly as long as its caller
\* is between create and clean-up: no failed attach or start and no cancellation leaves one behind
\* (RunContainer, removeOrphanedContainer, Container.Cleanup).
NoTaskIsOrphaned ==
    crashes = 0 =>
        \A t \in Tasks \ Sandboxes : docker[t] # "none" => caller[t] \in {"start", "polled", "cleanup", "failed"}

\* A Close that reports success leaves no volume of the namespace, and no container but one without a volume that
\* was still running when Close pruned, whatever crashed or was cancelled before (Docker.Close).
CloseRemovesTheRest ==
    closed = "ok" =>
        /\ volume = {}
        /\ \A t \in Tasks : docker[t] # "none" => VolumeOf[t] = "none" /\ docker[t] \in {"running", "exited"}
=============================================================================
