------------------------------ MODULE Drivers -------------------------------
(***************************************************************************)
(* The drivers a server can run its containers with (orchestra/), and the  *)
(* runner that calls them, side by side: TaskRunner, DockerDriver,         *)
(* NativeDriver, K8sDriver, FlyDriver, VMDriver and CloudWorkers, each     *)
(* with variables of its own.  A namespace has one driver, so nothing is   *)
(* shared between them but what a run consists of: tasks, sandboxes,       *)
(* cache helpers and volumes.                                              *)
(***************************************************************************)
EXTENDS Integers, Sequences

CONSTANTS
    Runs, Sandboxed, HasDeadline, Names,                    \* the runner's calls and volume names
    Tasks, Sandboxes, Helpers, Volumes, MaxCrashes,         \* a namespace of docker, k8s and fly
    VolumeOf, ClaimOf, MountOf,                             \* what is mounted in each of the three
    WithStdin,                                              \* k8s: tasks with an input
    HelperIds, Disks,                                       \* fly: helper machines and physical volumes
    Streams, MaxChunks, LiveCapacity, Pollers, Entries,     \* native
    Calls, Vz, MaxFaults,                                   \* qemu and vz
    Instances, Callers, InstanceOf, Machines,               \* hetzner and digitalocean
    MaxWorkers, Reuse, IdleLabelRead, MaxCalls

\* Calls belong to one instance; the names of tasks, sandboxes and helpers differ, "none" is the name of nothing,
\* and a copy is to or from a volume.
ASSUME DriversAssumption ==
    /\ HasDeadline \subseteq Runs /\ Sandboxed \subseteq Runs
    /\ Tasks \cap Sandboxes = {} /\ Tasks \cap Helpers = {} /\ Sandboxes \cap Helpers = {}
    /\ Tasks \cap HelperIds = {} /\ Sandboxes \cap HelperIds = {}
    /\ "none" \notin Tasks \cup Sandboxes \cup HelperIds \cup Disks \cup Machines \cup Calls
    /\ VolumeOf \in [Tasks \cup Sandboxes \cup Helpers -> Volumes \cup {"none"}]
    /\ ClaimOf \in [Tasks \cup Sandboxes \cup Helpers -> Volumes]
    /\ \A h \in Helpers : MountOf[h] # "none"
    /\ MaxCrashes \in Nat /\ MaxChunks \in Nat /\ LiveCapacity \in Nat /\ MaxFaults \in Nat
    /\ MaxWorkers \in Nat /\ MaxCalls \in Nat
    /\ InstanceOf \in [Callers -> Instances]

VARIABLES
    pc, outcome, status, holds, ticking, streaming, late, stopped, volumes, onDriver,
    docker, volume, caller, cancelled, closed, crashes,
    process, written, piped, logged, liveCh, liveClosed, follower, errChan, poller, nativeCancelled, dir, nativeVolume,
    job, pod, claim, user, read, podName, result, k8sCancelled, k8sClosed, k8sCrashes,
    flyMachine, mounted, disk, shared, logical, tracked, trackedDisk, attachment, helper, flyCaller, mine,
    flyResult, flyClosed, flyCrashes,
    boot, booter, vm, tempDir, conn, started, proc, vmCall, faults, vmClosed, panic,
    machine, server, connected, sshKey, remoteKey, keyFile, lastKey, call, found, target, calls, closing

Runner == INSTANCE TaskRunner
Docker == INSTANCE DockerDriver WITH Tasks <- Tasks \cup Sandboxes
Native == INSTANCE NativeDriver WITH cancelled <- nativeCancelled, volume <- nativeVolume
K8s == INSTANCE K8sDriver WITH
    VolumeOf <- ClaimOf, cancelled <- k8sCancelled, closed <- k8sClosed, crashes <- k8sCrashes
Fly == INSTANCE FlyDriver WITH
    Copies <- Helpers, machine <- flyMachine, caller <- flyCaller, result <- flyResult, closed <- flyClosed,
    crashes <- flyCrashes
VM == INSTANCE VMDriver WITH call <- vmCall, closed <- vmClosed
Cloud == INSTANCE CloudWorkers WITH docker <- connected

Spec ==
    Runner!Spec /\ Docker!Spec /\ Native!Spec /\ K8s!Spec /\ Fly!Spec /\ VM!Spec /\ Cloud!Spec

---------------------------------------------------------------------------
\* Type correctness of every driver.
DriverTypes ==
    /\ Runner!TypeOK /\ Docker!TypeOK /\ Native!TypeOK /\ K8s!TypeOK /\ Fly!TypeOK /\ VM!TypeOK /\ Cloud!TypeOK

\* A call of runtime.run, of a sandbox's exec or of an image or cache operation returns without a container,
\* a log stream or a ticker of its own, whichever way it ends (TaskRunner); no failed start and no cancellation
\* leaves a task's container behind (DockerDriver: RunContainer, Cleanup).
NoContainerOutlivesItsCall == Runner!NoContainerOutlivesItsCall /\ Docker!NoTaskIsOrphaned

\* A driver's Close that reports no failure leaves nothing it promises to remove: volumes and stopped containers
\* (docker), jobs and claims (k8s), machines and volumes after crashes and partial launches (fly), the guest and
\* its files (qemu, vz), the key at the provider (hetzner, digitalocean).
CloseReleasesAll ==
    /\ Docker!CloseRemovesTheRest
    /\ K8s!CloseRemovesJobsAndClaims
    /\ Fly!CloseLeavesNothing
    /\ VM!CloseEndsTheMachine
    /\ Cloud!KeyIsRemoved

\* The result a caller is given is the one of its own command, complete and final: exit codes read from the job,
\* the pod or the guest agent, the whole output of a process, the last word of a row.
ResultIsTrue ==
    /\ Runner!CompletedRowIsFinal
    /\ Native!DoneHasAllOutput /\ Native!OutcomeIsKept
    /\ K8s!ResultIsThePods
    /\ VM!ResultIsOfOneRun

\* Every rented machine is one that its instance will delete or park, until the instance keeps another one in its
\* place (CloudWorkers: ensureServer, Close).
NoMachineIsForgotten == Cloud!NoMachineIsForgotten
=============================================================================
