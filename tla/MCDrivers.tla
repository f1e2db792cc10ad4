----------------------------- MODULE MCDrivers ------------------------------
(***************************************************************************)
(* Instances for TLC of the drivers and of the runner that calls them.     *)
(* Each behaviour is a behaviour of one part, the one named by part, while *)
(* the others stay in their initial state. K8sDriver and FlyDriver have    *)
(* two parts each, in which different callers take part; VMDriver is qemu  *)
(* and vz, CloudWorkers hetzner without and digitalocean with reuse.       *)
(***************************************************************************)
EXTENDS Drivers, TLC

VARIABLE part

runnerVars == <<pc, outcome, status, holds, ticking, streaming, late, stopped, volumes, onDriver>>
dockerVars == <<docker, volume, caller, cancelled, closed, crashes>>
nativeVars == <<process, written, piped, logged, liveCh, liveClosed, follower, errChan, poller, nativeCancelled,
                dir, nativeVolume>>
k8sVars == <<job, pod, claim, user, read, podName, result, k8sCancelled, k8sClosed, k8sCrashes>>
flyVars == <<flyMachine, mounted, disk, shared, logical, tracked, trackedDisk, attachment, helper, flyCaller, mine,
             flyResult, flyClosed, flyCrashes>>
vmVars == <<boot, booter, vm, tempDir, conn, started, proc, vmCall, faults, vmClosed, panic>>
cloudVars == <<machine, server, connected, sshKey, remoteKey, keyFile, lastKey, call, found, target, calls, closing>>
vars == <<part, runnerVars, dockerVars, nativeVars, k8sVars, flyVars, vmVars, cloudVars>>

-----------------------------------------------------------------------------
(* Values of the constants. *)

\* The task t and the cache helper h share a volume, the sandbox s has its own; in k8s they share one claim.
DockerVolumes == "t" :> "v" @@ "u" :> "none" @@ "s" :> "w" @@ "h" :> "v"
Claims == [x \in {"t", "u", "s", "h"} |-> "v"]
Mounts == "t" :> "v" @@ "u" :> "none" @@ "s" :> "w" @@ "h" :> "v"
OwnInstance == "c1" :> "d1" @@ "c2" :> "d2" @@ "c3" :> "d3"

Qemu == INSTANCE VMDriver WITH Vz <- FALSE, call <- vmCall, closed <- vmClosed
Hetzner == INSTANCE CloudWorkers WITH Reuse <- FALSE, IdleLabelRead <- FALSE, docker <- connected

\* A task with an input, a sandbox and a helper; and a task without and one with an input.
K8sNext == K8s!Next /\ user'["u"] = "idle"
K8sTwoNext == K8s!Next /\ user'["s"] = "idle" /\ user'["h"] = "idle"

\* A task, a sandbox and a copy in a process that lives; a task and a copy in one that crashes.
FlyNext == Fly!Next /\ flyCaller'["u"] = "idle" /\ flyCrashes' = 0
FlyCrashNext == Fly!Next /\ flyCaller'["u"] = "idle" /\ flyCaller'["s"] = "idle"

\* Two instances that compete for one machine; the third has closed before they start.
HetznerNext ==
    /\ Hetzner!Next
    /\ calls'["c3"] = 0 /\ (closing["d3"] # "closed" => call' = call /\ closing'["d1"] = "open" /\ closing'["d2"] = "open")

-----------------------------------------------------------------------------
MCInit ==
    /\ part \in {"runner", "docker", "native", "k8s", "k8s two", "fly", "fly crash", "qemu", "vz", "hetzner", "digitalocean"}
    /\ Runner!Init /\ Docker!Init /\ Native!Init /\ K8s!Init /\ Fly!Init /\ VM!Init /\ Cloud!Init

RunnerStep == part = "runner" /\ Runner!Next
    /\ UNCHANGED <<part, dockerVars, nativeVars, k8sVars, flyVars, vmVars, cloudVars>>
DockerStep == part = "docker" /\ Docker!Next
    /\ UNCHANGED <<part, runnerVars, nativeVars, k8sVars, flyVars, vmVars, cloudVars>>
NativeStep == part = "native" /\ Native!Next
    /\ UNCHANGED <<part, runnerVars, dockerVars, k8sVars, flyVars, vmVars, cloudVars>>
K8sStep == part = "k8s" /\ K8sNext
    /\ UNCHANGED <<part, runnerVars, dockerVars, nativeVars, flyVars, vmVars, cloudVars>>
K8sTwoStep == part = "k8s two" /\ K8sTwoNext
    /\ UNCHANGED <<part, runnerVars, dockerVars, nativeVars, flyVars, vmVars, cloudVars>>
FlyStep == part = "fly" /\ FlyNext
    /\ UNCHANGED <<part, runnerVars, dockerVars, nativeVars, k8sVars, vmVars, cloudVars>>
FlyCrashStep == part = "fly crash" /\ FlyCrashNext
    /\ UNCHANGED <<part, runnerVars, dockerVars, nativeVars, k8sVars, vmVars, cloudVars>>
QemuStep == part = "qemu" /\ Qemu!Next
    /\ UNCHANGED <<part, runnerVars, dockerVars, nativeVars, k8sVars, flyVars, cloudVars>>
VzStep == part = "vz" /\ VM!Next
    /\ UNCHANGED <<part, runnerVars, dockerVars, nativeVars, k8sVars, flyVars, cloudVars>>
HetznerStep == part = "hetzner" /\ HetznerNext
    /\ UNCHANGED <<part, runnerVars, dockerVars, nativeVars, k8sVars, flyVars, vmVars>>
DigitalOceanStep == part = "digitalocean" /\ Cloud!Next
    /\ UNCHANGED <<part, runnerVars, dockerVars, nativeVars, k8sVars, flyVars, vmVars>>

MCNext ==
    \/ RunnerStep \/ DockerStep \/ NativeStep \/ K8sStep \/ K8sTwoStep \/ FlyStep \/ FlyCrashStep
    \/ QemuStep \/ VzStep \/ HetznerStep \/ DigitalOceanStep

MCSpec == MCInit /\ [][MCNext]_vars
=============================================================================
