----------------------------- MODULE FlyDriver -----------------------------
(***************************************************************************)
(* The Fly driver (orchestra/fly): tasks, sandboxes and cache helpers as    *)
(* machines of one namespace, and the one physical volume all its logical   *)
(* volumes are directories of.                                              *)
(*                                                                          *)
(* A physical volume is attached to one machine at a time, so a launch      *)
(* first destroys the machine the driver remembers as holding it.  The Fly  *)
(* API is external: a request is atomic and may fail, and a launch may      *)
(* fail after it made the machine.  Task and sandbox machines are named     *)
(* after their task, helpers are not.  The process may crash and the run be *)
(* resumed, or closed, by an instance that remembers nothing.               *)
(*                                                                          *)
(* An operator named X_Slip, defined just before X, is a mutant of X.       *)
(***************************************************************************)
EXTENDS Naturals

CONSTANTS
    Tasks,          \* RunContainer calls, and the names of their machines
    Sandboxes,      \* StartSandbox calls
    Copies,         \* CopyToVolume, CopyFromVolume and ReadFilesFromVolume calls
    HelperIds,      \* bound: helper machines
    Disks,          \* bound: physical volumes
    MountOf,        \* [Tasks \cup Sandboxes \cup Copies -> logical volume], "none" for no mount
    MaxCrashes

VARIABLES
    machine,        \* [Ids -> "none", "up", "stopped", "suspended"]: Fly's machines
    mounted,        \* [Ids -> Disks \cup {"none"}]: and the volume of each
    disk,           \* Fly's volumes of the namespace
    shared,         \* f.sharedVolumeID
    logical,        \* f.volumes: [Mounts -> Disks \cup {"none"}]
    tracked,        \* f.machineIDs
    trackedDisk,    \* f.volumeIDs
    attachment,     \* f.volumeAttachments: [Disks -> Ids \cup {"none"}]
    helper,         \* f.helperMachines: [Disks -> Ids \cup {"none"}]
    caller, mine,   \* where a call is, and the volume or the helper it works with
    result,         \* [Tasks -> "none", "exit", "lost"]: the cached final state, "lost" the code -1
    closed,         \* "open", "machines", "dirty", "clean", "over"
    crashes

driverVars == <<shared, logical, tracked, trackedDisk, attachment, helper>>
vars == <<machine, mounted, disk, driverVars, caller, mine, result, closed, crashes>>

Users == Tasks \cup Sandboxes \cup Copies
Ids == Tasks \cup Sandboxes \cup HelperIds
Mounts == {MountOf[u] : u \in Users} \ {"none"}
Settled == {"idle", "done", "failed"}

Goes(u, from, to) == caller[u] = from /\ caller' = [caller EXCEPT ![u] = to]
Without(ids) == machine' = [i \in Ids |-> IF i \in ids THEN "none" ELSE machine[i]]
Free(d) == \A i \in Ids : machine[i] # "none" => mounted[i] # d
Attach(d, i) == IF d = "none" THEN UNCHANGED attachment ELSE attachment' = [attachment EXCEPT ![d] = i]

Init ==
    /\ machine = [i \in Ids |-> "none"] /\ mounted = [i \in Ids |-> "none"] /\ disk = {}
    /\ shared = "none" /\ logical = [n \in Mounts |-> "none"] /\ tracked = {} /\ trackedDisk = {}
    /\ attachment = [d \in Disks |-> "none"] /\ helper = [d \in Disks |-> "none"]
    /\ caller = [u \in Users |-> "idle"] /\ mine = [u \in Users |-> "none"]
    /\ result = [t \in Tasks |-> "none"] /\ closed = "open" /\ crashes = 0

---------------------------------------------------------------------------
(* CreateVolume, for the mount of a task or a sandbox *)

\* A known name is reused; a new one is a directory of the shared volume, extended when it asks for more.
CreateVolume(u) ==
    /\ u \notin Copies /\ closed = "open"
    /\ LET n == MountOf[u] IN
       \/ /\ n = "none" /\ Goes(u, "idle", "launch") /\ mine' = [mine EXCEPT ![u] = "none"]
          /\ UNCHANGED logical
       \/ /\ n # "none" /\ logical[n] # "none"
          /\ Goes(u, "idle", "detach") /\ mine' = [mine EXCEPT ![u] = logical[n]] /\ UNCHANGED logical
       \/ /\ n # "none" /\ logical[n] = "none" /\ shared # "none"
          /\ \/ /\ Goes(u, "idle", "detach") /\ logical' = [logical EXCEPT ![n] = shared]
                /\ mine' = [mine EXCEPT ![u] = shared]
             \/ Goes(u, "idle", "failed") /\ UNCHANGED <<logical, mine>>
       \/ n # "none" /\ logical[n] = "none" /\ shared = "none" /\ Goes(u, "idle", "newDisk") /\ UNCHANGED <<logical, mine>>
    /\ UNCHANGED <<machine, mounted, disk, shared, tracked, trackedDisk, attachment, helper, result, closed, crashes>>

\* createSharedVolume: the lock is not held between the look at sharedVolumeID and the request.
CreateSharedVolume(u) ==
    /\ \/ \E d \in Disks \ disk : /\ disk' = disk \cup {d} /\ mine' = [mine EXCEPT ![u] = d]
                                  /\ Goes(u, "newDisk", "record")
       \/ Goes(u, "newDisk", "failed") /\ UNCHANGED <<disk, mine>>
    /\ UNCHANGED <<machine, mounted, driverVars, result, closed, crashes>>

RecordSharedVolume(u) ==
    /\ Goes(u, "record", "detach")
    /\ trackedDisk' = trackedDisk \cup {mine[u]} /\ shared' = mine[u]
    /\ logical' = [logical EXCEPT ![MountOf[u]] = mine[u]]
    /\ UNCHANGED <<machine, mounted, disk, tracked, attachment, helper, mine, result, closed, crashes>>

---------------------------------------------------------------------------
(* RunContainer and StartSandbox *)

\* The machine remembered as holding the volume is destroyed, whatever it does.
Detach(u) ==
    /\ Goes(u, "detach", "launch")
    /\ \/ Without({attachment[mine[u]]})
       \/ UNCHANGED machine
    /\ UNCHANGED <<mounted, disk, driverVars, mine, result, closed, crashes>>

\* A task's machine is tracked and attached at once, a sandbox's is attached when it has started.
Launch(u) ==
    /\ machine[u] = "none" /\ (mine[u] = "none" \/ Free(mine[u]))
    /\ Goes(u, "launch", IF u \in Tasks THEN "wait" ELSE "start")
    /\ machine' = [machine EXCEPT ![u] = "up"] /\ mounted' = [mounted EXCEPT ![u] = mine[u]]
    /\ tracked' = tracked \cup {u}
    /\ IF u \in Tasks THEN Attach(mine[u], u) ELSE UNCHANGED attachment
    /\ UNCHANGED <<disk, shared, logical, trackedDisk, helper, mine, result, closed, crashes>>

\* A refused launch, which may have made the machine.  RunContainer looks for one of that name and takes it over
\* (recoverExistingMachine); the cleanup of the volume it then gives up does nothing.  A sandbox gives up.
LaunchFails(u) ==
    /\ \E made \in {FALSE, machine[u] = "none" /\ (mine[u] = "none" \/ Free(mine[u]))} :
          /\ machine' = [machine EXCEPT ![u] = IF made THEN "up" ELSE @]
          /\ mounted' = [mounted EXCEPT ![u] = IF made THEN mine[u] ELSE @]
    /\ \/ /\ u \in Tasks /\ machine'[u] # "none"
          /\ Goes(u, "launch", "wait") /\ tracked' = tracked \cup {u} /\ Attach(mine[u], u)
       \/ Goes(u, "launch", "failed") /\ UNCHANGED <<tracked, attachment>>
    /\ UNCHANGED <<disk, shared, logical, trackedDisk, helper, mine, result, closed, crashes>>

\* Wait for "started"; the machine of a sandbox that did not start stays.
SandboxStarts(u) ==
    /\ u \in Sandboxes
    /\ \/ machine[u] = "up" /\ Goes(u, "start", "exec") /\ Attach(mine[u], u)
       \/ Goes(u, "start", "failed") /\ UNCHANGED attachment
    /\ UNCHANGED <<machine, mounted, disk, shared, logical, tracked, trackedDisk, helper, mine, result, closed, crashes>>

\* Exec runs a command on the machine; the caller ends the session when it likes.
Exec(u) ==
    /\ u \in Sandboxes /\ caller[u] = "exec"
    /\ \E to \in {"exec", "cleanup"} : Goes(u, "exec", to)
    /\ UNCHANGED <<machine, mounted, disk, driverVars, mine, result, closed, crashes>>

\* External: the command of a task ends.
MachineStops(t) ==
    /\ t \in Tasks /\ machine[t] = "up" /\ machine' = [machine EXCEPT ![t] = "stopped"]
    /\ UNCHANGED <<mounted, disk, driverVars, caller, mine, result, closed, crashes>>

\* waitForStop: a stopped or vanished machine, or a Get that fails while it runs, ends the wait; the exit event is
\* asked for a bounded number of times, and a code that cannot be had is -1.
WaitForStop(t) ==
    /\ t \in Tasks /\ caller[t] = "wait" /\ result[t] = "none"
    /\ \E r \in {"lost"} \cup (IF machine[t] = "stopped" THEN {"exit"} ELSE {}) : result' = [result EXCEPT ![t] = r]
    /\ UNCHANGED <<machine, mounted, disk, driverVars, caller, mine, closed, crashes>>

\* The caller has seen done, or the run is stopped before that.
StopPolling(t) ==
    /\ t \in Tasks /\ Goes(t, "wait", "cleanup")
    /\ UNCHANGED <<machine, mounted, disk, driverVars, mine, result, closed, crashes>>

\* Container.Cleanup and FlySandbox.Cleanup: kill, wait, destroy; the driver goes on remembering the machine.
Cleanup(u) ==
    /\ u \notin Copies
    /\ \/ Goes(u, "cleanup", "done") /\ Without({u})
       \/ Goes(u, "cleanup", "failed") /\ UNCHANGED machine
    /\ UNCHANGED <<mounted, disk, driverVars, mine, result, closed, crashes>>

---------------------------------------------------------------------------
(* The cache helper of a volume, suspended between two uses *)

\* launchHelperMachine: the remembered helper of the volume is resumed, or else destroyed and forgotten.
ResumeHelper(c) ==
    /\ c \in Copies /\ closed = "open" /\ caller[c] = "idle" /\ logical[MountOf[c]] # "none"
    /\ LET d == logical[MountOf[c]]
           h == helper[d] IN
       /\ h # "none"
       /\ \/ /\ machine[h] \in {"up", "suspended"} /\ machine' = [machine EXCEPT ![h] = "up"]
             /\ Goes(c, "idle", "copy") /\ mine' = [mine EXCEPT ![c] = h] /\ UNCHANGED <<helper, attachment>>
          \/ /\ Without({h}) /\ Goes(c, "idle", "makeHelper") /\ mine' = [mine EXCEPT ![c] = d]
             /\ helper' = [helper EXCEPT ![d] = "none"] /\ attachment' = [attachment EXCEPT ![d] = "none"]
    /\ UNCHANGED <<mounted, disk, shared, logical, tracked, trackedDisk, result, closed, crashes>>

\* No helper, or no volume of that name.
WantHelper(c) ==
    /\ c \in Copies /\ closed = "open"
    /\ LET d == logical[MountOf[c]] IN
       \/ d = "none" /\ Goes(c, "idle", "failed") /\ UNCHANGED mine
       \/ d # "none" /\ helper[d] = "none" /\ Goes(c, "idle", "makeHelper") /\ mine' = [mine EXCEPT ![c] = d]
    /\ UNCHANGED <<machine, mounted, disk, driverVars, result, closed, crashes>>

\* The machine that holds the volume is destroyed, then the helper is launched.  A launch that fails may have made
\* a machine the driver never hears of; one that does not start is destroyed and still remembered.
LaunchHelper(c) ==
    /\ c \in Copies /\ caller[c] = "makeHelper"
    /\ LET d == mine[c]
           left == {i \in Ids : machine[i] # "none" /\ i # attachment[d]}
           With(h) == [i \in Ids |-> IF i = h THEN "up" ELSE IF i \in left THEN machine[i] ELSE "none"] IN
       \/ \E h \in HelperIds \ left :
             /\ \A i \in left : mounted[i] # d
             /\ mounted' = [mounted EXCEPT ![h] = d]
             /\ \/ /\ attachment' = [attachment EXCEPT ![d] = h] /\ helper' = [helper EXCEPT ![d] = h]
                   /\ \/ machine' = With(h) /\ Goes(c, "makeHelper", "copy") /\ mine' = [mine EXCEPT ![c] = h]
                      \/ machine' = With("none") /\ Goes(c, "makeHelper", "failed") /\ UNCHANGED mine
                \/ machine' = With(h) /\ Goes(c, "makeHelper", "failed") /\ UNCHANGED <<attachment, helper, mine>>
       \/ /\ \E gone \in {{}, {attachment[d]}} : Without(gone)
          /\ Goes(c, "makeHelper", "failed") /\ UNCHANGED <<mounted, attachment, helper, mine>>
    /\ UNCHANGED <<disk, shared, logical, tracked, trackedDisk, result, closed, crashes>>

\* Tunnel, SSH, tar; then destroyHelperMachine suspends the helper whoever else uses it, or, when that fails,
\* forgets and destroys it.
FinishCopy(c) ==
    /\ c \in Copies /\ Goes(c, "copy", "done")
    /\ LET h == mine[c]
           held == {d \in Disks : helper[d] = h} IN
       \/ /\ machine[h] \in {"up", "suspended"} /\ machine' = [machine EXCEPT ![h] = "suspended"]
          /\ UNCHANGED <<helper, attachment>>
       \/ /\ \E gone \in {{}, {h}} : Without(gone)
          /\ helper' = [d \in Disks |-> IF d \in held THEN "none" ELSE helper[d]]
          /\ attachment' = [d \in Disks |-> IF d \in held THEN "none" ELSE attachment[d]]
    /\ UNCHANGED <<mounted, disk, shared, logical, tracked, trackedDisk, mine, result, closed, crashes>>

---------------------------------------------------------------------------
\* The process dies; the run is resumed, or its namespace is closed, by an instance that remembers nothing.
CrashAndResume ==
    /\ crashes < MaxCrashes /\ closed = "open" /\ crashes' = crashes + 1
    /\ caller' = [u \in Users |-> IF caller[u] = "done" THEN "done" ELSE "idle"]
    /\ shared' = "none" /\ logical' = [n \in Mounts |-> "none"] /\ tracked' = {} /\ trackedDisk' = {}
    /\ attachment' = [d \in Disks |-> "none"] /\ helper' = [d \in Disks |-> "none"]
    /\ result' = [t \in Tasks |-> "none"]
    /\ UNCHANGED <<machine, mounted, disk, mine, closed>>

Swept_Helpers == {i \in HelperIds : machine[i] # "none"}

\* What sweepUntrackedMachines finds: every machine that carries the namespace, by metadata or by name.
Swept == {i \in Ids : machine[i] # "none"}

\* Close: helpers, tracked machines, then the sweep.  Each request may fail and is only logged.
CloseMachines ==
    /\ closed = "open" /\ \A u \in Users : caller[u] \in Settled
    /\ LET listed == tracked \cup {helper[d] : d \in Disks} \cup Swept IN
       \/ Without(listed) /\ closed' = "machines"
       \/ \E some \in SUBSET (listed \cap Ids) : Without(some) /\ closed' = "dirty"
    /\ UNCHANGED <<mounted, disk, driverVars, caller, mine, result, crashes>>

\* What sweepUntrackedVolumes finds: every volume with the one name the driver gives.
SweptVolumes == disk

\* Then the tracked volumes and the sweep for the rest; an attached volume is not deleted.
CloseVolumes ==
    /\ closed \in {"machines", "dirty"}
    /\ LET listed == {d \in trackedDisk \cup SweptVolumes : Free(d)} IN
       \/ disk' = disk \ listed /\ closed' = IF closed = "dirty" THEN "over" ELSE "clean"
       \/ \E some \in SUBSET listed : disk' = disk \ some /\ closed' = "over"
    /\ UNCHANGED <<machine, mounted, driverVars, caller, mine, result, crashes>>

Closed == closed \in {"clean", "over"} /\ UNCHANGED vars

Next ==
    \/ \E u \in Users :
        \/ CreateVolume(u) \/ CreateSharedVolume(u) \/ RecordSharedVolume(u) \/ Detach(u)
        \/ u \notin Copies /\ (Launch(u) \/ LaunchFails(u))
        \/ SandboxStarts(u) \/ Exec(u) \/ MachineStops(u) \/ WaitForStop(u) \/ StopPolling(u) \/ Cleanup(u)
        \/ WantHelper(u) \/ ResumeHelper(u) \/ LaunchHelper(u) \/ FinishCopy(u)
    \/ CrashAndResume \/ CloseMachines \/ CloseVolumes \/ Closed

Spec == Init /\ [][Next]_vars

---------------------------------------------------------------------------
\* The driver's maps hold volumes and machines (CreateVolume, trackMachine, launchHelperMachine).
TypeOK ==
    /\ machine \in [Ids -> {"none", "up", "stopped", "suspended"}] /\ mounted \in [Ids -> Disks \cup {"none"}]
    /\ disk \subseteq Disks /\ closed \in {"open", "machines", "dirty", "clean", "over"}
    /\ caller \in [Users -> {"idle", "newDisk", "record", "detach", "launch", "wait", "start", "exec", "cleanup",
                             "makeHelper", "copy", "done", "failed"}]
    /\ mine \in [Users -> Disks \cup HelperIds \cup {"none"}]
    /\ result \in [Tasks -> {"none", "exit", "lost"}] /\ crashes \in 0..MaxCrashes
    /\ logical \in [Mounts -> Disks \cup {"none"}] /\ shared \in Disks \cup {"none"}
    /\ attachment \in [Disks -> Ids \cup {"none"}] /\ helper \in [Disks -> HelperIds \cup {"none"}]
    /\ tracked \subseteq Ids /\ trackedDisk \subseteq Disks

\* A Close none of whose requests failed leaves no machine and no volume of the namespace: neither the ones of
\* failed and partial launches, nor the ones of a process that crashed, nor a second shared volume
\* (Close, sweepUntrackedMachines, sweepUntrackedVolumes).
CloseLeavesNothing == closed = "clean" => disk = {} /\ \A i \in Ids : machine[i] = "none"
=============================================================================
