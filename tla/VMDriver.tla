------------------------------ MODULE VMDriver ------------------------------
(***************************************************************************)
(* The virtual machine drivers, orchestra/qemu and orchestra/vz: every task *)
(* and sandbox of a namespace is a command in one guest, booted on first    *)
(* use and reached through an agent over one shared connection.             *)
(*                                                                          *)
(* The guest and its agent are external: a reply may be lost after the      *)
(* request was carried out, the agent may refuse, and it may be out of      *)
(* reach when the client reconnects.                                        *)
(***************************************************************************)
EXTENDS Naturals

CONSTANTS
    Calls,          \* RunContainer and Sandbox.Exec calls
    Vz,             \* TRUE: orchestra/vz, FALSE: orchestra/qemu
    MaxFaults       \* bound: requests that go wrong

VARIABLES
    boot,           \* bootOnce: "no", "dir", "disk", "vm", "agent", "mount", "ok", "failed"
    booter,         \* the call that runs bootVM
    vm,             \* "off", "on": the machine itself
    tempDir,        \* "none", "made", "forgotten" (removed by a failed boot)
    conn,           \* the client's connection: "none", "open", "nil"
    started,        \* [Calls -> Nat]: how often the guest started the command
    proc,           \* [Calls -> "none", "runs", "exited"]: the process whose pid the driver has
    call,           \* [Calls -> "idle", "boot", "exec", "poll", "done", "failed"]
    faults, closed, panic

vars == <<boot, booter, vm, tempDir, conn, started, proc, call, faults, closed, panic>>

Goes(c, from, to) == call[c] = from /\ call' = [call EXCEPT ![c] = to]
Settled == \A c \in Calls : call[c] \in {"idle", "done", "failed"}

Init ==
    /\ boot = "no" /\ booter = "none" /\ vm = "off" /\ tempDir = "none" /\ conn = "none"
    /\ started = [c \in Calls |-> 0] /\ proc = [c \in Calls |-> "none"] /\ call = [c \in Calls |-> "idle"]
    /\ faults = 0 /\ closed = FALSE /\ panic = FALSE

---------------------------------------------------------------------------
(* ensureVM *)

\* The first caller boots, the others wait for it.
EnsureVM(c) ==
    /\ ~closed /\ Goes(c, "idle", "boot")
    /\ booter' = IF boot = "no" /\ booter = "none" THEN c ELSE booter
    /\ UNCHANGED <<boot, vm, tempDir, conn, started, proc, faults, closed, panic>>

MakeTempDir ==
    /\ boot = "no" /\ booter # "none" /\ boot' = "dir" /\ tempDir' = "made"
    /\ UNCHANGED <<booter, vm, conn, started, proc, call, faults, closed, panic>>

\* The base image is downloaded and converted unless it is cached, and copied or overlaid for this machine.
PrepareDisk ==
    /\ boot = "dir" /\ boot' = "disk"
    /\ UNCHANGED <<booter, vm, tempDir, conn, started, proc, call, faults, closed, panic>>

\* The seed and the machine's devices, then the machine is started.
StartVM ==
    /\ boot = "disk" /\ boot' = "vm" /\ vm' = "on"
    /\ UNCHANGED <<booter, tempDir, conn, started, proc, call, faults, closed, panic>>

\* connectQMP, or the wait for the running state
ReachMonitor ==
    /\ boot = "vm" /\ boot' = "agent"
    /\ UNCHANGED <<booter, vm, tempDir, conn, started, proc, call, faults, closed, panic>>

\* connectQGA and connectAgent: retried until a whole exec cycle works.
ReachAgent ==
    /\ boot = "agent" /\ boot' = "mount" /\ conn' = "open"
    /\ UNCHANGED <<booter, vm, tempDir, started, proc, call, faults, closed, panic>>

\* An error, a timeout or the booting caller's own cancellation ends the boot for good; vz removes its files.
BootFails ==
    /\ boot \in {"dir", "disk", "vm", "agent"} \/ (boot = "no" /\ booter # "none")
    /\ boot' = "failed"
    /\ tempDir' = IF Vz /\ tempDir = "made" THEN "forgotten" ELSE tempDir
    /\ UNCHANGED <<booter, vm, conn, started, proc, call, faults, closed, panic>>

Booted(c) ==
    /\ \/ boot = "ok" /\ Goes(c, "boot", "exec")
       \/ boot = "failed" /\ Goes(c, "boot", "failed")
    /\ UNCHANGED <<boot, booter, vm, tempDir, conn, started, proc, faults, closed, panic>>

---------------------------------------------------------------------------
(* run: one request, and on any error one reconnect and one more request, under the client's lock. *)

\* What a request comes to: how often the agent carried it out, the connection afterwards, the answer.
Answers ==
    {[times |-> 1, conn |-> "open", ok |-> TRUE, fault |-> 0]}
      \cup (IF faults = MaxFaults THEN {} ELSE
        [times : 0..1, conn : {"nil"}, ok : {FALSE}, fault : {1}]            \* the reconnect fails
          \cup [times : 1..2, conn : {"open"}, ok : {TRUE}, fault : {1}]     \* the second request is answered
          \cup [times : 0..2, conn : {"open"}, ok : {FALSE}, fault : {1}])   \* it fails too

Request(answer) ==
    /\ conn = "open" /\ answer \in Answers
    /\ conn' = answer.conn /\ faults' = faults + answer.fault
    /\ UNCHANGED panic

\* The last step of the boot is a command in the guest; when it fails the boot has succeeded all the same.
MountVolumes ==
    /\ boot = "mount" /\ boot' = "ok"
    /\ \E answer \in Answers : Request(answer)
    /\ UNCHANGED <<booter, vm, tempDir, started, proc, call, closed>>

\* runOnce on the connection a failed reconnect left behind.
NilConnection(c) ==
    /\ conn = "nil" /\ call[c] \in {"exec", "poll"} /\ ~panic
    /\ panic' = TRUE
    /\ UNCHANGED <<boot, booter, vm, tempDir, conn, started, proc, call, faults, closed>>

\* RunContainer mounts its volumes and starts the command; a call of Sandbox.Exec starts it at once.
Exec(c) ==
    /\ ~panic /\ call[c] = "exec"
    /\ \E answer \in Answers :
        /\ Request(answer)
        /\ started' = [started EXCEPT ![c] = @ + answer.times]
        /\ proc' = [proc EXCEPT ![c] = IF answer.ok THEN "runs" ELSE @]
        /\ Goes(c, "exec", IF answer.ok THEN "poll" ELSE "failed")
    /\ UNCHANGED <<boot, booter, vm, tempDir, closed>>

\* External: the command ends.
ProcessEnds(c) ==
    /\ proc[c] = "runs" /\ vm = "on" /\ proc' = [proc EXCEPT ![c] = "exited"]
    /\ UNCHANGED <<boot, booter, vm, tempDir, conn, started, call, faults, closed, panic>>

\* pollStatus, and the loop of Sandbox.Exec: an exit is cached with its output, an error ends the call.
Status(c) ==
    /\ ~panic /\ call[c] = "poll"
    /\ \E answer \in Answers :
        /\ Request(answer)
        /\ Goes(c, "poll", IF ~answer.ok THEN "failed" ELSE IF proc[c] = "exited" THEN "done" ELSE "poll")
    /\ UNCHANGED <<boot, booter, vm, tempDir, started, proc, closed>>

\* A stopped run gives up; Cleanup does nothing and the command runs on.
GiveUp(c) ==
    /\ Goes(c, "poll", "failed")
    /\ UNCHANGED <<boot, booter, vm, tempDir, conn, started, proc, faults, closed, panic>>

---------------------------------------------------------------------------
\* Close: quit through the monitor or a forced kill, which ends every command, then the files are removed.
Close ==
    /\ ~closed /\ Settled /\ ~panic /\ boot \in {"no", "ok", "failed"} /\ closed' = TRUE
    /\ vm' = "off" /\ proc' = [c \in Calls |-> IF proc[c] = "runs" THEN "none" ELSE proc[c]]
    /\ tempDir' = IF tempDir = "made" THEN "none" ELSE tempDir
    /\ UNCHANGED <<boot, booter, conn, started, call, faults, panic>>

Over == (closed \/ panic) /\ UNCHANGED vars

Next ==
    \/ \E c \in Calls : \/ EnsureVM(c) \/ Booted(c) \/ Exec(c) \/ ProcessEnds(c) \/ Status(c) \/ GiveUp(c)
                        \/ NilConnection(c)
    \/ MakeTempDir \/ PrepareDisk \/ StartVM \/ ReachMonitor \/ ReachAgent \/ MountVolumes \/ BootFails \/ Close \/ Over

Spec == Init /\ [][Next]_vars

---------------------------------------------------------------------------
\* Stages of the boot, states of the connection, and a bounded number of faults.
TypeOK ==
    /\ boot \in {"no", "dir", "disk", "vm", "agent", "mount", "ok", "failed"} /\ conn \in {"none", "open", "nil"}
    /\ booter \in Calls \cup {"none"} /\ vm \in {"off", "on"} /\ tempDir \in {"none", "made", "forgotten"}
    /\ started \in [Calls -> Nat] /\ proc \in [Calls -> {"none", "runs", "exited"}]
    /\ call \in [Calls -> {"idle", "boot", "exec", "poll", "done", "failed"}]
    /\ faults \in 0..MaxFaults /\ closed \in BOOLEAN /\ panic \in BOOLEAN

\* After Close the machine is off, its files are gone and nothing runs in it, however far the boot came
\* (ensureVM, Close).
CloseEndsTheMachine == closed => vm = "off" /\ tempDir # "made" /\ \A c \in Calls : proc[c] # "runs"

\* A result is reported only for a command that the guest ran, and only after it ended; as long as every request
\* is answered, no command is started twice (Exec and run of the agents' clients).
ResultIsOfOneRun ==
    \A c \in Calls : /\ call[c] = "done" => proc[c] = "exited" /\ started[c] >= 1
                     /\ faults = 0 => started[c] <= 1
=============================================================================
