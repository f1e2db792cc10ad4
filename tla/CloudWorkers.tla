--------------------------- MODULE CloudWorkers -----------------------------
(***************************************************************************)
(* The drivers that run a pipeline's containers on a rented machine         *)
(* (orchestra/hetzner, orchestra/digitalocean, orchestra/sshmachine).       *)
(*                                                                          *)
(* The first call that needs the machine rents one, at most MaxWorkers for  *)
(* a namespace, or takes one that an earlier instance parked; Close deletes *)
(* or parks it.  Instances of one namespace share the provider's list of    *)
(* machines, its SSH key and the key's file.  Calls of one instance are     *)
(* made in parallel by the tasks of a job.  The provider is external.       *)
(*                                                                          *)
(* An operator named X_Slip, defined just before X, is a mutant of X.       *)
(***************************************************************************)
EXTENDS Naturals, FiniteSets

CONSTANTS
    Instances,      \* driver instances of one namespace
    Callers,        \* tasks that call the drivers
    InstanceOf,     \* [Callers -> Instances]
    Machines,       \* bound: the machines ever rented
    MaxWorkers,
    Reuse,          \* reuse_worker
    IdleLabelRead,  \* FALSE for hetzner, whose idle selector names a label nobody sets
    MaxCalls        \* bound: calls of one task

VARIABLES
    machine,        \* [Machines -> [tags, key, by]]
    server,         \* [Instances -> machine or "none"]: the field Close works on
    docker,         \* instances connected to their machine's Docker
    sshKey,         \* [Instances -> key, 0 for none]
    remoteKey, keyFile, lastKey,    \* the namespace's key at the provider and on disk; keys made so far
    call,           \* [Callers -> where the call is]
    found,          \* [Callers -> idle machines listed and still to be tried]
    target,         \* [Callers -> the machine it is creating or claiming]
    calls,          \* [Callers -> calls made]
    closing         \* [Instances -> where Close is]

fields == <<server, docker, sshKey>>
keyring == <<remoteKey, keyFile, lastKey>>
requests == <<call, found, target, calls>>
vars == <<machine, fields, keyring, requests, closing>>

Absent == [tags |-> {}, key |-> 0, by |-> "none"]
Pool == {m \in Machines : "worker" \in machine[m].tags}
At(c, p) == call' = [call EXCEPT ![c] = p]
Goes(c, from, to) == call[c] = from /\ At(c, to)
Tag(m, on, off) == machine' = [machine EXCEPT ![m].tags = IF "worker" \in @ THEN (@ \ off) \cup on ELSE @]

Init ==
    /\ machine = [m \in Machines |-> Absent]
    /\ server = [i \in Instances |-> "none"] /\ docker = {} /\ sshKey = [i \in Instances |-> 0]
    /\ remoteKey = 0 /\ keyFile = 0 /\ lastKey = 0
    /\ call = [c \in Callers |-> "idle"] /\ found = [c \in Callers |-> {}]
    /\ target = [c \in Callers |-> "none"] /\ calls = [c \in Callers |-> 0]
    /\ closing = [i \in Instances |-> "open"]

---------------------------------------------------------------------------
\* RunContainer, CreateVolume and the copies of volumes all begin with ensureServer, which nothing serialises.
EnsureServer(c) ==
    /\ call[c] \in {"idle", "failed"} /\ calls[c] < MaxCalls /\ closing[InstanceOf[c]] = "open"
    /\ calls' = [calls EXCEPT ![c] = @ + 1]
    /\ At(c, IF server[InstanceOf[c]] # "none" /\ InstanceOf[c] \in docker THEN "delegate" ELSE "key")
    /\ UNCHANGED <<machine, fields, keyring, found, target, closing>>

\* The key of the namespace is kept when it is at the provider and on disk; otherwise a new one replaces both.
EnsureSSHKey(c) ==
    /\ \/ /\ Goes(c, "key", "slot")
          /\ IF remoteKey # 0 /\ keyFile # 0
             THEN /\ sshKey' = [sshKey EXCEPT ![InstanceOf[c]] = remoteKey]
                  /\ UNCHANGED keyring
             ELSE /\ lastKey' = lastKey + 1 /\ remoteKey' = lastKey' /\ keyFile' = lastKey'
                  /\ sshKey' = [sshKey EXCEPT ![InstanceOf[c]] = lastKey']
       \/ Goes(c, "key", "failed") /\ UNCHANGED <<sshKey, keyring>>
    /\ UNCHANGED <<machine, server, docker, found, target, calls, closing>>

\* waitForWorkerSlot: room in the pool, or the idle machines when it is full.
WaitForWorkerSlot(c) ==
    /\ call[c] = "slot"
    /\ IF Cardinality(Pool) < MaxWorkers
       THEN At(c, "create") /\ UNCHANGED found
       ELSE /\ Reuse /\ At(c, "claim")
            /\ found' = [found EXCEPT ![c] = IF IdleLabelRead THEN {m \in Pool : "idle" \in machine[m].tags} ELSE {}]
    /\ UNCHANGED <<machine, fields, keyring, target, calls, closing>>

\* The wait times out, or its context is cancelled.
GiveUpWaiting(c) ==
    /\ \/ Goes(c, "claim", "failed") /\ found[c] = {}
       \/ ~Reuse /\ Goes(c, "slot", "failed") /\ Cardinality(Pool) >= MaxWorkers
    /\ UNCHANGED <<machine, fields, keyring, found, target, calls, closing>>

PollAgain(c) ==
    /\ Goes(c, "claim", "slot") /\ found[c] = {}
    /\ UNCHANGED <<machine, fields, keyring, found, target, calls, closing>>

\* claimIdle: the idle tag is taken off and the busy tag put on, then the machine is read again.
ClaimIdle(c) ==
    /\ \E m \in found[c] :
          /\ found' = [found EXCEPT ![c] = @ \ {m}]
          /\ \/ Tag(m, {"busy"}, {"idle"}) /\ target' = [target EXCEPT ![c] = m] /\ Goes(c, "claim", "verify")
             \/ call[c] = "claim" /\ UNCHANGED <<machine, target, call>>
    /\ UNCHANGED <<fields, keyring, calls, closing>>

VerifyClaim(c) ==
    /\ call[c] = "verify"
    /\ LET tags == machine[target[c]].tags
       IN  IF "busy" \in tags /\ "idle" \notin tags
           THEN Goes(c, "verify", "connect") /\ server' = [server EXCEPT ![InstanceOf[c]] = target[c]]
           ELSE Goes(c, "verify", "claim") /\ UNCHANGED server
    /\ UNCHANGED <<machine, docker, sshKey, keyring, found, target, calls, closing>>

CreateMachine_KeptWhenReached(c) ==
    /\ \/ \E m \in Machines :
            /\ machine[m] = Absent
            /\ machine' = [machine EXCEPT ![m] = [tags |-> {"worker", "busy"}, key |-> sshKey[InstanceOf[c]],
                                                  by |-> InstanceOf[c]]]
            /\ target' = [target EXCEPT ![c] = m]
            /\ \/ server' = [server EXCEPT ![InstanceOf[c]] = m] /\ Goes(c, "create", "connect")
               \/ Goes(c, "create", "failed") /\ UNCHANGED server
       \/ Goes(c, "create", "failed") /\ UNCHANGED <<machine, server, target>>
    /\ UNCHANGED <<docker, sshKey, keyring, found, calls, closing>>

\* A new machine is kept in the field at once, so that Close deletes it whatever fails afterwards.
CreateMachine(c) ==
    /\ \/ \E m \in Machines :
            /\ machine[m] = Absent
            /\ machine' = [machine EXCEPT ![m] = [tags |-> {"worker", "busy"}, key |-> sshKey[InstanceOf[c]],
                                                  by |-> InstanceOf[c]]]
            /\ server' = [server EXCEPT ![InstanceOf[c]] = m]
            /\ target' = [target EXCEPT ![c] = m]
            /\ Goes(c, "create", "connect")
       \/ Goes(c, "create", "failed") /\ UNCHANGED <<machine, server, target>>
    /\ UNCHANGED <<docker, sshKey, keyring, found, calls, closing>>

\* waitForServer, waitForSSH with the key on disk, waitForDocker: any of them may time out.
Connect(c) ==
    /\ call[c] = "connect"
    /\ \/ /\ keyFile # 0 /\ keyFile = machine[target[c]].key /\ "worker" \in machine[target[c]].tags
          /\ docker' = docker \cup {InstanceOf[c]}
          /\ Goes(c, "connect", "delegate")
       \/ Goes(c, "connect", "failed") /\ UNCHANGED docker
    /\ UNCHANGED <<machine, server, sshKey, keyring, found, target, calls, closing>>

\* The call itself is the Docker driver's.
Delegate(c) ==
    /\ \E p \in {"idle", "failed"} : Goes(c, "delegate", p)
    /\ UNCHANGED <<machine, fields, keyring, found, target, calls, closing>>

---------------------------------------------------------------------------
\* Close of a driver that reuses machines parks it: each of the two updates may fail and is only logged.
Park(i) ==
    /\ closing[i] = "open" /\ Reuse /\ server[i] # "none"
    /\ \A c \in Callers : InstanceOf[c] = i => call[c] \in {"idle", "failed"}
    /\ \E on \in SUBSET {"idle"}, off \in SUBSET {"busy"} : Tag(server[i], on, off)
    /\ closing' = [closing EXCEPT ![i] = "parked"]
    /\ UNCHANGED <<fields, keyring, requests>>

\* Otherwise the machine is deleted; when that fails Close returns and leaves the key as well.
DeleteMachine(i) ==
    /\ closing[i] = "open" /\ ~(Reuse /\ server[i] # "none")
    /\ \A c \in Callers : InstanceOf[c] = i => call[c] \in {"idle", "failed"}
    /\ \/ /\ server[i] # "none" /\ machine' = [machine EXCEPT ![server[i]].tags = {}]
          /\ closing' = [closing EXCEPT ![i] = "deleted"]
       \/ server[i] = "none" /\ closing' = [closing EXCEPT ![i] = "deleted"] /\ UNCHANGED machine
       \/ server[i] # "none" /\ closing' = [closing EXCEPT ![i] = "broken"] /\ UNCHANGED machine
    /\ UNCHANGED <<fields, keyring, requests>>

\* The key is deleted at the provider by its identity, and afterwards on disk by its name.
DeleteKey(i) ==
    /\ closing[i] = "deleted" /\ closing' = [closing EXCEPT ![i] = "unkeyed"]
    /\ remoteKey' = IF sshKey[i] # 0 /\ remoteKey = sshKey[i] THEN 0 ELSE remoteKey
    /\ UNCHANGED <<machine, fields, keyFile, lastKey, requests>>

RemoveKeyFile(i) ==
    /\ closing[i] = "unkeyed" /\ closing' = [closing EXCEPT ![i] = "closed"]
    /\ keyFile' = IF sshKey[i] # 0 THEN 0 ELSE keyFile
    /\ UNCHANGED <<machine, fields, remoteKey, lastKey, requests>>

\* CleanupOrphanedResources removes the machines and the keys of every run.
CleanupOrphanedResources ==
    /\ \A i \in Instances : closing[i] # "open"
    /\ Pool # {} \/ remoteKey # 0
    /\ machine' = [m \in Machines |-> [machine[m] EXCEPT !.tags = {}]]
    /\ remoteKey' = 0
    /\ UNCHANGED <<fields, keyFile, lastKey, requests, closing>>

Rest == (\A i \in Instances : closing[i] \in {"parked", "broken", "closed"}) /\ UNCHANGED vars

Next ==
    \/ \E c \in Callers : \/ EnsureServer(c) \/ EnsureSSHKey(c) \/ WaitForWorkerSlot(c) \/ GiveUpWaiting(c)
                          \/ PollAgain(c) \/ ClaimIdle(c) \/ VerifyClaim(c) \/ CreateMachine(c) \/ Connect(c) \/ Delegate(c)
    \/ \E i \in Instances : Park(i) \/ DeleteMachine(i) \/ DeleteKey(i) \/ RemoveKeyFile(i)
    \/ CleanupOrphanedResources \/ Rest

Spec == Init /\ [][Next]_vars

---------------------------------------------------------------------------
\* Tags, fields and keys have their types: a key at the provider or on disk is one that ensureSSHKey made.
TypeOK ==
    /\ machine \in [Machines -> [tags : SUBSET {"worker", "busy", "idle"}, key : 0..lastKey,
                                 by : Instances \cup {"none"}]]
    /\ server \in [Instances -> Machines \cup {"none"}] /\ docker \subseteq Instances
    /\ sshKey \in [Instances -> 0..lastKey] /\ lastKey \in Nat
    /\ remoteKey \in 0..lastKey /\ keyFile \in 0..lastKey
    /\ call \in [Callers -> {"idle", "key", "slot", "create", "claim", "verify", "connect", "delegate", "failed"}]
    /\ found \in [Callers -> SUBSET Machines] /\ target \in [Callers -> Machines \cup {"none"}]
    /\ calls \in [Callers -> 0..MaxCalls]
    /\ closing \in [Instances -> {"open", "parked", "broken", "deleted", "unkeyed", "closed"}]

\* Every machine that is paid for is the one that the instance which rented it will delete or park, parked, or
\* left by a Close that reported its failure.  Nothing that fails between renting and connecting makes an instance
\* forget the machine; only another machine takes its place in the field, when a call was made before that the
\* machine could not be reached, or two tasks called at once (ensureServer, Close).
NoMachineIsForgotten ==
    \A m \in Pool :
        LET i == machine[m].by
        IN  (server[i] = m /\ closing[i] \in {"open", "broken", "parked"}) \/ server[i] \in Machines \ {m}

\* When every instance of a namespace has closed without an error no key of it is left at the provider
\* (ensureSSHKey, Close).
KeyIsRemoved ==
    (\A i \in Instances : closing[i] = "closed") => remoteKey = 0
=============================================================================
