---------------------------- MODULE NativeDriver ----------------------------
(***************************************************************************)
(* The native driver (orchestra/native): a "container" is a process of the  *)
(* host.  Two goroutines copy its output to log buffers and, without ever   *)
(* blocking, to a bounded live channel; a third waits for both, then for    *)
(* the process, closes the live channel and leaves the outcome in a channel *)
(* of capacity one, which Status takes out and puts back.                   *)
(*                                                                          *)
(* An operator named X_Slip, defined just before X, is a mutant of X.       *)
(***************************************************************************)
EXTENDS Naturals, Sequences

CONSTANTS
    Streams,        \* "stdout", "stderr"
    MaxChunks,      \* bound: what the process writes to each stream
    LiveCapacity,   \* capacity of liveCh, 128 in the code
    Pollers,        \* callers of Status
    Entries         \* archive members of a volume copy

VARIABLES
    process,        \* "starting", "refused", "running", "exited", "killed", "reaped", "reapedKilled"
    written, piped, \* [Streams -> Nat]: chunks the process wrote; chunks in the pipe
    logged,         \* [Streams -> Nat]: chunks in the log buffer
    liveCh, liveClosed,     \* the live channel
    follower,       \* "following", "returned": Logs(follow = true)
    errChan,        \* what is in the outcome channel
    poller,         \* [Pollers -> "idle", "holds", "done", "cancelled"]
    cancelled,      \* the context of RunContainer
    dir,            \* the driver's directory: "there", "removed"
    volume          \* entries extracted into the volume

pipes == <<written, piped, logged>>
live == <<liveCh, liveClosed, follower>>
vars == <<process, pipes, live, errChan, poller, cancelled, dir, volume>>

Zero == [s \in Streams |-> 0]
Init ==
    /\ process = "starting" /\ written = Zero /\ piped = Zero /\ logged = Zero
    /\ liveCh = <<>> /\ liveClosed = FALSE /\ follower = "following"
    /\ errChan = <<>> /\ poller = [p \in Pollers |-> "idle"]
    /\ cancelled = FALSE /\ dir = "there" /\ volume = {}

\* A directory of its own, links to the volumes, the pipes, the process; any of them may fail and returns an error.
RunContainer ==
    /\ process = "starting" /\ dir = "there"
    /\ process' \in {"running", "refused"}
    /\ UNCHANGED <<pipes, live, errChan, poller, cancelled, dir, volume>>

\* External: the process writes, and ends by itself or by a signal (a cancelled context kills it).
Writes(s) ==
    /\ process = "running" /\ written[s] < MaxChunks
    /\ written' = [written EXCEPT ![s] = @ + 1] /\ piped' = [piped EXCEPT ![s] = @ + 1]
    /\ UNCHANGED <<process, logged, live, errChan, poller, cancelled, dir, volume>>
Ends ==
    /\ process = "running" /\ process' \in {"exited", "killed"}
    /\ UNCHANGED <<pipes, live, errChan, poller, cancelled, dir, volume>>

TeeStream_OffByOne(s) ==
    /\ piped[s] > 0 /\ process \notin {"reaped", "reapedKilled"}
    /\ piped' = [piped EXCEPT ![s] = @ - 1] /\ logged' = [logged EXCEPT ![s] = @ + 1]
    /\ liveCh' = IF Len(liveCh) <= LiveCapacity THEN Append(liveCh, s) ELSE liveCh
    /\ UNCHANGED <<process, written, liveClosed, follower, errChan, poller, cancelled, dir, volume>>

\* teeStream: a chunk goes to the buffer, and to the live channel if there is room.
TeeStream(s) ==
    /\ piped[s] > 0 /\ process \notin {"reaped", "reapedKilled"}
    /\ piped' = [piped EXCEPT ![s] = @ - 1] /\ logged' = [logged EXCEPT ![s] = @ + 1]
    /\ liveCh' = IF Len(liveCh) < LiveCapacity THEN Append(liveCh, s) ELSE liveCh
    /\ UNCHANGED <<process, written, liveClosed, follower, errChan, poller, cancelled, dir, volume>>

WaitAndReport_WithoutStreams ==
    /\ process \in {"exited", "killed"}
    /\ process' = IF process = "killed" THEN "reapedKilled" ELSE "reaped"
    /\ piped' = Zero /\ liveClosed' = TRUE
    /\ errChan' = <<"nil">>
    /\ UNCHANGED <<written, logged, liveCh, follower, poller, cancelled, dir, volume>>

\* streamWg.Wait, command.Wait, close(liveCh), then the outcome.  Wait closes the read ends of the pipes.
WaitAndReport ==
    /\ process \in {"exited", "killed"} /\ piped = Zero
    /\ process' = IF process = "killed" THEN "reapedKilled" ELSE "reaped"
    /\ piped' = Zero /\ liveClosed' = TRUE
    /\ errChan' = <<"nil">>
    /\ UNCHANGED <<written, logged, liveCh, follower, poller, cancelled, dir, volume>>

\* Logs(follow): chunks in the order of the channel until it is closed and empty; a cancelled follower drains it.
Follow ==
    /\ follower = "following"
    /\ \/ Len(liveCh) > 0 /\ liveCh' = Tail(liveCh) /\ UNCHANGED follower
       \/ liveClosed /\ liveCh = <<>> /\ follower' = "returned" /\ UNCHANGED liveCh
       \/ cancelled /\ follower' = "returned" /\ liveCh' = <<>>
    /\ UNCHANGED <<process, pipes, liveClosed, errChan, poller, cancelled, dir, volume>>

\* Status takes the outcome if there is one, reads the state of the process and puts it back on return.
\* ProcessState.Exited is false for a process that a signal ended.
StatusTakes(p) ==
    /\ poller[p] = "idle" /\ errChan # <<>>
    /\ errChan' = <<>>
    /\ poller' = [poller EXCEPT ![p] = "holds"]
    /\ UNCHANGED <<process, pipes, live, cancelled, dir, volume>>
StatusReturns(p) ==
    /\ poller[p] = "holds"
    /\ errChan' = <<"nil">>
    /\ poller' = [poller EXCEPT ![p] = IF process = "reaped" THEN "done" ELSE "idle"]
    /\ UNCHANGED <<process, pipes, live, cancelled, dir, volume>>
StatusCancelled(p) ==
    /\ poller[p] = "idle" /\ cancelled
    /\ poller' = [poller EXCEPT ![p] = "cancelled"]
    /\ UNCHANGED <<process, pipes, live, errChan, cancelled, dir, volume>>

\* CopyToVolume extracts entry after entry; a bad entry stops it with the earlier ones in place.
CopyToVolume ==
    /\ dir = "there" /\ \E kept \in SUBSET Entries : volume' = volume \cup kept
    /\ UNCHANGED <<process, pipes, live, errChan, poller, cancelled, dir>>

\* The stop of the run kills the process through its context.
StopRun ==
    /\ ~cancelled /\ process \in {"starting", "running"} /\ cancelled' = TRUE
    /\ process' = IF process = "running" THEN "killed" ELSE process
    /\ UNCHANGED <<pipes, live, errChan, poller, dir, volume>>

\* Close removes the directory with everything in it.
Close ==
    /\ dir = "there" /\ \A p \in Pollers : poller[p] \in {"done", "cancelled"} \/ process = "refused"
    /\ dir' = "removed" /\ volume' = {}
    /\ UNCHANGED <<process, pipes, live, errChan, poller, cancelled>>

Over == dir = "removed" /\ UNCHANGED vars
Status(p) == StatusTakes(p) \/ StatusReturns(p) \/ StatusCancelled(p)
Next ==
    \/ RunContainer \/ (\E s \in Streams : Writes(s) \/ TeeStream(s)) \/ Ends \/ WaitAndReport \/ Follow
    \/ (\E p \in Pollers : Status(p)) \/ CopyToVolume \/ StopRun \/ Close \/ Over

Spec == Init /\ [][Next]_vars

---------------------------------------------------------------------------
\* The live channel keeps to its capacity, the outcome channel to one (RunContainer).
TypeOK ==
    /\ process \in {"starting", "refused", "running", "exited", "killed", "reaped", "reapedKilled"}
    /\ written \in [Streams -> 0..MaxChunks] /\ piped \in [Streams -> 0..MaxChunks]
    /\ logged \in [Streams -> 0..MaxChunks] /\ poller \in [Pollers -> {"idle", "holds", "done", "cancelled"}]
    /\ liveCh \in Seq(Streams) /\ Len(liveCh) <= LiveCapacity /\ errChan \in {<<>>, <<"nil">>}
    /\ liveClosed \in BOOLEAN /\ follower \in {"following", "returned"}
    /\ cancelled \in BOOLEAN /\ dir \in {"there", "removed"} /\ volume \subseteq Entries

\* The process is never stalled by its reader, no chunk is lost from the buffers: a caller that is told the
\* process is done finds the complete output there
\* (RunContainer's goroutines, Status, Logs).
DoneHasAllOutput == (\E p \in Pollers : poller[p] = "done") => logged = written

\* The outcome is there for every later call: it is in the channel, or one call of Status holds it
\* (Status puts back what it took).
OutcomeIsKept ==
    process \in {"reaped", "reapedKilled"} =>
        LET holders == {p \in Pollers : poller[p] = "holds"}
        IN  IF errChan = <<>> THEN \E p \in Pollers : holders = {p} ELSE holders = {}
=============================================================================
