--------------------------- MODULE ScriptRuntime ---------------------------
(***************************************************************************)
(* The event loop of a TypeScript pipeline (runtime/js.go, async.go,       *)
(* runtime.go and the namespaces around it).  The script runs on one       *)
(* thread; every call into the runtime starts a goroutine that posts a      *)
(* function to the tasks channel, which holds one; Wait runs the posted     *)
(* functions on the script's thread until the counter of promises is zero.  *)
(*                                                                          *)
(* A script is a set of calls; After says in which continuation a call is   *)
(* made: at the start, when another call's promise settles, or in the body  *)
(* of a stage's job.  What a call does (a container, a request, a message)  *)
(* is external and ends.                                                    *)
(*                                                                          *)
(* An operator named X_Slip, defined just before X, is a mutant of X.       *)
(***************************************************************************)
EXTENDS Naturals, Sequences, FiniteSets

CONSTANTS
    Calls,          \* the calls of the script
    KindOf,         \* [Calls -> "task" | "agent" | "stage" | "job" | "asyncNotify"]
    After,          \* [Calls -> Calls \cup {"start"}]; for a job, its stage
    Chunks,         \* [Calls -> Nat]: how many output callbacks a call makes
    Throws          \* whether the script may throw before it returns a promise

\* The jobs of a stage are no calls of their own; only containers and agents have output.
ASSUME ScriptAssumption ==
    /\ IsFiniteSet(Calls) /\ "start" \notin Calls
    /\ KindOf \in [Calls -> {"task", "agent", "stage", "job", "asyncNotify"}]
    /\ \A c \in Calls : KindOf[c] = "job" => After[c] \in Calls /\ KindOf[After[c]] = "stage"
    /\ Chunks \in [Calls -> Nat] /\ \A c \in Calls : Chunks[c] > 0 => KindOf[c] \in {"task", "agent"}

VARIABLES
    loop,           \* what the script's thread does: "script", "wait", "closed", "over"
    frame,          \* calls the running JavaScript has yet to make
    current,        \* the posted function being run, or Idle
    tasks,          \* the channel of posted functions
    promises,       \* the wait group
    goroutine,      \* per call: the goroutine behind its promise
    left,           \* output chunks not posted yet
    settled,        \* calls whose promise is resolved or rejected
    agentFunc,      \* the runner's single slot for the agent function
    calledWith,     \* per agent: whose callbacks it ran with
    volumesClean    \* CleanupVolumes ran

scriptVars == <<loop, frame, current, tasks, promises, goroutine, left, settled, agentFunc, calledWith, volumesClean>>

Capacity == 1                                   \* make(chan func() error, 1)
Idle == [do |-> "idle", call |-> "none"]
Post(f, c) == [do |-> f, call |-> c]
JobsOf(s) == {j \in Calls : KindOf[j] = "job" /\ After[j] = s}
Continuation(c) == {d \in Calls : After[d] = c /\ KindOf[d] # "job"}
Body(j) == {d \in Calls : After[d] = j}
Go(c, s) == goroutine' = [goroutine EXCEPT ![c] = s]

ScriptInit ==
    /\ loop = "script" /\ frame = Continuation("start") /\ current = Idle
    /\ tasks = <<>> /\ promises = 0 /\ settled = {}
    /\ goroutine = [c \in Calls |-> "none"]
    /\ left = Chunks
    /\ agentFunc = "none" /\ calledWith = [c \in Calls |-> "none"]
    /\ volumesClean = FALSE

Running == loop = "script" \/ current # Idle
Send(f, c) == Len(tasks) < Capacity /\ tasks' = Append(tasks, Post(f, c))

---------------------------------------------------------------------------
(* The script's thread. *)

\* Arguments that do not parse reject the promise on the spot, without a goroutine.
RejectImmediate(c) ==
    /\ Running /\ c \in frame /\ KindOf[c] # "asyncNotify"
    /\ frame' = (frame \ {c}) \cup Continuation(c)
    /\ settled' = settled \cup {c} /\ Go(c, "rejected")
    /\ UNCHANGED <<loop, current, tasks, promises, left, agentFunc, calledWith, volumesClean>>

\* asyncTask, Fetch, a synchronous Send, triggerPipeline: count the promise, start the work.
AsyncTask(c) ==
    /\ Running /\ c \in frame /\ KindOf[c] # "asyncNotify"
    /\ promises' = promises + 1
    /\ Go(c, "working")
    /\ frame' = frame \ {c}
    /\ UNCHANGED <<loop, current, tasks, left, settled, agentFunc, calledWith, volumesClean>>

\* notify.send with async posts its own resolution from the script's thread: it waits when the channel is full.
AsyncNotify(c) ==
    /\ Running /\ c \in frame /\ KindOf[c] = "asyncNotify"
    /\ promises' = promises + 1
    /\ Send("settle", c)
    /\ Go(c, "posted")
    /\ frame' = frame \ {c}
    /\ UNCHANGED <<loop, current, left, settled, agentFunc, calledWith, volumesClean>>

\* The pipeline function returned its promise: Wait begins.
BeginWait ==
    /\ loop = "script" /\ frame = {}
    /\ loop' = "wait"
    /\ UNCHANGED <<frame, current, tasks, promises, goroutine, left, settled, agentFunc, calledWith, volumesClean>>

\* The script does not compile, its function threw or it returned no promise: nobody drains the channel or removes the volumes.
ScriptThrows ==
    /\ Throws /\ loop = "script"
    /\ loop' = "over" /\ frame' = {}
    /\ UNCHANGED <<current, tasks, promises, goroutine, left, settled, agentFunc, calledWith, volumesClean>>

\* Wait takes the next posted function; resolving a promise runs its continuation before it returns.
TakeTask ==
    /\ loop \in {"wait", "closed"} /\ current = Idle /\ tasks # <<>>
    /\ LET t == Head(tasks)
       IN  /\ current' = t /\ tasks' = Tail(tasks)
           /\ frame' = CASE t.do = "settle" -> Continuation(t.call)
                         [] t.do = "job"    -> Body(t.call)
                         [] OTHER           -> {}
           /\ settled' = IF t.do = "settle" THEN settled \cup {t.call} ELSE settled
    /\ UNCHANGED <<loop, promises, goroutine, left, agentFunc, calledWith, volumesClean>>

\* The posted function returns and its deferred Done runs; a job whose promise is pending is polled again later.
TaskReturns ==
    /\ current # Idle /\ frame = {}
    /\ LET c == current.call
           pending == current.do \in {"job", "poll"} /\ ~(Body(c) \subseteq settled)
       IN  /\ promises' = IF current.do = "output" THEN promises
                          ELSE promises + (IF pending THEN 1 ELSE 0) - 1
           /\ goroutine' = CASE current.do = "output" -> goroutine
                             [] current.do = "settle" -> [goroutine EXCEPT ![c] = "ended"]
                             [] pending               -> [goroutine EXCEPT ![c] = "sleeping"]
                             [] OTHER                 -> [goroutine EXCEPT ![c] = "ended"]
           /\ settled' = IF current.do \in {"job", "poll"} /\ ~pending THEN settled \cup {c} ELSE settled
    /\ current' = Idle
    /\ UNCHANGED <<loop, frame, tasks, left, agentFunc, calledWith, volumesClean>>

CloseTasks_WhenIdle ==
    /\ loop = "wait" /\ current = Idle /\ tasks = <<>>
    /\ loop' = "closed"
    /\ UNCHANGED <<frame, current, tasks, promises, goroutine, left, settled, agentFunc, calledWith, volumesClean>>

\* The goroutine of Wait closes the channel once the counter is zero.
CloseTasks ==
    /\ loop = "wait" /\ promises = 0
    /\ loop' = "closed"
    /\ UNCHANGED <<frame, current, tasks, promises, goroutine, left, settled, agentFunc, calledWith, volumesClean>>

\* The range over a closed channel ends; the error of a posted function is returned before
\* the volumes are cleaned up.
FinishScript ==
    /\ loop = "closed" /\ current = Idle /\ tasks = <<>>
    /\ loop' = "over" /\ volumesClean' \in BOOLEAN
    /\ UNCHANGED <<frame, current, tasks, promises, goroutine, left, settled, agentFunc, calledWith>>

---------------------------------------------------------------------------
(* The goroutines. *)

\* A chunk of output is posted to the script's onOutput callback; an agent's to the callbacks it was called with.
PostOutput(c) ==
    /\ (goroutine[c] = "working" /\ KindOf[c] = "task") \/ goroutine[c] = "talking"
    /\ left[c] > 0
    /\ Send("output", c)
    /\ left' = [left EXCEPT ![c] = @ - 1]
    /\ UNCHANGED <<loop, frame, current, promises, goroutine, settled, agentFunc, calledWith, volumesClean>>

\* An agent call stores its function on the runner, then calls whatever is stored there.
InstallAgentFunc(c) ==
    /\ goroutine[c] = "working" /\ KindOf[c] = "agent"
    /\ agentFunc' = c
    /\ Go(c, "installed")
    /\ UNCHANGED <<loop, frame, current, tasks, promises, left, settled, calledWith, volumesClean>>

CallAgent(c) ==
    /\ goroutine[c] = "installed"
    /\ calledWith' = [calledWith EXCEPT ![c] = agentFunc]
    /\ Go(c, "talking")
    /\ UNCHANGED <<loop, frame, current, tasks, promises, left, settled, agentFunc, volumesClean>>

\* A stage starts its jobs; each counts a promise and posts its body.
RunStageJobs(s) ==
    /\ goroutine[s] = "working" /\ KindOf[s] = "stage"
    /\ goroutine' = [c \in Calls |-> IF c = s THEN "collecting"
                                     ELSE IF c \in JobsOf(s) THEN "starting" ELSE goroutine[c]]
    /\ UNCHANGED <<loop, frame, current, tasks, promises, left, settled, agentFunc, calledWith, volumesClean>>

PostJob(j) ==
    /\ goroutine[j] = "starting"
    /\ promises' = promises + 1
    /\ Go(j, "jobPosting")
    /\ UNCHANGED <<loop, frame, current, tasks, left, settled, agentFunc, calledWith, volumesClean>>

\* waitForPromise re-posts its check after a short sleep.
PostCheck(j) ==
    /\ goroutine[j] \in {"jobPosting", "sleeping"}
    /\ Send(IF goroutine[j] = "sleeping" THEN "poll" ELSE "job", j)
    /\ Go(j, "posted")
    /\ UNCHANGED <<loop, frame, current, promises, left, settled, agentFunc, calledWith, volumesClean>>

PostResult_OutputPending(c) ==
    /\ \/ goroutine[c] = "working" /\ KindOf[c] = "task"
       \/ goroutine[c] = "talking"
       \/ goroutine[c] = "collecting" /\ \A j \in JobsOf(c) : goroutine[j] = "ended"
    /\ Send("settle", c)
    /\ Go(c, "posted")
    /\ UNCHANGED <<loop, frame, current, promises, left, settled, agentFunc, calledWith, volumesClean>>

\* The work is over: its outcome is posted to the script's thread.
PostResult(c) ==
    /\ \/ goroutine[c] = "working" /\ KindOf[c] = "task" /\ left[c] = 0
       \/ goroutine[c] = "talking" /\ left[c] = 0
       \/ goroutine[c] = "collecting" /\ \A j \in JobsOf(c) : goroutine[j] = "ended"
    /\ Send("settle", c)
    /\ Go(c, "posted")
    /\ UNCHANGED <<loop, frame, current, promises, left, settled, agentFunc, calledWith, volumesClean>>

---------------------------------------------------------------------------
Over == loop = "over" /\ UNCHANGED scriptVars

Step ==
    \/ BeginWait \/ ScriptThrows \/ TakeTask \/ TaskReturns \/ CloseTasks \/ FinishScript
    \/ \E c \in Calls : \/ RejectImmediate(c) \/ AsyncTask(c) \/ AsyncNotify(c)
                        \/ PostOutput(c) \/ InstallAgentFunc(c) \/ CallAgent(c)
                        \/ RunStageJobs(c) \/ PostJob(c) \/ PostCheck(c) \/ PostResult(c)
ScriptNext == Step \/ Over

ScriptSpec == ScriptInit /\ [][ScriptNext]_scriptVars

\* The script's thread and every goroutine are scheduled, and what a call does comes to an end. A channel serves
\* the goroutines blocked on it in turn, so a result is not kept out for ever by the checks of waiting jobs.
Thread ==
    \/ BeginWait \/ TakeTask \/ TaskReturns \/ CloseTasks \/ FinishScript
    \/ \E c \in Calls : RejectImmediate(c) \/ AsyncTask(c) \/ AsyncNotify(c)
Goroutines == \E c \in Calls : InstallAgentFunc(c) \/ CallAgent(c) \/ RunStageJobs(c) \/ PostJob(c)
Checks == \E c \in Calls : PostCheck(c)
Results == \E c \in Calls : PostOutput(c) \/ PostResult(c)
ScriptFairSpec == ScriptSpec /\ WF_scriptVars(Thread) /\ WF_scriptVars(Goroutines) /\ WF_scriptVars(Checks) /\ SF_scriptVars(Results)

---------------------------------------------------------------------------
(* Properties. *)

Posts == [do : {"settle", "output", "job", "poll"}, call : Calls]

\* Type correctness of the event loop's state.
ScriptTypeOK ==
    /\ loop \in {"script", "wait", "closed", "over"}
    /\ frame \subseteq Calls /\ settled \subseteq Calls
    /\ current \in Posts \cup {Idle} /\ tasks \in Seq(Posts) /\ Len(tasks) <= Capacity /\ promises \in Nat
    /\ goroutine \in [Calls -> {"none", "rejected", "working", "installed", "talking", "collecting", "starting",
                               "jobPosting", "sleeping", "posted", "ended"}]
    /\ left \in [Calls -> Nat] /\ agentFunc \in Calls \cup {"none"}
    /\ calledWith \in [Calls -> Calls \cup {"none"}] /\ volumesClean \in BOOLEAN

\* Once Wait has closed the channel no goroutine is left that would post to it, which would panic the process:
\* the counter stays above zero through stages, jobs that are polled and continuations that make new calls
\* (runtime.go Wait, pipeline_ns.go waitForPromise).
NoSendAfterClose ==
    loop = "closed" => \A c \in Calls : goroutine[c] \in {"none", "ended", "rejected"}

\* A promise settles after every chunk of its output was posted to the script's callback, and a stage or a job
\* after everything it started (async.go, pipeline_ns.go).
ResultComesLast ==
    \A c \in settled : goroutine[c] = "ended" =>
        /\ left[c] = 0
        /\ KindOf[c] = "stage" => JobsOf(c) \subseteq settled
        /\ KindOf[c] = "job" => Body(c) \subseteq settled
=============================================================================
