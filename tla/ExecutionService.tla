-------------------------- MODULE ExecutionService --------------------------
(***************************************************************************)
(* The execution service of the PocketCI server: admission of triggers,    *)
(* the concurrency rules, the queue processor, the execution goroutines,   *)
(* stop, resume, the synchronous run, recovery after a restart, shutdown,  *)
(* and the rows of pipeline_runs they all write.                           *)
(*                                                                         *)
(* One step is one SQL statement, one access to the stop registry or one   *)
(* access to the atomic in-flight counter; everything a goroutine decides  *)
(* from what it read lives in its own variables, so that a value can go    *)
(* stale between the step that read it and the step that uses it.          *)
(*                                                                         *)
(* An operator named X_Slip, defined just before X, is a mutant of X: a    *)
(* plausible slip in the code that one of the properties detects.          *)
(***************************************************************************)
EXTENDS Integers, FiniteSets

CONSTANTS
  Pipelines,        \* stored pipelines
  Mode,             \* concurrency_mode of each pipeline
  CancelRunning,    \* pipelines with concurrency_cancel_running
  ResumeEnabled,    \* pipelines that recovery resumes instead of failing
  Template,         \* group keys the template of a "group" pipeline can render
  KeepBuilds,       \* build_log_retention of each pipeline, 0 for none
  MaxInFlight,      \* --max-in-flight
  MaxQueueSize,     \* --max-queue-size
  Callers,          \* request goroutines that can be active at once
  Boot,             \* the goroutine that builds the router
  Processor,        \* the queue processor goroutine
  Execs,            \* execution goroutines that can be alive at once
  MaxRuns,          \* bound: rows of pipeline_runs ever created
  CreatedAt,        \* the second in which the n-th run is created
  MaxRestarts,      \* bound: restarts of the server process
  MaxRequests,      \* bound: stop, resume and delete requests ever made
  Ops,              \* the operations the environment may start
  None, NoGroup, TemplateError

RunIds == 1..MaxRuns
Requesters == Callers \cup {Boot}
Procs == Requesters \cup {Processor}
Workers == Execs \cup Callers
Modes == {"none", "serial", "skip-if-running", "group"}
Active == {"queued", "running"}
Statuses == Active \cup {"success", "failed", "skipped"}
Actions == {"fail", "skip", "proceed", "queue", "cancel"}
Outcomes == {"stopped", "error", "success", "failed", "skipped"}
Groups == (UNION {Template[pl] : pl \in Pipelines}) \ {TemplateError}
GroupKeys == Groups \cup Pipelines \cup {NoGroup}

ASSUME ConstantsAssumption ==
  /\ Mode \in [Pipelines -> Modes]
  /\ CancelRunning \subseteq Pipelines
  /\ ResumeEnabled \subseteq Pipelines
  /\ KeepBuilds \in [Pipelines -> Nat]
  /\ MaxInFlight \in Nat \ {0}
  /\ MaxQueueSize \in Nat
  /\ MaxRuns \in Nat
  /\ MaxRestarts \in Nat /\ MaxRequests \in Nat
  /\ CreatedAt \in [RunIds -> Nat]
  /\ \A r, q \in RunIds : r < q => CreatedAt[r] <= CreatedAt[q]

ASSUME GoroutinesAssumption ==
  /\ IsFiniteSet(Callers) /\ Callers # {} /\ IsFiniteSet(Execs)
  /\ Boot \notin Callers /\ Processor \notin Callers /\ Boot # Processor
  /\ Callers \cap Execs = {} /\ None \notin Execs \cup Callers

VARIABLES
  status, pipe, group,  \* columns of pipeline_runs; "absent" is no row
  cli,                  \* runs whose trigger_type is "cli" (synchronous runs)
  runCount,             \* rows created so far
  pipelines,            \* rows of the pipelines table
  inFlight, registry, queueDone,  \* fields of ExecutionService
  pc, run, todo,        \* control, current run and list of every goroutine
  adm,                  \* the admission each caller is working on
  busy,                 \* the processor's set of busy groups
  epc, erun, eout,      \* control, run and outcome of an execution
  cancelled,            \* whether a worker's context is cancelled
  stopped,              \* history: runs stopped and not resumed since
  restarts, requests    \* history: restarts and bounded requests so far

dbVars == <<status, pipe, group, cli, runCount, pipelines>>
goVars == <<pc, run, todo, adm, busy>>
execVars == <<epc, erun, eout>>
vars == <<status, pipe, group, cli, runCount, pipelines, inFlight, registry,
          queueDone, pc, run, todo, adm, busy, epc, erun, eout, cancelled,
          stopped, restarts, requests>>
history == <<stopped, restarts, requests>>

NoAdmission == [sync |-> FALSE, pipeline |-> None, group |-> NoGroup,
                act |-> "proceed"]

-----------------------------------------------------------------------------
(* The rows of pipeline_runs. *)

TransitionAllowed_AnyRow(old, new) == old # "absent"

\* UpdateRunStatus's WHERE clause; a transition it refuses is a silent no-op.
TransitionAllowed(old, new) ==
  /\ old # "absent"
  /\ new \in {"failed", "queued"} \/ old \in Active

Written(r, new) ==
  [status EXCEPT ![r] = IF TransitionAllowed(@, new) THEN new ELSE @]

RunsIn(st) == {r \in RunIds : status[r] = st}

\* GetRunsByStatus: newest first, ties in any order.
NewestFirst(S) == {r \in S : \A q \in S : CreatedAt[q] <= CreatedAt[r]}

-----------------------------------------------------------------------------
(* The in-flight counter, the stop registry, the condition variable. *)

CanExecute_OffByOne == inFlight <= MaxInFlight

CanExecute == inFlight < MaxInFlight

CanAccept ==
  \/ CanExecute
  \/ MaxQueueSize > 0 /\ Cardinality(RunsIn("queued")) < MaxQueueSize

\* cond.Broadcast: only a goroutine already waiting is woken.
Broadcast(f) ==
  IF f[Processor] = "parked" THEN [f EXCEPT ![Processor] = "check"] ELSE f

Up == pc[Boot] = "done"
Ready(c) == pc[c] = "idle" /\ Up

\* A goroutine returns from the request, the recovered run or the dispatch.
HomePc(p) ==
  IF p \in Callers THEN "idle" ELSE IF p = Boot THEN "recover" ELSE "scan"

At(p, label) == [pc EXCEPT ![p] = label]
Returned(p) == [pc EXCEPT ![p] = HomePc(p)]

Forget(c) ==
  /\ run' = [run EXCEPT ![c] = 0]
  /\ adm' = IF c \in Callers THEN [adm EXCEPT ![c] = NoAdmission] ELSE adm

\* The registered worker's context is cancelled; without one nothing happens.
CancelOf(r) ==
  IF registry[r] = None THEN cancelled
  ELSE [cancelled EXCEPT ![registry[r]] = TRUE]

-----------------------------------------------------------------------------
(* Admission: CanAccept, resolveConcurrency, SaveRun, supersedePeers.      *)

\* Bound: as many admissions as there are runs left to create.
RunsLeft ==
  runCount + Cardinality({c \in Callers : pc[c] \in {"resolve", "save"}})
    < MaxRuns

Admit(c, pl, sync) ==
  /\ Ready(c) /\ pl \in pipelines /\ RunsLeft
  /\ pc' = At(c, "resolve")
  /\ adm' = [adm EXCEPT ![c] =
                [sync |-> sync, pipeline |-> pl, group |-> NoGroup, act |-> "proceed"]]
  /\ UNCHANGED <<dbVars, inFlight, registry, queueDone, run, todo, busy,
                 execVars, cancelled, history>>

\* The asynchronous triggers: manual, webhook, schedule, triggerPipeline(),
\* passed. A trigger CanAccept refuses answers ErrQueueFull and does nothing.
Trigger(c, pl) == "trigger" \in Ops /\ CanAccept /\ Admit(c, pl, FALSE)

\* RunByNameSync asks for no slot.
RunByNameSync(c, pl) == "sync" \in Ops /\ Admit(c, pl, TRUE)

RenderedGroups(pl) ==
  IF Mode[pl] = "none" THEN {NoGroup}
  ELSE IF Mode[pl] = "group" THEN Template[pl] ELSE {pl}

ActivePeers(pl, g) ==
  {r \in RunIds : /\ status[r] \in Active
                  /\ IF Mode[pl] = "group" THEN group[r] = g ELSE pipe[r] = pl}

Decide(pl, g, peers) ==
  IF g = TemplateError THEN "fail"
  ELSE IF Mode[pl] = "none" \/ peers = {} THEN "proceed"
  ELSE IF Mode[pl] = "skip-if-running" THEN "skip"
  ELSE IF Mode[pl] = "group" /\ pl \in CancelRunning THEN "cancel"
  ELSE "queue"

ResolveConcurrency(c) ==
  /\ pc[c] = "resolve"
  /\ \E g \in RenderedGroups(adm[c].pipeline) :
       LET peers == ActivePeers(adm[c].pipeline, g)
           act == Decide(adm[c].pipeline, g, peers)
       IN /\ adm' = [adm EXCEPT ![c] =
                       [sync |-> adm[c].sync, pipeline |-> adm[c].pipeline, act |-> act,
                        group |-> IF act = "fail" THEN NoGroup ELSE g]]
          /\ todo' = [todo EXCEPT ![c] =
                        IF act = "cancel"
                        THEN {<<r, status[r]>> : r \in peers} ELSE {}]
  /\ pc' = At(c, "save")
  /\ UNCHANGED <<dbVars, inFlight, registry, queueDone, run, busy, execVars,
                 cancelled, history>>

\* What the caller does with an admitted run once its peers are superseded.
AdmittedPc(a) ==
  IF ~a.sync THEN "dispatch" ELSE IF a.act = "queue" THEN "reject" ELSE "sync_begin"

SavedStatus(act) ==
  IF act = "fail" THEN "failed" ELSE IF act = "skip" THEN "skipped" ELSE "queued"

\* SaveRun / SaveRunWithStatus; the foreign key refuses a deleted pipeline.
SaveRun(c) ==
  /\ pc[c] = "save"
  /\ LET a == adm[c]
         r == runCount + 1
     IN IF a.pipeline \notin pipelines
        THEN /\ pc' = Returned(c) /\ Forget(c)
             /\ todo' = [todo EXCEPT ![c] = {}]
             /\ UNCHANGED dbVars
        ELSE /\ runCount' = r
             /\ status' = [status EXCEPT ![r] = SavedStatus(a.act)]
             /\ pipe' = [pipe EXCEPT ![r] = a.pipeline]
             /\ group' = [group EXCEPT ![r] = a.group]
             /\ cli' = IF a.sync THEN cli \cup {r} ELSE cli
             /\ IF a.act \in {"fail", "skip"}
                THEN pc' = Returned(c) /\ Forget(c)
                ELSE /\ pc' = At(c, IF a.act = "cancel" THEN "supersede"
                                    ELSE AdmittedPc(a))
                     /\ run' = [run EXCEPT ![c] = r]
                     /\ UNCHANGED adm
             /\ UNCHANGED <<todo, pipelines>>
  /\ UNCHANGED <<inFlight, registry, queueDone, busy, execVars, cancelled,
                 history>>

\* The peers come oldest first. A running one is stopped (look up and cancel,
\* then StopRun's own write) and then marked failed again with the reason.
OldestPeer(c) == {x \in todo[c] : \A y \in todo[c] : x[1] <= y[1]}

Supersede(c) ==
  /\ pc[c] = "supersede"
  /\ \E x \in OldestPeer(c) :
       LET r == x[1]
           rest == todo[c] \ {x}
       IN \/ /\ x[2] = "queued"
             /\ status' = Written(r, "skipped")
             /\ todo' = [todo EXCEPT ![c] = rest]
             /\ UNCHANGED <<cancelled, stopped>>
          \/ /\ x[2] = "running"
             /\ cancelled' = CancelOf(r)
             /\ todo' = [todo EXCEPT ![c] = rest \cup
                  {<<r, IF registry[r] = None THEN "superseded" ELSE "stopping">>}]
             /\ UNCHANGED <<status, stopped>>
          \/ /\ x[2] \in {"stopping", "superseded"}
             /\ status' = Written(r, "failed")
             /\ stopped' = IF status[r] = "absent" THEN stopped ELSE stopped \cup {r}
             /\ todo' = [todo EXCEPT ![c] =
                  IF x[2] = "stopping" THEN rest \cup {<<r, "superseded">>} ELSE rest]
             /\ UNCHANGED cancelled
  /\ UNCHANGED <<pipe, group, cli, runCount, pipelines, inFlight, registry,
                 queueDone, pc, run, adm, busy, execVars, restarts, requests>>

Superseded(c) ==
  /\ pc[c] = "supersede" /\ todo[c] = {}
  /\ pc' = At(c, AdmittedPc(adm[c]))
  /\ UNCHANGED <<dbVars, inFlight, registry, queueDone, run, todo, adm, busy,
                 execVars, cancelled, history>>

-----------------------------------------------------------------------------
(* Dispatch: the check of the counter and its increment are two steps. *)

QueueOnly(p) == p \in Callers /\ adm[p].act = "queue"

\* dispatchOrQueue, and the end of ResumePipeline.
DispatchOrQueue(p) ==
  /\ pc[p] = "dispatch"
  /\ IF CanExecute /\ ~QueueOnly(p)
     THEN pc' = At(p, "start") /\ UNCHANGED <<run, adm>>
     ELSE pc' = Broadcast(Returned(p)) /\ Forget(p)
  /\ UNCHANGED <<dbVars, inFlight, registry, queueDone, todo, busy, execVars,
                 cancelled, history>>

\* dispatchRun. The row stays "queued" until the goroutine has been scheduled.
DispatchRun(p) ==
  /\ pc[p] = "start"
  /\ inFlight' = inFlight + 1
  /\ \E e \in Execs :
       /\ epc[e] = "idle"
       /\ e = CHOOSE i \in Execs : epc[i] = "idle"
       /\ epc' = [epc EXCEPT ![e] = "register"]
       /\ erun' = [erun EXCEPT ![e] = run[p]]
  /\ pc' = Returned(p) /\ Forget(p)
  /\ UNCHANGED <<dbVars, registry, queueDone, todo, busy, eout, cancelled,
                 history>>

-----------------------------------------------------------------------------
(* executePipeline and finalizeExecRun. *)

ExecRegister(e) ==
  /\ epc[e] = "register"
  /\ registry' = [registry EXCEPT ![erun[e]] = e]
  /\ epc' = [epc EXCEPT ![e] = "begin"]
  /\ UNCHANGED <<dbVars, inFlight, queueDone, goVars, erun, eout, cancelled,
                 history>>

\* A refused transition is no error: the pipeline is executed all the same.
ExecBegin(e) ==
  /\ epc[e] = "begin"
  /\ status' = Written(erun[e], "running")
  /\ epc' = [epc EXCEPT ![e] = IF status[erun[e]] = "absent"
                               THEN "unregister" ELSE "exec"]
  /\ UNCHANGED <<pipe, group, cli, runCount, pipelines, inFlight, registry,
                 queueDone, goVars, erun, eout, cancelled, history>>

\* ExecutePipeline returns, then the context is looked at once.
ExecFinish(e) ==
  /\ epc[e] = "exec"
  /\ \E o \in IF cancelled[e] THEN {"stopped"} ELSE Outcomes \ {"stopped"} :
       eout' = [eout EXCEPT ![e] = o]
  /\ epc' = [epc EXCEPT ![e] = "write"]
  /\ UNCHANGED <<dbVars, inFlight, registry, queueDone, goVars, erun,
                 cancelled, history>>

FinalStatus_Unmapped(o) == IF o = "error" THEN "failed" ELSE o

FinalStatus(o) == IF o \in {"stopped", "error"} THEN "failed" ELSE o

\* Retention runs only after determineRunStatus and a write that found the row.
PrunesAfter(r, o) ==
  /\ o \notin {"stopped", "error"} /\ status[r] # "absent"
  /\ KeepBuilds[pipe[r]] > 0

ExecWrite_TrustsStop(e) ==
  /\ epc[e] = "write"
  /\ status' = IF eout[e] = "stopped" THEN status
                ELSE Written(erun[e], FinalStatus(eout[e]))
  /\ epc' = [epc EXCEPT ![e] = IF PrunesAfter(erun[e], eout[e])
                               THEN "prune" ELSE "unregister"]
  /\ eout' = [eout EXCEPT ![e] = "error"]
  /\ UNCHANGED <<pipe, group, cli, runCount, pipelines, inFlight, registry,
                 queueDone, goVars, erun, cancelled, history>>

ExecWrite(e) ==
  /\ epc[e] = "write"
  /\ status' = Written(erun[e], FinalStatus(eout[e]))
  /\ epc' = [epc EXCEPT ![e] = IF PrunesAfter(erun[e], eout[e])
                               THEN "prune" ELSE "unregister"]
  /\ eout' = [eout EXCEPT ![e] = "error"]
  /\ UNCHANGED <<pipe, group, cli, runCount, pipelines, inFlight, registry,
                 queueDone, goVars, erun, cancelled, history>>

\* PruneRunsByPipeline: the KeepBuilds newest rows stay, whatever their status.
Pruned(pl) ==
  LET rows == {r \in RunIds : pipe[r] = pl /\ status[r] # "absent"}
  IN {[r \in RunIds |-> IF r \in rows \ kept THEN "absent" ELSE status[r]] :
        kept \in {K \in SUBSET rows :
                    /\ Cardinality(K) = IF Cardinality(rows) < KeepBuilds[pl]
                                        THEN Cardinality(rows) ELSE KeepBuilds[pl]
                    /\ \A r \in K, q \in rows \ K : CreatedAt[q] <= CreatedAt[r]}}

ExecPrune(e) ==
  /\ epc[e] = "prune"
  /\ status' \in Pruned(pipe[erun[e]])
  /\ epc' = [epc EXCEPT ![e] = "unregister"]
  /\ UNCHANGED <<pipe, group, cli, runCount, pipelines, inFlight, registry,
                 queueDone, goVars, erun, eout, cancelled, history>>

ExecUnregister_NotIfStopped(e) ==
  /\ epc[e] = "unregister"
  /\ registry' = IF cancelled[e] THEN registry ELSE [registry EXCEPT ![erun[e]] = None]
  /\ epc' = [epc EXCEPT ![e] = "release"]
  /\ UNCHANGED <<dbVars, inFlight, queueDone, goVars, erun, eout, cancelled,
                 history>>

\* The entry of the run is deleted, whichever goroutine put it there.
ExecUnregister(e) ==
  /\ epc[e] = "unregister"
  /\ registry' = [registry EXCEPT ![erun[e]] = None]
  /\ epc' = [epc EXCEPT ![e] = "release"]
  /\ UNCHANGED <<dbVars, inFlight, queueDone, goVars, erun, eout, cancelled,
                 history>>

ExecRelease_Leaks(e) ==
  /\ epc[e] = "release"
  /\ inFlight' = IF cancelled[e] THEN inFlight ELSE inFlight - 1
  /\ pc' = Broadcast(pc)
  /\ epc' = [epc EXCEPT ![e] = "idle"]
  /\ erun' = [erun EXCEPT ![e] = 0]
  /\ cancelled' = [cancelled EXCEPT ![e] = FALSE]
  /\ UNCHANGED <<dbVars, registry, queueDone, run, todo, adm, busy, eout,
                 history>>

\* wg.Done has run; the counter is decremented and the processor signalled.
ExecRelease(e) ==
  /\ epc[e] = "release"
  /\ inFlight' = inFlight - 1
  /\ pc' = Broadcast(pc)
  /\ epc' = [epc EXCEPT ![e] = "idle"]
  /\ erun' = [erun EXCEPT ![e] = 0]
  /\ cancelled' = [cancelled EXCEPT ![e] = FALSE]
  /\ UNCHANGED <<dbVars, registry, queueDone, run, todo, adm, busy, eout,
                 history>>

-----------------------------------------------------------------------------
(* RunByNameSync after admission: the caller executes the pipeline itself. *)

SyncReject(c) ==
  /\ pc[c] = "reject"
  /\ status' = Written(run[c], "failed")
  /\ pc' = Returned(c) /\ Forget(c)
  /\ UNCHANGED <<pipe, group, cli, runCount, pipelines, inFlight, registry,
                 queueDone, todo, busy, execVars, cancelled, history>>

\* An error of this write (client gone) is only logged.
SyncBegin(c) ==
  /\ pc[c] = "sync_begin"
  /\ \/ status' = Written(run[c], "running")
     \/ "disconnect" \in Ops /\ UNCHANGED status
  /\ pc' = At(c, "preseed")
  /\ UNCHANGED <<pipe, group, cli, runCount, pipelines, inFlight, registry,
                 queueDone, run, todo, adm, busy, execVars, cancelled, history>>

\* A failed preseed or transpile returns and leaves the row as it is.
SyncPreseed(c) ==
  /\ pc[c] = "preseed"
  /\ \/ pc' = Returned(c) /\ Forget(c) /\ UNCHANGED registry
     \/ /\ registry' = [registry EXCEPT ![run[c]] = c]
        /\ pc' = At(c, "sync_exec")
        /\ UNCHANGED <<run, adm>>
  /\ UNCHANGED <<dbVars, inFlight, queueDone, todo, busy, execVars, cancelled,
                 history>>

SyncFinish(c) ==
  /\ pc[c] = "sync_exec"
  /\ pc' = At(c, "sync_write")
  /\ UNCHANGED <<dbVars, inFlight, registry, queueDone, run, todo, adm, busy,
                 execVars, cancelled, history>>

\* finalizeSyncRun writes and prunes with the execution's own context, so that
\* nothing reaches the database once the run has been cancelled.
SyncWrite(c) ==
  /\ pc[c] = "sync_write"
  /\ IF cancelled[c] THEN UNCHANGED status
     ELSE \E st \in {"success", "failed", "skipped"} : status' = Written(run[c], st)
  /\ pc' = At(c, IF KeepBuilds[pipe[run[c]]] > 0 THEN "sync_prune" ELSE "sync_exit")
  /\ UNCHANGED <<pipe, group, cli, runCount, pipelines, inFlight, registry,
                 queueDone, run, todo, adm, busy, execVars, cancelled, history>>

SyncPrune(c) ==
  /\ pc[c] = "sync_prune"
  /\ IF cancelled[c] THEN UNCHANGED status ELSE status' \in Pruned(pipe[run[c]])
  /\ pc' = At(c, "sync_exit")
  /\ UNCHANGED <<pipe, group, cli, runCount, pipelines, inFlight, registry,
                 queueDone, run, todo, adm, busy, execVars, cancelled, history>>

SyncExit_KeepsEntry(c) ==
  /\ pc[c] = "sync_exit"
  /\ UNCHANGED registry
  /\ cancelled' = [cancelled EXCEPT ![c] = FALSE]
  /\ pc' = Returned(c) /\ Forget(c)
  /\ UNCHANGED <<dbVars, inFlight, queueDone, todo, busy, execVars, history>>

SyncExit(c) ==
  /\ pc[c] = "sync_exit"
  /\ registry' = [registry EXCEPT ![run[c]] = None]
  /\ cancelled' = [cancelled EXCEPT ![c] = FALSE]
  /\ pc' = Returned(c) /\ Forget(c)
  /\ UNCHANGED <<dbVars, inFlight, queueDone, todo, busy, execVars, history>>

-----------------------------------------------------------------------------
(* The stop and resume endpoints, and deleting a pipeline. *)

Counted == requests < MaxRequests /\ requests' = requests + 1

Stop(c, r) ==
  /\ "stop" \in Ops /\ Ready(c) /\ Counted /\ status[r] \in Active
  /\ pc' = At(c, "stop")
  /\ run' = [run EXCEPT ![c] = r]
  /\ UNCHANGED <<dbVars, inFlight, registry, queueDone, todo, adm, busy,
                 execVars, cancelled, stopped, restarts>>

\* StopRun's lookup and cancel; ErrRunNotInFlight leads to stopOrphanedRun.
StopRun(c) ==
  /\ pc[c] = "stop"
  /\ cancelled' = CancelOf(run[c])
  /\ pc' = At(c, IF registry[run[c]] = None THEN "orphan_write" ELSE "stop_write")
  /\ UNCHANGED <<dbVars, inFlight, registry, queueDone, run, todo, adm, busy,
                 execVars, history>>

StopWrite(c) ==
  /\ pc[c] \in {"stop_write", "orphan_write"}
  /\ status' = Written(run[c], "failed")
  /\ stopped' = IF status[run[c]] = "absent" THEN stopped ELSE stopped \cup {run[c]}
  /\ pc' = Returned(c) /\ Forget(c)
  /\ UNCHANGED <<pipe, group, cli, runCount, pipelines, inFlight, registry,
                 queueDone, todo, busy, execVars, cancelled, restarts, requests>>

\* resumeValidate and the CanAccept of ResumePipeline.
Resume(c, r) ==
  /\ "resume" \in Ops /\ Ready(c) /\ Counted /\ status[r] = "failed" /\ CanAccept
  /\ pc' = At(c, "reset")
  /\ run' = [run EXCEPT ![c] = r]
  /\ UNCHANGED <<dbVars, inFlight, registry, queueDone, todo, adm, busy,
                 execVars, cancelled, stopped, restarts>>

\* ResumePipeline's write, unconditional: the status may have changed since.
ResumeReset(p) ==
  /\ pc[p] = "reset"
  /\ IF status[run[p]] = "absent"
     THEN pc' = Returned(p) /\ Forget(p) /\ UNCHANGED <<status, stopped>>
     ELSE /\ status' = Written(run[p], "queued")
          /\ stopped' = stopped \ {run[p]}
          /\ pc' = At(p, "dispatch")
          /\ UNCHANGED <<run, adm>>
  /\ UNCHANGED <<pipe, group, cli, runCount, pipelines, inFlight, registry,
                 queueDone, todo, busy, execVars, cancelled, restarts, requests>>

\* DeletePipeline; ON DELETE CASCADE takes the pipeline's runs with it.
DeletePipeline(pl) ==
  /\ "delete" \in Ops /\ Up /\ Counted /\ pl \in pipelines
  /\ pipelines' = pipelines \ {pl}
  /\ status' = [r \in RunIds |-> IF pipe[r] = pl THEN "absent" ELSE status[r]]
  /\ UNCHANGED <<pipe, group, cli, runCount, inFlight, registry, queueDone,
                 goVars, execVars, cancelled, stopped, restarts>>

-----------------------------------------------------------------------------
(* The queue processor. *)

\* The loop condition is evaluated, but the goroutine does not wait yet.
QueueCheck ==
  /\ pc[Processor] = "check"
  /\ pc' = At(Processor, IF queueDone THEN "stopped"
                         ELSE IF CanExecute THEN "list" ELSE "gap")
  /\ UNCHANGED <<dbVars, inFlight, registry, queueDone, run, todo, adm, busy,
                 execVars, cancelled, history>>

\* cond.Wait joins the waiters: a Broadcast before this step is lost.
QueueWait ==
  /\ pc[Processor] = "gap"
  /\ pc' = At(Processor, "parked")
  /\ UNCHANGED <<dbVars, inFlight, registry, queueDone, run, todo, adm, busy,
                 execVars, cancelled, history>>

\* An empty list, like a failed query, naps and starts over.
QueueList ==
  /\ pc[Processor] = "list"
  /\ \/ /\ RunsIn("queued") # {}
        /\ todo' = [todo EXCEPT ![Processor] = {<<r, "queued">> : r \in RunsIn("queued")}]
        /\ pc' = At(Processor, "groups")
     \/ /\ RunsIn("queued") = {} \/ "dberror" \in Ops
        /\ pc' = At(Processor, "check")
        /\ UNCHANGED todo
  /\ UNCHANGED <<dbVars, inFlight, registry, queueDone, run, adm, busy,
                 execVars, cancelled, history>>

QueueGroups_CountsQueued ==
  /\ pc[Processor] = "groups"
  /\ \/ busy' = {group[r] : r \in RunsIn("running") \cup RunsIn("queued")} \ {NoGroup}
     \/ "dberror" \in Ops /\ busy' = {}
  /\ pc' = At(Processor, "scan")
  /\ UNCHANGED <<dbVars, inFlight, registry, queueDone, run, todo, adm,
                 execVars, cancelled, history>>

\* busyConcurrencyGroups; after a failed query no group counts as busy.
QueueGroups ==
  /\ pc[Processor] = "groups"
  /\ \/ busy' = {group[r] : r \in RunsIn("running")} \ {NoGroup}
     \/ "dberror" \in Ops /\ busy' = {}
  /\ pc' = At(Processor, "scan")
  /\ UNCHANGED <<dbVars, inFlight, registry, queueDone, run, todo, adm,
                 execVars, cancelled, history>>

\* dispatchEligible, one queued run of the snapshot at a time.
QueueScan ==
  /\ pc[Processor] = "scan" /\ todo[Processor] # {} /\ CanExecute
  /\ \E r \in NewestFirst({x[1] : x \in todo[Processor]}) :
       /\ todo' = [todo EXCEPT ![Processor] = @ \ {<<r, "queued">>}]
       /\ IF group[r] \in busy
          THEN UNCHANGED <<status, pc, run, busy>>
          ELSE /\ busy' = (busy \cup {group[r]}) \ {NoGroup}
               /\ IF pipe[r] \in pipelines
                  THEN /\ pc' = At(Processor, "start")
                       /\ run' = [run EXCEPT ![Processor] = r]
                       /\ UNCHANGED status
                  ELSE /\ status' = Written(r, "failed")
                       /\ UNCHANGED <<pc, run>>
  /\ UNCHANGED <<pipe, group, cli, runCount, pipelines, inFlight, registry,
                 queueDone, adm, execVars, cancelled, history>>

QueueTickEnd ==
  /\ pc[Processor] = "scan" /\ (todo[Processor] = {} \/ ~CanExecute)
  /\ pc' = At(Processor, "check")
  /\ todo' = [todo EXCEPT ![Processor] = {}]
  /\ busy' = {}
  /\ UNCHANGED <<dbVars, inFlight, registry, queueDone, run, adm, execVars,
                 cancelled, history>>

-----------------------------------------------------------------------------
(* RecoverOrphanedRuns: the processor is already running. *)

RecoverList ==
  /\ pc[Boot] = "boot"
  /\ todo' = [todo EXCEPT ![Boot] = {<<r, "running">> : r \in RunsIn("running")}]
  /\ pc' = At(Boot, "recover")
  /\ UNCHANGED <<dbVars, inFlight, registry, queueDone, run, adm, busy,
                 execVars, cancelled, history>>

RecoverRun_DropsWhenFull ==
  /\ pc[Boot] = "recover" /\ todo[Boot] # {}
  /\ \E r \in NewestFirst({x[1] : x \in todo[Boot]}) :
       /\ todo' = [todo EXCEPT ![Boot] = @ \ {<<r, "running">>}]
       /\ IF pipe[r] \in pipelines \cap ResumeEnabled /\ CanAccept
          THEN /\ pc' = At(Boot, "reset")
               /\ run' = [run EXCEPT ![Boot] = r]
               /\ UNCHANGED status
          ELSE /\ status' = IF pipe[r] \in ResumeEnabled THEN status ELSE Written(r, "failed")
               /\ UNCHANGED <<pc, run>>
  /\ UNCHANGED <<pipe, group, cli, runCount, pipelines, inFlight, registry,
                 queueDone, adm, busy, execVars, cancelled, history>>

RecoverRun ==
  /\ pc[Boot] = "recover" /\ todo[Boot] # {}
  /\ \E r \in NewestFirst({x[1] : x \in todo[Boot]}) :
       /\ todo' = [todo EXCEPT ![Boot] = @ \ {<<r, "running">>}]
       /\ IF pipe[r] \in pipelines \cap ResumeEnabled /\ CanAccept
          THEN /\ pc' = At(Boot, "reset")
               /\ run' = [run EXCEPT ![Boot] = r]
               /\ UNCHANGED status
          ELSE status' = Written(r, "failed") /\ UNCHANGED <<pc, run>>
  /\ UNCHANGED <<pipe, group, cli, runCount, pipelines, inFlight, registry,
                 queueDone, adm, busy, execVars, cancelled, history>>

RecoverEnd ==
  /\ pc[Boot] = "recover" /\ todo[Boot] = {}
  /\ pc' = Broadcast(At(Boot, "done"))
  /\ UNCHANGED <<dbVars, inFlight, registry, queueDone, run, todo, adm, busy,
                 execVars, cancelled, history>>

-----------------------------------------------------------------------------
(* The life of the server process. *)

ProcessorPc == IF MaxQueueSize > 0 THEN "check" ELSE "off"

BootPc ==
  [p \in Procs |-> IF p \in Callers THEN "idle"
                  ELSE IF p = Boot THEN "boot" ELSE ProcessorPc]

Init ==
  /\ status = [r \in RunIds |-> "absent"] /\ pipe = [r \in RunIds |-> None]
  /\ group = [r \in RunIds |-> NoGroup] /\ cli = {} /\ runCount = 0
  /\ pipelines = Pipelines
  /\ inFlight = 0 /\ registry = [r \in RunIds |-> None] /\ queueDone = FALSE
  /\ pc = BootPc
  /\ run = [p \in Procs |-> 0] /\ todo = [p \in Procs |-> {}]
  /\ adm = [c \in Callers |-> NoAdmission] /\ busy = {}
  /\ epc = [e \in Execs |-> "idle"] /\ erun = [e \in Execs |-> 0]
  /\ eout = [e \in Execs |-> "error"] /\ cancelled = [w \in Workers |-> FALSE]
  /\ stopped = {} /\ restarts = 0 /\ requests = 0

\* The process is gone with everything in memory; a new one starts to boot.
Restart ==
  /\ restarts < MaxRestarts /\ restarts' = restarts + 1
  /\ inFlight' = 0 /\ registry' = [r \in RunIds |-> None] /\ queueDone' = FALSE
  /\ pc' = BootPc
  /\ run' = [p \in Procs |-> 0] /\ todo' = [p \in Procs |-> {}]
  /\ adm' = [c \in Callers |-> NoAdmission] /\ busy' = {}
  /\ epc' = [e \in Execs |-> "idle"] /\ erun' = [e \in Execs |-> 0]
  /\ eout' = [e \in Execs |-> "error"] /\ cancelled' = [w \in Workers |-> FALSE]
  /\ UNCHANGED <<dbVars, stopped, requests>>

Crash == "crash" \in Ops /\ Restart

\* SIGTERM: Router.Start drains the HTTP handlers and returns; the server
\* command returns with it, and nothing calls Shutdown.
Sigterm == "sigterm" \in Ops /\ Up /\ (\A c \in Callers : pc[c] = "idle") /\ Restart

Shutdown ==
  /\ "shutdown" \in Ops /\ Up /\ ~queueDone /\ restarts < MaxRestarts
  /\ queueDone' = TRUE
  /\ pc' = Broadcast(pc)
  /\ UNCHANGED <<dbVars, inFlight, registry, run, todo, adm, busy, execVars,
                 cancelled, history>>

\* queueWg.Wait and wg.Wait have returned.
ShutdownReturns ==
  /\ queueDone /\ pc[Processor] \in {"stopped", "off"}
  /\ \A e \in Execs : epc[e] \in {"idle", "release"}
  /\ Restart

-----------------------------------------------------------------------------
RequestStep(p) ==
  \/ DispatchOrQueue(p) \/ DispatchRun(p) \/ ResumeReset(p)

CallerStep(c) ==
  \/ RequestStep(c)
  \/ ResolveConcurrency(c) \/ SaveRun(c) \/ Supersede(c) \/ Superseded(c)
  \/ SyncReject(c) \/ SyncBegin(c) \/ SyncPreseed(c) \/ SyncFinish(c)
  \/ SyncWrite(c) \/ SyncPrune(c) \/ SyncExit(c)
  \/ StopRun(c) \/ StopWrite(c)

Request(c) ==
  \/ \E pl \in Pipelines : Trigger(c, pl) \/ RunByNameSync(c, pl)
  \/ \E r \in RunIds : Stop(c, r) \/ Resume(c, r)

ExecStep(e) ==
  \/ ExecRegister(e) \/ ExecBegin(e) \/ ExecFinish(e) \/ ExecWrite(e)
  \/ ExecPrune(e) \/ ExecUnregister(e) \/ ExecRelease(e)

ProcessorStep ==
  \/ QueueCheck \/ QueueWait \/ QueueList \/ QueueGroups \/ QueueScan
  \/ QueueTickEnd \/ DispatchRun(Processor)

BootStep == RecoverList \/ RecoverRun \/ RecoverEnd \/ RequestStep(Boot)

Next ==
  \/ \E c \in Callers : Request(c) \/ CallerStep(c)
  \/ \E e \in Execs : ExecStep(e)
  \/ ProcessorStep
  \/ BootStep
  \/ \E pl \in Pipelines : DeletePipeline(pl)
  \/ Crash \/ Sigterm \/ Shutdown \/ ShutdownReturns

Spec == Init /\ [][Next]_vars

\* Goroutines are scheduled: requests, the processor and recovery go on, and
\* a pipeline execution comes to its end.
Fairness ==
  /\ \A c \in Callers : WF_vars(CallerStep(c))
  /\ \A e \in Execs : WF_vars(ExecStep(e))
  /\ WF_vars(ProcessorStep) /\ WF_vars(BootStep) /\ WF_vars(ShutdownReturns)

FairSpec == Spec /\ Fairness

-----------------------------------------------------------------------------
(* Properties. *)

Live == {e \in Execs : epc[e] # "idle"}

PcLabels ==
  {"idle", "resolve", "save", "supersede", "dispatch", "start", "reject",
   "sync_begin", "preseed", "sync_exec", "sync_write", "sync_prune",
   "sync_exit", "stop", "stop_write", "orphan_write", "reset", "boot",
   "recover", "done", "check", "gap", "parked", "list", "groups", "scan",
   "stopped", "off"}

ExecLabels ==
  {"idle", "register", "begin", "exec", "write", "prune", "unregister", "release"}

DatabaseType ==
  /\ status \in [RunIds -> Statuses \cup {"absent"}]
  /\ pipe \in [RunIds -> Pipelines \cup {None}]
  /\ group \in [RunIds -> GroupKeys]
  /\ cli \subseteq Nat /\ runCount \in Nat /\ pipelines \subseteq Pipelines

ServiceType ==
  /\ inFlight \in Int
  /\ registry \in [RunIds -> Workers \cup {None}]

FlagType == queueDone \in BOOLEAN /\ cancelled \in [Workers -> BOOLEAN]

AdmissionRecord ==
  [sync : BOOLEAN, pipeline : Pipelines \cup {None}, group : GroupKeys, act : Actions]

PcType == pc \in [Procs -> PcLabels]

LocalType ==
  /\ run \in [Procs -> Nat]
  /\ todo \in [Procs -> SUBSET (RunIds \X {"queued", "running", "stopping", "superseded"})]
  /\ adm \in [Callers -> AdmissionRecord]
  /\ busy \subseteq GroupKeys

ExecType ==
  /\ epc \in [Execs -> ExecLabels] /\ erun \in [Execs -> Nat]
  /\ eout \in [Execs -> Outcomes]

HistoryType ==
  stopped \subseteq Nat /\ restarts \in 0..MaxRestarts /\ requests \in 0..MaxRequests

\* Every variable keeps the shape of the column, field or local it models.
TypeOK ==
  /\ DatabaseType /\ ServiceType /\ FlagType
  /\ PcType /\ LocalType /\ ExecType /\ HistoryType

\* The atomic counter that CanExecute reads never drifts from the number of
\* execution goroutines that have been launched and have not released yet.
InFlightIsExact == inFlight = Cardinality(Live)

\* CanExecute and the increment are separate steps, so --max-in-flight can be
\* exceeded, but by no more than one execution per goroutine that dispatches.
OvershootBounded == Cardinality(Live) <= MaxInFlight + Cardinality(Callers)

\* A cancel function StopRun finds belongs to a goroutine that is executing
\* exactly that run: stopping a run never cancels another one, however many
\* executions, resumes and deletions of registry entries came before.
RegistryIsSound ==
  \A r \in RunIds :
    /\ registry[r] \in Execs =>
         /\ erun[registry[r]] = r
         /\ epc[registry[r]] \in ExecLabels \ {"idle", "register", "release"}
    /\ registry[r] \in Callers =>
         /\ run[registry[r]] = r
         /\ pc[registry[r]] \in {"sync_exec", "sync_write", "sync_prune", "sync_exit"}

\* Once a stop (or a supersession) is written, no late write of any execution
\* turns the run into anything but failed until it is resumed.
StopIsHonoured == \A r \in stopped : status[r] \in {"failed", "absent"}

\* When recovery is over, a run shown as running is being executed by this
\* process: no asynchronous run stays "running" with nobody working on it.
RunningIsExecuted ==
  Up => \A r \in RunsIn("running") \ cli :
          \E e \in Execs : erun[e] = r /\ epc[e] \in {"exec", "write"}

\* Every run that is queued or running eventually gets a final status, across
\* stops, restarts and recovery, and whatever group it waits for. The one thing
\* that can hold it up is the queue processor waiting on its condition variable.
EveryRunSettles ==
  \A r \in RunIds :
    status[r] \in Active ~> (status[r] \notin Active \/ pc[Processor] = "parked")

=============================================================================
