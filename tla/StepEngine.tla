----------------------------- MODULE StepEngine -----------------------------
(***************************************************************************)
(* One job of a YAML pipeline as runtime/backwards executes it: JobRunner   *)
(* walks the plan, processStep dispatches every step to its handler and     *)
(* then runs its hooks, and the forking handlers (in_parallel, across,      *)
(* parallelism) run their inner steps in goroutines that share one          *)
(* StepContext.                                                             *)
(*                                                                          *)
(* A step is a node of the plan's tree, known by a name.  pc[s] is where    *)
(* processStep is for s; a parent starts a step by moving it to "enter"     *)
(* and takes its result once it is "done".  FailureCount and                *)
(* LastFailureKind are plain fields that goroutines read and write without  *)
(* a lock, so reading and writing them are separate steps here.             *)
(*                                                                          *)
(* An operator named X_Slip, defined just before X, is a mutant of X.       *)
(***************************************************************************)
EXTENDS Naturals, Sequences, FiniteSets, SequencesExt

CONSTANTS
    Plans,      \* the job configurations: records [steps, plan, hooks, maxInFlight, assert, webhook, gate]
    MayStop,    \* whether the run's context may be cancelled
    None        \* no hook

VARIABLES
    job,            \* the configuration that runs
    pc,             \* where processStep is for each step
    res,            \* the handler's error; for a fork the first error in time
    idx,            \* how many inner steps were started
    att,            \* the attempt that runs
    last,           \* executeWithAttempts' lastErr
    before,         \* the FailureCount read last
    hook,           \* the outcome hook that was chosen
    stepRow,            \* the step's row in storage
    shut,           \* forks whose launch context is cancelled
    failureCount, lastKind, executedTasks, preRegistered, \* the shared StepContext
    ctxDone,        \* the run's context is cancelled
    jpc, jidx, jerr, jrow,  \* JobRunner.Run: position, plan index, planErr, the job's row
    calls,        \* history: how often processStep was called for each step
    fell            \* history: the leaves whose last execution returned an error

scope == <<failureCount, lastKind, executedTasks, preRegistered>>
jobVars == <<jpc, jidx, jerr, jrow>>
stepVars == <<pc, res, idx, att, last, before, hook, stepRow, shut>>
history == <<calls, fell>>
engineVars == <<job, stepVars, scope, ctxDone, jobVars, history>>

Names == DOMAIN job.steps
StepOf(s) == job.steps[s]
Inner(s) == StepOf(s).inner

Errors == {"nil", "failed", "errored", "aborted", "assertion", "other"}
Leaves == {"task", "agent", "get", "put", "build_image", "notify"}
Forks == {"in_parallel", "across", "parallelism"}
HookNames == {"on_success", "on_failure", "on_error", "on_abort", "ensure"}

\* A plan is a tree: every step has one place, in a step, in a hook, in the plan or in a hook of the job, and
\* none contains itself.
InnerOf(c, s) == ToSet(c.steps[s].inner)
HooksOf(c, s) == {c.steps[s].hooks[h] : h \in DOMAIN c.steps[s].hooks}
PartsOf(c, s) == InnerOf(c, s) \cup HooksOf(c, s)
JobParts(c) == ToSet(c.plan) \cup {c.hooks[h] : h \in DOMAIN c.hooks}

IsStep(c, d) ==
    /\ d.kind \in Leaves \cup {"do", "try"} \cup Forks
    /\ d.inner \in Seq(DOMAIN c.steps) /\ (d.kind \in Leaves => d.inner = <<>>)
    /\ DOMAIN d.hooks \subseteq HookNames /\ d.hooks \in [DOMAIN d.hooks -> DOMAIN c.steps]
    /\ d.may \subseteq Errors /\ d.limit \in Nat /\ d.failFast \in BOOLEAN /\ d.attempts \in Nat \ {0}

IsJob(c) ==
    /\ IsFiniteSet(DOMAIN c.steps) /\ None \notin DOMAIN c.steps
    /\ \A s \in DOMAIN c.steps : IsStep(c, c.steps[s])
    /\ c.plan \in Seq(DOMAIN c.steps) /\ c.maxInFlight \in Nat
    /\ DOMAIN c.hooks \subseteq HookNames /\ c.hooks \in [DOMAIN c.hooks -> DOMAIN c.steps]

OnePlace(c) ==
    /\ \A s \in DOMAIN c.steps :
         /\ IsInjective(c.steps[s].inner) /\ IsInjective(c.steps[s].hooks)
         /\ InnerOf(c, s) \cap HooksOf(c, s) = {}
         /\ \A t \in DOMAIN c.steps \ {s} : PartsOf(c, s) \cap PartsOf(c, t) = {}
         /\ PartsOf(c, s) \cap JobParts(c) = {}
    /\ IsInjective(c.plan) /\ IsInjective(c.hooks)
    /\ ToSet(c.plan) \cap {c.hooks[h] : h \in DOMAIN c.hooks} = {}

NoCircle(c) == \A S \in SUBSET DOMAIN c.steps : S # {} => \E s \in S : \A p \in S : s \notin PartsOf(c, p)

ASSUME PlansAssumption == MayStop \in BOOLEAN /\ \A c \in Plans : IsJob(c) /\ OnePlace(c) /\ NoCircle(c)

HookOf(s, h) == IF h \in DOMAIN StepOf(s).hooks THEN StepOf(s).hooks[h] ELSE None
JobHook(h) == IF h \in DOMAIN job.hooks THEN job.hooks[h] ELSE None

\* Every Storage.Set of the job uses the run's context.
SetFails == ctxDone

---------------------------------------------------------------------------
(* What the leaf handlers return. *)

TaskStepReturns == IF ctxDone THEN {"errored", "other"}
               ELSE {"nil", "failed", "errored", "aborted", "assertion"}
AgentStepReturns == IF ctxDone THEN {"failed"} ELSE {"nil", "failed"}
GetReturns == IF ctxDone THEN {"other"} ELSE {"nil", "other"}
PutReturns == IF ctxDone THEN {"other"} ELSE {"nil", "other"}
BuildImageReturns == IF ctxDone THEN {"failed"} ELSE {"nil", "failed", "errored"}
NotifyReturns == IF ctxDone THEN {"failed"} ELSE {"nil", "failed"}

Returns(kind) == CASE kind = "task" -> TaskStepReturns
                   [] kind = "agent" -> AgentStepReturns
                   [] kind = "get" -> GetReturns
                   [] kind = "put" -> PutReturns
                   [] kind = "build_image" -> BuildImageReturns
                   [] kind = "notify" -> NotifyReturns

\* The row a leaf leaves: a task that errored keeps the row it had, a failed Set changes nothing.
LeafRow(s, e) == CASE SetFails -> stepRow[s]
                   [] e = "nil" -> "success"
                   [] e = "aborted" -> "abort"
                   [] e = "errored" /\ StepOf(s).kind = "task" -> stepRow[s]
                   [] OTHER -> "failure"

FailureKindFromErr(e) == IF e \in {"aborted", "errored"} THEN e ELSE "failed"

---------------------------------------------------------------------------
(* The forks' limits. *)

ResolveLimit_OffByOne(s) == IF job.maxInFlight > 0 THEN job.maxInFlight + 1
                            ELSE IF StepOf(s).limit > 0 THEN StepOf(s).limit ELSE Len(Inner(s))

ResolveLimit(s) == IF job.maxInFlight > 0 THEN job.maxInFlight
                   ELSE IF StepOf(s).limit > 0 THEN StepOf(s).limit ELSE Len(Inner(s))

ResolveAcrossLimit(s) == IF StepOf(s).failFast \/ StepOf(s).limit = 0 THEN 1 ELSE StepOf(s).limit

Limit(s) == IF StepOf(s).kind = "across" THEN ResolveAcrossLimit(s) ELSE ResolveLimit(s)

\* The names a fork appends to ExecutedTasks before it starts its tasks.
PreRegister(s) ==
    IF StepOf(s).kind = "across" \/ (StepOf(s).kind = "in_parallel" /\ StepOf(s).failFast) THEN <<>>
    ELSE SelectSeq(Inner(s), LAMBDA t : StepOf(t).kind = "task")

\* The inner steps that hold a unit of the fork's semaphore.
Holders(s) == {t \in ToSet(Inner(s)) : pc[t] # "idle"}

---------------------------------------------------------------------------
(* processStep: entry, handler, hooks, ensure. *)

IsRetried(s) == StepOf(s).attempts > 1

\* Once the handler has returned: another attempt, or the hooks.
AfterHandler(s, e) == IF IsRetried(s) /\ e # "nil" /\ att[s] < StepOf(s).attempts THEN "retry" ELSE "hooks"

\* The FailureCount before the handler; lastErr is a variable of the call.
Begun(s) ==
    /\ before' = [before EXCEPT ![s] = failureCount]
    /\ last' = [last EXCEPT ![s] = IF att[s] = 1 THEN "nil" ELSE @]
    /\ calls' = [calls EXCEPT ![s] = IF att[s] = 1 THEN @ + 1 ELSE @]

\* ExecutedTasks with a leaf that lists itself before it runs, unless a fork has listed it.
ListedItself(s) == IF StepOf(s).kind \in {"task", "agent", "build_image"} /\ s \notin preRegistered
             THEN Append(executedTasks, s) ELSE executedTasks

\* What may have been listed once a get or a put returns: its checks and fetches, the last ones if it succeeds.
ListedAfter(s, e) ==
    IF StepOf(s).kind \notin {"get", "put"} THEN {executedTasks}
    ELSE {Append(executedTasks, s)} \cup (IF e = "nil" THEN {} ELSE {executedTasks})

EnterLeaf(s) ==
    /\ pc[s] = "enter" /\ StepOf(s).kind \in Leaves
    /\ executedTasks' = ListedItself(s)
    /\ Begun(s)
    /\ fell' = IF SetFails THEN fell \cup {s} ELSE fell \ {s}
    /\ IF SetFails
       THEN \E e \in IF StepOf(s).kind = "agent" THEN {"failed"} ELSE {"other"} :
              /\ res' = [res EXCEPT ![s] = e]
              /\ pc' = [pc EXCEPT ![s] = AfterHandler(s, e)]
              /\ UNCHANGED stepRow
       ELSE /\ stepRow' = [stepRow EXCEPT ![s] = "pending"]
            /\ pc' = [pc EXCEPT ![s] = "leaf"]
            /\ UNCHANGED res
    /\ UNCHANGED <<job, idx, att, hook, shut, failureCount, lastKind, preRegistered, ctxDone, jobVars>>

ReturnLeaf(s) ==
    /\ pc[s] = "leaf"
    /\ \E e \in IF ctxDone THEN Returns(StepOf(s).kind) ELSE Returns(StepOf(s).kind) \cap StepOf(s).may :
         /\ res' = [res EXCEPT ![s] = e]
         /\ stepRow' = [stepRow EXCEPT ![s] = LeafRow(s, e)]
         /\ pc' = [pc EXCEPT ![s] = AfterHandler(s, e)]
         /\ fell' = IF e = "nil" THEN fell ELSE fell \cup {s}
         /\ executedTasks' \in ListedAfter(s, e)
    /\ UNCHANGED <<job, idx, att, last, before, hook, shut, failureCount, lastKind, preRegistered, ctxDone,
                   jobVars, calls>>

\* A leaf that errs before it has a row.
ErrsEarly(s) ==
    /\ pc[s] = "enter" /\ "errored" \in StepOf(s).may
    /\ Begun(s)
    /\ fell' = fell \cup {s}
    /\ res' = [res EXCEPT ![s] = "errored"]
    /\ pc' = [pc EXCEPT ![s] = AfterHandler(s, "errored")]
    /\ UNCHANGED <<job, idx, att, hook, stepRow, shut, failureCount, lastKind, preRegistered, ctxDone, jobVars>>

\* An agent's configuration or prompt file cannot be loaded: it is not even listed.
LoadAgentFails(s) ==
    /\ StepOf(s).kind = "agent"
    /\ ErrsEarly(s)
    /\ UNCHANGED executedTasks

\* The file a task is configured by, or one that an agent's tools are, cannot be loaded.
ConfigFails(s) ==
    /\ StepOf(s).kind \in {"task", "agent"}
    /\ ErrsEarly(s)
    /\ executedTasks' = ListedItself(s)

\* The throttled persister: what an agent has said so far is written while it runs.
AgentPersists(s) ==
    /\ pc[s] = "leaf" /\ StepOf(s).kind = "agent" /\ ~SetFails /\ stepRow[s] # "running"
    /\ stepRow' = [stepRow EXCEPT ![s] = "running"]
    /\ UNCHANGED <<job, pc, res, idx, att, last, before, hook, shut, scope, ctxDone, jobVars, history>>

\* try, do, in_parallel, across and parallelism write their row first (parallelism has none).
EnterGroup(s) ==
    /\ pc[s] = "enter" /\ StepOf(s).kind \notin Leaves
    /\ Begun(s)
    /\ idx' = [idx EXCEPT ![s] = 0]
    /\ shut' = shut \ {s}
    /\ IF SetFails /\ StepOf(s).kind # "parallelism"
       THEN /\ res' = [res EXCEPT ![s] = "other"]
            /\ pc' = [pc EXCEPT ![s] = AfterHandler(s, "other")]
            /\ UNCHANGED <<stepRow, executedTasks, preRegistered>>
       ELSE /\ stepRow' = [stepRow EXCEPT ![s] = "pending"]
            /\ res' = [res EXCEPT ![s] = "nil"]
            /\ pc' = [pc EXCEPT ![s] = "inner"]
            /\ IF StepOf(s).kind \in Forks
               THEN /\ executedTasks' = executedTasks \o PreRegister(s)
                    /\ preRegistered' = preRegistered \cup ToSet(PreRegister(s))
               ELSE UNCHANGED <<executedTasks, preRegistered>>
    /\ UNCHANGED <<job, att, hook, failureCount, lastKind, ctxDone, jobVars, fell>>

\* do and try start their next inner step.
StartInner(s) ==
    /\ pc[s] = "inner" /\ StepOf(s).kind \in {"do", "try"}
    /\ idx[s] < Len(Inner(s))
    /\ pc[Inner(s)[idx[s] + 1]] = "idle"
    /\ idx[s] = 0 \/ res[s] = "nil"
    /\ idx' = [idx EXCEPT ![s] = @ + 1]
    /\ pc' = [pc EXCEPT ![Inner(s)[idx[s] + 1]] = "enter", ![s] = "seq"]
    /\ att' = [att EXCEPT ![Inner(s)[idx[s] + 1]] = 1]
    /\ UNCHANGED <<job, res, last, before, hook, stepRow, shut, scope, ctxDone, jobVars, history>>

\* do stops at the first error.
DoTakes(s) ==
    /\ pc[s] = "seq" /\ StepOf(s).kind = "do"
    /\ LET t == Inner(s)[idx[s]] IN
         /\ pc[t] = "done"
         /\ res' = [res EXCEPT ![s] = res[t]]
         /\ pc' = [pc EXCEPT ![t] = "idle",
                             ![s] = IF res[t] # "nil" \/ idx[s] = Len(Inner(s)) THEN "close" ELSE "inner"]
    /\ UNCHANGED <<job, idx, att, last, before, hook, stepRow, shut, scope, ctxDone, jobVars, history>>

\* try swallows the error, counts it unless a hook inside has, and stops at a failure of either kind.
TryTakes(s) ==
    /\ pc[s] = "seq" /\ StepOf(s).kind = "try"
    /\ LET t == Inner(s)[idx[s]] IN
         /\ pc[t] = "done"
         /\ IF res[t] # "nil"
            THEN /\ pc' = [pc EXCEPT ![t] = "idle", ![s] = "close"]
                 /\ IF failureCount = before[s]
                    THEN failureCount' = failureCount + 1 /\ lastKind' = FailureKindFromErr(res[t])
                    ELSE UNCHANGED <<failureCount, lastKind>>
            ELSE /\ pc' = [pc EXCEPT ![t] = "idle",
                                     ![s] = IF failureCount > before[s] \/ idx[s] = Len(Inner(s))
                                            THEN "close" ELSE "inner"]
                 /\ UNCHANGED <<failureCount, lastKind>>
    /\ UNCHANGED <<job, res, idx, att, last, before, hook, stepRow, shut, executedTasks, preRegistered, ctxDone, jobVars, history>>

\* The launch loop of a fork: Acquire fails at once when the launch context is done.
Launch(s) ==
    /\ pc[s] = "inner" /\ StepOf(s).kind \in Forks
    /\ IF idx[s] = Len(Inner(s)) \/ s \in shut \/ ctxDone
       THEN pc' = [pc EXCEPT ![s] = "join"] /\ UNCHANGED <<idx, att>>
       ELSE /\ Cardinality(Holders(s)) < Limit(s)
            /\ idx' = [idx EXCEPT ![s] = @ + 1]
            /\ pc' = [pc EXCEPT ![Inner(s)[idx[s] + 1]] = "enter"]
            /\ att' = [att EXCEPT ![Inner(s)[idx[s] + 1]] = 1]
    /\ UNCHANGED <<job, res, last, before, hook, stepRow, shut, scope, ctxDone, jobVars, history>>

ForkCancels_NotForFailures(s, t) ==
    /\ pc[t] = "done" /\ t \in ToSet(Inner(s)) /\ StepOf(s).kind \in Forks
    /\ shut' = IF res[t] \notin {"nil", "failed"} /\ StepOf(s).failFast THEN shut \cup {s} ELSE shut
    /\ pc' = [pc EXCEPT ![t] = "release"]
    /\ UNCHANGED <<job, res, idx, att, last, before, hook, stepRow, scope, ctxDone, jobVars, history>>

\* An inner goroutine that got an error cancels the launch context, then gives its unit back.
ForkCancels(s, t) ==
    /\ pc[t] = "done" /\ t \in ToSet(Inner(s)) /\ StepOf(s).kind \in Forks
    /\ shut' = IF res[t] # "nil" /\ StepOf(s).failFast THEN shut \cup {s} ELSE shut
    /\ pc' = [pc EXCEPT ![t] = "release"]
    /\ UNCHANGED <<job, res, idx, att, last, before, hook, stepRow, scope, ctxDone, jobVars, history>>

ForkReleases_LastWins(s, t) ==
    /\ pc[t] = "release" /\ t \in ToSet(Inner(s))
    /\ res' = [res EXCEPT ![s] = res[t]]
    /\ pc' = [pc EXCEPT ![t] = "idle"]
    /\ UNCHANGED <<job, idx, att, last, before, hook, stepRow, shut, scope, ctxDone, jobVars, history>>

ForkReleases(s, t) ==
    /\ pc[t] = "release" /\ t \in ToSet(Inner(s))
    /\ res' = [res EXCEPT ![s] = IF @ = "nil" THEN res[t] ELSE @]
    /\ pc' = [pc EXCEPT ![t] = "idle"]
    /\ UNCHANGED <<job, idx, att, last, before, hook, stepRow, shut, scope, ctxDone, jobVars, history>>

Join(s) ==
    /\ pc[s] = "join" /\ Holders(s) = {}
    /\ pc' = [pc EXCEPT ![s] = "close"]
    /\ UNCHANGED <<job, res, idx, att, last, before, hook, stepRow, shut, scope, ctxDone, jobVars, history>>

\* The group's last Set; its failure replaces the result.
CloseGroup(s) ==
    /\ pc[s] = "close"
    /\ LET kind == StepOf(s).kind
           e == IF SetFails /\ kind # "parallelism" THEN "other"
                ELSE IF kind = "try" THEN "nil" ELSE res[s]
       IN /\ res' = [res EXCEPT ![s] = e]
          /\ stepRow' = [stepRow EXCEPT ![s] = CASE SetFails -> @
                                         [] e = "nil" -> "success"
                                         [] OTHER -> "failure"]
          /\ pc' = [pc EXCEPT ![s] = AfterHandler(s, e)]
    /\ UNCHANGED <<job, idx, att, last, before, hook, shut, scope, ctxDone, jobVars, history>>

\* executeWithAttempts: the failed attempt's error is kept and the stripped step runs again.
Retry(s) ==
    /\ pc[s] = "retry"
    /\ last' = [last EXCEPT ![s] = res[s]]
    /\ att' = [att EXCEPT ![s] = @ + 1]
    /\ pc' = [pc EXCEPT ![s] = "enter"]
    /\ UNCHANGED <<job, res, idx, before, hook, stepRow, shut, scope, ctxDone, jobVars, history>>

---------------------------------------------------------------------------
(* dispatchStepHook and its counterpart for attempts. *)

\* The hook for an error, and for a failure that a hook inside the step has handled.
OuterHook(s, e) == CASE e = "aborted" -> "on_abort"
                     [] e = "errored" -> "on_error"
                     [] e = "failed" -> "on_failure"
                     [] OTHER -> "none"
InnerHook(s) == CASE lastKind = "aborted" /\ HookOf(s, "on_abort") # None -> "on_abort"
                  [] lastKind = "errored" /\ HookOf(s, "on_error") # None -> "on_error"
                  [] OTHER -> "on_failure"

FailureInside(s) == failureCount > before[s] /\ res[s] = "nil"

Chosen(s) == CASE res[s] = "nil" /\ (IsRetried(s) \/ ~FailureInside(s)) -> "on_success"
               [] FailureInside(s) -> InnerHook(s)
               [] OTHER -> OuterHook(s, res[s])

\* The error processStep is left with when no hook runs.
Left(s) == IF IsRetried(s) /\ res[s] = "nil" THEN last[s] ELSE res[s]

Dispatch(s) ==
    /\ pc[s] = "hooks"
    /\ before' = [before EXCEPT ![s] = failureCount]
    /\ LET h == Chosen(s) IN
         IF h = "none" \/ HookOf(s, h) = None
         THEN /\ hook' = [hook EXCEPT ![s] = "none"]
              /\ pc' = [pc EXCEPT ![s] = "ensure"]
              /\ res' = [res EXCEPT ![s] = Left(s)]
         ELSE /\ hook' = [hook EXCEPT ![s] = h]
              /\ pc' = [pc EXCEPT ![s] = IF res[s] = "nil" THEN "call" ELSE "count"]
              /\ res' = [res EXCEPT ![s] = Left(s)]
    /\ UNCHANGED <<job, idx, att, last, stepRow, shut, scope, ctxDone, jobVars, history>>

\* FailureCount++ and LastFailureKind, from the value read before.
CountFailure(s) ==
    /\ pc[s] = "count"
    /\ failureCount' = before[s] + 1
    /\ lastKind' = FailureKindFromErr(res[s])
    /\ res' = [res EXCEPT ![s] = "nil"]
    /\ pc' = [pc EXCEPT ![s] = "call"]
    /\ UNCHANGED <<job, idx, att, last, before, hook, stepRow, shut, executedTasks, preRegistered, ctxDone, jobVars, history>>

CallHook(s) ==
    /\ pc[s] = "call"
    /\ pc' = [pc EXCEPT ![s] = "hook", ![HookOf(s, hook[s])] = "enter"]
    /\ att' = [att EXCEPT ![HookOf(s, hook[s])] = 1]
    /\ UNCHANGED <<job, res, idx, last, before, hook, stepRow, shut, scope, ctxDone, jobVars, history>>

TakeHook_SkipsEnsure(s) ==
    /\ pc[s] = "hook"
    /\ LET t == HookOf(s, hook[s]) IN
         /\ pc[t] = "done"
         /\ pc' = [pc EXCEPT ![t] = "idle", ![s] = "done"]
    /\ UNCHANGED <<job, res, idx, att, last, before, hook, stepRow, shut, scope, ctxDone, jobVars, history>>

\* Only on_success passes its error on; the others are logged.
TakeHook(s) ==
    /\ pc[s] = "hook"
    /\ LET t == HookOf(s, hook[s]) IN
         /\ pc[t] = "done"
         /\ pc' = [pc EXCEPT ![t] = "idle", ![s] = "ensure"]
         /\ res' = [res EXCEPT ![s] = IF hook[s] = "on_success" /\ res[t] # "nil" THEN res[t] ELSE @]
    /\ UNCHANGED <<job, idx, att, last, before, hook, stepRow, shut, scope, ctxDone, jobVars, history>>

Ensure(s) ==
    /\ pc[s] = "ensure"
    /\ IF HookOf(s, "ensure") = None
       THEN pc' = [pc EXCEPT ![s] = "done"] /\ UNCHANGED att
       ELSE /\ pc' = [pc EXCEPT ![s] = "ensuring", ![HookOf(s, "ensure")] = "enter"]
            /\ att' = [att EXCEPT ![HookOf(s, "ensure")] = 1]
    /\ UNCHANGED <<job, res, idx, last, before, hook, stepRow, shut, scope, ctxDone, jobVars, history>>

TakeEnsure(s) ==
    /\ pc[s] = "ensuring" /\ pc[HookOf(s, "ensure")] = "done"
    /\ pc' = [pc EXCEPT ![HookOf(s, "ensure")] = "idle", ![s] = "done"]
    /\ UNCHANGED <<job, res, idx, att, last, before, hook, stepRow, shut, scope, ctxDone, jobVars, history>>

---------------------------------------------------------------------------
(* JobRunner.Run. *)

JobFailed == jerr # "nil" \/ failureCount > 0
EffectiveKind == IF jerr # "nil" THEN jerr ELSE IF failureCount > 0 THEN lastKind ELSE "other"

\* dispatchJobFailureHook, on_success, or nothing.
JobHookChosen ==
    CASE jerr = "assertion" -> "none"
      [] ~JobFailed -> "on_success"
      [] EffectiveKind = "aborted" -> "on_abort"
      [] EffectiveKind = "errored" -> "on_error"
      [] OTHER -> "on_failure"

StartStep(t) == pc' = [pc EXCEPT ![t] = "enter"] /\ att' = [att EXCEPT ![t] = 1]

\* The pending row, the webhook filter and deduplication, the gate.
StartJob ==
    /\ jpc = "start"
    /\ \/ SetFails /\ jpc' = "over" /\ jerr' = "other" /\ jrow' = jrow
       \/ ~SetFails /\ jpc' = "plan" /\ jrow' = "pending" /\ jerr' = jerr
       \/ ~SetFails /\ job.webhook /\ jpc' = "over" /\ jrow' = "skipped" /\ jerr' = jerr
       \/ ~SetFails /\ job.gate /\ jpc' = "over" /\ jrow' = "failure" /\ jerr' = "other"
    /\ UNCHANGED <<job, stepVars, scope, ctxDone, jidx, history>>

RunPlanStep ==
    /\ jpc = "plan" /\ jidx < Len(job.plan) /\ jerr = "nil"
    /\ jpc' = "step" /\ jidx' = jidx + 1
    /\ StartStep(job.plan[jidx + 1])
    /\ UNCHANGED <<job, res, idx, last, before, hook, stepRow, shut, scope, ctxDone, jerr, jrow, history>>

\* On an error the remaining steps' rows say skipped.
TakePlanStep ==
    /\ jpc = "step"
    /\ LET t == job.plan[jidx] IN
         /\ pc[t] = "done"
         /\ pc' = [pc EXCEPT ![t] = "idle"]
         /\ jerr' = res[t]
         /\ stepRow' = [s \in Names |->
                      IF res[t] # "nil" /\ ~SetFails /\ \E i \in jidx + 1..Len(job.plan) : job.plan[i] = s
                      THEN "skipped" ELSE stepRow[s]]
         /\ jpc' = "plan"
    /\ UNCHANGED <<job, res, idx, att, last, before, hook, shut, scope, ctxDone, jidx, jrow, history>>

RunJobHook ==
    /\ jpc = "plan" /\ (jidx = Len(job.plan) \/ jerr # "nil")
    /\ LET h == JobHookChosen IN
         IF h = "none" \/ JobHook(h) = None
         THEN jpc' = "ensure" /\ UNCHANGED <<pc, att, jerr>>
         ELSE /\ StartStep(JobHook(h))
              /\ jpc' = h
              /\ jerr' = "nil"
    /\ UNCHANGED <<job, res, idx, last, before, hook, stepRow, shut, scope, ctxDone, jidx, jrow, history>>

TakeJobHook ==
    /\ jpc \in HookNames \ {"ensure"} /\ pc[JobHook(jpc)] = "done"
    /\ pc' = [pc EXCEPT ![JobHook(jpc)] = "idle"]
    /\ jpc' = "ensure"
    /\ UNCHANGED <<job, res, idx, att, last, before, hook, stepRow, shut, scope, ctxDone, jidx, jerr, jrow, history>>

RunJobEnsure ==
    /\ jpc = "ensure"
    /\ IF JobHook("ensure") = None
       THEN jpc' = "assert" /\ UNCHANGED <<pc, att>>
       ELSE jpc' = "ensuring" /\ StartStep(JobHook("ensure"))
    /\ UNCHANGED <<job, res, idx, last, before, hook, stepRow, shut, scope, ctxDone, jidx, jerr, jrow, history>>

TakeJobEnsure ==
    /\ jpc = "ensuring" /\ pc[JobHook("ensure")] = "done"
    /\ pc' = [pc EXCEPT ![JobHook("ensure")] = "idle"]
    /\ jpc' = "assert"
    /\ UNCHANGED <<job, res, idx, att, last, before, hook, stepRow, shut, scope, ctxDone, jidx, jerr, jrow, history>>

\* validateAssertions, and what is left of planErr.
JobResult == CASE job.assert # <<>> /\ job.assert # executedTasks -> "assertion"
               [] jerr = "assertion" \/ (jerr # "nil" /\ job.assert = <<>>) -> jerr
               [] OTHER -> "nil"

FinishJob ==
    /\ jpc = "assert"
    /\ jerr' = IF JobResult = "nil" /\ SetFails THEN "other" ELSE JobResult
    /\ jrow' = IF SetFails THEN jrow ELSE IF JobResult = "nil" THEN "success" ELSE "failure"
    /\ jpc' = "over"
    /\ UNCHANGED <<job, stepVars, scope, ctxDone, jidx, history>>

\* The run is stopped: the context of everything in it is cancelled.
StopJob ==
    /\ MayStop /\ ~ctxDone /\ jpc # "over"
    /\ ctxDone' = TRUE
    /\ UNCHANGED <<job, stepVars, scope, jobVars, history>>

---------------------------------------------------------------------------
EngineInit ==
    /\ job \in Plans
    /\ pc = [s \in Names |-> "idle"]
    /\ res = [s \in Names |-> "nil"]
    /\ idx = [s \in Names |-> 0]
    /\ att = [s \in Names |-> 1]
    /\ last = [s \in Names |-> "nil"]
    /\ before = [s \in Names |-> 0]
    /\ hook = [s \in Names |-> "none"]
    /\ stepRow = [s \in Names |-> "none"]
    /\ shut = {}
    /\ failureCount = 0 /\ lastKind = "none" /\ executedTasks = <<>> /\ preRegistered = {}
    /\ ctxDone = FALSE
    /\ jpc = "start" /\ jidx = 0 /\ jerr = "nil" /\ jrow = "none"
    /\ calls = [s \in Names |-> 0]
    /\ fell = {}

StepMoves(s) ==
    \/ EnterLeaf(s) \/ LoadAgentFails(s) \/ ConfigFails(s) \/ AgentPersists(s) \/ ReturnLeaf(s)
    \/ EnterGroup(s) \/ StartInner(s) \/ DoTakes(s) \/ TryTakes(s)
    \/ Launch(s) \/ Join(s) \/ CloseGroup(s)
    \/ \E t \in Names : ForkCancels(s, t) \/ ForkReleases(s, t)
    \/ Retry(s)
    \/ Dispatch(s) \/ CountFailure(s) \/ CallHook(s) \/ TakeHook(s)
    \/ Ensure(s) \/ TakeEnsure(s)

JobMoves ==
    \/ StartJob \/ RunPlanStep \/ TakePlanStep
    \/ RunJobHook \/ TakeJobHook \/ RunJobEnsure \/ TakeJobEnsure \/ FinishJob

EngineProgress == JobMoves \/ \E s \in Names : StepMoves(s)
EngineNext == EngineProgress \/ StopJob

EngineSpec == EngineInit /\ [][EngineNext]_engineVars
EngineFairSpec == EngineSpec /\ WF_engineVars(EngineProgress)

---------------------------------------------------------------------------
(* Properties. *)

RowStatuses == {"none", "pending", "running", "success", "failure", "abort", "skipped"}

Positions == {"idle", "enter", "leaf", "inner", "seq", "join", "close", "retry", "hooks", "count", "call", "hook",
              "ensure", "ensuring", "done", "release"}
JobPositions == {"start", "plan", "step", "ensuring", "assert", "over"} \cup HookNames

PositionType == pc \in [Names -> Positions] /\ hook \in [Names -> {"none"} \cup (HookNames \ {"ensure"})]
ResultType == res \in [Names -> Errors] /\ last \in [Names -> Errors] /\ jerr \in Errors
RowType == stepRow \in [Names -> RowStatuses] /\ jrow \in RowStatuses
CounterType ==
    /\ idx \in [Names -> Nat] /\ att \in [Names -> Nat]
    /\ \A s \in Names : idx[s] <= Len(Inner(s)) /\ att[s] \in 1..StepOf(s).attempts
ScopeType ==
    /\ failureCount \in Nat /\ before \in [Names -> Nat] /\ calls \in [Names -> Nat]
    /\ lastKind \in {"none", "failed", "errored", "aborted"}
    /\ shut \subseteq Names /\ fell \subseteq Names /\ ctxDone \in BOOLEAN
RunnerType == job \in Plans /\ jpc \in JobPositions /\ jidx \in 0..Len(job.plan)

\* Type correctness of the engine's state (StepContext and the stack of processStep calls).
EngineTypeOK == PositionType /\ ResultType /\ RowType /\ CounterType /\ ScopeType /\ RunnerType

\* The step that contains s; and all that do, s itself included.
Parents(s) == {p \in Names : s \in PartsOf(job, p)}
Above(s) == {p \in Names : \A S \in SUBSET Names : s \in S /\ (\A q \in S : Parents(q) \subseteq S) => p \in S}

\* Somebody answers for an error of s: a try, a hook of a step around it or of the job, or s is (inside) a
\* hook whose own error is only logged.
Answered(s) ==
    \/ \E h \in {"on_failure", "on_error", "on_abort"} : JobHook(h) # None
    \/ job.assert # <<>>
    \/ \E p \in Above(s) :
         \/ StepOf(p).kind = "try"
         \/ \E h \in {"on_failure", "on_error", "on_abort"} : HookOf(p, h) # None
         \/ \E q \in Names, h \in HookNames \ {"on_success"} : HookOf(q, h) = p
         \/ \E h \in HookNames : JobHook(h) = p

\* A job recorded as a success has no unanswered failure: the error of a leaf reaches the job through do, the
\* forks (whose errgroup keeps one error of many) and the attempts unless a try or a hook took it
\* (job.go Run, in_parallel_handler.go, do_handler.go).
SuccessIsEarned == jrow = "success" => \A s \in fell : Answered(s)

\* With fail_fast nothing is launched once a failed goroutine has given its unit back: the context is
\* cancelled before the semaphore is released (in_parallel_handler.go and across_handler.go,
\* "cancel context BEFORE releasing semaphore to prevent race").
LaunchesAreAllowed ==
    \A s \in Names : StepOf(s).kind \in Forks /\ StepOf(s).failFast /\ idx'[s] > idx[s] => res[s] = "nil"
FailFastStopsLaunching == [][LaunchesAreAllowed]_engineVars

\* max_in_flight bounds the leaves that run at a time when no fork contains another one and none is an across,
\* which has a max_in_flight of its own: a goroutine holds its unit until the hooks of its step are over
\* (in_parallel_handler.go, resolveLimit).
RunningLeaves == {s \in Names : pc[s] = "leaf"}
SingleForks ==
    \A s \in Names : StepOf(s).kind \in Forks =>
        StepOf(s).kind # "across" /\ \A p \in Above(s) \ {s} : StepOf(p).kind \notin Forks
MaxInFlightHolds ==
    job.maxInFlight > 0 /\ Cardinality(RunningLeaves) > job.maxInFlight => ~SingleForks

\* Every call of a step with an ensure hook is followed by a call of that hook before the job is over, after
\* failures, aborts, retries and fail_fast alike (job.go processStep, executeWithAttempts).
EnsureRuns ==
    jpc = "over" => \A s \in Names : HookOf(s, "ensure") # None => calls[HookOf(s, "ensure")] = calls[s]
=============================================================================
