---------------------------- MODULE PipelineJobs ----------------------------
(***************************************************************************)
(* The jobs of a YAML pipeline (runtime/backwards/runner.go): the           *)
(* validation of its configuration, and Runner.Run, which runs the jobs in  *)
(* the order of their passed constraints, in this run or, through the       *)
(* stored statuses, after earlier runs.  What a job does is StepEngine's.   *)
(*                                                                          *)
(* An operator named X_Slip, defined just before X, is a mutant of X.       *)
(***************************************************************************)
EXTENDS Naturals, Sequences, FiniteSets, SequencesExt

CONSTANTS
    Jobs,           \* the jobs, in the order of the configuration (a sequence)
    Configs,        \* the configurations: records [passed, onPassed, triggers, namespaced]; the CLI's
                    \* storage has a namespace, the server's has not
    TargetLists,    \* what --job, a schedule or a passed trigger may ask for; <<>> asks for nothing
    TriggerTypes,
    MaxRuns

VARIABLES
    cfg, phase, targets, trigger,
    todo,           \* the jobs the outer loop has not reached
    stack,          \* the calls of runJob: [job, deps, begun], deps the positions in the configuration of the
                    \* dependents still to try
    results,        \* jobResults, as the sets of jobs that succeeded and failed
    executedJobs,
    rows,           \* the job rows of this run
    latest,         \* the newest status of each job that is neither pending nor skipped
    runs

orderVars == <<cfg, phase, targets, trigger, todo, stack, results, executedJobs, rows, latest, runs>>

JobSet == ToSet(Jobs)
Passed(j) == cfg.passed[j]

ASSUME OrderAssumption ==
    /\ Jobs \in Seq(JobSet) /\ TargetLists \subseteq Seq(JobSet) /\ MaxRuns \in Nat
    /\ \A c \in Configs : \A j \in JobSet : {c.passed[j], c.onPassed[j], c.triggers[j]} \subseteq SUBSET STRING

---------------------------------------------------------------------------
(* ValidateConfig. *)

\* An edge for every passed constraint, of a get step or of the triggers block.
Adjacent(c, j) == c.passed[j] \cup c.onPassed[j]

\* Some job has no triggers block, or one with a webhook or a schedule.
ValidateLeafTriggers(c) ==
    \E j \in JobSet : c.triggers[j] = {"any"} \/ c.triggers[j] \cap {"webhook", "schedule"} # {}

ValidatePassed(c) == \A j \in JobSet : j \notin c.onPassed[j] /\ Adjacent(c, j) \subseteq JobSet

Entered_Black(color, j) == [color EXCEPT ![j] = "black"]

\* Depth first: a gray job met again closes a circle.  color is the function from jobs to colors.
Entered(color, j) == [color EXCEPT ![j] = "gray"]
Circle == <<>>
Visit(c) ==
    LET visit[color \in [JobSet -> {"white", "gray", "black"}], todoSeq \in Seq(JobSet)] ==
          IF todoSeq = <<>> THEN color
          ELSE LET d == Head(todoSeq) IN
               CASE color[d] = "gray" -> Circle
                 [] color[d] = "black" -> visit[color, Tail(todoSeq)]
                 [] OTHER -> LET after == visit[Entered(color, d), SetToSeq(Adjacent(c, d))]
                             IN IF after = Circle THEN Circle
                                ELSE visit[[after EXCEPT ![d] = "black"], Tail(todoSeq)]
    IN visit

ValidateNoCycles(c) == Visit(c)[[j \in JobSet |-> "white"], Jobs] # Circle

ValidateConfig(c) == ValidatePassed(c) /\ ValidateLeafTriggers(c) /\ ValidateNoCycles(c)

---------------------------------------------------------------------------
(* Runner.Run. *)

\* GetMostRecentJobStatus is asked about the pipeline "": without a namespace no run matches.
MostRecentStatus(j) == IF cfg.namespaced THEN latest[j] ELSE "none"

IsJobPassedSatisfied(d) ==
    \/ d \in results.ok
    \/ d \notin results.failed /\ MostRecentStatus(d) = "success"
CanJobRun_Any(j) == Passed(j) = {} \/ \E d \in Passed(j) : IsJobPassedSatisfied(d)

CanJobRun(j) == \A d \in Passed(j) : IsJobPassedSatisfied(d)

ShouldRunForTrigger(j) == \/ cfg.triggers[j] = {"any"}
                          \/ trigger \in {"webhook", "schedule"} /\ trigger \in cfg.triggers[j]

FindDependentJobs_Later(j) == {i \in DOMAIN Jobs : Passed(Jobs[i]) = {j} /\ Jobs[i] \in ToSet(todo)}

\* buildDependentsIndex: the places of the dependents in the configuration, whose order runJob follows.
FindDependentJobs(j) == {i \in DOMAIN Jobs : j \in Passed(Jobs[i])}

Called(j) == [job |-> j, deps |-> {}, begun |-> FALSE]

\* A request validates the configuration, or its run ends before it starts anything.
StartRun ==
    /\ phase \in {"idle", "over", "failed"} /\ runs < MaxRuns
    /\ runs' = runs + 1
    /\ targets' \in TargetLists /\ trigger' \in TriggerTypes
    /\ results' = [ok |-> {}, failed |-> {}]
    /\ executedJobs' = <<>> /\ stack' = <<>>
    /\ IF ValidateConfig(cfg)
       THEN /\ phase' = "jobs"
            /\ rows' = [j \in JobSet |-> "pending"]
            /\ todo' = IF targets' = <<>> THEN Jobs ELSE targets'
       ELSE phase' = "invalid" /\ rows' = [j \in JobSet |-> "none"] /\ todo' = <<>>
    /\ UNCHANGED <<cfg, latest>>

\* The loop of Run, or of runTargetedJobs.
NextJob ==
    /\ phase = "jobs" /\ stack = <<>> /\ todo # <<>>
    /\ LET j == Head(todo)
           skipped == IF targets = <<>> THEN ~ShouldRunForTrigger(j) ELSE ~CanJobRun(j)
       IN /\ todo' = Tail(todo)
          /\ rows' = IF skipped THEN [rows EXCEPT ![j] = "skipped"] ELSE rows
          /\ stack' = IF ~skipped /\ CanJobRun(j) THEN <<Called(j)>> ELSE <<>>
    /\ UNCHANGED <<cfg, phase, targets, trigger, results, executedJobs, latest, runs>>

Ran(j) == j \in results.ok \cup results.failed

\* runJob returns at once for a job that has a result.
SkipDone ==
    /\ phase = "jobs" /\ stack # <<>> /\ ~Last(stack).begun /\ Ran(Last(stack).job)
    /\ stack' = Front(stack)
    /\ UNCHANGED <<cfg, phase, targets, trigger, todo, results, executedJobs, rows, latest, runs>>

\* The job runs; one skipped by its webhook filter or as a duplicate returns no error either.
RunJob ==
    /\ phase = "jobs" /\ stack # <<>> /\ ~Last(stack).begun
    /\ LET j == Last(stack).job IN
         /\ ~Ran(j)
         /\ \/ \E outcome \in IF trigger = "webhook" THEN {"success", "skipped"} ELSE {"success"} :
                 /\ rows' = [rows EXCEPT ![j] = outcome]
                 /\ latest' = IF outcome = "success" THEN [latest EXCEPT ![j] = outcome] ELSE latest
                 /\ results' = [results EXCEPT !.ok = @ \cup {j}]
                 /\ executedJobs' = Append(executedJobs, j)
                 /\ stack' = Append(Front(stack), [job |-> j, deps |-> FindDependentJobs(j), begun |-> TRUE])
                 /\ UNCHANGED phase
            \/ /\ rows' = [rows EXCEPT ![j] = "failure"]
               /\ latest' = [latest EXCEPT ![j] = "failure"]
               /\ results' = [results EXCEPT !.failed = @ \cup {j}]
               /\ phase' = "failed"
               /\ UNCHANGED <<executedJobs, stack>>
    /\ UNCHANGED <<cfg, targets, trigger, todo, runs>>

\* A job that succeeded tries its dependents; the first error ends the run.
NextDependent ==
    /\ phase = "jobs" /\ stack # <<>> /\ Last(stack).begun
    /\ LET f == Last(stack) IN
         IF f.deps = {} THEN stack' = Front(stack)
         ELSE LET i == Min(f.deps)
                  rest == Append(Front(stack), [f EXCEPT !.deps = @ \ {i}])
              IN stack' = IF CanJobRun(Jobs[i]) THEN Append(rest, Called(Jobs[i])) ELSE rest
    /\ UNCHANGED <<cfg, phase, targets, trigger, todo, results, executedJobs, rows, latest, runs>>

\* A targeted run marks what it did not execute; then the run's assertions hold or do not.
EndOfRun ==
    /\ phase = "jobs" /\ stack = <<>> /\ todo = <<>>
    /\ phase' \in {"over", "failed"}
    /\ rows' = IF targets = <<>> THEN rows
               ELSE [j \in JobSet |-> IF Ran(j) THEN rows[j] ELSE "skipped"]
    /\ UNCHANGED <<cfg, targets, trigger, todo, stack, results, executedJobs, latest, runs>>

OrderInit ==
    /\ cfg \in Configs
    /\ phase = "idle" /\ targets = <<>> /\ trigger = "manual"
    /\ todo = <<>> /\ stack = <<>> /\ results = [ok |-> {}, failed |-> {}] /\ executedJobs = <<>>
    /\ rows = [j \in JobSet |-> "none"]
    /\ latest = [j \in JobSet |-> "none"]
    /\ runs = 0

OrderNext == StartRun \/ NextJob \/ SkipDone \/ RunJob \/ NextDependent \/ EndOfRun
OrderSpec == OrderInit /\ [][OrderNext]_orderVars

---------------------------------------------------------------------------
(* Properties. *)

\* Type correctness of the runner's state (Runner, jobResults, executedJobs and the calls of runJob).
OrderTypeOK ==
    /\ cfg \in Configs /\ phase \in {"idle", "jobs", "over", "failed", "invalid"}
    /\ targets \in Seq(JobSet) /\ todo \in Seq(JobSet)
    /\ stack \in Seq([job : JobSet, deps : SUBSET DOMAIN Jobs, begun : BOOLEAN])
    /\ results \in [ok : SUBSET JobSet, failed : SUBSET JobSet] /\ executedJobs \in Seq(JobSet)
    /\ rows \in [JobSet -> {"none", "pending", "success", "failure", "skipped"}]
    /\ latest \in [JobSet -> {"none", "success", "failure"}]
    /\ runs \in 0..MaxRuns

\* The configurations the depth-first search refuses are those with a circle of passed constraints: some job
\* reaches itself (runner.go validateNoCycles).
Reaches(c, n) == [j \in JobSet |-> {k \in JobSet : \E p \in [0..n -> JobSet] :
                    p[0] = j /\ p[n] = k /\ \A i \in 0..n - 1 : p[i + 1] \in Adjacent(c, p[i])}]
CirclesAreRefused ==
    ValidatePassed(cfg) =>
        (ValidateNoCycles(cfg) <=> \A j \in JobSet, n \in 1..Len(Jobs) : j \notin Reaches(cfg, n)[j])

\* Every job that ran came after the jobs of its run that it needs, or, where statuses of earlier runs are found,
\* needed a job whose latest run was a success (runner.go canJobRun, isJobPassedSatisfied).
PassedIsRespected ==
    \A j \in ToSet(executedJobs), d \in JobSet :
        d \in Passed(j) =>
            \/ \E i, k \in 1..Len(executedJobs) : i < k /\ executedJobs[i] = d /\ executedJobs[k] = j
            \/ cfg.namespaced /\ (Ran(d) \/ latest[d] = "success")

\* A run that ends well has run every job whose constraints its own jobs fulfil, targeted or not and whatever the
\* order of the jobs: none is left pending although the jobs it waits for succeeded (runJob's recursion into the
\* dependents, which asks neither for the trigger nor for the targets).
ReadyJobsRun ==
    phase = "over" =>
        \A j \in JobSet : Passed(j) # {} /\ Passed(j) \subseteq results.ok => j \in results.ok
=============================================================================
