------------------------------- MODULE MCJobs -------------------------------
(***************************************************************************)
(* The parts a run is made of, for TLC: StepEngine, JobTasks,             *)
(* PipelineJobs, ResourceVersions, ScriptRuntime (two scripts) and         *)
(* ResumableRunner. Each behaviour is a behaviour of one part, the one     *)
(* named by part, while the others stay in their initial state.            *)
(***************************************************************************)
EXTENDS StepEngine, PipelineJobs, JobTasks, ResourceVersions, ResumableRunner, ScriptRuntime

VARIABLE part

all == <<part, engineVars, orderVars, tasksVars, versionsVars, runnerVars, scriptVars>>

-----------------------------------------------------------------------------
(* StepEngine: one job per interesting shape of a plan. *)

NoHooks == [h \in {} |-> "none"]
Leaf(kind, may, attempts, hooks) ==
  [kind |-> kind, inner |-> <<>>, may |-> may, limit |-> 0, failFast |-> FALSE,
   attempts |-> attempts, hooks |-> hooks]
Group(kind, inner, limit, failFast, attempts, hooks) ==
  [kind |-> kind, inner |-> inner, may |-> {}, limit |-> limit, failFast |-> failFast,
   attempts |-> attempts, hooks |-> hooks]
Task(may) == Leaf("task", may, 1, NoHooks)
Job(steps, plan, hooks, maxInFlight, assert) ==
  [steps |-> steps, plan |-> plan, hooks |-> hooks, maxInFlight |-> maxInFlight,
   assert |-> assert, webhook |-> FALSE, gate |-> FALSE]
Always == {"nil"}
Fails == {"nil", "failed"}
Breaks == {"nil", "errored"}

\* Three tasks, two at a time, with hooks of their own and an ensure around them.
FailFast ==
  Job("p" :> Group("in_parallel", <<"a", "b", "c">>, 2, TRUE, 1, "ensure" :> "e") @@
      "a" :> Leaf("task", Fails, 1, "on_failure" :> "h" @@ "ensure" :> "e2") @@
      "b" :> Task({"nil", "failed", "aborted"}) @@ "c" :> Leaf("notify", Fails, 1, NoHooks) @@
      "h" :> Task(Always) @@ "e" :> Task(Always) @@ "e2" :> Task(Always) @@
      "z" :> Leaf("put", {"nil", "other"}, 1, NoHooks),
      <<"p", "z">>, NoHooks, 0, <<>>)

\* max_in_flight over a fork whose steps fail, err and retry; the job has every hook.
Throttled ==
  Job("p" :> Group("in_parallel", <<"a", "b", "c">>, 3, FALSE, 1, NoHooks) @@
      "a" :> Leaf("task", Fails, 2, NoHooks) @@ "b" :> Task(Breaks) @@
      "c" :> Task(Always) @@ "jf" :> Task(Always) @@
      "je" :> Task(Fails) @@ "jx" :> Task(Always) @@ "js" :> Task(Fails),
      <<"p">>,
      "on_failure" :> "jf" @@ "on_error" :> "jx" @@ "on_success" :> "js" @@ "ensure" :> "je",
      2, <<>>)

\* A try around a do whose error a hook handles, then a retried group; a webhook
\* and a gate before.
Sequential ==
  [Job("t" :> Group("try", <<"d", "x">>, 0, FALSE, 1, "on_failure" :> "h") @@
       "d" :> Group("do", <<"a", "b">>, 0, FALSE, 1, "on_abort" :> "h2" @@ "on_error" :> "h3") @@
       "a" :> Leaf("get", {"nil", "other"}, 1, NoHooks) @@
       "b" :> Task({"nil", "errored", "aborted", "assertion"}) @@
       "x" :> Leaf("agent", Fails \cup Breaks, 1, "on_success" :> "h4") @@
       "r" :> Group("do", <<"c", "i">>, 0, FALSE, 2, "ensure" :> "e") @@
       "c" :> Task(Fails) @@ "i" :> Leaf("build_image", {"nil", "errored"}, 1, NoHooks) @@
       "h" :> Task(Always) @@ "h2" :> Task(Fails) @@ "h3" :> Task(Always) @@
       "h4" :> Task(Fails) @@ "e" :> Task(Fails) @@ "ja" :> Task(Always),
       <<"t", "r">>, "on_abort" :> "ja", 0, <<>>) EXCEPT !.webhook = TRUE, !.gate = TRUE]

\* across over clones that keep the hooks, beside a parallelism, under a job assertion.
Across ==
  Job("x" :> Group("across", <<"a", "b">>, 2, FALSE, 1, NoHooks) @@
      "a" :> Leaf("task", Fails, 1, "on_failure" :> "ha") @@
      "b" :> Task(Fails) @@ "ha" :> Task(Always) @@
      "n" :> Group("parallelism", <<"n1", "n2">>, 0, FALSE, 1, NoHooks) @@
      "n1" :> Task(Fails) @@ "n2" :> Task(Always),
      <<"x", "n">>, NoHooks, 0, <<"a", "b", "n1", "n2">>)

JobPlans == {FailFast, Throttled, Sequential, Across}

-----------------------------------------------------------------------------
(* JobTasks: two tasks that share a cache kept in S3; one has a timeout. *)

TwoTasks == {"t", "u"}
OneTask == {"t"}
GoCache == [t \in TwoTasks |-> "go"]
GoVolume == "go" :> "v"

-----------------------------------------------------------------------------
(* PipelineJobs: three jobs, every relation of passed constraints between   *)
(* them that could arise, circles and unknown jobs included.                *)

JobNames == {"a", "b", "c"}
Needs == [a : {{}, {"c"}}, b : {{}, {"a"}, {"a", "c"}}, c : {{}, {"b"}, {"a"}}]
JobConfigs ==
  [passed : Needs, onPassed : {[j \in JobNames |-> {}], "b" :> {"d"} @@ "a" :> {} @@ "c" :> {"a"}},
   triggers : {[j \in JobNames |-> {"any"}], "a" :> {"webhook"} @@ "b" :> {"any"} @@ "c" :> {"schedule"}},
   namespaced : BOOLEAN]

JobOrder == <<"a", "b", "c">>
Targets == {<<>>, <<"b">>, <<"c", "b">>}
Origins == {"manual", "webhook"}

-----------------------------------------------------------------------------
(* ResourceVersions: a get with version: every alone, beside a put, and two *)
(* gets of the latest version.                                              *)

TwoSavers == {"g", "h"}
SaverModes ==
  {"g" :> "every" @@ "h" :> "off", "g" :> "every" @@ "h" :> "put", "g" :> "latest" @@ "h" :> "latest"}

-----------------------------------------------------------------------------
(* ScriptRuntime: a script with a task, an agent after it and a stage, and  *)
(* a script that sends a notification without waiting and may throw.        *)

ScriptCalls == {"r", "s", "j", "b", "a", "n"}
ScriptKinds ==
  "r" :> "task" @@ "s" :> "stage" @@ "j" :> "job" @@ "b" :> "task" @@ "a" :> "agent" @@ "n" :> "asyncNotify"
StagesAfter ==
  "r" :> "start" @@ "s" :> "start" @@ "j" :> "s" @@ "b" :> "j" @@ "a" :> "r" @@ "n" :> "never"
NotesAfter ==
  "r" :> "start" @@ "s" :> "never" @@ "j" :> "s" @@ "b" :> "j" @@ "a" :> "never" @@ "n" :> "r"
Output(n) == [c \in ScriptCalls |-> IF c \in {"r", "a"} THEN n ELSE 0]
OneChunk == Output(1)

Notes == INSTANCE ScriptRuntime WITH After <- NotesAfter, Chunks <- Output(2), Throws <- TRUE

-----------------------------------------------------------------------------
(* ResumableRunner: three calls, the second an agent, in three sessions.    *)

SecondStep == {2}

-----------------------------------------------------------------------------
JobsInit ==
  /\ part \in {"steps", "tasks", "order", "versions", "stages", "notes", "resumed"}
  /\ EngineInit /\ OrderInit /\ TasksInit /\ VersionsInit /\ RunnerInit
  /\ IF part = "notes" THEN Notes!ScriptInit ELSE ScriptInit
  /\ part # "steps" => job = CHOOSE c \in Plans : TRUE
  /\ part # "order" => cfg = CHOOSE c \in Configs : ~ValidatePassed(c)
  /\ part # "versions" => modeOf = CHOOSE m \in Modes : TRUE

EngineStep ==
  part = "steps" /\ EngineNext /\ UNCHANGED <<part, orderVars, tasksVars, versionsVars, runnerVars, scriptVars>>
TasksStep ==
  part = "tasks" /\ TasksNext /\ UNCHANGED <<part, engineVars, orderVars, versionsVars, runnerVars, scriptVars>>
OrderStep ==
  part = "order" /\ OrderNext /\ UNCHANGED <<part, engineVars, tasksVars, versionsVars, runnerVars, scriptVars>>
VersionsStep ==
  part = "versions" /\ VersionsNext /\ UNCHANGED <<part, engineVars, orderVars, tasksVars, runnerVars, scriptVars>>
StagesStep ==
  part = "stages" /\ ScriptNext /\ UNCHANGED <<part, engineVars, orderVars, tasksVars, versionsVars, runnerVars>>
NotesStep ==
  part = "notes" /\ Notes!ScriptNext /\ UNCHANGED <<part, engineVars, orderVars, tasksVars, versionsVars, runnerVars>>
ResumedStep ==
  part = "resumed" /\ RunnerNext /\ UNCHANGED <<part, engineVars, orderVars, tasksVars, versionsVars, scriptVars>>

JobsNext ==
  EngineStep \/ TasksStep \/ OrderStep \/ VersionsStep \/ StagesStep \/ NotesStep \/ ResumedStep

\* The fairness of the parts' own fair specifications, all at once: part never changes.
InTasks(A) == part = "tasks" /\ A /\ UNCHANGED <<part, engineVars, orderVars, versionsVars, runnerVars, scriptVars>>
InScript(p, A) == part = p /\ A /\ UNCHANGED <<part, engineVars, orderVars, tasksVars, versionsVars, runnerVars>>
GoesOn ==
  \/ /\ part = "steps" /\ EngineProgress
     /\ UNCHANGED <<part, orderVars, tasksVars, versionsVars, runnerVars, scriptVars>>
  \/ InTasks(Progress) \/ InScript("stages", Thread) \/ InScript("notes", Notes!Thread)
Background == InTasks(TickersWrite) \/ InScript("stages", Goroutines)
Polls == InScript("stages", Checks)
Served == InTasks(TickersEnd) \/ InScript("stages", Results) \/ InScript("notes", Notes!Results)
JobsSpec ==
  JobsInit /\ [][JobsNext]_all /\ WF_all(GoesOn) /\ WF_all(Background) /\ WF_all(Polls) /\ SF_all(Served)

-----------------------------------------------------------------------------
(* Properties. *)

\* Type correctness of every part.
JobTypes ==
  /\ part = "steps" => EngineTypeOK
  /\ part = "order" => OrderTypeOK
  /\ TasksTypeOK /\ VersionsTypeOK /\ ScriptTypeOK /\ RunnerTypeOK

\* Everything comes to an end: a job, stopped or not, whatever its forks launch; the tasks of a stopped run,
\* although their containers go on, and the job's volumes with them; a script, whatever its calls return, with
\* no goroutine waiting for a place in the channel that nobody frees.
MustEnd == part \in {"steps", "stages", "notes"} \/ (part = "tasks" /\ cancelled)
Ended ==
  CASE part = "steps" -> jpc = "over"
    [] part = "tasks" -> jobEnd = "over"
    [] part \in {"stages", "notes"} -> loop = "over"
    [] OTHER -> TRUE
WorkEnds == MustEnd ~> Ended
=============================================================================
