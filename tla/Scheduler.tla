----------------------------- MODULE Scheduler -----------------------------
(***************************************************************************)
(* The cron and interval schedules of one pipeline: the rows of schedules, *)
(* the scheduler goroutine of every server instance that shares the        *)
(* database, and the request that sets the pipeline and synchronises its   *)
(* schedules. One step is one SQL statement or one call of the trigger.    *)
(*                                                                         *)
(* An operator named X_Slip, defined just before X, is a mutant of X.      *)
(***************************************************************************)
EXTENDS Integers, FiniteSets

CONSTANTS
  Jobs,        \* jobs that may declare a schedule; the schedule has their name
  Exprs,       \* schedule expressions, records of a type and a length
  Instances,   \* server instances that share the database
  SchedMaxTime,     \* bound: the clock stops here
  MaxSets,     \* bound: how often the pipeline is set
  SchedOps,         \* the operations the environment may start
  Null

Times == 0..SchedMaxTime
Types == {"interval", "cron"}

\* What the constants are.
ASSUME SchedulerAssumption ==
  /\ IsFiniteSet(Instances)
  /\ Exprs \subseteq [type : Types, n : Nat \ {0}]
  /\ SchedMaxTime \in Nat /\ MaxSets \in Nat
  /\ Null \notin Nat /\ Null \notin Exprs

VARIABLES
  schedNow,                      \* wall clock
  pipeline, pid,            \* "active", "paused" or "gone"; its id
  id, expr, enabled, lastRun, nextRun,  \* columns of schedules, per job
  ids,                      \* schedule ids handed out so far
  pc, at, batch, cur,       \* a scheduler: control, tick time, claims, claim
  setPc, setAt, setTodo, keep,  \* the request that sets the pipeline
  sets,                     \* history: how often the pipeline was set
  arms,                     \* history: next_run_at was given a value, per job
  fires,                    \* history: the trigger was called, per job
  lost                      \* history: jobs whose claim went with a process, or whose update failed

rows == <<id, expr, enabled, lastRun, nextRun, ids>>
tickVars == <<pc, at, batch, cur>>
setVars == <<setPc, setAt, setTodo, keep>>
schedulerVars == <<schedNow, pipeline, pid, id, expr, enabled, lastRun, nextRun, ids, pc, at,
          batch, cur, setPc, setAt, setTodo, keep, sets, arms, fires, lost>>

Exists(j) == id[j] # 0

ComputeNextRun_Backwards(e, from) ==
  IF e.type = "interval" THEN from - e.n ELSE (from \div e.n + 1) * e.n

\* Both kinds of expression give a time strictly after from.
ComputeNextRun(e, from) ==
  IF e.type = "interval" THEN from + e.n ELSE (from \div e.n + 1) * e.n

-----------------------------------------------------------------------------
(* The scheduler goroutine. *)

Due(j) == Exists(j) /\ enabled[j] /\ nextRun[j] # Null /\ nextRun[j] <= schedNow

Claim(j) == [job |-> j, pipeline |-> pid, id |-> id[j], expr |-> expr[j]]

ClaimDueSchedules_KeepsNextRun(i) ==
  LET due == {j \in Jobs : Due(j)}
  IN /\ lastRun' = [j \in Jobs |-> IF j \in due THEN schedNow ELSE lastRun[j]]
     /\ batch' = [batch EXCEPT ![i] = {Claim(j) : j \in due}]
     /\ UNCHANGED nextRun

\* UPDATE ... RETURNING: one statement claims every row that is due.
ClaimDueSchedules(i) ==
  LET due == {j \in Jobs : Due(j)}
  IN /\ lastRun' = [j \in Jobs |-> IF j \in due THEN schedNow ELSE lastRun[j]]
     /\ nextRun' = [j \in Jobs |-> IF j \in due THEN Null ELSE nextRun[j]]
     /\ batch' = [batch EXCEPT ![i] = {Claim(j) : j \in due}]

SchedTick(i) ==
  /\ pc[i] = "wait" /\ \E j \in Jobs : Due(j)
  /\ ClaimDueSchedules(i)
  /\ at' = [at EXCEPT ![i] = schedNow]
  /\ pc' = [pc EXCEPT ![i] = "fire"]
  /\ UNCHANGED <<schedNow, pipeline, pid, id, expr, enabled, ids, cur, setVars, sets, arms,
                 fires, lost>>

\* The pipeline the schedule was claimed for can still be triggered.
Triggerable(c) == pipeline = "active" /\ c.pipeline = pid

\* processSchedule calls the trigger: a deleted pipeline and a full queue are
\* errors, a paused pipeline is not, and all of them are only logged.
Fire(i) ==
  /\ pc[i] = "fire"
  /\ \E c \in batch[i] : \E r \in {"ok", "full"} :
       /\ r = "full" => "full" \in SchedOps /\ Triggerable(c)
       /\ cur' = [cur EXCEPT ![i] = [claim |-> c, result |-> r]]
       /\ batch' = [batch EXCEPT ![i] = @ \ {c}]
       /\ fires' = [fires EXCEPT ![c.job] =
                      IF Triggerable(c) /\ r = "ok" THEN @ + 1 ELSE @]
  /\ pc' = [pc EXCEPT ![i] = "update"]
  /\ UNCHANGED <<schedNow, pipeline, pid, rows, at, setVars, sets, arms, lost>>

UpdateScheduleAfterRun_OnlyOnSuccess(i) ==
  LET c == cur[i].claim
      next == ComputeNextRun(c.expr, at[i])
  IN /\ pc[i] = "update"
     /\ \/ /\ id[c.job] = c.id /\ cur[i].result = "ok"
           /\ lastRun' = [lastRun EXCEPT ![c.job] = at[i]]
           /\ nextRun' = [nextRun EXCEPT ![c.job] = next]
           /\ arms' = [arms EXCEPT ![c.job] = @ + 1]
        \/ /\ id[c.job] # c.id \/ cur[i].result = "full"
           /\ UNCHANGED <<lastRun, nextRun, arms>>
     /\ UNCHANGED lost
     /\ cur' = [cur EXCEPT ![i] = Null]
     /\ pc' = [pc EXCEPT ![i] = IF batch[i] = {} THEN "wait" ELSE "fire"]
     /\ UNCHANGED <<schedNow, pipeline, pid, id, expr, enabled, ids, at, batch, setVars,
                    sets, fires>>

\* The tick's time and the claimed expression decide, whatever the row says by
\* now; a statement that fails is only logged.
UpdateScheduleAfterRun(i) ==
  LET c == cur[i].claim
      next == ComputeNextRun(c.expr, at[i])
  IN /\ pc[i] = "update"
     /\ \/ /\ id[c.job] = c.id
           /\ lastRun' = [lastRun EXCEPT ![c.job] = at[i]]
           /\ nextRun' = [nextRun EXCEPT ![c.job] = next]
           /\ arms' = [arms EXCEPT ![c.job] = @ + 1]
           /\ UNCHANGED lost
        \/ /\ id[c.job] # c.id /\ UNCHANGED <<lastRun, nextRun, arms, lost>>
        \/ /\ "dberror" \in SchedOps /\ lost' = lost \cup {c.job}
           /\ UNCHANGED <<lastRun, nextRun, arms>>
     /\ cur' = [cur EXCEPT ![i] = Null]
     /\ pc' = [pc EXCEPT ![i] = IF batch[i] = {} THEN "wait" ELSE "fire"]
     /\ UNCHANGED <<schedNow, pipeline, pid, id, expr, enabled, ids, at, batch, setVars,
                    sets, fires>>

\* The claims an instance has yet to answer for.
Claimed(i) == batch[i] \cup (IF pc[i] = "update" THEN {cur[i].claim} ELSE {})

\* The process dies, or Stop cancels the context of a tick, and starts again.
InstanceDies(i) ==
  /\ "crash" \in SchedOps /\ pc[i] # "wait"
  /\ pc' = [pc EXCEPT ![i] = "wait"]
  /\ batch' = [batch EXCEPT ![i] = {}]
  /\ cur' = [cur EXCEPT ![i] = Null]
  /\ lost' = lost \cup {c.job : c \in Claimed(i)}
  /\ UNCHANGED <<schedNow, pipeline, pid, rows, at, setVars, sets, arms, fires>>

-----------------------------------------------------------------------------
(* Setting the pipeline: syncSchedules. *)

\* The declared schedules, and the time from which the next runs are computed.
SetPipeline(decl) ==
  /\ setPc = "idle" /\ sets < MaxSets
  /\ sets' = sets + 1
  /\ IF pipeline = "gone"
     THEN pipeline' = "active" /\ pid' = pid + 1
     ELSE UNCHANGED <<pipeline, pid>>
  /\ setPc' = "save"
  /\ setAt' = schedNow
  /\ setTodo' = {<<j, decl[j]>> : j \in {k \in Jobs : decl[k] # Null}}
  /\ keep' = {j \in Jobs : decl[j] # Null}
  /\ UNCHANGED <<schedNow, rows, tickVars, arms, fires, lost>>

\* INSERT ... ON CONFLICT: id, enabled and last_run_at of a row survive.
SaveSchedule(j, e) ==
  /\ setPc = "save" /\ <<j, e>> \in setTodo /\ pipeline # "gone"
  /\ setTodo' = setTodo \ {<<j, e>>}
  /\ expr' = [expr EXCEPT ![j] = e]
  /\ nextRun' = [nextRun EXCEPT ![j] = ComputeNextRun(e, setAt)]
  /\ arms' = [arms EXCEPT ![j] = @ + 1]
  /\ IF Exists(j)
     THEN UNCHANGED <<id, enabled, lastRun, ids>>
     ELSE /\ ids' = ids + 1
          /\ id' = [id EXCEPT ![j] = ids + 1]
          /\ enabled' = [enabled EXCEPT ![j] = TRUE]
          /\ lastRun' = [lastRun EXCEPT ![j] = Null]
  /\ UNCHANGED <<schedNow, pipeline, pid, tickVars, setPc, setAt, keep, sets, fires, lost>>

\* The rows of the jobs in gone are deleted.
Deleted(gone) ==
  /\ id' = [j \in Jobs |-> IF j \in gone THEN 0 ELSE id[j]]
  /\ nextRun' = [j \in Jobs |-> IF j \in gone THEN Null ELSE nextRun[j]]
  /\ lastRun' = [j \in Jobs |-> IF j \in gone THEN Null ELSE lastRun[j]]
  /\ UNCHANGED <<expr, enabled, ids>>

PruneSchedulesByPipeline ==
  /\ setPc = "save" /\ setTodo = {} /\ pipeline # "gone"
  /\ Deleted(Jobs \ keep)
  /\ setPc' = "idle"
  /\ keep' = {}
  /\ UNCHANGED <<schedNow, pipeline, pid, tickVars, setAt, setTodo, sets, arms, fires, lost>>

\* A statement fails (the client has gone, the pipeline was deleted): what is
\* saved stays saved, and nothing is pruned.
SetFails ==
  /\ setPc = "save" /\ (pipeline = "gone" \/ "disconnect" \in SchedOps)
  /\ setPc' = "idle"
  /\ setTodo' = {}
  /\ keep' = {}
  /\ UNCHANGED <<schedNow, pipeline, pid, rows, tickVars, setAt, sets, arms, fires, lost>>

-----------------------------------------------------------------------------
(* The other requests, and time. *)

UpdateScheduleEnabled(j, b) ==
  /\ "enable" \in SchedOps /\ Exists(j)
  /\ enabled' = [enabled EXCEPT ![j] = b]
  /\ UNCHANGED <<schedNow, pipeline, pid, id, expr, lastRun, nextRun, ids, tickVars, setVars,
                 sets, arms, fires, lost>>

PausePipeline(state) ==
  /\ "pause" \in SchedOps /\ pipeline # "gone"
  /\ pipeline' = state
  /\ UNCHANGED <<schedNow, pid, rows, tickVars, setVars, sets, arms, fires, lost>>

DeletePipeline ==
  /\ "delete" \in SchedOps /\ pipeline # "gone"
  /\ pipeline' = "gone"
  /\ Deleted(Jobs)
  /\ UNCHANGED <<schedNow, pid, tickVars, setVars, sets, arms, fires, lost>>

SchedAdvance ==
  /\ schedNow < SchedMaxTime
  /\ schedNow' = schedNow + 1
  /\ UNCHANGED <<pipeline, pid, rows, tickVars, setVars, sets, arms, fires, lost>>

SchedulerInit ==
  /\ schedNow = 0 /\ pipeline = "gone" /\ pid = 0 /\ ids = 0
  /\ id = [j \in Jobs |-> 0] /\ expr = [j \in Jobs |-> Null]
  /\ enabled = [j \in Jobs |-> FALSE]
  /\ lastRun = [j \in Jobs |-> Null] /\ nextRun = [j \in Jobs |-> Null]
  /\ pc = [i \in Instances |-> "wait"] /\ at = [i \in Instances |-> 0]
  /\ batch = [i \in Instances |-> {}] /\ cur = [i \in Instances |-> Null]
  /\ setPc = "idle" /\ setAt = 0 /\ setTodo = {} /\ keep = {}
  /\ sets = 0 /\ arms = [j \in Jobs |-> 0] /\ fires = [j \in Jobs |-> 0] /\ lost = {}

SchedulerStep(i) == SchedTick(i) \/ Fire(i) \/ UpdateScheduleAfterRun(i)

SetStep ==
  \/ \E j \in Jobs, e \in Exprs : SaveSchedule(j, e)
  \/ PruneSchedulesByPipeline
  \/ SetFails

SchedulerNext ==
  \/ \E i \in Instances : SchedulerStep(i) \/ InstanceDies(i)
  \/ \E decl \in [Jobs -> Exprs \cup {Null}] : SetPipeline(decl)
  \/ SetStep
  \/ \E j \in Jobs, b \in BOOLEAN : UpdateScheduleEnabled(j, b)
  \/ \E state \in {"active", "paused"} : PausePipeline(state)
  \/ DeletePipeline
  \/ SchedAdvance

SchedulerSpec == SchedulerInit /\ [][SchedulerNext]_schedulerVars

\* The ticker fires every ten seconds and its goroutine is scheduled; a request
\* runs to its end.
SchedulerFairSpec ==
  SchedulerSpec /\ (\A i \in Instances : WF_schedulerVars(SchedulerStep(i))) /\ WF_schedulerVars(SetStep)

-----------------------------------------------------------------------------
(* Properties. *)

Claims == [job : Jobs, pipeline : Nat, id : Nat, expr : Exprs]

\* Every variable keeps the shape of the column or local it models.
SchedulerTypeOK ==
  /\ schedNow \in Times /\ pipeline \in {"active", "paused", "gone"}
  /\ pid \in Nat /\ ids \in Nat
  /\ id \in [Jobs -> Nat] /\ expr \in [Jobs -> Exprs \cup {Null}]
  /\ enabled \in [Jobs -> BOOLEAN]
  /\ lastRun \in [Jobs -> Times \cup {Null}] /\ nextRun \in [Jobs -> Nat \cup {Null}]
  /\ pc \in [Instances -> {"wait", "fire", "update"}]
  /\ at \in [Instances -> Times] /\ batch \in [Instances -> SUBSET Claims]
  /\ cur \in [Instances -> [claim : Claims, result : {"ok", "full"}] \cup {Null}]
  /\ setPc \in {"idle", "save"} /\ setAt \in Times
  /\ setTodo \subseteq Jobs \X Exprs /\ keep \subseteq Jobs
  /\ sets \in 0..MaxSets /\ arms \in [Jobs -> Nat] /\ fires \in [Jobs -> Nat]
  /\ lost \subseteq Jobs

Holds(i, j) == \E c \in Claimed(i) : c.job = j /\ c.id = id[j]

\* The next run of a schedule that no instance is about to write is known: unless a process died with the claim
\* or the write that ends it failed, a claim is never forgotten, although setting, pausing or deleting the
\* pipeline and other instances come between the two.
ClaimIsNeverForgotten ==
  \A j \in Jobs \ lost : Exists(j) /\ nextRun[j] = Null => \E i \in Instances : Holds(i, j)

\* Every value of next_run_at triggers the pipeline at most once, whichever
\* instances poll: the triggers, the claims that will trigger and the value
\* that still can be claimed never outnumber the values written.
NextRunFiresOnce ==
  \A j \in Jobs :
    fires[j] + Cardinality({i \in Instances : \E c \in batch[i] : c.job = j})
             + (IF nextRun[j] # Null THEN 1 ELSE 0) <= arms[j]

=============================================================================
