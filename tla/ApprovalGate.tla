---------------------------- MODULE ApprovalGate ----------------------------
(***************************************************************************)
(* The approval gate of one job of one run: the job's polling loop, the    *)
(* approve and reject endpoints, and the rows of gates. An execution that  *)
(* starts again after a crash or a resume opens a new gate. One step is    *)
(* one SQL statement or one look at the clock.                             *)
(*                                                                         *)
(* An operator named X_Slip, defined just before X, is a mutant of X.      *)
(***************************************************************************)
EXTENDS Integers, FiniteSets

CONSTANTS
  Resolvers,      \* requests to a gate endpoint that can be active at once
  Timeout,        \* the gate's timeout, 0 for none
  TimeoutParses,  \* whether the timeout is a duration (scripts are not checked)
  GatesEnabled,   \* the "gates" feature
  MaxGates,       \* bound: gates opened, one per execution of the job
  MaxRequests,    \* bound: requests to a gate endpoint
  MaxTime,        \* bound: the clock stops here
  Ops             \* the operations the environment may start

GateIds == 1..MaxGates
Decisions == {"approved", "rejected"}
Resolved == Decisions \cup {"timed_out"}

ASSUME GateAssumption ==
  /\ Timeout \in Nat /\ MaxGates \in Nat /\ MaxRequests \in Nat /\ MaxTime \in Nat
  /\ TimeoutParses \in BOOLEAN /\ GatesEnabled \in BOOLEAN

VARIABLES
  now,                 \* wall clock
  gstatus,             \* status column of gates; "absent" is no row
  gates,               \* gates opened so far
  rpc, createdAt,      \* control and locals of the job's goroutine
  cancelled,           \* the execution's context
  runRow,              \* whether pipeline_runs still has the run
  qpc, qgate, qact,    \* control, gate and decision of every request
  requests,            \* history: requests so far
  won                  \* history: decisions answered with 200, per gate

vars == <<now, gstatus, gates, rpc, createdAt, cancelled, runRow, qpc, qgate,
          qact, requests, won>>
reqVars == <<qpc, qgate, qact, requests, won>>

-----------------------------------------------------------------------------
(* The rows of gates. *)

ResolveGate_AnyStatus(g, st) ==
  [gstatus EXCEPT ![g] = IF @ # "absent" THEN st ELSE @]

\* UPDATE ... WHERE id = ? AND status = 'pending'.
ResolveGate(g, st) == [gstatus EXCEPT ![g] = IF @ = "pending" THEN st ELSE @]

-----------------------------------------------------------------------------
(* runGate and pollGate. *)

\* The gate of this execution is the last one opened.
RunGate ==
  /\ rpc = "start" /\ gates < MaxGates
  /\ gates' = gates + 1
  /\ createdAt' = now
  /\ rpc' = "save"
  /\ UNCHANGED <<now, gstatus, cancelled, runRow, reqVars>>

\* The foreign key refuses a gate of a run that is gone.
SaveGate ==
  /\ rpc = "save"
  /\ IF cancelled \/ ~runRow
     THEN rpc' = "failed" /\ UNCHANGED gstatus
     ELSE /\ gstatus' = [gstatus EXCEPT ![gates] = "pending"]
          /\ rpc' = IF TimeoutParses THEN "check" ELSE "failed"
  /\ UNCHANGED <<now, gates, createdAt, cancelled, runRow, reqVars>>

CheckDeadline_Ignored ==
  /\ rpc = "check"
  /\ rpc' = "get"
  /\ UNCHANGED <<now, gstatus, gates, createdAt, cancelled, runRow, reqVars>>

CheckDeadline ==
  /\ rpc = "check"
  /\ rpc' = IF Timeout > 0 /\ now > createdAt + Timeout THEN "expire" ELSE "get"
  /\ UNCHANGED <<now, gstatus, gates, createdAt, cancelled, runRow, reqVars>>

Expire_UnknownStatus ==
  /\ rpc = "expire"
  /\ gstatus' = IF cancelled THEN gstatus ELSE ResolveGate(gates, "timeout")
  /\ rpc' = "failed"
  /\ UNCHANGED <<now, gates, createdAt, cancelled, runRow, reqVars>>

\* The job fails as timed out even when ResolveGate finds no pending row.
Expire ==
  /\ rpc = "expire"
  /\ gstatus' = IF cancelled THEN gstatus ELSE ResolveGate(gates, "timed_out")
  /\ rpc' = "failed"
  /\ UNCHANGED <<now, gates, createdAt, cancelled, runRow, reqVars>>

GetGate_RejectedPasses ==
  /\ rpc = "get"
  /\ rpc' = IF cancelled \/ gstatus[gates] = "absent" THEN "failed"
            ELSE IF gstatus[gates] = "pending" THEN "wait"
            ELSE IF gstatus[gates] = "timed_out" THEN "failed" ELSE "passed"
  /\ UNCHANGED <<now, gstatus, gates, createdAt, cancelled, runRow, reqVars>>

GetGate ==
  /\ rpc = "get"
  /\ rpc' = IF cancelled \/ gstatus[gates] = "absent" THEN "failed"
            ELSE IF gstatus[gates] = "pending" THEN "wait"
            ELSE IF gstatus[gates] = "approved" THEN "passed" ELSE "failed"
  /\ UNCHANGED <<now, gstatus, gates, createdAt, cancelled, runRow, reqVars>>

\* select: with both channels ready either case may be taken.
PollWait ==
  /\ rpc = "wait"
  /\ \/ cancelled /\ rpc' = "failed"
     \/ rpc' = "check"
  /\ UNCHANGED <<now, gstatus, gates, createdAt, cancelled, runRow, reqVars>>

-----------------------------------------------------------------------------
(* The approve and reject endpoints. *)

\* The gate is fetched for the access check; without a row the answer is an error.
Request(q, g, act) ==
  /\ GatesEnabled /\ qpc[q] = "idle" /\ requests < MaxRequests
  /\ gstatus[g] # "absent"
  /\ requests' = requests + 1
  /\ qpc' = [qpc EXCEPT ![q] = "resolve"]
  /\ qgate' = [qgate EXCEPT ![q] = g]
  /\ qact' = [qact EXCEPT ![q] = act]
  /\ UNCHANGED <<now, gstatus, gates, rpc, createdAt, cancelled, runRow, won>>

\* One row changed is 200, none is 409 (or 404): the statement decides.
Resolve(q) ==
  /\ qpc[q] = "resolve"
  /\ gstatus' = ResolveGate(qgate[q], qact[q])
  /\ won' = IF gstatus'[qgate[q]] # gstatus[qgate[q]]
            THEN won \cup {<<qgate[q], qact[q], q>>} ELSE won
  /\ qpc' = [qpc EXCEPT ![q] = "idle"]
  /\ UNCHANGED <<now, gates, rpc, createdAt, cancelled, runRow, qgate, qact,
                 requests>>

-----------------------------------------------------------------------------
(* Stopping, deleting, crashing and resuming the run; time. *)

Waiting == {"start", "save", "check", "expire", "get", "wait"}

StopRun ==
  /\ "stop" \in Ops /\ rpc \in Waiting /\ ~cancelled
  /\ cancelled' = TRUE
  /\ UNCHANGED <<now, gstatus, gates, rpc, createdAt, runRow, reqVars>>

\* ON DELETE CASCADE: the gates go with the run, pruned or deleted with its
\* pipeline.
DeleteRun ==
  /\ "delete" \in Ops /\ runRow
  /\ runRow' = FALSE
  /\ gstatus' = [g \in GateIds |-> "absent"]
  /\ UNCHANGED <<now, gates, rpc, createdAt, cancelled, reqVars>>

Crash ==
  /\ "crash" \in Ops /\ rpc \in Waiting
  /\ rpc' = "down"
  /\ cancelled' = FALSE
  /\ qpc' = [q \in Resolvers |-> "idle"]
  /\ UNCHANGED <<now, gstatus, gates, createdAt, runRow, qgate, qact, requests, won>>

\* Bound: an execution starts early enough for its gate's deadline to pass
\* before the end of time.
DeadlineFits(t) == t + Timeout < MaxTime

\* Recovery, or the resume endpoint, executes the job again.
ResumeRun ==
  /\ "resume" \in Ops /\ rpc \in {"down", "failed"} /\ runRow
  /\ gates < MaxGates /\ DeadlineFits(now)
  /\ rpc' = "start"
  /\ cancelled' = FALSE
  /\ UNCHANGED <<now, gstatus, gates, createdAt, runRow, reqVars>>

Advance ==
  /\ now < MaxTime
  /\ rpc = "start" => DeadlineFits(now + 1)
  /\ now' = now + 1
  /\ UNCHANGED <<gstatus, gates, rpc, createdAt, cancelled, runRow, reqVars>>

Init ==
  /\ now = 0 /\ gstatus = [g \in GateIds |-> "absent"] /\ gates = 0
  /\ rpc = "start" /\ createdAt = 0 /\ cancelled = FALSE /\ runRow = TRUE
  /\ qpc = [q \in Resolvers |-> "idle"] /\ qgate = [q \in Resolvers |-> 0]
  /\ qact = [q \in Resolvers |-> "approved"] /\ requests = 0 /\ won = {}

JobStep ==
  RunGate \/ SaveGate \/ CheckDeadline \/ Expire \/ GetGate \/ PollWait

Next ==
  \/ JobStep
  \/ \E q \in Resolvers : \/ \E g \in GateIds, act \in Decisions : Request(q, g, act)
                          \/ Resolve(q)
  \/ StopRun \/ DeleteRun \/ Crash \/ ResumeRun
  \/ Advance

Spec == Init /\ [][Next]_vars

\* The poll timer fires, the goroutine is scheduled and time goes on.
FairSpec == Spec /\ WF_vars(JobStep) /\ WF_vars(Advance)

-----------------------------------------------------------------------------
(* Properties. *)

\* Every variable keeps the shape of the column or local it models.
TypeOK ==
  /\ now \in 0..MaxTime /\ gates \in 0..MaxGates /\ createdAt \in 0..MaxTime
  /\ gstatus \in [GateIds -> Resolved \cup {"pending", "absent"}]
  /\ rpc \in Waiting \cup {"passed", "failed", "down"}
  /\ cancelled \in BOOLEAN /\ runRow \in BOOLEAN
  /\ qpc \in [Resolvers -> {"idle", "resolve"}]
  /\ qgate \in [Resolvers -> 0..MaxGates] /\ qact \in [Resolvers -> Decisions]
  /\ requests \in 0..MaxRequests
  /\ won \subseteq GateIds \X Decisions \X Resolvers

\* A job gets past its gate only if somebody was told that they approved the
\* gate of this very execution: not by the approval of a gate an earlier
\* execution left behind, not by a rejection, and not because time ran out.
PassedWasApproved == rpc = "passed" => \E q \in Resolvers : <<gates, "approved", q>> \in won

\* Of all the requests that race to resolve a gate, and the job that times it
\* out, at most one is told that it has, and the row keeps what it was told.
OneResolution ==
  /\ \A x, y \in won : x[1] = y[1] => x = y
  /\ \A x \in won : gstatus[x[1]] \in {x[2], "absent"}

\* What the two properties above rest on: the goroutine and every request work
\* on a gate that was opened; a gate not yet saved has no row and no resolver;
\* and a row is approved only because a request was told so.
GateOpened ==
  /\ rpc \in Waiting \ {"start"} => gates \in GateIds
  /\ \A q \in Resolvers : qpc[q] = "resolve" => qgate[q] \in GateIds
Unsaved(g) == g > gates \/ (g = gates /\ rpc = "save")
UnsavedIsUnresolved ==
  \A g \in GateIds : Unsaved(g) => gstatus[g] = "absent" /\ \A x \in won : x[1] # g
ApprovalIsKnown ==
  \A g \in GateIds :
    gstatus[g] = "approved" => \E q \in Resolvers : <<g, "approved", q>> \in won
GateInv == GateOpened /\ UnsavedIsUnresolved /\ ApprovalIsKnown
             /\ OneResolution /\ PassedWasApproved

\* A job that waits at a gate with a timeout goes on, fails, or dies with the
\* server: nobody has to answer.
GateWaitEnds == rpc \in Waiting ~> rpc \in {"passed", "failed", "down"}

=============================================================================
