------------------------------ MODULE MCServer ------------------------------
(***************************************************************************)
(* Instances for TLC of what the server does around its runs: ApprovalGate,*)
(* Scheduler twice, PassedTriggers, Webhooks twice and LoginCodes. Each     *)
(* behaviour is a behaviour of one part, the one named by part, while the   *)
(* others stay in their initial state, the gate's with its job over.        *)
(***************************************************************************)
EXTENDS ApprovalGate, Scheduler, PassedTriggers, Webhooks, LoginCodes

CONSTANTS q1, q2

TwoResolvers == {q1, q2}

VARIABLE part

all == <<part, vars, schedulerVars, passedVars, webhooksVars, loginVars>>

\* The gate's state in the behaviours of the other parts.
GateClosed ==
  /\ now = 0 /\ gstatus = [g \in GateIds |-> "absent"] /\ gates = 0
  /\ rpc = "failed" /\ createdAt = 0 /\ cancelled = FALSE /\ runRow = FALSE
  /\ qpc = [q \in Resolvers |-> "idle"] /\ qgate = [q \in Resolvers |-> 0]
  /\ qact = [q \in Resolvers |-> "approved"] /\ requests = 0 /\ won = {}

-----------------------------------------------------------------------------
(* Scheduler: one job under two instances with every request, and two jobs  *)
(* with crashes and failed statements.                                      *)

Every1 == [type |-> "interval", n |-> 1]
Even == [type |-> "cron", n |-> 2]
Every1AndEven == {Every1, Even}

ClaimsNext == SchedulerNext /\ keep' \subseteq {"j"}

Fires == INSTANCE Scheduler WITH
  Exprs <- {Every1}, SchedMaxTime <- 2, MaxSets <- 1, SchedOps <- {"full", "dberror", "pause", "crash"}

-----------------------------------------------------------------------------
(* PassedTriggers: b is triggered by successes of a.                        *)

BAfterA == "a" :> {} @@ "b" :> {"a"}

-----------------------------------------------------------------------------
(* Webhooks: two deliveries of one event, each executed once, and one       *)
(* delivery whose run is executed twice or outlives the process.            *)

OneKey == "d1" :> "k" @@ "d2" :> "k"

TwoHooksNext == WebhooksNext /\ deaths' = 0 /\ \A d \in Deliveries : exec'[d][2] = NoExec
OneHookNext == WebhooksNext /\ request'["d2"] = "idle"

-----------------------------------------------------------------------------
ServerInit ==
  /\ \/ part = "gate" /\ Init
     \/ part \in {"claims", "fires", "passed", "two hooks", "one hook", "login"} /\ GateClosed
  /\ SchedulerInit /\ PassedInit /\ WebhooksInit /\ LoginInit

InGate(A) == part = "gate" /\ A /\ UNCHANGED <<part, schedulerVars, passedVars, webhooksVars, loginVars>>
InScheduler(p, A) == part = p /\ A /\ UNCHANGED <<part, vars, passedVars, webhooksVars, loginVars>>
InWebhooks(p, A) == part = p /\ A /\ UNCHANGED <<part, vars, schedulerVars, passedVars, loginVars>>

GateStep == InGate(Next)
ClaimsStep == InScheduler("claims", ClaimsNext)
FiresStep == InScheduler("fires", Fires!SchedulerNext)
PassedStep == part = "passed" /\ PassedNext /\ UNCHANGED <<part, vars, schedulerVars, webhooksVars, loginVars>>
TwoHooksStep == InWebhooks("two hooks", TwoHooksNext)
OneHookStep == InWebhooks("one hook", OneHookNext)
LoginStep == part = "login" /\ LoginNext /\ UNCHANGED <<part, vars, schedulerVars, passedVars, webhooksVars>>
ServerNext ==
  GateStep \/ ClaimsStep \/ FiresStep \/ PassedStep \/ TwoHooksStep \/ OneHookStep \/ LoginStep

\* The fairness of ApprovalGate.
ServerSpec ==
  ServerInit /\ [][ServerNext]_all /\ WF_all(InGate(JobStep)) /\ WF_all(InGate(Advance))

-----------------------------------------------------------------------------
(* Properties. *)

\* Type correctness of every part.
ServerTypes == TypeOK /\ SchedulerTypeOK /\ PassedTypeOK /\ WebhooksTypeOK /\ LoginTypeOK
=============================================================================
