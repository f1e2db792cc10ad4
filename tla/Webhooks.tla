------------------------------ MODULE Webhooks ------------------------------
(***************************************************************************)
(* Webhook deliveries (server/api_webhooks_controller.go and the parts of  *)
(* server/execution.go, runtime/js.go, runtime/jsapi/http.go and           *)
(* storage/sqlite/webhook_dedup.go behind it).  The handler saves the run, *)
(* parks a response channel for it, dispatches it or leaves it to the       *)
(* queue processor, and waits a while for the script's answer.  The         *)
(* processor and the handler may both dispatch one run.                     *)
(*                                                                          *)
(* An operator named X_Slip, defined just before X, is a mutant of X.       *)
(***************************************************************************)
EXTENDS Naturals, FiniteSets

CONSTANTS
    Deliveries,
    KeyOf,          \* [Deliveries -> its dedup key, or "none"]
    MaxInFlight,    \* ExecutionService.MaxInFlight
    MaxQueueSize,   \* ExecutionService.MaxQueueSize
    MaxExecs,       \* bound: executions of one run
    MaxDeaths       \* bound: deaths of the process

ASSUME WebhooksAssumption == MaxExecs \in Nat /\ MaxDeaths \in Nat

VARIABLES
    request,        \* [Deliveries -> where its handler is, or the answer it gave]
    row,            \* [Deliveries -> the run's row: "none", "queued", "running", "over"]
    pending,        \* pendingWebhooks: the runs with a parked channel
    chan,           \* the response channels that hold an answer
    exec,           \* [Deliveries -> [1..MaxExecs -> execution]]
    listed,         \* the queued runs that the processor is going through
    dedup,          \* the rows of webhook_dedup
    old,            \* those older than the TTL
    pruned,         \* history: keys whose row was deleted
    deaths

webhooksVars == <<request, row, pending, chan, exec, listed, dedup, old, pruned, deaths>>
hooks == <<dedup, old, pruned>>

Keys == {KeyOf[d] : d \in Deliveries} \ {"none"}
Ids == 1..MaxExecs
Answers == {"refused", "full", "responded", "accepted", "lost"}
NoExec == [at |-> "none", data |-> FALSE, passed |-> FALSE, responded |-> FALSE]
NewExec(data) == [at |-> "begin", data |-> data, passed |-> FALSE, responded |-> FALSE]
Live(x) == x.at \notin {"none", "over"}
InFlight == Cardinality({di \in Deliveries \X Ids : Live(exec[di[1]][di[2]])})
CanExecute == InFlight < MaxInFlight
CanAccept == CanExecute \/ Cardinality({d \in Deliveries : row[d] = "queued"}) < MaxQueueSize

Goes(d, from, to) == request[d] = from /\ request' = [request EXCEPT ![d] = to]
Free(d) == {i \in Ids : exec[d][i].at = "none"}
Becomes(d, i, x) == exec' = [exec EXCEPT ![d][i] = x]
At(d, i, s) == [exec[d][i] EXCEPT !.at = s]

WebhooksInit ==
    /\ request = [d \in Deliveries |-> "idle"] /\ row = [d \in Deliveries |-> "none"]
    /\ pending = {} /\ chan = {} /\ exec = [d \in Deliveries |-> [i \in Ids |-> NoExec]] /\ listed = {}
    /\ dedup = {} /\ old = {} /\ pruned = {} /\ deaths = 0

---------------------------------------------------------------------------
(* The handler. *)

\* Feature off, no such pipeline, paused, no readable secret, no provider or a wrong signature: no run.
Refuse(d) ==
    /\ Goes(d, "idle", "refused")
    /\ UNCHANGED <<row, pending, chan, exec, listed, hooks, deaths>>

\* TriggerWebhookPipeline admits: queue full, a terminal row (skipped, or a rule that does not evaluate), or a
\* queued row that may be dispatched at once or has to stay behind its peers.
Admit(d) ==
    /\ \/ ~CanAccept /\ Goes(d, "idle", "full") /\ UNCHANGED row
       \/ CanAccept /\ Goes(d, "idle", "wait") /\ row' = [row EXCEPT ![d] = "over"]
       \/ /\ CanAccept /\ row' = [row EXCEPT ![d] = "queued"]
          /\ Goes(d, "idle", "park") \/ Goes(d, "idle", "park behind")
    /\ UNCHANGED <<pending, chan, exec, listed, hooks, deaths>>

Park(d) ==
    /\ Goes(d, "park", "dispatch") \/ Goes(d, "park behind", "leave")
    /\ pending' = pending \cup {d}
    /\ UNCHANGED <<row, chan, exec, listed, hooks, deaths>>

\* dispatchOrQueue: the run is executed although the processor may have dispatched it already.
Dispatch(d) ==
    /\ \/ /\ CanExecute /\ Goes(d, "dispatch", "unpark")
          /\ \E i \in Free(d) : Becomes(d, i, NewExec(TRUE))
       \/ ~CanExecute /\ Goes(d, "dispatch", "wait") /\ UNCHANGED exec
       \/ Goes(d, "leave", "wait") /\ UNCHANGED exec
    /\ UNCHANGED <<row, pending, chan, listed, hooks, deaths>>

Unpark(d) ==
    /\ Goes(d, "unpark", "wait") /\ pending' = pending \ {d}
    /\ UNCHANGED <<row, chan, exec, listed, hooks, deaths>>

\* triggerWebhookPipelineResponse: the script's answer, or 202 after the timeout.
AnswerArrives(d) ==
    /\ d \in chan /\ Goes(d, "wait", "responded") /\ chan' = chan \ {d}
    /\ UNCHANGED <<row, pending, exec, listed, hooks, deaths>>

TimesOut(d) ==
    /\ Goes(d, "wait", "accepted")
    /\ UNCHANGED <<row, pending, chan, exec, listed, hooks, deaths>>

---------------------------------------------------------------------------
(* The queue processor. *)

ListQueued ==
    /\ listed = {} /\ listed' = {d \in Deliveries : row[d] = "queued"} /\ listed' # {}
    /\ UNCHANGED <<request, row, pending, chan, exec, hooks, deaths>>

\* buildQueuedExecOptions: a run without a parked channel is executed without the request.
Take(d) ==
    /\ d \in listed /\ CanExecute
    /\ \E i \in Free(d), data \in BOOLEAN : (data <=> d \in pending) /\ Becomes(d, i, NewExec(data))
    /\ listed' = listed \ {d} /\ pending' = pending \ {d}
    /\ UNCHANGED <<request, row, chan, hooks, deaths>>

\* Its group is busy, no slot is free, the list ends, or the pipeline cannot be read and the run is failed.
PassOver(d) ==
    /\ d \in listed /\ listed' = listed \ {d}
    /\ row' = row \/ row' = [row EXCEPT ![d] = "over"]
    /\ UNCHANGED <<request, pending, chan, exec, hooks, deaths>>

---------------------------------------------------------------------------
(* An execution. *)

\* The row says running unless it is final already, which stops nothing.
Start(d, i) ==
    /\ exec[d][i].at = "begin" /\ Becomes(d, i, At(d, i, "filter"))
    /\ row' = [row EXCEPT ![d] = IF @ = "queued" THEN "running" ELSE @]
    /\ UNCHANGED <<request, pending, chan, listed, hooks, deaths>>

\* evaluateWebhookFilter: a filter that does not match or fails skips the job; without the request every job runs
\* and nothing is a duplicate.
Filter(d, i) ==
    /\ exec[d][i].at = "filter"
    /\ \/ exec[d][i].data /\ Becomes(d, i, At(d, i, "skip"))
       \/ exec[d][i].data /\ KeyOf[d] # "none" /\ Becomes(d, i, At(d, i, "prune"))
       \/ (~exec[d][i].data \/ KeyOf[d] = "none") /\ Becomes(d, i, At(d, i, "work"))
    /\ UNCHANGED <<request, row, pending, chan, listed, hooks, deaths>>

\* evaluateWebhookDedup: rows past their TTL go first; a failure only is logged.
PruneWebhookDedup(d, i) ==
    /\ exec[d][i].at = "prune" /\ Becomes(d, i, At(d, i, "record"))
    /\ \/ dedup' = dedup \ old /\ pruned' = pruned \cup old /\ old' = {}
       \/ UNCHANGED hooks
    /\ UNCHANGED <<request, row, pending, chan, listed, deaths>>

RecordWebhookDedup_ReadsOnly(d, i) ==
    /\ exec[d][i].at = "record"
    /\ Becomes(d, i, IF KeyOf[d] \in dedup THEN At(d, i, "skip") ELSE [At(d, i, "work") EXCEPT !.passed = TRUE])
    /\ UNCHANGED <<request, row, pending, chan, listed, hooks, deaths>>

\* INSERT OR IGNORE: whoever finds no row has written it.
RecordWebhookDedup(d, i) ==
    /\ exec[d][i].at = "record" /\ dedup' = dedup \cup {KeyOf[d]}
    /\ Becomes(d, i, IF KeyOf[d] \in dedup THEN At(d, i, "skip") ELSE [At(d, i, "work") EXCEPT !.passed = TRUE])
    /\ UNCHANGED <<request, row, pending, chan, listed, old, pruned, deaths>>

\* A statement that fails lets the job run.
RecordFails(d, i) ==
    /\ exec[d][i].at = "record" /\ Becomes(d, i, At(d, i, "work"))
    /\ UNCHANGED <<request, row, pending, chan, listed, hooks, deaths>>

\* http.respond: once per execution, on the script's thread, into a channel that holds one answer.
Respond(d, i) ==
    /\ exec[d][i].at = "work" /\ exec[d][i].data /\ ~exec[d][i].responded
    /\ Becomes(d, i, At(d, i, "respond"))
    /\ UNCHANGED <<request, row, pending, chan, listed, hooks, deaths>>

Room_Unbuffered(d) == d \notin chan /\ request[d] = "wait"

Room(d) == d \notin chan

Send(d, i) ==
    /\ exec[d][i].at = "respond" /\ Room(d) /\ chan' = chan \cup {d}
    /\ Becomes(d, i, [At(d, i, "work") EXCEPT !.responded = TRUE])
    /\ UNCHANGED <<request, row, pending, listed, hooks, deaths>>

Finish(d, i) ==
    /\ exec[d][i].at \in {"work", "skip"} /\ Becomes(d, i, At(d, i, "over"))
    /\ row' = [row EXCEPT ![d] = "over"]
    /\ UNCHANGED <<request, pending, chan, listed, hooks, deaths>>

---------------------------------------------------------------------------
\* External: the row of a key passes its TTL.
Ages(k) ==
    /\ k \in dedup \ (old \cup pruned) /\ old' = old \cup {k}
    /\ UNCHANGED <<request, row, pending, chan, exec, listed, dedup, pruned, deaths>>

\* The process ends and starts again: the channels and the callers are gone; queued rows stay queued, running
\* ones are failed or, where the pipeline is resumable, queued again.
ProcessDies ==
    /\ deaths < MaxDeaths /\ deaths' = deaths + 1
    /\ request' = [d \in Deliveries |-> IF request[d] \in Answers \cup {"idle"} THEN request[d] ELSE "lost"]
    /\ \E again \in SUBSET {d \in Deliveries : row[d] = "running"} :
        row' = [d \in Deliveries |-> IF d \in again THEN "queued" ELSE IF row[d] = "running" THEN "over" ELSE row[d]]
    /\ exec' = [d \in Deliveries |-> [i \in Ids |-> IF Live(exec[d][i]) THEN At(d, i, "over") ELSE exec[d][i]]]
    /\ pending' = {} /\ chan' = {} /\ listed' = {}
    /\ UNCHANGED hooks

WebhooksNext ==
    \/ \E d \in Deliveries : \/ Refuse(d) \/ Admit(d) \/ Park(d) \/ Dispatch(d) \/ Unpark(d) \/ AnswerArrives(d)
                             \/ TimesOut(d) \/ Take(d) \/ PassOver(d)
    \/ \E d \in Deliveries, i \in Ids : \/ Start(d, i) \/ Filter(d, i) \/ PruneWebhookDedup(d, i)
                                        \/ RecordWebhookDedup(d, i) \/ RecordFails(d, i)
                                        \/ Respond(d, i) \/ Send(d, i) \/ Finish(d, i)
    \/ \E k \in Keys : Ages(k)
    \/ ListQueued \/ ProcessDies

WebhooksSpec == WebhooksInit /\ [][WebhooksNext]_webhooksVars

---------------------------------------------------------------------------
(* Properties. *)

ExecStates == {"none", "begin", "filter", "prune", "record", "work", "respond", "skip", "over"}
Execs == [at : ExecStates, data : BOOLEAN, passed : BOOLEAN, responded : BOOLEAN]

\* Type correctness of the handlers, the channels, the executions and the dedup rows.
WebhooksTypeOK ==
    /\ request \in [Deliveries -> Answers \cup {"idle", "park", "park behind", "dispatch", "leave", "unpark", "wait"}]
    /\ row \in [Deliveries -> {"none", "queued", "running", "over"}]
    /\ pending \subseteq Deliveries /\ chan \subseteq Deliveries /\ listed \subseteq Deliveries
    /\ exec \in [Deliveries -> [Ids -> Execs]] /\ deaths \in 0..MaxDeaths
    /\ dedup \subseteq Keys /\ old \subseteq dedup /\ pruned \subseteq Keys

\* Of all the deliveries and executions that carry one key, and can record it, one runs the job, as long as the
\* key's row has not passed its TTL (RecordWebhookDedup).
HandledOnce ==
    \A k \in Keys \ pruned :
        Cardinality({di \in Deliveries \X Ids : KeyOf[di[1]] = k /\ exec[di[1]][di[2]].passed}) <= 1

\* http.respond blocks the script's thread only when another execution of the same run has answered already: a
\* caller that stopped waiting costs the only execution of a run nothing (http.go Respond, Trigger).
OnlyASecondAnswerBlocks ==
    \A d \in Deliveries, i \in Ids :
        exec[d][i].at = "respond" /\ ~Room(d) /\ request[d] \in Answers => \E j \in Ids \ {i} : exec[d][j].responded

\* Of the executions that carry one dedup key one runs the job, and no answer of the only execution of a run
\* blocks it.
HookIsHandledOnce == HandledOnce /\ OnlyASecondAnswerBlocks
=============================================================================
