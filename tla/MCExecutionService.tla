------------------------- MODULE MCExecutionService -------------------------
(***************************************************************************)
(* Instances of ExecutionService for TLC.                                  *)
(***************************************************************************)
EXTENDS ExecutionService, TLC

CONSTANTS p1, p2, c1, c2, g1

OnePipeline == {p1}
TwoPipelines == {p1, p2}
OneCaller == {c1}
TwoCallers == {c1, c2}

SerialMode == [pl \in Pipelines |-> "serial"]
NoMode == [pl \in Pipelines |-> "none"]
GroupMode == [pl \in Pipelines |-> IF pl = p1 THEN "group" ELSE "serial"]
MixedMode == [pl \in Pipelines |-> IF pl = p1 THEN "serial" ELSE "skip-if-running"]

FaultyGroup == [pl \in Pipelines |-> {g1, TemplateError}]
NoTemplate == [pl \in Pipelines |-> {}]

NoRetention == [pl \in Pipelines |-> 0]
KeepOne == [pl \in Pipelines |-> 1]

EverySecond == [r \in RunIds |-> r]
PairsPerSecond == [r \in RunIds |-> (r + 1) \div 2]

CallerSymmetry == Permutations(Callers)

-----------------------------------------------------------------------------
(* What the documentation or a comment says of the program and the code     *)
(* does not do.                                                             *)

Executing(e) == epc[e] \in {"exec", "write"}

\* docs/operations/execution-queue.md, "serial": one run per pipeline at a time.
SerialRunsDoNotOverlap ==
  \A e, f \in Execs :
    /\ e # f /\ Executing(e) /\ Executing(f)
    /\ pipe[erun[e]] = pipe[erun[f]] /\ Mode[pipe[erun[e]]] = "serial"
    => erun[e] = erun[f]

\* docs/operations/execution-queue.md, Disabling the Queue: --max-queue-size 0
\* disables queuing entirely, so no run is left waiting in a queue.
NoRunWaitsForever ==
  \A r \in RunIds : status[r] = "queued" ~> status[r] # "queued"

\* server/api_runs_controller.go: only failed runs can be resumed.
OnlyFailedRunsAreResumed ==
  [][\A p \in Callers : pc[p] = "reset" /\ pc'[p] = "dispatch" =>
       status[run[p]] = "failed"]_vars
=============================================================================
