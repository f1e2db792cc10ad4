------------------------- MODULE StepEngineProofs -------------------------
(***************************************************************************)
(* Theorems about StepEngine, for every set of plans: the calls of          *)
(* processStep form a tree, and what follows from that for errors, hooks,   *)
(* attempts, fail_fast and max_in_flight.                                   *)
(***************************************************************************)
EXTENDS StepEngine, FiniteSetTheorems, TLAPS

-----------------------------------------------------------------------------
(* What a plan is. *)

Kinds == Leaves \cup {"do", "try"} \cup Forks
Serial == {"do", "try"}
OutcomeHooks == HookNames \ {"ensure"}
FailureHooks == {"on_failure", "on_error", "on_abort"}

StepsAreSteps ==
  \A s \in Names :
    /\ StepOf(s).kind \in Kinds
    /\ Inner(s) \in Seq(Names) /\ (StepOf(s).kind \in Leaves => Inner(s) = <<>>)
    /\ StepOf(s).may \subseteq Errors /\ StepOf(s).limit \in Nat /\ StepOf(s).failFast \in BOOLEAN
    /\ StepOf(s).attempts \in Nat /\ StepOf(s).attempts >= 1
    /\ \A h : HookOf(s, h) # None => h \in HookNames /\ HookOf(s, h) \in Names

JobIsJob ==
  /\ None \notin Names /\ IsFiniteSet(Names)
  /\ job.plan \in Seq(Names) /\ job.maxInFlight \in Nat
  /\ \A h : JobHook(h) # None => h \in HookNames /\ JobHook(h) \in Names

\* The place of a step: what is an inner step is no hook, and so on.
InnerPlace ==
  \A s \in Names : \A i \in 1..Len(Inner(s)) :
    /\ \A t \in Names : \A k \in 1..Len(Inner(t)) : Inner(s)[i] = Inner(t)[k] => s = t /\ i = k
    /\ \A t \in Names : \A h \in HookNames : HookOf(t, h) # Inner(s)[i]
    /\ \A k \in 1..Len(job.plan) : job.plan[k] # Inner(s)[i]
    /\ \A h \in HookNames : JobHook(h) # Inner(s)[i]

HookPlace ==
  \A s \in Names : \A h \in HookNames :
    HookOf(s, h) # None =>
      /\ \A t \in Names : \A g \in HookNames : HookOf(s, h) = HookOf(t, g) => s = t /\ h = g
      /\ \A k \in 1..Len(job.plan) : job.plan[k] # HookOf(s, h)
      /\ \A g \in HookNames : JobHook(g) # HookOf(s, h)

JobPlace ==
  /\ \A i, k \in 1..Len(job.plan) : job.plan[i] = job.plan[k] => i = k
  /\ \A i \in 1..Len(job.plan) : \A h \in HookNames : job.plan[i] # JobHook(h)
  /\ \A g, h \in HookNames : JobHook(g) # None /\ JobHook(g) = JobHook(h) => g = h

Places == InnerPlace /\ HookPlace /\ JobPlace

\* A plan's steps are what the YAML of a step may be.
LEMMA PlanSteps ==
  ASSUME job \in Plans
  PROVE  StepsAreSteps /\ JobIsJob
<1>1. IsJob(job)
      BY PlansAssumption
<1>2. JobIsJob
      BY <1>1 DEF IsJob, JobIsJob, Names, JobHook
<1>3. ASSUME NEW s \in Names PROVE IsStep(job, StepOf(s))
      BY <1>1 DEF IsJob, Names, StepOf
<1>4. StepsAreSteps
      BY <1>3 DEF StepsAreSteps, IsStep, Names, Inner, HookOf, Kinds
<1> QED BY <1>2, <1>4

\* Every step has one place.
LEMMA PlanPlaces ==
  ASSUME job \in Plans
  PROVE  Places
<1>1. OnePlace(job) /\ StepsAreSteps /\ JobIsJob
      BY PlansAssumption, PlanSteps
<1>2. ASSUME NEW s \in Names, NEW i \in 1..Len(Inner(s)) PROVE Inner(s)[i] \in InnerOf(job, s) /\ Inner(s)[i] \in Names
      BY <1>1 DEF InnerOf, ToSet, Inner, StepOf, StepsAreSteps
<1>3. ASSUME NEW s \in Names, NEW h \in HookNames, HookOf(s, h) # None
      PROVE  HookOf(s, h) \in HooksOf(job, s) /\ HookOf(s, h) \in Names
      BY <1>1, <1>3 DEF HooksOf, HookOf, StepOf, StepsAreSteps
<1>4. ASSUME NEW i \in 1..Len(job.plan) PROVE job.plan[i] \in JobParts(job) /\ job.plan[i] \in ToSet(job.plan) /\ job.plan[i] \in Names
      BY <1>1 DEF JobParts, ToSet, JobIsJob
<1>5. ASSUME NEW h \in HookNames, JobHook(h) # None
      PROVE  JobHook(h) \in JobParts(job) /\ JobHook(h) \in {job.hooks[g] : g \in DOMAIN job.hooks} /\ JobHook(h) \in Names
      BY <1>1, <1>5 DEF JobParts, JobHook, JobIsJob
<1>6. ASSUME NEW s \in Names
      PROVE  /\ IsInjective(Inner(s)) /\ IsInjective(StepOf(s).hooks)
             /\ InnerOf(job, s) \cap HooksOf(job, s) = {}
             /\ \A t \in Names \ {s} : (InnerOf(job, s) \cup HooksOf(job, s)) \cap (InnerOf(job, t) \cup HooksOf(job, t)) = {}
             /\ (InnerOf(job, s) \cup HooksOf(job, s)) \cap JobParts(job) = {}
      BY <1>1 DEF OnePlace, Inner, StepOf, Names, PartsOf
<1>7. None \notin Names
      BY <1>1 DEF JobIsJob
<1>8. InnerPlace
  <2> SUFFICES ASSUME NEW s \in Names, NEW i \in 1..Len(Inner(s))
               PROVE  /\ \A t \in Names : \A k \in 1..Len(Inner(t)) : Inner(s)[i] = Inner(t)[k] => s = t /\ i = k
                      /\ \A t \in Names : \A h \in HookNames : HookOf(t, h) # Inner(s)[i]
                      /\ \A k \in 1..Len(job.plan) : job.plan[k] # Inner(s)[i]
                      /\ \A h \in HookNames : JobHook(h) # Inner(s)[i]
      BY DEF InnerPlace
  <2>1. Inner(s)[i] \in InnerOf(job, s) /\ Inner(s)[i] \in Names
      BY <1>2
  <2>2. ASSUME NEW t \in Names, NEW k \in 1..Len(Inner(t)), Inner(s)[i] = Inner(t)[k] PROVE s = t /\ i = k
    <3>1. s = t
      BY <2>1, <2>2, <1>2, <1>6
    <3>2. DOMAIN Inner(s) = 1..Len(Inner(s)) 
      BY <1>1 DEF StepsAreSteps
    <3> QED BY <3>1, <3>2, <2>2, <1>6 DEF IsInjective
  <2>3. ASSUME NEW t \in Names, NEW h \in HookNames PROVE HookOf(t, h) # Inner(s)[i]
      BY <2>1, <1>3, <1>6, <1>7
  <2>4. ASSUME NEW k \in 1..Len(job.plan) PROVE job.plan[k] # Inner(s)[i]
      BY <2>1, <1>4, <1>6
  <2>5. ASSUME NEW h \in HookNames PROVE JobHook(h) # Inner(s)[i]
      BY <2>1, <1>5, <1>6, <1>7
  <2> QED BY <2>2, <2>3, <2>4, <2>5
<1>9. HookPlace
  <2> SUFFICES ASSUME NEW s \in Names, NEW h \in HookNames, HookOf(s, h) # None
               PROVE  /\ \A t \in Names : \A g \in HookNames : HookOf(s, h) = HookOf(t, g) => s = t /\ h = g
                      /\ \A k \in 1..Len(job.plan) : job.plan[k] # HookOf(s, h)
                      /\ \A g \in HookNames : JobHook(g) # HookOf(s, h)
      BY DEF HookPlace
  <2>1. HookOf(s, h) \in HooksOf(job, s) /\ HookOf(s, h) \in Names
      BY <1>3
  <2>2. ASSUME NEW t \in Names, NEW g \in HookNames, HookOf(s, h) = HookOf(t, g) PROVE s = t /\ h = g
    <3>1. s = t
      BY <2>1, <2>2, <1>3, <1>6, <1>7
    <3> QED BY <3>1, <2>1, <2>2, <1>6, <1>7 DEF IsInjective, HookOf
  <2>3. ASSUME NEW k \in 1..Len(job.plan) PROVE job.plan[k] # HookOf(s, h)
      BY <2>1, <1>4, <1>6
  <2>4. ASSUME NEW g \in HookNames PROVE JobHook(g) # HookOf(s, h)
      BY <2>1, <1>5, <1>6, <1>7
  <2> QED BY <2>2, <2>3, <2>4
<1>10. JobPlace
  <2>1. IsInjective(job.plan) /\ IsInjective(job.hooks) /\ ToSet(job.plan) \cap {job.hooks[h] : h \in DOMAIN job.hooks} = {}
      BY <1>1 DEF OnePlace
  <2>2. DOMAIN job.plan = 1..Len(job.plan)
      BY <1>1 DEF JobIsJob
  <2>3. \A i, k \in 1..Len(job.plan) : job.plan[i] = job.plan[k] => i = k
      BY <2>1, <2>2 DEF IsInjective
  <2>4. \A i \in 1..Len(job.plan) : \A h \in HookNames : job.plan[i] # JobHook(h)
      BY <2>1, <1>4, <1>5, <1>7
  <2>5. \A g, h \in HookNames : JobHook(g) # None /\ JobHook(g) = JobHook(h) => g = h
      BY <2>1 DEF IsInjective, JobHook
  <2> QED BY <2>3, <2>4, <2>5 DEF JobPlace
<1> QED BY <1>8, <1>9, <1>10 DEF Places

-----------------------------------------------------------------------------
(* Types, and where a step may be. *)

LocalStep(s) ==
  /\ pc[s] = "retry" => att[s] < StepOf(s).attempts /\ res[s] # "nil"
  /\ pc[s] \in {"count", "call", "hook"} => hook[s] \in OutcomeHooks /\ HookOf(s, hook[s]) # None
  /\ pc[s] = "count" => res[s] # "nil" /\ hook[s] \in FailureHooks
  /\ pc[s] = "ensuring" => HookOf(s, "ensure") # None
  /\ pc[s] = "leaf" => StepOf(s).kind \in Leaves
  /\ pc[s] \in {"inner", "close"} => StepOf(s).kind \notin Leaves
  /\ pc[s] = "join" => StepOf(s).kind \in Forks
  /\ pc[s] = "seq" => StepOf(s).kind \in Serial /\ idx[s] \in 1..Len(Inner(s))

LocalJob ==
  /\ jpc \in OutcomeHooks => JobHook(jpc) # None
  /\ jpc = "ensuring" => JobHook("ensure") # None
  /\ jpc = "step" => jidx \in 1..Len(job.plan)

LocalInv == LocalJob /\ \A s \in Names : LocalStep(s)

TypeInv == EngineTypeOK /\ LocalInv

\* The plan does not change.
SamePlan ==
  /\ job' = job /\ Names' = Names
  /\ \A s : StepOf(s)' = StepOf(s) /\ Inner(s)' = Inner(s)
  /\ \A s, h : HookOf(s, h)' = HookOf(s, h)
  /\ \A h : JobHook(h)' = JobHook(h)

\* What is read from the plan stays.
LEMMA PlanStays == ASSUME job' = job PROVE SamePlan
BY DEF SamePlan, Names, StepOf, Inner, HookOf, JobHook

\* The names of the positions, errors and rows that the steps use.
LEMMA Vocabulary ==
  /\ \A x \in {"idle", "enter", "leaf", "inner", "seq", "join", "close", "retry", "hooks", "count", "call", "hook",
               "ensure", "ensuring", "done", "release"} : x \in Positions
  /\ \A x \in {"nil", "failed", "errored", "aborted", "assertion", "other"} : x \in Errors
  /\ \A x \in {"none", "pending", "running", "success", "failure", "abort", "skipped"} : x \in RowStatuses
BY DEF Positions, Errors, RowStatuses

\* The handlers of leaves return errors.
LEMMA HandlerErrors == ASSUME NEW k \in Leaves PROVE Returns(k) \subseteq Errors
BY DEF Leaves, Errors, Returns, TaskStepReturns, AgentStepReturns, GetReturns, PutReturns, BuildImageReturns,
   NotifyReturns

\* The hook that is chosen is an outcome's.
LEMMA ChosenHooks == ASSUME NEW s PROVE Chosen(s) \in {"none"} \cup OutcomeHooks
BY DEF Chosen, InnerHook, OuterHook, OutcomeHooks, HookNames

\* A step that is not touched stays where it may be.
LEMMA Untouched ==
  ASSUME SamePlan, NEW q, LocalStep(q),
         pc'[q] = pc[q], att'[q] = att[q], res'[q] = res[q], hook'[q] = hook[q], idx'[q] = idx[q]
  PROVE  LocalStep(q)'
BY DEF SamePlan, LocalStep

\* A step that is called is at its first attempt.
LEMMA FirstAttempt ==
  ASSUME CounterType, StepsAreSteps, SamePlan, NEW t \in Names,
         att' = [att EXCEPT ![t] = 1] \/ att' = att,
         idx' = idx \/ \E s \in Names : idx' = [idx EXCEPT ![s] = @ + 1] /\ idx[s] < Len(Inner(s))
  PROVE  CounterType'
<1>1. att' \in [Names -> Nat] /\ \A s \in Names : att'[s] \in 1..StepOf(s).attempts
  <2>1. CASE att' = att
      BY <2>1 DEF CounterType
  <2>2. CASE att' = [att EXCEPT ![t] = 1]
    <3>1. att' \in [Names -> Nat]
      BY <2>2 DEF CounterType
    <3>2. ASSUME NEW s \in Names PROVE att'[s] \in 1..StepOf(s).attempts
      BY <2>2 DEF CounterType, StepsAreSteps
    <3> QED BY <3>1, <3>2
  <2> QED BY <2>1, <2>2
<1>2. idx' \in [Names -> Nat] /\ \A s \in Names : idx'[s] <= Len(Inner(s))
  <2>1. CASE idx' = idx
      BY <2>1 DEF CounterType
  <2>2. ASSUME NEW s \in Names, idx' = [idx EXCEPT ![s] = @ + 1], idx[s] < Len(Inner(s))
        PROVE  idx' \in [Names -> Nat] /\ \A q \in Names : idx'[q] <= Len(Inner(q))
    <3>1. idx' \in [Names -> Nat]
      BY <2>2 DEF CounterType
    <3>2. ASSUME NEW q \in Names PROVE idx'[q] <= Len(Inner(q))
      BY <2>2 DEF CounterType, StepsAreSteps
    <3> QED BY <3>1, <3>2
  <2> QED BY <2>1, <2>2
<1> QED BY <1>1, <1>2 DEF CounterType, SamePlan

\* At these positions nothing is asked of a step.
LEMMA FreePosition ==
  ASSUME NEW q, pc'[q] \in {"idle", "enter", "hooks", "ensure", "done", "release"}
  PROVE  LocalStep(q)'
BY DEF LocalStep

\* The handlers of leaves keep the types.
LEMMA LeafTypes ==
  ASSUME TypeInv, NEW s \in Names,
         \/ EnterLeaf(s) \/ LoadAgentFails(s) \/ ConfigFails(s) \/ AgentPersists(s) \/ ReturnLeaf(s)
         \/ Retry(s)
  PROVE  TypeInv'
<1> USE Vocabulary DEF TypeInv, EngineTypeOK, scope, jobVars, stepVars, history
<1>1. StepsAreSteps /\ JobIsJob
      BY PlanSteps DEF RunnerType
<1>2. CASE EnterLeaf(s)
  <2>1. SamePlan
      BY <1>2, PlanStays DEF EnterLeaf, Begun, AfterHandler, IsRetried
  <2>2. PositionType'
      BY <1>1, <1>2, <2>1 DEF PositionType, StepsAreSteps, JobIsJob, SamePlan, LocalInv, LocalStep, LocalJob,
         EnterLeaf, Begun, AfterHandler, IsRetried
  <2>3. ResultType'
      BY <1>2, <2>1 DEF ResultType, SamePlan, EnterLeaf, Begun
  <2>4. RowType'
      BY <1>1, <1>2, <2>1 DEF RowType, SamePlan, EnterLeaf, Begun, AfterHandler, IsRetried
  <2>5. CounterType'
      BY <1>1, <1>2, <2>1 DEF CounterType, StepsAreSteps, JobIsJob, SamePlan, LocalInv, LocalStep, LocalJob,
         EnterLeaf, Begun, AfterHandler, IsRetried
  <2>6. ScopeType' /\ RunnerType'
      BY <1>1, <1>2, <2>1 DEF ScopeType, RunnerType, SamePlan, JobIsJob, LocalJob, EnterLeaf, Begun, AfterHandler,
         IsRetried
  <2>7. LocalJob'
      BY <1>1, <1>2, <2>1 DEF LocalInv, LocalJob, SamePlan, JobIsJob, RunnerType, EnterLeaf, Begun, AfterHandler,
         IsRetried
  <2>8. ASSUME NEW q \in Names PROVE LocalStep(q)'
    <3>1. CASE q = s
      BY <1>1, <1>2, <2>1, <3>1 DEF LocalInv, LocalStep, StepsAreSteps, JobIsJob, SamePlan, PositionType, ResultType,
         CounterType, EnterLeaf, Begun, AfterHandler, IsRetried
    <3>2. CASE q # s /\ pc'[q] = pc[q] /\ att'[q] = att[q]
      BY <1>1, <1>2, <2>1, <3>2, Untouched DEF LocalInv, PositionType, ResultType, CounterType, EnterLeaf, Begun,
         AfterHandler, IsRetried
    <3>3. CASE q # s /\ ~(pc'[q] = pc[q] /\ att'[q] = att[q])
      BY <1>1, <1>2, <2>1, <3>3, FreePosition DEF PositionType, CounterType, EnterLeaf, Begun, AfterHandler, IsRetried
    <3> QED BY <3>1, <3>2, <3>3
  <2> QED BY <2>1, <2>2, <2>3, <2>4, <2>5, <2>6, <2>7, <2>8 DEF LocalInv, SamePlan
<1>3. CASE LoadAgentFails(s)
  <2>1. SamePlan
      BY <1>3, PlanStays DEF LoadAgentFails, ErrsEarly, Begun, AfterHandler, IsRetried
  <2>2. PositionType'
      BY <1>1, <1>3, <2>1 DEF PositionType, StepsAreSteps, JobIsJob, SamePlan, LocalInv, LocalStep, LocalJob,
         LoadAgentFails, ErrsEarly, Begun, AfterHandler, IsRetried
  <2>3. ResultType'
      BY <1>1, <1>3, <2>1 DEF ResultType, StepsAreSteps, JobIsJob, SamePlan, LocalInv, LocalStep, LocalJob,
         RunnerType, LoadAgentFails, ErrsEarly, Begun, AfterHandler, IsRetried
  <2>4. RowType'
      BY <1>1, <1>3, <2>1 DEF RowType, SamePlan, LoadAgentFails, ErrsEarly, Begun, AfterHandler, IsRetried
  <2>5. CounterType'
      BY <1>1, <1>3, <2>1 DEF CounterType, StepsAreSteps, JobIsJob, SamePlan, LocalInv, LocalStep, LocalJob,
         LoadAgentFails, ErrsEarly, Begun, AfterHandler, IsRetried
  <2>6. ScopeType' /\ RunnerType'
      BY <1>1, <1>3, <2>1 DEF ScopeType, RunnerType, SamePlan, JobIsJob, LocalJob, LoadAgentFails, ErrsEarly, Begun,
         AfterHandler, IsRetried
  <2>7. LocalJob'
      BY <1>1, <1>3, <2>1 DEF LocalInv, LocalJob, SamePlan, JobIsJob, RunnerType, LoadAgentFails, ErrsEarly, Begun,
         AfterHandler, IsRetried
  <2>8. ASSUME NEW q \in Names PROVE LocalStep(q)'
    <3>1. CASE q = s
      BY <1>1, <1>3, <2>1, <3>1 DEF LocalInv, LocalStep, StepsAreSteps, JobIsJob, SamePlan, PositionType, ResultType,
         CounterType, LoadAgentFails, ErrsEarly, Begun, AfterHandler, IsRetried, Leaves
    <3>2. CASE q # s /\ pc'[q] = pc[q] /\ att'[q] = att[q]
      BY <1>1, <1>3, <2>1, <3>2, Untouched DEF LocalInv, PositionType, ResultType, CounterType, LoadAgentFails,
         ErrsEarly, Begun, AfterHandler, IsRetried
    <3>3. CASE q # s /\ ~(pc'[q] = pc[q] /\ att'[q] = att[q])
      BY <1>1, <1>3, <2>1, <3>3, FreePosition DEF PositionType, CounterType, LoadAgentFails, ErrsEarly, Begun,
         AfterHandler, IsRetried
    <3> QED BY <3>1, <3>2, <3>3
  <2> QED BY <2>1, <2>2, <2>3, <2>4, <2>5, <2>6, <2>7, <2>8 DEF LocalInv, SamePlan
<1>4. CASE ConfigFails(s)
  <2>1. SamePlan
      BY <1>4, PlanStays DEF ConfigFails, ErrsEarly, Begun, AfterHandler, IsRetried
  <2>2. PositionType'
      BY <1>1, <1>4, <2>1 DEF PositionType, StepsAreSteps, JobIsJob, SamePlan, LocalInv, LocalStep, LocalJob,
         ConfigFails, ErrsEarly, Begun, AfterHandler, IsRetried
  <2>3. ResultType'
      BY <1>1, <1>4, <2>1 DEF ResultType, StepsAreSteps, JobIsJob, SamePlan, LocalInv, LocalStep, LocalJob,
         RunnerType, ConfigFails, ErrsEarly, Begun, AfterHandler, IsRetried
  <2>4. RowType'
      BY <1>1, <1>4, <2>1 DEF RowType, SamePlan, ConfigFails, ErrsEarly, Begun, AfterHandler, IsRetried
  <2>5. CounterType'
      BY <1>1, <1>4, <2>1 DEF CounterType, StepsAreSteps, JobIsJob, SamePlan, LocalInv, LocalStep, LocalJob,
         ConfigFails, ErrsEarly, Begun, AfterHandler, IsRetried
  <2>6. ScopeType' /\ RunnerType'
      BY <1>1, <1>4, <2>1 DEF ScopeType, RunnerType, SamePlan, JobIsJob, LocalJob, ConfigFails, ErrsEarly, Begun,
         AfterHandler, IsRetried
  <2>7. LocalJob'
      BY <1>1, <1>4, <2>1 DEF LocalInv, LocalJob, SamePlan, JobIsJob, RunnerType, ConfigFails, ErrsEarly, Begun,
         AfterHandler, IsRetried
  <2>8. ASSUME NEW q \in Names PROVE LocalStep(q)'
    <3>1. CASE q = s
      BY <1>1, <1>4, <2>1, <3>1 DEF LocalInv, LocalStep, StepsAreSteps, JobIsJob, SamePlan, PositionType, ResultType,
         CounterType, ConfigFails, ErrsEarly, Begun, AfterHandler, IsRetried, Leaves
    <3>2. CASE q # s /\ pc'[q] = pc[q] /\ att'[q] = att[q]
      BY <1>1, <1>4, <2>1, <3>2, Untouched DEF LocalInv, PositionType, ResultType, CounterType, ConfigFails,
         ErrsEarly, Begun, AfterHandler, IsRetried
    <3>3. CASE q # s /\ ~(pc'[q] = pc[q] /\ att'[q] = att[q])
      BY <1>1, <1>4, <2>1, <3>3, FreePosition DEF PositionType, CounterType, ConfigFails, ErrsEarly, Begun,
         AfterHandler, IsRetried
    <3> QED BY <3>1, <3>2, <3>3
  <2> QED BY <2>1, <2>2, <2>3, <2>4, <2>5, <2>6, <2>7, <2>8 DEF LocalInv, SamePlan
<1>5. CASE AgentPersists(s)
  <2>1. SamePlan
      BY <1>5, PlanStays DEF AgentPersists
  <2>2. PositionType'
      BY <1>1, <1>5, <2>1 DEF PositionType, StepsAreSteps, JobIsJob, SamePlan, LocalInv, LocalStep, LocalJob,
         AgentPersists
  <2>3. ResultType'
      BY <1>1, <1>5, <2>1 DEF ResultType, StepsAreSteps, JobIsJob, SamePlan, LocalInv, LocalStep, LocalJob,
         RunnerType, AgentPersists
  <2>4. RowType'
      BY <1>1, <1>5, <2>1 DEF RowType, SamePlan, AgentPersists
  <2>5. CounterType'
      BY <1>1, <1>5, <2>1 DEF CounterType, StepsAreSteps, JobIsJob, SamePlan, LocalInv, LocalStep, LocalJob,
         AgentPersists
  <2>6. ScopeType' /\ RunnerType'
      BY <1>1, <1>5, <2>1 DEF ScopeType, RunnerType, SamePlan, JobIsJob, LocalJob, AgentPersists
  <2>7. LocalJob'
      BY <1>1, <1>5, <2>1 DEF LocalInv, LocalJob, SamePlan, JobIsJob, RunnerType, AgentPersists
  <2>8. ASSUME NEW q \in Names PROVE LocalStep(q)'
    <3>1. CASE q = s
      BY <1>1, <1>5, <2>1, <3>1 DEF LocalInv, LocalStep, StepsAreSteps, JobIsJob, SamePlan, PositionType, ResultType,
         CounterType, AgentPersists
    <3>2. CASE q # s /\ pc'[q] = pc[q] /\ att'[q] = att[q]
      BY <1>1, <1>5, <2>1, <3>2, Untouched DEF LocalInv, PositionType, ResultType, CounterType, AgentPersists
    <3>3. CASE q # s /\ ~(pc'[q] = pc[q] /\ att'[q] = att[q])
      BY <1>1, <1>5, <2>1, <3>3, FreePosition DEF PositionType, CounterType, AgentPersists
    <3> QED BY <3>1, <3>2, <3>3
  <2> QED BY <2>1, <2>2, <2>3, <2>4, <2>5, <2>6, <2>7, <2>8 DEF LocalInv, SamePlan
<1>6. CASE ReturnLeaf(s)
  <2>1. SamePlan
      BY <1>6, PlanStays DEF ReturnLeaf, AfterHandler, IsRetried
  <2>2. PositionType'
      BY <1>1, <1>6, <2>1 DEF PositionType, StepsAreSteps, JobIsJob, SamePlan, LocalInv, LocalStep, LocalJob,
         ReturnLeaf, AfterHandler, IsRetried
  <2>3. ResultType'
      BY <1>1, <1>6, <2>1, HandlerErrors DEF ResultType, StepsAreSteps, JobIsJob, SamePlan, LocalInv, LocalStep,
         LocalJob, RunnerType, ReturnLeaf, AfterHandler, IsRetried
  <2>4. RowType'
      BY <1>1, <1>6, <2>1 DEF RowType, SamePlan, ReturnLeaf, AfterHandler, IsRetried, LeafRow
  <2>5. CounterType'
      BY <1>1, <1>6, <2>1 DEF CounterType, StepsAreSteps, JobIsJob, SamePlan, LocalInv, LocalStep, LocalJob,
         ReturnLeaf, AfterHandler, IsRetried
  <2>6. ScopeType' /\ RunnerType'
      BY <1>1, <1>6, <2>1 DEF ScopeType, RunnerType, SamePlan, JobIsJob, LocalJob, ReturnLeaf, AfterHandler, IsRetried
  <2>7. LocalJob'
      BY <1>1, <1>6, <2>1 DEF LocalInv, LocalJob, SamePlan, JobIsJob, RunnerType, ReturnLeaf, AfterHandler, IsRetried
  <2>8. ASSUME NEW q \in Names PROVE LocalStep(q)'
    <3>1. CASE q = s
      BY <1>1, <1>6, <2>1, <3>1 DEF LocalInv, LocalStep, StepsAreSteps, JobIsJob, SamePlan, PositionType, ResultType,
         CounterType, ReturnLeaf, AfterHandler, IsRetried
    <3>2. CASE q # s /\ pc'[q] = pc[q] /\ att'[q] = att[q]
      BY <1>1, <1>6, <2>1, <3>2, Untouched DEF LocalInv, PositionType, ResultType, CounterType, ReturnLeaf,
         AfterHandler, IsRetried
    <3>3. CASE q # s /\ ~(pc'[q] = pc[q] /\ att'[q] = att[q])
      BY <1>1, <1>6, <2>1, <3>3, FreePosition DEF PositionType, CounterType, ReturnLeaf, AfterHandler, IsRetried
    <3> QED BY <3>1, <3>2, <3>3
  <2> QED BY <2>1, <2>2, <2>3, <2>4, <2>5, <2>6, <2>7, <2>8 DEF LocalInv, SamePlan
<1>7. CASE Retry(s)
  <2>1. SamePlan
      BY <1>7, PlanStays DEF Retry
  <2>2. PositionType'
      BY <1>1, <1>7, <2>1 DEF PositionType, StepsAreSteps, JobIsJob, SamePlan, LocalInv, LocalStep, LocalJob, Retry
  <2>3. ResultType'
      BY <1>1, <1>7, <2>1 DEF ResultType, StepsAreSteps, JobIsJob, SamePlan, LocalInv, LocalStep, LocalJob,
         RunnerType, Retry
  <2>4. RowType'
      BY <1>1, <1>7, <2>1 DEF RowType, SamePlan, Retry
  <2>5. CounterType'
    <3>1. att' \in [Names -> Nat] /\ idx' = idx
      BY <1>7 DEF Retry, CounterType
    <3>2. att[s] < StepOf(s).attempts
      BY <1>7 DEF Retry, LocalInv, LocalStep
    <3>3. ASSUME NEW q \in Names PROVE att'[q] \in 1..StepOf(q).attempts
      BY <1>1, <1>7, <3>2 DEF Retry, CounterType, StepsAreSteps
    <3> QED BY <2>1, <3>1, <3>3 DEF CounterType, SamePlan
  <2>6. ScopeType' /\ RunnerType'
      BY <1>1, <1>7, <2>1 DEF ScopeType, RunnerType, SamePlan, JobIsJob, LocalJob, Retry
  <2>7. LocalJob'
      BY <1>1, <1>7, <2>1 DEF LocalInv, LocalJob, SamePlan, JobIsJob, RunnerType, Retry
  <2>8. ASSUME NEW q \in Names PROVE LocalStep(q)'
    <3>1. CASE q = s
      BY <1>1, <1>7, <2>1, <3>1 DEF LocalInv, LocalStep, StepsAreSteps, JobIsJob, SamePlan, PositionType, ResultType,
         CounterType, Retry
    <3>2. CASE q # s /\ pc'[q] = pc[q] /\ att'[q] = att[q]
      BY <1>1, <1>7, <2>1, <3>2, Untouched DEF LocalInv, PositionType, ResultType, CounterType, Retry
    <3>3. CASE q # s /\ ~(pc'[q] = pc[q] /\ att'[q] = att[q])
      BY <1>1, <1>7, <2>1, <3>3, FreePosition DEF PositionType, CounterType, Retry
    <3> QED BY <3>1, <3>2, <3>3
  <2> QED BY <2>1, <2>2, <2>3, <2>4, <2>5, <2>6, <2>7, <2>8 DEF LocalInv, SamePlan
<1> QED BY <1>2, <1>3, <1>4, <1>5, <1>6, <1>7

\* So do the handlers of groups.
LEMMA GroupTypes ==
  ASSUME TypeInv, NEW s \in Names, NEW t \in Names,
         \/ EnterGroup(s) \/ StartInner(s) \/ DoTakes(s) \/ TryTakes(s) \/ Launch(s)
         \/ Join(s) \/ CloseGroup(s) \/ ForkCancels(s, t) \/ ForkReleases(s, t)
  PROVE  TypeInv'
<1> USE Vocabulary DEF TypeInv, EngineTypeOK, scope, jobVars, stepVars, history
<1>1. StepsAreSteps /\ JobIsJob
      BY PlanSteps DEF RunnerType
<1>2. CASE EnterGroup(s)
  <2>1. SamePlan
      BY <1>2, PlanStays DEF EnterGroup, Begun, AfterHandler, IsRetried
  <2>2. PositionType'
      BY <1>1, <1>2, <2>1 DEF PositionType, StepsAreSteps, JobIsJob, SamePlan, LocalInv, LocalStep, LocalJob,
         EnterGroup, Begun, AfterHandler, IsRetried
  <2>3. ResultType'
      BY <1>1, <1>2, <2>1 DEF ResultType, StepsAreSteps, JobIsJob, SamePlan, LocalInv, LocalStep, LocalJob,
         RunnerType, EnterGroup, Begun, AfterHandler, IsRetried
  <2>4. RowType'
      BY <1>1, <1>2, <2>1 DEF RowType, SamePlan, EnterGroup, Begun, AfterHandler, IsRetried
  <2>5. CounterType'
    <3>1. idx' \in [Names -> Nat] /\ att' = att
      BY <1>2 DEF EnterGroup, CounterType
    <3>2. ASSUME NEW q \in Names PROVE idx'[q] <= Len(Inner(q))
      BY <1>1, <1>2 DEF EnterGroup, CounterType, StepsAreSteps
    <3> QED BY <2>1, <3>1, <3>2 DEF CounterType, SamePlan
  <2>6. ScopeType' /\ RunnerType'
      BY <1>1, <1>2, <2>1 DEF ScopeType, RunnerType, SamePlan, JobIsJob, LocalJob, EnterGroup, Begun, AfterHandler,
         IsRetried
  <2>7. LocalJob'
      BY <1>1, <1>2, <2>1 DEF LocalInv, LocalJob, SamePlan, JobIsJob, RunnerType, EnterGroup, Begun, AfterHandler,
         IsRetried
  <2>8. ASSUME NEW q \in Names PROVE LocalStep(q)'
    <3>1. CASE q = s
      BY <1>1, <1>2, <2>1, <3>1 DEF LocalInv, LocalStep, StepsAreSteps, JobIsJob, SamePlan, PositionType, ResultType,
         CounterType, EnterGroup, Begun, AfterHandler, IsRetried, Kinds, Serial, Forks, Leaves
    <3>2. CASE q # s /\ pc'[q] = pc[q] /\ att'[q] = att[q]
      BY <1>1, <1>2, <2>1, <3>2, Untouched DEF LocalInv, PositionType, ResultType, CounterType, EnterGroup, Begun,
         AfterHandler, IsRetried
    <3>3. CASE q # s /\ ~(pc'[q] = pc[q] /\ att'[q] = att[q])
      BY <1>1, <1>2, <2>1, <3>3, FreePosition DEF PositionType, CounterType, EnterGroup, Begun, AfterHandler,
         IsRetried
    <3> QED BY <3>1, <3>2, <3>3
  <2> QED BY <2>1, <2>2, <2>3, <2>4, <2>5, <2>6, <2>7, <2>8 DEF LocalInv, SamePlan
<1>3. CASE StartInner(s)
  <2>1. SamePlan
      BY <1>3, PlanStays DEF StartInner
  <2>2. PositionType'
      BY <1>1, <1>3, <2>1 DEF PositionType, StepsAreSteps, JobIsJob, SamePlan, LocalInv, LocalStep, LocalJob,
         StartInner
  <2>3. ResultType'
      BY <1>1, <1>3, <2>1 DEF ResultType, StepsAreSteps, JobIsJob, SamePlan, LocalInv, LocalStep, LocalJob,
         RunnerType, StartInner
  <2>4. RowType'
      BY <1>1, <1>3, <2>1 DEF RowType, SamePlan, StartInner
  <2>5. CounterType'
    <3>1. Inner(s)[idx[s] + 1] \in Names
      BY <1>1, <1>3 DEF StartInner, StepsAreSteps, CounterType
    <3> QED BY <1>1, <1>3, <2>1, <3>1, FirstAttempt DEF StartInner
  <2>6. ScopeType' /\ RunnerType'
      BY <1>1, <1>3, <2>1 DEF ScopeType, RunnerType, SamePlan, JobIsJob, LocalJob, StartInner
  <2>7. LocalJob'
      BY <1>1, <1>3, <2>1 DEF LocalInv, LocalJob, SamePlan, JobIsJob, RunnerType, StartInner
  <2>8. ASSUME NEW q \in Names PROVE LocalStep(q)'
    <3>1. CASE q = s
      <4>1. pc'[s] \in {"seq", "enter"} /\ idx'[s] = idx[s] + 1
          BY <1>3 DEF StartInner, PositionType, CounterType
      <4>2. idx[s] \in Nat /\ Len(Inner(s)) \in Nat
          BY <1>1 DEF CounterType, StepsAreSteps
      <4>3. idx[s] < Len(Inner(s)) /\ StepOf(s).kind \in Serial
          BY <1>3 DEF StartInner, Serial
      <4>4. idx'[s] \in 1..Len(Inner(s))
          BY <4>1, <4>2, <4>3
      <4> QED BY <2>1, <3>1, <4>1, <4>3, <4>4 DEF LocalStep, SamePlan
    <3>2. CASE q # s /\ pc'[q] = pc[q] /\ att'[q] = att[q]
      BY <1>1, <1>3, <2>1, <3>2, Untouched DEF LocalInv, PositionType, ResultType, CounterType, StartInner
    <3>3. CASE q # s /\ ~(pc'[q] = pc[q] /\ att'[q] = att[q])
      BY <1>1, <1>3, <2>1, <3>3, FreePosition DEF PositionType, CounterType, StartInner
    <3> QED BY <3>1, <3>2, <3>3
  <2> QED BY <2>1, <2>2, <2>3, <2>4, <2>5, <2>6, <2>7, <2>8 DEF LocalInv, SamePlan
<1>4. CASE DoTakes(s)
  <2>1. SamePlan
      BY <1>4, PlanStays DEF DoTakes
  <2>2. PositionType'
      BY <1>1, <1>4, <2>1 DEF PositionType, StepsAreSteps, JobIsJob, SamePlan, LocalInv, LocalStep, LocalJob, DoTakes
  <2>3. ResultType'
      BY <1>1, <1>4, <2>1 DEF ResultType, StepsAreSteps, JobIsJob, SamePlan, LocalInv, LocalStep, LocalJob,
         RunnerType, DoTakes
  <2>4. RowType'
      BY <1>1, <1>4, <2>1 DEF RowType, SamePlan, DoTakes
  <2>5. CounterType'
      BY <1>1, <1>4, <2>1 DEF CounterType, StepsAreSteps, JobIsJob, SamePlan, LocalInv, LocalStep, LocalJob, DoTakes
  <2>6. ScopeType' /\ RunnerType'
      BY <1>1, <1>4, <2>1 DEF ScopeType, RunnerType, SamePlan, JobIsJob, LocalJob, DoTakes
  <2>7. LocalJob'
      BY <1>1, <1>4, <2>1 DEF LocalInv, LocalJob, SamePlan, JobIsJob, RunnerType, DoTakes
  <2>8. ASSUME NEW q \in Names PROVE LocalStep(q)'
    <3>1. CASE q = s
      BY <1>1, <1>4, <2>1, <3>1 DEF LocalInv, LocalStep, StepsAreSteps, JobIsJob, SamePlan, PositionType, ResultType,
         CounterType, DoTakes, Kinds, Serial, Forks, Leaves
    <3>2. CASE q # s /\ pc'[q] = pc[q] /\ att'[q] = att[q]
      BY <1>1, <1>4, <2>1, <3>2, Untouched DEF LocalInv, PositionType, ResultType, CounterType, DoTakes
    <3>3. CASE q # s /\ ~(pc'[q] = pc[q] /\ att'[q] = att[q])
      BY <1>1, <1>4, <2>1, <3>3, FreePosition DEF PositionType, CounterType, DoTakes
    <3> QED BY <3>1, <3>2, <3>3
  <2> QED BY <2>1, <2>2, <2>3, <2>4, <2>5, <2>6, <2>7, <2>8 DEF LocalInv, SamePlan
<1>5. CASE TryTakes(s)
  <2>1. SamePlan
      BY <1>5, PlanStays DEF TryTakes, FailureKindFromErr
  <2>2. PositionType'
    <3>1. PICK u, x : x \in {"close", "inner"} /\ pc' = [pc EXCEPT ![u] = "idle", ![s] = x]
      BY <1>5 DEF TryTakes
    <3>2. pc \in [Names -> Positions] /\ "idle" \in Positions /\ x \in Positions
      BY <1>1, <3>1, Vocabulary DEF PositionType
    <3>3. pc' \in [Names -> Positions]
      BY <3>1, <3>2
    <3>4. hook' = hook
      BY <1>5 DEF TryTakes
    <3> QED BY <1>1, <2>1, <3>3, <3>4 DEF PositionType, SamePlan
  <2>3. ResultType'
      BY <1>1, <1>5, <2>1 DEF ResultType, StepsAreSteps, JobIsJob, SamePlan, LocalInv, LocalStep, LocalJob,
         RunnerType, TryTakes, FailureKindFromErr
  <2>4. RowType'
      BY <1>1, <1>5, <2>1 DEF RowType, SamePlan, TryTakes, FailureKindFromErr
  <2>5. CounterType'
      BY <1>1, <1>5, <2>1 DEF CounterType, StepsAreSteps, JobIsJob, SamePlan, LocalInv, LocalStep, LocalJob,
         TryTakes, FailureKindFromErr
  <2>6. ScopeType' /\ RunnerType'
      BY <1>1, <1>5, <2>1 DEF ScopeType, RunnerType, SamePlan, JobIsJob, LocalJob, TryTakes, FailureKindFromErr
  <2>7. LocalJob'
      BY <1>1, <1>5, <2>1 DEF LocalInv, LocalJob, SamePlan, JobIsJob, RunnerType, TryTakes, FailureKindFromErr
  <2>8. ASSUME NEW q \in Names PROVE LocalStep(q)'
    <3>1. CASE q = s
      BY <1>1, <1>5, <2>1, <3>1 DEF LocalInv, LocalStep, StepsAreSteps, JobIsJob, SamePlan, PositionType, ResultType,
         CounterType, TryTakes, FailureKindFromErr, Kinds, Serial, Forks, Leaves
    <3>2. CASE q # s /\ pc'[q] = pc[q] /\ att'[q] = att[q]
      BY <1>1, <1>5, <2>1, <3>2, Untouched DEF LocalInv, PositionType, ResultType, CounterType, TryTakes,
         FailureKindFromErr
    <3>3. CASE q # s /\ ~(pc'[q] = pc[q] /\ att'[q] = att[q])
      BY <1>1, <1>5, <2>1, <3>3, FreePosition DEF PositionType, CounterType, TryTakes, FailureKindFromErr
    <3> QED BY <3>1, <3>2, <3>3
  <2> QED BY <2>1, <2>2, <2>3, <2>4, <2>5, <2>6, <2>7, <2>8 DEF LocalInv, SamePlan
<1>6. CASE Launch(s)
  <2>1. SamePlan
      BY <1>6, PlanStays DEF Launch
  <2>2. PositionType'
      BY <1>1, <1>6, <2>1 DEF PositionType, StepsAreSteps, JobIsJob, SamePlan, LocalInv, LocalStep, LocalJob, Launch
  <2>3. ResultType'
      BY <1>1, <1>6, <2>1 DEF ResultType, StepsAreSteps, JobIsJob, SamePlan, LocalInv, LocalStep, LocalJob,
         RunnerType, Launch
  <2>4. RowType'
      BY <1>1, <1>6, <2>1 DEF RowType, SamePlan, Launch
  <2>5. CounterType'
    <3>1. idx[s] \in Nat /\ idx[s] <= Len(Inner(s)) /\ Len(Inner(s)) \in Nat
      BY <1>1 DEF CounterType, StepsAreSteps
    <3>2. CASE idx[s] = Len(Inner(s)) \/ s \in shut \/ ctxDone
      BY <1>1, <1>6, <2>1, <3>2, FirstAttempt DEF Launch
    <3>3. CASE ~(idx[s] = Len(Inner(s)) \/ s \in shut \/ ctxDone)
      <4>1. Inner(s)[idx[s] + 1] \in Names /\ idx[s] < Len(Inner(s))
          BY <1>1, <3>1, <3>3 DEF StepsAreSteps
      <4> QED BY <1>1, <1>6, <2>1, <3>3, <4>1, FirstAttempt DEF Launch
    <3> QED BY <3>2, <3>3
  <2>6. ScopeType' /\ RunnerType'
      BY <1>1, <1>6, <2>1 DEF ScopeType, RunnerType, SamePlan, JobIsJob, LocalJob, Launch
  <2>7. LocalJob'
      BY <1>1, <1>6, <2>1 DEF LocalInv, LocalJob, SamePlan, JobIsJob, RunnerType, Launch
  <2>8. ASSUME NEW q \in Names PROVE LocalStep(q)'
    <3>1. CASE q = s
      BY <1>1, <1>6, <2>1, <3>1 DEF LocalInv, LocalStep, StepsAreSteps, JobIsJob, SamePlan, PositionType, ResultType,
         CounterType, Launch, Kinds, Serial, Forks, Leaves
    <3>2. CASE q # s /\ pc'[q] = pc[q] /\ att'[q] = att[q]
      BY <1>1, <1>6, <2>1, <3>2, Untouched DEF LocalInv, PositionType, ResultType, CounterType, Launch
    <3>3. CASE q # s /\ ~(pc'[q] = pc[q] /\ att'[q] = att[q])
      <4>1. PICK u : pc' = [pc EXCEPT ![u] = "enter"] /\ att' = [att EXCEPT ![u] = 1]
          BY <1>1, <1>6, <3>3 DEF Launch, PositionType
      <4>2. q = u /\ pc'[q] = "enter"
          BY <1>1, <3>3, <4>1 DEF PositionType, CounterType
      <4> QED BY <4>2, FreePosition
    <3> QED BY <3>1, <3>2, <3>3
  <2> QED BY <2>1, <2>2, <2>3, <2>4, <2>5, <2>6, <2>7, <2>8 DEF LocalInv, SamePlan
<1>7. CASE Join(s)
  <2>1. SamePlan
      BY <1>7, PlanStays DEF Join
  <2>2. PositionType'
      BY <1>1, <1>7, <2>1 DEF PositionType, StepsAreSteps, JobIsJob, SamePlan, LocalInv, LocalStep, LocalJob, Join
  <2>3. ResultType'
      BY <1>1, <1>7, <2>1 DEF ResultType, StepsAreSteps, JobIsJob, SamePlan, LocalInv, LocalStep, LocalJob,
         RunnerType, Join
  <2>4. RowType'
      BY <1>1, <1>7, <2>1 DEF RowType, SamePlan, Join
  <2>5. CounterType'
      BY <1>1, <1>7, <2>1 DEF CounterType, StepsAreSteps, JobIsJob, SamePlan, LocalInv, LocalStep, LocalJob, Join
  <2>6. ScopeType' /\ RunnerType'
      BY <1>1, <1>7, <2>1 DEF ScopeType, RunnerType, SamePlan, JobIsJob, LocalJob, Join
  <2>7. LocalJob'
      BY <1>1, <1>7, <2>1 DEF LocalInv, LocalJob, SamePlan, JobIsJob, RunnerType, Join
  <2>8. ASSUME NEW q \in Names PROVE LocalStep(q)'
    <3>1. CASE q = s
      BY <1>1, <1>7, <2>1, <3>1 DEF LocalInv, LocalStep, StepsAreSteps, JobIsJob, SamePlan, PositionType, ResultType,
         CounterType, Join, Kinds, Serial, Forks, Leaves
    <3>2. CASE q # s /\ pc'[q] = pc[q] /\ att'[q] = att[q]
      BY <1>1, <1>7, <2>1, <3>2, Untouched DEF LocalInv, PositionType, ResultType, CounterType, Join
    <3>3. CASE q # s /\ ~(pc'[q] = pc[q] /\ att'[q] = att[q])
      BY <1>1, <1>7, <2>1, <3>3, FreePosition DEF PositionType, CounterType, Join
    <3> QED BY <3>1, <3>2, <3>3
  <2> QED BY <2>1, <2>2, <2>3, <2>4, <2>5, <2>6, <2>7, <2>8 DEF LocalInv, SamePlan
<1>8. CASE CloseGroup(s)
  <2>1. SamePlan
      BY <1>8, PlanStays DEF CloseGroup, AfterHandler, IsRetried
  <2>2. PositionType'
      BY <1>1, <1>8, <2>1 DEF PositionType, StepsAreSteps, JobIsJob, SamePlan, LocalInv, LocalStep, LocalJob,
         CloseGroup, AfterHandler, IsRetried
  <2>3. ResultType'
      BY <1>1, <1>8, <2>1 DEF ResultType, StepsAreSteps, JobIsJob, SamePlan, LocalInv, LocalStep, LocalJob,
         RunnerType, CloseGroup, AfterHandler, IsRetried
  <2>4. RowType'
      BY <1>1, <1>8, <2>1 DEF RowType, SamePlan, CloseGroup, AfterHandler, IsRetried
  <2>5. CounterType'
      BY <1>1, <1>8, <2>1 DEF CounterType, StepsAreSteps, JobIsJob, SamePlan, LocalInv, LocalStep, LocalJob,
         CloseGroup, AfterHandler, IsRetried
  <2>6. ScopeType' /\ RunnerType'
      BY <1>1, <1>8, <2>1 DEF ScopeType, RunnerType, SamePlan, JobIsJob, LocalJob, CloseGroup, AfterHandler, IsRetried
  <2>7. LocalJob'
      BY <1>1, <1>8, <2>1 DEF LocalInv, LocalJob, SamePlan, JobIsJob, RunnerType, CloseGroup, AfterHandler, IsRetried
  <2>8. ASSUME NEW q \in Names PROVE LocalStep(q)'
    <3>1. CASE q = s
      BY <1>1, <1>8, <2>1, <3>1 DEF LocalInv, LocalStep, StepsAreSteps, JobIsJob, SamePlan, PositionType, ResultType,
         CounterType, CloseGroup, AfterHandler, IsRetried
    <3>2. CASE q # s /\ pc'[q] = pc[q] /\ att'[q] = att[q]
      BY <1>1, <1>8, <2>1, <3>2, Untouched DEF LocalInv, PositionType, ResultType, CounterType, CloseGroup,
         AfterHandler, IsRetried
    <3>3. CASE q # s /\ ~(pc'[q] = pc[q] /\ att'[q] = att[q])
      BY <1>1, <1>8, <2>1, <3>3, FreePosition DEF PositionType, CounterType, CloseGroup, AfterHandler, IsRetried
    <3> QED BY <3>1, <3>2, <3>3
  <2> QED BY <2>1, <2>2, <2>3, <2>4, <2>5, <2>6, <2>7, <2>8 DEF LocalInv, SamePlan
<1>9. CASE ForkCancels(s, t)
  <2>1. SamePlan
      BY <1>9, PlanStays DEF ForkCancels
  <2>2. PositionType'
      BY <1>1, <1>9, <2>1 DEF PositionType, StepsAreSteps, JobIsJob, SamePlan, LocalInv, LocalStep, LocalJob,
         ForkCancels
  <2>3. ResultType'
      BY <1>1, <1>9, <2>1 DEF ResultType, StepsAreSteps, JobIsJob, SamePlan, LocalInv, LocalStep, LocalJob,
         RunnerType, ForkCancels
  <2>4. RowType'
      BY <1>1, <1>9, <2>1 DEF RowType, SamePlan, ForkCancels
  <2>5. CounterType'
      BY <1>1, <1>9, <2>1 DEF CounterType, StepsAreSteps, JobIsJob, SamePlan, LocalInv, LocalStep, LocalJob,
         ForkCancels
  <2>6. ScopeType' /\ RunnerType'
      BY <1>1, <1>9, <2>1 DEF ScopeType, RunnerType, SamePlan, JobIsJob, LocalJob, ForkCancels
  <2>7. LocalJob'
      BY <1>1, <1>9, <2>1 DEF LocalInv, LocalJob, SamePlan, JobIsJob, RunnerType, ForkCancels
  <2>8. ASSUME NEW q \in Names PROVE LocalStep(q)'
    <3>1. CASE q = s
      BY <1>1, <1>9, <2>1, <3>1 DEF LocalInv, LocalStep, StepsAreSteps, JobIsJob, SamePlan, PositionType, ResultType,
         CounterType, ForkCancels, Kinds, Serial, Forks, Leaves
    <3>2. CASE q # s /\ pc'[q] = pc[q] /\ att'[q] = att[q]
      BY <1>1, <1>9, <2>1, <3>2, Untouched DEF LocalInv, PositionType, ResultType, CounterType, ForkCancels
    <3>3. CASE q # s /\ ~(pc'[q] = pc[q] /\ att'[q] = att[q])
      BY <1>1, <1>9, <2>1, <3>3, FreePosition DEF PositionType, CounterType, ForkCancels
    <3> QED BY <3>1, <3>2, <3>3
  <2> QED BY <2>1, <2>2, <2>3, <2>4, <2>5, <2>6, <2>7, <2>8 DEF LocalInv, SamePlan
<1>10. CASE ForkReleases(s, t)
  <2>1. SamePlan
      BY <1>10, PlanStays DEF ForkReleases
  <2>2. PositionType'
      BY <1>1, <1>10, <2>1 DEF PositionType, StepsAreSteps, JobIsJob, SamePlan, LocalInv, LocalStep, LocalJob,
         ForkReleases
  <2>3. ResultType'
      BY <1>1, <1>10, <2>1 DEF ResultType, StepsAreSteps, JobIsJob, SamePlan, LocalInv, LocalStep, LocalJob,
         RunnerType, ForkReleases
  <2>4. RowType'
      BY <1>1, <1>10, <2>1 DEF RowType, SamePlan, ForkReleases
  <2>5. CounterType'
      BY <1>1, <1>10, <2>1 DEF CounterType, StepsAreSteps, JobIsJob, SamePlan, LocalInv, LocalStep, LocalJob,
         ForkReleases
  <2>6. ScopeType' /\ RunnerType'
      BY <1>1, <1>10, <2>1 DEF ScopeType, RunnerType, SamePlan, JobIsJob, LocalJob, ForkReleases
  <2>7. LocalJob'
      BY <1>1, <1>10, <2>1 DEF LocalInv, LocalJob, SamePlan, JobIsJob, RunnerType, ForkReleases
  <2>8. ASSUME NEW q \in Names PROVE LocalStep(q)'
    <3>1. CASE q = s
      BY <1>1, <1>10, <2>1, <3>1 DEF LocalInv, LocalStep, StepsAreSteps, JobIsJob, SamePlan, PositionType,
         ResultType, CounterType, ForkReleases, Kinds, Serial, Forks, Leaves
    <3>2. CASE q # s /\ pc'[q] = pc[q] /\ att'[q] = att[q]
      BY <1>1, <1>10, <2>1, <3>2, Untouched DEF LocalInv, PositionType, ResultType, CounterType, ForkReleases
    <3>3. CASE q # s /\ ~(pc'[q] = pc[q] /\ att'[q] = att[q])
      BY <1>1, <1>10, <2>1, <3>3, FreePosition DEF PositionType, CounterType, ForkReleases
    <3> QED BY <3>1, <3>2, <3>3
  <2> QED BY <2>1, <2>2, <2>3, <2>4, <2>5, <2>6, <2>7, <2>8 DEF LocalInv, SamePlan
<1> QED BY <1>2, <1>3, <1>4, <1>5, <1>6, <1>7, <1>8, <1>9, <1>10

\* So does what processStep does once the handler has returned.
LEMMA HookTypes ==
  ASSUME TypeInv, NEW s \in Names,
         \/ Dispatch(s) \/ CountFailure(s) \/ CallHook(s) \/ TakeHook(s) \/ Ensure(s)
         \/ TakeEnsure(s)
  PROVE  TypeInv'
<1> USE Vocabulary DEF TypeInv, EngineTypeOK, scope, jobVars, stepVars, history
<1>1. StepsAreSteps /\ JobIsJob
      BY PlanSteps DEF RunnerType
<1>2. CASE Dispatch(s)
  <2>1. SamePlan
      BY <1>2, PlanStays DEF Dispatch
  <2>2. PositionType'
    <3>1. pc' \in [Names -> Positions]
      BY <1>2 DEF Dispatch, PositionType
    <3>2. hook' \in [Names -> {"none"} \cup OutcomeHooks]
      BY <1>2, ChosenHooks DEF Dispatch, PositionType, OutcomeHooks
    <3> QED BY <2>1, <3>1, <3>2 DEF PositionType, SamePlan, OutcomeHooks
  <2>3. ResultType'
      BY <1>1, <1>2, <2>1 DEF ResultType, StepsAreSteps, JobIsJob, SamePlan, LocalInv, LocalStep, LocalJob,
         RunnerType, Dispatch, Left
  <2>4. RowType'
      BY <1>1, <1>2, <2>1 DEF RowType, SamePlan, Dispatch
  <2>5. CounterType'
      BY <1>1, <1>2, <2>1 DEF CounterType, StepsAreSteps, JobIsJob, SamePlan, LocalInv, LocalStep, LocalJob, Dispatch
  <2>6. ScopeType' /\ RunnerType'
      BY <1>1, <1>2, <2>1 DEF ScopeType, RunnerType, SamePlan, JobIsJob, LocalJob, Dispatch
  <2>7. LocalJob'
      BY <1>1, <1>2, <2>1 DEF LocalInv, LocalJob, SamePlan, JobIsJob, RunnerType, Dispatch
  <2>8. ASSUME NEW q \in Names PROVE LocalStep(q)'
    <3>1. CASE q = s
      BY <1>1, <1>2, <2>1, <3>1 DEF LocalInv, LocalStep, StepsAreSteps, JobIsJob, SamePlan, PositionType, ResultType,
         CounterType, Dispatch, HookNames, OutcomeHooks, FailureHooks, Chosen, FailureInside, InnerHook, OuterHook,
         Left, IsRetried
    <3>2. CASE q # s /\ pc'[q] = pc[q] /\ att'[q] = att[q]
      BY <1>1, <1>2, <2>1, <3>2, Untouched DEF LocalInv, PositionType, ResultType, CounterType, Dispatch
    <3>3. CASE q # s /\ ~(pc'[q] = pc[q] /\ att'[q] = att[q])
      BY <1>1, <1>2, <2>1, <3>3, FreePosition DEF PositionType, CounterType, Dispatch
    <3> QED BY <3>1, <3>2, <3>3
  <2> QED BY <2>1, <2>2, <2>3, <2>4, <2>5, <2>6, <2>7, <2>8 DEF LocalInv, SamePlan
<1>3. CASE CountFailure(s)
  <2>1. SamePlan
      BY <1>3, PlanStays DEF CountFailure, FailureKindFromErr
  <2>2. PositionType'
      BY <1>1, <1>3, <2>1 DEF PositionType, StepsAreSteps, JobIsJob, SamePlan, LocalInv, LocalStep, LocalJob,
         CountFailure, FailureKindFromErr
  <2>3. ResultType'
      BY <1>1, <1>3, <2>1 DEF ResultType, StepsAreSteps, JobIsJob, SamePlan, LocalInv, LocalStep, LocalJob,
         RunnerType, CountFailure, FailureKindFromErr
  <2>4. RowType'
      BY <1>1, <1>3, <2>1 DEF RowType, SamePlan, CountFailure, FailureKindFromErr
  <2>5. CounterType'
      BY <1>1, <1>3, <2>1 DEF CounterType, StepsAreSteps, JobIsJob, SamePlan, LocalInv, LocalStep, LocalJob,
         CountFailure, FailureKindFromErr
  <2>6. ScopeType' /\ RunnerType'
      BY <1>1, <1>3, <2>1 DEF ScopeType, RunnerType, SamePlan, JobIsJob, LocalJob, CountFailure, FailureKindFromErr
  <2>7. LocalJob'
      BY <1>1, <1>3, <2>1 DEF LocalInv, LocalJob, SamePlan, JobIsJob, RunnerType, CountFailure, FailureKindFromErr
  <2>8. ASSUME NEW q \in Names PROVE LocalStep(q)'
    <3>1. CASE q = s
      BY <1>1, <1>3, <2>1, <3>1 DEF LocalInv, LocalStep, StepsAreSteps, JobIsJob, SamePlan, PositionType, ResultType,
         CounterType, CountFailure, FailureKindFromErr, HookNames, OutcomeHooks, FailureHooks
    <3>2. CASE q # s /\ pc'[q] = pc[q] /\ att'[q] = att[q]
      BY <1>1, <1>3, <2>1, <3>2, Untouched DEF LocalInv, PositionType, ResultType, CounterType, CountFailure,
         FailureKindFromErr
    <3>3. CASE q # s /\ ~(pc'[q] = pc[q] /\ att'[q] = att[q])
      BY <1>1, <1>3, <2>1, <3>3, FreePosition DEF PositionType, CounterType, CountFailure, FailureKindFromErr
    <3> QED BY <3>1, <3>2, <3>3
  <2> QED BY <2>1, <2>2, <2>3, <2>4, <2>5, <2>6, <2>7, <2>8 DEF LocalInv, SamePlan
<1>4. CASE CallHook(s)
  <2>1. SamePlan
      BY <1>4, PlanStays DEF CallHook
  <2>2. PositionType'
      BY <1>1, <1>4, <2>1 DEF PositionType, StepsAreSteps, JobIsJob, SamePlan, LocalInv, LocalStep, LocalJob, CallHook
  <2>3. ResultType'
      BY <1>1, <1>4, <2>1 DEF ResultType, StepsAreSteps, JobIsJob, SamePlan, LocalInv, LocalStep, LocalJob,
         RunnerType, CallHook
  <2>4. RowType'
      BY <1>1, <1>4, <2>1 DEF RowType, SamePlan, CallHook
  <2>5. CounterType'
    <3>1. PICK t : att' = [att EXCEPT ![t] = 1] /\ idx' = idx
      BY <1>4 DEF CallHook
    <3>2. CASE t \in Names
      BY <1>1, <2>1, <3>1, <3>2, FirstAttempt
    <3>3. CASE t \notin Names
      <4>1. att' = att
          BY <1>1, <3>1, <3>3 DEF CounterType
      <4> QED BY <1>1, <2>1, <3>1, <4>1, FirstAttempt
    <3> QED BY <3>2, <3>3
  <2>6. ScopeType' /\ RunnerType'
      BY <1>1, <1>4, <2>1 DEF ScopeType, RunnerType, SamePlan, JobIsJob, LocalJob, CallHook
  <2>7. LocalJob'
      BY <1>1, <1>4, <2>1 DEF LocalInv, LocalJob, SamePlan, JobIsJob, RunnerType, CallHook
  <2>8. ASSUME NEW q \in Names PROVE LocalStep(q)'
    <3>1. CASE q = s
      BY <1>1, <1>4, <2>1, <3>1 DEF LocalInv, LocalStep, StepsAreSteps, JobIsJob, SamePlan, PositionType, ResultType,
         CounterType, CallHook, HookNames, OutcomeHooks, FailureHooks
    <3>2. CASE q # s /\ pc'[q] = pc[q] /\ att'[q] = att[q]
      BY <1>1, <1>4, <2>1, <3>2, Untouched DEF LocalInv, PositionType, ResultType, CounterType, CallHook
    <3>3. CASE q # s /\ ~(pc'[q] = pc[q] /\ att'[q] = att[q])
      BY <1>1, <1>4, <2>1, <3>3, FreePosition DEF PositionType, CounterType, CallHook
    <3> QED BY <3>1, <3>2, <3>3
  <2> QED BY <2>1, <2>2, <2>3, <2>4, <2>5, <2>6, <2>7, <2>8 DEF LocalInv, SamePlan
<1>5. CASE TakeHook(s)
  <2>1. SamePlan
      BY <1>5, PlanStays DEF TakeHook
  <2>2. PositionType'
      BY <1>1, <1>5, <2>1 DEF PositionType, StepsAreSteps, JobIsJob, SamePlan, LocalInv, LocalStep, LocalJob, TakeHook
  <2>3. ResultType'
      BY <1>1, <1>5, <2>1 DEF ResultType, StepsAreSteps, JobIsJob, SamePlan, LocalInv, LocalStep, LocalJob,
         RunnerType, TakeHook
  <2>4. RowType'
      BY <1>1, <1>5, <2>1 DEF RowType, SamePlan, TakeHook
  <2>5. CounterType'
      BY <1>1, <1>5, <2>1 DEF CounterType, StepsAreSteps, JobIsJob, SamePlan, LocalInv, LocalStep, LocalJob, TakeHook
  <2>6. ScopeType' /\ RunnerType'
      BY <1>1, <1>5, <2>1 DEF ScopeType, RunnerType, SamePlan, JobIsJob, LocalJob, TakeHook
  <2>7. LocalJob'
      BY <1>1, <1>5, <2>1 DEF LocalInv, LocalJob, SamePlan, JobIsJob, RunnerType, TakeHook
  <2>8. ASSUME NEW q \in Names PROVE LocalStep(q)'
    <3>1. CASE q = s
      BY <1>1, <1>5, <2>1, <3>1 DEF LocalInv, LocalStep, StepsAreSteps, JobIsJob, SamePlan, PositionType, ResultType,
         CounterType, TakeHook, HookNames, OutcomeHooks, FailureHooks
    <3>2. CASE q # s /\ pc'[q] = pc[q] /\ att'[q] = att[q]
      BY <1>1, <1>5, <2>1, <3>2, Untouched DEF LocalInv, PositionType, ResultType, CounterType, TakeHook
    <3>3. CASE q # s /\ ~(pc'[q] = pc[q] /\ att'[q] = att[q])
      BY <1>1, <1>5, <2>1, <3>3, FreePosition DEF PositionType, CounterType, TakeHook
    <3> QED BY <3>1, <3>2, <3>3
  <2> QED BY <2>1, <2>2, <2>3, <2>4, <2>5, <2>6, <2>7, <2>8 DEF LocalInv, SamePlan
<1>6. CASE Ensure(s)
  <2>1. SamePlan
      BY <1>6, PlanStays DEF Ensure
  <2>2. PositionType'
      BY <1>1, <1>6, <2>1 DEF PositionType, StepsAreSteps, JobIsJob, SamePlan, LocalInv, LocalStep, LocalJob, Ensure
  <2>3. ResultType'
      BY <1>1, <1>6, <2>1 DEF ResultType, StepsAreSteps, JobIsJob, SamePlan, LocalInv, LocalStep, LocalJob,
         RunnerType, Ensure
  <2>4. RowType'
      BY <1>1, <1>6, <2>1 DEF RowType, SamePlan, Ensure
  <2>5. CounterType'
    <3>1. CASE HookOf(s, "ensure") = None
      BY <1>1, <1>6, <2>1, <3>1 DEF CounterType, SamePlan, Ensure
    <3>2. CASE ~(HookOf(s, "ensure") = None)
      BY <1>1, <1>6, <2>1, <3>2, FirstAttempt DEF Ensure, StepsAreSteps, JobIsJob
    <3> QED BY <3>1, <3>2
  <2>6. ScopeType' /\ RunnerType'
      BY <1>1, <1>6, <2>1 DEF ScopeType, RunnerType, SamePlan, JobIsJob, LocalJob, Ensure
  <2>7. LocalJob'
      BY <1>1, <1>6, <2>1 DEF LocalInv, LocalJob, SamePlan, JobIsJob, RunnerType, Ensure
  <2>8. ASSUME NEW q \in Names PROVE LocalStep(q)'
    <3>1. CASE q = s
      BY <1>6, <2>1, <3>1 DEF LocalStep, SamePlan, PositionType, Ensure
    <3>2. CASE q # s /\ pc'[q] = pc[q] /\ att'[q] = att[q]
      BY <1>1, <1>6, <2>1, <3>2, Untouched DEF LocalInv, PositionType, ResultType, CounterType, Ensure
    <3>3. CASE q # s /\ ~(pc'[q] = pc[q] /\ att'[q] = att[q])
      BY <1>1, <1>6, <2>1, <3>3, FreePosition DEF PositionType, CounterType, Ensure
    <3> QED BY <3>1, <3>2, <3>3
  <2> QED BY <2>1, <2>2, <2>3, <2>4, <2>5, <2>6, <2>7, <2>8 DEF LocalInv, SamePlan
<1>7. CASE TakeEnsure(s)
  <2>1. SamePlan
      BY <1>7, PlanStays DEF TakeEnsure
  <2>2. PositionType'
      BY <1>1, <1>7, <2>1 DEF PositionType, StepsAreSteps, JobIsJob, SamePlan, LocalInv, LocalStep, LocalJob,
         TakeEnsure
  <2>3. ResultType'
      BY <1>1, <1>7, <2>1 DEF ResultType, StepsAreSteps, JobIsJob, SamePlan, LocalInv, LocalStep, LocalJob,
         RunnerType, TakeEnsure
  <2>4. RowType'
      BY <1>1, <1>7, <2>1 DEF RowType, SamePlan, TakeEnsure
  <2>5. CounterType'
      BY <1>1, <1>7, <2>1 DEF CounterType, StepsAreSteps, JobIsJob, SamePlan, LocalInv, LocalStep, LocalJob,
         TakeEnsure
  <2>6. ScopeType' /\ RunnerType'
      BY <1>1, <1>7, <2>1 DEF ScopeType, RunnerType, SamePlan, JobIsJob, LocalJob, TakeEnsure
  <2>7. LocalJob'
      BY <1>1, <1>7, <2>1 DEF LocalInv, LocalJob, SamePlan, JobIsJob, RunnerType, TakeEnsure
  <2>8. ASSUME NEW q \in Names PROVE LocalStep(q)'
    <3>1. CASE q = s
      BY <1>1, <1>7, <2>1, <3>1 DEF LocalInv, LocalStep, StepsAreSteps, JobIsJob, SamePlan, PositionType, ResultType,
         CounterType, TakeEnsure, HookNames, OutcomeHooks, FailureHooks
    <3>2. CASE q # s /\ pc'[q] = pc[q] /\ att'[q] = att[q]
      BY <1>1, <1>7, <2>1, <3>2, Untouched DEF LocalInv, PositionType, ResultType, CounterType, TakeEnsure
    <3>3. CASE q # s /\ ~(pc'[q] = pc[q] /\ att'[q] = att[q])
      BY <1>1, <1>7, <2>1, <3>3, FreePosition DEF PositionType, CounterType, TakeEnsure
    <3> QED BY <3>1, <3>2, <3>3
  <2> QED BY <2>1, <2>2, <2>3, <2>4, <2>5, <2>6, <2>7, <2>8 DEF LocalInv, SamePlan
<1> QED BY <1>2, <1>3, <1>4, <1>5, <1>6, <1>7

\* So does the loop over the plan.
LEMMA JobTypes ==
  ASSUME TypeInv, 
         \/ StartJob \/ RunPlanStep \/ TakePlanStep \/ RunJobHook \/ TakeJobHook
         \/ RunJobEnsure \/ TakeJobEnsure \/ FinishJob \/ StopJob
  PROVE  TypeInv'
<1> USE Vocabulary DEF TypeInv, EngineTypeOK, scope, jobVars, stepVars, history
<1>1. StepsAreSteps /\ JobIsJob
      BY PlanSteps DEF RunnerType
<1>2. CASE StartJob
  <2>1. SamePlan
      BY <1>2, PlanStays DEF StartJob
  <2>2. PositionType'
      BY <1>1, <1>2, <2>1 DEF PositionType, StepsAreSteps, JobIsJob, SamePlan, LocalInv, LocalStep, LocalJob, StartJob
  <2>3. ResultType'
      BY <1>1, <1>2, <2>1 DEF ResultType, StepsAreSteps, JobIsJob, SamePlan, LocalInv, LocalStep, LocalJob,
         RunnerType, StartJob
  <2>4. RowType'
      BY <1>1, <1>2, <2>1 DEF RowType, SamePlan, StartJob
  <2>5. CounterType'
      BY <1>1, <1>2, <2>1 DEF CounterType, StepsAreSteps, JobIsJob, SamePlan, LocalInv, LocalStep, LocalJob, StartJob
  <2>6. ScopeType' /\ RunnerType'
      BY <1>1, <1>2, <2>1 DEF ScopeType, RunnerType, SamePlan, JobIsJob, LocalJob, StartJob, JobPositions, HookNames
  <2>7. LocalJob'
      BY <1>1, <1>2, <2>1 DEF LocalInv, LocalJob, SamePlan, JobIsJob, RunnerType, StartJob, HookNames, OutcomeHooks,
         FailureHooks
  <2>8. ASSUME NEW q \in Names PROVE LocalStep(q)'
    <3>2. CASE pc'[q] = pc[q] /\ att'[q] = att[q]
      BY <1>1, <1>2, <2>1, <3>2, Untouched DEF LocalInv, PositionType, ResultType, CounterType, StartJob
    <3>3. CASE ~(pc'[q] = pc[q] /\ att'[q] = att[q])
      BY <1>1, <1>2, <2>1, <3>3, FreePosition DEF PositionType, CounterType, StartJob
    <3> QED BY <3>2, <3>3
  <2> QED BY <2>1, <2>2, <2>3, <2>4, <2>5, <2>6, <2>7, <2>8 DEF LocalInv, SamePlan
<1>3. CASE RunPlanStep
  <2>1. SamePlan
      BY <1>3, PlanStays DEF RunPlanStep, StartStep
  <2>2. PositionType'
      BY <1>1, <1>3, <2>1 DEF PositionType, StepsAreSteps, JobIsJob, SamePlan, LocalInv, LocalStep, LocalJob,
         RunPlanStep, StartStep
  <2>3. ResultType'
      BY <1>1, <1>3, <2>1 DEF ResultType, StepsAreSteps, JobIsJob, SamePlan, LocalInv, LocalStep, LocalJob,
         RunnerType, RunPlanStep, StartStep
  <2>4. RowType'
      BY <1>1, <1>3, <2>1 DEF RowType, SamePlan, RunPlanStep, StartStep
  <2>5. CounterType'
    <3>1. job.plan[jidx + 1] \in Names
      BY <1>1, <1>3 DEF RunPlanStep, JobIsJob, RunnerType
    <3> QED BY <1>1, <1>3, <2>1, <3>1, FirstAttempt DEF RunPlanStep, StartStep
  <2>6. ScopeType' /\ RunnerType'
      BY <1>1, <1>3, <2>1 DEF ScopeType, RunnerType, SamePlan, JobIsJob, LocalJob, RunPlanStep, StartStep,
         JobPositions, HookNames
  <2>7. LocalJob'
      BY <1>1, <1>3, <2>1 DEF LocalInv, LocalJob, SamePlan, JobIsJob, RunnerType, RunPlanStep, StartStep, HookNames,
         OutcomeHooks, FailureHooks
  <2>8. ASSUME NEW q \in Names PROVE LocalStep(q)'
    <3>2. CASE pc'[q] = pc[q] /\ att'[q] = att[q]
      BY <1>1, <1>3, <2>1, <3>2, Untouched DEF LocalInv, PositionType, ResultType, CounterType, RunPlanStep, StartStep
    <3>3. CASE ~(pc'[q] = pc[q] /\ att'[q] = att[q])
      BY <1>1, <1>3, <2>1, <3>3, FreePosition DEF PositionType, CounterType, RunPlanStep, StartStep
    <3> QED BY <3>2, <3>3
  <2> QED BY <2>1, <2>2, <2>3, <2>4, <2>5, <2>6, <2>7, <2>8 DEF LocalInv, SamePlan
<1>4. CASE TakePlanStep
  <2>1. SamePlan
      BY <1>4, PlanStays DEF TakePlanStep
  <2>2. PositionType'
      BY <1>1, <1>4, <2>1 DEF PositionType, StepsAreSteps, JobIsJob, SamePlan, LocalInv, LocalStep, LocalJob,
         TakePlanStep
  <2>3. ResultType'
      BY <1>1, <1>4, <2>1 DEF ResultType, StepsAreSteps, JobIsJob, SamePlan, LocalInv, LocalStep, LocalJob,
         RunnerType, TakePlanStep
  <2>4. RowType'
      BY <1>1, <1>4, <2>1 DEF RowType, SamePlan, TakePlanStep
  <2>5. CounterType'
      BY <1>1, <1>4, <2>1 DEF CounterType, StepsAreSteps, JobIsJob, SamePlan, LocalInv, LocalStep, LocalJob,
         TakePlanStep
  <2>6. ScopeType' /\ RunnerType'
      BY <1>1, <1>4, <2>1 DEF ScopeType, RunnerType, SamePlan, JobIsJob, LocalJob, TakePlanStep, JobPositions,
         HookNames
  <2>7. LocalJob'
      BY <1>1, <1>4, <2>1 DEF LocalInv, LocalJob, SamePlan, JobIsJob, RunnerType, TakePlanStep, HookNames,
         OutcomeHooks, FailureHooks
  <2>8. ASSUME NEW q \in Names PROVE LocalStep(q)'
    <3>2. CASE pc'[q] = pc[q] /\ att'[q] = att[q]
      BY <1>1, <1>4, <2>1, <3>2, Untouched DEF LocalInv, PositionType, ResultType, CounterType, TakePlanStep
    <3>3. CASE ~(pc'[q] = pc[q] /\ att'[q] = att[q])
      BY <1>1, <1>4, <2>1, <3>3, FreePosition DEF PositionType, CounterType, TakePlanStep
    <3> QED BY <3>2, <3>3
  <2> QED BY <2>1, <2>2, <2>3, <2>4, <2>5, <2>6, <2>7, <2>8 DEF LocalInv, SamePlan
<1>5. CASE RunJobHook
  <2>1. SamePlan
      BY <1>5, PlanStays DEF RunJobHook, StartStep
  <2>2. PositionType'
      BY <1>1, <1>5, <2>1 DEF PositionType, StepsAreSteps, JobIsJob, SamePlan, LocalInv, LocalStep, LocalJob,
         RunJobHook, StartStep
  <2>3. ResultType'
      BY <1>1, <1>5, <2>1 DEF ResultType, StepsAreSteps, JobIsJob, SamePlan, LocalInv, LocalStep, LocalJob,
         RunnerType, RunJobHook, StartStep
  <2>4. RowType'
      BY <1>1, <1>5, <2>1 DEF RowType, SamePlan, RunJobHook, StartStep
  <2>5. CounterType'
    <3>1. CASE JobHookChosen = "none" \/ JobHook(JobHookChosen) = None
      BY <1>1, <1>5, <2>1, <3>1 DEF CounterType, SamePlan, RunJobHook, StartStep
    <3>2. CASE ~(JobHookChosen = "none" \/ JobHook(JobHookChosen) = None)
      BY <1>1, <1>5, <2>1, <3>2, FirstAttempt DEF RunJobHook, StartStep, StepsAreSteps, JobIsJob
    <3> QED BY <3>1, <3>2
  <2>6. ScopeType' /\ RunnerType'
      BY <1>1, <1>5, <2>1 DEF ScopeType, RunnerType, SamePlan, JobIsJob, LocalJob, RunJobHook, StartStep,
         JobPositions, HookNames, JobHookChosen, EffectiveKind, JobFailed
  <2>7. LocalJob'
      BY <1>1, <1>5, <2>1 DEF LocalInv, LocalJob, SamePlan, JobIsJob, RunnerType, RunJobHook, StartStep, HookNames,
         OutcomeHooks, FailureHooks, JobHookChosen
  <2>8. ASSUME NEW q \in Names PROVE LocalStep(q)'
    <3>2. CASE pc'[q] = pc[q] /\ att'[q] = att[q]
      BY <1>1, <1>5, <2>1, <3>2, Untouched DEF LocalInv, PositionType, ResultType, CounterType, RunJobHook, StartStep
    <3>3. CASE ~(pc'[q] = pc[q] /\ att'[q] = att[q])
      BY <1>1, <1>5, <2>1, <3>3, FreePosition DEF PositionType, CounterType, RunJobHook, StartStep
    <3> QED BY <3>2, <3>3
  <2> QED BY <2>1, <2>2, <2>3, <2>4, <2>5, <2>6, <2>7, <2>8 DEF LocalInv, SamePlan
<1>6. CASE TakeJobHook
  <2>1. SamePlan
      BY <1>6, PlanStays DEF TakeJobHook
  <2>2. PositionType'
      BY <1>1, <1>6, <2>1 DEF PositionType, StepsAreSteps, JobIsJob, SamePlan, LocalInv, LocalStep, LocalJob,
         TakeJobHook
  <2>3. ResultType'
      BY <1>1, <1>6, <2>1 DEF ResultType, StepsAreSteps, JobIsJob, SamePlan, LocalInv, LocalStep, LocalJob,
         RunnerType, TakeJobHook
  <2>4. RowType'
      BY <1>1, <1>6, <2>1 DEF RowType, SamePlan, TakeJobHook
  <2>5. CounterType'
      BY <1>1, <1>6, <2>1 DEF CounterType, StepsAreSteps, JobIsJob, SamePlan, LocalInv, LocalStep, LocalJob,
         TakeJobHook
  <2>6. ScopeType' /\ RunnerType'
      BY <1>1, <1>6, <2>1 DEF ScopeType, RunnerType, SamePlan, JobIsJob, LocalJob, TakeJobHook, JobPositions,
         HookNames
  <2>7. LocalJob'
      BY <1>1, <1>6, <2>1 DEF LocalInv, LocalJob, SamePlan, JobIsJob, RunnerType, TakeJobHook, HookNames,
         OutcomeHooks, FailureHooks
  <2>8. ASSUME NEW q \in Names PROVE LocalStep(q)'
    <3>2. CASE pc'[q] = pc[q] /\ att'[q] = att[q]
      BY <1>1, <1>6, <2>1, <3>2, Untouched DEF LocalInv, PositionType, ResultType, CounterType, TakeJobHook
    <3>3. CASE ~(pc'[q] = pc[q] /\ att'[q] = att[q])
      BY <1>1, <1>6, <2>1, <3>3, FreePosition DEF PositionType, CounterType, TakeJobHook
    <3> QED BY <3>2, <3>3
  <2> QED BY <2>1, <2>2, <2>3, <2>4, <2>5, <2>6, <2>7, <2>8 DEF LocalInv, SamePlan
<1>7. CASE RunJobEnsure
  <2>1. SamePlan
      BY <1>7, PlanStays DEF RunJobEnsure, StartStep
  <2>2. PositionType'
      BY <1>1, <1>7, <2>1 DEF PositionType, StepsAreSteps, JobIsJob, SamePlan, LocalInv, LocalStep, LocalJob,
         RunJobEnsure, StartStep
  <2>3. ResultType'
      BY <1>1, <1>7, <2>1 DEF ResultType, StepsAreSteps, JobIsJob, SamePlan, LocalInv, LocalStep, LocalJob,
         RunnerType, RunJobEnsure, StartStep
  <2>4. RowType'
      BY <1>1, <1>7, <2>1 DEF RowType, SamePlan, RunJobEnsure, StartStep
  <2>5. CounterType'
    <3>1. CASE JobHook("ensure") = None
      BY <1>1, <1>7, <2>1, <3>1 DEF CounterType, SamePlan, RunJobEnsure, StartStep
    <3>2. CASE ~(JobHook("ensure") = None)
      BY <1>1, <1>7, <2>1, <3>2, FirstAttempt DEF RunJobEnsure, StartStep, StepsAreSteps, JobIsJob
    <3> QED BY <3>1, <3>2
  <2>6. ScopeType' /\ RunnerType'
      BY <1>1, <1>7, <2>1 DEF ScopeType, RunnerType, SamePlan, JobIsJob, LocalJob, RunJobEnsure, StartStep,
         JobPositions, HookNames
  <2>7. LocalJob'
      BY <1>1, <1>7, <2>1 DEF LocalInv, LocalJob, SamePlan, JobIsJob, RunnerType, RunJobEnsure, StartStep, HookNames,
         OutcomeHooks, FailureHooks
  <2>8. ASSUME NEW q \in Names PROVE LocalStep(q)'
    <3>2. CASE pc'[q] = pc[q] /\ att'[q] = att[q]
      BY <1>1, <1>7, <2>1, <3>2, Untouched DEF LocalInv, PositionType, ResultType, CounterType, RunJobEnsure,
         StartStep
    <3>3. CASE ~(pc'[q] = pc[q] /\ att'[q] = att[q])
      BY <1>1, <1>7, <2>1, <3>3, FreePosition DEF PositionType, CounterType, RunJobEnsure, StartStep
    <3> QED BY <3>2, <3>3
  <2> QED BY <2>1, <2>2, <2>3, <2>4, <2>5, <2>6, <2>7, <2>8 DEF LocalInv, SamePlan
<1>8. CASE TakeJobEnsure
  <2>1. SamePlan
      BY <1>8, PlanStays DEF TakeJobEnsure
  <2>2. PositionType'
      BY <1>1, <1>8, <2>1 DEF PositionType, StepsAreSteps, JobIsJob, SamePlan, LocalInv, LocalStep, LocalJob,
         TakeJobEnsure
  <2>3. ResultType'
      BY <1>1, <1>8, <2>1 DEF ResultType, StepsAreSteps, JobIsJob, SamePlan, LocalInv, LocalStep, LocalJob,
         RunnerType, TakeJobEnsure
  <2>4. RowType'
      BY <1>1, <1>8, <2>1 DEF RowType, SamePlan, TakeJobEnsure
  <2>5. CounterType'
      BY <1>1, <1>8, <2>1 DEF CounterType, StepsAreSteps, JobIsJob, SamePlan, LocalInv, LocalStep, LocalJob,
         TakeJobEnsure
  <2>6. ScopeType' /\ RunnerType'
      BY <1>1, <1>8, <2>1 DEF ScopeType, RunnerType, SamePlan, JobIsJob, LocalJob, TakeJobEnsure, JobPositions,
         HookNames
  <2>7. LocalJob'
      BY <1>1, <1>8, <2>1 DEF LocalInv, LocalJob, SamePlan, JobIsJob, RunnerType, TakeJobEnsure, HookNames,
         OutcomeHooks, FailureHooks
  <2>8. ASSUME NEW q \in Names PROVE LocalStep(q)'
    <3>2. CASE pc'[q] = pc[q] /\ att'[q] = att[q]
      BY <1>1, <1>8, <2>1, <3>2, Untouched DEF LocalInv, PositionType, ResultType, CounterType, TakeJobEnsure
    <3>3. CASE ~(pc'[q] = pc[q] /\ att'[q] = att[q])
      BY <1>1, <1>8, <2>1, <3>3, FreePosition DEF PositionType, CounterType, TakeJobEnsure
    <3> QED BY <3>2, <3>3
  <2> QED BY <2>1, <2>2, <2>3, <2>4, <2>5, <2>6, <2>7, <2>8 DEF LocalInv, SamePlan
<1>9. CASE FinishJob
  <2>1. SamePlan
      BY <1>9, PlanStays DEF FinishJob, JobResult
  <2>2. PositionType'
      BY <1>1, <1>9, <2>1 DEF PositionType, StepsAreSteps, JobIsJob, SamePlan, LocalInv, LocalStep, LocalJob,
         FinishJob, JobResult
  <2>3. ResultType'
      BY <1>1, <1>9, <2>1 DEF ResultType, StepsAreSteps, JobIsJob, SamePlan, LocalInv, LocalStep, LocalJob,
         RunnerType, FinishJob, JobResult
  <2>4. RowType'
      BY <1>1, <1>9, <2>1 DEF RowType, SamePlan, FinishJob, JobResult
  <2>5. CounterType'
      BY <1>1, <1>9, <2>1 DEF CounterType, StepsAreSteps, JobIsJob, SamePlan, LocalInv, LocalStep, LocalJob,
         FinishJob, JobResult
  <2>6. ScopeType' /\ RunnerType'
      BY <1>1, <1>9, <2>1 DEF ScopeType, RunnerType, SamePlan, JobIsJob, LocalJob, FinishJob, JobResult,
         JobPositions, HookNames
  <2>7. LocalJob'
      BY <1>1, <1>9, <2>1 DEF LocalInv, LocalJob, SamePlan, JobIsJob, RunnerType, FinishJob, JobResult, HookNames,
         OutcomeHooks, FailureHooks
  <2>8. ASSUME NEW q \in Names PROVE LocalStep(q)'
    <3>2. CASE pc'[q] = pc[q] /\ att'[q] = att[q]
      BY <1>1, <1>9, <2>1, <3>2, Untouched DEF LocalInv, PositionType, ResultType, CounterType, FinishJob, JobResult
    <3>3. CASE ~(pc'[q] = pc[q] /\ att'[q] = att[q])
      BY <1>1, <1>9, <2>1, <3>3, FreePosition DEF PositionType, CounterType, FinishJob, JobResult
    <3> QED BY <3>2, <3>3
  <2> QED BY <2>1, <2>2, <2>3, <2>4, <2>5, <2>6, <2>7, <2>8 DEF LocalInv, SamePlan
<1>10. CASE StopJob
  <2>1. SamePlan
      BY <1>10, PlanStays DEF StopJob
  <2>2. PositionType'
      BY <1>1, <1>10, <2>1 DEF PositionType, StepsAreSteps, JobIsJob, SamePlan, LocalInv, LocalStep, LocalJob, StopJob
  <2>3. ResultType'
      BY <1>1, <1>10, <2>1 DEF ResultType, StepsAreSteps, JobIsJob, SamePlan, LocalInv, LocalStep, LocalJob,
         RunnerType, StopJob
  <2>4. RowType'
      BY <1>1, <1>10, <2>1 DEF RowType, SamePlan, StopJob
  <2>5. CounterType'
      BY <1>1, <1>10, <2>1 DEF CounterType, StepsAreSteps, JobIsJob, SamePlan, LocalInv, LocalStep, LocalJob, StopJob
  <2>6. ScopeType' /\ RunnerType'
      BY <1>1, <1>10, <2>1 DEF ScopeType, RunnerType, SamePlan, JobIsJob, LocalJob, StopJob, JobPositions, HookNames
  <2>7. LocalJob'
      BY <1>1, <1>10, <2>1 DEF LocalInv, LocalJob, SamePlan, JobIsJob, RunnerType, StopJob, HookNames, OutcomeHooks,
         FailureHooks
  <2>8. ASSUME NEW q \in Names PROVE LocalStep(q)'
    <3>2. CASE pc'[q] = pc[q] /\ att'[q] = att[q]
      BY <1>1, <1>10, <2>1, <3>2, Untouched DEF LocalInv, PositionType, ResultType, CounterType, StopJob
    <3>3. CASE ~(pc'[q] = pc[q] /\ att'[q] = att[q])
      BY <1>1, <1>10, <2>1, <3>3, FreePosition DEF PositionType, CounterType, StopJob
    <3> QED BY <3>2, <3>3
  <2> QED BY <2>1, <2>2, <2>3, <2>4, <2>5, <2>6, <2>7, <2>8 DEF LocalInv, SamePlan
<1> QED BY <1>2, <1>3, <1>4, <1>5, <1>6, <1>7, <1>8, <1>9, <1>10

\* Every step of the engine keeps the types and the positions.
LEMMA EngineKeepsTypes ==
  ASSUME TypeInv, [EngineNext]_engineVars
  PROVE  TypeInv'
<1>1. ASSUME NEW s \in Names, StepMoves(s) PROVE TypeInv'
      BY <1>1, LeafTypes, GroupTypes, HookTypes DEF StepMoves
<1>2. CASE JobMoves
      BY <1>2, JobTypes DEF JobMoves
<1>3. CASE StopJob
      BY <1>3, JobTypes
<1>4. CASE UNCHANGED engineVars
  <2>1. SamePlan
      BY <1>4, PlanStays DEF engineVars
  <2> QED BY <1>4, <2>1 DEF engineVars, stepVars, scope, jobVars, history, SamePlan, TypeInv, EngineTypeOK,
     PositionType,
             ResultType, RowType, CounterType, ScopeType, RunnerType, LocalInv, LocalJob, LocalStep
<1> QED BY <1>1, <1>2, <1>3, <1>4 DEF EngineNext, EngineProgress

\* Whatever the plans, processStep and its handlers keep their types, and every position belongs to the kind of
\* its step.
THEOREM EngineTypeInvariance == EngineSpec => []TypeInv
<1>1. EngineInit => TypeInv
  <2> SUFFICES ASSUME EngineInit PROVE TypeInv
      OBVIOUS
  <2>1. StepsAreSteps /\ JobIsJob
      BY PlanSteps DEF EngineInit
  <2>2. PositionType /\ ResultType /\ RowType /\ ScopeType
      BY Vocabulary DEF EngineInit, PositionType, ResultType, RowType, ScopeType
  <2>3. CounterType
      BY <2>1 DEF EngineInit, CounterType, StepsAreSteps
  <2>4. RunnerType
      BY <2>1 DEF EngineInit, RunnerType, JobPositions, JobIsJob
  <2>5. LocalInv
      BY DEF EngineInit, LocalInv, LocalJob, LocalStep, OutcomeHooks, HookNames
  <2> QED BY <2>2, <2>3, <2>4, <2>5 DEF TypeInv, EngineTypeOK
<1>2. TypeInv /\ [EngineNext]_engineVars => TypeInv'
      BY EngineKeepsTypes
<1> QED BY <1>1, <1>2, PTL DEF EngineSpec

\* Type correctness of the engine, for every set of plans.
THEOREM EngineTypeCorrect == EngineSpec => []EngineTypeOK
<1>1. TypeInv => EngineTypeOK
      BY DEF TypeInv
<1> QED BY <1>1, EngineTypeInvariance, PTL

-----------------------------------------------------------------------------
(* The calls of processStep form a tree: a step that runs is waited for by the one that called it. *)

Waiting == {"seq", "inner", "join", "hook", "ensuring"}

WaitsInner(p, i) ==
  IF StepOf(p).kind \in Forks THEN pc[p] \in {"inner", "join"} /\ i <= idx[p]
  ELSE pc[p] = "seq" /\ i = idx[p] /\ pc[Inner(p)[i]] # "release"

InnerCalls == \A p \in Names : \A i \in 1..Len(Inner(p)) : pc[Inner(p)[i]] # "idle" => WaitsInner(p, i)
HookCalls ==
  \A p \in Names : \A h \in OutcomeHooks :
    HookOf(p, h) # None /\ pc[HookOf(p, h)] # "idle" => pc[p] = "hook" /\ hook[p] = h
EnsureCalls ==
  \A p \in Names : HookOf(p, "ensure") # None /\ pc[HookOf(p, "ensure")] # "idle" => pc[p] = "ensuring"
PlanCalls == \A i \in 1..Len(job.plan) : pc[job.plan[i]] # "idle" => jpc = "step" /\ jidx = i
JobHookCalls ==
  /\ \A h \in OutcomeHooks : JobHook(h) # None /\ pc[JobHook(h)] # "idle" => jpc = h
  /\ JobHook("ensure") # None /\ pc[JobHook("ensure")] # "idle" => jpc = "ensuring"

HasPlace(t) ==
  \/ \E p \in Names : \E i \in 1..Len(Inner(p)) : t = Inner(p)[i]
  \/ \E p \in Names : \E h \in HookNames : t = HookOf(p, h)
  \/ \E i \in 1..Len(job.plan) : t = job.plan[i]
  \/ \E h \in HookNames : t = JobHook(h)
RunningHasPlace == \A t \in Names : pc[t] # "idle" => HasPlace(t)

CallInv == InnerCalls /\ HookCalls /\ EnsureCalls /\ PlanCalls /\ JobHookCalls /\ RunningHasPlace

\* The steps other than those in A stay where they are.
Others(A) == \A q \in Names \ A : pc'[q] = pc[q] /\ hook'[q] = hook[q] /\ idx'[q] = idx[q]

\* s goes on by itself: it waits for nobody.
LocalMove(s) ==
  /\ pc[s] \notin Waiting /\ pc[s] # "idle" /\ pc'[s] # "idle"
  /\ pc'[s] = "release" => \E p \in Names : \E i \in 1..Len(Inner(p)) : s = Inner(p)[i] /\ StepOf(p).kind \in Forks
  /\ Others({s}) /\ jpc' = jpc /\ jidx' = jidx

\* s calls t, and the other steps that s waits for are those it waited for.
CallsNow(s, t) ==
  \/ \E i \in 1..Len(Inner(s)) : t = Inner(s)[i] /\ WaitsInner(s, i)
  \/ \E h \in OutcomeHooks : t = HookOf(s, h) /\ pc[s] = "hook" /\ hook[s] = h
  \/ t = HookOf(s, "ensure") /\ pc[s] = "ensuring"
CallMove(s, t) ==
  /\ s # t /\ pc[t] = "idle" /\ pc[s] # "idle" /\ pc'[t] = "enter" /\ pc'[s] \notin {"idle", "release"}
  /\ Others({s, t}) /\ hook'[t] = hook[t] /\ idx'[t] = idx[t] /\ jpc' = jpc /\ jidx' = jidx
  /\ \A i \in 1..Len(Inner(s)) : pc[Inner(s)[i]] # "idle" => StepOf(s).kind \in Forks /\ pc'[s] = pc[s] /\ idx'[s] >= idx[s]
  /\ pc[s] \notin {"hook", "ensuring"} /\ idx[s] \in Nat /\ idx'[s] \in Nat

\* s takes the result of t; it waits for nobody else, or it is a fork and goes on waiting.
ReturnMove(s, t) ==
  /\ s # t /\ pc[t] \in {"done", "release"} /\ pc'[t] = "idle" /\ pc[s] # "idle" /\ pc'[s] \notin {"idle", "release"}
  /\ Others({s, t}) /\ hook'[t] = hook[t] /\ idx'[t] = idx[t] /\ hook'[s] = hook[s] /\ idx'[s] = idx[s]
  /\ jpc' = jpc /\ jidx' = jidx
  /\ pc'[s] = pc[s] \/ (CallsNow(s, t) /\ StepOf(s).kind \notin Forks)
                    \/ (CallsNow(s, t) /\ pc[s] \in {"hook", "ensuring"})

\* What has a place keeps it.
LEMMA PlaceStays == ASSUME SamePlan PROVE \A t : HasPlace(t)' <=> HasPlace(t)
BY DEF SamePlan, HasPlace

\* A local move keeps the tree of calls.
LEMMA LocalMoveCalls ==
  ASSUME StepsAreSteps, JobIsJob, Places, CallInv, SamePlan, NEW s \in Names, LocalMove(s)
  PROVE  CallInv'
<1> USE DEF LocalMove, Others, Waiting
<1>1. InnerCalls'
  <2> SUFFICES ASSUME NEW p \in Names, NEW i \in 1..Len(Inner(p)), pc'[Inner(p)[i]] # "idle" PROVE WaitsInner(p, i)'
      BY DEF InnerCalls, SamePlan
  <2>1. Inner(p)[i] \in Names
      BY DEF StepsAreSteps
  <2>2. pc[Inner(p)[i]] # "idle"
      BY <2>1
  <2>3. WaitsInner(p, i)
      BY <2>2 DEF CallInv, InnerCalls
  <2>4. p # s
      BY <2>3 DEF WaitsInner
  <2>5. StepOf(p).kind \notin Forks => pc'[Inner(p)[i]] # "release"
      BY <2>1, <2>3 DEF WaitsInner, Places, InnerPlace
  <2> QED BY <2>3, <2>4, <2>5 DEF WaitsInner, SamePlan
<1>2. HookCalls'
  <2> SUFFICES ASSUME NEW p \in Names, NEW h \in OutcomeHooks, HookOf(p, h) # None, pc'[HookOf(p, h)] # "idle"
               PROVE  pc'[p] = "hook" /\ hook'[p] = h
      BY DEF HookCalls, SamePlan
  <2>1. HookOf(p, h) \in Names
      BY DEF StepsAreSteps
  <2>2. pc[HookOf(p, h)] # "idle"
      BY <2>1
  <2>3. pc[p] = "hook" /\ hook[p] = h
      BY <2>2 DEF CallInv, HookCalls
  <2> QED BY <2>3
<1>3. EnsureCalls'
  <2> SUFFICES ASSUME NEW p \in Names, HookOf(p, "ensure") # None, pc'[HookOf(p, "ensure")] # "idle"
               PROVE  pc'[p] = "ensuring"
      BY DEF EnsureCalls, SamePlan
  <2>1. HookOf(p, "ensure") \in Names
      BY DEF StepsAreSteps
  <2>2. pc[HookOf(p, "ensure")] # "idle"
      BY <2>1
  <2>3. pc[p] = "ensuring"
      BY <2>2 DEF CallInv, EnsureCalls
  <2> QED BY <2>3
<1>4. PlanCalls'
      BY DEF CallInv, PlanCalls, SamePlan, JobIsJob
<1>5. JobHookCalls'
      BY DEF CallInv, JobHookCalls, SamePlan, JobIsJob
<1>6. RunningHasPlace'
      BY PlaceStays DEF CallInv, RunningHasPlace, SamePlan
<1> QED BY <1>1, <1>2, <1>3, <1>4, <1>5, <1>6 DEF CallInv

\* A call keeps it.
LEMMA CallMoveCalls ==
  ASSUME StepsAreSteps, JobIsJob, Places, CallInv, SamePlan, NEW s \in Names, NEW t \in Names, CallMove(s, t), CallsNow(s, t)'
  PROVE  CallInv'
<1> USE DEF CallMove, Others, Waiting
<1>0. CASE \E i \in 1..Len(Inner(s)) : t = Inner(s)[i] /\ WaitsInner(s, i)'
  <2>1. PICK k \in 1..Len(Inner(s)) : t = Inner(s)[k] /\ WaitsInner(s, k)'
      BY <1>0
  <2>2. InnerCalls'
    <3> SUFFICES ASSUME NEW p \in Names, NEW i \in 1..Len(Inner(p)), pc'[Inner(p)[i]] # "idle" PROVE WaitsInner(p, i)'
      BY DEF InnerCalls, SamePlan
    <3>1. Inner(p)[i] \in Names
      BY DEF StepsAreSteps
    <3>2. CASE Inner(p)[i] = t
      BY <2>1, <3>2 DEF Places, InnerPlace
    <3>3. CASE Inner(p)[i] # t
      <4>1. pc[Inner(p)[i]] # "idle"
          BY <3>1, <3>3
      <4>2. WaitsInner(p, i)
          BY <4>1 DEF CallInv, InnerCalls
      <4>3. p # t
          BY <4>2 DEF WaitsInner
      <4>4. CASE p = s
        <5>1. StepOf(p).kind \in Forks /\ pc'[p] = pc[p] /\ idx'[p] >= idx[p] /\ idx[p] \in Nat /\ idx'[p] \in Nat
          BY <4>1, <4>4
        <5>2. pc'[p] \in {"inner", "join"} /\ i <= idx[p]
          BY <4>2, <5>1 DEF WaitsInner
        <5>3. i \in Nat
          BY DEF StepsAreSteps
        <5>4. i <= idx'[p]
          BY <5>1, <5>2, <5>3
        <5> QED BY <5>1, <5>2, <5>4 DEF WaitsInner, SamePlan
      <4>5. CASE p # s
          BY <3>1, <3>3, <4>2, <4>3, <4>5 DEF WaitsInner, SamePlan
      <4> QED BY <4>4, <4>5
    <3> QED BY <3>2, <3>3
  <2>3. HookCalls'
    <3> SUFFICES ASSUME NEW p \in Names, NEW h \in OutcomeHooks, HookOf(p, h) # None, pc'[HookOf(p, h)] # "idle"
                 PROVE  pc'[p] = "hook" /\ hook'[p] = h
      BY DEF HookCalls, SamePlan
    <3>1. HookOf(p, h) \in Names /\ HookOf(p, h) # t
      BY <2>1 DEF StepsAreSteps, Places, InnerPlace, OutcomeHooks
    <3>2. CASE HookOf(p, h) = s
      BY <3>1, <3>2 DEF CallInv, HookCalls
    <3>3. CASE HookOf(p, h) # s
      BY <3>1, <3>3 DEF CallInv, HookCalls
    <3> QED BY <3>2, <3>3
  <2>4. EnsureCalls'
    <3> SUFFICES ASSUME NEW p \in Names, HookOf(p, "ensure") # None, pc'[HookOf(p, "ensure")] # "idle"
                 PROVE  pc'[p] = "ensuring"
      BY DEF EnsureCalls, SamePlan
    <3>1. HookOf(p, "ensure") \in Names
      BY DEF StepsAreSteps
    <3>2. CASE HookOf(p, "ensure") = t
      BY <2>1, <3>1, <3>2 DEF Places, InnerPlace, HookNames
    <3>3. CASE HookOf(p, "ensure") # t
      BY <3>1, <3>3 DEF CallInv, EnsureCalls
    <3> QED BY <3>2, <3>3
  <2>5. PlanCalls'
    <3> SUFFICES ASSUME NEW i \in 1..Len(job.plan), pc'[job.plan[i]] # "idle" PROVE jpc' = "step" /\ jidx' = i
      BY DEF PlanCalls, SamePlan
    <3>1. job.plan[i] \in Names /\ job.plan[i] # t
      BY <2>1 DEF JobIsJob, Places, InnerPlace
    <3> QED BY <3>1 DEF CallInv, PlanCalls
  <2>6. JobHookCalls'
    <3>1. ASSUME NEW h \in HookNames, JobHook(h) # None
          PROVE  JobHook(h) \in Names /\ JobHook(h) # t /\ (pc'[JobHook(h)] # "idle" => pc[JobHook(h)] # "idle")
      <4>1. JobHook(h) \in Names
          BY <3>1 DEF JobIsJob
      <4>2. JobHook(h) # t
          BY <2>1 DEF Places, InnerPlace
      <4> QED BY <4>1, <4>2
    <3>2. ASSUME NEW h \in OutcomeHooks, JobHook(h) # None, pc'[JobHook(h)] # "idle" PROVE jpc' = h
      <4>1. h \in HookNames
          BY DEF OutcomeHooks
      <4> QED BY <3>1, <3>2, <4>1 DEF CallInv, JobHookCalls
    <3>3. ASSUME JobHook("ensure") # None, pc'[JobHook("ensure")] # "idle" PROVE jpc' = "ensuring"
      <4>1. "ensure" \in HookNames
          BY DEF HookNames
      <4> QED BY <3>1, <3>3, <4>1 DEF CallInv, JobHookCalls
    <3> QED BY <3>2, <3>3 DEF JobHookCalls, SamePlan
  <2>7. RunningHasPlace'
      BY <2>1, PlaceStays DEF CallInv, RunningHasPlace, SamePlan, HasPlace
  <2> QED BY <2>2, <2>3, <2>4, <2>5, <2>6, <2>7 DEF CallInv
<1>1. CASE \E h \in HookNames : t = HookOf(s, h) /\ pc'[s] = (IF h = "ensure" THEN "ensuring" ELSE "hook")
                                /\ (h # "ensure" => hook'[s] = h)
  <2>1. PICK g \in HookNames : t = HookOf(s, g) /\ pc'[s] = (IF g = "ensure" THEN "ensuring" ELSE "hook")
                               /\ (g # "ensure" => hook'[s] = g)
      BY <1>1
  <2>0. t # None
      BY DEF JobIsJob
  <2>2. InnerCalls'
    <3> SUFFICES ASSUME NEW p \in Names, NEW i \in 1..Len(Inner(p)), pc'[Inner(p)[i]] # "idle" PROVE WaitsInner(p, i)'
      BY DEF InnerCalls, SamePlan
    <3>1. Inner(p)[i] \in Names /\ Inner(p)[i] # t
      BY <2>1 DEF StepsAreSteps, Places, InnerPlace
    <3>2. pc[Inner(p)[i]] # "idle"
      BY <3>1
    <3>3. WaitsInner(p, i)
      BY <3>2 DEF CallInv, InnerCalls
    <3>4. p # t
      BY <3>3 DEF WaitsInner
    <3>5. CASE p = s
      BY <3>1, <3>2, <3>3, <3>5, <2>1 DEF WaitsInner, SamePlan, StepsAreSteps
    <3>6. CASE p # s
      BY <3>1, <3>3, <3>4, <3>6 DEF WaitsInner, SamePlan
    <3> QED BY <3>5, <3>6
  <2>3. HookCalls'
    <3> SUFFICES ASSUME NEW p \in Names, NEW h \in OutcomeHooks, HookOf(p, h) # None, pc'[HookOf(p, h)] # "idle"
                 PROVE  pc'[p] = "hook" /\ hook'[p] = h
      BY DEF HookCalls, SamePlan
    <3>1. HookOf(p, h) \in Names /\ h # "ensure"
      BY DEF StepsAreSteps, OutcomeHooks
    <3>2. CASE HookOf(p, h) = t
      BY <2>0, <2>1, <3>1, <3>2 DEF Places, HookPlace, OutcomeHooks
    <3>3. CASE HookOf(p, h) # t
      BY <3>1, <3>3 DEF CallInv, HookCalls
    <3> QED BY <3>2, <3>3
  <2>4. EnsureCalls'
    <3> SUFFICES ASSUME NEW p \in Names, HookOf(p, "ensure") # None, pc'[HookOf(p, "ensure")] # "idle"
                 PROVE  pc'[p] = "ensuring"
      BY DEF EnsureCalls, SamePlan
    <3>1. HookOf(p, "ensure") \in Names
      BY DEF StepsAreSteps
    <3>2. CASE HookOf(p, "ensure") = t
      BY <2>0, <2>1, <3>1, <3>2 DEF Places, HookPlace, HookNames
    <3>3. CASE HookOf(p, "ensure") # t
      BY <3>1, <3>3 DEF CallInv, EnsureCalls
    <3> QED BY <3>2, <3>3
  <2>5. PlanCalls'
    <3> SUFFICES ASSUME NEW i \in 1..Len(job.plan), pc'[job.plan[i]] # "idle" PROVE jpc' = "step" /\ jidx' = i
      BY DEF PlanCalls, SamePlan
    <3>1. job.plan[i] \in Names /\ job.plan[i] # t
      BY <2>0, <2>1 DEF JobIsJob, Places, HookPlace
    <3> QED BY <3>1 DEF CallInv, PlanCalls
  <2>6. JobHookCalls'
      BY <2>0, <2>1 DEF CallInv, JobHookCalls, SamePlan, JobIsJob, Places, HookPlace, OutcomeHooks, HookNames
  <2>7. RunningHasPlace'
      BY <2>1, PlaceStays DEF CallInv, RunningHasPlace, SamePlan, HasPlace
  <2> QED BY <2>2, <2>3, <2>4, <2>5, <2>6, <2>7 DEF CallInv
<1> QED BY <1>0, <1>1 DEF CallsNow, SamePlan, OutcomeHooks, HookNames

\* A result that is taken keeps it.
LEMMA ReturnMoveCalls ==
  ASSUME StepsAreSteps, JobIsJob, Places, CallInv, SamePlan, NEW s \in Names, NEW t \in Names, ReturnMove(s, t)
  PROVE  CallInv'
<1> USE DEF ReturnMove, Others
<1>1. InnerCalls'
  <2> SUFFICES ASSUME NEW p \in Names, NEW i \in 1..Len(Inner(p)), pc'[Inner(p)[i]] # "idle" PROVE WaitsInner(p, i)'
      BY DEF InnerCalls, SamePlan
  <2>1. Inner(p)[i] \in Names /\ Inner(p)[i] # t
      BY DEF StepsAreSteps
  <2>2. pc[Inner(p)[i]] # "idle"
      BY <2>1
  <2>3. WaitsInner(p, i)
      BY <2>2 DEF CallInv, InnerCalls
  <2>4. p # t
      BY <2>3 DEF WaitsInner
  <2>5. pc'[Inner(p)[i]] = "release" => pc[Inner(p)[i]] = "release"
      BY <2>1
  <2>6. CASE p = s /\ pc'[s] # pc[s]
      BY <2>1, <2>3, <2>6 DEF WaitsInner, CallsNow
  <2>7. CASE p # s \/ pc'[s] = pc[s]
      BY <2>3, <2>4, <2>5, <2>7 DEF WaitsInner, SamePlan
  <2> QED BY <2>6, <2>7
<1>2. HookCalls'
  <2> SUFFICES ASSUME NEW p \in Names, NEW h \in OutcomeHooks, HookOf(p, h) # None, pc'[HookOf(p, h)] # "idle"
               PROVE  pc'[p] = "hook" /\ hook'[p] = h
      BY DEF HookCalls, SamePlan
  <2>1. HookOf(p, h) \in Names /\ HookOf(p, h) # t /\ h # "ensure"
      BY DEF StepsAreSteps, OutcomeHooks
  <2>2. pc[p] = "hook" /\ hook[p] = h
      BY <2>1 DEF CallInv, HookCalls
  <2>3. CASE p = s /\ pc'[s] # pc[s]
      BY <2>1, <2>2, <2>3 DEF CallsNow, WaitsInner
  <2>4. CASE p # s \/ pc'[s] = pc[s]
      BY <2>2, <2>4
  <2> QED BY <2>3, <2>4
<1>3. EnsureCalls'
  <2> SUFFICES ASSUME NEW p \in Names, HookOf(p, "ensure") # None, pc'[HookOf(p, "ensure")] # "idle"
               PROVE  pc'[p] = "ensuring"
      BY DEF EnsureCalls, SamePlan
  <2>1. HookOf(p, "ensure") \in Names /\ HookOf(p, "ensure") # t
      BY DEF StepsAreSteps
  <2>2. pc[p] = "ensuring"
      BY <2>1 DEF CallInv, EnsureCalls
  <2>3. CASE p = s /\ pc'[s] # pc[s]
      BY <2>1, <2>2, <2>3 DEF CallsNow, WaitsInner
  <2>4. CASE p # s \/ pc'[s] = pc[s]
      BY <2>2, <2>4
  <2> QED BY <2>3, <2>4
<1>4. PlanCalls'
      BY DEF CallInv, PlanCalls, SamePlan, JobIsJob
<1>5. JobHookCalls'
      BY DEF CallInv, JobHookCalls, SamePlan, JobIsJob
<1>6. RunningHasPlace'
      BY PlaceStays DEF CallInv, RunningHasPlace, SamePlan
<1> QED BY <1>1, <1>2, <1>3, <1>4, <1>5, <1>6 DEF CallInv

\* A fork that has launched all waits for what it launched.
LEMMA JoinMoveCalls ==
  ASSUME CallInv, SamePlan, NEW s \in Names, pc[s] = "inner", StepOf(s).kind \in Forks, pc' = [pc EXCEPT ![s] = "join"],
         pc \in [Names -> Positions], StepsAreSteps, JobIsJob, hook' = hook, idx' = idx, jpc' = jpc, jidx' = jidx
  PROVE  CallInv'
<1>1. InnerCalls'
      BY DEF CallInv, InnerCalls, SamePlan, StepsAreSteps, WaitsInner
<1>2. HookCalls'
  <2> SUFFICES ASSUME NEW p \in Names, NEW h \in OutcomeHooks, HookOf(p, h) # None, pc'[HookOf(p, h)] # "idle"
               PROVE  pc'[p] = "hook" /\ hook'[p] = h
      BY DEF HookCalls, SamePlan
  <2>1. HookOf(p, h) \in Names
      BY DEF StepsAreSteps
  <2>2. pc[HookOf(p, h)] # "idle"
      BY <2>1
  <2>3. pc[p] = "hook" /\ hook[p] = h
      BY <2>2 DEF CallInv, HookCalls
  <2> QED BY <2>3
<1>3. EnsureCalls'
  <2> SUFFICES ASSUME NEW p \in Names, HookOf(p, "ensure") # None, pc'[HookOf(p, "ensure")] # "idle"
               PROVE  pc'[p] = "ensuring"
      BY DEF EnsureCalls, SamePlan
  <2>1. HookOf(p, "ensure") \in Names
      BY DEF StepsAreSteps
  <2>2. pc[HookOf(p, "ensure")] # "idle"
      BY <2>1
  <2>3. pc[p] = "ensuring"
      BY <2>2 DEF CallInv, EnsureCalls
  <2> QED BY <2>3
<1>4. PlanCalls' /\ JobHookCalls'
      BY DEF CallInv, PlanCalls, JobHookCalls, SamePlan, JobIsJob
<1>5. RunningHasPlace'
      BY PlaceStays DEF CallInv, RunningHasPlace, SamePlan
<1> QED BY <1>1, <1>2, <1>3, <1>4, <1>5 DEF CallInv

\* What the job calls, and what it does not wait for.
JobCallsNow(t) ==
  \/ jpc = "step" /\ jidx \in 1..Len(job.plan) /\ t = job.plan[jidx]
  \/ jpc \in OutcomeHooks /\ t = JobHook(jpc)
  \/ jpc = "ensuring" /\ t = JobHook("ensure")
JobWaits == jpc \in OutcomeHooks \cup {"step", "ensuring"}

\* The job calls a step: only its own position and that of the step change.
LEMMA JobCallCalls ==
  ASSUME StepsAreSteps, JobIsJob, Places, CallInv, SamePlan, NEW t \in Names, pc \in [Names -> Positions],
         ~JobWaits, JobCallsNow(t)', pc' = [pc EXCEPT ![t] = "enter"], hook' = hook, idx' = idx
  PROVE  CallInv'
<1>0. t # None
      BY DEF JobIsJob
<1>1. /\ \A p \in Names : \A i \in 1..Len(Inner(p)) : Inner(p)[i] # t
      /\ \A p \in Names : \A h \in HookNames : HookOf(p, h) # t
      BY <1>0 DEF JobCallsNow, Places, InnerPlace, HookPlace, SamePlan, OutcomeHooks, HookNames
<1>2. /\ \A i \in 1..Len(job.plan) : pc[job.plan[i]] = "idle"
      /\ \A h \in HookNames : JobHook(h) # None => pc[JobHook(h)] = "idle"
      BY DEF JobWaits, CallInv, PlanCalls, JobHookCalls, OutcomeHooks, HookNames
<1>3. InnerCalls'
  <2> SUFFICES ASSUME NEW p \in Names, NEW i \in 1..Len(Inner(p)), pc'[Inner(p)[i]] # "idle" PROVE WaitsInner(p, i)'
      BY DEF InnerCalls, SamePlan
  <2>1. Inner(p)[i] \in Names /\ Inner(p)[i] # t
      BY <1>1 DEF StepsAreSteps
  <2>2. pc'[Inner(p)[i]] = pc[Inner(p)[i]]
      BY <2>1
  <2>3. WaitsInner(p, i)
      BY <2>2 DEF CallInv, InnerCalls
  <2>4. p # t \/ pc[t] = "idle"
      BY <1>2 DEF JobCallsNow, SamePlan, OutcomeHooks, HookNames, JobIsJob
  <2>5. p # t
      BY <2>3, <2>4 DEF WaitsInner
  <2> QED BY <2>2, <2>3, <2>5 DEF WaitsInner, SamePlan
<1>4. pc[t] = "idle"
      BY <1>0, <1>2 DEF JobCallsNow, SamePlan, OutcomeHooks, HookNames
<1>5. HookCalls'
      BY <1>1, <1>4 DEF CallInv, HookCalls, SamePlan, StepsAreSteps, OutcomeHooks
<1>6. EnsureCalls'
      BY <1>1, <1>4 DEF CallInv, EnsureCalls, SamePlan, StepsAreSteps, HookNames
<1>7. PlanCalls'
  <2> SUFFICES ASSUME NEW i \in 1..Len(job.plan), pc'[job.plan[i]] # "idle" PROVE jpc' = "step" /\ jidx' = i
      BY DEF PlanCalls, SamePlan
  <2>1. job.plan[i] = t
      BY <1>2 DEF JobIsJob
  <2> QED BY <2>1 DEF JobCallsNow, SamePlan, Places, JobPlace, OutcomeHooks, HookNames
<1>8. JobHookCalls'
  <2> SUFFICES ASSUME NEW h \in HookNames, JobHook(h) # None, pc'[JobHook(h)] # "idle"
               PROVE  jpc' = (IF h = "ensure" THEN "ensuring" ELSE h)
      BY DEF JobHookCalls, SamePlan, OutcomeHooks, HookNames
  <2>1. JobHook(h) = t
      BY <1>2 DEF JobIsJob
  <2> QED BY <2>1 DEF JobCallsNow, SamePlan, Places, JobPlace, OutcomeHooks, HookNames
<1>9. RunningHasPlace'
      BY PlaceStays DEF CallInv, RunningHasPlace, SamePlan, JobCallsNow, HasPlace, OutcomeHooks, HookNames
<1> QED BY <1>3, <1>5, <1>6, <1>7, <1>8, <1>9 DEF CallInv

\* The job takes a result, or goes on by itself.
LEMMA JobReturnCalls ==
  ASSUME StepsAreSteps, JobIsJob, Places, CallInv, SamePlan, pc \in [Names -> Positions], hook' = hook, idx' = idx,
         \/ ~JobWaits /\ pc' = pc
         \/ \E t \in Names : JobCallsNow(t) /\ pc[t] = "done" /\ pc' = [pc EXCEPT ![t] = "idle"]
  PROVE  CallInv'
<1> DEFINE A == {q \in Names : pc'[q] # pc[q]}
<1>1. /\ \A q \in Names \ A : pc'[q] = pc[q]
      /\ \A q \in A : pc[q] = "done" /\ pc'[q] = "idle" /\ JobCallsNow(q)
      /\ JobWaits => \A q \in Names : JobCallsNow(q) => q \in A
  <2>1. CASE ~JobWaits /\ pc' = pc
      BY <2>1
  <2>2. ASSUME NEW t \in Names, JobCallsNow(t), pc[t] = "done", pc' = [pc EXCEPT ![t] = "idle"]
        PROVE  /\ \A q \in A : pc[q] = "done" /\ pc'[q] = "idle" /\ JobCallsNow(q)
               /\ \A q \in Names : JobCallsNow(q) => q \in A
    <3>1. \A q \in Names : JobCallsNow(q) => q = t
      BY <2>2 DEF JobCallsNow, OutcomeHooks, HookNames
    <3> QED BY <2>2, <3>1
  <2> QED BY <2>1, <2>2
<1> HIDE DEF A
<1>2. \A q \in Names : pc'[q] # "idle" => pc[q] = pc'[q]
      BY <1>1
<1>3. InnerCalls'
  <2> SUFFICES ASSUME NEW p \in Names, NEW i \in 1..Len(Inner(p)), pc'[Inner(p)[i]] # "idle" PROVE WaitsInner(p, i)'
      BY DEF InnerCalls, SamePlan
  <2>1. Inner(p)[i] \in Names
      BY DEF StepsAreSteps
  <2>2. WaitsInner(p, i)
      BY <1>2, <2>1 DEF CallInv, InnerCalls
  <2>3. p \notin A
      BY <1>1, <2>2 DEF WaitsInner
  <2> QED BY <1>1, <1>2, <2>1, <2>2, <2>3 DEF WaitsInner, SamePlan
<1>4. HookCalls'
      BY <1>1, <1>2 DEF CallInv, HookCalls, SamePlan, StepsAreSteps
<1>5. EnsureCalls'
      BY <1>1, <1>2 DEF CallInv, EnsureCalls, SamePlan, StepsAreSteps
<1>6. PlanCalls'
  <2> SUFFICES ASSUME NEW i \in 1..Len(job.plan), pc'[job.plan[i]] # "idle" PROVE FALSE
      BY DEF PlanCalls, SamePlan
  <2>1. jpc = "step" /\ jidx = i /\ job.plan[i] \in Names
      BY <1>2 DEF CallInv, PlanCalls, JobIsJob
  <2>2. job.plan[i] \in A
      BY <1>1, <2>1 DEF JobWaits, JobCallsNow, OutcomeHooks, HookNames
  <2> QED BY <1>1, <2>2
<1>7. JobHookCalls'
  <2> SUFFICES ASSUME NEW h \in HookNames, JobHook(h) # None, pc'[JobHook(h)] # "idle" PROVE FALSE
      BY DEF JobHookCalls, SamePlan, OutcomeHooks, HookNames
  <2>1. jpc = (IF h = "ensure" THEN "ensuring" ELSE h) /\ JobHook(h) \in Names
      BY <1>2 DEF CallInv, JobHookCalls, JobIsJob, OutcomeHooks
  <2>2. JobHook(h) \in A
      BY <1>1, <2>1 DEF JobWaits, JobCallsNow, OutcomeHooks, HookNames
  <2> QED BY <1>1, <2>2
<1>8. RunningHasPlace'
      BY <1>2, PlaceStays DEF CallInv, RunningHasPlace, SamePlan
<1> QED BY <1>3, <1>4, <1>5, <1>6, <1>7, <1>8 DEF CallInv

\* The steps that go on by themselves.
LEMMA LocalMoves ==
  ASSUME TypeInv, NEW s \in Names,
         \/ EnterLeaf(s) \/ LoadAgentFails(s) \/ ConfigFails(s) \/ ReturnLeaf(s) \/ EnterGroup(s) \/ CloseGroup(s)
         \/ Retry(s) \/ Dispatch(s) \/ CountFailure(s)
  PROVE  LocalMove(s) /\ SamePlan
<1> USE DEF TypeInv, EngineTypeOK, PositionType, CounterType, jobVars, LocalMove, Others, Waiting
<1>1. CASE EnterLeaf(s)
      BY <1>1, PlanStays DEF EnterLeaf, AfterHandler
<1>2. CASE LoadAgentFails(s)
      BY <1>2, PlanStays DEF LoadAgentFails, ErrsEarly, AfterHandler
<1>3. CASE ConfigFails(s)
      BY <1>3, PlanStays DEF ConfigFails, ErrsEarly, AfterHandler
<1>4. CASE ReturnLeaf(s)
      BY <1>4, PlanStays DEF ReturnLeaf, AfterHandler
<1>5. CASE EnterGroup(s)
      BY <1>5, PlanStays DEF EnterGroup, AfterHandler
<1>6. CASE CloseGroup(s)
      BY <1>6, PlanStays DEF CloseGroup, AfterHandler
<1>7. CASE Retry(s)
      BY <1>7, PlanStays DEF Retry
<1>8. CASE Dispatch(s)
      BY <1>8, PlanStays DEF Dispatch
<1>9. CASE CountFailure(s)
      BY <1>9, PlanStays DEF CountFailure
<1> QED BY <1>1, <1>2, <1>3, <1>4, <1>5, <1>6, <1>7, <1>8, <1>9

\* So does a step without an ensure hook when it ends.
LEMMA QuietEnds ==
  ASSUME TypeInv, NEW s \in Names, Ensure(s), HookOf(s, "ensure") = None
  PROVE  LocalMove(s) /\ SamePlan
BY PlanStays DEF Ensure, TypeInv, EngineTypeOK, PositionType, CounterType, jobVars, LocalMove, Others, Waiting

\* A goroutine of a fork goes on by itself when it cancels the launch context.
LEMMA CancelMoves ==
  ASSUME TypeInv, NEW s \in Names, NEW t \in Names, ForkCancels(s, t)
  PROVE  LocalMove(t) /\ SamePlan
<1>1. \E i \in 1..Len(Inner(s)) : t = Inner(s)[i]
      BY PlanSteps DEF ForkCancels, ToSet, TypeInv, EngineTypeOK, RunnerType, StepsAreSteps
<1> QED BY <1>1, PlanStays DEF ForkCancels, TypeInv, EngineTypeOK, PositionType, CounterType, jobVars, LocalMove,
   Others, Waiting

\* The steps that call another one.
LEMMA InnerIsCalled ==
  ASSUME TypeInv, CallInv, NEW s \in Names, NEW t, t = Inner(s)[idx[s] + 1],
         StartInner(s) \/ (Launch(s) /\ ~(idx[s] = Len(Inner(s)) \/ s \in shut \/ ctxDone))
  PROVE  idx[s] + 1 \in 1..Len(Inner(s)) /\ t \in Names /\ CallMove(s, t) /\ CallsNow(s, t)' /\ SamePlan
<1> USE DEF TypeInv, EngineTypeOK, PositionType, CounterType, jobVars
<1>1. StepsAreSteps
      BY PlanSteps DEF RunnerType
<1>2. SamePlan
      BY PlanStays DEF StartInner, Launch
<1>3. idx[s] + 1 \in 1..Len(Inner(s)) /\ t \in Names
      BY <1>1 DEF StartInner, Launch, StepsAreSteps
<1>4. pc[s] = "inner"
      BY DEF StartInner, Launch
<1>5. \A i \in 1..Len(Inner(s)) : pc[Inner(s)[i]] # "idle" => StepOf(s).kind \in Forks /\ i <= idx[s]
      BY <1>4 DEF CallInv, InnerCalls, WaitsInner
<1>6. pc[t] = "idle"
      BY <1>3, <1>5
<1>7. s # t
      BY <1>4, <1>6
<1>8. CASE StartInner(s)
  <2>1. StepOf(s).kind \notin Forks
      BY <1>8 DEF StartInner, Forks
  <2>2. pc'[t] = "enter" /\ pc'[s] = "seq" /\ idx'[s] = idx[s] + 1 /\ \A q \in Names \ {s, t} : pc'[q] = pc[q]
      BY <1>3, <1>7, <1>8 DEF StartInner
  <2>3. CallMove(s, t)
      BY <1>3, <1>4, <1>5, <1>6, <1>7, <1>8, <2>1, <2>2 DEF StartInner, CallMove, Others
  <2>4. CallsNow(s, t)'
      BY <1>2, <1>3, <2>1, <2>2 DEF CallsNow, WaitsInner, SamePlan
  <2> QED BY <1>2, <1>3, <2>3, <2>4
<1>9. CASE Launch(s) /\ ~(idx[s] = Len(Inner(s)) \/ s \in shut \/ ctxDone)
  <2>1. StepOf(s).kind \in Forks
      BY <1>9 DEF Launch
  <2>2. pc'[t] = "enter" /\ pc'[s] = "inner" /\ idx'[s] = idx[s] + 1 /\ \A q \in Names \ {s, t} : pc'[q] = pc[q]
      BY <1>3, <1>4, <1>7, <1>9 DEF Launch
  <2>3. CallMove(s, t)
      BY <1>3, <1>4, <1>5, <1>6, <1>7, <1>9, <2>1, <2>2 DEF Launch, CallMove, Others
  <2>4. CallsNow(s, t)'
      BY <1>2, <1>3, <2>1, <2>2 DEF CallsNow, WaitsInner, SamePlan
  <2> QED BY <1>2, <1>3, <2>3, <2>4
<1> QED BY <1>8, <1>9

\* So are the hooks.
LEMMA HookIsCalled ==
  ASSUME TypeInv, CallInv, NEW s \in Names, NEW h, NEW t, t = HookOf(s, h),
         \/ CallHook(s) /\ h = hook[s]
         \/ Ensure(s) /\ HookOf(s, "ensure") # None /\ h = "ensure"
  PROVE  t \in Names /\ CallMove(s, t) /\ CallsNow(s, t)' /\ SamePlan
<1> USE DEF TypeInv, EngineTypeOK, PositionType, CounterType, jobVars
<1>1. StepsAreSteps
      BY PlanSteps DEF RunnerType
<1>2. SamePlan
      BY PlanStays DEF CallHook, Ensure
<1>3. pc[s] \in {"call", "ensure"}
      BY DEF CallHook, Ensure
<1>4. h \in HookNames /\ t # None /\ t \in Names
      BY <1>1 DEF StepsAreSteps, LocalInv, LocalStep, CallHook, Ensure
<1>5. pc[t] = "idle"
      BY <1>3, <1>4 DEF CallInv, HookCalls, EnsureCalls, OutcomeHooks
<1>6. \A i \in 1..Len(Inner(s)) : pc[Inner(s)[i]] = "idle"
      BY <1>3 DEF CallInv, InnerCalls, WaitsInner
<1>7. s # t
      BY <1>3, <1>5
<1>8. CASE CallHook(s) /\ h = hook[s]
  <2>1. pc'[t] = "enter" /\ pc'[s] = "hook" /\ \A q \in Names \ {s, t} : pc'[q] = pc[q]
      BY <1>4, <1>7, <1>8 DEF CallHook
  <2>2. CallMove(s, t)
      BY <1>3, <1>4, <1>5, <1>6, <1>7, <1>8, <2>1 DEF CallHook, CallMove, Others
  <2>3. h \in OutcomeHooks
      BY <1>8 DEF LocalInv, LocalStep, CallHook
  <2>4. CallsNow(s, t)'
      BY <1>2, <1>8, <2>1, <2>3 DEF CallsNow, CallHook, SamePlan
  <2> QED BY <1>2, <1>4, <2>2, <2>4
<1>9. CASE Ensure(s) /\ HookOf(s, "ensure") # None /\ h = "ensure"
  <2>1. pc'[t] = "enter" /\ pc'[s] = "ensuring" /\ \A q \in Names \ {s, t} : pc'[q] = pc[q]
      BY <1>4, <1>7, <1>9 DEF Ensure
  <2>2. CallMove(s, t)
      BY <1>3, <1>4, <1>5, <1>6, <1>7, <1>9, <2>1 DEF Ensure, CallMove, Others
  <2>3. CallsNow(s, t)'
      BY <1>2, <1>9, <2>1 DEF CallsNow, Ensure, SamePlan
  <2> QED BY <1>2, <1>4, <2>2, <2>3
<1> QED BY <1>8, <1>9

\* An inner step has an index.
LEMMA InnerIndex ==
  ASSUME StepsAreSteps, NEW s \in Names, NEW t
  PROVE  t \in ToSet(Inner(s)) <=> \E i \in 1..Len(Inner(s)) : t = Inner(s)[i]
<1>1. DOMAIN Inner(s) = 1..Len(Inner(s))
      BY DEF StepsAreSteps
<1> QED BY <1>1 DEF ToSet

\* The steps that take a result.
LEMMA ResultsAreTaken ==
  ASSUME TypeInv, CallInv, NEW s \in Names, NEW t,
         \/ (DoTakes(s) \/ TryTakes(s)) /\ t = Inner(s)[idx[s]]
         \/ TakeHook(s) /\ t = HookOf(s, hook[s])
         \/ TakeEnsure(s) /\ t = HookOf(s, "ensure")
         \/ t \in Names /\ ForkReleases(s, t)
  PROVE  t \in Names /\ ReturnMove(s, t) /\ SamePlan /\ CallsNow(s, t) /\ (ForkReleases(s, t) => StepOf(s).kind \in Forks)
<1> USE DEF TypeInv, EngineTypeOK, PositionType, CounterType, jobVars
<1>1. StepsAreSteps
      BY PlanSteps DEF RunnerType
<1>2. SamePlan
      BY PlanStays DEF DoTakes, TryTakes, TakeHook, TakeEnsure, ForkReleases
<1>3. CASE (DoTakes(s) \/ TryTakes(s)) /\ t = Inner(s)[idx[s]]
  <2>1. StepOf(s).kind \notin Forks /\ pc[s] = "seq" /\ pc[t] = "done"
      BY <1>3 DEF DoTakes, TryTakes, Forks
  <2>2. idx[s] \in 1..Len(Inner(s)) /\ t \in Names /\ s # t
      BY <1>1, <1>3, <2>1 DEF LocalInv, LocalStep, StepsAreSteps
  <2>3. CallsNow(s, t)
      BY <1>3, <2>1, <2>2 DEF CallsNow, WaitsInner
  <2>4. pc'[t] = "idle" /\ pc'[s] \in {"close", "inner"} /\ \A q \in Names \ {s, t} : pc'[q] = pc[q]
    <3>1. CASE DoTakes(s)
      BY <1>3, <2>2, <3>1 DEF DoTakes
    <3>2. CASE TryTakes(s)
      BY <1>3, <2>2, <3>2 DEF TryTakes
    <3> QED BY <1>3, <3>1, <3>2
  <2>5. ReturnMove(s, t)
      BY <1>3, <2>1, <2>2, <2>3, <2>4 DEF ReturnMove, Others, DoTakes, TryTakes
  <2> QED BY <1>2, <2>1, <2>2, <2>3, <2>5 DEF ForkReleases
<1>4. CASE TakeHook(s) /\ t = HookOf(s, hook[s])
  <2>1. t \in Names /\ pc[t] = "done" /\ pc[s] = "hook" /\ hook[s] \in OutcomeHooks
      BY <1>1, <1>4 DEF TakeHook, LocalInv, LocalStep, StepsAreSteps
  <2>2. CallsNow(s, t)
      BY <1>4, <2>1 DEF CallsNow
  <2>3. pc'[t] = "idle" /\ pc'[s] = "ensure" /\ \A q \in Names \ {s, t} : pc'[q] = pc[q]
      BY <1>4, <2>1 DEF TakeHook
  <2>4. ReturnMove(s, t)
      BY <1>4, <2>1, <2>2, <2>3 DEF ReturnMove, Others, TakeHook
  <2> QED BY <1>2, <2>1, <2>2, <2>4 DEF ForkReleases
<1>5. CASE TakeEnsure(s) /\ t = HookOf(s, "ensure")
  <2>1. t \in Names /\ pc[t] = "done" /\ pc[s] = "ensuring"
      BY <1>1, <1>5 DEF TakeEnsure, LocalInv, LocalStep, StepsAreSteps
  <2>2. CallsNow(s, t)
      BY <1>5, <2>1 DEF CallsNow
  <2>3. pc'[t] = "idle" /\ pc'[s] = "done" /\ \A q \in Names \ {s, t} : pc'[q] = pc[q]
      BY <1>5, <2>1 DEF TakeEnsure
  <2>4. ReturnMove(s, t)
      BY <1>5, <2>1, <2>2, <2>3 DEF ReturnMove, Others, TakeEnsure
  <2> QED BY <1>2, <2>1, <2>2, <2>4 DEF ForkReleases
<1>6. CASE t \in Names /\ ForkReleases(s, t)
  <2>1. PICK i \in 1..Len(Inner(s)) : t = Inner(s)[i]
      BY <1>1, <1>6, InnerIndex DEF ForkReleases
  <2>2. WaitsInner(s, i)
      BY <1>6, <2>1 DEF CallInv, InnerCalls, ForkReleases
  <2>3. StepOf(s).kind \in Forks /\ pc[s] \in {"inner", "join"} /\ pc[t] = "release"
      BY <1>6, <2>1, <2>2 DEF WaitsInner, ForkReleases
  <2>4. s # t
      BY <2>3
  <2>5. pc'[t] = "idle" /\ \A q \in Names \ {t} : pc'[q] = pc[q]
      BY <1>6 DEF ForkReleases
  <2>6. ReturnMove(s, t)
      BY <1>6, <2>3, <2>4, <2>5 DEF ReturnMove, Others, ForkReleases
  <2> QED BY <1>2, <1>6, <2>1, <2>2, <2>3, <2>6 DEF CallsNow
<1> QED BY <1>3, <1>4, <1>5, <1>6

\* The steps that leave every position.
Still == pc' = pc /\ hook' = hook /\ idx' = idx /\ jpc' = jpc /\ jidx' = jidx /\ SamePlan

\* Then the calls stay.
LEMMA StillCalls == ASSUME CallInv, Still PROVE CallInv'
BY PlaceStays DEF Still, CallInv, InnerCalls, WaitsInner, HookCalls, EnsureCalls, PlanCalls, JobHookCalls,
   RunningHasPlace, SamePlan

\* A fork whose goroutines are over closes.
LEMMA CloseMoveCalls ==
  ASSUME TypeInv, CallInv, NEW s \in Names, Join(s)
  PROVE  CallInv'
<1> USE DEF TypeInv, EngineTypeOK, PositionType, jobVars
<1>1. StepsAreSteps /\ JobIsJob
      BY PlanSteps DEF RunnerType
<1>2. SamePlan
      BY PlanStays DEF Join
<1>3. pc[s] = "join" /\ pc' = [pc EXCEPT ![s] = "close"] /\ hook' = hook /\ idx' = idx /\ jpc' = jpc /\ jidx' = jidx
      BY DEF Join
<1>4. \A i \in 1..Len(Inner(s)) : pc[Inner(s)[i]] = "idle"
      BY <1>1 DEF Join, Holders, ToSet, StepsAreSteps
<1>5. InnerCalls'
  <2> SUFFICES ASSUME NEW p \in Names, NEW i \in 1..Len(Inner(p)), pc'[Inner(p)[i]] # "idle" PROVE WaitsInner(p, i)'
      BY <1>2 DEF InnerCalls, SamePlan
  <2>1. Inner(p)[i] \in Names
      BY <1>1 DEF StepsAreSteps
  <2>2. pc[Inner(p)[i]] # "idle"
      BY <2>1, <1>3
  <2>3. p # s /\ WaitsInner(p, i)
      BY <1>4, <2>2 DEF CallInv, InnerCalls
  <2> QED BY <1>2, <1>3, <2>1, <2>3 DEF WaitsInner, SamePlan
<1>6. HookCalls'
      BY <1>1, <1>2, <1>3 DEF CallInv, HookCalls, SamePlan, StepsAreSteps
<1>7. EnsureCalls'
      BY <1>1, <1>2, <1>3 DEF CallInv, EnsureCalls, SamePlan, StepsAreSteps
<1>8. PlanCalls' /\ JobHookCalls'
      BY <1>1, <1>2, <1>3 DEF CallInv, PlanCalls, JobHookCalls, SamePlan, JobIsJob
<1>9. RunningHasPlace'
      BY <1>2, <1>3, PlaceStays DEF CallInv, RunningHasPlace, SamePlan
<1> QED BY <1>5, <1>6, <1>7, <1>8, <1>9 DEF CallInv

\* The job's own moves keep the tree of calls.
LEMMA JobMovesCalls ==
  ASSUME TypeInv, CallInv, JobMoves
  PROVE  CallInv'
<1> USE DEF TypeInv, EngineTypeOK, PositionType, jobVars, stepVars
<1>1. StepsAreSteps /\ JobIsJob /\ Places
      BY PlanSteps, PlanPlaces DEF RunnerType
<1>2. SamePlan
      BY PlanStays DEF JobMoves, StartJob, RunPlanStep, TakePlanStep, RunJobHook, TakeJobHook, RunJobEnsure,
         TakeJobEnsure, FinishJob
<1>3. CASE StartJob \/ FinishJob
  <2>1. ~JobWaits /\ pc' = pc /\ hook' = hook /\ idx' = idx
      BY <1>3 DEF StartJob, FinishJob, JobWaits, OutcomeHooks, HookNames
  <2> QED BY <1>1, <1>2, <2>1, JobReturnCalls
<1>4. CASE RunPlanStep
  <2>1. PICK t : t = job.plan[jidx + 1]
      OBVIOUS
  <2>2. t \in Names /\ jidx + 1 \in 1..Len(job.plan)
      BY <1>1, <1>4, <2>1 DEF RunPlanStep, JobIsJob, RunnerType
  <2>3. ~JobWaits /\ JobCallsNow(t)'
      BY <1>2, <1>4, <2>1, <2>2 DEF RunPlanStep, JobWaits, JobCallsNow, SamePlan, OutcomeHooks, HookNames
  <2>4. pc' = [pc EXCEPT ![t] = "enter"] /\ hook' = hook /\ idx' = idx
      BY <1>4, <2>1 DEF RunPlanStep, StartStep
  <2> QED BY <1>1, <1>2, <2>2, <2>3, <2>4, JobCallCalls
<1>5. CASE TakePlanStep
  <2>1. jidx \in 1..Len(job.plan) /\ job.plan[jidx] \in Names
      BY <1>1, <1>5 DEF TakePlanStep, LocalInv, LocalJob, JobIsJob
  <2>2. JobCallsNow(job.plan[jidx])
      BY <1>5, <2>1 DEF TakePlanStep, JobCallsNow
  <2>3. pc[job.plan[jidx]] = "done" /\ pc' = [pc EXCEPT ![job.plan[jidx]] = "idle"] /\ hook' = hook /\ idx' = idx
      BY <1>5 DEF TakePlanStep
  <2> QED BY <1>1, <1>2, <2>1, <2>2, <2>3, JobReturnCalls
<1>6. CASE RunJobHook
  <2>1. ~JobWaits /\ hook' = hook /\ idx' = idx
      BY <1>6 DEF RunJobHook, JobWaits, OutcomeHooks, HookNames
  <2>2. CASE JobHookChosen = "none" \/ JobHook(JobHookChosen) = None
      BY <1>1, <1>2, <1>6, <2>1, <2>2, JobReturnCalls DEF RunJobHook
  <2>3. CASE ~(JobHookChosen = "none" \/ JobHook(JobHookChosen) = None)
    <3>1. PICK h, t : h = JobHookChosen /\ t = JobHook(h)
      OBVIOUS
    <3>2. t \in Names /\ h \in OutcomeHooks
      BY <1>1, <2>3, <3>1 DEF JobIsJob, JobHookChosen, OutcomeHooks, HookNames
    <3>3. jpc' = h /\ pc' = [pc EXCEPT ![t] = "enter"]
      BY <1>6, <2>3, <3>1 DEF RunJobHook, StartStep
    <3>4. JobCallsNow(t)'
      BY <1>2, <3>1, <3>2, <3>3 DEF JobCallsNow, SamePlan
    <3> QED BY <1>1, <1>2, <2>1, <3>2, <3>3, <3>4, JobCallCalls
  <2> QED BY <2>2, <2>3
<1>7. CASE TakeJobHook
  <2>1. jpc \in OutcomeHooks /\ JobHook(jpc) \in Names
      BY <1>1, <1>7 DEF TakeJobHook, LocalInv, LocalJob, JobIsJob, OutcomeHooks
  <2>2. JobCallsNow(JobHook(jpc)) /\ pc[JobHook(jpc)] = "done" /\ pc' = [pc EXCEPT ![JobHook(jpc)] = "idle"] /\ hook' = hook /\ idx' = idx
      BY <1>7, <2>1 DEF TakeJobHook, JobCallsNow
  <2> QED BY <1>1, <1>2, <2>1, <2>2, JobReturnCalls
<1>8. CASE RunJobEnsure
  <2>1. ~JobWaits /\ hook' = hook /\ idx' = idx
      BY <1>8 DEF RunJobEnsure, JobWaits, OutcomeHooks, HookNames
  <2>2. CASE JobHook("ensure") = None
      BY <1>1, <1>2, <1>8, <2>1, <2>2, JobReturnCalls DEF RunJobEnsure
  <2>3. CASE JobHook("ensure") # None
    <3>1. PICK t : t = JobHook("ensure")
      OBVIOUS
    <3>2. t \in Names
      BY <1>1, <2>3, <3>1 DEF JobIsJob
    <3>3. jpc' = "ensuring" /\ pc' = [pc EXCEPT ![t] = "enter"]
      BY <1>8, <2>3, <3>1 DEF RunJobEnsure, StartStep
    <3>4. JobCallsNow(t)'
      BY <1>2, <3>1, <3>3 DEF JobCallsNow, SamePlan
    <3> QED BY <1>1, <1>2, <2>1, <3>2, <3>3, <3>4, JobCallCalls
  <2> QED BY <2>2, <2>3
<1>9. CASE TakeJobEnsure
  <2>1. JobHook("ensure") \in Names
      BY <1>1, <1>9 DEF TakeJobEnsure, LocalInv, LocalJob, JobIsJob
  <2>2. JobCallsNow(JobHook("ensure")) /\ pc[JobHook("ensure")] = "done" /\ pc' = [pc EXCEPT ![JobHook("ensure")] = "idle"] /\ hook' = hook /\ idx' = idx
      BY <1>9, <2>1 DEF TakeJobEnsure, JobCallsNow
  <2> QED BY <1>1, <1>2, <2>1, <2>2, JobReturnCalls
<1> QED BY <1>3, <1>4, <1>5, <1>6, <1>7, <1>8, <1>9 DEF JobMoves

\* Every step of the engine keeps the tree of calls.
LEMMA EngineKeepsCalls ==
  ASSUME TypeInv, CallInv, [EngineNext]_engineVars
  PROVE  CallInv'
<1>1. StepsAreSteps /\ JobIsJob /\ Places /\ pc \in [Names -> Positions]
      BY PlanSteps, PlanPlaces DEF TypeInv, EngineTypeOK, RunnerType, PositionType
<1>2. ASSUME NEW s \in Names, StepMoves(s) PROVE CallInv'
  <2>1. CASE \/ EnterLeaf(s) \/ LoadAgentFails(s) \/ ConfigFails(s) \/ ReturnLeaf(s) \/ EnterGroup(s) \/ CloseGroup(s)
             \/ Retry(s) \/ Dispatch(s) \/ CountFailure(s)
      BY <1>1, <2>1, LocalMoves, LocalMoveCalls
  <2>2. CASE \E t \in Names : ForkCancels(s, t)
      BY <1>1, <2>2, CancelMoves, LocalMoveCalls
  <2>3. CASE AgentPersists(s)
      BY <2>3, StillCalls, PlanStays DEF AgentPersists, Still, jobVars
  <2>4. CASE StartInner(s) \/ (Launch(s) /\ ~(idx[s] = Len(Inner(s)) \/ s \in shut \/ ctxDone))
    <3>1. PICK t : t = Inner(s)[idx[s] + 1]
      OBVIOUS
    <3>2. t \in Names /\ CallMove(s, t) /\ CallsNow(s, t)' /\ SamePlan
      BY <2>4, <3>1, InnerIsCalled
    <3> QED BY <1>1, <3>2, CallMoveCalls
  <2>5. CASE Launch(s) /\ (idx[s] = Len(Inner(s)) \/ s \in shut \/ ctxDone)
    <3>1. SamePlan /\ pc[s] = "inner" /\ StepOf(s).kind \in Forks /\ pc' = [pc EXCEPT ![s] = "join"] /\ hook' = hook /\ idx' = idx
          /\ jpc' = jpc /\ jidx' = jidx
      BY <2>5, PlanStays DEF Launch, jobVars
    <3> QED BY <1>1, <3>1, JoinMoveCalls
  <2>6. CASE Join(s)
      BY <2>6, CloseMoveCalls
  <2>7. CASE DoTakes(s) \/ TryTakes(s)
      BY <1>1, <2>7, ResultsAreTaken, ReturnMoveCalls
  <2>8. CASE \E t \in Names : ForkReleases(s, t)
      BY <1>1, <2>8, ResultsAreTaken, ReturnMoveCalls
  <2>9. CASE TakeHook(s)
      BY <1>1, <2>9, ResultsAreTaken, ReturnMoveCalls
  <2>10. CASE TakeEnsure(s)
      BY <1>1, <2>10, ResultsAreTaken, ReturnMoveCalls
  <2>11. CASE CallHook(s)
    <3>1. PICK h, t : h = hook[s] /\ t = HookOf(s, h)
      OBVIOUS
    <3>2. t \in Names /\ CallMove(s, t) /\ CallsNow(s, t)' /\ SamePlan
      BY <2>11, <3>1, HookIsCalled
    <3> QED BY <1>1, <3>2, CallMoveCalls
  <2>12. CASE Ensure(s) /\ HookOf(s, "ensure") # None
    <3>1. PICK h, t : h = "ensure" /\ t = HookOf(s, h)
      OBVIOUS
    <3>2. t \in Names /\ CallMove(s, t) /\ CallsNow(s, t)' /\ SamePlan
      BY <2>12, <3>1, HookIsCalled
    <3> QED BY <1>1, <3>2, CallMoveCalls
  <2>13. CASE Ensure(s)
      BY <1>1, <2>12, <2>13, QuietEnds, LocalMoveCalls
  <2>14. CASE Launch(s)
      BY <2>4, <2>5, <2>14
  <2>15. ASSUME NEW t \in Names, ForkCancels(s, t) \/ ForkReleases(s, t) PROVE CallInv'
      BY <2>2, <2>8, <2>15
  <2> QED BY <1>2, <2>1, <2>3, <2>4, <2>6, <2>7, <2>9, <2>10, <2>11, <2>13, <2>14, <2>15 DEF StepMoves
<1>3. CASE JobMoves
      BY <1>3, JobMovesCalls
<1>4. CASE StopJob \/ UNCHANGED engineVars
      BY <1>4, StillCalls, PlanStays DEF StopJob, Still, engineVars, stepVars, jobVars
<1> QED BY <1>2, <1>3, <1>4 DEF EngineNext, EngineProgress

\* Whatever the plans, a step that runs is waited for by the one that called it, up to the job: inner steps by
\* their group, hooks by their step, and so on (processStep and the handlers call each other).
THEOREM CallsFormATree == EngineSpec => [](TypeInv /\ CallInv)
<1>1. EngineInit => CallInv
      BY PlanSteps DEF EngineInit, CallInv, InnerCalls, HookCalls, EnsureCalls, PlanCalls, JobHookCalls,
         RunningHasPlace,
         StepsAreSteps, JobIsJob
<1>2. TypeInv /\ CallInv /\ [EngineNext]_engineVars => CallInv'
      BY EngineKeepsCalls
<1> QED BY <1>1, <1>2, EngineTypeInvariance, PTL DEF EngineSpec

\* When the job waits for nothing, nothing runs: a step that runs has a caller that runs, and a plan has no circle.
LEMMA NothingRuns ==
  ASSUME TypeInv, CallInv, ~JobWaits
  PROVE  \A s \in Names : pc[s] = "idle"
<1> DEFINE R == {s \in Names : pc[s] # "idle"}
<1> SUFFICES ASSUME R # {} PROVE FALSE
      OBVIOUS
<1>1. StepsAreSteps /\ JobIsJob /\ NoCircle(job)
      BY PlanSteps, PlansAssumption DEF TypeInv, EngineTypeOK, RunnerType
<1>2. PICK s \in R : \A p \in R : s \notin PartsOf(job, p)
      BY <1>1 DEF NoCircle, Names
<1>3. s \in Names /\ pc[s] # "idle" /\ HasPlace(s) /\ s # None
      BY <1>1 DEF CallInv, RunningHasPlace, JobIsJob
<1>4. ASSUME NEW p \in Names, NEW i \in 1..Len(Inner(p)), s = Inner(p)[i] PROVE FALSE
  <2>1. p \in R
      BY <1>3, <1>4 DEF CallInv, InnerCalls, WaitsInner
  <2>2. s \in PartsOf(job, p)
      BY <1>1, <1>4 DEF PartsOf, InnerOf, ToSet, Inner, StepOf, StepsAreSteps
  <2> QED BY <1>2, <2>1, <2>2
<1>5. ASSUME NEW p \in Names, NEW h \in HookNames, s = HookOf(p, h) PROVE FALSE
  <2>1. p \in R
      BY <1>3, <1>5 DEF CallInv, HookCalls, EnsureCalls, OutcomeHooks
  <2>2. s \in PartsOf(job, p)
      BY <1>3, <1>5 DEF PartsOf, HooksOf, HookOf, StepOf
  <2> QED BY <1>2, <2>1, <2>2
<1>6. ASSUME NEW i \in 1..Len(job.plan), s = job.plan[i] PROVE FALSE
      BY <1>3, <1>6 DEF CallInv, PlanCalls, JobWaits
<1>7. ASSUME NEW h \in HookNames, s = JobHook(h) PROVE FALSE
      BY <1>3, <1>7 DEF CallInv, JobHookCalls, JobWaits, OutcomeHooks
<1> QED BY <1>3, <1>4, <1>5, <1>6, <1>7 DEF HasPlace

-----------------------------------------------------------------------------
(* fail_fast. *)

\* A fork with fail_fast that has a failure, its own or of a goroutine about to give its unit back, is shut.
FailFastStep(s) ==
  StepOf(s).kind \in Forks /\ StepOf(s).failFast /\ pc[s] \in {"inner", "join"} =>
    /\ res[s] # "nil" => s \in shut
    /\ \A i \in 1..Len(Inner(s)) : pc[Inner(s)[i]] = "release" /\ res[Inner(s)[i]] # "nil" => s \in shut
FailFastInv == \A s \in Names : FailFastStep(s)

\* No fork begins, and no goroutine reaches its release.
Calm ==
  /\ shut \subseteq shut' /\ SamePlan
  /\ \A q \in Names : StepOf(q).kind \in Forks /\ pc'[q] \in {"inner", "join"} => pc[q] \in {"inner", "join"} /\ res'[q] = res[q]
  /\ \A q \in Names : pc'[q] = "release" => pc[q] = "release" /\ res'[q] = res[q]

\* Then the forks with failures stay shut.
LEMMA CalmKeepsShut == ASSUME StepsAreSteps, FailFastInv, Calm PROVE FailFastInv'
<1> SUFFICES ASSUME NEW s \in Names PROVE FailFastStep(s)'
      BY DEF FailFastInv, Calm, SamePlan
<1>1. \A i \in 1..Len(Inner(s)) : Inner(s)[i] \in Names
      BY DEF StepsAreSteps
<1> QED BY <1>1 DEF FailFastInv, FailFastStep, Calm, SamePlan

\* Most steps of the engine are calm.
LEMMA CalmSteps ==
  ASSUME TypeInv, CallInv, NEW s \in Names,
         \/ EnterLeaf(s) \/ LoadAgentFails(s) \/ ConfigFails(s) \/ AgentPersists(s) \/ ReturnLeaf(s) \/ Retry(s)
         \/ StartInner(s) \/ DoTakes(s) \/ TryTakes(s) \/ Launch(s) \/ Join(s) \/ CloseGroup(s)
         \/ Dispatch(s) \/ CountFailure(s) \/ CallHook(s) \/ TakeHook(s) \/ Ensure(s) \/ TakeEnsure(s)
  PROVE  Calm
<1> USE DEF TypeInv, EngineTypeOK, PositionType, ResultType, CounterType, Calm
<1>1. StepsAreSteps
      BY PlanSteps DEF RunnerType
<1>2. CASE EnterLeaf(s)
      BY <1>2, PlanStays DEF EnterLeaf, AfterHandler
<1>3. CASE LoadAgentFails(s) \/ ConfigFails(s)
      BY <1>3, PlanStays DEF LoadAgentFails, ConfigFails, ErrsEarly, AfterHandler
<1>4. CASE AgentPersists(s)
      BY <1>4, PlanStays DEF AgentPersists
<1>5. CASE ReturnLeaf(s)
      BY <1>5, PlanStays DEF ReturnLeaf, AfterHandler
<1>6. CASE Retry(s)
      BY <1>6, PlanStays DEF Retry
<1>7. CASE StartInner(s)
  <2>1. PICK t : t = Inner(s)[idx[s] + 1]
      OBVIOUS
  <2>2. t \in Names /\ s # t
      BY <1>7, <2>1, InnerIsCalled DEF CallMove
  <2>3. \A q \in Names : pc'[q] = (IF q = s THEN "seq" ELSE IF q = t THEN "enter" ELSE pc[q])
      BY <1>7, <2>1, <2>2 DEF StartInner
  <2> QED BY <1>7, <2>3, PlanStays DEF StartInner
<1>8. CASE DoTakes(s) \/ TryTakes(s)
  <2>1. StepOf(s).kind \notin Forks
      BY <1>8 DEF DoTakes, TryTakes, Forks
  <2>2. PICK t : t = Inner(s)[idx[s]]
      OBVIOUS
  <2>3. t \in Names /\ s # t
      BY <1>8, <2>2, ResultsAreTaken DEF ReturnMove
  <2>4. pc'[t] = "idle" /\ pc'[s] \in {"close", "inner"} /\ \A q \in Names \ {s, t} : pc'[q] = pc[q]
    <3>1. CASE DoTakes(s)
      BY <2>2, <2>3, <3>1 DEF DoTakes
    <3>2. CASE TryTakes(s)
      BY <2>2, <2>3, <3>2 DEF TryTakes
    <3> QED BY <1>8, <3>1, <3>2
  <2> QED BY <1>8, <2>1, <2>4, PlanStays DEF DoTakes, TryTakes
<1>9. CASE Launch(s)
  <2>1. \A q \in Names : pc'[q] = pc[q] \/ pc'[q] = "enter" \/ (pc'[q] = "join" /\ q = s)
      BY <1>9 DEF Launch
  <2> QED BY <1>9, <2>1, PlanStays DEF Launch
<1>10. CASE Join(s) \/ CloseGroup(s)
      BY <1>10, PlanStays DEF Join, CloseGroup, AfterHandler
<1>11. CASE Dispatch(s)
      BY <1>11, PlanStays DEF Dispatch
<1>12. CASE CountFailure(s)
      BY <1>12, PlanStays DEF CountFailure
<1>13. CASE CallHook(s)
  <2>1. \A q \in Names : pc'[q] = pc[q] \/ pc'[q] = "enter" \/ pc'[q] = "hook"
      BY <1>13 DEF CallHook
  <2> QED BY <1>13, <2>1, PlanStays DEF CallHook
<1>14. CASE TakeHook(s)
  <2>1. PICK t : t = HookOf(s, hook[s])
      OBVIOUS
  <2>2. \A q \in Names : (pc'[q] = pc[q] /\ q # s) \/ pc'[q] = "idle" \/ pc'[q] = "ensure"
      BY <1>14, <2>1 DEF TakeHook
  <2> QED BY <1>14, <2>2, PlanStays DEF TakeHook
<1>15. CASE Ensure(s)
  <2>1. \A q \in Names : pc'[q] = pc[q] \/ pc'[q] = "enter" \/ pc'[q] = "ensuring" \/ pc'[q] = "done"
      BY <1>15 DEF Ensure
  <2> QED BY <1>15, <2>1, PlanStays DEF Ensure
<1>16. CASE TakeEnsure(s)
  <2>1. \A q \in Names : pc'[q] = pc[q] \/ pc'[q] = "idle" \/ pc'[q] = "done"
      BY <1>16 DEF TakeEnsure
  <2> QED BY <1>16, <2>1, PlanStays DEF TakeEnsure
<1> QED BY <1>2, <1>3, <1>4, <1>5, <1>6, <1>7, <1>8, <1>9, <1>10, <1>11, <1>12, <1>13, <1>14, <1>15, <1>16

\* So are the job's moves.
LEMMA CalmJob ==
  ASSUME TypeInv, JobMoves \/ StopJob \/ UNCHANGED engineVars
  PROVE  Calm
<1> USE DEF TypeInv, EngineTypeOK, PositionType, Calm, stepVars
<1>1. SamePlan /\ res' = res /\ shut' = shut
      BY PlanStays DEF JobMoves, StartJob, RunPlanStep, TakePlanStep, RunJobHook, TakeJobHook, RunJobEnsure,
         TakeJobEnsure,
         FinishJob, StopJob, engineVars
<1>2. \A q \in Names : pc'[q] = pc[q] \/ pc'[q] \in {"enter", "idle"}
  <2>1. CASE StartJob \/ FinishJob \/ StopJob \/ UNCHANGED engineVars
      BY <2>1 DEF StartJob, FinishJob, StopJob, engineVars
  <2>2. CASE RunPlanStep \/ RunJobHook \/ RunJobEnsure
      BY <2>2 DEF RunPlanStep, RunJobHook, RunJobEnsure, StartStep
  <2>3. CASE TakePlanStep \/ TakeJobHook \/ TakeJobEnsure
      BY <2>3 DEF TakePlanStep, TakeJobHook, TakeJobEnsure
  <2> QED BY <2>1, <2>2, <2>3 DEF JobMoves
<1> QED BY <1>1, <1>2

\* A fork begins open and without failures.
LEMMA ForkBeginsOpen ==
  ASSUME TypeInv, CallInv, FailFastInv, NEW s \in Names, EnterGroup(s)
  PROVE  FailFastInv'
<1> USE DEF TypeInv, EngineTypeOK, PositionType, ResultType, ScopeType
<1>1. StepsAreSteps
      BY PlanSteps DEF RunnerType
<1>2. SamePlan
      BY PlanStays DEF EnterGroup
<1>3. pc[s] = "enter" /\ shut' = shut \ {s}
      BY DEF EnterGroup
<1>4. pc'[s] = "inner" => res'[s] = "nil"
      BY DEF EnterGroup, AfterHandler
<1>5. pc'[s] \notin {"join", "release"} /\ \A q \in Names \ {s} : pc'[q] = pc[q] /\ res'[q] = res[q]
      BY DEF EnterGroup, AfterHandler
<1> SUFFICES ASSUME NEW p \in Names PROVE FailFastStep(p)'
      BY <1>2 DEF FailFastInv, SamePlan
<1>6. \A i \in 1..Len(Inner(p)) : Inner(p)[i] \in Names
      BY <1>1 DEF StepsAreSteps
<1>7. CASE p = s
  <2>1. \A i \in 1..Len(Inner(s)) : pc[Inner(s)[i]] = "idle"
      BY <1>3 DEF CallInv, InnerCalls, WaitsInner
  <2>2. \A i \in 1..Len(Inner(s)) : pc'[Inner(s)[i]] # "release"
      BY <1>5, <1>6, <1>7, <2>1
  <2> QED BY <1>2, <1>4, <1>5, <1>7, <2>2 DEF FailFastStep, SamePlan
<1>8. CASE p # s
  <2>1. \A i \in 1..Len(Inner(p)) : pc'[Inner(p)[i]] = "release" => pc[Inner(p)[i]] = "release" /\ res'[Inner(p)[i]] = res[Inner(p)[i]]
      BY <1>5, <1>6
  <2> QED BY <1>2, <1>3, <1>5, <1>8, <2>1 DEF FailFastInv, FailFastStep, SamePlan
<1> QED BY <1>7, <1>8

\* A goroutine that failed shuts its fork, then gives its unit back.
LEMMA FailuresShut ==
  ASSUME TypeInv, CallInv, FailFastInv, NEW s \in Names, NEW t \in Names, ForkCancels(s, t) \/ ForkReleases(s, t)
  PROVE  FailFastInv'
<1> USE DEF TypeInv, EngineTypeOK, PositionType, ResultType, ScopeType
<1>1. StepsAreSteps /\ Places
      BY PlanSteps, PlanPlaces DEF RunnerType
<1>2. SamePlan
      BY PlanStays DEF ForkCancels, ForkReleases
<1>3. PICK k \in 1..Len(Inner(s)) : t = Inner(s)[k]
      BY <1>1, InnerIndex DEF ForkCancels, ForkReleases
<1> SUFFICES ASSUME NEW p \in Names PROVE FailFastStep(p)'
      BY <1>2 DEF FailFastInv, SamePlan
<1>4. ASSUME NEW i \in 1..Len(Inner(p)) PROVE Inner(p)[i] \in Names /\ (Inner(p)[i] = t => p = s)
  <2>1. Inner(p)[i] \in Names
      BY <1>1 DEF StepsAreSteps
  <2>2. Inner(p)[i] = Inner(s)[k] => p = s
      BY <1>1 DEF Places, InnerPlace
  <2> QED BY <1>3, <2>1, <2>2
<1>5. CASE ForkCancels(s, t)
  <2>1. pc'[t] = "release" /\ res' = res /\ shut \subseteq shut' /\ \A q \in Names \ {t} : pc'[q] = pc[q]
      BY <1>5 DEF ForkCancels
  <2>2. StepOf(s).failFast /\ res[t] # "nil" => s \in shut'
      BY <1>5 DEF ForkCancels
  <2> QED BY <1>2, <1>4, <2>1, <2>2 DEF FailFastInv, FailFastStep, SamePlan
<1>6. CASE ForkReleases(s, t)
  <2>1. pc[t] = "release" /\ pc'[t] = "idle" /\ shut' = shut /\ \A q \in Names \ {t} : pc'[q] = pc[q]
      BY <1>6 DEF ForkReleases
  <2>2. res'[s] = (IF res[s] = "nil" THEN res[t] ELSE res[s]) /\ \A q \in Names \ {s} : res'[q] = res[q]
      BY <1>6 DEF ForkReleases
  <2>3. StepOf(s).kind \in Forks /\ pc[s] \in {"inner", "join"} /\ s # t
      BY <1>6, <1>3 DEF ForkReleases, CallInv, InnerCalls, WaitsInner
  <2>4. StepOf(s).failFast /\ (res[t] # "nil" \/ res[s] # "nil") => s \in shut
      BY <1>3, <2>1, <2>3 DEF FailFastInv, FailFastStep
  <2>5. \A i \in 1..Len(Inner(p)) : pc'[Inner(p)[i]] = "release" => Inner(p)[i] # s
      BY <1>4, <2>1, <2>3
  <2>6. CASE p = s
    <3>1. \A i \in 1..Len(Inner(p)) : pc'[Inner(p)[i]] = "release" => pc[Inner(p)[i]] = "release" /\ res'[Inner(p)[i]] = res[Inner(p)[i]]
      BY <1>4, <2>1, <2>2, <2>5
    <3>2. FailFastStep(s)
      BY DEF FailFastInv
    <3>3. StepOf(s).failFast /\ res'[s] # "nil" => s \in shut'
      BY <2>1, <2>2, <2>4
    <3>4. StepOf(s).failFast => \A i \in 1..Len(Inner(s)) : pc'[Inner(s)[i]] = "release" /\ res'[Inner(s)[i]] # "nil" => s \in shut'
      <4> SUFFICES ASSUME StepOf(s).failFast, NEW i \in 1..Len(Inner(s)), pc'[Inner(s)[i]] = "release", res'[Inner(s)[i]] # "nil"
                   PROVE  s \in shut'
          OBVIOUS
      <4>1. pc[Inner(s)[i]] = "release" /\ res[Inner(s)[i]] # "nil"
          BY <2>6, <3>1
      <4> QED BY <2>1, <2>3, <3>2, <4>1 DEF FailFastStep
    <3> QED BY <1>2, <2>6, <3>3, <3>4 DEF FailFastStep, SamePlan
  <2>7. CASE p # s
    <3>1. FailFastStep(p)
      BY DEF FailFastInv
    <3>2. ASSUME pc'[p] \in {"inner", "join"} PROVE pc[p] = pc'[p] /\ res'[p] = res[p]
      BY <2>1, <2>2, <2>7, <3>2
    <3>3. ASSUME NEW i \in 1..Len(Inner(p)), pc'[Inner(p)[i]] = "release"
          PROVE  pc[Inner(p)[i]] = "release" /\ res'[Inner(p)[i]] = res[Inner(p)[i]]
      BY <1>4, <2>1, <2>2, <2>5, <2>7, <3>3
    <3> QED BY <1>2, <2>1, <3>1, <3>2, <3>3 DEF FailFastStep, SamePlan
  <2> QED BY <2>6, <2>7
<1> QED BY <1>5, <1>6

\* The forks with failures stay shut.
LEMMA EngineKeepsShut ==
  ASSUME TypeInv, CallInv, FailFastInv, [EngineNext]_engineVars
  PROVE  FailFastInv'
<1>1. StepsAreSteps
      BY PlanSteps DEF TypeInv, EngineTypeOK, RunnerType
<1>2. ASSUME NEW s \in Names, StepMoves(s) PROVE FailFastInv'
  <2>1. CASE EnterGroup(s)
      BY <2>1, ForkBeginsOpen
  <2>2. ASSUME NEW t \in Names, ForkCancels(s, t) \/ ForkReleases(s, t) PROVE FailFastInv'
      BY <2>2, FailuresShut
  <2>3. CASE \/ EnterLeaf(s) \/ LoadAgentFails(s) \/ ConfigFails(s) \/ AgentPersists(s) \/ ReturnLeaf(s) \/ Retry(s)
             \/ StartInner(s) \/ DoTakes(s) \/ TryTakes(s) \/ Launch(s) \/ Join(s) \/ CloseGroup(s)
             \/ Dispatch(s) \/ CountFailure(s) \/ CallHook(s) \/ TakeHook(s) \/ Ensure(s) \/ TakeEnsure(s)
      BY <1>1, <2>3, CalmSteps, CalmKeepsShut
  <2> QED BY <1>2, <2>1, <2>2, <2>3 DEF StepMoves
<1>3. CASE JobMoves \/ StopJob \/ UNCHANGED engineVars
      BY <1>1, <1>3, CalmJob, CalmKeepsShut
<1> QED BY <1>2, <1>3 DEF EngineNext, EngineProgress

\* Only the launch loop and the sequences start inner steps.
LEMMA WhoLaunches ==
  ASSUME TypeInv, [EngineNext]_engineVars, NEW s \in Names, idx'[s] > idx[s]
  PROVE  StartInner(s) \/ (Launch(s) /\ s \notin shut)
<1> USE DEF TypeInv, EngineTypeOK, CounterType, stepVars
<1>1. CASE JobMoves \/ StopJob \/ UNCHANGED engineVars
      BY <1>1 DEF JobMoves, StartJob, RunPlanStep, TakePlanStep, RunJobHook, TakeJobHook, RunJobEnsure, TakeJobEnsure,
         FinishJob, StopJob, engineVars
<1>2. ASSUME NEW q \in Names, StepMoves(q) PROVE StartInner(s) \/ (Launch(s) /\ s \notin shut)
  <2>1. CASE StartInner(q)
    <3>1. q = s
      BY <2>1 DEF StartInner
    <3> QED BY <2>1, <3>1
  <2>2. CASE Launch(q)
    <3>1. q = s /\ q \notin shut
      BY <2>2 DEF Launch
    <3> QED BY <2>2, <3>1
  <2>3. CASE EnterGroup(q)
      BY <2>3 DEF EnterGroup
  <2>4. ASSUME NEW t \in Names, ForkCancels(q, t) \/ ForkReleases(q, t) PROVE FALSE
      BY <2>4 DEF ForkCancels, ForkReleases
  <2>5. CASE \/ EnterLeaf(q) \/ LoadAgentFails(q) \/ ConfigFails(q) \/ AgentPersists(q) \/ ReturnLeaf(q) \/ Retry(q)
             \/ DoTakes(q) \/ TryTakes(q) \/ Join(q) \/ CloseGroup(q)
             \/ Dispatch(q) \/ CountFailure(q) \/ CallHook(q) \/ TakeHook(q) \/ Ensure(q) \/ TakeEnsure(q)
      BY <2>5 DEF EnterLeaf, LoadAgentFails, ConfigFails, ErrsEarly, AgentPersists, ReturnLeaf, Retry, DoTakes,
         TryTakes, Join,
         CloseGroup, Dispatch, CountFailure, CallHook, TakeHook, Ensure, TakeEnsure
  <2> QED BY <1>2, <2>1, <2>2, <2>3, <2>4, <2>5 DEF StepMoves
<1> QED BY <1>1, <1>2 DEF EngineNext, EngineProgress

\* Whatever the plans, a fork with fail_fast that has a failure launches nothing more.
THEOREM FailFastHolds == EngineSpec => FailFastStopsLaunching
<1>1. EngineInit => FailFastInv
      BY DEF EngineInit, FailFastInv, FailFastStep
<1>2. TypeInv /\ CallInv /\ FailFastInv /\ [EngineNext]_engineVars => FailFastInv'
      BY EngineKeepsShut
<1>3. TypeInv /\ CallInv /\ FailFastInv /\ [EngineNext]_engineVars => [LaunchesAreAllowed]_engineVars
  <2> SUFFICES ASSUME TypeInv, FailFastInv, [EngineNext]_engineVars, NEW s \in Names,
                      StepOf(s).kind \in Forks, StepOf(s).failFast, idx'[s] > idx[s]
               PROVE  res[s] = "nil"
      BY DEF LaunchesAreAllowed
  <2>1. Launch(s) /\ s \notin shut
      BY WhoLaunches DEF StartInner, Forks
  <2> QED BY <2>1 DEF FailFastInv, FailFastStep, Launch
<1> QED BY <1>1, <1>2, <1>3, CallsFormATree, PTL DEF EngineSpec, FailFastStopsLaunching

-----------------------------------------------------------------------------
(* ensure. *)

\* A call of s that has begun and has not yet come to its ensure hook; a call that has not begun.
Owing(s) == pc[s] \notin {"idle", "enter", "ensuring", "done", "release"} \/ (pc[s] = "enter" /\ att[s] > 1)
Fresh(s) == pc[s] = "enter" /\ att[s] = 1
IsEnsure(t) == \E p \in Names : HookOf(p, "ensure") = t

EnsureStep(s) ==
  HookOf(s, "ensure") # None =>
    calls[s] = calls[HookOf(s, "ensure")] + (IF Owing(s) \/ Fresh(HookOf(s, "ensure")) THEN 1 ELSE 0)
EnsureInv == \A s \in Names : EnsureStep(s)

\* Nothing begins, and nobody owes more or less.
Even ==
  /\ calls' = calls /\ SamePlan
  /\ \A q \in Names : HookOf(q, "ensure") # None => (Owing(q)' <=> Owing(q))
  /\ \A q \in Names : IsEnsure(q) => (Fresh(q)' <=> Fresh(q))

\* Then what is owed stays.
LEMMA EvenKeepsEnsure == ASSUME StepsAreSteps, EnsureInv, Even PROVE EnsureInv'
<1> SUFFICES ASSUME NEW s \in Names, HookOf(s, "ensure") # None
             PROVE  calls'[s] = calls'[HookOf(s, "ensure")] + (IF Owing(s)' \/ Fresh(HookOf(s, "ensure"))' THEN 1 ELSE 0)
      BY DEF EnsureInv, EnsureStep, Even, SamePlan
<1>1. PICK e : e = HookOf(s, "ensure")
      OBVIOUS
<1>2. e \in Names /\ IsEnsure(e) /\ HookOf(s, "ensure")' = e
      BY <1>1 DEF StepsAreSteps, IsEnsure, Even, SamePlan
<1>3. (Owing(s)' <=> Owing(s)) /\ (Fresh(e)' <=> Fresh(e)) /\ calls' = calls
      BY <1>2 DEF Even
<1>4. calls[s] = calls[e] + (IF Owing(s) \/ Fresh(e) THEN 1 ELSE 0)
      BY <1>1 DEF EnsureInv, EnsureStep
<1>5. Fresh(HookOf(s, "ensure"))' <=> Fresh(e)'
      BY <1>2 DEF Fresh
<1> QED BY <1>1, <1>3, <1>4, <1>5

\* The steps within a call that has begun.
LEMMA EvenSteps ==
  ASSUME TypeInv, CallInv, NEW s \in Names,
         \/ AgentPersists(s) \/ ReturnLeaf(s) \/ Retry(s) \/ DoTakes(s) \/ TryTakes(s) \/ Join(s) \/ CloseGroup(s)
         \/ Dispatch(s) \/ CountFailure(s) \/ TakeHook(s) \/ TakeEnsure(s)
  PROVE  Even
<1> USE DEF TypeInv, EngineTypeOK, PositionType, CounterType, Even, Owing, Fresh, history
<1>1. CASE AgentPersists(s)
      BY <1>1, PlanStays DEF AgentPersists
<1>2. CASE ReturnLeaf(s)
      BY <1>2, PlanStays DEF ReturnLeaf, AfterHandler
<1>3. CASE Retry(s)
  <2>1. att'[s] > 1 /\ att[s] \in Nat
      BY <1>3, PlanSteps DEF Retry, RunnerType, StepsAreSteps
  <2> QED BY <1>3, <2>1, PlanStays DEF Retry
<1>4. CASE DoTakes(s) \/ TryTakes(s)
  <2>1. PICK t : t = Inner(s)[idx[s]]
      OBVIOUS
  <2>2. t \in Names /\ s # t
      BY <1>4, <2>1, ResultsAreTaken DEF ReturnMove
  <2>3. pc[s] = "seq" /\ pc[t] = "done" /\ att' = att /\ calls' = calls /\ job' = job
      BY <1>4, <2>1 DEF DoTakes, TryTakes
  <2>4. pc'[t] = "idle" /\ pc'[s] \in {"close", "inner"} /\ \A q \in Names \ {s, t} : pc'[q] = pc[q]
    <3>1. CASE DoTakes(s)
      BY <2>1, <2>2, <3>1 DEF DoTakes
    <3>2. CASE TryTakes(s)
      BY <2>1, <2>2, <3>2 DEF TryTakes
    <3> QED BY <1>4, <3>1, <3>2
  <2> QED BY <2>2, <2>3, <2>4, PlanStays
<1>5. CASE Join(s) \/ CloseGroup(s)
      BY <1>5, PlanStays DEF Join, CloseGroup, AfterHandler
<1>6. CASE Dispatch(s)
      BY <1>6, PlanStays DEF Dispatch
<1>7. CASE CountFailure(s)
      BY <1>7, PlanStays DEF CountFailure
<1>8. CASE TakeHook(s)
  <2>1. PICK t : t = HookOf(s, hook[s])
      OBVIOUS
  <2>2. t \in Names /\ s # t
      BY <1>8, <2>1, ResultsAreTaken DEF ReturnMove
  <2>3. pc[s] = "hook" /\ pc[t] = "done" /\ att' = att /\ calls' = calls /\ job' = job
      BY <1>8, <2>1 DEF TakeHook
  <2>4. pc'[t] = "idle" /\ pc'[s] = "ensure" /\ \A q \in Names \ {s, t} : pc'[q] = pc[q]
      BY <1>8, <2>1, <2>2 DEF TakeHook
  <2> QED BY <2>2, <2>3, <2>4, PlanStays
<1>9. CASE TakeEnsure(s)
  <2>1. PICK t : t = HookOf(s, "ensure")
      OBVIOUS
  <2>2. t \in Names /\ s # t
      BY <1>9, <2>1, ResultsAreTaken DEF ReturnMove
  <2>3. pc[s] = "ensuring" /\ pc[t] = "done" /\ att' = att /\ calls' = calls /\ job' = job
      BY <1>9, <2>1 DEF TakeEnsure
  <2>4. pc'[t] = "idle" /\ pc'[s] = "done" /\ \A q \in Names \ {s, t} : pc'[q] = pc[q]
      BY <1>9, <2>1, <2>2 DEF TakeEnsure
  <2> QED BY <2>2, <2>3, <2>4, PlanStays
<1> QED BY <1>1, <1>2, <1>3, <1>4, <1>5, <1>6, <1>7, <1>8, <1>9

\* The steps of a fork's goroutines.
LEMMA EvenForks ==
  ASSUME TypeInv, NEW s \in Names, NEW t \in Names, ForkCancels(s, t) \/ ForkReleases(s, t)
  PROVE  Even
BY PlanStays DEF TypeInv, EngineTypeOK, PositionType, CounterType, Even, Owing, Fresh, history, ForkCancels,
   ForkReleases

\* An inner step or an outcome hook is no ensure hook.
LEMMA NotAnEnsure ==
  ASSUME Places, NEW s \in Names, NEW t, t # None,
         \/ \E i \in 1..Len(Inner(s)) : t = Inner(s)[i]
         \/ \E h \in OutcomeHooks : t = HookOf(s, h)
         \/ \E i \in 1..Len(job.plan) : t = job.plan[i]
         \/ \E h \in HookNames : t = JobHook(h)
  PROVE  ~IsEnsure(t)
<1> SUFFICES ASSUME NEW p \in Names, HookOf(p, "ensure") = t PROVE FALSE
      BY DEF IsEnsure
<1>1. "ensure" \in HookNames
      BY DEF HookNames
<1>2. ASSUME NEW i \in 1..Len(Inner(s)), t = Inner(s)[i] PROVE FALSE
      BY <1>1, <1>2 DEF Places, InnerPlace
<1>3. ASSUME NEW h \in OutcomeHooks, t = HookOf(s, h) PROVE FALSE
      BY <1>1, <1>3 DEF Places, HookPlace, OutcomeHooks
<1>4. ASSUME NEW i \in 1..Len(job.plan), t = job.plan[i] PROVE FALSE
      BY <1>1, <1>4 DEF Places, HookPlace
<1>5. ASSUME NEW h \in HookNames, t = JobHook(h) PROVE FALSE
      BY <1>1, <1>5 DEF Places, HookPlace
<1> QED BY <1>2, <1>3, <1>4, <1>5

\* A call of something else than an ensure hook.
LEMMA EvenCall ==
  ASSUME SamePlan, calls' = calls, NEW s \in Names, NEW t \in Names, s # t, pc[t] = "idle", ~IsEnsure(t),
         pc[s] \in {"inner", "call"}, pc'[s] \in {"inner", "seq", "hook"}, pc'[t] = "enter", att'[t] = 1,
         \A q \in Names \ {s, t} : pc'[q] = pc[q], \A q \in Names \ {t} : att'[q] = att[q]
  PROVE  Even
<1> SUFFICES ASSUME NEW q \in Names PROVE (Owing(q)' <=> Owing(q)) /\ (IsEnsure(q) => (Fresh(q)' <=> Fresh(q)))
      BY DEF Even, SamePlan
<1>1. CASE q = s
      BY <1>1 DEF Owing, Fresh
<1>2. CASE q = t
      BY <1>2 DEF Owing
<1>3. CASE q # s /\ q # t
      BY <1>3 DEF Owing, Fresh
<1> QED BY <1>1, <1>2, <1>3

\* The calls that the steps make.
LEMMA EvenCalls ==
  ASSUME TypeInv, CallInv, NEW s \in Names, StartInner(s) \/ Launch(s) \/ CallHook(s)
  PROVE  Even
<1>0. pc \in [Names -> Positions] /\ att \in [Names -> Nat]
      BY DEF TypeInv, EngineTypeOK, PositionType, CounterType
<1>1. Places /\ StepsAreSteps /\ JobIsJob
      BY PlanPlaces, PlanSteps DEF TypeInv, EngineTypeOK, RunnerType
<1>2. CASE Launch(s) /\ (idx[s] = Len(Inner(s)) \/ s \in shut \/ ctxDone)
  <2>1. pc[s] = "inner" /\ pc' = [pc EXCEPT ![s] = "join"] /\ att' = att /\ calls' = calls /\ SamePlan
      BY <1>2, PlanStays DEF Launch, history
  <2> QED BY <1>0, <2>1 DEF Even, Owing, Fresh
<1>3. CASE StartInner(s) \/ (Launch(s) /\ ~(idx[s] = Len(Inner(s)) \/ s \in shut \/ ctxDone))
  <2>1. PICK t : t = Inner(s)[idx[s] + 1]
      OBVIOUS
  <2>2. t \in Names /\ s # t /\ pc[t] = "idle" /\ idx[s] + 1 \in 1..Len(Inner(s)) /\ SamePlan
      BY <1>3, <2>1, InnerIsCalled DEF CallMove
  <2>3. ~IsEnsure(t)
      BY <1>1, <2>1, <2>2, NotAnEnsure DEF JobIsJob
  <2>4. pc[s] = "inner" /\ pc'[s] \in {"inner", "seq"} /\ pc'[t] = "enter" /\ (\A q \in Names \ {s, t} : pc'[q] = pc[q]) /\ calls' = calls
    <3>1. CASE StartInner(s)
      BY <1>0, <2>1, <2>2, <3>1 DEF StartInner, history
    <3>2. CASE Launch(s) /\ ~(idx[s] = Len(Inner(s)) \/ s \in shut \/ ctxDone)
      BY <1>0, <2>1, <2>2, <3>2 DEF Launch, history
    <3> QED BY <1>3, <3>1, <3>2
  <2>5. att'[t] = 1 /\ \A q \in Names \ {t} : att'[q] = att[q]
      BY <1>0, <1>3, <2>1, <2>2 DEF StartInner, Launch
  <2> QED BY <2>2, <2>3, <2>4, <2>5, EvenCall
<1>4. CASE CallHook(s)
  <2>1. PICK h, t : h = hook[s] /\ t = HookOf(s, h)
      OBVIOUS
  <2>2. t \in Names /\ CallMove(s, t) /\ SamePlan
      BY <1>4, <2>1, HookIsCalled
  <2>3. s # t /\ pc[t] = "idle" /\ h \in OutcomeHooks
      BY <1>4, <2>1, <2>2 DEF CallMove, CallHook, TypeInv, LocalInv, LocalStep
  <2>4. ~IsEnsure(t)
      BY <1>1, <2>1, <2>2, <2>3, NotAnEnsure DEF JobIsJob
  <2>5. pc[s] = "call" /\ pc'[s] = "hook" /\ pc'[t] = "enter" /\ (\A q \in Names \ {s, t} : pc'[q] = pc[q]) /\ calls' = calls
      BY <1>0, <1>4, <2>1, <2>2, <2>3 DEF CallHook, history
  <2>6. att'[t] = 1 /\ \A q \in Names \ {t} : att'[q] = att[q]
      BY <1>0, <1>4, <2>1, <2>2 DEF CallHook
  <2> QED BY <2>2, <2>3, <2>4, <2>5, <2>6, EvenCall
<1> QED BY <1>2, <1>3, <1>4

\* The job's moves.
LEMMA EvenJob ==
  ASSUME TypeInv, CallInv, JobMoves \/ StopJob \/ UNCHANGED engineVars
  PROVE  Even
<1> USE DEF TypeInv, EngineTypeOK, PositionType, CounterType, Even, Owing, Fresh, history, stepVars
<1>1. Places /\ StepsAreSteps /\ JobIsJob
      BY PlanPlaces, PlanSteps DEF RunnerType
<1>2. SamePlan /\ calls' = calls
      BY PlanStays DEF JobMoves, StartJob, RunPlanStep, TakePlanStep, RunJobHook, TakeJobHook, RunJobEnsure,
         TakeJobEnsure,
         FinishJob, StopJob, engineVars
<1>3. CASE pc' = pc /\ att' = att
      BY <1>2, <1>3
<1>4. ASSUME NEW t \in Names, pc[t] = "done", pc' = [pc EXCEPT ![t] = "idle"], att' = att PROVE Even
      BY <1>2, <1>4
<1>5. ASSUME NEW t \in Names, pc[t] = "idle", StartStep(t), ~IsEnsure(t) PROVE Even
  <2>1. pc'[t] = "enter" /\ att'[t] = 1 /\ \A q \in Names \ {t} : pc'[q] = pc[q] /\ att'[q] = att[q]
      BY <1>5 DEF StartStep
  <2> QED BY <1>2, <1>5, <2>1
<1>6. CASE StartJob \/ FinishJob \/ StopJob \/ UNCHANGED engineVars
      BY <1>3, <1>6 DEF StartJob, FinishJob, StopJob, engineVars
<1>7. CASE TakePlanStep
  <2>1. jidx \in 1..Len(job.plan) /\ job.plan[jidx] \in Names
      BY <1>1, <1>7 DEF TakePlanStep, LocalInv, LocalJob, JobIsJob
  <2> QED BY <1>4, <1>7, <2>1 DEF TakePlanStep
<1>8. CASE TakeJobHook
      BY <1>1, <1>4, <1>8 DEF TakeJobHook, LocalInv, LocalJob, JobIsJob, OutcomeHooks
<1>9. CASE TakeJobEnsure
      BY <1>1, <1>4, <1>9 DEF TakeJobEnsure, LocalInv, LocalJob, JobIsJob
<1>10. CASE RunPlanStep
  <2>1. PICK t : t = job.plan[jidx + 1]
      OBVIOUS
  <2>2. t \in Names /\ jidx + 1 \in 1..Len(job.plan)
      BY <1>1, <1>10, <2>1 DEF RunPlanStep, JobIsJob, RunnerType
  <2>3. pc[t] = "idle"
      BY <1>10, <2>2, NothingRuns DEF RunPlanStep, JobWaits, OutcomeHooks, HookNames
  <2>4. ~IsEnsure(t)
      BY <1>1, <2>1, <2>2, NotAnEnsure DEF JobIsJob
  <2> QED BY <1>5, <1>10, <2>1, <2>2, <2>3, <2>4 DEF RunPlanStep
<1>11. ASSUME NEW h \in HookNames, JobHook(h) # None, StartStep(JobHook(h)), ~JobWaits PROVE Even
  <2>1. JobHook(h) \in Names
      BY <1>1, <1>11 DEF JobIsJob
  <2>2. pc[JobHook(h)] = "idle" /\ ~IsEnsure(JobHook(h))
      BY <1>1, <1>11, <2>1, NothingRuns, NotAnEnsure
  <2> QED BY <1>5, <1>11, <2>1, <2>2
<1>12. CASE RunJobHook
  <2>1. ~JobWaits
      BY <1>12 DEF RunJobHook, JobWaits, OutcomeHooks, HookNames
  <2>2. CASE JobHookChosen = "none" \/ JobHook(JobHookChosen) = None
      BY <1>3, <1>12, <2>2 DEF RunJobHook
  <2>3. CASE ~(JobHookChosen = "none" \/ JobHook(JobHookChosen) = None)
      BY <1>1, <1>11, <1>12, <2>1, <2>3 DEF RunJobHook, JobIsJob
  <2> QED BY <2>2, <2>3
<1>13. CASE RunJobEnsure
  <2>1. ~JobWaits
      BY <1>13 DEF RunJobEnsure, JobWaits, OutcomeHooks, HookNames
  <2>2. CASE JobHook("ensure") = None
      BY <1>3, <1>13, <2>2 DEF RunJobEnsure
  <2>3. CASE JobHook("ensure") # None
      BY <1>1, <1>11, <1>13, <2>1, <2>3 DEF RunJobEnsure, JobIsJob
  <2> QED BY <2>2, <2>3
<1> QED BY <1>6, <1>7, <1>8, <1>9, <1>10, <1>12, <1>13 DEF JobMoves

\* No step is its own hook.
LEMMA NotItsOwnHook ==
  ASSUME TypeInv, NEW s \in Names, NEW h, HookOf(s, h) # None
  PROVE  HookOf(s, h) # s
<1>1. NoCircle(job) /\ StepsAreSteps
      BY PlansAssumption, PlanSteps DEF TypeInv, EngineTypeOK, RunnerType
<1>2. s \notin PartsOf(job, s)
  <2>1. {s} \in SUBSET DOMAIN job.steps /\ {s} # {}
      BY DEF Names
  <2>2. \E q \in {s} : \A p \in {s} : q \notin PartsOf(job, p)
      BY <1>1, <2>1 DEF NoCircle
  <2> QED BY <2>2
<1>3. HookOf(s, h) \in PartsOf(job, s)
      BY DEF PartsOf, HooksOf, HookOf, StepOf
<1> QED BY <1>2, <1>3

\* A call that begins, or begins its next attempt.
LEMMA BegunKeepsEnsure ==
  ASSUME TypeInv, CallInv, EnsureInv, SamePlan, NEW x \in Names, pc[x] = "enter", Begun(x), att' = att,
         NEW l \in {"leaf", "inner", "retry", "hooks"}, pc' = [pc EXCEPT ![x] = l]
  PROVE  EnsureInv'
<1> USE DEF TypeInv, EngineTypeOK, PositionType, CounterType, ScopeType
<1>1. StepsAreSteps /\ Places
      BY PlanSteps, PlanPlaces DEF RunnerType
<1> SUFFICES ASSUME NEW s \in Names, HookOf(s, "ensure") # None
             PROVE  calls'[s] = calls'[HookOf(s, "ensure")] + (IF Owing(s)' \/ Fresh(HookOf(s, "ensure"))' THEN 1 ELSE 0)
      BY DEF EnsureInv, EnsureStep, SamePlan
<1>2. PICK e : e = HookOf(s, "ensure")
      OBVIOUS
<1>3. e \in Names /\ HookOf(s, "ensure")' = e /\ e # s
      BY <1>1, <1>2, NotItsOwnHook DEF StepsAreSteps, SamePlan
<1>4. calls[s] = calls[e] + (IF Owing(s) \/ Fresh(e) THEN 1 ELSE 0)
      BY <1>2 DEF EnsureInv, EnsureStep
<1>5. Fresh(HookOf(s, "ensure"))' <=> Fresh(e)'
      BY <1>3 DEF Fresh
<1>6. pc[e] # "idle" => pc[s] = "ensuring"
      BY <1>2 DEF CallInv, EnsureCalls
<1>7. /\ \A q \in Names \ {x} : pc'[q] = pc[q] /\ calls'[q] = calls[q]
      /\ calls'[x] = (IF att[x] = 1 THEN calls[x] + 1 ELSE calls[x]) /\ pc'[x] = l
      /\ att[x] \in Nat /\ att[x] >= 1
      /\ \A q \in Names : calls[q] \in Nat
      BY <1>1 DEF Begun, StepsAreSteps
<1>8. CASE x = s
  <2>1. Owing(s)' /\ ~Fresh(e) /\ (Owing(s) <=> att[s] # 1)
      BY <1>3, <1>6, <1>7, <1>8 DEF Owing, Fresh
  <2> QED BY <1>2, <1>3, <1>4, <1>7, <1>8, <2>1
<1>9. CASE x = e
  <2>1. ~Owing(s) /\ ~Owing(s)' /\ ~Fresh(e)' /\ (Fresh(e) <=> att[e] = 1)
      BY <1>3, <1>6, <1>7, <1>9 DEF Owing, Fresh
  <2> QED BY <1>2, <1>3, <1>4, <1>5, <1>7, <1>9, <2>1
<1>10. CASE x # s /\ x # e
  <2>1. (Owing(s)' <=> Owing(s)) /\ (Fresh(e)' <=> Fresh(e))
      BY <1>3, <1>7, <1>10 DEF Owing, Fresh
  <2> QED BY <1>2, <1>3, <1>4, <1>5, <1>7, <1>10, <2>1
<1> QED BY <1>8, <1>9, <1>10

\* A step comes to its ensure hook.
LEMMA EnsureIsCalled ==
  ASSUME TypeInv, CallInv, EnsureInv, NEW x \in Names, Ensure(x)
  PROVE  EnsureInv'
<1> USE DEF TypeInv, EngineTypeOK, PositionType, CounterType, ScopeType
<1>1. StepsAreSteps /\ Places /\ JobIsJob
      BY PlanSteps, PlanPlaces DEF RunnerType
<1>2. SamePlan /\ calls' = calls /\ pc[x] = "ensure"
      BY PlanStays DEF Ensure, history
<1>3. CASE HookOf(x, "ensure") = None
  <2>1. Even
      BY <1>2, <1>3 DEF Ensure, Even, Owing, Fresh
  <2> QED BY <1>1, <2>1, EvenKeepsEnsure
<1>4. CASE HookOf(x, "ensure") # None
  <2>1. PICK f : f = HookOf(x, "ensure")
      OBVIOUS
  <2>2. f \in Names /\ f # x /\ f # None
      BY <1>1, <1>4, <2>1, NotItsOwnHook DEF StepsAreSteps
  <2>3. pc[f] = "idle"
      BY <1>2, <1>4, <2>1 DEF CallInv, EnsureCalls
  <2>4. pc'[x] = "ensuring" /\ pc'[f] = "enter" /\ att'[f] = 1
        /\ (\A q \in Names \ {x, f} : pc'[q] = pc[q]) /\ (\A q \in Names \ {f} : att'[q] = att[q])
      BY <1>4, <2>1, <2>2 DEF Ensure
  <2> SUFFICES ASSUME NEW s \in Names, HookOf(s, "ensure") # None
               PROVE  calls'[s] = calls'[HookOf(s, "ensure")] + (IF Owing(s)' \/ Fresh(HookOf(s, "ensure"))' THEN 1 ELSE 0)
      BY <1>2 DEF EnsureInv, EnsureStep, SamePlan
  <2>5. PICK e : e = HookOf(s, "ensure")
      OBVIOUS
  <2>6. e \in Names /\ HookOf(s, "ensure")' = e
      BY <1>1, <1>2, <2>5 DEF StepsAreSteps, SamePlan
  <2>7. calls[s] = calls[e] + (IF Owing(s) \/ Fresh(e) THEN 1 ELSE 0)
      BY <2>5 DEF EnsureInv, EnsureStep
  <2>8. Fresh(HookOf(s, "ensure"))' <=> Fresh(e)'
      BY <2>6 DEF Fresh
  <2>9. CASE s = x
    <3>1. e = f /\ Owing(s) /\ Fresh(e)'
      BY <1>2, <2>1, <2>4, <2>5, <2>9 DEF Owing, Fresh
    <3> QED BY <1>2, <2>5, <2>7, <2>8, <3>1
  <2>10. CASE s # x
    <3>1. e # f
      BY <1>1, <2>1, <2>2, <2>5, <2>10 DEF Places, HookPlace, HookNames
    <3>2. Owing(s)' <=> Owing(s)
      <4>1. CASE s = f
        BY <2>3, <2>4, <4>1 DEF Owing
      <4>2. CASE s # f
        BY <2>4, <2>10, <4>2 DEF Owing
      <4> QED BY <4>1, <4>2
    <3>3. Fresh(e)' <=> Fresh(e)
      BY <1>2, <2>4, <2>6, <3>1 DEF Fresh
    <3> QED BY <1>2, <2>5, <2>7, <2>8, <3>2, <3>3
  <2> QED BY <2>9, <2>10
<1> QED BY <1>3, <1>4

\* What the calls owe to their ensure hooks is kept.
LEMMA EngineKeepsEnsure ==
  ASSUME TypeInv, CallInv, EnsureInv, [EngineNext]_engineVars
  PROVE  EnsureInv'
<1>1. StepsAreSteps
      BY PlanSteps DEF TypeInv, EngineTypeOK, RunnerType
<1>2. ASSUME NEW s \in Names, StepMoves(s) PROVE EnsureInv'
  <2>1. CASE EnterLeaf(s)
    <3>1. SamePlan /\ pc[s] = "enter" /\ Begun(s) /\ att' = att
      BY <2>1, PlanStays DEF EnterLeaf
    <3>2. \E l \in {"leaf", "inner", "retry", "hooks"} : pc' = [pc EXCEPT ![s] = l]
      BY <2>1 DEF EnterLeaf, AfterHandler
    <3> QED BY <3>1, <3>2, BegunKeepsEnsure
  <2>2. CASE LoadAgentFails(s) \/ ConfigFails(s)
    <3>1. SamePlan /\ pc[s] = "enter" /\ Begun(s) /\ att' = att
      BY <2>2, PlanStays DEF LoadAgentFails, ConfigFails, ErrsEarly
    <3>2. \E l \in {"leaf", "inner", "retry", "hooks"} : pc' = [pc EXCEPT ![s] = l]
      BY <2>2 DEF LoadAgentFails, ConfigFails, ErrsEarly, AfterHandler
    <3> QED BY <3>1, <3>2, BegunKeepsEnsure
  <2>3. CASE EnterGroup(s)
    <3>1. SamePlan /\ pc[s] = "enter" /\ Begun(s) /\ att' = att
      BY <2>3, PlanStays DEF EnterGroup
    <3>2. \E l \in {"leaf", "inner", "retry", "hooks"} : pc' = [pc EXCEPT ![s] = l]
      BY <2>3 DEF EnterGroup, AfterHandler
    <3> QED BY <3>1, <3>2, BegunKeepsEnsure
  <2>4. CASE Ensure(s)
      BY <2>4, EnsureIsCalled
  <2>5. ASSUME NEW t \in Names, ForkCancels(s, t) \/ ForkReleases(s, t) PROVE EnsureInv'
      BY <1>1, <2>5, EvenForks, EvenKeepsEnsure
  <2>6. CASE StartInner(s) \/ Launch(s) \/ CallHook(s)
      BY <1>1, <2>6, EvenCalls, EvenKeepsEnsure
  <2>7. CASE \/ AgentPersists(s) \/ ReturnLeaf(s) \/ Retry(s) \/ DoTakes(s) \/ TryTakes(s) \/ Join(s) \/ CloseGroup(s)
             \/ Dispatch(s) \/ CountFailure(s) \/ TakeHook(s) \/ TakeEnsure(s)
      BY <1>1, <2>7, EvenSteps, EvenKeepsEnsure
  <2> QED BY <1>2, <2>1, <2>2, <2>3, <2>4, <2>5, <2>6, <2>7 DEF StepMoves
<1>3. CASE JobMoves \/ StopJob \/ UNCHANGED engineVars
      BY <1>1, <1>3, EvenJob, EvenKeepsEnsure
<1> QED BY <1>2, <1>3 DEF EngineNext, EngineProgress

\* Whatever the plans, every call of a step with an ensure hook has been followed by a call of the hook when the
\* job is over.
THEOREM EnsureHolds == EngineSpec => []EnsureRuns
<1>1. EngineInit => EnsureInv
      BY PlanSteps DEF EngineInit, EnsureInv, EnsureStep, Owing, Fresh, StepsAreSteps
<1>2. TypeInv /\ CallInv /\ EnsureInv /\ [EngineNext]_engineVars => EnsureInv'
      BY EngineKeepsEnsure
<1>3. TypeInv /\ CallInv /\ EnsureInv => EnsureRuns
  <2> SUFFICES ASSUME TypeInv, CallInv, EnsureInv, jpc = "over", NEW s \in Names, HookOf(s, "ensure") # None
               PROVE  calls[HookOf(s, "ensure")] = calls[s]
      BY DEF EnsureRuns
  <2>1. HookOf(s, "ensure") \in Names
      BY PlanSteps DEF TypeInv, EngineTypeOK, RunnerType, StepsAreSteps
  <2>2. pc[s] = "idle" /\ pc[HookOf(s, "ensure")] = "idle"
      BY <2>1, NothingRuns DEF JobWaits, OutcomeHooks, HookNames
  <2> QED BY <2>1, <2>2 DEF EnsureInv, EnsureStep, Owing, Fresh, TypeInv, EngineTypeOK, ScopeType
<1> QED BY <1>1, <1>2, <1>3, CallsFormATree, PTL DEF EngineSpec

-----------------------------------------------------------------------------
(* Errors travel. *)

\* A step that holds an error: the handler's, or the one kept from an earlier attempt.
Early == {"enter", "leaf", "inner", "seq", "join", "close", "retry", "hooks"}
Carries(p) ==
  \/ res[p] # "nil" /\ pc[p] \notin {"idle", "enter", "leaf"}
  \/ pc[p] \in Early /\ att[p] > 1 /\ last[p] # "nil"

\* Nothing at p, or at the job, answers for an error.
Bare(p) ==
  /\ StepOf(p).kind # "try"
  /\ \A h \in FailureHooks : HookOf(p, h) = None
  /\ \A q \in Names : \A h \in HookNames \ {"on_success"} : HookOf(q, h) # p
  /\ \A h \in HookNames : JobHook(h) # p
JobBare == job.assert = <<>> /\ \A h \in FailureHooks : JobHook(h) = None

\* An unanswered error of a leaf is held by a step around it, or by the job.
Held(s) == (\E p \in Above(s) : Carries(p)) \/ jerr # "nil"
TravelInv == ~ctxDone => \A s \in fell : Answered(s) \/ Held(s)

\* A do holds no error while it goes on, the job none while a step of its plan runs; and what a success says.
DoesGoOn == \A s \in Names : StepOf(s).kind = "do" /\ pc[s] \in {"inner", "seq"} => res[s] = "nil"
JobGoesOn == jpc = "step" => jerr = "nil"
SuccessRow == jrow = "success" => jpc = "over" /\ ~ctxDone /\ jerr = "nil"
ResultInv == DoesGoOn /\ JobGoesOn /\ SuccessRow

\* The plan is the same after every step.
LEMMA EngineKeepsPlan == ASSUME [EngineNext]_engineVars PROVE SamePlan
<1>1. job' = job
  <2>1. CASE StopJob \/ UNCHANGED engineVars
      BY <2>1 DEF StopJob, engineVars
  <2>2. CASE JobMoves
      BY <2>2 DEF JobMoves, StartJob, RunPlanStep, TakePlanStep, RunJobHook, TakeJobHook, RunJobEnsure,
         TakeJobEnsure, FinishJob
  <2>3. ASSUME NEW s \in Names, StepMoves(s) PROVE job' = job
      BY <2>3 DEF StepMoves, EnterLeaf, LoadAgentFails, ConfigFails, ErrsEarly, AgentPersists, ReturnLeaf,
         EnterGroup, StartInner,
         DoTakes, TryTakes, Launch, Join, CloseGroup, ForkCancels, ForkReleases, Retry, Dispatch, CountFailure, CallHook,
         TakeHook, Ensure, TakeEnsure
  <2> QED BY <2>1, <2>2, <2>3 DEF EngineNext, EngineProgress
<1> QED BY <1>1, PlanStays

\* What contains a step contains what is around it, and the step itself.
LEMMA AboveClosed ==
  ASSUME NEW s \in Names
  PROVE  s \in Above(s) /\ Above(s) \subseteq Names /\ \A p \in Above(s) : Parents(p) \subseteq Above(s)
<1>1. s \in Above(s) /\ Above(s) \subseteq Names
      BY DEF Above
<1>2. ASSUME NEW p \in Above(s), NEW q \in Parents(p) PROVE q \in Above(s)
  <2>1. q \in Names
      BY DEF Parents
  <2>2. ASSUME NEW S \in SUBSET Names, s \in S, \A x \in S : Parents(x) \subseteq S PROVE q \in S
      BY <2>2 DEF Above
  <2> QED BY <2>1, <2>2 DEF Above
<1> QED BY <1>1, <1>2

\* What is around an unanswered step is bare.
LEMMA BareAbove ==
  ASSUME NEW s \in Names, ~Answered(s)
  PROVE  JobBare /\ \A p \in Above(s) : Bare(p)
BY DEF Answered, Bare, JobBare, FailureHooks

\* What contains a step, and who answers for it, is read from the plan.
LEMMA AnswersStay ==
  ASSUME SamePlan, NEW s
  PROVE  (\A q : Parents(q)' = Parents(q)) /\ Above(s)' = Above(s) /\ (Answered(s)' <=> Answered(s))
<1>1. \A q : Parents(q)' = Parents(q)
      BY DEF SamePlan, Parents
<1>2. Above(s)' = Above(s)
      BY <1>1 DEF SamePlan, Above
<1>3. Answered(s)' <=> Answered(s)
      BY <1>2 DEF SamePlan, Answered
<1> QED BY <1>1, <1>2, <1>3

\* A step of the engine hands every error on: to the step itself, to the one around it, or to the job.
HandedOn(p) == Carries(p)' \/ (\E q \in Parents(p) : Carries(q)') \/ jerr' # "nil"
Hands ==
  /\ SamePlan
  /\ \A p \in Names : Bare(p) /\ (\A q \in Parents(p) : Bare(q)) /\ Carries(p) => HandedOn(p)
  /\ \A x \in fell' : x \in fell \/ Carries(x)'
  /\ JobBare /\ jerr # "nil" => jerr' # "nil"

\* Then no unanswered error is lost.
LEMMA HandsKeepTravel ==
  ASSUME TypeInv, TravelInv, Hands, ~ctxDone, fell' \subseteq Names
  PROVE  TravelInv'
<1> SUFFICES ASSUME NEW s \in fell', ~Answered(s) PROVE Held(s)'
      BY AnswersStay DEF TravelInv, Hands
<1>1. s \in Names
      OBVIOUS
<1>2. Above(s)' = Above(s) /\ JobBare /\ \A p \in Above(s) : Bare(p)
      BY <1>1, AnswersStay, BareAbove DEF Hands
<1>3. s \in Above(s) /\ Above(s) \subseteq Names /\ \A p \in Above(s) : Parents(p) \subseteq Above(s)
      BY <1>1, AboveClosed
<1>4. CASE s \notin fell
      BY <1>2, <1>3, <1>4 DEF Hands, Held
<1>5. CASE s \in fell /\ jerr # "nil"
      BY <1>2, <1>5 DEF Hands, Held
<1>6. CASE s \in fell /\ jerr = "nil"
  <2>1. PICK p \in Above(s) : Carries(p)
      BY <1>6 DEF TravelInv, Held
  <2>2. HandedOn(p)
      BY <1>2, <1>3, <2>1 DEF Hands
  <2> QED BY <1>2, <1>3, <2>2 DEF HandedOn, Held
<1> QED BY <1>4, <1>5, <1>6

\* Who is around an inner step or a hook.
LEMMA ParentOfInner ==
  ASSUME StepsAreSteps, NEW s \in Names, NEW t,
         (\E i \in 1..Len(Inner(s)) : t = Inner(s)[i]) \/ (\E h : t = HookOf(s, h) /\ t # None)
  PROVE  s \in Parents(t)
<1>1. CASE \E i \in 1..Len(Inner(s)) : t = Inner(s)[i]
      BY <1>1, InnerIndex DEF Parents, PartsOf, InnerOf, Inner, StepOf
<1>2. CASE \E h : t = HookOf(s, h) /\ t # None
      BY <1>2 DEF Parents, PartsOf, HooksOf, HookOf, StepOf
<1> QED BY <1>1, <1>2

\* The steps that keep their error to themselves.
LEMMA LocalHands ==
  ASSUME TypeInv, ~ctxDone, NEW s \in Names,
         \/ EnterLeaf(s) \/ LoadAgentFails(s) \/ ConfigFails(s) \/ AgentPersists(s) \/ ReturnLeaf(s) \/ Retry(s)
         \/ EnterGroup(s) \/ Join(s) \/ CloseGroup(s) \/ Dispatch(s) \/ CountFailure(s)
  PROVE  Hands
<1> USE DEF TypeInv, EngineTypeOK, PositionType, ResultType, CounterType, jobVars, history
<1>1. StepsAreSteps
      BY PlanSteps DEF RunnerType
<1>2. SamePlan /\ jerr' = jerr
      BY PlanStays DEF EnterLeaf, LoadAgentFails, ConfigFails, ErrsEarly, AgentPersists, ReturnLeaf, Retry,
         EnterGroup, Join,
         CloseGroup, Dispatch, CountFailure
<1>3. \A q \in Names \ {s} : pc'[q] = pc[q] /\ res'[q] = res[q] /\ att'[q] = att[q] /\ last'[q] = last[q]
  <2>1. CASE EnterLeaf(s)
      BY <2>1 DEF EnterLeaf, Begun
  <2>2. CASE LoadAgentFails(s) \/ ConfigFails(s)
      BY <2>2 DEF LoadAgentFails, ConfigFails, ErrsEarly, Begun
  <2>3. CASE ReturnLeaf(s)
      BY <2>3 DEF ReturnLeaf
  <2>4. CASE EnterGroup(s)
      BY <2>4 DEF EnterGroup, Begun
  <2>5. CASE AgentPersists(s) \/ Retry(s) \/ Join(s) \/ CloseGroup(s)
      BY <2>5 DEF AgentPersists, Retry, Join, CloseGroup
  <2>6. CASE Dispatch(s)
      BY <2>6 DEF Dispatch
  <2>7. CASE CountFailure(s)
      BY <2>7 DEF CountFailure
  <2> QED BY <2>1, <2>2, <2>3, <2>4, <2>5, <2>6, <2>7
<1>4. Bare(s) /\ Carries(s) => Carries(s)'
  <2> SUFFICES ASSUME Bare(s), Carries(s) PROVE Carries(s)'
      OBVIOUS
  <2> USE DEF Carries, Early
  <2>1. CASE EnterLeaf(s)
      BY <2>1 DEF EnterLeaf, Begun, SetFails
  <2>2. CASE LoadAgentFails(s) \/ ConfigFails(s)
      BY <2>2 DEF LoadAgentFails, ConfigFails, ErrsEarly, AfterHandler
  <2>3. CASE ReturnLeaf(s)
      BY <2>3 DEF ReturnLeaf, AfterHandler
  <2>4. CASE EnterGroup(s)
      BY <2>4 DEF EnterGroup, Begun, SetFails
  <2>5. CASE AgentPersists(s) \/ Join(s)
      BY <2>5 DEF AgentPersists, Join
  <2>6. CASE Retry(s)
      BY <1>1, <2>6 DEF Retry, LocalInv, LocalStep, StepsAreSteps
  <2>7. CASE CloseGroup(s)
      BY <2>7 DEF CloseGroup, AfterHandler, SetFails, Bare
  <2>8. CASE Dispatch(s)
    <3>1. CASE res[s] # "nil"
      <4>1. Chosen(s) \in {"none"} \cup FailureHooks
        BY <3>1 DEF Chosen, FailureInside, OuterHook, FailureHooks
      <4>2. Chosen(s) = "none" \/ HookOf(s, Chosen(s)) = None
        BY <4>1 DEF Bare
      <4>3. res'[s] = res[s] /\ pc'[s] = "ensure"
        BY <2>8, <3>1, <4>2 DEF Dispatch, Left
      <4> QED BY <3>1, <4>3
    <3>2. CASE res[s] = "nil"
      <4>1. IsRetried(s) /\ last[s] # "nil"
        BY <1>1, <2>8, <3>2 DEF Dispatch, IsRetried, StepsAreSteps
      <4>2. res'[s] = last[s] /\ pc'[s] \in {"ensure", "call"}
        BY <2>8, <3>2, <4>1 DEF Dispatch, Left
      <4> QED BY <4>1, <4>2
    <3> QED BY <3>1, <3>2
  <2>9. CASE CountFailure(s)
      BY <2>9 DEF CountFailure, LocalInv, LocalStep, Bare
  <2> QED BY <2>1, <2>2, <2>3, <2>4, <2>5, <2>6, <2>7, <2>8, <2>9
<1>5. \A x \in fell' : x \in fell \/ (x = s /\ Carries(s)')
  <2>1. CASE EnterLeaf(s)
      BY <2>1 DEF EnterLeaf, SetFails
  <2>2. CASE LoadAgentFails(s) \/ ConfigFails(s)
      BY <2>2 DEF LoadAgentFails, ConfigFails, ErrsEarly, AfterHandler, Carries
  <2>3. CASE ReturnLeaf(s)
      BY <2>3 DEF ReturnLeaf, AfterHandler, Carries
  <2>4. CASE AgentPersists(s) \/ Retry(s) \/ EnterGroup(s) \/ Join(s) \/ CloseGroup(s) \/ Dispatch(s) \/ CountFailure(s)
      BY <2>4 DEF AgentPersists, Retry, EnterGroup, Join, CloseGroup, Dispatch, CountFailure
  <2> QED BY <2>1, <2>2, <2>3, <2>4
<1>6. \A p \in Names \ {s} : Carries(p) => Carries(p)'
      BY <1>3 DEF Carries
<1> QED BY <1>2, <1>4, <1>5, <1>6 DEF Hands, HandedOn

\* A call keeps the errors where they are.
LEMMA CallHands ==
  ASSUME TypeInv, CallInv, NEW s \in Names, StartInner(s) \/ Launch(s) \/ CallHook(s) \/ Ensure(s)
  PROVE  Hands
<1>0. pc \in [Names -> Positions] /\ att \in [Names -> Nat]
      BY DEF TypeInv, EngineTypeOK, PositionType, CounterType
<1>1. SamePlan /\ jerr' = jerr /\ res' = res /\ last' = last /\ fell' = fell
      BY PlanStays DEF StartInner, Launch, CallHook, Ensure, jobVars, history
<1>2. ASSUME NEW p \in Names, pc[p] # "idle" PROVE att'[p] = att[p]
  <2>1. CASE StartInner(s) \/ (Launch(s) /\ ~(idx[s] = Len(Inner(s)) \/ s \in shut \/ ctxDone))
    <3>1. PICK t : t = Inner(s)[idx[s] + 1]
      OBVIOUS
    <3>2. pc[t] = "idle"
      BY <2>1, <3>1, InnerIsCalled DEF CallMove
    <3> QED BY <1>0, <1>2, <2>1, <3>1, <3>2 DEF StartInner, Launch
  <2>2. CASE Launch(s) /\ (idx[s] = Len(Inner(s)) \/ s \in shut \/ ctxDone)
      BY <2>2 DEF Launch
  <2>3. CASE CallHook(s)
    <3>1. PICK h, t : h = hook[s] /\ t = HookOf(s, h)
      OBVIOUS
    <3>2. CallMove(s, t)
      BY <2>3, <3>1, HookIsCalled
    <3> QED BY <1>0, <1>2, <2>3, <3>1, <3>2 DEF CallHook, CallMove
  <2>4. CASE Ensure(s) /\ HookOf(s, "ensure") # None
    <3>1. PICK h, t : h = "ensure" /\ t = HookOf(s, h)
      OBVIOUS
    <3>2. CallMove(s, t)
      BY <2>4, <3>1, HookIsCalled
    <3> QED BY <1>0, <1>2, <2>4, <3>1, <3>2 DEF Ensure, CallMove
  <2>5. CASE Ensure(s) /\ HookOf(s, "ensure") = None
      BY <2>5 DEF Ensure
  <2> QED BY <2>1, <2>2, <2>3, <2>4, <2>5
<1>3. ASSUME NEW p \in Names, pc[p] # "idle"
      PROVE  \/ pc'[p] = pc[p]
             \/ pc[p] \in {"inner", "call", "ensure"} /\ pc'[p] \notin {"idle", "enter", "leaf"}
                /\ (pc[p] = "inner" => pc'[p] \in {"seq", "join"})
  <2>1. CASE StartInner(s)
    <3>1. PICK t : t = Inner(s)[idx[s] + 1]
      OBVIOUS
    <3>2. pc[t] = "idle"
      BY <2>1, <3>1, InnerIsCalled DEF CallMove
    <3> QED BY <1>0, <1>3, <2>1, <3>1, <3>2 DEF StartInner
  <2>2. CASE Launch(s) /\ ~(idx[s] = Len(Inner(s)) \/ s \in shut \/ ctxDone)
    <3>1. PICK t : t = Inner(s)[idx[s] + 1]
      OBVIOUS
    <3>2. pc[t] = "idle"
      BY <2>2, <3>1, InnerIsCalled DEF CallMove
    <3> QED BY <1>0, <1>3, <2>2, <3>1, <3>2 DEF Launch
  <2>3. CASE Launch(s) /\ (idx[s] = Len(Inner(s)) \/ s \in shut \/ ctxDone)
      BY <1>0, <2>3 DEF Launch
  <2>4. CASE CallHook(s)
    <3>1. PICK h, t : h = hook[s] /\ t = HookOf(s, h)
      OBVIOUS
    <3>2. CallMove(s, t)
      BY <2>4, <3>1, HookIsCalled
    <3> QED BY <1>0, <1>3, <2>4, <3>1, <3>2 DEF CallHook, CallMove
  <2>5. CASE Ensure(s) /\ HookOf(s, "ensure") # None
    <3>1. PICK h, t : h = "ensure" /\ t = HookOf(s, h)
      OBVIOUS
    <3>2. CallMove(s, t)
      BY <2>5, <3>1, HookIsCalled
    <3> QED BY <1>0, <1>3, <2>5, <3>1, <3>2 DEF Ensure, CallMove
  <2>6. CASE Ensure(s) /\ HookOf(s, "ensure") = None
      BY <1>0, <2>6 DEF Ensure
  <2> QED BY <2>1, <2>2, <2>3, <2>4, <2>5, <2>6
<1>4. ASSUME NEW p \in Names, Carries(p) PROVE Carries(p)'
  <2>1. pc[p] # "idle"
      BY <1>4 DEF Carries, Early
  <2>2. att'[p] = att[p] /\ res'[p] = res[p] /\ last'[p] = last[p]
      BY <1>1, <1>2, <2>1
  <2>3. CASE pc'[p] = pc[p]
      BY <1>4, <2>2, <2>3 DEF Carries
  <2>4. CASE pc'[p] # pc[p]
      BY <1>3, <1>4, <2>1, <2>2, <2>4 DEF Carries, Early
  <2> QED BY <2>3, <2>4
<1> QED BY <1>1, <1>4 DEF Hands, HandedOn

\* A result that is taken is handed to the step around.
LEMMA ReturnHands ==
  ASSUME TypeInv, CallInv, ResultInv, NEW s \in Names, NEW t,
         \/ (DoTakes(s) \/ TryTakes(s)) /\ t = Inner(s)[idx[s]]
         \/ TakeHook(s) /\ t = HookOf(s, hook[s])
         \/ TakeEnsure(s) /\ t = HookOf(s, "ensure")
         \/ t \in Names /\ ForkReleases(s, t)
  PROVE  Hands
<1>0. pc \in [Names -> Positions] /\ res \in [Names -> Errors]
      BY DEF TypeInv, EngineTypeOK, PositionType, ResultType
<1>1. SamePlan /\ jerr' = jerr /\ last' = last /\ att' = att /\ fell' = fell
      BY PlanStays DEF DoTakes, TryTakes, TakeHook, TakeEnsure, ForkReleases, jobVars, history
<1>2. t \in Names /\ ReturnMove(s, t) /\ CallsNow(s, t)
      BY ResultsAreTaken
<1>3. StepsAreSteps /\ JobIsJob
      BY PlanSteps DEF TypeInv, EngineTypeOK, RunnerType
<1>4. s \in Parents(t)
      BY <1>2, <1>3, ParentOfInner DEF CallsNow, JobIsJob
<1>5. s # t /\ pc[t] \in {"done", "release"} /\ pc'[t] = "idle" /\ \A q \in Names \ {s, t} : pc'[q] = pc[q]
      BY <1>2 DEF ReturnMove, Others
<1>6. \A q \in Names \ {s} : res'[q] = res[q]
      BY <1>0 DEF DoTakes, TryTakes, TakeHook, TakeEnsure, ForkReleases
<1>7. Carries(t) => res[t] # "nil"
      BY <1>5 DEF Carries, Early
<1>8. /\ Bare(t) /\ Bare(s) /\ Carries(t) => Carries(s)'
      /\ Bare(s) /\ Carries(s) => Carries(s)'
  <2>1. CASE DoTakes(s) /\ t = Inner(s)[idx[s]]
    <3>1. pc[s] = "seq" /\ res'[s] = res[t] /\ res[s] = "nil"
      BY <1>0, <2>1 DEF DoTakes, ResultInv, DoesGoOn
    <3>2. pc'[s] \in {"close", "inner"} /\ (res[t] # "nil" => pc'[s] = "close")
      BY <1>0, <1>5, <2>1 DEF DoTakes
    <3> QED BY <1>1, <1>7, <3>1, <3>2 DEF Carries, Early
  <2>2. CASE TryTakes(s)
      BY <2>2 DEF TryTakes, Bare
  <2>3. CASE TakeHook(s) /\ t = HookOf(s, hook[s])
    <3>1. hook[s] \in OutcomeHooks /\ pc[s] = "hook" /\ pc'[s] = "ensure"
      BY <1>0, <1>5, <2>3 DEF TakeHook, TypeInv, LocalInv, LocalStep
    <3>2. res'[s] = (IF hook[s] = "on_success" /\ res[t] # "nil" THEN res[t] ELSE res[s])
      BY <1>0, <2>3 DEF TakeHook
    <3>3. Bare(t) => hook[s] = "on_success"
      BY <2>3, <3>1 DEF Bare, OutcomeHooks
    <3> QED BY <1>7, <3>1, <3>2, <3>3 DEF Carries, Early
  <2>4. CASE TakeEnsure(s) /\ t = HookOf(s, "ensure")
    <3>1. pc[s] = "ensuring" /\ pc'[s] = "done" /\ res' = res
      BY <1>0, <1>5, <2>4 DEF TakeEnsure
    <3>2. ~Bare(t)
      BY <2>4 DEF Bare, HookNames
    <3> QED BY <3>1, <3>2 DEF Carries, Early
  <2>5. CASE ForkReleases(s, t)
    <3>1. pc'[s] = pc[s] /\ res'[s] = (IF res[s] = "nil" THEN res[t] ELSE res[s])
      BY <1>0, <1>5, <2>5 DEF ForkReleases
    <3>2. pc[s] \in {"inner", "join"}
      <4>1. PICK i \in 1..Len(Inner(s)) : t = Inner(s)[i]
        BY <1>3, <2>5, InnerIndex DEF ForkReleases
      <4> QED BY <2>5, <4>1 DEF CallInv, InnerCalls, WaitsInner, ForkReleases
    <3> QED BY <1>1, <1>7, <3>1, <3>2 DEF Carries, Early
  <2> QED BY <2>1, <2>2, <2>3, <2>4, <2>5
<1>9. \A p \in Names \ {s, t} : Carries(p) => Carries(p)'
      BY <1>1, <1>5, <1>6 DEF Carries
<1>10. ASSUME NEW p \in Names, Bare(p), \A q \in Parents(p) : Bare(q), Carries(p) PROVE HandedOn(p)
  <2>1. CASE p = t
      BY <1>4, <1>8, <1>10, <2>1 DEF HandedOn
  <2>2. CASE p # t
      BY <1>8, <1>9, <1>10, <2>2 DEF HandedOn
  <2> QED BY <2>1, <2>2
<1> QED BY <1>1, <1>10 DEF Hands

\* A goroutine that gives its unit back keeps its error until then.
LEMMA CancelHands ==
  ASSUME TypeInv, NEW s \in Names, NEW t \in Names, ForkCancels(s, t)
  PROVE  Hands
<1>0. pc \in [Names -> Positions]
      BY DEF TypeInv, EngineTypeOK, PositionType
<1>1. SamePlan /\ jerr' = jerr /\ last' = last /\ att' = att /\ res' = res /\ fell' = fell
      BY PlanStays DEF ForkCancels, jobVars, history
<1>2. pc[t] = "done" /\ pc'[t] = "release" /\ \A q \in Names \ {t} : pc'[q] = pc[q]
      BY <1>0 DEF ForkCancels
<1>3. \A p \in Names : Carries(p) => Carries(p)'
      BY <1>1, <1>2 DEF Carries, Early
<1> QED BY <1>1, <1>3 DEF Hands, HandedOn

\* The job takes the error of its plan's step, and keeps it unless a hook of its own answers.
LEMMA JobHands ==
  ASSUME TypeInv, CallInv, ResultInv, JobMoves \/ StopJob \/ UNCHANGED engineVars
  PROVE  Hands
<1>0. pc \in [Names -> Positions] /\ att \in [Names -> Nat]
      BY DEF TypeInv, EngineTypeOK, PositionType, CounterType
<1>1. SamePlan /\ last' = last /\ res' = res /\ fell' = fell
      BY PlanStays DEF JobMoves, StartJob, RunPlanStep, TakePlanStep, RunJobHook, TakeJobHook, RunJobEnsure,
         TakeJobEnsure,
         FinishJob, StopJob, engineVars, stepVars, history
<1>2. StepsAreSteps /\ JobIsJob
      BY PlanSteps DEF TypeInv, EngineTypeOK, RunnerType
<1>3. JobBare /\ jerr # "nil" => jerr' # "nil"
  <2> SUFFICES ASSUME JobBare, jerr # "nil" PROVE jerr' # "nil"
      OBVIOUS
  <2>1. CASE StartJob
      BY <2>1 DEF StartJob
  <2>2. CASE RunPlanStep \/ TakeJobHook \/ RunJobEnsure \/ TakeJobEnsure \/ StopJob \/ UNCHANGED engineVars
      BY <2>2 DEF RunPlanStep, TakeJobHook, RunJobEnsure, TakeJobEnsure, StopJob, engineVars, jobVars
  <2>3. CASE TakePlanStep
      BY <2>3 DEF TakePlanStep, ResultInv, JobGoesOn
  <2>4. CASE RunJobHook
    <3>1. JobHookChosen \in {"none"} \cup FailureHooks
      BY DEF JobHookChosen, JobFailed, FailureHooks
    <3>2. JobHookChosen = "none" \/ JobHook(JobHookChosen) = None
      BY <3>1 DEF JobBare
    <3> QED BY <2>4, <3>2 DEF RunJobHook
  <2>5. CASE FinishJob
    <3>1. JobResult = jerr
      BY DEF JobResult, JobBare
    <3> QED BY <2>5, <3>1 DEF FinishJob
  <2> QED BY <2>1, <2>2, <2>3, <2>4, <2>5 DEF JobMoves
<1>4. ASSUME NEW p \in Names, Bare(p), Carries(p) PROVE Carries(p)' \/ jerr' # "nil"
  <2>0. pc[p] # "idle"
      BY <1>4 DEF Carries, Early
  <2>1. CASE ~JobWaits
      BY <2>0, <2>1, NothingRuns
  <2>2. CASE pc'[p] = pc[p] /\ att'[p] = att[p]
      BY <1>1, <1>4, <2>2 DEF Carries
  <2>3. CASE TakePlanStep
    <3>1. CASE p = job.plan[jidx]
      BY <1>4, <2>3, <3>1 DEF TakePlanStep, Carries, Early
    <3>2. CASE p # job.plan[jidx]
      BY <1>0, <2>2, <2>3, <3>2 DEF TakePlanStep
    <3> QED BY <3>1, <3>2
  <2>4. CASE TakeJobHook
    <3>1. p # JobHook(jpc)
      BY <1>4, <2>4 DEF TakeJobHook, Bare
    <3> QED BY <1>0, <2>2, <2>4, <3>1 DEF TakeJobHook
  <2>5. CASE TakeJobEnsure
    <3>1. p # JobHook("ensure")
      BY <1>4, <2>5 DEF TakeJobEnsure, Bare, HookNames
    <3> QED BY <1>0, <2>2, <2>5, <3>1 DEF TakeJobEnsure
  <2>6. CASE StartJob \/ RunPlanStep \/ RunJobHook \/ RunJobEnsure \/ FinishJob
      BY <2>1, <2>6 DEF StartJob, RunPlanStep, RunJobHook, RunJobEnsure, FinishJob, JobWaits, OutcomeHooks, HookNames
  <2>7. CASE StopJob \/ UNCHANGED engineVars
      BY <2>2, <2>7 DEF StopJob, engineVars, stepVars
  <2> QED BY <2>3, <2>4, <2>5, <2>6, <2>7 DEF JobMoves
<1> QED BY <1>1, <1>3, <1>4 DEF Hands, HandedOn

\* Errors travel up.
LEMMA EngineKeepsErrors ==
  ASSUME TypeInv, CallInv, ResultInv, TravelInv, [EngineNext]_engineVars
  PROVE  TravelInv'
<1>1. CASE ctxDone'
      BY <1>1 DEF TravelInv
<1>2. CASE ~ctxDone'
  <2>1. ~ctxDone
    <3>1. ctxDone' = ctxDone \/ ctxDone'
      <4>1. CASE StopJob
        BY <4>1 DEF StopJob
      <4>2. CASE UNCHANGED engineVars
        BY <4>2 DEF engineVars
      <4>3. CASE JobMoves
        BY <4>3 DEF JobMoves, StartJob, RunPlanStep, TakePlanStep, RunJobHook, TakeJobHook, RunJobEnsure,
           TakeJobEnsure, FinishJob
      <4>4. ASSUME NEW s \in Names, StepMoves(s) PROVE ctxDone' = ctxDone
        BY <4>4 DEF StepMoves, EnterLeaf, LoadAgentFails, ConfigFails, ErrsEarly, AgentPersists, ReturnLeaf,
           EnterGroup, StartInner,
           DoTakes, TryTakes, Launch, Join, CloseGroup, ForkCancels, ForkReleases, Retry, Dispatch, CountFailure, CallHook,
           TakeHook, Ensure, TakeEnsure
      <4> QED BY <4>1, <4>2, <4>3, <4>4 DEF EngineNext, EngineProgress
    <3> QED BY <1>2, <3>1
  <2>2. fell' \subseteq Names
    <3>1. TypeInv' /\ SamePlan
      BY EngineKeepsTypes, EngineKeepsPlan
    <3> QED BY <3>1 DEF TypeInv, EngineTypeOK, ScopeType, SamePlan
  <2>3. Hands
    <3>1. ASSUME NEW s \in Names, StepMoves(s) PROVE Hands
      <4>1. CASE \/ EnterLeaf(s) \/ LoadAgentFails(s) \/ ConfigFails(s) \/ AgentPersists(s) \/ ReturnLeaf(s) \/ Retry(s)
                 \/ EnterGroup(s) \/ Join(s) \/ CloseGroup(s) \/ Dispatch(s) \/ CountFailure(s)
        BY <2>1, <4>1, LocalHands
      <4>2. CASE StartInner(s) \/ Launch(s) \/ CallHook(s) \/ Ensure(s)
        BY <4>2, CallHands
      <4>3. CASE DoTakes(s) \/ TryTakes(s)
        BY <4>3, ReturnHands
      <4>4. CASE TakeHook(s)
        BY <4>4, ReturnHands
      <4>5. CASE TakeEnsure(s)
        BY <4>5, ReturnHands
      <4>6. ASSUME NEW t \in Names, ForkCancels(s, t) \/ ForkReleases(s, t) PROVE Hands
        BY <4>6, CancelHands, ReturnHands
      <4> QED BY <3>1, <4>1, <4>2, <4>3, <4>4, <4>5, <4>6 DEF StepMoves
    <3>2. CASE JobMoves \/ StopJob \/ UNCHANGED engineVars
        BY <3>2, JobHands
    <3> QED BY <3>1, <3>2 DEF EngineNext, EngineProgress
  <2> QED BY <2>1, <2>2, <2>3, HandsKeepTravel
<1> QED BY <1>1, <1>2

\* A do goes on without an error, and so does the job; a success is the last word.
LEMMA EngineKeepsResults ==
  ASSUME TypeInv, CallInv, ResultInv, [EngineNext]_engineVars
  PROVE  ResultInv'
<1>0. pc \in [Names -> Positions] /\ res \in [Names -> Errors]
      BY DEF TypeInv, EngineTypeOK, PositionType, ResultType
<1>1. SamePlan
      BY EngineKeepsPlan
<1>2. ASSUME NEW s \in Names, StepMoves(s) PROVE ResultInv'
  <2>1. jpc' = jpc /\ jerr' = jerr /\ jrow' = jrow /\ ctxDone' = ctxDone
      BY <1>2 DEF StepMoves, EnterLeaf, LoadAgentFails, ConfigFails, ErrsEarly, AgentPersists, ReturnLeaf,
         EnterGroup, StartInner,
         DoTakes, TryTakes, Launch, Join, CloseGroup, ForkCancels, ForkReleases, Retry, Dispatch, CountFailure, CallHook,
         TakeHook, Ensure, TakeEnsure, jobVars
  <2>2. ASSUME NEW q \in Names, StepOf(q).kind = "do", pc'[q] \in {"inner", "seq"} PROVE res'[q] = "nil"
    <3>0. q \notin {} /\ StepOf(q).kind \notin Forks /\ StepOf(q).kind \notin Leaves
      BY <2>2 DEF Forks, Leaves
    <3>1. CASE EnterLeaf(s) \/ LoadAgentFails(s) \/ ConfigFails(s) \/ ReturnLeaf(s)
      BY <1>0, <2>2, <3>0, <3>1 DEF EnterLeaf, LoadAgentFails, ConfigFails, ErrsEarly, ReturnLeaf, AfterHandler,
         ResultInv, DoesGoOn
    <3>2. CASE EnterGroup(s)
      BY <1>0, <2>2, <3>2 DEF EnterGroup, AfterHandler, ResultInv, DoesGoOn
    <3>3. CASE StartInner(s) \/ Launch(s)
      BY <1>0, <2>2, <3>3 DEF StartInner, Launch, ResultInv, DoesGoOn
    <3>4. CASE DoTakes(s)
      BY <1>0, <2>2, <3>4 DEF DoTakes, ResultInv, DoesGoOn
    <3>5. CASE TryTakes(s)
      BY <1>0, <2>2, <3>5 DEF TryTakes, ResultInv, DoesGoOn
    <3>6. CASE AgentPersists(s) \/ Join(s) \/ CloseGroup(s) \/ Retry(s)
      BY <1>0, <2>2, <3>6 DEF AgentPersists, Join, CloseGroup, Retry, AfterHandler, ResultInv, DoesGoOn
    <3>7. CASE Dispatch(s)
      BY <1>0, <2>2, <3>7 DEF Dispatch, ResultInv, DoesGoOn
    <3>8. CASE CountFailure(s) \/ CallHook(s)
      BY <1>0, <2>2, <3>8 DEF CountFailure, CallHook, ResultInv, DoesGoOn
    <3>9. CASE TakeHook(s) \/ Ensure(s) \/ TakeEnsure(s)
      BY <1>0, <2>2, <3>9 DEF TakeHook, Ensure, TakeEnsure, ResultInv, DoesGoOn
    <3>10. ASSUME NEW t \in Names, ForkCancels(s, t) PROVE res'[q] = "nil"
      BY <1>0, <2>2, <3>10 DEF ForkCancels, ResultInv, DoesGoOn
    <3>11. ASSUME NEW t \in Names, ForkReleases(s, t) PROVE res'[q] = "nil"
      <4>1. StepOf(s).kind \in Forks
        BY <3>11, ResultsAreTaken
      <4> QED BY <1>0, <2>2, <3>0, <3>11, <4>1 DEF ForkReleases, ResultInv, DoesGoOn
    <3> QED BY <1>2, <3>1, <3>2, <3>3, <3>4, <3>5, <3>6, <3>7, <3>8, <3>9, <3>10, <3>11 DEF StepMoves
  <2> QED BY <1>1, <2>1, <2>2 DEF ResultInv, DoesGoOn, JobGoesOn, SuccessRow, SamePlan
<1>3. CASE JobMoves \/ StopJob \/ UNCHANGED engineVars
  <2>1. DoesGoOn'
    <3>1. res' = res /\ \A q \in Names : pc'[q] = pc[q] \/ pc'[q] \in {"enter", "idle"}
      <4>1. CASE StartJob \/ FinishJob \/ StopJob \/ UNCHANGED engineVars
        BY <4>1 DEF StartJob, FinishJob, StopJob, engineVars, stepVars
      <4>2. CASE RunPlanStep \/ RunJobHook \/ RunJobEnsure
        BY <1>0, <4>2 DEF RunPlanStep, RunJobHook, RunJobEnsure, StartStep
      <4>3. CASE TakePlanStep \/ TakeJobHook \/ TakeJobEnsure
        BY <1>0, <4>3 DEF TakePlanStep, TakeJobHook, TakeJobEnsure
      <4> QED BY <1>3, <4>1, <4>2, <4>3 DEF JobMoves
    <3> QED BY <1>1, <3>1 DEF ResultInv, DoesGoOn, SamePlan
  <2>2. JobGoesOn' /\ SuccessRow'
    <3>1. CASE StartJob
      BY <3>1 DEF StartJob, ResultInv, JobGoesOn, SuccessRow
    <3>2. CASE RunPlanStep \/ TakePlanStep \/ TakeJobHook \/ RunJobEnsure \/ TakeJobEnsure
      BY <3>2 DEF RunPlanStep, TakePlanStep, TakeJobHook, RunJobEnsure, TakeJobEnsure, ResultInv, JobGoesOn,
         SuccessRow, HookNames
    <3>3. CASE RunJobHook
      BY <3>3 DEF RunJobHook, JobHookChosen, ResultInv, JobGoesOn, SuccessRow
    <3>4. CASE FinishJob
      BY <3>4 DEF FinishJob, SetFails, ResultInv, JobGoesOn, SuccessRow
    <3>5. CASE StopJob \/ UNCHANGED engineVars
      BY <3>5 DEF StopJob, engineVars, jobVars, ResultInv, JobGoesOn, SuccessRow
    <3> QED BY <1>3, <3>1, <3>2, <3>3, <3>4, <3>5 DEF JobMoves
  <2> QED BY <2>1, <2>2 DEF ResultInv
<1> QED BY <1>2, <1>3 DEF EngineNext, EngineProgress

\* Whatever the plans, a job recorded as a success has no failure of a leaf that nobody answered for.
THEOREM SuccessHolds == EngineSpec => []SuccessIsEarned
<1>1. EngineInit => ResultInv /\ TravelInv
      BY DEF EngineInit, ResultInv, DoesGoOn, JobGoesOn, SuccessRow, TravelInv
<1>2. TypeInv /\ CallInv /\ ResultInv /\ TravelInv /\ [EngineNext]_engineVars => ResultInv' /\ TravelInv'
      BY EngineKeepsResults, EngineKeepsErrors
<1>3. TypeInv /\ CallInv /\ ResultInv /\ TravelInv => SuccessIsEarned
  <2> SUFFICES ASSUME TypeInv, CallInv, ResultInv, TravelInv, jrow = "success", NEW s \in fell PROVE Answered(s)
      BY DEF SuccessIsEarned
  <2>1. jpc = "over" /\ ~ctxDone /\ jerr = "nil"
      BY DEF ResultInv, SuccessRow
  <2>2. s \in Names /\ Above(s) \subseteq Names
      BY AboveClosed DEF TypeInv, EngineTypeOK, ScopeType
  <2>3. \A p \in Names : ~Carries(p)
      BY <2>1, NothingRuns DEF JobWaits, OutcomeHooks, HookNames, Carries, Early
  <2> QED BY <2>1, <2>2, <2>3 DEF TravelInv, Held
<1> QED BY <1>1, <1>2, <1>3, CallsFormATree, PTL DEF EngineSpec

-----------------------------------------------------------------------------
(* max_in_flight. *)

\* A fork's semaphore.
LimitInv == \A s \in Names : StepOf(s).kind \in Forks => Cardinality(Holders(s)) <= Limit(s)

\* No inner step of a fork is called.
NoneLaunched == \A p \in Names, t \in Names :
  StepOf(p).kind \in Forks /\ t \in ToSet(Inner(p)) /\ pc'[t] # "idle" => pc[t] # "idle"

\* The steps that hold a unit are finitely many.
LEMMA HoldersFinite ==
  ASSUME TypeInv, NEW s \in Names
  PROVE  Holders(s) \subseteq Names /\ IsFiniteSet(Holders(s)) /\ Cardinality(Holders(s)) \in Nat
<1>1. StepsAreSteps /\ JobIsJob
      BY PlanSteps DEF TypeInv, EngineTypeOK, RunnerType
<1>2. Holders(s) \subseteq Names
  <2>1. ASSUME NEW t \in ToSet(Inner(s)) PROVE t \in Names
    <3>1. PICK i \in 1..Len(Inner(s)) : t = Inner(s)[i]
      BY <1>1, InnerIndex
    <3> QED BY <1>1, <3>1 DEF StepsAreSteps
  <2> QED BY <2>1 DEF Holders
<1>3. IsFiniteSet(Holders(s))
      BY <1>1, <1>2, FS_Subset DEF JobIsJob
<1> QED BY <1>2, <1>3, FS_CardinalityType

\* Limits are read from the plan.
LEMMA LimitsStay ==
  ASSUME SamePlan, NEW s
  PROVE  Limit(s)' = Limit(s) /\ ToSet(Inner(s))' = ToSet(Inner(s))
BY DEF SamePlan, Limit, ResolveLimit, ResolveAcrossLimit, ToSet

\* Without a launch no semaphore gives more units.
LEMMA NoneLaunchedLimits ==
  ASSUME TypeInv, LimitInv, SamePlan, NoneLaunched
  PROVE  LimitInv'
<1> SUFFICES ASSUME NEW p \in Names, StepOf(p).kind \in Forks PROVE Cardinality(Holders(p)') <= Limit(p)
      BY LimitsStay DEF LimitInv, SamePlan
<1>1. Holders(p) \subseteq Names /\ IsFiniteSet(Holders(p))
      BY HoldersFinite
<1>2. StepsAreSteps
      BY PlanSteps DEF TypeInv, EngineTypeOK, RunnerType
<1>3. \A t \in ToSet(Inner(p)) : t \in Names
      BY <1>2, InnerIndex DEF StepsAreSteps
<1>4. Holders(p)' \subseteq Holders(p)
      BY <1>3, LimitsStay DEF Holders, NoneLaunched
<1>5. Cardinality(Holders(p)') <= Cardinality(Holders(p)) /\ IsFiniteSet(Holders(p)')
      BY <1>1, <1>4, FS_Subset
<1>6. Cardinality(Holders(p)) <= Limit(p)
      BY DEF LimitInv
<1>7. Cardinality(Holders(p)) \in Nat /\ Cardinality(Holders(p)') \in Nat /\ Limit(p) \in Nat
  <2>1. Limit(p) \in Nat
      BY <1>2, PlanSteps DEF Limit, ResolveLimit, ResolveAcrossLimit, StepsAreSteps, JobIsJob, TypeInv, EngineTypeOK,
         RunnerType
  <2> QED BY <1>1, <1>5, <2>1, FS_CardinalityType
<1> QED BY <1>5, <1>6, <1>7

\* A fork launches only when a unit is free.
LEMMA LaunchLimits ==
  ASSUME TypeInv, CallInv, LimitInv, NEW s \in Names, Launch(s), ~(idx[s] = Len(Inner(s)) \/ s \in shut \/ ctxDone)
  PROVE  LimitInv'
<1>0. pc \in [Names -> Positions] /\ StepsAreSteps /\ Places /\ JobIsJob
      BY PlanSteps, PlanPlaces DEF TypeInv, EngineTypeOK, PositionType, RunnerType
<1>1. PICK t : t = Inner(s)[idx[s] + 1]
      OBVIOUS
<1>2. t \in Names /\ idx[s] + 1 \in 1..Len(Inner(s)) /\ SamePlan
      BY <1>1, InnerIsCalled
<1>3. pc' = [pc EXCEPT ![t] = "enter"] /\ Cardinality(Holders(s)) < Limit(s)
      BY <1>1 DEF Launch
<1> SUFFICES ASSUME NEW p \in Names, StepOf(p).kind \in Forks PROVE Cardinality(Holders(p)') <= Limit(p)
      BY <1>2, LimitsStay DEF LimitInv, SamePlan
<1>4. Holders(p) \subseteq Names /\ IsFiniteSet(Holders(p)) /\ Cardinality(Holders(p)) \in Nat
      BY HoldersFinite
<1>5. \A q \in ToSet(Inner(p)) : q \in Names
      BY <1>0, InnerIndex DEF StepsAreSteps
<1>6. CASE p = s
  <2>1. Holders(p)' \subseteq Holders(p) \cup {t}
      BY <1>2, <1>3, <1>5, LimitsStay DEF Holders
  <2>2. IsFiniteSet(Holders(p) \cup {t}) /\ Cardinality(Holders(p) \cup {t}) <= Cardinality(Holders(p)) + 1
    <3>1. IsFiniteSet(Holders(p) \cup {t}) /\ Cardinality(Holders(p) \cup {t})
                 = IF t \in Holders(p) THEN Cardinality(Holders(p)) ELSE Cardinality(Holders(p)) + 1
      BY <1>4, FS_AddElement
    <3>2. CASE t \in Holders(p)
      BY <1>4, <3>1, <3>2
    <3>3. CASE t \notin Holders(p)
      BY <1>4, <3>1, <3>3
    <3> QED BY <3>2, <3>3
  <2>3. IsFiniteSet(Holders(p)') /\ Cardinality(Holders(p)') <= Cardinality(Holders(p) \cup {t})
      BY <2>1, <2>2, FS_Subset
  <2>4. Limit(p) \in Nat /\ Cardinality(Holders(p) \cup {t}) \in Nat /\ Cardinality(Holders(p)') \in Nat
    <3>1. Limit(p) \in Nat
      BY <1>0 DEF Limit, ResolveLimit, ResolveAcrossLimit, StepsAreSteps, JobIsJob
    <3> QED BY <2>2, <2>3, <3>1, FS_CardinalityType
  <2> QED BY <1>3, <1>4, <1>6, <2>2, <2>3, <2>4
<1>7. CASE p # s
  <2>1. t \notin ToSet(Inner(p))
      BY <1>0, <1>1, <1>2, <1>7, InnerIndex DEF Places, InnerPlace
  <2>2. Holders(p)' = Holders(p)
      BY <1>2, <1>3, <1>5, <2>1, LimitsStay DEF Holders
  <2> QED BY <2>2 DEF LimitInv
<1> QED BY <1>6, <1>7

\* The other steps launch nothing.
LEMMA OthersLaunchNothing ==
  ASSUME TypeInv, CallInv, NEW s \in Names, NEW t \in Names, CallMove(s, t), CallsNow(s, t)', SamePlan,
         StepOf(s).kind \notin Forks \/ pc'[s] \in {"hook", "ensuring"}
  PROVE  NoneLaunched
<1>0. StepsAreSteps /\ Places /\ JobIsJob
      BY PlanSteps, PlanPlaces DEF TypeInv, EngineTypeOK, RunnerType
<1> SUFFICES ASSUME NEW p \in Names, StepOf(p).kind \in Forks, NEW q \in Names, q \in ToSet(Inner(p)), pc'[q] # "idle", pc[q] = "idle"
             PROVE  FALSE
      BY DEF NoneLaunched
<1>1. q = t
      BY DEF CallMove, Others
<1>2. PICK i \in 1..Len(Inner(p)) : t = Inner(p)[i]
      BY <1>0, <1>1, InnerIndex
<1>3. CASE \E k \in 1..Len(Inner(s)) : t = Inner(s)[k] /\ WaitsInner(s, k)'
  <2>1. PICK k \in 1..Len(Inner(s)) : t = Inner(s)[k] /\ WaitsInner(s, k)'
      BY <1>3
  <2>2. Inner(p)[i] = Inner(s)[k]
      BY <1>2, <2>1
  <2>3. s = p
      BY <1>0, <2>2 DEF Places, InnerPlace
  <2> QED BY <2>1, <2>3 DEF WaitsInner, SamePlan
<1>4. CASE \E h \in HookNames : t = HookOf(s, h)
  <2>1. PICK h \in HookNames : t = HookOf(s, h)
      BY <1>4
  <2>2. HookOf(s, h) # Inner(p)[i]
      BY <1>0 DEF Places, InnerPlace
  <2> QED BY <1>2, <2>1, <2>2
<1> QED BY <1>3, <1>4 DEF CallsNow, SamePlan, OutcomeHooks, HookNames

\* The semaphores hold.
LEMMA EngineKeepsLimits ==
  ASSUME TypeInv, CallInv, LimitInv, [EngineNext]_engineVars
  PROVE  LimitInv'
<1>0. pc \in [Names -> Positions] /\ StepsAreSteps /\ Places /\ JobIsJob
      BY PlanSteps, PlanPlaces DEF TypeInv, EngineTypeOK, PositionType, RunnerType
<1>1. SamePlan
      BY EngineKeepsPlan
<1>2. ASSUME NEW s \in Names, LocalMove(s) PROVE LimitInv'
      BY <1>1, <1>2, NoneLaunchedLimits DEF LocalMove, Others, NoneLaunched
<1>3. ASSUME NEW s \in Names, NEW t \in Names, ReturnMove(s, t) PROVE LimitInv'
      BY <1>1, <1>3, NoneLaunchedLimits DEF ReturnMove, Others, NoneLaunched
<1>4. ASSUME NEW s \in Names, StepMoves(s) PROVE LimitInv'
  <2>1. CASE \/ EnterLeaf(s) \/ LoadAgentFails(s) \/ ConfigFails(s) \/ ReturnLeaf(s) \/ EnterGroup(s) \/ CloseGroup(s)
             \/ Retry(s) \/ Dispatch(s) \/ CountFailure(s)
      BY <1>2, <2>1, LocalMoves
  <2>2. CASE AgentPersists(s) \/ Join(s)
      BY <1>0, <1>1, <2>2, NoneLaunchedLimits DEF AgentPersists, Join, NoneLaunched
  <2>3. CASE StartInner(s)
    <3>1. PICK t : t = Inner(s)[idx[s] + 1]
      OBVIOUS
    <3>2. t \in Names /\ CallMove(s, t) /\ CallsNow(s, t)' /\ SamePlan
      BY <2>3, <3>1, InnerIsCalled
    <3>3. StepOf(s).kind \notin Forks
      BY <2>3 DEF StartInner, Forks
    <3> QED BY <3>2, <3>3, OthersLaunchNothing, NoneLaunchedLimits
  <2>4. CASE Launch(s) /\ ~(idx[s] = Len(Inner(s)) \/ s \in shut \/ ctxDone)
      BY <2>4, LaunchLimits
  <2>5. CASE Launch(s) /\ (idx[s] = Len(Inner(s)) \/ s \in shut \/ ctxDone)
      BY <1>0, <1>1, <2>5, NoneLaunchedLimits DEF Launch, NoneLaunched
  <2>6. CASE DoTakes(s) \/ TryTakes(s)
      BY <1>3, <2>6, ResultsAreTaken
  <2>7. CASE TakeHook(s)
      BY <1>3, <2>7, ResultsAreTaken
  <2>8. CASE TakeEnsure(s)
      BY <1>3, <2>8, ResultsAreTaken
  <2>9. ASSUME NEW t \in Names, ForkCancels(s, t) \/ ForkReleases(s, t) PROVE LimitInv'
      BY <1>2, <1>3, <2>9, CancelMoves, ResultsAreTaken
  <2>10. CASE CallHook(s)
    <3>1. PICK h, t : h = hook[s] /\ t = HookOf(s, h)
      OBVIOUS
    <3>2. t \in Names /\ CallMove(s, t) /\ CallsNow(s, t)' /\ SamePlan
      BY <2>10, <3>1, HookIsCalled
    <3>3. pc'[s] = "hook"
      BY <1>0, <2>10, <3>1, <3>2 DEF CallHook, CallMove
    <3> QED BY <3>2, <3>3, OthersLaunchNothing, NoneLaunchedLimits
  <2>11. CASE Ensure(s) /\ HookOf(s, "ensure") # None
    <3>1. PICK h, t : h = "ensure" /\ t = HookOf(s, h)
      OBVIOUS
    <3>2. t \in Names /\ CallMove(s, t) /\ CallsNow(s, t)' /\ SamePlan
      BY <2>11, <3>1, HookIsCalled
    <3>3. pc'[s] = "ensuring"
      BY <1>0, <2>11, <3>1, <3>2 DEF Ensure, CallMove
    <3> QED BY <3>2, <3>3, OthersLaunchNothing, NoneLaunchedLimits
  <2>12. CASE Ensure(s)
      BY <1>2, <2>11, <2>12, QuietEnds
  <2>13. CASE Launch(s)
      BY <2>4, <2>5, <2>13
  <2> QED BY <1>4, <2>1, <2>2, <2>3, <2>6, <2>7, <2>8, <2>9, <2>10, <2>12, <2>13 DEF StepMoves
<1>5. CASE JobMoves \/ StopJob \/ UNCHANGED engineVars
  <2>1. NoneLaunched
    <3> SUFFICES ASSUME NEW p \in Names, NEW t \in Names, t \in ToSet(Inner(p)), pc'[t] # "idle" PROVE pc[t] # "idle"
      BY DEF NoneLaunched
    <3>1. PICK i \in 1..Len(Inner(p)) : t = Inner(p)[i]
      BY <1>0, InnerIndex
    <3>2. (\A k \in 1..Len(job.plan) : job.plan[k] # t) /\ \A h \in HookNames : JobHook(h) # t
      BY <1>0, <3>1 DEF Places, InnerPlace
    <3>3. CASE StartJob \/ FinishJob \/ StopJob \/ UNCHANGED engineVars
      BY <3>3 DEF StartJob, FinishJob, StopJob, engineVars, stepVars
    <3>4. CASE TakePlanStep \/ TakeJobHook \/ TakeJobEnsure
      BY <1>0, <3>4 DEF TakePlanStep, TakeJobHook, TakeJobEnsure
    <3>5. CASE RunPlanStep
      <4>1. jidx + 1 \in 1..Len(job.plan)
        BY <1>0, <3>5 DEF RunPlanStep, TypeInv, EngineTypeOK, RunnerType, JobIsJob
      <4> QED BY <1>0, <3>2, <3>5, <4>1 DEF RunPlanStep, StartStep
    <3>6. CASE RunJobHook
      <4>1. JobHookChosen \in {"none"} \cup HookNames
        BY DEF JobHookChosen, HookNames
      <4> QED BY <1>0, <3>2, <3>6, <4>1 DEF RunJobHook, StartStep
    <3>7. CASE RunJobEnsure
      BY <1>0, <3>2, <3>7 DEF RunJobEnsure, StartStep, HookNames
    <3> QED BY <1>5, <3>3, <3>4, <3>5, <3>6, <3>7 DEF JobMoves
  <2> QED BY <1>1, <2>1, NoneLaunchedLimits
<1> QED BY <1>4, <1>5 DEF EngineNext, EngineProgress

\* Active steps.
Runs(s) == pc[s] # "idle"

\* Above a step is the step, and what is above the one around it.
LEMMA AboveStep ==
  ASSUME NEW s \in Names, NEW u \in Above(s), u # s
  PROVE  \E p \in Parents(s) : u \in Above(p)
<1> DEFINE S == {s} \cup UNION {Above(p) : p \in Parents(s)}
<1>1. \A p \in Parents(s) : p \in Names /\ p \in Above(p) /\ Above(p) \subseteq Names
      BY AboveClosed DEF Parents
<1>2. S \in SUBSET Names /\ s \in S
      BY <1>1
<1>3. ASSUME NEW q \in S PROVE Parents(q) \subseteq S
  <2>1. CASE q = s
      BY <1>1, <2>1
  <2>2. ASSUME NEW p \in Parents(s), q \in Above(p) PROVE Parents(q) \subseteq S
    <3>1. Parents(q) \subseteq Above(p)
      BY <1>1, <2>2, AboveClosed
    <3> QED BY <3>1
  <2> QED BY <2>1, <2>2
<1> HIDE DEF S
<1>4. u \in S
      BY <1>2, <1>3 DEF Above
<1> QED BY <1>4 DEF S

\* Above is transitive.
LEMMA AboveTransitive ==
  ASSUME NEW s \in Names, NEW p \in Above(s)
  PROVE  Above(p) \subseteq Above(s)
<1>1. Above(s) \in SUBSET Names /\ \A q \in Above(s) : Parents(q) \subseteq Above(s)
      BY AboveClosed
<1> SUFFICES ASSUME NEW u \in Above(p) PROVE u \in Above(s)
      OBVIOUS
<1> QED BY <1>1 DEF Above

\* A nonempty set of steps has one that is not around by the others: a plan has no circle.
LEMMA Topmost ==
  ASSUME TypeInv, NEW S \in SUBSET Names, S # {}
  PROVE  \E s \in S : Parents(s) \cap S = {}
<1>1. NoCircle(job)
      BY PlansAssumption DEF TypeInv, EngineTypeOK, RunnerType
<1>2. PICK s \in S : \A p \in S : s \notin PartsOf(job, p)
      BY <1>1 DEF NoCircle, Names
<1> QED BY <1>2 DEF Parents

\* No step is above the one around it.
LEMMA NotAboveParent ==
  ASSUME TypeInv, NEW z \in Names, NEW g \in Parents(z)
  PROVE  z \notin Above(g)
<1> SUFFICES ASSUME z \in Above(g) PROVE FALSE
      OBVIOUS
<1> DEFINE S == {u \in Above(g) : z \in Above(u)}
<1>1. g \in Names /\ g \in Above(g) /\ Above(g) \subseteq Names
      BY AboveClosed DEF Parents
<1>2. S \in SUBSET Names /\ S # {}
      BY <1>1
<1>3. PICK u \in S : Parents(u) \cap S = {}
      BY <1>2, Topmost
<1>4. CASE u = z
      BY <1>1, <1>3, <1>4
<1>5. CASE u # z
  <2>1. PICK p \in Parents(u) : z \in Above(p)
      BY <1>2, <1>3, <1>5, AboveStep
  <2>2. p \in Above(g)
      BY <1>1, <1>3, AboveClosed
  <2> QED BY <1>3, <2>1, <2>2
<1> QED BY <1>4, <1>5

\* What is around a step is around it as an inner step or as a hook.
LEMMA ParentPlace ==
  ASSUME StepsAreSteps, JobIsJob, NEW t \in Names, NEW p \in Parents(t)
  PROVE  p \in Names /\ ((\E i \in 1..Len(Inner(p)) : t = Inner(p)[i]) \/ (\E h \in HookNames : t = HookOf(p, h)))
<1>1. p \in Names /\ (t \in InnerOf(job, p) \/ t \in HooksOf(job, p))
      BY DEF Parents, PartsOf
<1>2. CASE t \in InnerOf(job, p)
  <2>1. t \in ToSet(Inner(p))
      BY <1>2 DEF InnerOf, Inner, StepOf
  <2> QED BY <1>1, <2>1, InnerIndex
<1>3. CASE t \in HooksOf(job, p)
  <2>1. PICK h \in DOMAIN StepOf(p).hooks : t = HookOf(p, h)
      BY <1>3 DEF HooksOf, HookOf, StepOf
  <2>2. h \in HookNames
      BY <1>1, <2>1 DEF StepsAreSteps, JobIsJob
  <2> QED BY <1>1, <2>1, <2>2
<1> QED BY <1>1, <1>2, <1>3

\* What is around a step that runs waits for it.
LEMMA ParentWaits ==
  ASSUME TypeInv, CallInv, NEW t \in Names, Runs(t), NEW p \in Parents(t)
  PROVE  p \in Names /\ Runs(p) /\ pc[p] # "leaf"
<1>1. StepsAreSteps /\ JobIsJob
      BY PlanSteps DEF TypeInv, EngineTypeOK, RunnerType
<1>2. p \in Names /\ ((\E i \in 1..Len(Inner(p)) : t = Inner(p)[i]) \/ (\E h \in HookNames : t = HookOf(p, h)))
      BY <1>1, ParentPlace
<1>3. t # None
      BY <1>1 DEF JobIsJob
<1>4. ASSUME NEW i \in 1..Len(Inner(p)), t = Inner(p)[i] PROVE Runs(p) /\ pc[p] # "leaf"
      BY <1>2, <1>4 DEF CallInv, InnerCalls, WaitsInner, Runs
<1>5. ASSUME NEW h \in HookNames, t = HookOf(p, h) PROVE Runs(p) /\ pc[p] # "leaf"
      BY <1>2, <1>3, <1>5 DEF CallInv, HookCalls, EnsureCalls, Runs, OutcomeHooks
<1> QED BY <1>2, <1>4, <1>5

\* Two steps that run within the same one are the goroutines of a fork.
LEMMA TwoChildren ==
  ASSUME TypeInv, CallInv, NEW a \in Names, NEW b \in Names, a # b, Runs(a), Runs(b), NEW p \in Parents(a), p \in Parents(b)
  PROVE  p \in Names /\ StepOf(p).kind \in Forks /\ a \in Holders(p) /\ b \in Holders(p)
<1>1. StepsAreSteps /\ JobIsJob
      BY PlanSteps DEF TypeInv, EngineTypeOK, RunnerType
<1>2. /\ p \in Names /\ a # None /\ b # None
      /\ (\E i \in 1..Len(Inner(p)) : a = Inner(p)[i]) \/ (\E h \in HookNames : a = HookOf(p, h))
      /\ (\E i \in 1..Len(Inner(p)) : b = Inner(p)[i]) \/ (\E h \in HookNames : b = HookOf(p, h))
      BY <1>1, ParentPlace DEF JobIsJob
<1>3. ASSUME NEW h \in HookNames, NEW c \in Names, Runs(c), c = HookOf(p, h)
      PROVE  pc[p] = (IF h = "ensure" THEN "ensuring" ELSE "hook") /\ (h # "ensure" => hook[p] = h)
      BY <1>1, <1>2, <1>3 DEF CallInv, HookCalls, EnsureCalls, Runs, OutcomeHooks, JobIsJob
<1>4. ASSUME NEW i \in 1..Len(Inner(p)), NEW c \in Names, Runs(c), c = Inner(p)[i] PROVE WaitsInner(p, i)
      BY <1>2, <1>4 DEF CallInv, InnerCalls, Runs
<1>5. ASSUME NEW i \in 1..Len(Inner(p)), a = Inner(p)[i], NEW k \in 1..Len(Inner(p)), b = Inner(p)[k]
      PROVE  StepOf(p).kind \in Forks /\ a \in Holders(p) /\ b \in Holders(p)
  <2>1. WaitsInner(p, i) /\ WaitsInner(p, k)
      BY <1>4, <1>5
  <2>2. StepOf(p).kind \in Forks
      BY <1>5, <2>1 DEF WaitsInner
  <2>3. a \in ToSet(Inner(p)) /\ b \in ToSet(Inner(p))
      BY <1>1, <1>2, <1>5, InnerIndex
  <2> QED BY <2>2, <2>3 DEF Holders, Runs
<1>6. ASSUME NEW h \in HookNames, a = HookOf(p, h), NEW g \in HookNames, b = HookOf(p, g) PROVE FALSE
  <2>1. h = g
      BY <1>3, <1>6
  <2> QED BY <1>6, <2>1
<1>7. ASSUME NEW i \in 1..Len(Inner(p)), NEW c \in Names, Runs(c), c = Inner(p)[i],
             NEW h \in HookNames, NEW d \in Names, Runs(d), d = HookOf(p, h)
      PROVE  FALSE
  <2>1. WaitsInner(p, i) /\ pc[p] \in {"ensuring", "hook"}
      BY <1>3, <1>4, <1>7
  <2> QED BY <2>1 DEF WaitsInner
<1> QED BY <1>2, <1>5, <1>6, <1>7

\* Everything above a step that runs does, and calls what is below it.
LEMMA Via ==
  ASSUME TypeInv, CallInv, NEW y \in Names, Runs(y), NEW p \in Above(y)
  PROVE  Runs(p) /\ (p # y => \E z \in Above(y) : Runs(z) /\ p \in Parents(z))
<1> DEFINE C == {q \in Above(y) : Runs(q) /\ (q = y \/ \E z \in Above(y) : Runs(z) /\ q \in Parents(z))}
<1>1. y \in Above(y) /\ Above(y) \subseteq Names /\ \A q \in Above(y) : Parents(q) \subseteq Above(y)
      BY AboveClosed
<1>2. C \in SUBSET Names /\ y \in C
      BY <1>1
<1>3. ASSUME NEW q \in C PROVE Parents(q) \subseteq C
      BY <1>1, <1>2, ParentWaits
<1> HIDE DEF C
<1>4. p \in C
      BY <1>2, <1>3 DEF Above
<1> QED BY <1>4 DEF C

\* Above a step that runs is one that the job has called.
LEMMA RootAbove ==
  ASSUME TypeInv, CallInv, NEW y \in Names, Runs(y)
  PROVE  \E r \in Above(y) : JobCallsNow(r)
<1>1. y \in Above(y) /\ Above(y) \subseteq Names /\ \A q \in Above(y) : Parents(q) \subseteq Above(y)
      BY AboveClosed
<1>2. PICK r \in Above(y) : Parents(r) \cap Above(y) = {}
      BY <1>1, Topmost
<1>3. StepsAreSteps /\ JobIsJob
      BY PlanSteps DEF TypeInv, EngineTypeOK, RunnerType
<1>4. r \in Names /\ Runs(r) /\ r # None
      BY <1>1, <1>3, Via DEF JobIsJob
<1>5. Parents(r) = {}
      BY <1>1, <1>2
<1>6. HasPlace(r)
      BY <1>4 DEF CallInv, RunningHasPlace, Runs
<1>7. ~\E p \in Names : \E i \in 1..Len(Inner(p)) : r = Inner(p)[i]
      BY <1>3, <1>5, ParentOfInner
<1>8. ~\E p \in Names : \E h \in HookNames : r = HookOf(p, h)
      BY <1>3, <1>4, <1>5, ParentOfInner
<1>9. CASE \E i \in 1..Len(job.plan) : r = job.plan[i]
      BY <1>4, <1>9 DEF CallInv, PlanCalls, Runs, JobCallsNow
<1>10. CASE \E h \in HookNames : r = JobHook(h)
      BY <1>4, <1>10 DEF CallInv, JobHookCalls, Runs, JobCallsNow, OutcomeHooks
<1> QED BY <1>6, <1>7, <1>8, <1>9, <1>10 DEF HasPlace

\* The job calls one step at a time.
LEMMA OneRoot == ASSUME NEW r, NEW s, JobCallsNow(r), JobCallsNow(s) PROVE r = s
BY DEF JobCallsNow, OutcomeHooks, HookNames

\* Two steps that run, neither above the other, meet in a fork, as two of its goroutines.
LEMMA Meet ==
  ASSUME TypeInv, CallInv, NEW x \in Names, NEW y \in Names, Runs(x), Runs(y), x \notin Above(y), y \notin Above(x)
  PROVE  \E g \in Above(x) \cap Above(y) : \E q \in Above(x) \ Above(y) :
           StepOf(g).kind \in Forks /\ g \in Parents(q) /\ q \in Holders(g)
<1> DEFINE S == {q \in Above(x) : q \notin Above(y)}
<1>1. x \in Above(x) /\ Above(x) \subseteq Names /\ \A q \in Above(x) : Parents(q) \subseteq Above(x)
      BY AboveClosed
<1>2. y \in Above(y) /\ Above(y) \subseteq Names
      BY AboveClosed
<1>3. S \in SUBSET Names /\ S # {}
      BY <1>1
<1>4. PICK q \in S : Parents(q) \cap S = {}
      BY <1>3, Topmost
<1>5. q \in Names /\ Runs(q) /\ q \in Above(x) /\ q \notin Above(y)
      BY <1>1, <1>4, Via
<1>6. Parents(q) # {}
  <2> SUFFICES ASSUME Parents(q) = {} PROVE FALSE
      OBVIOUS
  <2>1. PICK r \in Above(y) : JobCallsNow(r)
      BY RootAbove
  <2>2. PICK s \in Above(q) : JobCallsNow(s)
      BY <1>5, RootAbove
  <2>3. s = q
      BY <1>5, <2>2, AboveStep
  <2> QED BY <1>5, <2>1, <2>2, <2>3, OneRoot
<1>7. PICK g \in Parents(q) : TRUE
      BY <1>6
<1>8. g \in Above(x) /\ g \in Above(y)
      BY <1>1, <1>4, <1>5
<1>9. g # y
      BY <1>8
<1>10. PICK z \in Above(y) : Runs(z) /\ g \in Parents(z)
      BY <1>8, <1>9, Via
<1>11. z \in Names /\ z # q
      BY <1>2, <1>5
<1>12. StepOf(g).kind \in Forks /\ q \in Holders(g)
      BY <1>5, <1>10, <1>11, TwoChildren
<1> QED BY <1>5, <1>8, <1>12

\* A leaf that runs has nothing below it that does.
LEMMA LeavesApart ==
  ASSUME TypeInv, CallInv, NEW x \in RunningLeaves, NEW y \in RunningLeaves, x # y
  PROVE  x \in Names /\ y \in Names /\ Runs(x) /\ Runs(y) /\ x \notin Above(y)
<1>1. x \in Names /\ y \in Names /\ pc[x] = "leaf" /\ pc[y] = "leaf" /\ Runs(x) /\ Runs(y)
      BY DEF RunningLeaves, Runs
<1>2. ASSUME x \in Above(y) PROVE FALSE
  <2>1. PICK z \in Above(y) : Runs(z) /\ x \in Parents(z)
      BY <1>1, <1>2, Via
  <2>2. z \in Names
      BY <1>1, <2>1, AboveClosed
  <2> QED BY <1>1, <2>1, <2>2, ParentWaits
<1> QED BY <1>1, <1>2

\* Without nested forks, at most one fork is above two steps that run.
LEMMA ForksAgree ==
  ASSUME TypeInv, CallInv, SingleForks, NEW x \in Names, Runs(x),
         NEW g \in Above(x), StepOf(g).kind \in Forks, NEW h \in Above(x), StepOf(h).kind \in Forks
  PROVE  g = h
<1>1. g \in Names /\ h \in Names /\ Runs(g) /\ Runs(h)
      BY AboveClosed, Via
<1>2. CASE g \in Above(h) \/ h \in Above(g)
      BY <1>1, <1>2 DEF SingleForks
<1>3. CASE g \notin Above(h) /\ h \notin Above(g)
  <2>1. PICK f \in Above(g) \cap Above(h) : StepOf(f).kind \in Forks
      BY <1>1, <1>3, Meet
  <2>2. f = g /\ f = h
      BY <1>1, <2>1 DEF SingleForks
  <2> QED BY <2>2
<1> QED BY <1>2, <1>3

\* Two leaves that run are below two goroutines of their fork, not below the same one.
LEMMA OwnGoroutine ==
  ASSUME TypeInv, CallInv, SingleForks, NEW x \in RunningLeaves, NEW y \in RunningLeaves, x # y,
         NEW g \in Above(x), StepOf(g).kind \in Forks, NEW z \in Above(x) \cap Above(y), g \in Parents(z)
  PROVE  FALSE
<1>1. x \in Names /\ y \in Names /\ Runs(x) /\ Runs(y) /\ x \notin Above(y) /\ y \notin Above(x)
      BY LeavesApart
<1>2. x \in Above(x) /\ Above(x) \subseteq Names /\ \A q \in Above(x) : Parents(q) \subseteq Above(x)
      BY <1>1, AboveClosed
<1>3. y \in Above(y) /\ Above(y) \subseteq Names
      BY <1>1, AboveClosed
<1> DEFINE S == {u \in Above(x) : z \in Above(u) /\ u \notin Above(y)}
<1>4. S \in SUBSET Names /\ S # {}
      BY <1>1, <1>2
<1>5. PICK u \in S : Parents(u) \cap S = {}
      BY <1>4, Topmost
<1>6. u \in Names /\ u \in Above(x) /\ u \notin Above(y) /\ z \in Above(u) /\ u # z /\ Runs(u)
      BY <1>1, <1>2, <1>5, Via
<1>7. PICK p \in Parents(u) : z \in Above(p)
      BY <1>6, AboveStep
<1>8. p \in Above(x) /\ p \in Above(y) /\ p \in Names
      BY <1>2, <1>5, <1>6, <1>7
<1>9. p # y
      BY <1>1, <1>8
<1>10. PICK w \in Above(y) : Runs(w) /\ p \in Parents(w)
      BY <1>1, <1>8, <1>9, Via
<1>11. w \in Names /\ w # u
      BY <1>3, <1>6
<1>12. StepOf(p).kind \in Forks
      BY <1>6, <1>7, <1>10, <1>11, TwoChildren
<1>13. p = g
      BY <1>1, <1>8, <1>12, ForksAgree
<1>14. z \in Names
      BY <1>3
<1> QED BY <1>7, <1>13, <1>14, NotAboveParent

\* The leaves that run are at most as many as the goroutines of one fork, or one.
LEMMA LeavesBounded ==
  ASSUME TypeInv, CallInv, LimitInv, SingleForks, job.maxInFlight > 0
  PROVE  Cardinality(RunningLeaves) <= job.maxInFlight
<1>0. StepsAreSteps /\ JobIsJob
      BY PlanSteps DEF TypeInv, EngineTypeOK, RunnerType
<1>1. PICK R : R = RunningLeaves
      OBVIOUS
<1>2. R \subseteq Names /\ IsFiniteSet(R) /\ job.maxInFlight \in Nat
      BY <1>0, <1>1, FS_Subset DEF RunningLeaves, JobIsJob
<1>3. CASE \A x \in R, y \in R : x = y
  <2>1. CASE R = {}
      BY <1>1, <1>2, <2>1, FS_EmptySet
  <2>2. CASE R # {}
    <3>1. PICK x \in R : R = {x}
      BY <1>3, <2>2
    <3>2. Cardinality({x}) = 1
      BY FS_Singleton
    <3> QED BY <1>1, <1>2, <3>1, <3>2
  <2> QED BY <2>1, <2>2
<1>4. ASSUME NEW x \in R, NEW y \in R, x # y PROVE Cardinality(R) <= job.maxInFlight
  <2>1. x \in Names /\ y \in Names /\ Runs(x) /\ Runs(y) /\ x \notin Above(y) /\ y \notin Above(x)
      BY <1>1, <1>4, LeavesApart
  <2>2. PICK g \in Above(x) \cap Above(y), q \in Above(x) : StepOf(g).kind \in Forks /\ g \in Parents(q) /\ q \in Holders(g)
      BY <2>1, Meet
  <2>3. g \in Names /\ q \in Names /\ Runs(q)
      BY <2>1, <2>2, AboveClosed, Via
  <2>4. ASSUME NEW u \in R PROVE g \in Above(u)
    <3>1. CASE u = x
      BY <2>2, <3>1
    <3>2. CASE u # x
      <4>1. u \in Names /\ Runs(u) /\ u \notin Above(x) /\ x \notin Above(u)
        BY <1>1, <3>2, LeavesApart
      <4>2. PICK f \in Above(x) \cap Above(u) : StepOf(f).kind \in Forks
        BY <2>1, <4>1, Meet
      <4>3. f = g
        BY <2>1, <2>2, <4>2, ForksAgree
      <4> QED BY <4>2, <4>3
    <3> QED BY <3>1, <3>2
  <2>5. ASSUME NEW u \in R PROVE \E z \in Holders(g) : z \in Above(u) /\ g \in Parents(z)
    <3>1. u \in Names /\ Runs(u) /\ g \in Above(u)
      BY <1>1, <2>4 DEF RunningLeaves, Runs
    <3>2. g # u
      <4>1. CASE u = x
        BY <2>1, <2>2, <4>1
      <4>2. CASE u # x
        <5>1. u \notin Above(x)
          BY <1>1, <4>2, LeavesApart
        <5> QED BY <2>2, <5>1
      <4> QED BY <4>1, <4>2
    <3>3. PICK z \in Above(u) : Runs(z) /\ g \in Parents(z)
      BY <3>1, <3>2, Via
    <3>4. z \in Names
      BY <3>1, <3>3, AboveClosed
    <3>5. z \in Holders(g)
      BY <2>2, <2>3, <3>3, <3>4, TwoChildren
    <3> QED BY <3>3, <3>5
  <2>6. PICK f : f = [u \in R |-> CHOOSE z \in Holders(g) : z \in Above(u) /\ g \in Parents(z)]
      OBVIOUS
  <2>7. ASSUME NEW u \in R PROVE f[u] \in Holders(g) /\ f[u] \in Above(u) /\ g \in Parents(f[u])
      BY <2>5, <2>6
  <2>8. f \in [R -> Holders(g)]
      BY <2>6, <2>7
  <2>9. ASSUME NEW u \in R, NEW v \in R, f[u] = f[v] PROVE u = v
    <3> SUFFICES ASSUME u # v PROVE FALSE
      OBVIOUS
    <3>1. f[u] \in Above(u) \cap Above(v) /\ g \in Parents(f[u]) /\ g \in Above(u)
      BY <2>4, <2>7, <2>9
    <3> QED BY <1>1, <2>2, <3>1, OwnGoroutine
  <2>10. f \in Injection(R, Holders(g))
      BY <2>8, <2>9 DEF Injection, IsInjective
  <2>11. IsFiniteSet(Holders(g)) /\ Cardinality(Holders(g)) \in Nat
      BY <2>3, HoldersFinite
  <2>12. Cardinality(R) <= Cardinality(Holders(g))
      BY <2>10, <2>11, FS_Injection
  <2>13. Cardinality(Holders(g)) <= Limit(g)
      BY <2>2, <2>3 DEF LimitInv
  <2>14. Limit(g) = job.maxInFlight
      BY <2>2, <2>3 DEF SingleForks, Limit, ResolveLimit
  <2>15. Cardinality(R) \in Nat
      BY <1>2, FS_CardinalityType
  <2> QED BY <1>2, <2>11, <2>12, <2>13, <2>14, <2>15
<1> QED BY <1>1, <1>3, <1>4

\* Whatever the plans, when no fork contains another one and none is an across, at most max_in_flight leaves run at
\* a time.
THEOREM MaxInFlightBounds == EngineSpec => []MaxInFlightHolds
<1>1. EngineInit /\ TypeInv => LimitInv
  <2> SUFFICES ASSUME EngineInit, TypeInv, NEW s \in Names PROVE Cardinality(Holders(s)) <= Limit(s)
      BY DEF LimitInv
  <2>1. StepsAreSteps /\ JobIsJob
      BY PlanSteps DEF TypeInv, EngineTypeOK, RunnerType
  <2>2. Holders(s) \subseteq Names
      BY HoldersFinite
  <2>3. Holders(s) = {}
      BY <2>2 DEF EngineInit, Holders
  <2>4. Limit(s) \in Nat
      BY <2>1 DEF Limit, ResolveLimit, ResolveAcrossLimit, StepsAreSteps, JobIsJob
  <2> QED BY <2>3, <2>4, FS_EmptySet
<1>2. TypeInv /\ CallInv /\ LimitInv /\ [EngineNext]_engineVars => LimitInv'
      BY EngineKeepsLimits
<1>3. TypeInv /\ CallInv /\ LimitInv => MaxInFlightHolds
  <2> SUFFICES ASSUME TypeInv, CallInv, LimitInv, job.maxInFlight > 0, SingleForks
               PROVE  ~(Cardinality(RunningLeaves) > job.maxInFlight)
      BY DEF MaxInFlightHolds
  <2>1. JobIsJob
      BY PlanSteps DEF TypeInv, EngineTypeOK, RunnerType
  <2>2. IsFiniteSet(RunningLeaves)
      BY <2>1, FS_Subset DEF RunningLeaves, JobIsJob
  <2>3. Cardinality(RunningLeaves) \in Nat /\ job.maxInFlight \in Nat
      BY <2>1, <2>2, FS_CardinalityType DEF JobIsJob
  <2> QED BY <2>3, LeavesBounded
<1> QED BY <1>1, <1>2, <1>3, CallsFormATree, PTL DEF EngineSpec

=============================================================================
