---------------------- MODULE ExecutionServiceSafety ----------------------
(***************************************************************************)
(* The safety theorems of ExecutionService: the in-flight counter, the cap *)
(* on concurrent executions, the rows that say running, the registry of    *)
(* cancel functions, which never names the wrong execution, and the stops, *)
(* which no late result overwrites.                                        *)
(***************************************************************************)
EXTENDS ExecutionServiceProofs

USE DEF RunIds, Requesters, Procs, Workers

-----------------------------------------------------------------------------
(* The in-flight counter and the cap. *)

Starting == {p \in Procs : pc[p] = "start"}

\* Requests are served only once the router is built.
BootComesFirst == \A c \in Callers : pc[c] # "idle" => Up

\* What a goroutine has decided to start counts against the cap already.
CapacityBudget ==
  inFlight + Cardinality(Starting) <= MaxInFlight + Cardinality(Callers)

CapacityInv == BootComesFirst /\ InFlightIsExact /\ CapacityBudget

\* A step that neither launches nor releases an execution, nor decides to.
Calm ==
  /\ inFlight' = inFlight
  /\ \A e \in Execs : (epc'[e] = "idle") <=> (epc[e] = "idle")
  /\ \A p \in Procs : pc'[p] = "start" => pc[p] = "start"

\* A step that leaves the order "boot, then requests" alone.
InOrder ==
  /\ \A c \in Callers : pc'[c] # "idle" => pc[c] # "idle" \/ Up
  /\ Up => Up'

\* The sets of goroutines the counter is compared with are finite.
LEMMA GoroutinesFinite ==
  /\ IsFiniteSet(Procs) /\ IsFiniteSet(Execs)
  /\ IsFiniteSet(Live) /\ IsFiniteSet(Starting)
  /\ Cardinality(Callers) \in Nat /\ Cardinality(Live) \in Nat
  /\ Cardinality(Starting) \in Nat
<1>1. IsFiniteSet(Callers \cup {Boot})
      BY GoroutinesAssumption, FS_AddElement
<1>2. IsFiniteSet(Procs)
      BY <1>1, FS_AddElement
<1>3. IsFiniteSet(Live) /\ IsFiniteSet(Starting)
      BY <1>2, GoroutinesAssumption, FS_Subset DEF Live, Starting
<1> QED BY <1>2, <1>3, GoroutinesAssumption, FS_CardinalityType

\* Boot and the callers never dispatch at the same time.
LEMMA FewStarters ==
  ASSUME BootComesFirst
  PROVE  Cardinality(Starting) <= Cardinality(Callers) + 1
<1>1. CASE Up
  <2>1. Starting \subseteq Callers \cup {Processor}
        BY <1>1 DEF Up, Starting
  <2>2. /\ IsFiniteSet(Callers \cup {Processor})
        /\ Cardinality(Callers \cup {Processor}) = Cardinality(Callers) + 1
        BY GoroutinesAssumption, FS_AddElement
  <2> QED BY <2>1, <2>2, FS_Subset
<1>2. CASE ~Up
  <2>1. Starting \subseteq {Boot, Processor}
        BY <1>2 DEF BootComesFirst, Starting
  <2>2. IsFiniteSet({Boot, Processor}) /\ Cardinality({Boot, Processor}) = 2
    <3>1. IsFiniteSet({Boot}) /\ Cardinality({Boot}) = 1
          BY FS_Singleton
    <3>2. {Boot, Processor} = {Boot} \cup {Processor}
          OBVIOUS
    <3>3. /\ IsFiniteSet({Boot} \cup {Processor})
          /\ Cardinality({Boot} \cup {Processor}) = 1 + 1
          BY <3>1, GoroutinesAssumption, FS_AddElement
    <3> QED BY <3>2, <3>3
  <2>3. Cardinality(Callers) >= 1
        BY GoroutinesAssumption, FS_EmptySet, FS_CardinalityType
  <2> QED BY <2>1, <2>2, <2>3, FS_Subset, GoroutinesFinite
<1> QED BY <1>1, <1>2

\* A step that leaves the boot goroutine alone keeps BootComesFirst.
LEMMA OrderKept ==
  ASSUME BootComesFirst, InOrder
  PROVE  BootComesFirst'
BY DEF BootComesFirst, InOrder

\* A step that starts and ends no execution keeps the capacity invariant.
LEMMA CalmKeepsCapacity ==
  ASSUME TypeInv, CapacityInv, Calm, InOrder
  PROVE  CapacityInv'
<1>1. Live' = Live /\ Starting' \subseteq Starting
      BY DEF Calm, Live, Starting
<1>2. InFlightIsExact'
      BY <1>1 DEF CapacityInv, InFlightIsExact, Calm
<1>3. Cardinality(Starting') <= Cardinality(Starting)
      BY <1>1, GoroutinesFinite, FS_Subset
<1>4. Cardinality(Starting') \in Nat
      BY <1>1, GoroutinesFinite, FS_Subset, FS_CardinalityType
<1>5. CapacityBudget'
      BY <1>3, <1>4, GoroutinesFinite, ConstantsAssumption
         DEF CapacityInv, CapacityBudget, Calm, TypeInv, TypeOK, ServiceType
<1> QED BY <1>2, <1>5, OrderKept DEF CapacityInv

\* Requests and admission neither launch nor release an execution.
LEMMA RequestsAreCalm ==
  ASSUME TypeInv, NEW c \in Callers, NEW pl, NEW r, NEW sync,
         \/ Admit(c, pl, sync) \/ Stop(c, r) \/ Resume(c, r)
  PROVE  Calm /\ InOrder
<1> USE DEF Calm, InOrder, Up, TypeInv, TypeOK, PcType, ExecType
<1>1. CASE Admit(c, pl, sync)
      BY <1>1, GoroutinesAssumption DEF Admit, At, execVars, Ready
<1>2. CASE Stop(c, r)
      BY <1>2, GoroutinesAssumption DEF Stop, At, execVars, Ready
<1>3. CASE Resume(c, r)
      BY <1>3, GoroutinesAssumption DEF Resume, At, execVars, Ready
<1> QED BY <1>1, <1>2, <1>3

\* What a caller does after admission, except to dispatch.
LEMMA CallersAreCalm ==
  ASSUME TypeInv, NEW c \in Callers,
         \/ ResolveConcurrency(c) \/ SaveRun(c) \/ Supersede(c)
         \/ Superseded(c) \/ SyncReject(c) \/ SyncBegin(c) \/ SyncPreseed(c)
         \/ SyncFinish(c) \/ SyncWrite(c) \/ SyncPrune(c) \/ SyncExit(c)
         \/ StopRun(c) \/ StopWrite(c)
  PROVE  Calm /\ InOrder
<1> USE DEF Calm, InOrder, Up, TypeInv, TypeOK, PcType, ExecType
<1>1. CASE ResolveConcurrency(c)
      BY <1>1, GoroutinesAssumption DEF ResolveConcurrency, At, execVars
<1>2. CASE SaveRun(c)
      BY <1>2, GoroutinesAssumption DEF SaveRun, At, Returned, HomePc,
         AdmittedPc, execVars
<1>3. CASE Supersede(c)
      BY <1>3, GoroutinesAssumption DEF Supersede, execVars
<1>4. CASE Superseded(c)
      BY <1>4, GoroutinesAssumption DEF Superseded, At, AdmittedPc, execVars
<1>5. CASE SyncReject(c)
      BY <1>5, GoroutinesAssumption DEF SyncReject, Returned, HomePc, execVars
<1>6. CASE SyncBegin(c)
      BY <1>6, GoroutinesAssumption DEF SyncBegin, At, execVars
<1>7. CASE SyncPreseed(c)
      BY <1>7, GoroutinesAssumption DEF SyncPreseed, At, Returned, HomePc,
         execVars
<1>8. CASE SyncFinish(c)
      BY <1>8, GoroutinesAssumption DEF SyncFinish, At, execVars
<1>9. CASE SyncWrite(c)
      BY <1>9, GoroutinesAssumption DEF SyncWrite, At, execVars
<1>10. CASE SyncPrune(c)
      BY <1>10, GoroutinesAssumption DEF SyncPrune, At, execVars
<1>11. CASE SyncExit(c)
      BY <1>11, GoroutinesAssumption DEF SyncExit, Returned, HomePc, execVars
<1>12. CASE StopRun(c)
      BY <1>12, GoroutinesAssumption DEF StopRun, At, execVars
<1>13. CASE StopWrite(c)
      BY <1>13, GoroutinesAssumption DEF StopWrite, Returned, HomePc, execVars
<1> QED BY <1>1, <1>2, <1>3, <1>4, <1>5, <1>6, <1>7, <1>8, <1>9, <1>10, <1>11, <1>12,
       <1>13

\* An execution between its launch and its release.
LEMMA ExecutionsAreCalm ==
  ASSUME TypeInv, NEW e \in Execs,
         \/ ExecRegister(e) \/ ExecBegin(e) \/ ExecFinish(e) \/ ExecWrite(e)
         \/ ExecPrune(e) \/ ExecUnregister(e)
  PROVE  Calm /\ InOrder
<1> USE DEF Calm, InOrder, Up, TypeInv, TypeOK, PcType, ExecType
<1>1. CASE ExecRegister(e)
      BY <1>1, GoroutinesAssumption DEF ExecRegister, goVars
<1>2. CASE ExecBegin(e)
      BY <1>2, GoroutinesAssumption DEF ExecBegin, goVars
<1>3. CASE ExecFinish(e)
      BY <1>3, GoroutinesAssumption DEF ExecFinish, goVars
<1>4. CASE ExecWrite(e)
      BY <1>4, GoroutinesAssumption DEF ExecWrite, goVars
<1>5. CASE ExecPrune(e)
      BY <1>5, GoroutinesAssumption DEF ExecPrune, goVars
<1>6. CASE ExecUnregister(e)
      BY <1>6, GoroutinesAssumption DEF ExecUnregister, goVars
<1> QED BY <1>1, <1>2, <1>3, <1>4, <1>5, <1>6

\* The queue processor outside its scan, recovery, deletion and shutdown.
LEMMA OthersAreCalm ==
  ASSUME TypeInv, NEW p \in Procs, NEW pl,
         \/ QueueCheck \/ QueueWait \/ QueueList \/ QueueGroups
         \/ QueueTickEnd \/ RecoverList \/ RecoverRun \/ RecoverEnd
         \/ ResumeReset(p) \/ DeletePipeline(pl) \/ Shutdown
  PROVE  Calm /\ InOrder
<1> USE DEF Calm, InOrder, Up, TypeInv, TypeOK, PcType, ExecType
<1>1. CASE QueueCheck
      BY <1>1, GoroutinesAssumption DEF QueueCheck, At, execVars
<1>2. CASE QueueWait
      BY <1>2, GoroutinesAssumption DEF QueueWait, At, execVars
<1>3. CASE QueueList
      BY <1>3, GoroutinesAssumption DEF QueueList, At, execVars
<1>4. CASE QueueGroups
      BY <1>4, GoroutinesAssumption DEF QueueGroups, At, execVars
<1>5. CASE QueueTickEnd
      BY <1>5, GoroutinesAssumption DEF QueueTickEnd, At, execVars
<1>6. CASE RecoverList
      BY <1>6, GoroutinesAssumption DEF RecoverList, At, execVars
<1>7. CASE RecoverRun
      BY <1>7, GoroutinesAssumption DEF RecoverRun, At, execVars
<1>8. CASE RecoverEnd
      BY <1>8, GoroutinesAssumption DEF RecoverEnd, At, Broadcast, execVars
<1>9. CASE ResumeReset(p)
      BY <1>9, GoroutinesAssumption DEF ResumeReset, At, Returned, HomePc,
         execVars
<1>10. CASE DeletePipeline(pl)
      BY <1>10, GoroutinesAssumption DEF DeletePipeline, execVars, goVars
<1>11. CASE Shutdown
      BY <1>11, GoroutinesAssumption DEF Shutdown, Broadcast, execVars
<1> QED BY <1>1, <1>2, <1>3, <1>4, <1>5, <1>6, <1>7, <1>8, <1>9, <1>10, <1>11

\* A goroutine that saw a free slot and decides to launch an execution.
LEMMA DecisionKeepsBudget ==
  ASSUME TypeInv, CapacityInv, CanExecute, BootComesFirst',
         inFlight' = inFlight, UNCHANGED epc
  PROVE  CapacityInv'
<1>1. InFlightIsExact'
      BY DEF CapacityInv, InFlightIsExact, Live
<1>2. (Cardinality(Starting) <= Cardinality(Callers) + 1)'
      BY FewStarters, PTL
<1>3. (Cardinality(Starting) \in Nat)'
      BY GoroutinesFinite, PTL
<1>4. CapacityBudget'
      BY <1>2, <1>3, GoroutinesFinite, ConstantsAssumption
         DEF CanExecute, CapacityBudget, TypeInv, TypeOK, ServiceType
<1> QED BY <1>1, <1>4 DEF CapacityInv

\* A goroutine that CanExecute lets pass joins Starting within the budget.
LEMMA DispatchOrQueueCapacity ==
  ASSUME TypeInv, CapacityInv, NEW p \in Procs, DispatchOrQueue(p)
  PROVE  CapacityInv'
<1>1. InOrder
      BY GoroutinesAssumption
         DEF DispatchOrQueue, InOrder, Up, At, Returned, HomePc, Broadcast, TypeInv,
             TypeOK, PcType
<1>2. CASE CanExecute /\ ~QueueOnly(p)
      BY <1>1, <1>2, OrderKept, DecisionKeepsBudget
         DEF CapacityInv, DispatchOrQueue, execVars
<1>3. CASE ~(CanExecute /\ ~QueueOnly(p))
  <2>1. Calm
        BY <1>3, GoroutinesAssumption
           DEF Calm, DispatchOrQueue, Returned, HomePc, Broadcast, execVars, TypeInv,
               TypeOK, PcType
  <2> QED BY <1>1, <2>1, CalmKeepsCapacity
<1> QED BY <1>2, <1>3

\* The queue processor that picks a run joins Starting within the budget.
LEMMA QueueScanCapacity ==
  ASSUME TypeInv, CapacityInv, QueueScan
  PROVE  CapacityInv'
<1>1. InOrder
      BY GoroutinesAssumption DEF QueueScan, InOrder, Up, At, TypeInv, TypeOK, PcType
<1> QED BY <1>1, OrderKept, DecisionKeepsBudget DEF CapacityInv, QueueScan, execVars

\* Dispatching turns one starting goroutine into one live execution.
LEMMA DispatchRunCapacity ==
  ASSUME TypeInv, CapacityInv, NEW p \in Procs, DispatchRun(p)
  PROVE  CapacityInv'
<1> USE DEF TypeInv, TypeOK
<1>1. PICK e \in Execs : epc[e] = "idle" /\ epc' = [epc EXCEPT ![e] = "register"]
      BY DEF DispatchRun
<1>2. Live' = Live \cup {e} /\ e \notin Live
      BY <1>1 DEF Live, ExecType
<1>3. InFlightIsExact'
      BY <1>2, GoroutinesFinite, FS_AddElement
         DEF CapacityInv, InFlightIsExact, DispatchRun
<1>4. Starting' = Starting \ {p} /\ p \in Starting
      BY DEF DispatchRun, Starting, Returned, HomePc, PcType
<1>5. Cardinality(Starting') = Cardinality(Starting) - 1
      BY <1>4, GoroutinesFinite, FS_RemoveElement
<1>6. CapacityBudget'
      BY <1>5, GoroutinesFinite, ConstantsAssumption
         DEF DispatchRun, CapacityInv, CapacityBudget, ServiceType
<1>7. InOrder
      BY GoroutinesAssumption DEF DispatchRun, InOrder, Up, Returned, HomePc, PcType
<1> QED BY <1>3, <1>6, <1>7, OrderKept DEF CapacityInv

\* The release ends one execution and lowers the counter by one.
LEMMA ExecReleaseCapacity ==
  ASSUME TypeInv, CapacityInv, NEW e \in Execs, ExecRelease(e)
  PROVE  CapacityInv'
<1> USE DEF TypeInv, TypeOK
<1>1. Live' = Live \ {e} /\ e \in Live
      BY DEF ExecRelease, Live, ExecType
<1>2. InFlightIsExact'
      BY <1>1, GoroutinesFinite, FS_RemoveElement
         DEF CapacityInv, InFlightIsExact, ExecRelease
<1>3. Starting' = Starting
      BY DEF ExecRelease, Starting, Broadcast, PcType
<1>4. CapacityBudget'
      BY <1>3, GoroutinesFinite, ConstantsAssumption
         DEF ExecRelease, CapacityInv, CapacityBudget, ServiceType
<1>5. InOrder
      BY GoroutinesAssumption DEF ExecRelease, InOrder, Up, Broadcast, PcType
<1> QED BY <1>2, <1>4, <1>5, OrderKept DEF CapacityInv

\* Nothing is in flight in a process that boots.
LEMMA BootingCapacity ==
  ASSUME pc = BootPc, inFlight = 0, epc = [e \in Execs |-> "idle"]
  PROVE  CapacityInv
<1>1. Live = {} /\ Starting = {}
      BY DEF Live, Starting, BootPc, ProcessorPc
<1>2. InFlightIsExact /\ CapacityBudget
      BY <1>1, FS_EmptySet, GoroutinesFinite, ConstantsAssumption
         DEF InFlightIsExact, CapacityBudget
<1>3. BootComesFirst
      BY DEF BootComesFirst, BootPc
<1> QED BY <1>2, <1>3 DEF CapacityInv

\* A restart has no execution and a counter of zero.
LEMMA RestartCapacity ==
  ASSUME Restart
  PROVE  CapacityInv'
<1>1. (pc = BootPc /\ inFlight = 0 /\ epc = [e \in Execs |-> "idle"])'
      BY DEF Restart, BootPc, ProcessorPc
<1> QED BY <1>1, BootingCapacity, PTL

\* Every step keeps the capacity invariant: one case per action.
LEMMA NextCapacity ==
  ASSUME TypeInv, CapacityInv, [Next]_vars
  PROVE  CapacityInv'
<1>1. ASSUME NEW c \in Callers, Request(c) PROVE CapacityInv'
      BY <1>1, RequestsAreCalm, CalmKeepsCapacity DEF Request, Trigger, RunByNameSync
<1>2. ASSUME NEW p \in Procs, RequestStep(p) PROVE CapacityInv'
      BY <1>2, DispatchOrQueueCapacity, DispatchRunCapacity, OthersAreCalm,
         CalmKeepsCapacity DEF RequestStep
<1>3. ASSUME NEW c \in Callers, CallerStep(c) PROVE CapacityInv'
      BY <1>2, <1>3, CallersAreCalm, CalmKeepsCapacity DEF CallerStep
<1>4. ASSUME NEW e \in Execs, ExecStep(e) PROVE CapacityInv'
      BY <1>4, ExecutionsAreCalm, ExecReleaseCapacity, CalmKeepsCapacity DEF ExecStep
<1>5. CASE ProcessorStep
      BY <1>5, OthersAreCalm, QueueScanCapacity, DispatchRunCapacity,
         CalmKeepsCapacity DEF ProcessorStep
<1>6. CASE BootStep
      BY <1>2, <1>6, OthersAreCalm, CalmKeepsCapacity DEF BootStep
<1>7. ASSUME NEW pl \in Pipelines, DeletePipeline(pl) PROVE CapacityInv'
      BY <1>7, OthersAreCalm, CalmKeepsCapacity
<1>8. CASE Crash \/ Sigterm \/ ShutdownReturns
      BY <1>8, RestartCapacity DEF Crash, Sigterm, ShutdownReturns
<1>9. CASE Shutdown
      BY <1>9, OthersAreCalm, CalmKeepsCapacity
<1>10. CASE UNCHANGED vars
  <2>1. Calm /\ InOrder
        BY <1>10 DEF vars, Calm, InOrder, Up
  <2> QED BY <2>1, CalmKeepsCapacity
<1> QED BY <1>1, <1>3, <1>4, <1>5, <1>6, <1>7, <1>8, <1>9, <1>10 DEF Next

\* The counter counts the executions and, with the goroutines that have passed
\* CanExecute and not yet dispatched, stays within the cap plus one per request.
THEOREM CapacityInvariance == Spec => []CapacityInv
<1>1. Init => CapacityInv
      BY BootingCapacity DEF Init
<1>2. TypeInv /\ CapacityInv /\ [Next]_vars => CapacityInv'
      BY NextCapacity
<1> QED BY <1>1, <1>2, TypeInvariance, PTL DEF Spec

\* The atomic counter CanExecute reads is, in every reachable state, the number
\* of execution goroutines launched and not yet released: no stop, resume,
\* deletion or failure leaks a slot or frees one twice.
THEOREM CounterExact == Spec => []InFlightIsExact
<1>1. CapacityInv => InFlightIsExact
      BY DEF CapacityInv
<1> QED BY <1>1, CapacityInvariance, PTL

\* Whatever --max-in-flight, the number of pipelines and of requests, the
\* unlocked check of the counter lets the cap be exceeded by at most one
\* execution for every request goroutine.
THEOREM OvershootIsBounded == Spec => []OvershootBounded
<1>1. CapacityInv => OvershootBounded
      BY GoroutinesFinite, ConstantsAssumption
         DEF CapacityInv, CapacityBudget, InFlightIsExact, OvershootBounded
<1> QED BY <1>1, CapacityInvariance, PTL

-----------------------------------------------------------------------------
(* Rows that say running. *)

AtWork == {"exec", "write"}

Executed(r) == \E e \in Execs : erun[e] = r /\ epc[e] \in AtWork

\* The boot sweep has the run on its list, or is about to reset it.
ToRecover(r) ==
  pc[Boot] # "done" /\ (<<r, "running">> \in todo[Boot] \/ (pc[Boot] = "reset" /\ run[Boot] = r))

\* Once the sweep has read its list, whoever is running is executed or swept.
RunningIsFollowed ==
  pc[Boot] # "boot" =>
    \A r \in RunsIn("running") \ cli : Executed(r) \/ ToRecover(r)

\* The caller's admitted run is a synchronous one.
BeginsSync(c) == pc[c] = "sync_begin" \/ (pc[c] = "supersede" /\ adm[c].sync)
SyncRunsAreCli == \A c \in Callers : BeginsSync(c) => run[c] \in cli

FollowInv == RunningIsFollowed /\ SyncRunsAreCli

\* A step that makes no row running, ends no execution and leaves the sweep alone.
FollowFrame ==
  /\ \A r \in RunIds : status'[r] = "running" => status[r] = "running"
  /\ cli \subseteq cli'
  /\ \A e \in Execs : epc[e] \in AtWork => epc'[e] \in AtWork /\ erun'[e] = erun[e]
  /\ pc'[Boot] = pc[Boot] /\ todo'[Boot] = todo[Boot] /\ run'[Boot] = run[Boot]

\* A step in which no caller gets to the start of a synchronous run.
NoNewSync ==
  /\ cli \subseteq cli'
  /\ \A c \in Callers : BeginsSync(c)' => BeginsSync(c) /\ run'[c] = run[c]

\* Whoever was followed is followed after such a step.
LEMMA FrameKeepsFollowed ==
  ASSUME RunningIsFollowed, FollowFrame
  PROVE  RunningIsFollowed'
BY DEF RunningIsFollowed, FollowFrame, RunsIn, Executed, ToRecover

\* A synchronous run stays one.
LEMMA FrameKeepsSync ==
  ASSUME SyncRunsAreCli, NoNewSync
  PROVE  SyncRunsAreCli'
BY DEF SyncRunsAreCli, NoNewSync

\* UpdateRunStatus makes no other row running than the one it is asked to.
LEMMA WriteEnds ==
  ASSUME TypeInv, NEW r, NEW new, status' = Written(r, new)
  PROVE  /\ \A q \in RunIds : status'[q] = "running" => status[q] = "running" \/ (q = r /\ new = "running")
         /\ new # "running" /\ r \in RunIds /\ (status[r] = "running" \/ new \in {"failed", "queued"}) =>
              status'[r] # "running"
BY DEF Written, TransitionAllowed, Active, TypeInv, TypeOK, DatabaseType

\* Pruning makes no row running.
LEMMA PruneEnds ==
  ASSUME NEW pl, status' \in Pruned(pl)
  PROVE  \A q \in RunIds : status'[q] = "running" => status[q] = "running"
BY DEF Pruned

\* The requests that neither save a run nor begin a synchronous one follow.
LEMMA RequestsFollow ==
  ASSUME TypeInv, NEW c \in Callers, NEW pl, NEW r, NEW sync,
         \/ Admit(c, pl, sync) \/ Stop(c, r) \/ Resume(c, r) \/ ResolveConcurrency(c)
         \/ SyncFinish(c) \/ StopRun(c)
  PROVE  FollowFrame /\ NoNewSync
<1> USE GoroutinesAssumption DEF TypeInv, TypeOK, PcType, LocalType, ExecType, FollowFrame, NoNewSync, BeginsSync,
           At, dbVars, execVars
<1>1. CASE Admit(c, pl, sync)
      BY <1>1 DEF Admit, Ready
<1>2. CASE Stop(c, r)
      BY <1>2 DEF Stop, Ready
<1>3. CASE Resume(c, r)
      BY <1>3 DEF Resume, Ready
<1>4. CASE ResolveConcurrency(c)
      BY <1>4 DEF ResolveConcurrency
<1>5. CASE SyncFinish(c)
      BY <1>5 DEF SyncFinish
<1>6. CASE StopRun(c)
      BY <1>6 DEF StopRun
<1> QED BY <1>1, <1>2, <1>3, <1>4, <1>5, <1>6

\* The writes of a request end runs and begin none.
LEMMA CallersFollow ==
  ASSUME TypeInv, NEW c \in Callers,
         \/ Supersede(c) \/ SyncReject(c) \/ SyncPreseed(c) \/ SyncWrite(c) \/ SyncPrune(c) \/ SyncExit(c)
         \/ StopWrite(c) \/ DispatchOrQueue(c) \/ ResumeReset(c)
  PROVE  FollowFrame /\ NoNewSync
<1> USE GoroutinesAssumption DEF TypeInv, TypeOK, PcType, LocalType, ExecType, FollowFrame, NoNewSync, BeginsSync,
           At, Returned, HomePc, Forget, dbVars, execVars
<1>1. CASE Supersede(c)
  <2>1. \A q \in RunIds : status'[q] = "running" => status[q] = "running"
        BY <1>1, WriteEnds DEF Supersede
  <2> QED BY <1>1, <2>1 DEF Supersede
<1>2. CASE SyncReject(c)
  <2>1. \A q \in RunIds : status'[q] = "running" => status[q] = "running"
        BY <1>2, WriteEnds DEF SyncReject
  <2> QED BY <1>2, <2>1 DEF SyncReject
<1>3. CASE SyncPreseed(c)
      BY <1>3 DEF SyncPreseed
<1>4. CASE SyncWrite(c)
  <2>1. \A q \in RunIds : status'[q] = "running" => status[q] = "running"
        BY <1>4, WriteEnds DEF SyncWrite
  <2> QED BY <1>4, <2>1 DEF SyncWrite
<1>5. CASE SyncPrune(c)
  <2>1. \A q \in RunIds : status'[q] = "running" => status[q] = "running"
        BY <1>5, PruneEnds DEF SyncPrune
  <2> QED BY <1>5, <2>1 DEF SyncPrune
<1>6. CASE SyncExit(c)
      BY <1>6 DEF SyncExit
<1>7. CASE StopWrite(c)
  <2>1. \A q \in RunIds : status'[q] = "running" => status[q] = "running"
        BY <1>7, WriteEnds DEF StopWrite
  <2> QED BY <1>7, <2>1 DEF StopWrite
<1>8. CASE DispatchOrQueue(c)
      BY <1>8 DEF DispatchOrQueue, Broadcast
<1>9. CASE ResumeReset(c)
  <2>1. \A q \in RunIds : status'[q] = "running" => status[q] = "running"
        BY <1>9, WriteEnds DEF ResumeReset
  <2> QED BY <1>9, <2>1 DEF ResumeReset
<1> QED BY <1>1, <1>2, <1>3, <1>4, <1>5, <1>6, <1>7, <1>8, <1>9

\* So do the queue processor and the deletion of a pipeline, and a dispatch by a request or the processor.
LEMMA OthersFollow ==
  ASSUME TypeInv, NEW p \in Callers \cup {Processor}, NEW pl,
         \/ DispatchRun(p) \/ QueueCheck \/ QueueWait \/ QueueList \/ QueueGroups \/ QueueScan \/ QueueTickEnd
         \/ DeletePipeline(pl) \/ Shutdown
  PROVE  FollowFrame /\ NoNewSync
<1> USE GoroutinesAssumption DEF TypeInv, TypeOK, PcType, LocalType, ExecType, FollowFrame, NoNewSync, BeginsSync,
           AtWork, At, Returned, HomePc, Forget, dbVars, execVars, goVars
<1>1. CASE DispatchRun(p)
      BY <1>1 DEF DispatchRun
<1>2. CASE QueueCheck
      BY <1>2 DEF QueueCheck
<1>3. CASE QueueWait
      BY <1>3 DEF QueueWait
<1>4. CASE QueueList
      BY <1>4 DEF QueueList
<1>5. CASE QueueGroups
      BY <1>5 DEF QueueGroups
<1>6. CASE QueueScan
  <2>1. \A q \in RunIds : status'[q] = "running" => status[q] = "running"
        BY <1>6, WriteEnds DEF QueueScan
  <2> QED BY <1>6, <2>1 DEF QueueScan
<1>7. CASE QueueTickEnd
      BY <1>7 DEF QueueTickEnd
<1>8. CASE DeletePipeline(pl)
      BY <1>8 DEF DeletePipeline
<1>9. CASE Shutdown
      BY <1>9 DEF Shutdown, Broadcast
<1> QED BY <1>1, <1>2, <1>3, <1>4, <1>5, <1>6, <1>7, <1>8, <1>9

\* The steps of an execution before it begins and after its final write follow.
LEMMA ExecutionsFollow ==
  ASSUME TypeInv, NEW e \in Execs,
         \/ ExecRegister(e) \/ ExecFinish(e) \/ ExecPrune(e) \/ ExecUnregister(e) \/ ExecRelease(e)
  PROVE  FollowFrame /\ NoNewSync
<1> USE GoroutinesAssumption DEF TypeInv, TypeOK, PcType, LocalType, ExecType, FollowFrame, NoNewSync, BeginsSync,
           AtWork, dbVars, goVars
<1>1. CASE ExecRegister(e)
      BY <1>1 DEF ExecRegister
<1>2. CASE ExecFinish(e)
      BY <1>2 DEF ExecFinish
<1>3. CASE ExecPrune(e)
  <2>1. \A q \in RunIds : status'[q] = "running" => status[q] = "running"
        BY <1>3, PruneEnds DEF ExecPrune
  <2> QED BY <1>3, <2>1 DEF ExecPrune
<1>4. CASE ExecUnregister(e)
      BY <1>4 DEF ExecUnregister
<1>5. CASE ExecRelease(e)
      BY <1>5 DEF ExecRelease, Broadcast
<1> QED BY <1>1, <1>2, <1>3, <1>4, <1>5

\* A run that is saved is queued or over; a synchronous one is marked as such at once.
LEMMA SaveRunFollows ==
  ASSUME TypeInv, FollowInv, NEW c \in Callers, SaveRun(c)
  PROVE  FollowInv'
<1> USE GoroutinesAssumption DEF TypeInv, TypeOK, PcType, LocalType, ExecType
<1>1. CASE adm[c].pipeline \notin pipelines
  <2>1. FollowFrame /\ NoNewSync
        BY <1>1 DEF SaveRun, FollowFrame, NoNewSync, BeginsSync, Returned, HomePc, Forget, dbVars, execVars
  <2> QED BY <2>1, FrameKeepsFollowed, FrameKeepsSync DEF FollowInv
<1>2. CASE adm[c].pipeline \in pipelines
  <2>1. /\ status' = [status EXCEPT ![runCount + 1] = SavedStatus(adm[c].act)]
        /\ cli' = IF adm[c].sync THEN cli \cup {runCount + 1} ELSE cli
        /\ UNCHANGED <<todo, epc, erun>> /\ pc'[Boot] = pc[Boot] /\ run'[Boot] = run[Boot]
        BY <1>2 DEF SaveRun, At, Returned, HomePc, Forget, execVars
  <2>2. FollowFrame
        BY <2>1 DEF FollowFrame, SavedStatus, DatabaseType
  <2>3. \A d \in Callers \ {c} : pc'[d] = pc[d] /\ run'[d] = run[d] /\ adm'[d] = adm[d]
        BY <1>2 DEF SaveRun, At, Returned, HomePc, Forget
  <2>4. BeginsSync(c)' => run'[c] \in cli'
        BY <1>2 DEF SaveRun, BeginsSync, At, Returned, HomePc, Forget, AdmittedPc
  <2>5. SyncRunsAreCli'
        BY <2>1, <2>3, <2>4 DEF FollowInv, SyncRunsAreCli, BeginsSync
  <2> QED BY <2>2, <2>5, FrameKeepsFollowed DEF FollowInv
<1> QED BY <1>1, <1>2

\* A synchronous run is begun as one, and its row is nobody's to follow.
LEMMA SyncFollows ==
  ASSUME TypeInv, FollowInv, NEW c \in Callers, Superseded(c) \/ SyncBegin(c)
  PROVE  FollowInv'
<1> USE GoroutinesAssumption DEF TypeInv, TypeOK, PcType, LocalType, ExecType
<1>1. CASE Superseded(c)
  <2>1. FollowFrame
        BY <1>1 DEF Superseded, FollowFrame, At, dbVars, execVars
  <2>2. SyncRunsAreCli'
        BY <1>1 DEF Superseded, FollowInv, SyncRunsAreCli, BeginsSync, At, AdmittedPc, dbVars
  <2> QED BY <2>1, <2>2, FrameKeepsFollowed DEF FollowInv
<1>2. CASE SyncBegin(c)
  <2>1. run[c] \in cli /\ UNCHANGED <<cli, epc, erun, todo, run, adm>> /\ pc' = At(c, "preseed")
        BY <1>2 DEF SyncBegin, FollowInv, SyncRunsAreCli, BeginsSync, execVars
  <2>2. \A q \in RunIds \ cli : status'[q] = "running" => status[q] = "running"
        BY <1>2, <2>1, WriteEnds DEF SyncBegin
  <2>3. RunningIsFollowed'
        BY <2>1, <2>2 DEF FollowInv, RunningIsFollowed, RunsIn, Executed, ToRecover, At
  <2>4. SyncRunsAreCli'
        BY <2>1 DEF FollowInv, SyncRunsAreCli, BeginsSync, At
  <2> QED BY <2>3, <2>4 DEF FollowInv
<1> QED BY <1>1, <1>2

\* The row an execution begins says running while it executes; its final write takes the row out of running, also
\* when another execution of the same run goes on.
LEMMA ExecFollows ==
  ASSUME TypeInv, FollowInv, NEW e \in Execs, ExecBegin(e) \/ ExecWrite(e)
  PROVE  FollowInv'
<1> USE GoroutinesAssumption DEF TypeInv, TypeOK, ExecType
<1>1. UNCHANGED <<cli, erun, pc, run, todo, adm>>
      BY DEF ExecBegin, ExecWrite, goVars
<1>2. SyncRunsAreCli'
      BY <1>1 DEF FollowInv, SyncRunsAreCli, BeginsSync
<1>3. CASE ExecBegin(e)
  <2>1. \A q \in RunIds : status'[q] = "running" => status[q] = "running" \/ q = erun[e]
        BY <1>3, WriteEnds DEF ExecBegin
  <2>2. status[erun[e]] # "absent" => epc'[e] = "exec"
        BY <1>3 DEF ExecBegin
  <2>3. erun[e] \in RunIds /\ status[erun[e]] = "absent" => status'[erun[e]] = "absent"
        BY <1>3 DEF ExecBegin, Written, TransitionAllowed, DatabaseType
  <2>4. \A f \in Execs : epc[f] \in AtWork => epc'[f] \in AtWork
        BY <1>3 DEF ExecBegin, AtWork
  <2>5. \A q \in RunIds : status'[q] = "running" => status[q] = "running" \/ Executed(q)'
        BY <1>1, <2>1, <2>2, <2>3 DEF Executed, AtWork
  <2>6. \A q \in RunIds : Executed(q) => Executed(q)'
        BY <1>1, <2>4 DEF Executed
  <2>7. RunningIsFollowed'
        BY <1>1, <2>5, <2>6 DEF FollowInv, RunningIsFollowed, RunsIn, ToRecover
  <2> QED BY <1>2, <2>7 DEF FollowInv
<1>4. CASE ExecWrite(e)
  <2>1. FinalStatus(eout[e]) \notin {"running", "queued"}
        BY DEF FinalStatus, Outcomes
  <2>2. \A q \in RunIds : status'[q] = "running" => status[q] = "running" /\ q # erun[e]
        BY <1>4, <2>1, WriteEnds DEF ExecWrite
  <2>3. \A f \in Execs \ {e} : epc'[f] = epc[f]
        BY <1>4 DEF ExecWrite
  <2>4. \A q \in RunIds : status'[q] = "running" /\ Executed(q) => Executed(q)'
        BY <1>1, <2>2, <2>3 DEF Executed
  <2>5. RunningIsFollowed'
        BY <1>1, <2>2, <2>4 DEF FollowInv, RunningIsFollowed, RunsIn, ToRecover
  <2> QED BY <1>2, <2>5 DEF FollowInv
<1> QED BY <1>3, <1>4

\* The sweep lists every row that says running, and takes each out of running before it forgets it.
LEMMA SweepFollows ==
  ASSUME TypeInv, FollowInv,
         RecoverList \/ RecoverRun \/ RecoverEnd \/ DispatchOrQueue(Boot) \/ DispatchRun(Boot) \/ ResumeReset(Boot)
  PROVE  FollowInv'
<1> USE GoroutinesAssumption DEF TypeInv, TypeOK, PcType, LocalType, ExecType
<1>1. NoNewSync
      BY DEF NoNewSync, BeginsSync, RecoverList, RecoverRun, RecoverEnd, DispatchOrQueue, DispatchRun, ResumeReset,
         At, Returned, HomePc, Forget, Broadcast, dbVars
<1>2. SyncRunsAreCli'
      BY <1>1, FrameKeepsSync DEF FollowInv
<1>3. CASE RecoverList
  <2>1. RunningIsFollowed'
        BY <1>3 DEF RecoverList, RunningIsFollowed, RunsIn, ToRecover, At, dbVars
  <2> QED BY <1>2, <2>1 DEF FollowInv
<1>4. CASE RecoverRun
  <2>1. PICK r \in NewestFirst({x[1] : x \in todo[Boot]}) :
          /\ todo' = [todo EXCEPT ![Boot] = @ \ {<<r, "running">>}]
          /\ \/ pc' = At(Boot, "reset") /\ run' = [run EXCEPT ![Boot] = r] /\ UNCHANGED status
             \/ status' = Written(r, "failed") /\ UNCHANGED <<pc, run>>
        BY <1>4 DEF RecoverRun
  <2>2. r \in RunIds /\ pc[Boot] = "recover" /\ UNCHANGED <<cli, epc, erun>>
        BY <1>4, <2>1 DEF RecoverRun, NewestFirst, execVars
  <2>3. \A q \in RunIds : status'[q] = "running" => status[q] = "running"
        BY <2>1, WriteEnds
  <2>4. status'[r] = "running" => pc'[Boot] = "reset" /\ run'[Boot] = r
        BY <2>1, <2>2, WriteEnds DEF At
  <2>5. \A q \in RunIds \ {r} : <<q, "running">> \in todo[Boot] => <<q, "running">> \in todo'[Boot]
        BY <2>1
  <2>6. pc'[Boot] \in {"recover", "reset"}
        BY <2>1, <2>2 DEF At
  <2>7. RunningIsFollowed'
        BY <2>2, <2>3, <2>4, <2>5, <2>6 DEF FollowInv, RunningIsFollowed, RunsIn, Executed, ToRecover
  <2> QED BY <1>2, <2>7 DEF FollowInv
<1>5. CASE RecoverEnd
  <2>1. RunningIsFollowed'
        BY <1>5 DEF RecoverEnd, FollowInv, RunningIsFollowed, RunsIn, Executed, ToRecover, dbVars, execVars
  <2> QED BY <1>2, <2>1 DEF FollowInv
<1>6. CASE DispatchOrQueue(Boot)
  <2>1. RunningIsFollowed'
        BY <1>6 DEF DispatchOrQueue, FollowInv, RunningIsFollowed, RunsIn, Executed, ToRecover, At, Returned, HomePc,
           Broadcast, dbVars, execVars
  <2> QED BY <1>2, <2>1 DEF FollowInv
<1>7. CASE DispatchRun(Boot)
  <2>1. \A f \in Execs : epc[f] \in AtWork => epc'[f] = epc[f] /\ erun'[f] = erun[f]
        BY <1>7 DEF DispatchRun, AtWork
  <2>2. pc[Boot] = "start" /\ pc'[Boot] = "recover" /\ UNCHANGED <<status, cli, todo>>
        BY <1>7 DEF DispatchRun, Returned, HomePc, dbVars
  <2>3. RunningIsFollowed'
        BY <2>1, <2>2 DEF FollowInv, RunningIsFollowed, RunsIn, Executed, ToRecover
  <2> QED BY <1>2, <2>3 DEF FollowInv
<1>8. CASE ResumeReset(Boot)
  <2>1. pc[Boot] = "reset" /\ pc'[Boot] \in {"recover", "dispatch"} /\ UNCHANGED <<cli, todo, epc, erun>>
        BY <1>8 DEF ResumeReset, At, Returned, HomePc, execVars
  <2>2. \A q \in RunIds : status'[q] = "running" => status[q] = "running" /\ q # run[Boot]
        BY <1>8, WriteEnds DEF ResumeReset
  <2>3. RunningIsFollowed'
        BY <2>1, <2>2 DEF FollowInv, RunningIsFollowed, RunsIn, Executed, ToRecover
  <2> QED BY <1>2, <2>3 DEF FollowInv
<1> QED BY <1>3, <1>4, <1>5, <1>6, <1>7, <1>8

\* A restarted process begins with its sweep.
LEMMA RestartFollows ==
  ASSUME pc' = BootPc
  PROVE  FollowInv'
BY GoroutinesAssumption DEF FollowInv, RunningIsFollowed, SyncRunsAreCli, BeginsSync, BootPc, ProcessorPc

\* Every step follows the runs that say running: one case per action.
LEMMA NextFollows ==
  ASSUME TypeInv, FollowInv, [Next]_vars
  PROVE  FollowInv'
<1>1. FollowFrame /\ NoNewSync => FollowInv'
      BY FrameKeepsFollowed, FrameKeepsSync DEF FollowInv
<1>2. ASSUME NEW c \in Callers, Request(c) PROVE FollowInv'
      BY <1>1, <1>2, RequestsFollow DEF Request, Trigger, RunByNameSync
<1>3. ASSUME NEW c \in Callers, CallerStep(c) PROVE FollowInv'
      BY <1>1, <1>3, RequestsFollow, CallersFollow, OthersFollow, SaveRunFollows, SyncFollows
         DEF CallerStep, RequestStep
<1>4. ASSUME NEW e \in Execs, ExecStep(e) PROVE FollowInv'
      BY <1>1, <1>4, ExecutionsFollow, ExecFollows DEF ExecStep
<1>5. CASE ProcessorStep
      BY <1>1, <1>5, OthersFollow DEF ProcessorStep
<1>6. CASE BootStep
      BY <1>6, SweepFollows DEF BootStep, RequestStep
<1>7. ASSUME NEW pl \in Pipelines, DeletePipeline(pl) PROVE FollowInv'
      BY <1>1, <1>7, OthersFollow
<1>8. CASE Crash \/ Sigterm \/ ShutdownReturns
      BY <1>8, RestartFollows DEF Crash, Sigterm, ShutdownReturns, Restart
<1>9. CASE Shutdown
      BY <1>1, <1>9, OthersFollow
<1>10. CASE UNCHANGED vars
      BY <1>10 DEF vars, FollowInv, RunningIsFollowed, RunsIn, Executed, ToRecover, SyncRunsAreCli, BeginsSync
<1> QED BY <1>2, <1>3, <1>4, <1>5, <1>6, <1>7, <1>8, <1>9, <1>10 DEF Next

\* Whatever crashes, restarts, resumes, supersessions and doubled executions came before, once the boot sweep is
\* over an asynchronous run whose row says running is being executed.
THEOREM RunningRunsAreExecuted == Spec => []RunningIsExecuted
<1>1. Init => FollowInv
      BY GoroutinesAssumption DEF Init, FollowInv, RunningIsFollowed, SyncRunsAreCli, BeginsSync, BootPc, ProcessorPc
<1>2. FollowInv => RunningIsExecuted
      BY DEF FollowInv, RunningIsFollowed, RunningIsExecuted, Executed, AtWork, ToRecover, Up
<1>3. TypeInv /\ FollowInv /\ [Next]_vars => FollowInv'
      BY NextFollows
<1> QED BY <1>1, <1>2, <1>3, TypeInvariance, PTL DEF Spec

-----------------------------------------------------------------------------
(* The registry. *)

\* Where an execution, or a caller that executes a synchronous run, is while
\* its cancel function may be in the registry.
Held == ExecLabels \ {"idle", "register", "release"}
SyncHeld == {"sync_exec", "sync_write", "sync_prune", "sync_exit"}

\* A step that leaves the registry and whoever may be named in it alone.
RegistryFrame ==
  /\ registry' = registry
  /\ \A e \in Execs : epc[e] \in Held => epc'[e] \in Held /\ erun'[e] = erun[e]
  /\ \A c \in Callers : pc[c] \in SyncHeld => pc'[c] \in SyncHeld /\ run'[c] = run[c]

\* A step that leaves the registry and its owners alone keeps it sound.
LEMMA FrameKeepsRegistry ==
  ASSUME TypeInv, RegistryIsSound, RegistryFrame
  PROVE  RegistryIsSound'
BY DEF RegistryIsSound, RegistryFrame, Held, SyncHeld

\* The start of a request leaves the registry and its owners alone.
LEMMA RequestsKeepRegistry ==
  ASSUME TypeInv, NEW c \in Callers, NEW pl, NEW r, NEW sync,
         \/ Admit(c, pl, sync) \/ Stop(c, r) \/ Resume(c, r)
  PROVE  RegistryFrame
<1> USE DEF RegistryFrame, Held, SyncHeld, ExecLabels, TypeInv, TypeOK, PcType, ExecType,
           LocalType
<1>1. CASE Admit(c, pl, sync)
      BY <1>1, GoroutinesAssumption DEF Admit, At, Ready, execVars
<1>2. CASE Stop(c, r)
      BY <1>2, GoroutinesAssumption DEF Stop, At, Ready, execVars
<1>3. CASE Resume(c, r)
      BY <1>3, GoroutinesAssumption DEF Resume, At, Ready, execVars
<1> QED BY <1>1, <1>2, <1>3

\* The requests that do not register keep the registry sound.
LEMMA CallersKeepRegistry ==
  ASSUME TypeInv, NEW c \in Callers,
         \/ ResolveConcurrency(c) \/ SaveRun(c) \/ Supersede(c)
         \/ Superseded(c) \/ SyncReject(c) \/ SyncBegin(c) \/ SyncFinish(c)
         \/ SyncWrite(c) \/ SyncPrune(c) \/ StopRun(c) \/ StopWrite(c)
  PROVE  RegistryFrame
<1> USE DEF RegistryFrame, Held, SyncHeld, ExecLabels, TypeInv, TypeOK, PcType, ExecType,
           LocalType
<1>1. CASE ResolveConcurrency(c)
      BY <1>1, GoroutinesAssumption DEF ResolveConcurrency, At, execVars
<1>2. CASE SaveRun(c)
      BY <1>2, GoroutinesAssumption DEF SaveRun, At, Returned, HomePc,
         AdmittedPc, Forget, execVars
<1>3. CASE Supersede(c)
      BY <1>3, GoroutinesAssumption DEF Supersede, execVars
<1>4. CASE Superseded(c)
      BY <1>4, GoroutinesAssumption DEF Superseded, At, AdmittedPc, execVars
<1>5. CASE SyncReject(c)
      BY <1>5, GoroutinesAssumption DEF SyncReject, Returned, HomePc, Forget,
         execVars
<1>6. CASE SyncBegin(c)
      BY <1>6, GoroutinesAssumption DEF SyncBegin, At, execVars
<1>7. CASE SyncFinish(c)
      BY <1>7, GoroutinesAssumption DEF SyncFinish, At, execVars
<1>8. CASE SyncWrite(c)
      BY <1>8, GoroutinesAssumption DEF SyncWrite, At, execVars
<1>9. CASE SyncPrune(c)
      BY <1>9, GoroutinesAssumption DEF SyncPrune, At, execVars
<1>10. CASE StopRun(c)
      BY <1>10, GoroutinesAssumption DEF StopRun, At, execVars
<1>11. CASE StopWrite(c)
      BY <1>11, GoroutinesAssumption DEF StopWrite, Returned, HomePc, Forget,
         execVars
<1> QED BY <1>1, <1>2, <1>3, <1>4, <1>5, <1>6, <1>7, <1>8, <1>9, <1>10, <1>11

\* An execution between its registration and its removal keeps its entry sound.
LEMMA ExecutionsKeepRegistry ==
  ASSUME TypeInv, NEW e \in Execs,
         \/ ExecBegin(e) \/ ExecFinish(e) \/ ExecWrite(e) \/ ExecPrune(e)
         \/ ExecRelease(e)
  PROVE  RegistryFrame
<1> USE DEF RegistryFrame, Held, SyncHeld, ExecLabels, TypeInv, TypeOK, PcType, ExecType,
           LocalType
<1>1. CASE ExecBegin(e)
      BY <1>1, GoroutinesAssumption DEF ExecBegin, goVars
<1>2. CASE ExecFinish(e)
      BY <1>2, GoroutinesAssumption DEF ExecFinish, goVars
<1>3. CASE ExecWrite(e)
      BY <1>3, GoroutinesAssumption DEF ExecWrite, goVars
<1>4. CASE ExecPrune(e)
      BY <1>4, GoroutinesAssumption DEF ExecPrune, goVars
<1>5. CASE ExecRelease(e)
      BY <1>5, GoroutinesAssumption DEF ExecRelease, Broadcast
<1> QED BY <1>1, <1>2, <1>3, <1>4, <1>5

\* The queue processor, the boot sweep and shutdown keep the registry sound.
LEMMA OthersKeepRegistry ==
  ASSUME TypeInv, NEW p \in Procs, NEW pl,
         \/ DispatchOrQueue(p) \/ DispatchRun(p) \/ ResumeReset(p)
         \/ QueueCheck \/ QueueWait \/ QueueList \/ QueueGroups \/ QueueScan
         \/ QueueTickEnd \/ RecoverList \/ RecoverRun \/ RecoverEnd
         \/ DeletePipeline(pl) \/ Shutdown
  PROVE  RegistryFrame
<1> USE DEF RegistryFrame, Held, SyncHeld, ExecLabels, TypeInv, TypeOK, PcType, ExecType,
           LocalType
<1>1. CASE DispatchOrQueue(p)
      BY <1>1, GoroutinesAssumption DEF DispatchOrQueue, At, Returned,
         HomePc, Broadcast, Forget, execVars
<1>2. CASE DispatchRun(p)
      BY <1>2, GoroutinesAssumption DEF DispatchRun, Returned, HomePc, Forget
<1>3. CASE ResumeReset(p)
      BY <1>3, GoroutinesAssumption DEF ResumeReset, At, Returned, HomePc,
         Forget, execVars
<1>4. CASE QueueCheck
      BY <1>4, GoroutinesAssumption DEF QueueCheck, At, execVars
<1>5. CASE QueueWait
      BY <1>5, GoroutinesAssumption DEF QueueWait, At, execVars
<1>6. CASE QueueList
      BY <1>6, GoroutinesAssumption DEF QueueList, At, execVars
<1>7. CASE QueueGroups
      BY <1>7, GoroutinesAssumption DEF QueueGroups, At, execVars
<1>8. CASE QueueScan
      BY <1>8, GoroutinesAssumption DEF QueueScan, At, execVars
<1>9. CASE QueueTickEnd
      BY <1>9, GoroutinesAssumption DEF QueueTickEnd, At, execVars
<1>10. CASE RecoverList
      BY <1>10, GoroutinesAssumption DEF RecoverList, At, execVars
<1>11. CASE RecoverRun
      BY <1>11, GoroutinesAssumption DEF RecoverRun, At, execVars
<1>12. CASE RecoverEnd
      BY <1>12, GoroutinesAssumption DEF RecoverEnd, At, Broadcast, execVars
<1>13. CASE DeletePipeline(pl)
      BY <1>13, GoroutinesAssumption DEF DeletePipeline, execVars, goVars
<1>14. CASE Shutdown
      BY <1>14, GoroutinesAssumption DEF Shutdown, Broadcast, execVars
<1> QED BY <1>1, <1>2, <1>3, <1>4, <1>5, <1>6, <1>7, <1>8, <1>9, <1>10, <1>11, <1>12,
       <1>13, <1>14

\* An execution registers itself for its own run.
LEMMA ExecRegisterRegistry ==
  ASSUME TypeInv, RegistryIsSound, NEW e \in Execs, ExecRegister(e)
  PROVE  RegistryIsSound'
BY GoroutinesAssumption
   DEF ExecRegister, RegistryIsSound, ExecLabels, goVars, TypeInv, TypeOK, ServiceType,
       ExecType

\* An execution that ends removes the entry of its run, whoever owns it.
LEMMA ExecUnregisterRegistry ==
  ASSUME TypeInv, RegistryIsSound, NEW e \in Execs, ExecUnregister(e)
  PROVE  RegistryIsSound'
BY GoroutinesAssumption
   DEF ExecUnregister, RegistryIsSound, ExecLabels, goVars, TypeInv, TypeOK,
       ServiceType, ExecType

\* A synchronous run registers itself for its own run.
LEMMA SyncPreseedRegistry ==
  ASSUME TypeInv, RegistryIsSound, NEW c \in Callers, SyncPreseed(c)
  PROVE  RegistryIsSound'
<1> USE DEF TypeInv, TypeOK, ServiceType, PcType, LocalType
<1>1. CASE pc' = Returned(c) /\ Forget(c) /\ UNCHANGED registry
  <2>1. RegistryFrame
        BY <1>1 DEF SyncPreseed, RegistryFrame, SyncHeld, Returned, HomePc, Forget,
           execVars
  <2> QED BY <2>1, FrameKeepsRegistry
<1>2. CASE /\ registry' = [registry EXCEPT ![run[c]] = c]
           /\ pc' = At(c, "sync_exec") /\ UNCHANGED run
  <2>1. pc[c] = "preseed" /\ UNCHANGED <<epc, erun>>
        BY DEF SyncPreseed, execVars
  <2>2. ASSUME NEW r \in RunIds, registry'[r] \in Execs
        PROVE  registry'[r] = registry[r]
        BY <1>2, <2>2, GoroutinesAssumption
  <2>3. ASSUME NEW r \in RunIds, registry'[r] \in Callers
        PROVE  run[registry'[r]] = r /\ pc'[registry'[r]] \in SyncHeld
        BY <1>2, <2>1, <2>3 DEF RegistryIsSound, SyncHeld, At
  <2> QED BY <1>2, <2>1, <2>2, <2>3 DEF RegistryIsSound, SyncHeld
<1> QED BY <1>1, <1>2 DEF SyncPreseed

\* A synchronous run that ends removes the entry of its run.
LEMMA SyncExitRegistry ==
  ASSUME TypeInv, RegistryIsSound, NEW c \in Callers, SyncExit(c)
  PROVE  RegistryIsSound'
BY GoroutinesAssumption
   DEF SyncExit, RegistryIsSound, Returned, HomePc, Forget, execVars, TypeInv, TypeOK,
       ServiceType, PcType, LocalType

\* Every step keeps the registry sound: one case per action.
LEMMA NextRegistry ==
  ASSUME TypeInv, RegistryIsSound, [Next]_vars
  PROVE  RegistryIsSound'
<1>1. ASSUME NEW c \in Callers, Request(c) PROVE RegistryIsSound'
      BY <1>1, RequestsKeepRegistry, FrameKeepsRegistry
         DEF Request, Trigger, RunByNameSync
<1>2. ASSUME NEW p \in Procs, RequestStep(p) PROVE RegistryIsSound'
      BY <1>2, OthersKeepRegistry, FrameKeepsRegistry DEF RequestStep
<1>3. ASSUME NEW c \in Callers, CallerStep(c) PROVE RegistryIsSound'
      BY <1>2, <1>3, CallersKeepRegistry, SyncPreseedRegistry, SyncExitRegistry,
         FrameKeepsRegistry DEF CallerStep
<1>4. ASSUME NEW e \in Execs, ExecStep(e) PROVE RegistryIsSound'
      BY <1>4, ExecutionsKeepRegistry, ExecRegisterRegistry, ExecUnregisterRegistry,
         FrameKeepsRegistry DEF ExecStep
<1>5. CASE ProcessorStep
      BY <1>5, OthersKeepRegistry, FrameKeepsRegistry DEF ProcessorStep
<1>6. CASE BootStep
      BY <1>2, <1>6, OthersKeepRegistry, FrameKeepsRegistry DEF BootStep
<1>7. ASSUME NEW pl \in Pipelines, DeletePipeline(pl) PROVE RegistryIsSound'
      BY <1>7, OthersKeepRegistry, FrameKeepsRegistry
<1>8. CASE Crash \/ Sigterm \/ ShutdownReturns
  <2>1. registry' = [r \in RunIds |-> None]
        BY <1>8 DEF Crash, Sigterm, ShutdownReturns, Restart
  <2> QED BY <2>1, GoroutinesAssumption DEF RegistryIsSound
<1>9. CASE Shutdown
      BY <1>9, OthersKeepRegistry, FrameKeepsRegistry
<1>10. CASE UNCHANGED vars
      BY <1>10 DEF vars, RegistryIsSound
<1> QED BY <1>1, <1>3, <1>4, <1>5, <1>6, <1>7, <1>8, <1>9, <1>10 DEF Next

\* A cancel function found in stopRegistry belongs to a goroutine that executes
\* exactly that run, however often the run was resumed or executed twice: a
\* stop never cancels another run's execution.
THEOREM RegistrySound == Spec => []RegistryIsSound
<1>1. Init => RegistryIsSound
      BY GoroutinesAssumption DEF Init, RegistryIsSound
<1>2. TypeInv /\ RegistryIsSound /\ [Next]_vars => RegistryIsSound'
      BY NextRegistry
<1> QED BY <1>1, <1>2, TypeInvariance, PTL DEF Spec

-----------------------------------------------------------------------------
(* The stop protocol. *)

StopLabels == {"stop", "stop_write", "orphan_write"}

\* Rows are numbered as they are created; only a row can be stopped, and the
\* stop request found its row before it set out.
RowsAreNumbered == \A r \in RunIds : status[r] # "absent" => r <= runCount
StoppedAreRows == \A r \in stopped : r \in RunIds /\ r <= runCount
StopsARow == \A c \in Callers : pc[c] \in StopLabels => run[c] \in RunIds

StopInv == StopIsHonoured /\ RowsAreNumbered /\ StoppedAreRows /\ StopsARow

\* Every status changes the way UpdateRunStatus allows without a resume, or
\* its row goes away; no row is created and no run becomes stopped.
Honours ==
  /\ runCount' = runCount /\ stopped' = stopped
  /\ \A r \in RunIds :
       \/ status'[r] \in {status[r], "absent"}
       \/ status[r] # "absent" /\ (status'[r] = "failed" \/ status[r] \in Active)

\* No goroutine starts to stop a run.
NoNewStop ==
  \A c \in Callers : pc'[c] \in StopLabels => pc[c] \in StopLabels /\ run'[c] = run[c]

\* A step that marks nothing stopped and writes only what a stopped row may
\* hold keeps the stop invariant.
LEMMA HonoursKeepsStops ==
  ASSUME TypeInv, StopInv, Honours, NoNewStop
  PROVE  StopInv'
<1>1. StopIsHonoured'
      BY DEF StopInv, StopIsHonoured, StoppedAreRows, Honours, Active
<1>2. RowsAreNumbered' /\ StoppedAreRows'
      BY DEF StopInv, RowsAreNumbered, StoppedAreRows, Honours
<1>3. StopsARow'
      BY DEF StopInv, StopsARow, NoNewStop
<1> QED BY <1>1, <1>2, <1>3 DEF StopInv

\* UpdateRunStatus refuses to overwrite a final status, except by failed.
LEMMA WriteHonours ==
  ASSUME TypeInv, NEW r, NEW new, new # "queued", status' = Written(r, new),
         UNCHANGED <<runCount, stopped>>
  PROVE  Honours
BY DEF Written, TransitionAllowed, Honours, TypeInv, TypeOK, DatabaseType

\* Pruning and deleting rows honours every stop.
LEMMA PruneHonours ==
  ASSUME TypeInv, NEW pl, status' \in Pruned(pl), UNCHANGED <<runCount, stopped>>
  PROVE  Honours
BY DEF Pruned, Honours, TypeInv, TypeOK, DatabaseType

\* A step that writes no row honours every stop.
LEMMA NothingWritten ==
  ASSUME UNCHANGED <<status, runCount, stopped>>
  PROVE  Honours
BY DEF Honours

\* The steps of a request that neither write a stop nor reset a run honour stops.
LEMMA CallersHonourStops ==
  ASSUME TypeInv, NEW c \in Callers, NEW pl, NEW r, NEW sync,
         \/ Admit(c, pl, sync) \/ Resume(c, r) \/ ResolveConcurrency(c)
         \/ Superseded(c) \/ SyncReject(c) \/ SyncBegin(c) \/ SyncPreseed(c)
         \/ SyncFinish(c) \/ SyncWrite(c) \/ SyncPrune(c) \/ SyncExit(c)
         \/ StopRun(c)
  PROVE  Honours /\ NoNewStop
<1> USE DEF TypeInv, TypeOK, PcType, LocalType
<1>1. CASE Admit(c, pl, sync)
  <2>1. Honours
        BY <1>1, NothingWritten DEF Admit, dbVars, history
  <2>2. NoNewStop
        BY <1>1, GoroutinesAssumption DEF Admit, At, Ready, NoNewStop,
           StopLabels
  <2> QED BY <2>1, <2>2
<1>2. CASE Resume(c, r)
  <2>1. Honours
        BY <1>2, NothingWritten DEF Resume, dbVars
  <2>2. NoNewStop
        BY <1>2, GoroutinesAssumption DEF Resume, At, Ready, NoNewStop,
           StopLabels
  <2> QED BY <2>1, <2>2
<1>3. CASE ResolveConcurrency(c)
  <2>1. Honours
        BY <1>3, NothingWritten DEF ResolveConcurrency, dbVars, history
  <2>2. NoNewStop
        BY <1>3, GoroutinesAssumption DEF ResolveConcurrency, At, NoNewStop,
           StopLabels
  <2> QED BY <2>1, <2>2
<1>4. CASE Superseded(c)
  <2>1. Honours
        BY <1>4, NothingWritten DEF Superseded, dbVars, history
  <2>2. NoNewStop
        BY <1>4, GoroutinesAssumption DEF Superseded, At, AdmittedPc,
           NoNewStop, StopLabels
  <2> QED BY <2>1, <2>2
<1>5. CASE SyncReject(c)
  <2>1. Honours
        BY <1>5, WriteHonours DEF SyncReject, history
  <2>2. NoNewStop
        BY <1>5, GoroutinesAssumption DEF SyncReject, Returned, HomePc,
           Forget, NoNewStop, StopLabels
  <2> QED BY <2>1, <2>2
<1>6. CASE SyncBegin(c)
  <2>1. Honours
        BY <1>6, WriteHonours, NothingWritten DEF SyncBegin, history
  <2>2. NoNewStop
        BY <1>6, GoroutinesAssumption DEF SyncBegin, At, NoNewStop, StopLabels
  <2> QED BY <2>1, <2>2
<1>7. CASE SyncPreseed(c)
  <2>1. Honours
        BY <1>7, NothingWritten DEF SyncPreseed, dbVars, history
  <2>2. NoNewStop
        BY <1>7, GoroutinesAssumption DEF SyncPreseed, At, Returned, HomePc,
           Forget, NoNewStop, StopLabels
  <2> QED BY <2>1, <2>2
<1>8. CASE SyncFinish(c)
  <2>1. Honours
        BY <1>8, NothingWritten DEF SyncFinish, dbVars, history
  <2>2. NoNewStop
        BY <1>8, GoroutinesAssumption DEF SyncFinish, At, NoNewStop,
           StopLabels
  <2> QED BY <2>1, <2>2
<1>9. CASE SyncWrite(c)
  <2>1. Honours
        BY <1>9, WriteHonours, NothingWritten DEF SyncWrite, history
  <2>2. NoNewStop
        BY <1>9, GoroutinesAssumption DEF SyncWrite, At, NoNewStop, StopLabels
  <2> QED BY <2>1, <2>2
<1>10. CASE SyncPrune(c)
  <2>1. Honours
        BY <1>10, PruneHonours, NothingWritten DEF SyncPrune, history
  <2>2. NoNewStop
        BY <1>10, GoroutinesAssumption DEF SyncPrune, At, NoNewStop,
           StopLabels
  <2> QED BY <2>1, <2>2
<1>11. CASE SyncExit(c)
  <2>1. Honours
        BY <1>11, NothingWritten DEF SyncExit, dbVars, history
  <2>2. NoNewStop
        BY <1>11, GoroutinesAssumption DEF SyncExit, Returned, HomePc,
           Forget, NoNewStop, StopLabels
  <2> QED BY <2>1, <2>2
<1>12. CASE StopRun(c)
  <2>1. Honours
        BY <1>12, NothingWritten DEF StopRun, dbVars, history
  <2>2. NoNewStop
        BY <1>12, GoroutinesAssumption DEF StopRun, At, NoNewStop, StopLabels
  <2> QED BY <2>1, <2>2
<1> QED BY <1>1, <1>2, <1>3, <1>4, <1>5, <1>6, <1>7, <1>8, <1>9, <1>10, <1>11, <1>12

\* No write of an execution, however late, undoes a stop.
LEMMA ExecutionsHonourStops ==
  ASSUME TypeInv, NEW e \in Execs,
         \/ ExecRegister(e) \/ ExecBegin(e) \/ ExecFinish(e) \/ ExecWrite(e)
         \/ ExecPrune(e) \/ ExecUnregister(e) \/ ExecRelease(e)
  PROVE  Honours /\ NoNewStop
<1> USE DEF TypeInv, TypeOK, PcType, LocalType
<1>1. CASE ExecRegister(e)
  <2>1. Honours
        BY <1>1, NothingWritten DEF ExecRegister, dbVars, history
  <2>2. NoNewStop
        BY <1>1, GoroutinesAssumption DEF ExecRegister, goVars, NoNewStop,
           StopLabels
  <2> QED BY <2>1, <2>2
<1>2. CASE ExecBegin(e)
  <2>1. Honours
        BY <1>2, WriteHonours DEF ExecBegin, history
  <2>2. NoNewStop
        BY <1>2, GoroutinesAssumption DEF ExecBegin, goVars, NoNewStop,
           StopLabels
  <2> QED BY <2>1, <2>2
<1>3. CASE ExecFinish(e)
  <2>1. Honours
        BY <1>3, NothingWritten DEF ExecFinish, dbVars, history
  <2>2. NoNewStop
        BY <1>3, GoroutinesAssumption DEF ExecFinish, goVars, NoNewStop,
           StopLabels
  <2> QED BY <2>1, <2>2
<1>4. CASE ExecWrite(e)
  <2>1. Honours
    <3>1. FinalStatus(eout[e]) # "queued"
          BY DEF FinalStatus, ExecType, Outcomes
    <3> QED BY <1>4, <3>1, WriteHonours DEF ExecWrite, history
  <2>2. NoNewStop
        BY <1>4, GoroutinesAssumption DEF ExecWrite, goVars, NoNewStop,
           StopLabels
  <2> QED BY <2>1, <2>2
<1>5. CASE ExecPrune(e)
  <2>1. Honours
        BY <1>5, PruneHonours DEF ExecPrune, history
  <2>2. NoNewStop
        BY <1>5, GoroutinesAssumption DEF ExecPrune, goVars, NoNewStop,
           StopLabels
  <2> QED BY <2>1, <2>2
<1>6. CASE ExecUnregister(e)
  <2>1. Honours
        BY <1>6, NothingWritten DEF ExecUnregister, dbVars, history
  <2>2. NoNewStop
        BY <1>6, GoroutinesAssumption DEF ExecUnregister, goVars, NoNewStop,
           StopLabels
  <2> QED BY <2>1, <2>2
<1>7. CASE ExecRelease(e)
  <2>1. Honours
        BY <1>7, NothingWritten DEF ExecRelease, dbVars, history
  <2>2. NoNewStop
        BY <1>7, GoroutinesAssumption DEF ExecRelease, Broadcast, NoNewStop,
           StopLabels
  <2> QED BY <2>1, <2>2
<1> QED BY <1>1, <1>2, <1>3, <1>4, <1>5, <1>6, <1>7

\* The queue processor and the boot sweep honour stops.
LEMMA OthersHonourStops ==
  ASSUME TypeInv, NEW p \in Procs, NEW pl,
         \/ DispatchOrQueue(p) \/ DispatchRun(p) \/ QueueCheck \/ QueueWait
         \/ QueueList \/ QueueGroups \/ QueueScan \/ QueueTickEnd
         \/ RecoverList \/ RecoverRun \/ RecoverEnd \/ DeletePipeline(pl)
         \/ Shutdown
  PROVE  Honours /\ NoNewStop
<1> USE DEF TypeInv, TypeOK, PcType, LocalType
<1>1. CASE DispatchOrQueue(p)
  <2>1. Honours
        BY <1>1, NothingWritten DEF DispatchOrQueue, dbVars, history
  <2>2. NoNewStop
        BY <1>1, GoroutinesAssumption DEF DispatchOrQueue, At, Returned,
           HomePc, Broadcast, Forget, NoNewStop, StopLabels
  <2> QED BY <2>1, <2>2
<1>2. CASE DispatchRun(p)
  <2>1. Honours
        BY <1>2, NothingWritten DEF DispatchRun, dbVars, history
  <2>2. NoNewStop
        BY <1>2, GoroutinesAssumption DEF DispatchRun, Returned, HomePc,
           Forget, NoNewStop, StopLabels
  <2> QED BY <2>1, <2>2
<1>3. CASE QueueCheck
  <2>1. Honours
        BY <1>3, NothingWritten DEF QueueCheck, dbVars, history
  <2>2. NoNewStop
        BY <1>3, GoroutinesAssumption DEF QueueCheck, At, NoNewStop,
           StopLabels
  <2> QED BY <2>1, <2>2
<1>4. CASE QueueWait
  <2>1. Honours
        BY <1>4, NothingWritten DEF QueueWait, dbVars, history
  <2>2. NoNewStop
        BY <1>4, GoroutinesAssumption DEF QueueWait, At, NoNewStop, StopLabels
  <2> QED BY <2>1, <2>2
<1>5. CASE QueueList
  <2>1. Honours
        BY <1>5, NothingWritten DEF QueueList, dbVars, history
  <2>2. NoNewStop
        BY <1>5, GoroutinesAssumption DEF QueueList, At, NoNewStop, StopLabels
  <2> QED BY <2>1, <2>2
<1>6. CASE QueueGroups
  <2>1. Honours
        BY <1>6, NothingWritten DEF QueueGroups, dbVars, history
  <2>2. NoNewStop
        BY <1>6, GoroutinesAssumption DEF QueueGroups, At, NoNewStop,
           StopLabels
  <2> QED BY <2>1, <2>2
<1>7. CASE QueueScan
  <2>1. Honours
        BY <1>7, WriteHonours, NothingWritten DEF QueueScan, history
  <2>2. NoNewStop
        BY <1>7, GoroutinesAssumption DEF QueueScan, At, NoNewStop, StopLabels
  <2> QED BY <2>1, <2>2
<1>8. CASE QueueTickEnd
  <2>1. Honours
        BY <1>8, NothingWritten DEF QueueTickEnd, dbVars, history
  <2>2. NoNewStop
        BY <1>8, GoroutinesAssumption DEF QueueTickEnd, At, NoNewStop,
           StopLabels
  <2> QED BY <2>1, <2>2
<1>9. CASE RecoverList
  <2>1. Honours
        BY <1>9, NothingWritten DEF RecoverList, dbVars, history
  <2>2. NoNewStop
        BY <1>9, GoroutinesAssumption DEF RecoverList, At, NoNewStop,
           StopLabels
  <2> QED BY <2>1, <2>2
<1>10. CASE RecoverRun
  <2>1. Honours
        BY <1>10, WriteHonours, NothingWritten DEF RecoverRun, history
  <2>2. NoNewStop
        BY <1>10, GoroutinesAssumption DEF RecoverRun, At, NoNewStop,
           StopLabels
  <2> QED BY <2>1, <2>2
<1>11. CASE RecoverEnd
  <2>1. Honours
        BY <1>11, NothingWritten DEF RecoverEnd, dbVars, history
  <2>2. NoNewStop
        BY <1>11, GoroutinesAssumption DEF RecoverEnd, At, Broadcast,
           NoNewStop, StopLabels
  <2> QED BY <2>1, <2>2
<1>12. CASE DeletePipeline(pl)
  <2>1. Honours
        BY <1>12 DEF DeletePipeline, Honours, DatabaseType
  <2>2. NoNewStop
        BY <1>12, GoroutinesAssumption DEF DeletePipeline, goVars, NoNewStop,
           StopLabels
  <2> QED BY <2>1, <2>2
<1>13. CASE Shutdown
  <2>1. Honours
        BY <1>13, NothingWritten DEF Shutdown, dbVars, history
  <2>2. NoNewStop
        BY <1>13, GoroutinesAssumption DEF Shutdown, Broadcast, NoNewStop,
           StopLabels
  <2> QED BY <2>1, <2>2
<1> QED BY <1>1, <1>2, <1>3, <1>4, <1>5, <1>6, <1>7, <1>8, <1>9, <1>10, <1>11, <1>12,
       <1>13

\* The new row is nobody's stopped run.
LEMMA SaveRunStops ==
  ASSUME TypeInv, StopInv, NEW c \in Callers, SaveRun(c)
  PROVE  StopInv'
<1> USE DEF TypeInv, TypeOK, PcType, LocalType
<1>1. NoNewStop
      BY GoroutinesAssumption
         DEF SaveRun, NoNewStop, StopLabels, At, AdmittedPc, Returned, HomePc, Forget
<1>2. stopped' = stopped
      BY DEF SaveRun, history
<1>3. CASE adm[c].pipeline \notin pipelines
  <2>1. Honours
        BY <1>2, <1>3, NothingWritten DEF SaveRun, dbVars
  <2> QED BY <1>1, <2>1, HonoursKeepsStops
<1>4. CASE adm[c].pipeline \in pipelines
  <2>1. /\ runCount' = runCount + 1
        /\ status' = [status EXCEPT ![runCount + 1] = SavedStatus(adm[c].act)]
        BY <1>4 DEF SaveRun
  <2>2. runCount \in Nat /\ status \in [RunIds -> Statuses \cup {"absent"}]
        BY DEF DatabaseType
  <2>3. StopIsHonoured'
        BY <1>2, <2>1, <2>2 DEF StopInv, StopIsHonoured, StoppedAreRows
  <2>4. RowsAreNumbered' /\ StoppedAreRows'
        BY <1>2, <2>1, <2>2 DEF StopInv, RowsAreNumbered, StoppedAreRows
  <2>5. StopsARow'
        BY <1>1 DEF StopInv, StopsARow, NoNewStop
  <2> QED BY <2>3, <2>4, <2>5 DEF StopInv
<1> QED BY <1>3, <1>4

\* A stop is aimed at a row that was created.
LEMMA StopStops ==
  ASSUME TypeInv, StopInv, NEW c \in Callers, NEW r \in RunIds, Stop(c, r)
  PROVE  StopInv'
<1>1. StopsARow'
      BY DEF StopInv, Stop, StopsARow, StopLabels, At, TypeInv, TypeOK, PcType, LocalType
<1>2. UNCHANGED <<status, runCount, stopped>>
      BY DEF Stop, dbVars
<1> QED BY <1>1, <1>2 DEF StopInv, StopIsHonoured, RowsAreNumbered, StoppedAreRows

\* A run joins the stopped ones in the step that writes "failed".
LEMMA StoppedIsFailed ==
  ASSUME TypeInv, StopInv, NEW r \in RunIds, status' = Written(r, "failed"),
         stopped' = IF status[r] = "absent" THEN stopped ELSE stopped \cup {r},
         UNCHANGED runCount, NoNewStop
  PROVE  StopInv'
<1>1. status'[r] \in {"failed", "absent"}
      BY DEF Written, TransitionAllowed, TypeInv, TypeOK, DatabaseType
<1>2. \A q \in RunIds : status'[q] \in {status[q], "failed"}
      BY DEF Written, TransitionAllowed, TypeInv, TypeOK, DatabaseType
<1>3. \A q \in RunIds : status[q] = "absent" => status'[q] = "absent"
      BY DEF Written, TransitionAllowed, TypeInv, TypeOK, DatabaseType
<1>4. StopIsHonoured'
      BY <1>1, <1>2 DEF StopInv, StopIsHonoured, StoppedAreRows
<1>5. RowsAreNumbered' /\ StoppedAreRows'
      BY <1>3 DEF StopInv, RowsAreNumbered, StoppedAreRows
<1>6. StopsARow'
      BY DEF StopInv, StopsARow, NoNewStop
<1> QED BY <1>4, <1>5, <1>6 DEF StopInv

\* Stopping a run without an entry writes failed as well.
LEMMA StopWriteStops ==
  ASSUME TypeInv, StopInv, NEW c \in Callers, StopWrite(c)
  PROVE  StopInv'
<1>1. NoNewStop
      BY DEF StopWrite, NoNewStop, StopLabels, Returned, HomePc, Forget, TypeInv, TypeOK,
         PcType, LocalType
<1>2. run[c] \in RunIds
      BY DEF StopWrite, StopInv, StopsARow, StopLabels
<1> QED BY <1>1, <1>2, StoppedIsFailed DEF StopWrite

\* A superseded peer that is stopped is written as failed.
LEMMA SupersedeStops ==
  ASSUME TypeInv, StopInv, NEW c \in Callers, Supersede(c)
  PROVE  StopInv'
<1>1. NoNewStop /\ runCount' = runCount
      BY DEF Supersede, NoNewStop
<1>2. PICK x \in todo[c] :
        \/ status' = Written(x[1], "skipped") /\ UNCHANGED stopped
        \/ UNCHANGED <<status, stopped>>
        \/ /\ status' = Written(x[1], "failed")
           /\ stopped' = IF status[x[1]] = "absent" THEN stopped
                         ELSE stopped \cup {x[1]}
      BY DEF Supersede, OldestPeer
<1>3. x[1] \in RunIds
      BY DEF TypeInv, TypeOK, LocalType
<1>4. CASE status' = Written(x[1], "skipped") /\ UNCHANGED stopped
      BY <1>1, <1>4, WriteHonours, HonoursKeepsStops
<1>5. CASE UNCHANGED <<status, stopped>>
      BY <1>1, <1>5, NothingWritten, HonoursKeepsStops
<1>6. CASE /\ status' = Written(x[1], "failed")
           /\ stopped' = IF status[x[1]] = "absent" THEN stopped
                         ELSE stopped \cup {x[1]}
      BY <1>1, <1>3, <1>6, StoppedIsFailed
<1> QED BY <1>2, <1>4, <1>5, <1>6

\* Only a resume takes a stopped run out of "failed", and it forgets the stop.
LEMMA ResumeResetStops ==
  ASSUME TypeInv, StopInv, NEW p \in Procs, ResumeReset(p)
  PROVE  StopInv'
<1> USE DEF TypeInv, TypeOK, PcType, LocalType
<1>1. NoNewStop
      BY DEF ResumeReset, NoNewStop, StopLabels, At, Returned, HomePc, Forget
<1>2. runCount' = runCount
      BY DEF ResumeReset
<1>3. CASE status[run[p]] = "absent"
  <2>1. Honours
        BY <1>2, <1>3, NothingWritten DEF ResumeReset
  <2> QED BY <1>1, <2>1, HonoursKeepsStops
<1>4. CASE status[run[p]] # "absent"
  <2>1. status' = Written(run[p], "queued") /\ stopped' = stopped \ {run[p]}
        BY <1>4 DEF ResumeReset
  <2>2. /\ \A q \in RunIds : q # run[p] => status'[q] = status[q]
        /\ \A q \in RunIds : status[q] = "absent" => status'[q] = "absent"
        BY <2>1 DEF Written, TransitionAllowed, DatabaseType
  <2>3. StopIsHonoured'
        BY <2>1, <2>2 DEF StopInv, StopIsHonoured, StoppedAreRows
  <2>4. RowsAreNumbered' /\ StoppedAreRows'
        BY <1>2, <2>1, <2>2 DEF StopInv, RowsAreNumbered, StoppedAreRows
  <2>5. StopsARow'
        BY <1>1 DEF StopInv, StopsARow, NoNewStop
  <2> QED BY <2>3, <2>4, <2>5 DEF StopInv
<1> QED BY <1>3, <1>4

\* A restart changes no row.
LEMMA RestartStops ==
  ASSUME StopInv, Restart
  PROVE  StopInv'
<1>1. UNCHANGED <<status, runCount, stopped>> /\ pc' = BootPc
      BY DEF Restart, dbVars
<1>2. StopIsHonoured' /\ RowsAreNumbered' /\ StoppedAreRows'
      BY <1>1 DEF StopInv, StopIsHonoured, RowsAreNumbered, StoppedAreRows
<1>3. StopsARow'
      BY <1>1 DEF StopsARow, StopLabels, BootPc
<1> QED BY <1>2, <1>3 DEF StopInv

\* Every step keeps the stop invariant: one case per action.
LEMMA NextStops ==
  ASSUME TypeInv, StopInv, [Next]_vars
  PROVE  StopInv'
<1>1. ASSUME NEW c \in Callers, Request(c) PROVE StopInv'
  <2>1. ASSUME NEW pl, NEW sync, Admit(c, pl, sync) PROVE StopInv'
        BY <2>1, CallersHonourStops, HonoursKeepsStops
  <2>2. ASSUME NEW r \in RunIds, Stop(c, r) \/ Resume(c, r) PROVE StopInv'
        BY <2>2, StopStops, CallersHonourStops, HonoursKeepsStops
  <2> QED BY <1>1, <2>1, <2>2 DEF Request, Trigger, RunByNameSync
<1>2. ASSUME NEW p \in Procs, RequestStep(p) PROVE StopInv'
      BY <1>2, OthersHonourStops, ResumeResetStops, HonoursKeepsStops DEF RequestStep
<1>3. ASSUME NEW c \in Callers, CallerStep(c) PROVE StopInv'
      BY <1>2, <1>3, CallersHonourStops, SaveRunStops, SupersedeStops, StopWriteStops,
         HonoursKeepsStops DEF CallerStep
<1>4. ASSUME NEW e \in Execs, ExecStep(e) PROVE StopInv'
      BY <1>4, ExecutionsHonourStops, HonoursKeepsStops DEF ExecStep
<1>5. CASE ProcessorStep
      BY <1>5, OthersHonourStops, HonoursKeepsStops DEF ProcessorStep
<1>6. CASE BootStep
      BY <1>2, <1>6, OthersHonourStops, HonoursKeepsStops DEF BootStep
<1>7. ASSUME NEW pl \in Pipelines, DeletePipeline(pl) PROVE StopInv'
      BY <1>7, OthersHonourStops, HonoursKeepsStops
<1>8. CASE Crash \/ Sigterm \/ ShutdownReturns
      BY <1>8, RestartStops DEF Crash, Sigterm, ShutdownReturns
<1>9. CASE Shutdown
      BY <1>9, OthersHonourStops, HonoursKeepsStops
<1>10. CASE UNCHANGED vars
  <2>1. Honours /\ NoNewStop
        BY <1>10 DEF vars, Honours, NoNewStop
  <2> QED BY <2>1, HonoursKeepsStops
<1> QED BY <1>1, <1>3, <1>4, <1>5, <1>6, <1>7, <1>8, <1>9, <1>10 DEF Next

\* The stop invariant holds in every reachable state: a stopped run is a row that
\* was created, and it is failed or gone.
THEOREM StopInvariance == Spec => []StopInv
<1>1. Init => StopInv
      BY DEF Init, StopInv, StopIsHonoured, RowsAreNumbered, StoppedAreRows, StopsARow,
         StopLabels, BootPc
<1>2. TypeInv /\ StopInv /\ [Next]_vars => StopInv'
      BY NextStops
<1> QED BY <1>1, <1>2, TypeInvariance, PTL DEF Spec

\* Once StopRun or a supersession has written "failed", the late results of all
\* the executions of that run, the queue processor and recovery leave it so,
\* until a resume: UpdateRunStatus's guard is enough, for any number of runs,
\* goroutines and restarts.
THEOREM StopHonoured == Spec => []StopIsHonoured
<1>1. StopInv => StopIsHonoured
      BY DEF StopInv
<1> QED BY <1>1, StopInvariance, PTL

=============================================================================
