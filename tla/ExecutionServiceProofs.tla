---------------------- MODULE ExecutionServiceProofs ----------------------
(***************************************************************************)
(* Theorems about ExecutionService, for every value of its constants.      *)
(***************************************************************************)
EXTENDS ExecutionService, FiniteSetTheorems, TLAPS

USE DEF RunIds, Requesters, Procs, Workers

-----------------------------------------------------------------------------
(* What the building blocks of the actions do to the variables.            *)

\* A write to a status column leaves a status in every row.
LEMMA WrittenType ==
  ASSUME DatabaseType, NEW r, NEW new \in Statuses
  PROVE  Written(r, new) \in [RunIds -> Statuses \cup {"absent"}]
BY DEF Written, DatabaseType

\* UpdateRunStatus keeps the types of the tables.
LEMMA WriteKeepsDatabase ==
  ASSUME DatabaseType, NEW r, NEW new \in Statuses, status' = Written(r, new),
         UNCHANGED <<pipe, group, cli, runCount, pipelines>>
  PROVE  DatabaseType'
BY WrittenType DEF DatabaseType

\* Pruning runs keeps the types of the tables.
LEMMA PruneKeepsDatabase ==
  ASSUME DatabaseType, NEW pl, status' \in Pruned(pl),
         UNCHANGED <<pipe, group, cli, runCount, pipelines>>
  PROVE  DatabaseType'
BY DEF DatabaseType, Pruned

\* Cancelling a context keeps the types of the flags.
LEMMA CancelKeepsFlags ==
  ASSUME FlagType, NEW r, cancelled' = CancelOf(r), UNCHANGED queueDone
  PROVE  FlagType'
<1>1. CASE registry[r] = None
      BY <1>1 DEF CancelOf, FlagType
<1>2. CASE registry[r] # None
      BY <1>2, Zenon DEF CancelOf, FlagType
<1> QED BY <1>1, <1>2

\* Waking the queue processor leaves every goroutine at a label.
LEMMA BroadcastType ==
  ASSUME NEW f \in [Procs -> PcLabels]
  PROVE  /\ Broadcast(f) \in [Procs -> PcLabels]
         /\ \A p \in Procs : Broadcast(f)[p] # f[p] =>
                p = Processor /\ Broadcast(f)[p] = "check"
BY DEF Broadcast, PcLabels

\* A goroutine that returns is at a label again.
LEMMA ReturnedType ==
  ASSUME PcType, NEW p \in Procs
  PROVE  /\ Returned(p) \in [Procs -> PcLabels]
         /\ Returned(p)[p] \in {"idle", "recover", "scan"}
         /\ p \in Callers => Returned(p)[p] = "idle"
         /\ \A q \in Procs : q # p => Returned(p)[q] = pc[q]
BY DEF Returned, HomePc, PcLabels, PcType

\* A goroutine that moves to a label is at a label.
LEMMA AtType ==
  ASSUME PcType, NEW p \in Procs, NEW l \in PcLabels
  PROVE  /\ At(p, l) \in [Procs -> PcLabels]
         /\ At(p, l)[p] = l
         /\ \A q \in Procs : q # p => At(p, l)[q] = pc[q]
BY DEF At, PcType

\* A request that ends leaves its locals well typed.
LEMMA ForgetType ==
  ASSUME LocalType, NEW p \in Procs, Forget(p)
  PROVE  /\ run' \in [Procs -> Nat]
         /\ run'[p] = 0
         /\ \A q \in Procs : q # p => run'[q] = run[q]
         /\ adm' \in [Callers -> AdmissionRecord]
         /\ \A c \in Callers : c # p => adm'[c] = adm[c]
BY DEF Forget, LocalType, AdmissionRecord, NoAdmission, GroupKeys, Actions

\* What the fields of an admission can hold.
LEMMA AdmissionFields ==
  ASSUME NEW a \in AdmissionRecord
  PROVE  a.group \in GroupKeys
BY DEF AdmissionRecord

\* The concurrency decision is one of the actions.
LEMMA DecideType ==
  ASSUME NEW pl, NEW g, NEW peers
  PROVE  /\ Decide(pl, g, peers) \in Actions
         /\ g = TemplateError => Decide(pl, g, peers) = "fail"
BY DEF Decide, Actions

\* A rendered template is a group key or an error.
LEMMA RenderedGroupsType ==
  ASSUME NEW pl \in Pipelines
  PROVE  RenderedGroups(pl) \subseteq GroupKeys \cup {TemplateError}
<1>1. Template[pl] \subseteq UNION {Template[q] : q \in Pipelines}
      OBVIOUS
<1>2. Template[pl] \subseteq Groups \cup {TemplateError}
      BY <1>1 DEF Groups
<1> QED BY <1>2 DEF RenderedGroups, GroupKeys

-----------------------------------------------------------------------------
(* Type correctness. *)

\* A caller that is deciding on an admission works for a stored pipeline, so
\* that the group it computes is a group key.
AdmissionHasPipeline ==
  \A c \in Callers : pc[c] = "resolve" => adm[c].pipeline \in Pipelines

TypeInv == TypeOK /\ AdmissionHasPipeline

\* A step that leaves admissions and control alone keeps AdmissionHasPipeline.
LEMMA AdmissionFrame ==
  ASSUME AdmissionHasPipeline,
         \A d \in Callers : pc'[d] = "resolve" =>
            pc[d] = "resolve" /\ adm'[d] = adm[d]
  PROVE  AdmissionHasPipeline'
BY DEF AdmissionHasPipeline

\* The service starts well typed.
LEMMA InitTypeInv == Init => TypeInv
<1> SUFFICES ASSUME Init PROVE TypeInv
    OBVIOUS
<1>1. DatabaseType /\ ServiceType
      BY DEF Init, DatabaseType, ServiceType, GroupKeys
<1>2. FlagType
      BY Zenon DEF Init, FlagType
<1>3. PcType
      BY DEF Init, PcType, BootPc, ProcessorPc, PcLabels
<1>4. AdmissionHasPipeline
      BY DEF Init, BootPc, AdmissionHasPipeline
<1>5. LocalType
      BY DEF Init, LocalType, AdmissionRecord, NoAdmission, GroupKeys, Actions
<1>6. ExecType /\ HistoryType
      BY ConstantsAssumption DEF Init, ExecType, HistoryType, ExecLabels, Outcomes
<1> QED BY <1>1, <1>2, <1>3, <1>4, <1>5, <1>6 DEF TypeInv, TypeOK

\* SyncReject keeps the type invariant.
LEMMA SyncRejectType ==
  ASSUME TypeInv, NEW c \in Callers, SyncReject(c)
  PROVE  TypeInv'
<1> USE DEF TypeInv, TypeOK
<1>1. DatabaseType'
      BY WriteKeepsDatabase DEF SyncReject, Statuses
<1>2. PcType'
      BY ReturnedType DEF SyncReject, PcType, PcLabels
<1>3. AdmissionHasPipeline'
  <2>1. \A d \in Callers : pc'[d] = "resolve" =>
             pc[d] = "resolve" /\ adm'[d] = adm[d]
        BY GoroutinesAssumption DEF SyncReject, PcType, PcLabels, LocalType,
           Returned, HomePc, Forget
  <2> QED BY <2>1, AdmissionFrame
<1>4. LocalType'
      BY ForgetType DEF SyncReject, LocalType
<1>5. ServiceType' /\ FlagType' /\ ExecType' /\ HistoryType'
      BY DEF SyncReject, ServiceType, FlagType, ExecType, HistoryType, execVars,
         history
<1> QED BY <1>1, <1>2, <1>3, <1>4, <1>5

\* SyncBegin keeps the type invariant.
LEMMA SyncBeginType ==
  ASSUME TypeInv, NEW c \in Callers, SyncBegin(c)
  PROVE  TypeInv'
<1> USE DEF TypeInv, TypeOK
<1>1. DatabaseType'
      BY WriteKeepsDatabase DEF SyncBegin, Statuses, DatabaseType, Active
<1>2. PcType'
      BY AtType DEF SyncBegin, PcType, PcLabels
<1>3. AdmissionHasPipeline'
  <2>1. \A d \in Callers : pc'[d] = "resolve" =>
             pc[d] = "resolve" /\ adm'[d] = adm[d]
        BY GoroutinesAssumption DEF SyncBegin, PcType, PcLabels, LocalType, At
  <2> QED BY <2>1, AdmissionFrame
<1>4. ServiceType' /\ FlagType' /\ LocalType' /\ ExecType' /\ HistoryType'
      BY DEF SyncBegin, ServiceType, FlagType, LocalType, ExecType, HistoryType,
         execVars, goVars, history
<1> QED BY <1>1, <1>2, <1>3, <1>4

\* SyncPreseed keeps the type invariant.
LEMMA SyncPreseedType ==
  ASSUME TypeInv, NEW c \in Callers, SyncPreseed(c)
  PROVE  TypeInv'
<1> USE DEF TypeInv, TypeOK
<1>1. ServiceType'
      BY DEF SyncPreseed, ServiceType
<1>2. PcType'
      BY ReturnedType, AtType DEF SyncPreseed, PcType, PcLabels
<1>3. AdmissionHasPipeline'
  <2>1. \A d \in Callers : pc'[d] = "resolve" =>
             pc[d] = "resolve" /\ adm'[d] = adm[d]
        BY GoroutinesAssumption DEF SyncPreseed, PcType, PcLabels, LocalType, At,
           Returned, HomePc, Forget
  <2> QED BY <2>1, AdmissionFrame
<1>4. LocalType'
      BY ForgetType DEF SyncPreseed, LocalType
<1>5. DatabaseType' /\ FlagType' /\ ExecType' /\ HistoryType'
      BY DEF SyncPreseed, DatabaseType, FlagType, ExecType, HistoryType, dbVars,
         execVars, history
<1> QED BY <1>1, <1>2, <1>3, <1>4, <1>5

\* SyncFinish keeps the type invariant.
LEMMA SyncFinishType ==
  ASSUME TypeInv, NEW c \in Callers, SyncFinish(c)
  PROVE  TypeInv'
<1> USE DEF TypeInv, TypeOK
<1>1. PcType'
      BY AtType DEF SyncFinish, PcType, PcLabels
<1>2. AdmissionHasPipeline'
  <2>1. \A d \in Callers : pc'[d] = "resolve" =>
             pc[d] = "resolve" /\ adm'[d] = adm[d]
        BY GoroutinesAssumption DEF SyncFinish, PcType, PcLabels, LocalType, At
  <2> QED BY <2>1, AdmissionFrame
<1>3. DatabaseType' /\ ServiceType' /\ FlagType' /\ LocalType' /\ ExecType' /\ HistoryType'
      BY DEF SyncFinish, DatabaseType, ServiceType, FlagType, LocalType,
         ExecType, HistoryType, dbVars, execVars, goVars, history
<1> QED BY <1>1, <1>2, <1>3

\* SyncWrite keeps the type invariant.
LEMMA SyncWriteType ==
  ASSUME TypeInv, NEW c \in Callers, SyncWrite(c)
  PROVE  TypeInv'
<1> USE DEF TypeInv, TypeOK
<1>1. DatabaseType'
      BY WriteKeepsDatabase DEF SyncWrite, Statuses, DatabaseType
<1>2. PcType'
      BY AtType DEF SyncWrite, PcType, PcLabels
<1>3. AdmissionHasPipeline'
  <2>1. \A d \in Callers : pc'[d] = "resolve" =>
             pc[d] = "resolve" /\ adm'[d] = adm[d]
        BY GoroutinesAssumption DEF SyncWrite, PcType, PcLabels, LocalType, At
  <2> QED BY <2>1, AdmissionFrame
<1>4. ServiceType' /\ FlagType' /\ LocalType' /\ ExecType' /\ HistoryType'
      BY DEF SyncWrite, ServiceType, FlagType, LocalType, ExecType, HistoryType,
         execVars, goVars, history
<1> QED BY <1>1, <1>2, <1>3, <1>4

\* SyncPrune keeps the type invariant.
LEMMA SyncPruneType ==
  ASSUME TypeInv, NEW c \in Callers, SyncPrune(c)
  PROVE  TypeInv'
<1> USE DEF TypeInv, TypeOK
<1>1. DatabaseType'
      BY PruneKeepsDatabase DEF SyncPrune, DatabaseType
<1>2. PcType'
      BY AtType DEF SyncPrune, PcType, PcLabels
<1>3. AdmissionHasPipeline'
  <2>1. \A d \in Callers : pc'[d] = "resolve" =>
             pc[d] = "resolve" /\ adm'[d] = adm[d]
        BY GoroutinesAssumption DEF SyncPrune, PcType, PcLabels, LocalType, At
  <2> QED BY <2>1, AdmissionFrame
<1>4. ServiceType' /\ FlagType' /\ LocalType' /\ ExecType' /\ HistoryType'
      BY DEF SyncPrune, ServiceType, FlagType, LocalType, ExecType, HistoryType,
         execVars, goVars, history
<1> QED BY <1>1, <1>2, <1>3, <1>4

\* SyncExit keeps the type invariant.
LEMMA SyncExitType ==
  ASSUME TypeInv, NEW c \in Callers, SyncExit(c)
  PROVE  TypeInv'
<1> USE DEF TypeInv, TypeOK
<1>1. ServiceType'
      BY DEF SyncExit, ServiceType
<1>2. FlagType'
      BY Zenon DEF SyncExit, FlagType
<1>3. PcType'
      BY ReturnedType DEF SyncExit, PcType, PcLabels
<1>4. AdmissionHasPipeline'
  <2>1. \A d \in Callers : pc'[d] = "resolve" =>
             pc[d] = "resolve" /\ adm'[d] = adm[d]
        BY GoroutinesAssumption DEF SyncExit, PcType, PcLabels, LocalType,
           Returned, HomePc, Forget
  <2> QED BY <2>1, AdmissionFrame
<1>5. LocalType'
      BY ForgetType DEF SyncExit, LocalType
<1>6. DatabaseType' /\ ExecType' /\ HistoryType'
      BY DEF SyncExit, DatabaseType, ExecType, HistoryType, dbVars, execVars,
         history
<1> QED BY <1>1, <1>2, <1>3, <1>4, <1>5, <1>6

\* StopRun keeps the type invariant.
LEMMA StopRunType ==
  ASSUME TypeInv, NEW c \in Callers, StopRun(c)
  PROVE  TypeInv'
<1> USE DEF TypeInv, TypeOK
<1>1. FlagType'
      BY CancelKeepsFlags DEF StopRun
<1>2. PcType'
      BY AtType DEF StopRun, PcType, PcLabels
<1>3. AdmissionHasPipeline'
  <2>1. \A d \in Callers : pc'[d] = "resolve" =>
             pc[d] = "resolve" /\ adm'[d] = adm[d]
        BY GoroutinesAssumption DEF StopRun, PcType, PcLabels, LocalType, At
  <2> QED BY <2>1, AdmissionFrame
<1>4. DatabaseType' /\ ServiceType' /\ LocalType' /\ ExecType' /\ HistoryType'
      BY DEF StopRun, DatabaseType, ServiceType, LocalType, ExecType,
         HistoryType, dbVars, execVars, goVars, history
<1> QED BY <1>1, <1>2, <1>3, <1>4

\* StopWrite keeps the type invariant.
LEMMA StopWriteType ==
  ASSUME TypeInv, NEW c \in Callers, StopWrite(c)
  PROVE  TypeInv'
<1> USE DEF TypeInv, TypeOK
<1>1. DatabaseType'
      BY WriteKeepsDatabase DEF StopWrite, Statuses
<1>2. PcType'
      BY ReturnedType DEF StopWrite, PcType, PcLabels
<1>3. AdmissionHasPipeline'
  <2>1. \A d \in Callers : pc'[d] = "resolve" =>
             pc[d] = "resolve" /\ adm'[d] = adm[d]
        BY GoroutinesAssumption DEF StopWrite, PcType, PcLabels, LocalType,
           Returned, HomePc, Forget
  <2> QED BY <2>1, AdmissionFrame
<1>4. LocalType'
      BY ForgetType DEF StopWrite, LocalType
<1>5. HistoryType'
      BY DEF StopWrite, LocalType, HistoryType
<1>6. ServiceType' /\ FlagType' /\ ExecType'
      BY DEF StopWrite, ServiceType, FlagType, ExecType, execVars
<1> QED BY <1>1, <1>2, <1>3, <1>4, <1>5, <1>6

\* Superseded keeps the type invariant.
LEMMA SupersededType ==
  ASSUME TypeInv, NEW c \in Callers, Superseded(c)
  PROVE  TypeInv'
<1> USE DEF TypeInv, TypeOK
<1>1. PcType'
      BY AtType DEF Superseded, PcType, PcLabels, AdmittedPc
<1>2. AdmissionHasPipeline'
  <2>1. \A d \in Callers : pc'[d] = "resolve" =>
             pc[d] = "resolve" /\ adm'[d] = adm[d]
        BY GoroutinesAssumption DEF Superseded, PcType, PcLabels, LocalType, At,
           AdmittedPc
  <2> QED BY <2>1, AdmissionFrame
<1>3. DatabaseType' /\ ServiceType' /\ FlagType' /\ LocalType' /\ ExecType' /\ HistoryType'
      BY DEF Superseded, DatabaseType, ServiceType, FlagType, LocalType,
         ExecType, HistoryType, dbVars, execVars, goVars, history
<1> QED BY <1>1, <1>2, <1>3

\* QueueWait keeps the type invariant.
LEMMA QueueWaitType ==
  ASSUME TypeInv, QueueWait
  PROVE  TypeInv'
<1> USE DEF TypeInv, TypeOK
<1>1. PcType'
      BY AtType DEF QueueWait, PcType, PcLabels
<1>2. AdmissionHasPipeline'
  <2>1. \A d \in Callers : pc'[d] = "resolve" =>
             pc[d] = "resolve" /\ adm'[d] = adm[d]
        BY GoroutinesAssumption DEF QueueWait, PcType, PcLabels, LocalType, At
  <2> QED BY <2>1, AdmissionFrame
<1>3. DatabaseType' /\ ServiceType' /\ FlagType' /\ LocalType' /\ ExecType' /\ HistoryType'
      BY DEF QueueWait, DatabaseType, ServiceType, FlagType, LocalType, ExecType,
         HistoryType, dbVars, execVars, goVars, history
<1> QED BY <1>1, <1>2, <1>3

\* QueueCheck keeps the type invariant.
LEMMA QueueCheckType ==
  ASSUME TypeInv, QueueCheck
  PROVE  TypeInv'
<1> USE DEF TypeInv, TypeOK
<1>1. PcType'
      BY AtType DEF QueueCheck, PcType, PcLabels
<1>2. AdmissionHasPipeline'
  <2>1. \A d \in Callers : pc'[d] = "resolve" =>
             pc[d] = "resolve" /\ adm'[d] = adm[d]
        BY GoroutinesAssumption DEF QueueCheck, PcType, PcLabels, LocalType, At
  <2> QED BY <2>1, AdmissionFrame
<1>3. DatabaseType' /\ ServiceType' /\ FlagType' /\ LocalType' /\ ExecType' /\ HistoryType'
      BY DEF QueueCheck, DatabaseType, ServiceType, FlagType, LocalType,
         ExecType, HistoryType, dbVars, execVars, goVars, history
<1> QED BY <1>1, <1>2, <1>3

\* Admit keeps the type invariant.
LEMMA AdmitType ==
  ASSUME TypeInv, NEW c \in Callers, NEW pl \in Pipelines, NEW sync \in BOOLEAN,
     Admit(c, pl, sync)
  PROVE  TypeInv'
<1> USE DEF TypeInv, TypeOK
<1>1. PcType'
      BY AtType DEF Admit, PcType, PcLabels
<1>2. LocalType' /\ AdmissionHasPipeline'
      BY DEF Admit, LocalType, PcType, PcLabels, At, AdmissionHasPipeline,
         AdmissionRecord, GroupKeys, Actions
<1>3. DatabaseType' /\ ServiceType' /\ FlagType' /\ ExecType' /\ HistoryType'
      BY DEF Admit, DatabaseType, ServiceType, FlagType, ExecType, HistoryType,
         dbVars, execVars, history
<1> QED BY <1>1, <1>2, <1>3

\* Stop keeps the type invariant.
LEMMA StopType ==
  ASSUME TypeInv, NEW c \in Callers, NEW r \in RunIds, Stop(c, r)
  PROVE  TypeInv'
<1> USE DEF TypeInv, TypeOK
<1>1. PcType'
      BY AtType DEF Stop, PcType, PcLabels
<1>2. AdmissionHasPipeline'
  <2>1. \A d \in Callers : pc'[d] = "resolve" =>
             pc[d] = "resolve" /\ adm'[d] = adm[d]
        BY GoroutinesAssumption DEF Stop, PcType, PcLabels, LocalType, At
  <2> QED BY <2>1, AdmissionFrame
<1>3. LocalType'
      BY DEF Stop, LocalType
<1>4. HistoryType'
      BY ConstantsAssumption DEF Stop, Counted, HistoryType
<1>5. DatabaseType' /\ ServiceType' /\ FlagType' /\ ExecType'
      BY DEF Stop, DatabaseType, ServiceType, FlagType, ExecType, dbVars, execVars
<1> QED BY <1>1, <1>2, <1>3, <1>4, <1>5

\* Resume keeps the type invariant.
LEMMA ResumeType ==
  ASSUME TypeInv, NEW c \in Callers, NEW r \in RunIds, Resume(c, r)
  PROVE  TypeInv'
<1> USE DEF TypeInv, TypeOK
<1>1. PcType'
      BY AtType DEF Resume, PcType, PcLabels
<1>2. AdmissionHasPipeline'
  <2>1. \A d \in Callers : pc'[d] = "resolve" =>
             pc[d] = "resolve" /\ adm'[d] = adm[d]
        BY GoroutinesAssumption DEF Resume, PcType, PcLabels, LocalType, At
  <2> QED BY <2>1, AdmissionFrame
<1>3. LocalType'
      BY DEF Resume, LocalType
<1>4. HistoryType'
      BY ConstantsAssumption DEF Resume, Counted, HistoryType
<1>5. DatabaseType' /\ ServiceType' /\ FlagType' /\ ExecType'
      BY DEF Resume, DatabaseType, ServiceType, FlagType, ExecType, dbVars, execVars
<1> QED BY <1>1, <1>2, <1>3, <1>4, <1>5

\* DeletePipeline keeps the type invariant.
LEMMA DeletePipelineType ==
  ASSUME TypeInv, NEW pl \in Pipelines, DeletePipeline(pl)
  PROVE  TypeInv'
<1> USE DEF TypeInv, TypeOK
<1>1. DatabaseType'
      BY DEF DeletePipeline, DatabaseType
<1>2. HistoryType'
      BY ConstantsAssumption DEF DeletePipeline, Counted, HistoryType
<1>3. ServiceType' /\ FlagType' /\ PcType' /\ LocalType' /\ ExecType' /\ AdmissionHasPipeline'
      BY DEF DeletePipeline, ServiceType, FlagType, PcType, LocalType, ExecType,
         execVars, goVars, AdmissionHasPipeline
<1> QED BY <1>1, <1>2, <1>3

\* ResolveConcurrency keeps the type invariant.
LEMMA ResolveConcurrencyType ==
  ASSUME TypeInv, NEW c \in Callers, ResolveConcurrency(c)
  PROVE  TypeInv'
<1> USE DEF TypeInv, TypeOK
<1>1. PcType'
      BY AtType DEF ResolveConcurrency, PcType, PcLabels
<1>2. LocalType' /\ AdmissionHasPipeline'
  <2>1. PICK g \in RenderedGroups(adm[c].pipeline) :
          LET peers == ActivePeers(adm[c].pipeline, g)
              act == Decide(adm[c].pipeline, g, peers)
          IN /\ adm' = [adm EXCEPT ![c] =
                       [sync |-> adm[c].sync, pipeline |-> adm[c].pipeline,
                       act |-> act,
                        group |-> IF act = "fail" THEN NoGroup ELSE g]]
             /\ todo' = [todo EXCEPT ![c] =
                        IF act = "cancel"
                        THEN {<<r, status[r]>> : r \in peers} ELSE {}]
        BY DEF ResolveConcurrency
  <2> DEFINE peers == ActivePeers(adm[c].pipeline, g)
             act == Decide(adm[c].pipeline, g, peers)
             grp == IF act = "fail" THEN NoGroup ELSE g
  <2>2. adm[c] \in AdmissionRecord /\ adm[c].pipeline \in Pipelines
        BY DEF LocalType, AdmissionHasPipeline, ResolveConcurrency
  <2>3. act \in Actions /\ grp \in GroupKeys
        BY <2>2, DecideType, RenderedGroupsType DEF GroupKeys
  <2>4. {<<r, status[r]>> : r \in peers}
          \subseteq RunIds \X {"queued", "running", "stopping", "superseded"}
        BY DEF ActivePeers, Active
  <2> HIDE DEF peers, act, grp
  <2>5. adm' = [adm EXCEPT ![c] = [sync |-> adm[c].sync,
  pipeline |-> adm[c].pipeline,
                                   act |-> act, group |-> grp]]
        BY <2>1 DEF act, grp, peers
  <2>6. adm' \in [Callers -> AdmissionRecord] /\ adm'[c].pipeline = adm[c].pipeline
        BY <2>2, <2>3, <2>5 DEF LocalType, AdmissionRecord
  <2>7. todo' = [todo EXCEPT ![c] = IF act = "cancel"
                                    THEN {<<r, status[r]>> : r \in peers} ELSE {}]
        BY <2>1 DEF act, peers
  <2>8. LocalType'
        BY <2>4, <2>6, <2>7 DEF LocalType, ResolveConcurrency
  <2>9. AdmissionHasPipeline'
        BY <2>2, <2>5, <2>6 DEF AdmissionHasPipeline, ResolveConcurrency, At,
           PcType, LocalType
  <2> QED BY <2>8, <2>9
<1>3. DatabaseType' /\ ServiceType' /\ FlagType' /\ ExecType' /\ HistoryType'
      BY DEF ResolveConcurrency, DatabaseType, ServiceType, FlagType, ExecType,
         HistoryType, dbVars, execVars, history
<1> QED BY <1>1, <1>2, <1>3

\* SaveRun keeps the type invariant.
LEMMA SaveRunType ==
  ASSUME TypeInv, NEW c \in Callers, SaveRun(c)
  PROVE  TypeInv'
<1> USE DEF TypeInv, TypeOK
<1>1. DatabaseType'
  <2>1. CASE adm[c].pipeline \notin pipelines
        BY <2>1 DEF SaveRun, DatabaseType, dbVars
  <2>2. CASE adm[c].pipeline \in pipelines
    <3>1. SavedStatus(adm[c].act) \in Statuses
          BY DEF SavedStatus, Statuses, Active
    <3>2. adm[c] \in AdmissionRecord
          BY DEF LocalType
    <3>3. adm[c].group \in GroupKeys
          BY <3>2, AdmissionFields
    <3>4. /\ runCount' = runCount + 1
          /\ status' = [status EXCEPT ![runCount + 1] = SavedStatus(adm[c].act)]
          /\ pipe' = [pipe EXCEPT ![runCount + 1] = adm[c].pipeline]
          /\ group' = [group EXCEPT ![runCount + 1] = adm[c].group]
          /\ cli' = cli \/ cli' = cli \cup {runCount + 1}
          /\ pipelines' = pipelines
          BY <2>2 DEF SaveRun
    <3>5. status' \in [RunIds -> Statuses \cup {"absent"}]
          BY <3>1, <3>4 DEF DatabaseType
    <3>6. pipe' \in [RunIds -> Pipelines \cup {None}]
          BY <2>2, <3>4 DEF DatabaseType
    <3>7. group' \in [RunIds -> GroupKeys]
          BY <3>3, <3>4 DEF DatabaseType
    <3>8. runCount' \in Nat /\ pipelines' \subseteq Pipelines
          BY <3>4 DEF DatabaseType
    <3>9. cli' \subseteq Nat
      <4>1. cli \subseteq Nat /\ runCount + 1 \in Nat
            BY DEF DatabaseType
      <4> QED BY <3>4, <4>1
    <3> QED BY <3>5, <3>6, <3>7, <3>8, <3>9 DEF DatabaseType
  <2> QED BY <2>1, <2>2
<1>2. PcType'
      BY ReturnedType, AtType DEF SaveRun, PcType, PcLabels, AdmittedPc
<1>3. AdmissionHasPipeline'
  <2>1. \A d \in Callers : pc'[d] = "resolve" =>
             pc[d] = "resolve" /\ adm'[d] = adm[d]
        BY GoroutinesAssumption DEF SaveRun, PcType, PcLabels, LocalType, At,
           Returned, HomePc, Forget, AdmittedPc
  <2> QED BY <2>1, AdmissionFrame
<1>4. LocalType'
  <2>1. runCount + 1 \in Nat
        BY DEF DatabaseType
  <2> QED BY <2>1, ForgetType DEF SaveRun, LocalType
<1>5. ServiceType' /\ FlagType' /\ ExecType' /\ HistoryType'
      BY DEF SaveRun, ServiceType, FlagType, ExecType, HistoryType, execVars,
         history
<1> QED BY <1>1, <1>2, <1>3, <1>4, <1>5

\* Supersede keeps the type invariant.
LEMMA SupersedeType ==
  ASSUME TypeInv, NEW c \in Callers, Supersede(c)
  PROVE  TypeInv'
<1> USE DEF TypeInv, TypeOK
<1>1. DatabaseType'
      BY WriteKeepsDatabase DEF Supersede, Statuses, DatabaseType
<1>2. FlagType'
  <2>1. CASE UNCHANGED cancelled
        BY <2>1 DEF Supersede, FlagType
  <2>2. CASE \E r : cancelled' = CancelOf(r)
        BY <2>2, CancelKeepsFlags DEF Supersede
  <2> QED BY <2>1, <2>2 DEF Supersede
<1>3. LocalType' /\ HistoryType'
  <2>1. PICK x \in todo[c] :
          /\ \/ todo' = [todo EXCEPT ![c] = @ \ {x}]
             \/ \E l \in {"stopping", "superseded"} :
                  todo' = [todo EXCEPT ![c] = (@ \ {x}) \cup {<<x[1], l>>}]
          /\ stopped' \in {stopped, stopped \cup {x[1]}}
        BY DEF Supersede, OldestPeer, LocalType
  <2>2. x \in RunIds \X {"queued", "running", "stopping", "superseded"}
        BY DEF LocalType
  <2>3. x[1] \in RunIds
        BY <2>2
  <2> QED BY <2>1, <2>2, <2>3 DEF Supersede, LocalType, HistoryType
<1>4. ServiceType' /\ PcType' /\ ExecType' /\ AdmissionHasPipeline'
      BY DEF Supersede, ServiceType, PcType, ExecType, execVars, goVars,
         AdmissionHasPipeline
<1> QED BY <1>1, <1>2, <1>3, <1>4

\* DispatchOrQueue keeps the type invariant.
LEMMA DispatchOrQueueType ==
  ASSUME TypeInv, NEW p \in Procs, DispatchOrQueue(p)
  PROVE  TypeInv'
<1> USE DEF TypeInv, TypeOK
<1>1. PcType'
  <2>1. CASE pc' = At(p, "start")
        BY <2>1, AtType DEF PcType, PcLabels
  <2>2. CASE pc' = Broadcast(Returned(p))
        BY <2>2, BroadcastType, ReturnedType DEF PcType
  <2> QED BY <2>1, <2>2 DEF DispatchOrQueue
<1>2. AdmissionHasPipeline'
  <2>1. \A d \in Callers : pc'[d] = "resolve" =>
             pc[d] = "resolve" /\ adm'[d] = adm[d]
        BY GoroutinesAssumption DEF DispatchOrQueue, PcType, PcLabels, LocalType,
           At, Returned, HomePc, Broadcast, Forget
  <2> QED BY <2>1, AdmissionFrame
<1>3. LocalType'
      BY ForgetType DEF DispatchOrQueue, LocalType
<1>4. DatabaseType' /\ ServiceType' /\ FlagType' /\ ExecType' /\ HistoryType'
      BY DEF DispatchOrQueue, DatabaseType, ServiceType, FlagType, ExecType,
         HistoryType, dbVars, execVars, history
<1> QED BY <1>1, <1>2, <1>3, <1>4

\* DispatchRun keeps the type invariant.
LEMMA DispatchRunType ==
  ASSUME TypeInv, NEW p \in Procs, DispatchRun(p)
  PROVE  TypeInv'
<1> USE DEF TypeInv, TypeOK
<1>1. ServiceType'
      BY DEF DispatchRun, ServiceType
<1>2. PcType'
      BY ReturnedType DEF DispatchRun, PcType, PcLabels
<1>3. AdmissionHasPipeline'
  <2>1. \A d \in Callers : pc'[d] = "resolve" =>
             pc[d] = "resolve" /\ adm'[d] = adm[d]
        BY GoroutinesAssumption DEF DispatchRun, PcType, PcLabels, LocalType,
           Returned, HomePc, Forget
  <2> QED BY <2>1, AdmissionFrame
<1>4. LocalType'
      BY ForgetType DEF DispatchRun, LocalType
<1>5. ExecType'
  <2>1. PICK e \in Execs : /\ epc' = [epc EXCEPT ![e] = "register"]
                             /\ erun' = [erun EXCEPT ![e] = run[p]]
        BY DEF DispatchRun
  <2> QED BY <2>1 DEF DispatchRun, ExecType, ExecLabels, LocalType
<1>6. DatabaseType' /\ FlagType' /\ HistoryType'
      BY DEF DispatchRun, DatabaseType, FlagType, HistoryType, dbVars, history
<1> QED BY <1>1, <1>2, <1>3, <1>4, <1>5, <1>6

\* ResumeReset keeps the type invariant.
LEMMA ResumeResetType ==
  ASSUME TypeInv, NEW p \in Procs, ResumeReset(p)
  PROVE  TypeInv'
<1> USE DEF TypeInv, TypeOK
<1>1. DatabaseType'
      BY WriteKeepsDatabase DEF ResumeReset, Statuses, Active, DatabaseType
<1>2. PcType'
      BY ReturnedType, AtType DEF ResumeReset, PcType, PcLabels
<1>3. AdmissionHasPipeline'
  <2>1. \A d \in Callers : pc'[d] = "resolve" =>
             pc[d] = "resolve" /\ adm'[d] = adm[d]
        BY GoroutinesAssumption DEF ResumeReset, PcType, PcLabels, LocalType, At,
           Returned, HomePc, Forget
  <2> QED BY <2>1, AdmissionFrame
<1>4. LocalType'
      BY ForgetType DEF ResumeReset, LocalType
<1>5. HistoryType'
      BY DEF ResumeReset, HistoryType
<1>6. ServiceType' /\ FlagType' /\ ExecType'
      BY DEF ResumeReset, ServiceType, FlagType, ExecType, execVars
<1> QED BY <1>1, <1>2, <1>3, <1>4, <1>5, <1>6

\* ExecRegister keeps the type invariant.
LEMMA ExecRegisterType ==
  ASSUME TypeInv, NEW e \in Execs, ExecRegister(e)
  PROVE  TypeInv'
<1> USE DEF TypeInv, TypeOK
<1>1. ServiceType'
      BY DEF ExecRegister, ServiceType
<1>2. ExecType'
      BY DEF ExecRegister, ExecType, ExecLabels
<1>3. DatabaseType' /\ FlagType' /\ PcType' /\ LocalType' /\ HistoryType' /\ AdmissionHasPipeline'
      BY DEF ExecRegister, DatabaseType, FlagType, PcType, LocalType,
         HistoryType, dbVars, goVars, history, AdmissionHasPipeline
<1> QED BY <1>1, <1>2, <1>3

\* ExecBegin keeps the type invariant.
LEMMA ExecBeginType ==
  ASSUME TypeInv, NEW e \in Execs, ExecBegin(e)
  PROVE  TypeInv'
<1> USE DEF TypeInv, TypeOK
<1>1. DatabaseType'
      BY WriteKeepsDatabase DEF ExecBegin, Statuses, Active
<1>2. ExecType'
      BY DEF ExecBegin, ExecType, ExecLabels
<1>3. ServiceType' /\ FlagType' /\ PcType' /\ LocalType' /\ HistoryType' /\ AdmissionHasPipeline'
      BY DEF ExecBegin, ServiceType, FlagType, PcType, LocalType, HistoryType,
         goVars, history, AdmissionHasPipeline
<1> QED BY <1>1, <1>2, <1>3

\* ExecFinish keeps the type invariant.
LEMMA ExecFinishType ==
  ASSUME TypeInv, NEW e \in Execs, ExecFinish(e)
  PROVE  TypeInv'
<1> USE DEF TypeInv, TypeOK
<1>1. ExecType'
      BY DEF ExecFinish, ExecType, ExecLabels, Outcomes
<1>2. DatabaseType' /\ ServiceType' /\ FlagType' /\ PcType' /\ LocalType' /\ HistoryType' /\ AdmissionHasPipeline'
      BY DEF ExecFinish, DatabaseType, ServiceType, FlagType, PcType, LocalType,
         HistoryType, dbVars, goVars, history, AdmissionHasPipeline
<1> QED BY <1>1, <1>2

\* ExecWrite keeps the type invariant.
LEMMA ExecWriteType ==
  ASSUME TypeInv, NEW e \in Execs, ExecWrite(e)
  PROVE  TypeInv'
<1> USE DEF TypeInv, TypeOK
<1>1. DatabaseType'
  <2>1. FinalStatus(eout[e]) \in Statuses
        BY DEF ExecType, FinalStatus, Outcomes, Statuses
  <2> QED BY <2>1, WriteKeepsDatabase DEF ExecWrite
<1>2. ExecType'
      BY DEF ExecWrite, ExecType, ExecLabels, Outcomes
<1>3. ServiceType' /\ FlagType' /\ PcType' /\ LocalType' /\ HistoryType' /\ AdmissionHasPipeline'
      BY DEF ExecWrite, ServiceType, FlagType, PcType, LocalType, HistoryType,
         goVars, history, AdmissionHasPipeline
<1> QED BY <1>1, <1>2, <1>3

\* ExecPrune keeps the type invariant.
LEMMA ExecPruneType ==
  ASSUME TypeInv, NEW e \in Execs, ExecPrune(e)
  PROVE  TypeInv'
<1> USE DEF TypeInv, TypeOK
<1>1. DatabaseType'
      BY PruneKeepsDatabase DEF ExecPrune
<1>2. ExecType'
      BY DEF ExecPrune, ExecType, ExecLabels
<1>3. ServiceType' /\ FlagType' /\ PcType' /\ LocalType' /\ HistoryType' /\ AdmissionHasPipeline'
      BY DEF ExecPrune, ServiceType, FlagType, PcType, LocalType, HistoryType,
         goVars, history, AdmissionHasPipeline
<1> QED BY <1>1, <1>2, <1>3

\* ExecUnregister keeps the type invariant.
LEMMA ExecUnregisterType ==
  ASSUME TypeInv, NEW e \in Execs, ExecUnregister(e)
  PROVE  TypeInv'
<1> USE DEF TypeInv, TypeOK
<1>1. ServiceType'
      BY DEF ExecUnregister, ServiceType
<1>2. ExecType'
      BY DEF ExecUnregister, ExecType, ExecLabels
<1>3. DatabaseType' /\ FlagType' /\ PcType' /\ LocalType' /\ HistoryType' /\ AdmissionHasPipeline'
      BY DEF ExecUnregister, DatabaseType, FlagType, PcType, LocalType,
         HistoryType, dbVars, goVars, history, AdmissionHasPipeline
<1> QED BY <1>1, <1>2, <1>3

\* ExecRelease keeps the type invariant.
LEMMA ExecReleaseType ==
  ASSUME TypeInv, NEW e \in Execs, ExecRelease(e)
  PROVE  TypeInv'
<1> USE DEF TypeInv, TypeOK
<1>1. ServiceType'
      BY DEF ExecRelease, ServiceType
<1>2. FlagType'
      BY Zenon DEF ExecRelease, FlagType
<1>3. PcType'
      BY BroadcastType DEF ExecRelease, PcType, PcLabels
<1>4. AdmissionHasPipeline'
  <2>1. \A d \in Callers : pc'[d] = "resolve" =>
             pc[d] = "resolve" /\ adm'[d] = adm[d]
        BY GoroutinesAssumption DEF ExecRelease, PcType, PcLabels, LocalType,
           Broadcast
  <2> QED BY <2>1, AdmissionFrame
<1>5. ExecType'
      BY DEF ExecRelease, ExecType, ExecLabels
<1>6. DatabaseType' /\ LocalType' /\ HistoryType'
      BY DEF ExecRelease, DatabaseType, LocalType, HistoryType, dbVars, goVars,
         history
<1> QED BY <1>1, <1>2, <1>3, <1>4, <1>5, <1>6

\* QueueList keeps the type invariant.
LEMMA QueueListType ==
  ASSUME TypeInv, QueueList
  PROVE  TypeInv'
<1> USE DEF TypeInv, TypeOK
<1>1. PcType'
      BY AtType DEF QueueList, PcType, PcLabels
<1>2. AdmissionHasPipeline'
  <2>1. \A d \in Callers : pc'[d] = "resolve" =>
             pc[d] = "resolve" /\ adm'[d] = adm[d]
        BY GoroutinesAssumption DEF QueueList, PcType, PcLabels, LocalType, At
  <2> QED BY <2>1, AdmissionFrame
<1>3. LocalType'
  <2>1. {<<r, "queued">> : r \in RunsIn("queued")}
          \subseteq RunIds \X {"queued", "running", "stopping", "superseded"}
        BY DEF RunsIn
  <2> QED BY <2>1 DEF QueueList, LocalType
<1>4. DatabaseType' /\ ServiceType' /\ FlagType' /\ ExecType' /\ HistoryType'
      BY DEF QueueList, DatabaseType, ServiceType, FlagType, ExecType,
         HistoryType, dbVars, execVars, history
<1> QED BY <1>1, <1>2, <1>3, <1>4

\* QueueGroups keeps the type invariant.
LEMMA QueueGroupsType ==
  ASSUME TypeInv, QueueGroups
  PROVE  TypeInv'
<1> USE DEF TypeInv, TypeOK
<1>1. PcType'
      BY AtType DEF QueueGroups, PcType, PcLabels
<1>2. AdmissionHasPipeline'
  <2>1. \A d \in Callers : pc'[d] = "resolve" =>
             pc[d] = "resolve" /\ adm'[d] = adm[d]
        BY GoroutinesAssumption DEF QueueGroups, PcType, PcLabels, LocalType, At
  <2> QED BY <2>1, AdmissionFrame
<1>3. LocalType'
  <2>1. {group[r] : r \in RunsIn("running")} \subseteq GroupKeys
        BY DEF RunsIn, DatabaseType
  <2> QED BY <2>1 DEF QueueGroups, LocalType
<1>4. DatabaseType' /\ ServiceType' /\ FlagType' /\ ExecType' /\ HistoryType'
      BY DEF QueueGroups, DatabaseType, ServiceType, FlagType, ExecType,
         HistoryType, dbVars, execVars, history
<1> QED BY <1>1, <1>2, <1>3, <1>4

\* QueueScan keeps the type invariant.
LEMMA QueueScanType ==
  ASSUME TypeInv, QueueScan
  PROVE  TypeInv'
<1> USE DEF TypeInv, TypeOK
<1>1. DatabaseType'
      BY WriteKeepsDatabase DEF QueueScan, Statuses, DatabaseType
<1>2. PcType'
      BY AtType DEF QueueScan, PcType, PcLabels
<1>3. AdmissionHasPipeline'
  <2>1. \A d \in Callers : pc'[d] = "resolve" =>
             pc[d] = "resolve" /\ adm'[d] = adm[d]
        BY GoroutinesAssumption DEF QueueScan, PcType, PcLabels, LocalType, At
  <2> QED BY <2>1, AdmissionFrame
<1>4. LocalType'
  <2>1. PICK r \in {x[1] : x \in todo[Processor]} :
          /\ todo' = [todo EXCEPT ![Processor] = @ \ {<<r, "queued">>}]
          /\ run' \in {run, [run EXCEPT ![Processor] = r]}
          /\ busy' \in {busy, (busy \cup {group[r]}) \ {NoGroup}}
        BY DEF QueueScan, NewestFirst
  <2>2. r \in RunIds
        BY DEF LocalType
  <2>3. group[r] \in GroupKeys
        BY <2>2 DEF DatabaseType
  <2> QED BY <2>1, <2>2, <2>3 DEF QueueScan, LocalType
<1>5. ServiceType' /\ FlagType' /\ ExecType' /\ HistoryType'
      BY DEF QueueScan, ServiceType, FlagType, ExecType, HistoryType, execVars,
         history
<1> QED BY <1>1, <1>2, <1>3, <1>4, <1>5

\* QueueTickEnd keeps the type invariant.
LEMMA QueueTickEndType ==
  ASSUME TypeInv, QueueTickEnd
  PROVE  TypeInv'
<1> USE DEF TypeInv, TypeOK
<1>1. PcType'
      BY AtType DEF QueueTickEnd, PcType, PcLabels
<1>2. AdmissionHasPipeline'
  <2>1. \A d \in Callers : pc'[d] = "resolve" =>
             pc[d] = "resolve" /\ adm'[d] = adm[d]
        BY GoroutinesAssumption DEF QueueTickEnd, PcType, PcLabels, LocalType, At
  <2> QED BY <2>1, AdmissionFrame
<1>3. LocalType'
      BY DEF QueueTickEnd, LocalType
<1>4. DatabaseType' /\ ServiceType' /\ FlagType' /\ ExecType' /\ HistoryType'
      BY DEF QueueTickEnd, DatabaseType, ServiceType, FlagType, ExecType,
         HistoryType, dbVars, execVars, history
<1> QED BY <1>1, <1>2, <1>3, <1>4

\* RecoverList keeps the type invariant.
LEMMA RecoverListType ==
  ASSUME TypeInv, RecoverList
  PROVE  TypeInv'
<1> USE DEF TypeInv, TypeOK
<1>1. PcType'
      BY AtType DEF RecoverList, PcType, PcLabels
<1>2. AdmissionHasPipeline'
  <2>1. \A d \in Callers : pc'[d] = "resolve" =>
             pc[d] = "resolve" /\ adm'[d] = adm[d]
        BY GoroutinesAssumption DEF RecoverList, PcType, PcLabels, LocalType, At
  <2> QED BY <2>1, AdmissionFrame
<1>3. LocalType'
  <2>1. {<<r, "running">> : r \in RunsIn("running")}
          \subseteq RunIds \X {"queued", "running", "stopping", "superseded"}
        BY DEF RunsIn
  <2> QED BY <2>1 DEF RecoverList, LocalType
<1>4. DatabaseType' /\ ServiceType' /\ FlagType' /\ ExecType' /\ HistoryType'
      BY DEF RecoverList, DatabaseType, ServiceType, FlagType, ExecType,
         HistoryType, dbVars, execVars, history
<1> QED BY <1>1, <1>2, <1>3, <1>4

\* RecoverRun keeps the type invariant.
LEMMA RecoverRunType ==
  ASSUME TypeInv, RecoverRun
  PROVE  TypeInv'
<1> USE DEF TypeInv, TypeOK
<1>1. DatabaseType'
      BY WriteKeepsDatabase DEF RecoverRun, Statuses, DatabaseType
<1>2. PcType'
      BY AtType DEF RecoverRun, PcType, PcLabels
<1>3. AdmissionHasPipeline'
  <2>1. \A d \in Callers : pc'[d] = "resolve" =>
             pc[d] = "resolve" /\ adm'[d] = adm[d]
        BY GoroutinesAssumption DEF RecoverRun, PcType, PcLabels, LocalType, At
  <2> QED BY <2>1, AdmissionFrame
<1>4. LocalType'
  <2>1. PICK r \in {x[1] : x \in todo[Boot]} :
          /\ todo' = [todo EXCEPT ![Boot] = @ \ {<<r, "running">>}]
          /\ run' \in {run, [run EXCEPT ![Boot] = r]}
        BY DEF RecoverRun, NewestFirst
  <2>2. r \in RunIds
        BY DEF LocalType
  <2> QED BY <2>1, <2>2 DEF RecoverRun, LocalType
<1>5. ServiceType' /\ FlagType' /\ ExecType' /\ HistoryType'
      BY DEF RecoverRun, ServiceType, FlagType, ExecType, HistoryType, execVars,
         history
<1> QED BY <1>1, <1>2, <1>3, <1>4, <1>5

\* RecoverEnd keeps the type invariant.
LEMMA RecoverEndType ==
  ASSUME TypeInv, RecoverEnd
  PROVE  TypeInv'
<1> USE DEF TypeInv, TypeOK
<1>1. PcType'
      BY BroadcastType, AtType DEF RecoverEnd, PcType, PcLabels
<1>2. AdmissionHasPipeline'
  <2>1. \A d \in Callers : pc'[d] = "resolve" =>
             pc[d] = "resolve" /\ adm'[d] = adm[d]
        BY GoroutinesAssumption DEF RecoverEnd, PcType, PcLabels, LocalType, At,
           Broadcast
  <2> QED BY <2>1, AdmissionFrame
<1>3. DatabaseType' /\ ServiceType' /\ FlagType' /\ LocalType' /\ ExecType' /\ HistoryType'
      BY DEF RecoverEnd, DatabaseType, ServiceType, FlagType, LocalType,
         ExecType, HistoryType, dbVars, execVars, goVars, history
<1> QED BY <1>1, <1>2, <1>3

\* Shutdown keeps the type invariant.
LEMMA ShutdownType ==
  ASSUME TypeInv, Shutdown
  PROVE  TypeInv'
<1> USE DEF TypeInv, TypeOK
<1>1. FlagType'
      BY Zenon DEF Shutdown, FlagType
<1>2. PcType'
      BY BroadcastType DEF Shutdown, PcType, PcLabels
<1>3. AdmissionHasPipeline'
  <2>1. \A d \in Callers : pc'[d] = "resolve" =>
             pc[d] = "resolve" /\ adm'[d] = adm[d]
        BY GoroutinesAssumption DEF Shutdown, PcType, PcLabels, LocalType, Broadcast
  <2> QED BY <2>1, AdmissionFrame
<1>4. DatabaseType' /\ ServiceType' /\ LocalType' /\ ExecType' /\ HistoryType'
      BY DEF Shutdown, DatabaseType, ServiceType, LocalType, ExecType,
         HistoryType, dbVars, execVars, goVars, history
<1> QED BY <1>1, <1>2, <1>3, <1>4

\* A restart, by a crash or SIGTERM, starts well typed on the rows it finds.
LEMMA RestartType ==
  ASSUME TypeInv, Restart
  PROVE  TypeInv'
<1> USE DEF TypeInv, TypeOK
<1>1. ServiceType'
      BY DEF Restart, ServiceType
<1>2. FlagType'
      BY Zenon DEF Restart, FlagType
<1>3. PcType'
      BY DEF Restart, BootPc, ProcessorPc, PcType, PcLabels
<1>4. AdmissionHasPipeline'
      BY DEF Restart, BootPc, AdmissionHasPipeline
<1>5. LocalType'
      BY DEF Restart, LocalType, AdmissionRecord, NoAdmission, GroupKeys, Actions
<1>6. ExecType'
      BY DEF Restart, ExecType, ExecLabels, Outcomes
<1>7. HistoryType'
      BY ConstantsAssumption DEF Restart, HistoryType
<1>8. DatabaseType'
      BY DEF Restart, DatabaseType, dbVars
<1> QED BY <1>1, <1>2, <1>3, <1>4, <1>5, <1>6, <1>7, <1>8

\* Every step keeps the type invariant: one case per action.
LEMMA NextTypeInv ==
  ASSUME TypeInv, [Next]_vars
  PROVE  TypeInv'
<1>1. ASSUME NEW c \in Callers, Request(c) PROVE TypeInv'
  <2>1. ASSUME NEW pl \in Pipelines, Trigger(c, pl) \/ RunByNameSync(c, pl)
        PROVE  TypeInv'
        BY <2>1, AdmitType DEF Trigger, RunByNameSync
  <2>2. ASSUME NEW r \in RunIds, Stop(c, r) \/ Resume(c, r) PROVE TypeInv'
        BY <2>2, StopType, ResumeType
  <2> QED BY <1>1, <2>1, <2>2 DEF Request
<1>2. ASSUME NEW p \in Procs, RequestStep(p) PROVE TypeInv'
      BY <1>2, DispatchOrQueueType, DispatchRunType, ResumeResetType DEF RequestStep
<1>3. ASSUME NEW c \in Callers, CallerStep(c) PROVE TypeInv'
      BY <1>2, <1>3, ResolveConcurrencyType, SaveRunType, SupersedeType,
         SupersededType, SyncRejectType, SyncBeginType, SyncPreseedType,
         SyncFinishType, SyncWriteType, SyncPruneType, SyncExitType, StopRunType,
         StopWriteType DEF CallerStep
<1>4. ASSUME NEW e \in Execs, ExecStep(e) PROVE TypeInv'
      BY <1>4, ExecRegisterType, ExecBeginType, ExecFinishType, ExecWriteType,
         ExecPruneType, ExecUnregisterType, ExecReleaseType DEF ExecStep
<1>5. CASE ProcessorStep
      BY <1>5, QueueCheckType, QueueWaitType, QueueListType, QueueGroupsType,
         QueueScanType, QueueTickEndType, DispatchRunType DEF ProcessorStep
<1>6. CASE BootStep
      BY <1>2, <1>6, RecoverListType, RecoverRunType, RecoverEndType DEF BootStep
<1>7. ASSUME NEW pl \in Pipelines, DeletePipeline(pl) PROVE TypeInv'
      BY <1>7, DeletePipelineType
<1>8. CASE Crash \/ Sigterm \/ ShutdownReturns
      BY <1>8, RestartType DEF Crash, Sigterm, ShutdownReturns
<1>9. CASE Shutdown
      BY <1>9, ShutdownType
<1>10. CASE UNCHANGED vars
  <2>1. DatabaseType' /\ ServiceType' /\ PcType'
        BY <1>10 DEF vars, DatabaseType, ServiceType, PcType, TypeInv, TypeOK
  <2>2. LocalType' /\ ExecType' /\ HistoryType'
        BY <1>10 DEF vars, LocalType, ExecType, HistoryType, TypeInv, TypeOK
  <2>3. FlagType' /\ AdmissionHasPipeline'
        BY <1>10 DEF vars, FlagType, AdmissionHasPipeline, TypeInv, TypeOK
  <2> QED BY <2>1, <2>2, <2>3 DEF TypeInv, TypeOK
<1> QED BY <1>1, <1>3, <1>4, <1>5, <1>6, <1>7, <1>8, <1>9, <1>10 DEF Next

\* The type invariant of the execution service holds in every reachable state,
\* and a request that is being admitted has a pipeline.
THEOREM TypeInvariance == Spec => []TypeInv
<1>1. Init => TypeInv
      BY InitTypeInv
<1>2. TypeInv /\ [Next]_vars => TypeInv'
      BY NextTypeInv
<1> QED BY <1>1, <1>2, PTL DEF Spec

\* Every variable keeps the shape of the column, field or local it models: in
\* particular no code path writes a status outside the ones the schema's
\* readers know, whatever the interleaving.
THEOREM TypeCorrect == Spec => []TypeOK
<1>1. TypeInv => TypeOK
      BY DEF TypeInv
<1> QED BY <1>1, TypeInvariance, PTL

=============================================================================
