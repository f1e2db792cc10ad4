------------------------------ MODULE JobProofs ------------------------------
(***************************************************************************)
(* Proofs about the parts of a run around StepEngine: the container tasks   *)
(* of a job (JobTasks), the stored versions of a resource                   *)
(* (ResourceVersions) and the order of the jobs (PipelineJobs), for any     *)
(* number of tasks, savers and versions and any configurations.             *)
(***************************************************************************)
EXTENDS JobTasks, ResourceVersions, PipelineJobs, SequenceTheorems, WellFoundedInduction, TLAPS

-----------------------------------------------------------------------------
(* JobTasks *)

BeforeStart == {"load", "caches", "create", "restore", "pending", "start"}

\* What a task owns at each point of runTask: the name of its volume when it creates that, nothing else
\* before the container is started; no final row while its
\* ticker may still write; a ticker only until wg.Wait; no container once it has returned.
TaskInv(t) ==
    /\ taskAt[t] \in BeforeStart => container[t] = "none" /\ ticker[t] = "off" /\ row[t] \notin Final
    /\ taskAt[t] = "create" => CacheOf[t] \in cacheVolumes
    /\ taskAt[t] \in {"wait", "join"} => row[t] \notin Final
    /\ taskAt[t] \in {"cleanup", "returned"} => ticker[t] = "off"
    /\ taskAt[t] = "returned" => container[t] \in {"none", "gone"}

\* The job's deferred work begins when every task has returned.
JobEndInv ==
    /\ jobEnd # "tasks" => \A t \in Tasks : taskAt[t] = "returned"
    /\ jobEnd = "over" => volumes = {}

TasksInv == TasksTypeOK /\ (\A t \in Tasks : TaskInv(t)) /\ JobEndInv

\* The state at the start of a job satisfies the invariant.
LEMMA TasksInitInv == TasksInit => TasksInv
  BY DEF TasksInit, TasksInv, TasksTypeOK, TaskInv, JobEndInv, BeforeStart, Final, Keys

\* Every step of a task up to the start of its container keeps it.
LEMMA BeforeContainerInv ==
  ASSUME TasksInv, NEW t \in Tasks,
         LoadConfig(t) \/ NameCache(t) \/ CreateVolume(t) \/ CacheRestore(t) \/ WritePending(t) \/ RunContainer(t)
  PROVE  TasksInv'
<1> USE DEF TasksInv, TasksTypeOK, TaskInv, JobEndInv, BeforeStart, Final, Move, Return, caches, Keys
<1>1. CASE LoadConfig(t)
  BY <1>1 DEF LoadConfig
<1>2. CASE NameCache(t)
  BY <1>2 DEF NameCache
<1>3. CASE CreateVolume(t)
  BY <1>3 DEF CreateVolume
<1>4. CASE CacheRestore(t)
  BY <1>4 DEF CacheRestore
<1>5. CASE WritePending(t)
  BY <1>5 DEF WritePending
<1>6. CASE RunContainer(t)
  BY <1>6 DEF RunContainer
<1> QED
  BY <1>1, <1>2, <1>3, <1>4, <1>5, <1>6

\* Every step of a task from there to its return keeps it, and so do its stream and its ticker.
LEMMA WithContainerInv ==
  ASSUME TasksInv, NEW t \in Tasks,
         WaitForContainer(t) \/ FinishTask(t) \/ Cleanup(t) \/ Follow(t) \/ ContainerExits(t) \/ TimeoutPasses(t)
  PROVE  TasksInv'
<1> USE DEF TasksInv, TasksTypeOK, TaskInv, JobEndInv, BeforeStart, Final, Move, caches
<1>1. CASE WaitForContainer(t)
  BY <1>1 DEF WaitForContainer
<1>2. CASE FinishTask(t)
  BY <1>2 DEF FinishTask, Joined
<1>3. CASE Cleanup(t)
  BY <1>3 DEF Cleanup
<1>4. CASE StreamCloses(t)
  BY <1>4 DEF StreamCloses
<1>5. CASE Tick(t)
  BY <1>5 DEF Tick
<1>6. CASE TickWrites(t)
  BY <1>6 DEF TickWrites
<1>7. CASE TickerEnds(t)
  BY <1>7 DEF TickerEnds
<1>8. CASE ContainerExits(t)
  BY <1>8 DEF ContainerExits
<1>9. CASE TimeoutPasses(t)
  BY <1>9 DEF TimeoutPasses
<1> QED
  BY <1>1, <1>2, <1>3, <1>4, <1>5, <1>6, <1>7, <1>8, <1>9 DEF Follow

\* The job's own steps, and a stop, keep it.
LEMMA JobStepInv ==
  ASSUME TasksInv, CachePersist \/ CleanupCacheVolumes \/ Stop
  PROVE  TasksInv'
  BY DEF TasksInv, TasksTypeOK, TaskInv, JobEndInv, BeforeStart, Final, caches,
         CachePersist, CleanupCacheVolumes, Stop, TasksOver

\* The invariant is inductive.
LEMMA TasksNextInv == TasksInv /\ [TasksNext]_tasksVars => TasksInv'
<1> SUFFICES ASSUME TasksInv, [TasksNext]_tasksVars
             PROVE  TasksInv'
  OBVIOUS
<1>1. CASE TasksNext
  BY <1>1, BeforeContainerInv, WithContainerInv, JobStepInv DEF TasksNext, RunTask
<1>2. CASE UNCHANGED tasksVars
  BY <1>2 DEF tasksVars, caches, TasksInv, TasksTypeOK, TaskInv, JobEndInv
<1> QED
  BY <1>1, <1>2

\* In every behaviour of the tasks of a job the invariant holds.
THEOREM TasksInvariant == TasksSpec => []TasksInv
  BY TasksInitInv, TasksNextInv, PTL DEF TasksSpec

\* Every variable of the tasks keeps its type, for any set of tasks and caches (runTask).
THEOREM TasksTypeCorrect == TasksSpec => []TasksTypeOK
  BY TasksInvariant, PTL DEF TasksInv

\* No container outlives its task and no cache volume its job, wherever a stop, a timeout, an error of the driver
\* or a failed start falls (task_handler.go, the deferred Cleanup; cache_tasks.go).
THEOREM TasksLeaveNothing == TasksSpec => []NothingOutlivesItsJob
<1>1. TasksInv => NothingOutlivesItsJob
  BY DEF TasksInv, TasksTypeOK, TaskInv, JobEndInv, NothingOutlivesItsJob
<1> QED
  BY <1>1, TasksInvariant, PTL

\* A final row is never written again: the ticker is joined before the last row is written, and nothing writes
\* after it (task_handler.go, cancelTicker and ts.wg.Wait).
THEOREM FinalRowsAreFinal == TasksSpec => FinalRowsStay
<1>1. TasksInv /\ [TasksNext]_tasksVars => [\A t \in Tasks : row[t] \in Final => row'[t] = row[t]]_tasksVars
  <2> SUFFICES ASSUME TasksInv, TasksNext, NEW t \in Tasks, row[t] \in Final
               PROVE  row'[t] = row[t]
    OBVIOUS
  <2>1. row \in [Tasks -> {"none", "pending", "running"} \cup Final] /\ taskAt[t] \notin BeforeStart
        /\ taskAt[t] \notin {"wait", "join"} /\ ticker[t] = "off"
    BY DEF TasksInv, TasksTypeOK, TaskInv, BeforeStart
  <2>2. ASSUME NEW u \in Tasks, RunTask(u) \/ Follow(u) \/ ContainerExits(u) \/ TimeoutPasses(u)
        PROVE  row'[t] = row[t]
    BY <2>1, <2>2 DEF RunTask, Follow, LoadConfig, NameCache, CreateVolume, CacheRestore, WritePending, RunContainer,
         WaitForContainer, FinishTask, Cleanup, StreamCloses, Tick, TickWrites, TickerEnds, ContainerExits,
         TimeoutPasses, BeforeStart
  <2>3. ASSUME CachePersist \/ CleanupCacheVolumes \/ Stop
        PROVE  row'[t] = row[t]
    BY <2>3 DEF CachePersist, CleanupCacheVolumes, Stop
  <2> QED
    BY <2>2, <2>3 DEF TasksNext
<1> QED
  BY <1>1, TasksInvariant, PTL DEF TasksSpec, FinalRowsStay

-----------------------------------------------------------------------------
(* ResourceVersions *)

\* Where a saver is, it has a version to save, and every row below the one it will write, or has written, exists.
SaverInv(s) ==
    /\ saverAt[s] # "idle" => version[s] \in Versions
    /\ saverAt[s] = "version" => \A i \in Indices : i < index[s] => slot[i] # 0
    /\ saverAt[s] \in {"entry", "meta"} => \A i \in Indices : i <= index[s] => slot[i] # 0
    /\ modeOf[s] = "off" => saverAt[s] = "idle"

VersionsInv == VersionsTypeOK /\ NoHoles /\ \A s \in Savers : SaverInv(s)

\* A set of versions, or of positions, has a smallest one: the version that resolveEveryVersion picks.
LEMMA SmallestVersion ==
  ASSUME NEW S \in SUBSET Nat, S # {}
  PROVE  \E v \in S : \A w \in S : v <= w
<1>1. IsWellFoundedOn(OpToRel(<, Nat), Nat)
  BY NatLessThanWellFounded
<1>2. PICK v \in S : \A w \in S : ~(<<w, v>> \in OpToRel(<, Nat))
  BY <1>1, WFMin
<1>3. \A w \in S : ~(w < v)
  BY <1>2 DEF OpToRel
<1> QED
  BY <1>3

\* The version a get fetches is one that the resource has.
LEMMA FetchedExists ==
  ASSUME VersionsInv, NEW s \in Savers, upstream > 0
  PROVE  VersionToFetch(s) \in Versions
<1>1. upstream \in Versions
  BY VersionsAssumption DEF VersionsInv, VersionsTypeOK, Versions
<1>2. Latest \in 0..MaxVersion
  BY VersionsAssumption DEF VersionsInv, VersionsTypeOK, Latest, Indices
<1>3. Check(Latest) \subseteq Versions
  BY <1>1, <1>2, VersionsAssumption DEF Check, Versions
<1>4. ASSUME Check(Latest) \ Listed # {}
      PROVE  ResolveEveryVersion \in Versions
  <2> DEFINE new == Check(Latest) \ Listed
  <2>1. new \in SUBSET Nat /\ new # {}
    BY <1>3, <1>4, VersionsAssumption DEF Versions
  <2> HIDE DEF new
  <2>2. \E v \in new : \A w \in new : v <= w
    BY <2>1, SmallestVersion
  <2>3. (CHOOSE v \in new : \A w \in new : v <= w) \in new
    BY <2>2
  <2> USE DEF new
  <2> QED
    BY <1>3, <1>4, <2>3 DEF ResolveEveryVersion
<1> QED
  BY <1>1, <1>4 DEF VersionToFetch, ResolveEveryVersion

\* The empty version list satisfies the invariant.
LEMMA VersionsInitInv == VersionsInit => VersionsInv
<1> SUFFICES ASSUME VersionsInit
             PROVE  VersionsInv
  OBVIOUS
<1>1. VersionsTypeOK
  <2>1. slot \in [Indices -> 0..MaxVersion] /\ dedup \in [Versions -> 0..MaxIndex + 1] /\ count \in 0..MaxIndex + 1
    BY VersionsAssumption DEF VersionsInit
  <2>2. index \in [Savers -> Indices]
    BY VersionsAssumption DEF VersionsInit, Indices
  <2>3. modeOf \in Modes /\ upstream \in 0..MaxVersion /\ version \in [Savers -> 0..MaxVersion]
    BY VersionsAssumption DEF VersionsInit
  <2> QED
    BY <2>1, <2>2, <2>3 DEF VersionsInit, VersionsTypeOK
<1>2. NoHoles
  BY VersionsAssumption DEF VersionsInit, NoHoles, Indices, Versions
<1>3. \A s \in Savers : SaverInv(s)
  BY DEF VersionsInit, SaverInv, Indices
<1> QED
  BY <1>1, <1>2, <1>3 DEF VersionsInv

\* A get or put takes its version, new or not; no row changes.
LEMMA FetchInv ==
  ASSUME VersionsInv, NEW s \in Savers, Fetch(s)
  PROVE  VersionsInv'
<1>1. PICK v \in Versions : version' = [version EXCEPT ![s] = v] /\ fetched' \in {fetched, fetched \cup {v}}
  <2>1. CASE modeOf[s] \in {"every", "latest"} /\ upstream > 0 /\ version' = [version EXCEPT ![s] = VersionToFetch(s)]
    BY <2>1, FetchedExists DEF Fetch
  <2>2. CASE modeOf[s] = "put" /\ upstream < MaxVersion /\ version' = [version EXCEPT ![s] = upstream + 1]
    <3>1. upstream + 1 \in Versions
      BY <2>2, VersionsAssumption DEF VersionsInv, VersionsTypeOK, Versions
    <3>2. fetched' = fetched
      BY <2>2 DEF Fetch
    <3> QED
      BY <2>2, <3>1, <3>2
  <2> QED
    BY <2>1, <2>2 DEF Fetch
<1>2. upstream' \in 0..MaxVersion
  BY VersionsAssumption DEF Fetch, VersionsInv, VersionsTypeOK
<1>3. saverAt[s] = "idle" /\ modeOf[s] # "off" /\ saverAt' = [saverAt EXCEPT ![s] = "dedup"]
      /\ UNCHANGED <<modeOf, slot, dedup, count, index, broken>>
  BY DEF Fetch, store
<1>4. VersionsTypeOK'
  BY <1>1, <1>2, <1>3, VersionsAssumption DEF VersionsInv, VersionsTypeOK, Versions
<1>5. NoHoles'
  BY <1>3 DEF VersionsInv, NoHoles
<1>6. ASSUME NEW r \in Savers
      PROVE  SaverInv(r)'
  BY <1>1, <1>3 DEF VersionsInv, VersionsTypeOK, SaverInv
<1> QED
  BY <1>4, <1>5, <1>6 DEF VersionsInv

\* The writes of SaveResourceVersion keep the invariant, in whatever order those of different savers come: a
\* row that exists is only ever replaced, and the rows that lead to it are written after it.
LEMMA SaveInv ==
  ASSUME VersionsInv, NEW s \in Savers, Save(s)
  PROVE  VersionsInv'
<1> USE DEF VersionsInv, VersionsTypeOK, store
<1>1. CASE ReadDedup(s)
  BY <1>1 DEF ReadDedup, NoHoles, SaverInv
<1>2. CASE ReadCount(s)
  BY <1>2 DEF ReadCount, NoHoles, SaverInv
<1>3. CASE SetVersion(s)
  <2>1. version[s] \in Versions /\ index[s] \in Indices /\ slot' = [slot EXCEPT ![index[s]] = version[s]]
    BY <1>3 DEF SetVersion, SaverInv
  <2>2. \A i \in Indices : slot[i] # 0 \/ i = index[s] => slot'[i] # 0
    BY <2>1, VersionsAssumption DEF Versions
  <2>3. VersionsTypeOK'
    BY <1>3, <2>1, VersionsAssumption DEF SetVersion, Versions
  <2>4. NoHoles'
    <3>1. \A v \in Versions : dedup[v] # 0 => dedup[v] - 1 \in Indices
      BY VersionsAssumption DEF Indices
    <3> QED
      BY <1>3, <2>2, <3>1 DEF SetVersion, NoHoles
  <2>5. ASSUME NEW r \in Savers
        PROVE  SaverInv(r)'
    <3>1. CASE r = s
      BY <1>3, <2>1, <2>2, <3>1, VersionsAssumption DEF SetVersion, SaverInv, Indices
    <3>2. CASE r # s
      BY <1>3, <2>2, <3>2 DEF SetVersion, SaverInv
    <3> QED
      BY <3>1, <3>2
  <2> QED
    BY <2>3, <2>4, <2>5
<1>4. CASE SetDedup(s)
  <2>1. version[s] \in Versions /\ index[s] \in Indices /\ slot[index[s]] # 0
    BY <1>4, VersionsAssumption DEF SetDedup, SaverInv, Indices
  <2>2. VersionsTypeOK'
    <3>1. index[s] + 1 \in 0 .. (MaxIndex + 1)
      BY <2>1, VersionsAssumption DEF Indices
    <3> QED
      BY <1>4, <2>1, <3>1 DEF SetDedup
  <2>3. NoHoles'
    <3>1. \A v \in Versions : v # version[s] => dedup'[v] = dedup[v]
      BY <1>4 DEF SetDedup
    <3>2. dedup'[version[s]] = index[s] + 1 /\ (index[s] + 1) - 1 = index[s]
      BY <1>4, <2>1, VersionsAssumption DEF SetDedup, Indices
    <3> QED
      BY <1>4, <2>1, <3>1, <3>2 DEF SetDedup, NoHoles
  <2>4. ASSUME NEW r \in Savers
        PROVE  SaverInv(r)'
    BY <1>4 DEF SetDedup, SaverInv
  <2> QED
    BY <2>2, <2>3, <2>4
<1>5. CASE SetMeta(s)
  BY <1>5, VersionsAssumption DEF SetMeta, NoHoles, SaverInv, Indices
<1> QED
  BY <1>1, <1>2, <1>3, <1>4, <1>5 DEF Save

\* The invariant is inductive.
LEMMA VersionsNextInv == VersionsInv /\ [VersionsNext]_versionsVars => VersionsInv'
<1> SUFFICES ASSUME VersionsInv, [VersionsNext]_versionsVars
             PROVE  VersionsInv'
  OBVIOUS
<1> USE DEF VersionsInv, VersionsTypeOK, NoHoles, SaverInv, Indices, Versions, store
<1>1. CASE Release
  BY <1>1, VersionsAssumption DEF Release
<1>2. ASSUME NEW s \in Savers, Leave(s)
      PROVE  VersionsInv'
  BY <1>2, VersionsAssumption DEF Leave
<1>3. CASE UNCHANGED versionsVars
  BY <1>3 DEF versionsVars
<1> QED
  BY <1>1, <1>2, <1>3, FetchInv, SaveInv DEF VersionsNext

\* In every behaviour of the savers the invariant holds.
THEOREM VersionsInvariant == VersionsSpec => []VersionsInv
  BY VersionsInitInv, VersionsNextInv, PTL DEF VersionsSpec

\* The stored version list of a resource has no hole, however many runs save at the same time and wherever one of
\* them leaves (resource_store.go SaveResourceVersion).
THEOREM VersionListHasNoHoles == VersionsSpec => []NoHoles
  BY VersionsInvariant, PTL DEF VersionsInv

\* The newest version that a get with version: every has taken up.
Top(s) == IF saverAt[s] = "idle" THEN Latest ELSE version[s]

\* The list against what was fetched: all of it is listed, or all but the version in hand.
ListedInv(s) ==
    /\ saverAt[s] = "idle" => Listed = fetched
    /\ saverAt[s] = "dedup" => (Listed = fetched /\ count # 0 /\ version[s] = Latest) \/ Listed = fetched \ {version[s]}
    /\ saverAt[s] \in {"count", "version", "entry", "meta"} => Listed = fetched \ {version[s]}

\* What a get with version: every that is alone has fetched is an interval up to the newest version it took up,
\* its dedup rows are those of the list, and it writes the next row of the list.
OrderInv(s) ==
    /\ fetched # {} => \E a \in Versions : a <= Top(s) /\ fetched = a..Top(s)
    /\ fetched # {} => Top(s) <= upstream
    /\ saverAt[s] # "idle" => fetched # {}
    /\ ListedInv(s)
    /\ \A v \in Versions : dedup[v] # 0 <=> v \in Listed \/ (saverAt[s] = "meta" /\ v = version[s])
    /\ saverAt[s] \in {"version", "entry", "meta"} => index[s] = count
    /\ saverAt[s] \in {"entry", "meta"} => slot[count] = version[s]

AloneWithEvery(s) == modeOf[s] = "every" /\ Alone(s) /\ ~broken

EveryInv == \A s \in Savers : AloneWithEvery(s) => OrderInv(s)

\* With nothing listed the newest version is fetched; with an interval listed, the one after it if there is one.
LEMMA ResolvesNext ==
  ASSUME VersionsInv, NEW s \in Savers, OrderInv(s), saverAt[s] = "idle", upstream > 0
  PROVE  /\ fetched = {} => ResolveEveryVersion = upstream
         /\ fetched # {} => /\ count # 0
                           /\ ResolveEveryVersion = IF Latest = upstream THEN upstream ELSE Latest + 1
<1>1. Listed = fetched /\ Top(s) = Latest /\ count \in Nat /\ upstream \in Nat
  BY VersionsAssumption DEF OrderInv, ListedInv, Top, VersionsInv, VersionsTypeOK
<1>2. count # 0 => slot[count - 1] \in Listed
  BY VersionsAssumption DEF Listed, VersionsInv, VersionsTypeOK, Indices
<1>3. count = 0 => Listed = {}
  BY VersionsAssumption DEF Listed, Indices
<1>4. CASE fetched = {}
  <2>1. Check(Latest) \ Listed = {upstream}
    BY <1>1, <1>2, <1>4 DEF Check, Latest
  <2>2. (CHOOSE v \in {upstream} : \A w \in {upstream} : v <= w) = upstream
    BY <1>1
  <2> QED
    BY <1>4, <2>1, <2>2 DEF ResolveEveryVersion
<1>5. CASE fetched # {}
  <2>1. PICK a \in Versions : a <= Latest /\ fetched = a..Latest /\ Latest <= upstream
    BY <1>1, <1>5 DEF OrderInv
  <2>2. Latest \in Nat \ {0} /\ a \in Nat
    BY <1>1, <2>1, VersionsAssumption DEF Versions, Latest, VersionsInv, VersionsTypeOK, Indices
  <2>3. Check(Latest) \ Listed = (Latest + 1)..upstream
    BY <1>1, <2>1, <2>2 DEF Check
  <2>4. CASE Latest = upstream
    BY <1>1, <1>3, <1>5, <2>2, <2>3, <2>4 DEF ResolveEveryVersion
  <2>5. CASE Latest # upstream
    <3> DEFINE new == (Latest + 1)..upstream
    <3>1. Latest + 1 \in new /\ \A w \in new : Latest + 1 <= w
      BY <1>1, <2>1, <2>2, <2>5
    <3>2. \A v \in new : (\A w \in new : v <= w) => v = Latest + 1
      BY <1>1, <2>1, <2>2, <3>1
    <3>3. (CHOOSE v \in new : \A w \in new : v <= w) = Latest + 1
      <4> HIDE DEF new
      <4> QED
        BY <3>1, <3>2
    <3> QED
      BY <1>1, <1>3, <1>5, <2>3, <2>5, <3>1, <3>3 DEF ResolveEveryVersion
  <2> QED
    BY <2>4, <2>5
<1> QED
  BY <1>4, <1>5

\* The next fetch extends the interval, or repeats its last version.
LEMMA EveryFetchInv ==
  ASSUME VersionsInv, NEW s \in Savers, AloneWithEvery(s), OrderInv(s), Fetch(s)
  PROVE  OrderInv(s)'
<1> DEFINE v == ResolveEveryVersion
<1>1. /\ saverAt[s] = "idle" /\ upstream \in Nat \ {0} /\ UNCHANGED <<slot, dedup, count, index, upstream>>
      /\ version' = [version EXCEPT ![s] = v] /\ saverAt' = [saverAt EXCEPT ![s] = "dedup"]
      /\ fetched' = fetched \cup {v}
  BY VersionsAssumption DEF Fetch, AloneWithEvery, VersionToFetch, store, VersionsInv, VersionsTypeOK
<1>2. Listed' = Listed /\ Latest' = Latest
  BY <1>1 DEF Listed, Latest
<1>3. Listed = fetched /\ Top(s) = Latest
  BY <1>1 DEF OrderInv, ListedInv, Top
<1>4. saverAt'[s] = "dedup" /\ version'[s] = v /\ Top(s)' = v
  BY <1>1 DEF VersionsInv, VersionsTypeOK, Top
<1>5. v \in Versions
  BY <1>1, FetchedExists DEF AloneWithEvery, VersionToFetch
<1>6. (fetched = {} => v = upstream) /\ (fetched # {} => count # 0 /\ v = IF Latest = upstream THEN upstream ELSE Latest + 1)
  BY <1>1, ResolvesNext
<1> HIDE DEF v
<1>7. (\E a \in Versions : a <= v /\ fetched' = a..v) /\ v <= upstream /\ ListedInv(s)'
  <2>1. CASE fetched = {}
    <3>1. fetched' = v..v
      BY <1>1, <1>5, <2>1 DEF Versions
    <3> QED
      BY <1>1, <1>2, <1>3, <1>4, <1>5, <1>6, <2>1, <3>1 DEF ListedInv, Versions
  <2>2. CASE fetched # {}
    <3>1. PICK a \in Versions : a <= Latest /\ fetched = a..Latest /\ Latest <= upstream
      BY <1>3, <2>2 DEF OrderInv
    <3>2. Latest \in Nat /\ a \in Nat
      BY VersionsAssumption DEF Versions, Latest, VersionsInv, VersionsTypeOK, Indices
    <3>3. CASE Latest = upstream
      <4>1. v = Latest /\ fetched' = a..v
        BY <1>1, <1>6, <2>2, <3>1, <3>2, <3>3
      <4>2. ListedInv(s)'
        BY <1>1, <1>2, <1>3, <1>4, <1>6, <2>2, <3>1, <4>1 DEF ListedInv
      <4> QED
        BY <1>1, <3>1, <3>3, <4>1, <4>2
    <3>4. CASE Latest # upstream
      <4>1. v = Latest + 1 /\ a <= v /\ v <= upstream /\ v \notin fetched
        BY <1>1, <1>6, <2>2, <3>1, <3>2, <3>4
      <4>2. fetched' = a..v
        BY <1>1, <3>1, <3>2, <4>1
      <4>3. ListedInv(s)'
        BY <1>1, <1>2, <1>3, <1>4, <4>1 DEF ListedInv
      <4> QED
        BY <4>1, <4>2, <4>3
    <3> QED
      BY <3>3, <3>4
  <2> QED
    BY <2>1, <2>2
<1>8. \A w \in Versions : dedup'[w] # 0 <=> w \in Listed'
  BY <1>1, <1>2 DEF OrderInv
<1> QED
  BY <1>1, <1>4, <1>7, <1>8 DEF OrderInv

\* The steps of its save leave what was fetched alone; the last of them lists the version in hand.
LEMMA EverySaveInv ==
  ASSUME VersionsInv, NEW s \in Savers, AloneWithEvery(s), OrderInv(s), Save(s)
  PROVE  OrderInv(s)'
<1> USE DEF OrderInv, ListedInv, Top
<1>1. version[s] \in Versions /\ count \in Nat /\ saverAt[s] # "idle"
      /\ saverAt \in [Savers -> {"idle", "dedup", "count", "version", "entry", "meta"}] /\ index \in [Savers -> Indices]
      /\ slot \in [Indices -> 0..MaxVersion] /\ dedup \in [Versions -> 0..MaxIndex + 1]
  BY VersionsAssumption
  DEF Save, ReadDedup, ReadCount, SetVersion, SetDedup, SetMeta, VersionsInv, VersionsTypeOK, SaverInv
<1>2. version[s] \in fetched
  BY <1>1 DEF Versions
<1>3. CASE ReadDedup(s)
  <2>1. Listed' = Listed /\ Latest' = Latest /\ UNCHANGED <<dedup, fetched, version, count, upstream>>
    BY <1>3 DEF ReadDedup, Listed, Latest, store
  <2>2. CASE dedup[version[s]] # 0
    <3>1. version[s] \in Listed /\ Listed = fetched /\ version[s] = Latest
      BY <1>1, <1>3, <2>2 DEF ReadDedup
    <3> QED
      BY <1>1, <1>3, <2>1, <2>2, <3>1 DEF ReadDedup
  <2>3. CASE dedup[version[s]] = 0
    <3>1. version[s] \notin Listed /\ Listed = fetched \ {version[s]}
      BY <1>1, <1>2, <1>3, <2>3 DEF ReadDedup
    <3> QED
      BY <1>1, <1>3, <2>1, <2>3, <3>1 DEF ReadDedup
  <2> QED
    BY <2>2, <2>3
<1>4. CASE ReadCount(s)
  <2>1. Listed' = Listed /\ UNCHANGED <<dedup, fetched, version, count, upstream>>
    BY <1>4 DEF ReadCount, Listed, store
  <2> QED
    BY <1>1, <1>4, <2>1 DEF ReadCount
<1>5. CASE SetVersion(s)
  <2>1. slot' = [slot EXCEPT ![count] = version[s]] /\ UNCHANGED <<dedup, fetched, version, count, index, upstream>>
        /\ saverAt' = [saverAt EXCEPT ![s] = "entry"] /\ index[s] = count /\ count \in Indices
    BY <1>1, <1>5 DEF SetVersion
  <2>2. \A i \in Indices : i < count => slot'[i] = slot[i]
    BY <1>1, <2>1, VersionsAssumption DEF Indices
  <2>3. Listed' = Listed
    BY <2>1, <2>2 DEF Listed
  <2>4. slot'[count] = version[s]
    BY <1>1, <2>1
  <2> QED
    BY <1>1, <1>5, <2>1, <2>3, <2>4 DEF SetVersion
<1>6. CASE SetDedup(s)
  <2>1. Listed' = Listed /\ UNCHANGED <<slot, fetched, version, count, index, upstream>>
        /\ saverAt' = [saverAt EXCEPT ![s] = "meta"] /\ dedup' = [dedup EXCEPT ![version[s]] = index[s] + 1]
    BY <1>6 DEF SetDedup, Listed
  <2>2. dedup'[version[s]] # 0 /\ \A v \in Versions \ {version[s]} : dedup'[v] = dedup[v]
    BY <1>1, <2>1, VersionsAssumption DEF Indices
  <2> QED
    BY <1>1, <1>6, <2>1, <2>2 DEF SetDedup
<1>7. CASE SetMeta(s)
  <2>1. UNCHANGED <<slot, dedup, fetched, version, index, upstream>> /\ count' = count + 1 /\ count \in Indices
        /\ saverAt' = [saverAt EXCEPT ![s] = "idle"] /\ slot[count] = version[s]
    BY <1>1, <1>7 DEF SetMeta
  <2>2. Listed' = Listed \cup {slot[count]}
    <3>1. {k \in Indices : k < count + 1} = {k \in Indices : k < count} \cup {count}
      BY <1>1, <2>1, VersionsAssumption DEF Indices
    <3> QED
      BY <2>1, <3>1 DEF Listed
  <2>3. Latest' = version[s]
    BY <1>1, <2>1 DEF Latest
  <2>4. Listed' = fetched
    BY <1>2, <1>7, <2>1, <2>2 DEF SetMeta
  <2>5. \A v \in Versions : dedup'[v] # 0 <=> v \in Listed'
    BY <1>7, <2>1, <2>2 DEF SetMeta
  <2> QED
    BY <1>1, <1>7, <2>1, <2>3, <2>4, <2>5 DEF SetMeta
<1> QED
  BY <1>3, <1>4, <1>5, <1>6, <1>7 DEF Save

\* EveryInv is inductive beside VersionsInv.
LEMMA EveryNextInv == VersionsInv /\ EveryInv /\ [VersionsNext]_versionsVars => EveryInv'
<1> SUFFICES ASSUME VersionsInv, EveryInv, [VersionsNext]_versionsVars, NEW s \in Savers, AloneWithEvery(s)'
             PROVE  OrderInv(s)'
  BY DEF EveryInv
<1>1. modeOf' = modeOf /\ (broken => broken')
  BY DEF VersionsNext, versionsVars, Release, Fetch, Save, ReadDedup, ReadCount, SetVersion, SetDedup, SetMeta, Leave
<1>2. AloneWithEvery(s) /\ OrderInv(s)
  BY <1>1 DEF AloneWithEvery, Alone, EveryInv, VersionsInv, VersionsTypeOK
<1>3. \A r \in Savers \ {s} : saverAt[r] = "idle" /\ modeOf[r] = "off"
  BY <1>2 DEF AloneWithEvery, Alone, VersionsInv, SaverInv
<1>4. CASE Release
  <2>1. upstream' = upstream + 1 /\ upstream \in Nat
        /\ UNCHANGED <<slot, dedup, count, saverAt, version, index, fetched>>
    BY <1>4, VersionsAssumption DEF Release, store, VersionsInv, VersionsTypeOK
  <2>2. fetched # {} => Top(s) \in Nat
    BY VersionsAssumption DEF Top, Latest, VersionsInv, VersionsTypeOK, Indices
  <2>3. Listed' = Listed /\ Latest' = Latest
    BY <2>1 DEF Listed, Latest
  <2> QED
    BY <1>2, <2>1, <2>2, <2>3 DEF OrderInv, ListedInv, Top
<1>5. ASSUME NEW r \in Savers, Fetch(r) \/ Save(r)
      PROVE  OrderInv(s)'
  <2>1. r = s
    BY <1>3, <1>5 DEF Fetch, Save, ReadDedup, ReadCount, SetVersion, SetDedup, SetMeta
  <2> QED
    BY <1>2, <1>5, <2>1, EveryFetchInv, EverySaveInv
<1>6. ASSUME NEW r \in Savers, Leave(r)
      PROVE  FALSE
  BY <1>6 DEF Leave, AloneWithEvery
<1>7. CASE UNCHANGED versionsVars
  BY <1>2, <1>7 DEF versionsVars, store, OrderInv, ListedInv, Top, Listed, Latest
<1> QED
  BY <1>4, <1>5, <1>6, <1>7 DEF VersionsNext

\* A get with version: every that has the resource for itself and was never interrupted skips no version between
\* two that it fetched (resource_store.go, resolveEveryVersion).
THEOREM EveryVersionInOrder == VersionsSpec => []EveryIsInOrder
<1>1. VersionsInit => EveryInv
  BY VersionsAssumption DEF VersionsInit, EveryInv, OrderInv, ListedInv, Top, Listed, Latest, Versions, Indices
<1>2. VersionsInv /\ EveryInv => EveryIsInOrder
  <2> SUFFICES ASSUME VersionsInv, EveryInv, NEW s \in Savers, AloneWithEvery(s), NEW v \in fetched, NEW w \in fetched
               PROVE  v..w \subseteq fetched
    BY DEF EveryIsInOrder, AloneWithEvery
  <2>1. PICK a \in Versions : fetched = a..Top(s)
    BY DEF EveryInv, OrderInv
  <2>2. a \in Nat /\ Top(s) \in Nat
    BY VersionsAssumption DEF Top, Latest, Versions, VersionsInv, VersionsTypeOK, Indices
  <2> QED
    BY <2>1, <2>2
<1> QED
  BY <1>1, <1>2, EveryNextInv, VersionsInvariant, PTL DEF VersionsSpec

-----------------------------------------------------------------------------
(* PipelineJobs: the order of the jobs. *)

Frames == [job : JobSet, deps : SUBSET DOMAIN Jobs, begun : BOOLEAN]

\* A call of runJob has returned.
LEMMA FrontOf ==
  ASSUME NEW S, NEW s \in Seq(S), s # <<>>
  PROVE  /\ Front(s) \in Seq(S) /\ Len(Front(s)) = Len(s) - 1 /\ \A i \in 1..Len(s) - 1 : Front(s)[i] = s[i]
         /\ Last(s) \in S /\ Last(s) = s[Len(s)] /\ Len(s) \in 1..Len(s)
<1>1. Len(s) \in Nat /\ Len(s) # 0
      OBVIOUS
<1>2. Len(s) \in 1..Len(s) /\ Len(s) - 1 \in Nat
      BY <1>1
<1>3. PICK n \in Nat : n = Len(s) - 1
      BY <1>2
<1>4. \A i \in 1..n : s[i] \in S
      BY <1>1, <1>3
<1>5. /\ SubSeq(s, 1, n) \in Seq(S) /\ Len(SubSeq(s, 1, n)) = IF 1 <= n THEN n - 1 + 1 ELSE 0
      /\ \A i \in 1..n - 1 + 1 : SubSeq(s, 1, n)[i] = s[1 + i - 1]
      BY <1>3, <1>4, SubSeqProperties
<1>6. n - 1 + 1 = n /\ \A i \in 1..n : 1 + i - 1 = i
      BY <1>3
<1>7. Len(SubSeq(s, 1, n)) = n /\ \A i \in 1..n : SubSeq(s, 1, n)[i] = s[i]
      BY <1>3, <1>5, <1>6
<1> QED BY <1>2, <1>3, <1>5, <1>7 DEF Front, Last

\* The names of the configuration's jobs.
LEMMA JobAt == ASSUME NEW i \in DOMAIN Jobs PROVE Jobs[i] \in JobSet
BY DEF JobSet, ToSet

\* The next dependent is one of those still to try.
LEMMA NextDep == ASSUME NEW D \in SUBSET DOMAIN Jobs, D # {} PROVE Min(D) \in D
<1>1. DOMAIN Jobs = 1..Len(Jobs) /\ Len(Jobs) \in Nat
      BY OrderAssumption
<1>2. D \in SUBSET Nat
      BY <1>1
<1>3. \E i \in D : \A k \in D : i <= k
      BY <1>2, SmallestVersion
<1> QED BY <1>3 DEF Min

\* What a NextDependent does to the newest call.
Advanced(f) == [f EXCEPT !.deps = @ \ {Min(f.deps)}]

LEMMA AdvancedIs ==
  ASSUME NEW f \in Frames, f.begun, f.deps # {}
  PROVE  /\ Min(f.deps) \in f.deps /\ Jobs[Min(f.deps)] \in JobSet
         /\ Advanced(f) \in Frames /\ Advanced(f).begun /\ Advanced(f).deps = f.deps \ {Min(f.deps)}
<1>1. f.deps \in SUBSET DOMAIN Jobs
      BY DEF Frames
<1>2. Min(f.deps) \in f.deps
      BY <1>1, NextDep
<1>3. Jobs[Min(f.deps)] \in JobSet
      BY <1>1, <1>2, JobAt
<1> QED BY <1>2, <1>3 DEF Frames, Advanced

Tries(f) ==
  stack' = IF CanJobRun(Jobs[Min(f.deps)])
           THEN Append(Append(Front(stack), Advanced(f)), Called(Jobs[Min(f.deps)]))
           ELSE Append(Front(stack), Advanced(f))

LEMMA DependentCases ==
  ASSUME NextDependent, Last(stack).deps # {}
  PROVE  Tries(Last(stack))
BY DEF NextDependent, Tries, Advanced

\* What a job that runs does: it succeeds and goes on to its dependents, or it fails and ends the run.
Begun(j) == [job |-> j, deps |-> FindDependentJobs(j), begun |-> TRUE]
RunsWell(j) ==
  /\ results' = [ok |-> results.ok \cup {j}, failed |-> results.failed]
  /\ executedJobs' = Append(executedJobs, j)
  /\ stack' = Append(Front(stack), Begun(j))
  /\ latest' \in {latest, [latest EXCEPT ![j] = "success"]}
  /\ phase' = phase
Fails(j) ==
  /\ results' = [ok |-> results.ok, failed |-> results.failed \cup {j}]
  /\ latest' = [latest EXCEPT ![j] = "failure"]
  /\ phase' = "failed"
  /\ executedJobs' = executedJobs /\ stack' = stack

LEMMA RunCases ==
  ASSUME OrderTypeOK, RunJob, NEW j, j = Last(stack).job
  PROVE  /\ j \in JobSet /\ ~Ran(j) /\ (RunsWell(j) \/ Fails(j))
         /\ Front(stack) \in Seq(Frames) /\ Begun(j) \in Frames
<1>1. stack \in Seq(Frames) /\ stack # <<>> /\ ~Ran(j)
      BY DEF OrderTypeOK, Frames, RunJob
<1>2. Front(stack) \in Seq(Frames) /\ Last(stack) \in Frames
      BY <1>1, FrontOf
<1>3. j \in JobSet
      BY <1>2 DEF Frames
<1>4. FindDependentJobs(j) \in SUBSET DOMAIN Jobs
      BY DEF FindDependentJobs
<1>5. Begun(j) \in Frames
      BY <1>3, <1>4 DEF Begun, Frames
<1>6. results = [ok |-> results.ok, failed |-> results.failed]
      BY DEF OrderTypeOK
<1>7. [results EXCEPT !.ok = @ \cup {j}] = [ok |-> results.ok \cup {j}, failed |-> results.failed]
      BY <1>6
<1>8. [results EXCEPT !.failed = @ \cup {j}] = [ok |-> results.ok, failed |-> results.failed \cup {j}]
      BY <1>6
<1>9. RunsWell(j) \/ Fails(j)
  <2>1. CASE results' = [results EXCEPT !.ok = @ \cup {j}] /\ UNCHANGED phase
    <3>1. executedJobs' = Append(executedJobs, j) /\ stack' = Append(Front(stack), Begun(j))
      BY <2>1 DEF RunJob, Begun
    <3>2. latest' \in {latest, [latest EXCEPT ![j] = "success"]}
      BY <2>1 DEF RunJob
    <3> QED BY <1>7, <2>1, <3>1, <3>2 DEF RunsWell
  <2>2. CASE results' = [results EXCEPT !.failed = @ \cup {j}] /\ phase' = "failed"
    <3>1. latest' = [latest EXCEPT ![j] = "failure"] /\ executedJobs' = executedJobs /\ stack' = stack
      BY <2>2 DEF RunJob
    <3> QED BY <1>8, <2>2, <3>1 DEF Fails
  <2> QED BY <2>1, <2>2 DEF RunJob
<1> QED BY <1>1, <1>2, <1>3, <1>5, <1>9

LEMMA OrderTypeNext == OrderTypeOK /\ [OrderNext]_orderVars => OrderTypeOK'
<1> SUFFICES ASSUME OrderTypeOK, [OrderNext]_orderVars PROVE OrderTypeOK'
      OBVIOUS
<1>0. stack \in Seq(Frames) /\ Jobs \in Seq(JobSet)
      BY OrderAssumption DEF OrderTypeOK, Frames
<1>1. CASE StartRun
  <2>0. <<>> \in Seq(JobSet) /\ <<>> \in Seq(Frames)
      OBVIOUS
  <2>1. targets' \in Seq(JobSet) /\ todo' \in Seq(JobSet) /\ stack' \in Seq(Frames) /\ executedJobs' \in Seq(JobSet)
    <3>1. targets' \in Seq(JobSet) /\ stack' = <<>> /\ executedJobs' = <<>>
      BY <1>1, OrderAssumption DEF StartRun
    <3>2. todo' \in {Jobs, targets', <<>>}
      BY <1>1 DEF StartRun
    <3> QED BY <1>0, <2>0, <3>1, <3>2
  <2>2. runs' \in 0..MaxRuns
      BY <1>1, OrderAssumption DEF StartRun, OrderTypeOK
  <2>3. /\ rows' \in [JobSet -> {"none", "pending", "success", "failure", "skipped"}]
        /\ phase' \in {"idle", "jobs", "over", "failed", "invalid"}
      BY <1>1 DEF StartRun, OrderTypeOK
  <2>4. results' \in [ok : SUBSET JobSet, failed : SUBSET JobSet] /\ latest' = latest /\ cfg' = cfg
      BY <1>1 DEF StartRun
  <2> QED BY <2>1, <2>2, <2>3, <2>4 DEF OrderTypeOK, Frames
<1>2. CASE NextJob
  <2>1. Head(todo) \in JobSet /\ todo' \in Seq(JobSet)
      BY <1>2 DEF NextJob, OrderTypeOK
  <2>2. Called(Head(todo)) \in Frames
      BY <2>1 DEF Called, Frames
  <2>3. stack' \in Seq(Frames)
      BY <1>2, <2>2 DEF NextJob
  <2>4. rows' \in [JobSet -> {"none", "pending", "success", "failure", "skipped"}]
      BY <1>2, <2>1 DEF NextJob, OrderTypeOK
  <2> QED BY <1>2, <2>1, <2>3, <2>4 DEF NextJob, OrderTypeOK, Frames
<1>3. CASE SkipDone
  <2>1. stack' \in Seq(Frames)
      BY <1>0, <1>3, FrontOf DEF SkipDone
  <2> QED BY <1>3, <2>1 DEF SkipDone, OrderTypeOK, Frames
<1>4. CASE RunJob
  <2>1. PICK j : j = Last(stack).job
      OBVIOUS
  <2>2. j \in JobSet /\ (RunsWell(j) \/ Fails(j)) /\ Front(stack) \in Seq(Frames) /\ Begun(j) \in Frames
      BY <1>4, <2>1, RunCases
  <2>3. /\ rows' \in [JobSet -> {"none", "pending", "success", "failure", "skipped"}]
        /\ latest' \in [JobSet -> {"none", "success", "failure"}]
      BY <1>4, <2>1, <2>2 DEF RunJob, OrderTypeOK
  <2>4. CASE RunsWell(j)
    <3>1. stack' \in Seq(Frames) /\ executedJobs' \in Seq(JobSet)
      BY <2>2, <2>4 DEF RunsWell, OrderTypeOK
    <3>2. results' \in [ok : SUBSET JobSet, failed : SUBSET JobSet] /\ phase' = phase
      BY <2>2, <2>4 DEF RunsWell, OrderTypeOK
    <3> QED BY <1>4, <2>3, <3>1, <3>2 DEF RunJob, OrderTypeOK, Frames
  <2>5. CASE Fails(j)
    <3>1. results' \in [ok : SUBSET JobSet, failed : SUBSET JobSet]
      BY <2>2, <2>5 DEF Fails, OrderTypeOK
    <3> QED BY <1>4, <2>3, <2>5, <3>1 DEF RunJob, Fails, OrderTypeOK
  <2> QED BY <2>2, <2>4, <2>5
<1>5. CASE NextDependent
  <2>1. Front(stack) \in Seq(Frames) /\ Last(stack) \in Frames
      BY <1>0, <1>5, FrontOf DEF NextDependent
  <2>2. CASE Last(stack).deps = {}
      BY <1>5, <2>1, <2>2 DEF NextDependent, OrderTypeOK, Frames
  <2>3. CASE Last(stack).deps # {}
    <3>1. Advanced(Last(stack)) \in Frames /\ Jobs[Min(Last(stack).deps)] \in JobSet
      BY <1>5, <2>1, <2>3, AdvancedIs DEF NextDependent
    <3>2. Called(Jobs[Min(Last(stack).deps)]) \in Frames
      BY <3>1 DEF Called, Frames
    <3>3. Tries(Last(stack))
      BY <1>5, <2>3, DependentCases
    <3>4. Append(Front(stack), Advanced(Last(stack))) \in Seq(Frames)
      BY <2>1, <3>1
    <3>5. stack' \in Seq(Frames)
      BY <3>2, <3>3, <3>4 DEF Tries
    <3> QED BY <1>5, <3>5 DEF NextDependent, OrderTypeOK, Frames
  <2> QED BY <2>2, <2>3
<1>6. CASE EndOfRun
  <2>1. rows' \in [JobSet -> {"none", "pending", "success", "failure", "skipped"}]
      BY <1>6 DEF EndOfRun, OrderTypeOK
  <2> QED BY <1>6, <2>1 DEF EndOfRun, OrderTypeOK
<1>7. CASE UNCHANGED orderVars
      BY <1>7 DEF orderVars, OrderTypeOK
<1> QED BY <1>1, <1>2, <1>3, <1>4, <1>5, <1>6, <1>7 DEF OrderNext

\* Whatever the configurations, the runner's state has its type: the calls of runJob are calls of jobs of the
\* configuration, whose dependents are such jobs (runner.go Run).
THEOREM OrderTypeCorrect == OrderSpec => []OrderTypeOK
<1>1. OrderInit => OrderTypeOK
      BY OrderAssumption DEF OrderInit, OrderTypeOK
<1> QED BY <1>1, OrderTypeNext, PTL DEF OrderSpec

\* jobResults and executedJobs agree; a run that goes on has no failed job.
ResultsAgree == results.ok = ToSet(executedJobs) /\ (phase \in {"jobs", "over"} => results.failed = {})

\* Only the newest call of runJob may not have begun, and canJobRun was asked just before it.
CallsMayRun ==
  phase = "jobs" => \A i \in 1..Len(stack) : ~stack[i].begun => i = Len(stack) /\ CanJobRun(stack[i].job)

RunInv == ResultsAgree /\ CallsMayRun /\ PassedIsRespected

\* The jobs executed so far, and one more.
LEMMA OneMore ==
  ASSUME NEW s \in Seq(JobSet), NEW e \in JobSet
  PROVE  /\ ToSet(Append(s, e)) = ToSet(s) \cup {e} /\ Len(Append(s, e)) = Len(s) + 1
         /\ Append(s, e)[Len(s) + 1] = e /\ \A i \in 1..Len(s) : Append(s, e)[i] = s[i]
BY DEF ToSet

\* While no job runs, the questions of runJob keep their answers.
LEMMA AnswersKeep ==
  ASSUME UNCHANGED <<cfg, results, executedJobs, latest>>
  PROVE  /\ \A j : CanJobRun(j)' <=> CanJobRun(j)
         /\ PassedIsRespected => PassedIsRespected'
BY DEF CanJobRun, IsJobPassedSatisfied, MostRecentStatus, Passed, PassedIsRespected, Ran

\* A job that runs comes after those it needs.
LEMMA RunRespectsPassed ==
  ASSUME OrderTypeOK, results.ok = ToSet(executedJobs), PassedIsRespected, cfg' = cfg,
         NEW j \in JobSet, CanJobRun(j), RunsWell(j)
  PROVE  PassedIsRespected'
<1> SUFFICES ASSUME NEW k \in ToSet(executedJobs'), NEW d \in JobSet, d \in Passed(k)
             PROVE  \/ \E a, b \in 1..Len(executedJobs') : a < b /\ executedJobs'[a] = d /\ executedJobs'[b] = k
                    \/ cfg.namespaced /\ (Ran(d)' \/ latest'[d] = "success")
      BY DEF PassedIsRespected, Passed
<1>1. /\ ToSet(executedJobs') = ToSet(executedJobs) \cup {j} /\ Len(executedJobs') = Len(executedJobs) + 1
      /\ executedJobs'[Len(executedJobs) + 1] = j
      /\ \A i \in 1..Len(executedJobs) : executedJobs'[i] = executedJobs[i]
      BY OneMore DEF RunsWell, OrderTypeOK
<1>2. Len(executedJobs) \in Nat
      BY DEF OrderTypeOK
<1>3. Ran(d) \/ d = j => Ran(d)'
      BY DEF Ran, RunsWell
<1>4. d # j => latest'[d] = latest[d]
      BY DEF RunsWell, OrderTypeOK
<1>5. CASE k \in ToSet(executedJobs)
  <2>1. \/ \E a, b \in 1..Len(executedJobs) : a < b /\ executedJobs[a] = d /\ executedJobs[b] = k
        \/ cfg.namespaced /\ (Ran(d) \/ latest[d] = "success")
      BY <1>5 DEF PassedIsRespected
  <2>2. ASSUME NEW a \in 1..Len(executedJobs), NEW b \in 1..Len(executedJobs),
               a < b, executedJobs[a] = d, executedJobs[b] = k
        PROVE  \E e, f \in 1..Len(executedJobs') : e < f /\ executedJobs'[e] = d /\ executedJobs'[f] = k
    <3>1. a \in 1..Len(executedJobs') /\ b \in 1..Len(executedJobs')
      BY <1>1, <1>2
    <3> QED BY <1>1, <2>2, <3>1
  <2> QED BY <1>3, <1>4, <2>1, <2>2
<1>6. CASE k = j
  <2>1. IsJobPassedSatisfied(d)
      BY <1>6 DEF CanJobRun
  <2>2. CASE d \in ToSet(executedJobs)
    <3>1. PICK a \in 1..Len(executedJobs) : executedJobs[a] = d
      BY <2>2 DEF ToSet, OrderTypeOK
    <3>2. a \in 1..Len(executedJobs') /\ Len(executedJobs) + 1 \in 1..Len(executedJobs') /\ a < Len(executedJobs) + 1
      BY <1>1, <1>2
    <3> QED BY <1>1, <1>6, <3>1, <3>2
  <2>3. CASE MostRecentStatus(d) = "success"
    <3>1. cfg.namespaced /\ latest[d] = "success"
      BY <2>3 DEF MostRecentStatus
    <3> QED BY <1>3, <1>4, <3>1
  <2> QED BY <2>1, <2>2, <2>3 DEF IsJobPassedSatisfied
<1> QED BY <1>1, <1>5, <1>6

LEMMA RunNext ==
  ASSUME OrderTypeOK, RunInv, [OrderNext]_orderVars
  PROVE  RunInv'
<1>0. stack \in Seq(Frames) /\ ResultsAgree /\ CallsMayRun /\ PassedIsRespected
      BY DEF OrderTypeOK, Frames, RunInv
<1>1. CASE StartRun
  <2>1. executedJobs' = <<>> /\ stack' = <<>> /\ results' = [ok |-> {}, failed |-> {}]
      BY <1>1 DEF StartRun
  <2> QED BY <2>1 DEF RunInv, ResultsAgree, CallsMayRun, PassedIsRespected, ToSet
<1>2. CASE NextJob
  <2>1. UNCHANGED <<cfg, results, executedJobs, latest>> /\ phase' = phase
      BY <1>2 DEF NextJob
  <2>2. ResultsAgree' /\ PassedIsRespected'
      BY <1>0, <2>1, AnswersKeep DEF ResultsAgree
  <2>3. stack' = <<>> \/ (CanJobRun(Head(todo)) /\ stack' = <<Called(Head(todo))>>)
      BY <1>2 DEF NextJob
  <2>4. CASE stack' = <<>>
      BY <2>2, <2>4 DEF RunInv, CallsMayRun
  <2>5. CASE CanJobRun(Head(todo)) /\ stack' = <<Called(Head(todo))>>
    <3>1. PICK j : j = Head(todo)
      OBVIOUS
    <3>2. CanJobRun(j)' /\ stack' = <<Called(j)>>
      BY <2>1, <2>5, <3>1, AnswersKeep
    <3>3. Len(stack') = 1 /\ stack'[1].job = j
      BY <3>2 DEF Called
    <3>4. CallsMayRun'
      BY <3>2, <3>3 DEF CallsMayRun
    <3> QED BY <2>2, <3>4 DEF RunInv
  <2> QED BY <2>3, <2>4, <2>5
<1>3. CASE SkipDone
  <2>1. UNCHANGED <<cfg, results, executedJobs, latest>> /\ phase' = phase /\ phase = "jobs" /\ stack # <<>>
      BY <1>3 DEF SkipDone
  <2>2. ResultsAgree' /\ PassedIsRespected'
      BY <1>0, <2>1, AnswersKeep DEF ResultsAgree
  <2>3. stack' = Front(stack)
      BY <1>3 DEF SkipDone
  <2>4. Len(stack') = Len(stack) - 1 /\ (\A i \in 1..Len(stack) - 1 : stack'[i] = stack[i]) /\ Len(stack) \in Nat
      BY <1>0, <2>1, <2>3, FrontOf
  <2>5. CallsMayRun'
      BY <1>0, <2>1, <2>4 DEF CallsMayRun
  <2> QED BY <2>2, <2>5 DEF RunInv
<1>4. CASE RunJob
  <2>1. PICK j : j = Last(stack).job
      OBVIOUS
  <2>2. j \in JobSet /\ ~Ran(j) /\ (RunsWell(j) \/ Fails(j)) /\ Front(stack) \in Seq(Frames) /\ Begun(j) \in Frames
      BY <1>4, <2>1, RunCases
  <2>3. phase = "jobs" /\ stack # <<>> /\ ~Last(stack).begun /\ cfg' = cfg
      BY <1>4 DEF RunJob
  <2>4. Last(stack) = stack[Len(stack)] /\ Len(stack) \in 1..Len(stack)
      BY <1>0, <2>3, FrontOf
  <2>5. CanJobRun(j)
      BY <1>0, <2>1, <2>3, <2>4 DEF CallsMayRun
  <2>6. CASE RunsWell(j)
    <3>1. PassedIsRespected'
      BY <1>0, <2>2, <2>3, <2>5, <2>6, RunRespectsPassed DEF ResultsAgree
    <3>2. results' = [ok |-> results.ok \cup {j}, failed |-> results.failed] /\ phase' = phase
      BY <2>6 DEF RunsWell
    <3>3. ToSet(executedJobs') = ToSet(executedJobs) \cup {j}
      BY <2>2, <2>6, OneMore DEF RunsWell, OrderTypeOK
    <3>4. ResultsAgree'
      BY <1>0, <2>3, <3>2, <3>3 DEF ResultsAgree
    <3>5. /\ Len(Front(stack)) = Len(stack) - 1 /\ Len(stack) \in Nat
          /\ \A i \in 1..Len(stack) - 1 : Front(stack)[i] = stack[i]
      BY <1>0, <2>3, FrontOf
    <3>6. /\ Len(stack') = Len(stack) /\ stack'[Len(stack)] = Begun(j)
          /\ \A i \in 1..Len(stack) - 1 : stack'[i] = stack[i]
      BY <2>2, <2>6, <3>5 DEF RunsWell
    <3>7. ASSUME NEW i \in 1..Len(stack') PROVE stack'[i].begun
      <4>1. CASE i = Len(stack)
        BY <3>6, <4>1 DEF Begun
      <4>2. CASE i # Len(stack)
        BY <1>0, <2>3, <3>5, <3>6, <4>2 DEF CallsMayRun
      <4> QED BY <4>1, <4>2
    <3>8. CallsMayRun'
      BY <3>7 DEF CallsMayRun
    <3> QED BY <3>1, <3>4, <3>8 DEF RunInv
  <2>7. CASE Fails(j)
    <3>1. results' = [ok |-> results.ok, failed |-> results.failed \cup {j}] /\ phase' = "failed" /\ executedJobs' = executedJobs
      BY <2>7 DEF Fails
    <3>2. ResultsAgree' /\ CallsMayRun'
      BY <1>0, <3>1 DEF ResultsAgree, CallsMayRun
    <3>3. \A d \in JobSet : (Ran(d) => Ran(d)') /\ (latest[d] = "success" => Ran(d)' \/ latest'[d] = "success")
      BY <2>2, <2>7 DEF Fails, Ran, OrderTypeOK
    <3>4. PassedIsRespected'
      BY <1>0, <2>3, <3>1, <3>3 DEF PassedIsRespected, Passed
    <3> QED BY <3>2, <3>4 DEF RunInv
  <2> QED BY <2>2, <2>6, <2>7
<1>5. CASE NextDependent
  <2>1. UNCHANGED <<cfg, results, executedJobs, latest>> /\ phase' = phase /\ phase = "jobs" /\ stack # <<>> /\ Last(stack).begun
      BY <1>5 DEF NextDependent
  <2>2. ResultsAgree' /\ PassedIsRespected'
      BY <1>0, <2>1, AnswersKeep DEF ResultsAgree
  <2>3. /\ Front(stack) \in Seq(Frames) /\ Len(Front(stack)) = Len(stack) - 1 /\ Len(stack) \in Nat \ {0}
        /\ (\A i \in 1..Len(stack) - 1 : Front(stack)[i] = stack[i]) /\ Last(stack) \in Frames /\ Last(stack) = stack[Len(stack)]
      BY <1>0, <2>1, FrontOf
  <2>4. \A i \in 1..Len(stack) : stack[i].begun
      BY <1>0, <2>1, <2>3 DEF CallsMayRun
  <2>5. CASE Last(stack).deps = {}
    <3>1. stack' = Front(stack)
      BY <1>5, <2>5 DEF NextDependent
    <3> QED BY <2>2, <2>3, <2>4, <3>1 DEF RunInv, CallsMayRun
  <2>6. CASE Last(stack).deps # {}
    <3>1. PICK f, j, r : f = Advanced(Last(stack)) /\ j = Jobs[Min(Last(stack).deps)] /\ r = Append(Front(stack), f)
      OBVIOUS
    <3>2. f \in Frames /\ f.begun /\ j \in JobSet /\ Called(j) \in Frames /\ ~Called(j).begun /\ Called(j).job = j
      <4>1. f \in Frames /\ f.begun /\ j \in JobSet
        BY <2>1, <2>3, <2>6, <3>1, AdvancedIs
      <4> QED BY <4>1 DEF Called, Frames
    <3>3. stack' = IF CanJobRun(j) THEN Append(r, Called(j)) ELSE r
      BY <1>5, <2>6, <3>1, DependentCases DEF Tries
    <3>4. r \in Seq(Frames) /\ Len(r) = Len(stack) /\ \A i \in 1..Len(r) : r[i].begun
      BY <2>3, <2>4, <3>1, <3>2
    <3>5. CallsMayRun'
      <4>1. CASE CanJobRun(j)
        <5>1. stack' = Append(r, Called(j))
          BY <3>3, <4>1
        <5>2. /\ Len(stack') = Len(r) + 1 /\ Len(r) \in Nat /\ stack'[Len(r) + 1] = Called(j)
              /\ \A i \in 1..Len(r) : stack'[i] = r[i]
          BY <3>2, <3>4, <5>1
        <5>3. CanJobRun(j)'
          BY <2>1, <4>1, AnswersKeep
        <5> QED BY <3>2, <3>4, <5>2, <5>3 DEF CallsMayRun
      <4>2. CASE ~CanJobRun(j)
        BY <3>3, <3>4, <4>2 DEF CallsMayRun
      <4> QED BY <4>1, <4>2
    <3> QED BY <2>2, <3>5 DEF RunInv
  <2> QED BY <2>5, <2>6
<1>6. CASE EndOfRun
  <2>1. UNCHANGED <<cfg, results, executedJobs, latest>> /\ phase = "jobs" /\ phase' \in {"over", "failed"}
      BY <1>6 DEF EndOfRun
  <2> QED BY <1>0, <2>1, AnswersKeep DEF RunInv, ResultsAgree, CallsMayRun
<1>7. CASE UNCHANGED orderVars
  <2>1. UNCHANGED <<cfg, results, executedJobs, latest>> /\ phase' = phase /\ stack' = stack
      BY <1>7 DEF orderVars
  <2> QED BY <1>0, <2>1, AnswersKeep DEF RunInv, ResultsAgree, CallsMayRun
<1> QED BY <1>1, <1>2, <1>3, <1>4, <1>5, <1>6, <1>7 DEF OrderNext

\* Whatever the configurations, the targets and the triggers, a job that ran came after the jobs of its run that it
\* needs, or needed one whose latest run was a success where earlier runs are found (runner.go canJobRun).
THEOREM PassedHolds == OrderSpec => []PassedIsRespected
<1>1. OrderInit => RunInv
      BY DEF OrderInit, RunInv, ResultsAgree, CallsMayRun, PassedIsRespected, ToSet
<1>2. OrderTypeOK /\ RunInv /\ [OrderNext]_orderVars => RunInv'
      BY RunNext
<1>3. RunInv => PassedIsRespected
      BY DEF RunInv
<1> QED BY <1>1, <1>2, <1>3, OrderTypeCorrect, PTL DEF OrderSpec

\* The jobs that a run is still going to try: called and not begun, or to be tried after one that is running.
IsCalled(j) ==
  \E i \in 1..Len(stack) : IF stack[i].begun THEN \E d \in stack[i].deps : Jobs[d] = j ELSE stack[i].job = j
IsReady(j) == Passed(j) # {} /\ Passed(j) \subseteq results.ok
ReadyInv ==
  /\ phase = "jobs" => \A j \in JobSet : IsReady(j) => j \in results.ok \/ IsCalled(j)
  /\ ReadyJobsRun

\* The jobs that became ready by a success are dependents of the job that succeeded.
LEMMA NewlyReady ==
  ASSUME NEW j, NEW k \in JobSet, RunsWell(j), cfg' = cfg, IsReady(k)', ~IsReady(k)
  PROVE  \E d \in FindDependentJobs(j) : Jobs[d] = k
<1>1. j \in Passed(k)
      BY DEF IsReady, Passed, RunsWell
<1>2. \E d \in DOMAIN Jobs : Jobs[d] = k
      BY DEF JobSet, ToSet
<1> QED BY <1>1, <1>2 DEF FindDependentJobs

LEMMA ReadyNext ==
  ASSUME OrderTypeOK, RunInv, ReadyInv, [OrderNext]_orderVars
  PROVE  ReadyInv'
<1>0. stack \in Seq(Frames) /\ ResultsAgree /\ ReadyJobsRun /\ results \in [ok : SUBSET JobSet, failed : SUBSET JobSet]
      BY DEF OrderTypeOK, Frames, RunInv, ReadyInv
<1>1. CASE StartRun
  <2>1. results' = [ok |-> {}, failed |-> {}] /\ phase' # "over"
      BY <1>1 DEF StartRun
  <2>2. \A j \in JobSet : ~IsReady(j)'
      BY <2>1 DEF IsReady
  <2> QED BY <2>1, <2>2 DEF ReadyInv, ReadyJobsRun
<1>2. CASE NextJob
  <2>1. cfg' = cfg /\ results' = results /\ phase' = phase /\ phase = "jobs" /\ stack = <<>>
      BY <1>2 DEF NextJob
  <2>2. \A j \in JobSet : ~IsCalled(j)
      BY <2>1 DEF IsCalled
  <2>3. \A j \in JobSet : IsReady(j)' => j \in results'.ok
      BY <2>1, <2>2 DEF ReadyInv, IsReady, Passed
  <2> QED BY <2>1, <2>3 DEF ReadyInv, ReadyJobsRun
<1>3. CASE SkipDone
  <2>1. /\ cfg' = cfg /\ results' = results /\ phase' = phase /\ phase = "jobs" /\ stack # <<>>
        /\ stack' = Front(stack) /\ ~Last(stack).begun /\ Ran(Last(stack).job)
      BY <1>3 DEF SkipDone
  <2>2. /\ Len(stack') = Len(stack) - 1 /\ (\A i \in 1..Len(stack) - 1 : stack'[i] = stack[i]) /\ Len(stack) \in Nat
        /\ Last(stack) = stack[Len(stack)]
      BY <1>0, <2>1, FrontOf
  <2>3. Last(stack).job \in results.ok
      BY <1>0, <2>1 DEF Ran, ResultsAgree
  <2>4. ASSUME NEW j \in JobSet, IsReady(j)', j \notin results.ok PROVE IsCalled(j)'
    <3>1. IsReady(j)
      BY <2>1, <2>4 DEF IsReady, Passed
    <3>2. PICK i \in 1..Len(stack) : IF stack[i].begun THEN \E d \in stack[i].deps : Jobs[d] = j ELSE stack[i].job = j
      BY <2>1, <2>4, <3>1 DEF ReadyInv, IsCalled
    <3>3. i # Len(stack)
      BY <2>1, <2>2, <2>3, <2>4, <3>2
    <3>4. i \in 1..Len(stack') /\ stack'[i] = stack[i]
      BY <2>2, <3>3
    <3> QED BY <3>2, <3>4 DEF IsCalled
  <2> QED BY <2>1, <2>4 DEF ReadyInv, ReadyJobsRun
<1>4. CASE RunJob
  <2>1. PICK j : j = Last(stack).job
      OBVIOUS
  <2>2. j \in JobSet /\ ~Ran(j) /\ (RunsWell(j) \/ Fails(j)) /\ Front(stack) \in Seq(Frames) /\ Begun(j) \in Frames
      BY <1>4, <2>1, RunCases
  <2>3. phase = "jobs" /\ stack # <<>> /\ ~Last(stack).begun /\ cfg' = cfg
      BY <1>4 DEF RunJob
  <2>4. CASE RunsWell(j)
    <3>0. Len(stack) \in Nat
      BY <1>0
    <3>1. /\ Len(Front(stack)) = Len(stack) - 1 /\ Len(stack) \in 1..Len(stack) /\ Len(stack) \in Nat
          /\ (\A i \in 1..Len(stack) - 1 : Front(stack)[i] = stack[i]) /\ Last(stack) = stack[Len(stack)]
      BY <1>0, <2>3, <3>0, FrontOf
    <3>2. /\ Len(stack') = Len(stack) /\ stack'[Len(stack)] = Begun(j)
          /\ \A i \in 1..Len(stack) - 1 : stack'[i] = stack[i]
      BY <2>2, <2>4, <3>1 DEF RunsWell
    <3>3. results'.ok = results.ok \cup {j} /\ phase' = phase
      BY <2>4 DEF RunsWell
    <3>4. ASSUME NEW k \in JobSet, IsReady(k)', k \notin results'.ok PROVE IsCalled(k)'
      <4>1. CASE IsReady(k)
        <5>1. PICK i \in 1..Len(stack) : IF stack[i].begun THEN \E d \in stack[i].deps : Jobs[d] = k ELSE stack[i].job = k
          BY <2>3, <3>3, <3>4, <4>1 DEF ReadyInv, IsCalled
        <5>2. i # Len(stack)
          BY <2>1, <2>3, <3>1, <3>3, <3>4, <5>1
        <5>3. i \in 1..Len(stack') /\ stack'[i] = stack[i]
          BY <3>1, <3>2, <5>2
        <5> QED BY <5>1, <5>3 DEF IsCalled
      <4>2. CASE ~IsReady(k)
        <5>1. PICK d \in FindDependentJobs(j) : Jobs[d] = k
          BY <2>3, <2>4, <3>4, <4>2, NewlyReady
        <5>2. Begun(j).begun /\ Begun(j).deps = FindDependentJobs(j)
          BY DEF Begun
        <5>3. Len(stack) \in 1..Len(stack')
          BY <3>1, <3>2
        <5> QED BY <3>2, <5>1, <5>2, <5>3 DEF IsCalled
      <4> QED BY <4>1, <4>2
    <3> QED BY <2>3, <3>3, <3>4 DEF ReadyInv, ReadyJobsRun
  <2>5. CASE Fails(j)
    <3>1. phase' = "failed"
      BY <2>5 DEF Fails
    <3> QED BY <3>1 DEF ReadyInv, ReadyJobsRun
  <2> QED BY <2>2, <2>4, <2>5
<1>5. CASE NextDependent
  <2>1. cfg' = cfg /\ results' = results /\ phase' = phase /\ phase = "jobs" /\ stack # <<>> /\ Last(stack).begun
      BY <1>5 DEF NextDependent
  <2>2. /\ Front(stack) \in Seq(Frames) /\ Len(Front(stack)) = Len(stack) - 1 /\ Len(stack) \in Nat \ {0}
        /\ (\A i \in 1..Len(stack) - 1 : Front(stack)[i] = stack[i]) /\ Last(stack) \in Frames /\ Last(stack) = stack[Len(stack)]
      BY <1>0, <2>1, FrontOf
  <2>3. ASSUME NEW k \in JobSet, IsReady(k)', k \notin results.ok PROVE IsCalled(k)'
    <3>1. IsReady(k)
      BY <2>1, <2>3 DEF IsReady, Passed
    <3>2. PICK i \in 1..Len(stack) : IF stack[i].begun THEN \E d \in stack[i].deps : Jobs[d] = k ELSE stack[i].job = k
      BY <2>1, <2>3, <3>1 DEF ReadyInv, IsCalled
    <3>3. CASE Last(stack).deps = {}
      <4>1. stack' = Front(stack)
        BY <1>5, <3>3 DEF NextDependent
      <4>2. i # Len(stack)
        BY <2>1, <2>2, <3>2, <3>3
      <4>3. i \in 1..Len(stack') /\ stack'[i] = stack[i]
        BY <2>2, <4>1, <4>2
      <4> QED BY <3>2, <4>3 DEF IsCalled
    <3>4. CASE Last(stack).deps # {}
      <4>1. PICK f, m, r : f = Advanced(Last(stack)) /\ m = Min(Last(stack).deps) /\ r = Append(Front(stack), f)
        OBVIOUS
      <4>2. f \in Frames /\ f.begun /\ Jobs[m] \in JobSet /\ f.deps = Last(stack).deps \ {m}
        BY <2>1, <2>2, <3>4, <4>1, AdvancedIs
      <4>3. stack' = IF CanJobRun(Jobs[m]) THEN Append(r, Called(Jobs[m])) ELSE r
        BY <1>5, <3>4, <4>1, DependentCases DEF Tries
      <4>4. /\ r \in Seq(Frames) /\ Len(r) = Len(stack) /\ r[Len(stack)] = f
            /\ \A a \in 1..Len(stack) - 1 : r[a] = stack[a]
        BY <2>2, <4>1, <4>2
      <4>5. Called(Jobs[m]) \in Frames /\ ~Called(Jobs[m]).begun /\ Called(Jobs[m]).job = Jobs[m]
        BY <4>2 DEF Called, Frames
      <4>6. Len(stack') >= Len(r) /\ Len(stack') \in Nat /\ \A a \in 1..Len(r) : stack'[a] = r[a]
        BY <4>3, <4>4, <4>5
      <4>7. CASE i # Len(stack)
        <5>1. i \in 1..Len(stack') /\ stack'[i] = stack[i]
          BY <2>2, <4>4, <4>6, <4>7
        <5> QED BY <3>2, <5>1 DEF IsCalled
      <4>8. CASE i = Len(stack)
        <5>1. PICK d \in Last(stack).deps : Jobs[d] = k
          BY <2>1, <2>2, <3>2, <4>8
        <5>2. CASE d # m
          <6>1. i \in 1..Len(stack') /\ stack'[i] = f
            BY <2>2, <4>4, <4>6, <4>8
          <6> QED BY <4>2, <5>1, <5>2, <6>1 DEF IsCalled
        <5>3. CASE d = m
          <6>1. CanJobRun(k)
            BY <3>1 DEF IsReady, CanJobRun, IsJobPassedSatisfied
          <6>2. stack' = Append(r, Called(k))
            BY <4>3, <5>1, <5>3, <6>1
          <6>3. Len(r) + 1 \in 1..Len(stack') /\ stack'[Len(r) + 1] = Called(k)
            BY <4>4, <4>5, <5>1, <5>3, <6>2
          <6> QED BY <4>5, <5>1, <5>3, <6>3 DEF IsCalled
        <5> QED BY <5>2, <5>3
      <4> QED BY <4>7, <4>8
    <3> QED BY <3>3, <3>4
  <2> QED BY <2>1, <2>3 DEF ReadyInv, ReadyJobsRun
<1>6. CASE EndOfRun
  <2>1. cfg' = cfg /\ results' = results /\ phase = "jobs" /\ phase' \in {"over", "failed"} /\ stack = <<>>
      BY <1>6 DEF EndOfRun
  <2>2. \A j \in JobSet : ~IsCalled(j)
      BY <2>1 DEF IsCalled
  <2> QED BY <2>1, <2>2 DEF ReadyInv, IsReady, ReadyJobsRun, Passed
<1>7. CASE UNCHANGED orderVars
      BY <1>0, <1>7 DEF orderVars, ReadyInv, IsReady, IsCalled, Passed, ReadyJobsRun
<1> QED BY <1>1, <1>2, <1>3, <1>4, <1>5, <1>6, <1>7 DEF OrderNext

\* Whatever the configurations, a run that ends well has run every job whose needs its own jobs fulfil (runner.go,
\* runJob's recursion into the dependents).
THEOREM ReadyJobsHold == OrderSpec => []ReadyJobsRun
<1>1. OrderInit => RunInv /\ ReadyInv
      BY DEF OrderInit, RunInv, ResultsAgree, CallsMayRun, PassedIsRespected, ToSet, ReadyInv, ReadyJobsRun
<1>2. OrderTypeOK /\ RunInv /\ [OrderNext]_orderVars => RunInv'
      BY RunNext
<1>3. OrderTypeOK /\ RunInv /\ ReadyInv /\ [OrderNext]_orderVars => ReadyInv'
      BY ReadyNext
<1>4. ReadyInv => ReadyJobsRun
      BY DEF ReadyInv
<1> QED BY <1>1, <1>2, <1>3, <1>4, OrderTypeCorrect, PTL DEF OrderSpec
=============================================================================
