SPECIFICATION JobsSpec
CONSTANTS
  None = None  Plans <- JobPlans  MayStop = TRUE
  Jobs <- JobOrder  Configs <- JobConfigs  TargetLists <- Targets  TriggerTypes <- Origins  MaxRuns = 2
  Tasks <- TwoTasks  CacheOf <- GoCache  VolumeOf <- GoVolume
  HasTimeout <- OneTask  CacheS3 = TRUE  ExitsByItself <- OneTask
  Savers <- TwoSavers  Modes <- SaverModes  MaxVersion = 3  MaxIndex = 6
  Calls <- ScriptCalls  KindOf <- ScriptKinds  After <- StagesAfter
  Chunks <- OneChunk  Throws = FALSE
  LastCall = 3  Agents <- SecondStep  Adopts = TRUE
  MaxSessions = 3  MaxErrors = 1
INVARIANTS
  JobTypes SuccessIsEarned MaxInFlightHolds EnsureRuns
  
  CirclesAreRefused  
  NoHoles EveryIsInOrder
  NoSendAfterClose ResultComesLast
  
PROPERTIES
  FailFastStopsLaunching FinalRowsStay  
CHECK_DEADLOCK FALSE
