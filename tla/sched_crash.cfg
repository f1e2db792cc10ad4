SPECIFICATION SchedulerFairSpec
CONSTANTS
  i1 = i1  i2 = i2  j1 = j1  j2 = j2
  Jobs <- OneJob
  Exprs <- Every1
  Instances <- OneInstance
  SchedMaxTime = 3
  MaxSets = 1
  SchedOps = {"crash"}
  Null = Null
PROPERTIES ScheduleIsRearmed
CHECK_DEADLOCK FALSE
