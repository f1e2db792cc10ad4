SPECIFICATION FairSpec
CONSTANTS
  p1 = p1  p2 = p2  c1 = c1  c2 = c2  g1 = g1
  Pipelines <- OnePipeline
  Mode <- SerialMode
  CancelRunning = {}
  ResumeEnabled = {}
  Template <- NoTemplate
  KeepBuilds <- NoRetention
  MaxInFlight = 2
  MaxQueueSize = 0
  Callers <- OneCaller
  Boot = Boot
  Processor = Processor
  Execs = {1, 2, 3}
  MaxRuns = 2
  CreatedAt <- EverySecond
  MaxRestarts = 0
  MaxRequests = 2
  Ops = {"trigger"}
  None = None
  NoGroup = NoGroup
  TemplateError = TemplateError
PROPERTIES NoRunWaitsForever
CHECK_DEADLOCK FALSE
