SPECIFICATION Spec
CONSTANTS
  p1 = p1  p2 = p2  c1 = c1  c2 = c2  g1 = g1
  Pipelines <- OnePipeline
  Mode <- NoMode
  CancelRunning = {}
  ResumeEnabled = {}
  Template <- NoTemplate
  KeepBuilds <- NoRetention
  MaxInFlight = 2
  MaxQueueSize = 1
  Callers <- TwoCallers
  Boot = Boot
  Processor = Processor
  Execs = {1, 2, 3, 4}
  MaxRuns = 1
  CreatedAt <- EverySecond
  MaxRestarts = 0
  MaxRequests = 2
  Ops = {"trigger", "resume"}
  None = None
  NoGroup = NoGroup
  TemplateError = TemplateError
PROPERTIES OnlyFailedRunsAreResumed
CHECK_DEADLOCK FALSE
