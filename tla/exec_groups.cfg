SPECIFICATION Spec
CONSTANTS
  p1 = p1  p2 = p2  c1 = c1  c2 = c2  g1 = g1
  Pipelines <- TwoPipelines
  Mode <- GroupMode
  CancelRunning <- OnePipeline
  ResumeEnabled = {}
  Template <- FaultyGroup
  KeepBuilds <- KeepOne
  MaxInFlight = 1
  MaxQueueSize = 1
  Callers <- TwoCallers
  Boot = Boot
  Processor = Processor
  Execs = {1, 2}
  MaxRuns = 2
  CreatedAt <- EverySecond
  MaxRestarts = 0
  MaxRequests = 0
  Ops = {"trigger", "sync", "disconnect", "dberror"}
  None = None
  NoGroup = NoGroup
  TemplateError = TemplateError
INVARIANTS RunningIsExecuted
SYMMETRY CallerSymmetry
CHECK_DEADLOCK FALSE
