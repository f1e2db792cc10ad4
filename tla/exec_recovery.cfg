SPECIFICATION Spec
CONSTANTS
  p1 = p1  p2 = p2  c1 = c1  c2 = c2  g1 = g1
  Pipelines <- TwoPipelines
  Mode <- MixedMode
  CancelRunning = {}
  ResumeEnabled <- OnePipeline
  Template <- NoTemplate
  KeepBuilds <- KeepOne
  MaxInFlight = 1
  MaxQueueSize = 1
  Callers <- OneCaller
  Boot = Boot
  Processor = Processor
  Execs = {1, 2, 3}
  MaxRuns = 2
  CreatedAt <- PairsPerSecond
  MaxRestarts = 1
  MaxRequests = 1
  Ops = {"trigger", "stop", "delete", "crash", "sigterm", "shutdown"}
  None = None
  NoGroup = NoGroup
  TemplateError = TemplateError
INVARIANTS RunningIsExecuted
SYMMETRY CallerSymmetry
CHECK_DEADLOCK FALSE
