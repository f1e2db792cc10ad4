SPECIFICATION Spec
CONSTANTS
  p1 = p1  p2 = p2  c1 = c1  c2 = c2  g1 = g1
  Pipelines <- OnePipeline
  Mode <- NoMode
  CancelRunning = {}
  ResumeEnabled = {}
  Template <- NoTemplate
  KeepBuilds <- NoRetention
  MaxInFlight = 1
  MaxQueueSize = 1
  Callers <- TwoCallers
  Boot = Boot
  Processor = Processor
  Execs = {1, 2, 3, 4}
  MaxRuns = 1
  CreatedAt <- EverySecond
  MaxRestarts = 0
  MaxRequests = 3
  Ops = {"trigger", "stop", "resume"}
  None = None
  NoGroup = NoGroup
  TemplateError = TemplateError
INVARIANTS TypeOK InFlightIsExact OvershootBounded RegistryIsSound StopIsHonoured
SYMMETRY CallerSymmetry
CHECK_DEADLOCK FALSE
