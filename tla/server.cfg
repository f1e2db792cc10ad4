SPECIFICATION ServerSpec
CONSTANTS
  q1 = q1  q2 = q2  Null = Null
  Resolvers <- TwoResolvers
  Timeout = 1
  TimeoutParses = TRUE
  GatesEnabled = TRUE
  MaxGates = 2
  MaxRequests = 3
  MaxTime = 4
  Ops = {"stop", "delete", "crash", "resume"}
  Jobs = {"j", "k"}  Exprs <- Every1AndEven  Instances = {"i1", "i2"}
  SchedMaxTime = 3  MaxSets = 2
  SchedOps = {"full", "disconnect", "enable", "pause", "delete"}
  JobNames = {"a", "b"}  PassedOf <- BAfterA
  MaxTriggers = 2  MaxRuns = 4  MaxClock = 3  MaxCrashes = 1
  Deliveries = {"d1", "d2"}  KeyOf <- OneKey
  MaxInFlight = 2  MaxQueueSize = 1  MaxExecs = 2  MaxDeaths = 1
  Users = {"u", "w"}  Browsers = {"b"}  Clients = {"m", "n"}  Requests = {"r", "s"}
  Lifetime = 1  MaxCodes = 1  LoginMaxTime = 2  MaxRestarts = 1
INVARIANTS
  ServerTypes PassedWasApproved OneResolution
  ClaimIsNeverForgotten NextRunFiresOnce  UpstreamFiresOnce
  HookIsHandledOnce TokenIsEarned
PROPERTIES GateWaitEnds
CHECK_DEADLOCK FALSE
