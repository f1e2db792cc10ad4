SPECIFICATION MCSpec
CONSTANTS
  Runs = {"a", "b"}  Sandboxed = {"b"}  HasDeadline = {"a"}  Names = {"v"}
  Tasks = {"t", "u"}  Sandboxes = {"s"}  Helpers = {"h"}  Volumes = {"v", "w"}  MaxCrashes = 1
  VolumeOf <- DockerVolumes  ClaimOf <- Claims  MountOf <- Mounts  WithStdin = {"t"}
  HelperIds = {"h1", "h2"}  Disks = {"d1", "d2"}
  Streams = {"stdout", "stderr"}  MaxChunks = 2  LiveCapacity = 1  Pollers = {"p", "q"}  Entries = {"e"}
  Calls = {"a", "b"}  Vz = TRUE  MaxFaults = 2
  Instances = {"d1", "d2", "d3"}  Callers = {"c1", "c2", "c3"}  InstanceOf <- OwnInstance
  Machines = {"m1", "m2"}  MaxWorkers = 1  Reuse = TRUE  IdleLabelRead = TRUE  MaxCalls = 2
INVARIANTS
  DriverTypes  NoMachineIsForgotten
   
CHECK_DEADLOCK FALSE
