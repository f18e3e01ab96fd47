\* Checks ReturnedLoopLeftNoServer alone; the spec states it, the code does not keep it.
CONSTANTS
  Pids <- MCPids
  Root = Root
  Owner = Owner
  DaemonUser = DaemonUser
  NoCmd = NoCmd
  NoAddr = NoAddr
  MaxSleepTime <- MCMaxSleepTime
  RunDurations <- MCRunDurations
SPECIFICATION Spec
INVARIANT ReturnedLoopLeftNoServer
CHECK_DEADLOCK FALSE
