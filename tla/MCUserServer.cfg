\* The supervisor with its Close caller: safety and liveness.
CONSTANTS
  Pids <- MCPids
  Root = Root
  Owner = Owner
  DaemonUser = DaemonUser
  NoCmd = NoCmd
  NoAddr = NoAddr
  MaxSleepTime <- MCMaxSleepTime
  RunDurations <- MCRunDurations
SPECIFICATION Spec
INVARIANT TypeOK
INVARIANT NeverServesAsRoot
INVARIANT BackoffNoOverflow
PROPERTY RetriesUntilClosed
 
 
CHECK_DEADLOCK FALSE
