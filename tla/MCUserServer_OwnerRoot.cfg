\* share.As is "root": run passes it to sudo -u unchecked (306-310).
CONSTANTS
  Pids <- MCPids
  Root = Root
  Owner = Root
  DaemonUser = DaemonUser
  NoCmd = NoCmd
  NoAddr = NoAddr
  MaxSleepTime <- MCMaxSleepTime
  RunDurations <- MCRunDurations
SPECIFICATION Spec
INVARIANT NeverServesAsRoot
CHECK_DEADLOCK FALSE
