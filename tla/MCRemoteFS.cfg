\* Reconfiguration, routing and dialing with a userServer per owner.
CONSTANTS
  ShareNames <- MCShareNames
  Owners <- MCOwners
  Configs <- MCConfigs
  AllowShareAs = TRUE
  Requests = {r1}
  MaxGen = 2
  None = None
  ReadOnly = ReadOnly
  ReadWrite = ReadWrite
  NoServer = NoServer
SPECIFICATION Spec
INVARIANT TypeOK
INVARIANT InstalledServersNotClosed
INVARIANT RoutingMatchesServers
INVARIANT DialReachesShareOwner
INVARIANT PermissionsEnforced
PROPERTY ReplacedServersClosed
\* With MaxGen generations installed and the request answered, nothing is left to do.
CHECK_DEADLOCK FALSE
