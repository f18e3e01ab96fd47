\* Checks SharesFollowConfig alone; the spec states it, the code does not keep it.
CONSTANTS
  ShareNames <- MCShareNames
  Owners <- MCOwners
  Configs <- MCConfigs
  AllowShareAs = TRUE
  Requests = {r1}
  MaxGen = 2
  None = None
  ReadOnly = ReadOnly
  ReadWrite = ReadWrite
  NoServer = NoServer
SPECIFICATION Spec
INVARIANT SharesFollowConfig
CHECK_DEADLOCK FALSE
