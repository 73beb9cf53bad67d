SPECIFICATION FairSpec
CONSTANTS
  Error = Error
  None = None
  Lookup = {l1, l2}
  Sockets = 3
  IdSpace = 2
  HostName <- MCHostName
  Ip <- MCIp
  MaxExtra = 1
 
PROPERTIES LookupSettles
CHECK_DEADLOCK FALSE
