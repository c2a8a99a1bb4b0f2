SPECIFICATION Spec
CONSTANTS
  s1 = s1
  s2 = s2
  Sessions <- TwoSessions
  BgctlSessions = {s2}
  Requests <- SwitchRequests
  CBLOCKSIZE = 2
  disksize = 3
  MaxReq = 1
  readonly = FALSE
  proxy_max_que_size = 0
  proxy_max_buf_size = 0
  PrivSize = 1
  MAXNBLOCK = 4
  MaxFaults = 0
  MaxReconnects = 0
  MaxCrashes = 1
INVARIANTS
  SwitchKeepsData
PROPERTIES
  WrittenStays
