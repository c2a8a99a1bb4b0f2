SPECIFICATION Spec
CONSTANTS
  s1 = s1
  s2 = s2
  Sessions <- OneSession
  BgctlSessions = {}
  Requests <- FewRequests
  CBLOCKSIZE = 2
  disksize = 3
  MaxReq = 2
  readonly = FALSE
  proxy_max_que_size = 0
  proxy_max_buf_size = 0
  PrivSize = 1
  MAXNBLOCK = 4
  MaxFaults = 1
  MaxReconnects = 1
  MaxCrashes = 0
PROPERTIES
  WrittenStays
