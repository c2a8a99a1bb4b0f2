SPECIFICATION Spec
CONSTANTS
  s1 = s1
  s2 = s2
  Sessions <- OneSession
  BgctlSessions = {}
  Requests <- BlockRequests
  CBLOCKSIZE = 2
  disksize = 5
  MaxReq = 3
  readonly = FALSE
  proxy_max_que_size = 1
  proxy_max_buf_size = 0
  PrivSize = 1
  MAXNBLOCK = 2
  MaxFaults = 0
  MaxReconnects = 0
  MaxCrashes = 0
INVARIANTS
  TypeOK
  QueueBound
  MarkedIsBacked
PROPERTIES
  SerialDisk
