SPECIFICATION Spec
CONSTANTS
  s1 = s1
  s2 = s2
  Sessions <- TwoSessions
  BgctlSessions = {}
  Requests <- FewRequests
  CBLOCKSIZE = 2
  disksize = 3
  MaxReq = 1
  readonly = FALSE
  proxy_max_que_size = 1
  proxy_max_buf_size = 3
  PrivSize = 1
  MAXNBLOCK = 4
  MaxFaults = 0
  MaxReconnects = 0
  MaxCrashes = 0
SYMMETRY SessionSymmetry
INVARIANTS
  SessionPinned
  TxQueueDrained
PROPERTIES
  SerialDisk
