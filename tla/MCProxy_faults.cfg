SPECIFICATION FairSpec
CONSTANTS
  s1 = s1
  s2 = s2
  Sessions <- OneSession
  BgctlSessions = {}
  Requests <- FaultRequests
  CBLOCKSIZE = 2
  disksize = 2
  MaxReq = 2
  readonly = FALSE
  proxy_max_que_size = 1
  proxy_max_buf_size = 2
  PrivSize = 1
  MAXNBLOCK = 4
  MaxFaults = 1
  MaxReconnects = 1
  MaxCrashes = 0
INVARIANTS
  MemAccounting
  
  RetryInOrder
  NeverServesHole
PROPERTIES
  
  SessionEnds
  RequestsAnswered
