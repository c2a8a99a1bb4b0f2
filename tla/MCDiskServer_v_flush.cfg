SPECIFICATION Spec
CONSTANTS
  s1 = s1
  s2 = s2
  Sessions <- TwoSessions
  Requests <- FlushRequests
  CBLOCKSIZE = 2
  disksize = 5
  MaxReq = 2
  Cmds = {"cow_target"}
  Sends <- Everything
  Sharing = "turns"
  readonly = FALSE
  ULONG_MAX = 255
  MaxErrors = 0
INVARIANTS
  ViewCurrent
