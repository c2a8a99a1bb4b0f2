SPECIFICATION Spec
CONSTANTS
  s1 = s1
  s2 = s2
  Sessions <- TwoSessions
  Requests <- DiskRequests
  CBLOCKSIZE = 2
  disksize = 5
  MaxReq = 2
  Cmds = {"target", "cow_target"}
  Sends <- AllButCowFlush
  Sharing = "turns"
  readonly = FALSE
  ULONG_MAX = 255
  MaxErrors = 1
SYMMETRY SessionSymmetry
INVARIANTS
  ViewCurrent

  
