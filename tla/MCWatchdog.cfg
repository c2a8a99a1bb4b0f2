SPECIFICATION FairSpec
CONSTANTS
  p1 = p1  p2 = p2  d1 = d1
  Connects = {p1, p2}
  Disconnects = {d1}
  NoPid = NoPid
  dst_list <- PlainSecond
  exportname = FALSE
  max_retry = 1
  Overlap = FALSE
  timeout = 1
  interval = 1
INVARIANTS RecoveryIsUnexpected OneOwner
PROPERTIES NoFalseAlarm HangNoticed  
CHECK_DEADLOCK FALSE
