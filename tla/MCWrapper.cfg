SPECIFICATION FairSpec
CONSTANTS
  a = a  b = b  f = f  h1 = h1  h2 = h2  t1 = t1  t2 = t2  c1 = c1  c2 = c2
  None = None
  Names = {a, b}
  Files = {f}
  Hosts = {h1, h2}
  Threads = {t1, t2}
  Clients = {c1, c2}
  Lines <- AllLines
  OldImages <- Old
  MAX_NSRVS = 1
  MAX_CTL_CONNS = 2
  OneAtATime = TRUE
  MaxCommands = 2
  MaxStarts = 2
INVARIANTS CountExact ServersBounded DatabaseCurrent StartsAgain
   
CHECK_DEADLOCK FALSE
