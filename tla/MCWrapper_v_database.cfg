SPECIFICATION Spec
CONSTANTS
  a = a  b = b  f = f  h1 = h1  h2 = h2  t1 = t1  t2 = t2  c1 = c1  c2 = c2
  None = None
  Names = {a, b}
  Files = {f}
  Hosts = {h1, h2}
  Threads = {t1, t2}
  Clients = {c1, c2}
  Lines <- ProxyLines
  OldImages <- Old
  MAX_NSRVS = 1
  MAX_CTL_CONNS = 2
  OneAtATime = FALSE
  MaxCommands = 2
  MaxStarts = 2
INVARIANTS StartsAgain
CHECK_DEADLOCK FALSE
