SPECIFICATION FairSpec
CONSTANTS
  nblocks = 3
  mapped_bits = 4
  blocks_at_once = 2
  SHARED_NBLOCKS = 2
  max_size = 1
  SockSize = 1
  QueSize = 1
  Commands = {"cache_all", "cache_all2"}
  force = FALSE
INVARIANTS
  ProgressExact
  NothingMissed
  
  

  
