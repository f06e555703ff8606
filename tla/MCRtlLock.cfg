CONSTANTS
  r1 = r1
  r2 = r2
  r3 = r3
  Runners <- MCRunners
  Paths <- MCPaths
  Trees <- MCPaths
  TreeOf <- MCTreeOf
  Keys <- MCKeys
  lock_path <- MCLockPath
  Timeout = 1
  Nobody = Nobody

SPECIFICATION LockFairSpec

INVARIANTS
  Exclusion
  NoForeignChange

PROPERTY TimedWaitEnds

CHECK_DEADLOCK FALSE
