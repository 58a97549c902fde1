SPECIFICATION KernelSpec
CONSTANTS
  c1 = c1
  c2 = c2
  c3 = c3
  k1 = k1
  k2 = k2
  w1 = w1
  w2 = w2
  None = None
  Ops = {c1, c2, c3}
  Queues = {1, 2}
  Keys = {k1, k2}
  StoreMax = 1
  KeyOf <- TrioKeys
  ReqOf <- TrioReqs
  Conditional = {}
  Crashes = TRUE
  JournalFails = TRUE
  MaxWindows = 1
SYMMETRY RetrySymmetry
CONSTRAINT ThirdAlone
INVARIANTS
  NoDuplicateWrite
CHECK_DEADLOCK FALSE
