SPECIFICATION KernelSpec
CONSTANTS
  c1 = c1
  c2 = c2
  c3 = c3
  k1 = k1
  k2 = k2
  w1 = w1
  w2 = w2
  None = None
  Ops = {c1, c2}
  Queues = {1}
  Keys = {k1}
  StoreMax = 2
  KeyOf <- PairKeys
  ReqOf <- PairReqs
  Conditional = {}
  Crashes = FALSE
  JournalFails = FALSE
  MaxWindows = 0
SYMMETRY RetrySymmetry
INVARIANTS
  RetryWritesOnce
CHECK_DEADLOCK FALSE
