SPECIFICATION FairKernelSpec
CONSTANTS
  c1 = c1
  c2 = c2
  c3 = c3
  k1 = k1
  k2 = k2
  w1 = w1
  w2 = w2
  None = None
  Ops = {c1, c2}
  Queues = {1, 2}
  Keys = {k1}
  StoreMax = 2
  KeyOf <- PairKeys
  ReqOf <- PairReqs
  Conditional = {c1, c2}
  Crashes = FALSE
  JournalFails = FALSE
  MaxWindows = 0
INVARIANTS
  KeysSafe
PROPERTIES
  CallsAnswered
CHECK_DEADLOCK FALSE
