SPECIFICATION FairSpec
CONSTANTS
  o1 = o1
  o2 = o2
  o3 = o3
  Ops = {o1, o2, o3}
  q1 = q1
  q2 = q2
  Queues = {q1, q2}
  None = None
  Requests = {r1}
  Notes = {n1}
  Initialize = init
  Initialized = initd
  MaxPending = 2
  RapidFailMax = 2
  MaxDeaths = 2
  LexOrder <- MCLexOrder
  Ids = {"id"}
  Names = {"x", "y"}
  IdOf <- MCIdOf
  BaseOf <- MCBaseOf
  Contents <- MCContents
  NoNote = NoNote
  MaxEdits = 2
  MaxBuilds = 2
INVARIANTS
  QueueSafe
  RelaySafe
  IndexSafe
PROPERTIES
  AnsweredOnce
  NoOvertaking
  NeverWedged
  FailedOrKept
  ClientServed
  ChangeReachesIndex
CHECK_DEADLOCK FALSE
