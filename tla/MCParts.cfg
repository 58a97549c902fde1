SPECIFICATION PartsSpec
CONSTANTS
  NoKey = "none"
  Batches <- MCBatches
  Pages <- Order
  EmbedDepth = 2
  Tours <- MCTours
  Handles = {h1, h2}
  ChannelFiles = {"log", "other", "note1", "note2"}
  NoteFiles = {"note1", "note2"}
  DeltaCap = 1
  Meetings <- MCMeetings
  Members = {1, 2, 3, 4}
  TitleOf <- MCTitleOf
  Folders = {"six", "under", "more", "twin", "inbox"}
  ScopeOf <- MCScopeOf
  TokenOf <- MCTokenOf
  Categories = {"06", "27"}
  Expanded = {"27"}
  Floor = 1
  Highest = 4
  Instances = {"all", "rest"}
  ExcludedOf <- MCExcludedOf
  NoAddress = NoAddress
  NoFolder = NoFolder
  Gone = Gone
  Trips <- MCTrips
  h1 = h1
  h2 = h2
  r1 = r1
  r2 = r2
  r3 = r3
  pub = pub
  priv = priv
  sec = sec
  Reads = {r1, r2, r3}
  Connections = {a1, a2}
  Digests = {1, 2}
  SizeOf <- MCSizeOf
  NoteSources = {pub, priv, sec}
  GuardedNotes = {sec}
  MaxBytes = 3
  NoBlob = NoBlob
  Sightings <- MCSightings
  Linkers = {n1, n2}
  Moved = n3
  Outings <- MCOutings
  c1 = c1
  c2 = c2
  c3 = c3
  k1 = k1
  k2 = k2
  w1 = w1
  w2 = w2
  None = None
  Ops = {c1, c2, c3}
  Queues = {1}
  Keys = {k1, k2}
  StoreMax = 1
  KeyOf <- TrioKeys
  ReqOf <- TrioReqs
  Conditional = {c3}
  Crashes = FALSE
  JournalFails = FALSE
  MaxWindows = 0
  FsCalls = {2, 3}
  Fms <- MCFms
  Fields <- MCFields
  MaxChanges = 1
  Holders = {h1, h2}
  RawScopes <- MCRawScopes
  Paths <- MCPaths
  Allowlists <- MCAllowlists
  Up = ".."
  Here = "."
  TtlMin = 1
  TtlMax = 2
  Ttls = {3}
  LockMax = 2
  LockMaxPerHolder = 2
  MaxNow = 2
  MaxIds = 3
  Journals = {j1, j2}
  Months = 2
  MaxAppends = 2
  OldMonths = {m1, m2}
  NewMonth = m2
  MaxLoads = 4
  Drafts = {1, 2, 3}
  CounterOf <- MCCounterOf
  Cap = 1
  Verbs = {1, 2, 3}
  OldGrants = {9}
  Starts <- MCStarts
  MaxRefusals = 1
  AgentEdits = {"fix", "rewrite"}
  HumanEdits = {"typed"}
  OtherEdits = {"script"}
  Mechanical = {"fix"}
  ValuesOnly = {"fix"}
  Proposing = {"rewrite"}
  Guarded = {"script"}
  Plays <- MCPlays
  desk = desk
  phone = phone
  g1 = g1
  g2 = g2
  p1 = p1
  p2 = p2
  p3 = p3
  n1 = n1
  n2 = n2
  n3 = n3
  Machines = {desk, phone}
  Gestures = {g1, g2}
  Baselines = {b1}
  NoStore = NoStore
  Scenes <- MCScenes
  NotePaths = {p1, p2, p3}
  Notes = {n1, n2, n3}
  Nowhere = Nowhere
  NoUid = NoUid
  UidOf <- MCUidOf
  Histories <- MCHistories
  a1 = a1
  a2 = a2
  governor = governor
  other = other
  x1 = x1
  x2 = x2
  Calls = {a1, a2}
  Hooks = {governor, other}
  Governing = governor
  Sessions <- MCSessions
  Plugins = {governor, x1, x2}
  Providers = {governor}
  NameOf <- MCNameOf
  MaxInstances = 4
VIEW Moving
CONSTRAINT OneTimeout
INVARIANTS
  NoLostUpdate
  RecordsTrue
  RecordsPart
  LocksPart
  UnstuckPart
  AdoptionPart
  MandatesPart
  ReviewPart
  CutoverPart
  BaselinesPart
  DispatchPart
  PublicationPart
  NotesPart
  ObservationsPart
  SatellitesPart
PROPERTIES
  QueueSpec
  FilesKept
  KeepsClaims
  LinesKept
  EndsForGood
CHECK_DEADLOCK FALSE
