SPECIFICATION FailoverSpec
CONSTANTS
  Polls = {i1, i2}
  MaxMoves = 3
  MaxTimeouts = 1
  Backends = {b1, b2}
  MaxSessions = 1
  Builds = {g1, g2}
  NoBuild = NoBuild
INVARIANTS
  WatcherOffWhenLive
