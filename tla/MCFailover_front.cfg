SPECIFICATION FairFailoverSpec
CONSTANTS
  Polls = {i1, i2}
  MaxMoves = 2
  MaxTimeouts = 2
  Backends = {b1, b2}
  MaxSessions = 1
  Builds = {g1, g2}
  NoBuild = NoBuild
INVARIANTS
  FrontSafe
PROPERTIES
  PresenceConverges
