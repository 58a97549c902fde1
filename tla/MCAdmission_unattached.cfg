SPECIFICATION AdmissionSpec
CONSTANTS
  c1 = c1
  c2 = c2
  c3 = c3
  d1 = d1
  d2 = d2
  d3 = d3
  p1 = p1
  p2 = p2
  g1 = g1
  g2 = g2
  g3 = g3
  Nil = Nil
  Calls = {c1, c2}
  Decisions = {d1, d2, d3}
  Proposals = {p1, p2}
  Gestures = {g1, g2, g3}
  DecisionOf <- RetryDecisions
  GestureOf <- OwnGestures
  MembersOf <- Covers
  Cohorts = {d3}
  MaxMounts = 1
  MaxFaults = 1
  Remounts = FALSE
  Crashes = FALSE
  SlowReads = FALSE
INVARIANTS
  RefusedOnlyIfStands
CHECK_DEADLOCK FALSE
