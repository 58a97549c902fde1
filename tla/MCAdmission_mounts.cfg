SPECIFICATION FairAdmissionSpec
CONSTANTS
  c1 = c1
  c2 = c2
  c3 = c3
  d1 = d1
  d2 = d2
  d3 = d3
  p1 = p1
  p2 = p2
  g1 = g1
  g2 = g2
  g3 = g3
  Nil = Nil
  Calls = {c1, c3}
  Decisions = {d1, d2, d3}
  Proposals = {p1, p2}
  Gestures = {g1, g2, g3}
  DecisionOf <- CohortDecisions
  GestureOf <- OwnGestures
  MembersOf <- Covers
  Cohorts = {d3}
  MaxMounts = 2
  MaxFaults = 1
  Remounts = TRUE
  Crashes = TRUE
  SlowReads = FALSE
INVARIANTS
  AnswersHonest
PROPERTIES
  LedgerRefined
  ClicksAnswered
CHECK_DEADLOCK FALSE
