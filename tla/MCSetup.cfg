SPECIFICATION SetupSpec
CONSTANTS
  Processes = {p1, p2, p3}
  Missions = {m1, m2}
  OriginalKey = k0
  MaxFaults = 1
  p1 = p1
  p2 = p2
  p3 = p3
  m1 = m1
  m2 = m2
  k0 = k0
INVARIANTS
  ReadyIsSound
PROPERTIES
  HistorySurvives
  LedgerComesUp
CHECK_DEADLOCK FALSE
