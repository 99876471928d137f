SPECIFICATION ObserverSpec
CONSTANTS
  Surfaces = {"desktop", "gateway"}
  Bindings = {b1}
  Authorities <- BothSurfaces
  Sequences <- UpToMaxLog
  Baselines <- AnyBaseline
  EventIds <- ObservedIds
  Turns <- AllTurns
  Kinds <- AllKinds
  Messages = {m1, m2}
  Exclusions <- SetsOfTurns
  ItemTypes <- AllTypes
  MaxQueueRows = 1
  MaxBusyRetries = 1
  NativeTurns = {u1, u2}
  PostedIds = {m1, m2}
  Requests = {r1}
  MaxLog = 4
  ReconnectLimit = 2
  MaxHistory = 2
  MaxBreaks = 1
  NoAuthority = NoAuthority
  None = None
  NoId = None
  b1 = b1
  t1 = t1
  h1 = h1
  o1 = o1
  s1 = s1
  u1 = u1
  u2 = u2
  m1 = m1
  m2 = m2
  r1 = r1
INVARIANTS
  ObserverTypeOK
  RowIsTrue
  SpentByItsOwnTurn
CHECK_DEADLOCK FALSE
PROPERTIES
  NewsIsReported
