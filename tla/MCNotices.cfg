SPECIFICATION FairOutboxSpec
CONSTANTS
  Surfaces = {"desktop"}
  Bindings = {b1}
  Authorities <- OneEvent
  Sequences <- UpTo1
  Baselines = {0}
  EventIds = {e1}
  Turns = {u1}
  Kinds = {k1}
  Messages = {m1}
  Exclusions = {{}}
  ItemTypes = {"other"}
  MaxQueueRows = 2
  MaxBusyRetries = 1
  MaxNoticeRetries = 2
  MaxStops = 2
  NoAuthority = NoAuthority
  None = None
  b1 = b1
  b2 = b2
  t1 = t1
  t2 = t2
  h1 = h1
  o1 = o1
  s1 = s1
  e1 = e1
  e2 = e2
  u1 = u1
  u2 = u2
  k1 = k1
  m1 = m1
INVARIANTS
  OutboxTypeOK
  NoticeProvesCompletion
  NoticeTellsTheTruth
PROPERTIES
  NoticeDecidedOnce
  NoticesEnd
