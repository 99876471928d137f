SPECIFICATION DeliverySpec
CONSTANTS
  Surfaces = {"desktop", "gateway"}
  Bindings = {b1}
  Authorities <- BothMissions
  Sequences <- UpTo2
  Baselines = {0}
  EventIds = {e1, e2}
  Turns = {u1, u2}
  Kinds = {k1}
  Messages = {m1}
  Exclusions = {{}}
  ItemTypes = {"other"}
  MaxQueueRows = 2
  MaxBusyRetries = 2
  MaxCrashes = 1
  NoAuthority = NoAuthority
  None = None
  b1 = b1
  b2 = b2
  t1 = t1
  h1 = h1
  o1 = o1
  s1 = s1
  e1 = e1
  e2 = e2
  u1 = u1
  u2 = u2
  k1 = k1
  m1 = m1
SYMMETRY Symmetry
CONSTRAINT OwnConsumerOnly
INVARIANTS
  NeverOfferedTwice
  BudgetIsFinite
  CompletedWasAdmitted
PROPERTIES
  DecidedOnce
  CompletedReceiptIsKept
  ExhaustedIsForever
