SPECIFICATION Spec
CONSTANTS
  Surfaces = {"desktop", "gateway"}
  Bindings = {b1, b2}
  Authorities <- UpgradeAuthorities
  Sequences <- UpTo1
  Baselines = {None}
  EventIds = {e1, e2}
  Turns = {u1, u2}
  Kinds = {k1}
  Messages = {m1}
  Exclusions = {{}}
  ItemTypes = {"other"}
  MaxQueueRows = 2
  MaxBusyRetries = 1
  NoAuthority = NoAuthority
  None = None
  b1 = b1
  b2 = b2
  b3 = b3
  t1 = t1
  h1 = h1
  o1 = o1
  s1 = s1
  s2 = s2
  e1 = e1
  e2 = e2
  u1 = u1
  k1 = k1
  k2 = k2
  u2 = u2
  m1 = m1
SYMMETRY Symmetry
INVARIANTS
  TypeOK
  ClaimIsExclusive
  WithdrawnHasNoOpenRow
  OneLiveGeneration
  NoReplayAcrossGenerations
  SupersededStaysSettled
  RowsCarryTheirSource
