SPECIFICATION ReleaseSpec
CONSTANTS
  Builders = {p1, p2, p3}
  Artifacts <- ArchiveAndChecksum
  MaxFaults = 1
  p1 = p1
  p2 = p2
  p3 = p3
SYMMETRY Symmetry
INVARIANTS
  NamesAreWhole
  SuccessIsKept
  MixIsReported
CHECK_DEADLOCK FALSE
