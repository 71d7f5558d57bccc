SPECIFICATION Spec
CONSTANTS
  s1 = s1
  s2 = s2
  Seeds = {s1, s2}
  ChunkLen = 2
  TagLen = 1
  Sizes = {0, 2, 3}
  MaxSeals = 2
  MaxSkips = 2
SYMMETRY Symmetry
INVARIANTS WholeOrNothing TruncatedMeansGoOn
CHECK_DEADLOCK FALSE
