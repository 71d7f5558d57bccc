\* Texts cross commits, arrive twice, late or out of order; one crash or one lost
\* device, and the recovery file.
SPECIFICATION EitherSpec
CONSTANTS
  a = a
  b = b
  c = c
  Devices <- MCTwo
  Identity <- MCOwnIdentity
  LeafSpan = 3
  MaxPast = 1
  RatchetWindow = 1
  MaxStates = 4
  MaxTexts = 2
  MaxPackages = 1
  MaxNewcomers = 1
  MaxAnswers = 1
  MaxRestarts = 1
SYMMETRY Symmetry
INVARIANTS TypeOK OneSeat PastIsAncestry OnlyTheSeatedRead FirstCopyOpens
ACTION_CONSTRAINT AsBegun
CHECK_DEADLOCK FALSE
