\* Races, removals, welcomes and rejoins among three devices.
SPECIFICATION PairSpec
CONSTANTS
  a = a
  b = b
  c = c
  Devices <- MCThree
  Identity <- MCOwnIdentity
  LeafSpan = 3
  MaxPast = 1
  RatchetWindow = 1
  MaxStates = 6
  MaxTexts = 0
  MaxPackages = 2
  MaxNewcomers = 1
  MaxAnswers = 1
  MaxRestarts = 0
INVARIANTS HoldsOnlyWhereSeated PackageOpensOnce NobodyTradesPlaces
PROPERTIES NoWayBackButAWelcome
CHECK_DEADLOCK FALSE
