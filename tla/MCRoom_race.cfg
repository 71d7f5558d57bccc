\* Races between members under fair delivery.
SPECIFICATION PairFairSpec
CONSTANTS
  a = a
  b = b
  c = c
  Devices <- MCThree
  Identity <- MCOwnIdentity
  LeafSpan = 3
  MaxPast = 1
  RatchetWindow = 1
  MaxStates = 6
  MaxTexts = 0
  MaxPackages = 1
  MaxNewcomers = 2
  MaxAnswers = 0
  MaxRestarts = 0
INVARIANTS OneWinner TurnsComeRound
PROPERTIES RaceSettles
CHECK_DEADLOCK FALSE
