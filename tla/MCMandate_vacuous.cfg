\* A rule whose fraction has numerator zero.
SPECIFICATION Spec
CONSTANTS
  d = d
  e = e
  Signers <- MCSigners
  Asks <- MCOneAsk
  Expiries = {0, 2}
  DayLength = 2
  LastInstant = 3
  MaxStatements = 1
  Orgs = {1, 2}
  Founder <- MCFounder
  Rules <- MCZeroRules
  MaxPublications = 1
INVARIANTS SomebodySigned
CHECK_DEADLOCK FALSE
