\* Mandates gathered, misread, altered and expired, under rules that change.
SPECIFICATION Spec
CONSTANTS
  d = d
  e = e
  Signers <- MCSigners
  Asks <- MCAsks
  Expiries = {0, 2}
  DayLength = 2
  LastInstant = 3
  MaxStatements = 2
  Orgs = {1, 2}
  Founder <- MCFounder
  Rules <- MCRules
  MaxPublications = 1
INVARIANTS BindsOnlyWhileItVerifies PublishedWasAgreed RuleCanPass
CHECK_DEADLOCK FALSE
