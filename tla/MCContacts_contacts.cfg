\* Two people who show codes, answer them, move, and rotate their handles.
SPECIFICATION Spec
CONSTANTS
  ann = ann
  ben = ben
  People = {ann, ben}
  Relay = Relay
  Absent = Absent
  here = here
  there = there
  nowhere = nowhere
  Mediators = {here, there, nowhere}
  Urls = {here, there}
  WellKnown = here
  Name <- MCName
  MaxNameChars = 3
  MaxNameBytes = 5
  MaxCards = 2
  MaxRotations = 1
  KeyIds = {1, 2}
  MaxPost = 2
INVARIANTS AnswersArrive ReadAsWritten EachKeyServesOnce
CHECK_DEADLOCK FALSE
