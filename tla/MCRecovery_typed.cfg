SPECIFICATION PhoneSpec
CONSTANTS
  s1 = s1
  s2 = s2
  p1 = p1
  p2 = p2
  Seeds = {s1, s2}
  Passphrases = {p1, p2}
  pin = pin
  Pins = {pin}
  CountSpan = 3
  MaxEnrolments = 2
SYMMETRY Symmetry
INVARIANTS ContentsOpenToTheSeed
