\* Passports, parts of passports and copies read, in front of four trust stores.
SPECIFICATION Spec
CONSTANTS
  None = None
  Infinity = Infinity
  Documents <- MCDocuments
  Sods <- MCSods
  Files <- MCFiles
  AnchorSets <- MCAnchorSets
  KindOf <- MCKindOf
  AaHashes = {"SHA-256", "SHA-1"}
  MaxChallenges = 2
  Curves <- MCCurves
  PrivateKeys = {7, 18}
  Hashes = {0, 77, 255}
  Numbers = {0, 1, 2, 3, 4, 5, 6, 7, 8, 9, 10, 11, 12, 13, 14, 15, 16, 17, 18, 19, 20}
INVARIANTS GenuineIffProved VerifiesWhatWasSigned
CHECK_DEADLOCK FALSE
