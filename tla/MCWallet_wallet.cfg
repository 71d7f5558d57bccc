\* Credentials claimed, kept, shown and revoked between two wallets, issuers and verifiers.
SPECIFICATION Spec
CONSTANTS
  None = None
  Half = Half
  Absent = Absent
  Scalar = Scalar
  w1 = w1
  w2 = w2
  Members <- MCMembers
  Json <- MCJson
  Issuers <- MCIssuers
  Relays <- MCRelays
  Wallets = {w1, w2}
  Offers <- MCOffers
  OfferUrls <- MCOfferUrls
  Preambles <- MCPreambles
  Asks <- MCAsks
  Configurations <- MCConfigurations
  Instants = {0, 2}
  MaxIssued = 1
  Pins <- MCPins
  Misserved <- MCMisserved
  Skew = 1
  Statements <- MCStatements
  VoucherDocs <- MCVoucherDocs
  VoucherPins <- MCVoucherPins
  Packages <- MCPackages
  Data <- MCData
  MaxRotations = 1
  MaxShown = 2
SYMMETRY Symmetry
INVARIANTS ScannedIsOffered ProofsFitTheirSession StoredIsTheIssuers AnswersTheChallenge ClearWasClear WordIsVaulets
CHECK_DEADLOCK FALSE
