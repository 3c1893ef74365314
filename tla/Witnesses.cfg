\* two script inputs, one key input, a policy among two, certificates; two builds
CONSTANTS
  r1 = r1
  r2 = r2
  NoRedeemer = NoRedeemer
  KeyInputs = {1}
  Locked = {2, 3}
  Lock <- MCLock
  Carried <- MCCarried
  WithDatum = {2}
  Mints <- MCMints
  Withdrawn <- MCWithdrawn
  Scripts = {8}
  Redeemers = {r1, r2}
  MaxCertificates = 2
  MaxEdits = 4
  MaxBuilds = 2
SYMMETRY MCSymmetry
SPECIFICATION Spec
INVARIANTS
  AllOrNone
  RedeemersPointHome
  EstimatesFit
  ZeroOnlyAfterLoss
  NoScriptInVain
