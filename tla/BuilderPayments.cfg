\* payments, minting, merging, potential inputs, an input address; two builds; or
\* deposits, withdrawals, donations and repeated inputs
CONSTANTS
  ADA = ADA
  tok = tok
  gold = gold
  u1 = u1
  u2 = u2
  u3 = u3
  alice = alice
  bob = bob
  NoLimit = NoLimit
  NoAddress = NoAddress
  Assets <- MCAssets
  MinBase = 2
  MinPerAsset = 1
  WideCoin = 8
  WideExtra = 1
  UTxOs = {u1, u2, u3}
  Amount <- MCAmount
  Chain <- MCChain
  Jobs <- MCJobs
  Wallet = alice
  Owner <- MCOwner
  ScriptSize <- MCScriptSize
  ChangeAddresses = {alice, NoAddress}
  Outputs <- MCOutputs
  Offered = {u2}
  Mints <- MCMints
  Withdrawals = {7}
  Certificates <- MCCertificates
  Proposals <- MCProposals
  Donations = {3}
  MaxRepeats = 1
  KeyDeposit = 2
  PoolDeposit = 5
  FeeConstant = 2
  FeePerByte = 1
  WideFee = 2
  MaxScriptSize = 3
  BytePrice <- MCBytePrice
  ReturnSizes = {2}
  MaxCollateral = 1
  MaxTxSize = 10
  MaxEdits = 4
  MaxBuilds = 2
SPECIFICATION MCSpec
INVARIANTS
  FailureKeepsOutputs
PROPERTIES
  OffByUncounted
  FeeSufficient
  WithinSizeLimit
  ChangeHoldsMinimum
  OnlyOfferedSpent
  BuildEnds
