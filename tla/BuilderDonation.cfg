\* a treasury donation
CONSTANTS
  ADA = ADA
  tok = tok
  gold = gold
  u1 = u1
  u2 = u2
  u3 = u3
  alice = alice
  bob = bob
  NoLimit = NoLimit
  NoAddress = NoAddress
  Assets <- MCAssets
  MinBase = 2
  MinPerAsset = 1
  WideCoin = 8
  WideExtra = 1
  UTxOs = {u1, u2, u3}
  Amount <- MCAmount
  Chain <- MCChain
  Jobs <- MCJobs
  Wallet = alice
  Owner <- MCOwner
  ScriptSize <- NoScripts
  ChangeAddresses = {alice}
  Outputs <- NoOutputs
  Offered = {}
  Mints <- NoMints
  Withdrawals = {}
  Certificates <- NoCertificates
  Proposals <- NoProposals
  Donations = {3}
  MaxRepeats = 0
  KeyDeposit = 2
  PoolDeposit = 5
  FeeConstant = 2
  FeePerByte = 1
  WideFee = 2
  MaxScriptSize = 3
  BytePrice <- MCBytePrice
  ReturnSizes = {2}
  MaxCollateral = 1
  MaxTxSize = 30
  MaxEdits = 3
  MaxBuilds = 1
SPECIFICATION PlainSpec
INVARIANTS
  ReturnedBalanced
