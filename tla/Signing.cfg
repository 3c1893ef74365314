SPECIFICATION MCSpec
CONSTANTS
  UTxOs <- MCUTxOs
  Script = Script
  None = None
  Base = 5
  PerRef = 2
  Threshold = 2
  OneAda = 2
  MinPlain = 2
  MinTokens = 3
  Keys = {"k1", "k2", "k3"}
  NativeScripts <- MCNativeScripts
  MaxNesting = 2
  Items <- MCItems
  MaxEdits <- MCMaxEdits
  MaxBuilds = 2
  MaxDepth = 3
  Token <- MCToken
  PolicyOf <- MCPolicyOf
  ValueSize <- MCValueSize
  MinCoin <- MCMinCoin
  Orders <- MCOrders
  MaxSizes = {5, 6, 7, 9, 12}
  Coins = {0, 7, 14, 30}
  Seeds = {s1}
  Half = 4
  Indexes <- MCIndexes
  Paths <- MCPaths
  NotInt = NotInt
  NoKey = NoKey
  Payloads = {"p", "q"}
  Secrets = {m1, m2}
  Nobody = Nobody
INVARIANTS
  WitnessesSuffice
  FeeCoversWitnesses
  CollateralAccounted
  PackingSound
  PublicMeetsPrivate
  VerifiedMeansSigned
  SignedVerifies
CHECK_DEADLOCK FALSE
