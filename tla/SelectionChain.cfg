\* the default chain against the promise of select
CONSTANTS
  ADA = ADA
  tok = tok
  gold = gold
  u1 = u1
  u2 = u2
  u3 = u3
  u4 = u4
  NoLimit = NoLimit
  Assets <- MCAssets
  MinBase = 2
  MinPerAsset = 1
  WideCoin = 2
  WideExtra = 1
  UTxOs = {u1, u2, u3, u4}
  Amount <- MCAmount
  Jobs <- ChainJobs
  Pools <- MCPools
SPECIFICATION Spec
INVARIANTS
  RequestCovered
