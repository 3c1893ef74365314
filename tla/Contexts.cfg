SPECIFICATION MCSpec
CONSTANTS
  Programs = {{"protocol_param", "genesis_param"}, {"utxos"}}
  Backends = {"v5", "v6", "cli"}
  Wrappers = {"none", "kupo", "plain"}
  None = None
  Given = {None, 1}
  Default = 2
  Start = 2
  Natural = 1
  SlotTtl = 1
  KupoTtl = 2
  MaxTime = 4
  MaxBlocks = 3
  Services = {"blockfrost", "v5", "v6", "cli", "kupo"}
  Policies = {"p", "q"}
  Names = {"a", "b"}
  Ledgers <- MCLedgers
INVARIANTS
  UtxosFresh
  ParamsBounded
  UtxosAreLedgers
  OutcomeIsTrue
CHECK_DEADLOCK FALSE
