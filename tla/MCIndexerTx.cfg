SPECIFICATION MCSpec

CONSTANTS
  c = c
  o = o
  Contract = c
  Other = o
  None = None
  Null = Null
  Blocks <- MCBlocks
  MaxHeight = 3
  Heights = {2}
  Configs <- TxConfigs
  MayReject = FALSE
  MaxReconnects = 1

INVARIANT
  UpdatesAfterTransaction

CHECK_DEADLOCK FALSE
