SPECIFICATION MCSpec

CONSTANTS
  c = c
  o = o
  Contract = c
  Other = o
  None = None
  Null = Null
  Blocks <- MCBlocks
  MaxHeight = 3
  Heights = {2}
  Configs <- MCConfigs
  MayReject = TRUE
  MaxReconnects = 1

INVARIANTS
  IndexerTypeOK
  ConsecutiveStates
  NoGaps
  StartsWhereAsked
  QueriesAnswered

PROPERTIES
  StreamCatchesUp
  CurrentStateComes

CHECK_DEADLOCK FALSE
