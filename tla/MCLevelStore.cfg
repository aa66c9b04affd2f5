SPECIFICATION FairLevelSpec
CONSTANTS
  s1 = s1 s2 = s2 c1 = c1 g1 = g1 x1 = x1
  i1 = i1 i2 = i2 u = u v = v
  Null = Null
  Op = {s1, s2, c1, g1, x1}
  Levels = {"private-states", "signing-keys"}
  Ids = {i1}
  Values = {u, v}
  Kind <- MCKind
  Level <- MCLevel
  Id <- MCId
  Value <- MCValue
  After <- MCAfter
  Exclusive = TRUE
  MayReject = TRUE
  MayCrash = TRUE
INVARIANTS
  LevelTypeOK
  LockedOnlyByOverlap
PROPERTIES
  KeyValueSpec
  DatabaseReleased
CHECK_DEADLOCK FALSE
