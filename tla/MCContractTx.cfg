SPECIFICATION FairContractSpec
CONSTANTS
  d = d a = a b = b r1 = r1 r2 = r2 x1 = x1 f1 = f1
  k0 = k0 k1 = k1 k2 = k2 k3 = k3
  c1 = c1 v1 = v1
  NoKey = NoKey NoVk = NoVk NoState = NoState
  Key = {k0, k1, k2, k3}
  Circuit = {c1}
  Vk = {v1}
  InitialKey = k0
  VkUpdatesCount = TRUE
  Kind <- MCKind
  NewKey <- MCNewKey
  Target <- MCTarget
  NewVk <- MCVk
  LocalVk <- MCLocalVk
  UsesPrivate <- MCUsesPrivate
  KeyGiven <- MCNone
  WithId <- MCAll
  WithInitial <- MCNone
  After <- MCAfter
  Flow = {d, a, b, r1, f1}
  MayReject = TRUE
  MayCrash = TRUE
INVARIANTS
  UpdatesKept
  SnapshotsAgree
  InSync
PROPERTIES
  LifeSpec
  KeyCatchesUp
CHECK_DEADLOCK FALSE
