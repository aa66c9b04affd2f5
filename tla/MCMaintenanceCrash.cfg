SPECIFICATION FairMaintSpec
CONSTANTS
  r1 = r1 r2 = r2 r3 = r3 i1 = i1 i2 = i2 x1 = x1
  k0 = k0 k1 = k1 k2 = k2 k3 = k3
  c1 = c1 v1 = v1 v2 = v2
  NoKey = NoKey NoVk = NoVk NoState = NoState
  Key = {k0, k1, k2, k3}
  Circuit = {c1}
  Kind <- MCKind
  After <- MCAfter
  Target <- MCTarget
  NewVk <- MCNewVk
  InitialKey = k0
  Flow = {r1}
  Vk = {v1, v2}
  MayReject = FALSE
  MayCrash = TRUE
  VkUpdatesCount = TRUE
  NewKey <- MCNewKey
PROPERTY FinalizedKeyGetsStored
CHECK_DEADLOCK FALSE
