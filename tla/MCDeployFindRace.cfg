SPECIFICATION JoinSpec
CONSTANTS
  d = d f1 = f1 f2 = f2 f3 = f3 f4 = f4
  k0 = k0 k1 = k1 k2 = k2 k3 = k3
  c1 = c1 v1 = v1 v2 = v2
  NoKey = NoKey NoVk = NoVk NoState = NoState
  Key = {k0, k1, k2, k3}
  Circuit = {c1}
  Vk = {v1, v2}
  Kind <- MCKind
  NewKey <- MCNewKey
  Target <- MCTarget
  LocalVk <- MCLocalVk
  WithId <- MCWithId
  WithInitial <- MCWithInitial
  Flow = {d, f1}
  KeyGiven = {}
  After <- MCUnordered
  MayReject = FALSE
  MayCrash = FALSE
PROPERTY ExistingKeyKept
CHECK_DEADLOCK FALSE
