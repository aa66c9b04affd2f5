SPECIFICATION CallSpec
CONSTANTS
  a = a b = b c = c d = d
  k0 = k0 c1 = c1 v1 = v1
  NoKey = NoKey NoVk = NoVk NoState = NoState
  Key = {k0}
  Circuit = {c1}
  Vk = {v1}
  Kind <- MCKind
  NewKey <- MCNewKey
  Target <- MCTarget
  UsesPrivate <- MCUsesPrivate
  Flow = {a, b, c}
  After <- MCUnordered
  MayReject = TRUE
  MayCrash = TRUE
INVARIANTS
  CallTypeOK
  PrivateStateFinalized
  PrivateStateWhole
CHECK_DEADLOCK FALSE
