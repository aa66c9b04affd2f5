SPECIFICATION MCSpec
CONSTANTS
  e1 = e1 e2 = e2 a = a b = b
  NoWallet = NoWallet NoFile = NoFile Partial = Partial
  Env = {e1, e2}
  Seed = {a, b}
  Slot <- MCSlot
  GenesisSeeds <- MCGenesis
  MaxCalls = 1
  MaxHeight = 2
  MaxChain = 2
  Failing <- MCFailing
INVARIANT WalletOfSeed
CHECK_DEADLOCK FALSE
