SPECIFICATION MCSpec
CONSTANTS
  p1 = p1 p2 = p2 t1 = t1 t2 = t2 c1 = c1 c2 = c2 inc = inc
  Transfer = {t1, t2}
  InitialFunds = 6
  OutputValue = 1
  Fee = 1
  Process = {p1, p2}
  Version = {1, 2}
  File = {"compactc", "zkir"}
  Command = {c1, c2}
  MaxEdits = 1
  ImpureCircuit = {inc}
  VerifierKey = {"vk", "other"}
  SigningKeys <- MCSigningKeys
  Unverifiable <- MCUnverifiable
  SampledKey <- MCSampledKey
  VkUpdatesCount = TRUE
  Json <- MCJson
  Env <- MCEnv
  CommandLine <- MCCommandLine
  InputState <- MCInputState
  ArgumentText <- MCArgumentText
  Declaration <- MCDeclaration
  ArgumentParser <- MCArgumentParser
  Asset <- MCAsset
  Network = {"TestNet", "MainNet"}
  Timeout = 3
  MaxBuild = 2
  Source <- MCSource
  Bound <- MCBound
  Providers <- MCProviders
  ZswapStates <- MCZswapStates
  WalletKeys <- MCWalletKeys
  Constructions <- MCConstructions
  Runs <- MCRuns
  Addresses <- MCAddresses
  CalledAddresses <- MCCalledAddresses
  Maintained <- MCMaintained
  VerifierKeyFiles <- MCVerifierKeyFiles
INVARIANTS
  ResolvedIsFinal
  InstalledWhole
  ModuleNotOlder
  OutputsAgree
  ProvedAsAsked
  LawsHold
CHECK_DEADLOCK FALSE
