------------------------ MODULE TestEnvironmentProofs ------------------------
(***************************************************************************)
(* Theorems about TestEnvironment: for any environments, seeds and calls,  *)
(* what a wallet was restored from is whole, a wallet is of the seed it    *)
(* was asked for unless a state had been saved under the seed, a shutdown  *)
(* that resolves has closed what it keeps, and a save hangs only if        *)
(* another wallet is of the same seed.                                     *)
(***************************************************************************)
EXTENDS TestEnvironment, TLAPS

(* The stages of a wallet whose file was found, and of one that was read. *)
Found == {"load", "restore", "probe", "fullSync", "fresh"}
HasRead == {"restore", "probe", "fullSync", "fresh", "writing"}

(* The stages that need a wallet. *)
WithWallet == {"probe", "fullSync", "fresh", "opened", "built"} \cup Running

FileFound == \A s \in Slot : pc[s] \in Found => file[seedOf[s]] # NoFile

WholeRead == \A s \in Slot : pc[s] \in HasRead => inMemory[s] \in Saved

HasWallet ==
  \A s \in Slot : pc[s] \in WithWallet \/ s \in providers[s[1]] => wallet[s] \in Wallet

ProvidersOK ==
  /\ providers \in [Env -> SUBSET Slot]
  /\ \A e \in Env : providers[e] \subseteq SlotsOf(e)

TestInv ==
  /\ RestoreTypeOK
  /\ ProvidersOK
  /\ FileFound
  /\ WholeRead
  /\ HasWallet
  /\ SeedKeptUnlessSaved

(* What is on disk stays on disk. *)
FilesStay ==
  /\ file' \in [Owner -> Saved \cup {NoFile, Partial}]
  /\ \A owner \in Owner : file[owner] # NoFile => file'[owner] # NoFile

LEMMA WrittenFilesStay ==
  ASSUME RestoreTypeOK, NEW name \in Name, NEW content \in Saved \cup {Partial},
         WriteFile(name, content)
  PROVE  FilesStay
<1>1. name[2] \in Owner
  BY DEF Name
<1>2. content # NoFile
  BY RestoreAssumption
<1> QED
  BY <1>1, <1>2 DEF FilesStay, WriteFile, RestoreTypeOK

(* Every slot is asked for a seed that has a name. *)
LEMMA SeedForOwner == \A e \in Env : settings \in [Env -> Settings] =>
                        \A s \in SlotsOf(e) : SeedFor(s) \in Owner
<1> SUFFICES ASSUME settings \in [Env -> Settings],
                    NEW e \in Env, NEW s \in SlotsOf(e)
             PROVE  SeedFor(s) \in Owner
  OBVIOUS
<1>1. s \in Slot /\ s[1] = e /\ s[3] \in 1..Len(GenesisSeeds)
  BY EnvironmentAssumption DEF SlotsOf
<1>2. settings[e].seeds \in Seq(Seed) /\ s[3] \in Nat \ {0}
  BY <1>1, EnvironmentAssumption DEF Settings
<1>3. GenesisSeeds[s[3]] \in Seed
  BY <1>1, EnvironmentAssumption
<1>4. s[3] <= Len(settings[e].seeds) => settings[e].seeds[s[3]] \in Seed
  BY <1>2
<1> QED
  BY <1>1, <1>2, <1>3, <1>4 DEF SeedFor, Owner

LEMMA TestInvInit == EnvironmentInit => TestInv
<1> SUFFICES ASSUME EnvironmentInit
             PROVE  TestInv
  OBVIOUS
<1>1. seedOf \in [Slot -> Owner]
  <2>1. \A s \in Slot : s[1] \in Env /\ s \in SlotsOf(s[1])
    BY EnvironmentAssumption DEF SlotsOf
  <2> QED
    BY <2>1, SeedForOwner DEF EnvironmentInit
<1>2. file \in [Owner -> Saved \cup {NoFile, Partial}]
  <2>1. PICK offset \in {0, MaxHeight}, left \in {"nothing", "part", "all"} :
          file = [seed \in Owner |->
            IF seed \notin Seed \/ left = "nothing" THEN NoFile
            ELSE IF left = "part" THEN Partial
            ELSE [owner |-> seed, chain |-> 1,
                  offset |-> IF chain = 1 THEN height ELSE offset]]
    BY DEF EnvironmentInit
  <2>2. \A seed \in Owner :
          [owner |-> seed, chain |-> 1,
           offset |-> IF chain = 1 THEN height ELSE offset] \in Saved
    BY RestoreAssumption DEF EnvironmentInit, Saved
  <2> QED
    BY <2>1, <2>2
<1>3. RestoreTypeOK
  BY <1>1, <1>2, RestoreAssumption DEF EnvironmentInit, RestoreTypeOK, Stages
<1>4. ProvidersOK
  BY DEF EnvironmentInit, ProvidersOK
<1>5. \A s \in Slot : pc[s] = "none" /\ wallet[s] = NoWallet /\ s[1] \in Env
  BY EnvironmentAssumption DEF EnvironmentInit
<1> QED
  BY <1>3, <1>4, <1>5 DEF TestInv, FileFound, WholeRead, HasWallet, SeedKeptUnlessSaved,
     Found, HasRead, WithWallet, Running, Saving, EnvironmentInit

-----------------------------------------------------------------------------
(* The steps of one wallet *)

(* A slot that goes on to another stage, and may get another wallet or another
   state in memory, keeps the invariant if what it gets is what the stage needs. *)
LEMMA SlotMoveKeepsInv ==
  ASSUME TestInv, NEW s \in Slot, NEW stage \in Stages,
         pc' = [pc EXCEPT ![s] = stage],
         UNCHANGED <<seedOf, providers>>,
         chain' \in 1..MaxChain, height' \in 0..MaxHeight,
         temp' \in [Name -> Saved \cup {NoFile}],
         FilesStay,
         NEW w \in Wallet \cup {NoWallet}, wallet' = [wallet EXCEPT ![s] = w],
         NEW m \in Saved \cup {NoFile, Partial}, inMemory' = [inMemory EXCEPT ![s] = m],
         stage \in Found => file[seedOf[s]] # NoFile,
         stage \in HasRead => m \in Saved,
         stage \in WithWallet \/ wallet[s] \in Wallet => w \in Wallet,
         w \in Wallet => w.owner = seedOf[s] \/ file[seedOf[s]] # NoFile
  PROVE  TestInv'
<1> USE DEF TestInv
<1>1. RestoreTypeOK'
  BY DEF RestoreTypeOK, FilesStay
<1>2. ProvidersOK'
  BY DEF ProvidersOK
<1>3. \A t \in Slot : seedOf[t] \in Owner
  BY DEF RestoreTypeOK
<1>4. \A t \in Slot \ {s} : pc'[t] = pc[t] /\ wallet'[t] = wallet[t] /\ inMemory'[t] = inMemory[t]
  BY DEF RestoreTypeOK
<1>5. pc'[s] = stage /\ wallet'[s] = w /\ inMemory'[s] = m
  BY DEF RestoreTypeOK
<1>6. FileFound'
  BY <1>3, <1>4, <1>5 DEF FileFound, FilesStay
<1>7. WholeRead'
  BY <1>4, <1>5 DEF WholeRead
<1>8. HasWallet'
  <2>1. s \in providers[s[1]] => wallet[s] \in Wallet
    BY DEF HasWallet
  <2> QED
    BY <2>1, <1>4, <1>5 DEF HasWallet
<1>9. SeedKeptUnlessSaved'
  BY <1>3, <1>4, <1>5 DEF SeedKeptUnlessSaved, FilesStay
<1> QED
  BY <1>1, <1>2, <1>6, <1>7, <1>8, <1>9

LEMMA NewWalletOfSeed ==
  ASSUME TestInv, NEW owner \in Owner
  PROVE  NewWallet(owner) \in Wallet /\ NewWallet(owner).owner = owner
BY RestoreAssumption DEF TestInv, RestoreTypeOK, NewWallet, Wallet

(* What a wallet has of itself when it stays as it is. *)
LEMMA AsItWas ==
  ASSUME TestInv, NEW s \in Slot
  PROVE  /\ wallet[s] \in Wallet \cup {NoWallet}
         /\ wallet = [wallet EXCEPT ![s] = wallet[s]]
         /\ inMemory[s] \in Saved \cup {NoFile, Partial}
         /\ inMemory = [inMemory EXCEPT ![s] = inMemory[s]]
         /\ wallet[s] \in Wallet => wallet[s].owner = seedOf[s] \/ file[seedOf[s]] # NoFile
         /\ seedOf[s] \in Owner
         /\ file = file' => FilesStay
         /\ temp \in [Name -> Saved \cup {NoFile}]
         /\ chain \in 1..MaxChain /\ height \in 0..MaxHeight
BY RestoreAssumption DEF TestInv, RestoreTypeOK, SeedKeptUnlessSaved, FilesStay

(* A slot that goes on with the wallet it has. *)
LEMMA SameWalletKeepsInv ==
  ASSUME TestInv, NEW s \in Slot, NEW stage \in Stages,
         pc' = [pc EXCEPT ![s] = stage],
         UNCHANGED <<chain, height, seedOf, wallet, providers>>,
         temp' \in [Name -> Saved \cup {NoFile}],
         FilesStay,
         NEW m \in Saved \cup {NoFile, Partial}, inMemory' = [inMemory EXCEPT ![s] = m],
         stage \in Found => file[seedOf[s]] # NoFile,
         stage \in HasRead => m \in Saved,
         stage \in WithWallet => wallet[s] \in Wallet
  PROVE  TestInv'
BY AsItWas, SlotMoveKeepsInv

(* A slot that gets another wallet, or goes on with nothing new. *)
LEMMA NewWalletKeepsInv ==
  ASSUME TestInv, NEW s \in Slot, NEW stage \in Stages,
         pc' = [pc EXCEPT ![s] = stage],
         UNCHANGED <<chain, height, seedOf, inMemory, file, temp, providers>>,
         NEW w \in Wallet, wallet' = [wallet EXCEPT ![s] = w],
         stage \in Found => file[seedOf[s]] # NoFile,
         stage \in HasRead => inMemory[s] \in Saved,
         w.owner = seedOf[s] \/ file[seedOf[s]] # NoFile
  PROVE  TestInv'
BY AsItWas, SlotMoveKeepsInv

LEMMA StageKeepsInv ==
  ASSUME TestInv, NEW s \in Slot, NEW stage \in Stages,
         pc' = [pc EXCEPT ![s] = stage],
         UNCHANGED <<chain, height, seedOf, wallet, inMemory, file, temp, providers>>,
         stage \in Found => file[seedOf[s]] # NoFile,
         stage \in HasRead => inMemory[s] \in Saved,
         stage \in WithWallet => wallet[s] \in Wallet
  PROVE  TestInv'
BY AsItWas, SlotMoveKeepsInv

(* What each stage of a wallet says of it. *)
LEMMA StageMeans ==
  ASSUME TestInv, NEW s \in Slot
  PROVE  /\ pc[s] \in Found => file[seedOf[s]] # NoFile
         /\ pc[s] \in HasRead => inMemory[s] \in Saved
         /\ pc[s] \in WithWallet => wallet[s] \in Wallet
BY DEF TestInv, FileFound, WholeRead, HasWallet

(* Which stages need what. *)
LEMMA StageNeeds ==
  /\ {"restore", "probe", "fullSync", "fresh"} \subseteq Stages \cap Found \cap HasRead
  /\ "load" \in Stages /\ "load" \in Found /\ "load" \notin HasRead
  /\ "writing" \in Stages /\ "writing" \notin Found /\ "writing" \in HasRead
  /\ {"probe", "fullSync", "fresh", "opened", "built", "initialState", "syncWallet",
      "ready", "serialize", "openStreams", "writing"} \subseteq Stages \cap WithWallet
  /\ "restore" \notin WithWallet
  /\ \A stage \in {"opened", "built", "initialState", "syncWallet", "ready", "serialize",
                   "openStreams"} : stage \notin Found /\ stage \notin HasRead
  /\ \A stage \in {"none", "fromSeed", "saved", "close", "closed", "failed", "hung"} :
       stage \in Stages /\ stage \notin Found /\ stage \notin HasRead /\ stage \notin WithWallet
BY DEF Stages, Building, Running, Saving, Found, HasRead, WithWallet

LEMMA BuildKeepsInv ==
  ASSUME TestInv, NEW s \in Slot, Build(s), UNCHANGED <<settings, envVars>>
  PROVE  TestInv'
<1>1. UNCHANGED providers
  BY DEF envVars
<1>2. CASE Load(s)
  <2> DEFINE m == file[seedOf[s]]
  <2>1. pc[s] = "load" /\ UNCHANGED <<chain, height, seedOf, wallet, file, temp>>
          /\ inMemory' = [inMemory EXCEPT ![s] = m]
    BY <1>2 DEF Load, Goto, network, disk
  <2>2. m \in Saved \cup {Partial}
    BY <2>1, StageMeans, StageNeeds DEF TestInv, RestoreTypeOK
  <2>3. PICK stage \in {"restore", "fromSeed"} :
          /\ pc' = [pc EXCEPT ![s] = stage]
          /\ stage = "restore" => m # Partial
    BY <1>2 DEF Load, Goto, ReadWhole
  <2>4. m # NoFile
    BY <2>1, StageMeans, StageNeeds
  <2>5. temp' \in [Name -> Saved \cup {NoFile}] /\ FilesStay
    BY <2>1, AsItWas
  <2>6. stage \in Stages /\ (stage \in HasRead => m \in Saved) /\ stage \notin WithWallet
    BY <2>2, <2>3, StageNeeds
  <2> HIDE DEF m
  <2>7. file[seedOf[s]] # NoFile
    BY <2>4 DEF m
  <2> QED
    BY <1>1, <2>1, <2>2, <2>3, <2>5, <2>6, <2>7, SameWalletKeepsInv
<1>3. CASE Restore(s)
  <2> DEFINE w == [owner |-> seedOf[s], chain |-> inMemory[s].chain,
                   offset |-> inMemory[s].offset, started |-> FALSE]
  <2>1. pc[s] = "restore" /\ UNCHANGED <<chain, height, seedOf, inMemory, file, temp>>
    BY <1>3 DEF Restore, Goto, network, disk
  <2>2. inMemory[s] \in Saved /\ file[seedOf[s]] # NoFile
    BY <2>1, StageMeans, StageNeeds
  <2>3. w \in Wallet /\ w.owner = seedOf[s]
    BY <2>2, AsItWas DEF Saved, Wallet
  <2>4. CASE pc' = [pc EXCEPT ![s] = "probe"] /\ wallet' = [wallet EXCEPT ![s] = w]
    <3> HIDE DEF w
    <3>1. "probe" \in Stages
      BY StageNeeds
    <3> QED
      BY <1>1, <2>1, <2>2, <2>3, <2>4, <3>1, NewWalletKeepsInv
  <2>5. CASE pc' = [pc EXCEPT ![s] = "fromSeed"] /\ UNCHANGED wallet
    BY <1>1, <2>1, <2>5, StageNeeds, StageKeepsInv
  <2> QED
    BY <1>3, <2>4, <2>5 DEF Restore, Goto
<1>4. CASE Probe(s) \/ FullSync(s)
  <2>1. /\ pc[s] \in {"probe", "fullSync"}
        /\ UNCHANGED <<chain, height, seedOf, wallet, inMemory, file, temp>>
    BY <1>4 DEF Probe, FullSync, Goto, network, disk
  <2>2. inMemory[s] \in Saved /\ file[seedOf[s]] # NoFile /\ wallet[s] \in Wallet
    BY <2>1, StageMeans, StageNeeds
  <2>3. PICK stage \in {"fresh", "fullSync", "opened"} : pc' = [pc EXCEPT ![s] = stage]
    BY <1>4 DEF Probe, FullSync, Goto
  <2> QED
    BY <1>1, <2>1, <2>2, <2>3, StageNeeds, StageKeepsInv
<1>5. CASE BuildFresh(s)
  <2>1. /\ pc[s] = "fresh" /\ pc' = [pc EXCEPT ![s] = "opened"]
        /\ UNCHANGED <<chain, height, seedOf, inMemory, file, temp>>
    BY <1>5 DEF BuildFresh, Goto, network, disk
  <2>2. file[seedOf[s]] # NoFile /\ wallet[s] \in Wallet
    BY <2>1, StageMeans, StageNeeds
  <2>3. NewWallet(s) \in Wallet
    BY NewWalletOfSeed DEF Owner
  <2>4. CASE wallet' = [wallet EXCEPT ![s] = NewWallet(s)]
    BY <1>1, <2>1, <2>2, <2>3, <2>4, StageNeeds, NewWalletKeepsInv
  <2>5. CASE UNCHANGED wallet
    BY <1>1, <2>1, <2>2, <2>5, StageNeeds, StageKeepsInv
  <2> QED
    BY <1>5, <2>4, <2>5 DEF BuildFresh
<1>6. CASE BuildFromSeed(s)
  <2> DEFINE w == NewWallet(seedOf[s])
  <2>1. UNCHANGED <<chain, height, seedOf, inMemory, file, temp>>
    BY <1>6 DEF BuildFromSeed, Goto, network, disk
  <2>2. w \in Wallet /\ w.owner = seedOf[s]
    BY AsItWas, NewWalletOfSeed
  <2>3. CASE pc' = [pc EXCEPT ![s] = "opened"] /\ wallet' = [wallet EXCEPT ![s] = w]
    <3> HIDE DEF w
    <3>1. "opened" \in Stages /\ "opened" \notin Found /\ "opened" \notin HasRead
      BY StageNeeds
    <3> QED
      BY <1>1, <2>1, <2>2, <2>3, <3>1, NewWalletKeepsInv
  <2>4. CASE pc' = [pc EXCEPT ![s] = "failed"] /\ UNCHANGED wallet
    BY <1>1, <2>1, <2>4, StageNeeds, StageKeepsInv
  <2> QED
    BY <1>6, <2>3, <2>4 DEF BuildFromSeed, Goto
<1>7. CASE GetInitialState(s)
  <2>1. /\ pc[s] = "opened" /\ UNCHANGED <<chain, height, seedOf, wallet, file, temp>>
        /\ inMemory' = [inMemory EXCEPT ![s] = NoFile]
    BY <1>7 DEF GetInitialState, Goto, network, disk
  <2>2. wallet[s] \in Wallet
    BY <2>1, StageMeans, StageNeeds
  <2>3. PICK stage \in {"built", "failed"} : pc' = [pc EXCEPT ![s] = stage]
    BY <1>7 DEF GetInitialState, Goto
  <2>4. temp' \in [Name -> Saved \cup {NoFile}] /\ FilesStay
    BY <2>1, AsItWas
  <2>5. stage \in Stages /\ stage \notin Found /\ stage \notin HasRead
    BY <2>3, StageNeeds
  <2> QED
    BY <1>1, <2>1, <2>2, <2>3, <2>4, <2>5, SameWalletKeepsInv
<1> QED
  BY <1>2, <1>3, <1>4, <1>5, <1>6, <1>7 DEF Build

(* A wallet that saves has a name to save under. *)
LEMMA SaveNameIsName ==
  ASSUME TestInv, NEW s \in Slot, wallet[s] \in Wallet
  PROVE  SaveName(s) \in Name
BY DEF SaveName, Name, Wallet, TestInv, RestoreTypeOK

LEMMA SaveKeepsInv ==
  ASSUME TestInv, NEW s \in Slot, SaveStep(s, SaveName(s)), UNCHANGED <<settings, envVars>>
  PROVE  TestInv'
<1> DEFINE name == SaveName(s)
<1>1. UNCHANGED providers
  BY DEF envVars
<1>2. wallet[s] \in Wallet
  <2>1. pc[s] \in {"serialize", "openStreams", "writing"}
    BY DEF SaveStep, SerializeState, OpenStreams, FinishStreams, FailStreams, Goto
  <2> QED
    BY <2>1, StageMeans, StageNeeds
<1>3. name \in Name
  BY <1>2, SaveNameIsName
<1> HIDE DEF name
<1>4. AfterSave(name) \in {"ready", "saved"}
  BY DEF AfterSave
<1>5. CASE SerializeState(s, name)
  <2>1. [owner |-> wallet[s].owner, chain |-> wallet[s].chain, offset |-> wallet[s].offset] \in Saved
    BY <1>2 DEF Wallet, Saved
  <2>2. temp' \in [Name -> Saved \cup {NoFile}]
    BY <1>5, <2>1, AsItWas DEF SerializeState
  <2>3. PICK stage \in {"openStreams", "ready", "saved"} : pc' = [pc EXCEPT ![s] = stage]
    BY <1>4, <1>5 DEF SerializeState, Goto
  <2>4. UNCHANGED <<chain, height, seedOf, wallet, file>>
          /\ inMemory' = [inMemory EXCEPT ![s] = inMemory[s]]
          /\ inMemory[s] \in Saved \cup {NoFile, Partial}
    BY <1>5, AsItWas DEF SerializeState, network
  <2>5. stage \in Stages /\ stage \notin Found /\ stage \notin HasRead
    BY <2>3, StageNeeds
  <2>6. FilesStay
    BY <2>4, AsItWas
  <2> QED
    BY <1>1, <1>2, <2>2, <2>3, <2>4, <2>5, <2>6, SameWalletKeepsInv
<1>6. CASE OpenStreams(s, name)
  <2>1. FilesStay
    BY <1>3, <1>6, WrittenFilesStay DEF OpenStreams, TestInv
  <2>2. temp[name] \in Saved \cup {NoFile}
    BY <1>3, AsItWas
  <2>3. PICK stage \in {"hung", "writing"} :
          /\ pc' = [pc EXCEPT ![s] = stage]
          /\ stage = "writing" => temp[name] # NoFile
    BY <1>6 DEF OpenStreams, Goto
  <2>4. stage \in Stages /\ stage \notin Found /\ (stage \in HasRead => temp[name] \in Saved)
    BY <2>2, <2>3, StageNeeds
  <2>5. /\ UNCHANGED <<chain, height, seedOf, wallet>>
        /\ inMemory' = [inMemory EXCEPT ![s] = temp[name]]
        /\ temp' \in [Name -> Saved \cup {NoFile}]
    BY <1>6, AsItWas DEF OpenStreams, network
  <2> QED
    BY <1>1, <1>2, <2>1, <2>2, <2>3, <2>4, <2>5, SameWalletKeepsInv
<1>7. CASE FinishStreams(s, name) \/ FailStreams(s, name)
  <2>1. pc[s] = "writing" /\ pc' = [pc EXCEPT ![s] = AfterSave(name)]
    BY <1>7 DEF FinishStreams, FailStreams, Goto
  <2>2. inMemory[s] \in Saved
    BY <2>1, StageMeans, StageNeeds
  <2>3. FilesStay
    <3>1. WriteFile(name, inMemory[s]) \/ WriteFile(name, Partial) \/ UNCHANGED file
      BY <1>7 DEF FinishStreams, FailStreams, disk
    <3> QED
      BY <1>3, <2>2, <3>1, AsItWas, WrittenFilesStay DEF TestInv
  <2>4. /\ UNCHANGED <<chain, height, seedOf, wallet>>
        /\ inMemory' = [inMemory EXCEPT ![s] = NoFile]
        /\ temp' \in [Name -> Saved \cup {NoFile}]
    BY <1>7, AsItWas DEF FinishStreams, FailStreams, network, disk
  <2>5. AfterSave(name) \in Stages /\ AfterSave(name) \notin Found /\ AfterSave(name) \notin HasRead
    BY <1>4, StageNeeds
  <2> QED
    BY <1>1, <1>2, <2>1, <2>3, <2>4, <2>5, SameWalletKeepsInv
<1> QED
  BY <1>5, <1>6, <1>7 DEF SaveStep, name

-----------------------------------------------------------------------------
(* The steps of environments *)

(* Many slots go on at once, to stages they have what is needed for. *)
LEMMA SlotsMoveKeepInv ==
  ASSUME TestInv, UNCHANGED <<chain, height, seedOf, inMemory, disk>>,
         pc' \in [Slot -> Stages],
         wallet' \in [Slot -> Wallet \cup {NoWallet}],
         ProvidersOK',
         \A s \in Slot :
           /\ pc'[s] # pc[s] => pc'[s] \notin HasRead
           /\ pc'[s] # pc[s] /\ pc'[s] \in Found => file[seedOf[s]] # NoFile
           /\ pc'[s] \in WithWallet \/ s \in providers'[s[1]] => wallet'[s] \in Wallet
           /\ wallet'[s] # NoWallet
                => wallet[s] # NoWallet /\ wallet'[s].owner = wallet[s].owner
  PROVE  TestInv'
<1> USE DEF TestInv, disk
<1>1. RestoreTypeOK'
  BY DEF RestoreTypeOK
<1>2. FileFound' /\ WholeRead'
  BY DEF FileFound, WholeRead
<1>3. HasWallet' /\ SeedKeptUnlessSaved'
  BY DEF HasWallet, SeedKeptUnlessSaved
<1> QED
  BY <1>1, <1>2, <1>3

(* An environment goes on by itself. *)
LEMMA EnvironmentMoveKeepsInv ==
  ASSUME TestInv, UNCHANGED <<restoreVars, providers>>
  PROVE  TestInv'
BY DEF TestInv, RestoreTypeOK, ProvidersOK, FileFound, WholeRead, HasWallet,
       SeedKeptUnlessSaved, SlotsOf, restoreVars, network, disk

LEMMA StartProvidersKeepsInv ==
  ASSUME TestInv, NEW e \in Env, NEW amount, StartMidnightWalletProviders(e, amount)
  PROVE  TestInv'
<1>1. PICK wanted \in SUBSET Slot :
        pc' = [s \in Slot |-> IF s \in wanted THEN FirstStage(seedOf[s]) ELSE pc[s]]
  BY DEF StartMidnightWalletProviders
<1>2. \A s \in Slot : /\ FirstStage(seedOf[s]) \in {"fromSeed", "load"}
                      /\ FirstStage(seedOf[s]) = "load" => file[seedOf[s]] # NoFile
  BY DEF FirstStage
<1>3. pc' \in [Slot -> Stages]
  BY <1>1, <1>2 DEF TestInv, RestoreTypeOK, Stages, Building
<1>4. UNCHANGED <<chain, height, seedOf, inMemory, disk, wallet, providers>>
  BY DEF StartMidnightWalletProviders, network
<1>5. \A s \in Slot : pc'[s] = pc[s] \/ (pc'[s] \in {"fromSeed", "load"}
                                         /\ (pc'[s] = "load" => file[seedOf[s]] # NoFile))
  BY <1>1, <1>2
<1>6. \A s \in Slot : pc'[s] \in WithWallet => pc[s] \in WithWallet
  BY <1>5 DEF WithWallet, Running, Saving
<1>7. \A s \in Slot : /\ pc'[s] # pc[s] => pc'[s] \notin HasRead
                      /\ pc'[s] # pc[s] /\ pc'[s] \in Found => file[seedOf[s]] # NoFile
  BY <1>5 DEF HasRead, Found
<1>8. wallet' \in [Slot -> Wallet \cup {NoWallet}] /\ ProvidersOK'
  BY <1>4 DEF TestInv, RestoreTypeOK, ProvidersOK, SlotsOf
<1>9. \A s \in Slot : pc'[s] \in WithWallet \/ s \in providers'[s[1]] => wallet'[s] \in Wallet
  BY <1>4, <1>6 DEF TestInv, HasWallet
<1> QED
  BY <1>3, <1>4, <1>7, <1>8, <1>9, SlotsMoveKeepInv

LEMMA KeepProvidersKeepsInv ==
  ASSUME TestInv, NEW e \in Env, KeepProviders(e)
  PROVE  TestInv'
<1>1. Batch(e) \subseteq SlotsOf(e) /\ SlotsOf(e) \subseteq Slot
  BY DEF Batch, SlotsOf
<1>2. \A s \in Batch(e) : s[1] = e /\ pc[s] = "built" /\ wallet[s] \in Wallet
  BY <1>1 DEF KeepProviders, TestInv, HasWallet, WithWallet, SlotsOf
<1>3. ProvidersOK'
  BY <1>1 DEF KeepProviders, TestInv, ProvidersOK, SlotsOf
<1>4. \A s \in Slot : IF s \in Batch(e)
                      THEN /\ pc'[s] = "initialState"
                           /\ wallet'[s] = [wallet[s] EXCEPT !.started = TRUE]
                      ELSE pc'[s] = pc[s] /\ wallet'[s] = wallet[s]
  BY DEF KeepProviders
<1>5. \A s \in Batch(e) : wallet'[s] \in Wallet /\ wallet'[s].owner = wallet[s].owner
  BY <1>1, <1>2, <1>4 DEF Wallet
<1>6. wallet' \in [Slot -> Wallet \cup {NoWallet}]
  <2>1. wallet' = [s \in Slot |-> wallet'[s]]
    BY DEF KeepProviders
  <2>2. \A s \in Slot : wallet'[s] \in Wallet \cup {NoWallet}
    BY <1>4, <1>5 DEF TestInv, RestoreTypeOK
  <2> QED
    BY <2>1, <2>2
<1>7. pc' \in [Slot -> Stages]
  BY DEF KeepProviders, TestInv, RestoreTypeOK, Stages, Running
<1>8. \A s \in Slot : s \in providers'[s[1]] => s \in Batch(e) \/ s \in providers[s[1]]
  BY EnvironmentAssumption DEF KeepProviders, TestInv, ProvidersOK
<1>9. \A s \in Slot : pc'[s] \in WithWallet \/ s \in providers'[s[1]] => wallet'[s] \in Wallet
  BY <1>4, <1>5, <1>8 DEF TestInv, HasWallet
<1>10. \A s \in Slot : pc'[s] # pc[s] => pc'[s] = "initialState"
  BY <1>4
<1>11. UNCHANGED <<chain, height, seedOf, inMemory, disk>>
  BY DEF KeepProviders, network
<1>12. \A s \in Slot : wallet'[s] # NoWallet
         => wallet[s] # NoWallet /\ wallet'[s].owner = wallet[s].owner
  BY <1>2, <1>4, <1>5, RestoreAssumption
<1>13. \A s \in Slot : /\ pc'[s] # pc[s] => pc'[s] \notin HasRead
                       /\ pc'[s] # pc[s] /\ pc'[s] \in Found => file[seedOf[s]] # NoFile
  BY <1>10 DEF HasRead, Found
<1> QED
  BY <1>3, <1>6, <1>7, <1>9, <1>11, <1>12, <1>13, SlotsMoveKeepInv

(* The wallets that are kept are saved or closed. *)
LEMMA KeptMoveKeepsInv ==
  ASSUME TestInv, NEW e \in Env, NEW stage \in {"serialize", "close"},
         pc' = [s \in Slot |-> IF s \in providers[e] THEN stage ELSE pc[s]],
         UNCHANGED <<network, seedOf, wallet, inMemory, disk, providers>>
  PROVE  TestInv'
<1>1. \A s \in providers[e] : s \in Slot /\ s[1] = e /\ wallet[s] \in Wallet
  BY DEF TestInv, ProvidersOK, SlotsOf, HasWallet
<1>2. pc' \in [Slot -> Stages]
  BY DEF TestInv, RestoreTypeOK, Stages, Running, Saving
<1>3. \A s \in Slot : pc'[s] # pc[s] => s \in providers[e] /\ pc'[s] \in {"serialize", "close"}
  OBVIOUS
<1>4. wallet' \in [Slot -> Wallet \cup {NoWallet}] /\ ProvidersOK'
  BY DEF TestInv, RestoreTypeOK, ProvidersOK, SlotsOf
<1>5. \A s \in Slot : pc'[s] \in WithWallet \/ s \in providers'[s[1]] => wallet'[s] \in Wallet
  BY <1>1, <1>3 DEF TestInv, HasWallet
<1>6. \A s \in Slot : /\ pc'[s] # pc[s] => pc'[s] \notin HasRead
                      /\ pc'[s] # pc[s] /\ pc'[s] \in Found => file[seedOf[s]] # NoFile
  BY <1>3 DEF HasRead, Found
<1> QED
  BY <1>2, <1>4, <1>5, <1>6, SlotsMoveKeepInv DEF network

LEMMA EndProcessKeepsInv ==
  ASSUME TestInv, NEW e \in Env, EndProcess(e)
  PROVE  TestInv'
<1>1. \A s \in Slot : IF s[1] = e THEN pc'[s] = "none" /\ wallet'[s] = NoWallet
                      ELSE pc'[s] = pc[s] /\ wallet'[s] = wallet[s]
  BY DEF EndProcess
<1>2. pc' \in [Slot -> Stages] /\ wallet' \in [Slot -> Wallet \cup {NoWallet}]
  BY DEF EndProcess, TestInv, RestoreTypeOK, Stages
<1>3. ProvidersOK'
  BY DEF EndProcess, TestInv, ProvidersOK, SlotsOf
<1>4. \A s \in Slot : s \in providers'[s[1]] => s[1] # e /\ s \in providers[s[1]]
  BY EnvironmentAssumption DEF EndProcess, TestInv, ProvidersOK
<1>5. \A s \in Slot : pc'[s] \in WithWallet \/ s \in providers'[s[1]] => wallet'[s] \in Wallet
  BY <1>1, <1>4 DEF TestInv, HasWallet, WithWallet, Running, Saving
<1>6. \A s \in Slot : /\ pc'[s] # pc[s] => pc'[s] \notin HasRead
                      /\ pc'[s] # pc[s] /\ pc'[s] \in Found => file[seedOf[s]] # NoFile
  BY <1>1 DEF HasRead, Found
<1>7. UNCHANGED <<chain, height, seedOf, inMemory, disk>>
  BY DEF EndProcess, network
<1>8. \A s \in Slot : wallet'[s] # NoWallet
         => wallet[s] # NoWallet /\ wallet'[s].owner = wallet[s].owner
  BY <1>1
<1> QED
  BY <1>2, <1>3, <1>5, <1>6, <1>7, <1>8, SlotsMoveKeepInv

-----------------------------------------------------------------------------
(* The theorems *)

(* The remaining steps of one wallet, and those of the chain. *)
LEMMA RunningKeepsInv ==
  ASSUME TestInv, NEW s \in Slot, UNCHANGED providers,
         WaitForFunds(s) \/ SyncWallet(s) \/ CloseWallet(s) \/ SaveBySeed(s)
  PROVE  TestInv'
<1>1. UNCHANGED <<chain, height, seedOf, wallet, inMemory, file, temp>>
  BY DEF WaitForFunds, SyncWallet, CloseWallet, SaveBySeed, network, disk
<1>2. PICK stage \in {"ready", "syncWallet", "serialize", "failed", "closed"} :
        /\ pc' = [pc EXCEPT ![s] = stage]
        /\ stage \in {"failed", "closed"} \/ pc[s] \in {"initialState", "syncWallet", "ready"}
  BY DEF WaitForFunds, SyncWallet, CloseWallet, SaveBySeed, Goto
<1>3. stage \in WithWallet => wallet[s] \in Wallet
  BY <1>2, StageMeans, StageNeeds
<1>4. stage \in Stages /\ stage \notin Found /\ stage \notin HasRead
  BY <1>2, StageNeeds
<1> QED
  BY <1>1, <1>2, <1>3, <1>4, StageKeepsInv

LEMMA ApplyBlocksKeepsInv ==
  ASSUME TestInv, NEW s \in Slot, ApplyBlocks(s), UNCHANGED providers
  PROVE  TestInv'
<1> DEFINE w == [wallet[s] EXCEPT !.offset = height]
<1>1. wallet[s] \in Wallet
  BY StageMeans DEF ApplyBlocks, WithWallet
<1>2. w \in Wallet /\ w.owner = wallet[s].owner
  BY <1>1, AsItWas DEF Wallet
<1>3. /\ wallet' = [wallet EXCEPT ![s] = w]
      /\ UNCHANGED <<chain, height, seedOf, pc, inMemory, file, temp>>
  BY DEF ApplyBlocks, network, disk
<1>4. pc' = [pc EXCEPT ![s] = pc[s]] /\ pc[s] \in Stages
  BY <1>3 DEF TestInv, RestoreTypeOK
<1>5. w.owner = seedOf[s] \/ file[seedOf[s]] # NoFile
  BY <1>1, <1>2, AsItWas
<1> HIDE DEF w
<1> QED
  BY <1>2, <1>3, <1>4, <1>5, StageMeans, NewWalletKeepsInv

LEMMA NewBlocksKeepsInv ==
  ASSUME TestInv, NewBlocks, UNCHANGED providers
  PROVE  TestInv'
<1>1. height' \in 0..MaxHeight
  BY RestoreAssumption DEF NewBlocks
<1>2. UNCHANGED <<chain, seedOf, wallet, pc, inMemory, file, temp>>
  BY DEF NewBlocks, disk
<1> QED
  BY <1>1, <1>2 DEF TestInv, RestoreTypeOK, ProvidersOK, FileFound, WholeRead, HasWallet,
                    SeedKeptUnlessSaved, SlotsOf

LEMMA TestInvNext == TestInv /\ [EnvironmentNext]_testVars => TestInv'
<1> SUFFICES ASSUME TestInv, [EnvironmentNext]_testVars
             PROVE  TestInv'
  OBVIOUS
<1>1. CASE UNCHANGED testVars
  BY <1>1, EnvironmentMoveKeepsInv DEF testVars, envVars
<1>2. ASSUME NEW e \in Env, EnvironmentStep(e)
      PROVE  TestInv'
  <2>1. CASE KeepProviders(e)
    BY <2>1, KeepProvidersKeepsInv
  <2>2. CASE AllSaved(e)
    BY <2>2, KeptMoveKeepsInv DEF AllSaved
  <2>3. CASE \/ StartContainers(e) \/ HealthCheck(e) \/ ProvidersReady(e) \/ ProvidersFail(e)
             \/ AllClosed(e) \/ CloseFails(e) \/ StopContainers(e)
    BY <2>3, EnvironmentMoveKeepsInv
    DEF StartContainers, HealthCheck, ProvidersReady, ProvidersFail, AllClosed, CloseFails,
        StopContainers
  <2> QED
    BY <1>2, <2>1, <2>2, <2>3 DEF EnvironmentStep
<1>3. ASSUME NEW s \in Slot, SlotStep(s)
      PROVE  TestInv'
  <2>1. CASE Build(s) /\ UNCHANGED <<settings, envVars>>
    BY <2>1, BuildKeepsInv
  <2>2. CASE SaveStep(s, SaveName(s)) /\ UNCHANGED <<settings, envVars>>
    BY <2>2, SaveKeepsInv
  <2>3. CASE WaitForFunds(s) /\ UNCHANGED <<settings, envVars>>
    BY <2>3, RunningKeepsInv DEF envVars
  <2>4. CASE CloseWallet(s)
    BY <2>4, RunningKeepsInv DEF CloseWallet, envVars
  <2> QED
    BY <1>3, <2>1, <2>2, <2>3, <2>4 DEF SlotStep
<1>4. ASSUME NEW e \in Env, Start(e) \/ StartInjected(e)
      PROVE  TestInv'
  BY <1>4, EnvironmentMoveKeepsInv DEF Start, StartInjected
<1>5. ASSUME NEW e \in Env, StartMidnightWalletProviders(e, settings[e].amount)
      PROVE  TestInv'
  BY <1>5, StartProvidersKeepsInv
<1>6. ASSUME NEW e \in Env, NEW save \in BOOLEAN, Shutdown(e, save)
      PROVE  TestInv'
  <2>1. PICK stage \in {"serialize", "close"} :
          pc' = [s \in Slot |-> IF s \in providers[e] THEN stage ELSE pc[s]]
    <3>1. CASE save /\ ~settings[e].local
      BY <1>6, <3>1 DEF Shutdown
    <3>2. CASE ~(save /\ ~settings[e].local)
      BY <1>6, <3>2 DEF Shutdown
    <3> QED
      BY <3>1, <3>2
  <2> QED
    BY <1>6, <2>1, KeptMoveKeepsInv DEF Shutdown
<1>7. ASSUME NEW e \in Env, EndProcess(e)
      PROVE  TestInv'
  BY <1>7, EndProcessKeepsInv
<1>8. ASSUME NEW s \in Slot, SaveBySeed(s)
      PROVE  TestInv'
  BY <1>8, RunningKeepsInv DEF SaveBySeed, envVars
<1>9. ASSUME NEW s \in Slot, ApplyBlocks(s) \/ SyncWallet(s), UNCHANGED <<settings, envVars>>
      PROVE  TestInv'
  BY <1>9, ApplyBlocksKeepsInv, RunningKeepsInv DEF envVars
<1>10. CASE NewBlocks /\ UNCHANGED <<settings, envVars>>
  BY <1>10, NewBlocksKeepsInv DEF envVars
<1> QED
  BY <1>1, <1>2, <1>3, <1>4, <1>5, <1>6, <1>7, <1>8, <1>9, <1>10 DEF EnvironmentNext

LEMMA TestInvariant == EnvironmentSpec => []TestInv
BY TestInvInit, TestInvNext, PTL DEF EnvironmentSpec

(* What the environments are doing has its type as well. *)
PhasesOK ==
  /\ settings \in [Env -> Settings]
  /\ phase \in [Env -> Phases]
  /\ server \in [Env -> Env \cup {NoServer, StaticServer}]
  /\ containers \subseteq Env
  /\ calls \in [Env -> 0..MaxCalls]

LEMMA PhasesInit == EnvironmentInit => PhasesOK
BY EnvironmentAssumption DEF EnvironmentInit, PhasesOK, Phases

LEMMA PhasesNext == PhasesOK /\ [EnvironmentNext]_testVars => PhasesOK'
<1> SUFFICES ASSUME PhasesOK, [EnvironmentNext]_testVars
             PROVE  PhasesOK'
  OBVIOUS
<1> USE DEF PhasesOK, Phases, Enter
<1>1. CASE UNCHANGED <<settings, envVars>>
  BY <1>1 DEF envVars
<1>2. ASSUME NEW e \in Env, EnvironmentStep(e)
      PROVE  PhasesOK'
  <2>1. CASE StartContainers(e)
    BY <2>1 DEF StartContainers
  <2>2. CASE HealthCheck(e) \/ ProvidersReady(e) \/ ProvidersFail(e)
    BY <2>2 DEF HealthCheck, ProvidersReady, ProvidersFail
  <2>3. CASE KeepProviders(e) \/ AllSaved(e)
    BY <2>3 DEF KeepProviders, AllSaved
  <2>4. CASE AllClosed(e) \/ CloseFails(e)
    BY <2>4 DEF AllClosed, CloseFails
  <2>5. CASE StopContainers(e)
    BY <2>5 DEF StopContainers
  <2> QED
    BY <1>2, <2>1, <2>2, <2>3, <2>4, <2>5 DEF EnvironmentStep
<1>3. ASSUME NEW s \in Slot, SlotStep(s)
      PROVE  PhasesOK'
  BY <1>1, <1>3 DEF SlotStep, CloseWallet
<1>4. ASSUME NEW e \in Env, Start(e) \/ StartInjected(e)
      PROVE  PhasesOK'
  BY <1>4 DEF Start, StartInjected
<1>5. ASSUME NEW e \in Env, StartMidnightWalletProviders(e, settings[e].amount)
      PROVE  PhasesOK'
  <2>1. calls[e] + 1 \in 0..MaxCalls
    BY <1>5, EnvironmentAssumption DEF StartMidnightWalletProviders
  <2> QED
    BY <1>5, <2>1 DEF StartMidnightWalletProviders
<1>6. ASSUME NEW e \in Env, NEW save \in BOOLEAN, Shutdown(e, save)
      PROVE  PhasesOK'
  BY <1>6 DEF Shutdown
<1>7. ASSUME NEW e \in Env, EndProcess(e)
      PROVE  PhasesOK'
  BY <1>7, EnvironmentAssumption DEF EndProcess
<1>8. ASSUME NEW s \in Slot, SaveBySeed(s)
      PROVE  PhasesOK'
  BY <1>1, <1>8 DEF SaveBySeed
<1> QED
  BY <1>1, <1>2, <1>3, <1>4, <1>5, <1>6, <1>7, <1>8 DEF EnvironmentNext, testVars

(* The variables have their types. *)
THEOREM EnvironmentTypeCorrect == EnvironmentSpec => []EnvironmentTypeOK
<1>1. TestInv /\ PhasesOK => EnvironmentTypeOK
  BY DEF TestInv, ProvidersOK, PhasesOK, EnvironmentTypeOK
<1>2. EnvironmentSpec => []PhasesOK
  BY PhasesInit, PhasesNext, PTL DEF EnvironmentSpec
<1> QED
  BY <1>1, <1>2, TestInvariant, PTL

(* A test that never saves gets the wallet of the seed it has given, whatever
   fails or dies, and whatever other environments do. *)
THEOREM SeedIsKept == EnvironmentSpec => []SeedKeptUnlessSaved
<1>1. TestInv => SeedKeptUnlessSaved
  BY DEF TestInv
<1> QED
  BY <1>1, TestInvariant, PTL

(* No wallet follows a state of an interrupted or disturbed save. *)
THEOREM RestoredIsWhole == EnvironmentSpec => []RestoredWhole
<1>1. TestInv => RestoredWhole
  BY DEF TestInv, WholeRead, HasRead, RestoredWhole
<1> QED
  BY <1>1, TestInvariant, PTL

-----------------------------------------------------------------------------
(* What a shutdown releases *)

(* An environment that stops its containers has closed what it keeps. *)
ClosedBeforeStop ==
  \A e \in Env : phase[e] = "stopping" => \A s \in providers[e] : pc[s] = "closed"

ReleaseInv == TestInv /\ PhasesOK /\ ClosedBeforeStop

LEMMA ClosedStays ==
  ASSUME TestInv, NEW s \in Slot, SlotStep(s) \/ ApplyBlocks(s) \/ SyncWallet(s)
  PROVE  \A t \in Slot : pc[t] = "closed" => pc'[t] = "closed"
<1>1. CASE ApplyBlocks(s)
  BY <1>1 DEF ApplyBlocks
<1>2. ASSUME ~ApplyBlocks(s)
      PROVE  pc[s] # "closed" /\ \E stage : pc' = [pc EXCEPT ![s] = stage]
  <2>1. CASE Build(s)
    BY <2>1 DEF Build, Load, Restore, Probe, FullSync, BuildFresh, BuildFromSeed,
       GetInitialState, Goto
  <2>2. CASE SaveStep(s, SaveName(s))
    BY <2>2 DEF SaveStep, SerializeState, OpenStreams, FinishStreams, FailStreams, Goto
  <2>3. CASE WaitForFunds(s) \/ SyncWallet(s) \/ CloseWallet(s)
    BY <2>3 DEF WaitForFunds, SyncWallet, CloseWallet, Goto
  <2> QED
    BY <1>2, <2>1, <2>2, <2>3 DEF SlotStep
<1> QED
  BY <1>1, <1>2 DEF TestInv, RestoreTypeOK

LEMMA ClosedBeforeStopNext ==
  ASSUME ReleaseInv, EnvironmentNext
  PROVE  ClosedBeforeStop'
<1> USE DEF ReleaseInv, ClosedBeforeStop
<1>1. \A e \in Env : providers[e] \subseteq Slot /\ \A s \in providers[e] : s[1] = e
  BY DEF TestInv, ProvidersOK, SlotsOf
<1>2. ASSUME UNCHANGED <<phase, providers>>,
             \A t \in Slot : pc[t] = "closed" => pc'[t] = "closed"
      PROVE  ClosedBeforeStop'
  BY <1>1, <1>2
<1>3. ASSUME NEW e \in Env, NEW to \in Phases \ {"stopping"}, UNCHANGED providers,
             phase' = [phase EXCEPT ![e] = to],
             \A t \in Slot : pc'[t] = pc[t] \/ t[1] = e
      PROVE  ClosedBeforeStop'
  BY <1>1, <1>3 DEF PhasesOK
<1>4. ASSUME NEW e \in Env, EnvironmentStep(e)
      PROVE  ClosedBeforeStop'
  <2>1. CASE StartContainers(e) \/ HealthCheck(e) \/ ProvidersReady(e) \/ ProvidersFail(e)
               \/ CloseFails(e) \/ StopContainers(e)
    <3>1. PICK to \in Phases \ {"stopping"} : phase' = [phase EXCEPT ![e] = to]
      BY <2>1 DEF StartContainers, HealthCheck, ProvidersReady, ProvidersFail, CloseFails,
                  StopContainers, Enter, Phases
    <3>2. UNCHANGED <<providers, pc>>
      BY <2>1 DEF StartContainers, HealthCheck, ProvidersReady, ProvidersFail, CloseFails,
                  StopContainers, restoreVars
    <3> QED
      BY <1>3, <3>1, <3>2
  <2>2. CASE AllClosed(e)
    BY <2>2 DEF AllClosed, Enter, restoreVars, PhasesOK
  <2>3. CASE AllSaved(e)
    <3>1. \A t \in Slot : pc'[t] = pc[t] \/ t[1] = e
      BY <1>1, <2>3 DEF AllSaved
    <3> QED
      BY <1>3, <2>3, <3>1 DEF AllSaved, Enter, Phases
  <2>4. CASE KeepProviders(e)
    <3>1. \A t \in Slot : pc'[t] = pc[t] \/ t[1] = e
      BY <2>4 DEF KeepProviders, Batch, SlotsOf
    <3>2. /\ phase' = [phase EXCEPT ![e] = "starting"]
          /\ providers' = [providers EXCEPT ![e] = Batch(e)]
      BY <2>4 DEF KeepProviders, Enter
    <3> QED
      BY <1>1, <3>1, <3>2 DEF PhasesOK, TestInv, ProvidersOK
  <2> QED
    BY <1>4, <2>1, <2>2, <2>3, <2>4 DEF EnvironmentStep
<1>5. ASSUME NEW s \in Slot, SlotStep(s)
      PROVE  ClosedBeforeStop'
  BY <1>2, <1>5, ClosedStays DEF SlotStep, CloseWallet, envVars
<1>6. ASSUME NEW e \in Env, Start(e) \/ StartInjected(e)
      PROVE  ClosedBeforeStop'
  BY <1>3, <1>6 DEF Start, StartInjected, Enter, Phases, restoreVars
<1>7. ASSUME NEW e \in Env, StartMidnightWalletProviders(e, settings[e].amount)
      PROVE  ClosedBeforeStop'
  <2>1. \A t \in Slot : pc'[t] = pc[t] \/ t[1] = e
    BY <1>7 DEF StartMidnightWalletProviders, Wanted
  <2> QED
    BY <1>3, <1>7, <2>1 DEF StartMidnightWalletProviders, Enter, Phases
<1>8. ASSUME NEW e \in Env, NEW save \in BOOLEAN, Shutdown(e, save)
      PROVE  ClosedBeforeStop'
  <2>1. UNCHANGED providers /\ \A t \in Slot : pc'[t] = pc[t] \/ t \in providers[e]
    BY <1>8 DEF Shutdown
  <2>2. providers[e] # {} => phase'[e] # "stopping"
    BY <1>8 DEF Shutdown, PhasesOK
  <2>3. \A d \in Env \ {e} : phase'[d] = phase[d]
    BY <1>8 DEF Shutdown, PhasesOK
  <2> QED
    BY <1>1, <2>1, <2>2, <2>3
<1>9. ASSUME NEW e \in Env, EndProcess(e)
      PROVE  ClosedBeforeStop'
  <2>1. \A d \in Env \ {e} : phase'[d] = phase[d] /\ providers'[d] = providers[d]
    BY <1>9 DEF EndProcess, PhasesOK, TestInv, ProvidersOK
  <2>2. phase'[e] = "down"
    BY <1>9 DEF EndProcess, PhasesOK
  <2>3. \A t \in Slot : pc'[t] = pc[t] \/ t[1] = e
    BY <1>9 DEF EndProcess
  <2> QED
    BY <1>1, <2>1, <2>2, <2>3
<1>10. ASSUME NEW s \in Slot, SaveBySeed(s)
       PROVE  ClosedBeforeStop'
  <2>1. pc[s] = "ready" /\ pc' = [pc EXCEPT ![s] = "serialize"] /\ UNCHANGED <<phase, providers>>
    BY <1>10 DEF SaveBySeed, Goto, envVars
  <2> QED
    BY <1>2, <2>1 DEF TestInv, RestoreTypeOK
<1>11. ASSUME NEW s \in Slot, ApplyBlocks(s) \/ SyncWallet(s), UNCHANGED <<settings, envVars>>
       PROVE  ClosedBeforeStop'
  BY <1>2, <1>11, ClosedStays DEF envVars
<1>12. CASE NewBlocks /\ UNCHANGED <<settings, envVars>>
  BY <1>2, <1>12 DEF NewBlocks, envVars
<1> QED
  BY <1>4, <1>5, <1>6, <1>7, <1>8, <1>9, <1>10, <1>11, <1>12 DEF EnvironmentNext

(* A shutdown that resolves has closed every wallet that the environment keeps,
   and stopped its containers, whatever failed before. *)
THEOREM ShutdownDoesRelease == EnvironmentSpec => ShutdownReleases
<1> DEFINE Releases == \A e \in Env : phase[e] = "stopping" /\ phase'[e] = "down" /\ calls'[e] # 0
              => /\ \A s \in providers[e] : pc[s] = "closed"
                 /\ e \notin containers' \/ server[e] # e
<1>1. EnvironmentInit => ReleaseInv
  <2>1. EnvironmentInit => ClosedBeforeStop
    BY DEF EnvironmentInit, ClosedBeforeStop
  <2> QED
    BY <2>1, TestInvInit, PhasesInit DEF ReleaseInv
<1>2. ReleaseInv /\ [EnvironmentNext]_testVars => ReleaseInv'
  <2>1. ReleaseInv /\ UNCHANGED testVars => ClosedBeforeStop'
    BY DEF ReleaseInv, ClosedBeforeStop, testVars, envVars, restoreVars
  <2> QED
    BY <2>1, TestInvNext, PhasesNext, ClosedBeforeStopNext DEF ReleaseInv
<1>3. ReleaseInv /\ [EnvironmentNext]_testVars => [Releases]_testVars
  <2> SUFFICES ASSUME ReleaseInv, EnvironmentNext,
                      NEW e \in Env, phase[e] = "stopping", phase'[e] = "down", calls'[e] # 0
               PROVE  /\ \A s \in providers[e] : pc[s] = "closed"
                      /\ e \notin containers' \/ server[e] # e
    OBVIOUS
  <2>1. \A s \in providers[e] : pc[s] = "closed"
    BY DEF ReleaseInv, ClosedBeforeStop
  <2>2. StopContainers(e)
    <3> USE DEF ReleaseInv, PhasesOK, Enter
    <3>1. ASSUME NEW d \in Env, EnvironmentStep(d)
          PROVE  StopContainers(e)
      BY <3>1 DEF EnvironmentStep, StartContainers, HealthCheck, KeepProviders, ProvidersReady,
                  ProvidersFail, AllSaved, AllClosed, CloseFails, StopContainers
    <3>2. ASSUME NEW d \in Env, \/ Start(d) \/ StartInjected(d)
                                \/ StartMidnightWalletProviders(d, settings[d].amount)
          PROVE  FALSE
      BY <3>2 DEF Start, StartInjected, StartMidnightWalletProviders
    <3>3. ASSUME NEW d \in Env, NEW save \in BOOLEAN, Shutdown(d, save)
          PROVE  FALSE
      BY <3>3 DEF Shutdown
    <3>4. ASSUME NEW d \in Env, EndProcess(d)
          PROVE  FALSE
      BY <3>4 DEF EndProcess
    <3>5. phase' # phase
      OBVIOUS
    <3> QED
      BY <3>1, <3>2, <3>3, <3>4, <3>5
      DEF EnvironmentNext, SlotStep, CloseWallet, SaveBySeed, envVars
  <2> QED
    BY <2>1, <2>2 DEF StopContainers, Enter, ReleaseInv, PhasesOK
<1> QED
  BY <1>1, <1>2, <1>3, PTL DEF EnvironmentSpec, ShutdownReleases

-----------------------------------------------------------------------------
(* Saves that never end *)

(* Another wallet is asked for under the same seed. *)
SharesSeed(s) == \E t \in Slot \ {s} : seedOf[t] = seedOf[s]

(* A seed that was not given is the slot's own, as is that of a fresh wallet. *)
OwnSeed == \A s \in Slot : seedOf[s] \in Seed \cup {s}
OwnWallet == \A s \in Slot : wallet[s] # NoWallet => wallet[s].owner \in {seedOf[s], s}

(* The source of a compression is gone only if a wallet of the same seed has
   been saved under the same name. *)
SourceThere ==
  \A s \in Slot : pc[s] = "openStreams" => temp[SaveName(s)] # NoFile \/ SharesSeed(s)

HungShares == \A s \in Slot : pc[s] = "hung" => SharesSeed(s)

HangInv ==
  /\ TestInv
  /\ PhasesOK
  /\ OwnSeed
  /\ OwnWallet
  /\ SourceThere
  /\ HungShares

LEMMA SameNameSharesSeed ==
  ASSUME HangInv, NEW s \in Slot, NEW t \in Slot \ {s},
         wallet[s] \in Wallet, wallet[t] \in Wallet, SaveName(s) = SaveName(t)
  PROVE  SharesSeed(s)
<1> USE DEF HangInv, OwnSeed, OwnWallet
<1>1. seedOf[s] = seedOf[t] \/ wallet[s].owner = wallet[t].owner
  BY DEF SaveName
<1>2. /\ wallet[s].owner \in {seedOf[s], s} /\ wallet[t].owner \in {seedOf[t], t}
      /\ seedOf[s] \in Seed \cup {s} /\ seedOf[t] \in Seed \cup {t}
  BY RestoreAssumption
<1>3. s \notin Seed /\ t \notin Seed
  BY RestoreAssumption
<1> QED
  BY <1>1, <1>2, <1>3 DEF SharesSeed

(* A step that touches no source, and after which a wallet opens its streams or
   hangs only if it did before, under the same name. *)
LEMMA QuietKeepsHang ==
  ASSUME HangInv, UNCHANGED <<seedOf, temp>>,
         \A s \in Slot : wallet'[s] # NoWallet => wallet'[s].owner \in {seedOf[s], s},
         \A s \in Slot : pc'[s] \in {"openStreams", "hung"} =>
           pc[s] = pc'[s] /\ (pc[s] = "openStreams" => SaveName(s)' = SaveName(s))
  PROVE  OwnSeed' /\ OwnWallet' /\ SourceThere' /\ HungShares'
<1> USE DEF HangInv
<1>1. OwnSeed' /\ OwnWallet'
  BY DEF OwnSeed, OwnWallet
<1>2. \A s \in Slot : SharesSeed(s) => SharesSeed(s)'
  BY DEF SharesSeed
<1>3. SourceThere'
  BY <1>2 DEF SourceThere
<1>4. HungShares'
  BY <1>2 DEF HungShares
<1> QED
  BY <1>1, <1>3, <1>4

(* The steps of wallets that are not saved. *)
LEMMA WalletStepKeepsHang ==
  ASSUME HangInv, NEW t \in Slot, UNCHANGED envVars,
         Build(t) \/ WaitForFunds(t) \/ CloseWallet(t) \/ SaveBySeed(t)
           \/ ApplyBlocks(t) \/ SyncWallet(t)
  PROVE  OwnSeed' /\ OwnWallet' /\ SourceThere' /\ HungShares'
<1> DEFINE quiet == {"openStreams", "hung"}
<1>1. UNCHANGED <<seedOf, temp, phase, providers>>
  BY DEF envVars, Build, Load, Restore, Probe, FullSync, BuildFresh, BuildFromSeed,
     GetInitialState, WaitForFunds, CloseWallet, SaveBySeed, ApplyBlocks, SyncWallet, disk
<1>2. \/ UNCHANGED pc /\ ApplyBlocks(t)
      \/ pc[t] \notin quiet /\ \E stage : stage \notin quiet /\ pc' = [pc EXCEPT ![t] = stage]
  <2>1. CASE Build(t)
    <3>1. PICK stage \in {"restore", "fromSeed", "probe", "fresh", "fullSync", "opened", "failed",
                          "built"} :
            pc' = [pc EXCEPT ![t] = stage]
      BY <2>1 DEF Build, Load, Restore, Probe, FullSync, BuildFresh, BuildFromSeed,
         GetInitialState, Goto
    <3>2. pc[t] \notin quiet
      BY <2>1 DEF Build, Load, Restore, Probe, FullSync, BuildFresh, BuildFromSeed,
         GetInitialState, Goto
    <3>3. stage \notin quiet
      OBVIOUS
    <3> QED
      BY <3>1, <3>2, <3>3
  <2>2. CASE WaitForFunds(t) \/ CloseWallet(t) \/ SaveBySeed(t) \/ SyncWallet(t)
    <3>1. PICK stage \in {"ready", "syncWallet", "failed", "closed", "serialize"} :
            pc' = [pc EXCEPT ![t] = stage]
      BY <2>2 DEF WaitForFunds, CloseWallet, SaveBySeed, SyncWallet, Goto
    <3>2. pc[t] \notin quiet
      BY <2>2 DEF WaitForFunds, CloseWallet, SaveBySeed, SyncWallet, Goto
    <3>3. stage \notin quiet
      OBVIOUS
    <3> QED
      BY <3>1, <3>2, <3>3
  <2>3. CASE ApplyBlocks(t)
    BY <2>3 DEF ApplyBlocks
  <2> QED
    BY <2>1, <2>2, <2>3
<1>3. \A s \in Slot : pc'[s] \in quiet => pc[s] = pc'[s] /\ (s = t => ApplyBlocks(t))
  BY <1>2 DEF HangInv, TestInv, RestoreTypeOK
<1>4. /\ \A s \in Slot \ {t} : wallet'[s] = wallet[s]
      /\ \/ wallet'[t] = wallet[t]
         \/ wallet'[t] # NoWallet => wallet'[t].owner \in {seedOf[t], t}
  <2> USE DEF HangInv, TestInv, RestoreTypeOK
  <2>1. CASE Restore(t) \/ BuildFresh(t) \/ BuildFromSeed(t)
    BY <2>1 DEF Restore, BuildFresh, BuildFromSeed, NewWallet
  <2>2. CASE ApplyBlocks(t)
    <3>1. wallet[t] \in Wallet
      BY <2>2, StageMeans DEF ApplyBlocks, WithWallet
    <3>2. wallet[t].owner \in {seedOf[t], t}
      BY <3>1, RestoreAssumption DEF OwnWallet
    <3>3. wallet' = [wallet EXCEPT ![t] = [wallet[t] EXCEPT !.offset = height]]
      BY <2>2 DEF ApplyBlocks
    <3>4. [wallet[t] EXCEPT !.offset = height].owner = wallet[t].owner
      BY <3>1 DEF Wallet
    <3> QED
      BY <3>2, <3>3, <3>4
  <2>3. CASE UNCHANGED wallet
    BY <2>3
  <2> QED
    BY <2>1, <2>2, <2>3
    DEF Build, Load, Probe, FullSync, GetInitialState, WaitForFunds, CloseWallet, SaveBySeed,
        SyncWallet
<1>5. ApplyBlocks(t) => wallet'[t].owner = wallet[t].owner
  <2> SUFFICES ASSUME ApplyBlocks(t)
               PROVE  wallet'[t].owner = wallet[t].owner
    OBVIOUS
  <2>1. wallet[t] \in Wallet
    BY StageMeans DEF ApplyBlocks, WithWallet, HangInv
  <2> QED
    BY <2>1 DEF ApplyBlocks, Wallet, HangInv, TestInv, RestoreTypeOK
<1>6. \A s \in Slot : wallet'[s] # NoWallet => wallet'[s].owner \in {seedOf[s], s}
  BY <1>4 DEF HangInv, OwnWallet
<1>7. \A s \in Slot : pc'[s] = "openStreams" => wallet'[s].owner = wallet[s].owner
  BY <1>3, <1>4, <1>5
<1>8. \A s \in Slot : pc'[s] = "openStreams" => SaveName(s)' = SaveName(s)
  BY <1>1, <1>7 DEF SaveName
<1> QED
  BY <1>1, <1>3, <1>6, <1>8, QuietKeepsHang

(* The steps of a save. *)
LEMMA SaveKeepsHang ==
  ASSUME HangInv, NEW t \in Slot, SaveStep(t, SaveName(t)), UNCHANGED envVars
  PROVE  OwnSeed' /\ OwnWallet' /\ SourceThere' /\ HungShares'
<1> USE DEF HangInv
<1> DEFINE name == SaveName(t)
<1>1. UNCHANGED <<seedOf, wallet, phase, providers>>
  BY DEF envVars, SaveStep, SerializeState, OpenStreams, FinishStreams, FailStreams
<1>2. pc[t] \in {"serialize", "openStreams", "writing"}
  BY DEF SaveStep, SerializeState, OpenStreams, FinishStreams, FailStreams, Goto
<1>3. wallet[t] \in Wallet
  BY <1>2, StageMeans, StageNeeds
<1>4. name \in Name
  BY <1>3, SaveNameIsName
<1>5. \A s \in Slot : SaveName(s)' = SaveName(s) /\ (SharesSeed(s) => SharesSeed(s)')
  BY <1>1 DEF SaveName, SharesSeed
<1>6. OwnSeed' /\ OwnWallet'
  BY <1>1 DEF OwnSeed, OwnWallet
<1>7. PICK stage : pc' = [pc EXCEPT ![t] = stage]
  BY DEF SaveStep, SerializeState, OpenStreams, FinishStreams, FailStreams, Goto
<1>8. pc'[t] = stage /\ \A s \in Slot \ {t} : pc'[s] = pc[s]
  BY <1>7 DEF TestInv, RestoreTypeOK
<1>9. \A s \in Slot : pc[s] = "openStreams" => wallet[s] \in Wallet
  BY StageMeans, StageNeeds
<1>10. temp \in [Name -> Saved \cup {NoFile}] /\ NoFile \notin Saved
  BY RestoreAssumption DEF TestInv, RestoreTypeOK
<1>11. \A s \in Slot : pc[s] = "openStreams" => SaveName(s) \in Name
  BY <1>9, SaveNameIsName
<1> HIDE DEF name
<1>12. AfterSave(name) \in {"ready", "saved"}
  BY DEF AfterSave
<1>13. CASE SerializeState(t, name) /\ pc' = [pc EXCEPT ![t] = "openStreams"] /\ UNCHANGED file
            /\ temp' = [temp EXCEPT ![name] = [owner |-> wallet[t].owner, chain |-> wallet[t].chain,
                                               offset |-> wallet[t].offset]]
  <2>1. [owner |-> wallet[t].owner, chain |-> wallet[t].chain, offset |-> wallet[t].offset] # NoFile
    BY <1>3, <1>10 DEF Wallet, Saved
  <2>2. \A n \in Name : temp'[n] = NoFile => temp[n] = NoFile /\ n # name
    BY <1>4, <1>10, <1>13, <2>1
  <2>3. pc'[t] = "openStreams"
    BY <1>13 DEF TestInv, RestoreTypeOK
  <2>4. HungShares'
    BY <1>5, <1>8, <2>3 DEF HungShares
  <2>5. ASSUME NEW s \in Slot, pc'[s] = "openStreams"
        PROVE  temp'[SaveName(s)] # NoFile \/ SharesSeed(s)
    <3>1. CASE s = t
      BY <1>4, <2>2, <3>1 DEF name
    <3>2. CASE s # t
      BY <1>8, <1>11, <2>2, <2>5, <3>2 DEF SourceThere
    <3> QED
      BY <3>1, <3>2
  <2>6. SourceThere'
    BY <1>5, <2>5 DEF SourceThere
  <2> QED
    BY <1>6, <2>4, <2>6
<1>14. CASE UNCHANGED temp /\ pc' = [pc EXCEPT ![t] = AfterSave(name)]
  <2>1. pc'[t] \in {"ready", "saved"}
    BY <1>12, <1>14 DEF TestInv, RestoreTypeOK
  <2>2. \A s \in Slot : pc'[s] \in {"openStreams", "hung"} => pc[s] = pc'[s]
    BY <1>8, <2>1
  <2>3. SourceThere' /\ HungShares'
    BY <1>5, <1>14, <2>2 DEF SourceThere, HungShares
  <2> QED
    BY <1>6, <2>3
<1>15. CASE OpenStreams(t, name)
  <2>1. UNCHANGED temp /\ pc[t] = "openStreams"
    BY <1>15 DEF OpenStreams, Goto
  <2>2. pc'[t] = (IF temp[name] = NoFile THEN "hung" ELSE "writing")
    BY <1>15 DEF OpenStreams, Goto, TestInv, RestoreTypeOK
  <2>3. temp[name] # NoFile \/ SharesSeed(t)
    BY <2>1 DEF SourceThere, name
  <2>4. pc'[t] = "hung" => SharesSeed(t)
    BY <2>2, <2>3
  <2>5. pc'[t] # "openStreams"
    BY <2>2
  <2>6. SourceThere'
    BY <1>5, <1>8, <2>1, <2>5 DEF SourceThere
  <2>7. HungShares'
    BY <1>5, <1>8, <2>4 DEF HungShares
  <2> QED
    BY <1>6, <2>6, <2>7
<1>16. CASE FinishStreams(t, name)
  <2>1. temp' = [temp EXCEPT ![name] = NoFile] /\ pc' = [pc EXCEPT ![t] = AfterSave(name)]
    BY <1>16 DEF FinishStreams, Goto
  <2>2. pc'[t] \in {"ready", "saved"}
    BY <1>12, <2>1 DEF TestInv, RestoreTypeOK
  <2>3. \A s \in Slot : pc'[s] \in {"openStreams", "hung"} => pc[s] = pc'[s] /\ s # t
    BY <1>8, <2>2
  <2>4. \A n \in Name \ {name} : temp'[n] = temp[n]
    BY <1>10, <2>1
  <2>5. ASSUME NEW s \in Slot, pc'[s] = "openStreams"
        PROVE  temp'[SaveName(s)] # NoFile \/ SharesSeed(s)
    <3>1. pc[s] = "openStreams" /\ s # t
      BY <2>3, <2>5
    <3>2. SaveName(s) = name => SharesSeed(s)
      BY <1>3, <1>9, <3>1, SameNameSharesSeed DEF name
    <3>3. SaveName(s) \in Name
      BY <1>11, <3>1
    <3> QED
      BY <2>4, <3>1, <3>2, <3>3 DEF SourceThere
  <2>6. SourceThere'
    BY <1>5, <2>5 DEF SourceThere
  <2>7. HungShares'
    BY <1>5, <2>3 DEF HungShares
  <2> QED
    BY <1>6, <2>6, <2>7
<1> QED
  BY <1>13, <1>14, <1>15, <1>16
  DEF SaveStep, SerializeState, FailStreams, Goto, disk, name

(* The steps of an environment leave the names of saves alone: it does not turn
   to its shutdown, or from it, while a wallet that it keeps opens its streams. *)
LEMMA EnvironmentStepKeepsHang ==
  ASSUME HangInv, NEW e \in Env, UNCHANGED <<seedOf, temp>>,
         phase' \in [Env -> Phases], providers' \in [Env -> SUBSET Slot],
         \A d \in Env \ {e} : phase'[d] = phase[d] /\ providers'[d] = providers[d],
         \A s \in Slot : \/ wallet'[s] = wallet[s]
                         \/ wallet'[s] = [wallet[s] EXCEPT !.started = TRUE] /\ wallet[s] \in Wallet
                         \/ wallet'[s] = NoWallet /\ pc'[s] = "none",
         \A s \in Slot : pc'[s] = pc[s] \/ pc'[s] \notin {"openStreams", "hung"},
         \A s \in Slot : s[1] = e /\ pc[s] = "openStreams" /\ pc'[s] = "openStreams" =>
           (phase'[e] = "saving" /\ s \in providers'[e] <=> phase[e] = "saving" /\ s \in providers[e])
  PROVE  OwnSeed' /\ OwnWallet' /\ SourceThere' /\ HungShares'
<1> USE DEF HangInv
<1>1. \A s \in Slot : s[1] \in Env
  BY EnvironmentAssumption
<1>2. \A s \in Slot : wallet'[s] # NoWallet => wallet[s] # NoWallet /\ wallet'[s].owner = wallet[s].owner
  BY RestoreAssumption DEF Wallet
<1>3. \A s \in Slot : wallet'[s] # NoWallet => wallet'[s].owner \in {seedOf[s], s}
  BY <1>2 DEF OwnWallet
<1>4. ASSUME NEW s \in Slot, pc[s] = "openStreams", pc'[s] = "openStreams"
      PROVE  SaveName(s)' = SaveName(s)
  <2>1. wallet[s] \in Wallet
    BY <1>4, StageMeans, StageNeeds
  <2>2. wallet'[s].owner = wallet[s].owner
    BY <1>4, <2>1 DEF Wallet
  <2>3. phase'[s[1]] = "saving" /\ s \in providers'[s[1]]
          <=> phase[s[1]] = "saving" /\ s \in providers[s[1]]
    BY <1>1, <1>4
  <2> QED
    BY <2>2, <2>3 DEF SaveName
<1> QED
  BY <1>3, <1>4, QuietKeepsHang

LEMMA HangNext ==
  ASSUME HangInv, EnvironmentNext
  PROVE  OwnSeed' /\ OwnWallet' /\ SourceThere' /\ HungShares'
<1> USE DEF HangInv, PhasesOK
<1>1. /\ TestInv' /\ PhasesOK'
      /\ phase' \in [Env -> Phases] /\ providers' \in [Env -> SUBSET Slot]
      /\ \A d \in Env : providers[d] \subseteq SlotsOf(d)
  BY TestInvNext, PhasesNext DEF TestInv, ProvidersOK
<1>2. pc \in [Slot -> Stages]
  BY DEF TestInv, RestoreTypeOK
<1>3. ASSUME NEW e \in Env, EnvironmentStep(e)
      PROVE  OwnSeed' /\ OwnWallet' /\ SourceThere' /\ HungShares'
  <2>1. UNCHANGED <<seedOf, temp>>
    BY <1>3 DEF EnvironmentStep, StartContainers, HealthCheck, KeepProviders, ProvidersReady,
       ProvidersFail, AllSaved, AllClosed, CloseFails, StopContainers, restoreVars, disk
  <2>2. \A d \in Env \ {e} : phase'[d] = phase[d]
    BY <1>3 DEF EnvironmentStep, StartContainers, HealthCheck, KeepProviders, ProvidersReady,
       ProvidersFail, AllSaved, AllClosed, CloseFails, StopContainers, Enter
  <2>3. CASE KeepProviders(e)
    <3>1. \A s \in Batch(e) : pc[s] = "built" /\ wallet[s] \in Wallet
      BY <2>3 DEF KeepProviders, TestInv, HasWallet, WithWallet, Batch, SlotsOf
    <3>2. /\ \A s \in Slot : wallet'[s] = IF s \in Batch(e) THEN [wallet[s] EXCEPT !.started = TRUE]
                                                            ELSE wallet[s]
          /\ \A s \in Slot : pc'[s] = IF s \in Batch(e) THEN "initialState" ELSE pc[s]
      BY <2>3 DEF KeepProviders
    <3>3. \A s \in Slot : \/ wallet'[s] = wallet[s]
                          \/ wallet'[s] = [wallet[s] EXCEPT !.started = TRUE] /\ wallet[s] \in Wallet
      BY <3>1, <3>2
    <3>4. \A s \in Slot : pc'[s] = pc[s] \/ pc'[s] \notin {"openStreams", "hung"}
      BY <3>2
    <3>5. phase[e] # "saving" /\ phase'[e] # "saving"
      BY <2>3 DEF KeepProviders, Enter
    <3>6. \A d \in Env \ {e} : phase'[d] = phase[d] /\ providers'[d] = providers[d]
      BY <2>2, <2>3 DEF KeepProviders
    <3>7. HangInv /\ phase' \in [Env -> Phases] /\ providers' \in [Env -> SUBSET Slot]
      BY <1>1
    <3> HIDE DEF HangInv, PhasesOK
    <3> QED
      BY <2>1, <3>3, <3>4, <3>5, <3>6, <3>7, EnvironmentStepKeepsHang
  <2>4. CASE AllSaved(e)
    <3>1. UNCHANGED <<wallet, providers>>
          /\ pc' = [s \in Slot |-> IF s \in providers[e] THEN "close" ELSE pc[s]]
      BY <2>4 DEF AllSaved
    <3>2. phase'[e] = "closing" /\ \A s \in providers[e] : pc[s] = "saved"
      BY <2>4 DEF AllSaved, Enter
    <3>3. \A s \in Slot : pc'[s] = pc[s] \/ pc'[s] \notin {"openStreams", "hung"}
      BY <3>1
    <3>4. \A s \in Slot : pc[s] = "openStreams" => s \notin providers[e]
      BY <3>2
    <3> QED
      BY <1>1, <2>1, <2>2, <3>1, <3>2, <3>3, <3>4, EnvironmentStepKeepsHang
  <2>5. CASE ~KeepProviders(e) /\ ~AllSaved(e)
    <3>1. UNCHANGED <<wallet, pc, providers>>
      BY <1>3, <2>5 DEF EnvironmentStep, StartContainers, HealthCheck, ProvidersReady,
         ProvidersFail, AllClosed, CloseFails, StopContainers, restoreVars
    <3>2. phase[e] # "saving" /\ phase'[e] # "saving"
      BY <1>3, <2>5 DEF EnvironmentStep, StartContainers, HealthCheck, ProvidersReady,
         ProvidersFail, AllClosed, CloseFails, StopContainers, Enter
    <3> QED
      BY <1>1, <2>1, <2>2, <3>1, <3>2, EnvironmentStepKeepsHang
  <2> QED
    BY <2>3, <2>4, <2>5
<1>4. ASSUME NEW s \in Slot, SlotStep(s)
      PROVE  OwnSeed' /\ OwnWallet' /\ SourceThere' /\ HungShares'
  BY <1>4, WalletStepKeepsHang, SaveKeepsHang DEF SlotStep, CloseWallet
<1>5. ASSUME NEW e \in Env, Start(e) \/ StartInjected(e)
      PROVE  OwnSeed' /\ OwnWallet' /\ SourceThere' /\ HungShares'
  <2>1. UNCHANGED <<seedOf, temp, wallet, pc, providers>>
    BY <1>5 DEF Start, StartInjected, restoreVars, disk
  <2>2. phase[e] = "down" /\ phase'[e] # "saving" /\ \A d \in Env \ {e} : phase'[d] = phase[d]
    BY <1>5 DEF Start, StartInjected, Enter
  <2> QED
    BY <1>1, <2>1, <2>2, EnvironmentStepKeepsHang
<1>6. ASSUME NEW e \in Env, StartMidnightWalletProviders(e, settings[e].amount)
      PROVE  OwnSeed' /\ OwnWallet' /\ SourceThere' /\ HungShares'
  <2>1. UNCHANGED <<seedOf, temp, wallet, providers>>
    BY <1>6 DEF StartMidnightWalletProviders, disk
  <2>2. phase[e] = "up" /\ phase'[e] = "building" /\ \A d \in Env \ {e} : phase'[d] = phase[d]
    BY <1>6 DEF StartMidnightWalletProviders, Enter
  <2>3. \A s \in Slot : pc'[s] = pc[s] \/ pc'[s] = FirstStage(seedOf[s])
    BY <1>6 DEF StartMidnightWalletProviders
  <2>4. \A s \in Slot : pc'[s] = pc[s] \/ pc'[s] \notin {"openStreams", "hung"}
    BY <2>3 DEF FirstStage
  <2> QED
    BY <1>1, <2>1, <2>2, <2>4, EnvironmentStepKeepsHang
<1>7. ASSUME NEW e \in Env, NEW save \in BOOLEAN, Shutdown(e, save)
      PROVE  OwnSeed' /\ OwnWallet' /\ SourceThere' /\ HungShares'
  <2>1. UNCHANGED <<seedOf, temp, wallet, providers>>
    BY <1>7 DEF Shutdown, disk
  <2>2. \A s \in providers[e] : pc[s] \notin Saving
    BY <1>7 DEF Shutdown
  <2>3. \A s \in Slot : pc'[s] = pc[s] \/ pc'[s] \in {"serialize", "close"}
    BY <1>7 DEF Shutdown
  <2>4. \A d \in Env \ {e} : phase'[d] = phase[d]
    BY <1>7 DEF Shutdown
  <2>5. \A s \in Slot : pc[s] = "openStreams" => s \notin providers[e]
    BY <2>2 DEF Saving
  <2>6. \A s \in Slot : pc'[s] = pc[s] \/ pc'[s] \notin {"openStreams", "hung"}
    BY <2>3
  <2> QED
    BY <1>1, <2>1, <2>4, <2>5, <2>6, EnvironmentStepKeepsHang
<1>8. ASSUME NEW e \in Env, EndProcess(e)
      PROVE  OwnSeed' /\ OwnWallet' /\ SourceThere' /\ HungShares'
  <2>1. UNCHANGED <<seedOf, temp>> /\ \A d \in Env \ {e} : phase'[d] = phase[d] /\ providers'[d] = providers[d]
    BY <1>8 DEF EndProcess, disk, TestInv, ProvidersOK
  <2>2. \A s \in Slot : IF s[1] = e THEN pc'[s] = "none" /\ wallet'[s] = NoWallet
                                    ELSE pc'[s] = pc[s] /\ wallet'[s] = wallet[s]
    BY <1>8 DEF EndProcess
  <2>3. \A s \in Slot : \/ wallet'[s] = wallet[s]
                        \/ wallet'[s] = NoWallet /\ pc'[s] = "none"
    BY <2>2
  <2>4. \A s \in Slot : pc'[s] = pc[s] \/ pc'[s] \notin {"openStreams", "hung"}
    BY <2>2
  <2>5. \A s \in Slot : ~(s[1] = e /\ pc'[s] = "openStreams")
    BY <2>2
  <2> QED
    BY <1>1, <2>1, <2>3, <2>4, <2>5, EnvironmentStepKeepsHang
<1>9. ASSUME NEW s \in Slot, SaveBySeed(s)
      PROVE  OwnSeed' /\ OwnWallet' /\ SourceThere' /\ HungShares'
  BY <1>9, WalletStepKeepsHang DEF SaveBySeed
<1>10. ASSUME NEW s \in Slot, ApplyBlocks(s) \/ SyncWallet(s), UNCHANGED <<settings, envVars>>
       PROVE  OwnSeed' /\ OwnWallet' /\ SourceThere' /\ HungShares'
  BY <1>10, WalletStepKeepsHang
<1>11. CASE NewBlocks /\ UNCHANGED <<settings, envVars>>
  <2>1. UNCHANGED <<seedOf, temp, wallet, pc, phase, providers>>
    BY <1>11 DEF NewBlocks, disk, envVars
  <2>2. \A s \in Slot : SaveName(s)' = SaveName(s)
    BY <2>1 DEF SaveName
  <2> QED
    BY <2>1, <2>2, QuietKeepsHang DEF OwnWallet
<1> QED
  BY <1>3, <1>4, <1>5, <1>6, <1>7, <1>8, <1>9, <1>10, <1>11 DEF EnvironmentNext

LEMMA HangInit == EnvironmentInit => HangInv
<1> SUFFICES ASSUME EnvironmentInit
             PROVE  HangInv
  OBVIOUS
<1>1. TestInv /\ PhasesOK
  BY TestInvInit, PhasesInit
<1>2. ASSUME NEW s \in Slot
      PROVE  seedOf[s] \in Seed \cup {s}
  <2>1. s[1] \in Env /\ s[3] \in 1..Len(GenesisSeeds)
    BY EnvironmentAssumption
  <2>2. settings[s[1]].seeds \in Seq(Seed) /\ s[3] \in Nat \ {0}
    BY <1>1, <2>1, EnvironmentAssumption DEF PhasesOK, Settings
  <2>3. s[3] <= Len(settings[s[1]].seeds) => settings[s[1]].seeds[s[3]] \in Seed
    BY <2>2
  <2>4. GenesisSeeds[s[3]] \in Seed
    BY <2>1, EnvironmentAssumption
  <2>5. seedOf[s] = SeedFor(s)
    BY DEF EnvironmentInit
  <2> QED
    BY <2>2, <2>3, <2>4, <2>5 DEF SeedFor
<1>3. OwnSeed
  BY <1>2 DEF OwnSeed
<1>4. OwnWallet /\ SourceThere /\ HungShares
  BY DEF EnvironmentInit, OwnWallet, SourceThere, HungShares
<1> QED
  BY <1>1, <1>3, <1>4 DEF HangInv

LEMMA HangInvariant == EnvironmentSpec => []HangInv
<1>1. HangInv /\ [EnvironmentNext]_testVars => HangInv'
  <2> SUFFICES ASSUME HangInv, [EnvironmentNext]_testVars
               PROVE  HangInv'
    OBVIOUS
  <2>1. TestInv' /\ PhasesOK'
    BY TestInvNext, PhasesNext DEF HangInv
  <2>2. CASE EnvironmentNext
    BY <2>1, <2>2, HangNext DEF HangInv
  <2>3. CASE UNCHANGED testVars
    <3>1. UNCHANGED <<seedOf, temp, wallet, pc, phase, providers>>
      BY <2>3 DEF testVars, envVars, restoreVars, disk
    <3>2. \A s \in Slot : SaveName(s)' = SaveName(s)
      BY <3>1 DEF SaveName
    <3>3. OwnSeed' /\ OwnWallet' /\ SourceThere' /\ HungShares'
      BY <3>1, <3>2, QuietKeepsHang DEF HangInv, OwnWallet
    <3> QED
      BY <2>1, <3>3 DEF HangInv
  <2> QED
    BY <2>2, <2>3
<1> QED
  BY <1>1, HangInit, PTL DEF EnvironmentSpec

(* A save hangs only if another wallet was asked for under the same seed, in
   whichever environment, call or process: two wallets that are saved under the
   same name, seed or coin public key, are of one seed. *)
THEOREM HangsAreShared == EnvironmentSpec => []HungShares
<1>1. HangInv => HungShares
  BY DEF HangInv
<1> QED
  BY <1>1, HangInvariant, PTL

(* No environment is asked twice for a wallet of the same seed: it has one call
   for wallets, whose seeds differ or are random. *)
SeedsDiffer == \A s, t \in Slot : s # t /\ s[1] = t[1] => seedOf[s] # seedOf[t]

(* Where the seeds of an environment differ, a save that never settles was
   disturbed by another environment. *)
THEOREM HangsComeFromOthers == SeedsDiffer /\ EnvironmentSpec => []OnlySharedSeedsHang
<1>1. SeedsDiffer /\ [EnvironmentNext]_testVars => SeedsDiffer'
  <2>1. [EnvironmentNext]_testVars => UNCHANGED seedOf
    <3> SUFFICES ASSUME [EnvironmentNext]_testVars
                 PROVE  UNCHANGED seedOf
      OBVIOUS
    <3>1. CASE \E e \in Env : EnvironmentStep(e)
      BY <3>1 DEF EnvironmentStep, StartContainers, HealthCheck, KeepProviders, ProvidersReady,
         ProvidersFail, AllSaved, AllClosed, CloseFails, StopContainers, restoreVars
    <3>2. CASE \E s \in Slot : SlotStep(s)
      BY <3>2 DEF SlotStep, Build, Load, Restore, Probe, FullSync, BuildFresh, BuildFromSeed,
         GetInitialState, WaitForFunds, SaveStep, SerializeState, OpenStreams, FinishStreams,
         FailStreams, CloseWallet
    <3>3. CASE \E e \in Env : \/ Start(e) \/ StartInjected(e)
                              \/ StartMidnightWalletProviders(e, settings[e].amount)
                              \/ \E save \in BOOLEAN : Shutdown(e, save)
                              \/ EndProcess(e)
      BY <3>3 DEF Start, StartInjected, StartMidnightWalletProviders, Shutdown, EndProcess,
         restoreVars
    <3>4. CASE \/ \E s \in Slot : SaveBySeed(s) \/ ApplyBlocks(s) \/ SyncWallet(s)
               \/ NewBlocks
      BY <3>4 DEF SaveBySeed, ApplyBlocks, SyncWallet, NewBlocks
    <3>5. CASE UNCHANGED testVars
      BY <3>5 DEF testVars, restoreVars
    <3> QED
      BY <3>1, <3>2, <3>3, <3>4, <3>5 DEF EnvironmentNext
  <2> QED
    BY <2>1 DEF SeedsDiffer
<1>2. SeedsDiffer /\ HungShares => OnlySharedSeedsHang
  BY DEF SeedsDiffer, HungShares, SharesSeed, OnlySharedSeedsHang
<1> QED
  BY <1>1, <1>2, HangsAreShared, PTL DEF EnvironmentSpec

=============================================================================
