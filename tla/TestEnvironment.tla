--------------------------- MODULE TestEnvironment ---------------------------
(***************************************************************************)
(* The test environments of testkit-js: start (the containers, the         *)
(* configuration, the health checks), startMidnightWalletProviders (all    *)
(* wallets are built, then all are started), shutdown (all are saved, all  *)
(* are closed, the containers are stopped).  A remote environment brings   *)
(* up a proof server only, or is given one; a local one brings up every    *)
(* service, and takes the seeds of the genesis wallets.                    *)
(*                                                                         *)
(* The slot <<e, n, i>> is for wallet i of the n-th call of                *)
(* startMidnightWalletProviders on environment e.                          *)
(***************************************************************************)
EXTENDS WalletRestore, Sequences, FiniteSets

CONSTANTS
  Env,           \* test environments
  GenesisSeeds,  \* the seeds of the local environment
  MaxCalls       \* bound on the calls of startMidnightWalletProviders

MAX_NUMBER_OF_WALLETS == 4

NoServer == "none"
StaticServer == "static"

ASSUME EnvironmentAssumption ==
  /\ GenesisSeeds \in Seq(Seed) /\ Len(GenesisSeeds) >= MAX_NUMBER_OF_WALLETS
  /\ Slot \subseteq Env \X (Nat \ {0}) \X (1..Len(GenesisSeeds))
  /\ {NoServer, StaticServer} \cap Env = {}
  /\ Failing \subseteq Slot \cup Env
  /\ MaxCalls \in Nat

VARIABLES
  settings,   \* settings[e]: of which kind e is, and its environment variables
  phase,      \* what each environment is doing
  server,     \* proofServerContainer: the environment that started it
  containers, \* environments whose own containers are running
  calls,      \* how many times each environment was asked for wallets
  providers   \* walletProviders: the slots each environment keeps

envVars == <<phase, server, containers, calls, providers>>
testVars == <<restoreVars, settings, envVars>>

(* local: every service runs in a container; configured: the variables that
   name the services are set; injected: the tests give the environment a proof
   server, the static one; saves: the tests save wallets themselves; crashes:
   the process may end at any time; seeds: what MN_TEST_WALLET_SEED lists;
   amount: how many wallets the tests ask for. *)
Settings == [local : BOOLEAN, configured : BOOLEAN, injected : BOOLEAN,
             saves : BOOLEAN, crashes : BOOLEAN, seeds : Seq(Seed),
             amount : Nat \ {0}]

Phases == {"down", "container", "health", "up", "building", "starting",
           "saving", "closing", "stopping"}

EnvironmentTypeOK ==
  /\ RestoreTypeOK
  /\ settings \in [Env -> Settings]
  /\ phase \in [Env -> Phases]
  /\ server \in [Env -> Env \cup {NoServer, StaticServer}]
  /\ containers \subseteq Env
  /\ calls \in [Env -> 0..MaxCalls]
  /\ providers \in [Env -> SUBSET Slot]

SlotsOf(e) == {s \in Slot : s[1] = e}

(* The slots of the call that is running, or ran last. *)
Batch(e) == {s \in SlotsOf(e) : s[2] = calls[e] /\ pc[s] # "none"}

(* getEnvVarWalletSeeds: an empty variable lists no seeds. *)
ListedSeeds(e) == settings[e].seeds # <<>>

(* A wallet that no seed is given for gets a random one, its slot's. *)
SeedFor(s) ==
  LET setting == settings[s[1]] IN
  IF setting.local THEN GenesisSeeds[s[3]]
  ELSE IF ~ListedSeeds(s[1]) \/ s[3] > Len(setting.seeds) THEN s
       ELSE setting.seeds[s[3]]

(* Earlier sessions have left states behind for the seeds, whole or not. *)
EnvironmentInit ==
  /\ chain \in 1..MaxChain /\ height \in {0, MaxHeight}
  /\ settings \in [Env -> Settings]
  /\ seedOf = [s \in Slot |-> SeedFor(s)]
  /\ wallet = [s \in Slot |-> NoWallet]
  /\ pc = [s \in Slot |-> "none"]
  /\ inMemory = [s \in Slot |-> NoFile]
  /\ temp = [n \in Name |-> NoFile]
  /\ \E offset \in {0, MaxHeight} : \E left \in {"nothing", "part", "all"} :
       file = [seed \in Owner |->
         IF seed \notin Seed \/ left = "nothing" THEN NoFile
         ELSE IF left = "part" THEN Partial
         ELSE [owner |-> seed, chain |-> 1,
               offset |-> IF chain = 1 THEN height ELSE offset]]
  /\ phase = [e \in Env |-> "down"]
  /\ server = [e \in Env |-> NoServer]
  /\ containers = {}
  /\ calls = [e \in Env |-> 0]
  /\ providers = [e \in Env |-> {}]

Enter(e, from, to) ==
  /\ phase[e] = from
  /\ phase' = [phase EXCEPT ![e] = to]

-----------------------------------------------------------------------------
(* start *)

(* The static proof server is taken as it is; a local environment refuses to
   be given one. *)
StartInjected(e) ==
  /\ settings[e].injected /\ ~settings[e].local
  /\ Enter(e, "down", "health")
  /\ server' = [server EXCEPT ![e] = StaticServer]
  /\ UNCHANGED <<restoreVars, settings, containers, calls, providers>>

Start(e) ==
  /\ ~settings[e].injected
  /\ Enter(e, "down", "container")
  /\ UNCHANGED <<restoreVars, settings, server, containers, calls, providers>>

(* DynamicProofServerContainer.start, DockerComposeEnvironment.up *)
StartContainers(e) ==
  /\ \/ /\ Enter(e, "container", "health")
        /\ server' = [server EXCEPT ![e] = e]
        /\ containers' = containers \cup {e}
     \/ /\ e \in Failing /\ Enter(e, "container", "down")
        /\ UNCHANGED <<server, containers>>
  /\ UNCHANGED <<restoreVars, settings, calls, providers>>

(* getEnvironmentConfiguration throws if a variable is not set. *)
Configured(e) == settings[e].local \/ settings[e].configured

(* By then the container is remembered, so that a shutdown stops it.  The
   health checks end after a second and never reject. *)
HealthCheck(e) ==
  /\ Configured(e)
  /\ Enter(e, "health", "up")
  /\ UNCHANGED <<restoreVars, settings, server, containers, calls, providers>>

-----------------------------------------------------------------------------
(* startMidnightWalletProviders *)

(* What the number of wallets is checked against: that of the settings, unless
   one wallet is asked for, or that of the genesis wallets. *)
Accepted(e, amount) ==
  IF settings[e].local THEN amount <= MAX_NUMBER_OF_WALLETS
  ELSE (amount > 1 /\ ListedSeeds(e)) => Len(settings[e].seeds) = amount

(* The wallets that are built: with seeds, as many as there are seeds. *)
Wanted(e, amount) ==
  {e} \X {calls[e] + 1} \X
    (1..(IF settings[e].local \/ ~ListedSeeds(e) THEN amount
         ELSE Len(settings[e].seeds)))

(* All wallets are looked up in one go. *)
StartMidnightWalletProviders(e, amount) ==
  /\ Accepted(e, amount)
  /\ calls[e] < MaxCalls
  /\ Enter(e, "up", "building")
  /\ calls' = [calls EXCEPT ![e] = @ + 1]
  /\ LET wanted == Wanted(e, amount) IN
     /\ wanted \subseteq Slot
     /\ pc' = [s \in Slot |-> IF s \in wanted THEN FirstStage(seedOf[s]) ELSE pc[s]]
  /\ UNCHANGED <<network, seedOf, wallet, inMemory, disk, settings, server,
                 containers, providers>>

(* Promise.all: once all wallets are built they are kept, instead of those of
   an earlier call, and all are started. *)
KeepProviders(e) ==
  /\ \A s \in Batch(e) : pc[s] = "built"
  /\ Enter(e, "building", "starting")
  /\ providers' = [providers EXCEPT ![e] = Batch(e)]
  /\ wallet' = [s \in Slot |-> IF s \in Batch(e) THEN [wallet[s] EXCEPT !.started = TRUE]
                                                 ELSE wallet[s]]
  /\ pc' = [s \in Slot |-> IF s \in Batch(e) THEN "initialState" ELSE pc[s]]
  /\ UNCHANGED <<network, seedOf, inMemory, disk, settings, server,
                 containers, calls>>

ProvidersReady(e) ==
  /\ \A s \in Batch(e) : pc[s] = "ready"
  /\ Enter(e, "starting", "up")
  /\ UNCHANGED <<restoreVars, settings, server, containers, calls, providers>>

(* Mutant: the call waits for all wallets to have settled. *)
AllProvidersFail(e) ==
  /\ \A s \in Batch(e) : pc[s] = "failed"
  /\ Enter(e, "building", "up") \/ Enter(e, "starting", "up")
  /\ UNCHANGED <<restoreVars, settings, server, containers, calls, providers>>

(* One wallet that cannot be built or started rejects the call; the others go
   on, and if nothing was kept of the call nothing will close them. *)
ProvidersFail(e) ==
  /\ \E s \in Batch(e) : pc[s] = "failed"
  /\ Enter(e, "building", "up") \/ Enter(e, "starting", "up")
  /\ UNCHANGED <<restoreVars, settings, server, containers, calls, providers>>

(* The application saves a wallet by itself, under the seed it has given. *)
SaveBySeed(s) ==
  /\ phase[s[1]] = "up"
  /\ s \in providers[s[1]]
  /\ settings[s[1]].saves /\ seedOf[s] \in Seed
  /\ Goto(s, "ready", "serialize")
  /\ UNCHANGED <<network, seedOf, wallet, inMemory, disk, settings, envVars>>

-----------------------------------------------------------------------------
(* shutdown *)

(* The wallets that are kept are saved, if that is asked for and the
   environment is a remote one, and then closed. *)
Shutdown(e, save) ==
  LET kept == providers[e]
      saves == save /\ ~settings[e].local IN
  /\ phase[e] = "up" \/ (phase[e] = "health" /\ ~Configured(e))
  /\ \A s \in kept : pc[s] \notin Saving \cup {"hung"}
  /\ phase' = [phase EXCEPT ![e] =
       IF kept = {} THEN "stopping" ELSE IF saves THEN "saving" ELSE "closing"]
  /\ pc' = [s \in Slot |-> IF s \in kept THEN IF saves THEN "serialize" ELSE "close"
                                         ELSE pc[s]]
  /\ UNCHANGED <<network, seedOf, wallet, inMemory, disk, settings, server,
                 containers, calls, providers>>

AllSaved(e) ==
  /\ \A s \in providers[e] : pc[s] = "saved"
  /\ Enter(e, "saving", "closing")
  /\ pc' = [s \in Slot |-> IF s \in providers[e] THEN "close" ELSE pc[s]]
  /\ UNCHANGED <<network, seedOf, wallet, inMemory, disk, settings, server,
                 containers, calls, providers>>

CloseWallet(s) ==
  /\ \/ Goto(s, "close", "closed")
     \/ s \in Failing /\ Goto(s, "close", "failed")
  /\ UNCHANGED <<network, seedOf, wallet, inMemory, disk, settings, envVars>>

(* Mutant: the first wallet that is closed will do. *)
AnyClosed(e) ==
  /\ \E s \in providers[e] : pc[s] = "closed"
  /\ Enter(e, "closing", "stopping")
  /\ UNCHANGED <<restoreVars, settings, server, containers, calls, providers>>

AllClosed(e) ==
  /\ \A s \in providers[e] : pc[s] = "closed"
  /\ Enter(e, "closing", "stopping")
  /\ UNCHANGED <<restoreVars, settings, server, containers, calls, providers>>

(* A wallet that does not close rejects the shutdown before it comes to the
   containers. *)
CloseFails(e) ==
  /\ \E s \in providers[e] : pc[s] = "failed"
  /\ Enter(e, "closing", "up")
  /\ UNCHANGED <<restoreVars, settings, server, containers, calls, providers>>

(* To stop the static proof server does nothing. *)
StopContainers(e) ==
  /\ \/ /\ Enter(e, "stopping", "down")
        /\ containers' = containers \ {server[e]}
     \/ /\ e \in Failing /\ Enter(e, "stopping", "up")
        /\ UNCHANGED containers
  /\ UNCHANGED <<restoreVars, settings, server, calls, providers>>

(* The process of the environment ends, after a shutdown or in the middle of
   anything; its wallets and its own containers end with it, its files stay.
   The next process starts anew. *)
EndProcess(e) ==
  /\ phase[e] = "down" \/ settings[e].crashes
  /\ phase' = [phase EXCEPT ![e] = "down"]
  /\ server' = [server EXCEPT ![e] = NoServer]
  /\ containers' = containers \ {e}
  /\ calls' = [calls EXCEPT ![e] = 0]
  /\ providers' = [providers EXCEPT ![e] = {}]
  /\ pc' = [s \in Slot |-> IF s[1] = e THEN "none" ELSE pc[s]]
  /\ wallet' = [s \in Slot |-> IF s[1] = e THEN NoWallet ELSE wallet[s]]
  /\ UNCHANGED <<network, seedOf, inMemory, disk, settings>>

-----------------------------------------------------------------------------

EnvironmentStep(e) ==
  \/ StartContainers(e) \/ HealthCheck(e)
  \/ KeepProviders(e) \/ ProvidersReady(e) \/ ProvidersFail(e)
  \/ AllSaved(e) \/ AllClosed(e) \/ CloseFails(e) \/ StopContainers(e)

(* What a wallet is being saved under: by the shutdown, or by the application. *)
SaveName(s) ==
  IF phase[s[1]] = "saving" /\ s \in providers[s[1]]
  THEN <<"coinPublicKey", wallet[s].owner>> ELSE <<"seed", seedOf[s]>>

SlotStep(s) ==
  \/ /\ Build(s) \/ WaitForFunds(s) \/ SaveStep(s, SaveName(s))
     /\ UNCHANGED <<settings, envVars>>
  \/ CloseWallet(s)

EnvironmentNext ==
  \/ \E e \in Env : EnvironmentStep(e)
  \/ \E s \in Slot : SlotStep(s)
  \/ \E e \in Env : \/ Start(e)
                    \/ StartInjected(e)
                    \/ StartMidnightWalletProviders(e, settings[e].amount)
                    \/ \E save \in BOOLEAN : Shutdown(e, save)
                    \/ EndProcess(e)
  \/ \E s \in Slot : SaveBySeed(s)
  \/ \E s \in Slot : (ApplyBlocks(s) \/ SyncWallet(s)) /\ UNCHANGED <<settings, envVars>>
  \/ NewBlocks /\ UNCHANGED <<settings, envVars>>

EnvironmentSpec == EnvironmentInit /\ [][EnvironmentNext]_testVars

(* Awaited calls settle; what the application does, the chain and the payments
   to a wallet are not obliged to come. *)
EnvironmentFairness ==
  \A e \in Env :
    WF_testVars(EnvironmentStep(e) \/ \E s \in SlotsOf(e) : SlotStep(s))

-----------------------------------------------------------------------------
(* Properties *)

(* "Builds a wallet from a seed and attempts to restore its state from a saved
   file if available": the wallet is one of the seed (wallet-factory.ts:137). *)
WalletOfSeed ==
  \A s \in Slot : pc[s] = "built" => wallet[s].owner = seedOf[s]

(* A wallet is of another seed than it was asked for only if a state had been
   saved under the seed: a test that never saves gets the wallet it asked for,
   whatever fails, and whatever other environments do. *)
SeedKeptUnlessSaved ==
  \A s \in Slot :
    wallet[s] # NoWallet /\ wallet[s].owner # seedOf[s]
      => file[seedOf[s]] # NoFile

(* A wallet follows a state that was read from a whole file or none at all:
   never one of an interrupted or disturbed save. *)
RestoredWhole ==
  \A s \in Slot : pc[s] \in {"restore", "probe", "fullSync", "fresh"}
                    => inMemory[s] \in Saved

(* A save that never settles, and with it the shutdown that waits for it, was
   disturbed by another environment that saves a wallet of the same seed. *)
OnlySharedSeedsHang ==
  \A s \in Slot : pc[s] = "hung" =>
    \E t \in Slot : t[1] # s[1] /\ seedOf[t] = seedOf[s]

(* A shutdown that resolves has closed every wallet the environment keeps, and
   stopped its containers, whatever failed in the calls and shutdowns before. *)
ShutdownReleases ==
  [][\A e \in Env : phase[e] = "stopping" /\ phase'[e] = "down" /\ calls'[e] # 0
       => /\ \A s \in providers[e] : pc[s] = "closed"
          /\ e \notin containers' \/ server[e] # e]_testVars

(* Every call for wallets and every shutdown resolves or rejects, unless a
   restored wallet has nothing to synchronise (waitForFullSync waits for a
   state that is not synchronised) or a save was disturbed.  One wallet that
   fails ends the call or the shutdown of all. *)
CallsSettle ==
  \A e \in Env : phase[e] \in {"building", "saving", "closing", "stopping"} ~>
    \/ phase[e] \notin {"building", "saving", "closing", "stopping"}
    \/ \E s \in SlotsOf(e) :
         \/ pc[s] = "hung"
         \/ pc[s] = "fullSync" /\ ApplyGap(wallet[s]) = {0}

=============================================================================
