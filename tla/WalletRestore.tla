---------------------------- MODULE WalletRestore ----------------------------
(***************************************************************************)
(* The wallets of testkit-js on their way from a seed to a synchronised    *)
(* wallet: WalletFactory, which looks for a saved state and restores it,   *)
(* the waits of wallet-utils, and WalletSaveStateProvider with GzipFile,   *)
(* which write and read the saved states.                                  *)
(*                                                                         *)
(* Several wallets are built, and saved, at the same time: by Promise.all  *)
(* in one process, and by test files that run in processes of their own    *)
(* and share the directory of the saved states.  pc[s] names what the      *)
(* wallet in slot s is awaiting.  The chain and the wallet itself are      *)
(* external: a wallet that was started follows the chain at its own pace,  *)
(* and the chain may be reset.                                             *)
(***************************************************************************)
EXTENDS Integers

CONSTANTS
  Slot,        \* places for a wallet
  Seed,        \* seeds that tests are given
  NoWallet,
  NoFile,
  Partial,     \* a file that is empty, cut off or mixed up
  MaxHeight,   \* bound on the blocks of a chain
  MaxChain,    \* bound on the chains, one after each reset
  Failing      \* slots whose calls of the wallet and the file system may fail

(* The seed that is generated for a slot is a seed of its own. *)
Owner == Seed \cup Slot

(* getWalletStateFilename: a state is saved under a seed, or under the coin
   public key, which is another string, of the wallet of a seed. *)
Name == {"seed", "coinPublicKey"} \X Owner

Wallet == [owner : Owner, chain : 1..MaxChain, offset : 0..MaxHeight,
           started : BOOLEAN]

(* SerializedWalletState: whose wallet it is and how far it has followed
   which chain. *)
Saved == [owner : Owner, chain : 1..MaxChain, offset : 0..MaxHeight]

ASSUME RestoreAssumption ==
  /\ Seed \cap Slot = {}
  /\ NoWallet \notin Wallet
  /\ {NoFile, Partial} \cap Saved = {} /\ NoFile # Partial
  /\ MaxHeight \in Nat /\ MaxChain \in Nat \ {0}

VARIABLES
  chain,      \* which chain the environment runs, after so many resets
  height,     \* its number of blocks
  seedOf,     \* seedOf[s]: the seed the wallet in slot s is asked for
  wallet,     \* the wallet each slot has got
  pc,         \* what each slot is awaiting
  inMemory,   \* inMemory[s]: the state slot s has read or serialized
  file,       \* the compressed file that is named after each seed
  temp        \* the file each name is first written to

network == <<chain, height>>
disk == <<file, temp>>
restoreVars == <<network, seedOf, wallet, pc, inMemory, disk>>

Building == {"load", "restore", "probe", "fullSync", "fresh", "fromSeed",
             "opened"}
Saving == {"serialize", "openStreams", "writing"}
Running == {"initialState", "syncWallet", "ready"} \cup Saving

Stages == {"none", "built", "saved", "close", "closed", "failed", "hung"}
            \cup Building \cup Running

RestoreTypeOK ==
  /\ chain \in 1..MaxChain
  /\ height \in 0..MaxHeight
  /\ seedOf \in [Slot -> Owner]
  /\ wallet \in [Slot -> Wallet \cup {NoWallet}]
  /\ pc \in [Slot -> Stages]
  /\ inMemory \in [Slot -> Saved \cup {NoFile, Partial}]
  /\ file \in [Owner -> Saved \cup {NoFile, Partial}]
  /\ temp \in [Name -> Saved \cup {NoFile}]

Goto(s, from, to) ==
  /\ pc[s] = from
  /\ pc' = [pc EXCEPT ![s] = to]

-----------------------------------------------------------------------------
(* The chain, and the wallets that follow it *)

(* The chain grows by as much as the bound allows. *)
NewBlocks ==
  /\ height < MaxHeight
  /\ height' = MaxHeight
  /\ UNCHANGED <<chain, seedOf, wallet, pc, inMemory, disk>>

(* Mutant: a block is applied whether or not there is one. *)
ApplyBlocksUnchecked(s) ==
  /\ pc[s] \in Running
  /\ wallet[s].started /\ wallet[s].chain = chain
  /\ wallet' = [wallet EXCEPT ![s].offset = @ + 1]
  /\ UNCHANGED <<network, seedOf, pc, inMemory, disk>>

(* A wallet that follows the chain catches up with it. *)
ApplyBlocks(s) ==
  /\ pc[s] \in Running
  /\ wallet[s].started /\ wallet[s].chain = chain
  /\ wallet[s].offset < height
  /\ wallet' = [wallet EXCEPT ![s].offset = height]
  /\ UNCHANGED <<network, seedOf, pc, inMemory, disk>>

(* syncProgress.lag.applyGap: the blocks the wallet has yet to apply.  As the
   comparison in isAnotherChain takes it, one that was restored and not started
   has the whole of its chain to apply.  What a wallet says that comes from a
   chain which is no more is not known. *)
ApplyGap(w) ==
  IF w.chain # chain THEN 0..height
  ELSE {IF w.started THEN height - w.offset ELSE height}

NewWallet(owner) ==
  [owner |-> owner, chain |-> chain, offset |-> 0, started |-> FALSE]

-----------------------------------------------------------------------------
(* WalletFactory.buildFromSeedAndTryToRestoreState *)

(* existsSync of the file that is named after the seed. *)
FirstStage(seed) ==
  IF file[seed] = NoFile THEN "fromSeed" ELSE "load"

(* Mutant: a file that is not whole is no error. *)
LoadAnything(s) ==
  /\ Goto(s, "load", "restore")
  /\ inMemory' = [inMemory EXCEPT ![s] = file[seedOf[s]]]
  /\ UNCHANGED <<network, seedOf, wallet, disk>>

(* GzipFile.decompress: a file that is not whole is an error. *)
ReadWhole(content) == content # Partial

(* WalletSaveStateProvider.load, whose errors are caught. *)
Load(s) ==
  LET content == file[seedOf[s]] IN
  /\ Goto(s, "load", IF ReadWhole(content) THEN "restore" ELSE "fromSeed")
  /\ inMemory' = [inMemory EXCEPT ![s] = content]
  /\ UNCHANGED <<network, seedOf, wallet, disk>>

Restore(s) ==
  /\ \/ /\ Goto(s, "restore", "probe")
        /\ wallet' = [wallet EXCEPT ![s] =
             [owner |-> seedOf[s], chain |-> inMemory[s].chain,
              offset |-> inMemory[s].offset, started |-> FALSE]]
     \/ /\ s \in Failing /\ Goto(s, "restore", "fromSeed")
        /\ UNCHANGED wallet
  /\ UNCHANGED <<network, seedOf, inMemory, disk>>

(* isAnotherChain: the chain is taken for another one if the wallet has fewer
   blocks to apply than the saved state had applied, less one. *)
AnotherChain(gap, offset) == gap < offset - 1

(* waitForSyncProgressDefined ends with an error after 30 seconds of silence;
   the error is caught, and the restored wallet is what is returned. *)
Probe(s) ==
  /\ pc[s] = "probe"
  /\ \/ \E gap \in ApplyGap(wallet[s]) :
          Goto(s, "probe", IF AnotherChain(gap, inMemory[s].offset) THEN "fresh"
                                                            ELSE "fullSync")
     \/ Goto(s, "probe", "opened")
  /\ UNCHANGED <<network, seedOf, wallet, inMemory, disk>>

(* waitForFullSync resolves with the first state that is not synchronised;
   the same comparison is made once more. *)
FullSync(s) ==
  /\ pc[s] = "fullSync"
  /\ \E gap \in ApplyGap(wallet[s]) :
       /\ gap > 0
       /\ Goto(s, "fullSync", IF AnotherChain(gap, inMemory[s].offset) THEN "fresh"
                                                               ELSE "opened")
  /\ UNCHANGED <<network, seedOf, wallet, inMemory, disk>>

(* WalletFactory.build: a wallet of a random seed in place of the restored
   one, which stays open; if it fails, the restored wallet is returned. *)
BuildFresh(s) ==
  /\ Goto(s, "fresh", "opened")
  /\ \/ wallet' = [wallet EXCEPT ![s] = NewWallet(s)]
     \/ s \in Failing /\ UNCHANGED wallet
  /\ UNCHANGED <<network, seedOf, inMemory, disk>>

(* Mutant: WalletFactory.build, whose seed is random. *)
BuildFromAnySeed(s) ==
  /\ Goto(s, "fromSeed", "opened")
  /\ wallet' = [wallet EXCEPT ![s] = NewWallet(s)]
  /\ UNCHANGED <<network, seedOf, inMemory, disk>>

BuildFromSeed(s) ==
  /\ \/ /\ Goto(s, "fromSeed", "opened")
        /\ wallet' = [wallet EXCEPT ![s] = NewWallet(seedOf[s])]
     \/ /\ s \in Failing /\ Goto(s, "fromSeed", "failed")
        /\ UNCHANGED wallet
  /\ UNCHANGED <<network, seedOf, inMemory, disk>>

(* MidnightWalletProvider.build: getInitialState, for the keys. *)
GetInitialState(s) ==
  /\ \/ Goto(s, "opened", "built")
     \/ s \in Failing /\ Goto(s, "opened", "failed")
  /\ inMemory' = [inMemory EXCEPT ![s] = NoFile]
  /\ UNCHANGED <<network, seedOf, wallet, disk>>

Build(s) == Load(s) \/ Restore(s) \/ Probe(s) \/ FullSync(s) \/ BuildFresh(s)
              \/ BuildFromSeed(s) \/ GetInitialState(s)

-----------------------------------------------------------------------------
(* MidnightWalletProvider.start: the wallet, then waitForFunds *)

(* waitForFunds: a wallet with a balance in its first state is ready; for
   another one the faucet is asked, whose errors are swallowed. *)
WaitForFunds(s) ==
  /\ \/ Goto(s, "initialState", "ready")
     \/ Goto(s, "initialState", "syncWallet")
     \/ s \in Failing /\ Goto(s, "initialState", "failed")
  /\ UNCHANGED <<network, seedOf, wallet, inMemory, disk>>

(* syncWallet: the wallet has a balance, if somebody pays it, and is close
   enough to the chain: 100 blocks are more than the model has. *)
SyncWallet(s) ==
  /\ Goto(s, "syncWallet", "ready")
  /\ \E gap \in ApplyGap(wallet[s]) : gap < 100
  /\ UNCHANGED <<network, seedOf, wallet, inMemory, disk>>

-----------------------------------------------------------------------------
(* WalletSaveStateProvider.save and GzipFile.compress, under a name.  The
   files that are named after a coin public key are never read: what they
   hold is left out. *)

(* save resolves whatever happens: to the application that saves under the
   seed, or to the shutdown, that saves under the coin public key. *)
AfterSave(name) == IF name[1] = "seed" THEN "ready" ELSE "saved"

WriteFile(name, content) ==
  file' = IF name[1] = "seed" THEN [file EXCEPT ![name[2]] = content] ELSE file

(* Mutant: the file is compressed although it was not written. *)
SerializeStateRegardless(s, name) ==
  LET state == [owner |-> wallet[s].owner, chain |-> wallet[s].chain,
                offset |-> wallet[s].offset] IN
  /\ Goto(s, "serialize", "openStreams")
  /\ \/ temp' = [temp EXCEPT ![name] = state]
     \/ s \in Failing /\ UNCHANGED temp
  /\ UNCHANGED <<network, seedOf, wallet, inMemory, file>>

SerializeState(s, name) ==
  LET state == [owner |-> wallet[s].owner, chain |-> wallet[s].chain,
                offset |-> wallet[s].offset] IN
  /\ \/ /\ Goto(s, "serialize", "openStreams")
        /\ temp' = [temp EXCEPT ![name] = state]
     \/ /\ s \in Failing /\ Goto(s, "serialize", AfterSave(name))
        /\ UNCHANGED temp
  /\ UNCHANGED <<network, seedOf, wallet, inMemory, file>>

(* The streams open: the target is emptied, whether or not there is a source.
   Nobody listens to the errors of the source: if it is gone, the error is
   raised outside of the promise of the compression, which stays pending. *)
OpenStreams(s, name) ==
  /\ Goto(s, "openStreams", IF temp[name] = NoFile THEN "hung" ELSE "writing")
  /\ WriteFile(name, Partial)
  /\ inMemory' = [inMemory EXCEPT ![s] = temp[name]]
  /\ UNCHANGED <<network, seedOf, wallet, temp>>

(* The compressed state is written over what another stream has written since
   the target was emptied, and the source is removed; that it may be gone is
   caught. *)
FinishStreams(s, name) ==
  /\ Goto(s, "writing", AfterSave(name))
  /\ \/ WriteFile(name, inMemory[s])
     \/ /\ name[1] = "seed" /\ file[name[2]] # Partial
        /\ WriteFile(name, Partial)
  /\ temp' = [temp EXCEPT ![name] = NoFile]
  /\ inMemory' = [inMemory EXCEPT ![s] = NoFile]
  /\ UNCHANGED <<network, seedOf, wallet>>

(* The target cannot be written: caught, the source stays. *)
FailStreams(s, name) ==
  /\ s \in Failing
  /\ Goto(s, "writing", AfterSave(name))
  /\ inMemory' = [inMemory EXCEPT ![s] = NoFile]
  /\ UNCHANGED <<network, seedOf, wallet, disk>>

SaveStep(s, name) ==
  \/ SerializeState(s, name) \/ OpenStreams(s, name)
  \/ FinishStreams(s, name) \/ FailStreams(s, name)

=============================================================================
