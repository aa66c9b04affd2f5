----------------------------- MODULE DeployFind -----------------------------
(***************************************************************************)
(* deployContract and findDeployedContract: the two ways a client gets     *)
(* hold of a contract, and the two operations that write both entries of   *)
(* the private state provider, one after the other.                        *)
(*                                                                         *)
(* The address of a contract is derived from its deployment, so the        *)
(* contract of the model is what the only deploy flow deploys, or else a   *)
(* contract that somebody else deployed before.                            *)
(***************************************************************************)
EXTENDS Client

CONSTANTS
  LocalVk,     \* LocalVk[c]: the verifier key the client has for circuit c
  KeyGiven,    \* finds whose options have a signing key
  WithId,      \* deploys and finds whose options have a privateStateId
  WithInitial  \* finds whose options have an initialPrivateState

Deploys == {f \in Flow : Kind[f] = "deploy"}
Finds == {f \in Flow : Kind[f] = "find"}

ASSUME DeployFindAssumption ==
  /\ LocalVk \in [Circuit -> Vk]
  /\ \A f, g \in Deploys : f = g
  /\ KeyGiven \subseteq Finds
  /\ WithId \subseteq Flow
  /\ WithInitial \subseteq Finds

VARIABLES
  readOperations,  \* the verifier keys of the contract state each find read
  resultKey        \* the signing key each flow resolves with

joinReads == <<readOperations, resultKey>>
joinVars == <<ledger, status, store, pc, joinReads>>

JoinTypeOK ==
  /\ ClientTypeOK
  /\ readOperations \in [Flow -> [Circuit -> Vk \cup {NoVk}]]
  /\ resultKey \in [Flow -> Key \cup {NoKey}]

JoinReadsInit ==
  /\ readOperations = [f \in Flow |-> [c \in Circuit |-> NoVk]]
  /\ resultKey = [f \in Flow |-> NoKey]

Undeployed ==
  /\ authority = NoKey
  /\ operations = [c \in Circuit |-> NoVk]
  /\ signingKey = NoKey
  /\ privateState = NoState

(* Somebody else's contract; an earlier find may have stored a key or a
   private state for it. *)
DeployedBefore ==
  /\ authority \in Key
  /\ operations \in [Circuit -> Vk \cup {NoVk}]
  /\ signingKey \in Key \cup {NoKey}
  /\ privateState \in {{}, NoState}

JoinInit ==
  /\ Undeployed \/ DeployedBefore
  /\ counter = 0
  /\ status = [f \in Flow |-> "none"]
  /\ pc = [f \in Flow |-> "idle"]
  /\ JoinReadsInit

Deployed == authority # NoKey

-----------------------------------------------------------------------------
(* findDeployedContract, up to the check of the contract *)

StartFind(f) ==
  /\ f \in Finds
  /\ Start(f, "watchDeploy")
  /\ UNCHANGED <<ledger, status, store, joinReads>>

(* Pending for as long as there is no such contract. *)
WatchForDeployTxData(f) ==
  /\ f \in Finds
  /\ Deployed
  /\ Goto(f, "watchDeploy", "queryDeploy")
  /\ UNCHANGED <<ledger, status, store, joinReads>>

QueryDeployContractState(f) ==
  /\ f \in Finds
  /\ Goto(f, "queryDeploy", IF Deployed THEN "queryContract" ELSE "failed")
  /\ UNCHANGED <<ledger, status, store, joinReads>>

QueryCurrentState(f) ==
  /\ f \in Finds
  /\ Goto(f, "queryContract", IF Deployed THEN "verifierKeys" ELSE "failed")
  /\ readOperations' = [readOperations EXCEPT ![f] = operations]
  /\ UNCHANGED <<ledger, status, store, resultKey>>

(* Mutant: only the presence of each verifier key is checked. *)
VerifiedPresence(f) == \A c \in Circuit : readOperations[f][c] # NoVk

(* verifyContractState: the contract read has every key the client has. *)
Verified(f) == \A c \in Circuit : readOperations[f][c] = LocalVk[c]

GetVerifierKeys(f) ==
  /\ \/ /\ f \in Deploys
        /\ Goto(f, "verifierKeys", "prove")
     \/ /\ f \in Finds
        /\ Goto(f, "verifierKeys", CASE ~Verified(f)  -> "failed"
                                     [] Verified(f) /\ f \in KeyGiven -> "setKey"
                                     [] OTHER -> "getKey")
  /\ UNCHANGED <<ledger, status, store, joinReads>>

-----------------------------------------------------------------------------
(* The signing key, then the private state of a find *)

(* Mutant: a find resolves without looking for the private state it names. *)
AfterKeyUnchecked(f) ==
  CASE f \in Deploys -> "done"
    [] f \in Finds \cap WithId \cap WithInitial -> "setPrivate"
    [] f \in (Finds \cap WithInitial) \ WithId -> "failed"
    [] OTHER -> "done"

(* Where setOrGetInitialPrivateState takes a find that has its key. *)
AfterKey(f) ==
  CASE f \in Deploys -> "done"
    [] f \in Finds \cap WithId \cap WithInitial -> "setPrivate"
    [] f \in (Finds \cap WithId) \ WithInitial -> "getPrivate"
    [] f \in (Finds \cap WithInitial) \ WithId -> "failed"
    [] OTHER -> "done"

(* Mutant: a find always samples a key. *)
GetNoKey(f) ==
  /\ f \in Finds
  /\ Goto(f, "getKey", "setKey")
  /\ UNCHANGED <<ledger, status, store, joinReads>>

(* A find with no key given keeps the stored key, or samples one. *)
GetExistingKey(f) ==
  /\ f \in Finds
  /\ Goto(f, "getKey", IF signingKey # NoKey THEN AfterKey(f) ELSE "setKey")
  /\ resultKey' = [resultKey EXCEPT ![f] = signingKey]
  /\ UNCHANGED <<ledger, status, store, readOperations>>

SetInitialKey(f) ==
  /\ f \in Deploys \cup Finds
  /\ \/ Goto(f, "setKey", AfterKey(f))
     \/ MayReject /\ Goto(f, "setKey", "failed")
  /\ signingKey' = NewKey[f]
  /\ resultKey' = [resultKey EXCEPT ![f] = NewKey[f]]
  /\ UNCHANGED <<ledger, status, privateState, readOperations>>

(* Mutant: a deployment resolves once its private state is stored. *)
SetInitialPrivateStateOnly(f) ==
  /\ f \in Deploys \cup Finds
  /\ Goto(f, "setPrivate", "done")
  /\ privateState' = {}
  /\ UNCHANGED <<ledger, status, signingKey, joinReads>>

(* Mutant: the constructor result is stored in place of its private state. *)
SetConstructorResult(f) ==
  /\ f \in Deploys \cup Finds
  /\ \/ Goto(f, "setPrivate", IF f \in Deploys THEN "setKey" ELSE "done")
     \/ MayReject /\ Goto(f, "setPrivate", "failed")
  /\ privateState' = {{}}
  /\ UNCHANGED <<ledger, status, signingKey, joinReads>>

SetInitialPrivateState(f) ==
  /\ f \in Deploys \cup Finds
  /\ \/ Goto(f, "setPrivate", IF f \in Deploys THEN "setKey" ELSE "done")
     \/ MayReject /\ Goto(f, "setPrivate", "failed")
  /\ privateState' = {}
  /\ UNCHANGED <<ledger, status, signingKey, joinReads>>

(* Mutant: a find waits for the private state instead of rejecting. *)
AwaitPrivateState(f) ==
  /\ f \in Finds
  /\ privateState # NoState
  /\ Goto(f, "getPrivate", "done")
  /\ UNCHANGED <<ledger, status, store, joinReads>>

GetExistingPrivateState(f) ==
  /\ f \in Finds
  /\ Goto(f, "getPrivate", IF privateState # NoState THEN "done" ELSE "failed")
  /\ UNCHANGED <<ledger, status, store, joinReads>>

-----------------------------------------------------------------------------
(* submitDeployTx *)

StartDeploy(f) ==
  /\ f \in Deploys
  /\ ~Deployed
  /\ Start(f, "verifierKeys")
  /\ UNCHANGED <<ledger, status, store, joinReads>>

FinalizeDeploy(f) ==
  /\ f \in Deploys
  /\ \/ /\ Finalize(f, "SucceedEntirely")
        /\ authority' = NewKey[f]
        /\ operations' = LocalVk
        /\ UNCHANGED counter
     \/ /\ \E s \in Finalized \ {"SucceedEntirely"} : Finalize(f, s)
        /\ UNCHANGED ledger
  /\ UNCHANGED <<store, pc, joinReads>>

SettleDeploy(f) ==
  /\ f \in Deploys
  /\ Settle(f, IF f \in WithId THEN "setPrivate" ELSE "setKey")
  /\ UNCHANGED joinReads

JoinStep(f) ==
  \/ WatchForDeployTxData(f)
  \/ QueryDeployContractState(f)
  \/ QueryCurrentState(f)
  \/ GetVerifierKeys(f)
  \/ GetExistingKey(f)
  \/ SetInitialKey(f)
  \/ SetInitialPrivateState(f)
  \/ GetExistingPrivateState(f)
  \/ f \in Deploys /\ Pipeline(f) /\ UNCHANGED joinReads
  \/ SettleDeploy(f)

JoinNext ==
  \/ \E f \in Flow : StartFind(f) \/ StartDeploy(f)
  \/ \E f \in Flow : JoinStep(f)
  \/ \E f \in Flow : FinalizeDeploy(f)
  \/ \E f \in Flow : Reject(f) /\ UNCHANGED joinReads
  \/ Crash /\ UNCHANGED joinReads

JoinSpec == JoinInit /\ [][JoinNext]_joinVars

(* Awaited promises settle, the watch for a deployment only if there is one,
   and a submitted transaction is finalized. *)
JoinFairness ==
  \A f \in Flow : WF_joinVars(JoinStep(f)) /\ WF_joinVars(FinalizeDeploy(f))

FairJoinSpec == JoinSpec /\ JoinFairness

-----------------------------------------------------------------------------
(* Properties *)

(* Nothing is stored for a contract before the ledger has it: neither a
   deployment that fails, rejects or dies, nor a find that waits for one,
   leaves a key or a private state behind. *)
StoresFollowLedger ==
  ~Deployed => signingKey = NoKey /\ privateState = NoState

(* A flow that resolved left a store that later operations can work with: a
   signing key and, if it named a private state, that state, whatever other
   flows overlapped with it. *)
ResolvedIsUsable ==
  \A f \in Deploys \cup Finds :
    pc[f] = "done" => /\ signingKey # NoKey
                      /\ resultKey[f] # NoKey
                      /\ f \in WithId => privateState # NoState

(* "If undefined, and there is an existing signing key for the contract
   address locally, the existing signing key is kept." No find without a key
   replaces a stored key (find-deployed-contract.ts:152-153). *)
ExistingKeyKept ==
  [][\A f \in Finds \ KeyGiven :
       pc[f] = "setKey" /\ pc'[f] # "setKey" /\ signingKey # NoKey
         => signingKey' = signingKey]_joinVars

(* A contract with other verifier keys than the client has is left alone: a
   find stores nothing for it, whatever the find was given to store. *)
ForeignContractUntouched ==
  [][Deployed /\ operations # LocalVk => UNCHANGED store]_joinVars

(* Every deployment that was started, and every find once the contract is on
   the ledger, resolves, rejects or dies with the process, whatever becomes of
   the transaction it watches. *)
JoinsSettle ==
  \A f \in Deploys \cup Finds :
    pc[f] # "idle" /\ (f \in Finds => Deployed) ~> pc[f] \in Ended

=============================================================================
