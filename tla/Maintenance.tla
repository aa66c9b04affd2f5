---------------------------- MODULE Maintenance -----------------------------
(***************************************************************************)
(* submitReplaceAuthorityTx, submitInsertVerifierKeyTx and                 *)
(* submitRemoveVerifierKeyTx: a maintenance update is built from a         *)
(* snapshot of the contract, signed with the stored signing key, submitted *)
(* and, for a new authority, followed by the write of its key.             *)
(***************************************************************************)
EXTENDS Client

CONSTANTS
  InitialKey,     \* the key the contract was deployed with
  NewVk,          \* NewVk[f]: the verifier key an insertion adds
  VkUpdatesCount  \* whether verifier key updates advance the counter too

Maintainers == {"insertVk", "removeVk", "replaceAuthority"}

ASSUME MaintenanceAssumption ==
  /\ InitialKey \in Key
  /\ NewVk \in [Flow -> Vk]
  /\ VkUpdatesCount \in BOOLEAN

VARIABLES
  readCounter,  \* the counter of the contract state each flow has read
  readKey       \* the signing key each flow has read

maintReads == <<readCounter, readKey>>
maintVars == <<ledger, status, store, pc, maintReads>>

MaintTypeOK ==
  /\ ClientTypeOK
  /\ readCounter \in [Flow -> Nat]
  /\ readKey \in [Flow -> Key \cup {NoKey}]

MaintReadsInit ==
  /\ readCounter = [f \in Flow |-> 0]
  /\ readKey = [f \in Flow |-> NoKey]

(* A contract this client deployed, some of its circuits already removed. *)
MaintInit ==
  /\ authority = InitialKey
  /\ counter = 0
  /\ operations \in [Circuit -> Vk \cup {NoVk}]
  /\ status = [f \in Flow |-> "none"]
  /\ signingKey = InitialKey
  /\ privateState = NoState
  /\ pc = [f \in Flow |-> "idle"]
  /\ MaintReadsInit

-----------------------------------------------------------------------------

(* The assertions on the contract state that was read. *)
Maintainable(f) ==
  /\ authority # NoKey
  /\ Kind[f] = "insertVk" => operations[Target[f]] = NoVk
  /\ Kind[f] = "removeVk" => operations[Target[f]] # NoVk

QueryContractState(f) ==
  /\ Kind[f] \in Maintainers
  /\ Start(f, IF Maintainable(f) THEN "getKey" ELSE "failed")
  /\ readCounter' = [readCounter EXCEPT ![f] = counter]
  /\ UNCHANGED <<ledger, status, store, readKey>>

(* Mutant: the counter is read once more, after the assertions. *)
GetSigningKeyAndCounter(f) ==
  /\ Kind[f] \in Maintainers
  /\ Goto(f, "getKey", IF signingKey # NoKey THEN "prove" ELSE "failed")
  /\ readKey' = [readKey EXCEPT ![f] = signingKey]
  /\ readCounter' = [readCounter EXCEPT ![f] = counter]
  /\ UNCHANGED <<ledger, status, store>>

GetSigningKey(f) ==
  /\ Kind[f] \in Maintainers
  /\ Goto(f, "getKey", IF signingKey # NoKey THEN "prove" ELSE "failed")
  /\ readKey' = [readKey EXCEPT ![f] = signingKey]
  /\ UNCHANGED <<ledger, status, store, readCounter>>

(* The ledger accepts an update signed by the current authority for the
   current counter. *)
Accepted(f) ==
  /\ readCounter[f] = counter
  /\ readKey[f] = authority

Advanced(f) == IF VkUpdatesCount THEN counter + 1 ELSE counter

(* Mutant: the new authority is built with the previous counter value. *)
ApplyUpdateCountingDown(f) ==
  \/ /\ Kind[f] = "replaceAuthority"
     /\ authority' = NewKey[f]
     /\ counter' = readCounter[f] - 1
     /\ UNCHANGED operations
  \/ /\ Kind[f] # "replaceAuthority"
     /\ UNCHANGED ledger

ApplyUpdate(f) ==
  \/ /\ Kind[f] = "replaceAuthority"
     /\ authority' = NewKey[f]
     /\ counter' = readCounter[f] + 1
     /\ UNCHANGED operations
  \/ /\ Kind[f] = "insertVk"
     /\ operations' = [operations EXCEPT ![Target[f]] = NewVk[f]]
     /\ counter' = Advanced(f)
     /\ UNCHANGED authority
  \/ /\ Kind[f] = "removeVk"
     /\ operations' = [operations EXCEPT ![Target[f]] = NoVk]
     /\ counter' = Advanced(f)
     /\ UNCHANGED authority

FinalizeUpdate(f) ==
  /\ Kind[f] \in Maintainers
  /\ \/ /\ Finalize(f, "SucceedEntirely")
        /\ Accepted(f)
        /\ ApplyUpdate(f)
     \/ /\ \E s \in {"FailEntirely", "FailFallible"} : Finalize(f, s)
        /\ UNCHANGED ledger
  /\ UNCHANGED <<store, pc, maintReads>>

SettleUpdate(f) ==
  /\ Kind[f] \in Maintainers
  /\ Settle(f, IF Kind[f] = "replaceAuthority" THEN "setKey" ELSE "done")
  /\ UNCHANGED maintReads

(* The provider may still reject after the write, closing its database. *)
SetSigningKey(f) ==
  /\ Kind[f] = "replaceAuthority"
  /\ \/ Goto(f, "setKey", "done")
     \/ MayReject /\ Goto(f, "setKey", "failed")
  /\ signingKey' = NewKey[f]
  /\ UNCHANGED <<ledger, status, privateState, maintReads>>

(* The steps an event loop takes on behalf of one maintenance flow. *)
MaintStep(f) ==
  \/ GetSigningKey(f)
  \/ Kind[f] \in Maintainers /\ Pipeline(f) /\ UNCHANGED maintReads
  \/ SettleUpdate(f)
  \/ SetSigningKey(f)

MaintNext ==
  \/ \E f \in Flow : QueryContractState(f)
  \/ \E f \in Flow : MaintStep(f)
  \/ \E f \in Flow : FinalizeUpdate(f)
  \/ \E f \in Flow : Reject(f) /\ UNCHANGED maintReads
  \/ Crash /\ UNCHANGED maintReads

MaintSpec == MaintInit /\ [][MaintNext]_maintVars

(* An awaited promise settles and a submitted transaction is finalized;
   nothing obliges the application to start a flow or to crash. *)
MaintFairness ==
  \A f \in Flow : /\ WF_maintVars(MaintStep(f))
                  /\ WF_maintVars(FinalizeUpdate(f))

FairMaintSpec == MaintSpec /\ MaintFairness

-----------------------------------------------------------------------------
(* Properties *)

(* New authorities are sampled keys: no two are the same, and none is the key
   the contract was deployed with. *)
Replacers == {f \in Flow : Kind[f] = "replaceAuthority"}

DistinctKeys ==
  /\ \A f, g \in Replacers : f # g => NewKey[f] # NewKey[g]
  /\ \A f \in Replacers : NewKey[f] # InitialKey

(* The current authority key is in the store unless the flow that installed
   it has not stored it yet, or failed or died before it could. *)
AuthorityKeyHeld ==
  \/ signingKey = authority
  \/ \E f \in Replacers : /\ status[f] = "SucceedEntirely"
                          /\ NewKey[f] = authority
                          /\ pc[f] \in {"watch", "setKey", "failed", "lost"}

(* A verifier key of the deployed contract is never overwritten by another
   one, however stale the state was in which an insertion saw the circuit
   undefined: it has to be removed first. *)
VerifierKeyNotOverwritten ==
  [][\A c \in Circuit :
       operations[c] # NoVk => operations'[c] \in {operations[c], NoVk}]_maintVars

(* However flows overlap, fail or die, the key on chain and the stored key
   change in turns, and what is stored is the authority of that moment: no
   late setSigningKey brings back an outdated key. *)
Custody == INSTANCE KeyCustody WITH onChain <- authority, held <- signingKey
CustodySpec == Custody!Spec

(* "After the transaction is finalized, the current signing key stored in
   the given private state provider is overwritten with the given new
   authority key." (submit-replace-authority-tx.ts:26-29) *)
FinalizedKeyGetsStored ==
  \A f \in Replacers :
    status[f] = "SucceedEntirely" ~> signingKey = NewKey[f]

=============================================================================
