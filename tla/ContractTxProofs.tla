-------------------------- MODULE ContractTxProofs --------------------------
(***************************************************************************)
(* For any flows of every operation of packages/contracts over one         *)
(* contract: a key whose write was missed is lost for good, and when all   *)
(* is quiet and reported the store matches the ledger.                     *)
(***************************************************************************)
EXTENDS ContractTx, OperationProofs, TLAPS

-----------------------------------------------------------------------------
(* The types, and what each operation leaves alone *)

ContractTypeOK == MaintTypeOK /\ CallTypeOK /\ JoinTypeOK

(* A call also stores a private state only if it ran on one. *)
ContractBase == ContractTypeOK /\ CallBase

(* An operation is one of maintenance, calls or joins, and of one flow. *)
LEMMA OtherFlowsWait ==
  ASSUME ContractBase, NEW f \in Flow,
         MaintOperation(f) \/ CallOperation(f) \/ JoinOperation(f)
  PROVE  \A g \in Flow \ {f} : pc'[g] = pc[g] /\ status'[g] = status[g]
<1>. USE DEF ContractBase, ContractTypeOK, MaintTypeOK, ClientTypeOK, ledger, store, Goto, Start,
             Finalize, Settle, GetZkConfig, ProveTx, BalanceTx, SubmitTx, Pipeline
<1>1. CASE MaintOperation(f)
  BY <1>1 DEF MaintOperation, QueryContractState, MaintStep, GetSigningKey, SettleUpdate,
     SetSigningKey, FinalizeUpdate
<1>2. CASE CallOperation(f)
  BY <1>2 DEF CallOperation, QueryPublicStates, CallStep, GetPrivateState, SettleCall,
     SetPrivateState, FinalizeCall
<1>3. CASE JoinOperation(f)
  <2>1. CASE StartFind(f) \/ StartDeploy(f) \/ FinalizeDeploy(f) \/ SettleDeploy(f) \/ Pipeline(f)
    BY <2>1 DEF StartFind, StartDeploy, FinalizeDeploy, SettleDeploy
  <2>2. CASE \/ WatchForDeployTxData(f) \/ QueryDeployContractState(f) \/ QueryCurrentState(f)
             \/ GetVerifierKeys(f) \/ GetExistingPrivateState(f)
    BY <2>2 DEF WatchForDeployTxData, QueryDeployContractState, QueryCurrentState,
       GetVerifierKeys, GetExistingPrivateState
  <2>3. CASE GetExistingKey(f) \/ SetInitialKey(f) \/ SetInitialPrivateState(f)
    BY <2>3 DEF GetExistingKey, SetInitialKey, SetInitialPrivateState
  <2>. HIDE DEF Pipeline
  <2>. QED
    BY <1>3, <2>1, <2>2, <2>3 DEF JoinOperation, JoinStep
<1>. QED
  BY <1>1, <1>2, <1>3

(* Maintenance is not of a call, and neither is a deployment or a find. *)
LEMMA OperationKind ==
  ASSUME NEW f \in Flow
  PROVE  /\ MaintOperation(f) => Kind[f] \in Maintainers
         /\ CallOperation(f) => f \in Calls
         /\ JoinOperation(f) => f \in Deploys \cup Finds
BY DEF MaintOperation, QueryContractState, MaintStep, GetSigningKey, SettleUpdate, Maintainers,
   SetSigningKey, FinalizeUpdate, CallOperation, QueryPublicStates, CallStep, GetPrivateState,
   SettleCall, SetPrivateState, FinalizeCall, JoinOperation, StartFind, StartDeploy, JoinStep,
   WatchForDeployTxData, QueryDeployContractState, QueryCurrentState, GetVerifierKeys,
   GetExistingKey, SetInitialKey, SetInitialPrivateState, GetExistingPrivateState, SettleDeploy,
   FinalizeDeploy

(* What all flows share keeps its type in the steps of joins. *)
LEMMA JoinTypes ==
  ASSUME ContractBase, NEW f \in Flow, JoinOperation(f)
  PROVE  ContractTypeOK'
<1>. USE ClientAssumption, DeployFindAssumption
     DEF ContractBase, ContractTypeOK, MaintTypeOK, CallTypeOK, JoinTypeOK, ClientTypeOK,
         ledger, store, maintReads, callReads, joinReads
<1>1. UNCHANGED <<maintReads, callReads, counter>>
  BY DEF JoinOperation, StartFind, StartDeploy, JoinStep, WatchForDeployTxData,
     QueryDeployContractState, QueryCurrentState, GetVerifierKeys, GetExistingKey, SetInitialKey,
     SetInitialPrivateState, GetExistingPrivateState, SettleDeploy, FinalizeDeploy, Pipeline,
     GetZkConfig, ProveTx, BalanceTx, SubmitTx, Settle
<1>2. /\ authority' \in Key \cup {NoKey} /\ operations' \in [Circuit -> Vk \cup {NoVk}]
      /\ signingKey' \in Key \cup {NoKey} /\ privateState' \in PrivateState \cup {NoState}
  BY DEF JoinOperation, StartFind, StartDeploy, JoinStep, WatchForDeployTxData,
     QueryDeployContractState, QueryCurrentState, GetVerifierKeys, GetExistingKey, SetInitialKey,
     SetInitialPrivateState, GetExistingPrivateState, SettleDeploy, FinalizeDeploy, Pipeline,
     GetZkConfig, ProveTx, BalanceTx, SubmitTx, Settle, PrivateState
<1>3. status' \in [Flow -> {"none", "pending"} \cup Finalized]
  <2>1. CASE UNCHANGED status
    BY <2>1
  <2>2. CASE SubmitTx(f) \/ FinalizeDeploy(f)
    <3>1. CASE SubmitTx(f)
      BY <3>1 DEF SubmitTx
    <3>2. CASE FinalizeDeploy(f)
      <4>1. PICK s \in Finalized : status' = [status EXCEPT ![f] = s]
        BY <3>2 DEF FinalizeDeploy, Finalize, Finalized
      <4>. QED
        BY <4>1
    <3>. QED
      BY <2>2, <3>1, <3>2
  <2>3. CASE Pipeline(f) \/ SettleDeploy(f)
    BY <2>1, <2>2, <2>3 DEF Pipeline, GetZkConfig, ProveTx, BalanceTx, SettleDeploy, Settle
  <2>4. CASE \/ StartFind(f) \/ StartDeploy(f) \/ WatchForDeployTxData(f)
             \/ QueryDeployContractState(f) \/ QueryCurrentState(f) \/ GetVerifierKeys(f)
    BY <2>1, <2>4 DEF StartFind, StartDeploy, WatchForDeployTxData, QueryDeployContractState,
       QueryCurrentState, GetVerifierKeys
  <2>5. CASE \/ GetExistingKey(f) \/ SetInitialKey(f) \/ SetInitialPrivateState(f)
             \/ GetExistingPrivateState(f)
    BY <2>1, <2>5 DEF GetExistingKey, SetInitialKey, SetInitialPrivateState,
       GetExistingPrivateState
  <2>. QED
    BY <2>2, <2>3, <2>4, <2>5 DEF JoinOperation, JoinStep
<1>4. PICK to \in Stages : pc' = [pc EXCEPT ![f] = to]
  <2>. USE DEF Goto, Stages, Ended
  <2>1. CASE pc' = pc
    BY <2>1
  <2>2. CASE GetExistingKey(f) \/ SetInitialKey(f)
    <3>1. AfterKey(f) \in {"done", "setPrivate", "getPrivate", "failed"}
      BY DEF AfterKey
    <3>. QED
      BY <2>2, <3>1 DEF GetExistingKey, SetInitialKey
  <2>3. CASE \/ StartFind(f) \/ StartDeploy(f) \/ WatchForDeployTxData(f)
             \/ QueryDeployContractState(f) \/ QueryCurrentState(f)
    BY <2>3 DEF StartFind, StartDeploy, Start, WatchForDeployTxData, QueryDeployContractState,
       QueryCurrentState
  <2>4. CASE \/ GetVerifierKeys(f) \/ SetInitialPrivateState(f) \/ GetExistingPrivateState(f)
             \/ SettleDeploy(f)
    BY <2>4 DEF GetVerifierKeys, SetInitialPrivateState, GetExistingPrivateState, SettleDeploy,
       Settle
  <2>5. CASE Pipeline(f)
    BY <2>5 DEF Pipeline, GetZkConfig, ProveTx, BalanceTx, SubmitTx
  <2>. QED
    BY <2>1, <2>2, <2>3, <2>4, <2>5 DEF JoinOperation, JoinStep, FinalizeDeploy
<1>5. /\ readOperations' \in [Flow -> [Circuit -> Vk \cup {NoVk}]]
      /\ resultKey' \in [Flow -> Key \cup {NoKey}]
  <2>1. CASE UNCHANGED joinReads
    BY <2>1
  <2>2. CASE QueryCurrentState(f)
    BY <2>2 DEF QueryCurrentState
  <2>3. CASE GetExistingKey(f) \/ SetInitialKey(f)
    BY <2>3 DEF GetExistingKey, SetInitialKey
  <2>. QED
    BY <2>1, <2>2, <2>3 DEF JoinOperation, StartFind, StartDeploy, JoinStep, WatchForDeployTxData,
       QueryDeployContractState, GetVerifierKeys, SetInitialPrivateState, GetExistingPrivateState,
       SettleDeploy, FinalizeDeploy
<1>. QED
  BY <1>1, <1>2, <1>3, <1>4, <1>5

(* Every operation keeps the types of all. *)
LEMMA ContractBaseNext == ContractBase /\ [ContractNext]_contractVars => ContractBase'
<1>. SUFFICES ASSUME ContractBase, [ContractNext]_contractVars
              PROVE  ContractBase'
  OBVIOUS
<1>1. ASSUME NEW f \in Flow, \A g \in Calls : pc'[g] = pc[g] /\ status'[g] = status[g],
             UNCHANGED callReads
      PROVE  CallProgress' /\ RanOnState'
  BY <1>1 DEF ContractBase, CallBase, CallProgress, RanOnState, callReads, Calls
<1>2. ASSUME NEW f \in Flow, MaintOperation(f)
      PROVE  ContractBase'
  <2>1. MaintTypeOK' /\ UNCHANGED <<callReads, joinReads>>
    BY <1>2, MaintTypeNext DEF MaintOperation, MaintNext, ContractBase, ContractTypeOK
  <2>2. \A g \in Calls : pc'[g] = pc[g] /\ status'[g] = status[g]
    BY <1>2, OtherFlowsWait, OperationKind DEF Calls, Maintainers
  <2>. QED
    BY <1>1, <2>1, <2>2 DEF ContractBase, ContractTypeOK, CallBase, CallTypeOK, JoinTypeOK,
       MaintTypeOK, callReads, joinReads
<1>3. ASSUME CallNext, UNCHANGED <<maintReads, joinReads>>
      PROVE  ContractBase'
  <2>1. CallBase'
    BY <1>3, CallBaseNext DEF ContractBase
  <2>. QED
    BY <1>3, <2>1 DEF ContractBase, ContractTypeOK, CallBase, CallTypeOK, JoinTypeOK,
       MaintTypeOK, maintReads, joinReads
<1>4. ASSUME NEW f \in Flow, JoinOperation(f)
      PROVE  ContractBase'
  <2>1. ContractTypeOK' /\ UNCHANGED callReads
    BY <1>4, JoinTypes DEF JoinOperation
  <2>2. \A g \in Calls : pc'[g] = pc[g] /\ status'[g] = status[g]
    BY <1>4, OtherFlowsWait, OperationKind DEF Calls, Deploys, Finds
  <2>. QED
    BY <1>1, <2>1, <2>2 DEF ContractBase, CallBase, ContractTypeOK
<1>5. CASE UNCHANGED contractVars
  BY <1>5 DEF contractVars, ledger, store, maintReads, callReads, joinReads, ContractBase,
     ContractTypeOK, CallBase, CallTypeOK, JoinTypeOK, MaintTypeOK, ClientTypeOK, CallProgress,
     RanOnState
<1>. QED
  BY <1>2, <1>3, <1>4, <1>5 DEF ContractNext, CallOperation, CallNext

-----------------------------------------------------------------------------
(* The application *)

(* The flows that make a key the authority. *)
Owners == Deploys \cup Replacers

(* Keys are sampled, no find is given one, and what finds the contract does so
   after the flow that deploys it. *)
KeysManaged ==
  /\ \A f, g \in Owners \cup Finds : f # g => NewKey[f] # NewKey[g]
  /\ KeyGiven = {}
  /\ \A f \in Finds : Deploys \subseteq After[f]

-----------------------------------------------------------------------------
(* Signing keys *)

(* A flow whose key is the authority, and that has yet to store it. *)
Storing == {"watch", "setPrivate", "setKey"}
Unstored(f) == status[f] = "SucceedEntirely" /\ pc[f] \in Storing

(* Where the flows are that change the authority, given what became of their
   transactions. *)
OwnerProgress ==
  \A f \in Owners :
    /\ pc[f] \notin Storing \cup Ended => status[f] = "none"
    /\ status[f] = "pending" => pc[f] \in {"watch", "failed", "lost"}
    /\ pc[f] \in {"setPrivate", "setKey", "done"} => status[f] = "SucceedEntirely"

(* A find that stores a key has seen that there is none: the deployment will
   not store its key any more. *)
FindProgress ==
  \A f \in Finds :
    /\ pc[f] # "idle" => \A g \in Deploys : pc[g] \in Ended
    /\ pc[f] \in {"verifierKeys", "getKey"} => Deployed
    /\ pc[f] = "setKey" => KeyLost

(* An update is signed with a key, which was stored then. *)
Signing == {"zkConfig", "prove", "balance", "submit", "watch", "setKey"}
KeyRead ==
  /\ \A f \in Flow : readKey[f] # NoKey => signingKey # NoKey
  /\ \A f \in Replacers : pc[f] \in Signing \/ status[f] # "none" => readKey[f] # NoKey

(* A sampled key leaves its flow with its transaction, for the ledger, and with
   setSigningKey, for the store: until then no one else can sign with it. *)
KeyHidden ==
  /\ \A f \in Finds : authority # NewKey[f]
  /\ \A f \in Owners :
       /\ status[f] # "SucceedEntirely" => authority # NewKey[f]
       /\ status[f] # "SucceedEntirely" \/ Unstored(f) =>
            signingKey # NewKey[f] /\ \A g \in Flow : readKey[g] # NewKey[f]

(* Who makes a key the authority, and who can replace it. *)
AuthorityOwned ==
  /\ Deployed => \E f \in Deploys : status[f] = "SucceedEntirely"
  /\ \A f \in Owners : Unstored(f) => authority = NewKey[f]
  /\ Deployed => \A g \in Flow : readKey[g] = authority => signingKey = authority

(* The authority key is stored, or its flow is to blame. *)
AuthorityKept ==
  Deployed /\ signingKey # authority =>
    \E f \in Owners : /\ NewKey[f] = authority
                      /\ status[f] = "SucceedEntirely"
                      /\ pc[f] \in Storing \cup {"failed", "lost"}

KeysInv ==
  /\ OwnerProgress
  /\ FindProgress
  /\ KeyRead
  /\ KeyHidden
  /\ AuthorityOwned
  /\ AuthorityKept

(* Nothing is deployed, and no key is anywhere. *)
LEMMA KeysInvInit == ContractInit => KeysInv
<1>. USE ClientAssumption
     DEF ContractInit, Undeployed, MaintReadsInit, Deployed, Storing, Ended, Unstored
<1>1. ContractInit => OwnerProgress /\ FindProgress
  BY DEF OwnerProgress, FindProgress, Owners, Deploys, Finds, Replacers
<1>2. ContractInit => KeyRead /\ KeyHidden /\ AuthorityOwned /\ AuthorityKept
  BY DEF KeyRead, KeyHidden, AuthorityOwned, AuthorityKept, Owners, Deploys, Finds, Replacers,
         Signing
<1>. QED
  BY <1>1, <1>2 DEF KeysInv

(* A flow has one kind. *)
LEMMA KindsDiffer ==
  /\ \A f \in Finds : f \notin Owners /\ f \notin Calls
  /\ \A f \in Calls : f \notin Owners
  /\ \A f \in Deploys : f \notin Replacers
BY DEF Owners, Deploys, Finds, Replacers, Calls

(* Every flow has a key that it would install or store. *)
LEMMA SomeKey == \A f \in Flow : NewKey[f] \in Key /\ NewKey[f] # NoKey
BY ClientAssumption

(* A flow that moves on without a key becoming the authority, signing or being
   stored: what an owner then is at follows from its transaction, and only a
   find that has seen the key lost stores one. *)
LEMMA MoveKeepsKeys ==
  ASSUME KeysManaged, ContractBase, KeysInv, NEW f \in Flow, NEW to \in Stages,
         pc[f] \notin Ended, pc' = [pc EXCEPT ![f] = to],
         UNCHANGED <<authority, status, signingKey, readKey>>,
         f \in Owners => /\ to # "done"
                         /\ to \notin Storing \cup Ended => status[f] = "none"
                         /\ status[f] = "pending" => to \in {"watch", "failed", "lost"}
                         /\ to \in {"setPrivate", "setKey"} => status[f] = "SucceedEntirely"
                         /\ status[f] = "SucceedEntirely" /\ to \in Storing => pc[f] \in Storing,
         f \in Finds => /\ pc[f] = "idle" => \A g \in Deploys : pc[g] \in Ended
                        /\ to \in {"verifierKeys", "getKey"} => Deployed
                        /\ to = "setKey" => KeyLost,
         f \in Replacers /\ to \in Signing => readKey[f] # NoKey
  PROVE  KeysInv'
<1>. USE KindsDiffer DEF ContractBase, ContractTypeOK, MaintTypeOK, ClientTypeOK
<1>1. \A g \in Flow \ {f} : pc'[g] = pc[g]
  OBVIOUS
<1>2. pc'[f] = to
  OBVIOUS
<1>3. OwnerProgress'
  BY <1>1, <1>2 DEF KeysInv, OwnerProgress, Owners, Deploys, Replacers
<1>4. \A g \in Owners : Unstored(g)' => Unstored(g)
  BY <1>1, <1>2 DEF Unstored, Owners, Deploys, Replacers
<1>5. KeyLost => KeyLost'
  BY <1>4 DEF KeyLost, Deployed, Unstored, Storing, Owners
<1>6. \A g \in Deploys : pc[g] \in Ended => pc'[g] \in Ended
  BY <1>1 DEF Deploys
<1>7. FindProgress'
  <2>. SUFFICES ASSUME NEW g \in Finds
                PROVE  /\ pc'[g] # "idle" => \A d \in Deploys : pc'[d] \in Ended
                       /\ pc'[g] \in {"verifierKeys", "getKey"} => Deployed'
                       /\ pc'[g] = "setKey" => KeyLost'
    BY DEF FindProgress, Finds, Deploys
  <2>1. Deployed' = Deployed
    BY DEF Deployed
  <2>2. CASE g = f
    BY <1>2, <1>5, <1>6, <2>1, <2>2 DEF KeysInv, FindProgress
  <2>3. CASE g # f
    BY <1>1, <1>5, <1>6, <2>1, <2>3 DEF KeysInv, FindProgress, Finds
  <2>. QED
    BY <2>2, <2>3
<1>8. KeyRead'
  BY <1>1, <1>2 DEF KeysInv, KeyRead, Replacers
<1>9. KeyHidden' /\ AuthorityOwned'
  BY <1>4 DEF KeysInv, KeyHidden, AuthorityOwned, Deployed, Owners, Deploys, Replacers, Finds
<1>10. AuthorityKept'
  <2>. SUFFICES ASSUME Deployed, signingKey # authority
                PROVE  \E g \in Owners : /\ NewKey[g] = authority
                                         /\ status[g] = "SucceedEntirely"
                                         /\ pc'[g] \in Storing \cup {"failed", "lost"}
    BY DEF AuthorityKept, Deployed, Owners, Deploys, Replacers
  <2>1. PICK g \in Owners : /\ NewKey[g] = authority
                            /\ status[g] = "SucceedEntirely"
                            /\ pc[g] \in Storing \cup {"failed", "lost"}
    BY DEF KeysInv, AuthorityKept
  <2>2. g = f => to \in Storing \cup {"failed", "lost"}
    BY <2>1 DEF Ended
  <2>. QED
    BY <1>1, <1>2, <2>1, <2>2 DEF Owners, Deploys, Replacers
<1>. QED
  BY <1>3, <1>7, <1>8, <1>9, <1>10 DEF KeysInv

(* submitTx submits once, and its transaction is pending from then on. *)
LEMMA SubmitKeepsKeys ==
  ASSUME ContractBase, KeysInv, NEW f \in Flow, f \notin Finds, SubmitTx(f), UNCHANGED readKey
  PROVE  KeysInv'
<1>. USE DEF ContractBase, ContractTypeOK, MaintTypeOK, ClientTypeOK
<1>1. PICK to \in {"watch", "failed"} : pc[f] = "submit" /\ pc' = [pc EXCEPT ![f] = to]
  BY DEF SubmitTx, Goto
<1>2. status' = [status EXCEPT ![f] = "pending"] /\ UNCHANGED <<authority, signingKey>>
  BY DEF SubmitTx, ledger, store
<1>3. f \in Owners => status[f] = "none"
  BY <1>1 DEF KeysInv, OwnerProgress, Storing, Ended
<1>4. \A g \in Flow \ {f} : pc'[g] = pc[g] /\ status'[g] = status[g]
  BY <1>1, <1>2
<1>5. \A g \in Owners : Unstored(g)' <=> Unstored(g)
  BY <1>1, <1>2, <1>3, <1>4 DEF Unstored, Storing, Owners, Deploys, Replacers
<1>6. OwnerProgress'
  BY <1>1, <1>2, <1>4 DEF KeysInv, OwnerProgress, Storing, Ended, Owners, Deploys, Replacers
<1>7. FindProgress'
  <2>1. KeyLost' = KeyLost /\ Deployed' = Deployed
    BY <1>2, <1>5 DEF KeyLost, Deployed, Unstored, Storing, Owners
  <2>2. \A g \in Deploys : pc[g] \in Ended => pc'[g] \in Ended
    BY <1>1, <1>4 DEF Deploys, Ended
  <2>. QED
    BY <1>4, <2>1, <2>2 DEF KeysInv, FindProgress, Finds
<1>8. KeyRead'
  BY <1>1, <1>2, <1>4 DEF KeysInv, KeyRead, Signing, Replacers
<1>9. KeyHidden'
  BY <1>2, <1>3, <1>4, <1>5 DEF KeysInv, KeyHidden, Owners, Deploys, Replacers, Finds
<1>10. AuthorityOwned'
  BY <1>2, <1>3, <1>4, <1>5 DEF KeysInv, AuthorityOwned, Deployed, Owners, Deploys
<1>11. AuthorityKept'
  BY <1>2, <1>3, <1>4 DEF KeysInv, AuthorityKept, Deployed, Owners, Deploys, Replacers
<1>. QED
  BY <1>6, <1>7, <1>8, <1>9, <1>10, <1>11 DEF KeysInv

(* A transaction that leaves the authority as it is: one that failed, or that
   is of no flow that would replace it. *)
LEMMA OutcomeKeepsKeys ==
  ASSUME ContractBase, KeysInv, NEW f \in Flow, NEW s \in Finalized, status[f] = "pending",
         status' = [status EXCEPT ![f] = s], UNCHANGED <<authority, signingKey, pc, readKey>>,
         f \in Owners => s # "SucceedEntirely"
  PROVE  KeysInv'
<1>. USE DEF ContractBase, ContractTypeOK, MaintTypeOK, ClientTypeOK
<1>1. /\ \A g \in Flow \ {f} : status'[g] = status[g]
      /\ status'[f] = s /\ s \notin {"none", "pending"}
  BY DEF Finalized
<1>2. \A g \in Owners : status'[g] = "SucceedEntirely" <=> status[g] = "SucceedEntirely"
  BY <1>1 DEF Owners, Deploys, Replacers
<1>3. \A g \in Owners : Unstored(g)' <=> Unstored(g)
  BY <1>2 DEF Unstored
<1>4. OwnerProgress'
  BY <1>1, <1>2 DEF KeysInv, OwnerProgress, Owners, Deploys, Replacers, Storing, Ended
<1>5. FindProgress'
  <2>1. KeyLost' = KeyLost /\ Deployed' = Deployed
    BY <1>3 DEF KeyLost, Deployed, Unstored, Storing, Owners
  <2>. QED
    BY <2>1 DEF KeysInv, FindProgress
<1>6. KeyRead'
  BY <1>1 DEF KeysInv, KeyRead, Replacers
<1>7. KeyHidden' /\ AuthorityOwned' /\ AuthorityKept'
  BY <1>2, <1>3 DEF KeysInv, KeyHidden, AuthorityOwned, AuthorityKept, Deployed, Owners
<1>. QED
  BY <1>4, <1>5, <1>6, <1>7 DEF KeysInv

(* A new authority is installed by the deployment, or over one whose key the
   client has stored: its flow has yet to store it. *)
LEMMA InstallKeepsKeys ==
  ASSUME KeysManaged, ContractBase, KeysInv, NEW f \in Owners, status[f] = "pending",
         status' = [status EXCEPT ![f] = "SucceedEntirely"], authority' = NewKey[f],
         UNCHANGED <<signingKey, pc, readKey>>,
         f \in Replacers => readKey[f] = authority
  PROVE  KeysInv'
<1>. USE ClientAssumption, KindsDiffer DEF ContractBase, ContractTypeOK, MaintTypeOK, ClientTypeOK
<1>1. f \in Flow /\ NewKey[f] \in Key /\ Owners \subseteq Flow /\ Finds \subseteq Flow
  BY DEF Owners, Deploys, Replacers, Finds
<1>2. /\ \A g \in Flow \ {f} : status'[g] = status[g]
      /\ status'[f] = "SucceedEntirely"
  BY <1>1
<1>3. pc[f] \in {"watch", "failed", "lost"}
  BY DEF KeysInv, OwnerProgress
<1>4. Deployed => f \in Replacers /\ signingKey = authority
  <2>1. Deployed => f \notin Deploys
    BY DeployFindAssumption DEF KeysInv, AuthorityOwned
  <2>. QED
    BY <1>1, <2>1 DEF KeysInv, AuthorityOwned, Owners
<1>5. f \in Replacers => Deployed
  BY DEF KeysInv, KeyRead, Deployed
<1>6. ~KeyLost
  BY <1>4 DEF KeyLost
<1>7. \A g \in Owners \cup Finds : g # f => NewKey[g] # NewKey[f]
  BY DEF KeysManaged
<1>8. /\ signingKey # NewKey[f] /\ \A g \in Flow : readKey[g] # NewKey[f]
  BY DEF KeysInv, KeyHidden
<1>9. \A g \in Owners : g # f => ~Unstored(g)
  <2>. SUFFICES ASSUME NEW g \in Owners, g # f, Unstored(g)
                PROVE  FALSE
    OBVIOUS
  <2>1. authority = NewKey[g] /\ readKey[f] # NewKey[g]
    BY <1>1 DEF KeysInv, AuthorityOwned, KeyHidden
  <2>2. NewKey[g] # NoKey
    BY <1>1, SomeKey
  <2>3. Deployed
    BY <2>1, <2>2 DEF Deployed
  <2>. QED
    BY <1>4, <2>1, <2>3
<1>10. \A g \in Owners : Unstored(g)' => g = f
  BY <1>1, <1>2, <1>9 DEF Unstored
<1>11. OwnerProgress'
  BY <1>1, <1>2, <1>3 DEF KeysInv, OwnerProgress, Storing
<1>12. FindProgress'
  BY <1>1, <1>6 DEF KeysInv, FindProgress, Deployed
<1>13. KeyRead'
  BY <1>2, <1>5 DEF KeysInv, KeyRead, Replacers, Deployed
<1>14. KeyHidden'
  BY <1>1, <1>2, <1>7, <1>8, <1>10 DEF KeysInv, KeyHidden
<1>15. AuthorityOwned'
  <2>1. \E g \in Deploys : status'[g] = "SucceedEntirely"
    <3>1. CASE f \in Deploys
      BY <1>2, <3>1
    <3>2. CASE f \in Replacers
      <4>1. PICK g \in Deploys : status[g] = "SucceedEntirely"
        BY <1>5, <3>2 DEF KeysInv, AuthorityOwned
      <4>. QED
        BY <1>2, <4>1 DEF Deploys
    <3>. QED
      BY <3>1, <3>2 DEF Owners
  <2>. QED
    BY <1>8, <1>10, <2>1 DEF AuthorityOwned
<1>16. AuthorityKept'
  BY <1>2, <1>3 DEF AuthorityKept, Storing
<1>. QED
  BY <1>11, <1>12, <1>13, <1>14, <1>15, <1>16 DEF KeysInv

(* A maintenance flow reads the stored key, if there is one, and signs. *)
LEMMA SignKeepsKeys ==
  ASSUME ContractBase, KeysInv, NEW f \in Flow, GetSigningKey(f)
  PROVE  KeysInv'
<1>. USE KindsDiffer DEF ContractBase, ContractTypeOK, MaintTypeOK, ClientTypeOK
<1>1. /\ f \notin Deploys \cup Finds /\ pc[f] = "getKey"
      /\ pc' = [pc EXCEPT ![f] = IF signingKey # NoKey THEN "prove" ELSE "failed"]
      /\ readKey' = [readKey EXCEPT ![f] = signingKey]
      /\ UNCHANGED <<authority, status, signingKey>>
  BY DEF GetSigningKey, Goto, Maintainers, ledger, store, Deploys, Finds
<1>2. f \in Owners => status[f] = "none"
  BY <1>1 DEF KeysInv, OwnerProgress, Storing, Ended
<1>3. \A g \in Flow \ {f} : pc'[g] = pc[g] /\ readKey'[g] = readKey[g]
  BY <1>1
<1>4. pc'[f] \in {"prove", "failed"} /\ readKey'[f] = signingKey
  BY <1>1
<1>5. \A g \in Owners : Unstored(g)' <=> Unstored(g)
  BY <1>1, <1>3, <1>4 DEF Unstored, Storing, Owners, Deploys, Replacers
<1>6. OwnerProgress'
  BY <1>1, <1>2, <1>3, <1>4 DEF KeysInv, OwnerProgress, Owners, Deploys, Replacers
<1>7. FindProgress'
  <2>1. KeyLost' = KeyLost /\ Deployed' = Deployed
    BY <1>1, <1>5 DEF KeyLost, Deployed, Unstored, Storing, Owners
  <2>2. \A g \in Deploys \cup Finds : pc'[g] = pc[g]
    BY <1>1, <1>3 DEF Deploys, Finds
  <2>. QED
    BY <2>1, <2>2 DEF KeysInv, FindProgress
<1>8. KeyRead'
  <2>1. \A g \in Flow : readKey'[g] # NoKey => signingKey # NoKey
    BY <1>3, <1>4 DEF KeysInv, KeyRead
  <2>2. f \in Replacers /\ (pc'[f] \in Signing \/ status[f] # "none") => readKey'[f] # NoKey
    BY <1>1, <1>2, <1>4 DEF Signing, Owners
  <2>. QED
    BY <1>1, <1>3, <2>1, <2>2 DEF KeysInv, KeyRead, Replacers
<1>9. KeyHidden'
  BY <1>1, <1>3, <1>4, <1>5 DEF KeysInv, KeyHidden, Owners, Deploys, Replacers
<1>10. AuthorityOwned'
  BY <1>1, <1>3, <1>4, <1>5 DEF KeysInv, AuthorityOwned, Deployed
<1>11. AuthorityKept'
  BY <1>1, <1>3, <1>4 DEF KeysInv, AuthorityKept, Deployed, Storing, Owners, Deploys, Replacers
<1>. QED
  BY <1>6, <1>7, <1>8, <1>9, <1>10, <1>11 DEF KeysInv

(* The flow whose key is the authority stores it. *)
LEMMA StoreKeepsKeys ==
  ASSUME KeysManaged, ContractBase, KeysInv, NEW f \in Owners, NEW to \in {"done", "failed"},
         pc[f] = "setKey", pc' = [pc EXCEPT ![f] = to], signingKey' = NewKey[f],
         UNCHANGED <<authority, status, readKey>>
  PROVE  KeysInv'
<1>. USE KindsDiffer DEF ContractBase, ContractTypeOK, MaintTypeOK, ClientTypeOK
<1>1. f \in Flow /\ Owners \subseteq Flow
  BY DEF Owners, Deploys, Replacers
<1>2. Unstored(f) /\ status[f] = "SucceedEntirely"
  BY DEF KeysInv, OwnerProgress, Unstored, Storing
<1>3. authority = NewKey[f] /\ signingKey' = authority
  BY <1>2 DEF KeysInv, AuthorityOwned
<1>4. Deployed /\ Deployed' /\ authority # NoKey
  BY <1>1, <1>3, SomeKey DEF Deployed
<1>5. ~KeyLost
  BY <1>2, <1>3 DEF KeyLost, Unstored, Storing, Owners
<1>6. \A g \in Flow \ {f} : pc'[g] = pc[g]
  OBVIOUS
<1>7. pc'[f] = to
  BY <1>1
<1>8. \A g \in Owners : g # f => ~Unstored(g)
  BY <1>3 DEF KeysInv, AuthorityOwned, KeysManaged
<1>9. \A g \in Owners : ~Unstored(g)'
  BY <1>1, <1>6, <1>7, <1>8 DEF Unstored, Storing
<1>10. OwnerProgress'
  BY <1>1, <1>2, <1>6, <1>7 DEF KeysInv, OwnerProgress, Ended
<1>11. FindProgress'
  <2>1. \A g \in Finds : pc[g] # "setKey" /\ pc'[g] = pc[g]
    BY <1>5, <1>6 DEF KeysInv, FindProgress, Finds
  <2>2. \A g \in Deploys : pc[g] \in Ended => pc'[g] \in Ended
    BY <1>6, <1>7 DEF Ended, Deploys
  <2>. QED
    BY <1>4, <2>1, <2>2 DEF KeysInv, FindProgress
<1>12. KeyRead'
  BY <1>1, <1>3, <1>4, <1>6, <1>7 DEF KeysInv, KeyRead, Signing, Replacers
<1>13. KeyHidden'
  BY <1>3, <1>9 DEF KeysInv, KeyHidden
<1>14. AuthorityOwned'
  BY <1>3, <1>4, <1>9 DEF KeysInv, AuthorityOwned
<1>15. AuthorityKept'
  BY <1>3 DEF AuthorityKept
<1>. QED
  BY <1>10, <1>11, <1>12, <1>13, <1>14, <1>15 DEF KeysInv

(* A find that stores the key it sampled does so because the authority key was
   lost, and cannot replace that one. *)
LEMMA FindStoreKeepsKeys ==
  ASSUME KeysManaged, ContractBase, KeysInv, NEW f \in Finds,
         NEW to \in {"done", "failed", "setPrivate", "getPrivate"},
         pc[f] = "setKey", pc' = [pc EXCEPT ![f] = to], signingKey' = NewKey[f],
         UNCHANGED <<authority, status, readKey>>
  PROVE  KeysInv'
<1>. USE KindsDiffer DEF ContractBase, ContractTypeOK, MaintTypeOK, ClientTypeOK
<1>1. f \in Flow /\ Owners \subseteq Flow
  BY DEF Owners, Deploys, Replacers, Finds
<1>2. KeyLost /\ authority # NewKey[f]
  BY DEF KeysInv, FindProgress, KeyHidden
<1>3. Deployed /\ Deployed' /\ signingKey # authority /\ signingKey' # authority
  BY <1>2 DEF KeyLost, Deployed
<1>4. /\ pc'[f] = to
      /\ \A g \in Flow \ {f} : pc'[g] = pc[g]
  BY <1>1
<1>5. \A g \in Owners : pc'[g] = pc[g] /\ Unstored(g)' = Unstored(g)
  BY <1>1, <1>4 DEF Unstored
<1>6. KeyLost'
  BY <1>2, <1>3, <1>5 DEF KeyLost, Owners
<1>7. OwnerProgress'
  BY <1>5 DEF KeysInv, OwnerProgress
<1>8. FindProgress'
  <2>1. \A g \in Deploys : pc'[g] = pc[g]
    BY <1>5 DEF Owners
  <2>2. \A g \in Finds : pc'[g] # "idle" => pc[g] # "idle"
    BY <1>4 DEF Finds
  <2>. QED
    BY <1>3, <1>6, <2>1, <2>2 DEF KeysInv, FindProgress
<1>9. KeyRead'
  <2>1. NewKey[f] # NoKey
    BY <1>1, SomeKey
  <2>. QED
    BY <1>5, <2>1 DEF KeysInv, KeyRead, Owners
<1>10. KeyHidden'
  <2>1. \A g \in Owners : NewKey[g] # NewKey[f]
    BY DEF KeysManaged
  <2>. QED
    BY <1>5, <2>1 DEF KeysInv, KeyHidden
<1>11. AuthorityOwned'
  BY <1>3, <1>5 DEF KeysInv, AuthorityOwned
<1>12. AuthorityKept'
  BY <1>3, <1>5 DEF KeysInv, AuthorityKept
<1>. QED
  BY <1>7, <1>8, <1>9, <1>10, <1>11, <1>12 DEF KeysInv

(* Flows that reject or die with the process give no key away. *)
LEMMA EndKeepsKeys ==
  ASSUME ContractBase, KeysInv, NEW S \in SUBSET Flow, NEW end \in {"failed", "lost"},
         pc' = [g \in Flow |-> IF g \in S THEN end ELSE pc[g]],
         \A g \in S : pc[g] \notin Ended \cup {"idle"},
         UNCHANGED <<authority, status, signingKey, readKey>>
  PROVE  KeysInv'
<1>. USE KindsDiffer DEF ContractBase, ContractTypeOK, MaintTypeOK, ClientTypeOK
<1>1. \A g \in Flow : \/ pc'[g] = pc[g]
                      \/ pc'[g] = end /\ pc[g] \notin Ended \cup {"idle"}
  OBVIOUS
<1>2. Owners \subseteq Flow /\ Finds \subseteq Flow /\ Deploys \subseteq Owners
  BY DEF Owners, Deploys, Replacers, Finds
<1>3. \A g \in Owners : Unstored(g)' => Unstored(g)
  BY <1>1, <1>2 DEF Unstored, Storing
<1>4. OwnerProgress'
  BY <1>1, <1>2 DEF KeysInv, OwnerProgress, Ended
<1>5. FindProgress'
  <2>1. KeyLost => KeyLost'
    BY <1>3 DEF KeyLost, Deployed, Unstored, Storing, Owners
  <2>2. \A g \in Deploys : pc[g] \in Ended => pc'[g] \in Ended
    BY <1>1, <1>2
  <2>. QED
    BY <1>1, <1>2, <2>1, <2>2 DEF KeysInv, FindProgress, Deployed
<1>6. KeyRead'
  <2>1. \A g \in Replacers : pc'[g] \in Signing => pc[g] \in Signing
    BY <1>1, <1>2 DEF Signing, Owners
  <2>. QED
    BY <2>1 DEF KeysInv, KeyRead
<1>7. KeyHidden' /\ AuthorityOwned'
  BY <1>3 DEF KeysInv, KeyHidden, AuthorityOwned, Deployed
<1>8. AuthorityKept'
  BY <1>1, <1>2 DEF KeysInv, AuthorityKept, Deployed
<1>. QED
  BY <1>4, <1>5, <1>6, <1>7, <1>8 DEF KeysInv

(* submitTx never has an owner hold a key that its transaction made the
   authority: its steps before the submission have no transaction. *)
LEMMA PipelineKeepsKeys ==
  ASSUME KeysManaged, ContractBase, KeysInv, NEW f \in Flow, f \notin Finds, Pipeline(f),
         UNCHANGED readKey
  PROVE  KeysInv'
<1>1. CASE SubmitTx(f)
  BY <1>1, SubmitKeepsKeys
<1>2. CASE GetZkConfig(f) \/ ProveTx(f) \/ BalanceTx(f)
  <2>1. PICK to \in {"prove", "balance", "submit"} :
          /\ pc[f] \in {"zkConfig", "prove", "balance"} /\ pc' = [pc EXCEPT ![f] = to]
    BY <1>2 DEF GetZkConfig, ProveTx, BalanceTx, Goto
  <2>2. UNCHANGED <<authority, status, signingKey, readKey>>
    BY <1>2 DEF GetZkConfig, ProveTx, BalanceTx, ledger, store
  <2>3. f \in Owners => status[f] = "none"
    BY <2>1 DEF KeysInv, OwnerProgress, Storing, Ended
  <2>4. f \in Replacers => readKey[f] # NoKey
    BY <2>1 DEF KeysInv, KeyRead, Signing
  <2>5. to \in Stages /\ pc[f] \notin Ended /\ to \notin Storing \cup Ended
    BY <2>1 DEF Stages, Ended, Storing
  <2>. QED
    BY <2>1, <2>2, <2>3, <2>4, <2>5, MoveKeepsKeys
<1>. QED
  BY <1>1, <1>2 DEF Pipeline

(* Maintenance. *)
LEMMA MaintKeepsKeys ==
  ASSUME KeysManaged, ContractBase, KeysInv, NEW f \in Flow, MaintOperation(f)
  PROVE  KeysInv'
<1>0. f \notin Finds /\ f \notin Deploys /\ Kind[f] \in Maintainers
  BY OperationKind DEF Finds, Deploys, Maintainers
<1>1. CASE QueryContractState(f)
  <2>1. PICK to \in {"getKey", "failed"} : pc[f] = "idle" /\ pc' = [pc EXCEPT ![f] = to]
    BY <1>1 DEF QueryContractState, Start, Goto
  <2>2. UNCHANGED <<authority, status, signingKey, readKey>>
    BY <1>1 DEF QueryContractState, ledger, store
  <2>3. f \in Owners => status[f] = "none"
    BY <2>1 DEF KeysInv, OwnerProgress, Storing, Ended
  <2>4. to \in Stages /\ pc[f] \notin Ended /\ to \notin Storing \cup Signing
    BY <2>1 DEF Stages, Ended, Storing, Signing
  <2>. QED
    BY <1>0, <2>1, <2>2, <2>3, <2>4, MoveKeepsKeys
<1>2. CASE GetSigningKey(f)
  BY <1>2, SignKeepsKeys
<1>3. CASE Pipeline(f) /\ UNCHANGED maintReads
  BY <1>0, <1>3, PipelineKeepsKeys DEF maintReads
<1>4. CASE SettleUpdate(f)
  <2>1. PICK to \in {"setKey", "done", "failed"} :
          /\ pc[f] = "watch" /\ pc' = [pc EXCEPT ![f] = to]
          /\ status[f] \in Finalized
          /\ to = "done" => f \notin Owners
          /\ to = "setKey" => status[f] = "SucceedEntirely"
    BY <1>0, <1>4 DEF SettleUpdate, Settle, Goto, Owners, Replacers
  <2>2. UNCHANGED <<authority, status, signingKey, readKey>>
    BY <1>4 DEF SettleUpdate, Settle, ledger, store, maintReads
  <2>3. f \in Replacers => readKey[f] # NoKey
    BY <2>1 DEF KeysInv, KeyRead, Signing
  <2>4. to \in Stages /\ pc[f] \notin Ended /\ pc[f] \in Storing /\ status[f] # "pending"
    BY <2>1 DEF Stages, Ended, Storing, Finalized
  <2>5. to \in Storing \cup Ended
    BY DEF Ended, Storing
  <2>. QED
    BY <1>0, <2>1, <2>2, <2>3, <2>4, <2>5, MoveKeepsKeys
<1>5. CASE SetSigningKey(f)
  <2>1. PICK to \in {"done", "failed"} : pc[f] = "setKey" /\ pc' = [pc EXCEPT ![f] = to]
    BY <1>5 DEF SetSigningKey, Goto
  <2>2. /\ f \in Owners /\ signingKey' = NewKey[f]
        /\ UNCHANGED <<authority, status, readKey>>
    BY <1>5 DEF SetSigningKey, ledger, maintReads, Owners, Replacers
  <2>. QED
    BY <2>1, <2>2, StoreKeepsKeys
<1>6. CASE FinalizeUpdate(f)
  <2>0. UNCHANGED <<signingKey, pc, readKey>>
    BY <1>6 DEF FinalizeUpdate, store, maintReads
  <2>1. CASE Finalize(f, "SucceedEntirely") /\ Accepted(f) /\ ApplyUpdate(f)
    <3>1. CASE f \in Replacers
      <4>1. f \in Owners /\ authority' = NewKey[f] /\ readKey[f] = authority
        BY <2>1, <3>1 DEF ApplyUpdate, Accepted, Owners, Replacers
      <4>. QED
        BY <2>0, <2>1, <4>1, InstallKeepsKeys DEF Finalize
    <3>2. CASE f \notin Replacers
      <4>1. f \notin Owners /\ UNCHANGED authority
        BY <1>0, <2>1, <3>2 DEF ApplyUpdate, ledger, Owners, Replacers
      <4>. QED
        BY <2>0, <2>1, <4>1, OutcomeKeepsKeys DEF Finalize, Finalized
    <3>. QED
      BY <3>1, <3>2
  <2>2. CASE \E s \in {"FailEntirely", "FailFallible"} : Finalize(f, s) /\ UNCHANGED ledger
    BY <2>0, <2>2, OutcomeKeepsKeys DEF Finalize, ledger, Finalized
  <2>. QED
    BY <1>6, <2>1, <2>2 DEF FinalizeUpdate
<1>. QED
  BY <1>1, <1>2, <1>3, <1>4, <1>5, <1>6 DEF MaintOperation, MaintStep

(* Calls do not touch keys. *)
LEMMA CallKeepsKeys ==
  ASSUME KeysManaged, ContractBase, KeysInv, NEW f \in Flow, CallOperation(f)
  PROVE  KeysInv'
<1>0. f \in Calls /\ f \notin Finds /\ f \notin Owners /\ f \notin Replacers
  BY OperationKind, KindsDiffer DEF Owners
<1>1. CASE Pipeline(f) /\ UNCHANGED readKey
  BY <1>0, <1>1, PipelineKeepsKeys
<1>2. CASE FinalizeCall(f)
  BY <1>0, <1>2, OutcomeKeepsKeys
     DEF CallOperation, FinalizeCall, Finalize, ledger, store, maintReads
<1>3. CASE QueryPublicStates(f) \/ GetPrivateState(f) \/ SettleCall(f) \/ SetPrivateState(f)
  <2>1. PICK to \in Stages : pc[f] \notin Ended /\ pc' = [pc EXCEPT ![f] = to]
    BY <1>3 DEF QueryPublicStates, Start, GetPrivateState, SettleCall, Settle, SetPrivateState,
       Goto, Stages, Ended
  <2>2. UNCHANGED <<authority, status, signingKey, readKey>>
    BY <1>3 DEF CallOperation, QueryPublicStates, GetPrivateState, SettleCall, Settle,
       SetPrivateState, ledger, store, maintReads
  <2>. QED
    BY <1>0, <2>1, <2>2, MoveKeepsKeys
<1>. QED
  BY <1>1, <1>2, <1>3 DEF CallOperation, CallStep, maintReads

(* A find that meets no key after the deployment ended: it was lost. *)
LEMMA NoKeyIsLost ==
  ASSUME ContractBase, KeysInv, NEW f \in Finds, pc[f] = "getKey", signingKey = NoKey
  PROVE  KeyLost
<1>1. Deployed /\ \A g \in Deploys : pc[g] \in Ended
  BY DEF KeysInv, FindProgress
<1>2. \A g \in Replacers : status[g] = "none"
  BY DEF KeysInv, KeyRead, Replacers
<1>. QED
  BY <1>1, <1>2 DEF KeyLost, Deployed, Ended, Replacers

(* Deployments and finds. *)
LEMMA JoinKeepsKeys ==
  ASSUME KeysManaged, ContractBase, KeysInv, NEW f \in Flow, JoinOperation(f)
  PROVE  KeysInv'
<1>0. /\ f \in Deploys \cup Finds /\ f \notin Replacers
      /\ f \in Deploys => f \in Owners /\ f \notin Finds
      /\ f \in Finds => f \notin Owners
      /\ UNCHANGED readKey
  BY OperationKind, KindsDiffer DEF Owners, JoinOperation, maintReads
<1>1. CASE f \in Deploys /\ Pipeline(f)
  BY <1>0, <1>1, PipelineKeepsKeys
<1>2. CASE FinalizeDeploy(f)
  <2>0. UNCHANGED <<signingKey, pc, readKey>> /\ f \in Owners
    BY <1>0, <1>2 DEF FinalizeDeploy, store
  <2>1. CASE Finalize(f, "SucceedEntirely") /\ authority' = NewKey[f]
    BY <1>0, <2>0, <2>1, InstallKeepsKeys DEF Finalize
  <2>2. CASE \E s \in Finalized \ {"SucceedEntirely"} : Finalize(f, s) /\ UNCHANGED ledger
    BY <2>0, <2>2, OutcomeKeepsKeys DEF Finalize, ledger
  <2>. QED
    BY <1>2, <2>1, <2>2 DEF FinalizeDeploy
<1>3. CASE SetInitialKey(f)
  <2>1. CASE f \in Deploys
    <3>0. AfterKey(f) = "done"
      BY <1>0, <2>1 DEF AfterKey
    <3>1. PICK to \in {"done", "failed"} : pc[f] = "setKey" /\ pc' = [pc EXCEPT ![f] = to]
      BY <1>3, <3>0 DEF SetInitialKey, Goto
    <3>2. signingKey' = NewKey[f] /\ UNCHANGED <<authority, status, readKey>>
      BY <1>0, <1>3 DEF SetInitialKey, ledger
    <3>. QED
      BY <1>0, <2>1, <3>1, <3>2, StoreKeepsKeys
  <2>2. CASE f \in Finds
    <3>1. AfterKey(f) \in {"done", "failed", "setPrivate", "getPrivate"}
      BY DEF AfterKey
    <3>2. PICK to \in {"done", "failed", "setPrivate", "getPrivate"} :
            pc[f] = "setKey" /\ pc' = [pc EXCEPT ![f] = to]
      BY <1>3, <3>1 DEF SetInitialKey, Goto
    <3>3. signingKey' = NewKey[f] /\ UNCHANGED <<authority, status, readKey>>
      BY <1>0, <1>3 DEF SetInitialKey, ledger
    <3>. QED
      BY <2>2, <3>2, <3>3, FindStoreKeepsKeys
  <2>. QED
    BY <1>0, <2>1, <2>2
<1>4. ASSUME NEW to \in Stages, pc[f] \notin Ended, pc' = [pc EXCEPT ![f] = to], f \in Finds,
             UNCHANGED <<authority, status, signingKey>>,
             pc[f] = "idle" => \A g \in Deploys : pc[g] \in Ended,
             to \in {"verifierKeys", "getKey"} => Deployed,
             to = "setKey" => KeyLost
      PROVE  KeysInv'
  BY <1>0, <1>4, MoveKeepsKeys
<1>5. CASE f \in Finds /\ (StartFind(f) \/ WatchForDeployTxData(f) \/ QueryDeployContractState(f))
  <2>1. PICK to \in {"watchDeploy", "queryDeploy", "queryContract", "failed"} :
          pc[f] \in {"idle", "watchDeploy", "queryDeploy"} /\ pc' = [pc EXCEPT ![f] = to]
    BY <1>5 DEF StartFind, Start, WatchForDeployTxData, QueryDeployContractState, Goto
  <2>2. pc[f] = "idle" => \A g \in Deploys : pc[g] \in Ended
    BY <1>5 DEF KeysManaged, StartFind, Start, WatchForDeployTxData, QueryDeployContractState, Goto
  <2>3. UNCHANGED <<authority, status, signingKey>>
    BY <1>5 DEF StartFind, WatchForDeployTxData, QueryDeployContractState, ledger, store
  <2>4. to \in Stages /\ pc[f] \notin Ended
    BY <2>1 DEF Stages, Ended
  <2>. QED
    BY <1>4, <1>5, <2>1, <2>2, <2>3, <2>4
<1>6. CASE f \in Finds /\ (QueryCurrentState(f) \/ GetVerifierKeys(f))
  <2>1. PICK to \in {"verifierKeys", "failed", "getKey"} :
          /\ pc[f] \in {"queryContract", "verifierKeys"} /\ pc' = [pc EXCEPT ![f] = to]
          /\ pc[f] = "queryContract" => Deployed \/ to = "failed"
    BY <1>0, <1>6 DEF QueryCurrentState, GetVerifierKeys, Goto, KeysManaged
  <2>2. pc[f] = "verifierKeys" => Deployed
    BY <1>6 DEF KeysInv, FindProgress
  <2>3. UNCHANGED <<authority, status, signingKey>>
    BY <1>6 DEF QueryCurrentState, GetVerifierKeys, ledger, store
  <2>4. to \in Stages /\ pc[f] \notin Ended /\ pc[f] # "idle" /\ to # "setKey"
    BY <2>1 DEF Stages, Ended
  <2>. QED
    BY <1>4, <1>6, <2>1, <2>2, <2>3, <2>4
<1>7. CASE f \in Finds /\ (\/ GetExistingKey(f) \/ GetExistingPrivateState(f)
                           \/ SetInitialPrivateState(f))
  <2>0. AfterKey(f) \in {"done", "failed", "setPrivate", "getPrivate"}
    BY DEF AfterKey
  <2>1. PICK to \in {"done", "failed", "setPrivate", "getPrivate", "setKey"} :
          /\ pc[f] \in {"getKey", "getPrivate", "setPrivate"} /\ pc' = [pc EXCEPT ![f] = to]
          /\ to = "setKey" => pc[f] = "getKey" /\ signingKey = NoKey
    BY <1>0, <1>7, <2>0 DEF GetExistingKey, GetExistingPrivateState, SetInitialPrivateState, Goto
  <2>2. to = "setKey" => KeyLost
    BY <1>7, <2>1, NoKeyIsLost
  <2>3. UNCHANGED <<authority, status, signingKey>>
    BY <1>7 DEF GetExistingKey, GetExistingPrivateState, SetInitialPrivateState, ledger, store
  <2>4. to \in Stages /\ pc[f] \notin Ended /\ pc[f] # "idle" /\ to \notin {"verifierKeys", "getKey"}
    BY <2>1 DEF Stages, Ended
  <2>. QED
    BY <1>4, <1>7, <2>1, <2>2, <2>3, <2>4
<1>8. CASE f \in Deploys /\ (StartDeploy(f) \/ GetVerifierKeys(f))
  <2>1. PICK to \in {"verifierKeys", "prove"} :
          pc[f] \in {"idle", "verifierKeys"} /\ pc' = [pc EXCEPT ![f] = to]
    BY <1>0, <1>8 DEF StartDeploy, Start, GetVerifierKeys, Goto
  <2>2. UNCHANGED <<authority, status, signingKey>>
    BY <1>8 DEF StartDeploy, GetVerifierKeys, ledger, store
  <2>3. status[f] = "none"
    BY <1>0, <1>8, <2>1 DEF KeysInv, OwnerProgress, Storing, Ended
  <2>4. to \in Stages /\ pc[f] \notin Ended /\ to \notin Storing \cup Ended
    BY <2>1 DEF Stages, Ended, Storing
  <2>. QED
    BY <1>0, <1>8, <2>1, <2>2, <2>3, <2>4, MoveKeepsKeys DEF Storing, Ended
<1>9. CASE f \in Deploys /\ (SettleDeploy(f) \/ SetInitialPrivateState(f))
  <2>1. PICK to \in {"setPrivate", "setKey", "failed"} :
          /\ pc[f] \in {"watch", "setPrivate"} /\ pc' = [pc EXCEPT ![f] = to]
          /\ pc[f] = "watch" => status[f] \in Finalized
          /\ pc[f] = "watch" /\ to # "failed" => status[f] = "SucceedEntirely"
    BY <1>0, <1>9 DEF SettleDeploy, Settle, SetInitialPrivateState, Goto
  <2>2. UNCHANGED <<authority, status, signingKey>>
    BY <1>9 DEF SettleDeploy, Settle, SetInitialPrivateState, ledger, store
  <2>3. pc[f] = "setPrivate" => status[f] = "SucceedEntirely"
    BY <1>0, <1>9 DEF KeysInv, OwnerProgress
  <2>4. to \in Stages /\ pc[f] \notin Ended /\ pc[f] \in Storing /\ to \in Storing \cup Ended
    BY <2>1 DEF Stages, Ended, Storing
  <2>5. status[f] # "pending" \/ to = "failed"
    BY <2>1, <2>3 DEF Finalized
  <2>. QED
    BY <1>0, <1>9, <2>1, <2>2, <2>3, <2>4, <2>5, MoveKeepsKeys
<1>. QED
  BY <1>0, <1>1, <1>2, <1>3, <1>5, <1>6, <1>7, <1>8, <1>9 DEF JoinOperation, JoinStep,
     StartFind, StartDeploy, WatchForDeployTxData, QueryDeployContractState, QueryCurrentState,
     GetExistingKey, GetExistingPrivateState, SettleDeploy, SetInitialPrivateState, GetVerifierKeys

(* The keys are in order after every step of a client that manages them. *)
LEMMA KeysInvNext ==
  ASSUME KeysManaged, ContractBase, KeysInv, [ContractNext]_contractVars
  PROVE  KeysInv'
<1>1. ASSUME NEW f \in Flow, Reject(f), UNCHANGED readKey
      PROVE  KeysInv'
  <2>1. pc' = [g \in Flow |-> IF g \in {f} THEN "failed" ELSE pc[g]]
    BY <1>1 DEF Reject, ContractBase, ContractTypeOK, MaintTypeOK, ClientTypeOK
  <2>. QED
    BY <1>1, <2>1, EndKeepsKeys DEF Reject, Active, ledger, store
<1>2. ASSUME Crash, UNCHANGED readKey
      PROVE  KeysInv'
  <2>. DEFINE running == {g \in Flow : Active(g)}
  <2>1. pc' = [g \in Flow |-> IF g \in running THEN "lost" ELSE pc[g]]
    BY <1>2 DEF Crash
  <2>2. \A g \in running : pc[g] \notin Ended \cup {"idle"}
    BY DEF Active
  <2>. HIDE DEF running
  <2>. QED
    BY <1>2, <2>1, <2>2, EndKeepsKeys DEF Crash, ledger, store, running
<1>3. CASE UNCHANGED contractVars
  <2>1. \A g \in Flow : Unstored(g)' = Unstored(g)
    BY <1>3 DEF contractVars, Unstored
  <2>. QED
    BY <1>3, <2>1 DEF contractVars, ledger, store, maintReads, KeysInv, OwnerProgress,
       FindProgress, KeyRead, KeyHidden, AuthorityOwned, AuthorityKept, KeyLost, Deployed,
       Owners, Deploys, Replacers
<1>. QED
  BY <1>1, <1>2, <1>3, MaintKeepsKeys, CallKeepsKeys, JoinKeepsKeys DEF ContractNext, maintReads

(* The application does not change its mind. *)
LEMMA ManagedForever ==
  /\ KeysManaged => []KeysManaged
  /\ Sequential /\ WithInitial = {} => [](Sequential /\ WithInitial = {})
<1>1. KeysManaged => KeysManaged'
  BY DEF KeysManaged
<1>2. Sequential /\ WithInitial = {} => (Sequential /\ WithInitial = {})'
  BY DEF Sequential
<1>. QED
  BY <1>1, <1>2, PTL

(* Every variable of the client keeps its type, whatever overlaps. *)
LEMMA ContractBaseInit == ContractInit => ContractBase
<1>. USE ClientAssumption, CallAssumption DEF ContractInit, Undeployed
<1>1. ContractInit => ClientTypeOK
  BY DEF ClientTypeOK, Stages, Ended, PrivateState
<1>2. ContractInit => MaintTypeOK /\ JoinTypeOK
  BY <1>1 DEF MaintTypeOK, MaintReadsInit, JoinTypeOK, JoinReadsInit
<1>3. ContractInit => CallTypeOK
  BY <1>1 DEF CallTypeOK, CallReadsInit
<1>4. ContractInit => CallProgress /\ RanOnState
  BY DEF CallProgress, RanOnState, Running, Calls
<1>. QED
  BY <1>2, <1>3, <1>4 DEF ContractBase, ContractTypeOK, CallBase

(* What a step does to the authority and to the stored key, and that a flow
   that ended is at its end. *)
LEMMA KeySteps ==
  ASSUME ContractBase, [ContractNext]_contractVars
  PROVE  /\ \A g \in Flow : pc[g] \in Ended => pc'[g] = pc[g]
         /\ \/ UNCHANGED authority
            \/ \E f \in Owners : /\ status[f] = "pending"
                                 /\ f \in Replacers => readKey[f] = authority
         /\ \/ UNCHANGED signingKey
            \/ \E f \in Owners \cup Finds : pc[f] = "setKey" /\ signingKey' = NewKey[f]
<1>. USE DEF Goto, Start, Settle, Finalize, Owners, Replacers, ledger, store
<1>1. ASSUME NEW f \in Flow, MaintOperation(f)
      PROVE  /\ pc[f] \in Ended => pc'[f] = pc[f]
             /\ UNCHANGED authority \/ (f \in Replacers /\ status[f] = "pending" /\ readKey[f] = authority)
             /\ UNCHANGED signingKey \/ (f \in Replacers /\ pc[f] = "setKey" /\ signingKey' = NewKey[f])
  BY <1>1 DEF MaintOperation, MaintStep, QueryContractState, GetSigningKey, Pipeline, GetZkConfig,
     ProveTx, BalanceTx, SubmitTx, SettleUpdate, SetSigningKey, FinalizeUpdate, Accepted,
     ApplyUpdate, Ended
<1>2. ASSUME NEW f \in Flow, CallOperation(f)
      PROVE  (pc[f] \in Ended => pc'[f] = pc[f]) /\ UNCHANGED <<authority, signingKey>>
  BY <1>2 DEF CallOperation, CallStep, QueryPublicStates, GetPrivateState, Pipeline, GetZkConfig,
     ProveTx, BalanceTx, SubmitTx, SettleCall, SetPrivateState, FinalizeCall, Ended
<1>3. ASSUME NEW f \in Flow, JoinOperation(f)
      PROVE  /\ pc[f] \in Ended => pc'[f] = pc[f]
             /\ UNCHANGED authority \/ (f \in Deploys /\ status[f] = "pending")
             /\ \/ UNCHANGED signingKey
                \/ f \in Deploys \cup Finds /\ pc[f] = "setKey" /\ signingKey' = NewKey[f]
  <2>1. pc[f] \in Ended => pc'[f] = pc[f]
    BY <1>3 DEF JoinOperation, JoinStep, StartFind, StartDeploy, WatchForDeployTxData,
       QueryDeployContractState, QueryCurrentState, GetVerifierKeys, GetExistingKey,
       SetInitialKey, SetInitialPrivateState, GetExistingPrivateState, Pipeline, GetZkConfig,
       ProveTx, BalanceTx, SubmitTx, SettleDeploy, FinalizeDeploy, Ended
  <2>2. /\ UNCHANGED authority \/ (f \in Deploys /\ status[f] = "pending")
        /\ \/ UNCHANGED signingKey
           \/ f \in Deploys \cup Finds /\ pc[f] = "setKey" /\ signingKey' = NewKey[f]
    BY <1>3 DEF JoinOperation, JoinStep, StartFind, StartDeploy, WatchForDeployTxData,
       QueryDeployContractState, QueryCurrentState, GetVerifierKeys, GetExistingKey,
       SetInitialKey, SetInitialPrivateState, GetExistingPrivateState, Pipeline, GetZkConfig,
       ProveTx, BalanceTx, SubmitTx, SettleDeploy, FinalizeDeploy
  <2>. QED
    BY <2>1, <2>2
<1>4. ASSUME NEW f \in Flow, Reject(f)
      PROVE  (\A g \in Flow : pc[g] \in Ended => pc'[g] = pc[g]) /\ UNCHANGED <<authority, signingKey>>
  BY <1>4 DEF Reject, Active, ContractBase, ContractTypeOK, MaintTypeOK, ClientTypeOK
<1>5. ASSUME Crash
      PROVE  (\A g \in Flow : pc[g] \in Ended => pc'[g] = pc[g]) /\ UNCHANGED <<authority, signingKey>>
  BY <1>5 DEF Crash, Active
<1>6. ASSUME NEW f \in Flow, MaintOperation(f) \/ CallOperation(f) \/ JoinOperation(f),
             pc[f] \in Ended => pc'[f] = pc[f]
      PROVE  \A g \in Flow : pc[g] \in Ended => pc'[g] = pc[g]
  BY <1>6, OtherFlowsWait
<1>7. CASE UNCHANGED contractVars
  BY <1>7 DEF contractVars
<1>8. CASE \E f \in Flow : MaintOperation(f) \/ CallOperation(f) \/ JoinOperation(f)
  <2>0. PICK f \in Flow : MaintOperation(f) \/ CallOperation(f) \/ JoinOperation(f)
    BY <1>8
  <2>. HIDE DEF Goto, Start, Settle, Finalize, Replacers, ledger, store
  <2>1. \A g \in Flow : pc[g] \in Ended => pc'[g] = pc[g]
    BY <1>1, <1>2, <1>3, <1>6, <2>0
  <2>2. UNCHANGED authority \/ (f \in Owners /\ status[f] = "pending"
                                /\ (f \in Replacers => readKey[f] = authority))
    BY <1>1, <1>2, <1>3, <2>0, KindsDiffer
  <2>3. UNCHANGED signingKey \/ (f \in Owners \cup Finds /\ pc[f] = "setKey" /\ signingKey' = NewKey[f])
    BY <1>1, <1>2, <1>3, <2>0
  <2>. QED
    BY <2>1, <2>2, <2>3
<1>. QED
  BY <1>4, <1>5, <1>7, <1>8 DEF ContractNext

(* The authority can only be replaced with its key, which only its flow had. *)
LEMMA KeyLostNext ==
  ASSUME KeysManaged, ContractBase, KeysInv, [ContractNext]_contractVars, KeyLost
  PROVE  KeyLost' /\ UNCHANGED authority
<1>0. Deployed /\ signingKey # authority
  BY DEF KeyLost
<1>1. UNCHANGED authority
  <2>. SUFFICES ASSUME NEW f \in Owners, status[f] = "pending",
                       f \in Replacers => readKey[f] = authority
                PROVE  FALSE
    BY KeySteps
  <2>1. CASE f \in Deploys
    BY <1>0, <2>1, DeployFindAssumption DEF KeysInv, AuthorityOwned
  <2>2. CASE f \in Replacers
    BY <1>0, <2>2 DEF KeysInv, AuthorityOwned, Replacers
  <2>. QED
    BY <2>1, <2>2 DEF Owners
<1>2. \A f \in Owners : ~(NewKey[f] = authority /\ Unstored(f))
  BY DEF KeyLost, Unstored, Storing, Owners
<1>3. signingKey' # authority
  <2>. SUFFICES ASSUME NEW f \in Owners \cup Finds, pc[f] = "setKey", NewKey[f] = authority
                PROVE  FALSE
    BY <1>0, KeySteps
  <2>1. CASE f \in Owners
    BY <1>2, <2>1 DEF KeysInv, OwnerProgress, Unstored, Storing
  <2>2. CASE f \in Finds
    BY <2>2 DEF KeysInv, KeyHidden
  <2>. QED
    BY <2>1, <2>2
<1>4. \A f \in Owners : ~(NewKey[f] = authority /\ Unstored(f)')
  <2>. SUFFICES ASSUME NEW f \in Owners, NewKey[f] = authority
                PROVE  ~Unstored(f)'
    OBVIOUS
  <2>1. status[f] = "SucceedEntirely" /\ pc[f] \notin Storing
    BY <1>2 DEF KeysInv, KeyHidden, Unstored
  <2>2. pc[f] \in Ended
    BY <2>1 DEF KeysInv, OwnerProgress
  <2>3. pc'[f] = pc[f]
    BY <2>2, KeySteps DEF Owners, Deploys, Replacers
  <2>. QED
    BY <2>1, <2>3 DEF Unstored
<1>. QED
  BY <1>0, <1>1, <1>3, <1>4 DEF KeyLost, Deployed, Unstored, Storing, Owners

(* A client whose keys are sampled, and which looks for the contract it deploys
   only when that is done, keeps them in order. *)
LEMMA KeysInvariant == KeysManaged /\ ContractSpec => [](KeysManaged /\ ContractBase /\ KeysInv)
<1>1. ContractBase /\ KeysInv /\ KeysManaged /\ [ContractNext]_contractVars
        => ContractBase' /\ KeysInv'
  BY ContractBaseNext, KeysInvNext
<1>. QED
  BY <1>1, ContractBaseInit, KeysInvInit, ManagedForever, PTL DEF ContractSpec

(* A key whose write was missed is lost for good: no later operation, no find
   after a restart and no late transaction gives this client an authority it
   can sign for again. *)
THEOREM LostKeysStayLost == KeysManaged /\ ContractSpec => KeyLostForGood
<1>1. KeysManaged /\ ContractBase /\ KeysInv /\ [ContractNext]_contractVars
        => [KeyLost => KeyLost' /\ UNCHANGED authority]_contractVars
  BY KeyLostNext
<1>. QED
  BY <1>1, KeysInvariant, PTL DEF ContractSpec, KeyLostForGood

-----------------------------------------------------------------------------
(* Private states *)

(* Each call is awaited before the next, and no find is given a private state
   to store over what the calls made. *)
StateManaged == Sequential /\ WithInitial = {}

(* A deployment stores the initial private state before a call can read one. *)
InitialStateFirst ==
  \A f \in Deploys : status[f] # "SucceedEntirely" \/ pc[f] \in {"watch", "setPrivate"} =>
    privateState = NoState /\ \A g \in Flow : readPrivate[g] = NoState

(* A deployment that names a private state has stored it before it resolves;
   a find stores none. *)
InitialStateStored ==
  /\ \A f \in Deploys : f \in WithId /\ pc[f] \in {"setKey", "done"} => privateState # NoState
  /\ \A f \in Finds : pc[f] # "setPrivate"

StatesInv == SequentialInv /\ InitialStateFirst /\ InitialStateStored

(* Nothing is stored or read. *)
LEMMA StatesInvInit == ContractInit => StatesInv
<1>. USE DEF ContractInit, Undeployed, CallReadsInit
<1>1. ContractInit => FinalizedInv
  BY ContractBaseInit
     DEF ContractBase, FinalizedInv, PrivateStateFinalized, ReadFinalized
<1>2. ContractInit => Awaited /\ StoredStateful /\ StoredReflected /\ UpdatesKept /\ ReadMatches
  BY DEF Awaited, StoredStateful, StoredReflected, UpdatesKept, ReadMatches, Running, Stateful, Calls
<1>3. ContractInit => InitialStateFirst /\ InitialStateStored
  BY DEF InitialStateFirst, InitialStateStored, Deploys, Finds
<1>. QED
  BY <1>1, <1>2, <1>3 DEF StatesInv, SequentialInv

(* What another operation than a call does to what the calls rely on: it stores
   no private state, unless it is the deployment and there is none. *)
LEMMA OthersKeepCalls ==
  ASSUME ContractBase, ContractBase', SequentialInv, NEW f \in Flow \ Calls,
         \A g \in Flow \ {f} : pc'[g] = pc[g] /\ status'[g] = status[g],
         pc'[f] # pc[f] => pc[f] \notin Ended /\ pc'[f] # "idle",
         pc[f] = "idle" /\ pc'[f] # "idle" => \A g \in After[f] : pc[g] \in Ended,
         UNCHANGED callReads,
         UNCHANGED privateState \/ (privateState = NoState /\ privateState' = {})
  PROVE  SequentialInv'
<1>. USE ClientAssumption DEF ContractBase, ContractTypeOK, CallTypeOK, ClientTypeOK, callReads
<1>1. \A g \in Calls : g \in Flow /\ pc'[g] = pc[g] /\ status'[g] = status[g]
  BY DEF Calls
<1>2. SucceededCalls' = SucceededCalls
  BY <1>1 DEF SucceededCalls
<1>3. FinalizedInv'
  BY <1>2 DEF SequentialInv, FinalizedInv, PrivateStateFinalized, ReadFinalized
<1>4. Awaited'
  <2>. SUFFICES ASSUME NEW g \in Flow, pc'[g] # "idle", NEW h \in After[g]
                PROVE  pc'[h] \in Ended
    BY DEF Awaited
  <2>1. h \in Flow
    OBVIOUS
  <2>2. pc[h] \in Ended
    BY DEF SequentialInv, Awaited
  <2>. QED
    BY <2>1, <2>2
<1>5. StoredStateful' /\ StoredReflected' /\ UpdatesKept'
  BY <1>1 DEF SequentialInv, StoredStateful, StoredReflected, UpdatesKept, Stateful
<1>6. ReadMatches'
  BY <1>1 DEF SequentialInv, ReadMatches, Stateful
<1>. QED
  BY <1>3, <1>4, <1>5, <1>6 DEF SequentialInv

(* Maintenance stores no private state. *)
LEMMA MaintKeepsStates ==
  ASSUME ContractBase, ContractBase', StatesInv, NEW f \in Flow, MaintOperation(f)
  PROVE  StatesInv'
<1>. USE DEF Goto, Start, Settle, Finalize, ledger, store
<1>0. f \notin Calls /\ f \notin Finds /\ f \notin Deploys
  BY OperationKind DEF Finds, Deploys, Maintainers, Calls
<1>1. /\ pc'[f] # pc[f] => pc[f] \notin Ended /\ pc'[f] # "idle"
      /\ pc[f] = "idle" /\ pc'[f] # "idle" => \A g \in After[f] : pc[g] \in Ended
      /\ UNCHANGED <<privateState, callReads>>
  BY DEF MaintOperation, MaintStep, QueryContractState, GetSigningKey, Pipeline, GetZkConfig,
     ProveTx, BalanceTx, SubmitTx, SettleUpdate, SetSigningKey, FinalizeUpdate, Ended,
     ContractBase, ContractTypeOK, MaintTypeOK, ClientTypeOK
<1>2. \A g \in Flow \ {f} : pc'[g] = pc[g] /\ status'[g] = status[g]
  BY OtherFlowsWait
<1>3. SequentialInv'
  BY <1>0, <1>1, <1>2, OthersKeepCalls DEF StatesInv
<1>4. InitialStateFirst' /\ InitialStateStored'
  BY <1>0, <1>1, <1>2
     DEF StatesInv, InitialStateFirst, InitialStateStored, Deploys, Finds, callReads
<1>. QED
  BY <1>3, <1>4 DEF StatesInv

(* A call reads and stores a private state only if there was one. *)
LEMMA CallKeepsStates ==
  ASSUME Sequential, ContractBase, ContractBase', StatesInv, NEW f \in Flow, CallOperation(f)
  PROVE  StatesInv'
<1>1. SequentialInv'
  BY SequentialInvNext DEF StatesInv, CallOperation, CallNext
<1>2. \A g \in Deploys \cup Finds : pc'[g] = pc[g] /\ status'[g] = status[g]
  BY OtherFlowsWait, OperationKind DEF Calls, Deploys, Finds
<1>3. (privateState = NoState /\ \A g \in Flow : readPrivate[g] = NoState) =>
      privateState' = NoState /\ \A g \in Flow : readPrivate'[g] = NoState
  <2>1. CASE GetPrivateState(f)
    BY <2>1 DEF GetPrivateState, store
  <2>2. CASE SetPrivateState(f)
    BY <2>2 DEF SetPrivateState, Goto, ContractBase, CallBase, RanOnState, Running
  <2>3. CASE UNCHANGED <<privateState, readPrivate>>
    BY <2>3
  <2>. QED
    BY <2>1, <2>2, <2>3 DEF CallOperation, CallStep, QueryPublicStates, Pipeline, GetZkConfig,
       ProveTx, BalanceTx, SubmitTx, SettleCall, Settle, FinalizeCall, callReads, store
<1>4. privateState # NoState => privateState' # NoState
  <2>1. CASE SetPrivateState(f)
    <3>1. readPrivate[f] \cup {f} \in SUBSET Flow
      BY <2>1 DEF SetPrivateState, Goto, ContractBase, ContractTypeOK, CallTypeOK, PrivateState,
         CallBase, RanOnState, Running
    <3>. QED
      BY <2>1, <3>1, ClientAssumption DEF SetPrivateState, NextPrivateState
  <2>2. CASE UNCHANGED privateState
    BY <2>2
  <2>. QED
    BY <2>1, <2>2 DEF CallOperation, CallStep, QueryPublicStates, GetPrivateState, Pipeline,
       GetZkConfig, ProveTx, BalanceTx, SubmitTx, SettleCall, Settle, FinalizeCall, store
<1>5. InitialStateFirst' /\ InitialStateStored'
  BY <1>2, <1>3, <1>4 DEF StatesInv, InitialStateFirst, InitialStateStored, Deploys, Finds
<1>. QED
  BY <1>1, <1>5 DEF StatesInv

(* A flow that rejects or dies stores nothing. *)
LEMMA EndKeepsStates ==
  ASSUME Sequential, ContractBase, ContractBase', StatesInv, (\E f \in Flow : Reject(f)) \/ Crash,
         UNCHANGED callReads
  PROVE  StatesInv'
<1>1. SequentialInv'
  BY SequentialInvNext DEF StatesInv, CallNext
<1>2. UNCHANGED <<status, privateState, readPrivate>>
  BY DEF Reject, Crash, store, callReads
<1>3. \A g \in Flow : pc'[g] \in {"failed", "lost"} \/ pc'[g] = pc[g]
  BY DEF Reject, Crash, ContractBase, ContractTypeOK, MaintTypeOK, ClientTypeOK
<1>4. InitialStateFirst' /\ InitialStateStored'
  BY <1>2, <1>3 DEF StatesInv, InitialStateFirst, InitialStateStored, Deploys, Finds
<1>. QED
  BY <1>1, <1>4 DEF StatesInv

(* A deployment stores the initial private state, and stores it first. *)
LEMMA JoinKeepsStates ==
  ASSUME WithInitial = {}, ContractBase, ContractBase', OwnerProgress, StatesInv,
         NEW f \in Flow, JoinOperation(f)
  PROVE  StatesInv'
<1>. USE DEF ledger, store
<1>0. /\ f \notin Calls /\ f \in Deploys \cup Finds
      /\ f \in Deploys => f \in Owners /\ f \notin Finds
  BY OperationKind, KindsDiffer DEF Finds, Deploys, Calls, Owners
<1>1. /\ pc'[f] # pc[f] => pc[f] \notin Ended /\ pc'[f] # "idle"
      /\ pc[f] = "idle" /\ pc'[f] # "idle" => \A g \in After[f] : pc[g] \in Ended
      /\ UNCHANGED callReads
      /\ f \in Finds => pc'[f] # "setPrivate" /\ UNCHANGED privateState
  <2>0. AfterKey(f) \in {"done", "failed", "getPrivate"}
    BY DEF AfterKey
  <2>. USE <1>0, <2>0 DEF Goto, Start, Ended, ContractBase, ContractTypeOK, MaintTypeOK,
         ClientTypeOK, JoinOperation
  <2>1. CASE StartFind(f) \/ StartDeploy(f) \/ WatchForDeployTxData(f) \/ QueryDeployContractState(f)
    BY <2>1 DEF StartFind, StartDeploy, WatchForDeployTxData, QueryDeployContractState
  <2>2. CASE QueryCurrentState(f) \/ GetVerifierKeys(f) \/ GetExistingKey(f) \/ SetInitialKey(f)
    BY <2>2 DEF QueryCurrentState, GetVerifierKeys, GetExistingKey, SetInitialKey
  <2>3. CASE SetInitialPrivateState(f) \/ GetExistingPrivateState(f)
    BY <2>3 DEF SetInitialPrivateState, GetExistingPrivateState, StatesInv, InitialStateStored
  <2>4. CASE f \in Deploys /\ (Pipeline(f) \/ SettleDeploy(f))
    BY <2>4 DEF Pipeline, GetZkConfig, ProveTx, BalanceTx, SubmitTx, SettleDeploy, Settle
  <2>5. CASE FinalizeDeploy(f)
    BY <2>5 DEF FinalizeDeploy, StatesInv, InitialStateStored
  <2>. QED
    BY <2>1, <2>2, <2>3, <2>4, <2>5 DEF JoinStep, SettleDeploy
<1>2. \A g \in Flow \ {f} : pc'[g] = pc[g] /\ status'[g] = status[g]
  BY OtherFlowsWait
<1>3. UNCHANGED privateState \/ (/\ SetInitialPrivateState(f) /\ f \in Deploys
                                /\ privateState = NoState /\ privateState' = {})
  <2>1. CASE SetInitialPrivateState(f)
    <3>1. f \in Deploys /\ pc[f] = "setPrivate" /\ privateState' = {}
      BY <1>0, <2>1 DEF SetInitialPrivateState, Goto, StatesInv, InitialStateStored
    <3>. QED
      BY <2>1, <3>1 DEF StatesInv, InitialStateFirst
  <2>2. CASE UNCHANGED privateState
    BY <2>2
  <2>. QED
    BY <2>1, <2>2 DEF JoinOperation, JoinStep, StartFind, StartDeploy, WatchForDeployTxData,
       QueryDeployContractState, QueryCurrentState, GetVerifierKeys, GetExistingKey,
       SetInitialKey, GetExistingPrivateState, Pipeline, GetZkConfig, ProveTx, BalanceTx,
       SubmitTx, SettleDeploy, Settle, FinalizeDeploy
<1>4. SequentialInv'
  BY <1>0, <1>1, <1>2, <1>3, OthersKeepCalls DEF StatesInv
<1>5. CASE f \in Finds
  BY <1>0, <1>1, <1>2, <1>4, <1>5
     DEF StatesInv, InitialStateFirst, InitialStateStored, Deploys, Finds, callReads
<1>6. CASE f \in Deploys
  <2>1. \A g \in Finds : pc'[g] = pc[g]
    BY <1>0, <1>2, <1>6 DEF Finds
  <2>2. \A g \in Deploys : g = f
    BY <1>6, DeployFindAssumption
  <2>3. status'[f] # "SucceedEntirely" \/ pc'[f] \in {"watch", "setPrivate"} =>
          /\ status[f] # "SucceedEntirely" \/ pc[f] \in {"watch", "setPrivate"}
          /\ ~SetInitialPrivateState(f)
    <3>1. ASSUME SetInitialPrivateState(f)
          PROVE  status'[f] = "SucceedEntirely" /\ pc'[f] \in {"setKey", "failed"}
      BY <1>0, <1>6, <3>1 DEF SetInitialPrivateState, Goto, OwnerProgress, ContractBase,
         ContractTypeOK, MaintTypeOK, ClientTypeOK
    <3>2. ASSUME status[f] = "SucceedEntirely", pc[f] \notin {"watch", "setPrivate"}
          PROVE  status'[f] = "SucceedEntirely" /\ pc'[f] \notin {"watch", "setPrivate"}
      <4>1. pc[f] \in {"setKey"} \cup Ended
        BY <1>0, <1>6, <3>2 DEF OwnerProgress, Storing
      <4>2. f \notin Finds
        BY <1>0, <1>6
      <4>3. \/ UNCHANGED <<pc, status>>
            \/ SetInitialKey(f)
        BY <3>2, <4>1, <4>2 DEF JoinOperation, JoinStep, StartFind, StartDeploy, Start, Goto,
           WatchForDeployTxData, QueryDeployContractState, QueryCurrentState, GetVerifierKeys,
           GetExistingKey, SetInitialPrivateState, GetExistingPrivateState, Pipeline,
           GetZkConfig, ProveTx, BalanceTx, SubmitTx, SettleDeploy, Settle, FinalizeDeploy,
           Finalize, Ended
      <4>4. CASE SetInitialKey(f)
        <5>1. AfterKey(f) = "done"
          BY <1>6, <4>2 DEF AfterKey
        <5>. QED
          BY <3>2, <4>4, <5>1 DEF SetInitialKey, Goto, ContractBase, ContractTypeOK, MaintTypeOK,
             ClientTypeOK
      <4>. QED
        BY <3>2, <4>3, <4>4
    <3>. QED
      BY <3>1, <3>2
  <2>4. f \in WithId /\ pc'[f] \in {"setKey", "done"} =>
          pc[f] \in {"setKey", "done"} \/ SetInitialPrivateState(f)
    <3>1. CASE SettleDeploy(f)
      BY <3>1 DEF SettleDeploy, Settle, Goto, ContractBase, ContractTypeOK, MaintTypeOK, ClientTypeOK
    <3>2. CASE SetInitialKey(f)
      BY <3>2 DEF SetInitialKey, Goto
    <3>3. CASE UNCHANGED pc
      BY <3>3
    <3>4. CASE StartDeploy(f) \/ GetVerifierKeys(f) \/ Pipeline(f)
      BY <1>0, <1>6, <3>4 DEF StartDeploy, Start, GetVerifierKeys, Pipeline, GetZkConfig, ProveTx,
         BalanceTx, SubmitTx, Goto, ContractBase, ContractTypeOK, MaintTypeOK, ClientTypeOK
    <3>. QED
      BY <1>0, <1>6, <3>1, <3>2, <3>3, <3>4 DEF JoinOperation, JoinStep, StartFind,
         WatchForDeployTxData, QueryDeployContractState, QueryCurrentState, GetExistingKey,
         GetExistingPrivateState, FinalizeDeploy
  <2>5. {} # NoState
    BY ClientAssumption
  <2>6. InitialStateFirst'
    BY <1>1, <1>3, <2>2, <2>3 DEF StatesInv, InitialStateFirst, callReads, Deploys
  <2>7. InitialStateStored'
    BY <1>3, <2>1, <2>2, <2>4, <2>5
       DEF StatesInv, InitialStateStored, SetInitialPrivateState, Deploys, Finds
  <2>. QED
    BY <1>4, <2>6, <2>7 DEF StatesInv
<1>. QED
  BY <1>0, <1>5, <1>6

(* The client that manages keys and states keeps both in order. *)
LEMMA ContractInvariant ==
  KeysManaged /\ StateManaged /\ ContractSpec => [](ContractBase /\ KeysInv /\ StatesInv)
<1>1. KeysManaged /\ ContractBase /\ KeysInv /\ StateManaged /\ StatesInv
        /\ [ContractNext]_contractVars => StatesInv'
  <2>. SUFFICES ASSUME KeysManaged, ContractBase, KeysInv, StateManaged, StatesInv,
                       [ContractNext]_contractVars
                PROVE  StatesInv'
    OBVIOUS
  <2>0. ContractBase'
    BY ContractBaseNext
  <2>1. ASSUME NEW f \in Flow, JoinOperation(f)
        PROVE  StatesInv'
    BY <2>0, <2>1, JoinKeepsStates DEF KeysInv, StateManaged
  <2>2. CASE UNCHANGED contractVars
    <3>1. SequentialInv'
      BY <2>2, SequentialInvNext DEF StatesInv, StateManaged, contractVars, callVars
    <3>2. InitialStateFirst' /\ InitialStateStored'
      BY <2>2 DEF contractVars, store, callReads, StatesInv, InitialStateFirst, InitialStateStored
    <3>. QED
      BY <3>1, <3>2 DEF StatesInv
  <2>. QED
    BY <2>0, <2>1, <2>2, MaintKeepsStates, CallKeepsStates, EndKeepsStates
       DEF ContractNext, StateManaged
<1>2. StateManaged => []StateManaged
  BY ManagedForever DEF StateManaged
<1>. QED
  BY <1>1, <1>2, KeysInvariant, StatesInvInit, PTL DEF ContractSpec

(* Once all is quiet, and each transaction that took effect was reported to
   its caller, the stored key is the authority and the stored private state is
   exactly what the applied calls made, for any overlap of any operations. *)
THEOREM StoreInSync == KeysManaged /\ StateManaged /\ ContractSpec => []InSync
<1>1. KeysInv /\ StatesInv => InSync
  <2>. SUFFICES ASSUME KeysInv, StatesInv, Deployed, AllReported
                PROVE  /\ signingKey = authority
                       /\ Deploys \subseteq WithId => privateState = SucceededCalls \cap Stateful
    BY DEF InSync
  <2>1. signingKey = authority
    BY DEF KeysInv, AuthorityKept, AllReported, Storing, Owners, Deploys, Replacers
  <2>2. ASSUME Deploys \subseteq WithId
        PROVE  privateState = SucceededCalls \cap Stateful
    <3>1. PICK f \in Deploys : pc[f] = "done"
      BY DEF KeysInv, AuthorityOwned, AllReported, Deploys
    <3>2. privateState # NoState
      BY <2>2, <3>1 DEF StatesInv, InitialStateStored
    <3>3. privateState \subseteq SucceededCalls \cap Stateful
      BY <3>2 DEF StatesInv, SequentialInv, FinalizedInv, PrivateStateFinalized, StoredStateful
    <3>4. SucceededCalls \cap Stateful \subseteq privateState
      BY DEF StatesInv, SequentialInv, UpdatesKept, AllReported, SucceededCalls, Calls
    <3>. QED
      BY <3>3, <3>4
  <2>. QED
    BY <2>1, <2>2
<1>. QED
  BY <1>1, ContractInvariant, PTL

(* While the contract is there, its key is stored unless the flow that made it
   the authority has still to store it, failed or died: also beside calls,
   finds and deployments. *)
THEOREM AuthorityKeyStaysKept == KeysManaged /\ ContractSpec => []AuthorityKept
<1>1. KeysInv => AuthorityKept
  BY DEF KeysInv
<1>. QED
  BY <1>1, KeysInvariant, PTL

(* An application that awaits its calls loses no private state update of a
   resolved one to a deployment, a find or a maintenance of the contract. *)
THEOREM UpdatesKeptBesideOthers == KeysManaged /\ StateManaged /\ ContractSpec => []UpdatesKept
<1>1. StatesInv => UpdatesKept
  BY DEF StatesInv, SequentialInv
<1>. QED
  BY <1>1, ContractInvariant, PTL

(* Nor do the two reads of a call disagree for what the other operations do
   between them. *)
THEOREM SnapshotsAgreeBesideOthers ==
  KeysManaged /\ StateManaged /\ ContractSpec => []SnapshotsAgree
<1>1. StatesInv => SnapshotsAgree
  BY DEF StatesInv, SequentialInv, SnapshotsAgree, ReadMatches, Running, Stateful, Calls,
         FinalizedInv, CallBase, CallTypeOK, ClientTypeOK
<1>. QED
  BY <1>1, ContractInvariant, PTL

-----------------------------------------------------------------------------
(* The life of the contract *)

(* Nothing is stored or called of a contract that is not there. *)
NothingBefore ==
  /\ ~Deployed => signingKey = NoKey
  /\ \A f \in Calls : Active(f) \/ status[f] # "none" => Deployed

(* What a running call has read is stored still, without its own update. *)
ReadCurrent ==
  \A f \in Stateful : pc[f] \in Running => readPrivate[f] = privateState /\ f \notin privateState

LifeInv == NothingBefore /\ ReadCurrent

LEMMA LifeInvInit == ContractInit => LifeInv
BY DEF ContractInit, Undeployed, LifeInv, NothingBefore, ReadCurrent, Deployed, Running, Stateful,
   Calls, Active

(* A contract stays deployed. *)
LEMMA DeployedForever ==
  ASSUME ContractBase, [ContractNext]_contractVars, Deployed
  PROVE  Deployed'
<1>. USE ClientAssumption DEF Deployed, ledger
<1>1. ASSUME NEW f \in Flow, MaintOperation(f)
      PROVE  UNCHANGED authority \/ authority' = NewKey[f]
  BY <1>1 DEF MaintOperation, MaintStep, QueryContractState, GetSigningKey, Pipeline, GetZkConfig,
     ProveTx, BalanceTx, SubmitTx, SettleUpdate, Settle, SetSigningKey, FinalizeUpdate, ApplyUpdate
<1>2. ASSUME NEW f \in Flow, CallOperation(f)
      PROVE  UNCHANGED authority
  BY <1>2 DEF CallOperation, CallStep, QueryPublicStates, GetPrivateState, Pipeline, GetZkConfig,
     ProveTx, BalanceTx, SubmitTx, SettleCall, Settle, SetPrivateState, FinalizeCall
<1>3. ASSUME NEW f \in Flow, JoinOperation(f)
      PROVE  UNCHANGED authority \/ authority' = NewKey[f]
  BY <1>3 DEF JoinOperation, JoinStep, StartFind, StartDeploy, WatchForDeployTxData,
     QueryDeployContractState, QueryCurrentState, GetVerifierKeys, GetExistingKey, SetInitialKey,
     SetInitialPrivateState, GetExistingPrivateState, Pipeline, GetZkConfig, ProveTx, BalanceTx,
     SubmitTx, SettleDeploy, Settle, FinalizeDeploy
<1>4. ASSUME (\E f \in Flow : Reject(f)) \/ Crash \/ UNCHANGED contractVars
      PROVE  UNCHANGED authority
  BY <1>4 DEF Reject, Crash, contractVars
<1>. QED
  BY <1>1, <1>2, <1>3, <1>4, SomeKey DEF ContractNext

(* What is stored before the contract is there would be a key of nobody. *)
LEMMA NothingBeforeNext ==
  ASSUME ContractBase, KeysInv, NothingBefore, [ContractNext]_contractVars
  PROVE  NothingBefore'
<1>1. ~Deployed' => signingKey' = NoKey
  <2>. SUFFICES ASSUME ~Deployed, NEW f \in Owners \cup Finds, pc[f] = "setKey"
                PROVE  FALSE
    BY DeployedForever, KeySteps DEF NothingBefore
  <2>1. CASE f \in Owners
    <3>1. Unstored(f)
      BY <2>1 DEF KeysInv, OwnerProgress, Unstored, Storing
    <3>. QED
      BY <2>1, <3>1, SomeKey DEF KeysInv, AuthorityOwned, Deployed, Owners, Deploys, Replacers
  <2>2. CASE f \in Finds
    BY <2>2 DEF KeysInv, FindProgress, KeyLost
  <2>. QED
    BY <2>1, <2>2
<1>2. ASSUME NEW f \in Calls, Active(f)' \/ status'[f] # "none"
      PROVE  Deployed'
  <2>. SUFFICES Active(f) \/ status[f] # "none" \/ Deployed
    BY DeployedForever DEF NothingBefore
  <2>0. f \in Flow
    BY DEF Calls
  <2>. USE DEF ContractBase, ContractTypeOK, MaintTypeOK, ClientTypeOK, Active
  <2>1. ASSUME NEW g \in Flow, MaintOperation(g) \/ JoinOperation(g)
        PROVE  pc'[f] = pc[f] /\ status'[f] = status[f]
    BY <2>0, <2>1, OtherFlowsWait, OperationKind DEF Calls, Maintainers, Deploys, Finds
  <2>2. ASSUME NEW g \in Flow, CallOperation(g), g # f
        PROVE  pc'[f] = pc[f] /\ status'[f] = status[f]
    BY <2>0, <2>2, OtherFlowsWait
  <2>3. CASE CallOperation(f)
    <3>1. CASE QueryPublicStates(f)
      <4>1. pc' = [pc EXCEPT ![f] = IF ~Callable(f) THEN "failed"
                                     ELSE IF UsesPrivate[f] THEN "getPrivate" ELSE "zkConfig"]
        BY <3>1 DEF QueryPublicStates, Start, Goto
      <4>2. Callable(f) => Deployed
        BY DEF Callable, Deployed
      <4>3. UNCHANGED status
        BY <3>1 DEF QueryPublicStates
      <4>. QED
        BY <1>2, <2>0, <4>1, <4>2, <4>3 DEF Ended
    <3>2. CASE CallStep(f)
      BY <3>2 DEF CallStep, GetPrivateState, Pipeline, GetZkConfig, ProveTx, BalanceTx, SubmitTx,
         SettleCall, Settle, SetPrivateState, Goto, Ended
    <3>3. CASE FinalizeCall(f)
      BY <3>3 DEF FinalizeCall, Finalize
    <3>. QED
      BY <2>3, <3>1, <3>2, <3>3 DEF CallOperation
  <2>4. ASSUME (\E g \in Flow : Reject(g)) \/ Crash
        PROVE  UNCHANGED status /\ (pc'[f] = pc[f] \/ pc'[f] \in Ended)
    BY <2>0, <2>4 DEF Reject, Crash, Ended
  <2>5. CASE UNCHANGED contractVars
    BY <1>2, <2>5 DEF contractVars
  <2>. QED
    BY <1>2, <2>1, <2>2, <2>3, <2>4, <2>5 DEF ContractNext
<1>. QED
  BY <1>1, <1>2 DEF NothingBefore

(* Only a call stores a private state over another one. *)
LEMMA OthersStoreFirst ==
  ASSUME ContractBase, KeysInv, StatesInv, NEW f \in Flow, MaintOperation(f) \/ JoinOperation(f)
  PROVE  \/ UNCHANGED privateState
         \/ /\ SetInitialPrivateState(f) /\ f \in Deploys /\ Unstored(f)
            /\ privateState = NoState /\ privateState' = {}
<1>1. CASE SetInitialPrivateState(f)
  <2>1. f \in Deploys /\ pc[f] = "setPrivate" /\ privateState' = {}
    BY <1>1 DEF SetInitialPrivateState, Goto, StatesInv, InitialStateStored
  <2>2. Unstored(f)
    BY <2>1 DEF KeysInv, OwnerProgress, Owners, Unstored, Storing
  <2>. QED
    BY <1>1, <2>1, <2>2 DEF StatesInv, InitialStateFirst
<1>2. CASE MaintOperation(f)
  BY <1>2 DEF MaintOperation, MaintStep, QueryContractState, GetSigningKey, Pipeline, GetZkConfig,
     ProveTx, BalanceTx, SubmitTx, SettleUpdate, Settle, SetSigningKey, FinalizeUpdate, store
<1>3. CASE JoinOperation(f)
  BY <1>1, <1>3 DEF JoinOperation, JoinStep, StartFind, StartDeploy, WatchForDeployTxData,
     QueryDeployContractState, QueryCurrentState, GetVerifierKeys, GetExistingKey,
     SetInitialKey, GetExistingPrivateState, Pipeline, GetZkConfig, ProveTx, BalanceTx,
     SubmitTx, SettleDeploy, Settle, FinalizeDeploy, store
<1>. QED
  BY <1>2, <1>3

(* Between the await that reads a private state and the one that stores the
   next, nobody else stores one. *)
LEMMA ReadCurrentNext ==
  ASSUME Sequential, ContractBase, ContractBase', KeysInv, StatesInv, ReadCurrent,
         [ContractNext]_contractVars
  PROVE  ReadCurrent'
<1>. SUFFICES ASSUME NEW f \in Stateful, pc'[f] \in Running
              PROVE  readPrivate'[f] = privateState' /\ f \notin privateState'
  BY DEF ReadCurrent, Stateful, Calls
<1>0. f \in Calls /\ f \in Flow /\ UsesPrivate[f]
  BY DEF Stateful, Calls
<1>1. ASSUME pc[f] \in Running, UNCHANGED readPrivate,
             UNCHANGED privateState \/ privateState = NoState
      PROVE  readPrivate'[f] = privateState' /\ f \notin privateState'
  BY <1>0, <1>1 DEF ReadCurrent, ContractBase, CallBase, RanOnState
<1>2. ASSUME NEW g \in Flow, MaintOperation(g) \/ JoinOperation(g)
      PROVE  readPrivate'[f] = privateState' /\ f \notin privateState'
  <2>1. pc'[f] = pc[f]
    BY <1>0, <1>2, OtherFlowsWait, OperationKind DEF Calls, Maintainers, Deploys, Finds
  <2>. QED
    BY <1>1, <1>2, <2>1, OthersStoreFirst DEF MaintOperation, JoinOperation, callReads
<1>3. ASSUME NEW g \in Flow, CallOperation(g)
      PROVE  readPrivate'[f] = privateState' /\ f \notin privateState'
  <2>0. g \in Calls /\ (f # g => pc'[f] = pc[f])
    BY <1>0, <1>3, OtherFlowsWait, OperationKind
  <2>. USE DEF ContractBase, ContractTypeOK, CallTypeOK, MaintTypeOK, ClientTypeOK, store
  <2>1. CASE SetPrivateState(g)
    <3>1. pc[g] = "setPrivate" /\ pc'[g] \in Ended
      BY <2>1 DEF SetPrivateState, Goto, Ended
    <3>2. f # g
      BY <3>1 DEF Running, Ended
    <3>3. pc[f] # "idle" /\ pc[f] \notin Ended
      BY <2>0, <3>2 DEF Running, Ended
    <3>4. pc[g] \in Ended
      BY <1>0, <2>0, <3>1, <3>2, <3>3, OnlyOneRuns DEF StatesInv, SequentialInv
    <3>. QED
      BY <3>1, <3>4 DEF Ended
  <2>2. CASE GetPrivateState(g)
    <3>1. CASE f = g
      <4>1. privateState # NoState /\ readPrivate'[f] = privateState /\ UNCHANGED privateState
        BY <1>0, <2>2, <3>1 DEF GetPrivateState, Goto, Running
      <4>2. status[f] = "none"
        BY <1>0, <2>2, <3>1 DEF GetPrivateState, Goto, CallBase, CallProgress
      <4>. QED
        BY <4>1, <4>2 DEF StatesInv, SequentialInv, FinalizedInv, PrivateStateFinalized, SucceededCalls
    <3>2. CASE f # g
      <4>1. readPrivate'[f] = readPrivate[f] /\ UNCHANGED privateState
        BY <1>0, <2>2, <3>2 DEF GetPrivateState
      <4>. QED
        BY <2>0, <3>2, <4>1 DEF ReadCurrent
    <3>. QED
      BY <3>1, <3>2
  <2>3. CASE UNCHANGED <<readPrivate, privateState>> /\ pc[f] \in Running
    BY <1>1, <2>3
  <2>4. CASE QueryPublicStates(g)
    <3>1. f # g
      BY <1>0, <2>4 DEF QueryPublicStates, Start, Goto, Running
    <3>. QED
      BY <1>1, <2>0, <2>4, <3>1 DEF QueryPublicStates
  <2>5. CASE Pipeline(g) \/ SettleCall(g) \/ FinalizeCall(g)
    <3>1. UNCHANGED <<readPrivate, privateState>>
      BY <1>3, <2>5, <2>0 DEF CallOperation, CallStep, Pipeline, GetZkConfig, ProveTx, BalanceTx,
         SubmitTx, SettleCall, Settle, FinalizeCall, callReads, GetPrivateState, SetPrivateState,
         QueryPublicStates, Goto, Start
    <3>2. pc[f] \in Running
      BY <1>0, <2>0, <2>5 DEF Pipeline, GetZkConfig, ProveTx, BalanceTx, SubmitTx, SettleCall,
         Settle, FinalizeCall, Goto, Running
    <3>. QED
      BY <1>1, <3>1, <3>2
  <2>. QED
    BY <1>3, <2>1, <2>2, <2>4, <2>5 DEF CallOperation, CallStep
<1>4. ASSUME (\E g \in Flow : Reject(g)) \/ Crash, UNCHANGED callReads
      PROVE  readPrivate'[f] = privateState' /\ f \notin privateState'
  <2>1. pc[f] \in Running /\ UNCHANGED privateState
    BY <1>0, <1>4 DEF Reject, Crash, store, Running, ContractBase, ContractTypeOK, MaintTypeOK,
       ClientTypeOK
  <2>. QED
    BY <1>1, <1>4, <2>1 DEF callReads
<1>5. CASE UNCHANGED contractVars
  BY <1>1, <1>5 DEF contractVars, store, callReads
<1>. QED
  BY <1>2, <1>3, <1>4, <1>5 DEF ContractNext

(* A step that stores nothing and installs nothing can only give something up. *)
LEMMA NothingStored ==
  ASSUME KeysManaged, ContractBase, KeysInv, [ContractNext]_contractVars,
         UNCHANGED <<authority, signingKey, privateState>>,
         SucceededCalls' \cap Stateful = SucceededCalls \cap Stateful, Due' \subseteq Due
  PROVE  Life!GiveUp
<1>1. KeyLost => KeyLost'
  BY KeyLostNext
<1>2. KeyLost' => Life!Behind
  BY DEF KeyLost, Deployed, Life!Behind
<1>3. KeyLost \in BOOLEAN /\ KeyLost' \in BOOLEAN /\ Life!Behind \in BOOLEAN
  BY DEF KeyLost, Life!Behind
<1>4. KeyLost' \in {KeyLost, Life!Behind}
  BY <1>1, <1>2, <1>3, Zenon
<1>5. (SucceededCalls \cap Stateful)' = SucceededCalls \cap Stateful
  BY DEF Stateful, Calls
<1>. QED
  BY <1>4, <1>5 DEF Life!GiveUp

(* A step of another operation than a call leaves the calls where they are. *)
LEMMA CallsWait ==
  ASSUME ContractBase, NEW f \in Flow, MaintOperation(f) \/ JoinOperation(f)
  PROVE  (SucceededCalls \cap Stateful)' = SucceededCalls \cap Stateful /\ Due' = Due
<1>1. \A g \in Calls : pc'[g] = pc[g] /\ status'[g] = status[g]
  BY OtherFlowsWait, OperationKind DEF Calls, Maintainers, Deploys, Finds
<1>. QED
  BY <1>1 DEF SucceededCalls, Stateful, Due

(* A key becomes the authority when the store holds the one before it. *)
LEMMA LifeInstall ==
  ASSUME KeysManaged, ContractBase, KeysInv, StatesInv, LifeInv, NEW f \in Flow,
         MaintOperation(f) \/ JoinOperation(f), authority' # authority
  PROVE  Life!Install
<1>1. /\ f \in Owners /\ status[f] = "pending" /\ authority' = NewKey[f]
      /\ f \in Replacers => readKey[f] = authority
      /\ UNCHANGED <<signingKey, privateState>>
  <2>1. CASE MaintOperation(f)
    BY <2>1 DEF MaintOperation, MaintStep, QueryContractState, GetSigningKey, Pipeline,
       GetZkConfig, ProveTx, BalanceTx, SubmitTx, SettleUpdate, Settle, SetSigningKey,
       FinalizeUpdate, Finalize, Accepted, ApplyUpdate, ledger, store, Owners, Replacers
  <2>2. CASE JoinOperation(f)
    <3>1. FinalizeDeploy(f)
      BY <2>2 DEF JoinOperation, JoinStep, StartFind, StartDeploy, WatchForDeployTxData,
         QueryDeployContractState, QueryCurrentState, GetVerifierKeys, GetExistingKey,
         SetInitialKey, SetInitialPrivateState, GetExistingPrivateState, Pipeline, GetZkConfig,
         ProveTx, BalanceTx, SubmitTx, SettleDeploy, Settle, ledger
    <3>. QED
      BY <3>1, KindsDiffer DEF FinalizeDeploy, Finalize, ledger, store, Owners
  <2>. QED
    BY <2>1, <2>2
<1>2. authority' \in Key \ {authority}
  BY <1>1, SomeKey DEF Owners, Deploys, Replacers
<1>3. CASE f \in Replacers
  <2>1. Deployed
    BY <1>1, <1>3 DEF KeysInv, KeyRead, Deployed
  <2>2. signingKey = authority
    BY <1>1, <1>3, <2>1 DEF KeysInv, AuthorityOwned
  <2>. QED
    BY <1>1, <1>2, <2>1, <2>2, CallsWait DEF Life!Install, Life!states, KeyLost, Deployed
<1>4. CASE f \in Deploys
  <2>1. ~Deployed
    BY <1>1, <1>4, DeployFindAssumption DEF KeysInv, AuthorityOwned
  <2>2. signingKey = NoKey /\ privateState = NoState
    BY <1>1, <1>4, <2>1 DEF LifeInv, NothingBefore, StatesInv, InitialStateFirst
  <2>. QED
    BY <1>1, <1>2, <2>1, <2>2, CallsWait DEF Life!Install, Life!states, KeyLost, Deployed
<1>. QED
  BY <1>1, <1>3, <1>4 DEF Owners

(* The key that is stored is the authority, or that of a find where the
   authority is lost. *)
LEMMA LifeKey ==
  ASSUME KeysManaged, ContractBase, KeysInv, NEW f \in Flow,
         [ContractNext]_contractVars, MaintOperation(f) \/ JoinOperation(f), signingKey' # signingKey
  PROVE  Life!KeepKey \/ Life!Substitute
<1>1. /\ f \in Owners \cup Finds /\ pc[f] = "setKey" /\ signingKey' = NewKey[f]
      /\ UNCHANGED <<authority, status, privateState>>
  <2>1. CASE MaintOperation(f)
    BY <2>1 DEF MaintOperation, MaintStep, QueryContractState, GetSigningKey, Pipeline,
       GetZkConfig, ProveTx, BalanceTx, SubmitTx, SettleUpdate, Settle, SetSigningKey,
       FinalizeUpdate, Goto, ledger, store, Owners, Replacers
  <2>2. CASE JoinOperation(f)
    <3>1. SetInitialKey(f)
      BY <2>2 DEF JoinOperation, JoinStep, StartFind, StartDeploy, WatchForDeployTxData,
         QueryDeployContractState, QueryCurrentState, GetVerifierKeys, GetExistingKey,
         FinalizeDeploy, SetInitialPrivateState, GetExistingPrivateState, Pipeline, GetZkConfig,
         ProveTx, BalanceTx, SubmitTx, SettleDeploy, Settle, store
    <3>. QED
      BY <3>1 DEF SetInitialKey, Goto, ledger, Owners
  <2>. QED
    BY <2>1, <2>2
<1>2. KeyLost \in BOOLEAN /\ KeyLost' \in BOOLEAN
  BY DEF KeyLost
<1>3. CASE f \in Owners
  <2>1. Unstored(f)
    BY <1>1, <1>3 DEF KeysInv, OwnerProgress, Unstored, Storing
  <2>2. authority = NewKey[f] /\ signingKey # NewKey[f] /\ authority # NoKey
    BY <1>3, <2>1, SomeKey DEF KeysInv, AuthorityOwned, KeyHidden, Owners, Deploys, Replacers
  <2>3. ~KeyLost /\ ~KeyLost'
    BY <1>1, <1>3, <2>1, <2>2 DEF KeyLost, Unstored, Storing, Owners
  <2>4. KeyLost' = KeyLost
    BY <1>2, <2>3, Zenon
  <2>. QED
    BY <1>1, <2>2, <2>3, <2>4, CallsWait DEF Life!KeepKey, Life!Behind, Life!states
<1>4. CASE f \in Finds
  <2>1. KeyLost /\ KeyLost'
    BY <1>1, <1>4, KeyLostNext DEF KeysInv, FindProgress
  <2>2. KeyLost' = KeyLost
    BY <1>2, <2>1, Zenon
  <2>3. NewKey[f] \in Key \ {authority}
    BY <1>4, SomeKey DEF KeysInv, KeyHidden, Finds
  <2>. QED
    BY <1>1, <2>1, <2>2, <2>3, CallsWait DEF Life!Substitute, Life!states
<1>. QED
  BY <1>1, <1>3, <1>4

(* A deployment stores the initial private state while its key is not stored. *)
LEMMA LifeInitialState ==
  ASSUME ContractBase, KeysInv, NEW f \in Deploys,
         JoinOperation(f), SetInitialPrivateState(f), Unstored(f),
         privateState = NoState, privateState' = {}
  PROVE  Life!KeepInitialState
<1>1. f \in Owners /\ f \in Flow
  BY DEF Owners, Deploys
<1>2. authority = NewKey[f] /\ signingKey # NewKey[f] /\ authority # NoKey
  BY <1>1, SomeKey DEF KeysInv, AuthorityOwned, KeyHidden
<1>3. ~KeyLost
  BY <1>1, <1>2 DEF KeyLost, Unstored, Storing, Owners
<1>4. KeyLost' \in BOOLEAN
  BY DEF KeyLost
<1>5. UNCHANGED <<authority, signingKey>>
  BY DEF SetInitialPrivateState, ledger
<1>. QED
  BY <1>1, <1>2, <1>3, <1>4, <1>5, CallsWait DEF Life!KeepInitialState, Life!Behind

(* A call takes effect while no other is due, unless its flow is gone. *)
LEMMA LifeApply ==
  ASSUME Sequential, ContractBase, StatesInv, LifeInv, NEW f \in Stateful,
         FinalizeCall(f), status'[f] = "SucceedEntirely", UNCHANGED KeyLost
  PROVE  Life!Apply(f)
<1>. USE DEF ContractBase, ContractTypeOK, MaintTypeOK, ClientTypeOK
<1>1. /\ f \in Flow /\ f \in Calls /\ status[f] = "pending"
      /\ status' = [status EXCEPT ![f] = "SucceedEntirely"]
      /\ UNCHANGED <<authority, signingKey, privateState, pc>>
  BY DEF FinalizeCall, Finalize, Stateful, Calls, ledger, store
<1>2. authority # NoKey
  BY <1>1 DEF LifeInv, NothingBefore, Deployed
<1>3. (SucceededCalls \cap Stateful)' = (SucceededCalls \cap Stateful) \cup {f}
  BY <1>1 DEF SucceededCalls, Stateful, Calls
<1>4. f \notin SucceededCalls
  BY <1>1 DEF SucceededCalls
<1>5. CASE pc[f] \in {"watch", "setPrivate"}
  <2>1. ASSUME NEW g \in Due
        PROVE  FALSE
    <3>1. g \in Calls /\ g # f /\ pc[g] # "idle" /\ pc[g] \notin Ended
      BY <1>1, <2>1 DEF Due, Stateful, Ended
    <3>. QED
      BY <1>1, <1>5, <3>1, OnlyOneRuns DEF StatesInv, SequentialInv, Ended
  <2>2. Due' = {f}
    BY <1>1, <1>5, <2>1 DEF Due, Stateful, Calls
  <2>. QED
    BY <1>1, <1>2, <1>3, <1>4, <2>1, <2>2 DEF Life!Apply, Life!keys
<1>6. CASE pc[f] \notin {"watch", "setPrivate"}
  <2>1. Due' = Due
    BY <1>1, <1>6 DEF Due, Stateful, Calls
  <2>. QED
    BY <1>1, <1>2, <1>3, <1>4, <2>1 DEF Life!Apply, Life!keys
<1>. QED
  BY <1>5, <1>6

(* A call stores what it has read, which is what is stored, and itself. *)
LEMMA LifeKeepState ==
  ASSUME ContractBase, LifeInv, NEW f \in Flow, SetPrivateState(f), UNCHANGED KeyLost
  PROVE  f \in Stateful /\ Life!KeepState(f)
<1>. USE DEF ContractBase, ContractTypeOK, MaintTypeOK, ClientTypeOK
<1>1. /\ f \in Calls /\ pc[f] = "setPrivate" /\ privateState' = readPrivate[f] \cup {f}
      /\ pc'[f] \in Ended /\ \A g \in Flow \ {f} : pc'[g] = pc[g]
      /\ UNCHANGED <<authority, signingKey, status>>
  BY DEF SetPrivateState, Goto, NextPrivateState, Ended, ledger
<1>2. f \in Stateful /\ readPrivate[f] # NoState /\ status[f] = "SucceedEntirely"
  BY <1>1 DEF CallBase, RanOnState, CallProgress, Stateful, Running
<1>3. privateState = readPrivate[f] /\ f \notin privateState
  BY <1>1, <1>2 DEF LifeInv, ReadCurrent, Running
<1>4. f \in Due /\ Due' = Due \ {f}
  BY <1>1, <1>2 DEF Due, Stateful, Calls, Ended
<1>5. (SucceededCalls \cap Stateful)' = SucceededCalls \cap Stateful
  BY <1>1 DEF SucceededCalls, Stateful, Calls
<1>. QED
  BY <1>1, <1>2, <1>3, <1>4, <1>5 DEF Life!KeepState, Life!keys

(* Whether a key is lost is no matter of a call. *)
LEMMA CallsLoseNoKey ==
  ASSUME ContractBase, NEW f \in Flow, CallOperation(f)
  PROVE  UNCHANGED <<authority, signingKey, KeyLost>>
<1>1. UNCHANGED <<authority, signingKey>>
  BY DEF CallOperation, CallStep, QueryPublicStates, GetPrivateState, Pipeline, GetZkConfig,
     ProveTx, BalanceTx, SubmitTx, SettleCall, Settle, SetPrivateState, FinalizeCall, ledger, store
<1>2. \A g \in Owners : pc'[g] = pc[g] /\ status'[g] = status[g]
  BY OtherFlowsWait, OperationKind, KindsDiffer DEF Owners, Deploys, Replacers
<1>3. KeyLost' <=> KeyLost
  BY <1>1, <1>2 DEF KeyLost, Deployed, Owners
<1>4. KeyLost \in BOOLEAN /\ KeyLost' \in BOOLEAN
  BY DEF KeyLost
<1>5. KeyLost' = KeyLost
  BY <1>3, <1>4, Zenon
<1>. QED
  BY <1>1, <1>5

(* A step of a call that neither takes effect nor stores. *)
LEMMA LifeCallWaits ==
  ASSUME ContractBase, ContractBase', NEW f \in Flow, CallOperation(f), ~SetPrivateState(f),
         ~(f \in Stateful /\ FinalizeCall(f) /\ status'[f] = "SucceedEntirely")
  PROVE  /\ UNCHANGED privateState
         /\ SucceededCalls' \cap Stateful = SucceededCalls \cap Stateful /\ Due' \subseteq Due
<1>. USE DEF ContractBase, ContractTypeOK, MaintTypeOK, ClientTypeOK
<1>1. \A g \in Flow \ {f} : pc'[g] = pc[g] /\ status'[g] = status[g]
  BY OtherFlowsWait
<1>2. /\ UNCHANGED privateState
      /\ f \in Stateful => (status'[f] = "SucceedEntirely" <=> status[f] = "SucceedEntirely")
      /\ pc'[f] \in {"watch", "setPrivate"} /\ status'[f] = "SucceedEntirely" /\ f \in Stateful
           => pc[f] \in {"watch", "setPrivate"}
  <2>1. CASE QueryPublicStates(f) \/ GetPrivateState(f)
    BY <2>1 DEF QueryPublicStates, GetPrivateState, Start, Goto, store
  <2>2. CASE GetZkConfig(f) \/ ProveTx(f) \/ BalanceTx(f) \/ SettleCall(f)
    BY <2>2 DEF GetZkConfig, ProveTx, BalanceTx, SettleCall, Settle, Goto, store
  <2>3. CASE SubmitTx(f)
    <3>1. UNCHANGED privateState /\ pc[f] = "submit" /\ status'[f] = "pending"
      BY <2>3 DEF SubmitTx, Goto, store
    <3>2. f \in Calls => status[f] = "none"
      BY <3>1 DEF CallBase, CallProgress
    <3>. QED
      BY <3>1, <3>2 DEF Stateful
  <2>4. CASE FinalizeCall(f)
    BY <2>4 DEF FinalizeCall, Finalize, store
  <2>. QED
    BY <2>1, <2>2, <2>3, <2>4 DEF CallOperation, CallStep, Pipeline
<1>. QED
  BY <1>1, <1>2 DEF SucceededCalls, Stateful, Due, Calls

(* Every step of every operation is one in the life of the contract. *)
LEMMA LifeNext ==
  ASSUME KeysManaged, StateManaged, ContractBase, KeysInv, StatesInv, LifeInv,
         [ContractNext]_contractVars
  PROVE  [Life!Next]_<<Life!keys, Life!states>>
<1>0. ContractBase'
  BY ContractBaseNext
<1>. USE DEF Life!Next
<1>1. ASSUME NEW f \in Flow, MaintOperation(f) \/ JoinOperation(f)
      PROVE  Life!Next
  <2>1. CASE UNCHANGED <<authority, signingKey, privateState>>
    BY <1>1, <2>1, CallsWait, NothingStored DEF Stateful, Calls
  <2>2. CASE authority' # authority
    BY <1>1, <2>2, LifeInstall
  <2>3. CASE signingKey' # signingKey
    BY <1>1, <2>3, LifeKey
  <2>4. CASE privateState' # privateState
    <3>1. SetInitialPrivateState(f)
      BY <1>1, <2>4, OthersStoreFirst
    <3>2. JoinOperation(f)
      BY <1>1, <3>1, OperationKind, KindsDiffer
         DEF SetInitialPrivateState, Maintainers, Deploys, Finds
    <3>. QED
      BY <1>1, <2>4, <3>2, OthersStoreFirst, LifeInitialState
  <2>. QED
    BY <2>1, <2>2, <2>3, <2>4
<1>2. ASSUME NEW f \in Flow, CallOperation(f)
      PROVE  Life!Next
  <2>1. UNCHANGED <<authority, signingKey, KeyLost>>
    BY <1>2, CallsLoseNoKey
  <2>2. CASE SetPrivateState(f)
    BY <2>1, <2>2, LifeKeepState
  <2>3. CASE f \in Stateful /\ FinalizeCall(f) /\ status'[f] = "SucceedEntirely"
    BY <2>1, <2>3, LifeApply DEF StateManaged
  <2>4. CASE ~SetPrivateState(f) /\ ~(f \in Stateful /\ FinalizeCall(f) /\ status'[f] = "SucceedEntirely")
    BY <1>0, <1>2, <2>1, <2>4, LifeCallWaits, NothingStored
  <2>. QED
    BY <2>2, <2>3, <2>4
<1>3. ASSUME (\E f \in Flow : Reject(f)) \/ Crash
      PROVE  Life!Next
  <2>1. UNCHANGED <<authority, signingKey, privateState, status>>
    BY <1>3 DEF Reject, Crash, ledger, store
  <2>2. \A g \in Flow : pc'[g] \in Ended \/ pc'[g] = pc[g]
    BY <1>3 DEF Reject, Crash, Ended, ContractBase, ContractTypeOK, MaintTypeOK, ClientTypeOK
  <2>3. SucceededCalls' \cap Stateful = SucceededCalls \cap Stateful /\ Due' \subseteq Due
    BY <2>1, <2>2 DEF SucceededCalls, Due, Stateful, Calls, Ended
  <2>. QED
    BY <2>1, <2>3, NothingStored
<1>4. CASE UNCHANGED contractVars
  <2>1. UNCHANGED <<authority, signingKey, privateState>>
        /\ SucceededCalls' \cap Stateful = SucceededCalls \cap Stateful /\ Due' \subseteq Due
    BY <1>4 DEF contractVars, ledger, store, SucceededCalls, Due, Stateful, Calls
  <2>. QED
    BY <2>1, NothingStored
<1>. QED
  BY <1>1, <1>2, <1>3, <1>4 DEF ContractNext

(* The operations of the package, overlapping as an application lets them that
   samples its keys and awaits its calls, with all that can reject, die or be
   applied late, implement the life of a contract: the store follows the
   ledger one change at a time, and what it misses once it misses for good. *)
THEOREM ContractImplementsLife == KeysManaged /\ StateManaged /\ ContractSpec => LifeSpec
<1>1. ContractInit => Life!Init
  <2>1. ASSUME ContractInit
        PROVE  ~KeyLost /\ SucceededCalls = {} /\ Due = {}
    BY <2>1 DEF ContractInit, Undeployed, KeyLost, Deployed, SucceededCalls, Due, Stateful, Calls
  <2>2. KeyLost \in BOOLEAN
    BY DEF KeyLost
  <2>3. ASSUME ContractInit
        PROVE  KeyLost = FALSE
    BY <2>1, <2>2, <2>3, Zenon
  <2>. QED
    BY <2>1, <2>3 DEF ContractInit, Undeployed, Life!Init
<1>2. StateManaged => []StateManaged
  BY ManagedForever DEF StateManaged
<1>3. KeysManaged /\ StateManaged /\ ContractBase /\ KeysInv /\ StatesInv /\ LifeInv
        /\ [ContractNext]_contractVars => LifeInv'
  BY ContractBaseNext, NothingBeforeNext, ReadCurrentNext DEF LifeInv, StateManaged
<1>4. KeysManaged /\ StateManaged /\ ContractBase /\ KeysInv /\ StatesInv /\ LifeInv
        /\ [ContractNext]_contractVars => [Life!Next]_<<Life!keys, Life!states>>
  BY LifeNext
<1>. QED
  BY <1>1, <1>2, <1>3, <1>4, KeysInvariant, ContractInvariant, LifeInvInit, PTL
     DEF ContractSpec, LifeSpec, Life!Spec

-----------------------------------------------------------------------------
(* Verifier keys beside deployments *)

(* Only a flow that prepares a transaction has none, and an update is signed. *)
Unsubmitted == {"idle", "getKey", "verifierKeys", "zkConfig", "prove", "balance", "submit"}
UpdateProgress ==
  \A f \in Flow :
    /\ f \in Deploys \/ Kind[f] \in Maintainers => (pc[f] \in Unsubmitted => status[f] = "none")
    /\ Kind[f] \in Maintainers /\ Preparing(f) /\ pc[f] # "getKey" => readKey[f] # NoKey

(* The contract is there by its deployment, and has no operation before. *)
DeployedOnce ==
  /\ Deployed => \E f \in Deploys : status[f] = "SucceedEntirely"
  /\ ~Deployed => operations = [c \in Circuit |-> NoVk]

(* What an insertion has seen of a contract, which was there, is true while the
   counter it read is current. *)
InsertionCurrent ==
  \A f \in Flow :
    /\ readCounter[f] <= counter
    /\ Kind[f] = "insertVk" /\ Preparing(f) =>
         Deployed /\ (readCounter[f] = counter => operations[Target[f]] = NoVk)

OperationsInv == UpdateProgress /\ DeployedOnce /\ InsertionCurrent

LEMMA OperationsInvInit == ContractInit => OperationsInv
BY DEF ContractInit, Undeployed, MaintReadsInit, OperationsInv, UpdateProgress, DeployedOnce,
   InsertionCurrent, Preparing, Deployed

(* A flow that prepares nothing more than before keeps what insertions saw,
   if the ledger is as it was. *)
LEMMA OthersKeepOperations ==
  ASSUME ContractBase, OperationsInv, UNCHANGED <<ledger, maintReads>>,
         \A f \in Flow : f \in Deploys \/ Kind[f] \in Maintainers =>
           /\ pc'[f] \in Unsubmitted => pc[f] \in Unsubmitted /\ status'[f] = status[f]
           /\ status[f] = "SucceedEntirely" => status'[f] = "SucceedEntirely",
         \A f \in Flow : Kind[f] \in Maintainers =>
           /\ Preparing(f)' => Preparing(f)
           /\ pc[f] = "getKey" => status'[f] = status[f] /\ pc'[f] \in {"getKey"} \cup Ended
  PROVE  OperationsInv'
<1>. USE DEF ledger, maintReads, OperationsInv
<1>1. UpdateProgress'
  BY DEF UpdateProgress, Preparing, Unsubmitted, Ended
<1>2. DeployedOnce'
  BY DEF DeployedOnce, Deployed, Deploys
<1>3. InsertionCurrent'
  BY DEF InsertionCurrent, Deployed, Maintainers
<1>. QED
  BY <1>1, <1>2, <1>3

LEMMA OperationsInvNext ==
  ASSUME VkUpdatesCount, ContractBase, OperationsInv, [ContractNext]_contractVars
  PROVE  /\ OperationsInv'
         /\ \A c \in Circuit : operations[c] # NoVk => operations'[c] \in {operations[c], NoVk}
<1>0. ContractBase'
  BY ContractBaseNext
<1>. DEFINE Kept == \A c \in Circuit : operations[c] # NoVk => operations'[c] \in {operations[c], NoVk}
<1>k. UNCHANGED ledger => Kept
  BY DEF ledger
<1>. HIDE DEF Kept
<1>. USE ClientAssumption, MaintenanceAssumption
     DEF ContractBase, ContractTypeOK, MaintTypeOK, ClientTypeOK
<1>1. ASSUME NEW f \in Flow, MaintOperation(f)
      PROVE  OperationsInv' /\ Kept
  <2>0. Kind[f] \in Maintainers /\ f \notin Deploys
    BY <1>1, OperationKind DEF Maintainers, Deploys
  <2>w. \A g \in Flow \ {f} : pc'[g] = pc[g] /\ status'[g] = status[g]
    BY <1>1, OtherFlowsWait
  <2>1. CASE QueryContractState(f)
    <3>. USE <2>1 DEF QueryContractState, Start, Goto, ledger, store
    <3>1. UpdateProgress'
      BY <2>0 DEF OperationsInv, UpdateProgress, Preparing, Unsubmitted
    <3>2. DeployedOnce'
      BY DEF OperationsInv, DeployedOnce, Deployed
    <3>3. status[f] = "none"
      BY <2>0 DEF OperationsInv, UpdateProgress, Unsubmitted
    <3>4. InsertionCurrent'
      BY <3>3 DEF OperationsInv, InsertionCurrent, Preparing, Maintainable, Deployed
    <3>. QED
      BY <1>k, <3>1, <3>2, <3>4 DEF OperationsInv
  <2>2. CASE GetSigningKey(f)
    <3>. USE <2>2 DEF GetSigningKey, Goto, ledger, store
    <3>1. UpdateProgress'
      BY <2>0 DEF OperationsInv, UpdateProgress, Preparing, Unsubmitted
    <3>2. DeployedOnce'
      BY DEF OperationsInv, DeployedOnce, Deployed
    <3>3. InsertionCurrent'
      BY DEF OperationsInv, InsertionCurrent, Preparing, Deployed
    <3>. QED
      BY <1>k, <3>1, <3>2, <3>3 DEF OperationsInv
  <2>3. CASE \/ Pipeline(f) /\ UNCHANGED maintReads
             \/ SettleUpdate(f)
             \/ SetSigningKey(f)
    <3>. USE <2>0, <2>w, <2>3 DEF Pipeline, GetZkConfig, ProveTx, BalanceTx, SubmitTx, SettleUpdate, Settle,
             SetSigningKey, Goto, maintReads
    <3>1. UNCHANGED <<ledger, maintReads>>
      BY DEF ledger
    <3>2. /\ pc'[f] \in Unsubmitted => pc[f] \in Unsubmitted /\ status'[f] = status[f]
          /\ status[f] = "SucceedEntirely" => status'[f] = "SucceedEntirely"
          /\ Preparing(f)' => Preparing(f)
          /\ pc[f] # "getKey"
      BY DEF Preparing, Unsubmitted, OperationsInv, UpdateProgress
    <3>3. \A g \in Flow \ {f} : Preparing(g)' <=> Preparing(g)
      BY DEF Preparing
    <3>. QED
      BY <1>k, <3>1, <3>2, <3>3, OthersKeepOperations
  <2>4. CASE FinalizeUpdate(f)
    <3>. USE DEF FinalizeUpdate, Finalize
    <3>1. status[f] = "pending" /\ readKey[f] # NoKey /\ pc[f] \notin Unsubmitted
          /\ UNCHANGED <<pc, maintReads>> /\ \A g \in Flow \ {f} : status'[g] = status[g]
      BY <2>0, <2>4 DEF OperationsInv, UpdateProgress, Preparing, Unsubmitted
    <3>2. UpdateProgress'
      BY <2>0, <2>4, <3>1 DEF OperationsInv, UpdateProgress, Preparing, maintReads
    <3>3. CASE Accepted(f) /\ ApplyUpdate(f)
      <4>1. counter' = counter + 1 /\ Deployed
        BY <3>1, <3>3, UpdateAdvances DEF Accepted, Deployed
      <4>2. Deployed' /\ \A g \in Deploys : status'[g] = status[g]
        BY <2>0, <3>1, <4>1, DeployedForever DEF Deploys
      <4>3. InsertionCurrent'
        BY <2>4, <3>1, <4>1, <4>2 DEF OperationsInv, InsertionCurrent, Preparing, maintReads
      <4>4. DeployedOnce'
        BY <4>1, <4>2 DEF OperationsInv, DeployedOnce, Deploys
      <4>5. Kind[f] = "insertVk" => operations[Target[f]] = NoVk
        BY <3>1, <3>3 DEF OperationsInv, InsertionCurrent, Preparing, Accepted
      <4>6. Kept
        BY <3>3, <4>5 DEF ApplyUpdate, Kept
      <4>. QED
        BY <3>2, <4>3, <4>4, <4>6 DEF OperationsInv
    <3>4. CASE UNCHANGED ledger
      <4>1. InsertionCurrent'
        BY <2>4, <3>1, <3>4 DEF OperationsInv, InsertionCurrent, Preparing, maintReads, ledger, Deployed
      <4>2. DeployedOnce'
        BY <2>0, <3>1, <3>4 DEF OperationsInv, DeployedOnce, Deploys, ledger, Deployed
      <4>. QED
        BY <1>k, <3>2, <3>4, <4>1, <4>2 DEF OperationsInv
    <3>. QED
      BY <2>4, <3>3, <3>4
  <2>. QED
    BY <1>1, <2>1, <2>2, <2>3, <2>4 DEF MaintOperation, MaintStep
<1>2. ASSUME NEW f \in Flow, CallOperation(f)
      PROVE  OperationsInv' /\ Kept
  <2>1. UNCHANGED <<ledger, maintReads>>
    BY <1>2 DEF CallOperation, CallStep, QueryPublicStates, GetPrivateState, Pipeline, GetZkConfig,
       ProveTx, BalanceTx, SubmitTx, SettleCall, Settle, SetPrivateState, FinalizeCall
  <2>2. \A g \in Flow : g \in Deploys \/ Kind[g] \in Maintainers => pc'[g] = pc[g] /\ status'[g] = status[g]
    BY <1>2, OtherFlowsWait, OperationKind DEF Calls, Maintainers, Deploys
  <2>. QED
    BY <1>k, <2>1, <2>2, OthersKeepOperations DEF Preparing
<1>3. ASSUME NEW f \in Flow, JoinOperation(f)
      PROVE  OperationsInv' /\ Kept
  <2>0. Kind[f] \notin Maintainers
    BY <1>3, OperationKind DEF Maintainers, Deploys, Finds
  <2>w. \A g \in Flow \ {f} : pc'[g] = pc[g] /\ status'[g] = status[g]
    BY <1>3, OtherFlowsWait
  <2>1. CASE FinalizeDeploy(f) /\ ~UNCHANGED ledger
    <3>1. /\ f \in Deploys /\ status[f] = "pending" /\ status'[f] = "SucceedEntirely"
          /\ operations' = LocalVk /\ UNCHANGED <<counter, pc, maintReads>>
      BY <1>3, <2>1 DEF FinalizeDeploy, Finalize, JoinOperation
    <3>2. ~Deployed
      BY <3>1, DeployFindAssumption DEF OperationsInv, DeployedOnce
    <3>3. Deployed'
      BY <2>1, SomeKey DEF FinalizeDeploy, Deployed, Deploys, Finalize
    <3>4. Kept
      BY <3>2 DEF OperationsInv, DeployedOnce, Kept
    <3>5. UpdateProgress'
      BY <2>0, <2>w, <3>1 DEF OperationsInv, UpdateProgress, Preparing, maintReads
    <3>6. InsertionCurrent'
      BY <2>0, <2>w, <3>1, <3>2 DEF OperationsInv, InsertionCurrent, Preparing, maintReads, Maintainers
    <3>7. DeployedOnce'
      BY <3>1, <3>3 DEF DeployedOnce, Deploys
    <3>. QED
      BY <3>4, <3>5, <3>6, <3>7 DEF OperationsInv
  <2>2. CASE UNCHANGED ledger
    <3>1. f \in Deploys =>
            /\ pc'[f] \in Unsubmitted => pc[f] \in Unsubmitted /\ status'[f] = status[f]
            /\ status[f] = "SucceedEntirely" => status'[f] = "SucceedEntirely"
      <4>. HAVE f \in Deploys
      <4>1. f \notin Finds
        BY DEF Deploys, Finds
      <4>2. CASE StartDeploy(f) \/ GetVerifierKeys(f) \/ Pipeline(f) \/ SettleDeploy(f)
        BY <4>2 DEF StartDeploy, Start, GetVerifierKeys, Pipeline, GetZkConfig, ProveTx, BalanceTx,
           SubmitTx, SettleDeploy, Settle, Goto, Unsubmitted, OperationsInv, UpdateProgress
      <4>3. CASE SetInitialKey(f) \/ SetInitialPrivateState(f)
        <5>1. AfterKey(f) = "done"
          BY <4>1 DEF AfterKey, Deploys
        <5>. QED
          BY <4>3, <5>1 DEF SetInitialKey, SetInitialPrivateState, Goto, Unsubmitted
      <4>4. CASE FinalizeDeploy(f)
        BY <4>4 DEF FinalizeDeploy, Finalize, OperationsInv, UpdateProgress
      <4>. QED
        BY <1>3, <4>1, <4>2, <4>3, <4>4 DEF JoinOperation, JoinStep, StartFind,
           WatchForDeployTxData, QueryDeployContractState, QueryCurrentState, GetExistingKey,
           GetExistingPrivateState
    <3>2. \A g \in Flow \ {f} : Preparing(g)' <=> Preparing(g)
      BY <2>w DEF Preparing
    <3>3. \A g \in Flow : Kind[g] \in Maintainers => g # f
      BY <2>0
    <3>4. UNCHANGED maintReads
      BY <1>3 DEF JoinOperation
    <3>. QED
      BY <1>k, <2>2, <2>w, <3>1, <3>2, <3>3, <3>4, OthersKeepOperations
  <2>. QED
    BY <2>1, <2>2, <1>3 DEF JoinOperation, JoinStep, StartFind, StartDeploy, WatchForDeployTxData,
       QueryDeployContractState, QueryCurrentState, GetVerifierKeys, GetExistingKey, SetInitialKey,
       SetInitialPrivateState, GetExistingPrivateState, Pipeline, GetZkConfig, ProveTx, BalanceTx,
       SubmitTx, SettleDeploy, Settle
<1>4. ASSUME (\E f \in Flow : Reject(f)) \/ Crash, UNCHANGED maintReads
      PROVE  OperationsInv' /\ Kept
  <2>1. UNCHANGED <<ledger, status>>
    BY <1>4 DEF Reject, Crash
  <2>2. \A g \in Flow : pc'[g] = pc[g] \/ pc'[g] \in {"failed", "lost"}
    BY <1>4 DEF Reject, Crash
  <2>3. \A g \in Flow : Preparing(g)' => Preparing(g)
    BY <2>1, <2>2 DEF Preparing
  <2>. QED
    BY <1>4, <1>k, <2>1, <2>2, <2>3, OthersKeepOperations DEF Unsubmitted, Ended
<1>5. CASE UNCHANGED contractVars
  <2>1. UNCHANGED <<ledger, maintReads, pc, status>>
    BY <1>5 DEF contractVars
  <2>2. \A f \in Flow : Preparing(f)' <=> Preparing(f)
    BY <2>1 DEF Preparing
  <2>3. OperationsInv'
    BY <2>1, <2>2, OthersKeepOperations
  <2>. QED
    BY <1>k, <2>1, <2>3 DEF Kept
<1>. QED
  BY <1>1, <1>2, <1>3, <1>4, <1>5 DEF ContractNext, Kept

(* Whatever else is under way, a verifier key of a contract that this client
   deploys is never overwritten by another one, if the ledger counts every
   update: an insertion has seen the contract deployed and its circuit
   undefined, and nothing is deployed twice. *)
THEOREM VerifierKeysKeptBesideOthers == VkUpdatesCount /\ ContractSpec => VerifierKeyNotOverwritten
<1>1. VkUpdatesCount => []VkUpdatesCount
  <2>1. VkUpdatesCount => VkUpdatesCount'
    OBVIOUS
  <2>. QED
    BY <2>1, PTL
<1>2. VkUpdatesCount /\ ContractBase /\ OperationsInv /\ [ContractNext]_contractVars
        => /\ ContractBase' /\ OperationsInv'
           /\ [\A c \in Circuit : operations[c] # NoVk => operations'[c] \in {operations[c], NoVk}]_maintVars
  BY ContractBaseNext, OperationsInvNext
<1>. QED
  BY <1>1, <1>2, ContractBaseInit, OperationsInvInit, PTL DEF ContractSpec, VerifierKeyNotOverwritten

=============================================================================
