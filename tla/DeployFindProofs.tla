-------------------------- MODULE DeployFindProofs --------------------------
(***************************************************************************)
(* For any number of finds that overlap with a deployment, whatever their  *)
(* options are: the store follows the ledger, what resolves leaves a store *)
(* that later operations can use, and a foreign contract is left alone.    *)
(***************************************************************************)
EXTENDS DeployFind, TLAPS

(* A find, once it has seen the deployment; and the stages of it that come
   after it verified the contract, or has its key. *)
Found == {"queryDeploy", "queryContract", "verifierKeys", "getKey", "getPrivate",
          "setPrivate", "setKey", "done"}
Verifying == {"verifierKeys", "getKey", "getPrivate", "setPrivate", "setKey"}
HasKey == {"getPrivate", "setPrivate", "done"}

FindStages == {"idle", "watchDeploy", "failed", "lost"} \cup Found
DeployStages == {"idle", "verifierKeys", "prove", "balance", "submit", "watch",
                 "setPrivate", "setKey", "done", "failed", "lost"}

BeforeSubmit == {"idle", "verifierKeys", "prove", "balance", "submit"}

(* Where a flow can be. *)
JoinProgress ==
  \A f \in Flow : /\ f \in Finds => pc[f] \in FindStages
                  /\ f \in Deploys => pc[f] \in DeployStages
                  /\ f \notin Finds \cup Deploys => pc[f] = "idle"

(* A transaction that has yet to be submitted has no outcome. *)
NotSubmitted == \A f \in Deploys : pc[f] \in BeforeSubmit => status[f] = "none"

(* A deployment that stores something succeeded, and a find that does has seen
   the contract. *)
SeenDeployed ==
  /\ \A f \in Finds : pc[f] \in Found => Deployed
  /\ \A f \in Deploys :
       /\ pc[f] \in {"setPrivate", "setKey", "done"} => status[f] = "SucceedEntirely"
       /\ status[f] = "SucceedEntirely" => Deployed /\ operations = LocalVk

(* A find that goes on past the verifier keys does so for a contract that has
   the keys of the client. *)
ReadVerified ==
  \A f \in Finds :
    /\ pc[f] \in Verifying /\ readOperations[f] = LocalVk => operations = LocalVk
    /\ pc[f] \in Verifying \ {"verifierKeys"} => readOperations[f] = LocalVk

(* What has been stored or kept by each stage. *)
KeptSoFar ==
  /\ \A f \in Finds : pc[f] \in HasKey => signingKey # NoKey /\ resultKey[f] # NoKey
  /\ \A f \in Deploys \cap WithId : pc[f] = "setKey" => privateState # NoState

JoinInv ==
  /\ JoinTypeOK
  /\ JoinProgress
  /\ NotSubmitted
  /\ SeenDeployed
  /\ ReadVerified
  /\ KeptSoFar
  /\ StoresFollowLedger
  /\ ResolvedIsUsable

-----------------------------------------------------------------------------

(* No flow has begun, and a contract that was deployed before may have left a
   key and a private state. *)
LEMMA JoinInvInit == JoinInit => JoinInv
<1>. SUFFICES ASSUME JoinInit
              PROVE  JoinInv
  OBVIOUS
<1>. USE ClientAssumption, DeployFindAssumption DEF JoinInit, JoinReadsInit
<1>1. JoinTypeOK
  BY DEF JoinTypeOK, ClientTypeOK, Stages, PrivateState, Undeployed, DeployedBefore
<1>2. StoresFollowLedger
  BY DEF StoresFollowLedger, Deployed, Undeployed, DeployedBefore
<1>3. JoinProgress /\ NotSubmitted /\ SeenDeployed /\ ReadVerified /\ KeptSoFar /\ ResolvedIsUsable
  BY DEF JoinProgress, FindStages, DeployStages, NotSubmitted, SeenDeployed, ReadVerified,
         KeptSoFar, ResolvedIsUsable, Found, Verifying, HasKey, Deploys, Finds
<1>. QED
  BY <1>1, <1>2, <1>3 DEF JoinInv

(* A find that moves on and stores nothing needs no more than what it is
   promised at the stage it comes to. *)
LEMMA FindMoveKeepsInv ==
  ASSUME JoinInv, NEW f \in Finds, NEW from, NEW to \in FindStages, Goto(f, from, to),
         UNCHANGED <<ledger, status, store, joinReads>>,
         to \in Found => Deployed,
         to \in Verifying => from \in Verifying,
         to \in Verifying \ {"verifierKeys"} => readOperations[f] = LocalVk,
         to \in HasKey => signingKey # NoKey /\ resultKey[f] # NoKey,
         to = "done" => privateState # NoState
  PROVE  JoinInv'
<1>. USE ClientAssumption, DeployFindAssumption
     DEF JoinInv, JoinTypeOK, ClientTypeOK, Goto, ledger, store, joinReads, Finds, Deploys
<1>1. /\ f \in Flow /\ f \notin Deploys
      /\ pc' = [pc EXCEPT ![f] = to] /\ \A g \in Flow \ {f} : pc'[g] = pc[g]
  OBVIOUS
<1>2. JoinTypeOK'
  BY DEF Stages, Ended, FindStages, DeployStages, Found
<1>3. JoinProgress'
  BY <1>1 DEF JoinProgress
<1>4. NotSubmitted'
  BY <1>1 DEF NotSubmitted
<1>5. SeenDeployed'
  BY <1>1 DEF SeenDeployed, NotSubmitted, BeforeSubmit, Deployed
<1>6. ReadVerified'
  BY <1>1 DEF ReadVerified
<1>7. KeptSoFar'
  BY <1>1 DEF KeptSoFar
<1>8. StoresFollowLedger'
  BY DEF StoresFollowLedger, Deployed
<1>9. ResolvedIsUsable'
  <2>1. \A g \in Deploys \cup Finds : pc'[g] = "done" => g = f \/ pc[g] = "done"
    BY <1>1
  <2>. QED
    BY <2>1, <1>1 DEF ResolvedIsUsable, HasKey
<1>. QED
  BY <1>2, <1>3, <1>4, <1>5, <1>6, <1>7, <1>8, <1>9

(* So does a deployment, whose transaction has an outcome once it is
   submitted only. *)
LEMMA DeployMoveKeepsInv ==
  ASSUME JoinInv, NEW f \in Deploys, NEW from, NEW to \in DeployStages \ {"done"},
         Goto(f, from, to), UNCHANGED <<ledger, store, joinReads>>,
         \/ status' = status
         \/ /\ from = "submit" /\ to \in {"watch", "failed"}
            /\ status' = [status EXCEPT ![f] = "pending"],
         to \in BeforeSubmit => from \in BeforeSubmit,
         to \in {"setPrivate", "setKey"} => status[f] = "SucceedEntirely",
         to = "setKey" => f \notin WithId
  PROVE  JoinInv'
<1>. USE ClientAssumption, DeployFindAssumption
     DEF JoinInv, JoinTypeOK, ClientTypeOK, Goto, ledger, store, joinReads, Finds, Deploys
<1>1. /\ f \in Flow /\ f \notin Finds
      /\ pc' = [pc EXCEPT ![f] = to]
      /\ \A g \in Flow \ {f} : pc'[g] = pc[g] /\ status'[g] = status[g]
  OBVIOUS
<1>2. JoinTypeOK'
  BY DEF Stages, Ended, FindStages, DeployStages, Found
<1>3. JoinProgress'
  BY <1>1 DEF JoinProgress
<1>4. NotSubmitted'
  BY <1>1 DEF NotSubmitted, BeforeSubmit
<1>5. SeenDeployed'
  BY <1>1 DEF SeenDeployed, NotSubmitted, BeforeSubmit, Deployed
<1>6. ReadVerified'
  BY <1>1 DEF ReadVerified
<1>7. KeptSoFar'
  BY <1>1 DEF KeptSoFar
<1>8. StoresFollowLedger'
  BY DEF StoresFollowLedger, Deployed
<1>9. ResolvedIsUsable'
  <2>1. \A g \in Deploys \cup Finds : pc'[g] = "done" => g = f \/ pc[g] = "done"
    BY <1>1
  <2>. QED
    BY <2>1, <1>1 DEF ResolvedIsUsable, HasKey
<1>. QED
  BY <1>2, <1>3, <1>4, <1>5, <1>6, <1>7, <1>8, <1>9

(* A signing key is stored by a flow for a contract that is its own, or that it
   verified. *)
LEMMA SetInitialKeyKeepsInv ==
  ASSUME JoinInv, NEW f \in Flow, SetInitialKey(f)
  PROVE  JoinInv'
<1>. USE ClientAssumption, DeployFindAssumption
     DEF JoinInv, JoinTypeOK, ClientTypeOK, ledger
<1>1. PICK to \in {AfterKey(f), "failed"} :
        pc[f] = "setKey" /\ pc' = [pc EXCEPT ![f] = to]
  BY DEF SetInitialKey, Goto
<1>2. /\ signingKey' = NewKey[f] /\ NewKey[f] \in Key
      /\ resultKey' = [resultKey EXCEPT ![f] = NewKey[f]]
      /\ UNCHANGED <<ledger, status, privateState, readOperations>>
      /\ f \in Deploys \cup Finds
  BY DEF SetInitialKey
<1>3. signingKey' # NoKey /\ resultKey'[f] # NoKey
  BY <1>2
<1>4. /\ f \in Deploys => f \notin Finds /\ to \in {"done", "failed"}
      /\ f \in Finds => to \in {"setPrivate", "getPrivate", "failed", "done"}
      /\ f \in Finds \cap WithId => to # "done"
  BY <1>1, <1>2 DEF AfterKey, Deploys, Finds
<1>5. Deployed
  BY <1>1, <1>2 DEF SeenDeployed, Found
<1>6. JoinTypeOK'
  BY <1>1, <1>2, <1>4 DEF Stages, Ended
<1>7. JoinProgress' /\ NotSubmitted'
  BY <1>1, <1>2, <1>4 DEF JoinProgress, NotSubmitted, FindStages, DeployStages, Found,
                          BeforeSubmit, Finds, Deploys
<1>8. SeenDeployed'
  BY <1>1, <1>2, <1>4, <1>5 DEF SeenDeployed, Deployed, Found, Finds, Deploys
<1>9. ReadVerified'
  BY <1>1, <1>2, <1>4 DEF ReadVerified, Verifying, Finds
<1>10. KeptSoFar'
  BY <1>1, <1>2, <1>3, <1>4 DEF KeptSoFar, HasKey, Finds, Deploys
<1>11. StoresFollowLedger'
  BY <1>2, <1>5 DEF StoresFollowLedger, Deployed
<1>12. ResolvedIsUsable'
  BY <1>1, <1>2, <1>3, <1>4 DEF ResolvedIsUsable, KeptSoFar, Finds, Deploys
<1>. QED
  BY <1>6, <1>7, <1>8, <1>9, <1>10, <1>11, <1>12

(* So is an initial private state; a deployment then stores its key, a find has
   it. *)
LEMMA SetInitialPrivateStateKeepsInv ==
  ASSUME JoinInv, NEW f \in Flow, SetInitialPrivateState(f)
  PROVE  JoinInv'
<1>. USE ClientAssumption, DeployFindAssumption
     DEF JoinInv, JoinTypeOK, ClientTypeOK, ledger, joinReads
<1>1. PICK to \in {IF f \in Deploys THEN "setKey" ELSE "done", "failed"} :
        pc[f] = "setPrivate" /\ pc' = [pc EXCEPT ![f] = to]
  BY DEF SetInitialPrivateState, Goto
<1>2. /\ privateState' = {} /\ {} # NoState
      /\ UNCHANGED <<ledger, status, signingKey, joinReads>>
      /\ f \in Deploys \cup Finds
  BY DEF SetInitialPrivateState
<1>3. /\ f \in Deploys => f \notin Finds /\ to \in {"setKey", "failed"}
      /\ f \in Finds => f \notin Deploys /\ to \in {"done", "failed"}
  BY <1>1, <1>2 DEF Deploys, Finds
<1>4. Deployed
  BY <1>1, <1>2 DEF SeenDeployed, Found
<1>5. JoinTypeOK'
  BY <1>1, <1>2, <1>3 DEF Stages, Ended, PrivateState
<1>6. JoinProgress' /\ NotSubmitted'
  BY <1>1, <1>2, <1>3 DEF JoinProgress, NotSubmitted, FindStages, DeployStages, Found,
                          BeforeSubmit, Finds, Deploys
<1>7. SeenDeployed'
  BY <1>1, <1>2, <1>3, <1>4 DEF SeenDeployed, Deployed, Found, Finds, Deploys
<1>8. ReadVerified'
  BY <1>1, <1>2, <1>3 DEF ReadVerified, Verifying, Finds
<1>9. KeptSoFar'
  BY <1>1, <1>2, <1>3 DEF KeptSoFar, HasKey, Finds, Deploys
<1>10. StoresFollowLedger'
  BY <1>2, <1>4 DEF StoresFollowLedger, Deployed
<1>11. ResolvedIsUsable'
  BY <1>1, <1>2, <1>3 DEF ResolvedIsUsable, KeptSoFar, HasKey, Finds, Deploys
<1>. QED
  BY <1>5, <1>6, <1>7, <1>8, <1>9, <1>10, <1>11

(* The ledger takes a deployment: the contract has the keys of the client. *)
LEMMA FinalizeDeployKeepsInv ==
  ASSUME JoinInv, NEW f \in Flow, FinalizeDeploy(f)
  PROVE  JoinInv'
<1>. USE ClientAssumption, DeployFindAssumption
     DEF JoinInv, JoinTypeOK, ClientTypeOK, ledger, store, joinReads
<1>1. PICK s \in Finalized :
        /\ status[f] = "pending" /\ status' = [status EXCEPT ![f] = s]
        /\ s = "SucceedEntirely" => authority' = NewKey[f] /\ operations' = LocalVk
        /\ s # "SucceedEntirely" => UNCHANGED <<authority, operations>>
        /\ UNCHANGED counter
  BY DEF FinalizeDeploy, Finalize, Finalized
<1>2. UNCHANGED <<store, pc, joinReads>> /\ f \in Deploys
  BY DEF FinalizeDeploy
<1>3. (Deployed => Deployed') /\ (operations = LocalVk => operations' = LocalVk)
  BY <1>1 DEF Deployed
<1>4. s = "SucceedEntirely" => Deployed' /\ operations' = LocalVk
  BY <1>1 DEF Deployed
<1>5. JoinTypeOK'
  BY <1>1, <1>2
<1>6. JoinProgress' /\ NotSubmitted'
  BY <1>1, <1>2 DEF JoinProgress, NotSubmitted
<1>7. SeenDeployed'
  BY <1>1, <1>2, <1>3, <1>4 DEF SeenDeployed
<1>8. ReadVerified'
  BY <1>2, <1>3 DEF ReadVerified
<1>9. KeptSoFar' /\ ResolvedIsUsable'
  BY <1>2 DEF KeptSoFar, ResolvedIsUsable
<1>10. StoresFollowLedger'
  BY <1>2, <1>3 DEF StoresFollowLedger
<1>. QED
  BY <1>5, <1>6, <1>7, <1>8, <1>9, <1>10

(* The reads of a find: of the contract, and of the stored key. *)
LEMMA ReadKeepsInv ==
  ASSUME JoinInv, NEW f \in Flow, QueryCurrentState(f) \/ GetExistingKey(f)
  PROVE  JoinInv'
<1>. USE ClientAssumption, DeployFindAssumption
     DEF JoinInv, JoinTypeOK, ClientTypeOK, ledger, store
<1>. DEFINE Others == \A g \in Flow \ {f} : pc'[g] = pc[g]
<1>1. f \in Finds /\ f \notin Deploys /\ UNCHANGED <<ledger, status, store>>
  BY DEF QueryCurrentState, GetExistingKey, Finds, Deploys
<1>2. CASE QueryCurrentState(f)
  <2>1. /\ pc[f] = "queryContract"
        /\ pc' = [pc EXCEPT ![f] = IF Deployed THEN "verifierKeys" ELSE "failed"]
        /\ readOperations' = [readOperations EXCEPT ![f] = operations]
        /\ resultKey' = resultKey
    BY <1>2 DEF QueryCurrentState, Goto
  <2>2. JoinTypeOK'
    BY <1>1, <2>1 DEF Stages, Ended
  <2>3. JoinProgress' /\ NotSubmitted' /\ SeenDeployed' /\ StoresFollowLedger'
    BY <1>1, <2>1 DEF JoinProgress, FindStages, Found, NotSubmitted, SeenDeployed, Deployed,
                      StoresFollowLedger, Finds, Deploys
  <2>4. ReadVerified'
    BY <1>1, <2>1 DEF ReadVerified, Verifying, Finds
  <2>5. KeptSoFar' /\ ResolvedIsUsable'
    BY <1>1, <2>1 DEF KeptSoFar, HasKey, ResolvedIsUsable, Finds, Deploys
  <2>. QED
    BY <2>2, <2>3, <2>4, <2>5
<1>3. CASE GetExistingKey(f)
  <2>1. /\ pc[f] = "getKey"
        /\ pc' = [pc EXCEPT ![f] = IF signingKey # NoKey THEN AfterKey(f) ELSE "setKey"]
        /\ resultKey' = [resultKey EXCEPT ![f] = signingKey]
        /\ readOperations' = readOperations
    BY <1>3 DEF GetExistingKey, Goto
  <2>2. /\ pc'[f] \in {"setPrivate", "getPrivate", "failed", "done", "setKey"}
        /\ f \in WithId => pc'[f] # "done"
        /\ pc'[f] \in HasKey => signingKey # NoKey
    BY <1>1, <2>1 DEF AfterKey, HasKey
  <2>3. JoinTypeOK'
    BY <1>1, <2>1, <2>2 DEF Stages, Ended
  <2>4. JoinProgress' /\ NotSubmitted' /\ SeenDeployed' /\ StoresFollowLedger'
    BY <1>1, <2>1, <2>2 DEF JoinProgress, FindStages, Found, NotSubmitted, SeenDeployed,
                            Deployed, StoresFollowLedger, Finds, Deploys
  <2>5. ReadVerified'
    BY <1>1, <2>1, <2>2 DEF ReadVerified, Verifying, Finds
  <2>6. KeptSoFar' /\ ResolvedIsUsable'
    BY <1>1, <2>1, <2>2 DEF KeptSoFar, HasKey, ResolvedIsUsable, Finds, Deploys
  <2>. QED
    BY <2>3, <2>4, <2>5, <2>6
<1>. QED
  BY <1>2, <1>3

(* A flow that ends without an outcome leaves the store as it is. *)
LEMMA EndKeepsInv ==
  ASSUME JoinInv, UNCHANGED <<ledger, status, store, joinReads>>,
         NEW to \in {"failed", "lost"}, NEW S \in SUBSET Flow, \A f \in S : Active(f),
         pc' = [f \in Flow |-> IF f \in S THEN to ELSE pc[f]]
  PROVE  JoinInv'
<1>. USE DEF JoinInv, JoinTypeOK, ClientTypeOK, ledger, store, joinReads
<1>1. JoinTypeOK'
  BY DEF Stages, Ended
<1>2. JoinProgress' /\ NotSubmitted'
  BY DEF JoinProgress, NotSubmitted, FindStages, DeployStages, BeforeSubmit, Active, Ended,
         Finds, Deploys
<1>3. SeenDeployed' /\ ReadVerified' /\ KeptSoFar' /\ StoresFollowLedger' /\ ResolvedIsUsable'
  BY DEF SeenDeployed, Deployed, Found, ReadVerified, Verifying, KeptSoFar, HasKey,
         StoresFollowLedger, ResolvedIsUsable, Finds, Deploys
<1>. QED
  BY <1>1, <1>2, <1>3

LEMMA JoinInvNext == JoinInv /\ [JoinNext]_joinVars => JoinInv'
<1>. SUFFICES ASSUME JoinInv, [JoinNext]_joinVars
              PROVE  JoinInv'
  OBVIOUS
<1>. USE ClientAssumption, DeployFindAssumption DEF JoinInv
<1>1. ASSUME NEW f \in Flow, StartFind(f) \/ StartDeploy(f)
      PROVE  JoinInv'
  <2>1. PICK to \in {"watchDeploy", "verifierKeys"} :
          /\ Goto(f, "idle", to) /\ UNCHANGED <<ledger, status, store, joinReads>>
          /\ \/ f \in Finds /\ to = "watchDeploy"
             \/ f \in Deploys /\ to = "verifierKeys"
    BY <1>1 DEF StartFind, StartDeploy, Start
  <2>2. CASE f \in Finds /\ to = "watchDeploy"
    BY <2>1, <2>2, FindMoveKeepsInv DEF FindStages, Found, Verifying, HasKey
  <2>3. CASE f \in Deploys /\ to = "verifierKeys"
    BY <2>1, <2>3, DeployMoveKeepsInv DEF DeployStages, BeforeSubmit
  <2>. QED
    BY <2>1, <2>2, <2>3
<1>2. ASSUME NEW f \in Flow, WatchForDeployTxData(f) \/ QueryDeployContractState(f)
      PROVE  JoinInv'
  <2>1. PICK from \in {"watchDeploy", "queryDeploy"},
             to \in {"queryDeploy", "queryContract", "failed"} :
          /\ Goto(f, from, to) /\ UNCHANGED <<ledger, status, store, joinReads>>
          /\ f \in Finds /\ f \notin Deploys /\ (to # "failed" => Deployed)
    BY <1>2 DEF WatchForDeployTxData, QueryDeployContractState, Finds, Deploys
  <2>. QED
    BY <2>1, FindMoveKeepsInv DEF FindStages, Found, Verifying, HasKey
<1>3. ASSUME NEW f \in Flow, QueryCurrentState(f) \/ GetExistingKey(f)
      PROVE  JoinInv'
  BY <1>3, ReadKeepsInv
<1>4. ASSUME NEW f \in Flow, GetVerifierKeys(f)
      PROVE  JoinInv'
  <2>1. UNCHANGED <<ledger, status, store, joinReads>>
    BY <1>4 DEF GetVerifierKeys
  <2>2. CASE f \in Deploys /\ Goto(f, "verifierKeys", "prove")
    <3>1. f \notin Finds
      BY <2>2 DEF Finds, Deploys
    <3>. QED
      BY <2>1, <2>2, <3>1, DeployMoveKeepsInv DEF DeployStages, BeforeSubmit
  <2>3. CASE f \in Finds
    <3>1. PICK to \in {"failed", "setKey", "getKey"} :
            Goto(f, "verifierKeys", to) /\ (to # "failed" => Verified(f))
      BY <1>4, <2>3 DEF GetVerifierKeys, Finds, Deploys
    <3>2. Verified(f) => readOperations[f] = LocalVk
      BY DEF Verified, JoinTypeOK
    <3>3. f \notin Deploys /\ Deployed
      BY <2>3, <3>1 DEF Finds, Deploys, SeenDeployed, Found, Goto
    <3>. QED
      BY <2>1, <2>3, <3>1, <3>2, <3>3, FindMoveKeepsInv DEF FindStages, Found, Verifying, HasKey
  <2>. QED
    BY <1>4, <2>2, <2>3 DEF GetVerifierKeys
<1>5. ASSUME NEW f \in Flow, SetInitialKey(f) \/ SetInitialPrivateState(f)
      PROVE  JoinInv'
  BY <1>5, SetInitialKeyKeepsInv, SetInitialPrivateStateKeepsInv
<1>6. ASSUME NEW f \in Flow, GetExistingPrivateState(f)
      PROVE  JoinInv'
  <2>1. PICK to \in {"done", "failed"} :
          /\ Goto(f, "getPrivate", to) /\ (to = "done" => privateState # NoState)
          /\ UNCHANGED <<ledger, status, store, joinReads>>
          /\ f \in Finds /\ f \notin Deploys
    BY <1>6 DEF GetExistingPrivateState, Finds, Deploys
  <2>2. Deployed /\ signingKey # NoKey /\ resultKey[f] # NoKey
    BY <2>1 DEF Goto, SeenDeployed, Found, KeptSoFar, HasKey
  <2>. QED
    BY <2>1, <2>2, FindMoveKeepsInv DEF FindStages, Found, Verifying, HasKey
<1>7. ASSUME NEW f \in Flow, f \in Deploys, Pipeline(f), UNCHANGED joinReads
      PROVE  JoinInv'
  <2>1. f \notin Finds /\ UNCHANGED <<ledger, store>>
    BY <1>7 DEF Finds, Deploys, Pipeline, GetZkConfig, ProveTx, BalanceTx, SubmitTx
  <2>2. CASE GetZkConfig(f)
    BY <1>7, <2>2 DEF GetZkConfig, Goto, JoinProgress, DeployStages
  <2>3. CASE ProveTx(f) \/ BalanceTx(f)
    <3>1. PICK from \in {"prove", "balance"}, to \in {"balance", "submit"} :
            Goto(f, from, to) /\ status' = status
      BY <2>3 DEF ProveTx, BalanceTx
    <3>. QED
      BY <1>7, <2>1, <3>1, DeployMoveKeepsInv DEF DeployStages, BeforeSubmit
  <2>4. CASE SubmitTx(f)
    <3>1. PICK to \in {"watch", "failed"} : Goto(f, "submit", to)
      BY <2>4 DEF SubmitTx
    <3>. QED
      BY <1>7, <2>1, <2>4, <3>1, DeployMoveKeepsInv DEF SubmitTx, DeployStages, BeforeSubmit
  <2>. QED
    BY <1>7, <2>2, <2>3, <2>4 DEF Pipeline
<1>8. ASSUME NEW f \in Flow, SettleDeploy(f)
      PROVE  JoinInv'
  <2>1. PICK to \in {"setPrivate", "setKey", "failed"} :
          /\ Goto(f, "watch", to) /\ (to # "failed" => status[f] = "SucceedEntirely")
          /\ to = "setKey" => f \notin WithId
          /\ UNCHANGED <<ledger, status, store, joinReads>>
          /\ f \in Deploys /\ f \notin Finds
    BY <1>8 DEF SettleDeploy, Settle, Finds, Deploys
  <2>. QED
    BY <2>1, DeployMoveKeepsInv DEF DeployStages, BeforeSubmit
<1>9. ASSUME NEW f \in Flow, FinalizeDeploy(f)
      PROVE  JoinInv'
  BY <1>9, FinalizeDeployKeepsInv
<1>10. ASSUME NEW f \in Flow, Reject(f), UNCHANGED joinReads
       PROVE  JoinInv'
  <2>1. pc' = [g \in Flow |-> IF g \in {f} THEN "failed" ELSE pc[g]]
    BY <1>10 DEF Reject, JoinTypeOK, ClientTypeOK
  <2>2. {f} \in SUBSET Flow /\ \A g \in {f} : Active(g)
    BY <1>10 DEF Reject
  <2>3. UNCHANGED <<ledger, status, store, joinReads>>
    BY <1>10 DEF Reject
  <2>. HIDE DEF JoinInv
  <2>. QED
    BY <2>1, <2>2, <2>3, EndKeepsInv
<1>11. ASSUME Crash, UNCHANGED joinReads
       PROVE  JoinInv'
  <2>. DEFINE S == {f \in Flow : Active(f)}
  <2>1. pc' = [f \in Flow |-> IF f \in S THEN "lost" ELSE pc[f]]
    BY <1>11 DEF Crash
  <2>2. S \in SUBSET Flow /\ \A f \in S : Active(f)
    OBVIOUS
  <2>3. UNCHANGED <<ledger, status, store, joinReads>>
    BY <1>11 DEF Crash
  <2>. HIDE DEF JoinInv, S
  <2>. QED
    BY <2>1, <2>2, <2>3, EndKeepsInv
<1>12. CASE UNCHANGED joinVars
  BY <1>12 DEF joinVars, joinReads, ledger, store, JoinTypeOK, ClientTypeOK, JoinProgress,
     NotSubmitted, SeenDeployed, Deployed, ReadVerified, KeptSoFar, StoresFollowLedger,
     ResolvedIsUsable
<1>. QED
  BY <1>1, <1>2, <1>3, <1>4, <1>5, <1>6, <1>7, <1>8, <1>9, <1>10, <1>11, <1>12
     DEF JoinNext, JoinStep

LEMMA JoinInvariant == JoinSpec => []JoinInv
BY JoinInvInit, JoinInvNext, PTL DEF JoinSpec

-----------------------------------------------------------------------------

(* Every variable keeps its type. *)
THEOREM JoinTypeCorrect == JoinSpec => []JoinTypeOK
<1>1. JoinInv => JoinTypeOK
  BY DEF JoinInv
<1>. QED
  BY <1>1, JoinInvariant, PTL

(* Whatever fails, rejects or dies, nothing is stored for a contract that the
   ledger does not have. *)
THEOREM StoresDoFollowLedger == JoinSpec => []StoresFollowLedger
<1>1. JoinInv => StoresFollowLedger
  BY DEF JoinInv
<1>. QED
  BY <1>1, JoinInvariant, PTL

(* A deployment or a find that resolved left a key, and the private state it
   names, however many others overlapped with it. *)
THEOREM ResolvedIsUsed == JoinSpec => []ResolvedIsUsable
<1>1. JoinInv => ResolvedIsUsable
  BY DEF JoinInv
<1>. QED
  BY <1>1, JoinInvariant, PTL

(* Whatever it was given to store, no flow stores it for a contract with other
   verifier keys than the client has. *)
THEOREM ForeignContractIsUntouched == JoinSpec => ForeignContractUntouched
<1>1. ASSUME JoinInv, [JoinNext]_joinVars, Deployed, operations # LocalVk
      PROVE  UNCHANGED store
  <2>1. ASSUME NEW f \in Flow
        PROVE  ~SetInitialKey(f) /\ ~SetInitialPrivateState(f)
    BY <1>1, <2>1 DEF JoinInv, SetInitialKey, SetInitialPrivateState, Goto, SeenDeployed,
                      ReadVerified, Verifying
  <2>. QED
    BY <1>1, <2>1 DEF JoinNext, JoinStep, StartFind, StartDeploy, WatchForDeployTxData,
       QueryDeployContractState, QueryCurrentState, GetVerifierKeys, GetExistingKey,
       GetExistingPrivateState, Pipeline, GetZkConfig, ProveTx, BalanceTx, SubmitTx,
       SettleDeploy, Settle, FinalizeDeploy, Reject, Crash, joinVars
<1>2. JoinInv /\ [JoinNext]_joinVars =>
        [Deployed /\ operations # LocalVk => UNCHANGED store]_joinVars
  BY <1>1
<1>. QED
  BY <1>2, JoinInvariant, PTL DEF JoinSpec, ForeignContractUntouched

=============================================================================
