-------------------------- MODULE OperationProofs ---------------------------
(***************************************************************************)
(* The operations on a contract that is there, those of one component at a *)
(* time.  For every set of flows, keys, circuits and verifier keys,        *)
(* maintenance never leaves the client holding another key than the        *)
(* authority without a flow to blame for it, and never overwrites a        *)
(* verifier key.  For every set of calls and every order the application   *)
(* imposes on them, the stored private state only ever holds what the      *)
(* ledger applied, and an application that awaits each call loses no       *)
(* update and never runs a call on a private state that its public state   *)
(* does not match.                                                         *)
(***************************************************************************)
EXTENDS Maintenance, CallTx, TLAPS

-----------------------------------------------------------------------------
(* Maintenance *)

(* No step takes a variable out of its type. *)
LEMMA MaintTypeNext == MaintTypeOK /\ [MaintNext]_maintVars => MaintTypeOK'
<1>. USE ClientAssumption, MaintenanceAssumption
<1>. SUFFICES ASSUME MaintTypeOK, [MaintNext]_maintVars
              PROVE  MaintTypeOK'
  OBVIOUS
<1>. USE DEF MaintTypeOK, ClientTypeOK, Stages, Ended, Finalized,
             ledger, store, maintReads
<1>1. ASSUME NEW f \in Flow, QueryContractState(f)
      PROVE  MaintTypeOK'
  BY <1>1 DEF QueryContractState, Start, Goto
<1>2. ASSUME NEW f \in Flow, GetSigningKey(f)
      PROVE  MaintTypeOK'
  BY <1>2 DEF GetSigningKey, Goto
<1>3. ASSUME NEW f \in Flow, Pipeline(f), UNCHANGED maintReads
      PROVE  MaintTypeOK'
  BY <1>3 DEF Pipeline, GetZkConfig, ProveTx, BalanceTx, SubmitTx, Goto
<1>4. ASSUME NEW f \in Flow, SettleUpdate(f)
      PROVE  MaintTypeOK'
  BY <1>4 DEF SettleUpdate, Settle, Goto
<1>5. ASSUME NEW f \in Flow, SetSigningKey(f)
      PROVE  MaintTypeOK'
  BY <1>5 DEF SetSigningKey, Goto
<1>6. ASSUME NEW f \in Flow, FinalizeUpdate(f)
      PROVE  MaintTypeOK'
  BY <1>6 DEF FinalizeUpdate, Finalize, ApplyUpdate, Advanced
<1>7. ASSUME NEW f \in Flow, Reject(f), UNCHANGED maintReads
      PROVE  MaintTypeOK'
  BY <1>7 DEF Reject
<1>8. ASSUME Crash, UNCHANGED maintReads
      PROVE  MaintTypeOK'
  BY <1>8 DEF Crash
<1>9. CASE UNCHANGED maintVars
  BY <1>9 DEF maintVars
<1>. QED
  BY <1>1, <1>2, <1>3, <1>4, <1>5, <1>6, <1>7, <1>8, <1>9
     DEF MaintNext, MaintStep

(* Every variable keeps its type. *)
THEOREM MaintTypeCorrect == MaintSpec => []MaintTypeOK
<1>1. MaintInit => MaintTypeOK
  BY ClientAssumption, MaintenanceAssumption
     DEF MaintInit, MaintReadsInit, MaintTypeOK, ClientTypeOK, Stages, Ended
<1>. QED
  BY <1>1, MaintTypeNext, PTL DEF MaintSpec

-----------------------------------------------------------------------------
(* Signing keys *)

(* The key of a new authority leaves its flow only through setSigningKey,
   which comes after success: until then no one else can sign with it. *)
NotStored(f) == status[f] # "SucceedEntirely" \/ pc[f] \in {"watch", "setKey"}

(* Where a flow can be, given what became of its transaction. *)
Progress ==
  \A f \in Flow :
    /\ pc[f] \in {"idle", "getKey", "zkConfig", "prove", "balance", "submit"}
         => status[f] = "none"
    /\ status[f] = "pending" => pc[f] \in {"watch", "failed", "lost"}
    /\ pc[f] = "setKey" => status[f] = "SucceedEntirely"

KeySecret ==
  \A f \in Replacers :
    NotStored(f) => /\ signingKey # NewKey[f]
                    /\ \A g \in Flow : readKey[g] # NewKey[f]

(* A key that waits to be stored is the authority: nobody else can replace
   it, for want of a signature. *)
UnstoredIsAuthority ==
  \A f \in Replacers :
    status[f] = "SucceedEntirely" /\ pc[f] \in {"watch", "setKey"}
      => authority = NewKey[f]

(* Whoever read the authority key can still find it in the store. *)
SignerStored ==
  \A g \in Flow : readKey[g] = authority => signingKey = authority

KeyInv ==
  /\ MaintTypeOK
  /\ authority \in Key
  /\ Progress
  /\ KeySecret
  /\ UnstoredIsAuthority
  /\ SignerStored
  /\ AuthorityKeyHeld

(* At the start the client holds the key the contract was deployed with, and
   no sampled key is anywhere. *)
LEMMA KeyInvInit == DistinctKeys /\ MaintInit => KeyInv
<1>. SUFFICES ASSUME DistinctKeys, MaintInit
              PROVE  KeyInv
  OBVIOUS
<1>. USE ClientAssumption, MaintenanceAssumption
<1>1. MaintTypeOK
  BY DEF MaintInit, MaintReadsInit, MaintTypeOK, ClientTypeOK, Stages, Ended
<1>2. KeySecret
  BY DEF MaintInit, MaintReadsInit, KeySecret, DistinctKeys, Replacers
<1>. QED
  BY <1>1, <1>2 DEF MaintInit, MaintReadsInit, KeyInv, Progress,
       UnstoredIsAuthority, SignerStored, AuthorityKeyHeld, Replacers

(* Every await of the three maintenance operations, every outcome of their
   transactions, and every rejection or crash keeps the stored key and the
   authority in step. *)
LEMMA KeyInvNext == DistinctKeys /\ KeyInv /\ [MaintNext]_maintVars => KeyInv'
<1>. SUFFICES ASSUME DistinctKeys, KeyInv, [MaintNext]_maintVars
              PROVE  KeyInv'
  OBVIOUS
<1>. USE ClientAssumption, MaintenanceAssumption
<1>t. MaintTypeOK /\ MaintTypeOK'
  BY MaintTypeNext DEF KeyInv
<1>k. DistinctKeys'
  BY DEF DistinctKeys, Replacers
<1>. USE <1>t DEF KeyInv, MaintTypeOK, ClientTypeOK, ledger, store, maintReads,
                  NotStored, Replacers, Finalized
<1>1. ASSUME NEW f \in Flow, QueryContractState(f)
      PROVE  KeyInv'
  <2>. USE <1>1 DEF QueryContractState, Start, Goto
  <2>1. Progress'
    BY DEF Progress
  <2>2. KeySecret'
    BY DEF KeySecret
  <2>3. UnstoredIsAuthority' /\ SignerStored' /\ AuthorityKeyHeld'
    BY DEF UnstoredIsAuthority, SignerStored, AuthorityKeyHeld
  <2>. QED
    BY <2>1, <2>2, <2>3
<1>2. ASSUME NEW f \in Flow, GetSigningKey(f)
      PROVE  KeyInv'
  <2>. USE <1>2 DEF GetSigningKey, Goto
  <2>1. Progress'
    BY DEF Progress
  <2>2. KeySecret'
    BY DEF KeySecret
  <2>3. UnstoredIsAuthority' /\ AuthorityKeyHeld'
    BY DEF UnstoredIsAuthority, AuthorityKeyHeld
  <2>4. SignerStored'
    BY DEF SignerStored
  <2>. QED
    BY <2>1, <2>2, <2>3, <2>4
<1>3. ASSUME NEW f \in Flow, Pipeline(f), UNCHANGED maintReads
      PROVE  KeyInv'
  <2>1. CASE SubmitTx(f)
    <3>. USE <1>3, <2>1 DEF SubmitTx, Goto
    <3>1. Progress'
      BY DEF Progress
    <3>2. KeySecret'
      BY DEF KeySecret, Progress
    <3>3. UnstoredIsAuthority' /\ SignerStored' /\ AuthorityKeyHeld'
      BY DEF UnstoredIsAuthority, SignerStored, AuthorityKeyHeld, Progress
    <3>. QED
      BY <3>1, <3>2, <3>3
  <2>2. CASE GetZkConfig(f) \/ ProveTx(f) \/ BalanceTx(f)
    <3>. USE <1>3, <2>2 DEF GetZkConfig, ProveTx, BalanceTx, Goto
    <3>1. Progress'
      BY DEF Progress
    <3>2. KeySecret'
      BY DEF KeySecret
    <3>3. UnstoredIsAuthority' /\ SignerStored' /\ AuthorityKeyHeld'
      BY DEF UnstoredIsAuthority, SignerStored, AuthorityKeyHeld
    <3>. QED
      BY <3>1, <3>2, <3>3
  <2>. QED
    BY <1>3, <2>1, <2>2 DEF Pipeline
<1>4. ASSUME NEW f \in Flow, SettleUpdate(f)
      PROVE  KeyInv'
  <2>. USE <1>4 DEF SettleUpdate, Settle, Goto
  <2>1. Progress'
    BY DEF Progress
  <2>2. KeySecret'
    BY DEF KeySecret
  <2>3. UnstoredIsAuthority' /\ SignerStored' /\ AuthorityKeyHeld'
    BY DEF UnstoredIsAuthority, SignerStored, AuthorityKeyHeld
  <2>. QED
    BY <2>1, <2>2, <2>3
<1>5. ASSUME NEW f \in Flow, SetSigningKey(f)
      PROVE  KeyInv'
  <2>. USE <1>5 DEF SetSigningKey, Goto
  <2>1. authority = NewKey[f]
    BY DEF UnstoredIsAuthority, Progress
  <2>2. Progress'
    BY DEF Progress
  <2>3. KeySecret'
    BY DEF KeySecret, Progress, DistinctKeys
  <2>4. UnstoredIsAuthority' /\ SignerStored' /\ AuthorityKeyHeld'
    BY <2>1 DEF UnstoredIsAuthority, SignerStored, AuthorityKeyHeld
  <2>. QED
    BY <2>2, <2>3, <2>4
<1>6. ASSUME NEW f \in Flow, FinalizeUpdate(f)
      PROVE  KeyInv'
  <2>. USE <1>6 DEF FinalizeUpdate, Finalize
  <2>1. Progress'
    BY DEF Progress
  <2>2. KeySecret'
    BY DEF KeySecret
  <2>3. CASE ~(f \in Replacers /\ status'[f] = "SucceedEntirely")
    <3>1. UNCHANGED authority
      BY <2>3 DEF ApplyUpdate
    <3>2. UnstoredIsAuthority'
      BY <2>3, <3>1 DEF UnstoredIsAuthority
    <3>3. SignerStored' /\ AuthorityKeyHeld'
      BY <3>1 DEF SignerStored, AuthorityKeyHeld
    <3>. QED
      BY <2>1, <2>2, <3>1, <3>2, <3>3
  <2>4. CASE f \in Replacers /\ status'[f] = "SucceedEntirely"
    <3>1. /\ f \in Replacers
          /\ status[f] = "pending"
          /\ status' = [status EXCEPT ![f] = "SucceedEntirely"]
          /\ readKey[f] = authority
          /\ authority' = NewKey[f]
      BY <2>4 DEF ApplyUpdate, Accepted
    <3>2. \A g \in Flow : readKey[g] # NewKey[f]
      BY <3>1 DEF KeySecret
    <3>3. UnstoredIsAuthority'
      BY <3>1 DEF UnstoredIsAuthority, KeySecret
    <3>4. SignerStored'
      BY <3>1, <3>2 DEF SignerStored
    <3>5. AuthorityKeyHeld'
      BY <3>1 DEF AuthorityKeyHeld, Progress
    <3>. QED
      BY <2>1, <2>2, <3>1, <3>3, <3>4, <3>5
  <2>. QED
    BY <2>3, <2>4
<1>7. ASSUME NEW f \in Flow, Reject(f), UNCHANGED maintReads
      PROVE  KeyInv'
  <2>. USE <1>7 DEF Reject, Active, Ended
  <2>1. Progress'
    BY DEF Progress
  <2>2. KeySecret'
    BY DEF KeySecret
  <2>3. UnstoredIsAuthority' /\ SignerStored' /\ AuthorityKeyHeld'
    BY DEF UnstoredIsAuthority, SignerStored, AuthorityKeyHeld
  <2>. QED
    BY <2>1, <2>2, <2>3
<1>8. ASSUME Crash, UNCHANGED maintReads
      PROVE  KeyInv'
  <2>. USE <1>8 DEF Crash, Active, Ended
  <2>1. Progress'
    BY DEF Progress
  <2>2. KeySecret'
    BY DEF KeySecret
  <2>3. UnstoredIsAuthority' /\ SignerStored' /\ AuthorityKeyHeld'
    BY DEF UnstoredIsAuthority, SignerStored, AuthorityKeyHeld
  <2>. QED
    BY <2>1, <2>2, <2>3
<1>9. CASE UNCHANGED maintVars
  BY <1>9 DEF maintVars, Progress, KeySecret, UnstoredIsAuthority,
              SignerStored, AuthorityKeyHeld
<1>. QED
  BY <1>1, <1>2, <1>3, <1>4, <1>5, <1>6, <1>7, <1>8, <1>9
     DEF MaintNext, MaintStep

(* With sampled keys, maintenance keeps the invariant forever. *)
LEMMA KeyInvariant == DistinctKeys /\ MaintSpec => []KeyInv
<1>1. DistinctKeys => []DistinctKeys
  <2>1. DistinctKeys => DistinctKeys'
    BY DEF DistinctKeys, Replacers
  <2>. QED
    BY <2>1, PTL
<1>. QED
  BY <1>1, KeyInvInit, KeyInvNext, PTL DEF MaintSpec

(* With sampled keys, the authority's key is in the store unless the flow
   that installed it is about to store it, failed, or died
   (submitReplaceAuthorityTx). *)
THEOREM AuthorityKeyIsHeld == DistinctKeys /\ MaintSpec => []AuthorityKeyHeld
<1>1. KeyInv => AuthorityKeyHeld
  BY DEF KeyInv
<1>. QED
  BY <1>1, KeyInvariant, PTL

(* With sampled keys, maintenance implements KeyCustody: a new authority is
   installed only by a client that holds the current one, and only the
   current authority is ever stored. *)
THEOREM MaintenanceImplementsCustody == DistinctKeys /\ MaintSpec => CustodySpec
<1>1. MaintInit => Custody!Init
  BY MaintenanceAssumption DEF MaintInit, Custody!Init
<1>2. DistinctKeys /\ KeyInv /\ [MaintNext]_maintVars
        => [Custody!Next]_<<authority, signingKey>>
  <2>. SUFFICES ASSUME DistinctKeys, KeyInv, [MaintNext]_maintVars
                PROVE  [Custody!Next]_<<authority, signingKey>>
    OBVIOUS
  <2>. USE ClientAssumption, MaintenanceAssumption
       DEF KeyInv, MaintTypeOK, ClientTypeOK, ledger, store, Replacers, NotStored
  <2>1. ASSUME NEW f \in Flow, FinalizeUpdate(f), authority' # authority
        PROVE  Custody!Install
    <3>1. /\ f \in Replacers
          /\ status[f] = "pending"
          /\ readKey[f] = authority
          /\ authority' = NewKey[f]
          /\ UNCHANGED signingKey
      BY <2>1 DEF FinalizeUpdate, Finalize, ApplyUpdate, Accepted
    <3>2. signingKey = authority /\ NewKey[f] # authority
      BY <3>1 DEF SignerStored, KeySecret
    <3>. QED
      BY <3>1, <3>2 DEF Custody!Install
  <2>2. ASSUME NEW f \in Flow, SetSigningKey(f)
        PROVE  Custody!Keep
    <3>1. /\ f \in Replacers
          /\ pc[f] = "setKey"
          /\ signingKey' = NewKey[f]
          /\ UNCHANGED authority
      BY <2>2 DEF SetSigningKey, Goto
    <3>2. authority = NewKey[f] /\ signingKey # NewKey[f]
      BY <3>1 DEF UnstoredIsAuthority, KeySecret, Progress
    <3>. QED
      BY <3>1, <3>2 DEF Custody!Keep
  <2>3. ASSUME UNCHANGED <<authority, signingKey>>
        PROVE  [Custody!Next]_<<authority, signingKey>>
    BY <2>3
  <2>4. ASSUME NEW f \in Flow, FinalizeUpdate(f)
        PROVE  UNCHANGED signingKey
    BY <2>4 DEF FinalizeUpdate
  <2>5. ASSUME NEW f \in Flow,
               \/ QueryContractState(f)
               \/ GetSigningKey(f)
               \/ Pipeline(f)
               \/ SettleUpdate(f)
               \/ Reject(f)
        PROVE  UNCHANGED <<authority, signingKey>>
    BY <2>5 DEF QueryContractState, GetSigningKey, Pipeline, GetZkConfig,
                ProveTx, BalanceTx, SubmitTx, SettleUpdate, Settle, Reject
  <2>6. CASE Crash \/ UNCHANGED maintVars
    BY <2>6 DEF Crash, maintVars
  <2>. QED
    BY <2>1, <2>2, <2>3, <2>4, <2>5, <2>6
       DEF MaintNext, MaintStep, Custody!Next
<1>3. DistinctKeys => []DistinctKeys
  <2>1. DistinctKeys => DistinctKeys'
    BY DEF DistinctKeys, Replacers
  <2>. QED
    BY <2>1, PTL
<1>. QED
  BY <1>1, <1>2, <1>3, KeyInvariant, PTL DEF MaintSpec, CustodySpec, Custody!Spec

-----------------------------------------------------------------------------
(* Verifier keys *)

Preparing(f) ==
  \/ pc[f] \in {"getKey", "zkConfig", "prove", "balance", "submit", "watch"}
  \/ status[f] = "pending"

(* As long as the counter an insertion read is current, so is what it saw:
   its circuit has no verifier key. *)
InsertionFresh ==
  \A f \in Flow :
    /\ readCounter[f] <= counter
    /\ Kind[f] = "insertVk" /\ Preparing(f) /\ readCounter[f] = counter
         => operations[Target[f]] = NoVk

VkInv == MaintTypeOK /\ Progress /\ InsertionFresh

(* No insertion has seen anything yet. *)
LEMMA VkInvInit == MaintInit => VkInv
<1>. USE ClientAssumption, MaintenanceAssumption
<1>1. MaintInit => MaintTypeOK
  BY DEF MaintInit, MaintReadsInit, MaintTypeOK, ClientTypeOK, Stages, Ended
<1>. QED
  BY <1>1 DEF MaintInit, MaintReadsInit, VkInv, Progress, InsertionFresh,
              Preparing

(* A successful update advances the counter. *)
LEMMA UpdateAdvances ==
  ASSUME NEW f \in Flow, MaintTypeOK, VkUpdatesCount,
         Accepted(f), ApplyUpdate(f)
  PROVE  counter' = counter + 1
BY DEF ApplyUpdate, Accepted, Advanced

(* What submitInsertVerifierKeyTx saw of its circuit stays true until the
   counter it read is out of date. *)
LEMMA VkInvNext ==
  VkUpdatesCount /\ VkInv /\ [MaintNext]_maintVars => VkInv'
<1>. SUFFICES ASSUME VkUpdatesCount, VkInv, [MaintNext]_maintVars
              PROVE  VkInv'
  OBVIOUS
<1>. USE ClientAssumption, MaintenanceAssumption
<1>t. MaintTypeOK /\ MaintTypeOK'
  BY MaintTypeNext DEF VkInv
<1>. USE <1>t DEF VkInv, MaintTypeOK, ClientTypeOK, ledger, store, maintReads,
                  Finalized, Preparing
<1>1. ASSUME NEW f \in Flow, QueryContractState(f)
      PROVE  VkInv'
  <2>. USE <1>1 DEF QueryContractState, Start, Goto
  <2>1. Progress'
    BY DEF Progress
  <2>2. InsertionFresh'
    BY DEF InsertionFresh, Maintainable, Progress
  <2>. QED
    BY <2>1, <2>2
<1>2. ASSUME NEW f \in Flow, GetSigningKey(f)
      PROVE  VkInv'
  <2>. USE <1>2 DEF GetSigningKey, Goto
  <2>. QED
    BY DEF Progress, InsertionFresh
<1>3. ASSUME NEW f \in Flow, Pipeline(f), UNCHANGED maintReads
      PROVE  VkInv'
  <2>. USE <1>3 DEF Pipeline, GetZkConfig, ProveTx, BalanceTx, SubmitTx, Goto
  <2>1. Progress'
    BY DEF Progress
  <2>2. InsertionFresh'
    BY DEF InsertionFresh
  <2>. QED
    BY <2>1, <2>2
<1>4. ASSUME NEW f \in Flow, SettleUpdate(f)
      PROVE  VkInv'
  BY <1>4 DEF SettleUpdate, Settle, Goto, Progress, InsertionFresh
<1>5. ASSUME NEW f \in Flow, SetSigningKey(f)
      PROVE  VkInv'
  BY <1>5 DEF SetSigningKey, Goto, Progress, InsertionFresh
<1>6. ASSUME NEW f \in Flow, FinalizeUpdate(f)
      PROVE  VkInv'
  <2>. USE <1>6 DEF FinalizeUpdate, Finalize
  <2>1. Progress'
    BY DEF Progress
  <2>2. CASE Accepted(f) /\ ApplyUpdate(f)
    <3>1. counter' = counter + 1
      BY <2>2, UpdateAdvances
    <3>2. InsertionFresh'
      BY <3>1 DEF InsertionFresh
    <3>. QED
      BY <2>1, <3>2
  <2>3. CASE UNCHANGED ledger
    BY <2>1, <2>3 DEF InsertionFresh
  <2>. QED
    BY <2>2, <2>3
<1>7. ASSUME NEW f \in Flow, Reject(f), UNCHANGED maintReads
      PROVE  VkInv'
  BY <1>7 DEF Reject, Active, Ended, Progress, InsertionFresh
<1>8. ASSUME Crash, UNCHANGED maintReads
      PROVE  VkInv'
  BY <1>8 DEF Crash, Active, Ended, Progress, InsertionFresh
<1>9. CASE UNCHANGED maintVars
  BY <1>9 DEF maintVars, Progress, InsertionFresh
<1>. QED
  BY <1>1, <1>2, <1>3, <1>4, <1>5, <1>6, <1>7, <1>8, <1>9
     DEF MaintNext, MaintStep

(* If the ledger advances the counter with every update, an insertion never
   overwrites a verifier key, although submitInsertVerifierKeyTx checks that
   the circuit is undefined long before its transaction takes effect. *)
THEOREM VerifierKeyIsNotOverwritten ==
  VkUpdatesCount /\ MaintSpec => VerifierKeyNotOverwritten
<1>1. VkUpdatesCount /\ MaintSpec => []VkInv
  <2>1. VkUpdatesCount => []VkUpdatesCount
    <3>1. VkUpdatesCount => VkUpdatesCount'
      OBVIOUS
    <3>. QED
      BY <3>1, PTL
  <2>. QED
    BY <2>1, VkInvInit, VkInvNext, PTL DEF MaintSpec
<1>2. VkInv /\ [MaintNext]_maintVars
        => [\A c \in Circuit :
              operations[c] # NoVk => operations'[c] \in {operations[c], NoVk}]_maintVars
  <2>. SUFFICES ASSUME VkInv, [MaintNext]_maintVars,
                       NEW c \in Circuit, operations[c] # NoVk,
                       operations' # operations
                PROVE  operations'[c] \in {operations[c], NoVk}
    OBVIOUS
  <2>. USE DEF ledger
  <2>1. PICK f \in Flow : FinalizeUpdate(f)
    BY DEF MaintNext, MaintStep, QueryContractState, GetSigningKey, Pipeline,
           GetZkConfig, ProveTx, BalanceTx, SubmitTx, SettleUpdate, Settle,
           SetSigningKey, Reject, Crash, maintVars
  <2>2. Accepted(f) /\ ApplyUpdate(f) /\ status[f] = "pending"
    BY <2>1 DEF FinalizeUpdate, Finalize
  <2>3. Kind[f] = "insertVk" => operations[Target[f]] = NoVk
    BY <2>2 DEF VkInv, InsertionFresh, Preparing, Accepted
  <2>. QED
    BY <2>2, <2>3, MaintenanceAssumption
       DEF ApplyUpdate, VkInv, MaintTypeOK, ClientTypeOK
<1>. QED
  BY <1>1, <1>2, PTL DEF MaintSpec, VerifierKeyNotOverwritten


-----------------------------------------------------------------------------
(* Calls *)

(* The stages of a call that has read its states. *)
Running == {"zkConfig", "prove", "balance", "submit", "watch", "setPrivate"}

(* Where a call can be, given what became of its transaction. *)
CallProgress ==
  \A f \in Calls :
    /\ pc[f] \in {"idle", "getPrivate", "zkConfig", "prove", "balance", "submit"}
         => status[f] = "none"
    /\ status[f] = "pending" => pc[f] \in {"watch", "failed", "lost"}
    /\ pc[f] \in {"setPrivate", "done"} => status[f] = "SucceedEntirely"

(* A call that stores a private state ran on one. *)
RanOnState ==
  \A f \in Calls :
    /\ pc[f] = "setPrivate" => UsesPrivate[f]
    /\ UsesPrivate[f] /\ pc[f] \in Running => readPrivate[f] # NoState

CallBase == CallTypeOK /\ CallProgress /\ RanOnState

(* A call begins without a transaction and without a private state. *)
LEMMA CallBaseInit == CallInit => CallBase
BY ClientAssumption, CallAssumption
   DEF CallInit, CallReadsInit, CallBase, CallTypeOK, ClientTypeOK, Stages,
       Ended, PrivateState, CallProgress, RanOnState, Running, Calls

(* submitCallTx stores a private state only on the path of a call that read
   one, and only after its transaction succeeded: the order of its awaits. *)
LEMMA CallBaseNext == CallBase /\ [CallNext]_callVars => CallBase'
<1>. USE ClientAssumption, CallAssumption
<1>. SUFFICES ASSUME CallBase, [CallNext]_callVars
              PROVE  CallBase'
  OBVIOUS
<1>. USE DEF CallBase, CallTypeOK, ClientTypeOK, PrivateState, Calls, Stages,
             Ended, Finalized, Running, ledger, store, callReads
<1>1. ASSUME NEW f \in Flow, QueryPublicStates(f)
      PROVE  CallBase'
  <2>. USE <1>1 DEF QueryPublicStates, Start, Goto, ReflectedCalls
  <2>1. CallTypeOK'
    OBVIOUS
  <2>2. CallProgress'
    BY DEF CallProgress
  <2>3. RanOnState'
    BY DEF RanOnState
  <2>. QED
    BY <2>1, <2>2, <2>3
<1>2. ASSUME NEW f \in Flow, GetPrivateState(f)
      PROVE  CallBase'
  <2>. USE <1>2 DEF GetPrivateState, Goto
  <2>1. CallTypeOK'
    OBVIOUS
  <2>2. CallProgress'
    BY DEF CallProgress
  <2>3. RanOnState'
    BY DEF RanOnState
  <2>. QED
    BY <2>1, <2>2, <2>3
<1>3. ASSUME NEW f \in Flow, f \in Calls, Pipeline(f), UNCHANGED callReads
      PROVE  CallBase'
  <2>. USE <1>3 DEF Pipeline, GetZkConfig, ProveTx, BalanceTx, SubmitTx, Goto
  <2>1. CallTypeOK'
    OBVIOUS
  <2>2. CallProgress'
    BY DEF CallProgress
  <2>3. RanOnState'
    BY DEF RanOnState
  <2>. QED
    BY <2>1, <2>2, <2>3
<1>4. ASSUME NEW f \in Flow, SettleCall(f)
      PROVE  CallBase'
  BY <1>4 DEF SettleCall, Settle, Goto, CallProgress, RanOnState
<1>5. ASSUME NEW f \in Flow, SetPrivateState(f)
      PROVE  CallBase'
  <2>1. readPrivate[f] \in SUBSET Flow
    BY <1>5 DEF SetPrivateState, Goto, RanOnState
  <2>2. PICK to \in {"done", "failed"} :
          /\ pc[f] = "setPrivate" /\ f \in Calls
          /\ pc' = [pc EXCEPT ![f] = to]
    BY <1>5 DEF SetPrivateState, Goto
  <2>3. /\ UNCHANGED <<ledger, status, signingKey, callReads>>
        /\ privateState' = readPrivate[f] \cup {f}
    BY <1>5 DEF SetPrivateState, NextPrivateState
  <2>4. CallTypeOK'
    BY <2>1, <2>2, <2>3
  <2>5. CallProgress' /\ RanOnState'
    BY <2>2, <2>3 DEF CallProgress, RanOnState
  <2>. QED
    BY <2>4, <2>5
<1>6. ASSUME NEW f \in Flow, FinalizeCall(f)
      PROVE  CallBase'
  BY <1>6 DEF FinalizeCall, Finalize, CallProgress, RanOnState
<1>7. ASSUME NEW f \in Flow, Reject(f), UNCHANGED callReads
      PROVE  CallBase'
  BY <1>7 DEF Reject, Active, CallProgress, RanOnState
<1>8. ASSUME Crash, UNCHANGED callReads
      PROVE  CallBase'
  BY <1>8 DEF Crash, Active, CallProgress, RanOnState
<1>9. CASE UNCHANGED callVars
  BY <1>9 DEF callVars, CallProgress, RanOnState
<1>. QED
  BY <1>1, <1>2, <1>3, <1>4, <1>5, <1>6, <1>7, <1>8, <1>9 DEF CallNext, CallStep

(* Every variable keeps its type: a private state is stored, never the lack
   of one. *)
THEOREM CallTypeCorrect == CallSpec => []CallTypeOK
<1>1. CallBase => CallTypeOK
  BY DEF CallBase
<1>. QED
  BY <1>1, CallBaseInit, CallBaseNext, PTL DEF CallSpec

-----------------------------------------------------------------------------
(* Only what the ledger applied *)

(* No call has read anything else either. *)
ReadFinalized ==
  \A f \in Flow : readPrivate[f] # NoState => readPrivate[f] \subseteq SucceededCalls

FinalizedInv == CallBase /\ PrivateStateFinalized /\ ReadFinalized

(* A finalized transaction keeps its outcome: submitTx submits once. *)
LEMMA SucceededGrow ==
  CallBase /\ [CallNext]_callVars => SucceededCalls \subseteq SucceededCalls'
<1>. SUFFICES ASSUME CallBase, [CallNext]_callVars
              PROVE  SucceededCalls \subseteq SucceededCalls'
  OBVIOUS
<1>. USE DEF CallBase, CallTypeOK, ClientTypeOK, SucceededCalls, Calls
<1>1. ASSUME NEW f \in Flow, SubmitTx(f)
      PROVE  SucceededCalls \subseteq SucceededCalls'
  BY <1>1 DEF SubmitTx, Goto, CallProgress
<1>2. ASSUME NEW f \in Flow, FinalizeCall(f)
      PROVE  SucceededCalls \subseteq SucceededCalls'
  BY <1>2 DEF FinalizeCall, Finalize
<1>3. CASE UNCHANGED status
  BY <1>3
<1>. QED
  BY <1>1, <1>2, <1>3 DEF CallNext, CallStep, QueryPublicStates,
     GetPrivateState, Pipeline, GetZkConfig, ProveTx, BalanceTx, SettleCall,
     Settle, SetPrivateState, Reject, Crash, callVars

(* What a call reads, or stores, was applied by the ledger when it does. *)
LEMMA FinalizedInvNext == FinalizedInv /\ [CallNext]_callVars => FinalizedInv'
<1>. SUFFICES ASSUME FinalizedInv, [CallNext]_callVars
              PROVE  FinalizedInv'
  OBVIOUS
<1>. USE DEF FinalizedInv
<1>1. CallBase'
  BY CallBaseNext
<1>2. SucceededCalls \subseteq SucceededCalls'
  BY SucceededGrow
<1>. USE DEF PrivateStateFinalized, ReadFinalized
<1>3. ASSUME NEW f \in Flow, GetPrivateState(f)
      PROVE  FinalizedInv'
  BY <1>1, <1>2, <1>3 DEF GetPrivateState, store, CallBase, CallTypeOK
<1>4. ASSUME NEW f \in Flow, SetPrivateState(f)
      PROVE  FinalizedInv'
  <2>1. /\ f \in SucceededCalls
        /\ readPrivate[f] \subseteq SucceededCalls
    BY <1>4 DEF SetPrivateState, Goto, SucceededCalls, CallBase, CallProgress,
                RanOnState, Running
  <2>. QED
    BY <1>1, <1>2, <1>4, <2>1
       DEF SetPrivateState, NextPrivateState, callReads
<1>5. CASE UNCHANGED <<privateState, readPrivate>>
  BY <1>1, <1>2, <1>5
<1>. QED
  BY <1>3, <1>4, <1>5 DEF CallNext, CallStep, QueryPublicStates, Pipeline,
     GetZkConfig, ProveTx, BalanceTx, SubmitTx, SettleCall, Settle,
     FinalizeCall, Reject, Crash, callVars, callReads, store

(* However calls overlap, reject or die with the process, the private state
   submitCallTx stores contains no call that the ledger did not apply. *)
THEOREM PrivateStateIsFinalized == CallSpec => []PrivateStateFinalized
<1>1. CallInit => FinalizedInv
  BY CallBaseInit DEF CallInit, CallReadsInit, FinalizedInv,
     PrivateStateFinalized, ReadFinalized
<1>2. FinalizedInv => PrivateStateFinalized
  BY DEF FinalizedInv
<1>. QED
  BY <1>1, <1>2, FinalizedInvNext, PTL DEF CallSpec

-----------------------------------------------------------------------------
(* Whole updates *)

(* With a call, a private state that was read contains all that call built
   on. *)
ReadWhole ==
  \A f \in Flow : readPrivate[f] # NoState =>
    \A g \in readPrivate[f] : readPrivate[g] \subseteq readPrivate[f]

WholeInv == FinalizedInv /\ PrivateStateWhole /\ ReadWhole

(* A call that has yet to read its private state is in none that was stored or
   read; one that stores its own adds nothing but itself to what it read. *)
LEMMA WholeInvNext == WholeInv /\ [CallNext]_callVars => WholeInv'
<1>. SUFFICES ASSUME WholeInv, [CallNext]_callVars
              PROVE  WholeInv'
  OBVIOUS
<1>. USE DEF WholeInv
<1>1. FinalizedInv'
  BY FinalizedInvNext
<1>2. ASSUME NEW f \in Flow, GetPrivateState(f)
      PROVE  WholeInv'
  <2>1. /\ readPrivate' = [readPrivate EXCEPT ![f] = privateState]
        /\ privateState' = privateState
        /\ readPrivate \in [Flow -> PrivateState \cup {NoState}]
    BY <1>2 DEF GetPrivateState, store, FinalizedInv, CallBase, CallTypeOK
  <2>2. f \notin SucceededCalls
    BY <1>2 DEF GetPrivateState, Goto, FinalizedInv, CallBase, CallProgress, SucceededCalls
  <2>3. /\ privateState # NoState => f \notin privateState /\ privateState \subseteq Flow
        /\ \A g \in Flow : readPrivate[g] # NoState =>
             f \notin readPrivate[g] /\ readPrivate[g] \subseteq Flow
    BY <2>2 DEF FinalizedInv, PrivateStateFinalized, ReadFinalized, SucceededCalls, Calls
  <2>4. PrivateStateWhole'
    BY <2>1, <2>3 DEF PrivateStateWhole
  <2>5. ReadWhole'
    BY <2>1, <2>3 DEF PrivateStateWhole, ReadWhole
  <2>. QED
    BY <1>1, <2>4, <2>5
<1>3. ASSUME NEW f \in Flow, SetPrivateState(f)
      PROVE  WholeInv'
  <2>1. readPrivate' = readPrivate /\ privateState' = readPrivate[f] \cup {f}
    BY <1>3 DEF SetPrivateState, NextPrivateState, callReads
  <2>2. readPrivate[f] # NoState
    BY <1>3 DEF SetPrivateState, Goto, FinalizedInv, CallBase, RanOnState, Running
  <2>3. PrivateStateWhole'
    BY <2>1, <2>2 DEF PrivateStateWhole, ReadWhole
  <2>. QED
    BY <1>1, <2>1, <2>3 DEF ReadWhole
<1>4. CASE UNCHANGED <<privateState, readPrivate>>
  BY <1>1, <1>4 DEF PrivateStateWhole, ReadWhole
<1>. QED
  BY <1>2, <1>3, <1>4 DEF CallNext, CallStep, QueryPublicStates, Pipeline,
     GetZkConfig, ProveTx, BalanceTx, SubmitTx, SettleCall, Settle,
     FinalizeCall, Reject, Crash, callVars, callReads, store

(* However calls overlap, an update of one may be lost to another, but what is
   stored is never half of what a call had built on. *)
THEOREM PrivateStateIsWhole == CallSpec => []PrivateStateWhole
<1>1. CallInit => WholeInv
  BY CallBaseInit DEF CallInit, CallReadsInit, WholeInv, FinalizedInv,
     PrivateStateFinalized, ReadFinalized, PrivateStateWhole, ReadWhole
<1>2. WholeInv => PrivateStateWhole
  BY DEF WholeInv
<1>. QED
  BY <1>1, <1>2, WholeInvNext, PTL DEF CallSpec

-----------------------------------------------------------------------------
(* One call at a time *)

(* What a flow that was started awaited has ended. *)
Awaited == \A g \in Flow : pc[g] # "idle" => \A f \in After[g] : pc[f] \in Ended

(* Stored updates come from calls that name a private state. *)
StoredStateful == privateState # NoState => privateState \subseteq Stateful

(* Nothing is stored behind the back of a call that has read the public
   state, which reflects all that is stored. *)
StoredReflected ==
  \A f \in Stateful :
    pc[f] = "getPrivate" /\ privateState # NoState => privateState \subseteq readPublic[f]

(* A running call has read the updates of the calls that resolved before, and
   only updates that its public state reflects. *)
ReadMatches ==
  \A f \in Stateful :
    pc[f] \in Running =>
      /\ readPrivate[f] \subseteq readPublic[f] \cap Stateful
      /\ \A g \in Stateful \ {f} : pc[g] = "done" => g \in readPrivate[f]

SequentialInv ==
  /\ FinalizedInv
  /\ Awaited
  /\ StoredStateful
  /\ StoredReflected
  /\ ReadMatches
  /\ UpdatesKept

(* A flow that was started and a flow that still runs cannot be two. *)
LEMMA OnlyOneRuns ==
  ASSUME Sequential, Awaited, NEW f \in Calls, NEW g \in Calls, f # g, pc[f] # "idle", pc[g] # "idle", pc[f] \notin Ended
  PROVE  g \in After[f] /\ pc[g] \in Ended
BY DEF Sequential, Awaited, Calls

(* Between the await that reads the private state and the await that stores
   the next one, no other call that the application awaits can store. *)
LEMMA SequentialInvNext ==
  Sequential /\ SequentialInv /\ [CallNext]_callVars => SequentialInv'
<1>. SUFFICES ASSUME Sequential, SequentialInv, [CallNext]_callVars
              PROVE  SequentialInv'
  OBVIOUS
<1>. USE ClientAssumption, CallAssumption
<1>b. FinalizedInv' /\ CallBase /\ CallBase'
  BY FinalizedInvNext, CallBaseNext DEF SequentialInv, FinalizedInv
<1>. USE <1>b DEF SequentialInv, CallBase, CallTypeOK, ClientTypeOK, Calls, Stateful,
             Running, Ended, ledger, store, callReads
<1>1. ASSUME NEW f \in Flow, QueryPublicStates(f)
      PROVE  SequentialInv'
  <2>. USE <1>1 DEF QueryPublicStates, Start, Goto
  <2>1. Awaited'
    BY DEF Awaited
  <2>2. StoredStateful' /\ UpdatesKept'
    BY DEF StoredStateful, UpdatesKept
  <2>3. StoredReflected'
    BY DEF StoredReflected, FinalizedInv, PrivateStateFinalized,
           SucceededCalls, ReflectedCalls
  <2>4. ReadMatches'
    BY DEF ReadMatches
  <2>. QED
    BY <2>1, <2>2, <2>3, <2>4
<1>2. ASSUME NEW f \in Flow, GetPrivateState(f)
      PROVE  SequentialInv'
  <2>. USE <1>2 DEF GetPrivateState, Goto
  <2>1. Awaited'
    BY DEF Awaited
  <2>2. StoredStateful' /\ UpdatesKept'
    BY DEF StoredStateful, UpdatesKept
  <2>3. StoredReflected'
    BY DEF StoredReflected
  <2>4. ReadMatches'
    BY DEF ReadMatches, StoredStateful, StoredReflected, UpdatesKept
  <2>. QED
    BY <2>1, <2>2, <2>3, <2>4
<1>3. ASSUME NEW f \in Flow, Pipeline(f), UNCHANGED callReads
      PROVE  SequentialInv'
  <2>. USE <1>3 DEF Pipeline, GetZkConfig, ProveTx, BalanceTx, SubmitTx, Goto
  <2>1. Awaited'
    BY DEF Awaited
  <2>2. StoredStateful' /\ UpdatesKept' /\ StoredReflected'
    BY DEF StoredStateful, UpdatesKept, StoredReflected
  <2>4. ReadMatches'
    BY DEF ReadMatches
  <2>. QED
    BY <2>1, <2>2, <2>4
<1>4. ASSUME NEW f \in Flow, SettleCall(f)
      PROVE  SequentialInv'
  <2>. USE <1>4 DEF SettleCall, Settle, Goto
  <2>1. Awaited'
    BY DEF Awaited
  <2>2. StoredStateful' /\ UpdatesKept' /\ StoredReflected'
    BY DEF StoredStateful, UpdatesKept, StoredReflected
  <2>4. ReadMatches'
    BY OnlyOneRuns DEF ReadMatches
  <2>. QED
    BY <2>1, <2>2, <2>4
<1>5. ASSUME NEW f \in Flow, SetPrivateState(f)
      PROVE  SequentialInv'
  <2>p. PICK to \in {"done", "failed"} : pc[f] = "setPrivate" /\ pc' = [pc EXCEPT ![f] = to]
    BY <1>5 DEF SetPrivateState, Goto
  <2>a. Awaited'
    BY <2>p DEF Awaited
  <2>. USE <1>5 DEF SetPrivateState, NextPrivateState, Goto
  <2>0. f \in Stateful /\ readPrivate[f] # NoState
    BY DEF RanOnState
  <2>r. \A g \in Calls \ {f} : pc[g] = "idle" \/ pc[g] \in Ended
    BY OnlyOneRuns
  <2>2. StoredStateful'
    BY <2>0 DEF StoredStateful, ReadMatches
  <2>3. UpdatesKept'
    BY <2>0, <2>2 DEF UpdatesKept, ReadMatches
  <2>4. StoredReflected' /\ ReadMatches'
    BY <2>r DEF StoredReflected, ReadMatches
  <2>. QED
    BY <2>a, <2>2, <2>3, <2>4
<1>6. ASSUME NEW f \in Flow, FinalizeCall(f)
      PROVE  SequentialInv'
  BY <1>6 DEF FinalizeCall, Finalize, Awaited, StoredStateful, UpdatesKept,
              StoredReflected, ReadMatches
<1>7. ASSUME NEW f \in Flow, Reject(f), UNCHANGED callReads
      PROVE  SequentialInv'
  BY <1>7 DEF Reject, Active, Awaited, StoredStateful, UpdatesKept,
              StoredReflected, ReadMatches
<1>8. ASSUME Crash, UNCHANGED callReads
      PROVE  SequentialInv'
  BY <1>8 DEF Crash, Active, Awaited, StoredStateful, UpdatesKept,
              StoredReflected, ReadMatches
<1>9. CASE UNCHANGED callVars
  BY <1>9 DEF callVars, Awaited, StoredStateful, UpdatesKept,
              StoredReflected, ReadMatches
<1>. QED
  BY <1>1, <1>2, <1>3, <1>4, <1>5, <1>6, <1>7, <1>8, <1>9 DEF CallNext, CallStep

(* An application that awaits each call has the invariant, from a contract
   whose initial private state is stored or not. *)
LEMMA SequentialInvariant == Sequential /\ CallSpec => []SequentialInv
<1>1. CallInit => SequentialInv
  BY CallBaseInit, ClientAssumption, CallAssumption
     DEF CallInit, CallReadsInit, SequentialInv, FinalizedInv,
         PrivateStateFinalized, ReadFinalized, Awaited, StoredStateful,
         StoredReflected, ReadMatches, UpdatesKept, Running, Stateful, Calls
<1>2. Sequential => []Sequential
  <2>1. Sequential => Sequential'
    BY DEF Sequential
  <2>. QED
    BY <2>1, PTL
<1>. QED
  BY <1>1, <1>2, SequentialInvNext, PTL DEF CallSpec

(* One call at a time, no private state update of a resolved call is lost,
   whatever calls failed, were rejected or died in between. *)
THEOREM UpdatesAreKept == Sequential /\ CallSpec => []UpdatesKept
<1>1. SequentialInv => UpdatesKept
  BY DEF SequentialInv
<1>. QED
  BY <1>1, SequentialInvariant, PTL

(* One call at a time, the two reads of getStates agree although nothing
   makes them atomic. *)
THEOREM SnapshotsDoAgree == Sequential /\ CallSpec => []SnapshotsAgree
<1>1. SequentialInv => SnapshotsAgree
  BY DEF SequentialInv, SnapshotsAgree, ReadMatches, Running, Stateful, Calls,
         FinalizedInv, CallBase, CallTypeOK, ClientTypeOK
<1>. QED
  BY <1>1, SequentialInvariant, PTL

=============================================================================
