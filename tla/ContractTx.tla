----------------------------- MODULE ContractTx -----------------------------
(***************************************************************************)
(* The life of one contract on one client: every operation of              *)
(* packages/contracts, overlapping as far as the application lets them,    *)
(* over one ledger and one private state provider.  Deploying, finding,    *)
(* calling and maintaining share the two stored entries and the signing    *)
(* key that is the authority; nothing in the package orders them.          *)
(***************************************************************************)
EXTENDS Maintenance, CallTx, DeployFind

contractVars ==
  <<ledger, status, store, pc, maintReads, callReads, joinReads>>

ContractInit ==
  /\ Undeployed
  /\ counter = 0
  /\ status = [f \in Flow |-> "none"]
  /\ pc = [f \in Flow |-> "idle"]
  /\ MaintReadsInit
  /\ CallReadsInit
  /\ JoinReadsInit

MaintOperation(f) ==
  /\ QueryContractState(f) \/ MaintStep(f) \/ FinalizeUpdate(f)
  /\ UNCHANGED <<callReads, joinReads>>

CallOperation(f) ==
  /\ QueryPublicStates(f) \/ CallStep(f) \/ FinalizeCall(f)
  /\ UNCHANGED <<maintReads, joinReads>>

JoinOperation(f) ==
  /\ StartFind(f) \/ StartDeploy(f) \/ JoinStep(f) \/ FinalizeDeploy(f)
  /\ UNCHANGED <<maintReads, callReads>>

ContractNext ==
  \/ \E f \in Flow : MaintOperation(f) \/ CallOperation(f) \/ JoinOperation(f)
  \/ (Crash \/ \E f \in Flow : Reject(f))
       /\ UNCHANGED <<maintReads, callReads, joinReads>>

ContractSpec == ContractInit /\ [][ContractNext]_contractVars

(* What an event loop and a ledger owe to a flow that was started. *)
ContractStep(f) ==
  \/ /\ MaintStep(f) \/ FinalizeUpdate(f)
     /\ UNCHANGED <<callReads, joinReads>>
  \/ /\ CallStep(f) \/ FinalizeCall(f)
     /\ UNCHANGED <<maintReads, joinReads>>
  \/ /\ JoinStep(f) \/ FinalizeDeploy(f)
     /\ UNCHANGED <<maintReads, callReads>>

FairContractSpec ==
  ContractSpec /\ \A f \in Flow : WF_contractVars(ContractStep(f))

-----------------------------------------------------------------------------
(* Properties *)

Quiet == \A f \in Flow : ~Active(f)

(* Every transaction the ledger applied is one whose flow resolved. *)
AllReported ==
  \A f \in Flow : status[f] = "SucceedEntirely" => pc[f] = "done"

(* If each call is awaited before the next, then whatever else overlapped
   with them, once no flow is running and each transaction that took effect
   was reported to its caller, the store matches the ledger: the stored key
   is the authority, the stored private state is what the applied calls
   made, and nothing else. *)
InSync ==
  Quiet /\ Deployed /\ AllReported =>
    /\ signingKey = authority
    /\ Deploys \subseteq WithId => privateState = SucceededCalls \cap Stateful

(* The client lacks the authority key and no flow is about to store it. *)
KeyLost ==
  /\ Deployed
  /\ signingKey # authority
  /\ \A f \in Deploys \cup Replacers :
       ~ /\ NewKey[f] = authority
         /\ status[f] = "SucceedEntirely"
         /\ pc[f] \in {"watch", "setPrivate", "setKey"}

(* A key whose write was missed is lost for good: no later operation, no
   find after a restart and no late transaction gives the client an
   authority it can sign for again. *)
KeyLostForGood ==
  [][KeyLost => KeyLost' /\ UNCHANGED authority]_contractVars

(* The calls that took effect and whose update is about to be stored. *)
Due == {f \in Stateful : status[f] = "SucceedEntirely" /\ pc[f] \in {"watch", "setPrivate"}}

(* Whatever fails, dies, or is applied late: the store follows the ledger, one
   change at a time, with the key that then is the authority and with the
   update of one call beside all that was kept; and what it misses once, it
   misses for good. *)
Life == INSTANCE ContractLife
          WITH Call <- Stateful, onChain <- authority, held <- signingKey, lost <- KeyLost,
               applied <- SucceededCalls \cap Stateful, due <- Due, kept <- privateState
LifeSpec == Life!Spec

(* The stored key catches up with each change of the authority, whatever
   overlaps with it, unless the very flow that made the change is the one that
   a provider or a crash stopped. *)
KeyCatchesUp ==
  signingKey # authority ~>
    \/ signingKey = authority
    \/ \E f \in Deploys \cup Replacers : /\ NewKey[f] = authority
                                       /\ status[f] = "SucceedEntirely"
                                       /\ pc[f] \in {"failed", "lost"}

=============================================================================
