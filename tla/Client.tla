------------------------------- MODULE Client -------------------------------
(***************************************************************************)
(* What the asynchronous operations of packages/contracts share: one       *)
(* application process that runs several operations ("flows") at the same  *)
(* time, the private state provider they read and write, the ledger state  *)
(* of one contract as the public data provider reports it, and submitTx,   *)
(* the pipeline every transaction goes through.                            *)
(*                                                                         *)
(* A flow advances from one "await" to the next: JavaScript runs a flow    *)
(* undisturbed between two awaits, and at an await any other flow, the     *)
(* ledger or a crash may come first.  pc[f] names the provider call that   *)
(* flow f is awaiting.                                                     *)
(***************************************************************************)
EXTENDS Naturals

CONSTANTS
  Flow,       \* the operations the application starts, each of them once
  Kind,       \* Kind[f]: which operation of packages/contracts flow f is
  After,      \* After[f]: flows whose promise the application awaits first
  Key,        \* signing keys
  NoKey,      \* no signing key stored, no contract deployed
  Circuit,    \* impure circuits of the contract
  Vk,         \* verifier keys
  NoVk,       \* the circuit is not an operation of the deployed contract
  NoState,    \* no private state stored
  NewKey,     \* NewKey[f]: the signing key flow f installs or stores
  Target,     \* Target[f]: the circuit flow f calls or maintains
  MayReject,  \* whether a provider may reject a call
  MayCrash    \* whether the application process may crash

Kinds == {"deploy", "find", "call", "insertVk", "removeVk", "replaceAuthority"}

ASSUME ClientAssumption ==
  /\ Kind \in [Flow -> Kinds]
  /\ After \in [Flow -> SUBSET Flow]
  /\ NewKey \in [Flow -> Key]
  /\ Target \in [Flow -> Circuit]
  /\ NoKey \notin Key
  /\ NoVk \notin Vk
  /\ \A calls \in SUBSET Flow : calls # NoState
  /\ MayReject \in BOOLEAN
  /\ MayCrash \in BOOLEAN

VARIABLES
  authority,     \* ledger: the maintenance authority of the contract
  counter,       \* ledger: the counter of the maintenance authority
  operations,    \* ledger: the verifier key of each circuit
  status,        \* ledger: what became of the transaction of each flow
  signingKey,    \* private state provider: the key stored for the contract
  privateState,  \* private state provider: the state stored at the id
  pc             \* the provider call each flow awaits

ledger == <<authority, counter, operations>>
store  == <<signingKey, privateState>>

(***************************************************************************)
(* The private state of a contract is the set of the calls whose witnesses *)
(* produced it: enough to tell which updates a stored state contains.      *)
(***************************************************************************)
PrivateState == SUBSET Flow

Finalized == {"FailEntirely", "FailFallible", "SucceedEntirely"}

Ended == {"done", "failed", "lost"}

Stages == {"idle", "watchDeploy", "queryDeploy", "queryContract",
           "verifierKeys", "getKey", "getPrivate", "zkConfig", "prove",
           "balance", "submit", "watch", "setPrivate", "setKey"} \cup Ended

Active(f) == pc[f] \notin Ended \cup {"idle"}

ClientTypeOK ==
  /\ authority \in Key \cup {NoKey}
  /\ counter \in Nat
  /\ operations \in [Circuit -> Vk \cup {NoVk}]
  /\ status \in [Flow -> {"none", "pending"} \cup Finalized]
  /\ signingKey \in Key \cup {NoKey}
  /\ privateState \in PrivateState \cup {NoState}
  /\ pc \in [Flow -> Stages]

-----------------------------------------------------------------------------
(* How a flow moves *)

Goto(f, from, to) ==
  /\ pc[f] = from
  /\ pc' = [pc EXCEPT ![f] = to]

Start(f, to) ==
  /\ \A g \in After[f] : pc[g] \in Ended
  /\ Goto(f, "idle", to)

(* A provider rejects and the flow rejects with it: no operation of the
   package catches, retries or compensates. *)
Reject(f) ==
  /\ MayReject
  /\ Active(f)
  /\ pc' = [pc EXCEPT ![f] = "failed"]
  /\ UNCHANGED <<ledger, status, store>>

(* The process dies: what the flows held in memory is gone, what they
   submitted and what they stored is not.  Idle flows start later. *)
Crash ==
  /\ MayCrash
  /\ \E f \in Flow : Active(f)
  /\ pc' = [f \in Flow |-> IF Active(f) THEN "lost" ELSE pc[f]]
  /\ UNCHANGED <<ledger, status, store>>

-----------------------------------------------------------------------------
(* submitTx: prove, balance, submit, watch *)

GetZkConfig(f) ==
  /\ Goto(f, "zkConfig", "prove")
  /\ UNCHANGED <<ledger, status, store>>

ProveTx(f) ==
  /\ Goto(f, "prove", "balance")
  /\ UNCHANGED <<ledger, status, store>>

BalanceTx(f) ==
  /\ Goto(f, "balance", "submit")
  /\ UNCHANGED <<ledger, status, store>>

(* The node has the transaction once the call is made, whether or not its
   answer reaches the client. *)
SubmitTx(f) ==
  /\ \/ Goto(f, "submit", "watch")
     \/ MayReject /\ Goto(f, "submit", "failed")
  /\ status' = [status EXCEPT ![f] = "pending"]
  /\ UNCHANGED <<ledger, store>>

(* Mutant: the status of the finalized transaction is not checked. *)
SettleUnchecked(f, onSuccess) ==
  /\ status[f] \in Finalized
  /\ Goto(f, "watch", onSuccess)
  /\ UNCHANGED <<ledger, status, store>>

(* Mutant: the watch ignores transactions that did not succeed. *)
SettleOnSuccess(f, onSuccess) ==
  /\ status[f] = "SucceedEntirely"
  /\ Goto(f, "watch", onSuccess)
  /\ UNCHANGED <<ledger, status, store>>

(* watchForTxData resolves with the finalized transaction; the operation
   checks its status and either goes on to its next await or throws. *)
Settle(f, onSuccess) ==
  /\ status[f] \in Finalized
  /\ Goto(f, "watch", IF status[f] = "SucceedEntirely" THEN onSuccess
                                                       ELSE "failed")
  /\ UNCHANGED <<ledger, status, store>>

Pipeline(f) == GetZkConfig(f) \/ ProveTx(f) \/ BalanceTx(f) \/ SubmitTx(f)

(* The ledger finalizes a submitted transaction with outcome s. *)
Finalize(f, s) ==
  /\ status[f] = "pending"
  /\ status' = [status EXCEPT ![f] = s]

=============================================================================
