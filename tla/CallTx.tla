------------------------------- MODULE CallTx -------------------------------
(***************************************************************************)
(* submitCallTx: a circuit is run against the public state of the contract *)
(* and the stored private state, its transaction is submitted, and the     *)
(* private state the run produced is stored once the transaction succeeded *)
(* entirely.                                                               *)
(***************************************************************************)
EXTENDS Client

CONSTANTS
  UsesPrivate  \* UsesPrivate[f]: whether the options have a privateStateId

Calls == {f \in Flow : Kind[f] = "call"}

ASSUME CallAssumption == UsesPrivate \in [Flow -> BOOLEAN]

VARIABLES
  readPublic,   \* the public state a call runs against: the calls it reflects
  readCircuit,  \* whether that state defines the circuit of the call
  readPrivate   \* the private state a call runs against

callReads == <<readPublic, readCircuit, readPrivate>>
callVars == <<ledger, status, store, pc, callReads>>

CallTypeOK ==
  /\ ClientTypeOK
  /\ readPublic \in [Flow -> SUBSET Calls]
  /\ readCircuit \in [Flow -> BOOLEAN]
  /\ readPrivate \in [Flow -> PrivateState \cup {NoState}]

CallReadsInit ==
  /\ readPublic = [f \in Flow |-> {}]
  /\ readCircuit = [f \in Flow |-> FALSE]
  /\ readPrivate = [f \in Flow |-> NoState]

(* A deployed contract, its initial private state stored or not. *)
CallInit ==
  /\ authority \in Key
  /\ counter = 0
  /\ operations \in [Circuit -> Vk \cup {NoVk}]
  /\ status = [f \in Flow |-> "none"]
  /\ signingKey = authority
  /\ privateState \in {{}, NoState}
  /\ pc = [f \in Flow |-> "idle"]
  /\ CallReadsInit

-----------------------------------------------------------------------------

SucceededCalls == {f \in Calls : status[f] = "SucceedEntirely"}

(* Of a call that failed in its fallible part, the ledger keeps the rest. *)
ReflectedCalls == {f \in Calls : status[f] \in {"FailFallible", "SucceedEntirely"}}

(* A call that reads no private state runs the circuit at once. *)
Callable(f) ==
  authority # NoKey /\ (UsesPrivate[f] \/ operations[Target[f]] # NoVk)

QueryPublicStates(f) ==
  /\ f \in Calls
  /\ Start(f, IF ~Callable(f) THEN "failed"
              ELSE IF UsesPrivate[f] THEN "getPrivate" ELSE "zkConfig")
  /\ readPublic' = [readPublic EXCEPT ![f] = ReflectedCalls]
  /\ readCircuit' = [readCircuit EXCEPT ![f] = operations[Target[f]] # NoVk]
  /\ UNCHANGED <<ledger, status, store, readPrivate>>

(* The run of the circuit, and the transaction built from it if the contract
   state defines the circuit, follow in the same step: they await nothing. *)
GetPrivateState(f) ==
  /\ f \in Calls
  /\ Goto(f, "getPrivate", IF privateState # NoState /\ readCircuit[f]
                             THEN "zkConfig" ELSE "failed")
  /\ readPrivate' = [readPrivate EXCEPT ![f] = privateState]
  /\ UNCHANGED <<ledger, status, store, readPublic, readCircuit>>

(* A call can only succeed if the contract has the circuit. *)
FinalizeCall(f) ==
  /\ f \in Calls
  /\ \E s \in Finalized :
       /\ s = "SucceedEntirely" => operations[Target[f]] # NoVk
       /\ Finalize(f, s)
  /\ UNCHANGED <<ledger, store, pc, callReads>>

SettleCall(f) ==
  /\ f \in Calls
  /\ Settle(f, IF UsesPrivate[f] THEN "setPrivate" ELSE "done")
  /\ UNCHANGED callReads

(* Mutant: the circuit is run on the initial private state. *)
NextFromInitialState(f) == {f}

(* Mutant: both the previous and the next private state are stored. *)
NextPrivateStates(f) == {readPrivate[f], readPrivate[f] \cup {f}}

(* The private state the run of the circuit produced. *)
NextPrivateState(f) == readPrivate[f] \cup {f}

SetPrivateState(f) ==
  /\ f \in Calls
  /\ \/ Goto(f, "setPrivate", "done")
     \/ MayReject /\ Goto(f, "setPrivate", "failed")
  /\ privateState' = NextPrivateState(f)
  /\ UNCHANGED <<ledger, status, signingKey, callReads>>

CallStep(f) ==
  \/ GetPrivateState(f)
  \/ f \in Calls /\ Pipeline(f) /\ UNCHANGED callReads
  \/ SettleCall(f)
  \/ SetPrivateState(f)

CallNext ==
  \/ \E f \in Flow : QueryPublicStates(f)
  \/ \E f \in Flow : CallStep(f)
  \/ \E f \in Flow : FinalizeCall(f)
  \/ \E f \in Flow : Reject(f) /\ UNCHANGED callReads
  \/ Crash /\ UNCHANGED callReads

CallSpec == CallInit /\ [][CallNext]_callVars

-----------------------------------------------------------------------------
(* Properties *)

Stateful == {f \in Calls : UsesPrivate[f]}

(* The stored private state never contains the effect of a call whose
   transaction the ledger did not apply entirely, however calls overlap. *)
PrivateStateFinalized ==
  privateState # NoState => privateState \subseteq SucceededCalls

(* Overlapping calls may lose one another's updates, but never half of
   them: with a call, the stored state contains all that call built on. *)
PrivateStateWhole ==
  privateState # NoState =>
    \A f \in privateState : readPrivate[f] \subseteq privateState

(* The application awaits one call before it starts the next. *)
Sequential == \A f, g \in Calls : f # g => f \in After[g] \/ g \in After[f]

(* An application that awaits each call before the next one never loses the
   private state of a call that resolved, whatever failed in between. *)
UpdatesKept ==
  \A f \in Stateful :
    pc[f] = "done" => privateState # NoState /\ f \in privateState

(* Such an application runs each call against a private state that matches
   the public state: if the calls the public state reflects, in part or
   entirely, resolved, their private updates, and no others, are in the state
   that was read. *)
SnapshotsAgree ==
  \A f \in Stateful :
    /\ pc[f] \in {"zkConfig", "prove", "balance", "submit", "watch"}
    /\ \A g \in readPublic[f] : pc[g] = "done"
    => readPrivate[f] = readPublic[f] \cap Stateful

=============================================================================
