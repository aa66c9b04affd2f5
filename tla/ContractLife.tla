---------------------------- MODULE ContractLife ----------------------------
(***************************************************************************)
(* What packages/contracts promises to an application that samples its     *)
(* keys and awaits its calls, without transactions, reads or overlapping   *)
(* flows: the life of a contract as its ledger and its client's store see  *)
(* it.  The ledger goes first and the store follows, with the key and with *)
(* the private state of each call; where it does not follow in time, the   *)
(* key is lost for good, and the update of the call alone.                 *)
(***************************************************************************)
CONSTANTS Key, NoKey, Call, NoState

VARIABLES
  onChain,  \* the key that maintains the contract, if it is deployed
  held,     \* the stored key
  lost,     \* whether the authority is a key that will never be stored
  applied,  \* the calls the ledger applied
  due,      \* those of them whose update is about to be stored
  kept      \* the updates in the stored private state, if there is one

keys == <<onChain, held, lost>>
states == <<applied, due, kept>>

Init ==
  /\ onChain = NoKey /\ held = NoKey /\ lost = FALSE
  /\ applied = {} /\ due = {} /\ kept = NoState

Behind == onChain # NoKey /\ held # onChain

(* A key becomes the authority while the store holds the one before it, or
   with the deployment; who installed it may be gone. *)
Install ==
  /\ held = onChain
  /\ onChain' \in Key \ {onChain}
  /\ lost' \in BOOLEAN
  /\ onChain = NoKey => kept = NoState
  /\ UNCHANGED <<held, states>>

KeepKey ==
  /\ Behind /\ ~lost
  /\ held' = onChain
  /\ UNCHANGED <<onChain, lost, states>>

(* A find stores a key of its own where the authority was lost. *)
Substitute ==
  /\ lost
  /\ held' \in Key \ {onChain}
  /\ UNCHANGED <<onChain, lost, states>>

(* With a deployment, and before its key. *)
KeepInitialState ==
  /\ Behind /\ ~lost
  /\ kept = NoState
  /\ kept' = {}
  /\ lost' \in BOOLEAN
  /\ UNCHANGED <<onChain, held, applied, due>>

(* No call is applied while another one's update is due, except one whose
   caller is gone. *)
Apply(c) ==
  /\ onChain # NoKey
  /\ c \notin applied
  /\ applied' = applied \cup {c}
  /\ due' = due \/ (due = {} /\ due' = {c})
  /\ UNCHANGED <<keys, kept>>

(* Nothing that is kept is given up for an update. *)
KeepState(c) ==
  /\ kept # NoState
  /\ c \in due \ kept
  /\ kept' = kept \cup {c}
  /\ due' = due \ {c}
  /\ UNCHANGED <<keys, applied>>

(* Whoever was about to store something fails or dies. *)
GiveUp ==
  /\ due' \in SUBSET due
  /\ lost' \in {lost, Behind}
  /\ UNCHANGED <<onChain, held, applied, kept>>

Next ==
  \/ Install \/ KeepKey \/ Substitute
  \/ KeepInitialState
  \/ \E c \in Call : Apply(c) \/ KeepState(c)
  \/ GiveUp

Spec == Init /\ [][Next]_<<keys, states>>

=============================================================================
