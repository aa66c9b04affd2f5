----------------------------- MODULE KeyCustody -----------------------------
(***************************************************************************)
(* What submitReplaceAuthorityTx promises about signing keys, without      *)
(* transactions, counters or concurrent flows: the key that maintains the  *)
(* contract on chain and the key the client has stored change in turns.    *)
(* A new authority is installed only while the client holds the current    *)
(* one, and what the client stores is the key that is then the authority.  *)
(* A behaviour may stop between the two: that is a key lost for good.      *)
(***************************************************************************)
CONSTANT Key

VARIABLES onChain, held

Init == onChain \in Key /\ held = onChain

Install ==
  /\ held = onChain
  /\ onChain' \in Key \ {onChain}
  /\ UNCHANGED held

Keep ==
  /\ held # onChain
  /\ held' = onChain
  /\ UNCHANGED onChain

Next == Install \/ Keep

Spec == Init /\ [][Next]_<<onChain, held>>

=============================================================================
