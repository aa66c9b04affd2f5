---------------------------- MODULE MCContractTx ----------------------------
(***************************************************************************)
(* Instances of ContractTx for TLC: a contract is deployed; calls that     *)
(* await one another, replacements of the authority, a verifier key        *)
(* removal and a find then overlap.                                        *)
(***************************************************************************)
EXTENDS ContractTx

CONSTANTS d, a, b, r1, r2, x1, f1,  \* flows
          k0, k1, k2, k3, c1, v1

MCKind == [f \in Flow |->
  CASE f = d -> "deploy" [] f \in {a, b} -> "call" [] f = x1 -> "removeVk"
    [] f = f1 -> "find" [] OTHER -> "replaceAuthority"]
MCNewKey == [f \in Flow |->
  CASE f = r1 -> k1 [] f = r2 -> k2 [] f = f1 -> k3 [] OTHER -> k0]
MCTarget == [f \in Flow |-> c1]
MCVk == [f \in Flow |-> v1]
MCLocalVk == [c \in Circuit |-> v1]
MCUsesPrivate == [f \in Flow |-> TRUE]
MCAll == Flow
MCNone == {}

MCAfter == [f \in Flow |-> Flow \cap
  CASE f = d -> {} [] f = b -> {d, a} [] OTHER -> {d}]

=============================================================================
