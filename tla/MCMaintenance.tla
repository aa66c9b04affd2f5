--------------------------- MODULE MCMaintenance ----------------------------
(***************************************************************************)
(* Instances of Maintenance for TLC: a contract with one circuit and up to *)
(* five flows, in two chains that overlap.                                 *)
(***************************************************************************)
EXTENDS Maintenance

CONSTANTS r1, r2, r3, i1, i2, x1,  \* flows
          k0, k1, k2, k3,          \* signing keys
          c1,                      \* a circuit
          v1, v2                   \* verifier keys

MCKind == [f \in Flow |->
  CASE f \in {r1, r2, r3} -> "replaceAuthority"
    [] f \in {i1, i2} -> "insertVk"
    [] OTHER -> "removeVk"]

(* One chain removes the verifier key, replaces the authority and inserts a
   new verifier key; the other inserts one and replaces the authority.  Each
   flow of one overlaps with each flow of the other. *)
MCAfter == [f \in Flow |-> Flow \cap
  CASE f = r1 -> {x1} [] f = i2 -> {x1, r1} [] f = r2 -> {i1} [] OTHER -> {}]

MCTarget == [f \in Flow |-> c1]

MCNewVk == [f \in Flow |-> IF f = i1 THEN v1 ELSE v2]

(* Sampled keys. *)
MCNewKey == [f \in Flow |-> CASE f = r1 -> k1 [] f = r2 -> k2 [] OTHER -> k3]

ASSUME MCDistinct ==
  \A f, g \in Flow : MCKind[f] = "replaceAuthority" /\ MCKind[g] = "replaceAuthority"
    /\ f # g => MCNewKey[f] # MCNewKey[g]

=============================================================================
