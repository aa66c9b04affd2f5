---------------------------- MODULE MCDeployFind ----------------------------
(***************************************************************************)
(* Instances of DeployFind for TLC: a deployment and the four ways to find *)
(* its contract, one after the other or all at once.                       *)
(***************************************************************************)
EXTENDS DeployFind

CONSTANTS d,               \* the deployment
          f1, f2, f3, f4,  \* finds
          k0, k1, k2, k3,  \* signing keys
          c1, v1, v2

MCKind == [f \in Flow |-> IF f = d THEN "deploy" ELSE "find"]
MCNewKey == [f \in Flow |->
  CASE f = d -> k0 [] f = f1 -> k1 [] f = f2 -> k2 [] OTHER -> k3]
MCTarget == [f \in Flow |-> c1]
MCLocalVk == [c \in Circuit |-> v1]

MCUnordered == [f \in Flow |-> {}]
MCOrdered == [f \in Flow |-> Flow \cap
  CASE f = d -> {} [] f = f1 -> {d} [] f = f2 -> {d, f1} [] f = f3 -> {d, f1, f2}
    [] OTHER -> {d, f1, f2, f3}]

(* f1 keeps what is stored, f2 stores a private state, f3 names none, f4 has
   an initial private state but no place to store it. *)
MCWithId == Flow \ {f3, f4}
MCWithInitial == Flow \cap {f2, f4}

=============================================================================
