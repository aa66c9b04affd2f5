------------------------------ MODULE MCCallTx ------------------------------
(***************************************************************************)
(* Instances of CallTx for TLC: calls of one circuit, one of them without  *)
(* private state.                                                          *)
(***************************************************************************)
EXTENDS CallTx

CONSTANTS a, b, c, d,  \* calls
          k0, c1, v1

MCKind == [f \in Flow |-> "call"]
MCNewKey == [f \in Flow |-> k0]
MCTarget == [f \in Flow |-> c1]
MCUsesPrivate == [f \in Flow |-> f # d]

(* Every interleaving, or one call at a time. *)
MCUnordered == [f \in Flow |-> {}]
MCOrdered == [f \in Flow |->
  CASE f = a -> {} [] f = b -> {a} [] f = c -> {a, b} [] OTHER -> {a, b, c}]

=============================================================================
