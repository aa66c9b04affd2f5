---------------------------- MODULE MCLevelStore ----------------------------
(***************************************************************************)
(* Instances of LevelStore for TLC: a write and a read of a private state, *)
(* and a write and a clear of signing keys, all overlapping; after them,   *)
(* alone, the removal of a signing key.                                    *)
(***************************************************************************)
EXTENDS LevelStore

CONSTANTS s1, s2, c1, g1, x1,  \* operations
          i1, i2, u, v

MCKind == [o \in Op |->
  CASE o \in {s1, s2} -> "set" [] o = c1 -> "clear" [] o = x1 -> "remove"
    [] OTHER -> "get"]
MCLevel == [o \in Op |->
  IF o \in {s1, g1} THEN "private-states" ELSE "signing-keys"]
MCId == [o \in Op |-> i1]
MCValue == [o \in Op |-> IF o = s1 THEN u ELSE v]
MCAfter == [o \in Op |-> IF o = x1 THEN Op \ {x1} ELSE {}]

=============================================================================
