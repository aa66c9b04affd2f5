--------------------------- MODULE KeyValueStore ----------------------------
(***************************************************************************)
(* What a private state provider promises: two key-value stores side by    *)
(* side, one for private states and one for signing keys.  An operation    *)
(* takes effect on one of them, at one moment, at most once; if it         *)
(* resolves it took effect, if it rejects it may have.                     *)
(***************************************************************************)
CONSTANTS
  Op,       \* operations
  Kind,     \* Kind[o]: get, set, remove or clear
  Level,    \* Level[o]: the store it is about
  Id,       \* Id[o]: the private state id or contract address it is about
  Value,    \* Value[o]: what a set stores
  Levels, Ids, Values,
  Null      \* nothing stored at an id, and what an operation without a value returns

VARIABLES contents, answer

Empty == [l \in Levels |-> [i \in Ids |-> Null]]

Unanswered == "none"
Rejected == "rejected"

(* What each kind of operation does to the stores. *)
Effect(o) ==
  \/ Kind[o] = "get" /\ UNCHANGED contents
  \/ Kind[o] = "set" /\ contents' = [contents EXCEPT ![Level[o]][Id[o]] = Value[o]]
  \/ Kind[o] = "remove" /\ contents' = [contents EXCEPT ![Level[o]][Id[o]] = Null]
  \/ Kind[o] = "clear" /\ contents' = [contents EXCEPT ![Level[o]] = [i \in Ids |-> Null]]

Returned(o) == IF Kind[o] = "get" THEN contents[Level[o]][Id[o]] ELSE Null

Init ==
  /\ contents = Empty
  /\ answer = [o \in Op |-> Unanswered]

Perform(o) ==
  /\ answer[o] = Unanswered
  /\ Effect(o)
  /\ answer' \in {[answer EXCEPT ![o] = Returned(o)], [answer EXCEPT ![o] = Rejected]}

Refuse(o) ==
  /\ answer[o] = Unanswered
  /\ answer' = [answer EXCEPT ![o] = Rejected]
  /\ UNCHANGED contents

Next == \E o \in Op : Perform(o) \/ Refuse(o)

Spec == Init /\ [][Next]_<<contents, answer>>

=============================================================================
