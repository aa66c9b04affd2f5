---------------------------- MODULE InMemoryStore ----------------------------
(***************************************************************************)
(* inMemoryPrivateStateProvider of testkit-js, which stands for the level  *)
(* store in tests: a map of private states and an object of signing keys,  *)
(* each operation done when it returns.  Pure functions on the two.        *)
(***************************************************************************)
EXTENDS Naturals, SequencesExt

Nullish == {"null", "undefined"}
EmptyMap == [k \in {} |-> "null"]
InMemoryPrivateStateProvider == [record |-> EmptyMap, signingKeys |-> EmptyMap]

Put(map, key, value) == [k \in DOMAIN map \cup {key} |-> IF k = key THEN value ELSE map[k]]
Delete(map, key) == [k \in DOMAIN map \ {key} |-> map[k]]

(* The operations on a private state, and those on a signing key. *)
SetState(p, key, state) == [p EXCEPT !.record = Put(@, key, state)]
RemoveState(p, key) == [p EXCEPT !.record = Delete(@, key)]
ClearStates(p) == [p EXCEPT !.record = EmptyMap]
SetSigningKey(p, address, signingKey) == [p EXCEPT !.signingKeys = Put(@, address, signingKey)]
RemoveSigningKey(p, address) == [p EXCEPT !.signingKeys = Delete(@, address)]
ClearSigningKeys(p) == [p EXCEPT !.signingKeys = EmptyMap]

(* What is null or undefined is answered as null. *)
Read(map, key) ==
  IF key \notin DOMAIN map THEN "null" ELSE IF map[key] \in Nullish THEN "null" ELSE map[key]
GetState(p, key) == Read(p.record, key)
GetSigningKey(p, address) == Read(p.signingKeys, address)

StoreOperation(keys, values) ==
  [op : {"set"}, of : {"state", "signing key"}, key : keys, value : values]
  \cup [op : {"remove"}, of : {"state", "signing key"}, key : keys]
  \cup [op : {"clear"}, of : {"state", "signing key"}]

Perform(p, o) ==
  CASE o.op = "set" -> IF o.of = "state" THEN SetState(p, o.key, o.value) ELSE SetSigningKey(p, o.key, o.value)
    [] o.op = "remove" -> IF o.of = "state" THEN RemoveState(p, o.key) ELSE RemoveSigningKey(p, o.key)
    [] o.op = "clear" -> IF o.of = "state" THEN ClearStates(p) ELSE ClearSigningKeys(p)

-----------------------------------------------------------------------------

(* After any operations, what is read under a key is what the last operation on
   the key, or on all keys of its kind, left: also a value that is falsy, and
   whatever was done to keys of the other kind. *)
MemoryLaw(operations, keys) ==
  LET store == FoldLeft(Perform, InMemoryPrivateStateProvider, operations)
      last(of, key) == {i \in DOMAIN operations :
                          /\ operations[i].of = of
                          /\ operations[i].op = "clear" \/ operations[i].key = key
                          /\ \A j \in (i + 1)..Len(operations) :
                               ~(/\ operations[j].of = of
                                 /\ operations[j].op = "clear" \/ operations[j].key = key)}
      left(of, key) == {operations[i].value : i \in {j \in last(of, key) :
                          operations[j].op = "set" /\ operations[j].value \notin Nullish}}
      read(of, key) == IF of = "state" THEN GetState(store, key) ELSE GetSigningKey(store, key)
  IN \A of \in {"state", "signing key"}, key \in keys :
       {read(of, key)} = IF left(of, key) = {} THEN {"null"} ELSE left(of, key)

=============================================================================
