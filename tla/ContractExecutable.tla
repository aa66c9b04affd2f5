-------------------------- MODULE ContractExecutable --------------------------
(***************************************************************************)
(* compact-js: a compiled contract, bound to its witnesses and assets, and *)
(* what executing it yields.  An operation is a set of the results it may  *)
(* have: the contract may raise an error, and a key may be sampled.        *)
(***************************************************************************)
EXTENDS Platform, FiniteSets

CONSTANTS
  ImpureCircuit,   \* the circuits that the compiled contract exports
  VerifierKey,     \* contents of verifier key files
  SigningKeys,     \* signing keys that are configured or passed
  Unverifiable,    \* those that give no verifying key
  SampledKey,      \* the key that sampleSigningKey returns
  VkUpdatesCount     \* whether verifier key updates advance the counter too

NoKey == "no verifier key"

ASSUME ExecutableAssumption ==
  /\ None \notin SigningKeys /\ SampledKey \notin SigningKeys \cup {None}
  /\ Unverifiable \subseteq SigningKeys
  /\ NoKey \notin VerifierKey
  /\ VkUpdatesCount \in BOOLEAN

Failure(kind) == [ok |-> FALSE, error |-> kind]

(* What an operation that succeeds yields, of what matters here. *)
DeployResult(state, signingKey, privateState) ==
  [ok |-> TRUE, contractState |-> state, signingKey |-> signingKey, privateState |-> privateState]

CallResult(privateState) == [ok |-> TRUE, privateState |-> privateState]

MaintenanceResult(update, signingKey) ==
  [ok |-> TRUE, update |-> update, signingKey |-> signingKey]

-----------------------------------------------------------------------------
(* CompiledContract: make, and what binds the rest *)

MakeCompiled(ctor) == [ctor |-> ctor, witnesses |-> "none", assets |-> "none"]

WithWitnesses(self, witnesses) == [self EXCEPT !.witnesses = witnesses]

WithVacantWitnesses(self) == [self EXCEPT !.witnesses = "vacant"]

WithCompiledFileAssets(self, path) == [self EXCEPT !.assets = path]

(* createContract: without a constructor or witnesses the effect dies; it does
   not fail with an error that the operations could map.  The outcome is kept,
   whichever it is. *)
CreateContract(self) == self.ctor # "none" /\ self.witnesses # "none"

-----------------------------------------------------------------------------
(* What maintenance is about in the state of a contract: the verifier keys of
   its operations, and the authority that may maintain it. *)

ContractState(operation, key, counter) ==
  [operation |-> operation, key |-> key, counter |-> counter]

(* createMaintenanceAuthority: a key that is not given is sampled, and one that
   gives no verifying key is an error. *)
CreateMaintenanceAuthority(newKey, counter) ==
  IF newKey \in Unverifiable THEN Failure("configuration")
  ELSE [ok |-> TRUE,
        authority |-> [key |-> IF newKey = None THEN SampledKey ELSE newKey, counter |-> counter]]

(* getVerifierKeys of the reader over the file system: all of the circuits, or
   an error for one. *)
HasVerifierKey(files, circuitId) == files[circuitId] # NoKey

GetVerifierKeys(files) ==
  [ok |-> \A c \in ImpureCircuit : HasVerifierKey(files, c), keys |-> files]

(* initialize: the constructor runs before the verifier keys are read, and
   fails with a CompactError or with some other one.  Defined are the circuits
   for which its state has an operation; the state may refuse a verifier key. *)
Initialize(self, keys, files, defined, privateState) ==
  LET made == CreateMaintenanceAuthority(keys.signingKey, 0) IN
  IF ~CreateContract(self) THEN {Failure("defect")}
  ELSE {Failure("configuration")} \cup
    IF ~AsHex(keys.coinPublicKey).right THEN {}
    ELSE {Failure("runtime")} \cup
      IF ~GetVerifierKeys(files).ok THEN {Failure("read")}
      ELSE IF ImpureCircuit \subseteq defined /\ made.ok
      THEN {DeployResult(ContractState(files, made.authority.key, made.authority.counter),
                         made.authority.key, privateState)}
      ELSE {}

(* circuit: an error of any kind becomes a ContractRuntimeError.  The zswap
   state is that of the context, or an empty one, for which the coin public
   key must be hex.  A partition that is not one pair is an error. *)
Circuit(self, keys, circuitId, context) ==
  IF ~CreateContract(self) THEN {Failure("defect")}
  ELSE {Failure("runtime")} \cup
    IF circuitId \in ImpureCircuit /\ (context.zswap \/ AsHex(keys.coinPublicKey).right)
    THEN {CallResult(context.privateState + 1)}
    ELSE {}

(* createSignedMaintenanceUpdate: the counter is that of the state given, and
   the configured key signs; that it cannot is no error of the operation, but
   ends the effect. *)
CreateSignedMaintenanceUpdate(update, keys, contractState) ==
  IF keys.signingKey = None THEN Failure("configuration")
  ELSE IF keys.signingKey \in Unverifiable THEN Failure("defect")
  ELSE MaintenanceResult([change |-> update, counter |-> contractState.counter,
                          signedBy |-> keys.signingKey],
                         keys.signingKey)

(* replaceContractMaintenanceAuthority: the old key signs, the result holds
   the new one. *)
ReplaceContractMaintenanceAuthority(newKey, keys, contractState) ==
  LET made == CreateMaintenanceAuthority(newKey, contractState.counter + 1)
      result == CreateSignedMaintenanceUpdate(
                  [kind |-> "ReplaceAuthority", authority |-> made.authority], keys, contractState)
  IN IF ~made.ok THEN made
     ELSE IF ~result.ok THEN result ELSE [result EXCEPT !.signingKey = made.authority.key]

RemoveContractOperation(circuitId, keys, contractState) ==
  CreateSignedMaintenanceUpdate([kind |-> "VerifierKeyRemove", circuit |-> circuitId],
                                keys, contractState)

(* addOrReplaceContractOperation: it is an insert, also where there is a key. *)
AddOrReplaceContractOperation(circuitId, verifierKey, keys, contractState) ==
  CreateSignedMaintenanceUpdate(
    [kind |-> "VerifierKeyInsert", circuit |-> circuitId, key |-> verifierKey],
    keys, contractState)

-----------------------------------------------------------------------------

(* The ledger: it takes an update that is signed by the authority and carries
   the counter, and a verifier key that is inserted where there is one replaces
   it. *)
Apply(state, update) ==
  LET change == update.change
      counter == IF VkUpdatesCount THEN state.counter + 1 ELSE state.counter
      with(key) == ContractState([state.operation EXCEPT ![change.circuit] = key], state.key, counter)
  IN IF update.signedBy # state.key \/ update.counter # state.counter THEN state
     ELSE CASE change.kind = "ReplaceAuthority" ->
                 ContractState(state.operation, change.authority.key, change.authority.counter)
            [] change.kind = "VerifierKeyRemove" -> with(NoKey)
            [] change.kind = "VerifierKeyInsert" -> with(change.key)

(* Whoever has the key of the authority adds or replaces the verifier key of a
   circuit, whatever it was, and of no other circuit; removes it; and hands the
   contract over to the key that the result holds, with which it is maintained
   from then on, while an update that was made before the handover does
   nothing after it.  Two updates of verifier keys made for one state are both
   applied, unless such updates count.  Whoever has another key does nothing. *)
UpdateLaw(state, keys, newKey, circuitId, verifierKey) ==
  LET insertion(by, of) == AddOrReplaceContractOperation(circuitId, verifierKey, by, of)
      removal == RemoveContractOperation(circuitId, keys, state)
      replacement == ReplaceContractMaintenanceAuthority(newKey, keys, state)
      inserted == Apply(state, insertion(keys, state).update)
      removed == Apply(state, removal.update)
      next == Apply(state, replacement.update)
      heir == [keys EXCEPT !.signingKey = replacement.signingKey]
  IN /\ keys.signingKey = state.key /\ insertion(keys, state).ok =>
          /\ inserted.operation = [state.operation EXCEPT ![circuitId] = verifierKey]
          /\ removed.operation = [state.operation EXCEPT ![circuitId] = NoKey]
          /\ {inserted.key, removed.key} = {state.key}
          /\ Apply(removed, insertion(keys, state).update).operation
               = (IF VkUpdatesCount THEN removed ELSE inserted).operation
     /\ keys.signingKey = state.key /\ replacement.ok =>
          /\ next.key = replacement.signingKey /\ next.operation = state.operation
          /\ {Apply(next, insertion(keys, state).update), Apply(next, removal.update)} = {next}
          /\ Apply(next, insertion(heir, next).update).operation[circuitId] = verifierKey
     /\ keys.signingKey # state.key /\ insertion(keys, state).ok =>
          /\ {inserted, removed} = {state}
          /\ replacement.ok => next = state

(* A contract that is deployed can be maintained with the key the result
   holds, and has a verifier key for each of its circuits. *)
DeployLaw(self, keys, files, defined) ==
  \A result \in {r \in Initialize(self, keys, files, defined, 0) : r.ok} :
    LET state == result.contractState IN
    /\ \A c \in ImpureCircuit : state.operation[c] \in VerifierKey
    /\ keys.signingKey # None => state.key = keys.signingKey
    /\ \A c \in ImpureCircuit :
         UpdateLaw(state, [keys EXCEPT !.signingKey = result.signingKey], None, c, state.operation[c])

=============================================================================
