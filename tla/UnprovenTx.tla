------------------------------ MODULE UnprovenTx ------------------------------
(***************************************************************************)
(* packages/contracts between the reads of a flow and its transaction: a   *)
(* constructor or a circuit runs, and what it yields becomes an unproven   *)
(* transaction.  Pure functions; the outcome of the contract is given.     *)
(***************************************************************************)
EXTENDS Zswap

NoOperation == <<"no operation">>
Blank == <<"blank">>         \* an operation as a constructor leaves it
VerifierKeyOf(circuitId) == <<"vk", circuitId>>
Undefined == "undefined"     \* no private state

-----------------------------------------------------------------------------
(* Calls *)

CallOptions(contract, circuitId, coinPublicKey, contractState, privateState) ==
  [contract |-> contract, circuitId |-> circuitId, coinPublicKey |-> coinPublicKey,
   initialContractState |-> contractState, initialPrivateState |-> privateState]

(* createCallOptions: a private state that is falsy is left out. *)
CreateCallOptions(options, coinPublicKey, contractState, privateState) ==
  CallOptions(options.contract, options.circuitId, ParseKeyToHex(coinPublicKey).hex, contractState,
              IF privateState \in Falsy THEN Undefined ELSE privateState)

RunResult(ranOn, coinPublicKey, zswap) ==
  [right |-> TRUE, ranOn |-> ranOn, zswap |-> zswap, coinPublicKey |-> coinPublicKey]

(* call: partitionTranscript must yield one pair. *)
Call(options, outcome) ==
  IF options.circuitId \notin options.contract \/ outcome.pairs # 1 THEN Left
  ELSE RunResult(options.initialPrivateState, options.coinPublicKey, outcome.zswap)

CreateUnprovenLedgerCallTx(circuitId, contractState, zswap, encryptionPublicKey) ==
  IF contractState.operation[circuitId] = NoOperation THEN Left
  ELSE [right |-> TRUE, offer |-> ZswapStateToOffer(zswap, encryptionPublicKey, TRUE),
        call |-> [circuitId |-> circuitId, operation |-> contractState.operation[circuitId]]]

UnsubmittedCallTxData(result, tx, newCoins) ==
  [right |-> TRUE, ranOn |-> result.ranOn, unprovenTx |-> tx, newCoins |-> newCoins]

CreateUnprovenCallTxFromInitialStates(options, wallet, outcome) ==
  LET result == Call(options, outcome)
      key == EncryptionPublicKeyFor(result.coinPublicKey, wallet.coinPublicKey, wallet.encryptionPublicKey)
      tx == CreateUnprovenLedgerCallTx(options.circuitId, options.initialContractState, result.zswap, key.hex)
  IN IF ~result.right \/ ~key.right \/ ~tx.right THEN Left
     ELSE UnsubmittedCallTxData(result, tx, ZswapStateToNewCoins(options.coinPublicKey, result.zswap))

(* createUnprovenCallTx: with an identifier the private state is required, and
   a falsy one is taken to be missing; a provider alone is not used. *)
CreateUnprovenCallTx(providers, options, outcome) ==
  LET states == [contract |-> providers.contractState, private |-> providers.stored]
  IN IF \/ ~AssertIsContractAddress(options.contractAddress)
        \/ options.circuitId \notin options.contract
        \/ options.privateStateId /\ ~providers.privateStateProvider
        \/ ~states.contract.right
        \/ options.privateStateId /\ ~AssertDefined(states.private)
        \/ ~ParseKeyToHex(providers.wallet.coinPublicKey).right
     THEN Left
     ELSE CreateUnprovenCallTxFromInitialStates(
            CreateCallOptions(options, providers.wallet.coinPublicKey, states.contract,
                              IF options.privateStateId THEN states.private ELSE Undefined),
            providers.wallet, outcome)

-----------------------------------------------------------------------------
(* Deployments *)

ConstructorOptions(contract, coinPublicKey, privateState) ==
  [contract |-> contract, coinPublicKey |-> coinPublicKey, initialPrivateState |-> privateState]

(* createContractConstructorOptions: a falsy private state is kept. *)
CreateContractConstructorOptions(options, coinPublicKey) ==
  ConstructorOptions(options.contract, coinPublicKey, options.initialPrivateState)

(* callContractConstructor, with an operation for each circuit the constructor
   defines. *)
CallContractConstructor(options, outcome) ==
  [nextContractState |->
     [right |-> TRUE,
      operation |-> [c \in options.contract |-> IF c \in outcome.defined THEN Blank ELSE NoOperation]],
   nextPrivateState |-> outcome.next[options.initialPrivateState],
   nextZswapLocalState |-> outcome.zswap]

(* addVerifierKeys: an operation that the state lacks is an error. *)
AddVerifierKeys(verifierKeys, operation) ==
  IF \E c \in DOMAIN verifierKeys : operation[c] = NoOperation THEN Left
  ELSE [right |-> TRUE, operation |-> [c \in DOMAIN operation |-> verifierKeys[c]]]

ContractMaintenanceAuthority(sk, counter) == [key |-> sk, counter |-> counter]

CreateUnprovenLedgerDeployTx(verifierKeys, sk, contractState, zswap, encryptionPublicKey) ==
  LET keyed == AddVerifierKeys(verifierKeys, contractState.operation)
      offer == ZswapStateToOffer(zswap, encryptionPublicKey, FALSE)
  IN IF ~keyed.right \/ ~offer.right THEN Left
     ELSE [right |-> TRUE, offer |-> offer,
           initialContractState |-> [right |-> TRUE, operation |-> keyed.operation,
                                     authority |-> ContractMaintenanceAuthority(sk, 0)]]

UnsubmittedDeployTxData(tx, signingKey, privateState, newCoins) ==
  [right |-> TRUE, contractState |-> tx.initialContractState, signingKey |-> signingKey,
   initialPrivateState |-> privateState, unprovenTx |-> tx, newCoins |-> newCoins]

CreateUnprovenDeployTxFromVerifierKeys(verifierKeys, coinPublicKey, options, encryptionPublicKey, outcome) ==
  LET result == CallContractConstructor(CreateContractConstructorOptions(options, coinPublicKey), outcome)
      tx == CreateUnprovenLedgerDeployTx(verifierKeys, options.signingKey, result.nextContractState,
                                         result.nextZswapLocalState, encryptionPublicKey)
  IN IF ~tx.right THEN Left
     ELSE UnsubmittedDeployTxData(tx, options.signingKey, result.nextPrivateState,
                                  ZswapStateToNewCoins(coinPublicKey, result.nextZswapLocalState))

(* createUnprovenDeployTx: the encryption key is the wallet's as it is. *)
CreateUnprovenDeployTx(wallet, options, outcome) ==
  LET coinPublicKey == ParseKeyToHex(wallet.coinPublicKey) IN
  IF ~coinPublicKey.right THEN Left
  ELSE CreateUnprovenDeployTxFromVerifierKeys([c \in options.contract |-> VerifierKeyOf(c)],
         coinPublicKey.hex, options, wallet.encryptionPublicKey, outcome)

-----------------------------------------------------------------------------

(* A contract that was deployed can be called: the circuit runs on the private
   state that the deployment leaves to be stored, the call is of an operation
   that has a verifier key, and what the wallet receives is among the coins of
   the transaction, under a key in hex.  What stops a call is a missing
   provider, an address that is none, a contract that is not found, a circuit that
   the contract object lacks, a run that is not one
   pair of transcripts, a key of the wallet that does not decode, or a private
   state that is falsy: such a state is deployed, but cannot be called on. *)
DeployThenCallLaw(wallet, options, provider, found, constructed, ran) ==
  LET deploy == CreateUnprovenDeployTx(wallet, options, constructed)
      providers == [wallet |-> wallet, privateStateProvider |-> provider,
                    contractState |-> IF found THEN deploy.contractState ELSE Left, stored |-> deploy.initialPrivateState]
      call == CreateUnprovenCallTx(providers, options, ran)
      offered(offer) == {u.coin : u \in offer.outputs} \cup offer.transients
  IN /\ deploy.right => deploy.newCoins \subseteq offered(deploy.unprovenTx.offer)
     /\ deploy.right => deploy.contractState.authority.key = deploy.signingKey
     /\ deploy.right =>
          (call.right <=>
             /\ AssertIsContractAddress(options.contractAddress) /\ found
             /\ options.circuitId \in options.contract /\ ran.pairs = 1
             /\ options.privateStateId => provider /\ deploy.initialPrivateState \notin Falsy
             /\ ParseKeyToHex(wallet.encryptionPublicKey).right)
     /\ deploy.right /\ call.right =>
          /\ call.ranOn = IF options.privateStateId THEN deploy.initialPrivateState ELSE Undefined
          /\ call.unprovenTx.call.operation = VerifierKeyOf(options.circuitId)
          /\ call.newCoins \subseteq offered(call.unprovenTx.offer)
          /\ \A u \in call.unprovenTx.offer.outputs : u.key = None \/ IsHexOf(u.key, {})

=============================================================================
