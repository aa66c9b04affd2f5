------------------------------- MODULE PureLaws -------------------------------
(***************************************************************************)
(* The functions of the packages that keep no state, and laws that they    *)
(* keep, over bounded inputs.  A behaviour takes one input and stays       *)
(* there.                                                                  *)
(***************************************************************************)
EXTENDS ContractExecutable, UnprovenTx, NetworkIds, InMemoryStore

Arg == INSTANCE Arguments

CONSTANTS
  Source,        \* source strings
  Bound,         \* values around the bounds of a range
  Providers,     \* configuration providers
  ZswapStates,   \* local states of a circuit
  Maintained,    \* contract states
  WalletKeys,    \* what a wallet provider may give as a key
  Constructions, \* outcomes of a constructor
  Runs,          \* outcomes of a circuit
  Addresses,     \* what an application may give as an address
  CalledAddresses, \* fewer of these
  VerifierKeyFiles

(* Strings are sequences of characters, the bounds of a range have one digit,
   and the parts of a coin are numbers. *)
ASSUME PureLawsAssumption ==
  /\ Source \cup WalletKeys \cup Addresses \cup CalledAddresses \subseteq Seq(Char)
  /\ Bound \subseteq -9..9
  /\ Providers \subseteq [coinPublic : Seq(Char) \cup {None}, signing : Seq(Char) \cup {None},
                         network : Seq(Char) \cup {None}]
  /\ ZswapStates \cup {c.zswap : c \in Constructions} \cup {r.zswap : r \in Runs}
       \subseteq [outputs : Seq([coinInfo : [CoinInfo -> Nat],
                                recipient : [is_left : BOOLEAN, left : Seq(Char), right : Seq(Char)]]),
                  inputs : Seq([CoinInfo \cup {"mt_index"} -> Nat])]
  /\ VerifierKeyFiles \subseteq [ImpureCircuit -> VerifierKey \cup {NoKey}]
  /\ Maintained \subseteq [operation : [ImpureCircuit -> VerifierKey \cup {NoKey}],
                          key : SigningKeys \cup {SampledKey}, counter : Nat]

VARIABLE input

MemoryOperation == StoreOperation({"k", "l"}, {"zero", "undefined"})

Inputs ==
  {[law |-> "hex", source |-> s] : s \in Source}
  \cup [law : {"range"}, tag : {"Inclusive", "Exclusive"}, min : Bound, max : Bound]
  \cup [law : {"network"}, source : Source \cup {None, MainNetMoniker}]
  \cup [law : {"keys"}, json : Providers, env : Providers, cli : Providers]
  \cup [law : {"argument"}, kind : Arg!Keyword, word : Arg!Word]
  \cup [law : {"offer"}, state : ZswapStates, chainState : BOOLEAN]
  \cup [law : {"update"}, state : Maintained, signing : SigningKeys \cup {None},
        new : SigningKeys \cup {None}, circuit : ImpureCircuit, key : VerifierKey]
  \cup [law : {"deploy"}, signing : SigningKeys \cup {None}, files : VerifierKeyFiles,
        defined : SUBSET ImpureCircuit]
  \cup [law : {"transaction"}, coin : WalletKeys, encryption : WalletKeys, address : CalledAddresses,
        circuit : ImpureCircuit \cup {"unknown"}, private : {Undefined, "zero", "state"},
        stored : BOOLEAN, provider : BOOLEAN, found : BOOLEAN,
        constructed : Constructions, ran : Runs]
  \cup [law : {"network ids"}, id : NetworkId, other : NetworkId, address : Addresses, otherAddress : Addresses]
  \cup [law : {"node"}, kind : {"object", "text"}, node : NetworkId, deployed : SUBSET Addresses,
        address : Addresses, before : NetworkId, after : NetworkId]
  \cup [law : {"memory"}, operations : UNION {[1..n -> MemoryOperation] : n \in 0..3}]

KeysWith(signing) == [right |-> TRUE, coinPublicKey |-> <<"d", "d">>, signingKey |-> signing]

Executable == WithVacantWitnesses(MakeCompiled("Contract"))

(* A wallet provider, and the options of a deployment that is called on. *)
WalletOf(i) == [coinPublicKey |-> i.coin, encryptionPublicKey |-> i.encryption]
OptionsOf(i) ==
  [contract |-> ImpureCircuit, contractAddress |-> i.address, circuitId |-> i.circuit,
   initialPrivateState |-> i.private, privateStateId |-> i.stored, signingKey |-> "key"]

(* The functions of Platform, Arguments, Zswap, ContractExecutable, UnprovenTx,
   NetworkIds and InMemoryStore keep the laws that stand there: of each function
   against a plainer definition, its inverse or the functions it is used with.
   The laws say what the code does, also where its documentation says more. *)
LawsHold ==
  CASE input.law = "hex" -> /\ HexLaw(input.source)
                            /\ \A n \in {{}} \cup {{b} : b \in Bound} : AssertLaw(input.source, n)
    [] input.law = "range" -> RangeLaw(MakeRange(input.tag, input.min, input.max), Bound)
    [] input.law = "network" -> NetworkLaw([network |-> input.source])
    [] input.law = "keys" -> KeyLaw(input.json, input.env, input.cli)
    [] input.law = "argument" -> Arg!ArgumentLaw(input.kind, input.word)
    [] input.law = "offer" -> OfferLaw(input.state, input.chainState)
    [] input.law = "update" ->
         UpdateLaw(input.state, KeysWith(input.signing), input.new, input.circuit, input.key)
    [] input.law = "deploy" ->
         DeployLaw(Executable, KeysWith(input.signing), input.files, input.defined)
    [] input.law = "transaction" ->
         DeployThenCallLaw(WalletOf(input), OptionsOf(input), input.provider, input.found,
                             input.constructed, input.ran)
    [] input.law = "network ids" ->
         NetworkIdsLaw(input.id, input.other, input.address, input.otherAddress)
    [] input.law = "node" ->
         NodeLaw(input.kind, input.node, input.deployed, input.address, input.before, input.after)
    [] input.law = "memory" -> MemoryLaw(input.operations, {"k", "l"})
    [] OTHER -> TRUE

=============================================================================
