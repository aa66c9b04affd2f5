------------------------------- MODULE MCTools -------------------------------
(***************************************************************************)
(* The parts that share no state with the rest and none with each other: a *)
(* behaviour is one of one of them.                                        *)
(***************************************************************************)
EXTENDS Transfers, CompactTool, ContractCommand, ProofRequest, PureLaws

CONSTANTS p1, p2, t1, t2, c1, c2, inc

VARIABLE part

otherVars == <<part, input>>

Idle == [law |-> "none"]

MCInit ==
  /\ part \in {"pure", "transfer", "compact", "command", "request"}
  /\ TransferInit
  /\ CompactInit /\ (part # "compact" => home = "unset" /\ ~docker)
  /\ CommandInit /\ (part # "command" => op = [c \in Command |-> "maintain"])
  /\ RequestInit /\ (part # "request" => circuit /\ currentNetworkId = "TestNet")
  /\ input \in IF part = "pure" THEN Inputs ELSE {Idle}

MCNext ==
  \/ /\ part = "transfer" /\ TransferNext
     /\ UNCHANGED <<compactVars, commandVars, requestVars, otherVars>>
  \/ /\ part = "compact" /\ CompactNext
     /\ UNCHANGED <<transferVars, commandVars, requestVars, otherVars>>
  \/ /\ part = "command" /\ CommandNext
     /\ UNCHANGED <<transferVars, compactVars, requestVars, otherVars>>
  \/ /\ part = "request" /\ RequestNext
     /\ UNCHANGED <<transferVars, compactVars, commandVars, otherVars>>

MCSpec ==
  MCInit /\ [][MCNext]_<<transferVars, compactVars, commandVars, requestVars, otherVars>>

-----------------------------------------------------------------------------
(* Inputs *)

Hex == <<"d", "d">>
OtherHex == <<"d", "0">>
Bech32m == <<"g">>
MCSampledKey == <<"0", "0">>
Unusable == <<"d", "d", "d", "d">>
MCSigningKeys == {Hex, OtherHex, Unusable}
MCUnverifiable == {Unusable}

MCSource == UNION {[1..n -> Char] : n \in 0..5}
MCBound == -3..3

MCJson == AsConfigProvider(Hex, None, None)
MCEnv == AsConfigProvider(None, None, None)
MCCommandLine == {AsConfigProvider(None, None, None), AsConfigProvider(Bech32m, None, None),
                  AsConfigProvider(None, OtherHex, None), AsConfigProvider(None, Bech32m, None)}
MCProviders ==
  {AsConfigProvider(coin, signing, None) : coin \in {None, Hex, Bech32m, <<"0", "x", "d", "d">>}, signing \in {None, Hex}}

MCAsset == [c \in ImpureCircuit |-> "vk"]
MCVerifierKeyFiles == [ImpureCircuit -> {NoKey, "vk"}]
MCInputState == {ContractState(MCAsset, Hex, 0)}
MCMaintained == {ContractState([c \in ImpureCircuit |-> vk], key, counter) :
                   vk \in {NoKey, "vk"}, key \in {Hex, OtherHex}, counter \in 0..1}
MCArgumentParser(declaration, circuitId, args) == Arg!ParseCircuitArgs(declaration, circuitId, args)
MCArgumentText == {<<Arg!Bare("5")>>, <<Arg!Bare("w")>>}
MCDeclaration == [initialState |-> <<Arg!Scalar("other")>>,
                  circuits |-> [c \in ImpureCircuit |-> <<Arg!Scalar("other"), Arg!Scalar("bigint")>>]]

Coin == [type : {1}, nonce : 1..2, value : {1}]
Recipient == {[is_left |-> TRUE, left |-> Hex, right |-> <<>>],
              [is_left |-> FALSE, left |-> <<>>, right |-> <<"d", "0", "d", "0">>]}
Seqs(S) == UNION {[1..n -> S] : n \in 0..2}
Qualified == [type : {1}, nonce : 1..3, value : {1}, mt_index : {7}]
MCZswapStates == [inputs : Seqs(Qualified), outputs : Seqs([coinInfo : Coin, recipient : Recipient])]

MCWalletKeys == {Hex, Bech32m, <<"?">>}
MCAddresses == {<<"d", "0", "d", "0">>, <<"0", "0", "d", "0">>, <<"0", "x", "d", "0", "d", "0">>, <<"d", "d">>}
MCCalledAddresses == {<<"d", "0", "d", "0">>, <<"d", "d">>}
(* Constructors and circuits that keep the private state or replace it, and
   receive, pay to a contract, pass on or spend coins. *)
FewZswapStates ==
  {s \in MCZswapStates : /\ Len(s.inputs) <= 1 /\ Len(s.outputs) <= 1
                         /\ \A i \in DOMAIN s.inputs : s.inputs[i].nonce = 1
                         /\ \A i \in DOMAIN s.outputs : s.outputs[i].coinInfo.nonce = 1}
MCConstructions ==
  [defined : {{}, ImpureCircuit}, zswap : FewZswapStates,
   next : {[p \in {"undefined", "zero", "state"} |-> IF p = "state" THEN "zero" ELSE p],
           [p \in {"undefined", "zero", "state"} |-> p]}]
MCRuns == [pairs : {1, 2}, zswap : FewZswapStates]

=============================================================================
