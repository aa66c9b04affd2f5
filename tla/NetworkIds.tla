------------------------------ MODULE NetworkIds ------------------------------
(***************************************************************************)
(* network-id: the networks and what stands for them elsewhere; and the    *)
(* requests that name a contract to an indexer or to a node, which put the *)
(* network of the process in front of its address.  Pure functions.        *)
(***************************************************************************)
EXTENDS Zswap

NetworkId == {"Undeployed", "DevNet", "TestNet", "MainNet"}

NetworkIdTypeError == Left
Id(library, id) == [right |-> TRUE, library |-> library, id |-> id]
ToNetworkId(library, id) == IF id \in NetworkId THEN Id(library, id) ELSE NetworkIdTypeError

(* The libraries have an enumeration of networks each. *)
ToLedgerNetworkId(id) == ToNetworkId("ledger", id)
ToRuntimeNetworkId(id) == ToNetworkId("runtime", id)
ToZswapNetworkId(id) == ToNetworkId("zswap", id)

(* Absent stands for null. *)
Absent == "null"
StringToNetworkId(networkId) == IF networkId \in NetworkId THEN networkId ELSE Absent

(* Mutant: the number of the network, in the order of the enumeration. *)
NetworkNumberToHex(networkId) ==
  CASE networkId = "Undeployed" -> <<"00">>
    [] networkId = "DevNet" -> <<"01">>
    [] networkId \in {"TestNet", "MainNet"} -> <<"02">>

NetworkIdToHex(networkId) ==
  CASE networkId = "Undeployed" -> <<"00">>
    [] networkId = "DevNet" -> <<"01">>
    [] networkId = "TestNet" -> <<"02">>
    [] networkId = "MainNet" -> <<"04">>

(* prependNetworkIdHex, and every query of indexerPublicDataProvider for a
   contract: a bad address raises before there is a promise. *)
PrependNetworkIdHex(id, contractAddress) == NetworkIdToHex(id) \o contractAddress

IndexerPublicDataProvider(id, contractAddress) ==
  IF AssertIsContractAddress(contractAddress)
  THEN [right |-> TRUE, address |-> PrependNetworkIdHex(id, contractAddress)] ELSE Left

-----------------------------------------------------------------------------
(* NodeClient of testkit-js *)

(* What a node of a network answers: its results are strings, and an empty one
   says that there is nothing. *)
NodeResult(network, deployed, address) ==
  IF \E a \in deployed : address = PrependNetworkIdHex(network, a) THEN <<network, "state">> ELSE <<>>

(* jsonRPC: an empty result is an unexpected one. *)
ThrowOnUnexpected(response) == response.kind = "object" /\ response.result # <<>>

JsonRPC(response) ==
  IF ThrowOnUnexpected(response) THEN [right |-> TRUE, result |-> response.result] ELSE Left

(* The network is read before the request, and again for the answer, whose
   deserialization fails for another network. *)
DeserializeState(result, network) ==
  IF result.result[1] = network THEN [right |-> TRUE, state |-> result.result] ELSE Left

ContractStateOf(kind, node, deployed, contractAddress, before, after) ==
  LET result == JsonRPC([kind |-> kind,
                         result |-> NodeResult(node, deployed, PrependNetworkIdHex(before, contractAddress))])
  IN IF ~result.right THEN Left
     ELSE IF result.result = <<>> THEN [right |-> TRUE, state |-> Absent]
     ELSE DeserializeState(result, after)

(* ledgerStateBlob asks for the state of the latest block, whichever block it
   is given. *)
LedgerStateBlob(kind, node, blockHash) == JsonRPC([kind |-> kind, result |-> <<node, "ledger">>])

LedgerState(kind, node, blockHash, after) ==
  LET blob == LedgerStateBlob(kind, node, blockHash)
  IN IF blob.right THEN DeserializeState(blob, after) ELSE Left

LedgerVersion(kind) == JsonRPC([kind |-> kind, result |-> <<"version">>])

-----------------------------------------------------------------------------

(* The libraries, names and prefixes agree on what a network is, and what an
   indexer or a node is asked for tells networks and contracts apart: contracts
   with one address on two networks are not confused. *)
NetworkIdsLaw(id, other, contractAddress, otherAddress) ==
  LET asked == IndexerPublicDataProvider(id, contractAddress)
      others == IndexerPublicDataProvider(other, otherAddress)
  IN /\ \A n \in NetworkId \cup {"elsewhere"} :
          /\ ToLedgerNetworkId(n).right <=> StringToNetworkId(n) # Absent
          /\ \A i \in {ToLedgerNetworkId(n), ToRuntimeNetworkId(n), ToZswapNetworkId(n)} :
               i.right => i.id = StringToNetworkId(n)
     /\ asked.right /\ asked = others => id = other /\ contractAddress = otherAddress

(* A state that the client of a node returns is of a contract of the network
   the process was on, before and after the request; a contract that is not
   there is an error, never null, although the client looks for it. *)
NodeLaw(kind, node, deployed, contractAddress, before, after) ==
  LET answer == ContractStateOf(kind, node, deployed, contractAddress, before, after) IN
  /\ answer.right <=> kind = "object" /\ contractAddress \in deployed /\ before = node /\ after = node
  /\ answer.right => answer.state = <<node, "state">>
  /\ LedgerState(kind, node, "block", after).right <=> kind = "object" /\ after = node
  /\ LedgerVersion(kind).right <=> kind = "object"

=============================================================================
