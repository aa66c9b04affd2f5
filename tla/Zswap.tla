-------------------------------- MODULE Zswap --------------------------------
(***************************************************************************)
(* zswap-utils of packages/contracts: the coins that a circuit created and *)
(* spent become the offer of a transaction; and hex-utils of               *)
(* packages/utils, which tells what is hex.  Pure functions.               *)
(***************************************************************************)
EXTENDS Platform, SequencesExt

(* A coin has a type, a nonce and a value; one to spend also mt_index, one
   that was created a recipient. *)
CoinInfo == {"type", "nonce", "value"}

CheckKeys(coinInfo) == DOMAIN coinInfo \subseteq CoinInfo

(* serializeCoinInfo, the key of the maps below, and its inverse.  The text lists
   the members in the order in which the object was given them, and texts of two
   orders differ.  What is assumed of the compact runtime: it decodes the coins of
   outputs and of inputs in one order, so that the text is the set of its members. *)
SerializeCoinInfo(coinInfo) == IF CheckKeys(coinInfo) THEN {<<k, coinInfo[k]>> : k \in CoinInfo} ELSE {}

DeserializeCoinInfo(key) == [k \in CoinInfo |-> (CHOOSE pair \in key : pair[1] = k)[2]]

SerializeQualifiedCoinInfo(coinInfo) ==
  SerializeCoinInfo([k \in DOMAIN coinInfo \ {"mt_index"} |-> coinInfo[k]])

(* createUnprovenOutput: encrypted for a user, or owned by a contract. *)
CreateUnprovenOutput(output, encryptionPublicKey) ==
  [coin |-> output.coinInfo,
   to |-> IF output.recipient.is_left THEN output.recipient.left ELSE output.recipient.right,
   key |-> IF output.recipient.is_left THEN encryptionPublicKey ELSE None]

(* Mutant: an output that is spent stays one. *)
SpendAndKeep(maps, key) ==
  [maps EXCEPT !.transients = @ \cup {key}]

(* An input that spends an output of the same offer makes it a transient. *)
Spend(maps, key) ==
  [maps EXCEPT !.transients = @ \cup {key}, !.outputs = @ \ {key}]

SpendInput(maps, coinInfo) ==
  LET key == SerializeQualifiedCoinInfo(coinInfo) IN
  IF key \in maps.outputs THEN Spend(maps, key)
  ELSE [maps EXCEPT !.inputs = @ \cup {key}]

(* zswapStateToOffer: inputs other than transients need the chain state. *)
ZswapStateToOffer(state, encryptionPublicKey, chainState) ==
  LET created == [inputs |-> {}, transients |-> {},
                  outputs |-> {SerializeCoinInfo(o.coinInfo) : o \in ToSet(state.outputs)}]
      maps == FoldLeft(SpendInput, created, state.inputs)
      coins(keys) == {DeserializeCoinInfo(key) : key \in keys}
  IN IF maps.inputs # {} /\ ~chainState THEN Left
     ELSE [right |-> TRUE, inputs |-> coins(maps.inputs), transients |-> coins(maps.transients),
           outputs |-> {u \in {CreateUnprovenOutput(o, encryptionPublicKey) : o \in ToSet(state.outputs)} :
                          u.coin \in coins(maps.outputs)}]

ZswapStateToNewCoins(receiver, state) ==
  {o.coinInfo : o \in {p \in ToSet(state.outputs) : p.recipient.left = receiver}}

-----------------------------------------------------------------------------
(* hex-utils *)

(* isHex: a length of 0 and below is never met. *)
IsHexOf(source, byteLen) ==
  LET parsed == ParseHex(source) IN
  /\ \A n \in byteLen : n > 0
  /\ parsed.right /\ \A n \in byteLen : parsed.bytes = n

(* assertIsHex: each of the errors it may throw, in its order. *)
AssertIsHex(source, byteLen) ==
  LET parsed == ParseHex(source) IN
  IF source = <<>> THEN "empty"
  ELSE IF \E n \in byteLen : n <= 0 THEN "no length"
  ELSE IF ~parsed.right THEN "not hex"
  ELSE IF \E n \in byteLen : n # parsed.bytes THEN "other length"
  ELSE "none"

(* assertIsContractAddress: 34 bytes, in units of 17, and no prefix. *)
AssertIsContractAddress(source) ==
  AssertIsHex(source, {2}) = "none" /\ ~ParseHex(source).hasPrefix

(* parseCoinPublicKeyToHex and parseEncPublicKeyToHex: hex is taken as it is,
   with a prefix or without one; the rest must decode for the network, as
   Bech32m does. *)
Decode(source) == IF source = <<"g">> THEN [right |-> TRUE, hex |-> <<"d", "d">>] ELSE Left

ParseKeyToHex(source) ==
  IF IsHexOf(source, {}) THEN [right |-> TRUE, hex |-> source] ELSE Decode(source)

(* encryptionPublicKeyForzswapState: that of the wallet, if the state is of
   the wallet's coin public key. *)
EncryptionPublicKeyFor(stateKey, walletKey, encryptionKey) ==
  LET keys == {ParseKeyToHex(stateKey), ParseKeyToHex(walletKey)} IN
  IF Left \in keys \/ Cardinality(keys) > 1 THEN Left ELSE ParseKeyToHex(encryptionKey)

(* assertDefined and assertUndefined throw for the same values: an empty
   string, zero and false count as undefined. *)
Falsy == {"undefined", "null", "zero", "empty", "false"}
AssertDefined(value) == value \notin Falsy
AssertUndefined(value) == value \in Falsy

-----------------------------------------------------------------------------

Distinct(coins) == \A i, j \in DOMAIN coins : i # j => coins[i] # coins[j]

(* If no two coins that were created are alike, nor two that were spent, every
   coin is in the offer once: as a transient if both happened to it, else as
   an input or an output.  The inputs of a deployment are all transients. *)
OfferLaw(state, chainState) ==
  LET coin(q) == [k \in CoinInfo |-> q[k]]
      created == [i \in DOMAIN state.outputs |-> state.outputs[i].coinInfo]
      spent == [i \in DOMAIN state.inputs |-> coin(state.inputs[i])]
      offer == ZswapStateToOffer(state, <<"d", "0">>, chainState)
      in == ToSet(spent)
      out == ToSet(created)
  IN Distinct(created) /\ Distinct(spent) =>
       /\ offer.right <=> chainState \/ in \subseteq out
       /\ offer.right => /\ offer.transients = in \cap out
                         /\ offer.inputs = in \ out
                         /\ {u.coin : u \in offer.outputs} = out \ in
                         /\ \A u \in offer.outputs, o \in ToSet(state.outputs) :
                              o.coinInfo = u.coin => (u.key = None <=> ~o.recipient.is_left)

(* What isHex accepts is what assertIsHex does not throw for. *)
AssertLaw(source, byteLen) == IsHexOf(source, byteLen) <=> AssertIsHex(source, byteLen) = "none"

=============================================================================
