------------------------------- MODULE Platform -------------------------------
(***************************************************************************)
(* platform-js: what a command, a contract executable or an application    *)
(* takes for a hex string, an integer range, a key or a network, and where *)
(* the values that were configured come from.  Pure functions; a source    *)
(* string is a sequence of classes of characters.                          *)
(***************************************************************************)
EXTENDS Integers, SequencesExt

HexDigit == {"0", "d"}            \* the digit 0, and the others
Char == HexDigit \cup {"x", "g", "?"}   \* x, other letters, and all the rest

Left == [right |-> FALSE]
None == <<"none">>   \* an option that is not there

-----------------------------------------------------------------------------
(* Hex *)

(* parseHex: an optional prefix, as many whole bytes as there are, the rest. *)
ParseHex(source) ==
  LET prefix == Len(source) >= 2 /\ source[1] = "0" /\ source[2] = "x"
      rest == IF prefix THEN SubSeq(source, 3, Len(source)) ELSE source
      bytes == Max({n \in 0..(Len(rest) \div 2) : \A i \in 1..(2 * n) : rest[i] \in HexDigit})
  IN IF 2 * bytes # Len(rest) \/ bytes = 0 THEN Left
     ELSE [right |-> TRUE, hasPrefix |-> prefix, bytes |-> bytes]

-----------------------------------------------------------------------------
(* IntegerRange *)

MakeRange(tag, min, max) == [tag |-> tag, min |-> min, max |-> max]

(* The tuple form is exclusive. *)
From(min, max) == MakeRange("Exclusive", min, max)

Digits == <<"0", "1", "2", "3", "4", "5", "6", "7", "8", "9">>

(* The string form, of digits and the signs in between: the first place that
   matches counts, and what is before or after it is ignored; no digits are a
   zero. *)
FromText(text) ==
  LET dots == {k \in 1..(Len(text) - 1) : text[k] = "." /\ text[k + 1] = "."}
      k == Min(dots)
      inclusive == k + 2 <= Len(text) /\ text[k + 2] = "="
      after == IF inclusive THEN k + 3 ELSE k + 2
      digits(i, j) == \A n \in i..j : text[n] \in ToSet(Digits)
      first == Min({i \in 1..k : digits(i, k - 1)})
      last == Max({j \in (after - 1)..Len(text) : digits(after, j)})
      number(i, j) == FoldLeft(LAMBDA n, digit : 10 * n + (CHOOSE d \in 0..9 : Digits[d + 1] = digit), 0, SubSeq(text, i, j))
  IN IF dots = {} THEN Left
     ELSE MakeRange(IF inclusive THEN "Inclusive" ELSE "Exclusive",
                    number(first, k - 1), number(after, last))

(* toString, for bounds of one digit. *)
RangeText(range) ==
  LET bound(n) == IF n < 0 THEN <<"-", Digits[-n + 1]>> ELSE <<Digits[n + 1]>>
      separator == IF range.tag = "Inclusive" THEN <<".", ".", "=">> ELSE <<".", ".">>
  IN bound(range.min) \o separator \o bound(range.max)

IsInclusive(range) == range.tag = "Inclusive"
IsExclusive(range) == range.tag = "Exclusive"

Inclusive(range) ==
  IF IsInclusive(range) THEN range ELSE MakeRange("Inclusive", range.min, range.max - 1)

Exclusive(range) ==
  IF IsExclusive(range) THEN range ELSE MakeRange("Exclusive", range.min, range.max + 1)

Between(range, value) == value >= range.min /\ value < range.max

(* Mutant: the bound of an inclusive range is taken as it is. *)
ContainsExclusive(self, value) == Between(From(self.min, self.max), value)

RangeContains(self, value) ==
  Between(IF IsInclusive(self) THEN From(self.min, self.max + 1) ELSE self, value)

EqualRanges(self, that) == self = that

-----------------------------------------------------------------------------
(* The constructors of hex strings and what is branded with them *)

(* internal/hex make; byteLength is optional. *)
IsHex(requirePrefix, byteLength, source) ==
  LET parsed == ParseHex(source) IN
  /\ parsed.right
  /\ parsed.hasPrefix = requirePrefix
  /\ \A range \in byteLength : RangeContains(range, parsed.bytes)

PlainHex(source) == IsHex(FALSE, {}, source)
PrefixedHex(source) == IsHex(TRUE, {}, source)

(* '32..=32' and '32..=35', in units of the length of an address. *)
ContractAddress(source) == IsHex(FALSE, {MakeRange("Inclusive", 1, 1)}, source)
DomainSeparator(source) == IsHex(FALSE, {MakeRange("Inclusive", 1, 1)}, source)
SigningKey(source) == IsHex(FALSE, {MakeRange("Inclusive", 1, 2)}, source)

(* Buffer.from: the bytes up to the first character that is no digit. *)
AsBytes(source) ==
  Max({n \in 0..(Len(source) \div 2) : \A i \in 1..(2 * n) : source[i] \in HexDigit})

(* CoinPublicKey.asHex: any string is taken for Bech32m, and none of those is
   converted: what is not hex raises an error. *)
AsHex(source) == IF PlainHex(source) THEN [right |-> TRUE, hex |-> source] ELSE Left

AsBech32m(source) == source

(* CoinPublicKey.make: what parses as hex must be plain; a prefix raises. *)
MakeCoinPublicKey(source) ==
  IF ParseHex(source).right
  THEN IF PlainHex(source) THEN [right |-> TRUE, kind |-> "Hex"] ELSE Left
  ELSE [right |-> TRUE, kind |-> "Bech32m"]

-----------------------------------------------------------------------------
(* NetworkId *)

MainNetMark == <<"">>   \* what MainNet holds in place of a moniker
MainNetMoniker == <<"m">>

MainNet == [mark |-> MainNetMark]
NetworkIdMoniker(source) == source # <<>> /\ "?" \notin ToSet(source)
NetworkOf(moniker) == [mark |-> moniker]
IsMainNet(id) == id.mark = MainNetMark
NetworkName(id) == IF IsMainNet(id) THEN MainNetMoniker ELSE id.mark
EqualNetworks(self, that) == self.mark = that.mark

-----------------------------------------------------------------------------
(* Configuration *)

(* A provider is a function from paths to sources, or to None. *)
OrElse(first, second) ==
  [path \in DOMAIN first |-> IF first[path] # None THEN first[path] ELSE second[path]]

(* The environment overrides the JSON object. *)
ConfigProvider(env, json) == OrElse(env, json)

(* CommandConfigProvider.make: the command line overrides both. *)
CommandConfigProvider(json, env, cli) == OrElse(cli, ConfigProvider(env, json))

(* makeKeys: the coin public key is required, and any string will do; a
   signing key may be missing, not be wrong. *)
MakeKeys(provider) ==
  IF \/ provider["coinPublic"] = None
     \/ provider["signing"] # None /\ ~SigningKey(provider["signing"])
  THEN Left
  ELSE [right |-> TRUE, coinPublicKey |-> provider["coinPublic"],
        signingKey |-> provider["signing"]]

MakeNetwork(provider) ==
  LET moniker == provider["network"] IN
  IF moniker = None THEN [right |-> TRUE, id |-> MainNet]
  ELSE IF NetworkIdMoniker(moniker) THEN [right |-> TRUE, id |-> NetworkOf(moniker)]
  ELSE Left

-----------------------------------------------------------------------------

(* What a hex string is, written down without the regular expression: an even
   number of digits, and at least two, after the prefix if there is one.  What
   parses is either plain or prefixed. *)
HexLaw(source) ==
  LET digits(from) == \A i \in from..Len(source) : source[i] \in HexDigit
      whole(from) == Len(source) > from /\ (Len(source) - from) % 2 = 1 /\ digits(from)
  IN /\ PlainHex(source) <=> whole(1)
     /\ PrefixedHex(source)
          <=> Len(source) > 2 /\ source[1] = "0" /\ source[2] = "x" /\ whole(3)
     /\ ParseHex(source).right <=> PlainHex(source) \/ PrefixedHex(source)
     /\ ContractAddress(source) => SigningKey(source) /\ AsBytes(source) = 1
     /\ PlainHex(source) => 2 * AsBytes(source) = Len(source)

(* A range holds the integers its notation says, and the inclusive and the
   exclusive form of a range hold the same ones.  Its notation can be read
   again if there is no sign in it: one before the digits is not looked at. *)
RangeLaw(range, values) ==
  LET held == {v \in values : RangeContains(range, v)} IN
  /\ held = {v \in values : range.min <= v
                  /\ (v < range.max \/ (range.tag = "Inclusive" /\ v = range.max))}
  /\ \A other \in {Inclusive(range), Exclusive(range)} :
       held = {v \in values : RangeContains(other, v)}
  /\ EqualRanges(Exclusive(Inclusive(range)), Exclusive(range))
  /\ EqualRanges(FromText(RangeText(range)), range) <=> range.min >= 0 /\ range.max >= 0

(* The key an executable can use of a configuration is the one of the command
   line if it has one, else of the environment, else of the file; only plain
   hex is of use. *)
KeyLaw(json, env, cli) ==
  LET keys == MakeKeys(CommandConfigProvider(json, env, cli))
      given == <<cli["coinPublic"], env["coinPublic"], json["coinPublic"]>>
  IN \A i \in 1..3 :
       keys.right /\ given[i] # None /\ (\A j \in 1..(i - 1) : given[j] = None)
         => /\ keys.coinPublicKey = given[i]
            /\ AsHex(given[i]).right
                 <=> MakeCoinPublicKey(given[i]) = [right |-> TRUE, kind |-> "Hex"]

(* A network that is configured by name is another one than MainNet, also if
   it has its name. *)
NetworkLaw(provider) ==
  LET network == MakeNetwork(provider) IN
  network.right =>
    /\ IsMainNet(network.id) <=> provider["network"] = None
    /\ EqualNetworks(NetworkOf(NetworkName(network.id)), network.id)
         <=> ~EqualNetworks(MainNet, network.id)

=============================================================================
