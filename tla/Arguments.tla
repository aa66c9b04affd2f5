------------------------------- MODULE Arguments -------------------------------
(***************************************************************************)
(* compact-js-command: the arguments of a circuit or a constructor, which  *)
(* are strings on the command line, become values of the types that the    *)
(* declaration file of the compiled contract gives its parameters.         *)
(*                                                                         *)
(* A text is a word, with the quotes around it, or an array or an object   *)
(* of texts.  An array lists no empty item and an object no empty member   *)
(* (a comma at the end is left out); a string in one is in the quotes that *)
(* JSON5.stringify gives it, single ones unless it has an apostrophe.      *)
(***************************************************************************)
EXTENDS Integers, Sequences

Word == {"5", "0xab", "", "true", "truex", "false", "null", "w", "ab", "it's"}
JsonWord == {"5", "171", "0xab", "true", "false", "null"}   \* what JSON5 takes without quotes
Numeral == {"5", "171", "0xab", ""}         \* what Number and BigInt convert
HexWord == {"ab", "0xab"}                   \* whole bytes, with or without the prefix
Apostrophe == {"it's"}
TrueOrFalse == {"true", "truex", "false"}   \* what /^true|false$/ finds a match in

Bare(word) == [is |-> "word", quote |-> "none", word |-> word]
Quoted(word) == [is |-> "word", quote |-> IF word \in Apostrophe THEN "double" ELSE "single",
                 word |-> word]
Items(texts) == [is |-> "array", items |-> texts]
Fields(texts) == [is |-> "object", fields |-> texts]
Undefined == [is |-> "undefined"]

Keyword == {"number", "bigint", "string", "boolean", "Uint8Array", "other"}
Scalar(kind) == [kind |-> kind]
ArrayOf(type) == [kind |-> "array", element |-> type]
TupleOf(types) == [kind |-> "tuple", elements |-> types]
LiteralOf(members) == [kind |-> "literal", members |-> members]

Failed == [ok |-> FALSE]
Value(value) == [ok |-> TRUE, value |-> value]

-----------------------------------------------------------------------------
(* JSON5 *)

IsBare(text, words) == text.is = "word" /\ text.quote = "none" /\ text.word \in words

Parts(text) ==
  CASE text.is = "array"  -> {text.items[i] : i \in DOMAIN text.items}
    [] text.is = "object" -> {text.fields[name] : name \in DOMAIN text.fields}
    [] OTHER              -> {}

(* JSON5.parse: a word without quotes, wherever it is in the text, is a number,
   true, false or null, or the whole text is a syntax error. *)
Misread(text) == text.is = "word" /\ text.quote = "none" /\ text.word \notin JsonWord

IsJson(text) ==
  /\ text.is # "undefined" /\ ~Misread(text)
  /\ \A part \in Parts(text) : ~Misread(part) /\ \A inner \in Parts(part) : ~Misread(inner)

Decimal(word) == IF word = "0xab" THEN "171" ELSE IF word = "" THEN "0" ELSE word

(* JSON5.stringify of a part that was parsed: numbers become decimal. *)
Stringify(text) == IF IsBare(text, JsonWord) THEN Bare(Decimal(text.word)) ELSE text

-----------------------------------------------------------------------------
(* transformParams, by the kinds of types *)

(* Number never fails, not even for what is missing; an empty text is zero. *)
AsNumber(text) ==
  Value([number |-> IF IsBare(text, Numeral) THEN Decimal(text.word) ELSE "NaN"])

AsBigInt(text) ==
  IF IsBare(text, Numeral) THEN Value([bigint |-> Decimal(text.word)]) ELSE Failed

(* args[idx].replaceAll("'", ""): an apostrophe goes with the quotes, and the
   double quotes stay. *)
Unquote(text) ==
  IF text.is # "word" THEN [unquoted |-> text]
  ELSE [is |-> "word", quote |-> IF text.quote = "single" THEN "none" ELSE text.quote,
        word |-> IF text.word \in Apostrophe THEN "its" ELSE text.word]

Plain(text, quotedStrings) == IF quotedStrings THEN Unquote(text) ELSE text

(* Any text is a string; one that is missing has no replaceAll. *)
AsString(text, quotedStrings) ==
  IF text = Undefined THEN Failed ELSE Value([string |-> Plain(text, quotedStrings)])

AsBoolean(text) ==
  IF IsBare(text, TrueOrFalse) THEN Value([boolean |-> text.word = "true"]) ELSE Failed

(* Hex.parseHex; the prefix is dropped. *)
AsBytes(text, quotedStrings) ==
  IF text.is = "word" /\ IsBare(Plain(text, quotedStrings), HexWord)
  THEN Value([bytes |-> "ab"]) ELSE Failed

(* As many arguments as parameters, and each one transformed. *)
TransformParams(args, types, transformed) ==
  IF Len(args) # Len(types) \/ \E i \in DOMAIN types : ~transformed[i].ok THEN Failed
  ELSE Value([i \in DOMAIN types |-> transformed[i].value])

(* The types of what is inside a text: one for all items, one for each of them,
   or one for each member. *)
InnerTypes(text, type) ==
  CASE type.kind = "array" /\ text.is = "array" -> [i \in DOMAIN text.items |-> type.element]
    [] type.kind = "tuple"                      -> type.elements
    [] type.kind = "literal"                    -> type.members
    [] OTHER                                    -> <<>>

(* Every member is looked up, also if it is missing; an array is an object that
   has none. *)
InnerText(text, type, i) ==
  IF type.kind # "literal" THEN Stringify(text.items[i])
  ELSE IF text.is = "object" /\ i \in DOMAIN text.fields THEN Stringify(text.fields[i])
  ELSE Undefined

(* Arrays and tuples, with what became of their items. *)
TransformItems(text, type, inside) ==
  IF ~IsJson(text) \/ text.is # "array" THEN Failed
  ELSE TransformParams(text.items, InnerTypes(text, type), inside)

(* An object, with what became of the members of the type; the others stay as
   they are, and so do the items of an array.  null is an object too, of which
   no member can be read. *)
TransformLiteral(text, type, inside) ==
  LET null == text = Bare("null")
      declared == DOMAIN type.members
      rest == CASE text.is = "object" -> [name \in DOMAIN text.fields \ declared |-> text.fields[name]]
                [] text.is = "array"  -> text.items
                [] OTHER              -> <<>>
  IN IF \/ ~IsJson(text) \/ ~(text.is \in {"object", "array"} \/ null)
        \/ \E name \in declared : null \/ ~inside[name].ok
     THEN Failed
     ELSE Value([null |-> null, members |-> [name \in declared |-> inside[name].value], rest |-> rest])

(* A text by its type, with what became of the texts inside it; a reference to
   any other type leaves the argument undefined. *)
TransformBy(text, type, quotedStrings, inside) ==
  CASE type.kind = "number"             -> AsNumber(text)
    [] type.kind = "bigint"             -> AsBigInt(text)
    [] type.kind = "string"             -> AsString(text, quotedStrings)
    [] type.kind = "boolean"            -> AsBoolean(text)
    [] type.kind = "Uint8Array"         -> AsBytes(text, quotedStrings)
    [] type.kind \in {"array", "tuple"} -> TransformItems(text, type, inside)
    [] type.kind = "literal"            -> TransformLiteral(text, type, inside)
    [] OTHER                            -> Value(Undefined)

(* The code descends into a type as deep as it goes, and takes all strings inside
   a text to be quoted.  Here is the bound of the model: a type, and a text,
   nests no deeper than an array of arrays of words. *)
TransformInnermost(text, type, quotedStrings) ==
  TransformBy(text, type, quotedStrings, [i \in DOMAIN InnerTypes(text, type) |-> Failed])

TransformInner(text, type, quotedStrings) ==
  TransformBy(text, type, quotedStrings,
    [i \in DOMAIN InnerTypes(text, type) |->
       TransformInnermost(InnerText(text, type, i), InnerTypes(text, type)[i], TRUE)])

TransformParam(text, type, quotedStrings) ==
  TransformBy(text, type, quotedStrings,
    [i \in DOMAIN InnerTypes(text, type) |->
       TransformInner(InnerText(text, type, i), InnerTypes(text, type)[i], TRUE)])

(* makeArgumentParser: the parameters after the context, of the constructor or
   of a circuit that the declaration file names. *)
TransformArgs(args, types) ==
  TransformParams(args, types, [i \in DOMAIN types |-> TransformParam(args[i], types[i], FALSE)])

ParseInitializationArgs(declaration, args) ==
  TransformArgs(args, Tail(declaration.initialState))

ParseCircuitArgs(declaration, circuitId, args) ==
  IF circuitId \notin DOMAIN declaration.circuits THEN Failed
  ELSE TransformArgs(args, Tail(declaration.circuits[circuitId]))

-----------------------------------------------------------------------------

(* A word that JSON5 takes without quotes is read inside an array, a tuple or an
   object, and inside an array of those, as it is on its own, whatever its type;
   but a hexadecimal numeral, which becomes decimal there, only if that is no
   string and no bytes.  A word that JSON5 does not take is there an error of the
   whole argument, whatever its type and although it may be right on its own.  A
   string and bytes are written with quotes there, and are read as they are
   without them on their own, if there is no apostrophe in them.  A tuple that
   lacks an element is an error. *)
ArgumentLaw(kind, word) ==
  LET type == Scalar(kind)
      parse(texts, of) == TransformArgs(<<texts>>, <<of>>)
      alone == parse(Bare(word), type)
      array(text) == parse(Items(<<text, text>>), ArrayOf(type))
      tuple(text) == parse(Items(<<text, text>>), TupleOf(<<type, type>>))
      object(text) == parse(Fields([a |-> text]), LiteralOf([a |-> type]))
      arrays(text) == parse(Items(<<Items(<<text, text>>)>>), ArrayOf(ArrayOf(type)))
      objects(text) == parse(Items(<<Fields([a |-> text])>>), ArrayOf(LiteralOf([a |-> type])))
      inside(text) == {array(text).ok, tuple(text).ok, object(text).ok, arrays(text).ok, objects(text).ok}
      alike(text) ==
        /\ inside(text) = {alone.ok}
        /\ alone.ok => /\ array(text).value[1] = alone.value \o alone.value
                       /\ tuple(text).value[1] = array(text).value[1]
                       /\ object(text).value[1].members.a = alone.value[1]
                       /\ arrays(text).value[1] = array(text).value
                       /\ objects(text).value[1] = object(text).value
  IN /\ word \in JsonWord \ {"0xab"} => alike(Bare(word))
     /\ word = "0xab" /\ kind \notin {"string", "Uint8Array"} => alike(Bare(word))
     /\ word \notin JsonWord => inside(Bare(word)) = {FALSE}
     /\ word \notin Apostrophe /\ kind \in {"string", "Uint8Array"} => alike(Quoted(word))
     /\ \A text \in {Bare(word), Quoted(word)} : ~parse(Items(<<text>>), TupleOf(<<type, type>>)).ok

=============================================================================
